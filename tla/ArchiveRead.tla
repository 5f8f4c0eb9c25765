---------------------------- MODULE ArchiveRead ----------------------------
(***************************************************************************)
(* ArchiveRead (archive.rs): one thread walks the directory tree, several  *)
(* workers build the headers and read the files, each into a channel of    *)
(* its own, and the main thread, in io_chunks, takes what they send into   *)
(* one stream that it hands on in chunks.                                  *)
(*                                                                         *)
(*   walker --chPaths--> worker t --chData[t]--> read_chunk --> chunks     *)
(*                                                                         *)
(* The receivers of all channels live in the ArchiveRead value, which main *)
(* owns until the program ends.  What follows the chunks (IoChunks) is     *)
(* here only the possibility that it stops taking them.                    *)
(***************************************************************************)
EXTENDS ArchiveFormat

Path == INSTANCE Paths

CONSTANTS
  ExcludePath,  \* exclude_path: the canonical path of the output, for each tree
  NOutputs,     \* how many files the output has, if it is split
  Trees,        \* the possible directory trees, as the sequence WalkDir yields
  NWorkers,     \* num_workers
  CapPaths,     \* capacity of tx_paths/rx_paths (2 * num_workers in the code)
  CapData,      \* capacity of tx_out/rx_out of a worker (num_workers)
  ChunkLen,     \* CHUNK_SIZE again, as the size of the chunks handed on
  NoPath, NoWorker

Workers == 1..NWorkers

\* What WalkDir and the metadata say of an element; see ArchiveFormat.
Fields == {"path", "at", "kind", "size", "segs", "inode", "device", "links", "target"}
IsEntry(e) ==
  /\ DOMAIN e = Fields
  /\ e.size \in Nat /\ e.links \in Nat /\ e.segs \in Seq([hole: BOOLEAN, len: Nat \ {0}])

ASSUME ReadAssumption ==
  /\ NWorkers \in Nat \ {0} /\ CapPaths \in Nat \ {0} /\ CapData \in Nat \ {0}
  /\ ChunkLen \in Nat \ {0} /\ NoWorker \notin Workers
  /\ \A t \in Trees :
       /\ Len(t) \in Nat
       /\ \A i \in 1..Len(t) :
            IsEntry(t[i]) /\ t[i].kind \in {"file", "dir", "symlink"} /\ Path!IsPath(t[i].at)
       /\ \A i, j \in 1..Len(t) : t[i].path = t[j].path => i = j
  /\ \A t \in Trees : Path!Decryptable(Path!FileName(ExcludePath[t]))
  /\ NOutputs \in Nat \ {0}

VARIABLES
  tree,             \* the directory tree; fixed
  walkNo,           \* walker: the next entry; past the end when it has ended
  hardLinkFiles,    \* walker: hard_link_files, the path of each file id
  chPaths,          \* tx_paths/rx_paths
  working,          \* workers: "running", "ok" or "err"
  todo,             \* workers: the messages of the entry in hand still to be sent
  chData,           \* the channels tx_out/rx_out of the workers
  channelIndex,     \* main: channel_index
  channelFinished,  \* main: channel_finished
  bufOut,           \* main: buf_out
  chunks,           \* the chunks read_chunk returned: units and last flag
  mpc,              \* main: "read", "send" (a chunk is in hand), "join", "ended"
  stopped,          \* main left the loop as nobody takes its chunks any more
  joined,           \* main: how many thread handles were joined
  result,           \* "none", "ok" or "err"
  skipped,          \* entries left out with a message; a history variable
  excluded          \* entries left out without one; a history variable

walkerVars == <<walkNo, hardLinkFiles>>
workerVars == <<working, todo>>
readVars == <<channelIndex, channelFinished, bufOut, chunks>>
mainVars == <<mpc, stopped, joined, result>>
leftOut == <<skipped, excluded>>
vars == <<tree, walkerVars, chPaths, workerVars, chData, readVars, mainVars, leftOut>>

Alive == mpc # "ended"
WalkerEnded == walkNo > Len(tree)
RxPathsOpen == \E t \in Workers : working[t] = "running"
Disconnected(t) == working[t] # "running" /\ chData[t] = <<>>

Init ==
  /\ tree \in Trees
  /\ walkNo = 1 /\ hardLinkFiles = {} /\ chPaths = <<>>
  /\ working = [t \in Workers |-> "running"] /\ todo = [t \in Workers |-> <<>>]
  /\ chData = [t \in Workers |-> <<>>]
  /\ channelIndex = NoWorker /\ channelFinished = [t \in Workers |-> FALSE]
  /\ bufOut = <<>> /\ chunks = <<>>
  /\ mpc = "read" /\ stopped = FALSE /\ joined = 0 /\ result = "none"
  /\ skipped = {} /\ excluded = {}

-----------------------------------------------------------------------------
(* The walker.                                                             *)

\* file_meta_for_hardlink on Unix: meta.ino(), not the device.
FileId(e) == e.inode

Known(e) == \E h \in hardLinkFiles : h.id = FileId(e)
LinkTarget(e) == (CHOOSE h \in hardLinkFiles : h.id = FileId(e)).path
Linked(e) == e.kind = "file" /\ e.links > 1

\* What is sent for an entry: itself, or the hard link it is found to be.
Found(e) ==
  IF Linked(e) /\ Known(e)
    THEN [e EXCEPT !.kind = "hardlink", !.target = LinkTarget(e)]
    ELSE e

\* Mutant: the path is stored again at every link.
Remembered_Latest(e) ==
  IF Linked(e)
    THEN {h \in hardLinkFiles : h.id # FileId(e)} \cup {[id |-> FileId(e), path |-> e.path]}
    ELSE hardLinkFiles

Remembered(e) ==
  IF Linked(e) /\ ~Known(e)
    THEN hardLinkFiles \cup {[id |-> FileId(e), path |-> e.path]}
    ELSE hardLinkFiles

\* The output of this run is not archived, wherever in the tree it is.
Excluded(e) == e.kind = "file" /\ Path!ExcludeFile(e.at, ExcludePath[tree])

WalkEntry ==
  /\ Alive /\ ~WalkerEnded
  /\ LET e == tree[walkNo]
     IN  /\ ~Excluded(e)
         /\ IF RxPathsOpen
              THEN Len(chPaths) < CapPaths /\ chPaths' = Append(chPaths, Found(e))
              ELSE UNCHANGED chPaths          \* let _ = tx_paths.send(..)
         /\ hardLinkFiles' = Remembered(e)
  /\ walkNo' = walkNo + 1
  /\ UNCHANGED <<tree, workerVars, chData, readVars, mainVars, leftOut>>

WalkExclude ==
  /\ Alive /\ ~WalkerEnded /\ Excluded(tree[walkNo])
  /\ walkNo' = walkNo + 1
  /\ excluded' = excluded \cup {tree[walkNo].path}
  /\ UNCHANGED <<tree, hardLinkFiles, chPaths, workerVars, chData, readVars, mainVars,
                 skipped>>

\* WalkDir cannot read the entry.
WalkError ==
  /\ Alive /\ ~WalkerEnded
  /\ walkNo' = walkNo + 1
  /\ skipped' = skipped \cup {tree[walkNo].path}
  /\ UNCHANGED <<tree, hardLinkFiles, chPaths, workerVars, chData, readVars, mainVars,
                 excluded>>

Walker == WalkEntry \/ WalkExclude \/ WalkError

-----------------------------------------------------------------------------
(* The workers.                                                            *)

Ready(t) == Alive /\ working[t] = "running" /\ todo[t] = <<>>

WorkerTake(t) ==
  /\ Ready(t) /\ chPaths # <<>>
  /\ todo' = [todo EXCEPT ![t] = Messages(Head(chPaths))]
  /\ chPaths' = Tail(chPaths)
  /\ UNCHANGED <<tree, walkerVars, working, chData, readVars, mainVars, leftOut>>

\* build_header or File::open fails: nothing of the entry was sent yet.
WorkerSkip(t) ==
  /\ Ready(t) /\ chPaths # <<>>
  /\ skipped' = skipped \cup {Head(chPaths).path}
  /\ chPaths' = Tail(chPaths)
  /\ UNCHANGED <<tree, walkerVars, workerVars, chData, readVars, mainVars, excluded>>

\* The header, or the next piece of the file: read_exact, then tx_out.send.
WorkerSend(t) ==
  /\ Alive /\ working[t] = "running" /\ todo[t] # <<>>
  /\ Len(chData[t]) < CapData
  /\ chData' = [chData EXCEPT ![t] = Append(@, Head(todo[t]))]
  /\ todo' = [todo EXCEPT ![t] = Tail(@)]
  /\ UNCHANGED <<tree, walkerVars, chPaths, working, readVars, mainVars, leftOut>>

\* The file is shorter than its header says, or cannot be read: the thread ends
\* with the error, in the middle of an entry.
WorkerReadError(t) ==
  /\ Alive /\ working[t] = "running"
  /\ todo[t] # <<>> /\ Head(todo[t]).units # <<>>
  /\ Head(todo[t]).units[1].part = "data"
  /\ working' = [working EXCEPT ![t] = "err"]
  /\ todo' = [todo EXCEPT ![t] = <<>>]
  /\ UNCHANGED <<tree, walkerVars, chPaths, chData, readVars, mainVars, leftOut>>

WorkerEnd(t) ==
  /\ Ready(t) /\ chPaths = <<>> /\ WalkerEnded
  /\ working' = [working EXCEPT ![t] = "ok"]
  /\ UNCHANGED <<tree, walkerVars, chPaths, todo, chData, readVars, mainVars, leftOut>>

Worker(t) ==
  WorkerTake(t) \/ WorkerSkip(t) \/ WorkerSend(t) \/ WorkerReadError(t) \/ WorkerEnd(t)

-----------------------------------------------------------------------------
(* read_chunk and join_threads, in the main thread.                        *)

\* Mutant: one worker has ended.
AllFinished_Any == \E t \in Workers : channelFinished[t]

AllFinished == \A t \in Workers : channelFinished[t]
Filling == mpc = "read" /\ ~AllFinished /\ Len(bufOut) <= ChunkLen

Receive(t) ==
  /\ chData[t] # <<>>
  /\ bufOut' = bufOut \o Head(chData[t]).units
  /\ chData' = [chData EXCEPT ![t] = Tail(@)]

\* recv() on the channel of the entry in progress; it blocks until there is a
\* message or the worker is gone.
ReadSticky ==
  /\ Filling /\ channelIndex # NoWorker
  /\ Receive(channelIndex)
  /\ channelIndex' = IF Head(chData[channelIndex]).last THEN NoWorker ELSE channelIndex
  /\ UNCHANGED <<tree, walkerVars, chPaths, workerVars, channelFinished, chunks, mainVars,
                 leftOut>>

\* Mutant: main waits for the entry in progress, whatever becomes of its worker.
Selecting_Free == Filling /\ channelIndex = NoWorker

Selecting == Filling /\ (channelIndex # NoWorker => Disconnected(channelIndex))

\* Mutant: the entry in progress is not remembered.
ReadSelected_Forget ==
  /\ Selecting
  /\ \E t \in Workers : Receive(t) /\ channelIndex' = channelIndex
  /\ UNCHANGED <<tree, walkerVars, chPaths, workerVars, channelFinished, chunks, mainVars,
                 leftOut>>

\* Select::ready, then try_recv on the channel it names.
ReadSelected ==
  /\ Selecting
  /\ \E t \in Workers :
       /\ Receive(t)
       /\ channelIndex' = IF Head(chData[t]).last THEN channelIndex ELSE t
  /\ UNCHANGED <<tree, walkerVars, chPaths, workerVars, channelFinished, chunks, mainVars,
                 leftOut>>

\* The worker has ended and its channel is empty.  Select may name the channel
\* again later, which changes nothing; it picks among the ready ones at random.
ReadDisconnected ==
  /\ Selecting
  /\ \E t \in Workers :
       /\ Disconnected(t) /\ ~channelFinished[t]
       /\ channelFinished' = [channelFinished EXCEPT ![t] = TRUE]
  /\ UNCHANGED <<tree, walkerVars, chPaths, workerVars, chData, channelIndex, bufOut,
                 chunks, mainVars, leftOut>>

ChunkReady == mpc = "read" /\ ~Filling

\* read_chunk returns a full chunk.
ReadChunk ==
  /\ ChunkReady /\ Len(bufOut) > ChunkLen
  /\ chunks' = Append(chunks, [units |-> SubSeq(bufOut, 1, ChunkLen), last |-> FALSE])
  /\ bufOut' = SubSeq(bufOut, ChunkLen + 1, Len(bufOut))
  /\ mpc' = "send"
  /\ UNCHANGED <<tree, walkerVars, chPaths, workerVars, chData, channelIndex,
                 channelFinished, stopped, joined, result, leftOut>>

\* All channels are finished: the last chunk, which may be empty.
ReadLastChunk ==
  /\ ChunkReady /\ Len(bufOut) <= ChunkLen
  /\ chunks' = Append(chunks, [units |-> bufOut, last |-> TRUE])
  /\ mpc' = "send"
  /\ UNCHANGED <<tree, walkerVars, chPaths, workerVars, chData, channelIndex,
                 channelFinished, bufOut, stopped, joined, result, leftOut>>

\* io_chunks sends the chunk to the crypt threads, and asks for the next one.
SendOn ==
  /\ mpc = "send"
  /\ mpc' = IF Last(chunks).last THEN "join" ELSE "read"
  /\ UNCHANGED <<tree, walkerVars, chPaths, workerVars, chData, readVars, stopped, joined,
                 result, leftOut>>

\* tx_in.send fails as the crypt threads have ended: main leaves the loop.
Stop ==
  /\ mpc = "send"
  /\ mpc' = "join" /\ stopped' = TRUE
  /\ UNCHANGED <<tree, walkerVars, chPaths, workerVars, chData, readVars, joined, result,
                 leftOut>>

\* The progress dot cannot be flushed: io_chunks returns without any join.
ProgressError ==
  /\ mpc = "send"
  /\ mpc' = "ended" /\ result' = "err"
  /\ UNCHANGED <<tree, walkerVars, chPaths, workerVars, chData, readVars, stopped, joined,
                 leftOut>>

\* The handles: the walker's, then those of the workers.
NHandles == NWorkers + 1
HandleEnded(h) == IF h = 1 THEN WalkerEnded ELSE working[h - 1] # "running"
HandleFailed(h) == h > 1 /\ working[h - 1] = "err"

\* Mutant: the workers' errors are not looked at.
Join_Ignore ==
  /\ mpc = "join" /\ joined < NHandles /\ HandleEnded(joined + 1)
  /\ joined' = joined + 1 /\ UNCHANGED <<mpc, result>>
  /\ UNCHANGED <<tree, walkerVars, chPaths, workerVars, chData, readVars, stopped, leftOut>>

\* An error ends io_chunks at once.
Join ==
  /\ mpc = "join" /\ joined < NHandles /\ HandleEnded(joined + 1)
  /\ IF HandleFailed(joined + 1)
       THEN mpc' = "ended" /\ result' = "err" /\ UNCHANGED joined
       ELSE joined' = joined + 1 /\ UNCHANGED <<mpc, result>>
  /\ UNCHANGED <<tree, walkerVars, chPaths, workerVars, chData, readVars, stopped, leftOut>>

JoinedAll ==
  /\ mpc = "join" /\ joined = NHandles
  /\ mpc' = "ended" /\ result' = "ok"
  /\ UNCHANGED <<tree, walkerVars, chPaths, workerVars, chData, readVars, stopped, joined,
                 leftOut>>

Main ==
  \/ ReadSticky \/ ReadSelected \/ ReadDisconnected \/ ReadChunk \/ ReadLastChunk
  \/ SendOn \/ Stop \/ ProgressError \/ Join \/ JoinedAll

Ended == mpc = "ended" /\ UNCHANGED vars

Next == Walker \/ (\E t \in Workers : Worker(t)) \/ Main \/ Ended

Spec == Init /\ [][Next]_vars

FairSpec ==
  Spec /\ WF_vars(Walker) /\ WF_vars(Main) /\ \A t \in Workers : WF_vars(Worker(t))

-----------------------------------------------------------------------------
(* Properties.                                                             *)

Stream == FlattenSeq([i \in 1..Len(chunks) |-> chunks[i].units])
Archived == {Stream[i].of : i \in 1..Len(Stream)}

Successor(u, v) == \E i \in 1..(Len(Units(u.of)) - 1) : Units(u.of)[i] = u
                                                      /\ Units(u.of)[i + 1] = v
First(u) == u = Units(u.of)[1]
Complete(u) == u = Last(Units(u.of))

\* The entries do not mix, although several workers read several files at the
\* same time: a unit is followed by the next unit of the same entry, or ends
\* its entry.  Only the entry of a worker that failed may break off; then the
\* error is reported (OkIsWhole).
Failed == \E t \in Workers : working[t] = "err"
Unmixed ==
  /\ Stream # <<>> => First(Stream[1])
  /\ \A i \in 1..(Len(Stream) - 1) :
       \/ Successor(Stream[i], Stream[i + 1])
       \/ First(Stream[i + 1]) /\ (Complete(Stream[i]) \/ Failed)

\* Where the units of e are in the stream, and that they lie there together, all
\* of them, once and in order.
PlacesOf(e) == {i \in 1..Len(Stream) : Stream[i].of = e}
WholeIn(e) ==
  \E k \in 0..(Len(Stream) - Len(Units(e))) :
    /\ PlacesOf(e) = (k + 1)..(k + Len(Units(e)))
    /\ \A j \in 1..Len(Units(e)) : Stream[k + j] = Units(e)[j]

\* Ok without having been stopped: every entry that was not reported as skipped
\* is in the stream, once and with all of its units, and the stream was closed
\* by a last chunk.
All == {tree[i].path : i \in 1..Len(tree)}
OkIsWhole ==
  result = "ok" /\ ~stopped =>
    /\ {e.path : e \in Archived} = All \ (skipped \cup excluded)
    /\ \A e, f \in Archived : e.path = f.path => e = f
    /\ \A e \in Archived : WholeIn(e)
    /\ chunks # <<>> /\ Last(chunks).last

\* The chunks have all the same size but for the last one, and only the last
\* one is flagged; the flag is given after every worker has ended.
ChunkSizes ==
  \A i \in 1..Len(chunks) :
    IF chunks[i].last
      THEN i = Len(chunks) /\ Len(chunks[i].units) <= ChunkLen
             /\ \A t \in Workers : working[t] # "running"
      ELSE Len(chunks[i].units) = ChunkLen

\* A hard link in the archive is the same file as its target, and the target is
\* no hard link itself: one pass over the links suffices to restore them.
EntryAt(path) == tree[CHOOSE i \in 1..Len(tree) : tree[i].path = path]
SameFile(e, f) == e.inode = f.inode /\ e.device = f.device
LinkIsSameFile ==
  \A e \in Archived : e.kind = "hardlink" =>
    /\ SameFile(e, EntryAt(e.target))
    /\ \A f \in Archived : f.path = e.target => f.kind = "file"

\* The data that follow a header are as many as the header says: the size less
\* the holes.  The reader of the archive takes what comes next as a header.
HoleBytes(e) == UNION {h.from..(h.to - 1) : h \in Range(Holes(e.segs))}
DataIsAsHeaderSays ==
  \A e \in Archived : e.kind = "file" =>
    Cardinality({i \in PlacesOf(e) : Stream[i].part = "data"}) <= e.size - Cardinality(HoleBytes(e))

\* What scan_chunks found ends where the file ended when its size was taken, or
\* before: the file did not grow in between.  A premise of DataIsAsHeaderSays.
SegmentsFit ==
  \A t \in Trees : \A i \in 1..Len(t) :
    t[i].segs # <<>> => SegStart(t[i].segs, Len(t[i].segs) + 1) <= t[i].size

\* What is left out of the archive without a message is the output of this run,
\* all of its files, and nothing else: the names WriteOutput gives to its files
\* are those exclude_file knows.
OutputExt == Path!Ext(Path!FileName(ExcludePath[tree]))
NFiles == IF OutputExt = Path!C00 THEN NOutputs ELSE 1
Outputs == {Path!SeriesPath(ExcludePath[tree], i) : i \in 0..(NFiles - 1)}
ExcludedIsOutput ==
  /\ \A i \in 1..Len(tree) : tree[i].path \in excluded => tree[i].at \in Outputs
  /\ \A e \in Archived : e.at \notin Outputs

\* If its chunks are taken, the reading ends, also if files cannot be read and
\* workers end in the middle of an entry that main waits for.
Completes == <>(mpc = "ended" \/ stopped)

\* Main ends after it left the loop because its chunks are not taken any more;
\* else the error that made them stop, which it asks for after join_threads, is
\* never shown.
StopEnds == stopped ~> (mpc = "ended")
=============================================================================
