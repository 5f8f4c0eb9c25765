---------------------------- MODULE ArchiveWrite ----------------------------
(***************************************************************************)
(* ArchiveWrite (archive.rs): the decrypted archive stream is taken in     *)
(* pieces cut at any place, and the directory tree is created from it.     *)
(*                                                                         *)
(* Each iteration of the loop of write_files is a step.  The file system   *)
(* is a function from the paths that exist, sequences of names below the   *)
(* output directory, to elements.  A new element changes the time of its   *)
(* directory, and needs the permission to write to it.                     *)
(***************************************************************************)
EXTENDS ArchiveFormat

CONSTANTS
  Archives,     \* the possible archives: sequences of entries
  Befores,      \* the possible contents of the output directory before
  Lists,        \* the possible values of option --list-archive
  MaxCut,       \* bound on the units given to write_files at once
  NoTimes,      \* the paths whose times the file system does not let set
  NoPath

\* What is stored of an entry; its path is not that of another one.
Kinds == {"file", "dir", "symlink", "hardlink"}
IsEntry(e) ==
  /\ e.kind \in Kinds /\ e.path \in Seq(Range(e.path)) \ {<<>>} /\ e.path # NoPath
  /\ e.size \in Nat /\ e.segs \in Seq([hole: BOOLEAN, len: Nat \ {0}])

IsArchive(a) ==
  /\ a \in Seq(Range(a)) /\ \A i \in 1..Len(a) : IsEntry(a[i])
  /\ \A i, j \in 1..Len(a) : a[i].path = a[j].path => i = j
IsBefore(b) ==
  /\ b = [p \in DOMAIN b |-> b[p]] /\ {<<>>, NoPath} \cap DOMAIN b = {}
  /\ \A p \in DOMAIN b : DOMAIN b[p] = {"kind", "content", "target", "writable", "time"}

ASSUME WriteAssumption ==
  /\ MaxCut \in Nat \ {0} /\ Lists \subseteq BOOLEAN
  /\ (\A a \in Archives : IsArchive(a)) /\ \A b \in Befores : IsBefore(b)

VARIABLES
  archive,          \* the entries in the stream; fixed
  list,             \* list; fixed
  before,           \* what is in the output directory before; fixed
  rest,             \* what of the stream was not yet given to write_files
  phase,            \* "recv" between two calls, "loop", "links", "times", "ok",
                    \* "err" (refused), "io" (an I/O error of its own)
  bufOut,           \* buf_out
  headerKnown,      \* header_length is Some
  fOut,             \* the path f_out is open on, or NoPath
  fileSize,         \* file_size
  segments,         \* sparse_segments
  segIndex,         \* sparse_segments_index, from 1
  dataSize,         \* data_segment_size
  dirTimes,         \* dir_times: the directories, in their order
  pendingLinks,     \* pending_hardlinks: entries still to be linked
  fs,               \* the file system
  printed           \* the paths printed by verbose_print in list mode

fixed == <<archive, list, before>>
fileVars == <<fOut, fileSize, segments, segIndex, dataSize>>
lateVars == <<dirTimes, pendingLinks>>
vars == <<fixed, rest, phase, bufOut, headerKnown, fileVars, lateVars, fs, printed>>

-----------------------------------------------------------------------------
(* The file system.                                                        *)

Element(kind, content, target, writable) ==
  [kind |-> kind, content |-> content, target |-> target, writable |-> writable,
   time |-> "now"]
NewDir == Element("dir", <<>>, NoPath, TRUE)
Zero == [of |-> NoPath, part |-> "hole", at |-> 0]
Zeros(n) == [i \in 1..n |-> Zero]

Exists(path) == path \in DOMAIN fs
Above(path) == {SubSeq(path, 1, i) : i \in 1..(Len(path) - 1)}

\* The lowest directory on the way to path that exists; <<>> is the output
\* directory itself.
Base(path) == CHOOSE p \in (Above(path) \cap DOMAIN fs) \cup {<<>>} :
                \A q \in Above(path) \cap DOMAIN fs : Len(q) <= Len(p)

\* Mutant: the directories on the way are not created.
MayCreate_NoParents(path) == Len(path) > 1 => Front(path) \in DOMAIN fs

MayCreate(path) ==
  Base(path) # <<>> => fs[Base(path)].kind = "dir" /\ fs[Base(path)].writable

\* create_parent_directory, and the new element.
Create(path, element) ==
  fs' = [p \in DOMAIN fs \cup Above(path) \cup {path} |->
          IF p = path THEN element
          ELSE IF p \notin DOMAIN fs THEN NewDir
          ELSE IF p = Base(path) THEN [fs[p] EXCEPT !.time = "now"]
          ELSE fs[p]]

-----------------------------------------------------------------------------
(* The header.                                                             *)

\* parse_header: a data segment in front of every hole that is not the first
\* byte of the file.
DataBefore(start, hole) == IF hole.from # 0 THEN <<DataSeg(hole.from - start)>> ELSE <<>>

SegmentsFrom(holes, size) ==
  LET start(i) == IF i = 1 THEN 0 ELSE holes[i - 1].to
      all == FlattenSeq([i \in 1..Len(holes) |->
               DataBefore(start(i), holes[i]) \o <<HoleSeg(holes[i].to - holes[i].from)>>])
      end == start(Len(holes) + 1)
  IN  IF holes # <<>> /\ end # size THEN Append(all, DataSeg(size - end)) ELSE all

Refuse == phase' = "err" /\ UNCHANGED <<fileVars, lateVars, fs, printed>>

EvalList(e) ==
  /\ list
  /\ printed' = Append(printed, e.path)
  /\ IF e.kind = "file"
       THEN fileSize' = e.size /\ segments' = SegmentsFrom(Holes(e.segs), e.size)
       ELSE UNCHANGED <<fileSize, segments>>
  /\ UNCHANGED <<phase, fOut, segIndex, dataSize, lateVars, fs>>

\* Mutant: whatever exists is replaced.
Conflict_None(e) == FALSE

Conflict(e) == e.kind # "dir" /\ Exists(e.path)

EvalConflict(e) == ~list /\ Conflict(e) /\ Refuse

EvalHardlink(e) ==
  /\ ~list /\ ~Conflict(e) /\ e.kind = "hardlink"
  /\ pendingLinks' = Append(pendingLinks, e)
  /\ UNCHANGED <<phase, fileVars, dirTimes, fs, printed>>

\* create_dir_all if it does not exist; its permissions at once, its times later.
EvalDirectory(e) ==
  /\ ~list /\ e.kind = "dir"
  /\ IF Exists(e.path)
       THEN fs' = [fs EXCEPT ![e.path].writable = e.writable]
       ELSE MayCreate(e.path) /\ Create(e.path, [NewDir EXCEPT !.writable = e.writable])
  /\ dirTimes' = Append(dirTimes, e.path)
  /\ UNCHANGED <<phase, fileVars, pendingLinks, printed>>

EvalFile(e) ==
  /\ ~list /\ ~Conflict(e) /\ e.kind = "file" /\ MayCreate(e.path)
  /\ Create(e.path, Element("file", <<>>, NoPath, e.writable))
  /\ fOut' = e.path /\ fileSize' = e.size
  /\ segments' = IF Holes(e.segs) = <<>> THEN segments
                                         ELSE SegmentsFrom(Holes(e.segs), e.size)
  /\ UNCHANGED <<phase, segIndex, dataSize, lateVars, printed>>

EvalSymlink(e) ==
  /\ ~list /\ ~Conflict(e) /\ e.kind = "symlink" /\ MayCreate(e.path)
  /\ Create(e.path, [Element("symlink", <<>>, e.target, TRUE) EXCEPT
                         !.time = IF e.path \in NoTimes THEN "now" ELSE "kept"])
  /\ UNCHANGED <<phase, fileVars, lateVars, printed>>

\* The operating system denies the new element.
EvalDenied(e) ==
  /\ ~list /\ ~Conflict(e) /\ e.kind \in {"dir", "file", "symlink"}
  /\ ~Exists(e.path) /\ ~MayCreate(e.path)
  /\ Refuse

EvalHeader(e) ==
  \/ EvalList(e) \/ EvalConflict(e) \/ EvalHardlink(e) \/ EvalDirectory(e)
  \/ EvalFile(e) \/ EvalSymlink(e) \/ EvalDenied(e)

-----------------------------------------------------------------------------
(* write_files.                                                            *)

Init ==
  /\ archive \in Archives /\ list \in Lists /\ before \in Befores /\ fs = before
  /\ rest = FlattenSeq([i \in 1..Len(archive) |-> Units(archive[i])])
  /\ phase = "recv" /\ bufOut = <<>> /\ headerKnown = FALSE
  /\ fOut = NoPath /\ fileSize = 0 /\ segments = <<>> /\ segIndex = 1 /\ dataSize = 0
  /\ dirTimes = <<>> /\ pendingLinks = <<>> /\ printed = <<>>

Drop(s, n) == SubSeq(s, n + 1, Len(s))

\* write_files is called with the next units.
Feed ==
  /\ phase = "recv"
  /\ \E n \in 1..Lesser(MaxCut, Len(rest)) :
       bufOut' = bufOut \o SubSeq(rest, 1, n) /\ rest' = Drop(rest, n)
  /\ phase' = "loop"
  /\ UNCHANGED <<fixed, headerKnown, fileVars, lateVars, fs, printed>>

\* Mutant: in list mode, too, only an open file has data.
InFile_OpenOnly == fOut # NoPath

InFile == IF list THEN fileSize > 0 ELSE fOut # NoPath

\* write_data: n units are taken, and go to the file if one is open.
WriteData(n) ==
  /\ bufOut' = Drop(bufOut, n)
  /\ fileSize' = fileSize - n

Written(n) == IF fOut = NoPath THEN fs
              ELSE [fs EXCEPT ![fOut].content = @ \o SubSeq(bufOut, 1, n)]

\* Times are restored, or else a message is printed and nothing more.
TimesSet(f, paths) ==
  [p \in DOMAIN f |-> IF p \in paths \ NoTimes THEN [f[p] EXCEPT !.time = "kept"] ELSE f[p]]

\* The end of the file: its times are set and it is closed.
Closed(f) == TimesSet(f, {fOut})

WritePlain ==
  /\ phase = "loop" /\ InFile /\ segments = <<>>
  /\ LET n == Lesser(Len(bufOut), fileSize)
     IN  /\ WriteData(n)
         /\ IF fileSize' = 0 THEN fs' = Closed(Written(n)) /\ fOut' = NoPath
                             ELSE fs' = Written(n) /\ UNCHANGED fOut
  /\ phase' = IF bufOut' = <<>> THEN "recv" ELSE phase
  /\ UNCHANGED <<fixed, rest, headerKnown, segments, segIndex, dataSize, lateVars, printed>>

\* After a segment: the file is closed if it was the last one; the call returns
\* if there is nothing left and the next segment is no hole.
AfterSegment(index, size, f) ==
  IF fileSize' = 0
    THEN /\ fs' = Closed(f) /\ fOut' = NoPath
         /\ segments' = <<>> /\ segIndex' = 1 /\ dataSize' = 0
         /\ UNCHANGED phase
    ELSE /\ fs' = f /\ UNCHANGED <<fOut, segments>>
         /\ segIndex' = index /\ dataSize' = size
         /\ phase' = IF bufOut' = <<>> /\ index <= Len(segments) /\ ~segments[index].hole
                       THEN "recv" ELSE phase

WriteSegment ==
  /\ phase = "loop" /\ InFile /\ segments # <<>> /\ ~segments[segIndex].hole
  /\ LET size == IF dataSize = 0 THEN segments[segIndex].len ELSE dataSize
         n    == Lesser(Len(bufOut), size)
     IN  /\ WriteData(n)
         /\ AfterSegment(IF size = n THEN segIndex + 1 ELSE segIndex, size - n, Written(n))
  /\ UNCHANGED <<fixed, rest, headerKnown, lateVars, printed>>

\* Mutant: only seek_relative.
HoleContent_Sought(len) == Zeros(len - 1)

\* seek_relative over all bytes of the hole but one, which is written.
HoleContent(len) == Zeros(len)

WriteHole ==
  /\ phase = "loop" /\ InFile /\ segments # <<>> /\ segments[segIndex].hole
  /\ LET len == segments[segIndex].len
         f   == IF fOut = NoPath THEN fs
                ELSE [fs EXCEPT ![fOut].content = @ \o HoleContent(len)]
     IN  /\ fileSize' = fileSize - len /\ UNCHANGED bufOut
         /\ AfterSegment(segIndex + 1, dataSize, f)
  /\ UNCHANGED <<fixed, rest, headerKnown, lateVars, printed>>

\* parse_header makes sense of the units.
IsHeader(units) == units = Drop(HeaderUnits(units[1].of), 1)

\* The length field of HeaderLen units was read before.
TakeHeader ==
  /\ phase = "loop" /\ ~InFile /\ headerKnown /\ Len(bufOut) >= HeaderLen
  /\ bufOut' = Drop(bufOut, HeaderLen) /\ headerKnown' = FALSE
  /\ IF IsHeader(SubSeq(bufOut, 1, HeaderLen)) THEN EvalHeader(bufOut[1].of) ELSE Refuse
  /\ UNCHANGED <<fixed, rest>>

TakeLength ==
  /\ phase = "loop" /\ ~InFile /\ ~headerKnown /\ bufOut # <<>>
  /\ bufOut' = Drop(bufOut, 1) /\ headerKnown' = TRUE
  /\ UNCHANGED <<fixed, rest, phase, fileVars, lateVars, fs, printed>>

\* Mutant: the loop is not left.
NotEnough_Loop ==
  /\ phase = "loop" /\ ~InFile
  /\ Len(bufOut) < (IF headerKnown THEN HeaderLen ELSE 1)
  /\ UNCHANGED vars

NotEnough ==
  /\ phase = "loop" /\ ~InFile
  /\ Len(bufOut) < (IF headerKnown THEN HeaderLen ELSE 1)
  /\ phase' = "recv"
  /\ UNCHANGED <<fixed, rest, bufOut, headerKnown, fileVars, lateVars, fs, printed>>

\* The disk is full, a file cannot be written.
IoError ==
  /\ phase = "loop" /\ InFile /\ ~list
  /\ phase' = "io"
  /\ UNCHANGED <<fixed, rest, bufOut, headerKnown, fileVars, lateVars, fs, printed>>

-----------------------------------------------------------------------------
(* write_others, after the last call of write_files.                       *)

StartOthers ==
  /\ phase = "recv" /\ rest = <<>>
  /\ phase' = "links"
  /\ UNCHANGED <<fixed, rest, bufOut, headerKnown, fileVars, lateVars, fs, printed>>

\* fs::hard_link
MakeLink ==
  /\ phase = "links" /\ pendingLinks # <<>>
  /\ LET e == Head(pendingLinks)
     IN  IF Exists(e.target) /\ ~Exists(e.path) /\ MayCreate(e.path)
           THEN Create(e.path, fs[e.target]) /\ UNCHANGED phase
           ELSE phase' = "err" /\ UNCHANGED fs
  /\ pendingLinks' = Tail(pendingLinks)
  /\ UNCHANGED <<fixed, rest, bufOut, headerKnown, fileVars, dirTimes, printed>>

LinksMade ==
  /\ phase = "links" /\ pendingLinks = <<>>
  /\ phase' = "times"
  /\ UNCHANGED <<fixed, rest, bufOut, headerKnown, fileVars, lateVars, fs, printed>>

SetDirTimes ==
  /\ phase = "times"
  /\ fs' = TimesSet(fs, Range(dirTimes))
  /\ phase' = "ok"
  /\ UNCHANGED <<fixed, rest, bufOut, headerKnown, fileVars, lateVars, printed>>

Stopped == phase \in {"ok", "err", "io"} /\ UNCHANGED vars

Next ==
  \/ Feed \/ WritePlain \/ WriteSegment \/ WriteHole
  \/ TakeHeader \/ TakeLength \/ NotEnough
  \/ IoError \/ StartOthers \/ MakeLink \/ LinksMade \/ SetDirTimes \/ Stopped

Spec == Init /\ [][Next]_vars

FairSpec == Spec /\ WF_vars(Next)

-----------------------------------------------------------------------------
(* Properties.                                                             *)

Entries == Range(archive)
EntryOf(path) == CHOOSE e \in Entries : e.path = path

\* The bytes of a file: those sent, with zeros in the holes.
InHole(e, offset) ==
  \E i \in 1..Len(Holes(e.segs)) :
    Holes(e.segs)[i].from <= offset /\ offset < Holes(e.segs)[i].to
Content(e) == [j \in 1..e.size |-> IF InHole(e, j - 1) THEN Zero ELSE Byte(e, j - 1)]

\* A hard link whose target was left out of the archive.
Dangling(e) == e.kind = "hardlink" /\ \A f \in Entries : f.path # e.target

IsRestored(e) ==
  /\ Exists(e.path)
  /\ (e.path \notin NoTimes /\ e.kind # "hardlink") => fs[e.path].time = "kept"
  /\ CASE e.kind = "file" -> /\ fs[e.path].kind = "file" /\ fs[e.path].content = Content(e)
                             /\ fs[e.path].writable = e.writable
       [] e.kind = "dir" -> fs[e.path].kind = "dir" /\ fs[e.path].writable = e.writable
       [] e.kind = "symlink" -> fs[e.path].kind = "symlink" /\ fs[e.path].target = e.target
       [] OTHER -> fs[e.path].content = Content(EntryOf(e.target))

\* Ok means that every entry of the archive is restored: its bytes, wherever
\* the stream was cut, the zeros of its holes, its permission, its times (those
\* of directories in spite of the elements created in them later, the hard
\* links included) and the content behind its hard links.
Restored == phase = "ok" /\ ~list => \A e \in Entries : Dangling(e) \/ IsRestored(e)

\* No element that exists is changed, except directories and the file that is
\* being written; and that one is new.  (Where the archive has a directory and
\* there is a file, the file gets the permissions and the times.)
NoOverwrite ==
  [][/\ \A p \in DOMAIN fs :
          p \notin {<<>>, fOut} /\ fs[p].kind # "dir" /\ p \notin Range(dirTimes') =>
            p \in DOMAIN fs' /\ fs'[p] = fs[p]
     /\ fOut' \notin {fOut, NoPath} => fOut' \notin DOMAIN fs]_vars

\* An archive is refused only for an element in the way that was there before or
\* for a hard link without its target: no order of the entries that the parallel
\* readers can produce is refused.
Occupied ==
  \E p \in DOMAIN before : \E e \in Entries :
    \/ p \in Above(e.path) \cup {e.path} /\ before[p].kind # "dir"
    \/ p = e.path /\ e.kind # "dir"
ErrHasCause == phase = "err" => Occupied \/ \E e \in Entries : Dangling(e)

\* Listing prints the entries of the archive, each once and in its order,
\* although it skips their data, and creates nothing.
ListIsArchive ==
  list => /\ fs = before
          /\ phase = "ok" => printed = [i \in 1..Len(archive) |-> archive[i].path]
          /\ phase # "err"

\* The loop of write_files never turns without taking something: the run ends.
Ends == <>(phase \in {"ok", "err", "io"})

-----------------------------------------------------------------------------
(* What the theorems suppose of the archive and of what was there before.  *)

\* The files did not change while they were archived, and what scan_chunks found
\* are segments that cannot be longer.
Alternating(segs) == \A i \in 1..(Len(segs) - 1) : segs[i].hole # segs[i + 1].hole
IsTruthful(e) ==
  e.kind = "file" /\ e.segs # <<>> =>
    SegStart(e.segs, Len(e.segs) + 1) = e.size /\ Alternating(e.segs)
TruthfulArchives == \A a \in Archives : \A i \in 1..Len(a) : IsTruthful(a[i])

\* A hard link is one to a file: the walker looks for links among files only.
LinksToFiles ==
  \A e, f \in Entries : e.kind = "hardlink" /\ f.path = e.target => f.kind = "file"

\* What is above another entry is a directory: the archive is made of a tree.
TreeShaped == \A e, f \in Entries : e.path \in Above(f.path) => e.kind = "dir"

\* Where the archive has a directory, there is nothing else.
NoFileAtDir ==
  \A e \in Entries : e.kind = "dir" /\ e.path \in DOMAIN before => before[e.path].kind = "dir"

\* Directories may be written to: those of the archive, and those before.
DirsWritable ==
  /\ \A e \in Entries : e.kind = "dir" => e.writable = TRUE
  /\ \A p \in DOMAIN before : before[p].kind = "dir" => before[p].writable = TRUE
=============================================================================
