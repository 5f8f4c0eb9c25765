------------------------------ MODULE IoChunks ------------------------------
(***************************************************************************)
(* CryptIo::io_chunks (common_io.rs): the main thread reads chunks and     *)
(* sends them to the crypt threads, a writer thread puts the results back  *)
(* in order, and main joins the threads and decides what to report.        *)
(*                                                                         *)
(* The module has the main thread, the writer thread, the two crossbeam    *)
(* channels and the exit state of each crypt thread.  What the crypt       *)
(* threads do is left to the modules that extend this one.                 *)
(*                                                                         *)
(* A channel is a bounded sequence.  Its ends are not variables: an end is *)
(* open while a thread that owns a clone of it runs.                       *)
(***************************************************************************)
EXTENDS Naturals, Sequences

CONSTANTS
  Sources,      \* the chunk sequences a source may deliver
  CapIn,        \* capacity of tx_in/rx_in   (2 * cpu_count in the code)
  CapOut,       \* capacity of tx_out/rx_out (cpu_count in the code)
  NHandles,     \* number of crypt threads, numbered in thread_handles order
  InSide,       \* the crypt threads that own a clone of rx_in
  OutSide       \* the crypt threads that own a clone of tx_out

Threads == 1..NHandles

ASSUME IoAssumption ==
  /\ \A s \in Sources : Len(s) \in Nat \ {0}
  /\ CapIn \in Nat \ {0} /\ CapOut \in Nat \ {0}
  /\ NHandles \in Nat \ {0}
  /\ InSide \subseteq Threads /\ OutSide \subseteq Threads

VARIABLES
  source,       \* the chunks of this run; the last one is flagged final
  mpc,          \* main: "read", "send", "joinWriter", "joinCrypt", "done", "exited"
  chunkCount,   \* main: chunk_count, the number of the chunk read or to be read
  joined,       \* main: how many crypt handles were joined
  result,       \* what io_chunks returned: "none", "ok", "read", "writer", "crypt"
  chIn, chOut,  \* the channels tx_in/rx_in and tx_out/rx_out
  ending,       \* crypt threads: "running", "ok" or "err"
  wpc,          \* writer: "recv", "drain", "others", "ok", "err"
  pending,      \* writer: pending_chunks, the results that wait for their turn
  writeIndex,   \* writer: write_index
  written,      \* what write_files has been given
  finalised     \* write_others has run to its end

mainVars == <<source, mpc, chunkCount, joined, result>>
writerVars == <<wpc, pending, writeIndex, written, finalised>>
ioVars == <<source, mpc, chunkCount, joined, result, chIn, chOut, ending,
            wpc, pending, writeIndex, written, finalised>>

IoInit ==
  /\ source \in Sources
  /\ mpc = "read" /\ chunkCount = 0 /\ joined = 0 /\ result = "none"
  /\ chIn = <<>> /\ chOut = <<>>
  /\ ending = [t \in Threads |-> "running"]
  /\ wpc = "recv" /\ pending = {} /\ writeIndex = 0
  /\ written = <<>> /\ finalised = FALSE

Alive == mpc # "exited"        \* the process: its end is the end of all threads
WriterRuns == wpc \notin {"ok", "err"}

\* Mutant: drop(tx_in) only after the joins.
TxInOpen_Late == mpc \notin {"done", "exited"}

TxInOpen  == mpc \in {"read", "send"}
RxInOpen  == \E t \in InSide : ending[t] = "running"
TxOutOpen == \E t \in OutSide : ending[t] = "running"
RxOutOpen == wpc \in {"recv", "drain"}

NChunks == Len(source)        \* read_chunk is called at least once: NChunks > 0
IsFinal(k) == k = NChunks - 1
InMsg(k) == [buf |-> source[k + 1], idx |-> k, final |-> IsFinal(k)]

-----------------------------------------------------------------------------
(* The main thread.                                                        *)

Return(r) == mpc' = "done" /\ result' = r

\* read_chunk()? succeeds: the chunk is in a local of main.
MainRead ==
  /\ mpc = "read"
  /\ mpc' = "send"
  /\ UNCHANGED <<source, chunkCount, joined, result, chIn, chOut, ending, writerVars>>

\* read_chunk()? fails: io_chunks returns at once and joins nothing.
MainReadError ==
  /\ mpc = "read"
  /\ Return("read")
  /\ UNCHANGED <<source, chunkCount, joined, chIn, chOut, ending, writerVars>>

SendChunk ==
  /\ mpc = "send" /\ RxInOpen /\ Len(chIn) < CapIn
  /\ chIn' = Append(chIn, InMsg(chunkCount))

\* The loop ends after the chunk flagged final; then main drops tx_in.
MainSend ==
  /\ SendChunk
  /\ chunkCount' = chunkCount + 1
  /\ mpc' = IF IsFinal(chunkCount) THEN "joinWriter" ELSE "read"
  /\ UNCHANGED <<source, joined, result, chOut, ending, writerVars>>

\* Every 256 chunks a progress dot is printed; if stdout cannot be flushed,
\* main returns at once, like after a read error.
MainProgressError ==
  /\ SendChunk /\ chunkCount % 256 = 0
  /\ Return("read")
  /\ UNCHANGED <<source, chunkCount, joined, chOut, ending, writerVars>>

\* Mutant: a failed send is tried again.
MainSendClosed_Retry ==
  /\ mpc = "send" /\ ~RxInOpen
  /\ UNCHANGED ioVars

\* send() fails as no crypt thread holds rx_in: main leaves the loop, without
\* an error of its own, so that the crypt threads' errors can be reported.
MainSendClosed ==
  /\ mpc = "send" /\ ~RxInOpen
  /\ mpc' = "joinWriter"
  /\ UNCHANGED <<source, chunkCount, joined, result, chIn, chOut, ending, writerVars>>

\* Mutant: the writer's verdict is taken without waiting for it.
MainJoinWriter_NoWait ==
  /\ mpc = "joinWriter"
  /\ IF wpc = "err" THEN Return("writer")
                    ELSE mpc' = "joinCrypt" /\ UNCHANGED result
  /\ UNCHANGED <<source, chunkCount, joined, chIn, chOut, ending, writerVars>>

\* Mutant: an error of the writer is dropped.
MainJoinWriter_Dropped ==
  /\ mpc = "joinWriter" /\ ~WriterRuns
  /\ mpc' = "joinCrypt"
  /\ UNCHANGED <<source, chunkCount, joined, result, chIn, chOut, ending, writerVars>>

MainJoinWriter ==
  /\ mpc = "joinWriter" /\ ~WriterRuns
  /\ IF wpc = "err" THEN Return("writer")
                    ELSE mpc' = "joinCrypt" /\ UNCHANGED result
  /\ UNCHANGED <<source, chunkCount, joined, chIn, chOut, ending, writerVars>>

\* The handles are joined in their order; the first error is returned.
MainJoinCrypt ==
  /\ mpc = "joinCrypt" /\ joined < NHandles
  /\ ending[joined + 1] # "running"
  /\ IF ending[joined + 1] = "err"
       THEN Return("crypt") /\ UNCHANGED joined
       ELSE joined' = joined + 1 /\ UNCHANGED <<mpc, result>>
  /\ UNCHANGED <<source, chunkCount, chIn, chOut, ending, writerVars>>

MainOk ==
  /\ mpc = "joinCrypt" /\ joined = NHandles
  /\ Return("ok")
  /\ UNCHANGED <<source, chunkCount, joined, chIn, chOut, ending, writerVars>>

\* main() prints the error, if any, and returns: threads not joined are killed.
MainExit ==
  /\ mpc = "done"
  /\ mpc' = "exited"
  /\ UNCHANGED <<source, chunkCount, joined, result, chIn, chOut, ending, writerVars>>

MainNext ==
  \/ MainRead \/ MainReadError \/ MainSend \/ MainProgressError
  \/ MainSendClosed \/ MainJoinWriter \/ MainJoinCrypt \/ MainOk \/ MainExit

-----------------------------------------------------------------------------
(* The writer thread.                                                      *)

WriterRecv ==
  /\ Alive /\ wpc = "recv" /\ chOut # <<>>
  /\ pending' = pending \cup {Head(chOut)}
  /\ chOut' = Tail(chOut)
  /\ wpc' = "drain"
  /\ UNCHANGED <<mainVars, chIn, ending, writeIndex, written, finalised>>

\* Mutant: results are written as they come.
WriterWrite_Unordered ==
  /\ Alive /\ wpc = "drain"
  /\ \E m \in pending :
       /\ written' = Append(written, m.buf)
       /\ pending' = pending \ {m}
  /\ writeIndex' = writeIndex + 1
  /\ UNCHANGED <<mainVars, chIn, chOut, ending, wpc, finalised>>

\* Mutant: get instead of remove.
WriterWrite_Kept ==
  /\ Alive /\ wpc = "drain"
  /\ \E m \in pending :
       /\ m.idx = writeIndex
       /\ written' = Append(written, m.buf)
  /\ writeIndex' = writeIndex + 1
  /\ UNCHANGED <<mainVars, chIn, chOut, ending, wpc, pending, finalised>>

\* pending_chunks.remove(&write_index), then write_files.
WriterWrite ==
  /\ Alive /\ wpc = "drain"
  /\ \E m \in pending :
       /\ m.idx = writeIndex
       /\ written' = Append(written, m.buf)
       /\ pending' = pending \ {m}
  /\ writeIndex' = writeIndex + 1
  /\ UNCHANGED <<mainVars, chIn, chOut, ending, wpc, finalised>>

\* write_files fails: the writer ends with the error and drops rx_out.
WriterWriteError ==
  /\ Alive /\ wpc = "drain"
  /\ \E m \in pending : m.idx = writeIndex /\ pending' = pending \ {m}
  /\ wpc' = "err"
  /\ UNCHANGED <<mainVars, chIn, chOut, ending, writeIndex, written, finalised>>

WriterDrained ==
  /\ Alive /\ wpc = "drain"
  /\ \A m \in pending : m.idx # writeIndex
  /\ wpc' = "recv"
  /\ UNCHANGED <<mainVars, chIn, chOut, ending, pending, writeIndex, written,
                 finalised>>

\* All clones of tx_out are gone and nothing is left in the channel.
WriterRecvClosed ==
  /\ Alive /\ wpc = "recv" /\ chOut = <<>> /\ ~TxOutOpen
  /\ wpc' = "others"
  /\ UNCHANGED <<mainVars, chIn, chOut, ending, pending, writeIndex, written,
                 finalised>>

\* write_others runs whatever the reason the channel was closed for.
WriterOthers ==
  /\ Alive /\ wpc = "others"
  /\ wpc' = "ok" /\ finalised' = TRUE
  /\ UNCHANGED <<mainVars, chIn, chOut, ending, pending, writeIndex, written>>

WriterOthersError ==
  /\ Alive /\ wpc = "others"
  /\ wpc' = "err"
  /\ UNCHANGED <<mainVars, chIn, chOut, ending, pending, writeIndex, written,
                 finalised>>

WriterNext ==
  \/ WriterRecv \/ WriterWrite \/ WriterWriteError \/ WriterDrained
  \/ WriterRecvClosed \/ WriterOthers \/ WriterOthersError

=============================================================================
