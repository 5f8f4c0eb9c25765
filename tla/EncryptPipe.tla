---------------------------- MODULE EncryptPipe ----------------------------
(***************************************************************************)
(* io_chunks with the threads of Encryption::encrypt_pipe when compression *)
(* is on:                                                                  *)
(*                                                                         *)
(*   main --chIn--> compress --chC--> resegment --chE--> encrypt --chOut-->*)
(*   writer                                                                *)
(*                                                                         *)
(* The single resegmentation thread puts the compressed chunks in order    *)
(* and cuts their stream into segments of SegSize, which are numbered and  *)
(* flagged anew.                                                           *)
(***************************************************************************)
EXTENDS IoChunks, Framing, Sealing

CONSTANTS
  NCompress, NEncrypt,   \* c_thread_cnt and e_thread_cnt
  CapC, CapE,            \* capacities of tx_c/rx_c and tx_e/rx_e
  NoChunk

Compressors == 1..NCompress
Resegmenter == NCompress + 1
Encryptors  == (NCompress + 2)..(NCompress + 1 + NEncrypt)
Workers     == Compressors \cup Encryptors

ASSUME EncryptAssumption ==
  /\ NCompress \in Nat \ {0} /\ NEncrypt \in Nat \ {0}
  /\ CapC \in Nat \ {0} /\ CapE \in Nat \ {0}
  /\ \A s \in Sources : \A i \in 1..Len(s) : s[i].size \in Nat
  /\ NHandles = NCompress + 1 + NEncrypt
  /\ InSide = Compressors /\ OutSide = Encryptors

VARIABLES
  chC, chE,     \* the channels around the resegmentation thread
  stage, hold,  \* the workers, as in CryptPipe
  rpc,          \* resegment: "recv", "drain", "cut", "flush", "ended"
  rPending,     \* resegment: pending_chunks
  outIndex,     \* resegment: out_index
  bufOut,       \* resegment: buf_out
  chunkFinal,   \* resegment: final_chunk of the chunk taken last
  newCount,     \* resegment: new_chunk_count
  newFinal      \* resegment: new_final_chunk

resegVars == <<rpc, rPending, outIndex, bufOut, chunkFinal, newCount, newFinal>>
pipeVars == <<chC, chE, stage, hold, resegVars>>
vars == <<ioVars, pipeVars>>

RxCOpen == ending[Resegmenter] = "running"
TxCOpen == \E t \in Compressors : ending[t] = "running"
RxEOpen == \E t \in Encryptors : ending[t] = "running"
TxEOpen == ending[Resegmenter] = "running"

Init ==
  /\ IoInit
  /\ chC = <<>> /\ chE = <<>>
  /\ stage = [t \in Workers |-> "recv"] /\ hold = [t \in Workers |-> NoChunk]
  /\ rpc = "recv" /\ rPending = {} /\ outIndex = 0 /\ bufOut = <<>>
  /\ chunkFinal = FALSE /\ newCount = 0 /\ newFinal = FALSE

-----------------------------------------------------------------------------
(* The compression and the encryption workers.                             *)

Running(t, s) == Alive /\ ending[t] = "running" /\ stage[t] = s

Take(t, ch) ==
  /\ hold' = [hold EXCEPT ![t] = Head(ch)]
  /\ stage' = [stage EXCEPT ![t] = "work"]

Done(t, m) ==
  /\ hold' = [hold EXCEPT ![t] = m]
  /\ stage' = [stage EXCEPT ![t] = "send"]

Sent(t) ==
  /\ hold' = [hold EXCEPT ![t] = NoChunk]
  /\ stage' = [stage EXCEPT ![t] = "recv"]

End(t, how) ==
  /\ ending' = [ending EXCEPT ![t] = how]
  /\ hold' = [hold EXCEPT ![t] = NoChunk]
  /\ UNCHANGED <<mainVars, chIn, chOut, writerVars, chC, chE, stage, resegVars>>

CompressRecv(t) ==
  /\ Running(t, "recv") /\ chIn # <<>>
  /\ Take(t, chIn) /\ chIn' = Tail(chIn)
  /\ UNCHANGED <<mainVars, chOut, ending, writerVars, chC, chE, resegVars>>

CompressRecvClosed(t) ==
  /\ Running(t, "recv") /\ chIn = <<>> /\ ~TxInOpen
  /\ End(t, "ok")

CompressWork(t) ==
  /\ Running(t, "work")
  /\ Done(t, [buf |-> Compress(hold[t].buf), of |-> hold[t].buf,
              idx |-> hold[t].idx, final |-> hold[t].final])
  /\ UNCHANGED <<mainVars, chIn, chOut, ending, writerVars, chC, chE, resegVars>>

CompressError(t) ==
  /\ Running(t, "work")
  /\ End(t, "err")

CompressSend(t) ==
  /\ Running(t, "send") /\ RxCOpen /\ Len(chC) < CapC
  /\ chC' = Append(chC, hold[t])
  /\ Sent(t)
  /\ UNCHANGED <<mainVars, chIn, chOut, ending, writerVars, chE, resegVars>>

\* Mutant: a failed send is tried again.
CompressSendClosed_Retry(t) == Running(t, "send") /\ ~RxCOpen /\ UNCHANGED vars

CompressSendClosed(t) ==
  /\ Running(t, "send") /\ ~RxCOpen
  /\ End(t, "ok")

CompressNext(t) ==
  \/ CompressRecv(t) \/ CompressRecvClosed(t) \/ CompressWork(t)
  \/ CompressError(t) \/ CompressSend(t) \/ CompressSendClosed(t)

EncryptRecv(t) ==
  /\ Running(t, "recv") /\ chE # <<>>
  /\ Take(t, chE) /\ chE' = Tail(chE)
  /\ UNCHANGED <<mainVars, chIn, chOut, ending, writerVars, chC, resegVars>>

EncryptRecvClosed(t) ==
  /\ Running(t, "recv") /\ chE = <<>> /\ ~TxEOpen
  /\ End(t, "ok")

EncryptWork(t) ==
  /\ Running(t, "work")
  /\ Done(t, [buf |-> Seal(hold[t].buf, hold[t].idx, hold[t].final), idx |-> hold[t].idx])
  /\ UNCHANGED <<mainVars, chIn, chOut, ending, writerVars, chC, chE, resegVars>>

\* No randomness for the nonces.
EncryptError(t) ==
  /\ Running(t, "work")
  /\ End(t, "err")

EncryptSend(t) ==
  /\ Running(t, "send") /\ RxOutOpen /\ Len(chOut) < CapOut
  /\ chOut' = Append(chOut, hold[t])
  /\ Sent(t)
  /\ UNCHANGED <<mainVars, chIn, ending, writerVars, chC, chE, resegVars>>

EncryptSendClosed(t) ==
  /\ Running(t, "send") /\ ~RxOutOpen
  /\ End(t, "ok")

EncryptNext(t) ==
  \/ EncryptRecv(t) \/ EncryptRecvClosed(t) \/ EncryptWork(t)
  \/ EncryptError(t) \/ EncryptSend(t) \/ EncryptSendClosed(t)

-----------------------------------------------------------------------------
(* The resegmentation thread.                                              *)

Reseg(pc) == Alive /\ rpc = pc

ResegRecv ==
  /\ Reseg("recv") /\ chC # <<>>
  /\ rPending' = rPending \cup {Head(chC)}
  /\ chC' = Tail(chC)
  /\ rpc' = "drain"
  /\ UNCHANGED <<ioVars, chE, stage, hold, outIndex, bufOut, chunkFinal, newCount,
                 newFinal>>

\* Mutant: chunks are taken as they come.
ResegTake_Unordered ==
  /\ Reseg("drain")
  /\ \E m \in rPending :
       /\ rPending' = rPending \ {m}
       /\ bufOut' = bufOut \o LengthField(m.of) \o m.buf
       /\ chunkFinal' = m.final
  /\ outIndex' = outIndex + 1
  /\ rpc' = "cut"
  /\ UNCHANGED <<ioVars, chC, chE, stage, hold, newCount, newFinal>>

\* The next chunk in order is there: its length and its bytes join buf_out.
ResegTake ==
  /\ Reseg("drain")
  /\ \E m \in rPending :
       /\ m.idx = outIndex
       /\ rPending' = rPending \ {m}
       /\ bufOut' = bufOut \o LengthField(m.of) \o m.buf
       /\ chunkFinal' = m.final
  /\ outIndex' = outIndex + 1
  /\ rpc' = "cut"
  /\ UNCHANGED <<ioVars, chC, chE, stage, hold, newCount, newFinal>>

ResegDrained ==
  /\ Reseg("drain") /\ \A m \in rPending : m.idx # outIndex
  /\ rpc' = "recv"
  /\ UNCHANGED <<ioVars, chC, chE, stage, hold, rPending, outIndex, bufOut, chunkFinal,
                 newCount, newFinal>>

SendSegment(segment, final) ==
  /\ RxEOpen /\ Len(chE) < CapE
  /\ chE' = Append(chE, [buf |-> segment, idx |-> newCount, final |-> final])

\* Mutant: the last full segment is not recognised as the last one.
ResegCut_NoFinal ==
  /\ Reseg("cut") /\ Len(bufOut) >= SegSize
  /\ bufOut' = SubSeq(bufOut, SegSize + 1, Len(bufOut))
  /\ newFinal' = newFinal
  /\ SendSegment(SubSeq(bufOut, 1, SegSize), newFinal')
  /\ newCount' = newCount + 1
  /\ UNCHANGED <<ioVars, chC, stage, hold, rpc, rPending, outIndex, chunkFinal>>

\* Mutant: the whole buffer is sent.
ResegCut_All ==
  /\ Reseg("cut") /\ Len(bufOut) >= SegSize
  /\ bufOut' = <<>>
  /\ newFinal' = chunkFinal
  /\ SendSegment(bufOut, newFinal')
  /\ newCount' = newCount + 1
  /\ UNCHANGED <<ioVars, chC, stage, hold, rpc, rPending, outIndex, chunkFinal>>

ResegCut ==
  /\ Reseg("cut") /\ Len(bufOut) >= SegSize
  /\ bufOut' = SubSeq(bufOut, SegSize + 1, Len(bufOut))
  /\ newFinal' = (newFinal \/ (chunkFinal /\ bufOut' = <<>>))
  /\ SendSegment(SubSeq(bufOut, 1, SegSize), newFinal')
  /\ newCount' = newCount + 1
  /\ UNCHANGED <<ioVars, chC, stage, hold, rpc, rPending, outIndex, chunkFinal>>

ResegCutDone ==
  /\ Reseg("cut") /\ Len(bufOut) < SegSize
  /\ rpc' = "drain"
  /\ UNCHANGED <<ioVars, chC, chE, stage, hold, rPending, outIndex, bufOut, chunkFinal,
                 newCount, newFinal>>

\* The compressors are gone, for whatever reason.
ResegRecvClosed ==
  /\ Reseg("recv") /\ chC = <<>> /\ ~TxCOpen
  /\ rpc' = "flush"
  /\ UNCHANGED <<ioVars, chC, chE, stage, hold, rPending, outIndex, bufOut, chunkFinal,
                 newCount, newFinal>>

ResegEnd(how) ==
  /\ ending' = [ending EXCEPT ![Resegmenter] = how]
  /\ rpc' = "ended"
  /\ UNCHANGED <<mainVars, chIn, chOut, writerVars, chC, stage, hold, rPending,
                 outIndex, bufOut, chunkFinal, newCount>>

\* What is left is sent as the final segment.
ResegFlush ==
  /\ Reseg("flush") /\ bufOut # <<>>
  /\ newFinal' = TRUE
  /\ SendSegment(bufOut, TRUE)
  /\ ResegEnd("ok")

ResegNothingLeft ==
  /\ Reseg("flush") /\ bufOut = <<>>
  /\ ResegEnd("ok")
  /\ UNCHANGED <<chE, newFinal>>

\* tx_e.send(..)? : the encryptors are gone; here this is an error.
ResegSendClosed ==
  /\ \/ Reseg("cut") /\ Len(bufOut) >= SegSize
     \/ Reseg("flush") /\ bufOut # <<>>
  /\ ~RxEOpen
  /\ ResegEnd("err")
  /\ UNCHANGED <<chE, newFinal>>

ResegNext ==
  \/ ResegRecv \/ ResegTake \/ ResegDrained \/ ResegCut \/ ResegCutDone
  \/ ResegRecvClosed \/ ResegFlush \/ ResegNothingLeft \/ ResegSendClosed

-----------------------------------------------------------------------------
Main == MainNext /\ UNCHANGED pipeVars
Writer == WriterNext /\ UNCHANGED pipeVars
Exited == mpc = "exited" /\ UNCHANGED vars

Next ==
  \/ Main \/ Writer \/ ResegNext \/ Exited
  \/ \E t \in Compressors : CompressNext(t)
  \/ \E t \in Encryptors : EncryptNext(t)

Spec == Init /\ [][Next]_vars

FairSpec ==
  /\ Spec
  /\ WF_vars(Main) /\ WF_vars(Writer) /\ WF_vars(ResegNext)
  /\ \A t \in Compressors : WF_vars(CompressNext(t))
  /\ \A t \in Encryptors : WF_vars(EncryptNext(t))

-----------------------------------------------------------------------------
(* Properties.                                                             *)

\* The sealed file a run without failures has to write: the framed stream cut
\* into full segments, numbered from 0, the last one and only it flagged final.
Expected ==
  LET segs == Segments(Whole(source))
  IN  [i \in 1..Len(segs) |-> Seal(segs[i], i - 1, i = Len(segs))]

Cleartext(sealed) == FlattenSeq([i \in 1..Len(sealed) |-> sealed[i].data])

\* Whatever fails, the segments written are numbered 0, 1, 2, ..., and what
\* they hold is a beginning of the framed stream: the two reorderings, of the
\* compressed chunks and of the encrypted segments, undo what the parallel
\* workers did, and cutting neither loses nor repeats a byte.
StreamPrefix ==
  /\ \A i \in 1..Len(written) : written[i].num = i - 1
  /\ IsPrefix(Cleartext(written), Whole(source))

\* Ok is returned only for the exact file: every byte, full segments, the
\* final flag on the last one even if the stream ends on a segment's border.
OkIsExact == result = "ok" => written = Expected /\ finalised

\* All segments but the last have the same size, so that the sizes of the
\* compressed chunks do not show in the output.
EqualSizes == \A i \in 1..(Len(written) - 1) : Len(written[i].data) = SegSize

\* Every run ends, also if a thread in the middle of the chain ends early while
\* both of its neighbours are blocked on full channels.
Termination == <>(mpc = "exited")

\* The final flag is given only to the chunk that is the last one of the file:
\* a file cut short by a failure is not sealed as if it were complete.
FinalIsEnd ==
  \A i \in 1..Len(written) :
    written[i].last => Cleartext(SubSeq(written, 1, i)) = Whole(source)
=============================================================================
