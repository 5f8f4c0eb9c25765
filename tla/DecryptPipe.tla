---------------------------- MODULE DecryptPipe ----------------------------
(***************************************************************************)
(* io_chunks with the threads of Decryption::decrypt_pipe when the header  *)
(* says that the content is compressed:                                    *)
(*                                                                         *)
(*   main --chIn--> decrypt --chE--> resegment --chC--> decompress         *)
(*   --chOut--> writer                                                     *)
(*                                                                         *)
(* The source is a file of sealed segments; the resegmentation thread puts *)
(* them in order and parses the framed stream back into compressed chunks. *)
(***************************************************************************)
EXTENDS IoChunks, Framing, Sealing

CONSTANTS
  NDecrypt, NDecompress,   \* e_thread_cnt and c_thread_cnt
  CapE, CapC,              \* capacities of tx_e/rx_e and tx_c/rx_c
  NoChunk

Decryptors    == 1..NDecrypt
Resegmenter   == NDecrypt + 1
Decompressors == (NDecrypt + 2)..(NDecrypt + 1 + NDecompress)
Workers       == Decryptors \cup Decompressors

ASSUME DecryptAssumption ==
  /\ NDecrypt \in Nat \ {0} /\ NDecompress \in Nat \ {0}
  /\ CapE \in Nat \ {0} /\ CapC \in Nat \ {0}
  /\ NHandles = NDecrypt + 1 + NDecompress
  /\ InSide = Decryptors /\ OutSide = Decompressors

EndsFrame(u)    == u.pos = LenSize + u.size
BeginsAt(us, i) == i = 1 \/ EndsFrame(us[i - 1])

\* From the i-th of the units us on, they are those of one frame, as far as they
\* go.  Its content may have been damaged after compression.
FrameAt(us, i) ==
  /\ us[i].size \in Nat \ {0} /\ us[i].chunk # NoChunk
  /\ \A j \in 1..(LenSize + us[i].size) : i + j - 1 <= Len(us) =>
       \E c \in {us[i].chunk} \cup (IF j > LenSize THEN {NoChunk} ELSE {}) :
         us[i + j - 1] = [chunk |-> c, pos |-> j, size |-> us[i].size]

UnitsOf(s, n) == FlattenSeq([i \in 1..n |-> s[i].data])
InPlace(s, n) == \A i \in 1..n : s[i].num = i - 1 /\ s[i].last = (i = Len(s))

\* Only encryption makes segments that open: those that do in their places, from
\* the first on, are the beginning of a framed stream, and all of it if none is
\* missing.
ASSUME SealedAssumption ==
  \A s \in Sources :
    /\ \A i \in 1..Len(s) : s[i].data \in Seq(Range(s[i].data))
    /\ \A n \in 1..Len(s) : InPlace(s, n) =>
         LET us == UnitsOf(s, n)
         IN  /\ \A i \in 1..Len(us) : BeginsAt(us, i) => FrameAt(us, i)
             /\ n = Len(s) /\ us # <<>> => EndsFrame(Last(us))

VARIABLES
  chE, chC,     \* the channels around the resegmentation thread
  stage, hold,  \* the workers, as in CryptPipe
  rpc,          \* resegment: "recv", "drain", "parse", "ended"
  rPending,     \* resegment: pending_chunks
  outIndex,     \* resegment: out_index
  bufOut,       \* resegment: buf_out
  chunkLen,     \* resegment: compressed_chunk_len, NoLength for None
  newCount      \* resegment: new_chunk_count

NoLength == 0      \* no frame has length 0: bzip2 output is never empty

resegVars == <<rpc, rPending, outIndex, bufOut, chunkLen, newCount>>
pipeVars == <<chE, chC, stage, hold, resegVars>>
vars == <<ioVars, pipeVars>>

RxEOpen == ending[Resegmenter] = "running"
TxEOpen == \E t \in Decryptors : ending[t] = "running"
RxCOpen == \E t \in Decompressors : ending[t] = "running"
TxCOpen == ending[Resegmenter] = "running"

Init ==
  /\ IoInit
  /\ chE = <<>> /\ chC = <<>>
  /\ stage = [t \in Workers |-> "recv"] /\ hold = [t \in Workers |-> NoChunk]
  /\ rpc = "recv" /\ rPending = {} /\ outIndex = 0 /\ bufOut = <<>>
  /\ chunkLen = NoLength /\ newCount = 0

-----------------------------------------------------------------------------
(* The decryption and the decompression workers.                           *)

Running(t, s) == Alive /\ ending[t] = "running" /\ stage[t] = s

Take(t, ch) ==
  /\ hold' = [hold EXCEPT ![t] = Head(ch)]
  /\ stage' = [stage EXCEPT ![t] = "work"]

Done(t, m) ==
  /\ hold' = [hold EXCEPT ![t] = m]
  /\ stage' = [stage EXCEPT ![t] = "send"]

Sent(t) ==
  /\ hold' = [hold EXCEPT ![t] = NoChunk]
  /\ stage' = [stage EXCEPT ![t] = "recv"]

End(t, how) ==
  /\ ending' = [ending EXCEPT ![t] = how]
  /\ hold' = [hold EXCEPT ![t] = NoChunk]
  /\ UNCHANGED <<mainVars, chIn, chOut, writerVars, chE, chC, stage, resegVars>>

DecryptRecv(t) ==
  /\ Running(t, "recv") /\ chIn # <<>>
  /\ Take(t, chIn) /\ chIn' = Tail(chIn)
  /\ UNCHANGED <<mainVars, chOut, ending, writerVars, chE, chC, resegVars>>

DecryptRecvClosed(t) ==
  /\ Running(t, "recv") /\ chIn = <<>> /\ ~TxInOpen
  /\ End(t, "ok")

Authentic(m) == Opens(m.buf, m.idx, m.final)

DecryptWork(t) ==
  /\ Running(t, "work") /\ Authentic(hold[t])
  /\ Done(t, [buf |-> hold[t].buf.data, idx |-> hold[t].idx])
  /\ UNCHANGED <<mainVars, chIn, chOut, ending, writerVars, chE, chC, resegVars>>

DecryptError(t) ==
  /\ Running(t, "work") /\ ~Authentic(hold[t])
  /\ End(t, "err")

DecryptSend(t) ==
  /\ Running(t, "send") /\ RxEOpen /\ Len(chE) < CapE
  /\ chE' = Append(chE, hold[t])
  /\ Sent(t)
  /\ UNCHANGED <<mainVars, chIn, chOut, ending, writerVars, chC, resegVars>>

\* Mutant: a failed send is tried again.
DecryptSendClosed_Retry(t) == Running(t, "send") /\ ~RxEOpen /\ UNCHANGED vars

DecryptSendClosed(t) ==
  /\ Running(t, "send") /\ ~RxEOpen
  /\ End(t, "ok")

DecryptNext(t) ==
  \/ DecryptRecv(t) \/ DecryptRecvClosed(t) \/ DecryptWork(t)
  \/ DecryptError(t) \/ DecryptSend(t) \/ DecryptSendClosed(t)

DecompressRecv(t) ==
  /\ Running(t, "recv") /\ chC # <<>>
  /\ Take(t, chC) /\ chC' = Tail(chC)
  /\ UNCHANGED <<mainVars, chIn, chOut, ending, writerVars, chE, resegVars>>

DecompressRecvClosed(t) ==
  /\ Running(t, "recv") /\ chC = <<>> /\ ~TxCOpen
  /\ End(t, "ok")

\* bzip2 accepts exactly what compress_buffer made of one chunk.
Compressed(units) ==
  /\ units # <<>> /\ units[1].chunk # NoChunk
  /\ units = Compress(Chunk(units[1].chunk, units[1].size))

Text(id) == <<[chunk |-> id]>>     \* the content of a chunk

DecompressWork(t) ==
  /\ Running(t, "work") /\ Compressed(hold[t].buf)
  /\ Done(t, [buf |-> Text(hold[t].buf[1].chunk), idx |-> hold[t].idx])
  /\ UNCHANGED <<mainVars, chIn, chOut, ending, writerVars, chE, chC, resegVars>>

DecompressError(t) ==
  /\ Running(t, "work") /\ ~Compressed(hold[t].buf)
  /\ End(t, "err")

DecompressSend(t) ==
  /\ Running(t, "send") /\ RxOutOpen /\ Len(chOut) < CapOut
  /\ chOut' = Append(chOut, hold[t])
  /\ Sent(t)
  /\ UNCHANGED <<mainVars, chIn, ending, writerVars, chE, chC, resegVars>>

DecompressSendClosed(t) ==
  /\ Running(t, "send") /\ ~RxOutOpen
  /\ End(t, "ok")

DecompressNext(t) ==
  \/ DecompressRecv(t) \/ DecompressRecvClosed(t) \/ DecompressWork(t)
  \/ DecompressError(t) \/ DecompressSend(t) \/ DecompressSendClosed(t)

-----------------------------------------------------------------------------
(* The resegmentation thread.                                              *)

Reseg(pc) == Alive /\ rpc = pc

ResegRecv ==
  /\ Reseg("recv") /\ chE # <<>>
  /\ rPending' = rPending \cup {Head(chE)}
  /\ chE' = Tail(chE)
  /\ rpc' = "drain"
  /\ UNCHANGED <<ioVars, chC, stage, hold, outIndex, bufOut, chunkLen, newCount>>

\* Mutant: segments are taken as they come.
ResegTake_Unordered ==
  /\ Reseg("drain")
  /\ \E m \in rPending : rPending' = rPending \ {m} /\ bufOut' = bufOut \o m.buf
  /\ outIndex' = outIndex + 1
  /\ rpc' = "parse"
  /\ UNCHANGED <<ioVars, chE, chC, stage, hold, chunkLen, newCount>>

ResegTake ==
  /\ Reseg("drain")
  /\ \E m \in rPending :
       /\ m.idx = outIndex
       /\ rPending' = rPending \ {m}
       /\ bufOut' = bufOut \o m.buf
  /\ outIndex' = outIndex + 1
  /\ rpc' = "parse"
  /\ UNCHANGED <<ioVars, chE, chC, stage, hold, chunkLen, newCount>>

ResegDrained ==
  /\ Reseg("drain") /\ \A m \in rPending : m.idx # outIndex
  /\ rpc' = "recv"
  /\ UNCHANGED <<ioVars, chE, chC, stage, hold, rPending, outIndex, bufOut, chunkLen,
                 newCount>>

LengthKnown == chunkLen # NoLength
FrameReady == Reseg("parse") /\ LengthKnown /\ Len(bufOut) >= chunkLen

\* The length field: its units all carry the size.
ParseLength ==
  /\ Reseg("parse") /\ ~LengthKnown /\ Len(bufOut) >= LenSize
  /\ chunkLen' = bufOut[1].size
  /\ bufOut' = SubSeq(bufOut, LenSize + 1, Len(bufOut))
  /\ UNCHANGED <<ioVars, chE, chC, stage, hold, rpc, rPending, outIndex, newCount>>

\* Mutant: the length stays set.
ParseFrame_KeepLength ==
  /\ FrameReady /\ RxCOpen /\ Len(chC) < CapC
  /\ chC' = Append(chC, [buf |-> SubSeq(bufOut, 1, chunkLen), idx |-> newCount])
  /\ bufOut' = SubSeq(bufOut, chunkLen + 1, Len(bufOut))
  /\ chunkLen' = chunkLen /\ newCount' = newCount + 1
  /\ UNCHANGED <<ioVars, chE, stage, hold, rpc, rPending, outIndex>>

ParseFrame ==
  /\ FrameReady /\ RxCOpen /\ Len(chC) < CapC
  /\ chC' = Append(chC, [buf |-> SubSeq(bufOut, 1, chunkLen), idx |-> newCount])
  /\ bufOut' = SubSeq(bufOut, chunkLen + 1, Len(bufOut))
  /\ chunkLen' = NoLength /\ newCount' = newCount + 1
  /\ UNCHANGED <<ioVars, chE, stage, hold, rpc, rPending, outIndex>>

ParseMore ==
  /\ Reseg("parse")
  /\ Len(bufOut) < (IF LengthKnown THEN chunkLen ELSE LenSize)
  /\ rpc' = "drain"
  /\ UNCHANGED <<ioVars, chE, chC, stage, hold, rPending, outIndex, bufOut, chunkLen,
                 newCount>>

ResegEnd(how) ==
  /\ ending' = [ending EXCEPT ![Resegmenter] = how]
  /\ rpc' = "ended"
  /\ UNCHANGED <<mainVars, chIn, chOut, writerVars, chE, chC, stage, hold, rPending,
                 outIndex, bufOut, chunkLen, newCount>>

\* The decryptors are gone: units left over are an error of their own.
ResegRecvClosed ==
  /\ Reseg("recv") /\ chE = <<>> /\ ~TxEOpen
  /\ ResegEnd(IF bufOut = <<>> THEN "ok" ELSE "err")

\* tx_c.send(..)? : the decompressors are gone.
ResegSendClosed ==
  /\ FrameReady /\ ~RxCOpen
  /\ ResegEnd("err")

ResegNext ==
  \/ ResegRecv \/ ResegTake \/ ResegDrained \/ ParseLength \/ ParseFrame \/ ParseMore
  \/ ResegRecvClosed \/ ResegSendClosed

-----------------------------------------------------------------------------
Main == MainNext /\ UNCHANGED pipeVars
Writer == WriterNext /\ UNCHANGED pipeVars
Exited == mpc = "exited" /\ UNCHANGED vars

Next ==
  \/ Main \/ Writer \/ ResegNext \/ Exited
  \/ \E t \in Decryptors : DecryptNext(t)
  \/ \E t \in Decompressors : DecompressNext(t)

Spec == Init /\ [][Next]_vars

FairSpec ==
  /\ Spec
  /\ WF_vars(Main) /\ WF_vars(Writer) /\ WF_vars(ResegNext)
  /\ \A t \in Decryptors : WF_vars(DecryptNext(t))
  /\ \A t \in Decompressors : WF_vars(DecompressNext(t))

-----------------------------------------------------------------------------
(* Properties.                                                             *)

\* The file is a complete sealed stream: numbers 0, 1, ... and the final flag
\* on the last segment only.
Intact == InPlace(source, NChunks)

\* The chunks whose frames are in the stream, as far as they are complete.
Stream == UnitsOf(source, NChunks)
TextAt(u) == IF EndsFrame(u) THEN <<Text(u.chunk)>> ELSE <<>>
TextsTo(n) == FlattenSeq([i \in 1..n |-> TextAt(Stream[i])])
Contents == TextsTo(Len(Stream))

\* What is written is always a beginning of the content of the file, whatever
\* fails: chunks are parsed back at the borders they were framed at, and the
\* parallel decompressors do not reorder them.
DecodedInOrder == Intact => IsPrefix(written, Contents)

\* Every compressed chunk in the file is as compress_buffer made it.
Sound == \A i \in 1..Len(Stream) : Stream[i].chunk # NoChunk

\* Ok is returned only for an intact file, and after all of its chunks were
\* decompressed and written.
OkIsWhole == result = "ok" => Intact /\ Sound /\ written = Contents /\ finalised

\* A segment that is not authentic is reported as such, although the threads
\* further down the chain may fail in consequence: their handles come later.
\* A good file is never blamed.
DecryptErrorShown ==
  result = "crypt" /\ Sound => ~Intact /\ joined + 1 \in Decryptors

\* The whole chain, with its two reorderings and its parser, implements the same
\* ordered stream as the pipeline without compression, for files that are not
\* intact, too: the sink gets the content from its beginning, piece by piece,
\* nothing once it was finalised, and Ok only when it has everything.
Verdict == IF result \in {"none", "ok"} THEN result ELSE "err"
Ordered == INSTANCE OrderedStream WITH
             stream <- Contents, out <- written,
             sealed <- wpc = "ok", verdict <- Verdict
ImplementsStream == Ordered!Spec

\* Every run ends, also if a thread in the middle of the chain ends early while
\* both of its neighbours are blocked on full channels.
Termination == <>(mpc = "exited")

=============================================================================
