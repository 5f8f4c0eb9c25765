-------------------------- MODULE EncryptPipeProofs --------------------------
(***************************************************************************)
(* Proofs about compressed encryption, for every number of threads of each *)
(* kind, every capacity of the channels, every segment size and every      *)
(* sequence of chunks, whatever sizes they are compressed to.              *)
(***************************************************************************)
EXTENDS EncryptPipeInvariant, SequenceFacts

-----------------------------------------------------------------------------
(* The threads.                                                            *)

LEMMA ThreadFacts ==
  /\ Threads = Compressors \cup Encryptors \cup {Resegmenter}
  /\ Workers = Compressors \cup Encryptors
  /\ Resegmenter \notin Workers /\ Compressors \cap Encryptors = {}
  /\ Compressors # {} /\ Encryptors # {}
  <1>1. 1 \in Compressors /\ NCompress + 2 \in Encryptors
    BY EncryptAssumption DEF Compressors, Encryptors
  <1>2. /\ Resegmenter \notin Workers /\ Compressors \cap Encryptors = {}
        /\ Workers = Compressors \cup Encryptors
    BY EncryptAssumption DEF Workers, Compressors, Encryptors, Resegmenter
  <1>3. ASSUME NEW t
        PROVE  t \in Threads <=> t \in Compressors \cup Encryptors \cup {Resegmenter}
    BY EncryptAssumption DEF Threads, Compressors, Encryptors, Resegmenter
  <1> QED BY <1>1, <1>2, <1>3

-----------------------------------------------------------------------------
(* The framed stream.                                                      *)

Units == [chunk : {source[i].id : i \in 1..NChunks}, pos : Nat, size : Nat]

LEMMA SourceLength ==
  ASSUME source \in Sources
  PROVE  NChunks \in Nat \ {0} /\ \A i \in 1..NChunks : source[i].size \in Nat
  BY IoAssumption, EncryptAssumption DEF NChunks

LEMMA FrameFacts ==
  ASSUME source \in Sources, NEW i \in 1..NChunks
  PROVE  /\ LengthField(source[i]) \in Seq(Units) /\ Compress(source[i]) \in Seq(Units)
         /\ Frame(source[i]) \in Seq(Units) /\ Len(Frame(source[i])) > 0
  <1> DEFINE c == source[i]
  <1>1. c.id \in {source[j].id : j \in 1..NChunks} /\ c.size \in Nat /\ LenSize \in Nat \ {0}
    BY SourceLength, FramingAssumption
  <1> HIDE DEF c
  <1>2. LengthField(c) \in Seq(Units) /\ Len(LengthField(c)) = LenSize
    <2>1. \A j \in 1..LenSize : [chunk |-> c.id, pos |-> j, size |-> c.size] \in Units
      BY <1>1 DEF Units
    <2> QED BY <1>1, <2>1 DEF LengthField
  <1>3. Compress(c) \in Seq(Units)
    <2>1. \A j \in 1..c.size :
            [chunk |-> c.id, pos |-> LenSize + j, size |-> c.size] \in Units
      BY <1>1 DEF Units
    <2> QED BY <1>1, <2>1 DEF Compress
  <1>4. Frame(c) \in Seq(Units) /\ Len(Frame(c)) = Len(LengthField(c)) + Len(Compress(c))
    BY <1>2, <1>3, ConcatProperties DEF Frame
  <1>5. Len(Compress(c)) \in Nat
    BY <1>3
  <1> QED BY <1>1, <1>2, <1>3, <1>4, <1>5 DEF c

\* What the proofs use of the stream: where the frames end in it.
LEMMA StreamFacts ==
  ASSUME source \in Sources
  PROVE  /\ Whole(source) \in Seq(Units)
         /\ Ends(0) = 0 /\ Ends(NChunks) = Len(Whole(source))
         /\ \A n \in 0..NChunks : Ends(n) \in 0..Len(Whole(source))
         /\ \A n \in 0..(NChunks - 1) :
              /\ Ends(n) < Ends(n + 1)
              /\ SubSeq(Whole(source), Ends(n) + 1, Ends(n + 1)) = Frame(source[n + 1])
  <1> DEFINE fs == [i \in 1..NChunks |-> Frame(source[i])]
             U(n) == FlattenSeq(SubSeq(fs, 1, n))
  <1>1. NChunks \in Nat \ {0} /\ fs \in Seq(Seq(Units)) /\ Len(fs) = NChunks
    BY SourceLength, FrameFacts
  <1>2. \A n \in 0..NChunks : Whole(SubSeq(source, 1, n)) = U(n)
    <2> TAKE n \in 0..NChunks
    <2>1. /\ Len(SubSeq(source, 1, n)) = n
          /\ \A i \in 1..n : SubSeq(source, 1, n)[i] = source[i]
      <3>1. \A i \in 1..n : source[i] \in {source[j] : j \in 1..n}
        OBVIOUS
      <3> QED BY <1>1, <3>1, SubSeqProperties
    <2>2. /\ SubSeq(fs, 1, n) \in Seq(Seq(Units)) /\ Len(SubSeq(fs, 1, n)) = n
          /\ \A i \in 1..n : SubSeq(fs, 1, n)[i] = fs[i]
      <3> HIDE DEF fs
      <3> QED BY <1>1, FirstElements
    <2>3. SubSeq(fs, 1, n) = [i \in 1..n |-> Frame(source[i])]
      <3>1. \A i \in 1..n : fs[i] = Frame(source[i])
        BY <1>1
      <3> HIDE DEF fs
      <3> QED BY <2>2, <3>1
    <2>4. [i \in 1..Len(SubSeq(source, 1, n)) |-> Frame(SubSeq(source, 1, n)[i])]
            = [i \in 1..n |-> Frame(source[i])]
      BY <2>1
    <2> QED BY <2>3, <2>4 DEF Whole
  <1>3. Whole(source) = FlattenSeq(fs) /\ SubSeq(fs, 1, NChunks) = fs
    <2>1. Whole(source) = FlattenSeq(fs)
      BY DEF Whole, NChunks
    <2> HIDE DEF fs
    <2> QED BY <1>1, <2>1, SubSeqFull
  <1>4. \A n \in 0..(NChunks - 1) : n + 1 \in 1..NChunks /\ fs[n + 1] = Frame(source[n + 1])
    BY <1>1
  <1> HIDE DEF fs
  <1>5. \A n \in 0..NChunks : Ends(n) = EndOf(fs, n)
    BY <1>2 DEF Ends, EndOf
  <1>6. /\ FlattenSeq(fs) \in Seq(Units)
        /\ EndOf(fs, 0) = 0 /\ EndOf(fs, Len(fs)) = Len(FlattenSeq(fs))
        /\ \A n \in 0..Len(fs) : EndOf(fs, n) \in 0..Len(FlattenSeq(fs))
        /\ \A n \in 0..(Len(fs) - 1) :
             /\ EndOf(fs, n + 1) = EndOf(fs, n) + Len(fs[n + 1])
             /\ SubSeq(FlattenSeq(fs), EndOf(fs, n) + 1, EndOf(fs, n + 1)) = fs[n + 1]
    BY <1>1, FlattenParts
  <1>7. /\ Whole(source) \in Seq(Units)
        /\ Ends(0) = 0 /\ Ends(NChunks) = Len(Whole(source))
        /\ \A n \in 0..NChunks : Ends(n) \in 0..Len(Whole(source))
    BY <1>1, <1>3, <1>5, <1>6
  <1>8. ASSUME NEW n \in 0..(NChunks - 1)
        PROVE  /\ Ends(n) < Ends(n + 1)
               /\ SubSeq(Whole(source), Ends(n) + 1, Ends(n + 1)) = Frame(source[n + 1])
    <2>1. /\ n \in 0..NChunks /\ n + 1 \in 0..NChunks /\ n \in 0..(Len(fs) - 1)
          /\ n + 1 \in 1..NChunks
      BY <1>1
    <2>2. Ends(n) = EndOf(fs, n) /\ Ends(n + 1) = EndOf(fs, n + 1)
      BY <1>5, <2>1
    <2>3. Ends(n + 1) = Ends(n) + Len(Frame(source[n + 1]))
      BY <1>4, <1>6, <2>1, <2>2
    <2>4. Len(Frame(source[n + 1])) \in Nat /\ Len(Frame(source[n + 1])) > 0
      BY <2>1, FrameFacts
    <2>5. Ends(n) \in Nat
      BY <1>7, <2>1
    <2>6. Ends(n) < Ends(n + 1)
      BY <2>3, <2>4, <2>5
    <2>7. SubSeq(Whole(source), Ends(n) + 1, Ends(n + 1)) = fs[n + 1]
      BY <1>3, <1>6, <2>1, <2>2, Zenon
    <2> QED BY <1>4, <2>6, <2>7
  <1> QED BY <1>7, <1>8

-----------------------------------------------------------------------------
(* The source of a run is fixed, and with it all that is defined by it.    *)

LEMMA SourceFixed ==
  ASSUME [Next]_vars
  PROVE  source' = source
  BY DEF Next, vars, ioVars, mainVars, writerVars, pipeVars, Main, Writer, Exited,
     MainNext, MainRead, MainReadError, MainSend, MainProgressError,
     MainSendClosed, MainJoinWriter, MainJoinCrypt, MainOk, MainExit,
     WriterNext, WriterRecv, WriterWrite, WriterWriteError, WriterDrained,
     WriterRecvClosed, WriterOthers, WriterOthersError,
     CompressNext, CompressRecv, CompressRecvClosed, CompressWork, CompressError,
     CompressSend, CompressSendClosed,
     EncryptNext, EncryptRecv, EncryptRecvClosed, EncryptWork, EncryptError,
     EncryptSend, EncryptSendClosed, End,
     ResegNext, ResegRecv, ResegTake, ResegDrained, ResegCut, ResegCutDone,
     ResegRecvClosed, ResegFlush, ResegNothingLeft, ResegSendClosed, ResegEnd

LEMMA DefinedBySource ==
  ASSUME source' = source
  PROVE  /\ NChunks' = NChunks /\ InMsgs' = InMsgs /\ CMsgs' = CMsgs
         /\ (Whole(source))' = Whole(source) /\ \A n : (Ends(n))' = Ends(n)
  <1>1. NChunks' = NChunks
    BY DEF NChunks
  <1>2. InMsgs' = InMsgs
    BY <1>1 DEF InMsgs, InMsg, IsFinal
  <1>3. CMsgs' = CMsgs
    BY <1>1 DEF CMsgs, CMsg, IsFinal
  <1> QED BY <1>1, <1>2, <1>3 DEF Ends

LEMMA MessageFacts ==
  ASSUME source \in Sources
  PROVE  /\ \A k \in 0..(NChunks - 1) : InMsg(k) \in InMsgs
         /\ \A m \in InMsgs : /\ m.idx \in 0..(NChunks - 1) /\ m = InMsg(m.idx)
                              /\ [buf |-> Compress(m.buf), of |-> m.buf, idx |-> m.idx,
                                  final |-> m.final] \in CMsgs
         /\ \A m \in CMsgs : m.idx \in 0..(NChunks - 1) /\ m = CMsg(m.idx)
  <1>1. \A k \in 0..(NChunks - 1) : InMsg(k) \in InMsgs /\ InMsg(k).idx = k
    BY DEF InMsgs, InMsg
  <1>2. \A m \in InMsgs : m.idx \in 0..(NChunks - 1) /\ m = InMsg(m.idx)
    BY <1>1 DEF InMsgs
  <1>3. ASSUME NEW m \in InMsgs
        PROVE  [buf |-> Compress(m.buf), of |-> m.buf, idx |-> m.idx, final |-> m.final] \in CMsgs
    <2>1. PICK k \in 0..(NChunks - 1) : m = InMsg(k)
      BY DEF InMsgs
    <2>2. m.buf = source[k + 1] /\ m.idx = k /\ m.final = IsFinal(k)
      BY <2>1 DEF InMsg
    <2>3. [buf |-> Compress(m.buf), of |-> m.buf, idx |-> m.idx, final |-> m.final] = CMsg(k)
      BY <2>2 DEF CMsg
    <2> QED BY <2>3 DEF CMsgs
  <1>4. \A m \in CMsgs : m.idx \in 0..(NChunks - 1) /\ m = CMsg(m.idx)
    BY DEF CMsgs, CMsg
  <1> QED BY <1>1, <1>2, <1>3, <1>4

-----------------------------------------------------------------------------
(* What a step leaves alone.                                               *)

\* Main and the writer have nothing to do with the threads in between ...
LEMMA MainAndWriterKeep ==
  ASSUME Main \/ Writer
  PROVE  UNCHANGED <<ending, chC, chE, stage, hold, rpc, rPending, outIndex, bufOut,
                     chunkFinal, newCount, newFinal>>
  BY DEF Main, Writer, pipeVars, resegVars,
     MainNext, MainRead, MainReadError, MainSend, MainProgressError,
     MainSendClosed, MainJoinWriter, MainJoinCrypt, MainOk, MainExit,
     WriterNext, WriterRecv, WriterWrite, WriterWriteError, WriterDrained,
     WriterRecvClosed, WriterOthers, WriterOthersError

\* ... main nothing with the writer, the writer nothing with main ...
LEMMA MainKeeps ==
  ASSUME Main
  PROVE  UNCHANGED <<chOut, wpc, pending, writeIndex, written, finalised>>
  BY DEF Main, writerVars,
     MainNext, MainRead, MainReadError, MainSend, MainProgressError,
     MainSendClosed, MainJoinWriter, MainJoinCrypt, MainOk, MainExit

LEMMA WriterKeeps ==
  ASSUME Writer
  PROVE  UNCHANGED <<source, mpc, chunkCount, joined, result, chIn>>
  BY DEF Writer, mainVars,
     WriterNext, WriterRecv, WriterWrite, WriterWriteError, WriterDrained,
     WriterRecvClosed, WriterOthers, WriterOthersError

\* ... the resegmentation thread nothing with main, the writer and the workers ...
LEMMA ResegKeeps ==
  ASSUME Control, ResegNext
  PROVE  /\ UNCHANGED <<source, mpc, chunkCount, joined, result, wpc, pending, writeIndex,
                        written, finalised, chIn, chOut, stage, hold>>
         /\ \A t \in Workers : ending'[t] = ending[t]
         /\ rpc # "ended" /\ ending[Resegmenter] = "running"
         /\ ending' \in [Threads -> {"running", "ok", "err"}]
  <1>1. /\ Resegmenter \in Threads /\ Resegmenter \notin Workers /\ Workers \subseteq Threads
        /\ ending \in [Threads -> {"running", "ok", "err"}]
    BY ThreadFacts DEF Control
  <1>2. /\ UNCHANGED <<source, mpc, chunkCount, joined, result, wpc, pending, writeIndex,
                       written, finalised, chIn, chOut, stage, hold>>
        /\ rpc # "ended"
        /\ \/ ending' = ending
           \/ ending' = [ending EXCEPT ![Resegmenter] = "ok"]
           \/ ending' = [ending EXCEPT ![Resegmenter] = "err"]
    BY DEF ResegNext, ResegRecv, ResegTake, ResegDrained, ResegCut, ResegCutDone,
       ResegRecvClosed, ResegFlush, ResegNothingLeft, ResegSendClosed, ResegEnd, Reseg,
       ioVars, mainVars, writerVars
  <1> QED BY <1>1, <1>2 DEF Control

\* ... and a worker nothing with the others.
LEMMA WorkerKeeps ==
  ASSUME Control, NEW t \in Workers, CompressNext(t) \/ EncryptNext(t)
  PROVE  /\ UNCHANGED <<source, mpc, chunkCount, joined, result, wpc, pending, writeIndex,
                        written, finalised, rpc, rPending, outIndex, bufOut, chunkFinal,
                        newCount, newFinal>>
         /\ \A u \in Threads \ {t} : ending'[u] = ending[u]
         /\ \A u \in Workers \ {t} : hold'[u] = hold[u] /\ stage'[u] = stage[u]
         /\ ending[t] = "running"
         /\ ending' \in [Threads -> {"running", "ok", "err"}]
         /\ stage' \in [Workers -> {"recv", "work", "send"}]
         /\ DOMAIN hold' = Workers
  <1>1. /\ t \in Threads
        /\ ending \in [Threads -> {"running", "ok", "err"}]
        /\ stage \in [Workers -> {"recv", "work", "send"}]
        /\ DOMAIN hold = Workers
    BY ThreadFacts DEF Control
  <1>2. /\ UNCHANGED <<source, mpc, chunkCount, joined, result, wpc, pending, writeIndex,
                       written, finalised, rpc, rPending, outIndex, bufOut, chunkFinal,
                       newCount, newFinal>>
        /\ ending[t] = "running"
        /\ \E m : hold' = [hold EXCEPT ![t] = m]
        /\ \/ ending' = ending /\ \E s \in {"recv", "work", "send"} :
                                    stage' = [stage EXCEPT ![t] = s]
           \/ stage' = stage /\ \E how \in {"ok", "err"} :
                                  ending' = [ending EXCEPT ![t] = how]
    BY DEF CompressNext, CompressRecv, CompressRecvClosed, CompressWork, CompressError,
       CompressSend, CompressSendClosed,
       EncryptNext, EncryptRecv, EncryptRecvClosed, EncryptWork, EncryptError,
       EncryptSend, EncryptSendClosed, End, Take, Done, Sent, Running,
       mainVars, writerVars, resegVars
  <1> QED BY <1>1, <1>2

-----------------------------------------------------------------------------
(* Before the resegmentation thread.                                       *)

LEMMA UpstreamKept ==
  ASSUME Upstream, source' = source, UNCHANGED <<chIn, chC>>, rPending' \subseteq rPending,
         \A t \in Compressors : ending'[t] = "running" =>
           ending[t] = "running" /\ stage'[t] = stage[t] /\ hold'[t] = hold[t]
  PROVE  Upstream'
  BY DefinedBySource DEF Upstream

LEMMA UpstreamStep ==
  ASSUME Control, Upstream, [Next]_vars
  PROVE  Upstream'
  <1> USE DefinedBySource
  <1>0. /\ source' = source /\ source \in Sources
        /\ Compressors \subseteq Workers /\ Workers \subseteq Threads
        /\ Encryptors \subseteq Workers /\ Compressors \cap Encryptors = {}
    BY SourceFixed, ThreadFacts DEF Control
  <1>1. CASE Main
    <2>1. UNCHANGED <<ending, chC, stage, hold, rPending>>
      BY <1>1, MainAndWriterKeep
    <2>2. CASE chIn' = chIn
      BY <1>0, <2>1, <2>2, UpstreamKept
    <2>3. CASE SendChunk
      <3>1. InMsg(chunkCount) \in InMsgs
        <4>1. chunkCount \in 0..(NChunks - 1)
          BY <1>0, <2>3, SourceLength DEF SendChunk, Control
        <4> QED BY <1>0, <4>1, MessageFacts
      <3>2. chIn' \in Seq(InMsgs)
        BY <2>3, <3>1, SendFacts DEF SendChunk, Upstream
      <3> QED BY <1>0, <2>1, <3>2 DEF Upstream
    <2> QED BY <1>1, <2>2, <2>3
            DEF Main, MainNext, MainRead, MainReadError, MainSend, MainProgressError,
                MainSendClosed, MainJoinWriter, MainJoinCrypt, MainOk, MainExit
  <1>2. CASE Writer
    BY <1>0, <1>2, MainAndWriterKeep, WriterKeeps, UpstreamKept
  <1>3. CASE ResegNext
    <2>1. UNCHANGED <<stage, hold, chIn>> /\ \A t \in Compressors : ending'[t] = ending[t]
      BY <1>0, <1>3, ResegKeeps
    <2>2. CASE ResegRecv
      <3>1. Head(chC) \in CMsgs /\ chC' \in Seq(CMsgs)
        BY <2>2, RecvFacts DEF ResegRecv, Upstream
      <3>2. rPending' \subseteq CMsgs
        BY <2>2, <3>1 DEF ResegRecv, Upstream
      <3> QED BY <1>0, <2>1, <3>1, <3>2 DEF Upstream
    <2>3. CASE ~ResegRecv
      <3>1. chC' = chC /\ rPending' \subseteq rPending
        BY <1>3, <2>3
        DEF ResegNext, ResegTake, ResegDrained, ResegCut, ResegCutDone,
            ResegRecvClosed, ResegFlush, ResegNothingLeft, ResegSendClosed, ResegEnd
      <3> QED BY <1>0, <2>1, <3>1, UpstreamKept
    <2> QED BY <2>2, <2>3
  <1>4. ASSUME NEW t \in Compressors, CompressNext(t)
        PROVE  Upstream'
    <2>0. /\ rPending' = rPending /\ t \in Workers /\ t \in Threads /\ ending[t] = "running"
          /\ \A u \in Compressors \ {t} : /\ ending'[u] = ending[u]
                                          /\ hold'[u] = hold[u] /\ stage'[u] = stage[u]
          /\ DOMAIN hold = Workers /\ DOMAIN stage = Workers /\ DOMAIN ending = Threads
      BY <1>0, <1>4, WorkerKeeps DEF Control
    <2>1. CASE CompressRecv(t)
      <3>1. /\ Head(chIn) \in InMsgs /\ chIn' \in Seq(InMsgs) /\ chC' = chC
            /\ hold'[t] = Head(chIn) /\ stage'[t] = "work"
        BY <2>0, <2>1, RecvFacts DEF CompressRecv, Take, Upstream
      <3> QED BY <1>0, <2>0, <3>1 DEF Upstream
    <2>2. CASE CompressWork(t)
      <3>1. /\ chIn' = chIn /\ chC' = chC /\ hold[t] \in InMsgs /\ stage'[t] = "send"
            /\ hold'[t] = [buf |-> Compress(hold[t].buf), of |-> hold[t].buf,
                           idx |-> hold[t].idx, final |-> hold[t].final]
        BY <2>0, <2>2 DEF CompressWork, Running, Done, Upstream
      <3>2. hold'[t] \in CMsgs
        BY <1>0, <3>1, MessageFacts
      <3> QED BY <1>0, <2>0, <3>1, <3>2 DEF Upstream
    <2>3. CASE CompressSend(t)
      <3>1. chIn' = chIn /\ hold[t] \in CMsgs /\ stage'[t] = "recv" /\ chC' = Append(chC, hold[t])
        BY <2>0, <2>3 DEF CompressSend, Running, Sent, Upstream
      <3>2. chC' \in Seq(CMsgs)
        BY <3>1, SendFacts DEF Upstream
      <3> QED BY <1>0, <2>0, <3>1, <3>2 DEF Upstream
    <2>4. CASE CompressRecvClosed(t) \/ CompressError(t) \/ CompressSendClosed(t)
      <3>1. UNCHANGED <<chIn, chC>> /\ ending'[t] # "running"
        BY <2>0, <2>4 DEF CompressRecvClosed, CompressError, CompressSendClosed, End
      <3> QED BY <1>0, <2>0, <3>1, UpstreamKept
    <2> QED BY <1>4, <2>1, <2>2, <2>3, <2>4 DEF CompressNext
  <1>5. ASSUME NEW t \in Encryptors, EncryptNext(t)
        PROVE  Upstream'
    <2>1. UNCHANGED <<chIn, chC>>
      BY <1>5 DEF EncryptNext, EncryptRecv, EncryptRecvClosed, EncryptWork, EncryptError,
         EncryptSend, EncryptSendClosed, End
    <2>2. /\ t \in Workers /\ rPending' = rPending
          /\ \A u \in Compressors : /\ ending'[u] = ending[u]
                                    /\ hold'[u] = hold[u] /\ stage'[u] = stage[u]
      BY <1>0, <1>5, WorkerKeeps
    <2> QED BY <1>0, <2>1, <2>2, UpstreamKept
  <1>6. CASE UNCHANGED vars
    BY <1>0, <1>6, UpstreamKept DEF vars, ioVars, pipeVars, resegVars
  <1> QED BY <1>1, <1>2, <1>3, <1>4, <1>5, <1>6 DEF Next, Exited

-----------------------------------------------------------------------------
(* In the resegmentation thread.                                           *)

LEMMA CutFacts ==
  /\ SegSize \in Nat \ {0} /\ Cut(0) = 0
  /\ \A k \in Nat : Cut(k) \in Nat /\ Cut(k + 1) = Cut(k) + SegSize
  /\ \A k, m \in Nat : k < m => Cut(k + 1) <= Cut(m)
  BY FramingAssumption DEF Cut

LEMMA BufferFacts ==
  ASSUME Control, Buffer
  PROVE  /\ NChunks \in Nat \ {0}
         /\ Ends(outIndex) \in 0..Len(Whole(source))
         /\ Cut(newCount) \in 0..Ends(outIndex)
         /\ bufOut \in Seq(Units)
         /\ Len(bufOut) = Ends(outIndex) - Cut(newCount)
         /\ bufOut = <<>> <=> Cut(newCount) = Ends(outIndex)
  <1>1. /\ NChunks \in Nat \ {0} /\ Whole(source) \in Seq(Units)
        /\ Ends(outIndex) \in 0..Len(Whole(source))
        /\ Cut(newCount) \in 0..Ends(outIndex)
    BY SourceLength, StreamFacts, CutFacts DEF Control, Buffer
  <1>2. bufOut = SubSeq(Whole(source), Cut(newCount) + 1, Ends(outIndex))
    BY DEF Buffer
  <1> QED BY ONLY <1>1, <1>2, PieceFacts

LEMMA BufferKept ==
  ASSUME Control, Buffer, source' = source,
         UNCHANGED <<outIndex, bufOut, chunkFinal, newCount, newFinal>>,
         rpc' \in {"recv", "drain", "cut", "flush"},
         ending'[Resegmenter] = "running",
         rpc' # "cut" => Len(bufOut) < SegSize, rpc # "ended"
  PROVE  Buffer'
  BY DefinedBySource DEF Buffer, Cut

LEMMA BufferStep ==
  ASSUME Control, Upstream, Buffer, [Next]_vars
  PROVE  Buffer'
  <1> USE DefinedBySource
  <1> DEFINE W == Whole(source)
  <1>0. /\ source' = source /\ source \in Sources
        /\ Compressors \subseteq Workers /\ Encryptors \subseteq Workers
        /\ Resegmenter \in Threads /\ Resegmenter \notin Workers
    BY SourceFixed, ThreadFacts DEF Control
  <1>1. CASE UNCHANGED <<rpc, resegVars>> /\ ending'[Resegmenter] = ending[Resegmenter]
    BY <1>0, <1>1 DEF Buffer, Cut, resegVars
  <1>2. CASE Main \/ Writer
    BY <1>1, <1>2, MainAndWriterKeep DEF resegVars
  <1>3. ASSUME NEW t \in Workers, CompressNext(t) \/ EncryptNext(t)
        PROVE  Buffer'
    BY <1>0, <1>1, <1>3, WorkerKeeps DEF resegVars
  <1>4. CASE ResegNext
    <2>0. /\ rpc # "ended" /\ ending[Resegmenter] = "running"
          /\ ending \in [Threads -> {"running", "ok", "err"}]
      BY <1>4, ResegKeeps DEF Control
    <2>1. CASE ResegRecv
      BY <1>0, <2>0, <2>1, BufferKept DEF ResegRecv, Reseg, ioVars, Buffer
    <2>2. CASE ResegTake
      <3>1. PICK m \in rPending : /\ m.idx = outIndex
                                  /\ bufOut' = (bufOut \o LengthField(m.of)) \o m.buf
                                  /\ chunkFinal' = m.final
        BY <2>2 DEF ResegTake
      <3>2. /\ outIndex \in 0..(NChunks - 1) /\ NChunks \in Nat
            /\ m = CMsg(outIndex)
        BY <1>0, <3>1, MessageFacts, SourceLength DEF Upstream
      <3>3. /\ m.of = source[outIndex + 1] /\ m.buf = Compress(source[outIndex + 1])
            /\ chunkFinal' = (outIndex + 1 = NChunks)
        BY <3>1, <3>2 DEF CMsg, IsFinal
      <3>4. /\ outIndex + 1 \in 1..NChunks /\ outIndex + 1 \in 0..NChunks
            /\ outIndex' = outIndex + 1 /\ rpc' = "cut"
            /\ UNCHANGED <<newCount, newFinal, ending>>
        BY <2>2, <3>2 DEF ResegTake, ioVars
      <3>5. bufOut' = bufOut \o Frame(source[outIndex + 1])
        <4>1. /\ LengthField(source[outIndex + 1]) \in Seq(Units)
              /\ Compress(source[outIndex + 1]) \in Seq(Units)
              /\ bufOut \in Seq(Units)
          BY <1>0, <3>4, FrameFacts, BufferFacts
        <4>2. \A o, p, q \in Seq(Units) : (o \o p) \o q = o \o (p \o q)
          BY ONLY ConcatAssociative
        <4>3. bufOut' = (bufOut \o LengthField(source[outIndex + 1]))
                          \o Compress(source[outIndex + 1])
          BY <3>1, <3>3
        <4> QED BY <4>1, <4>2, <4>3 DEF Frame
      <3>6. /\ Ends(outIndex) < Ends(outIndex + 1) /\ Ends(outIndex + 1) \in 0..Len(W)
            /\ Ends(outIndex) \in 0..Len(W)
            /\ Frame(source[outIndex + 1]) = SubSeq(W, Ends(outIndex) + 1, Ends(outIndex + 1))
            /\ W \in Seq(Units)
        BY <1>0, <3>2, <3>4, StreamFacts
      <3>7. Cut(newCount) \in 0..Ends(outIndex)
        BY BufferFacts
      <3>8. bufOut' = SubSeq(W, Cut(newCount) + 1, Ends(outIndex + 1))
        <4> HIDE DEF W
        <4>1. /\ Cut(newCount) + 1 \in 1..(Len(W) + 1)
              /\ Ends(outIndex) \in ((Cut(newCount) + 1) - 1)..Len(W)
              /\ Ends(outIndex + 1) \in Ends(outIndex)..Len(W)
          BY <3>6, <3>7
        <4>2. bufOut' = SubSeq(W, Cut(newCount) + 1, Ends(outIndex))
                          \o SubSeq(W, Ends(outIndex) + 1, Ends(outIndex + 1))
          BY <3>5, <3>6 DEF Buffer, W
        <4> QED BY <3>6, <4>1, <4>2, ConcatAdjacentSubSeq
      <3>9. Cut(newCount) <= Ends(outIndex + 1) /\ ~newFinal
        <4>1. outIndex # NChunks
          BY <3>2
        <4>2. ~newFinal
          BY <2>0, <4>1 DEF Buffer
        <4> QED BY <3>6, <3>7, <4>2
      <3> QED BY <1>0, <2>0, <3>3, <3>4, <3>8, <3>9 DEF Buffer, Cut
    <2>3. CASE ResegDrained
      BY <1>0, <2>0, <2>3, BufferKept DEF ResegDrained, Reseg, ioVars, Buffer
    <2>4. CASE ResegCut
      <3>1. /\ Len(bufOut) >= SegSize /\ rpc = "cut"
            /\ bufOut' = SubSeq(bufOut, SegSize + 1, Len(bufOut))
            /\ newFinal' = (newFinal \/ (chunkFinal /\ bufOut' = <<>>))
            /\ newCount' = newCount + 1
            /\ UNCHANGED <<outIndex, chunkFinal, rpc, ending>>
        BY <2>4 DEF ResegCut, Reseg, ioVars
      <3>2. /\ Ends(outIndex) \in 0..Len(W) /\ W \in Seq(Units)
            /\ Cut(newCount) \in 0..Ends(outIndex)
            /\ Len(bufOut) = Ends(outIndex) - Cut(newCount)
            /\ SegSize \in Nat \ {0} /\ newCount \in Nat
            /\ Cut(newCount + 1) = Cut(newCount) + SegSize
        BY <1>0, BufferFacts, StreamFacts, CutFacts DEF Buffer
      <3>3. bufOut' = SubSeq(W, Cut(newCount) + SegSize + 1, Ends(outIndex))
        <4>1. /\ bufOut = SubSeq(W, Cut(newCount) + 1, Ends(outIndex))
              /\ SegSize \in 0..(Ends(outIndex) - Cut(newCount))
          BY <3>1, <3>2 DEF Buffer
        <4> HIDE DEF W
        <4>2. \A b \in 0..Len(W) : \A a \in 0..b : \A n \in 0..(b - a) :
                SubSeq(SubSeq(W, a + 1, b), n + 1, b - a) = SubSeq(W, a + n + 1, b)
          BY ONLY <3>2, CutPiece
        <4> QED BY ONLY <3>1, <3>2, <4>1, <4>2
      <3>4. Cut(newCount + 1) <= Ends(outIndex)
        BY <3>1, <3>2
      <3>5. newFinal' \in BOOLEAN /\ (newFinal' => chunkFinal /\ bufOut' = <<>>)
        <4>1. bufOut # <<>>
          BY <3>1, <3>2
        <4> QED BY <3>1, <4>1 DEF Buffer
      <3>6. (Cut(newCount))' = Cut(newCount + 1)
        BY <3>1 DEF Cut
      <3>7. bufOut' = SubSeq(W, Cut(newCount + 1) + 1, Ends(outIndex))
        BY <3>2, <3>3
      <3>8. newCount' \in Nat /\ W' = W /\ (Ends(outIndex))' = Ends(outIndex)
        BY <1>0, <3>1, <3>2 DEF Ends
      <3>9. /\ (Cut(newCount))' <= (Ends(outIndex))'
            /\ bufOut' = SubSeq(W', (Cut(newCount))' + 1, (Ends(outIndex))')
        BY <3>4, <3>6, <3>7, <3>8
      <3> HIDE DEF W
      <3> QED BY <1>0, <2>0, <3>1, <3>5, <3>8, <3>9 DEF Buffer, W
    <2>5. CASE ResegCutDone
      BY <1>0, <2>0, <2>5, BufferKept DEF ResegCutDone, Reseg, ioVars, Buffer
    <2>6. CASE ResegRecvClosed
      BY <1>0, <2>0, <2>6, BufferKept DEF ResegRecvClosed, Reseg, ioVars, Buffer
    <2>7. CASE ResegFlush \/ ResegNothingLeft \/ ResegSendClosed
      <3>1. /\ UNCHANGED <<outIndex, bufOut, chunkFinal, newCount>>
            /\ newFinal' \in BOOLEAN /\ rpc' = "ended"
            /\ ending'[Resegmenter] = "err" \/ rpc = "flush"
        BY <1>0, <2>0, <2>7
        DEF ResegFlush, ResegNothingLeft, ResegSendClosed, ResegEnd, Reseg, Buffer
      <3> QED BY <1>0, <3>1 DEF Buffer, Cut
    <2> QED BY <1>4, <2>1, <2>2, <2>3, <2>4, <2>5, <2>6, <2>7 DEF ResegNext
  <1>5. CASE UNCHANGED vars
    BY <1>1, <1>5 DEF vars, ioVars, pipeVars, resegVars
  <1> QED BY <1>0, <1>2, <1>3, <1>4, <1>5 DEF Next, Exited

-----------------------------------------------------------------------------
(* Behind the resegmentation thread: what was cut off stays as it is.      *)

Grown == /\ NCuts \in Nat /\ NCuts' \in Nat /\ NCuts <= NCuts'
         /\ \A k \in 0..(NCuts - 1) : (EMsg(k))' = EMsg(k)

LEMMA CutsGrow ==
  ASSUME Control, Buffer, [Next]_vars
  PROVE  Grown
  <1> USE DefinedBySource
  <1>0. /\ source' = source /\ newCount \in Nat
        /\ Resegmenter \in Threads /\ Resegmenter \notin Workers
        /\ Compressors \subseteq Workers /\ Encryptors \subseteq Workers
    BY SourceFixed, ThreadFacts DEF Buffer
  <1>1. ASSUME UNCHANGED <<newCount, bufOut>>, ending'[Resegmenter] = ending[Resegmenter]
        PROVE  Grown
    <2>1. NCuts' = NCuts /\ NCuts \in Nat
      BY <1>0, <1>1 DEF NCuts, Flushed
    <2>2. \A k : (EMsg(k))' = EMsg(k)
      BY <1>0, <1>1 DEF EMsg, FullMsg, Cut
    <2> QED BY <2>1, <2>2 DEF Grown
  <1>2. CASE ResegNext
    <2>1. /\ ending[Resegmenter] = "running"
          /\ newCount' = newCount \/ newCount' = newCount + 1
      BY <1>0, <1>2, ResegKeeps
      DEF ResegNext, ResegRecv, ResegTake, ResegDrained, ResegCut, ResegCutDone,
          ResegRecvClosed, ResegFlush, ResegNothingLeft, ResegSendClosed, ResegEnd
    <2>2. NCuts = newCount /\ (NCuts' = newCount' \/ NCuts' = newCount' + 1)
      BY <2>1 DEF NCuts, Flushed
    <2>3. NCuts \in Nat /\ NCuts' \in Nat /\ NCuts <= NCuts'
      <3>1. newCount' \in Nat /\ newCount <= newCount'
        BY <1>0, <2>1
      <3> QED BY <1>0, <2>2, <3>1
    <2>4. ASSUME NEW k \in 0..(NCuts - 1)
          PROVE  (EMsg(k))' = EMsg(k)
      <3>1. k < newCount /\ k < newCount'
        BY <1>0, <2>1, <2>2
      <3> QED BY <1>0, <3>1 DEF EMsg, FullMsg, Cut
    <2> QED BY <2>3, <2>4 DEF Grown
  <1>3. CASE Main \/ Writer
    BY <1>1, <1>3, MainAndWriterKeep
  <1>4. ASSUME NEW t \in Workers, CompressNext(t) \/ EncryptNext(t)
        PROVE  Grown
    BY <1>0, <1>1, <1>4, WorkerKeeps
  <1>5. CASE UNCHANGED vars
    BY <1>1, <1>5 DEF vars, ioVars, pipeVars, resegVars
  <1> QED BY <1>0, <1>2, <1>3, <1>4, <1>5 DEF Next, Exited

LEMMA MessagesGrow ==
  ASSUME Grown
  PROVE  /\ EMsgs \subseteq EMsgs' /\ OutMsgs \subseteq OutMsgs'
         /\ {m.buf : m \in OutMsgs} \subseteq {m.buf : m \in OutMsgs'}
  <1>1. EMsgs \subseteq EMsgs'
    <2>1. ASSUME NEW k \in 0..(NCuts - 1)
          PROVE  EMsg(k) \in EMsgs'
      <3>1. (EMsg(k))' = EMsg(k)
        BY DEF Grown
      <3>2. \A n \in Nat : NCuts <= n => k \in 0..(n - 1)
        BY DEF Grown
      <3>3. k \in 0..(NCuts' - 1)
        BY <3>2 DEF Grown
      <3> QED BY <3>1, <3>3 DEF EMsgs
    <2> QED BY <2>1 DEF EMsgs
  <1>2. OutMsgs \subseteq OutMsgs'
    BY <1>1 DEF OutMsgs, OutMsg
  <1> QED BY <1>1, <1>2

LEMMA SegmentFacts ==
  ASSUME NCuts \in Nat
  PROVE  /\ \A k \in 0..(NCuts - 1) : EMsg(k) \in EMsgs
         /\ \A m \in EMsgs : /\ m.idx \in 0..(NCuts - 1) /\ m = EMsg(m.idx)
                             /\ OutMsg(m) \in OutMsgs /\ OutMsg(m).idx = m.idx
         /\ \A m \in OutMsgs : m.idx \in 0..(NCuts - 1) /\ m = OutMsg(EMsg(m.idx))
  <1>1. \A k : EMsg(k).idx = k
    BY DEF EMsg, FullMsg
  <1>2. \A m : OutMsg(m).idx = m.idx
    BY DEF OutMsg
  <1> QED BY <1>1, <1>2 DEF EMsgs, OutMsgs

\* The segment that is cut off is the next one of the stream, and it is
\* flagged if and only if it ends the stream.
LEMMA CutIsNext ==
  ASSUME Control, Buffer, ResegCut, NEW k \in Nat, k = newCount
  PROVE  chE' = Append(chE, (EMsg(k))') /\ NCuts' = k + 1
  <1> DEFINE W == Whole(source)
  <1>0. source' = source
    BY DEF ResegCut, ioVars
  <1>1. /\ source \in Sources /\ newCount \in Nat /\ outIndex \in 0..NChunks
        /\ ending[Resegmenter] = "running" /\ ending' = ending
        /\ newCount' = newCount + 1 /\ Len(bufOut) >= SegSize
        /\ bufOut' = SubSeq(bufOut, SegSize + 1, Len(bufOut))
        /\ newFinal' = (newFinal \/ (chunkFinal /\ bufOut' = <<>>))
        /\ chE' = Append(chE, [buf |-> SubSeq(bufOut, 1, SegSize), idx |-> newCount,
                               final |-> newFinal'])
    BY DEF ResegCut, Reseg, SendSegment, ioVars, Control, Buffer
  <1>2. /\ Ends(outIndex) \in 0..Len(W) /\ W \in Seq(Units)
        /\ Cut(newCount) \in 0..Ends(outIndex)
        /\ Len(bufOut) = Ends(outIndex) - Cut(newCount)
        /\ bufOut \in Seq(Units)
        /\ SegSize \in Nat \ {0} /\ Cut(newCount + 1) = Cut(newCount) + SegSize
        /\ NChunks \in Nat \ {0}
    BY <1>1, BufferFacts, StreamFacts, CutFacts
  <1>3. SubSeq(bufOut, 1, SegSize) = SubSeq(W, Cut(newCount) + 1, Cut(newCount + 1))
    <2>1. /\ bufOut = SubSeq(W, Cut(newCount) + 1, Ends(outIndex))
          /\ SegSize \in 0..(Ends(outIndex) - Cut(newCount))
      BY <1>1, <1>2 DEF Buffer
    <2> HIDE DEF W
    <2>2. \A b \in 0..Len(W) : \A a \in 0..b : \A n \in 0..(b - a) :
            SubSeq(SubSeq(W, a + 1, b), 1, n) = SubSeq(W, a + 1, a + n)
      BY ONLY <1>2, CutPiece
    <2>3. \A n \in 0..(Ends(outIndex) - Cut(newCount)) :
            SubSeq(bufOut, 1, n) = SubSeq(W, Cut(newCount) + 1, Cut(newCount) + n)
      BY ONLY <1>2, <2>1, <2>2
    <2>4. SubSeq(bufOut, 1, SegSize) = SubSeq(W, Cut(newCount) + 1, Cut(newCount) + SegSize)
      BY ONLY <2>1, <2>3
    <2> QED BY <1>2, <2>4
  <1>4. bufOut' = <<>> <=> Cut(newCount + 1) = Ends(outIndex)
    <2>1. /\ bufOut' \in Seq(Units)
          /\ Len(bufOut') = Len(bufOut) - SegSize
      <3>1. SegSize \in 0..Len(bufOut) /\ Len(bufOut) \in 0..Len(bufOut)
        BY <1>1, <1>2
      <3>2. \A b \in 0..Len(bufOut) : \A a \in 0..b :
              SubSeq(bufOut, a + 1, b) \in Seq(Units) /\ Len(SubSeq(bufOut, a + 1, b)) = b - a
        BY ONLY <1>2, PieceFacts
      <3> QED BY ONLY <1>1, <3>1, <3>2
    <2>2. bufOut' = <<>> <=> Len(bufOut') = 0
      BY <2>1
    <2> QED BY <1>2, <2>1, <2>2
  <1>5. Ends(outIndex) = Len(W) <=> outIndex = NChunks
    <2>1. Ends(NChunks) = Len(W)
      BY <1>1, StreamFacts
    <2>2. ASSUME outIndex # NChunks
          PROVE  Ends(outIndex) < Len(W)
      <3>1. outIndex \in 0..(NChunks - 1) /\ outIndex + 1 \in 0..NChunks
        BY <1>1, <1>2, <2>2
      <3>2. Ends(outIndex) < Ends(outIndex + 1) /\ Ends(outIndex + 1) \in 0..Len(W)
        BY <1>1, <3>1, StreamFacts
      <3> QED BY <1>2, <3>2
    <2> QED BY <1>2, <2>1, <2>2
  <1>6. newFinal' = (Cut(newCount + 1) = Len(W))
    <2>1. ~newFinal /\ newFinal' \in BOOLEAN
      <3>1. bufOut # <<>> /\ rpc = "cut"
        BY <1>1, <1>2 DEF ResegCut, Reseg
      <3> QED BY <1>1, <3>1 DEF Buffer
    <2>2. newFinal' <=> outIndex = NChunks /\ Cut(newCount + 1) = Ends(outIndex)
      BY <1>1, <1>4, <2>1 DEF Buffer
    <2>3. Cut(newCount + 1) <= Ends(outIndex) /\ Cut(newCount + 1) \in Nat
      <3>1. SegSize <= Ends(outIndex) - Cut(newCount)
        BY <1>1, <1>2
      <3>2. Ends(outIndex) \in Nat /\ Cut(newCount) \in Nat /\ SegSize \in Nat
        BY <1>2
      <3> QED BY ONLY <1>2, <3>1, <3>2
    <2>4. Cut(newCount + 1) = Len(W) <=> outIndex = NChunks /\ Cut(newCount + 1) = Ends(outIndex)
      <3>1. Ends(outIndex) <= Len(W) /\ Ends(outIndex) \in Nat /\ Len(W) \in Nat
        BY <1>2
      <3> QED BY <1>5, <2>3, <3>1
    <2> QED BY <2>1, <2>2, <2>4
  <1>7. (EMsg(k))' = [buf |-> SubSeq(W, Cut(newCount) + 1, Cut(newCount + 1)),
                      idx |-> newCount, final |-> Cut(newCount + 1) = Len(W)]
    <2>1. k < newCount'
      BY <1>1
    <2> QED BY <1>0, <2>1, DefinedBySource DEF EMsg, FullMsg, Cut
  <1>8. NCuts' = newCount + 1
    BY <1>1 DEF NCuts, Flushed
  <1> QED BY <1>1, <1>3, <1>6, <1>7, <1>8

\* What is flushed is the rest of the stream that was taken.
LEMMA FlushIsNext ==
  ASSUME Control, Buffer, ResegFlush, NEW k \in Nat, k = newCount
  PROVE  chE' = Append(chE, (EMsg(k))') /\ NCuts' = k + 1
  <1>1. /\ bufOut # <<>> /\ bufOut' = bufOut /\ newCount' = newCount
        /\ ending' = [ending EXCEPT ![Resegmenter] = "ok"]
        /\ chE' = Append(chE, [buf |-> bufOut, idx |-> newCount, final |-> TRUE])
    BY DEF ResegFlush, SendSegment, ResegEnd
  <1>2. ending'[Resegmenter] = "ok"
    BY <1>1, ThreadFacts DEF Control
  <1>3. (EMsg(k))' = [buf |-> bufOut, idx |-> newCount, final |-> TRUE]
    BY <1>1 DEF EMsg
  <1>4. NCuts' = newCount + 1
    BY <1>1, <1>2 DEF NCuts, Flushed
  <1> QED BY <1>1, <1>3, <1>4

LEMMA DownstreamKept ==
  ASSUME Downstream, Grown, UNCHANGED <<chE, chOut, writeIndex, written>>,
         pending' \subseteq pending,
         \A t \in Encryptors : ending'[t] = "running" =>
           ending[t] = "running" /\ stage'[t] = stage[t] /\ hold'[t] = hold[t]
  PROVE  Downstream'
  <1>1. /\ EMsgs \subseteq EMsgs' /\ OutMsgs \subseteq OutMsgs'
        /\ {m.buf : m \in OutMsgs} \subseteq {m.buf : m \in OutMsgs'}
    BY MessagesGrow
  <1>2. chE' \in Seq(EMsgs') /\ chOut' \in Seq(OutMsgs')
    BY <1>1, SeqMonotonic DEF Downstream
  <1>3. written' \in Seq({m.buf : m \in OutMsgs'}) /\ Len(written') = writeIndex'
    BY <1>1, SeqMonotonic DEF Downstream
  <1>4. writeIndex' \in 0..NCuts'
    BY DEF Downstream, Grown
  <1>5. ASSUME NEW k \in 0..(writeIndex' - 1)
        PROVE  written'[k + 1] = (OutMsg(EMsg(k)).buf)'
    <2>1. k \in 0..(writeIndex - 1) /\ k \in 0..(NCuts - 1) /\ (EMsg(k))' = EMsg(k)
      BY DEF Downstream, Grown
    <2> QED BY <2>1 DEF Downstream, OutMsg
  <1>6. pending' \subseteq OutMsgs'
    BY <1>1 DEF Downstream
  <1>7. \A t \in Encryptors : ending'[t] = "running" =>
          /\ stage'[t] = "work" => hold'[t] \in EMsgs'
          /\ stage'[t] = "send" => hold'[t] \in OutMsgs'
    BY <1>1 DEF Downstream
  <1> QED BY <1>2, <1>3, <1>4, <1>5, <1>6, <1>7 DEF Downstream

LEMMA DownstreamStep ==
  ASSUME Control, Buffer, Downstream, [Next]_vars
  PROVE  Downstream'
  <1>0. /\ Grown
        /\ Compressors \subseteq Workers /\ Workers \subseteq Threads
        /\ Encryptors \subseteq Workers /\ Compressors \cap Encryptors = {}
    BY CutsGrow, ThreadFacts
  <1>1. CASE Main
    BY <1>0, <1>1, MainAndWriterKeep, MainKeeps, DownstreamKept
  <1>2. CASE Writer
    <2>0. UNCHANGED <<chE, stage, hold, ending, newCount, bufOut, source>>
      BY <1>2, MainAndWriterKeep, WriterKeeps
    <2>1. /\ EMsgs' = EMsgs /\ NCuts' = NCuts /\ OutMsgs' = OutMsgs
          /\ \A k : (EMsg(k))' = EMsg(k)
      <3>1. NCuts' = NCuts /\ \A k : (EMsg(k))' = EMsg(k)
        BY <2>0, DefinedBySource DEF NCuts, Flushed, EMsg, FullMsg, Cut
      <3> QED BY <3>1 DEF EMsgs, OutMsgs, OutMsg
    <2>2. CASE WriterRecv
      <3>1. Head(chOut) \in OutMsgs /\ chOut' \in Seq(OutMsgs)
        BY <2>2, RecvFacts DEF WriterRecv, Downstream
      <3>2. pending' \subseteq OutMsgs /\ UNCHANGED <<writeIndex, written>>
        BY <2>2, <3>1 DEF WriterRecv, Downstream
      <3> QED BY <2>0, <2>1, <3>1, <3>2 DEF Downstream, OutMsg
    <2>3. CASE WriterWrite
      <3>1. PICK m \in pending : /\ m.idx = writeIndex
                                 /\ written' = Append(written, m.buf)
                                 /\ pending' = pending \ {m}
        BY <2>3 DEF WriterWrite
      <3>2. /\ m \in OutMsgs /\ writeIndex \in 0..(NCuts - 1) /\ m = OutMsg(EMsg(writeIndex))
            /\ NCuts \in Nat /\ writeIndex' = writeIndex + 1 /\ chOut' = chOut
        BY <1>0, <2>3, <3>1, SegmentFacts DEF Grown, Downstream, WriterWrite
      <3>3. /\ written' \in Seq({n.buf : n \in OutMsgs}) /\ Len(written') = writeIndex'
            /\ \A i \in 1..writeIndex : written'[i] = written[i]
            /\ written'[writeIndex + 1] = m.buf
        <4> DEFINE Bufs == {n.buf : n \in OutMsgs}
        <4>1. written \in Seq(Bufs) /\ Len(written) = writeIndex
          BY DEF Downstream
        <4>2. PICK b \in Bufs : b = m.buf
          BY <3>2
        <4> HIDE DEF Bufs
        <4>3. written' = Append(written, b) /\ writeIndex' = writeIndex + 1
          BY <3>1, <3>2, <4>2
        <4>4. /\ written' \in Seq(Bufs) /\ Len(written') = Len(written) + 1
              /\ \A i \in 1..Len(written) : written'[i] = written[i]
              /\ written'[Len(written) + 1] = b
          BY ONLY <4>1, <4>3, b \in Bufs, AppendProperties
        <4> QED BY <4>1, <4>2, <4>3, <4>4 DEF Bufs
      <3>4. ASSUME NEW k \in 0..(writeIndex' - 1)
            PROVE  written'[k + 1] = OutMsg(EMsg(k)).buf
        <4>1. CASE k = writeIndex
          BY <3>2, <3>3, <4>1
        <4>2. CASE k # writeIndex
          <5>1. k \in 0..(writeIndex - 1) /\ k + 1 \in 1..writeIndex
            BY <3>2, <4>2
          <5> QED BY <3>3, <5>1 DEF Downstream
        <4> QED BY <4>1, <4>2
      <3>5. writeIndex' \in 0..NCuts /\ pending' \subseteq OutMsgs
        BY <3>1, <3>2 DEF Downstream
      <3> QED BY <2>0, <2>1, <3>2, <3>3, <3>4, <3>5 DEF Downstream, OutMsg
    <2>4. CASE ~WriterRecv /\ ~WriterWrite
      <3>1. UNCHANGED <<chOut, writeIndex, written>> /\ pending' \subseteq pending
        BY <1>2, <2>4
        DEF Writer, WriterNext, WriterWriteError, WriterDrained, WriterRecvClosed,
            WriterOthers, WriterOthersError
      <3> QED BY <1>0, <2>0, <3>1, DownstreamKept
    <2> QED BY <2>2, <2>3, <2>4
  <1>3. CASE ResegNext
    <2>1. /\ UNCHANGED <<chOut, pending, writeIndex, written, stage, hold>>
          /\ \A t \in Encryptors : ending'[t] = ending[t]
      BY <1>0, <1>3, ResegKeeps
    <2>2. CASE chE' = chE
      BY <1>0, <2>1, <2>2, DownstreamKept
    <2>3. CASE ResegCut \/ ResegFlush
      <3>1. PICK k \in Nat : k = newCount
        BY DEF Buffer
      <3>2. chE' = Append(chE, (EMsg(k))') /\ NCuts' = k + 1
        BY <2>3, <3>1, CutIsNext, FlushIsNext
      <3>3. (EMsg(k))' \in EMsgs'
        <4>1. k \in 0..((k + 1) - 1)
          OBVIOUS
        <4> QED BY <3>2, <4>1 DEF EMsgs
      <3>4. chE \in Seq(EMsgs')
        BY <1>0, MessagesGrow, SeqMonotonic DEF Downstream
      <3>5. chE' \in Seq(EMsgs')
        BY <3>2, <3>3, <3>4, SendFacts
      <3>6. /\ EMsgs \subseteq EMsgs' /\ OutMsgs \subseteq OutMsgs'
            /\ {m.buf : m \in OutMsgs} \subseteq {m.buf : m \in OutMsgs'}
        BY <1>0, MessagesGrow
      <3>7. chOut' \in Seq(OutMsgs') /\ written' \in Seq({m.buf : m \in OutMsgs'})
        BY <2>1, <3>6, SeqMonotonic DEF Downstream
      <3>8. writeIndex' \in 0..NCuts'
        BY <1>0, <2>1 DEF Downstream, Grown
      <3>9. ASSUME NEW j \in 0..(writeIndex' - 1)
            PROVE  written'[j + 1] = (OutMsg(EMsg(j)).buf)'
        <4>1. j \in 0..(writeIndex - 1) /\ j \in 0..(NCuts - 1) /\ (EMsg(j))' = EMsg(j)
          BY <1>0, <2>1 DEF Downstream, Grown
        <4> QED BY <2>1, <4>1 DEF Downstream, OutMsg
      <3> QED BY <2>1, <3>5, <3>6, <3>7, <3>8, <3>9 DEF Downstream
    <2> QED BY <1>3, <2>2, <2>3
            DEF ResegNext, ResegRecv, ResegTake, ResegDrained, ResegCutDone,
                ResegRecvClosed, ResegNothingLeft, ResegSendClosed
  <1>4. ASSUME NEW t \in Compressors, CompressNext(t)
        PROVE  Downstream'
    <2>1. UNCHANGED <<chE, chOut>>
      BY <1>4 DEF CompressNext, CompressRecv, CompressRecvClosed, CompressWork,
         CompressError, CompressSend, CompressSendClosed, End
    <2>2. /\ t \in Workers /\ UNCHANGED <<pending, writeIndex, written>>
          /\ \A u \in Encryptors : /\ ending'[u] = ending[u]
                                   /\ hold'[u] = hold[u] /\ stage'[u] = stage[u]
      BY <1>0, <1>4, WorkerKeeps
    <2> QED BY <1>0, <2>1, <2>2, DownstreamKept
  <1>5. ASSUME NEW t \in Encryptors, EncryptNext(t)
        PROVE  Downstream'
    <2>0. /\ t \in Workers /\ t \in Threads /\ ending[t] = "running"
          /\ UNCHANGED <<source, pending, writeIndex, written, newCount, bufOut>>
          /\ \A u \in Encryptors \ {t} : /\ ending'[u] = ending[u]
                                         /\ hold'[u] = hold[u] /\ stage'[u] = stage[u]
          /\ ending'[Resegmenter] = ending[Resegmenter]
          /\ DOMAIN hold = Workers /\ DOMAIN stage = Workers /\ DOMAIN ending = Threads
      BY <1>0, <1>5, WorkerKeeps, ThreadFacts DEF Control
    <2>1. /\ EMsgs' = EMsgs /\ NCuts' = NCuts /\ OutMsgs' = OutMsgs
          /\ \A k : (EMsg(k))' = EMsg(k)
      <3>1. NCuts' = NCuts /\ \A k : (EMsg(k))' = EMsg(k)
        BY <2>0, DefinedBySource DEF NCuts, Flushed, EMsg, FullMsg, Cut
      <3> QED BY <3>1 DEF EMsgs, OutMsgs, OutMsg
    <2>2. CASE EncryptRecv(t)
      <3>1. /\ Head(chE) \in EMsgs /\ chE' \in Seq(EMsgs) /\ chOut' = chOut
            /\ hold'[t] = Head(chE) /\ stage'[t] = "work"
        BY <2>0, <2>2, RecvFacts DEF EncryptRecv, Take, Downstream
      <3> QED BY <2>0, <2>1, <3>1 DEF Downstream, OutMsg
    <2>3. CASE EncryptWork(t)
      <3>1. /\ UNCHANGED <<chE, chOut>> /\ hold[t] \in EMsgs /\ stage'[t] = "send"
            /\ hold'[t] = OutMsg(hold[t])
        BY <2>0, <2>3 DEF EncryptWork, Running, Done, Downstream, OutMsg
      <3>2. hold'[t] \in OutMsgs
        BY <3>1 DEF OutMsgs
      <3> QED BY <2>0, <2>1, <3>1, <3>2 DEF Downstream, OutMsg
    <2>4. CASE EncryptSend(t)
      <3>1. /\ chE' = chE /\ hold[t] \in OutMsgs /\ stage'[t] = "recv"
            /\ chOut' = Append(chOut, hold[t])
        BY <2>0, <2>4 DEF EncryptSend, Running, Sent, Downstream
      <3>2. chOut' \in Seq(OutMsgs)
        BY <3>1, SendFacts DEF Downstream
      <3> QED BY <2>0, <2>1, <3>1, <3>2 DEF Downstream, OutMsg
    <2>5. CASE EncryptRecvClosed(t) \/ EncryptError(t) \/ EncryptSendClosed(t)
      <3>1. UNCHANGED <<chE, chOut>> /\ ending'[t] # "running"
        BY <2>0, <2>5 DEF EncryptRecvClosed, EncryptError, EncryptSendClosed, End
      <3> QED BY <1>0, <2>0, <3>1, DownstreamKept
    <2> QED BY <1>5, <2>2, <2>3, <2>4, <2>5 DEF EncryptNext
  <1>6. CASE UNCHANGED vars
    BY <1>0, <1>6, DownstreamKept DEF vars, ioVars, pipeVars, resegVars
  <1> QED BY <1>1, <1>2, <1>3, <1>4, <1>5, <1>6 DEF Next, Exited

-----------------------------------------------------------------------------
(* What the control states say of one another.                             *)

LEMMA ControlStep ==
  ASSUME Control, Buffer, [Next]_vars
  PROVE  Control'
  <1> USE EncryptAssumption DEF Control, Failed, Ended, TxInOpen
  <1>0. /\ NChunks \in Nat \ {0} /\ NHandles \in Nat \ {0}
        /\ source' = source /\ NChunks' = NChunks
        /\ Threads = Compressors \cup Encryptors \cup {Resegmenter}
        /\ Workers = Compressors \cup Encryptors
        /\ Resegmenter \notin Workers /\ Compressors \cap Encryptors = {}
        /\ Compressors # {} /\ Encryptors # {}
    BY SourceFixed, DefinedBySource, SourceLength, IoAssumption, ThreadFacts
  <1>1. CASE MainRead /\ UNCHANGED pipeVars
    BY <1>0, <1>1 DEF MainRead, writerVars, pipeVars, resegVars
  <1>2. CASE MainReadError /\ UNCHANGED pipeVars
    BY <1>0, <1>2 DEF MainReadError, Return, writerVars, pipeVars, resegVars
  <1>3. CASE MainSend /\ UNCHANGED pipeVars
    BY <1>0, <1>3 DEF MainSend, SendChunk, IsFinal, writerVars, pipeVars, resegVars
  <1>4. CASE MainProgressError /\ UNCHANGED pipeVars
    BY <1>0, <1>4 DEF MainProgressError, SendChunk, Return, writerVars, pipeVars, resegVars
  <1>5. CASE MainSendClosed /\ UNCHANGED pipeVars
    BY <1>0, <1>5 DEF MainSendClosed, RxInOpen, writerVars, pipeVars, resegVars
  <1>6. CASE MainJoinWriter /\ UNCHANGED pipeVars
    BY <1>0, <1>6 DEF MainJoinWriter, Return, WriterRuns, writerVars, pipeVars, resegVars
  <1>7. CASE MainJoinCrypt /\ UNCHANGED pipeVars
    BY <1>0, <1>7 DEF MainJoinCrypt, Return, Threads, writerVars, pipeVars, resegVars
  <1>8. CASE MainOk /\ UNCHANGED pipeVars
    BY <1>0, <1>8 DEF MainOk, Return, Threads, writerVars, pipeVars, resegVars
  <1>9. CASE MainExit /\ UNCHANGED pipeVars
    BY <1>0, <1>9 DEF MainExit, writerVars, pipeVars, resegVars
  <1>10. CASE WriterRecv /\ UNCHANGED pipeVars
    BY <1>0, <1>10 DEF WriterRecv, mainVars, pipeVars, resegVars
  <1>11. CASE WriterWrite /\ UNCHANGED pipeVars
    BY <1>0, <1>11 DEF WriterWrite, mainVars, pipeVars, resegVars
  <1>12. CASE WriterWriteError /\ UNCHANGED pipeVars
    BY <1>0, <1>12 DEF WriterWriteError, mainVars, pipeVars, resegVars
  <1>13. CASE WriterDrained /\ UNCHANGED pipeVars
    BY <1>0, <1>13 DEF WriterDrained, Waiting, mainVars, pipeVars, resegVars
  <1>14. CASE WriterRecvClosed /\ UNCHANGED pipeVars
    BY <1>0, <1>14 DEF WriterRecvClosed, TxOutOpen, mainVars, pipeVars, resegVars
  <1>15. CASE WriterOthers /\ UNCHANGED pipeVars
    BY <1>0, <1>15 DEF WriterOthers, mainVars, pipeVars, resegVars
  <1>16. CASE WriterOthersError /\ UNCHANGED pipeVars
    BY <1>0, <1>16 DEF WriterOthersError, mainVars, pipeVars, resegVars
  <1>17. CASE ResegRecv
    BY <1>0, <1>17 DEF ResegRecv, Reseg, ioVars, mainVars, writerVars
  <1>18. CASE ResegTake
    BY <1>0, <1>18 DEF ResegTake, Reseg, ioVars, mainVars, writerVars
  <1>19. CASE ResegDrained
    BY <1>0, <1>19 DEF ResegDrained, Waiting, Reseg, ioVars, mainVars, writerVars
  <1>20. CASE ResegCut
    BY <1>0, <1>20 DEF ResegCut, Reseg, ioVars, mainVars, writerVars
  <1>21. CASE ResegCutDone
    BY <1>0, <1>21 DEF ResegCutDone, Reseg, ioVars, mainVars, writerVars
  <1>22. CASE ResegRecvClosed
    BY <1>0, <1>22 DEF ResegRecvClosed, TxCOpen, Reseg, ioVars, mainVars, writerVars
  <1>23. CASE ResegFlush
    BY <1>0, <1>23 DEF ResegFlush, ResegEnd, Reseg, ioVars, mainVars, writerVars
  <1>24. CASE ResegNothingLeft
    BY <1>0, <1>24 DEF ResegNothingLeft, ResegEnd, Reseg, ioVars, mainVars, writerVars
  <1>25. CASE ResegSendClosed
    BY <1>0, <1>25 DEF ResegSendClosed, ResegEnd, Reseg, ioVars, mainVars, writerVars
  <1>26. ASSUME NEW t \in Compressors, CompressRecv(t)
        PROVE  Control'
    BY <1>0, <1>26 DEF CompressRecv, Running, Take, mainVars, writerVars, resegVars
  <1>27. ASSUME NEW t \in Compressors, CompressRecvClosed(t)
        PROVE  Control'
    BY <1>0, <1>27 DEF CompressRecvClosed, Running, End, TxEOpen, mainVars, writerVars, resegVars
  <1>28. ASSUME NEW t \in Compressors, CompressWork(t)
        PROVE  Control'
    BY <1>0, <1>28 DEF CompressWork, Running, Done, mainVars, writerVars, resegVars
  <1>29. ASSUME NEW t \in Compressors, CompressError(t)
        PROVE  Control'
    BY <1>0, <1>29 DEF CompressError, Running, End, mainVars, writerVars, resegVars
  <1>30. ASSUME NEW t \in Compressors, CompressSend(t)
        PROVE  Control'
    BY <1>0, <1>30 DEF CompressSend, Running, Sent, mainVars, writerVars, resegVars
  <1>31. ASSUME NEW t \in Compressors, CompressSendClosed(t)
        PROVE  Control'
    BY <1>0, <1>31 DEF CompressSendClosed, Running, End, RxCOpen, RxOutOpen, mainVars, writerVars, resegVars
  <1>32. ASSUME NEW t \in Encryptors, EncryptRecv(t)
        PROVE  Control'
    BY <1>0, <1>32 DEF EncryptRecv, Running, Take, mainVars, writerVars, resegVars
  <1>33. ASSUME NEW t \in Encryptors, EncryptRecvClosed(t)
        PROVE  Control'
    BY <1>0, <1>33 DEF EncryptRecvClosed, Running, End, TxEOpen, mainVars, writerVars, resegVars
  <1>34. ASSUME NEW t \in Encryptors, EncryptWork(t)
        PROVE  Control'
    BY <1>0, <1>34 DEF EncryptWork, Running, Done, mainVars, writerVars, resegVars
  <1>35. ASSUME NEW t \in Encryptors, EncryptError(t)
        PROVE  Control'
    BY <1>0, <1>35 DEF EncryptError, Running, End, mainVars, writerVars, resegVars
  <1>36. ASSUME NEW t \in Encryptors, EncryptSend(t)
        PROVE  Control'
    BY <1>0, <1>36 DEF EncryptSend, Running, Sent, mainVars, writerVars, resegVars
  <1>37. ASSUME NEW t \in Encryptors, EncryptSendClosed(t)
        PROVE  Control'
    BY <1>0, <1>37 DEF EncryptSendClosed, Running, End, RxCOpen, RxOutOpen, mainVars, writerVars, resegVars
  <1>38. CASE UNCHANGED vars
    BY <1>0, <1>38 DEF vars, ioVars, pipeVars, resegVars
  <1> QED
    BY <1>1, <1>2, <1>3, <1>4, <1>5, <1>6, <1>7, <1>8, <1>9, <1>10, <1>11, <1>12,
       <1>13, <1>14, <1>15, <1>16, <1>17, <1>18, <1>19, <1>20, <1>21, <1>22, <1>23,
       <1>24, <1>25, <1>26, <1>27, <1>28, <1>29, <1>30, <1>31, <1>32, <1>33, <1>34,
       <1>35, <1>36, <1>37, <1>38
    DEF Next, Exited, Main, MainNext, Writer, WriterNext, ResegNext, CompressNext, EncryptNext

-----------------------------------------------------------------------------
(* As long as no thread failed, nothing is lost.                           *)

LEMMA FailureStays ==
  ASSUME Control, Failed, [Next]_vars
  PROVE  Failed'
  <1>0. /\ Compressors \subseteq Workers /\ Encryptors \subseteq Workers
        /\ Threads = Workers \cup {Resegmenter}
    BY ThreadFacts
  <1>1. CASE wpc = "err"
    <2>1. wpc' = wpc
      <3>1. CASE Main
        BY <3>1, MainKeeps
      <3>2. CASE Writer
        BY <1>1, <3>2 DEF Writer, WriterNext, WriterRecv, WriterWrite, WriterWriteError,
           WriterDrained, WriterRecvClosed, WriterOthers, WriterOthersError
      <3>3. CASE ResegNext
        BY <3>3, ResegKeeps
      <3>4. ASSUME NEW t \in Workers, CompressNext(t) \/ EncryptNext(t)
            PROVE  wpc' = wpc
        BY <3>4, WorkerKeeps
      <3>5. CASE UNCHANGED vars
        BY <3>5 DEF vars, ioVars
      <3> QED BY <1>0, <3>1, <3>2, <3>3, <3>4, <3>5 DEF Next, Exited
    <2> QED BY <1>1, <2>1 DEF Failed
  <1>2. ASSUME NEW u \in Threads, ending[u] = "err"
        PROVE  Failed'
    <2>1. ending'[u] = ending[u]
      <3>1. CASE Main \/ Writer
        BY <3>1, MainAndWriterKeep
      <3>2. CASE ResegNext
        BY <1>0, <1>2, <3>2, ResegKeeps
      <3>3. ASSUME NEW t \in Workers, CompressNext(t) \/ EncryptNext(t)
            PROVE  ending'[u] = ending[u]
        BY <1>2, <3>3, WorkerKeeps
      <3>4. CASE UNCHANGED vars
        BY <3>4 DEF vars, ioVars
      <3> QED BY <1>0, <3>1, <3>2, <3>3, <3>4 DEF Next, Exited
    <2> QED BY <1>2, <2>1 DEF Failed
  <1> QED BY <1>1, <1>2 DEF Failed

\* What a worker's step does to the numbers in hand.
LEMMA HandFacts ==
  ASSUME NEW T, NEW t \in T,
         \A u \in T \ {t} : /\ ending'[u] = ending[u]
                            /\ hold'[u] = hold[u] /\ stage'[u] = stage[u]
  PROVE  /\ ~InHand(t) => Held(T) \subseteq (Held(T))'
         /\ InHand(t) => Held(T) \subseteq (Held(T))' \cup {hold[t].idx}
         /\ (InHand(t))' => hold'[t].idx \in (Held(T))'
  <1>1. \A u \in T \ {t} : (InHand(u))' = InHand(u)
    BY DEF InHand
  <1>2. \A u \in Hands(T) : u # t => hold[u].idx \in (Held(T))'
    BY <1>1 DEF Hands, Held
  <1> QED BY <1>2 DEF Hands, Held

LEMMA HeldKept ==
  ASSUME NEW T, \A u \in T : /\ ending'[u] = ending[u]
                             /\ hold'[u] = hold[u] /\ stage'[u] = stage[u]
  PROVE  (Held(T))' = Held(T)
  <1>1. \A u \in T : (InHand(u))' = InHand(u)
    BY DEF InHand
  <1> QED BY <1>1 DEF Hands, Held

\* The numbers in the places before the resegmentation thread ...
Before == Waiting(rPending) \cup Places(chC) \cup Held(Compressors) \cup Places(chIn)

LEMMA NoChunkLostKept ==
  ASSUME NoChunkLost, chunkCount' = chunkCount, outIndex' = outIndex, Before \subseteq Before'
  PROVE  NoChunkLost'
  BY DEF NoChunkLost, Before

LEMMA NoChunkLostStep ==
  ASSUME Control, Upstream, Buffer, NoChunkLost, ~Failed, ~Failed', [Next]_vars
  PROVE  NoChunkLost'
  <1>0. /\ Compressors \subseteq Workers /\ Encryptors \subseteq Workers
        /\ Compressors \cap Encryptors = {} /\ Workers \subseteq Threads
        /\ Threads = Workers \cup {Resegmenter}
        /\ NChunks \in Nat \ {0} /\ chunkCount \in Nat /\ outIndex \in Nat
        /\ DOMAIN hold = Workers /\ DOMAIN stage = Workers /\ DOMAIN ending = Threads
    BY ThreadFacts, SourceLength DEF Control, Buffer
  <1>1. CASE Main
    <2>1. UNCHANGED <<ending, chC, stage, hold, rPending, outIndex>>
      BY <1>1, MainAndWriterKeep
    <2>2. (Held(Compressors))' = Held(Compressors)
      BY <2>1, HeldKept
    <2>3. CASE SendChunk
      <3>1. chunkCount \in 0..(NChunks - 1)
        BY <1>0, <2>3 DEF SendChunk, Control
      <3>2. InMsg(chunkCount) \in InMsgs /\ InMsg(chunkCount).idx = chunkCount
        BY <3>1, MessageFacts DEF InMsg, Control
      <3>3. (Places(chIn))' = Places(chIn) \cup {chunkCount}
        <4>1. chIn' = Append(chIn, InMsg(chunkCount)) /\ chIn \in Seq(InMsgs)
          BY <2>3 DEF SendChunk, Upstream
        <4>2. Places(chIn') = Places(chIn) \cup {chunkCount}
          BY <3>2, <4>1, SendFacts
        <4> QED BY <4>2 DEF Places
      <3>4. Before \subseteq Before' /\ chunkCount \in Before'
        BY <2>1, <2>2, <3>3 DEF Before, Waiting, Places
      <3>5. chunkCount' = chunkCount \/ chunkCount' = chunkCount + 1
        BY <1>1, <2>3
        DEF Main, MainNext, MainRead, MainReadError, MainSend, MainProgressError,
            MainSendClosed, MainJoinWriter, MainJoinCrypt, MainOk, MainExit
      <3>6. \A k \in 0..(chunkCount' - 1) : k = chunkCount \/ k \in 0..(chunkCount - 1)
        BY <1>0, <3>5
      <3> QED BY <2>1, <3>4, <3>6 DEF NoChunkLost, Before
    <2>4. CASE UNCHANGED <<chIn, chunkCount>>
      BY <2>1, <2>2, <2>4, NoChunkLostKept DEF Before, Waiting, Places
    <2> QED BY <1>1, <2>3, <2>4
            DEF Main, MainNext, MainRead, MainReadError, MainSend, MainProgressError,
                MainSendClosed, MainJoinWriter, MainJoinCrypt, MainOk, MainExit
  <1>2. CASE Writer
    <2>1. UNCHANGED <<ending, chC, stage, hold, rPending, outIndex, chIn, chunkCount>>
      BY <1>2, MainAndWriterKeep, WriterKeeps
    <2> QED BY <2>1, HeldKept, NoChunkLostKept DEF Before, Waiting, Places
  <1>3. CASE ResegNext
    <2>1. /\ UNCHANGED <<stage, hold, chIn, chunkCount>>
          /\ \A t \in Compressors : ending'[t] = ending[t]
      BY <1>0, <1>3, ResegKeeps
    <2>2. (Held(Compressors))' = Held(Compressors) /\ (Places(chIn))' = Places(chIn)
      BY <2>1, HeldKept DEF Places
    <2>3. CASE ResegRecv
      <3>1. /\ chC # <<>> /\ chC' = Tail(chC) /\ rPending' = rPending \cup {Head(chC)}
            /\ outIndex' = outIndex /\ chC \in Seq(CMsgs)
        BY <2>3 DEF ResegRecv, Upstream
      <3>2. Places(chC) = Places(Tail(chC)) \cup {Head(chC).idx}
        BY <3>1, RecvFacts
      <3>3. /\ (Places(chC))' = Places(Tail(chC))
            /\ (Waiting(rPending))' = Waiting(rPending) \cup {Head(chC).idx}
        BY <3>1 DEF Places, Waiting
      <3> QED BY <2>1, <2>2, <3>1, <3>2, <3>3, NoChunkLostKept DEF Before
    <2>4. CASE ResegTake
      <3>1. PICK m \in rPending : m.idx = outIndex /\ rPending' = rPending \ {m}
        BY <2>4 DEF ResegTake
      <3>2. outIndex' = outIndex + 1 /\ chC' = chC
        BY <2>4 DEF ResegTake
      <3>3. /\ Waiting(rPending) \subseteq (Waiting(rPending))' \cup {outIndex}
            /\ (Places(chC))' = Places(chC)
        BY <3>1, <3>2 DEF Waiting, Places
      <3>4. Before \subseteq Before' \cup {outIndex}
        BY <2>2, <3>3 DEF Before
      <3> QED BY <1>0, <2>1, <3>2, <3>4 DEF NoChunkLost, Before
    <2>5. CASE ~ResegRecv /\ ~ResegTake
      <3>1. UNCHANGED <<chC, rPending, outIndex>>
        BY <1>3, <2>5 DEF ResegNext, ResegDrained, ResegCut, ResegCutDone,
           ResegRecvClosed, ResegFlush, ResegNothingLeft, ResegSendClosed, ResegEnd
      <3> QED BY <2>1, <2>2, <3>1, NoChunkLostKept DEF Before, Waiting, Places
    <2> QED BY <2>3, <2>4, <2>5
  <1>4. ASSUME NEW t \in Compressors, CompressNext(t)
        PROVE  NoChunkLost'
    <2>0. /\ t \in Workers /\ t \in Threads /\ ending[t] = "running"
          /\ UNCHANGED <<chunkCount, rPending, outIndex>>
          /\ \A u \in Compressors \ {t} : /\ ending'[u] = ending[u]
                                          /\ hold'[u] = hold[u] /\ stage'[u] = stage[u]
      BY <1>0, <1>4, WorkerKeeps
    <2>1. /\ ~InHand(t) => Held(Compressors) \subseteq (Held(Compressors))'
          /\ InHand(t) => Held(Compressors) \subseteq (Held(Compressors))' \cup {hold[t].idx}
          /\ (InHand(t))' => hold'[t].idx \in (Held(Compressors))'
      BY <1>4, <2>0, HandFacts
    <2>2. (Waiting(rPending))' = Waiting(rPending)
      BY <2>0 DEF Waiting
    <2>3. CASE CompressRecv(t)
      <3>1. /\ chIn # <<>> /\ chIn \in Seq(InMsgs) /\ chIn' = Tail(chIn) /\ chC' = chC
            /\ ~InHand(t) /\ (InHand(t))' /\ hold'[t] = Head(chIn)
        BY <1>0, <2>0, <2>3 DEF CompressRecv, Running, Take, Upstream, InHand
      <3>2. Places(chIn) = Places(Tail(chIn)) \cup {Head(chIn).idx}
        BY <3>1, RecvFacts
      <3>3. (Places(chIn))' = Places(Tail(chIn)) /\ (Places(chC))' = Places(chC)
        BY <3>1 DEF Places
      <3> QED BY <2>0, <2>1, <2>2, <3>1, <3>2, <3>3, NoChunkLostKept DEF Before
    <2>4. CASE CompressWork(t)
      <3>1. /\ UNCHANGED <<chIn, chC>> /\ InHand(t) /\ (InHand(t))'
            /\ hold'[t].idx = hold[t].idx
        BY <1>0, <2>0, <2>4 DEF CompressWork, Running, Done, InHand
      <3>2. (Places(chIn))' = Places(chIn) /\ (Places(chC))' = Places(chC)
        BY <3>1 DEF Places
      <3> QED BY <2>0, <2>1, <2>2, <3>1, <3>2, NoChunkLostKept DEF Before
    <2>5. CASE CompressSend(t)
      <3>1. /\ chIn' = chIn /\ chC' = Append(chC, hold[t]) /\ InHand(t)
            /\ hold[t] \in CMsgs /\ chC \in Seq(CMsgs)
        BY <1>0, <2>0, <2>5 DEF CompressSend, Running, InHand, Upstream
      <3>2. Places(chC') = Places(chC) \cup {hold[t].idx}
        BY <3>1, SendFacts
      <3>3. (Places(chIn))' = Places(chIn) /\ (Places(chC))' = Places(chC')
        BY <3>1 DEF Places
      <3> QED BY <2>0, <2>1, <2>2, <3>1, <3>2, <3>3, NoChunkLostKept DEF Before
    <2>6. CASE CompressRecvClosed(t)
      <3>1. UNCHANGED <<chIn, chC>> /\ ~InHand(t)
        BY <2>6 DEF CompressRecvClosed, Running, End, InHand
      <3>2. (Places(chIn))' = Places(chIn) /\ (Places(chC))' = Places(chC)
        BY <3>1 DEF Places
      <3> QED BY <2>0, <2>1, <2>2, <3>1, <3>2, NoChunkLostKept DEF Before
    <2>7. CASE CompressError(t)
      <3>1. ending'[t] = "err"
        BY <1>0, <2>0, <2>7 DEF CompressError, End
      <3> QED BY <2>0, <3>1 DEF Failed
    <2>8. CASE CompressSendClosed(t)
      <3>1. ending[Resegmenter] # "running"
        BY <2>8 DEF CompressSendClosed, RxCOpen
      <3>2. ending[Resegmenter] = "ok"
        BY <1>0, <3>1 DEF Control, Failed
      <3> QED BY <1>4, <2>0, <3>2 DEF Control, Ended
    <2> QED BY <1>4, <2>3, <2>4, <2>5, <2>6, <2>7, <2>8 DEF CompressNext
  <1>5. ASSUME NEW t \in Encryptors, EncryptNext(t)
        PROVE  NoChunkLost'
    <2>1. UNCHANGED <<chIn, chC>>
      BY <1>5 DEF EncryptNext, EncryptRecv, EncryptRecvClosed, EncryptWork, EncryptError,
         EncryptSend, EncryptSendClosed, End
    <2>2. /\ UNCHANGED <<chunkCount, rPending, outIndex>>
          /\ \A u \in Compressors : /\ ending'[u] = ending[u]
                                    /\ hold'[u] = hold[u] /\ stage'[u] = stage[u]
      BY <1>0, <1>5, WorkerKeeps
    <2> QED BY <2>1, <2>2, HeldKept, NoChunkLostKept DEF Before, Waiting, Places
  <1>6. CASE UNCHANGED vars
    <2>1. UNCHANGED <<ending, chC, stage, hold, rPending, outIndex, chIn, chunkCount>>
      BY <1>6 DEF vars, ioVars, pipeVars, resegVars
    <2> QED BY <2>1, HeldKept, NoChunkLostKept DEF Before, Waiting, Places
  <1> QED BY <1>1, <1>2, <1>3, <1>4, <1>5, <1>6 DEF Next, Exited

\* ... and behind it.
Behind == Waiting(pending) \cup Places(chOut) \cup Held(Encryptors) \cup Places(chE)

LEMMA NoSegmentLostKept ==
  ASSUME NoSegmentLost, NCuts' = NCuts, writeIndex' = writeIndex, Behind \subseteq Behind'
  PROVE  NoSegmentLost'
  BY DEF NoSegmentLost, Behind

LEMMA NoSegmentLostStep ==
  ASSUME Control, Buffer, Downstream, NoSegmentLost, ~Failed, ~Failed', [Next]_vars
  PROVE  NoSegmentLost'
  <1>0. /\ Compressors \subseteq Workers /\ Encryptors \subseteq Workers
        /\ Compressors \cap Encryptors = {} /\ Workers \subseteq Threads
        /\ Threads = Workers \cup {Resegmenter} /\ Resegmenter \notin Workers
        /\ newCount \in Nat /\ NCuts \in Nat /\ writeIndex \in Nat
        /\ DOMAIN hold = Workers /\ DOMAIN stage = Workers /\ DOMAIN ending = Threads
    <2>1. newCount \in Nat
      BY DEF Buffer
    <2>2. NCuts \in Nat
      BY <2>1 DEF NCuts
    <2>3. writeIndex \in Nat
      BY <2>2 DEF Downstream
    <2>4. DOMAIN hold = Workers /\ DOMAIN stage = Workers /\ DOMAIN ending = Threads
      BY DEF Control
    <2> QED BY <2>1, <2>2, <2>3, <2>4, ThreadFacts
  <1>1. CASE Main
    <2>1. UNCHANGED <<ending, stage, hold, chE, newCount, bufOut, chOut, pending, writeIndex>>
      BY <1>1, MainAndWriterKeep, MainKeeps
    <2>2. NCuts' = NCuts
      BY <2>1 DEF NCuts, Flushed
    <2> QED BY <2>1, <2>2, HeldKept, NoSegmentLostKept DEF Behind, Waiting, Places
  <1>2. CASE Writer
    <2>1. UNCHANGED <<ending, stage, hold, chE, newCount, bufOut>>
      BY <1>2, MainAndWriterKeep
    <2>2. /\ NCuts' = NCuts /\ (Held(Encryptors))' = Held(Encryptors)
          /\ (Places(chE))' = Places(chE)
      BY <2>1, HeldKept DEF NCuts, Flushed, Places
    <2>3. CASE WriterRecv
      <3>1. /\ chOut # <<>> /\ chOut' = Tail(chOut) /\ pending' = pending \cup {Head(chOut)}
            /\ writeIndex' = writeIndex /\ chOut \in Seq(OutMsgs)
        BY <2>3 DEF WriterRecv, Downstream
      <3>2. Places(chOut) = Places(Tail(chOut)) \cup {Head(chOut).idx}
        BY <3>1, RecvFacts
      <3>3. /\ (Places(chOut))' = Places(Tail(chOut))
            /\ (Waiting(pending))' = Waiting(pending) \cup {Head(chOut).idx}
        BY <3>1 DEF Places, Waiting
      <3> QED BY <2>2, <3>1, <3>2, <3>3, NoSegmentLostKept DEF Behind
    <2>4. CASE WriterWrite
      <3>1. PICK m \in pending : m.idx = writeIndex /\ pending' = pending \ {m}
        BY <2>4 DEF WriterWrite
      <3>2. writeIndex' = writeIndex + 1 /\ chOut' = chOut
        BY <2>4 DEF WriterWrite
      <3>3. /\ Waiting(pending) \subseteq (Waiting(pending))' \cup {writeIndex}
            /\ (Places(chOut))' = Places(chOut)
        BY <3>1, <3>2 DEF Waiting, Places
      <3>4. Behind \subseteq Behind' \cup {writeIndex}
        BY <2>2, <3>3 DEF Behind
      <3> QED BY <1>0, <2>2, <3>2, <3>4 DEF NoSegmentLost, Behind
    <2>5. CASE WriterWriteError
      BY <2>5 DEF WriterWriteError, Failed
    <2>6. CASE ~WriterRecv /\ ~WriterWrite /\ ~WriterWriteError
      <3>1. UNCHANGED <<chOut, pending, writeIndex>>
        BY <1>2, <2>6 DEF Writer, WriterNext, WriterDrained, WriterRecvClosed,
           WriterOthers, WriterOthersError
      <3> QED BY <2>2, <3>1, NoSegmentLostKept DEF Behind, Waiting, Places
    <2> QED BY <2>3, <2>4, <2>5, <2>6
  <1>3. CASE ResegNext
    <2>1. /\ UNCHANGED <<stage, hold, chOut, pending, writeIndex>>
          /\ \A t \in Encryptors : ending'[t] = ending[t]
          /\ ending[Resegmenter] = "running"
      BY <1>0, <1>3, ResegKeeps
    <2>2. /\ (Held(Encryptors))' = Held(Encryptors) /\ (Places(chOut))' = Places(chOut)
          /\ (Waiting(pending))' = Waiting(pending) /\ NCuts = newCount
      BY <2>1, HeldKept DEF Places, Waiting, NCuts, Flushed
    <2>3. CASE ResegCut \/ ResegFlush
      <3>1. PICK k \in Nat : k = newCount
        BY <1>0
      <3>2. chE' = Append(chE, (EMsg(k))') /\ NCuts' = k + 1
        BY <2>3, <3>1, CutIsNext, FlushIsNext
      <3>3. (EMsg(k))'.idx = k
        BY DEF EMsg, FullMsg
      <3>4. chE \in Seq(EMsgs \cup {(EMsg(k))'})
        BY SeqMonotonic DEF Downstream
      <3>5. Places(chE') = Places(chE) \cup {k}
        BY <3>2, <3>3, <3>4, SendFacts
      <3>6. (Places(chE))' = Places(chE')
        BY DEF Places
      <3>7. Behind \subseteq Behind' /\ k \in Behind'
        BY <2>2, <3>5, <3>6 DEF Behind
      <3>8. \A j \in 0..((k + 1) - 1) : j = k \/ j \in 0..(k - 1)
        OBVIOUS
      <3> QED BY <2>1, <2>2, <3>1, <3>2, <3>7, <3>8 DEF NoSegmentLost, Behind
    <2>4. CASE ResegNothingLeft
      <3>1. UNCHANGED <<chE, newCount, bufOut>> /\ bufOut = <<>>
        BY <2>4 DEF ResegNothingLeft, ResegEnd
      <3>2. NCuts' = NCuts
        BY <2>2, <3>1 DEF NCuts, Flushed
      <3> QED BY <2>1, <2>2, <3>1, <3>2, NoSegmentLostKept DEF Behind, Places
    <2>5. CASE ResegSendClosed
      <3>1. ending'[Resegmenter] = "err"
        BY <1>0, <2>5 DEF ResegSendClosed, ResegEnd
      <3> QED BY <1>0, <3>1 DEF Failed
    <2>6. CASE ResegRecv \/ ResegTake \/ ResegDrained \/ ResegCutDone \/ ResegRecvClosed
      <3>1. UNCHANGED <<chE, newCount, ending>>
        BY <2>6 DEF ResegRecv, ResegTake, ResegDrained, ResegCutDone, ResegRecvClosed, ioVars
      <3>2. NCuts' = NCuts
        BY <2>1, <2>2, <3>1 DEF NCuts, Flushed
      <3> QED BY <2>1, <2>2, <3>1, <3>2, NoSegmentLostKept DEF Behind, Places
    <2> QED BY <1>3, <2>3, <2>4, <2>5, <2>6 DEF ResegNext
  <1>4. ASSUME NEW t \in Compressors, CompressNext(t)
        PROVE  NoSegmentLost'
    <2>1. UNCHANGED <<chE, chOut>>
      BY <1>4 DEF CompressNext, CompressRecv, CompressRecvClosed, CompressWork,
         CompressError, CompressSend, CompressSendClosed, End
    <2>2. /\ UNCHANGED <<pending, writeIndex, newCount, bufOut>>
          /\ ending'[Resegmenter] = ending[Resegmenter]
          /\ \A u \in Encryptors : /\ ending'[u] = ending[u]
                                   /\ hold'[u] = hold[u] /\ stage'[u] = stage[u]
      BY <1>0, <1>4, WorkerKeeps
    <2>3. NCuts' = NCuts
      BY <2>2 DEF NCuts, Flushed
    <2> QED BY <2>1, <2>2, <2>3, HeldKept, NoSegmentLostKept DEF Behind, Waiting, Places
  <1>5. ASSUME NEW t \in Encryptors, EncryptNext(t)
        PROVE  NoSegmentLost'
    <2>0. /\ t \in Workers /\ t \in Threads /\ ending[t] = "running"
          /\ UNCHANGED <<pending, writeIndex, newCount, bufOut, wpc>>
          /\ ending'[Resegmenter] = ending[Resegmenter]
          /\ \A u \in Encryptors \ {t} : /\ ending'[u] = ending[u]
                                         /\ hold'[u] = hold[u] /\ stage'[u] = stage[u]
      BY <1>0, <1>5, WorkerKeeps
    <2>1. /\ ~InHand(t) => Held(Encryptors) \subseteq (Held(Encryptors))'
          /\ InHand(t) => Held(Encryptors) \subseteq (Held(Encryptors))' \cup {hold[t].idx}
          /\ (InHand(t))' => hold'[t].idx \in (Held(Encryptors))'
      BY <1>5, <2>0, HandFacts
    <2>2. (Waiting(pending))' = Waiting(pending) /\ NCuts' = NCuts
      BY <2>0 DEF Waiting, NCuts, Flushed
    <2>3. CASE EncryptRecv(t)
      <3>1. /\ chE # <<>> /\ chE \in Seq(EMsgs) /\ chE' = Tail(chE) /\ chOut' = chOut
            /\ ~InHand(t) /\ (InHand(t))' /\ hold'[t] = Head(chE)
        BY <1>0, <2>0, <2>3 DEF EncryptRecv, Running, Take, Downstream, InHand
      <3>2. Places(chE) = Places(Tail(chE)) \cup {Head(chE).idx}
        BY <3>1, RecvFacts
      <3>3. (Places(chE))' = Places(Tail(chE)) /\ (Places(chOut))' = Places(chOut)
        BY <3>1 DEF Places
      <3> QED BY <2>0, <2>1, <2>2, <3>1, <3>2, <3>3, NoSegmentLostKept DEF Behind
    <2>4. CASE EncryptWork(t)
      <3>1. /\ UNCHANGED <<chE, chOut>> /\ InHand(t) /\ (InHand(t))'
            /\ hold'[t].idx = hold[t].idx
        BY <1>0, <2>0, <2>4 DEF EncryptWork, Running, Done, InHand
      <3>2. (Places(chE))' = Places(chE) /\ (Places(chOut))' = Places(chOut)
        BY <3>1 DEF Places
      <3> QED BY <2>0, <2>1, <2>2, <3>1, <3>2, NoSegmentLostKept DEF Behind
    <2>5. CASE EncryptSend(t)
      <3>1. /\ chE' = chE /\ chOut' = Append(chOut, hold[t]) /\ InHand(t)
            /\ hold[t] \in OutMsgs /\ chOut \in Seq(OutMsgs)
        BY <1>0, <2>0, <2>5 DEF EncryptSend, Running, InHand, Downstream
      <3>2. Places(chOut') = Places(chOut) \cup {hold[t].idx}
        BY <3>1, SendFacts
      <3>3. (Places(chE))' = Places(chE) /\ (Places(chOut))' = Places(chOut')
        BY <3>1 DEF Places
      <3> QED BY <2>0, <2>1, <2>2, <3>1, <3>2, <3>3, NoSegmentLostKept DEF Behind
    <2>6. CASE EncryptRecvClosed(t)
      <3>1. UNCHANGED <<chE, chOut>> /\ ~InHand(t)
        BY <2>6 DEF EncryptRecvClosed, Running, End, InHand
      <3>2. (Places(chE))' = Places(chE) /\ (Places(chOut))' = Places(chOut)
        BY <3>1 DEF Places
      <3> QED BY <2>0, <2>1, <2>2, <3>1, <3>2, NoSegmentLostKept DEF Behind
    <2>7. CASE EncryptError(t)
      <3>1. ending'[t] = "err"
        BY <1>0, <2>0, <2>7 DEF EncryptError, End
      <3> QED BY <2>0, <3>1 DEF Failed
    <2>8. CASE EncryptSendClosed(t)
      <3>1. wpc \in {"others", "ok"}
        BY <2>8 DEF EncryptSendClosed, RxOutOpen, Control, Failed
      <3> QED BY <1>5, <2>0, <3>1 DEF Control, Ended
    <2> QED BY <1>5, <2>3, <2>4, <2>5, <2>6, <2>7, <2>8 DEF EncryptNext
  <1>6. CASE UNCHANGED vars
    <2>1. /\ UNCHANGED <<ending, stage, hold, chE, newCount, bufOut, chOut, pending,
                         writeIndex>>
      BY <1>6 DEF vars, ioVars, pipeVars, resegVars
    <2>2. NCuts' = NCuts
      BY <2>1 DEF NCuts, Flushed
    <2> QED BY <2>1, <2>2, HeldKept, NoSegmentLostKept DEF Behind, Waiting, Places
  <1> QED BY <1>1, <1>2, <1>3, <1>4, <1>5, <1>6 DEF Next, Exited

-----------------------------------------------------------------------------
(* The invariant.                                                          *)

LEMMA InitInvariant ==
  ASSUME Init
  PROVE  IInv
  <1>0. /\ source \in Sources /\ NChunks \in Nat \ {0}
        /\ Threads = Compressors \cup Encryptors \cup {Resegmenter}
        /\ Workers = Compressors \cup Encryptors /\ Resegmenter \notin Workers
        /\ mpc = "read" /\ chunkCount = 0 /\ joined = 0 /\ result = "none"
        /\ chIn = <<>> /\ chOut = <<>> /\ chC = <<>> /\ chE = <<>>
        /\ ending = [t \in Threads |-> "running"]
        /\ wpc = "recv" /\ pending = {} /\ writeIndex = 0 /\ written = <<>>
        /\ stage = [t \in Workers |-> "recv"] /\ hold = [t \in Workers |-> NoChunk]
        /\ rpc = "recv" /\ rPending = {} /\ outIndex = 0 /\ bufOut = <<>>
        /\ chunkFinal = FALSE /\ newCount = 0 /\ newFinal = FALSE
    BY SourceLength, ThreadFacts DEF Init, IoInit
  <1>1. Control
    BY <1>0, IoAssumption DEF Control, Failed, Ended, Waiting
  <1>2. Upstream
    BY <1>0 DEF Upstream
  <1>3. Buffer
    <2>1. Whole(source) \in Seq(Units) /\ Ends(0) = 0
      BY <1>0, StreamFacts
    <2>2. SubSeq(Whole(source), 1, 0) = <<>>
      BY <2>1, FirstElements
    <2>3. Cut(newCount) = 0 /\ Len(bufOut) < SegSize
      BY <1>0, CutFacts
    <2>4. Ends(outIndex) = 0
      BY <1>0, <2>1
    <2>5. outIndex \in 0..NChunks /\ outIndex # NChunks /\ newCount \in Nat
      BY <1>0
    <2>6. chunkFinal = FALSE /\ newFinal = FALSE /\ rpc = "recv"
      BY <1>0
    <2>7. chunkFinal = (outIndex = NChunks)
      BY <2>5, <2>6
    <2>8. bufOut = SubSeq(Whole(source), Cut(newCount) + 1, Ends(outIndex))
      <3>1. Cut(newCount) + 1 = 1
        BY <2>3
      <3>2. bufOut = SubSeq(Whole(source), 1, 0)
        BY <1>0, <2>2
      <3> QED BY <2>4, <3>1, <3>2, Zenon
    <2>9. Cut(newCount) <= Ends(outIndex)
      BY <2>3, <2>4
    <2>10. newFinal \in BOOLEAN /\ (newFinal /\ rpc # "ended" => chunkFinal /\ bufOut = <<>>)
      BY <2>6
    <2> QED BY <2>3, <2>5, <2>6, <2>7, <2>8, <2>9, <2>10, Zenon DEF Buffer
  <1>4. NCuts = 0
    BY <1>0 DEF NCuts, Flushed
  <1>5. Downstream
    BY <1>0, <1>4 DEF Downstream
  <1>6. NothingLost
    BY <1>0, <1>4 DEF NothingLost, NoChunkLost, NoSegmentLost
  <1> QED BY <1>1, <1>2, <1>3, <1>5, <1>6 DEF IInv

LEMMA StepInvariant ==
  ASSUME IInv, [Next]_vars
  PROVE  IInv'
  <1>1. Control' /\ Upstream' /\ Buffer' /\ Downstream'
    BY ControlStep, UpstreamStep, BufferStep, DownstreamStep DEF IInv
  <1>2. NothingLost'
    BY FailureStays, NoChunkLostStep, NoSegmentLostStep DEF IInv, NothingLost
  <1> QED BY <1>1, <1>2 DEF IInv

\* IInv is an invariant of every run of compressed encryption.
THEOREM EncryptInvariance == Spec => []IInv
  <1>1. Init => IInv
    BY InitInvariant
  <1>2. IInv /\ [Next]_vars => IInv'
    BY StepInvariant
  <1> QED BY <1>1, <1>2, PTL DEF Spec

-----------------------------------------------------------------------------
(* The file.                                                               *)

\* Where the i-th segment ends in the stream.
SegEnds == [i \in 0..NCuts |-> IF i <= newCount THEN Cut(i) ELSE Ends(outIndex)]

\* The segments are pieces of the stream one after the other, all of the same
\* size but the one that was flushed.
LEMMA PiecesFacts ==
  ASSUME Control, Buffer
  PROVE  /\ NCuts \in Nat /\ SegEnds[0] = 0
         /\ \A i \in 0..NCuts : SegEnds[i] \in 0..Len(Whole(source))
         /\ \A i \in 1..NCuts :
              /\ SegEnds[i - 1] <= SegEnds[i]
              /\ EMsg(i - 1).buf = SubSeq(Whole(source), SegEnds[i - 1] + 1, SegEnds[i])
              /\ EMsg(i - 1).buf \in Seq(Units) /\ EMsg(i - 1).idx = i - 1
         /\ \A i \in 1..(NCuts - 1) : Len(EMsg(i - 1).buf) = SegSize
  <1> DEFINE W == Whole(source)
             b == Ends(outIndex)
             n == newCount
  <1>1. /\ n \in Nat /\ b \in 0..Len(W) /\ Cut(n) \in 0..b /\ W \in Seq(Units)
        /\ bufOut = SubSeq(W, Cut(n) + 1, b) /\ bufOut \in Seq(Units)
        /\ NCuts \in Nat /\ (NCuts = n \/ NCuts = n + 1)
    <2>1. n \in Nat /\ bufOut = SubSeq(W, Cut(n) + 1, b) /\ source \in Sources
      BY DEF Buffer, Control
    <2>2. NCuts \in Nat /\ (NCuts = n \/ NCuts = n + 1)
      BY <2>1 DEF NCuts
    <2> QED BY <2>1, <2>2, BufferFacts, StreamFacts
  <1>2. /\ SegSize \in Nat \ {0} /\ Cut(0) = 0
        /\ \A i \in Nat : Cut(i) \in Nat /\ Cut(i + 1) = Cut(i) + SegSize
        /\ \A i, j \in Nat : i < j => Cut(i + 1) <= Cut(j)
    BY CutFacts
  <1>3. /\ \A i \in 0..n : SegEnds[i] = Cut(i)
        /\ NCuts = n + 1 => SegEnds[n + 1] = b
    BY <1>1 DEF SegEnds
  <1>4. ASSUME NEW i \in 0..n
        PROVE  Cut(i) \in 0..Cut(n)
    <2>1. i \in Nat /\ n \in Nat /\ (i < n \/ i = n)
      BY <1>1
    <2>2. Cut(i) \in Nat /\ Cut(n) \in Nat /\ Cut(i + 1) = Cut(i) + SegSize
      BY <1>2, <2>1
    <2>3. i < n => Cut(i + 1) <= Cut(n)
      BY <1>2, <2>1
    <2>4. Cut(i) <= Cut(n)
      BY <1>2, <2>1, <2>2, <2>3
    <2> QED BY <2>2, <2>4
  <1>5. ASSUME NEW i \in 1..n
        PROVE  /\ SegEnds[i - 1] <= SegEnds[i]
               /\ EMsg(i - 1).buf = SubSeq(W, SegEnds[i - 1] + 1, SegEnds[i])
               /\ EMsg(i - 1).buf \in Seq(Units) /\ EMsg(i - 1).idx = i - 1
               /\ Len(EMsg(i - 1).buf) = SegSize
    <2>1. PICK k \in Nat : k = i - 1
      OBVIOUS
    <2>2. k < n /\ k \in 0..n /\ i \in 0..n /\ k + 1 = i /\ k + 1 \in 0..n
      BY <1>1, <2>1
    <2>3. /\ EMsg(k) = FullMsg(k) /\ EMsg(k).idx = k
          /\ EMsg(k).buf = SubSeq(W, Cut(k) + 1, Cut(k + 1))
      BY <2>2 DEF EMsg, FullMsg
    <2>4. SegEnds[k] = Cut(k) /\ SegEnds[k + 1] = Cut(k + 1)
      BY <1>3, <2>2
    <2>5. /\ Cut(k) \in 0..Cut(k + 1) /\ Cut(k + 1) \in 0..Len(W)
          /\ Cut(k + 1) - Cut(k) = SegSize
      <3>1. Cut(k + 1) \in 0..Cut(n)
        BY <1>4, <2>2
      <3>2. Cut(k) \in Nat /\ Cut(k + 1) = Cut(k) + SegSize
        BY <1>2
      <3>3. Cut(k) <= Cut(k + 1) /\ Cut(k + 1) - Cut(k) = SegSize /\ Cut(k + 1) \in Nat
        BY <1>2, <3>2
      <3>4. Cut(n) \in Nat /\ Cut(n) <= Len(W) /\ Len(W) \in Nat
        BY <1>1
      <3>5. Cut(k + 1) <= Cut(n)
        BY <3>1
      <3> QED BY ONLY <3>2, <3>3, <3>4, <3>5
    <2>6. SubSeq(W, Cut(k) + 1, Cut(k + 1)) \in Seq(Units)
          /\ Len(SubSeq(W, Cut(k) + 1, Cut(k + 1))) = SegSize
      <3>1. \A y \in 0..Len(W) : \A x \in 0..y :
              SubSeq(W, x + 1, y) \in Seq(Units) /\ Len(SubSeq(W, x + 1, y)) = y - x
        BY ONLY <1>1, PieceFacts
      <3>2. \A x \in 0..Cut(k + 1) :
              /\ SubSeq(W, x + 1, Cut(k + 1)) \in Seq(Units)
              /\ Len(SubSeq(W, x + 1, Cut(k + 1))) = Cut(k + 1) - x
        BY ONLY <2>5, <3>1
      <3>3. /\ SubSeq(W, Cut(k) + 1, Cut(k + 1)) \in Seq(Units)
            /\ Len(SubSeq(W, Cut(k) + 1, Cut(k + 1))) = Cut(k + 1) - Cut(k)
        BY ONLY <2>5, <3>2
      <3> QED BY ONLY <2>5, <3>3
    <2>7. SegEnds[k] <= SegEnds[k + 1]
      BY <2>4, <2>5
    <2> QED BY <2>1, <2>2, <2>3, <2>4, <2>6, <2>7
  <1>6. ASSUME NCuts = n + 1
        PROVE  /\ SegEnds[n] <= SegEnds[n + 1]
               /\ EMsg(n).buf = SubSeq(W, SegEnds[n] + 1, SegEnds[n + 1])
               /\ EMsg(n).buf \in Seq(Units) /\ EMsg(n).idx = n
    <2>1. EMsg(n).buf = bufOut /\ EMsg(n).idx = n
      BY <1>1 DEF EMsg
    <2>2. SegEnds[n] = Cut(n) /\ SegEnds[n + 1] = b
      BY <1>1, <1>3, <1>6
    <2> QED BY <1>1, <2>1, <2>2
  <1>7. SegEnds[0] = 0 /\ \A i \in 0..NCuts : SegEnds[i] \in 0..Len(W)
    <2>1. SegEnds[0] = 0
      <3>1. 0 \in 0..n
        BY <1>1
      <3> QED BY <1>2, <1>3, <3>1
    <2>2. ASSUME NEW i \in 0..NCuts
          PROVE  SegEnds[i] \in 0..Len(W)
      <3>1. CASE i \in 0..n
        BY <1>1, <1>3, <1>4, <3>1
      <3>2. CASE i \notin 0..n
        BY <1>1, <1>3, <3>2
      <3> QED BY <3>1, <3>2
    <2> QED BY <2>1, <2>2
  <1>8. ASSUME NEW i \in 1..NCuts
        PROVE  /\ SegEnds[i - 1] <= SegEnds[i]
               /\ EMsg(i - 1).buf = SubSeq(W, SegEnds[i - 1] + 1, SegEnds[i])
               /\ EMsg(i - 1).buf \in Seq(Units) /\ EMsg(i - 1).idx = i - 1
    <2>1. CASE i \in 1..n
      BY <1>5, <2>1
    <2>2. CASE i \notin 1..n
      <3>1. i = n + 1 /\ i - 1 = n /\ NCuts = n + 1
        BY <1>1, <2>2
      <3> QED BY <1>6, <3>1
    <2> QED BY <2>1, <2>2
  <1>9. ASSUME NEW i \in 1..(NCuts - 1)
        PROVE  Len(EMsg(i - 1).buf) = SegSize
    <2>1. i \in 1..n
      BY <1>1
    <2> QED BY <1>5, <2>1
  <1> QED BY <1>1, <1>7, <1>8, <1>9

\* What was written are the first segments.
LEMMA WrittenFacts ==
  ASSUME Control, Buffer, Downstream
  PROVE  /\ Len(written) \in 0..NCuts /\ DOMAIN written = 1..Len(written)
         /\ \A i \in 1..Len(written) :
              /\ written[i] = Seal(EMsg(i - 1).buf, i - 1, EMsg(i - 1).final)
              /\ written[i].num = i - 1 /\ written[i].data = EMsg(i - 1).buf
  <1>1. /\ Len(written) = writeIndex /\ writeIndex \in 0..NCuts
        /\ written \in Seq({m.buf : m \in OutMsgs}) /\ NCuts \in Nat
        /\ \A k \in 0..(writeIndex - 1) : written[k + 1] = OutMsg(EMsg(k)).buf
    BY PiecesFacts DEF Downstream
  <1>2. ASSUME NEW i \in 1..Len(written)
        PROVE  /\ written[i] = Seal(EMsg(i - 1).buf, i - 1, EMsg(i - 1).final)
               /\ written[i].num = i - 1 /\ written[i].data = EMsg(i - 1).buf
    <2>1. i - 1 \in 0..(writeIndex - 1) /\ (i - 1) + 1 = i /\ i \in 1..NCuts
      BY <1>1
    <2>2. written[i] = OutMsg(EMsg(i - 1)).buf
      <3>1. written[(i - 1) + 1] = OutMsg(EMsg(i - 1)).buf
        BY <1>1, <2>1
      <3> QED BY <2>1, <3>1
    <2>3. EMsg(i - 1).idx = i - 1
      BY <2>1, PiecesFacts
    <2> QED BY <2>2, <2>3 DEF OutMsg, Seal
  <1> QED BY <1>1, <1>2

\* Whatever fails, the segments in the file are numbered 0, 1, 2, ... and hold
\* a beginning of the framed stream.
THEOREM StreamPrefixCorrect == Spec => []StreamPrefix
  <1>1. ASSUME IInv
        PROVE  StreamPrefix
    <2> DEFINE W == Whole(source)
               s == [i \in 1..Len(written) |-> written[i].data]
    <2>0. Control /\ Buffer /\ Downstream /\ W \in Seq(Units) /\ NCuts \in Nat
      BY <1>1, StreamFacts, PiecesFacts DEF IInv, Control
    <2>1. /\ Len(written) \in 0..NCuts
          /\ \A i \in 1..Len(written) :
               written[i].num = i - 1 /\ written[i].data = EMsg(i - 1).buf
      BY <2>0, WrittenFacts
    <2>2. /\ SegEnds[0] = 0
          /\ \A i \in 0..NCuts : SegEnds[i] \in 0..Len(W)
          /\ \A i \in 1..NCuts :
               /\ SegEnds[i - 1] <= SegEnds[i]
               /\ EMsg(i - 1).buf = SubSeq(W, SegEnds[i - 1] + 1, SegEnds[i])
               /\ EMsg(i - 1).buf \in Seq(Units)
      BY <2>0, PiecesFacts
    <2>3. \A i \in 1..Len(written) :
            /\ SegEnds[i - 1] <= SegEnds[i] /\ s[i] \in Seq(Units)
            /\ s[i] = SubSeq(W, SegEnds[i - 1] + 1, SegEnds[i])
      <3> TAKE i \in 1..Len(written)
      <3>1. i \in 1..NCuts
        BY <2>0, <2>1
      <3>2. s[i] = EMsg(i - 1).buf
        BY <2>1
      <3> QED BY <2>2, <3>1, <3>2
    <2>4. s \in Seq(Seq(Units)) /\ Len(s) = Len(written)
      BY <2>0, <2>1, <2>3
    <2>5. Cleartext(written) = FlattenSeq(s)
      BY DEF Cleartext
    <2> HIDE DEF W, s
    <2>6. \A i \in 0..Len(s) : SegEnds[i] \in 0..Len(W)
      BY <2>0, <2>1, <2>2, <2>4
    <2>7. FlattenSeq(s) = SubSeq(W, 1, SegEnds[Len(s)])
      <3>1. \A i \in 1..Len(s) :
              SegEnds[i - 1] <= SegEnds[i] /\ s[i] = SubSeq(W, SegEnds[i - 1] + 1, SegEnds[i])
        BY ONLY <2>3, <2>4
      <3>2. W \in Seq(Units) /\ s \in Seq(Seq(Units)) /\ SegEnds[0] = 0
        BY ONLY <2>0, <2>2, <2>4
      <3> QED BY ONLY <2>6, <3>1, <3>2, FlattenPieces
    <2>8. SegEnds[Len(s)] \in 0..Len(W)
      BY <2>0, <2>1, <2>4, <2>6
    <2>9. IsPrefix(Cleartext(written), W)
      <3>1. PICK n \in 0..Len(W) : n = SegEnds[Len(s)]
        BY <2>8
      <3>2. /\ SubSeq(W, 1, n) \in Seq(Units) /\ Len(SubSeq(W, 1, n)) = n
        BY ONLY <2>0, n \in 0..Len(W), FirstElements
      <3>3. Cleartext(written) = SubSeq(W, 1, n)
        BY <2>5, <2>7, <3>1
      <3>4. SubSeq(SubSeq(W, 1, n), 1, n) = SubSeq(W, 1, n)
        BY <3>2, SubSeqFull
      <3> QED BY <2>0, <3>2, <3>3, <3>4 DEF IsPrefix
    <2> QED BY <2>1, <2>9 DEF StreamPrefix, W
  <1> QED BY <1>1, EncryptInvariance, PTL

\* All segments in the file but the last one have the size of a segment.
THEOREM EqualSizesCorrect == Spec => []EqualSizes
  <1>1. ASSUME IInv
        PROVE  EqualSizes
    <2>1. Control /\ Buffer /\ Downstream
      BY <1>1 DEF IInv
    <2>2. /\ NCuts \in Nat /\ Len(written) \in 0..NCuts
          /\ \A i \in 1..Len(written) : written[i].data = EMsg(i - 1).buf
          /\ \A i \in 1..(NCuts - 1) : Len(EMsg(i - 1).buf) = SegSize
      BY <2>1, PiecesFacts, WrittenFacts
    <2>3. ASSUME NEW i \in 1..(Len(written) - 1)
          PROVE  Len(written[i].data) = SegSize
      <3>1. i \in 1..Len(written) /\ i \in 1..(NCuts - 1)
        BY <2>2
      <3> QED BY <2>2, <3>1
    <2> QED BY <2>3 DEF EqualSizes
  <1> QED BY <1>1, EncryptInvariance, PTL

\* When Ok is returned, all chunks went into the stream and all segments that
\* were cut from it are in the file.
LEMMA OkIsAll ==
  ASSUME IInv, result = "ok"
  PROVE  /\ outIndex = NChunks /\ writeIndex = NCuts /\ finalised
         /\ Len(bufOut) < SegSize /\ ending[Resegmenter] = "ok"
  <1>1. /\ wpc = "ok" /\ chunkCount = NChunks /\ finalised
        /\ \A t \in Threads : ending[t] = "ok"
    BY DEF IInv, Control
  <1>2. /\ NChunks \in Nat \ {0} /\ outIndex \in 0..NChunks /\ NCuts \in Nat
        /\ writeIndex \in 0..NCuts
    BY SourceLength, PiecesFacts DEF IInv, Control, Buffer, Downstream
  <1>3. /\ ending[Resegmenter] = "ok"
        /\ \A t \in Compressors : ending[t] = "ok"
        /\ \A t \in Encryptors : ending[t] = "ok"
        /\ Compressors # {} /\ Encryptors # {}
    BY <1>1, ThreadFacts
  <1>4. ~Failed
    BY <1>1 DEF Failed
  <1>5. /\ chIn = <<>> /\ chC = <<>> /\ chE = <<>> /\ chOut = <<>>
        /\ outIndex \notin Waiting(rPending) /\ writeIndex \notin Waiting(pending)
    BY <1>1, <1>3, <1>4 DEF IInv, Control
  <1>6. /\ Places(chIn) = {} /\ Places(chC) = {} /\ Places(chE) = {} /\ Places(chOut) = {}
    BY <1>5 DEF Places
  <1>7. Held(Compressors) = {} /\ Held(Encryptors) = {}
    BY <1>3 DEF Held, Hands, InHand
  <1>8. outIndex = NChunks
    <2>1. ASSUME outIndex # NChunks
          PROVE  FALSE
      <3>1. outIndex \in 0..(chunkCount - 1) /\ ~(outIndex < outIndex)
        BY <1>1, <1>2, <2>1
      <3>2. outIndex \in Waiting(rPending) \cup Places(chC) \cup Held(Compressors) \cup Places(chIn)
        BY <1>4, <3>1 DEF IInv, NothingLost, NoChunkLost
      <3> QED BY <1>5, <1>6, <1>7, <3>2
    <2> QED BY <2>1
  <1>9. writeIndex = NCuts
    <2>1. ASSUME writeIndex # NCuts
          PROVE  FALSE
      <3>1. writeIndex \in 0..(NCuts - 1) /\ ~(writeIndex < writeIndex)
        BY <1>2, <2>1
      <3>2. writeIndex \in Waiting(pending) \cup Places(chOut) \cup Held(Encryptors) \cup Places(chE)
        BY <1>4, <3>1 DEF IInv, NothingLost, NoSegmentLost
      <3> QED BY <1>5, <1>6, <1>7, <3>2
    <2> QED BY <2>1
  <1> QED BY <1>1, <1>3, <1>8, <1>9 DEF IInv, Buffer

\* Ok is returned only when every segment of the framed stream is in the file,
\* with its number, the final flag on the last one and only there, and the file
\* was finalised.
THEOREM OkIsExactCorrect == Spec => []OkIsExact
  <1>1. ASSUME IInv, result = "ok"
        PROVE  written = Expected /\ finalised
    <2> DEFINE W == Whole(source)
               l == Len(W)
               n == newCount
               N == NCuts
               segs == Segments(W)
    <2>1. /\ outIndex = NChunks /\ writeIndex = N /\ finalised
          /\ Len(bufOut) < SegSize /\ ending[Resegmenter] = "ok"
      BY <1>1, OkIsAll
    <2>2. Control /\ Buffer /\ Downstream /\ source \in Sources
      BY <1>1 DEF IInv, Control
    <2>3. /\ W \in Seq(Units) /\ l \in Nat /\ n \in Nat /\ Cut(n) \in 0..l
          /\ Ends(outIndex) = l /\ Len(bufOut) = l - Cut(n)
          /\ bufOut = <<>> <=> Cut(n) = l
          /\ bufOut = SubSeq(W, Cut(n) + 1, l)
      <3>1. W \in Seq(Units) /\ Ends(NChunks) = l
        BY <2>2, StreamFacts
      <3>2. l \in Nat
        BY <3>1
      <3>3. /\ Cut(n) \in 0..Ends(outIndex) /\ Len(bufOut) = Ends(outIndex) - Cut(n)
            /\ bufOut = <<>> <=> Cut(n) = Ends(outIndex)
        BY <2>2, BufferFacts
      <3>4. n \in Nat /\ bufOut = SubSeq(W, Cut(n) + 1, Ends(outIndex))
        BY <2>2 DEF Buffer
      <3> QED BY <2>1, <3>1, <3>2, <3>3, <3>4
    <2>4. /\ SegSize \in Nat \ {0}
          /\ \A i \in Nat : Cut(i) \in Nat /\ Cut(i + 1) = Cut(i) + SegSize
          /\ \A i, j \in Nat : i < j => Cut(i + 1) <= Cut(j)
      BY CutFacts
    <2>5. /\ N = IF Cut(n) = l THEN n ELSE n + 1
          /\ N \in Nat
      <3>1. Flushed <=> Cut(n) # l
        BY <2>1, <2>3 DEF Flushed
      <3> QED BY <2>3, <3>1 DEF NCuts
    <2>6. Len(written) = N /\ DOMAIN written = 1..N
          /\ \A i \in 1..N : written[i] = Seal(EMsg(i - 1).buf, i - 1, EMsg(i - 1).final)
      BY <2>1, <2>2, WrittenFacts DEF Downstream
    <2> HIDE DEF W, l, n, N
    <2>4a. /\ Cut(n) \in Nat /\ Cut(n) <= l /\ l < Cut(n) + SegSize
          /\ Cut(n + 1) = Cut(n) + SegSize
      <3>1. Cut(n + 1) = Cut(n) + SegSize
        BY <2>3, <2>4
      <3>2. l - Cut(n) < SegSize
        BY <2>1, <2>3
      <3>3. Cut(n) \in Nat /\ Cut(n) <= l
        BY <2>3
      <3>4. l \in Nat /\ SegSize \in Nat
        BY <2>3, <2>4
      <3> QED BY ONLY <3>1, <3>2, <3>3, <3>4
    <2>7. (l + SegSize - 1) \div SegSize = N
      <3>1. PICK a \in Nat : a = l + SegSize - 1
        BY <2>3, <2>4
      <3>2. Cut(N) <= a /\ a < Cut(N) + SegSize /\ Cut(N) = N * SegSize
        <4>1. CASE Cut(n) = l
          BY <2>3, <2>4, <2>5, <3>1, <4>1 DEF Cut
        <4>2. CASE Cut(n) # l
          <5>1. Cut(n) < l /\ l < Cut(n) + SegSize /\ N = n + 1 /\ Cut(N) = Cut(n) + SegSize
            BY <2>3, <2>5, <2>4a, <4>2
          <5> QED BY <2>3, <2>4, <3>1, <5>1 DEF Cut
        <4> QED BY <4>1, <4>2
      <3>3. N * SegSize <= a /\ a < N * SegSize + SegSize
        BY <3>2
      <3>4. a \div SegSize = N
        <4>1. N \in Nat /\ SegSize \in Nat \ {0} /\ a \in Nat
          BY <2>4, <2>5
        <4> QED BY ONLY <3>3, <4>1, Quotient
      <3> QED BY <3>1, <3>4
    <2>8. /\ Len(segs) = N
          /\ \A i \in 1..N : segs[i] = SubSeq(W, (i - 1) * SegSize + 1, Least(i * SegSize, l))
      <3>1. segs = [i \in 1..((l + SegSize - 1) \div SegSize) |->
                      SubSeq(W, (i - 1) * SegSize + 1, Least(i * SegSize, l))]
        BY DEF Segments, l
      <3>2. segs = [i \in 1..N |-> SubSeq(W, (i - 1) * SegSize + 1, Least(i * SegSize, l))]
        BY <2>7, <3>1
      <3>3. \A i \in 1..N : segs[i] = SubSeq(W, (i - 1) * SegSize + 1, Least(i * SegSize, l))
        BY <3>2, Zenon
      <3>4. Len(segs) = N
        BY <2>5, <3>2
      <3> QED BY <3>3, <3>4
    <2>9. ASSUME NEW i \in 1..N
          PROVE  written[i] = Seal(segs[i], i - 1, i = N)
      <3>1. PICK k \in Nat : k = i - 1
        BY <2>5
      <3>2. /\ written[i] = Seal(EMsg(k).buf, i - 1, EMsg(k).final) /\ k + 1 = i
            /\ segs[i] = SubSeq(W, Cut(k) + 1, Least(Cut(k + 1), l))
        BY <2>6, <2>8, <3>1 DEF Cut
      <3>3. CASE k < n
        <4>1. /\ EMsg(k).buf = SubSeq(W, Cut(k) + 1, Cut(k + 1))
              /\ EMsg(k).final = (Cut(k + 1) = l)
          BY <3>3 DEF EMsg, FullMsg, W, l, n
        <4>2. Cut(k + 1) <= Cut(n) /\ Cut(k + 1) <= l /\ Cut(k + 1) \in Nat
          <5>1. k \in Nat /\ n \in Nat /\ Cut(n) <= l
            BY <2>3, <2>4a
          <5>2. Cut(k + 1) <= Cut(n)
            BY <2>4, <3>3, <5>1
          <5>3. Cut(k + 1) \in Nat
            <6>1. k + 1 \in Nat
              BY <5>1
            <6> QED BY <2>4, <6>1
          <5> QED BY <2>3, <2>4a, <5>2, <5>3
        <4>3. Least(Cut(k + 1), l) = Cut(k + 1)
          BY <2>3, <4>2 DEF Least
        <4>4. Cut(k + 1) = l <=> i = N
          <5>1. CASE k + 1 = n
            BY <2>3, <2>5, <3>2, <5>1
          <5>2. CASE k + 1 # n
            <6>1. k + 1 < n /\ k + 1 \in Nat
              BY <2>3, <3>3, <5>2
            <6>2. PICK j \in Nat : j = k + 1
              BY <6>1
            <6>3. Cut(j + 1) <= Cut(n) /\ Cut(j + 1) = Cut(j) + SegSize
              BY <2>3, <2>4, <6>1, <6>2
            <6>4. Cut(j) < l
              <7>1. Cut(j) \in Nat /\ SegSize \in Nat \ {0}
                BY <2>4, <6>2
              <7>2. Cut(j) + SegSize <= Cut(n) /\ Cut(n) <= l /\ Cut(n) \in Nat /\ l \in Nat
                BY <2>3, <2>4a, <6>3
              <7> QED BY ONLY <7>1, <7>2
            <6>5. i # N
              BY <2>3, <2>5, <3>2, <6>1
            <6> QED BY <2>3, <6>2, <6>4, <6>5
          <5> QED BY <5>1, <5>2
        <4>5. EMsg(k).final = (i = N)
          BY <4>1, <4>4
        <4> QED BY <3>2, <4>1, <4>3, <4>5
      <3>4. CASE ~(k < n)
        <4>1. k = n /\ i = N /\ Cut(n) # l
          BY <2>3, <2>5, <3>2, <3>4
        <4>2. EMsg(k).buf = bufOut /\ EMsg(k).final = TRUE
          BY <3>4 DEF EMsg, n
        <4>3. l < Cut(k + 1) /\ Cut(k + 1) \in Nat
          <5>1. Cut(k + 1) = Cut(n) + SegSize
            BY <2>4a, <4>1
          <5> QED BY <2>3, <2>4, <2>4a, <5>1
        <4>4. Least(Cut(k + 1), l) = l
          BY <2>3, <4>3 DEF Least
        <4> QED BY <2>3, <3>2, <4>1, <4>2, <4>4
      <3> QED BY <3>3, <3>4
    <2>10. written = [i \in 1..N |-> Seal(segs[i], i - 1, i = N)]
      <3>1. written = [i \in 1..N |-> written[i]]
        <4>1. written \in Seq({m.buf : m \in OutMsgs})
          BY <2>2 DEF Downstream
        <4> QED BY <2>6, <4>1
      <3> QED BY <2>9, <3>1
    <2>11. written = Expected
      BY <2>8, <2>10 DEF Expected, W
    <2> QED BY <2>1, <2>11
  <1>2. IInv => OkIsExact
    BY <1>1 DEF OkIsExact
  <1> QED BY <1>2, EncryptInvariance, PTL
=============================================================================
