-------------------------- MODULE DecryptPipeProofs --------------------------
(***************************************************************************)
(* Proofs about compressed decryption, for every number of threads of each *)
(* kind, every capacity of the channels, every size of segments and of     *)
(* compressed chunks, and every file, intact or not.                       *)
(***************************************************************************)
EXTENDS DecryptPipeInvariant, SequenceFacts

-----------------------------------------------------------------------------
(* The threads.                                                            *)

LEMMA ThreadFacts ==
  /\ Threads = Decryptors \cup Decompressors \cup {Resegmenter}
  /\ Workers = Decryptors \cup Decompressors
  /\ Resegmenter \notin Workers /\ Decryptors \cap Decompressors = {}
  /\ Decryptors # {} /\ Decompressors # {}
  <1>1. 1 \in Decryptors /\ NDecrypt + 2 \in Decompressors
    BY DecryptAssumption DEF Decryptors, Decompressors
  <1>2. /\ Resegmenter \notin Workers /\ Decryptors \cap Decompressors = {}
        /\ Workers = Decryptors \cup Decompressors
    BY DecryptAssumption DEF Workers, Decryptors, Decompressors, Resegmenter
  <1>3. ASSUME NEW t
        PROVE  t \in Threads <=> t \in Decryptors \cup Decompressors \cup {Resegmenter}
    BY DecryptAssumption DEF Threads, Decryptors, Decompressors, Resegmenter
  <1> QED BY <1>1, <1>2, <1>3

-----------------------------------------------------------------------------
(* The source.                                                             *)

LEMMA SourceLength ==
  ASSUME source \in Sources
  PROVE  NChunks \in Nat \ {0}
  BY IoAssumption DEF NChunks

(* The source of a run is fixed, and with it all that is defined by it.    *)

LEMMA SourceFixed ==
  ASSUME [Next]_vars
  PROVE  source' = source
  BY DEF Next, vars, ioVars, mainVars, writerVars, pipeVars, Main, Writer, Exited,
     MainNext, MainRead, MainReadError, MainSend, MainProgressError,
     MainSendClosed, MainJoinWriter, MainJoinCrypt, MainOk, MainExit,
     WriterNext, WriterRecv, WriterWrite, WriterWriteError, WriterDrained,
     WriterRecvClosed, WriterOthers, WriterOthersError,
     DecryptNext, DecryptRecv, DecryptRecvClosed, DecryptWork, DecryptError,
     DecryptSend, DecryptSendClosed,
     DecompressNext, DecompressRecv, DecompressRecvClosed, DecompressWork, DecompressError,
     DecompressSend, DecompressSendClosed, End,
     ResegNext, ResegRecv, ResegTake, ResegDrained, ParseLength, ParseFrame, ParseMore,
     ResegRecvClosed, ResegSendClosed, ResegEnd

LEMMA DefinedBySource ==
  ASSUME source' = source
  PROVE  /\ NChunks' = NChunks /\ Stream' = Stream /\ Contents' = Contents
         /\ InMsgs' = InMsgs /\ OpenMsgs' = OpenMsgs
         /\ \A n : (Place(n))' = Place(n)
         /\ \A n : (Texts(n))' = Texts(n)
         /\ \A i : (FrameMsg(i))' = FrameMsg(i) /\ (TextMsg(i))' = TextMsg(i)
         /\ (Intact <=> Intact') /\ (Sound <=> Sound')
  <1>1. NChunks' = NChunks
    BY DEF NChunks
  <1>2. InMsgs' = InMsgs
    BY <1>1 DEF InMsgs, InMsg, IsFinal
  <1>3. OpenMsgs' = OpenMsgs
    BY <1>2 DEF OpenMsgs, Opened, OpenMsg, Authentic
  <1>4. Stream' = Stream
    BY <1>1 DEF Stream
  <1>5. \A n : (TextsTo(n))' = TextsTo(n)
    BY <1>4 DEF TextsTo
  <1>6. \A n : (Texts(n))' = Texts(n)
    BY <1>5 DEF Texts
  <1>7. Contents' = Contents
    BY <1>4, <1>5 DEF Contents, TextsTo
  <1>8. \A i : (FrameMsg(i))' = FrameMsg(i) /\ (TextMsg(i))' = TextMsg(i)
    BY <1>4, <1>6 DEF FrameMsg, TextMsg
  <1>9. (Intact <=> Intact') /\ (Sound <=> Sound')
    BY <1>1, <1>4 DEF Intact, Sound
  <1>10. \A n : (Place(n))' = Place(n)
    BY DEF Place
  <1> QED BY <1>1, <1>2, <1>3, <1>4, <1>6, <1>7, <1>8, <1>9, <1>10

\* A message for the resegmentation thread is the segment with its number, and
\* that segment is in its place.
LEMMA MessageFacts ==
  ASSUME source \in Sources
  PROVE  /\ \A k \in 0..(NChunks - 1) : InMsg(k) \in InMsgs /\ InMsg(k).idx = k
         /\ \A m \in InMsgs : m.idx \in 0..(NChunks - 1) /\ m = InMsg(m.idx)
         /\ \A m \in OpenMsgs :
              /\ m.idx \in 0..(NChunks - 1) /\ m.buf = source[m.idx + 1].data
              /\ source[m.idx + 1].num = m.idx
              /\ source[m.idx + 1].last = (m.idx + 1 = NChunks)
  <1>1. \A k \in 0..(NChunks - 1) : InMsg(k) \in InMsgs /\ InMsg(k).idx = k
    BY DEF InMsgs, InMsg
  <1>2. \A m \in InMsgs : m.idx \in 0..(NChunks - 1) /\ m = InMsg(m.idx)
    BY <1>1 DEF InMsgs
  <1>3. ASSUME NEW m \in OpenMsgs
        PROVE  /\ m.idx \in 0..(NChunks - 1) /\ m.buf = source[m.idx + 1].data
               /\ source[m.idx + 1].num = m.idx
               /\ source[m.idx + 1].last = (m.idx + 1 = NChunks)
    <2>1. PICK k \in 0..(NChunks - 1) : m = OpenMsg(InMsg(k)) /\ Authentic(InMsg(k))
      BY DEF OpenMsgs, Opened, InMsgs
    <2>2. InMsg(k).buf = source[k + 1] /\ InMsg(k).idx = k /\ InMsg(k).final = IsFinal(k)
      BY DEF InMsg
    <2>3. source[k + 1].num = k /\ source[k + 1].last = IsFinal(k)
      BY <2>1, <2>2 DEF Authentic, Opens
    <2>4. m.buf = source[k + 1].data /\ m.idx = k
      BY <2>1, <2>2 DEF OpenMsg
    <2>5. IsFinal(k) <=> k + 1 = NChunks
      BY <2>1, SourceLength DEF IsFinal
    <2> QED BY <2>1, <2>3, <2>4, <2>5 DEF IsFinal
  <1> QED BY <1>1, <1>2, <1>3

-----------------------------------------------------------------------------
(* What a step leaves alone.                                               *)

\* Main and the writer have nothing to do with the threads in between ...
LEMMA MainAndWriterKeep ==
  ASSUME Main \/ Writer
  PROVE  UNCHANGED <<ending, chE, chC, stage, hold, rpc, rPending, outIndex, bufOut,
                     chunkLen, newCount>>
  BY DEF Main, Writer, pipeVars, resegVars,
     MainNext, MainRead, MainReadError, MainSend, MainProgressError,
     MainSendClosed, MainJoinWriter, MainJoinCrypt, MainOk, MainExit,
     WriterNext, WriterRecv, WriterWrite, WriterWriteError, WriterDrained,
     WriterRecvClosed, WriterOthers, WriterOthersError

\* ... main nothing with the writer, the writer nothing with main ...
LEMMA MainKeeps ==
  ASSUME Main
  PROVE  UNCHANGED <<chOut, wpc, pending, writeIndex, written, finalised>>
  BY DEF Main, writerVars,
     MainNext, MainRead, MainReadError, MainSend, MainProgressError,
     MainSendClosed, MainJoinWriter, MainJoinCrypt, MainOk, MainExit

LEMMA WriterKeeps ==
  ASSUME Writer
  PROVE  UNCHANGED <<source, mpc, chunkCount, joined, result, chIn>>
  BY DEF Writer, mainVars,
     WriterNext, WriterRecv, WriterWrite, WriterWriteError, WriterDrained,
     WriterRecvClosed, WriterOthers, WriterOthersError

\* ... the resegmentation thread nothing with main, the writer and the workers ...
LEMMA ResegKeeps ==
  ASSUME Control, ResegNext
  PROVE  /\ UNCHANGED <<source, mpc, chunkCount, joined, result, wpc, pending, writeIndex,
                        written, finalised, chIn, chOut, stage, hold>>
         /\ \A t \in Workers : ending'[t] = ending[t]
         /\ rpc # "ended" /\ ending[Resegmenter] = "running"
         /\ ending' \in [Threads -> {"running", "ok", "err"}]
  <1>1. /\ Resegmenter \in Threads /\ Resegmenter \notin Workers /\ Workers \subseteq Threads
        /\ ending \in [Threads -> {"running", "ok", "err"}]
    BY ThreadFacts DEF Control
  <1>2. /\ UNCHANGED <<source, mpc, chunkCount, joined, result, wpc, pending, writeIndex,
                       written, finalised, chIn, chOut, stage, hold>>
        /\ rpc # "ended"
        /\ \/ ending' = ending
           \/ ending' = [ending EXCEPT ![Resegmenter] = "ok"]
           \/ ending' = [ending EXCEPT ![Resegmenter] = "err"]
    BY DEF ResegNext, ResegRecv, ResegTake, ResegDrained, ParseLength, ParseFrame, ParseMore,
       FrameReady, ResegRecvClosed, ResegSendClosed, ResegEnd, Reseg,
       ioVars, mainVars, writerVars
  <1> QED BY <1>1, <1>2 DEF Control

\* ... and a worker nothing with the others.
LEMMA WorkerKeeps ==
  ASSUME Control, NEW t \in Workers, DecryptNext(t) \/ DecompressNext(t)
  PROVE  /\ UNCHANGED <<source, mpc, chunkCount, joined, result, wpc, pending, writeIndex,
                        written, finalised, rpc, rPending, outIndex, bufOut, chunkLen,
                        newCount>>
         /\ \A u \in Threads \ {t} : ending'[u] = ending[u]
         /\ \A u \in Workers \ {t} : hold'[u] = hold[u] /\ stage'[u] = stage[u]
         /\ ending[t] = "running"
         /\ ending' \in [Threads -> {"running", "ok", "err"}]
         /\ stage' \in [Workers -> {"recv", "work", "send"}]
         /\ DOMAIN hold' = Workers
  <1>1. /\ t \in Threads
        /\ ending \in [Threads -> {"running", "ok", "err"}]
        /\ stage \in [Workers -> {"recv", "work", "send"}]
        /\ DOMAIN hold = Workers
    BY ThreadFacts DEF Control
  <1>2. /\ UNCHANGED <<source, mpc, chunkCount, joined, result, wpc, pending, writeIndex,
                       written, finalised, rpc, rPending, outIndex, bufOut, chunkLen,
                       newCount>>
        /\ ending[t] = "running"
        /\ \E m : hold' = [hold EXCEPT ![t] = m]
        /\ \/ ending' = ending /\ \E s \in {"recv", "work", "send"} :
                                    stage' = [stage EXCEPT ![t] = s]
           \/ stage' = stage /\ \E how \in {"ok", "err"} :
                                  ending' = [ending EXCEPT ![t] = how]
    BY DEF DecryptNext, DecryptRecv, DecryptRecvClosed, DecryptWork, DecryptError,
       DecryptSend, DecryptSendClosed,
       DecompressNext, DecompressRecv, DecompressRecvClosed, DecompressWork, DecompressError,
       DecompressSend, DecompressSendClosed, End, Take, Done, Sent, Running,
       mainVars, writerVars, resegVars
  <1> QED BY <1>1, <1>2

-----------------------------------------------------------------------------
(* Before the resegmentation thread.                                       *)

LEMMA UpstreamKept ==
  ASSUME Upstream, source' = source, UNCHANGED <<chIn, chE>>, rPending' \subseteq rPending,
         \A t \in Decryptors : ending'[t] = "running" =>
           ending[t] = "running" /\ stage'[t] = stage[t] /\ hold'[t] = hold[t]
  PROVE  Upstream'
  BY DefinedBySource DEF Upstream

LEMMA UpstreamStep ==
  ASSUME Control, Upstream, [Next]_vars
  PROVE  Upstream'
  <1> USE DefinedBySource
  <1>0. /\ source' = source /\ source \in Sources
        /\ Decryptors \subseteq Workers /\ Workers \subseteq Threads
        /\ Decompressors \subseteq Workers /\ Decryptors \cap Decompressors = {}
    BY SourceFixed, ThreadFacts DEF Control
  <1>1. CASE Main
    <2>1. UNCHANGED <<ending, chE, stage, hold, rPending>>
      BY <1>1, MainAndWriterKeep
    <2>2. CASE chIn' = chIn
      BY <1>0, <2>1, <2>2, UpstreamKept
    <2>3. CASE SendChunk
      <3>1. InMsg(chunkCount) \in InMsgs
        <4>1. chunkCount \in 0..(NChunks - 1)
          BY <1>0, <2>3, SourceLength DEF SendChunk, Control
        <4> QED BY <1>0, <4>1, MessageFacts
      <3>2. chIn' \in Seq(InMsgs)
        BY <2>3, <3>1, SendFacts DEF SendChunk, Upstream
      <3> QED BY <1>0, <2>1, <3>2 DEF Upstream
    <2> QED BY <1>1, <2>2, <2>3
            DEF Main, MainNext, MainRead, MainReadError, MainSend, MainProgressError,
                MainSendClosed, MainJoinWriter, MainJoinCrypt, MainOk, MainExit
  <1>2. CASE Writer
    BY <1>0, <1>2, MainAndWriterKeep, WriterKeeps, UpstreamKept
  <1>3. CASE ResegNext
    <2>1. UNCHANGED <<stage, hold, chIn>> /\ \A t \in Decryptors : ending'[t] = ending[t]
      BY <1>0, <1>3, ResegKeeps
    <2>2. CASE ResegRecv
      <3>1. Head(chE) \in OpenMsgs /\ chE' \in Seq(OpenMsgs)
        BY <2>2, RecvFacts DEF ResegRecv, Upstream
      <3>2. rPending' \subseteq OpenMsgs
        BY <2>2, <3>1 DEF ResegRecv, Upstream
      <3> QED BY <1>0, <2>1, <3>1, <3>2 DEF Upstream
    <2>3. CASE ~ResegRecv
      <3>1. chE' = chE /\ rPending' \subseteq rPending
        BY <1>3, <2>3
        DEF ResegNext, ResegTake, ResegDrained, ParseLength, ParseFrame, ParseMore,
            ResegRecvClosed, ResegSendClosed, ResegEnd
      <3> QED BY <1>0, <2>1, <3>1, UpstreamKept
    <2> QED BY <2>2, <2>3
  <1>4. ASSUME NEW t \in Decryptors, DecryptNext(t)
        PROVE  Upstream'
    <2>0. /\ rPending' = rPending /\ t \in Workers /\ t \in Threads /\ ending[t] = "running"
          /\ \A u \in Decryptors \ {t} : /\ ending'[u] = ending[u]
                                          /\ hold'[u] = hold[u] /\ stage'[u] = stage[u]
          /\ DOMAIN hold = Workers /\ DOMAIN stage = Workers /\ DOMAIN ending = Threads
      BY <1>0, <1>4, WorkerKeeps DEF Control
    <2>1. CASE DecryptRecv(t)
      <3>1. /\ Head(chIn) \in InMsgs /\ chIn' \in Seq(InMsgs) /\ chE' = chE
            /\ hold'[t] = Head(chIn) /\ stage'[t] = "work"
        BY <2>0, <2>1, RecvFacts DEF DecryptRecv, Take, Upstream
      <3> QED BY <1>0, <2>0, <3>1 DEF Upstream
    <2>2. CASE DecryptWork(t)
      <3>1. /\ chIn' = chIn /\ chE' = chE /\ hold[t] \in InMsgs /\ stage'[t] = "send"
            /\ hold'[t] = OpenMsg(hold[t]) /\ Authentic(hold[t])
        BY <2>0, <2>2 DEF DecryptWork, Running, Done, Upstream, OpenMsg
      <3>2. hold'[t] \in OpenMsgs
        BY <3>1 DEF OpenMsgs, Opened
      <3> QED BY <1>0, <2>0, <3>1, <3>2 DEF Upstream
    <2>3. CASE DecryptSend(t)
      <3>1. chIn' = chIn /\ hold[t] \in OpenMsgs /\ stage'[t] = "recv" /\ chE' = Append(chE, hold[t])
        BY <2>0, <2>3 DEF DecryptSend, Running, Sent, Upstream
      <3>2. chE' \in Seq(OpenMsgs)
        BY <3>1, SendFacts DEF Upstream
      <3> QED BY <1>0, <2>0, <3>1, <3>2 DEF Upstream
    <2>4. CASE DecryptRecvClosed(t) \/ DecryptError(t) \/ DecryptSendClosed(t)
      <3>1. UNCHANGED <<chIn, chE>> /\ ending'[t] # "running"
        BY <2>0, <2>4 DEF DecryptRecvClosed, DecryptError, DecryptSendClosed, End
      <3> QED BY <1>0, <2>0, <3>1, UpstreamKept
    <2> QED BY <1>4, <2>1, <2>2, <2>3, <2>4 DEF DecryptNext
  <1>5. ASSUME NEW t \in Decompressors, DecompressNext(t)
        PROVE  Upstream'
    <2>1. UNCHANGED <<chIn, chE>>
      BY <1>5 DEF DecompressNext, DecompressRecv, DecompressRecvClosed, DecompressWork, DecompressError,
         DecompressSend, DecompressSendClosed, End
    <2>2. /\ t \in Workers /\ rPending' = rPending
          /\ \A u \in Decryptors : /\ ending'[u] = ending[u]
                                    /\ hold'[u] = hold[u] /\ stage'[u] = stage[u]
      BY <1>0, <1>5, WorkerKeeps
    <2> QED BY <1>0, <2>1, <2>2, UpstreamKept
  <1>6. CASE UNCHANGED vars
    BY <1>0, <1>6, UpstreamKept DEF vars, ioVars, pipeVars, resegVars
  <1> QED BY <1>1, <1>2, <1>3, <1>4, <1>5, <1>6 DEF Next, Exited

-----------------------------------------------------------------------------
(* The stream, and the chunks in it.                                       *)

Data   == [i \in 1..NChunks |-> source[i].data]
Units  == UNION {Range(source[i].data) : i \in 1..NChunks}
Pieces == [i \in 1..Len(Stream) |-> TextAt(Stream[i])]
AllTexts == {Text(Stream[i].chunk) : i \in 1..Len(Stream)}

LEMMA StreamFacts ==
  ASSUME source \in Sources
  PROVE  /\ Stream \in Seq(Units)
         /\ Place(0) = 0 /\ Place(NChunks) = Len(Stream)
         /\ \A n \in 0..NChunks : /\ Place(n) \in 0..Len(Stream)
                                  /\ UnitsOf(source, n) = SubSeq(Stream, 1, Place(n))
         /\ \A n \in 0..(NChunks - 1) :
              /\ source[n + 1].data \in Seq(Units)
              /\ Place(n + 1) = Place(n) + Len(source[n + 1].data)
              /\ SubSeq(Stream, Place(n) + 1, Place(n + 1)) = source[n + 1].data
  <1>1. NChunks \in Nat
    BY SourceLength
  <1>2. \A i \in 1..NChunks : source[i].data \in Seq(Units)
    <2> TAKE i \in 1..NChunks
    <2>1. source[i].data \in Seq(Range(source[i].data))
      BY SealedAssumption DEF NChunks
    <2>2. Range(source[i].data) \subseteq Units
      BY DEF Units
    <2> QED BY <2>1, <2>2, SeqMonotonic
  <1>3. /\ Data \in Seq(Seq(Units)) /\ Len(Data) = NChunks
        /\ \A i \in 1..NChunks : Data[i] = source[i].data
    BY <1>1, <1>2 DEF Data
  <1>4. \A n \in 0..NChunks : SubSeq(Data, 1, n) = [i \in 1..n |-> source[i].data]
    BY <1>1, <1>2 DEF Data
  <1>5. \A n \in 0..NChunks : UnitsOf(source, n) = FlattenSeq(SubSeq(Data, 1, n))
    BY <1>4 DEF UnitsOf
  <1>6. Stream = FlattenSeq(Data)
    BY DEF Stream, UnitsOf, Data
  <1>7. \A n \in 0..NChunks : Place(n) = EndOf(Data, n)
    BY <1>5 DEF Place, EndOf
  <1> HIDE DEF Data
  <1>8. /\ Stream \in Seq(Units) /\ EndOf(Data, 0) = 0 /\ EndOf(Data, NChunks) = Len(Stream)
        /\ \A n \in 0..NChunks : EndOf(Data, n) \in 0..Len(Stream)
        /\ \A n \in 0..(NChunks - 1) :
             /\ EndOf(Data, n + 1) = EndOf(Data, n) + Len(Data[n + 1])
             /\ SubSeq(Stream, EndOf(Data, n) + 1, EndOf(Data, n + 1)) = Data[n + 1]
    <2>1. /\ FlattenSeq(Data) \in Seq(Units)
          /\ EndOf(Data, 0) = 0 /\ EndOf(Data, Len(Data)) = Len(FlattenSeq(Data))
          /\ \A n \in 0..Len(Data) : EndOf(Data, n) \in 0..Len(FlattenSeq(Data))
          /\ \A n \in 0..(Len(Data) - 1) :
               /\ EndOf(Data, n + 1) = EndOf(Data, n) + Len(Data[n + 1])
               /\ SubSeq(FlattenSeq(Data), EndOf(Data, n) + 1, EndOf(Data, n + 1)) = Data[n + 1]
      BY <1>3, FlattenParts
    <2> QED BY <1>3, <1>6, <2>1
  <1>9. \A n \in 0..NChunks : UnitsOf(source, n) = SubSeq(Stream, 1, Place(n))
    <2> TAKE n \in 0..NChunks
    <2>1. \A m \in n..Len(Data) :
            FlattenSeq(SubSeq(Data, 1, n)) =
              SubSeq(FlattenSeq(SubSeq(Data, 1, m)), 1, Len(FlattenSeq(SubSeq(Data, 1, n))))
      BY <1>3, FlattenBegins
    <2>2. Len(Data) \in n..Len(Data) /\ SubSeq(Data, 1, Len(Data)) = Data
      BY <1>1, <1>3, SubSeqFull
    <2>3. FlattenSeq(SubSeq(Data, 1, n)) =
            SubSeq(FlattenSeq(Data), 1, Len(FlattenSeq(SubSeq(Data, 1, n))))
      BY <2>1, <2>2
    <2> QED BY <1>5, <1>6, <2>3 DEF Place
  <1>10. \A n \in 0..(NChunks - 1) : n \in 0..NChunks /\ n + 1 \in 0..NChunks /\ n + 1 \in 1..NChunks
    BY <1>1
  <1>11. 0 \in 0..NChunks /\ NChunks \in 0..NChunks
    BY <1>1
  <1> QED BY <1>2, <1>3, <1>7, <1>8, <1>9, <1>10, <1>11

\* The n-th unit of the stream ends a frame, and a chunk is complete, or not.
LEMMA TextFacts ==
  ASSUME source \in Sources
  PROVE  /\ Contents \in Seq(AllTexts)
         /\ Texts(0) = 0 /\ Texts(Len(Stream)) = Len(Contents)
         /\ \A n \in 0..Len(Stream) : Texts(n) \in 0..Len(Contents)
         /\ \A n \in 1..Len(Stream) :
              /\ EndsFrame(Stream[n]) => /\ Texts(n) = Texts(n - 1) + 1
                                         /\ Contents[Texts(n)] = Text(Stream[n].chunk)
              /\ ~EndsFrame(Stream[n]) => Texts(n) = Texts(n - 1)
         /\ \A n \in 0..Len(Stream) : \A m \in 0..n : Texts(m) <= Texts(n)
  <1>1. Len(Stream) \in Nat
    BY StreamFacts
  <1>2. \A i \in 1..Len(Stream) : TextAt(Stream[i]) \in Seq(AllTexts)
    <2> TAKE i \in 1..Len(Stream)
    <2>1. PICK x \in AllTexts : x = Text(Stream[i].chunk)
      BY DEF AllTexts
    <2>2. <<x>> \in Seq(AllTexts) /\ <<>> \in Seq(AllTexts)
      OBVIOUS
    <2> QED BY <2>1, <2>2 DEF TextAt
  <1>3. /\ Pieces \in Seq(Seq(AllTexts)) /\ Len(Pieces) = Len(Stream)
        /\ \A i \in 1..Len(Stream) : Pieces[i] = TextAt(Stream[i])
    BY <1>1, <1>2 DEF Pieces
  <1>4. \A n \in 0..Len(Stream) : SubSeq(Pieces, 1, n) = [i \in 1..n |-> TextAt(Stream[i])]
    BY <1>1, <1>2 DEF Pieces
  <1>5. \A n \in 0..Len(Stream) : Texts(n) = EndOf(Pieces, n)
    BY <1>4 DEF Texts, TextsTo, EndOf
  <1>6. Contents = FlattenSeq(Pieces)
    BY DEF Contents, TextsTo, Pieces
  <1> HIDE DEF Pieces
  <1>7. /\ Contents \in Seq(AllTexts)
        /\ EndOf(Pieces, 0) = 0 /\ EndOf(Pieces, Len(Stream)) = Len(Contents)
        /\ \A n \in 0..Len(Stream) : EndOf(Pieces, n) \in 0..Len(Contents)
        /\ \A n \in 0..(Len(Stream) - 1) :
             /\ EndOf(Pieces, n + 1) = EndOf(Pieces, n) + Len(Pieces[n + 1])
             /\ SubSeq(Contents, EndOf(Pieces, n) + 1, EndOf(Pieces, n + 1)) = Pieces[n + 1]
    <2>1. /\ FlattenSeq(Pieces) \in Seq(AllTexts)
          /\ EndOf(Pieces, 0) = 0 /\ EndOf(Pieces, Len(Pieces)) = Len(FlattenSeq(Pieces))
          /\ \A n \in 0..Len(Pieces) : EndOf(Pieces, n) \in 0..Len(FlattenSeq(Pieces))
          /\ \A n \in 0..(Len(Pieces) - 1) :
               /\ EndOf(Pieces, n + 1) = EndOf(Pieces, n) + Len(Pieces[n + 1])
               /\ SubSeq(FlattenSeq(Pieces), EndOf(Pieces, n) + 1, EndOf(Pieces, n + 1)) = Pieces[n + 1]
      BY <1>3, FlattenParts
    <2> QED BY <1>3, <1>6, <2>1
  <1>8. 0 \in 0..Len(Stream) /\ Len(Stream) \in 0..Len(Stream)
    BY <1>1
  <1>9. \A n \in 0..Len(Stream) : \A m \in 0..n : Texts(m) <= Texts(n)
    <2> TAKE n \in 0..Len(Stream)
    <2> TAKE m \in 0..n
    <2>1. m \in 0..Len(Pieces) /\ n \in m..Len(Pieces) /\ m \in 0..Len(Stream)
      BY <1>1, <1>3
    <2>2. EndOf(Pieces, m) <= EndOf(Pieces, n)
      BY <1>3, <2>1, EndsGrow
    <2> QED BY <1>5, <2>1, <2>2
  <1>10. ASSUME NEW n \in 1..Len(Stream)
         PROVE  /\ EndsFrame(Stream[n]) => /\ Texts(n) = Texts(n - 1) + 1
                                           /\ Contents[Texts(n)] = Text(Stream[n].chunk)
                /\ ~EndsFrame(Stream[n]) => Texts(n) = Texts(n - 1)
    <2>1. PICK k \in 0..(Len(Stream) - 1) : k = n - 1
      BY <1>1
    <2>2. n = k + 1 /\ k \in 0..Len(Stream) /\ n \in 0..Len(Stream)
      BY <1>1, <2>1
    <2>3. /\ Texts(n) = Texts(k) + Len(TextAt(Stream[n]))
          /\ SubSeq(Contents, Texts(k) + 1, Texts(n)) = TextAt(Stream[n])
          /\ Texts(n) \in 0..Len(Contents) /\ Texts(k) \in 0..Len(Contents)
      <3>1. /\ EndOf(Pieces, k + 1) = EndOf(Pieces, k) + Len(Pieces[k + 1])
            /\ SubSeq(Contents, EndOf(Pieces, k) + 1, EndOf(Pieces, k + 1)) = Pieces[k + 1]
        BY <1>7, <2>1
      <3> QED BY <1>3, <1>5, <1>7, <2>2, <3>1
    <2>4. CASE EndsFrame(Stream[n])
      <3>1. TextAt(Stream[n]) = <<Text(Stream[n].chunk)>>
        BY <2>4 DEF TextAt
      <3>2. Len(TextAt(Stream[n])) = 1 /\ TextAt(Stream[n])[1] = Text(Stream[n].chunk)
        BY <3>1
      <3>3. Texts(n) = Texts(k) + 1
        BY <2>3, <3>2
      <3>4. Contents[Texts(k) + 1] = SubSeq(Contents, Texts(k) + 1, Texts(n))[1]
        <4>1. Texts(k) \in 0..Texts(n)
          BY <2>3, <3>3
        <4>2. PICK d \in 0..Len(Contents) : d = Texts(n)
          BY <2>3
        <4>3. PICK a \in 0..d : a = Texts(k)
          BY <4>1, <4>2
        <4>4. \A i \in 1..(d - a) : SubSeq(Contents, a + 1, d)[i] = Contents[a + i]
          BY ONLY <1>7, d \in 0..Len(Contents), a \in 0..d, PieceFacts
        <4>5. 1 \in 1..(d - a)
          BY <3>3, <4>2, <4>3
        <4> QED BY <4>2, <4>3, <4>4, <4>5
      <3> QED BY <2>1, <2>3, <2>4, <3>2, <3>3, <3>4
    <2>5. CASE ~EndsFrame(Stream[n])
      <3>1. Len(TextAt(Stream[n])) = 0
        BY <2>5 DEF TextAt
      <3> QED BY <2>1, <2>3, <2>5, <3>1
    <2> QED BY <2>4, <2>5
  <1>11. \A n \in 0..Len(Stream) : Texts(n) \in 0..Len(Contents)
    BY <1>5, <1>7
  <1>12. Texts(0) = 0 /\ Texts(Len(Stream)) = Len(Contents)
    BY <1>5, <1>7, <1>8
  <1> QED BY <1>7, <1>9, <1>10, <1>11, <1>12

\* No two frames end with the same chunk.
LEMMA FrameEnds ==
  ASSUME source \in Sources
  PROVE  /\ \A n \in 1..Len(Stream) : \A m \in 0..(n - 1) :
              EndsFrame(Stream[n]) => Texts(m) < Texts(n)
         /\ \A m, n \in 1..Len(Stream) :
              EndsFrame(Stream[m]) /\ EndsFrame(Stream[n]) /\ Texts(m) = Texts(n) => m = n
  <1>1. Len(Stream) \in Nat
    BY StreamFacts
  <1>2. ASSUME NEW n \in 1..Len(Stream), NEW m \in 0..(n - 1), EndsFrame(Stream[n])
        PROVE  Texts(m) < Texts(n)
    <2>1. PICK k \in 0..Len(Stream) : k = n - 1
      BY <1>1
    <2>2. Texts(m) <= Texts(k) /\ Texts(n) = Texts(k) + 1 /\ m \in 0..k
      BY <1>2, <2>1, TextFacts
    <2>3. Texts(m) \in Nat /\ Texts(k) \in Nat
      BY <1>1, <2>1, <2>2, TextFacts
    <2> QED BY <2>2, <2>3
  <1>3. ASSUME NEW m \in 1..Len(Stream), NEW n \in 1..Len(Stream),
               EndsFrame(Stream[m]), EndsFrame(Stream[n]), Texts(m) = Texts(n)
        PROVE  m = n
    <2>1. ~(m \in 0..(n - 1)) /\ ~(n \in 0..(m - 1))
      <3>1. m \in 0..(n - 1) => Texts(m) < Texts(n)
        BY <1>2, <1>3
      <3>2. n \in 0..(m - 1) => Texts(n) < Texts(m)
        BY <1>2, <1>3
      <3>3. Texts(m) \in Nat /\ Texts(n) \in Nat
        BY <1>1, TextFacts
      <3> QED BY <1>3, <3>1, <3>2, <3>3
    <2> QED BY <1>1, <2>1
  <1> QED BY <1>2, <1>3

\* As long as no frame ends, no chunk is complete.
LEMMA NoFrameEnds ==
  ASSUME source \in Sources, NEW b \in 0..Len(Stream), NEW a \in 0..b,
         \A i \in (a + 1)..b : ~EndsFrame(Stream[i])
  PROVE  Texts(b) = Texts(a)
  <1> DEFINE T == {n \in Nat : a <= n /\ n <= b => Texts(n) = Texts(a)}
  <1>1. Len(Stream) \in Nat
    BY StreamFacts
  <1>2. 0 \in T
    OBVIOUS
  <1>3. ASSUME NEW n \in Nat, n \in T
        PROVE  n + 1 \in T
    <2>1. ASSUME a <= n + 1, n + 1 <= b, a # n + 1
          PROVE  Texts(n + 1) = Texts(a)
      <3>1. n + 1 \in (a + 1)..b /\ n + 1 \in 1..Len(Stream) /\ (n + 1) - 1 = n
        BY <1>1, <2>1
      <3>2. Texts(n + 1) = Texts((n + 1) - 1)
        BY <3>1, TextFacts
      <3>3. Texts(n) = Texts(a)
        BY <1>3, <2>1
      <3> QED BY <3>1, <3>2, <3>3
    <2> QED BY <2>1
  <1>4. Nat \subseteq T
    <2> HIDE DEF T
    <2> QED BY <1>2, <1>3, Induction
  <1> QED BY <1>4

-----------------------------------------------------------------------------
(* The resegmentation thread.                                              *)

LEMMA BufferFacts ==
  ASSUME Control, Buffer
  PROVE  /\ source \in Sources /\ NChunks \in Nat \ {0} /\ outIndex \in 0..NChunks
         /\ LenSize \in Nat \ {0} /\ Stream \in Seq(Units)
         /\ Taken \in 0..Len(Stream) /\ Position \in 0..Taken /\ Behind \in 0..Position
         /\ LengthKnown => Position = Behind + LenSize
         /\ ~LengthKnown => Position = Behind
         /\ bufOut \in Seq(Units) /\ Len(bufOut) = Taken - Position
         /\ bufOut = <<>> <=> Position = Taken
  <1>1. /\ source \in Sources /\ NChunks \in Nat \ {0} /\ outIndex \in 0..NChunks
        /\ LenSize \in Nat \ {0}
    BY SourceLength, FramingAssumption DEF Control, Buffer
  <1>2. Stream \in Seq(Units) /\ Taken \in 0..Len(Stream)
    BY <1>1, StreamFacts DEF Taken
  <1>3. Position \in 0..Taken /\ Len(bufOut) = Taken - Position
    BY <1>2 DEF Position, Buffer
  <1>4. /\ Behind \in 0..Position
        /\ LengthKnown => Position = Behind + LenSize
        /\ ~LengthKnown => Position = Behind
    <2>1. Behind \in Nat
      BY DEF Buffer, Parsed
    <2> QED BY <1>1, <1>3, <2>1 DEF Behind
  <1>5. bufOut \in Seq(Units) /\ (bufOut = <<>> <=> Position = Taken)
    <2>1. bufOut = SubSeq(Stream, Position + 1, Taken)
      BY DEF Buffer
    <2> QED BY ONLY <1>2, <1>3, <2>1, PieceFacts
  <1> QED BY <1>1, <1>2, <1>3, <1>4, <1>5

\* What the segments that were taken say of the stream up to there.
LEMMA FrameHere ==
  ASSUME Control, Buffer, NEW i \in 1..Taken, BeginsAt(Stream, i)
  PROVE  /\ Stream[i].size \in Nat \ {0} /\ Stream[i].chunk # NoChunk
         /\ \A j \in 1..(LenSize + Stream[i].size) : i + j - 1 <= Taken =>
              \E c \in {Stream[i].chunk} \cup (IF j > LenSize THEN {NoChunk} ELSE {}) :
                Stream[i + j - 1] = [chunk |-> c, pos |-> j, size |-> Stream[i].size]
  <1> DEFINE us == UnitsOf(source, outIndex)
  <1>1. /\ source \in Sources /\ outIndex \in 0..NChunks /\ NChunks \in Nat
        /\ Taken \in 0..Len(Stream) /\ Stream \in Seq(Units)
    BY BufferFacts
  <1>2. us = SubSeq(Stream, 1, Taken)
    BY <1>1, StreamFacts DEF Taken
  <1>3. Len(us) = Taken /\ \A k \in 1..Taken : us[k] = Stream[k]
    BY <1>1, <1>2, FirstElements
  <1>4. outIndex \in 1..Len(source) /\ InPlace(source, outIndex)
    <2>1. outIndex # 0
      <3>1. Taken # 0
        BY <1>1
      <3> QED BY <1>1, <3>1, StreamFacts DEF Taken
    <2> QED BY <1>1, <2>1 DEF NChunks, Buffer
  <1>5. \A k \in 1..Len(us) : BeginsAt(us, k) => FrameAt(us, k)
    BY <1>1, <1>4, SealedAssumption
  <1> HIDE DEF us
  <1>6. BeginsAt(us, i)
    <2>1. i # 1 => i - 1 \in 1..Taken
      BY <1>1
    <2> QED BY <1>3, <2>1 DEF BeginsAt
  <1>7. FrameAt(us, i) /\ us[i] = Stream[i]
    BY <1>3, <1>5, <1>6
  <1>8. /\ Stream[i].size \in Nat \ {0} /\ Stream[i].chunk # NoChunk
        /\ \A j \in 1..(LenSize + Stream[i].size) : i + j - 1 <= Taken =>
             \E c \in {Stream[i].chunk} \cup (IF j > LenSize THEN {NoChunk} ELSE {}) :
               us[i + j - 1] = [chunk |-> c, pos |-> j, size |-> Stream[i].size]
    BY <1>3, <1>7 DEF FrameAt
  <1>9. \A j \in 1..(LenSize + Stream[i].size) : i + j - 1 <= Taken =>
          us[i + j - 1] = Stream[i + j - 1]
    <2> TAKE j \in 1..(LenSize + Stream[i].size)
    <2> HAVE i + j - 1 <= Taken
    <2>1. i + j - 1 \in 1..Taken
      BY <1>1, <1>8, FramingAssumption
    <2> QED BY <1>3, <2>1
  <1> QED BY <1>8, <1>9

\* What Buffer says in the next state of the same source.
LEMMA BufferMakes ==
  ASSUME source' = source,
         rpc' \in {"recv", "drain", "parse", "ended"},
         outIndex' \in 0..NChunks, newCount' \in Nat, InPlace(source, outIndex'),
         Len(bufOut') \in 0..Place(outIndex'),
         NEW p, p = Place(outIndex') - Len(bufOut'),
         bufOut' = SubSeq(Stream, p + 1, Place(outIndex')),
         NEW b, b = p - (IF chunkLen' # NoLength THEN LenSize ELSE 0),
         chunkLen' # NoLength => chunkLen' = Stream[b + 1].size,
         Parsed(p, b, newCount'),
         rpc' \in {"recv", "drain"} =>
           Len(bufOut') < (IF chunkLen' # NoLength THEN chunkLen' ELSE LenSize)
  PROVE  Buffer' /\ Position' = p
  <1>1. Stream' = Stream /\ NChunks' = NChunks /\ NoLength' = NoLength
    BY DefinedBySource DEF NoLength
  <1>2. Taken' = Place(outIndex')
    BY DEF Taken, Place
  <1>3. Position' = p
    BY <1>2 DEF Position
  <1>4. LengthKnown' <=> chunkLen' # NoLength
    BY <1>1 DEF LengthKnown
  <1>5. Behind' = b
    BY <1>3, <1>4 DEF Behind
  <1>6. (Texts(Position))' = Texts(p)
    BY <1>1, <1>3 DEF Texts, TextsTo
  <1>7. (FramesTo(Position))' = FramesTo(p)
    BY <1>1, <1>3 DEF FramesTo
  <1>8. (Border(Behind))' <=> Border(b)
    BY <1>1, <1>5 DEF Border
  <1>9. (Parsed(Position, Behind, newCount))'
    BY <1>1, <1>5, <1>6, <1>7, <1>8 DEF Parsed, Size, Border
  <1>10. (InPlace(source, outIndex))'
    BY DEF InPlace
  <1>11. (Stream[Behind + 1].size)' = Stream[b + 1].size
    BY <1>1, <1>5
  <1>12. bufOut' = SubSeq(Stream', Position' + 1, Taken')
    BY <1>1, <1>2, <1>3
  <1> QED BY <1>1, <1>2, <1>3, <1>4, <1>9, <1>10, <1>11, <1>12 DEF Buffer

LEMMA BufferKept ==
  ASSUME Control, Buffer, source' = source,
         UNCHANGED <<outIndex, bufOut, chunkLen, newCount>>,
         rpc' \in {"recv", "drain", "parse", "ended"},
         rpc' \in {"recv", "drain"} => Len(bufOut) < (IF LengthKnown THEN chunkLen ELSE LenSize)
  PROVE  Buffer' /\ Position' = Position
  <1>1. Position = Place(outIndex) - Len(bufOut)
    BY DEF Position, Taken
  <1>2. Behind = Position - (IF chunkLen # NoLength THEN LenSize ELSE 0)
    BY DEF Behind, LengthKnown
  <1>3. /\ outIndex \in 0..NChunks /\ newCount \in Nat /\ InPlace(source, outIndex)
        /\ Len(bufOut) \in 0..Place(outIndex)
        /\ bufOut = SubSeq(Stream, Position + 1, Place(outIndex))
        /\ chunkLen # NoLength => chunkLen = Stream[Behind + 1].size
        /\ Parsed(Position, Behind, newCount)
    BY DEF Buffer, Taken, LengthKnown
  <1>4. rpc' \in {"recv", "drain"} =>
          Len(bufOut) < (IF chunkLen # NoLength THEN chunkLen ELSE LenSize)
    BY DEF LengthKnown
  <1>5. PICK p, b : p = Position /\ b = Behind
    OBVIOUS
  <1> QED BY <1>1, <1>2, <1>3, <1>4, <1>5, BufferMakes

\* The same, by the place before the frame.
LEMMA FrameUnits ==
  ASSUME Control, Buffer, NEW b \in 0..(Taken - 1), Border(b)
  PROVE  /\ Stream[b + 1].size \in Nat \ {0} /\ Stream[b + 1].chunk # NoChunk
         /\ \A k \in (b + 1)..Taken : k <= b + Size(b + 1) =>
              /\ Stream[k] = [chunk |-> Stream[k].chunk, pos |-> k - b, size |-> Stream[b + 1].size]
              /\ Stream[k].chunk
                   \in {Stream[b + 1].chunk} \cup (IF k > b + LenSize THEN {NoChunk} ELSE {})
              /\ EndsFrame(Stream[k]) <=> k = b + Size(b + 1)
  <1>1. Taken \in Nat /\ LenSize \in Nat \ {0}
    BY BufferFacts
  <1>2. PICK i \in 1..Taken : i = b + 1
    BY <1>1
  <1>3. i - 1 = b /\ b \in Nat
    BY <1>1, <1>2
  <1>4. BeginsAt(Stream, i)
    BY <1>2, <1>3 DEF BeginsAt, Border
  <1>5. PICK z : z = Stream[i].size
    OBVIOUS
  <1>6. /\ z \in Nat \ {0} /\ Stream[i].chunk # NoChunk
        /\ \A j \in 1..(LenSize + z) : i + j - 1 <= Taken =>
             \E c \in {Stream[i].chunk} \cup (IF j > LenSize THEN {NoChunk} ELSE {}) :
               Stream[i + j - 1] = [chunk |-> c, pos |-> j, size |-> z]
    BY <1>4, <1>5, FrameHere
  <1>7. ASSUME NEW k \in i..Taken, k <= b + (LenSize + z)
        PROVE  /\ Stream[k] = [chunk |-> Stream[k].chunk, pos |-> k - b, size |-> z]
               /\ Stream[k].chunk
                    \in {Stream[i].chunk} \cup (IF k > b + LenSize THEN {NoChunk} ELSE {})
               /\ EndsFrame(Stream[k]) <=> k = b + (LenSize + z)
    <2>1. PICK j \in 1..(LenSize + z) : j = k - b
      BY <1>1, <1>2, <1>3, <1>6, <1>7
    <2>2. i + j - 1 = k /\ (j > LenSize <=> k > b + LenSize)
      BY <1>1, <1>2, <1>3, <2>1
    <2>3. PICK c \in {Stream[i].chunk} \cup (IF j > LenSize THEN {NoChunk} ELSE {}) :
            Stream[k] = [chunk |-> c, pos |-> j, size |-> z]
      <3>1. i + j - 1 <= Taken
        BY <1>7, <2>2
      <3>2. \E c \in {Stream[i].chunk} \cup (IF j > LenSize THEN {NoChunk} ELSE {}) :
              Stream[i + j - 1] = [chunk |-> c, pos |-> j, size |-> z]
        BY ONLY <1>6, <3>1, j \in 1..(LenSize + z)
      <3> QED BY ONLY <2>2, <3>2
    <2>4. EndsFrame(Stream[k]) <=> j = LenSize + z
      BY <2>3 DEF EndsFrame
    <2>5. j = LenSize + z <=> k = b + (LenSize + z)
      BY <1>1, <1>3, <1>6, <2>1
    <2> QED BY <2>1, <2>2, <2>3, <2>4, <2>5
  <1>8. Size(i) = LenSize + z
    BY <1>5 DEF Size
  <1> QED BY <1>2, <1>5, <1>6, <1>7, <1>8

\* The length field was read: where the frame begins and ends.
LEMMA ParseLengthFacts ==
  ASSUME Control, Buffer, source' = source, ParseLength
  PROVE  /\ Buffer' /\ Position' = Position + LenSize /\ newCount' = newCount
         /\ \A i \in Frames' : i \in Frames
  <1>0. /\ source \in Sources /\ LenSize \in Nat \ {0} /\ Stream \in Seq(Units)
        /\ Taken \in 0..Len(Stream) /\ Position \in 0..Taken
        /\ Len(bufOut) = Taken - Position /\ Position = Behind
    BY BufferFacts DEF ParseLength
  <1>1. /\ rpc = "parse" /\ Len(bufOut) >= LenSize
        /\ chunkLen' = bufOut[1].size
        /\ bufOut' = SubSeq(bufOut, LenSize + 1, Len(bufOut))
        /\ rpc' = rpc /\ outIndex' = outIndex /\ newCount' = newCount
    BY DEF ParseLength, Reseg
  <1>2. PICK p \in 0..Taken : p = Position + LenSize
    BY <1>0, <1>1
  <1>3. Position \in 0..(Taken - 1) /\ Border(Position)
    BY <1>0, <1>1 DEF Buffer, Parsed
  <1>4. PICK z : z = Stream[Position + 1].size
    OBVIOUS
  <1>5. /\ z \in Nat \ {0}
        /\ \A k \in (Position + 1)..p : ~EndsFrame(Stream[k])
    <2>1. Size(Position + 1) = LenSize + z
      BY <1>4 DEF Size
    <2>2. /\ z \in Nat \ {0}
          /\ \A k \in (Position + 1)..Taken : k <= Position + (LenSize + z) =>
               (EndsFrame(Stream[k]) <=> k = Position + (LenSize + z))
      <3>1. /\ Stream[Position + 1].size \in Nat \ {0}
            /\ \A k \in (Position + 1)..Taken : k <= Position + Size(Position + 1) =>
                 (EndsFrame(Stream[k]) <=> k = Position + Size(Position + 1))
        BY <1>3, FrameUnits
      <3> QED BY ONLY <1>4, <2>1, <3>1
    <2>3. \A k \in (Position + 1)..p :
            k \in (Position + 1)..Taken /\ k < Position + (LenSize + z)
      BY <1>0, <1>2, <2>2
    <2> QED BY <1>0, <1>2, <2>2, <2>3
  <1>6. bufOut = SubSeq(Stream, Position + 1, Taken)
    BY DEF Buffer
  <1>7. chunkLen' = z
    <2>1. \A i \in 1..(Taken - Position) : SubSeq(Stream, Position + 1, Taken)[i] = Stream[Position + i]
      BY <1>0, PieceFacts
    <2>2. 1 \in 1..(Taken - Position)
      BY <1>0, <1>1
    <2> QED BY <1>1, <1>4, <1>6, <2>1, <2>2
  <1>8. bufOut' = SubSeq(Stream, p + 1, Taken) /\ Len(bufOut') = Taken - p
    <2>1. SubSeq(SubSeq(Stream, Position + 1, Taken), LenSize + 1, Taken - Position)
            = SubSeq(Stream, Position + LenSize + 1, Taken)
      <3>1. LenSize \in 0..(Taken - Position)
        BY <1>0, <1>1
      <3> QED BY <1>0, <3>1, CutPiece
    <2>2. bufOut' = SubSeq(Stream, p + 1, Taken)
      BY <1>0, <1>1, <1>2, <1>6, <2>1
    <2> QED BY <1>0, <2>2, PieceFacts
  <1>9. Texts(p) = Texts(Position) /\ \A i \in FramesTo(p) : i \in Frames
    <2>1. p \in 0..Len(Stream) /\ Position \in 0..p
      BY <1>0, <1>2
    <2>2. Texts(p) = Texts(Position)
      BY <1>0, <1>5, <2>1, NoFrameEnds
    <2>3. \A i \in 1..p : i \in 1..Position \/ i \in (Position + 1)..p
      BY <1>0, <2>1
    <2> QED BY <1>5, <2>2, <2>3 DEF Frames, FramesTo
  <1>10. Parsed(p, Position, newCount)
    <2>1. Parsed(Position, Position, newCount)
      BY <1>0 DEF Buffer
    <2>2. FramesTo(Position) \subseteq FramesTo(p)
      BY <1>0, <1>2 DEF FramesTo
    <2> QED BY <1>9, <2>1, <2>2 DEF Parsed, Frames
  <1>11. Place(outIndex) = Taken
    BY DEF Taken
  <1>12. Buffer' /\ Position' = p
    <2>1. /\ rpc' \in {"recv", "drain", "parse", "ended"}
          /\ rpc' \notin {"recv", "drain"}
          /\ outIndex' \in 0..NChunks /\ newCount' \in Nat /\ InPlace(source, outIndex')
      BY <1>1 DEF Buffer
    <2>2. /\ Len(bufOut') \in 0..Place(outIndex')
          /\ p = Place(outIndex') - Len(bufOut')
          /\ bufOut' = SubSeq(Stream, p + 1, Place(outIndex'))
      BY <1>0, <1>1, <1>8, <1>11
    <2>3. /\ chunkLen' # NoLength /\ chunkLen' = Stream[Position + 1].size
          /\ Position = p - (IF chunkLen' # NoLength THEN LenSize ELSE 0)
      BY <1>0, <1>2, <1>4, <1>5, <1>7 DEF NoLength
    <2>4. Parsed(p, Position, newCount')
      BY <1>1, <1>10
    <2>5. PICK b : b = Position
      OBVIOUS
    <2> QED BY <2>1, <2>2, <2>3, <2>4, <2>5, BufferMakes
  <1>13. Frames' = FramesTo(p)
    BY <1>12, DefinedBySource DEF Frames, FramesTo
  <1> QED BY <1>1, <1>2, <1>9, <1>12, <1>13

\* A frame was parsed: the next one of the stream.
LEMMA ParseFrameFacts ==
  ASSUME Control, Buffer, source' = source, ParseFrame
  PROVE  /\ Buffer' /\ newCount' = newCount + 1
         /\ \E e \in Frames' :
              /\ Texts(e) = newCount + 1 /\ chC' = Append(chC, FrameMsg(e))
              /\ Frames' = Frames \cup {e}
  <1>0. /\ source \in Sources /\ LenSize \in Nat \ {0} /\ Stream \in Seq(Units)
        /\ Taken \in 0..Len(Stream) /\ Position \in 0..Taken /\ Behind \in 0..Position
        /\ Len(bufOut) = Taken - Position /\ Position = Behind + LenSize
    BY BufferFacts DEF ParseFrame, FrameReady
  <1>1. /\ rpc = "parse" /\ Len(bufOut) >= chunkLen /\ chunkLen # NoLength
        /\ chC' = Append(chC, [buf |-> SubSeq(bufOut, 1, chunkLen), idx |-> newCount])
        /\ bufOut' = SubSeq(bufOut, chunkLen + 1, Len(bufOut))
        /\ chunkLen' = NoLength
        /\ rpc' = rpc /\ outIndex' = outIndex /\ newCount' = newCount + 1
    BY DEF ParseFrame, FrameReady, Reseg, LengthKnown
  <1>2. PICK b \in 0..(Taken - 1) : b = Behind
    BY <1>0
  <1>3. Border(b) /\ chunkLen = Stream[b + 1].size
    BY <1>1, <1>2 DEF Buffer, Parsed, LengthKnown
  <1>4. PICK z : z = chunkLen
    OBVIOUS
  <1>5. /\ z \in Nat \ {0} /\ Size(b + 1) = LenSize + z
        /\ \A k \in (b + 1)..Taken : k <= b + (LenSize + z) =>
             Stream[k].size = z /\ (EndsFrame(Stream[k]) <=> k = b + (LenSize + z))
    <2>1. Size(b + 1) = LenSize + z
      BY <1>3, <1>4 DEF Size
    <2>2. /\ z \in Nat \ {0}
          /\ \A k \in (b + 1)..Taken : k <= b + (LenSize + z) =>
               /\ Stream[k] = [chunk |-> Stream[k].chunk, pos |-> k - b, size |-> z]
               /\ EndsFrame(Stream[k]) <=> k = b + (LenSize + z)
      <3>1. /\ Stream[b + 1].size \in Nat \ {0}
            /\ \A k \in (b + 1)..Taken : k <= b + Size(b + 1) =>
                 /\ Stream[k] = [chunk |-> Stream[k].chunk, pos |-> k - b,
                                 size |-> Stream[b + 1].size]
                 /\ EndsFrame(Stream[k]) <=> k = b + Size(b + 1)
        BY <1>3, FrameUnits
      <3>2. Stream[b + 1].size = z
        BY <1>3, <1>4
      <3> QED BY ONLY <2>1, <3>1, <3>2
    <2>3. \A k \in (b + 1)..Taken : k <= b + (LenSize + z) => Stream[k].size = z
      <3> TAKE k \in (b + 1)..Taken
      <3> HAVE k <= b + (LenSize + z)
      <3>1. Stream[k] = [chunk |-> Stream[k].chunk, pos |-> k - b, size |-> z]
        BY <2>2
      <3> QED BY ONLY <3>1
    <2> QED BY ONLY <2>1, <2>2, <2>3
  <1>6. PICK e \in 1..Taken : e = b + (LenSize + z)
    BY <1>0, <1>1, <1>2, <1>4, <1>5
  <1>7. /\ e = Position + z /\ z \in 0..(Taken - Position) /\ b \in Nat
        /\ e \in 1..Len(Stream) /\ e \in (b + 1)..Taken /\ e - 1 \in Nat
    BY <1>0, <1>1, <1>2, <1>4, <1>5, <1>6
  <1>8. EndsFrame(Stream[e]) /\ Stream[e].size = z
    BY <1>5, <1>6, <1>7
  <1>9. \A k \in (Position + 1)..(e - 1) : ~EndsFrame(Stream[k])
    <2>1. \A k \in (Position + 1)..(e - 1) :
            k \in (b + 1)..Taken /\ k <= b + (LenSize + z) /\ k # b + (LenSize + z)
      BY <1>0, <1>2, <1>5, <1>6, <1>7
    <2> QED BY <1>5, <2>1
  <1>10. Texts(e) = newCount + 1
    <2>1. PICK d \in 0..Len(Stream) : d = e - 1
      BY <1>0, <1>7
    <2>2. Position \in 0..d
      BY <1>0, <1>5, <1>7, <2>1
    <2>3. Texts(d) = Texts(Position)
      BY <1>0, <1>9, <2>1, <2>2, NoFrameEnds
    <2>4. Texts(e) = Texts(e - 1) + 1
      BY <1>0, <1>7, <1>8, TextFacts
    <2> QED BY <2>1, <2>3, <2>4 DEF Buffer, Parsed
  <1>11. FramesTo(e) = Frames \cup {e}
    <2>1. \A i : i \in 1..e <=> \/ i \in 1..Position \/ i \in (Position + 1)..(e - 1) \/ i = e
      <3>1. Position \in Nat /\ e \in Nat /\ Position < e
        BY <1>0, <1>5, <1>7
      <3> QED BY ONLY <3>1
    <2> QED BY <1>8, <1>9, <2>1 DEF Frames, FramesTo
  <1>12. bufOut = SubSeq(Stream, Position + 1, Taken)
    BY DEF Buffer
  <1>13. /\ SubSeq(bufOut, 1, z) = SubSeq(Stream, Position + 1, e)
         /\ bufOut' = SubSeq(Stream, e + 1, Taken) /\ Len(bufOut') = Taken - e
    <2>1. /\ SubSeq(SubSeq(Stream, Position + 1, Taken), 1, z)
               = SubSeq(Stream, Position + 1, Position + z)
          /\ SubSeq(SubSeq(Stream, Position + 1, Taken), z + 1, Taken - Position)
               = SubSeq(Stream, Position + z + 1, Taken)
      BY <1>0, <1>7, CutPiece
    <2>2. bufOut' = SubSeq(Stream, e + 1, Taken)
      BY <1>0, <1>1, <1>4, <1>7, <1>12, <2>1
    <2>3. e \in 0..Taken
      BY <1>0, <1>7
    <2> QED BY <1>0, <1>7, <1>12, <2>1, <2>2, <2>3, PieceFacts
  <1>14. Parsed(e, e, newCount + 1)
    <2>1. Parsed(Position, b, newCount)
      BY <1>2 DEF Buffer
    <2>2. e - Size(e) = b /\ Size(e) = LenSize + z
      <3>1. Size(e) = LenSize + z
        BY <1>8 DEF Size
      <3>2. PICK y \in Nat : y = LenSize + z
        BY <1>0, <1>5
      <3>3. e = b + y
        BY <1>6, <3>2
      <3> QED BY <1>7, <3>1, <3>2, <3>3
    <2>3. Border(e) /\ e \in Nat /\ Size(e) <= e
      BY <1>0, <1>5, <1>6, <1>7, <1>8, <2>2 DEF Border
    <2>4. \A i \in FramesTo(e) : /\ Stream[i].size \in Nat /\ Size(i) <= i /\ Border(i - Size(i))
                                 /\ Stream[i - Size(i) + 1].size = Stream[i].size
      BY <1>3, <1>4, <1>5, <1>8, <1>11, <2>1, <2>2, <2>3 DEF Parsed, Frames
    <2>5. ASSUME NEW x \in 1..e
          PROVE  \E i \in FramesTo(e) : i - Size(i) < x /\ x <= i
      <3>1. CASE x \in 1..b
        BY <1>11, <2>1, <3>1 DEF Parsed, Frames
      <3>2. CASE x \notin 1..b
        <4>1. e - Size(e) < x /\ x <= e
          BY <1>7, <2>2, <3>2
        <4> QED BY <1>11, <4>1
      <3> QED BY <3>1, <3>2
    <2> QED BY <1>10, <2>3, <2>4, <2>5 DEF Parsed
  <1>15. Buffer' /\ Position' = e
    <2>1. /\ rpc' \in {"recv", "drain", "parse", "ended"}
          /\ rpc' \notin {"recv", "drain"}
          /\ outIndex' \in 0..NChunks /\ newCount' \in Nat /\ InPlace(source, outIndex')
      BY <1>1 DEF Buffer
    <2>2. /\ Len(bufOut') \in 0..Place(outIndex')
          /\ e = Place(outIndex') - Len(bufOut')
          /\ bufOut' = SubSeq(Stream, e + 1, Place(outIndex'))
      <3>1. Place(outIndex') = Taken
        BY <1>1 DEF Taken
      <3> QED BY <1>0, <1>7, <1>13, <3>1
    <2>3. chunkLen' = NoLength /\ e = e - (IF chunkLen' # NoLength THEN LenSize ELSE 0)
      BY <1>1, <1>7
    <2>4. Parsed(e, e, newCount')
      BY <1>1, <1>14
    <2> QED BY <2>1, <2>2, <2>3, <2>4, BufferMakes
  <1>16. Frames' = FramesTo(e)
    BY <1>15, DefinedBySource DEF Frames, FramesTo
  <1>17. chC' = Append(chC, FrameMsg(e))
    <2>1. e - Stream[e].size + 1 = Position + 1
      BY <1>0, <1>5, <1>7, <1>8
    <2>2. Texts(e) - 1 = newCount
      BY <1>10 DEF Buffer
    <2>3. FrameMsg(e) = [buf |-> SubSeq(bufOut, 1, z), idx |-> newCount]
      BY <1>13, <2>1, <2>2 DEF FrameMsg
    <2> QED BY <1>1, <1>4, <2>3
  <1> QED BY <1>1, <1>10, <1>11, <1>15, <1>16, <1>17

\* The next segment was taken: it is in its place, too.
LEMMA ResegTakeFacts ==
  ASSUME Control, Upstream, Buffer, source' = source, ResegTake
  PROVE  Buffer' /\ Position' = Position /\ newCount' = newCount
  <1>0. /\ source \in Sources /\ NChunks \in Nat \ {0} /\ Stream \in Seq(Units)
        /\ Taken \in 0..Len(Stream) /\ Position \in 0..Taken
        /\ Len(bufOut) = Taken - Position /\ bufOut \in Seq(Units)
        /\ outIndex \in 0..NChunks
    BY BufferFacts
  <1>1. PICK m \in rPending : m.idx = outIndex /\ bufOut' = bufOut \o m.buf
    BY DEF ResegTake
  <1>2. /\ rpc' = "parse" /\ outIndex' = outIndex + 1
        /\ newCount' = newCount /\ chunkLen' = chunkLen
    BY DEF ResegTake
  <1>3. /\ outIndex \in 0..(NChunks - 1) /\ m.buf = source[outIndex + 1].data
        /\ source[outIndex + 1].num = outIndex
        /\ source[outIndex + 1].last = (outIndex + 1 = NChunks)
    BY <1>0, <1>1, MessageFacts DEF Upstream
  <1>4. PICK n \in 1..NChunks : n = outIndex + 1
    BY <1>0, <1>3
  <1>5. /\ Place(n) \in 0..Len(Stream) /\ m.buf \in Seq(Units)
        /\ Place(n) = Taken + Len(m.buf)
        /\ SubSeq(Stream, Taken + 1, Place(n)) = m.buf
    <2>1. n \in 0..NChunks
      BY <1>0
    <2>2. Place(n) \in 0..Len(Stream)
      BY <1>0, <2>1, StreamFacts
    <2>3. /\ source[n].data \in Seq(Units)
          /\ Place(n) = Place(outIndex) + Len(source[n].data)
          /\ SubSeq(Stream, Place(outIndex) + 1, Place(n)) = source[n].data
      BY <1>0, <1>3, <1>4, StreamFacts
    <2>4. m.buf = source[n].data
      BY <1>3, <1>4
    <2> QED BY <2>2, <2>3, <2>4 DEF Taken
  <1>6. Taken \in 0..Place(n)
    BY <1>0, <1>5
  <1>7. /\ bufOut' = SubSeq(Stream, Position + 1, Place(n))
        /\ Len(bufOut') = Place(n) - Position
    <2>1. bufOut = SubSeq(Stream, Position + 1, Taken)
      BY DEF Buffer
    <2>2. SubSeq(Stream, Position + 1, Taken) \o SubSeq(Stream, Taken + 1, Place(n))
            = SubSeq(Stream, Position + 1, Place(n))
      BY <1>0, <1>5, <1>6, AppendPiece
    <2>3. bufOut' = SubSeq(Stream, Position + 1, Place(n))
      BY <1>1, <1>5, <2>1, <2>2
    <2>4. Position \in 0..Place(n)
      BY <1>0, <1>5, <1>6
    <2>5. PICK c \in 0..Len(Stream) : c = Place(n)
      BY <1>5
    <2>6. PICK a \in 0..c : a = Position
      BY <2>4, <2>5
    <2>7. Len(SubSeq(Stream, a + 1, c)) = c - a
      BY ONLY <1>0, <2>5, <2>6, PieceFacts
    <2> QED BY <2>3, <2>5, <2>6, <2>7
  <1>8. InPlace(source, n)
    <2>1. InPlace(source, outIndex)
      BY DEF Buffer
    <2>2. \A i \in 1..n : i \in 1..outIndex \/ i = n
      BY <1>0, <1>4
    <2>3. n - 1 = outIndex
      BY <1>0, <1>4
    <2>4. source[n].num = n - 1 /\ source[n].last = (n = Len(source))
      BY <1>3, <1>4, <2>3 DEF NChunks
    <2> QED BY <2>1, <2>2, <2>4 DEF InPlace
  <1>9. /\ rpc' \in {"recv", "drain", "parse", "ended"} /\ rpc' \notin {"recv", "drain"}
        /\ outIndex' \in 0..NChunks /\ newCount' \in Nat /\ InPlace(source, outIndex')
    BY <1>0, <1>2, <1>4, <1>8 DEF Buffer
  <1>10. /\ Len(bufOut') \in 0..Place(outIndex')
         /\ Position = Place(outIndex') - Len(bufOut')
         /\ bufOut' = SubSeq(Stream, Position + 1, Place(outIndex'))
    <2>1. outIndex' = n
      BY <1>2, <1>4
    <2>2. /\ Len(bufOut') \in 0..Place(n) /\ Position = Place(n) - Len(bufOut')
          /\ bufOut' = SubSeq(Stream, Position + 1, Place(n))
      BY <1>0, <1>5, <1>6, <1>7
    <2> QED BY ONLY <2>1, <2>2
  <1>11. /\ Behind = Position - (IF chunkLen' # NoLength THEN LenSize ELSE 0)
         /\ chunkLen' # NoLength => chunkLen' = Stream[Behind + 1].size
         /\ Parsed(Position, Behind, newCount')
    BY <1>2 DEF Buffer, Behind, LengthKnown
  <1>12. PICK p, b : p = Position /\ b = Behind
    OBVIOUS
  <1> QED BY <1>2, <1>9, <1>10, <1>11, <1>12, BufferMakes

\* What was parsed stays so, and what is parsed is new.
Grown ==
  /\ newCount \in Nat /\ newCount' \in Nat /\ newCount <= newCount'
  /\ Frames \subseteq Frames'
  /\ \A i \in Frames' \ Frames : Texts(i) > newCount

LEMMA BufferStep ==
  ASSUME Control, Upstream, Buffer, [Next]_vars
  PROVE  Buffer' /\ Grown
  <1>0. /\ source' = source /\ source \in Sources
        /\ Decryptors \subseteq Workers /\ Decompressors \subseteq Workers
        /\ newCount \in Nat
    BY SourceFixed, ThreadFacts DEF Control, Buffer
  <1>1. ASSUME Buffer', Position' = Position, newCount' = newCount
        PROVE  Buffer' /\ Grown
    <2>1. Frames' = Frames
      BY <1>0, <1>1, DefinedBySource DEF Frames, FramesTo
    <2> QED BY <1>0, <1>1, <2>1 DEF Grown
  <1>2. CASE UNCHANGED <<rpc, outIndex, bufOut, chunkLen, newCount>>
    <2>1. Buffer' /\ Position' = Position
      BY <1>0, <1>2, BufferKept DEF Buffer
    <2> QED BY <1>1, <1>2, <2>1
  <1>3. CASE Main \/ Writer
    BY <1>2, <1>3, MainAndWriterKeep
  <1>4. ASSUME NEW t \in Workers, DecryptNext(t) \/ DecompressNext(t)
        PROVE  Buffer' /\ Grown
    BY <1>2, <1>4, WorkerKeeps
  <1>5. CASE ResegRecv \/ ResegDrained \/ ParseMore \/ ResegRecvClosed \/ ResegSendClosed
    <2>1. /\ UNCHANGED <<outIndex, bufOut, chunkLen, newCount>>
          /\ rpc' \in {"recv", "drain", "parse", "ended"}
          /\ rpc' \in {"recv", "drain"} =>
               Len(bufOut) < (IF LengthKnown THEN chunkLen ELSE LenSize)
      BY <1>5 DEF ResegRecv, ResegDrained, ParseMore, ResegRecvClosed, ResegSendClosed,
         ResegEnd, Reseg, Buffer
    <2>2. Buffer' /\ Position' = Position
      BY <1>0, <2>1, BufferKept
    <2> QED BY <1>1, <2>1, <2>2
  <1>6. CASE ResegTake
    BY <1>0, <1>1, <1>6, ResegTakeFacts
  <1>7. CASE ParseLength
    <2>1. /\ Buffer' /\ Position' = Position + LenSize /\ newCount' = newCount
          /\ \A i \in Frames' : i \in Frames
      BY <1>0, <1>7, ParseLengthFacts
    <2>2. Frames \subseteq Frames'
      <3>1. Position \in Nat /\ LenSize \in Nat
        BY BufferFacts
      <3>2. \A i \in 1..Position : i \in 1..Position'
        BY <2>1, <3>1
      <3> QED BY <1>0, <3>2, DefinedBySource DEF Frames, FramesTo
    <2> QED BY <1>0, <2>1, <2>2 DEF Grown
  <1>8. CASE ParseFrame
    <2>1. PICK e \in Frames' : Texts(e) = newCount + 1 /\ Frames' = Frames \cup {e}
      BY <1>0, <1>8, ParseFrameFacts
    <2>2. Buffer' /\ newCount' = newCount + 1
      BY <1>0, <1>8, ParseFrameFacts
    <2> QED BY <1>0, <2>1, <2>2 DEF Grown
  <1>9. CASE UNCHANGED vars
    BY <1>2, <1>9 DEF vars, pipeVars, resegVars
  <1> QED BY <1>0, <1>3, <1>4, <1>5, <1>6, <1>7, <1>8, <1>9 DEF Next, Exited, ResegNext

-----------------------------------------------------------------------------
(* Behind the resegmentation thread.                                       *)

LEMMA MessagesGrow ==
  ASSUME source' = source, Grown
  PROVE  /\ FrameMsgs \subseteq FrameMsgs' /\ TextMsgs \subseteq TextMsgs'
         /\ GoodFrames \subseteq GoodFrames'
         /\ \A i \in Frames' : FrameMsg(i) \in FrameMsgs'
  <1>1. \A i : (FrameMsg(i))' = FrameMsg(i) /\ (TextMsg(i))' = TextMsg(i)
    BY DefinedBySource
  <1>2. Frames \subseteq Frames'
    BY DEF Grown
  <1>3. GoodFrames \subseteq GoodFrames'
    BY <1>1, <1>2 DEF GoodFrames
  <1> QED BY <1>1, <1>2, <1>3 DEF FrameMsgs, TextMsgs

\* What was sent to the writer so far is good as far as it was written.
LEMMA WrittenGood ==
  ASSUME Downstream, source' = source, Grown, writeIndex' = writeIndex
  PROVE  /\ writeIndex' \in 0..newCount'
         /\ \A i \in Frames' : (Texts(i))' <= writeIndex' => i \in GoodFrames'
  <1>1. writeIndex \in 0..newCount /\ \A i : (Texts(i))' = Texts(i)
    BY DefinedBySource DEF Downstream
  <1>2. ASSUME NEW i \in Frames', (Texts(i))' <= writeIndex'
        PROVE  i \in GoodFrames'
    <2>1. Texts(i) <= writeIndex
      BY <1>1, <1>2
    <2>2. i \in Frames
      <3>1. CASE i \notin Frames
        <4>1. Texts(i) > newCount
          BY <1>2, <3>1 DEF Grown
        <4>2. Texts(i) \in Nat
          BY DEF Texts
        <4> QED BY <1>1, <2>1, <4>1, <4>2 DEF Grown
      <3> QED BY <3>1
    <2>3. i \in GoodFrames
      BY <2>1, <2>2 DEF Downstream
    <2> QED BY <2>3, MessagesGrow
  <1> QED BY <1>1, <1>2 DEF Grown

LEMMA DownstreamKept ==
  ASSUME Downstream, source' = source, Grown, UNCHANGED <<chC, chOut, writeIndex, written>>,
         pending' \subseteq pending,
         \A t \in Decompressors : ending'[t] = "running" =>
           ending[t] = "running" /\ stage'[t] = stage[t] /\ hold'[t] = hold[t]
  PROVE  Downstream'
  <1>1. FrameMsgs \subseteq FrameMsgs' /\ TextMsgs \subseteq TextMsgs'
    BY MessagesGrow
  <1>2. chC' \in Seq(FrameMsgs') /\ chOut' \in Seq(TextMsgs')
    BY <1>1, SeqMonotonic DEF Downstream
  <1>3. /\ writeIndex' \in 0..newCount'
        /\ \A i \in Frames' : (Texts(i))' <= writeIndex' => i \in GoodFrames'
    BY WrittenGood
  <1>4. written' = SubSeq(Contents', 1, writeIndex')
    BY DefinedBySource DEF Downstream
  <1>5. pending' \subseteq TextMsgs'
    BY <1>1 DEF Downstream
  <1>6. \A t \in Decompressors : ending'[t] = "running" =>
          /\ stage'[t] = "work" => hold'[t] \in FrameMsgs'
          /\ stage'[t] = "send" => hold'[t] \in TextMsgs'
    BY <1>1 DEF Downstream
  <1> QED BY <1>2, <1>3, <1>4, <1>5, <1>6 DEF Downstream

\* The chunk that is written is the next one.
LEMMA WriteFacts ==
  ASSUME Control, Buffer, Downstream, NEW m \in pending, m.idx = writeIndex
  PROVE  /\ writeIndex \in 0..(newCount - 1) /\ newCount \in 0..Len(Contents)
         /\ Contents \in Seq(AllTexts) /\ m.buf = Contents[writeIndex + 1]
         /\ \A i \in Frames : Texts(i) = writeIndex + 1 => i \in GoodFrames
  <1>1. PICK i \in GoodFrames : m = TextMsg(i)
    BY DEF Downstream, TextMsgs
  <1>2. /\ source \in Sources /\ Stream \in Seq(Units)
        /\ Taken \in 0..Len(Stream) /\ Position \in 0..Taken
        /\ newCount \in Nat /\ Texts(Position) = newCount /\ writeIndex \in Nat
    <2>1. newCount \in Nat /\ Texts(Position) = newCount
      BY DEF Buffer, Parsed
    <2>2. writeIndex \in 0..newCount
      BY DEF Downstream
    <2> QED BY <2>1, <2>2, BufferFacts
  <1>3. /\ i \in 1..Position /\ EndsFrame(Stream[i])
        /\ \A j \in Frames : j \in 1..Len(Stream) /\ EndsFrame(Stream[j])
    BY <1>2 DEF GoodFrames, Frames, FramesTo
  <1>4. m.idx = Texts(i) - 1 /\ m.buf = Text(Stream[i].chunk)
    BY <1>1 DEF TextMsg
  <1>5. i \in 1..Len(Stream) /\ Position \in 0..Len(Stream) /\ i \in 0..Position
    BY <1>2, <1>3
  <1>6. /\ Contents \in Seq(AllTexts) /\ Texts(i) \in 0..Len(Contents)
        /\ Contents[Texts(i)] = Text(Stream[i].chunk)
        /\ Texts(i) <= Texts(Position) /\ Texts(Position) \in 0..Len(Contents)
    <2>1. i \in 0..Len(Stream)
      BY <1>5
    <2> QED BY <1>2, <1>3, <1>5, <2>1, TextFacts
  <1>7. Texts(i) = writeIndex + 1
    BY <1>2, <1>4, <1>6
  <1>8. \A j \in Frames : Texts(j) = writeIndex + 1 => j = i
    BY <1>2, <1>3, <1>5, <1>7, FrameEnds
  <1> QED BY <1>1, <1>2, <1>4, <1>6, <1>7, <1>8

\* The frame that ends at i, and its content.
Start(i)   == i - Size(i)
Content(i) == SubSeq(Stream, i - Stream[i].size + 1, i)

LEMMA FrameContent ==
  ASSUME Control, Buffer, NEW i \in Frames
  PROVE  /\ Stream[i].size \in Nat \ {0} /\ Start(i) \in 0..(Taken - 1)
         /\ i = Start(i) + LenSize + Stream[i].size
         /\ Position \in 0..Len(Stream) /\ i \in 1..Position
         /\ Content(i) \in Seq(Units) /\ Len(Content(i)) = Stream[i].size
         /\ \A j \in 1..Stream[i].size :
              /\ Content(i)[j] = Stream[Start(i) + LenSize + j]
              /\ Content(i)[j] = [chunk |-> Content(i)[j].chunk, pos |-> LenSize + j,
                                  size |-> Stream[i].size]
              /\ Content(i)[j].chunk \in {Stream[Start(i) + 1].chunk, NoChunk}
         /\ Stream[Start(i) + 1].chunk # NoChunk
         /\ \A k \in (Start(i) + 1)..(Start(i) + LenSize) :
              Stream[k].chunk = Stream[Start(i) + 1].chunk
  <1>0. PICK z, b, u : z = Stream[i].size /\ b = Start(i) /\ u = Content(i)
    OBVIOUS
  <1>1. /\ LenSize \in Nat \ {0} /\ Stream \in Seq(Units)
        /\ Taken \in 0..Len(Stream) /\ Position \in 0..Taken
    BY BufferFacts
  <1>2. i \in 1..Position
    BY DEF Frames, FramesTo
  <1>3. /\ z \in Nat /\ Size(i) = LenSize + z /\ Size(i) <= i /\ Border(b)
        /\ Stream[b + 1].size = z
    BY <1>0 DEF Buffer, Parsed, Frames, Size, Start
  <1>4. /\ b \in 0..(Taken - 1) /\ i = b + LenSize + z /\ i = b + (LenSize + z)
        /\ i \in (b + 1)..Taken
    <2>1. PICK y \in Nat : y = LenSize + z
      BY <1>1, <1>3
    <2>2. b = i - y /\ y <= i /\ y >= 1
      <3>1. y >= 1
        BY ONLY <1>1, <1>3, <2>1
      <3>2. b = i - y
        BY <1>0, <1>3, <2>1 DEF Start
      <3> QED BY <1>3, <2>1, <3>1, <3>2
    <2>3. b \in 0..(Taken - 1) /\ i = b + y /\ i \in (b + 1)..Taken
      BY <1>1, <1>2, <2>2
    <2> QED BY <1>1, <1>3, <2>1, <2>3
  <1>5. Size(b + 1) = LenSize + z
    BY <1>3 DEF Size
  <1>6. /\ Stream[b + 1].chunk # NoChunk
        /\ \A k \in (b + 1)..Taken : k <= b + (LenSize + z) =>
             /\ Stream[k] = [chunk |-> Stream[k].chunk, pos |-> k - b, size |-> z]
             /\ Stream[k].chunk
                  \in {Stream[b + 1].chunk} \cup (IF k > b + LenSize THEN {NoChunk} ELSE {})
    BY <1>3, <1>4, <1>5, FrameUnits
  <1>10. z \in Nat \ {0}
    BY <1>3, <1>4, FrameUnits
  <1>11. PICK t \in Nat : t = Taken
    BY <1>1
  <1>12. /\ b \in Nat /\ z \in Nat \ {0} /\ LenSize \in Nat \ {0} /\ i \in Nat
         /\ i = b + LenSize + z /\ i <= t
    BY <1>1, <1>4, <1>10, <1>11
  <1>7. /\ u \in Seq(Units) /\ Len(u) = z
        /\ \A j \in 1..z : u[j] = Stream[b + LenSize + j]
    <2>1. PICK a \in 0..i : a = i - z
      BY ONLY <1>12
    <2>2. PICK n \in 0..Len(Stream) : n = i
      BY <1>1, <1>2
    <2>3. /\ SubSeq(Stream, a + 1, n) \in Seq(Units) /\ Len(SubSeq(Stream, a + 1, n)) = n - a
          /\ \A j \in 1..(n - a) : SubSeq(Stream, a + 1, n)[j] = Stream[a + j]
      <3>1. a \in 0..n
        BY <2>1, <2>2
      <3> QED BY ONLY <1>1, n \in 0..Len(Stream), <3>1, PieceFacts
    <2>4. n - a = z /\ a = b + LenSize /\ i - z + 1 = a + 1
      BY ONLY <1>12, <2>1, <2>2
    <2>5. u = SubSeq(Stream, a + 1, n)
      BY <1>0, <2>2, <2>4 DEF Content
    <2> QED BY <2>3, <2>4, <2>5
  <1>8. ASSUME NEW j \in 1..z
        PROVE  /\ u[j] = [chunk |-> u[j].chunk, pos |-> LenSize + j, size |-> z]
               /\ u[j].chunk \in {Stream[b + 1].chunk, NoChunk}
    <2>0. b + LenSize + j \in (b + 1)..t
      BY ONLY <1>12, j \in 1..z, t \in Nat
    <2>1. PICK k \in (b + 1)..t : k = b + LenSize + j
      BY ONLY <2>0
    <2>2. k <= b + (LenSize + z) /\ k - b = LenSize + j /\ k \in (b + 1)..Taken
      BY ONLY <1>11, <1>12, <2>1, j \in 1..z, k \in (b + 1)..t
    <2>3. /\ Stream[k] = [chunk |-> Stream[k].chunk, pos |-> k - b, size |-> z]
          /\ Stream[k].chunk \in {Stream[b + 1].chunk, NoChunk}
      BY <1>6, <2>2
    <2> QED BY <1>7, <2>1, <2>2, <2>3
  <1>9. \A k \in (b + 1)..(b + LenSize) : Stream[k].chunk = Stream[b + 1].chunk
    <2>1. \A k \in (b + 1)..(b + LenSize) :
            k \in (b + 1)..Taken /\ k <= b + (LenSize + z) /\ ~(k > b + LenSize)
      BY ONLY <1>11, <1>12
    <2> QED BY <1>6, <2>1
  <1>13. Position \in 0..Len(Stream)
    BY <1>1
  <1> QED BY ONLY <1>0, <1>2, <1>4, <1>6, <1>7, <1>8, <1>9, <1>10, <1>13

\* The decompressor's check is whether the content was damaged.
LEMMA GoodContent ==
  ASSUME Control, Buffer, NEW i \in Frames, NEW u, u = FrameMsg(i).buf
  PROVE  /\ i \in GoodFrames => u[1].chunk = Stream[i].chunk
         /\ i \in GoodFrames => \A k \in (i - Size(i) + 1)..i : Stream[k].chunk # NoChunk
         /\ Sound => i \in GoodFrames
  <1>1. PICK z, b : z = Stream[i].size /\ b = Start(i)
    OBVIOUS
  <1>2. u = Content(i)
    BY DEF FrameMsg, Content
  <1>3. /\ z \in Nat \ {0} /\ b \in 0..(Taken - 1) /\ i = b + LenSize + z
        /\ Position \in 0..Len(Stream) /\ i \in 1..Position
        /\ u \in Seq(Units) /\ Len(u) = z
        /\ \A j \in 1..z : /\ u[j] = Stream[b + LenSize + j]
                           /\ u[j] = [chunk |-> u[j].chunk, pos |-> LenSize + j, size |-> z]
                           /\ u[j].chunk \in {Stream[b + 1].chunk, NoChunk}
        /\ Stream[b + 1].chunk # NoChunk
        /\ \A k \in (b + 1)..(b + LenSize) : Stream[k].chunk = Stream[b + 1].chunk
    BY <1>1, <1>2, FrameContent
  <1>4. /\ b \in Nat /\ LenSize \in Nat \ {0} /\ Stream \in Seq(Units) /\ 1 \in 1..z /\ z \in 1..z
        /\ u # <<>>
    <2>1. 1 \in 1..z /\ z \in 1..z /\ u # <<>> /\ b \in Nat
      BY ONLY <1>3
    <2> QED BY <2>1, BufferFacts
  <1>5. ASSUME i \in GoodFrames
        PROVE  u[1].chunk # NoChunk /\ \A j \in 1..z : u[j].chunk = u[1].chunk
    <2>1. u[1].chunk # NoChunk /\ u = Compress(Chunk(u[1].chunk, u[1].size))
      BY <1>5 DEF GoodFrames, Compressed
    <2>2. PICK c : c = u[1].chunk
      OBVIOUS
    <2>4. u[1].size = z
      <3>1. u[1] = [chunk |-> u[1].chunk, pos |-> LenSize + 1, size |-> z]
        BY <1>3, <1>4
      <3> QED BY ONLY <3>1
    <2>5. PICK w : w = Compress(Chunk(c, z)) /\ w = u
      BY <2>1, <2>2, <2>4
    <2>3. \A j \in 1..z : w[j].chunk = c
      BY <2>5 DEF Compress, Chunk
    <2> QED BY <2>1, <2>2, <2>3, <2>5
  <1>6. i \in GoodFrames => u[1].chunk = Stream[i].chunk
    BY <1>3, <1>4, <1>5
  <1>7. ASSUME i \in GoodFrames, NEW k \in (b + 1)..i
        PROVE  Stream[k].chunk # NoChunk
    <2>1. CASE k \in (b + 1)..(b + LenSize)
      BY <1>3, <2>1
    <2>2. CASE k \notin (b + 1)..(b + LenSize)
      <3>1. PICK j \in 1..z : k = b + LenSize + j
        <4>1. k - (b + LenSize) \in 1..z /\ k = b + LenSize + (k - (b + LenSize))
          BY <1>3, <1>4, <1>7, <2>2
        <4> QED BY <4>1
      <3> QED BY <1>3, <1>5, <1>7, <3>1
    <2> QED BY <2>1, <2>2
  <1>8. ASSUME Sound
        PROVE  i \in GoodFrames
    <2>1. PICK c : c = Stream[b + 1].chunk
      OBVIOUS
    <2>2. \A j \in 1..z : u[j].chunk = c
      <3> TAKE j \in 1..z
      <3>1. b + LenSize + j \in 1..Len(Stream)
        BY <1>3, <1>4
      <3>2. Stream[b + LenSize + j].chunk # NoChunk
        BY <1>8, <3>1 DEF Sound
      <3> QED BY <1>3, <2>1, <3>2
    <2>3. u = Compress(Chunk(u[1].chunk, u[1].size))
      <3>1. PICK w : w = Compress(Chunk(c, z))
        OBVIOUS
      <3>2. w = [j \in 1..z |-> [chunk |-> c, pos |-> LenSize + j, size |-> z]]
        BY <3>1 DEF Compress, Chunk
      <3>3. \A j \in 1..z : u[j] = [chunk |-> c, pos |-> LenSize + j, size |-> z]
        <4> TAKE j \in 1..z
        <4>1. u[j] = [chunk |-> u[j].chunk, pos |-> LenSize + j, size |-> z] /\ u[j].chunk = c
          BY <1>3, <2>2
        <4> QED BY <4>1, Zenon
      <3>4. u = w
        BY <1>3, <3>2, <3>3
      <3>5. u[1] = [chunk |-> c, pos |-> LenSize + 1, size |-> z]
        BY <1>4, <3>3
      <3>6. u[1].chunk = c /\ u[1].size = z
        BY ONLY <3>5
      <3> QED BY ONLY <3>1, <3>4, <3>6
    <2>4. u[1].chunk # NoChunk
      BY <1>3, <1>4, <2>1, <2>2
    <2> QED BY <1>4, <2>3, <2>4 DEF GoodFrames, Compressed
  <1> QED BY <1>1, <1>6, <1>7, <1>8 DEF Start

LEMMA DownstreamStep ==
  ASSUME Control, Upstream, Buffer, Downstream, [Next]_vars
  PROVE  Downstream'
  <1>0. /\ Grown /\ source' = source /\ source \in Sources
        /\ Decryptors \subseteq Workers /\ Workers \subseteq Threads
        /\ Decompressors \subseteq Workers /\ Decryptors \cap Decompressors = {}
    BY BufferStep, SourceFixed, ThreadFacts DEF Control
  <1>1. /\ FrameMsgs \subseteq FrameMsgs' /\ TextMsgs \subseteq TextMsgs'
        /\ GoodFrames \subseteq GoodFrames' /\ Contents' = Contents
        /\ \A i : (Texts(i))' = Texts(i)
    BY <1>0, MessagesGrow, DefinedBySource
  <1>2. CASE Main
    BY <1>0, <1>2, MainAndWriterKeep, MainKeeps, DownstreamKept
  <1>3. CASE Writer
    <2>0. UNCHANGED <<chC, stage, hold, ending, newCount, outIndex, bufOut>>
      BY <1>3, MainAndWriterKeep
    <2>1. /\ chC' \in Seq(FrameMsgs') /\ chOut \in Seq(TextMsgs') /\ pending \subseteq TextMsgs'
          /\ \A t \in Decompressors : ending'[t] = "running" =>
               /\ stage'[t] = "work" => hold'[t] \in FrameMsgs'
               /\ stage'[t] = "send" => hold'[t] \in TextMsgs'
      BY <1>1, <2>0, SeqMonotonic DEF Downstream
    <2>2. CASE WriterRecv
      <3>1. Head(chOut) \in TextMsgs' /\ chOut' \in Seq(TextMsgs')
        BY <2>1, <2>2, RecvFacts DEF WriterRecv
      <3>2. pending' \subseteq TextMsgs' /\ UNCHANGED <<writeIndex, written>>
        BY <2>1, <2>2, <3>1 DEF WriterRecv
      <3>3. /\ writeIndex' \in 0..newCount'
            /\ \A i \in Frames' : (Texts(i))' <= writeIndex' => i \in GoodFrames'
            /\ written' = SubSeq(Contents', 1, writeIndex')
        BY <1>0, <1>1, <3>2, WrittenGood DEF Downstream
      <3> QED BY <2>1, <3>1, <3>2, <3>3 DEF Downstream
    <2>3. CASE WriterWrite
      <3>1. PICK m \in pending : /\ m.idx = writeIndex
                                 /\ written' = Append(written, m.buf)
                                 /\ pending' = pending \ {m}
        BY <2>3 DEF WriterWrite
      <3>2. /\ writeIndex \in 0..(newCount - 1) /\ newCount \in 0..Len(Contents)
            /\ Contents \in Seq(AllTexts) /\ m.buf = Contents[writeIndex + 1]
            /\ \A i \in Frames : Texts(i) = writeIndex + 1 => i \in GoodFrames
        BY <3>1, WriteFacts
      <3>3. writeIndex' = writeIndex + 1 /\ chOut' = chOut
        BY <2>3 DEF WriterWrite
      <3>4. written' = SubSeq(Contents', 1, writeIndex')
        <4>1. PICK c : c = Contents
          OBVIOUS
        <4>2. c \in Seq(AllTexts) /\ writeIndex \in 0..(Len(c) - 1)
          BY <3>2, <4>1
        <4>3. Append(SubSeq(c, 1, writeIndex), c[writeIndex + 1]) = SubSeq(c, 1, writeIndex + 1)
          BY <4>2
        <4> QED BY <1>1, <3>1, <3>2, <3>3, <4>1, <4>3 DEF Downstream
      <3>5. writeIndex' \in 0..newCount'
        BY <2>0, <3>2, <3>3
      <3>6. ASSUME NEW i \in Frames', (Texts(i))' <= writeIndex'
            PROVE  i \in GoodFrames'
        <4>1. Frames' = Frames
          <5>1. Position' = Position
            BY <1>0, <2>0, DefinedBySource DEF Position, Taken, Place
          <5> QED BY <1>0, <5>1, DefinedBySource DEF Frames, FramesTo
        <4>2. i \in Frames /\ Texts(i) <= writeIndex + 1 /\ Texts(i) \in Nat
          BY <1>1, <3>3, <3>6, <4>1 DEF Texts
        <4>3. Texts(i) = writeIndex + 1 \/ Texts(i) <= writeIndex
          BY <3>2, <4>2
        <4>4. i \in GoodFrames
          BY <3>2, <4>2, <4>3 DEF Downstream
        <4> QED BY <1>1, <4>4
      <3> QED BY <2>1, <3>1, <3>3, <3>4, <3>5, <3>6 DEF Downstream
    <2>4. CASE ~WriterRecv /\ ~WriterWrite
      <3>1. UNCHANGED <<chOut, writeIndex, written>> /\ pending' \subseteq pending
        BY <1>3, <2>4
        DEF Writer, WriterNext, WriterWriteError, WriterDrained, WriterRecvClosed,
            WriterOthers, WriterOthersError
      <3> QED BY <1>0, <2>0, <3>1, DownstreamKept
    <2> QED BY <2>2, <2>3, <2>4
  <1>4. CASE ResegNext
    <2>1. /\ UNCHANGED <<chOut, pending, writeIndex, written, stage, hold>>
          /\ \A t \in Decompressors : ending'[t] = ending[t]
      BY <1>0, <1>4, ResegKeeps
    <2>2. CASE chC' = chC
      BY <1>0, <2>1, <2>2, DownstreamKept
    <2>3. CASE ParseFrame
      <3>1. PICK e \in Frames' : chC' = Append(chC, FrameMsg(e))
        BY <1>0, <2>3, ParseFrameFacts
      <3>2. FrameMsg(e) \in FrameMsgs' /\ chC \in Seq(FrameMsgs')
        BY <1>0, <1>1, <3>1, MessagesGrow, SeqMonotonic DEF Downstream
      <3>3. chC' \in Seq(FrameMsgs')
        BY <3>1, <3>2, SendFacts
      <3>4. chOut' \in Seq(TextMsgs') /\ pending' \subseteq TextMsgs'
        BY <1>1, <2>1, SeqMonotonic DEF Downstream
      <3>5. /\ writeIndex' \in 0..newCount'
            /\ \A i \in Frames' : (Texts(i))' <= writeIndex' => i \in GoodFrames'
            /\ written' = SubSeq(Contents', 1, writeIndex')
        BY <1>0, <1>1, <2>1, WrittenGood DEF Downstream
      <3>6. \A t \in Decompressors : ending'[t] = "running" =>
              /\ stage'[t] = "work" => hold'[t] \in FrameMsgs'
              /\ stage'[t] = "send" => hold'[t] \in TextMsgs'
        BY <1>1, <2>1 DEF Downstream
      <3> QED BY <3>3, <3>4, <3>5, <3>6 DEF Downstream
    <2> QED BY <1>4, <2>2, <2>3
            DEF ResegNext, ResegRecv, ResegTake, ResegDrained, ParseLength, ParseMore,
                ResegRecvClosed, ResegSendClosed, ResegEnd
  <1>5. ASSUME NEW t \in Decryptors, DecryptNext(t)
        PROVE  Downstream'
    <2>1. UNCHANGED <<chC, chOut>>
      BY <1>5 DEF DecryptNext, DecryptRecv, DecryptRecvClosed, DecryptWork,
         DecryptError, DecryptSend, DecryptSendClosed, End
    <2>2. /\ t \in Workers /\ UNCHANGED <<pending, writeIndex, written>>
          /\ \A u \in Decompressors : /\ ending'[u] = ending[u]
                                      /\ hold'[u] = hold[u] /\ stage'[u] = stage[u]
      BY <1>0, <1>5, WorkerKeeps
    <2> QED BY <1>0, <2>1, <2>2, DownstreamKept
  <1>6. ASSUME NEW t \in Decompressors, DecompressNext(t)
        PROVE  Downstream'
    <2>0. /\ t \in Workers /\ t \in Threads /\ ending[t] = "running"
          /\ UNCHANGED <<pending, writeIndex, written>>
          /\ \A u \in Decompressors \ {t} : /\ ending'[u] = ending[u]
                                            /\ hold'[u] = hold[u] /\ stage'[u] = stage[u]
          /\ DOMAIN hold = Workers /\ DOMAIN stage = Workers /\ DOMAIN ending = Threads
      BY <1>0, <1>6, WorkerKeeps, ThreadFacts DEF Control
    <2>1. /\ writeIndex' \in 0..newCount' /\ pending' \subseteq TextMsgs'
          /\ \A i \in Frames' : (Texts(i))' <= writeIndex' => i \in GoodFrames'
          /\ written' = SubSeq(Contents', 1, writeIndex')
      BY <1>0, <1>1, <2>0, WrittenGood DEF Downstream
    <2>2. /\ chC \in Seq(FrameMsgs') /\ chOut \in Seq(TextMsgs')
          /\ \A u \in Decompressors \ {t} : ending'[u] = "running" =>
               /\ stage'[u] = "work" => hold'[u] \in FrameMsgs'
               /\ stage'[u] = "send" => hold'[u] \in TextMsgs'
      BY <1>1, <2>0, SeqMonotonic DEF Downstream
    <2>3. CASE DecompressRecv(t)
      <3>1. /\ Head(chC) \in FrameMsgs' /\ chC' \in Seq(FrameMsgs') /\ chOut' = chOut
            /\ hold'[t] = Head(chC) /\ stage'[t] = "work"
        BY <2>0, <2>2, <2>3, RecvFacts DEF DecompressRecv, Take
      <3> QED BY <2>0, <2>1, <2>2, <3>1 DEF Downstream
    <2>4. CASE DecompressWork(t)
      <3>1. /\ UNCHANGED <<chC, chOut>> /\ hold[t] \in FrameMsgs /\ stage'[t] = "send"
            /\ Compressed(hold[t].buf)
            /\ hold'[t] = [buf |-> Text(hold[t].buf[1].chunk), idx |-> hold[t].idx]
        BY <2>0, <2>4 DEF DecompressWork, Running, Done, Downstream
      <3>2. PICK i \in Frames : hold[t] = FrameMsg(i)
        BY <3>1 DEF FrameMsgs
      <3>3. i \in GoodFrames
        BY <3>1, <3>2 DEF GoodFrames
      <3>4. hold'[t] = TextMsg(i)
        <4>1. FrameMsg(i).buf[1].chunk = Stream[i].chunk
          BY <3>3, GoodContent
        <4>2. FrameMsg(i).idx = Texts(i) - 1
          BY DEF FrameMsg
        <4> QED BY <3>1, <3>2, <4>1, <4>2 DEF TextMsg
      <3>5. hold'[t] \in TextMsgs'
        BY <1>1, <3>3, <3>4 DEF TextMsgs
      <3> QED BY <2>0, <2>1, <2>2, <3>1, <3>5 DEF Downstream
    <2>5. CASE DecompressSend(t)
      <3>1. /\ chC' = chC /\ hold[t] \in TextMsgs' /\ stage'[t] = "recv"
            /\ chOut' = Append(chOut, hold[t])
        BY <1>1, <2>0, <2>5 DEF DecompressSend, Running, Sent, Downstream
      <3>2. chOut' \in Seq(TextMsgs')
        BY <2>2, <3>1, SendFacts
      <3> QED BY <2>0, <2>1, <2>2, <3>1, <3>2 DEF Downstream
    <2>6. CASE DecompressRecvClosed(t) \/ DecompressError(t) \/ DecompressSendClosed(t)
      <3>1. UNCHANGED <<chC, chOut>> /\ ending'[t] # "running"
        BY <2>0, <2>6 DEF DecompressRecvClosed, DecompressError, DecompressSendClosed, End
      <3> QED BY <1>0, <2>0, <3>1, DownstreamKept
    <2> QED BY <1>6, <2>3, <2>4, <2>5, <2>6 DEF DecompressNext
  <1>7. CASE UNCHANGED vars
    BY <1>0, <1>7, DownstreamKept DEF vars, ioVars, pipeVars
  <1> QED BY <1>2, <1>3, <1>4, <1>5, <1>6, <1>7 DEF Next, Exited

-----------------------------------------------------------------------------
(* What the control states say of one another.                             *)

LEMMA ControlStep ==
  ASSUME Control, Buffer, [Next]_vars
  PROVE  Control'
  <1> USE DecryptAssumption DEF Control, Failed, Ended, TxInOpen
  <1>0. /\ NChunks \in Nat \ {0} /\ NHandles \in Nat \ {0}
        /\ source' = source /\ NChunks' = NChunks
        /\ Threads = Decryptors \cup Decompressors \cup {Resegmenter}
        /\ Workers = Decryptors \cup Decompressors
        /\ Resegmenter \notin Workers /\ Decryptors \cap Decompressors = {}
        /\ Decryptors # {} /\ Decompressors # {}
    BY SourceFixed, DefinedBySource, SourceLength, IoAssumption, ThreadFacts
  <1>1. CASE MainRead /\ UNCHANGED pipeVars
    BY <1>0, <1>1 DEF MainRead, writerVars, pipeVars, resegVars
  <1>2. CASE MainReadError /\ UNCHANGED pipeVars
    BY <1>0, <1>2 DEF MainReadError, Return, writerVars, pipeVars, resegVars
  <1>3. CASE MainSend /\ UNCHANGED pipeVars
    BY <1>0, <1>3 DEF MainSend, SendChunk, IsFinal, writerVars, pipeVars, resegVars
  <1>4. CASE MainProgressError /\ UNCHANGED pipeVars
    BY <1>0, <1>4 DEF MainProgressError, SendChunk, Return, writerVars, pipeVars, resegVars
  <1>5. CASE MainSendClosed /\ UNCHANGED pipeVars
    BY <1>0, <1>5 DEF MainSendClosed, RxInOpen, writerVars, pipeVars, resegVars
  <1>6. CASE MainJoinWriter /\ UNCHANGED pipeVars
    BY <1>0, <1>6 DEF MainJoinWriter, Return, WriterRuns, writerVars, pipeVars, resegVars
  <1>7. CASE MainJoinCrypt /\ UNCHANGED pipeVars
    BY <1>0, <1>7 DEF MainJoinCrypt, Return, Threads, writerVars, pipeVars, resegVars
  <1>8. CASE MainOk /\ UNCHANGED pipeVars
    BY <1>0, <1>8 DEF MainOk, Return, Threads, writerVars, pipeVars, resegVars
  <1>9. CASE MainExit /\ UNCHANGED pipeVars
    BY <1>0, <1>9 DEF MainExit, writerVars, pipeVars, resegVars
  <1>10. CASE WriterRecv /\ UNCHANGED pipeVars
    BY <1>0, <1>10 DEF WriterRecv, mainVars, pipeVars, resegVars
  <1>11. CASE WriterWrite /\ UNCHANGED pipeVars
    BY <1>0, <1>11 DEF WriterWrite, mainVars, pipeVars, resegVars
  <1>12. CASE WriterWriteError /\ UNCHANGED pipeVars
    BY <1>0, <1>12 DEF WriterWriteError, mainVars, pipeVars, resegVars
  <1>13. CASE WriterDrained /\ UNCHANGED pipeVars
    BY <1>0, <1>13 DEF WriterDrained, Waiting, mainVars, pipeVars, resegVars
  <1>14. CASE WriterRecvClosed /\ UNCHANGED pipeVars
    BY <1>0, <1>14 DEF WriterRecvClosed, TxOutOpen, mainVars, pipeVars, resegVars
  <1>15. CASE WriterOthers /\ UNCHANGED pipeVars
    BY <1>0, <1>15 DEF WriterOthers, mainVars, pipeVars, resegVars
  <1>16. CASE WriterOthersError /\ UNCHANGED pipeVars
    BY <1>0, <1>16 DEF WriterOthersError, mainVars, pipeVars, resegVars
  <1>17. CASE ResegRecv
    BY <1>0, <1>17 DEF ResegRecv, Reseg, ioVars, mainVars, writerVars
  <1>18. CASE ResegTake
    BY <1>0, <1>18 DEF ResegTake, Reseg, ioVars, mainVars, writerVars
  <1>19. CASE ResegDrained
    BY <1>0, <1>19 DEF ResegDrained, Waiting, Reseg, ioVars, mainVars, writerVars
  <1>20. CASE ParseLength
    BY <1>0, <1>20 DEF ParseLength, Reseg, ioVars, mainVars, writerVars
  <1>21. CASE ParseFrame
    BY <1>0, <1>21 DEF ParseFrame, FrameReady, Reseg, ioVars, mainVars, writerVars
  <1>22. CASE ParseMore
    BY <1>0, <1>22 DEF ParseMore, Reseg, ioVars, mainVars, writerVars
  <1>23. CASE ResegRecvClosed
    BY <1>0, <1>23 DEF ResegRecvClosed, ResegEnd, TxEOpen, Reseg, ioVars, mainVars, writerVars
  <1>24. CASE ResegSendClosed
    BY <1>0, <1>24 DEF ResegSendClosed, ResegEnd, FrameReady, Reseg, ioVars, mainVars, writerVars
  <1>26. ASSUME NEW t \in Decryptors, DecryptRecv(t)
        PROVE  Control'
    BY <1>0, <1>26 DEF DecryptRecv, Running, Take, mainVars, writerVars, resegVars
  <1>27. ASSUME NEW t \in Decryptors, DecryptRecvClosed(t)
        PROVE  Control'
    BY <1>0, <1>27 DEF DecryptRecvClosed, Running, End, TxCOpen, mainVars, writerVars, resegVars
  <1>28. ASSUME NEW t \in Decryptors, DecryptWork(t)
        PROVE  Control'
    BY <1>0, <1>28 DEF DecryptWork, Running, Done, mainVars, writerVars, resegVars
  <1>29. ASSUME NEW t \in Decryptors, DecryptError(t)
        PROVE  Control'
    BY <1>0, <1>29 DEF DecryptError, Running, End, mainVars, writerVars, resegVars
  <1>30. ASSUME NEW t \in Decryptors, DecryptSend(t)
        PROVE  Control'
    BY <1>0, <1>30 DEF DecryptSend, Running, Sent, mainVars, writerVars, resegVars
  <1>31. ASSUME NEW t \in Decryptors, DecryptSendClosed(t)
        PROVE  Control'
    BY <1>0, <1>31 DEF DecryptSendClosed, Running, End, RxEOpen, RxOutOpen, mainVars, writerVars, resegVars
  <1>32. ASSUME NEW t \in Decompressors, DecompressRecv(t)
        PROVE  Control'
    BY <1>0, <1>32 DEF DecompressRecv, Running, Take, mainVars, writerVars, resegVars
  <1>33. ASSUME NEW t \in Decompressors, DecompressRecvClosed(t)
        PROVE  Control'
    BY <1>0, <1>33 DEF DecompressRecvClosed, Running, End, TxCOpen, mainVars, writerVars, resegVars
  <1>34. ASSUME NEW t \in Decompressors, DecompressWork(t)
        PROVE  Control'
    BY <1>0, <1>34 DEF DecompressWork, Running, Done, mainVars, writerVars, resegVars
  <1>35. ASSUME NEW t \in Decompressors, DecompressError(t)
        PROVE  Control'
    BY <1>0, <1>35 DEF DecompressError, Running, End, mainVars, writerVars, resegVars
  <1>36. ASSUME NEW t \in Decompressors, DecompressSend(t)
        PROVE  Control'
    BY <1>0, <1>36 DEF DecompressSend, Running, Sent, mainVars, writerVars, resegVars
  <1>37. ASSUME NEW t \in Decompressors, DecompressSendClosed(t)
        PROVE  Control'
    BY <1>0, <1>37 DEF DecompressSendClosed, Running, End, RxEOpen, RxOutOpen, mainVars, writerVars, resegVars
  <1>38. CASE UNCHANGED vars
    BY <1>0, <1>38 DEF vars, ioVars, pipeVars, resegVars
  <1> QED
    BY <1>1, <1>2, <1>3, <1>4, <1>5, <1>6, <1>7, <1>8, <1>9, <1>10, <1>11, <1>12,
       <1>13, <1>14, <1>15, <1>16, <1>17, <1>18, <1>19, <1>20, <1>21, <1>22, <1>23,
       <1>24, <1>26, <1>27, <1>28, <1>29, <1>30, <1>31, <1>32, <1>33, <1>34,
       <1>35, <1>36, <1>37, <1>38
    DEF Next, Exited, Main, MainNext, Writer, WriterNext, ResegNext, DecryptNext, DecompressNext

-----------------------------------------------------------------------------
(* As long as no thread failed, nothing is lost.                           *)

LEMMA FailureStays ==
  ASSUME Control, Failed, [Next]_vars
  PROVE  Failed'
  <1>0. /\ Decryptors \subseteq Workers /\ Decompressors \subseteq Workers
        /\ Threads = Workers \cup {Resegmenter}
    BY ThreadFacts
  <1>1. CASE wpc = "err"
    <2>1. wpc' = wpc
      <3>1. CASE Main
        BY <3>1, MainKeeps
      <3>2. CASE Writer
        BY <1>1, <3>2 DEF Writer, WriterNext, WriterRecv, WriterWrite, WriterWriteError,
           WriterDrained, WriterRecvClosed, WriterOthers, WriterOthersError
      <3>3. CASE ResegNext
        BY <3>3, ResegKeeps
      <3>4. ASSUME NEW t \in Workers, DecryptNext(t) \/ DecompressNext(t)
            PROVE  wpc' = wpc
        BY <3>4, WorkerKeeps
      <3>5. CASE UNCHANGED vars
        BY <3>5 DEF vars, ioVars
      <3> QED BY <1>0, <3>1, <3>2, <3>3, <3>4, <3>5 DEF Next, Exited
    <2> QED BY <1>1, <2>1 DEF Failed
  <1>2. ASSUME NEW u \in Threads, ending[u] = "err"
        PROVE  Failed'
    <2>1. ending'[u] = ending[u]
      <3>1. CASE Main \/ Writer
        BY <3>1, MainAndWriterKeep
      <3>2. CASE ResegNext
        BY <1>0, <1>2, <3>2, ResegKeeps
      <3>3. ASSUME NEW t \in Workers, DecryptNext(t) \/ DecompressNext(t)
            PROVE  ending'[u] = ending[u]
        BY <1>2, <3>3, WorkerKeeps
      <3>4. CASE UNCHANGED vars
        BY <3>4 DEF vars, ioVars
      <3> QED BY <1>0, <3>1, <3>2, <3>3, <3>4 DEF Next, Exited
    <2> QED BY <1>2, <2>1 DEF Failed
  <1> QED BY <1>1, <1>2 DEF Failed

\* What a worker's step does to the numbers in hand.
LEMMA HandFacts ==
  ASSUME NEW T, NEW t \in T,
         \A u \in T \ {t} : /\ ending'[u] = ending[u]
                            /\ hold'[u] = hold[u] /\ stage'[u] = stage[u]
  PROVE  /\ ~InHand(t) => Held(T) \subseteq (Held(T))'
         /\ InHand(t) => Held(T) \subseteq (Held(T))' \cup {hold[t].idx}
         /\ (InHand(t))' => hold'[t].idx \in (Held(T))'
  <1>1. \A u \in T \ {t} : (InHand(u))' = InHand(u)
    BY DEF InHand
  <1>2. \A u \in Hands(T) : u # t => hold[u].idx \in (Held(T))'
    BY <1>1 DEF Hands, Held
  <1> QED BY <1>2 DEF Hands, Held

LEMMA HeldKept ==
  ASSUME NEW T, \A u \in T : /\ ending'[u] = ending[u]
                             /\ hold'[u] = hold[u] /\ stage'[u] = stage[u]
  PROVE  (Held(T))' = Held(T)
  <1>1. \A u \in T : (InHand(u))' = InHand(u)
    BY DEF InHand
  <1> QED BY <1>1 DEF Hands, Held

\* The numbers in the places before the resegmentation thread ...
Before == Waiting(rPending) \cup Places(chE) \cup Held(Decryptors) \cup Places(chIn)

LEMMA NoSegmentLostKept ==
  ASSUME NoSegmentLost, chunkCount' = chunkCount, outIndex' = outIndex, Before \subseteq Before'
  PROVE  NoSegmentLost'
  BY DEF NoSegmentLost, Before

LEMMA NoSegmentLostStep ==
  ASSUME Control, Upstream, Buffer, NoSegmentLost, ~Failed, ~Failed', [Next]_vars
  PROVE  NoSegmentLost'
  <1>0. /\ Decryptors \subseteq Workers /\ Decompressors \subseteq Workers
        /\ Decryptors \cap Decompressors = {} /\ Workers \subseteq Threads
        /\ Threads = Workers \cup {Resegmenter}
        /\ NChunks \in Nat \ {0} /\ chunkCount \in Nat /\ outIndex \in Nat
        /\ DOMAIN hold = Workers /\ DOMAIN stage = Workers /\ DOMAIN ending = Threads
    BY ThreadFacts, SourceLength DEF Control, Buffer
  <1>1. CASE Main
    <2>1. UNCHANGED <<ending, chE, stage, hold, rPending, outIndex>>
      BY <1>1, MainAndWriterKeep
    <2>2. (Held(Decryptors))' = Held(Decryptors)
      BY <2>1, HeldKept
    <2>3. CASE SendChunk
      <3>1. chunkCount \in 0..(NChunks - 1)
        BY <1>0, <2>3 DEF SendChunk, Control
      <3>2. InMsg(chunkCount) \in InMsgs /\ InMsg(chunkCount).idx = chunkCount
        BY <3>1, MessageFacts DEF InMsg, Control
      <3>3. (Places(chIn))' = Places(chIn) \cup {chunkCount}
        <4>1. chIn' = Append(chIn, InMsg(chunkCount)) /\ chIn \in Seq(InMsgs)
          BY <2>3 DEF SendChunk, Upstream
        <4>2. Places(chIn') = Places(chIn) \cup {chunkCount}
          BY <3>2, <4>1, SendFacts
        <4> QED BY <4>2 DEF Places
      <3>4. Before \subseteq Before' /\ chunkCount \in Before'
        BY <2>1, <2>2, <3>3 DEF Before, Waiting, Places
      <3>5. chunkCount' = chunkCount \/ chunkCount' = chunkCount + 1
        BY <1>1, <2>3
        DEF Main, MainNext, MainRead, MainReadError, MainSend, MainProgressError,
            MainSendClosed, MainJoinWriter, MainJoinCrypt, MainOk, MainExit
      <3>6. \A k \in 0..(chunkCount' - 1) : k = chunkCount \/ k \in 0..(chunkCount - 1)
        BY <1>0, <3>5
      <3> QED BY <2>1, <3>4, <3>6 DEF NoSegmentLost, Before
    <2>4. CASE UNCHANGED <<chIn, chunkCount>>
      BY <2>1, <2>2, <2>4, NoSegmentLostKept DEF Before, Waiting, Places
    <2> QED BY <1>1, <2>3, <2>4
            DEF Main, MainNext, MainRead, MainReadError, MainSend, MainProgressError,
                MainSendClosed, MainJoinWriter, MainJoinCrypt, MainOk, MainExit
  <1>2. CASE Writer
    <2>1. UNCHANGED <<ending, chE, stage, hold, rPending, outIndex, chIn, chunkCount>>
      BY <1>2, MainAndWriterKeep, WriterKeeps
    <2> QED BY <2>1, HeldKept, NoSegmentLostKept DEF Before, Waiting, Places
  <1>3. CASE ResegNext
    <2>1. /\ UNCHANGED <<stage, hold, chIn, chunkCount>>
          /\ \A t \in Decryptors : ending'[t] = ending[t]
      BY <1>0, <1>3, ResegKeeps
    <2>2. (Held(Decryptors))' = Held(Decryptors) /\ (Places(chIn))' = Places(chIn)
      BY <2>1, HeldKept DEF Places
    <2>3. CASE ResegRecv
      <3>1. /\ chE # <<>> /\ chE' = Tail(chE) /\ rPending' = rPending \cup {Head(chE)}
            /\ outIndex' = outIndex /\ chE \in Seq(OpenMsgs)
        BY <2>3 DEF ResegRecv, Upstream
      <3>2. Places(chE) = Places(Tail(chE)) \cup {Head(chE).idx}
        BY <3>1, RecvFacts
      <3>3. /\ (Places(chE))' = Places(Tail(chE))
            /\ (Waiting(rPending))' = Waiting(rPending) \cup {Head(chE).idx}
        BY <3>1 DEF Places, Waiting
      <3> QED BY <2>1, <2>2, <3>1, <3>2, <3>3, NoSegmentLostKept DEF Before
    <2>4. CASE ResegTake
      <3>1. PICK m \in rPending : m.idx = outIndex /\ rPending' = rPending \ {m}
        BY <2>4 DEF ResegTake
      <3>2. outIndex' = outIndex + 1 /\ chE' = chE
        BY <2>4 DEF ResegTake
      <3>3. /\ Waiting(rPending) \subseteq (Waiting(rPending))' \cup {outIndex}
            /\ (Places(chE))' = Places(chE)
        BY <3>1, <3>2 DEF Waiting, Places
      <3>4. Before \subseteq Before' \cup {outIndex}
        BY <2>2, <3>3 DEF Before
      <3> QED BY <1>0, <2>1, <3>2, <3>4 DEF NoSegmentLost, Before
    <2>5. CASE ~ResegRecv /\ ~ResegTake
      <3>1. UNCHANGED <<chE, rPending, outIndex>>
        BY <1>3, <2>5 DEF ResegNext, ResegDrained, ParseLength, ParseFrame, ParseMore,
           ResegRecvClosed, ResegSendClosed, ResegEnd
      <3> QED BY <2>1, <2>2, <3>1, NoSegmentLostKept DEF Before, Waiting, Places
    <2> QED BY <2>3, <2>4, <2>5
  <1>4. ASSUME NEW t \in Decryptors, DecryptNext(t)
        PROVE  NoSegmentLost'
    <2>0. /\ t \in Workers /\ t \in Threads /\ ending[t] = "running"
          /\ UNCHANGED <<chunkCount, rPending, outIndex>>
          /\ \A u \in Decryptors \ {t} : /\ ending'[u] = ending[u]
                                          /\ hold'[u] = hold[u] /\ stage'[u] = stage[u]
      BY <1>0, <1>4, WorkerKeeps
    <2>1. /\ ~InHand(t) => Held(Decryptors) \subseteq (Held(Decryptors))'
          /\ InHand(t) => Held(Decryptors) \subseteq (Held(Decryptors))' \cup {hold[t].idx}
          /\ (InHand(t))' => hold'[t].idx \in (Held(Decryptors))'
      BY <1>4, <2>0, HandFacts
    <2>2. (Waiting(rPending))' = Waiting(rPending)
      BY <2>0 DEF Waiting
    <2>3. CASE DecryptRecv(t)
      <3>1. /\ chIn # <<>> /\ chIn \in Seq(InMsgs) /\ chIn' = Tail(chIn) /\ chE' = chE
            /\ ~InHand(t) /\ (InHand(t))' /\ hold'[t] = Head(chIn)
        BY <1>0, <2>0, <2>3 DEF DecryptRecv, Running, Take, Upstream, InHand
      <3>2. Places(chIn) = Places(Tail(chIn)) \cup {Head(chIn).idx}
        BY <3>1, RecvFacts
      <3>3. (Places(chIn))' = Places(Tail(chIn)) /\ (Places(chE))' = Places(chE)
        BY <3>1 DEF Places
      <3> QED BY <2>0, <2>1, <2>2, <3>1, <3>2, <3>3, NoSegmentLostKept DEF Before
    <2>4. CASE DecryptWork(t)
      <3>1. /\ UNCHANGED <<chIn, chE>> /\ InHand(t) /\ (InHand(t))'
            /\ hold'[t].idx = hold[t].idx
        BY <1>0, <2>0, <2>4 DEF DecryptWork, Running, Done, InHand
      <3>2. (Places(chIn))' = Places(chIn) /\ (Places(chE))' = Places(chE)
        BY <3>1 DEF Places
      <3> QED BY <2>0, <2>1, <2>2, <3>1, <3>2, NoSegmentLostKept DEF Before
    <2>5. CASE DecryptSend(t)
      <3>1. /\ chIn' = chIn /\ chE' = Append(chE, hold[t]) /\ InHand(t)
            /\ hold[t] \in OpenMsgs /\ chE \in Seq(OpenMsgs)
        BY <1>0, <2>0, <2>5 DEF DecryptSend, Running, InHand, Upstream
      <3>2. Places(chE') = Places(chE) \cup {hold[t].idx}
        BY <3>1, SendFacts
      <3>3. (Places(chIn))' = Places(chIn) /\ (Places(chE))' = Places(chE')
        BY <3>1 DEF Places
      <3> QED BY <2>0, <2>1, <2>2, <3>1, <3>2, <3>3, NoSegmentLostKept DEF Before
    <2>6. CASE DecryptRecvClosed(t)
      <3>1. UNCHANGED <<chIn, chE>> /\ ~InHand(t)
        BY <2>6 DEF DecryptRecvClosed, Running, End, InHand
      <3>2. (Places(chIn))' = Places(chIn) /\ (Places(chE))' = Places(chE)
        BY <3>1 DEF Places
      <3> QED BY <2>0, <2>1, <2>2, <3>1, <3>2, NoSegmentLostKept DEF Before
    <2>7. CASE DecryptError(t)
      <3>1. ending'[t] = "err"
        BY <1>0, <2>0, <2>7 DEF DecryptError, End
      <3> QED BY <2>0, <3>1 DEF Failed
    <2>8. CASE DecryptSendClosed(t)
      <3>1. ending[Resegmenter] # "running"
        BY <2>8 DEF DecryptSendClosed, RxEOpen
      <3>2. ending[Resegmenter] = "ok"
        BY <1>0, <3>1 DEF Control, Failed
      <3> QED BY <1>4, <2>0, <3>2 DEF Control, Ended
    <2> QED BY <1>4, <2>3, <2>4, <2>5, <2>6, <2>7, <2>8 DEF DecryptNext
  <1>5. ASSUME NEW t \in Decompressors, DecompressNext(t)
        PROVE  NoSegmentLost'
    <2>1. UNCHANGED <<chIn, chE>>
      BY <1>5 DEF DecompressNext, DecompressRecv, DecompressRecvClosed, DecompressWork, DecompressError,
         DecompressSend, DecompressSendClosed, End
    <2>2. /\ UNCHANGED <<chunkCount, rPending, outIndex>>
          /\ \A u \in Decryptors : /\ ending'[u] = ending[u]
                                    /\ hold'[u] = hold[u] /\ stage'[u] = stage[u]
      BY <1>0, <1>5, WorkerKeeps
    <2> QED BY <2>1, <2>2, HeldKept, NoSegmentLostKept DEF Before, Waiting, Places
  <1>6. CASE UNCHANGED vars
    <2>1. UNCHANGED <<ending, chE, stage, hold, rPending, outIndex, chIn, chunkCount>>
      BY <1>6 DEF vars, ioVars, pipeVars, resegVars
    <2> QED BY <2>1, HeldKept, NoSegmentLostKept DEF Before, Waiting, Places
  <1> QED BY <1>1, <1>2, <1>3, <1>4, <1>5, <1>6 DEF Next, Exited

\* ... and behind it.
After == Waiting(pending) \cup Places(chOut) \cup Held(Decompressors) \cup Places(chC)

LEMMA NoChunkLostKept ==
  ASSUME NoChunkLost, newCount' = newCount, writeIndex' = writeIndex, After \subseteq After'
  PROVE  NoChunkLost'
  BY DEF NoChunkLost, After

LEMMA NoChunkLostStep ==
  ASSUME Control, Buffer, Downstream, NoChunkLost, ~Failed, ~Failed', [Next]_vars
  PROVE  NoChunkLost'
  <1>0. /\ Decryptors \subseteq Workers /\ Decompressors \subseteq Workers
        /\ Decryptors \cap Decompressors = {} /\ Workers \subseteq Threads
        /\ Threads = Workers \cup {Resegmenter} /\ Resegmenter \notin Workers
        /\ newCount \in Nat /\ writeIndex \in Nat
        /\ DOMAIN hold = Workers /\ DOMAIN stage = Workers /\ DOMAIN ending = Threads
    <2>1. newCount \in Nat
      BY DEF Buffer
    <2>2. writeIndex \in Nat
      BY <2>1 DEF Downstream
    <2>3. DOMAIN hold = Workers /\ DOMAIN stage = Workers /\ DOMAIN ending = Threads
      BY DEF Control
    <2> QED BY <2>1, <2>2, <2>3, ThreadFacts
  <1>1. CASE Main
    <2>1. UNCHANGED <<ending, stage, hold, chC, newCount, chOut, pending, writeIndex>>
      BY <1>1, MainAndWriterKeep, MainKeeps
    <2> QED BY <2>1, HeldKept, NoChunkLostKept DEF After, Waiting, Places
  <1>2. CASE Writer
    <2>1. UNCHANGED <<ending, stage, hold, chC, newCount>>
      BY <1>2, MainAndWriterKeep
    <2>2. /\ newCount' = newCount /\ (Held(Decompressors))' = Held(Decompressors)
          /\ (Places(chC))' = Places(chC)
      BY <2>1, HeldKept DEF Places
    <2>3. CASE WriterRecv
      <3>1. /\ chOut # <<>> /\ chOut' = Tail(chOut) /\ pending' = pending \cup {Head(chOut)}
            /\ writeIndex' = writeIndex /\ chOut \in Seq(TextMsgs)
        BY <2>3 DEF WriterRecv, Downstream
      <3>2. Places(chOut) = Places(Tail(chOut)) \cup {Head(chOut).idx}
        BY <3>1, RecvFacts
      <3>3. /\ (Places(chOut))' = Places(Tail(chOut))
            /\ (Waiting(pending))' = Waiting(pending) \cup {Head(chOut).idx}
        BY <3>1 DEF Places, Waiting
      <3> QED BY <2>2, <3>1, <3>2, <3>3, NoChunkLostKept DEF After
    <2>4. CASE WriterWrite
      <3>1. PICK m \in pending : m.idx = writeIndex /\ pending' = pending \ {m}
        BY <2>4 DEF WriterWrite
      <3>2. writeIndex' = writeIndex + 1 /\ chOut' = chOut
        BY <2>4 DEF WriterWrite
      <3>3. /\ Waiting(pending) \subseteq (Waiting(pending))' \cup {writeIndex}
            /\ (Places(chOut))' = Places(chOut)
        BY <3>1, <3>2 DEF Waiting, Places
      <3>4. After \subseteq After' \cup {writeIndex}
        BY <2>2, <3>3 DEF After
      <3> QED BY <1>0, <2>2, <3>2, <3>4 DEF NoChunkLost, After
    <2>5. CASE WriterWriteError
      BY <2>5 DEF WriterWriteError, Failed
    <2>6. CASE ~WriterRecv /\ ~WriterWrite /\ ~WriterWriteError
      <3>1. UNCHANGED <<chOut, pending, writeIndex>>
        BY <1>2, <2>6 DEF Writer, WriterNext, WriterDrained, WriterRecvClosed,
           WriterOthers, WriterOthersError
      <3> QED BY <2>2, <3>1, NoChunkLostKept DEF After, Waiting, Places
    <2> QED BY <2>3, <2>4, <2>5, <2>6
  <1>3. CASE ResegNext
    <2>1. /\ UNCHANGED <<stage, hold, chOut, pending, writeIndex>>
          /\ \A t \in Decompressors : ending'[t] = ending[t]
          /\ ending[Resegmenter] = "running"
      BY <1>0, <1>3, ResegKeeps
    <2>2. /\ (Held(Decompressors))' = Held(Decompressors) /\ (Places(chOut))' = Places(chOut)
          /\ (Waiting(pending))' = Waiting(pending)
      BY <2>1, HeldKept DEF Places, Waiting
    <2>3. CASE ParseFrame
      <3>1. PICK m : m.idx = newCount /\ chC' = Append(chC, m)
        BY <2>3 DEF ParseFrame
      <3>2. newCount' = newCount + 1
        BY <2>3 DEF ParseFrame
      <3>3. chC \in Seq(FrameMsgs \cup {m})
        BY SeqMonotonic DEF Downstream
      <3>4. Places(chC') = Places(chC) \cup {newCount}
        BY <3>1, <3>3, SendFacts
      <3>5. (Places(chC))' = Places(chC')
        BY DEF Places
      <3>6. After \subseteq After' /\ newCount \in After'
        BY <2>2, <3>4, <3>5 DEF After
      <3>7. \A j \in 0..(newCount' - 1) : j = newCount \/ j \in 0..(newCount - 1)
        BY <1>0, <3>2
      <3> QED BY <2>1, <3>6, <3>7 DEF NoChunkLost, After
    <2>4. CASE ResegSendClosed
      <3>1. ending'[Resegmenter] = "err"
        BY <1>0, <2>4 DEF ResegSendClosed, ResegEnd
      <3> QED BY <1>0, <3>1 DEF Failed
    <2>5. CASE ResegRecv \/ ResegTake \/ ResegDrained \/ ParseLength \/ ParseMore \/ ResegRecvClosed
      <3>1. UNCHANGED <<chC, newCount>>
        BY <2>5 DEF ResegRecv, ResegTake, ResegDrained, ParseLength, ParseMore,
           ResegRecvClosed, ResegEnd
      <3> QED BY <2>1, <2>2, <3>1, NoChunkLostKept DEF After, Places
    <2> QED BY <1>3, <2>3, <2>4, <2>5 DEF ResegNext
  <1>4. ASSUME NEW t \in Decryptors, DecryptNext(t)
        PROVE  NoChunkLost'
    <2>1. UNCHANGED <<chC, chOut>>
      BY <1>4 DEF DecryptNext, DecryptRecv, DecryptRecvClosed, DecryptWork,
         DecryptError, DecryptSend, DecryptSendClosed, End
    <2>2. /\ UNCHANGED <<pending, writeIndex, newCount>>
          /\ ending'[Resegmenter] = ending[Resegmenter]
          /\ \A u \in Decompressors : /\ ending'[u] = ending[u]
                                   /\ hold'[u] = hold[u] /\ stage'[u] = stage[u]
      BY <1>0, <1>4, WorkerKeeps
    <2> QED BY <2>1, <2>2, HeldKept, NoChunkLostKept DEF After, Waiting, Places
  <1>5. ASSUME NEW t \in Decompressors, DecompressNext(t)
        PROVE  NoChunkLost'
    <2>0. /\ t \in Workers /\ t \in Threads /\ ending[t] = "running"
          /\ UNCHANGED <<pending, writeIndex, newCount, wpc>>
          /\ ending'[Resegmenter] = ending[Resegmenter]
          /\ \A u \in Decompressors \ {t} : /\ ending'[u] = ending[u]
                                         /\ hold'[u] = hold[u] /\ stage'[u] = stage[u]
      BY <1>0, <1>5, WorkerKeeps
    <2>1. /\ ~InHand(t) => Held(Decompressors) \subseteq (Held(Decompressors))'
          /\ InHand(t) => Held(Decompressors) \subseteq (Held(Decompressors))' \cup {hold[t].idx}
          /\ (InHand(t))' => hold'[t].idx \in (Held(Decompressors))'
      BY <1>5, <2>0, HandFacts
    <2>2. (Waiting(pending))' = Waiting(pending) /\ newCount' = newCount
      BY <2>0 DEF Waiting
    <2>3. CASE DecompressRecv(t)
      <3>1. /\ chC # <<>> /\ chC \in Seq(FrameMsgs) /\ chC' = Tail(chC) /\ chOut' = chOut
            /\ ~InHand(t) /\ (InHand(t))' /\ hold'[t] = Head(chC)
        BY <1>0, <2>0, <2>3 DEF DecompressRecv, Running, Take, Downstream, InHand
      <3>2. Places(chC) = Places(Tail(chC)) \cup {Head(chC).idx}
        BY <3>1, RecvFacts
      <3>3. (Places(chC))' = Places(Tail(chC)) /\ (Places(chOut))' = Places(chOut)
        BY <3>1 DEF Places
      <3> QED BY <2>0, <2>1, <2>2, <3>1, <3>2, <3>3, NoChunkLostKept DEF After
    <2>4. CASE DecompressWork(t)
      <3>1. /\ UNCHANGED <<chC, chOut>> /\ InHand(t) /\ (InHand(t))'
            /\ hold'[t].idx = hold[t].idx
        BY <1>0, <2>0, <2>4 DEF DecompressWork, Running, Done, InHand
      <3>2. (Places(chC))' = Places(chC) /\ (Places(chOut))' = Places(chOut)
        BY <3>1 DEF Places
      <3> QED BY <2>0, <2>1, <2>2, <3>1, <3>2, NoChunkLostKept DEF After
    <2>5. CASE DecompressSend(t)
      <3>1. /\ chC' = chC /\ chOut' = Append(chOut, hold[t]) /\ InHand(t)
            /\ hold[t] \in TextMsgs /\ chOut \in Seq(TextMsgs)
        BY <1>0, <2>0, <2>5 DEF DecompressSend, Running, InHand, Downstream
      <3>2. Places(chOut') = Places(chOut) \cup {hold[t].idx}
        BY <3>1, SendFacts
      <3>3. (Places(chC))' = Places(chC) /\ (Places(chOut))' = Places(chOut')
        BY <3>1 DEF Places
      <3> QED BY <2>0, <2>1, <2>2, <3>1, <3>2, <3>3, NoChunkLostKept DEF After
    <2>6. CASE DecompressRecvClosed(t)
      <3>1. UNCHANGED <<chC, chOut>> /\ ~InHand(t)
        BY <2>6 DEF DecompressRecvClosed, Running, End, InHand
      <3>2. (Places(chC))' = Places(chC) /\ (Places(chOut))' = Places(chOut)
        BY <3>1 DEF Places
      <3> QED BY <2>0, <2>1, <2>2, <3>1, <3>2, NoChunkLostKept DEF After
    <2>7. CASE DecompressError(t)
      <3>1. ending'[t] = "err"
        BY <1>0, <2>0, <2>7 DEF DecompressError, End
      <3> QED BY <2>0, <3>1 DEF Failed
    <2>8. CASE DecompressSendClosed(t)
      <3>1. wpc \in {"others", "ok"}
        BY <2>8 DEF DecompressSendClosed, RxOutOpen, Control, Failed
      <3> QED BY <1>5, <2>0, <3>1 DEF Control, Ended
    <2> QED BY <1>5, <2>3, <2>4, <2>5, <2>6, <2>7, <2>8 DEF DecompressNext
  <1>6. CASE UNCHANGED vars
    <2>1. UNCHANGED <<ending, stage, hold, chC, newCount, chOut, pending, writeIndex>>
      BY <1>6 DEF vars, ioVars, pipeVars, resegVars
    <2> QED BY <2>1, HeldKept, NoChunkLostKept DEF After, Waiting, Places
  <1> QED BY <1>1, <1>2, <1>3, <1>4, <1>5, <1>6 DEF Next, Exited

-----------------------------------------------------------------------------
(* Nothing is missing at the end.                                          *)

\* All segments were taken when the decryptors ended and none of them failed.
LEMMA AllTaken ==
  ASSUME Control, Upstream, Buffer, NoSegmentLost, chunkCount = NChunks,
         outIndex \notin Waiting(rPending), chE = <<>>, chIn = <<>>, Ended(Decryptors)
  PROVE  outIndex = NChunks
  <1>1. Held(Decryptors) = {}
    BY DEF Held, Hands, InHand, Ended
  <1>2. Places(chE) = {} /\ Places(chIn) = {}
    BY DEF Places
  <1>3. NChunks \in Nat \ {0} /\ outIndex \in 0..NChunks
    BY BufferFacts
  <1>4. ASSUME outIndex # NChunks
        PROVE  FALSE
    <2>1. outIndex \in 0..(chunkCount - 1) /\ ~(outIndex < outIndex)
      BY <1>3, <1>4
    <2>2. outIndex \in Waiting(rPending)
      BY <1>1, <1>2, <2>1 DEF NoSegmentLost
    <2> QED BY <2>2
  <1> QED BY <1>4

\* The end of the file is the end of a frame, so none is left half parsed.
LEMMA WholeParsed ==
  ASSUME Control, Buffer, outIndex = NChunks,
         Len(bufOut) < (IF LengthKnown THEN chunkLen ELSE LenSize)
  PROVE  Behind = Len(Stream) /\ Position = Len(Stream) /\ bufOut = <<>>
  <1>1. /\ source \in Sources /\ NChunks \in Nat \ {0}
        /\ LenSize \in Nat \ {0} /\ Stream \in Seq(Units)
        /\ Position \in 0..Taken /\ Behind \in 0..Position
        /\ LengthKnown => Position = Behind + LenSize
        /\ ~LengthKnown => Position = Behind
        /\ Len(bufOut) = Taken - Position
        /\ bufOut = <<>> <=> Position = Taken
    BY BufferFacts
  <1>2. Taken = Len(Stream) /\ UnitsOf(source, NChunks) = Stream
    BY <1>1, StreamFacts DEF Taken, Stream
  <1>3. ASSUME Behind # Len(Stream)
        PROVE  FALSE
    <2>1. PICK b \in 0..(Taken - 1) : b = Behind
      BY <1>1, <1>2, <1>3
    <2>2. PICK k \in Nat : k = Taken
      BY <1>2
    <2>3. Border(b) /\ (LengthKnown => chunkLen = Stream[b + 1].size)
      BY <2>1 DEF Buffer, Parsed
    <2>4. PICK z : z = Stream[b + 1].size
      OBVIOUS
    <2>5. z \in Nat \ {0} /\ Size(b + 1) = LenSize + z
      BY <2>3, <2>4, FrameUnits DEF Size
    <2>6. k < b + (LenSize + z) /\ k \in (b + 1)..Taken
      <3>1. CASE LengthKnown
        <4>1. Taken - Position < z /\ Position = b + LenSize
          BY <1>1, <2>1, <2>3, <2>4, <3>1
        <4> QED BY ONLY <1>1, <2>1, <2>2, <2>5, <4>1
      <3>2. CASE ~LengthKnown
        <4>1. Taken - Position < LenSize /\ Position = b
          BY <1>1, <2>1, <3>2
        <4> QED BY ONLY <1>1, <2>1, <2>2, <2>5, <4>1
      <3> QED BY <3>1, <3>2
    <2>7. ~EndsFrame(Stream[k])
      <3>1. \A j \in (b + 1)..Taken : j <= b + Size(b + 1) =>
              (EndsFrame(Stream[j]) <=> j = b + Size(b + 1))
        BY <2>3, FrameUnits
      <3> QED BY <1>1, <2>1, <2>2, <2>5, <2>6, <3>1
    <2>8. EndsFrame(Last(Stream))
      <3>1. InPlace(source, NChunks) /\ NChunks = Len(source) /\ NChunks \in 1..Len(source)
        BY <1>1 DEF Buffer, NChunks
      <3>2. Stream # <<>>
        BY <1>2, <2>2, <2>6
      <3> QED BY <1>1, <1>2, <3>1, <3>2, SealedAssumption
    <2> QED BY <1>2, <2>2, <2>7, <2>8 DEF Last
  <1> QED BY <1>1, <1>2, <1>3

-----------------------------------------------------------------------------
(* Why a thread fails.                                                     *)

\* A segment that does not open is not in its place.
LEMMA NotAuthentic ==
  ASSUME Control, Upstream, NEW m \in InMsgs, ~Authentic(m)
  PROVE  ~Intact
  <1>1. source \in Sources /\ NChunks \in Nat \ {0}
    BY SourceLength DEF Control
  <1>2. PICK k \in 0..(NChunks - 1) : m = InMsg(k)
    BY DEF InMsgs
  <1>3. m.buf = source[k + 1] /\ m.idx = k /\ m.final = IsFinal(k)
    BY <1>2 DEF InMsg
  <1>4. PICK n \in 1..NChunks : n = k + 1 /\ n - 1 = k /\ (IsFinal(k) <=> n = NChunks)
    BY <1>1 DEF IsFinal
  <1>5. ASSUME Intact
        PROVE  FALSE
    <2>1. source[n].num = n - 1 /\ source[n].last = (n = Len(source))
      BY <1>5 DEF Intact, InPlace
    <2> QED BY <1>3, <1>4, <2>1 DEF Authentic, Opens, NChunks, IsFinal
  <1> QED BY <1>5

\* The resegmentation thread has an error of its own only if a thread before or
\* behind it failed.
LEMMA ResegFails ==
  ASSUME IInv, ResegNext, ending'[Resegmenter] = "err", Sound, wpc # "err", result # "read"
  PROVE  \E t \in Decryptors : ending[t] = "err"
  <1>0. /\ Control /\ Upstream /\ Buffer /\ NothingLost /\ Blame
        /\ Threads = Decryptors \cup Decompressors \cup {Resegmenter}
        /\ Decryptors # {} /\ Decompressors # {}
        /\ ending \in [Threads -> {"running", "ok", "err"}]
        /\ Alive /\ ending[Resegmenter] = "running" /\ rpc # "ended"
    BY ThreadFacts, ResegKeeps DEF IInv, Control, ResegNext, ResegRecv, ResegTake, ResegDrained,
       ParseLength, ParseFrame, ParseMore, ResegRecvClosed, ResegSendClosed, FrameReady, Reseg
  <1>1. ASSUME ~ \E t \in Decryptors : ending[t] = "err"
        PROVE  FALSE
    <2>1. ~Failed
      BY <1>0, <1>1 DEF Failed, Blame
    <2>2. CASE ResegRecvClosed
      <3>1. rpc = "recv" /\ chE = <<>> /\ Ended(Decryptors) /\ bufOut # <<>>
        BY <1>0, <2>2 DEF ResegRecvClosed, ResegEnd, Reseg, TxEOpen, Ended
      <3>2. ~TxInOpen /\ chIn = <<>>
        <4>1. PICK t \in Decryptors : ending[t] = "ok"
          BY <1>0, <1>1, <3>1 DEF Ended
        <4> QED BY <1>0, <4>1 DEF Control
      <3>3. chunkCount = NChunks
        <4>1. CASE mpc \in {"joinWriter", "joinCrypt"}
          BY <1>0, <2>1, <4>1 DEF Control
        <4>2. CASE mpc \notin {"joinWriter", "joinCrypt"}
          <5>1. mpc = "done" /\ result \in {"ok", "writer", "crypt"}
            BY <1>0, <3>2, <4>2 DEF Control, Blame, TxInOpen, Alive
          <5>2. result # "writer" /\ result # "ok"
            BY <1>0, <5>1 DEF Blame, Control
          <5>3. joined + 1 \in Threads /\ ending[joined + 1] = "err"
            BY <1>0, <5>1, <5>2, IoAssumption DEF Blame, Control, Threads
          <5> QED BY <2>1, <5>3 DEF Failed
        <4> QED BY <4>1, <4>2
      <3>4. outIndex \notin Waiting(rPending) /\ NoSegmentLost
        BY <1>0, <2>1, <3>1 DEF Control, NothingLost
      <3>5. outIndex = NChunks
        BY <1>0, <3>1, <3>2, <3>3, <3>4, AllTaken
      <3>6. Len(bufOut) < (IF LengthKnown THEN chunkLen ELSE LenSize)
        BY <1>0, <3>1 DEF Buffer
      <3> QED BY <1>0, <3>1, <3>5, <3>6, WholeParsed
    <2>3. CASE ResegSendClosed
      <3>1. PICK t \in Decompressors : ending[t] \in {"ok", "err"}
        BY <1>0, <2>3 DEF ResegSendClosed, RxCOpen
      <3>2. ending[t] = "ok"
        BY <1>0, <3>1 DEF Blame
      <3> QED BY <1>0, <3>2 DEF Control
    <2>4. CASE ~ResegRecvClosed /\ ~ResegSendClosed
      <3>1. ending' = ending
        BY <2>4 DEF ResegNext, ResegRecv, ResegTake, ResegDrained, ParseLength, ParseFrame,
           ParseMore, ioVars
      <3> QED BY <1>0, <3>1
    <2> QED BY <2>2, <2>3, <2>4
  <1> QED BY <1>1

LEMMA BlameStep ==
  ASSUME IInv, [Next]_vars
  PROVE  Blame'
  <1>0. /\ Control /\ Upstream /\ Buffer /\ Downstream /\ Blame
        /\ source' = source /\ (Intact <=> Intact') /\ (Sound <=> Sound')
        /\ Threads = Decryptors \cup Decompressors \cup {Resegmenter}
        /\ Workers = Decryptors \cup Decompressors
        /\ Resegmenter \notin Workers /\ Decryptors \cap Decompressors = {}
        /\ Threads = 1..NHandles /\ NHandles \in Nat \ {0} /\ joined \in 0..NHandles
        /\ ending \in [Threads -> {"running", "ok", "err"}]
    BY SourceFixed, DefinedBySource, ThreadFacts, IoAssumption DEF IInv, Control, Threads
  <1>1. CASE Main
    <2>1. UNCHANGED <<ending, wpc>>
      BY <1>1, MainAndWriterKeep, MainKeeps
    <2>2. result' = result \/ result = "none"
      BY <1>0, <1>1 DEF Blame, Main, MainNext, MainRead, MainReadError, MainSend,
         MainProgressError, SendChunk, Return, MainSendClosed, MainJoinWriter, MainJoinCrypt,
         MainOk, MainExit
    <2>3. /\ result' = "crypt" =>
               /\ wpc' = "ok" /\ joined' < NHandles /\ ending'[joined' + 1] = "err"
               /\ \A t \in 1..joined' : ending'[t] = "ok"
          /\ result' = "writer" => wpc' = "err"
          /\ mpc' \in {"done", "exited"} <=> result' # "none"
      <3>1. CASE MainJoinCrypt
        BY <1>0, <2>1, <3>1 DEF MainJoinCrypt, Return, Blame, Control
      <3>2. CASE MainJoinWriter
        BY <1>0, <2>1, <3>2 DEF MainJoinWriter, Return, Blame, Control
      <3>3. CASE MainExit
        BY <1>0, <2>1, <3>3 DEF MainExit, Blame
      <3>4. CASE ~MainJoinCrypt /\ ~MainJoinWriter /\ ~MainExit
        <4>1. /\ mpc \in {"read", "send", "joinCrypt"}
              /\ \/ mpc' \in {"read", "send", "joinWriter"} /\ result' = result
                 \/ mpc' = "done" /\ result' \in {"read", "ok"}
          BY <1>1, <3>4 DEF Main, MainNext, MainRead, MainReadError, MainSend,
             MainProgressError, SendChunk, Return, MainSendClosed, MainOk
        <4> QED BY <1>0, <4>1 DEF Blame
      <3> QED BY <3>1, <3>2, <3>3, <3>4
    <2>4. ending'[Resegmenter] = "err" =>
            \/ wpc' = "err" \/ result' = "read" \/ ~Sound'
            \/ \E t \in Decryptors : ending'[t] = "err"
      BY <1>0, <2>1, <2>2 DEF Blame
    <2> QED BY <1>0, <2>1, <2>3, <2>4 DEF Blame
  <1>2. CASE Writer
    <2>1. UNCHANGED <<ending, mpc, joined, result>>
      BY <1>2, MainAndWriterKeep, WriterKeeps
    <2>2. wpc \in {"ok", "err"} => wpc' = wpc
      BY <1>2 DEF Writer, WriterNext, WriterRecv, WriterWrite, WriterWriteError, WriterDrained,
         WriterRecvClosed, WriterOthers, WriterOthersError
    <2> QED BY <1>0, <2>1, <2>2 DEF Blame
  <1>3. CASE ResegNext
    <2>1. /\ UNCHANGED <<mpc, joined, result, wpc>>
          /\ \A t \in Workers : ending'[t] = ending[t]
          /\ ending[Resegmenter] = "running"
      BY <1>0, <1>3, ResegKeeps
    <2>2. \A t \in Threads : ending[t] # "running" => ending'[t] = ending[t]
      BY <1>0, <2>1
    <2>3. result = "crypt" => joined + 1 \in Threads /\ 1..joined \subseteq Threads
      BY <1>0 DEF Blame
    <2>4. ending'[Resegmenter] = "err" =>
            \/ wpc = "err" \/ result = "read" \/ ~Sound
            \/ \E t \in Decryptors : ending[t] = "err"
      BY <1>3, ResegFails
    <2>5. /\ result' = "crypt" =>
               /\ wpc' = "ok" /\ joined' < NHandles /\ ending'[joined' + 1] = "err"
               /\ \A t \in 1..joined' : ending'[t] = "ok"
          /\ result' = "writer" => wpc' = "err"
          /\ mpc' \in {"done", "exited"} <=> result' # "none"
      BY <1>0, <2>1, <2>2, <2>3 DEF Blame
    <2>6. /\ \A t \in Decryptors : ending'[t] = "err" => ~Intact'
          /\ \A t \in Decompressors : ending'[t] = "err" => ~Sound'
      BY <1>0, <2>1 DEF Blame
    <2> QED BY <1>0, <2>1, <2>4, <2>5, <2>6 DEF Blame
  <1>4. ASSUME NEW t \in Workers, DecryptNext(t) \/ DecompressNext(t),
               ending'[t] = "err" =>
                 (t \in Decryptors => ~Intact) /\ (t \in Decompressors => ~Sound)
        PROVE  Blame'
    <2>1. /\ UNCHANGED <<mpc, joined, result, wpc>>
          /\ \A u \in Threads \ {t} : ending'[u] = ending[u]
          /\ ending[t] = "running"
      BY <1>4, <1>0, WorkerKeeps
    <2>2. \A u \in Threads : ending[u] # "running" => ending'[u] = ending[u]
      BY <2>1
    <2>3. result = "crypt" => joined + 1 \in Threads /\ 1..joined \subseteq Threads
      BY <1>0 DEF Blame
    <2>4. /\ result' = "crypt" =>
               /\ wpc' = "ok" /\ joined' < NHandles /\ ending'[joined' + 1] = "err"
               /\ \A u \in 1..joined' : ending'[u] = "ok"
          /\ result' = "writer" => wpc' = "err"
          /\ mpc' \in {"done", "exited"} <=> result' # "none"
      BY <1>0, <2>1, <2>2, <2>3 DEF Blame
    <2>5. /\ \A u \in Decryptors : ending'[u] = "err" => ~Intact'
          /\ \A u \in Decompressors : ending'[u] = "err" => ~Sound'
      BY <1>0, <1>4, <2>1 DEF Blame
    <2>6. ending'[Resegmenter] = "err" =>
            \/ wpc' = "err" \/ result' = "read" \/ ~Sound'
            \/ \E u \in Decryptors : ending'[u] = "err"
      <3>1. ending'[Resegmenter] = ending[Resegmenter]
        BY <1>0, <1>4, <2>1
      <3>2. \A u \in Decryptors : ending[u] = "err" => ending'[u] = "err"
        BY <1>0, <2>2
      <3> QED BY <1>0, <2>1, <3>1, <3>2 DEF Blame
    <2> QED BY <2>4, <2>5, <2>6 DEF Blame
  <1>5. ASSUME NEW t \in Decryptors, DecryptNext(t)
        PROVE  Blame'
    <2>1. ASSUME ending'[t] = "err"
          PROVE  ~Intact
      <3>1. ending[t] = "running" /\ t \in Threads
        BY <1>0, <1>5, WorkerKeeps
      <3>2. DecryptError(t)
        BY <1>0, <1>5, <2>1, <3>1
        DEF DecryptNext, DecryptRecv, DecryptRecvClosed, DecryptWork, DecryptSend,
            DecryptSendClosed, End
      <3>3. hold[t] \in InMsgs /\ ~Authentic(hold[t])
        BY <1>0, <3>1, <3>2 DEF DecryptError, Running, Upstream
      <3> QED BY <1>0, <3>3, NotAuthentic
    <2> QED BY <1>0, <1>4, <1>5, <2>1
  <1>6. ASSUME NEW t \in Decompressors, DecompressNext(t)
        PROVE  Blame'
    <2>1. ASSUME ending'[t] = "err"
          PROVE  ~Sound
      <3>1. ending[t] = "running" /\ t \in Threads
        BY <1>0, <1>6, WorkerKeeps
      <3>2. DecompressError(t)
        BY <1>0, <1>6, <2>1, <3>1
        DEF DecompressNext, DecompressRecv, DecompressRecvClosed, DecompressWork, DecompressSend,
            DecompressSendClosed, End
      <3>3. hold[t] \in FrameMsgs /\ ~Compressed(hold[t].buf)
        BY <1>0, <3>1, <3>2 DEF DecompressError, Running, Downstream
      <3>4. PICK i \in Frames : hold[t] = FrameMsg(i)
        BY <3>3 DEF FrameMsgs
      <3>5. i \notin GoodFrames
        BY <3>3, <3>4 DEF GoodFrames
      <3> QED BY <1>0, <3>5, GoodContent
    <2> QED BY <1>0, <1>4, <1>6, <2>1
  <1>7. CASE UNCHANGED vars
    BY <1>0, <1>7 DEF Blame, vars, ioVars
  <1> QED BY <1>1, <1>2, <1>3, <1>5, <1>6, <1>7 DEF Next, Exited

-----------------------------------------------------------------------------
(* The invariant.                                                          *)

LEMMA InitInvariant ==
  ASSUME Init
  PROVE  IInv
  <1>0. /\ source \in Sources /\ NChunks \in Nat \ {0}
        /\ Threads = Decryptors \cup Decompressors \cup {Resegmenter}
        /\ Workers = Decryptors \cup Decompressors /\ Resegmenter \notin Workers
        /\ mpc = "read" /\ chunkCount = 0 /\ joined = 0 /\ result = "none"
        /\ chIn = <<>> /\ chOut = <<>> /\ chC = <<>> /\ chE = <<>>
        /\ ending = [t \in Threads |-> "running"]
        /\ wpc = "recv" /\ pending = {} /\ writeIndex = 0 /\ written = <<>> /\ finalised = FALSE
        /\ stage = [t \in Workers |-> "recv"] /\ hold = [t \in Workers |-> NoChunk]
        /\ rpc = "recv" /\ rPending = {} /\ outIndex = 0 /\ bufOut = <<>>
        /\ ~LengthKnown /\ newCount = 0
    BY SourceLength, ThreadFacts DEF Init, IoInit, LengthKnown
  <1>1. Control
    BY <1>0, IoAssumption DEF Control, Failed, Ended, Waiting
  <1>2. Upstream
    BY <1>0 DEF Upstream
  <1>3. /\ Stream \in Seq(Units) /\ Place(0) = 0 /\ Texts(0) = 0
        /\ Contents \in Seq(AllTexts)
    BY <1>0, StreamFacts, TextFacts
  <1>4. Taken = 0 /\ Position = 0 /\ Behind = 0 /\ Len(bufOut) = 0
    <2>1. Taken = 0 /\ Len(bufOut) = 0
      BY <1>0, <1>3 DEF Taken
    <2>2. Position = 0
      BY <2>1 DEF Position
    <2>3. ~LengthKnown
      BY <1>0
    <2> QED BY <2>1, <2>2, <2>3 DEF Behind
  <1>5. Buffer
    <2>1. SubSeq(Stream, 1, 0) = <<>>
      BY <1>3, FirstElements
    <2>2. bufOut = SubSeq(Stream, Position + 1, Taken)
      BY <1>0, <1>4, <2>1
    <2>3. FramesTo(0) = {}
      BY DEF FramesTo
    <2>4. Parsed(0, 0, 0)
      BY <1>3, <2>3 DEF Parsed, Border
    <2>5. InPlace(source, outIndex)
      BY <1>0 DEF InPlace
    <2> QED BY <1>0, <1>4, <2>2, <2>4, <2>5, FramingAssumption DEF Buffer
  <1>6. Downstream
    <2>1. SubSeq(Contents, 1, 0) = <<>>
      BY <1>3, FirstElements
    <2>2. Frames = {}
      BY <1>4 DEF Frames, FramesTo
    <2> QED BY <1>0, <2>1, <2>2 DEF Downstream
  <1>7. NothingLost
    BY <1>0 DEF NothingLost, NoChunkLost, NoSegmentLost
  <1>8. Blame
    BY <1>0 DEF Blame
  <1> QED BY <1>1, <1>2, <1>5, <1>6, <1>7, <1>8 DEF IInv

LEMMA StepInvariant ==
  ASSUME IInv, [Next]_vars
  PROVE  IInv'
  <1>1. Control' /\ Upstream' /\ Buffer' /\ Downstream'
    BY ControlStep, UpstreamStep, BufferStep, DownstreamStep DEF IInv
  <1>2. NothingLost'
    BY FailureStays, NoChunkLostStep, NoSegmentLostStep DEF IInv, NothingLost
  <1> QED BY <1>1, <1>2, BlameStep DEF IInv

\* The invariant: what is in the channels, in the hands of the threads, in the
\* buffer and in the file is decided by the source and the places reached in it.
THEOREM DecryptInvariance == Spec => []IInv
  <1>1. Init => IInv
    BY InitInvariant
  <1>2. IInv /\ [Next]_vars => IInv'
    BY StepInvariant
  <1> QED BY <1>1, <1>2, PTL DEF Spec

-----------------------------------------------------------------------------
(* What is written.                                                        *)

\* The chunks of the stream, from the first on.
LEMMA WrittenFacts ==
  ASSUME Control, Buffer, Downstream
  PROVE  /\ source \in Sources /\ Contents \in Seq(AllTexts)
         /\ newCount \in 0..Len(Contents) /\ writeIndex \in 0..newCount
         /\ Len(written) = writeIndex /\ written = SubSeq(Contents, 1, writeIndex)
  <1>1. source \in Sources /\ Position \in 0..Len(Stream) /\ Len(Stream) \in Nat
    BY BufferFacts
  <1>2. Contents \in Seq(AllTexts) /\ Texts(Position) \in 0..Len(Contents)
    BY <1>1, TextFacts
  <1>3. /\ Texts(Position) = newCount /\ writeIndex \in 0..newCount
        /\ written = SubSeq(Contents, 1, writeIndex)
    BY DEF Buffer, Parsed, Downstream
  <1>4. writeIndex \in 0..Len(Contents)
    BY <1>2, <1>3
  <1> QED BY <1>1, <1>2, <1>3, <1>4, FirstElements

\* What is written is always a beginning of the content of the file, whatever
\* fails and however the threads are scheduled (DecodedInOrder).
THEOREM DecodedInOrderCorrect == Spec => []DecodedInOrder
  <1>1. ASSUME IInv
        PROVE  DecodedInOrder
    <2>1. /\ Contents \in Seq(AllTexts) /\ writeIndex \in 0..Len(Contents)
          /\ Len(written) = writeIndex /\ written = SubSeq(Contents, 1, writeIndex)
      BY <1>1, WrittenFacts DEF IInv
    <2>2. SubSeq(written, 1, Len(written)) = written
      <3>1. written \in Seq(AllTexts)
        BY <2>1, FirstElements
      <3> QED BY <3>1, SubSeqFull
    <2> QED BY <2>1, <2>2 DEF DecodedInOrder, IsPrefix
  <1> QED BY <1>1, DecryptInvariance, PTL

-----------------------------------------------------------------------------
(* The verdict.                                                            *)

\* When Ok is returned nothing is left in a channel, in a hand, in a buffer or
\* waiting for its turn.
LEMMA OkIsAll ==
  ASSUME IInv, wpc = "ok", chunkCount = NChunks, \A t \in Threads : ending[t] = "ok"
  PROVE  /\ outIndex = NChunks /\ Behind = Len(Stream) /\ Position = Len(Stream)
         /\ writeIndex = newCount /\ newCount = Len(Contents)
  <1>0. /\ Control /\ Upstream /\ Buffer /\ Downstream /\ NothingLost
        /\ Threads = Decryptors \cup Decompressors \cup {Resegmenter}
        /\ Decryptors # {} /\ Decompressors # {}
    BY ThreadFacts DEF IInv
  <1>1. /\ ending[Resegmenter] = "ok" /\ ~Failed
        /\ Ended(Decryptors) /\ Ended(Decompressors)
        /\ \A t \in Decryptors : ending[t] = "ok"
        /\ \A t \in Decompressors : ending[t] = "ok"
    BY <1>0 DEF Failed, Ended
  <1>2. /\ chE = <<>> /\ chIn = <<>> /\ chC = <<>> /\ chOut = <<>> /\ bufOut = <<>>
        /\ outIndex \notin Waiting(rPending) /\ writeIndex \notin Waiting(pending)
    BY <1>0, <1>1 DEF Control
  <1>3. NoSegmentLost /\ NoChunkLost
    BY <1>0, <1>1 DEF NothingLost
  <1>4. outIndex = NChunks
    BY <1>0, <1>1, <1>2, <1>3, AllTaken
  <1>5. Len(bufOut) < (IF LengthKnown THEN chunkLen ELSE LenSize)
    <2>1. Len(bufOut) = 0 /\ LenSize \in Nat \ {0}
      BY <1>2, FramingAssumption
    <2>2. ASSUME LengthKnown
          PROVE  chunkLen \in Nat \ {0}
      <3>1. /\ Taken \in Nat /\ Position = Behind + LenSize /\ Position \in 0..Taken
            /\ Behind \in 0..Position
        BY <1>0, <2>2, BufferFacts
      <3>2. Behind \in 0..(Taken - 1) /\ Border(Behind)
        BY <1>0, <2>1, <3>1 DEF Buffer, Parsed
      <3>3. chunkLen = Stream[Behind + 1].size
        BY <1>0, <2>2 DEF Buffer
      <3> QED BY <1>0, <3>2, <3>3, FrameUnits
    <2> QED BY <2>1, <2>2
  <1>6. Behind = Len(Stream) /\ Position = Len(Stream)
    BY <1>0, <1>4, <1>5, WholeParsed
  <1>7. writeIndex = newCount
    <2>1. Places(chC) = {} /\ Places(chOut) = {}
      BY <1>2 DEF Places
    <2>2. Held(Decompressors) = {}
      BY <1>1 DEF Held, Hands, InHand, Ended
    <2>3. writeIndex \in 0..newCount /\ newCount \in Nat
      BY <1>0 DEF Downstream, Buffer
    <2>4. ASSUME writeIndex # newCount
          PROVE  FALSE
      <3>1. writeIndex \in 0..(newCount - 1) /\ ~(writeIndex < writeIndex)
        BY <2>3, <2>4
      <3>2. writeIndex \in Waiting(pending)
        BY <1>3, <2>1, <2>2, <3>1 DEF NoChunkLost
      <3> QED BY <1>2, <3>2
    <2> QED BY <2>4
  <1>8. newCount = Len(Contents)
    <2>1. Texts(Position) = newCount /\ source \in Sources
      BY <1>0 DEF Buffer, Parsed, Control
    <2> QED BY <1>6, <2>1, TextFacts
  <1> QED BY <1>4, <1>6, <1>7, <1>8

\* Then every unit of the file belongs to a frame that was decompressed.
LEMMA OkIsSound ==
  ASSUME Control, Buffer, Downstream, Behind = Len(Stream), writeIndex = newCount
  PROVE  Sound
  <1>1. ASSUME NEW x \in 1..Len(Stream)
        PROVE  Stream[x].chunk # NoChunk
    <2>1. PICK i \in Frames : i - Size(i) < x /\ x <= i
      BY <1>1 DEF Buffer, Parsed, Frames
    <2>2. /\ Stream[i].size \in Nat /\ LenSize \in Nat /\ i \in 1..Position
          /\ Position \in 0..Len(Stream) /\ Len(Stream) \in Nat
      BY FrameContent, BufferFacts, FramingAssumption
    <2>3. Texts(i) <= newCount
      <3>1. Texts(Position) = newCount /\ source \in Sources
        BY DEF Buffer, Parsed, Control
      <3>2. i \in 0..Position
        BY <2>2
      <3> QED BY <2>2, <3>1, <3>2, TextFacts
    <2>4. i \in GoodFrames
      BY <2>1, <2>3 DEF Downstream
    <2>5. \A k \in (i - Size(i) + 1)..i : Stream[k].chunk # NoChunk
      BY <2>4, GoodContent
    <2>6. x \in (i - Size(i) + 1)..i
      BY <2>1, <2>2 DEF Size
    <2> QED BY <2>5, <2>6
  <1> QED BY <1>1 DEF Sound

\* Ok is returned only for an intact file, all of whose chunks were decompressed
\* and written, and after write_others (OkIsWhole).
THEOREM OkIsWholeCorrect == Spec => []OkIsWhole
  <1>1. ASSUME IInv, result = "ok"
        PROVE  Intact /\ Sound /\ written = Contents /\ finalised
    <2>0. Control /\ Buffer /\ Downstream
      BY <1>1 DEF IInv
    <2>1. /\ wpc = "ok" /\ chunkCount = NChunks /\ finalised
          /\ \A t \in Threads : ending[t] = "ok"
      BY <1>1 DEF IInv, Control
    <2>2. /\ outIndex = NChunks /\ Behind = Len(Stream)
          /\ writeIndex = newCount /\ newCount = Len(Contents)
      BY <1>1, <2>1, OkIsAll
    <2>3. Intact
      BY <2>0, <2>2 DEF Buffer, Intact
    <2>4. Sound
      BY <2>0, <2>2, OkIsSound
    <2>5. written = Contents
      BY <2>0, <2>2, WrittenFacts, SubSeqFull
    <2> QED BY <2>1, <2>3, <2>4, <2>5
  <1> QED BY <1>1, DecryptInvariance, PTL DEF OkIsWhole

\* An error of the crypt threads is reported for a file without damaged chunks
\* only if the file is not intact, and then it is that of a decryptor, whatever
\* else failed in consequence (DecryptErrorShown).
THEOREM DecryptErrorShownCorrect == Spec => []DecryptErrorShown
  <1>1. ASSUME IInv, result = "crypt", Sound
        PROVE  ~Intact /\ joined + 1 \in Decryptors
    <2>1. /\ wpc = "ok" /\ joined < NHandles /\ ending[joined + 1] = "err"
          /\ \A t \in 1..joined : ending[t] = "ok"
          /\ joined \in 0..NHandles /\ NHandles \in Nat
      BY <1>1, IoAssumption DEF IInv, Blame, Control
    <2>2. PICK u \in Threads : u = joined + 1
      BY <2>1 DEF Threads
    <2>3. u \notin Decompressors
      BY <1>1, <2>1, <2>2 DEF IInv, Blame
    <2>4. u # Resegmenter
      <3>1. ASSUME u = Resegmenter
            PROVE  FALSE
        <4>1. PICK t \in Decryptors : ending[t] = "err"
          BY <1>1, <2>1, <2>2, <3>1 DEF IInv, Blame
        <4>2. t \in 1..joined
          BY <2>1, <2>2, <3>1, DecryptAssumption DEF Resegmenter, Decryptors
        <4> QED BY <2>1, <4>1, <4>2
      <3> QED BY <3>1
    <2>5. u \in Decryptors
      BY <2>2, <2>3, <2>4, ThreadFacts
    <2>6. ~Intact
      BY <1>1, <2>1, <2>2, <2>5 DEF IInv, Blame
    <2> QED BY <2>2, <2>5, <2>6
  <1> QED BY <1>1, DecryptInvariance, PTL DEF DecryptErrorShown

(***************************************************************************)
(* Refinement: a write is Emit, write_others is Seal, the return of an     *)
(* error is Fail, the return of Ok is Succeed; all else is a stutter.      *)
(***************************************************************************)
LEMMA StreamUnchanged ==
  ASSUME source' = source, UNCHANGED <<written, wpc, result>>
  PROVE  UNCHANGED Ordered!vars
  BY DefinedBySource DEF Ordered!vars, Verdict

LEMMA StreamStep ==
  ASSUME IInv, [Next]_vars
  PROVE  [Ordered!Next]_(Ordered!vars)
  <1>0. /\ source' = source /\ Contents' = Contents /\ Control /\ Buffer /\ Downstream
        /\ result \in {"none", "ok", "read", "writer", "crypt"}
        /\ result = "ok" => wpc = "ok"
        /\ mpc \in {"done", "exited"} <=> result # "none"
    BY SourceFixed, DefinedBySource DEF IInv, Control, Blame
  <1>1. ASSUME Return("read") \/ Return("writer") \/ Return("crypt"),
               mpc \notin {"done", "exited"}, UNCHANGED <<wpc, written>>
        PROVE  Ordered!Fail
    BY <1>0, <1>1 DEF Return, Ordered!Fail, Verdict
  <1>2. CASE Main
    <2>1. CASE MainRead \/ MainSend \/ MainSendClosed \/ MainExit
      BY <1>0, <2>1, StreamUnchanged
      DEF MainRead, MainSend, MainSendClosed, MainExit, writerVars
    <2>2. CASE MainReadError \/ MainProgressError
      BY <1>1, <2>2 DEF MainReadError, MainProgressError, SendChunk, writerVars, Ordered!Next
    <2>3. CASE MainJoinWriter
      BY <1>0, <1>1, <2>3, StreamUnchanged DEF MainJoinWriter, writerVars, Ordered!Next
    <2>4. CASE MainJoinCrypt
      BY <1>0, <1>1, <2>4, StreamUnchanged DEF MainJoinCrypt, writerVars, Ordered!Next
    <2>5. CASE MainOk
      <3>1. result' = "ok" /\ result = "none" /\ wpc = "ok" /\ UNCHANGED <<wpc, written>>
        BY <1>0, <2>5 DEF MainOk, Return, writerVars, Control
      <3>2. chunkCount = NChunks /\ \A t \in Threads : ending[t] = "ok"
        <4>1. \A t \in Threads : ending[t] = "ok"
          BY <1>0, <2>5 DEF MainOk, Control, Threads
        <4> QED BY <1>0, <2>5, <3>1, <4>1 DEF MainOk, Control, Failed
      <3>3. writeIndex = newCount /\ newCount = Len(Contents)
        BY <3>1, <3>2, OkIsAll
      <3>4. written = Contents
        BY <1>0, <3>3, WrittenFacts, SubSeqFull
      <3> QED BY <1>0, <3>1, <3>4 DEF Ordered!Succeed, Ordered!Next, Verdict
    <2> QED BY <1>2, <2>1, <2>2, <2>3, <2>4, <2>5 DEF Main, MainNext
  <1>3. CASE Writer
    <2>1. CASE WriterRecv \/ WriterDrained \/ WriterRecvClosed
               \/ WriterWriteError \/ WriterOthersError
      <3>1. wpc # "ok" /\ wpc' # "ok" /\ UNCHANGED <<written, result>>
        BY <2>1 DEF WriterRecv, WriterDrained, WriterRecvClosed, WriterWriteError,
           WriterOthersError, mainVars
      <3> QED BY <1>0, <3>1 DEF Ordered!vars, Verdict
    <2>2. CASE WriterWrite
      <3>1. PICK m \in pending : m.idx = writeIndex /\ written' = Append(written, m.buf)
        BY <2>2 DEF WriterWrite
      <3>2. wpc = "drain" /\ UNCHANGED <<wpc, result>>
        BY <2>2 DEF WriterWrite, mainVars
      <3>3. /\ writeIndex \in 0..(newCount - 1) /\ newCount \in 0..Len(Contents)
            /\ m.buf = Contents[writeIndex + 1]
        BY <1>0, <3>1, WriteFacts
      <3>4. Len(written) = writeIndex /\ Len(written) < Len(Contents)
        BY <1>0, <3>3, WrittenFacts
      <3> QED BY <1>0, <3>1, <3>2, <3>3, <3>4 DEF Ordered!Emit, Ordered!Next, Verdict
    <2>3. CASE WriterOthers
      <3>1. wpc = "others" /\ wpc' = "ok" /\ UNCHANGED <<written, result>>
        BY <2>3 DEF WriterOthers, mainVars
      <3> QED BY <1>0, <3>1 DEF Ordered!Seal, Ordered!Next, Verdict
    <2> QED BY <1>3, <2>1, <2>2, <2>3 DEF Writer, WriterNext
  <1>4. ASSUME UNCHANGED <<written, wpc, result>>
        PROVE  [Ordered!Next]_(Ordered!vars)
    BY <1>0, <1>4, StreamUnchanged
  <1>5. CASE ResegNext
    BY <1>4, <1>5, ResegKeeps, ThreadFacts DEF ResegNext, ResegRecv, ResegTake, ResegDrained,
       ParseLength, ParseFrame, ParseMore, ResegRecvClosed, ResegSendClosed, ResegEnd,
       ioVars, mainVars, writerVars
  <1>6. CASE (\E t \in Decryptors : DecryptNext(t)) \/ (\E t \in Decompressors : DecompressNext(t))
    BY <1>4, <1>6 DEF DecryptNext, DecryptRecv, DecryptRecvClosed, DecryptWork, DecryptError,
       DecryptSend, DecryptSendClosed, DecompressNext, DecompressRecv, DecompressRecvClosed,
       DecompressWork, DecompressError, DecompressSend, DecompressSendClosed, End,
       mainVars, writerVars
  <1>7. CASE UNCHANGED vars
    BY <1>4, <1>7 DEF vars, ioVars
  <1> QED BY <1>2, <1>3, <1>5, <1>6, <1>7 DEF Next, Exited

\* The whole chain, with its two reorderings and its parser, implements
\* OrderedStream: the sink gets the content of the file from its beginning, piece
\* by piece, nothing once it was finalised, and Ok only when it has everything.
THEOREM DecryptImplementation == Spec => ImplementsStream
  <1>1. Init => Ordered!Init
    BY DEF Init, IoInit, Ordered!Init, Verdict
  <1>2. IInv /\ [Next]_vars => [Ordered!Next]_(Ordered!vars)
    BY StreamStep
  <1> QED BY <1>1, <1>2, DecryptInvariance, PTL DEF Spec, ImplementsStream, Ordered!Spec

=============================================================================
