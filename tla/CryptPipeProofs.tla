-------------------------- MODULE CryptPipeProofs --------------------------
(***************************************************************************)
(* Proofs about the pipeline without compression, for every number of      *)
(* workers, chunks and channel slots.                                      *)
(***************************************************************************)
EXTENDS CryptPipeInvariant, SequenceTheorems, TLAPS

-----------------------------------------------------------------------------
(* Channels.                                                               *)

LEMMA SendProperties ==
  ASSUME NEW S, NEW q \in Seq(S), NEW m \in S
  PROVE  /\ Append(q, m) \in Seq(S)
         /\ Len(Append(q, m)) = Len(q) + 1
         /\ \A i \in 1..Len(q) : Append(q, m)[i] = q[i]
         /\ Append(q, m)[Len(q) + 1] = m
  OBVIOUS

LEMMA RecvProperties ==
  ASSUME NEW S, NEW q \in Seq(S), q # <<>>
  PROVE  /\ Head(q) \in S /\ Head(q) = q[1]
         /\ Tail(q) \in Seq(S) /\ Len(Tail(q)) = Len(q) - 1
         /\ \A i \in 1..(Len(q) - 1) : Tail(q)[i] = q[i + 1]
         /\ Len(q) \in Nat /\ Len(q) > 0
  OBVIOUS

-----------------------------------------------------------------------------
(* The source of a run is fixed, and with it all that is defined by it.    *)

LEMMA SourceFixed ==
  ASSUME [Next]_vars
  PROVE  source' = source
  BY DEF Next, vars, ioVars, mainVars, writerVars, pipeVars, Main, Writer, Exited,
     MainNext, MainRead, MainReadError, MainSend, MainProgressError,
     MainSendClosed, MainJoinWriter, MainJoinCrypt, MainOk, MainExit,
     WriterNext, WriterRecv, WriterWrite, WriterWriteError, WriterDrained,
     WriterRecvClosed, WriterOthers, WriterOthersError,
     WorkerNext, WorkerRecv, WorkerRecvClosed, WorkerCrypt, WorkerCryptError,
     WorkerSend, WorkerSendClosed, End

LEMMA DefinedBySource ==
  ASSUME source' = source
  PROVE  /\ NChunks' = NChunks /\ InMsgs' = InMsgs /\ OutMsgs' = OutMsgs
         /\ Results' = Results /\ Intact' = Intact /\ Expected' = Expected
         /\ Decrypting' = Decrypting
  <1>0. Decrypting' = Decrypting
    BY DEF Decrypting
  <1>1. NChunks' = NChunks
    BY DEF NChunks
  <1>2. InMsgs' = InMsgs
    BY <1>1 DEF InMsgs, InMsg, IsFinal, NChunks
  <1>3. OutMsgs' = OutMsgs
    BY <1>0, <1>2 DEF OutMsgs, OutMsg, Authentic, Crypted
  <1>4. Results' = Results
    BY <1>3 DEF Results
  <1>5. Intact' = Intact
    BY DEF Intact, InPlace, NChunks
  <1>6. Expected' = Expected
    BY <1>0, <1>1 DEF Expected, Crypted, InMsg, IsFinal, NChunks
  <1> QED BY <1>0, <1>1, <1>2, <1>3, <1>4, <1>5, <1>6

LEMMA SourceLength ==
  ASSUME source \in Sources
  PROVE  NChunks \in Nat \ {0}
  BY IoAssumption DEF NChunks

LEMMA MessageFacts ==
  ASSUME source \in Sources
  PROVE  /\ \A k \in 0..(NChunks - 1) : InMsg(k) \in InMsgs /\ InMsg(k).idx = k
         /\ \A m \in InMsgs : m.idx \in 0..(NChunks - 1) /\ m = InMsg(m.idx)
         /\ \A m \in InMsgs : Authentic(m) => OutMsg(m) \in OutMsgs /\ OutMsg(m).idx = m.idx
         /\ \A m \in OutMsgs : /\ m.idx \in 0..(NChunks - 1)
                               /\ m.buf = Crypted(InMsg(m.idx))
                               /\ Authentic(InMsg(m.idx))
                               /\ m.buf \in Results
  <1>1. \A k \in 0..(NChunks - 1) : InMsg(k) \in InMsgs /\ InMsg(k).idx = k
    BY DEF InMsgs, InMsg
  <1>2. \A m \in InMsgs : m.idx \in 0..(NChunks - 1) /\ m = InMsg(m.idx)
    BY <1>1 DEF InMsgs
  <1>3. \A m \in InMsgs : Authentic(m) => OutMsg(m) \in OutMsgs /\ OutMsg(m).idx = m.idx
    BY DEF OutMsgs, OutMsg
  <1>4. \A m \in OutMsgs : /\ m.idx \in 0..(NChunks - 1)
                           /\ m.buf = Crypted(InMsg(m.idx))
                           /\ Authentic(InMsg(m.idx))
                           /\ m.buf \in Results
    <2> TAKE m \in OutMsgs
    <2>1. PICK n \in InMsgs : Authentic(n) /\ m = OutMsg(n)
      BY DEF OutMsgs
    <2>2. m.idx = n.idx /\ m.buf = Crypted(n)
      BY <2>1 DEF OutMsg
    <2>3. m.buf \in Results
      BY DEF Results
    <2> QED BY <1>2, <2>1, <2>2, <2>3
  <1> QED BY <1>1, <1>2, <1>3, <1>4

-----------------------------------------------------------------------------
(* The three parts of the invariant hold initially.                        *)

LEMMA InitIInv ==
  ASSUME Init
  PROVE  IInv
  <1>1. NChunks \in Nat \ {0}
    BY SourceLength DEF Init, IoInit
  <1>2. Places
    BY <1>1, IoAssumption DEF Places, Init, IoInit
  <1>3. Control
    <2> SUFFICES ASSUME Init, NChunks \in Nat \ {0}
                 PROVE  Control
      BY <1>1
    <2>1. ~Decrypting \/ ~(\E t \in Threads : ending[t] = "err")
      BY DEF Init, IoInit
    <2>2. \A t \in Threads : ending[t] = "running"
      BY DEF Init, IoInit
    <2>3. /\ mpc = "read" /\ wpc = "recv" /\ chunkCount = 0 /\ joined = 0
          /\ result = "none" /\ finalised = FALSE /\ pending = {}
      BY DEF Init, IoInit
    <2>4. chunkCount \in 0..NChunks /\ joined \in 0..NHandles /\ chunkCount < NChunks
      BY <2>3, IoAssumption
    <2> QED BY <2>1, <2>2, <2>3, <2>4 DEF Control, MainStates
  <1>4. NothingLost
    BY DEF NothingLost, Init, IoInit
  <1> QED BY <1>2, <1>3, <1>4 DEF IInv

-----------------------------------------------------------------------------
(* Every step keeps each part.                                             *)

LEMMA PlacesStep ==
  ASSUME IInv, [Next]_vars
  PROVE  Places'
  <1>a. mpc = "send" => InMsg(chunkCount) \in InMsgs
    <2>1. source \in Sources
      BY DEF IInv, Places
    <2>2. mpc = "send" => chunkCount \in Nat /\ chunkCount < NChunks
      BY DEF IInv, Control
    <2>3. NChunks \in Nat
      BY <2>1, SourceLength
    <2>4. mpc = "send" => chunkCount \in 0..(NChunks - 1)
      BY <2>2, <2>3
    <2> QED BY <2>1, <2>4, MessageFacts
  <1> USE SourceFixed, DefinedBySource
  <1> USE DEF IInv, Places
  <1>0. /\ NChunks \in Nat \ {0}
        /\ source' \in Sources
        /\ \A k \in 0..(NChunks - 1) : /\ (Crypted(InMsg(k)))' = Crypted(InMsg(k))
                                       /\ (Authentic(InMsg(k)))' = Authentic(InMsg(k))
    BY SourceLength, DefinedBySource DEF Crypted, Authentic, InMsg, IsFinal
  <1>1. CASE MainRead /\ UNCHANGED pipeVars
    BY <1>0, <1>1 DEF MainRead, pipeVars, writerVars
  <1>2. CASE MainReadError /\ UNCHANGED pipeVars
    BY <1>0, <1>2 DEF MainReadError, pipeVars, writerVars
  <1>3. ASSUME SendChunk
        PROVE  chIn' \in Seq(InMsgs) /\ Len(chIn') <= CapIn
    <2>1. InMsg(chunkCount) \in InMsgs
      BY <1>a, <1>3 DEF SendChunk
    <2> QED BY <1>3, <2>1, SendProperties, IoAssumption DEF SendChunk
  <1>4. CASE MainSend /\ UNCHANGED pipeVars
    BY <1>0, <1>3, <1>4 DEF MainSend, pipeVars, writerVars
  <1>5. CASE MainProgressError /\ UNCHANGED pipeVars
    BY <1>0, <1>3, <1>5 DEF MainProgressError, pipeVars, writerVars
  <1>6. CASE MainSendClosed /\ UNCHANGED pipeVars
    BY <1>0, <1>6 DEF MainSendClosed, pipeVars, writerVars
  <1>7. CASE MainJoinWriter /\ UNCHANGED pipeVars
    BY <1>0, <1>7 DEF MainJoinWriter, pipeVars, writerVars
  <1>8. CASE MainJoinCrypt /\ UNCHANGED pipeVars
    BY <1>0, <1>8 DEF MainJoinCrypt, pipeVars, writerVars
  <1>9. CASE MainOk /\ UNCHANGED pipeVars
    BY <1>0, <1>9 DEF MainOk, pipeVars, writerVars
  <1>10. CASE MainExit /\ UNCHANGED pipeVars
    BY <1>0, <1>10 DEF MainExit, pipeVars, writerVars
  <1>11. CASE WriterRecv /\ UNCHANGED pipeVars
    <2>1. /\ Head(chOut) \in OutMsgs /\ Tail(chOut) \in Seq(OutMsgs)
          /\ Len(Tail(chOut)) <= CapOut
      BY <1>11, RecvProperties, IoAssumption DEF WriterRecv
    <2> QED BY <1>0, <1>11, <2>1 DEF WriterRecv, pipeVars, mainVars
  <1>12. CASE WriterWrite /\ UNCHANGED pipeVars
    <2>1. PICK m \in pending : /\ m.idx = writeIndex
                               /\ written' = Append(written, m.buf)
                               /\ pending' = pending \ {m}
      BY <1>12 DEF WriterWrite
    <2>2. /\ writeIndex \in 0..(NChunks - 1) /\ m.buf \in Results
          /\ m.buf = Crypted(InMsg(writeIndex)) /\ Authentic(InMsg(writeIndex))
      BY <2>1, MessageFacts
    <2>3. writeIndex' = writeIndex + 1 /\ writeIndex' \in 0..NChunks
      BY <1>0, <1>12, <2>2 DEF WriterWrite
    <2>4. /\ written' \in Seq(Results) /\ Len(written') = writeIndex'
          /\ \A i \in 1..writeIndex : written'[i] = written[i]
          /\ written'[writeIndex + 1] = m.buf
      BY <2>1, <2>2, <2>3, SendProperties
    <2>5. ASSUME NEW k \in 0..(writeIndex' - 1)
          PROVE  written'[k + 1] = Crypted(InMsg(k)) /\ Authentic(InMsg(k))
      <3>1. CASE k < writeIndex
        <4>1. k \in 0..(writeIndex - 1) /\ k + 1 \in 1..writeIndex
          BY <2>2, <2>3, <3>1
        <4> QED BY <2>4, <4>1
      <3>2. CASE k = writeIndex
        BY <2>2, <2>4, <3>2
      <3> QED BY <2>2, <2>3, <3>1, <3>2
    <2>6. \A k \in 0..(writeIndex' - 1) : k \in 0..(NChunks - 1)
      BY <1>0, <2>3
    <2> QED BY <1>0, <1>12, <2>1, <2>3, <2>4, <2>5, <2>6 DEF WriterWrite, pipeVars, mainVars
  <1>13. CASE WriterWriteError /\ UNCHANGED pipeVars
    BY <1>0, <1>13 DEF WriterWriteError, pipeVars, mainVars
  <1>14. CASE WriterDrained /\ UNCHANGED pipeVars
    BY <1>0, <1>14 DEF WriterDrained, pipeVars, mainVars
  <1>15. CASE WriterRecvClosed /\ UNCHANGED pipeVars
    BY <1>0, <1>15 DEF WriterRecvClosed, pipeVars, mainVars
  <1>16. CASE WriterOthers /\ UNCHANGED pipeVars
    BY <1>0, <1>16 DEF WriterOthers, pipeVars, mainVars
  <1>17. CASE WriterOthersError /\ UNCHANGED pipeVars
    BY <1>0, <1>17 DEF WriterOthersError, pipeVars, mainVars
  <1>18. ASSUME NEW t \in Threads, WorkerRecv(t)
         PROVE  Places'
    <2>1. /\ Head(chIn) \in InMsgs /\ Tail(chIn) \in Seq(InMsgs)
          /\ Len(Tail(chIn)) <= CapIn
      BY <1>18, RecvProperties, IoAssumption DEF WorkerRecv
    <2>2. /\ hold' = [hold EXCEPT ![t] = Head(chIn)]
          /\ stage' = [stage EXCEPT ![t] = "crypt"]
          /\ chIn' = Tail(chIn) /\ UNCHANGED <<chOut, ending>>
      BY <1>18 DEF WorkerRecv
    <2>3. ASSUME NEW u \in Threads, ending'[u] = "running"
          PROVE  /\ stage'[u] = "crypt" => hold'[u] \in InMsgs
                 /\ stage'[u] = "send"  => hold'[u] \in OutMsgs
      BY <2>1, <2>2, <2>3
    <2>4. stage' \in [Threads -> {"recv", "crypt", "send"}] /\ DOMAIN hold' = Threads
      BY <2>2
    <2>5. UNCHANGED <<pending, writeIndex, written>>
      BY <1>18 DEF WorkerRecv, writerVars
    <2> QED BY <1>0, <2>1, <2>2, <2>3, <2>4, <2>5
  <1>19. ASSUME NEW t \in Threads, End(t, "ok") \/ End(t, "err")
         PROVE  Places'
    <2>1. PICK how \in {"ok", "err"} : End(t, how)
      BY <1>19
    <2>2. /\ ending' = [ending EXCEPT ![t] = how]
          /\ hold' = [hold EXCEPT ![t] = NoChunk]
          /\ UNCHANGED <<chIn, chOut, stage>>
      BY <2>1 DEF End
    <2>3. ASSUME NEW u \in Threads, ending'[u] = "running"
          PROVE  u # t /\ ending[u] = "running" /\ hold'[u] = hold[u]
      BY <2>2, <2>3
    <2>4. UNCHANGED <<pending, writeIndex, written>>
      BY <2>1 DEF End, writerVars
    <2> QED BY <1>0, <2>2, <2>3, <2>4
  <1>20. ASSUME NEW t \in Threads, WorkerCrypt(t)
         PROVE  Places'
    <2>1. OutMsg(hold[t]) \in OutMsgs
      BY <1>20, MessageFacts DEF WorkerCrypt, Running
    <2> QED BY <1>0, <1>20, <2>1 DEF WorkerCrypt, Running, mainVars, writerVars
  <1>21. ASSUME NEW t \in Threads, WorkerSend(t)
         PROVE  Places'
    <2>1. /\ hold[t] \in OutMsgs
      BY <1>21 DEF WorkerSend, Running
    <2>2. chOut' \in Seq(OutMsgs) /\ Len(chOut') <= CapOut
      BY <1>21, <2>1, SendProperties, IoAssumption DEF WorkerSend
    <2> QED BY <1>0, <1>21, <2>2 DEF WorkerSend, Running, mainVars, writerVars
  <1>22. CASE UNCHANGED vars
    BY <1>0, <1>22 DEF vars, ioVars
  <1> QED
    BY <1>1, <1>2, <1>4, <1>5, <1>6, <1>7, <1>8, <1>9, <1>10, <1>11, <1>12, <1>13,
       <1>14, <1>15, <1>16, <1>17, <1>18, <1>19, <1>20, <1>21, <1>22
    DEF Next, Main, Writer, Exited, MainNext, WriterNext, WorkerNext,
        WorkerRecvClosed, WorkerCryptError, WorkerSendClosed

LEMMA ControlStep ==
  ASSUME IInv, [Next]_vars
  PROVE  Control'
  <1> USE PipeAssumption DEF IInv, Control, Failed, MainStates
  <1>0. /\ NChunks \in Nat \ {0} /\ NHandles \in Nat \ {0}
        /\ NChunks' = NChunks /\ (Intact' <=> Intact)
        /\ (Decrypting' <=> Decrypting)
        /\ 1 \in Threads
        /\ ending \in [Threads -> {"running", "ok", "err"}]
    BY SourceFixed, DefinedBySource, SourceLength, IoAssumption DEF Places, Threads
  <1>1. CASE MainRead /\ UNCHANGED pipeVars
    BY <1>0, <1>1 DEF MainRead, pipeVars, writerVars, TxInOpen
  <1>2. CASE MainReadError /\ UNCHANGED pipeVars
    BY <1>0, <1>2 DEF MainReadError, pipeVars, writerVars, TxInOpen, Return
  <1>4. CASE MainSend /\ UNCHANGED pipeVars
    BY <1>0, <1>4 DEF MainSend, SendChunk, pipeVars, writerVars, TxInOpen, IsFinal
  <1>5. CASE MainProgressError /\ UNCHANGED pipeVars
    BY <1>0, <1>5 DEF MainProgressError, SendChunk, pipeVars, writerVars, TxInOpen, Return
  <1>6. CASE MainSendClosed /\ UNCHANGED pipeVars
    BY <1>0, <1>6 DEF MainSendClosed, pipeVars, writerVars, TxInOpen, RxInOpen
  <1>7. CASE MainJoinWriter /\ UNCHANGED pipeVars
    <2>1. CASE wpc = "err"
      BY <1>0, <1>7, <2>1 DEF MainJoinWriter, pipeVars, writerVars, TxInOpen, Return
    <2>2. CASE wpc = "ok"
      BY <1>0, <1>7, <2>2 DEF MainJoinWriter, pipeVars, writerVars, TxInOpen, WriterRuns
    <2> QED BY <1>7, <2>1, <2>2 DEF MainJoinWriter, WriterRuns
  <1>8. CASE MainJoinCrypt /\ UNCHANGED pipeVars
    BY <1>0, <1>8 DEF MainJoinCrypt, pipeVars, writerVars, TxInOpen, Return, Threads
  <1>9. CASE MainOk /\ UNCHANGED pipeVars
    BY <1>0, <1>9 DEF MainOk, pipeVars, writerVars, TxInOpen, Return, Threads
  <1>10. CASE MainExit /\ UNCHANGED pipeVars
    BY <1>0, <1>10 DEF MainExit, pipeVars, writerVars, TxInOpen
  <1>11. CASE WriterRecv /\ UNCHANGED pipeVars
    BY <1>0, <1>11 DEF WriterRecv, pipeVars, mainVars, TxInOpen
  <1>12. CASE WriterWrite /\ UNCHANGED pipeVars
    BY <1>0, <1>12 DEF WriterWrite, pipeVars, mainVars, TxInOpen
  <1>13. CASE WriterWriteError /\ UNCHANGED pipeVars
    BY <1>0, <1>13 DEF WriterWriteError, pipeVars, mainVars, TxInOpen
  <1>14. CASE WriterDrained /\ UNCHANGED pipeVars
    BY <1>0, <1>14 DEF WriterDrained, pipeVars, mainVars, TxInOpen
  <1>15. CASE WriterRecvClosed /\ UNCHANGED pipeVars
    BY <1>0, <1>15 DEF WriterRecvClosed, pipeVars, mainVars, TxInOpen, TxOutOpen
  <1>16. CASE WriterOthers /\ UNCHANGED pipeVars
    BY <1>0, <1>16 DEF WriterOthers, pipeVars, mainVars, TxInOpen
  <1>17. CASE WriterOthersError /\ UNCHANGED pipeVars
    BY <1>0, <1>17 DEF WriterOthersError, pipeVars, mainVars, TxInOpen
  <1>18. ASSUME NEW t \in Threads, WorkerRecv(t)
         PROVE  Control'
    BY <1>0, <1>18 DEF WorkerRecv, Running, mainVars, writerVars, TxInOpen
  <1>19. ASSUME NEW t \in Threads, WorkerRecvClosed(t)
         PROVE  Control'
    BY <1>0, <1>19 DEF WorkerRecvClosed, Running, End, mainVars, writerVars, TxInOpen
  <1>20. ASSUME NEW t \in Threads, WorkerCrypt(t)
         PROVE  Control'
    BY <1>0, <1>20 DEF WorkerCrypt, Running, mainVars, writerVars, TxInOpen
  <1>21. ASSUME NEW t \in Threads, WorkerCryptError(t)
         PROVE  Control'
    <2>1. Decrypting => ~Intact
      <3> SUFFICES ASSUME Decrypting PROVE ~Intact
        OBVIOUS
      <3>1. hold[t] \in InMsgs /\ ~Authentic(hold[t])
        BY <1>21 DEF WorkerCryptError, Running, Places
      <3>2. PICK k \in 0..(NChunks - 1) : hold[t] = InMsg(k)
        BY <3>1 DEF InMsgs
      <3>3. ~InPlace(k)
        BY <1>0, <3>1, <3>2 DEF Authentic, Opens, InMsg, InPlace, IsFinal
      <3> QED BY <3>3 DEF Intact
    <2>2. /\ ending[t] = "running" /\ ending' = [ending EXCEPT ![t] = "err"]
          /\ UNCHANGED <<mainVars, chIn, chOut, writerVars>>
      BY <1>21 DEF WorkerCryptError, Running, End
    <2> QED BY <1>0, <2>1, <2>2 DEF mainVars, writerVars, TxInOpen
  <1>22. ASSUME NEW t \in Threads, WorkerSend(t)
         PROVE  Control'
    BY <1>0, <1>22 DEF WorkerSend, Running, mainVars, writerVars, TxInOpen, RxOutOpen
  <1>23. ASSUME NEW t \in Threads, WorkerSendClosed(t)
         PROVE  Control'
    BY <1>0, <1>23 DEF WorkerSendClosed, Running, End, mainVars, writerVars, TxInOpen, RxOutOpen
  <1>24. CASE UNCHANGED vars
    BY <1>0, <1>24 DEF vars, ioVars, TxInOpen
  <1> QED
    BY <1>1, <1>2, <1>4, <1>5, <1>6, <1>7, <1>8, <1>9, <1>10, <1>11, <1>12, <1>13,
       <1>14, <1>15, <1>16, <1>17, <1>18, <1>19, <1>20, <1>21, <1>22, <1>23, <1>24
    DEF Next, Main, Writer, Exited, MainNext, WriterNext, WorkerNext

(***************************************************************************)
(* A chunk that is somewhere and moves is somewhere afterwards, unless the *)
(* step is the failure of a thread.                                        *)
(***************************************************************************)
LEMMA NothingLostStep ==
  ASSUME IInv, [Next]_vars
  PROVE  NothingLost'
  <1> USE SourceFixed, DefinedBySource
  <1> USE DEF IInv, Failed
  <1> SUFFICES ASSUME ~Failed', NEW k \in 0..(chunkCount' - 1)
               PROVE  Somewhere(k)'
    BY DEF NothingLost
  <1>0. /\ NChunks \in Nat \ {0} /\ chunkCount \in Nat /\ writeIndex \in Nat
        /\ Len(chIn) \in Nat /\ Len(chOut) \in Nat
        /\ ending \in [Threads -> {"running", "ok", "err"}]
        /\ stage \in [Threads -> {"recv", "crypt", "send"}]
        /\ DOMAIN hold = Threads
    BY SourceLength DEF Places, Control
  <1>a. ASSUME ~Failed, k < chunkCount
        PROVE  Somewhere(k)
    BY <1>0, <1>a DEF NothingLost
  <1>b. ASSUME UNCHANGED <<wpc, ending, chunkCount, writeIndex, pending, chOut, hold,
                           stage, chIn>>
        PROVE  Somewhere(k)'
    BY <1>0, <1>a, <1>b DEF Somewhere, InHand
  <1>1. CASE (MainRead \/ MainReadError \/ MainSendClosed \/ MainJoinWriter
              \/ MainJoinCrypt \/ MainOk \/ MainExit) /\ UNCHANGED pipeVars
    BY <1>b, <1>1 DEF MainRead, MainReadError, MainSendClosed, MainJoinWriter,
       MainJoinCrypt, MainOk, MainExit, pipeVars, writerVars
  <1>2. CASE (MainSend \/ MainProgressError) /\ UNCHANGED pipeVars
    <2>1. /\ chIn' = Append(chIn, InMsg(chunkCount))
          /\ chunkCount' = chunkCount + 1 \/ chunkCount' = chunkCount
          /\ UNCHANGED <<wpc, ending, writeIndex, pending, chOut, hold, stage>>
      BY <1>2 DEF MainSend, MainProgressError, SendChunk, pipeVars, writerVars
    <2>2. chunkCount \in 0..(NChunks - 1)
      BY <1>0, <1>2 DEF MainSend, MainProgressError, SendChunk, Control
    <2>3. InMsg(chunkCount) \in InMsgs /\ InMsg(chunkCount).idx = chunkCount
      BY <2>2, MessageFacts DEF Places
    <2>4. /\ Len(chIn') = Len(chIn) + 1
          /\ \A i \in 1..Len(chIn) : chIn'[i] = chIn[i]
          /\ chIn'[Len(chIn) + 1].idx = chunkCount
      BY <2>1, <2>3, SendProperties DEF Places
    <2>5. CASE k < chunkCount
      BY <1>0, <1>a, <2>1, <2>4, <2>5 DEF Somewhere, InHand
    <2>6. CASE k = chunkCount
      BY <1>0, <2>4, <2>6 DEF Somewhere
    <2> QED BY <1>0, <2>1, <2>5, <2>6
  <1>3. CASE WriterRecv /\ UNCHANGED pipeVars
    <2>1. /\ pending' = pending \cup {Head(chOut)} /\ chOut' = Tail(chOut) /\ chOut # <<>>
          /\ UNCHANGED <<ending, chunkCount, writeIndex, hold, stage, chIn>>
          /\ ~Failed
      BY <1>3 DEF WriterRecv, pipeVars, mainVars
    <2>2. /\ Head(chOut) = chOut[1] /\ Len(chOut') = Len(chOut) - 1
          /\ \A i \in 1..(Len(chOut) - 1) : chOut'[i] = chOut[i + 1]
      BY <2>1, RecvProperties DEF Places
    <2>3. ASSUME NEW i \in 1..Len(chOut), chOut[i].idx = k
          PROVE  Somewhere(k)'
      <3>1. CASE i = 1
        BY <2>1, <2>2, <2>3, <3>1 DEF Somewhere
      <3>2. CASE i # 1
        <4>1. i - 1 \in 1..Len(chOut') /\ chOut'[i - 1] = chOut[i]
          BY <1>0, <2>2, <3>2
        <4> QED BY <2>3, <4>1 DEF Somewhere
      <3> QED BY <3>1, <3>2
    <2> QED BY <1>0, <1>a, <2>1, <2>3 DEF Somewhere, InHand
  <1>4. CASE WriterWrite /\ UNCHANGED pipeVars
    <2>1. PICK m \in pending : m.idx = writeIndex /\ pending' = pending \ {m}
      BY <1>4 DEF WriterWrite
    <2>2. /\ writeIndex' = writeIndex + 1 /\ ~Failed
          /\ UNCHANGED <<ending, chunkCount, chOut, hold, stage, chIn>>
      BY <1>4 DEF WriterWrite, pipeVars, mainVars
    <2> QED BY <1>0, <1>a, <2>1, <2>2 DEF Somewhere, InHand
  <1>5. CASE WriterWriteError /\ UNCHANGED pipeVars
    BY <1>5 DEF WriterWriteError
  <1>6. CASE (WriterDrained \/ WriterRecvClosed \/ WriterOthers) /\ UNCHANGED pipeVars
    <2>1. /\ ~Failed
          /\ UNCHANGED <<ending, chunkCount, writeIndex, pending, chOut, hold, stage, chIn>>
      BY <1>6 DEF WriterDrained, WriterRecvClosed, WriterOthers, pipeVars, mainVars
    <2> QED BY <1>0, <1>a, <2>1 DEF Somewhere, InHand
  <1>7. CASE WriterOthersError /\ UNCHANGED pipeVars
    BY <1>7 DEF WriterOthersError
  <1>8. ASSUME NEW t \in Threads, WorkerRecv(t)
        PROVE  Somewhere(k)'
    <2>1. /\ ending[t] = "running" /\ stage[t] = "recv"
          /\ hold' = [hold EXCEPT ![t] = Head(chIn)]
          /\ stage' = [stage EXCEPT ![t] = "crypt"]
          /\ chIn' = Tail(chIn) /\ chIn # <<>>
          /\ UNCHANGED <<wpc, ending, chunkCount, writeIndex, pending, chOut>>
      BY <1>8 DEF WorkerRecv, Running, mainVars, writerVars
    <2>2. /\ Head(chIn) = chIn[1] /\ Len(chIn') = Len(chIn) - 1
          /\ \A i \in 1..(Len(chIn) - 1) : chIn'[i] = chIn[i + 1]
      BY <2>1, RecvProperties DEF Places
    <2>3. InHand(t)' /\ hold'[t] = chIn[1]
      BY <1>0, <2>1, <2>2 DEF InHand
    <2>4. ASSUME NEW i \in 1..Len(chIn), chIn[i].idx = k
          PROVE  Somewhere(k)'
      <3>1. CASE i = 1
        BY <2>3, <2>4, <3>1 DEF Somewhere
      <3>2. CASE i # 1
        <4>1. i - 1 \in 1..Len(chIn') /\ chIn'[i - 1] = chIn[i]
          BY <1>0, <2>2, <3>2
        <4> QED BY <2>4, <4>1 DEF Somewhere
      <3> QED BY <3>1, <3>2
    <2>5. ASSUME NEW u \in Threads, InHand(u), hold[u].idx = k
          PROVE  InHand(u)' /\ hold'[u].idx = k
      BY <1>0, <2>1, <2>5 DEF InHand
    <2> QED BY <1>0, <1>a, <2>1, <2>4, <2>5 DEF Somewhere
  <1>9. ASSUME NEW t \in Threads, WorkerRecvClosed(t)
        PROVE  Somewhere(k)'
    <2>1. /\ ending[t] = "running" /\ stage[t] = "recv"
          /\ hold' = [hold EXCEPT ![t] = NoChunk]
          /\ ending' = [ending EXCEPT ![t] = "ok"]
          /\ UNCHANGED <<wpc, stage, chIn, chunkCount, writeIndex, pending, chOut>>
      BY <1>9 DEF WorkerRecvClosed, Running, End, mainVars, writerVars
    <2>2. ~Failed
      BY <1>0, <2>1
    <2>3. ASSUME NEW u \in Threads, InHand(u), hold[u].idx = k
          PROVE  InHand(u)' /\ hold'[u].idx = k
      BY <1>0, <2>1, <2>3 DEF InHand
    <2> QED BY <1>0, <1>a, <2>1, <2>2, <2>3 DEF Somewhere
  <1>10. ASSUME NEW t \in Threads, WorkerCrypt(t)
         PROVE  Somewhere(k)'
    <2>1. /\ ending[t] = "running" /\ stage[t] = "crypt"
          /\ hold' = [hold EXCEPT ![t] = OutMsg(hold[t])]
          /\ stage' = [stage EXCEPT ![t] = "send"]
          /\ UNCHANGED <<wpc, ending, chIn, chunkCount, writeIndex, pending, chOut>>
      BY <1>10 DEF WorkerCrypt, Running, mainVars, writerVars
    <2>2. OutMsg(hold[t]).idx = hold[t].idx
      BY DEF OutMsg
    <2>3. ASSUME NEW u \in Threads, InHand(u), hold[u].idx = k
          PROVE  InHand(u)' /\ hold'[u].idx = k
      BY <1>0, <2>1, <2>2, <2>3 DEF InHand
    <2> QED BY <1>0, <1>a, <2>1, <2>3 DEF Somewhere
  <1>11. ASSUME NEW t \in Threads, WorkerCryptError(t)
         PROVE  FALSE
    BY <1>0, <1>11 DEF WorkerCryptError, End
  <1>12. ASSUME NEW t \in Threads, WorkerSend(t)
         PROVE  Somewhere(k)'
    <2>1. /\ ending[t] = "running" /\ stage[t] = "send"
          /\ hold' = [hold EXCEPT ![t] = NoChunk]
          /\ stage' = [stage EXCEPT ![t] = "recv"]
          /\ chOut' = Append(chOut, hold[t])
          /\ UNCHANGED <<wpc, ending, chIn, chunkCount, writeIndex, pending>>
      BY <1>12 DEF WorkerSend, Running, mainVars, writerVars
    <2>2. hold[t] \in OutMsgs
      BY <2>1 DEF Places
    <2>3. /\ Len(chOut') = Len(chOut) + 1
          /\ \A i \in 1..Len(chOut) : chOut'[i] = chOut[i]
          /\ chOut'[Len(chOut) + 1] = hold[t]
      BY <2>1, <2>2, SendProperties DEF Places
    <2>4. ASSUME NEW u \in Threads, InHand(u), hold[u].idx = k
          PROVE  Somewhere(k)'
      <3>1. CASE u = t
        BY <1>0, <2>3, <2>4, <3>1 DEF Somewhere
      <3>2. CASE u # t
        BY <1>0, <2>1, <2>4, <3>2 DEF Somewhere, InHand
      <3> QED BY <3>1, <3>2
    <2> QED BY <1>0, <1>a, <2>1, <2>3, <2>4 DEF Somewhere
  <1>13. ASSUME NEW t \in Threads, WorkerSendClosed(t)
         PROVE  FALSE
    BY <1>0, <1>13 DEF WorkerSendClosed, Running, RxOutOpen, End, Control, writerVars
  <1>14. CASE UNCHANGED vars
    BY <1>b, <1>14 DEF vars, ioVars
  <1> QED
    BY <1>1, <1>2, <1>3, <1>4, <1>5, <1>6, <1>7, <1>8, <1>9, <1>10, <1>11, <1>12, <1>13,
       <1>14
    DEF Next, Main, Writer, Exited, MainNext, WriterNext, WorkerNext

-----------------------------------------------------------------------------
(* The theorems.                                                           *)

\* IInv is an invariant of every run of the pipeline.
THEOREM Invariance == Spec => []IInv
  <1>1. Init => IInv
    BY InitIInv
  <1>2. IInv /\ [Next]_vars => IInv'
    BY PlacesStep, ControlStep, NothingLostStep DEF IInv
  <1> QED BY <1>1, <1>2, PTL DEF Spec

\* The variables of io_chunks and of the workers keep their types, and the
\* channels their bounds.
THEOREM TypeCorrect == Spec => []TypeOK
  <1>1. IInv => TypeOK
    BY DEF IInv, Places, Control, TypeOK
  <1> QED BY <1>1, Invariance, PTL

LEMMA WrittenIsPrefix ==
  ASSUME IInv
  PROVE  /\ written = SubSeq(Expected, 1, writeIndex)
         /\ Len(Expected) = NChunks
         /\ writeIndex = NChunks => written = Expected
  <1> DEFINE S == {Expected[i] : i \in 1..NChunks}
  <1>1. NChunks \in Nat \ {0} /\ writeIndex \in 0..NChunks
    BY SourceLength DEF IInv, Places
  <1>2. Expected \in Seq(S) /\ Len(Expected) = NChunks
    <2>1. Expected \in [1..NChunks -> S]
      BY DEF Expected
    <2> QED BY <1>1, <2>1
  <1>3. /\ SubSeq(Expected, 1, writeIndex) \in Seq(S)
        /\ Len(SubSeq(Expected, 1, writeIndex)) = writeIndex
        /\ \A i \in 1..writeIndex : SubSeq(Expected, 1, writeIndex)[i] = Expected[i]
    BY <1>1, <1>2
  <1>4. \A i \in 1..writeIndex : written[i] = Expected[i]
    <2> TAKE i \in 1..writeIndex
    <2>1. i - 1 \in 0..(writeIndex - 1) /\ i \in 1..NChunks /\ (i - 1) + 1 = i
      BY <1>1
    <2>2. written[(i - 1) + 1] = Crypted(InMsg(i - 1))
      BY <2>1 DEF IInv, Places
    <2> QED BY <2>1, <2>2 DEF Expected
  <1>5. /\ written \in Seq(Results) /\ Len(written) = writeIndex
    BY DEF IInv, Places
  <1>6. /\ written \in Seq(S \cup Results) /\ Expected \in Seq(S \cup Results)
        /\ SubSeq(Expected, 1, writeIndex) \in Seq(S \cup Results)
    BY <1>2, <1>3, <1>5
  <1>7. written = SubSeq(Expected, 1, writeIndex)
    BY <1>3, <1>4, <1>5, <1>6, SeqEqual
  <1>8. writeIndex = NChunks => written = Expected
    BY <1>2, <1>4, <1>5, <1>6, SeqEqual
  <1> QED BY <1>2, <1>7, <1>8

LEMMA InPlaceFacts ==
  ASSUME source \in Sources, Decrypting, NEW k \in 0..(NChunks - 1)
  PROVE  Authentic(InMsg(k)) <=> InPlace(k)
  BY SourceLength DEF Authentic, Opens, InMsg, InPlace, IsFinal

\* The sink receives the results of chunks 0, 1, 2, ... in this order; in
\* decryption only of chunks sealed for their place.
THEOREM InOrderCorrect == Spec => []InOrder
  <1>1. ASSUME IInv PROVE InOrder
    <2>1. ASSUME Decrypting, NEW k \in 0..(writeIndex - 1)
          PROVE  InPlace(k)
      <3>1. k \in 0..(NChunks - 1) /\ Authentic(InMsg(k))
        BY <1>1, SourceLength DEF IInv, Places
      <3> QED BY <1>1, <2>1, <3>1, InPlaceFacts DEF IInv, Places
    <2> QED BY <1>1, <2>1, WrittenIsPrefix DEF InOrder
  <1> QED BY <1>1, Invariance, PTL

(***************************************************************************)
(* When all threads ended without an error, the channels and the workers'  *)
(* hands are empty, so that every chunk was written or waits in the        *)
(* writer's map; but the next one to be written does not wait there.       *)
(***************************************************************************)
LEMMA CompleteWhenOk ==
  ASSUME IInv, wpc = "ok", chunkCount = NChunks,
         \A t \in Threads : ending[t] = "ok"
  PROVE  writeIndex = NChunks
  <1> USE DEF IInv, Control
  <1>1. NChunks \in Nat \ {0} /\ NHandles \in Nat \ {0} /\ writeIndex \in 0..NChunks
    BY SourceLength, IoAssumption DEF Places
  <1>3. chIn = <<>> /\ chOut = <<>> /\ \A t \in Threads : ~InHand(t)
    <2>1. 1 \in Threads
      BY <1>1 DEF Threads
    <2> QED BY <2>1 DEF InHand
  <1>4. SUFFICES ASSUME writeIndex < NChunks PROVE FALSE
    BY <1>1
  <1>5. writeIndex \in 0..(chunkCount - 1)
    BY <1>1, <1>4
  <1>6. ~Failed
    BY DEF Failed
  <1>7. Somewhere(writeIndex)
    BY <1>5, <1>6 DEF NothingLost
  <1>8. \A m \in pending : m.idx # writeIndex
    OBVIOUS
  <1> QED BY <1>1, <1>3, <1>7, <1>8 DEF Somewhere

\* Ok is returned only for a complete and finalised output.
THEOREM OkIsCompleteCorrect == Spec => []OkIsComplete
  <1>1. ASSUME IInv PROVE OkIsComplete
    <2> SUFFICES ASSUME result = "ok" PROVE OkIsComplete
      BY DEF OkIsComplete
    <2>1. wpc = "ok" /\ finalised /\ \A t \in Threads : ending[t] = "ok"
      BY <1>1 DEF IInv, Control
    <2>2. written = Expected
      BY <1>1, <2>1, CompleteWhenOk, WrittenIsPrefix DEF IInv, Control
    <2> QED BY <2>1, <2>2 DEF OkIsComplete
  <1> QED BY <1>1, Invariance, PTL

\* In decryption Ok means that the file is intact, and the crypt threads are
\* blamed only for a file that is not.
THEOREM VerdictCorrect == Spec => []VerdictIsTrue
  <1>1. ASSUME IInv PROVE VerdictIsTrue
    <2> SUFFICES ASSUME Decrypting
                 PROVE  /\ result = "ok" => Intact
                        /\ result = "crypt" => ~Intact
      BY DEF VerdictIsTrue
    <2>1. ASSUME result = "ok" PROVE Intact
      <3>1. writeIndex = NChunks
        BY <1>1, <2>1, CompleteWhenOk DEF IInv, Control
      <3>2. \A k \in 0..(NChunks - 1) : Authentic(InMsg(k))
        BY <1>1, <3>1 DEF IInv, Places
      <3> QED BY <1>1, <3>2, InPlaceFacts DEF Intact, IInv, Places
    <2>2. ASSUME result = "crypt" PROVE ~Intact
      BY <1>1, <2>2 DEF IInv, Control
    <2> QED BY <2>1, <2>2
  <1> QED BY <1>1, Invariance, PTL

(***************************************************************************)
(* Refinement: a write is Emit, write_others is Seal, the return of an     *)
(* error is Fail, the return of Ok is Succeed; all else is a stutter.      *)
(***************************************************************************)
LEMMA StreamUnchanged ==
  ASSUME source' = source, UNCHANGED <<written, wpc, result>>
  PROVE  UNCHANGED Stream!vars
  BY DefinedBySource DEF Stream!vars, Verdict

LEMMA StreamStep ==
  ASSUME IInv, IInv', [Next]_vars
  PROVE  [Stream!Next]_(Stream!vars)
  <1> USE SourceFixed
  <1>1. Expected' = Expected /\ result \in {"none", "ok", "read", "writer", "crypt"}
    BY DefinedBySource DEF IInv, Control
  <1>2. ASSUME Return("read") \/ Return("writer") \/ Return("crypt"),
               mpc \notin {"done", "exited"}, UNCHANGED <<wpc, written>>
        PROVE  Stream!Fail
    BY <1>1, <1>2 DEF Return, Stream!Fail, Verdict, IInv, Control
  <1>3. CASE Main
    <2>1. CASE MainRead \/ MainSend \/ MainSendClosed \/ MainExit
      BY <2>1, StreamUnchanged
      DEF MainRead, MainSend, MainSendClosed, MainExit, writerVars
    <2>2. CASE MainReadError \/ MainProgressError
      BY <1>2, <2>2 DEF MainReadError, MainProgressError, SendChunk, writerVars, Stream!Next
    <2>3. CASE MainJoinWriter
      BY <1>2, <2>3, StreamUnchanged DEF MainJoinWriter, writerVars, Stream!Next
    <2>4. CASE MainJoinCrypt
      BY <1>2, <2>4, StreamUnchanged DEF MainJoinCrypt, writerVars, Stream!Next
    <2>5. CASE MainOk
      <3>1. result' = "ok" /\ result = "none" /\ wpc = "ok" /\ UNCHANGED <<wpc, written>>
        BY <2>5 DEF MainOk, Return, writerVars, IInv, Control
      <3>2. \A t \in Threads : ending[t] = "ok"
        BY <2>5 DEF MainOk, IInv, Control, Threads
      <3>3. written = Expected
        BY <2>5, <3>1, <3>2, CompleteWhenOk, WrittenIsPrefix
        DEF MainOk, IInv, Control, Failed
      <3> QED BY <1>1, <3>1, <3>3 DEF Stream!Succeed, Stream!Next, Verdict
    <2> QED BY <1>3, <2>1, <2>2, <2>3, <2>4, <2>5 DEF Main, MainNext
  <1>4. CASE Writer
    <2>2. CASE WriterRecv \/ WriterDrained \/ WriterRecvClosed
               \/ WriterWriteError \/ WriterOthersError
      <3>1. wpc # "ok" /\ wpc' # "ok" /\ UNCHANGED <<written, result>>
        BY <2>2 DEF WriterRecv, WriterDrained, WriterRecvClosed, WriterWriteError,
           WriterOthersError, mainVars
      <3> QED BY <1>1, <3>1 DEF Stream!vars, Verdict
    <2>3. CASE WriterWrite
      <3>1. PICK m \in pending : m.idx = writeIndex /\ written' = Append(written, m.buf)
        BY <2>3 DEF WriterWrite
      <3>2. /\ wpc = "drain" /\ UNCHANGED <<wpc, result>>
        BY <2>3 DEF WriterWrite, mainVars
      <3>3. /\ writeIndex \in 0..(NChunks - 1) /\ m.buf = Crypted(InMsg(writeIndex))
            /\ Len(written) = writeIndex /\ NChunks \in Nat
        BY <3>1, MessageFacts, SourceLength DEF IInv, Places
      <3>4. /\ Len(Expected) = NChunks /\ Expected[writeIndex + 1] = m.buf
        BY <3>3, WrittenIsPrefix DEF Expected
      <3>5. result # "ok"
        BY <3>2 DEF IInv, Control
      <3> QED BY <1>1, <3>1, <3>2, <3>3, <3>4, <3>5 DEF Stream!Emit, Stream!Next, Verdict
    <2>4. CASE WriterOthers
      <3>1. wpc = "others" /\ wpc' = "ok" /\ UNCHANGED <<written, result>>
        BY <2>4 DEF WriterOthers, mainVars
      <3>2. result # "ok"
        BY <3>1 DEF IInv, Control
      <3> QED BY <1>1, <3>1, <3>2 DEF Stream!Seal, Stream!Next, Verdict
    <2> QED BY <1>4, <2>2, <2>3, <2>4 DEF Writer, WriterNext
  <1>5. CASE \E t \in Threads : WorkerNext(t)
    BY <1>5, StreamUnchanged
    DEF WorkerNext, WorkerRecv, WorkerRecvClosed, WorkerCrypt, WorkerCryptError,
        WorkerSend, WorkerSendClosed, End, mainVars, writerVars
  <1>6. CASE UNCHANGED vars
    BY <1>6, StreamUnchanged DEF vars, ioVars
  <1> QED BY <1>3, <1>4, <1>5, <1>6 DEF Next, Exited

\* The pipeline implements OrderedStream.
THEOREM Implementation == Spec => ImplementsStream
  <1>1. Init => Stream!Init
    BY DEF Init, IoInit, Stream!Init, Verdict
  <1>2. IInv /\ IInv' /\ [Next]_vars => [Stream!Next]_(Stream!vars)
    BY StreamStep
  <1> QED BY <1>1, <1>2, Invariance, PTL DEF Spec, ImplementsStream, Stream!Spec

-----------------------------------------------------------------------------
(* No chunk is ever in two places of the pipeline.                         *)

(* Each place holds a chunk number at most once ...                        *)
EachOnce ==
  /\ \A i, j \in 1..Len(chIn) : chIn[i].idx = chIn[j].idx => i = j
  /\ \A i, j \in 1..Len(chOut) : chOut[i].idx = chOut[j].idx => i = j
  /\ \A t, u \in Threads : InHand(t) /\ InHand(u) /\ hold[t].idx = hold[u].idx => t = u

(* ... no two places hold the same ...                                     *)
Apart ==
  /\ \A i \in 1..Len(chIn), j \in 1..Len(chOut) : chIn[i].idx # chOut[j].idx
  /\ \A i \in 1..Len(chIn), t \in Threads : InHand(t) => chIn[i].idx # hold[t].idx
  /\ \A i \in 1..Len(chIn), m \in pending : chIn[i].idx # m.idx
  /\ \A j \in 1..Len(chOut), t \in Threads : InHand(t) => chOut[j].idx # hold[t].idx
  /\ \A j \in 1..Len(chOut), m \in pending : chOut[j].idx # m.idx
  /\ \A t \in Threads, m \in pending : InHand(t) => hold[t].idx # m.idx

(* ... and what they hold was not written, but was sent.                   *)
Within(low, high) ==
  /\ \A i \in 1..Len(chIn) : chIn[i].idx \in low..(high - 1)
  /\ \A j \in 1..Len(chOut) : chOut[j].idx \in low..(high - 1)
  /\ \A t \in Threads : InHand(t) => hold[t].idx \in low..(high - 1)
  /\ \A m \in pending : m.idx \in low..(high - 1)

\* As long as main may send, it has sent only what is below chunk_count.
Fresh == TxInOpen => writeIndex <= chunkCount /\ Within(writeIndex, chunkCount)

Unique ==
  /\ EachOnce /\ Apart /\ Within(writeIndex, NChunks) /\ Fresh
  /\ \A t \in Threads : ~InHand(t) => hold[t] = NoChunk

-----------------------------------------------------------------------------
\* All that the invariant says of the numbers in hand.
LEMMA Numbers ==
  ASSUME IInv
  PROVE  /\ NChunks \in Nat /\ writeIndex \in Nat /\ chunkCount \in Nat
         /\ chIn \in Seq(InMsgs) /\ chOut \in Seq(OutMsgs)
         /\ Len(chIn) \in Nat /\ Len(chOut) \in Nat
         /\ \A i \in 1..Len(chIn) : chIn[i].idx \in Nat
         /\ \A j \in 1..Len(chOut) : chOut[j].idx \in Nat
         /\ \A t \in Threads : InHand(t) => hold[t].idx \in Nat
         /\ \A m \in pending : m.idx \in Nat
  <1>1. source \in Sources /\ NChunks \in Nat \ {0}
    BY SourceLength DEF IInv, Places
  <1>2. /\ \A m \in InMsgs : m.idx \in Nat
        /\ \A m \in OutMsgs : m.idx \in Nat
    BY <1>1, MessageFacts
  <1>3. \A t \in Threads : InHand(t) => hold[t].idx \in Nat
    BY <1>2 DEF IInv, Places, InHand
  <1>4. /\ \A i \in 1..Len(chIn) : chIn[i] \in InMsgs
        /\ \A j \in 1..Len(chOut) : chOut[j] \in OutMsgs
    BY DEF IInv, Places
  <1> QED BY <1>1, <1>2, <1>3, <1>4 DEF IInv, Places, Control

LEMMA InitUnique ==
  ASSUME Init
  PROVE  Unique
  BY SourceLength DEF Init, IoInit, Unique, EachOnce, Apart, Within, Fresh, InHand

\* A result is determined by its number.
LEMMA SameNumber ==
  ASSUME IInv, NEW m \in pending, NEW n \in pending, m.idx = n.idx
  PROVE  m = n
  <1>1. PICK k \in InMsgs : m = OutMsg(k)
    BY DEF IInv, Places, OutMsgs
  <1>2. PICK l \in InMsgs : n = OutMsg(l)
    BY DEF IInv, Places, OutMsgs
  <1>3. k.idx = l.idx
    BY <1>1, <1>2 DEF OutMsg
  <1>4. k = l
    BY <1>3, MessageFacts DEF IInv, Places
  <1> QED BY <1>1, <1>2, <1>4

-----------------------------------------------------------------------------
\* Nothing moves, except that something may be dropped or crypted.
LEMMA NothingMoves ==
  ASSUME IInv, Unique, source' = source,
         UNCHANGED <<chIn, chOut, writeIndex>>, pending' \subseteq pending,
         \A t \in Threads : InHand(t)' => InHand(t) /\ hold'[t].idx = hold[t].idx,
         \A t \in Threads : ~InHand(t)' => hold'[t] = NoChunk,
         TxInOpen' => TxInOpen /\ chunkCount' = chunkCount
  PROVE  Unique'
  <1>1. NChunks' = NChunks
    BY DefinedBySource
  <1>2. EachOnce'
    BY DEF Unique, EachOnce
  <1>3. Apart'
    BY DEF Unique, Apart
  <1>4. Within(writeIndex, NChunks)'
    BY <1>1 DEF Unique, Within
  <1>5. Fresh'
    BY DEF Unique, Fresh, Within
  <1> QED BY <1>2, <1>3, <1>4, <1>5 DEF Unique

\* Main sends a chunk with a number that is nowhere.
LEMMA SendUnique ==
  ASSUME IInv, Unique, source' = source, SendChunk, TxInOpen' => chunkCount' = chunkCount + 1,
         UNCHANGED <<chOut, pending, writeIndex, hold, stage, ending>>
  PROVE  Unique'
  <1>1. /\ NChunks' = NChunks /\ TxInOpen
        /\ InMsg(chunkCount) \in InMsgs /\ InMsg(chunkCount).idx = chunkCount
        /\ chunkCount \in Nat /\ chunkCount < NChunks
    <2>1. mpc = "send" /\ source \in Sources
      BY DEF SendChunk, IInv, Places
    <2>2. chunkCount \in Nat /\ chunkCount < NChunks
      BY <2>1, Numbers DEF IInv, Control
    <2>3. chunkCount \in 0..(NChunks - 1)
      BY <2>2, Numbers
    <2> QED BY <2>1, <2>2, <2>3, MessageFacts, DefinedBySource DEF TxInOpen
  <1>2. /\ Len(chIn') = Len(chIn) + 1
        /\ \A i \in 1..Len(chIn) : chIn'[i] = chIn[i]
        /\ chIn'[Len(chIn) + 1].idx = chunkCount
    BY <1>1, Numbers, SendProperties DEF SendChunk
  <1>3. writeIndex <= chunkCount /\ Within(writeIndex, chunkCount)
    BY <1>1 DEF Unique, Fresh
  <1>4. \A i \in 1..Len(chIn') :
          \/ i \in 1..Len(chIn) /\ chIn'[i] = chIn[i]
          \/ i = Len(chIn) + 1 /\ chIn'[i].idx = chunkCount
    BY <1>2, Numbers
  <1>5. \A t \in Threads : InHand(t)' = InHand(t) /\ hold'[t] = hold[t]
    BY DEF InHand
  <1>6. /\ \A k \in writeIndex..(chunkCount - 1) : k # chunkCount
        /\ \A k \in writeIndex..(chunkCount - 1) : k \in writeIndex..(NChunks - 1)
        /\ \A k \in writeIndex..(chunkCount - 1) : k \in writeIndex..(chunkCount + 1 - 1)
        /\ chunkCount \in writeIndex..(NChunks - 1) /\ writeIndex <= chunkCount + 1
        /\ chunkCount \in writeIndex..(chunkCount + 1 - 1)
    BY <1>1, <1>3, Numbers
  <1>7. EachOnce'
    <2>1. \A i \in 1..Len(chIn) : chIn[i].idx # chunkCount
      BY <1>3, <1>6 DEF Within
    <2>2. \A i, j \in 1..Len(chIn') : chIn'[i].idx = chIn'[j].idx => i = j
      BY <1>4, <2>1 DEF Unique, EachOnce
    <2> QED BY <1>5, <2>2 DEF Unique, EachOnce
  <1>8. Apart'
    <2>1. /\ \A j \in 1..Len(chOut) : chOut[j].idx # chunkCount
          /\ \A t \in Threads : InHand(t) => hold[t].idx # chunkCount
          /\ \A m \in pending : m.idx # chunkCount
      BY <1>3, <1>6 DEF Within
    <2> QED BY <1>4, <1>5, <2>1 DEF Unique, Apart
  <1>9. Within(writeIndex, NChunks)'
    BY <1>1, <1>3, <1>4, <1>5, <1>6 DEF Within
  <1>10. Fresh'
    BY <1>3, <1>4, <1>5, <1>6 DEF Fresh, Within
  <1> QED BY <1>5, <1>7, <1>8, <1>9, <1>10 DEF Unique

\* A worker takes a chunk from the channel into its hand.
LEMMA TakeUnique ==
  ASSUME IInv, Unique, source' = source, NEW t \in Threads, WorkerRecv(t)
  PROVE  Unique'
  <1>1. NChunks' = NChunks
    BY DefinedBySource
  <1>2. /\ Len(chIn') = Len(chIn) - 1 /\ Len(chIn) > 0
        /\ \A i \in 1..Len(chIn') :
             chIn'[i] = chIn[i + 1] /\ i + 1 \in 1..Len(chIn) /\ i + 1 # 1
        /\ Head(chIn) = chIn[1] /\ 1 \in 1..Len(chIn)
    <2>1. chIn \in Seq(InMsgs) /\ chIn # <<>> /\ chIn' = Tail(chIn)
      BY Numbers DEF WorkerRecv
    <2> QED BY <2>1, RecvProperties
  <1>3. /\ hold'[t] = chIn[1] /\ InHand(t)' /\ ~InHand(t)
        /\ \A u \in Threads : u # t => hold'[u] = hold[u] /\ InHand(u)' = InHand(u)
    BY <1>2 DEF WorkerRecv, Running, InHand, IInv, Places
  <1>4. UNCHANGED <<chOut, pending, writeIndex, chunkCount, mpc>>
    BY DEF WorkerRecv, mainVars, writerVars
  <1>5. EachOnce'
    <2>1. \A i, j \in 1..Len(chIn') : chIn'[i].idx = chIn'[j].idx => i = j
      <3> TAKE i, j \in 1..Len(chIn')
      <3> HAVE chIn'[i].idx = chIn'[j].idx
      <3>1. chIn[i + 1].idx = chIn[j + 1].idx
        BY <1>2
      <3>2. i + 1 = j + 1
        BY <1>2, <3>1 DEF Unique, EachOnce
      <3> QED BY <3>2
    <2>2. \A u \in Threads : InHand(u) => chIn[1].idx # hold[u].idx
      BY <1>2 DEF Unique, Apart
    <2>3. \A u, v \in Threads :
            InHand(u)' /\ InHand(v)' /\ hold'[u].idx = hold'[v].idx => u = v
      BY <1>3, <2>2 DEF Unique, EachOnce
    <2> QED BY <1>4, <2>1, <2>3 DEF Unique, EachOnce
  <1>6. Apart'
    <2>1. /\ \A j \in 1..Len(chOut) : chIn[1].idx # chOut[j].idx
          /\ \A m \in pending : chIn[1].idx # m.idx
          /\ \A i \in 1..Len(chIn') : chIn'[i].idx # chIn[1].idx
      BY <1>2 DEF Unique, Apart, EachOnce
    <2>2. \A i \in 1..Len(chIn'), u \in Threads : InHand(u)' => chIn'[i].idx # hold'[u].idx
      BY <1>2, <1>3, <2>1 DEF Unique, Apart
    <2>3. /\ \A i \in 1..Len(chIn'), j \in 1..Len(chOut) : chIn'[i].idx # chOut[j].idx
          /\ \A i \in 1..Len(chIn'), m \in pending : chIn'[i].idx # m.idx
      BY <1>2 DEF Unique, Apart
    <2>4. /\ \A j \in 1..Len(chOut), u \in Threads :
               InHand(u)' => chOut[j].idx # hold'[u].idx
          /\ \A u \in Threads, m \in pending : InHand(u)' => hold'[u].idx # m.idx
      BY <1>3, <2>1 DEF Unique, Apart
    <2> QED BY <1>4, <2>2, <2>3, <2>4 DEF Unique, Apart
  <1>7. Within(writeIndex, NChunks)'
    BY <1>1, <1>2, <1>3, <1>4 DEF Unique, Within
  <1>8. Fresh'
    BY <1>2, <1>3, <1>4 DEF Unique, Fresh, Within, TxInOpen
  <1> QED BY <1>3, <1>5, <1>6, <1>7, <1>8 DEF Unique

\* A worker gives the result to the writer's channel.
LEMMA GiveUnique ==
  ASSUME IInv, Unique, source' = source, NEW t \in Threads, WorkerSend(t)
  PROVE  Unique'
  <1>1. NChunks' = NChunks
    BY DefinedBySource
  <1>2. /\ hold'[t] = NoChunk /\ ~InHand(t)' /\ InHand(t)
        /\ \A u \in Threads : u # t => hold'[u] = hold[u] /\ InHand(u)' = InHand(u)
    BY DEF WorkerSend, Running, InHand, IInv, Places
  <1>3. /\ Len(chOut') = Len(chOut) + 1
        /\ \A j \in 1..Len(chOut) : chOut'[j] = chOut[j]
        /\ chOut'[Len(chOut) + 1] = hold[t]
        /\ \A j \in 1..Len(chOut') : j \in 1..Len(chOut) \/ j = Len(chOut) + 1
    <2>1. hold[t] \in OutMsgs /\ chOut' = Append(chOut, hold[t])
      BY DEF WorkerSend, Running, IInv, Places
    <2> QED BY <2>1, Numbers, SendProperties
  <1>4. UNCHANGED <<chIn, pending, writeIndex, chunkCount, mpc>>
    BY DEF WorkerSend, mainVars, writerVars
  <1>5. EachOnce'
    <2>1. \A j \in 1..Len(chOut) : chOut[j].idx # hold[t].idx
      BY <1>2 DEF Unique, Apart
    <2>2. \A i, j \in 1..Len(chOut') : chOut'[i].idx = chOut'[j].idx => i = j
      BY <1>3, <2>1 DEF Unique, EachOnce
    <2>3. \A u, v \in Threads :
            InHand(u)' /\ InHand(v)' /\ hold'[u].idx = hold'[v].idx => u = v
      BY <1>2 DEF Unique, EachOnce
    <2> QED BY <1>4, <2>2, <2>3 DEF Unique, EachOnce
  <1>6. Apart'
    <2>1. /\ \A i \in 1..Len(chIn) : chIn[i].idx # hold[t].idx
          /\ \A m \in pending : hold[t].idx # m.idx
          /\ \A u \in Threads : u # t /\ InHand(u) => hold[t].idx # hold[u].idx
      BY <1>2 DEF Unique, Apart, EachOnce
    <2>2. \A j \in 1..Len(chOut'), u \in Threads : InHand(u)' => chOut'[j].idx # hold'[u].idx
      BY <1>2, <1>3, <2>1 DEF Unique, Apart
    <2>3. /\ \A i \in 1..Len(chIn), j \in 1..Len(chOut') : chIn[i].idx # chOut'[j].idx
          /\ \A j \in 1..Len(chOut'), m \in pending : chOut'[j].idx # m.idx
      BY <1>3, <2>1 DEF Unique, Apart
    <2>4. /\ \A i \in 1..Len(chIn), u \in Threads :
               InHand(u)' => chIn[i].idx # hold'[u].idx
          /\ \A u \in Threads, m \in pending : InHand(u)' => hold'[u].idx # m.idx
      BY <1>2 DEF Unique, Apart
    <2> QED BY <1>4, <2>2, <2>3, <2>4 DEF Unique, Apart
  <1>7. Within(writeIndex, NChunks)'
    BY <1>1, <1>2, <1>3, <1>4 DEF Unique, Within
  <1>8. Fresh'
    BY <1>2, <1>3, <1>4 DEF Unique, Fresh, Within, TxInOpen
  <1> QED BY <1>2, <1>5, <1>6, <1>7, <1>8 DEF Unique

\* The writer takes a result from the channel into its map.
LEMMA InsertUnique ==
  ASSUME IInv, Unique, source' = source, WriterRecv, UNCHANGED pipeVars
  PROVE  Unique'
  <1>1. NChunks' = NChunks
    BY DefinedBySource
  <1>2. /\ Len(chOut') = Len(chOut) - 1 /\ Len(chOut) > 0
        /\ \A j \in 1..Len(chOut') :
             chOut'[j] = chOut[j + 1] /\ j + 1 \in 1..Len(chOut) /\ j + 1 # 1
        /\ 1 \in 1..Len(chOut) /\ pending' = pending \cup {chOut[1]}
    <2>1. /\ chOut \in Seq(OutMsgs) /\ chOut # <<>> /\ chOut' = Tail(chOut)
          /\ pending' = pending \cup {Head(chOut)}
      BY Numbers DEF WriterRecv
    <2> QED BY <2>1, RecvProperties
  <1>3. /\ UNCHANGED <<chIn, writeIndex, chunkCount, mpc, hold>>
        /\ \A t \in Threads : InHand(t)' = InHand(t)
    BY DEF WriterRecv, mainVars, pipeVars, InHand
  <1>4. EachOnce'
    <2>1. \A i, j \in 1..Len(chOut') : chOut'[i].idx = chOut'[j].idx => i = j
      <3> TAKE i, j \in 1..Len(chOut')
      <3> HAVE chOut'[i].idx = chOut'[j].idx
      <3>1. chOut[i + 1].idx = chOut[j + 1].idx
        BY <1>2
      <3>2. i + 1 = j + 1
        BY <1>2, <3>1 DEF Unique, EachOnce
      <3> QED BY <3>2
    <2> QED BY <1>3, <2>1 DEF Unique, EachOnce
  <1>5. Apart'
    <2>1. /\ \A i \in 1..Len(chIn) : chIn[i].idx # chOut[1].idx
          /\ \A t \in Threads : InHand(t) => chOut[1].idx # hold[t].idx
          /\ \A j \in 1..Len(chOut') : chOut'[j].idx # chOut[1].idx
      BY <1>2 DEF Unique, Apart, EachOnce
    <2>2. /\ \A i \in 1..Len(chIn), j \in 1..Len(chOut') : chIn[i].idx # chOut'[j].idx
          /\ \A j \in 1..Len(chOut'), t \in Threads : InHand(t) => chOut'[j].idx # hold[t].idx
      <3>1. /\ \A i \in 1..Len(chIn), j \in 1..Len(chOut) : chIn[i].idx # chOut[j].idx
            /\ \A j \in 1..Len(chOut), t \in Threads : InHand(t) => chOut[j].idx # hold[t].idx
        BY DEF Unique, Apart
      <3>2. \A j \in 1..Len(chOut') : chOut'[j] = chOut[j + 1] /\ j + 1 \in 1..Len(chOut)
        BY <1>2
      <3> QED BY <3>1, <3>2
    <2>3. \A m \in pending' : m \in pending \/ m = chOut[1]
      BY <1>2
    <2>4. \A i \in 1..Len(chIn), m \in pending' : chIn[i].idx # m.idx
      <3>1. \A i \in 1..Len(chIn), m \in pending : chIn[i].idx # m.idx
        BY DEF Unique, Apart
      <3> QED BY <2>1, <2>3, <3>1
    <2>5. \A t \in Threads, m \in pending' : InHand(t) => hold[t].idx # m.idx
      <3>1. \A t \in Threads, m \in pending : InHand(t) => hold[t].idx # m.idx
        BY DEF Unique, Apart
      <3> QED BY <2>1, <2>3, <3>1
    <2>6. \A j \in 1..Len(chOut'), m \in pending' : chOut'[j].idx # m.idx
      <3>1. \A j \in 1..Len(chOut'), m \in pending : chOut'[j].idx # m.idx
        BY <1>2 DEF Unique, Apart
      <3> QED BY <2>1, <2>3, <3>1
    <2>7. \A i \in 1..Len(chIn), t \in Threads : InHand(t) => chIn[i].idx # hold[t].idx
      BY DEF Unique, Apart
    <2> QED BY <1>3, <2>2, <2>4, <2>5, <2>6, <2>7 DEF Apart
  <1>6. Within(writeIndex, NChunks)'
    BY <1>1, <1>2, <1>3 DEF Unique, Within
  <1>7. Fresh'
    BY <1>2, <1>3 DEF Unique, Fresh, Within, TxInOpen
  <1> QED BY <1>3, <1>4, <1>5, <1>6, <1>7 DEF Unique

\* The writer writes the result with the number write_index.
LEMMA WriteUnique ==
  ASSUME IInv, Unique, source' = source, WriterWrite, UNCHANGED pipeVars
  PROVE  Unique'
  <1>1. NChunks' = NChunks
    BY DefinedBySource
  <1>2. PICK m \in pending : m.idx = writeIndex /\ pending' = pending \ {m}
    BY DEF WriterWrite
  <1>3. /\ UNCHANGED <<chIn, chOut, chunkCount, mpc, hold>> /\ writeIndex' = writeIndex + 1
        /\ \A t \in Threads : InHand(t)' = InHand(t)
    BY DEF WriterWrite, mainVars, pipeVars, InHand
  <1>4. \A n \in pending' : n \in pending /\ n.idx # writeIndex
    BY <1>2, SameNumber
  <1>5. EachOnce'
    BY <1>3 DEF Unique, EachOnce
  <1>6. Apart'
    BY <1>3, <1>4 DEF Unique, Apart
  <1>7. /\ \A i \in 1..Len(chIn) : chIn[i].idx # writeIndex
        /\ \A j \in 1..Len(chOut) : chOut[j].idx # writeIndex
        /\ \A t \in Threads : InHand(t) => hold[t].idx # writeIndex
    BY <1>2 DEF Unique, Apart
  <1>8. Within(writeIndex, NChunks)'
    BY <1>1, <1>3, <1>4, <1>7, Numbers DEF Unique, Within
  <1>9. Fresh'
    <2> SUFFICES ASSUME TxInOpen'
                 PROVE  writeIndex' <= chunkCount' /\ Within(writeIndex, chunkCount)'
      BY DEF Fresh
    <2>1. writeIndex <= chunkCount /\ Within(writeIndex, chunkCount)
      BY <1>3 DEF Unique, Fresh, TxInOpen
    <2>2. writeIndex + 1 <= chunkCount
      BY <1>2, <2>1, Numbers DEF Within
    <2> QED BY <1>3, <1>4, <1>7, <2>1, <2>2, Numbers DEF Within
  <1> QED BY <1>3, <1>5, <1>6, <1>8, <1>9 DEF Unique

-----------------------------------------------------------------------------
\* The main thread, besides sending.
LEMMA MainUnique ==
  ASSUME IInv, Unique, source' = source, MainNext, UNCHANGED pipeVars
  PROVE  Unique'
  <1>1. CASE MainSend \/ MainProgressError
    BY <1>1, SendUnique DEF MainSend, MainProgressError, Return, TxInOpen, pipeVars, writerVars
  <1>2. CASE ~SendChunk
    <2>1. /\ UNCHANGED <<chIn, chOut, pending, writeIndex, chunkCount, hold, stage, ending>>
          /\ TxInOpen' => TxInOpen
      BY <1>2 DEF MainNext, MainRead, MainReadError, MainSend, MainProgressError, MainSendClosed,
         MainJoinWriter, MainJoinCrypt, MainOk, MainExit, Return, TxInOpen, pipeVars, writerVars
    <2>2. \A t \in Threads : InHand(t)' = InHand(t)
      BY <2>1 DEF InHand
    <2> QED BY <2>1, <2>2, NothingMoves DEF Unique
  <1>3. CASE SendChunk /\ ~(MainSend \/ MainProgressError)
    BY <1>3 DEF MainNext, MainRead, MainReadError, MainSendClosed, MainJoinWriter, MainJoinCrypt,
       MainOk, MainExit, SendChunk
  <1> QED BY <1>1, <1>2, <1>3

\* The writer.
LEMMA WriterUnique ==
  ASSUME IInv, Unique, source' = source, WriterNext, UNCHANGED pipeVars
  PROVE  Unique'
  <1>1. CASE WriterRecv
    BY <1>1, InsertUnique
  <1>2. CASE WriterWrite
    BY <1>2, WriteUnique
  <1>3. CASE \/ WriterWriteError \/ WriterDrained \/ WriterRecvClosed
             \/ WriterOthers \/ WriterOthersError
    <2>1. /\ UNCHANGED <<chIn, chOut, writeIndex, mpc, chunkCount, hold, stage, ending>>
          /\ pending' \subseteq pending
      BY <1>3 DEF WriterWriteError, WriterDrained, WriterRecvClosed, WriterOthers,
         WriterOthersError, mainVars, pipeVars
    <2>2. /\ \A t \in Threads : InHand(t)' = InHand(t)
          /\ TxInOpen' = TxInOpen
      BY <2>1 DEF InHand, TxInOpen
    <2> QED BY <2>1, <2>2, NothingMoves DEF Unique
  <1> QED BY <1>1, <1>2, <1>3 DEF WriterNext

\* A worker.
LEMMA WorkerUnique ==
  ASSUME IInv, Unique, source' = source, NEW t \in Threads, WorkerNext(t)
  PROVE  Unique'
  <1>1. CASE WorkerRecv(t)
    BY <1>1, TakeUnique
  <1>2. CASE WorkerSend(t)
    BY <1>2, GiveUnique
  <1>3. CASE WorkerCrypt(t)
    <2>1. UNCHANGED <<chIn, chOut, writeIndex, mpc, chunkCount, pending, ending>>
      BY <1>3 DEF WorkerCrypt, mainVars, writerVars
    <2>2. /\ InHand(t) /\ hold'[t].idx = hold[t].idx
          /\ \A u \in Threads : InHand(u)' = InHand(u) /\ (u # t => hold'[u] = hold[u])
      BY <1>3, <2>1 DEF WorkerCrypt, Running, OutMsg, InHand, IInv, Places
    <2>3. TxInOpen' = TxInOpen
      BY <2>1 DEF TxInOpen
    <2> QED BY <2>1, <2>2, <2>3, NothingMoves DEF Unique
  <1>4. CASE WorkerRecvClosed(t) \/ WorkerCryptError(t) \/ WorkerSendClosed(t)
    <2>1. PICK how \in {"ok", "err"} : End(t, how)
      BY <1>4 DEF WorkerRecvClosed, WorkerCryptError, WorkerSendClosed
    <2>2. UNCHANGED <<chIn, chOut, writeIndex, mpc, chunkCount, pending, stage>>
      BY <2>1 DEF End, mainVars, writerVars
    <2>3. /\ ~InHand(t)' /\ hold'[t] = NoChunk
          /\ \A u \in Threads : u # t => hold'[u] = hold[u] /\ InHand(u)' = InHand(u)
      BY <2>1, <2>2 DEF End, InHand, IInv, Places
    <2>4. TxInOpen' = TxInOpen
      BY <2>2 DEF TxInOpen
    <2> QED BY <2>2, <2>3, <2>4, NothingMoves DEF Unique
  <1> QED BY <1>1, <1>2, <1>3, <1>4 DEF WorkerNext

LEMMA UniqueStep ==
  ASSUME IInv, Unique, [Next]_vars
  PROVE  Unique'
  <1>1. source' = source
    BY SourceFixed
  <1>2. CASE Main
    BY <1>1, <1>2, MainUnique DEF Main
  <1>3. CASE Writer
    BY <1>1, <1>3, WriterUnique DEF Writer
  <1>4. CASE \E t \in Threads : WorkerNext(t)
    BY <1>1, <1>4, WorkerUnique
  <1>5. CASE UNCHANGED vars
    <2>1. UNCHANGED <<chIn, chOut, writeIndex, mpc, chunkCount, pending, hold, stage, ending>>
      BY <1>5 DEF vars, ioVars
    <2>2. TxInOpen' = TxInOpen /\ \A t \in Threads : InHand(t)' = InHand(t)
      BY <2>1 DEF TxInOpen, InHand
    <2> QED BY <1>1, <2>1, <2>2, NothingMoves DEF Unique
  <1> QED BY <1>2, <1>3, <1>4, <1>5 DEF Next, Exited

\* No chunk is in two places, however the workers overtake each other and
\* whatever fails: pending_chunks.insert never replaces a result, and nothing
\* that was written comes again.
THEOREM OneChunkOnePlaceCorrect == Spec => []OneChunkOnePlace
  <1>1. IInv /\ Unique => OneChunkOnePlace
    <2> SUFFICES ASSUME IInv, Unique
                 PROVE  OneChunkOnePlace
      OBVIOUS
    <2>1. \A t \in Holders : t \in Threads /\ InHand(t)
      BY DEF Holders, Unique
    <2>2. \A m, n \in pending : m.idx = n.idx => m = n
      BY SameNumber
    <2>3. \A k \in 0..(writeIndex - 1), high \in Int : k \notin writeIndex..high
      BY Numbers
    <2> QED BY <2>1, <2>2, <2>3, Numbers DEF OneChunkOnePlace, Unique, EachOnce, Apart, Within
  <1> QED BY <1>1, InitUnique, UniqueStep, Invariance, PTL DEF Spec
=============================================================================
