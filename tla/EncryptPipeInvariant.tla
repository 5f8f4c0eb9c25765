------------------------ MODULE EncryptPipeInvariant ------------------------
(***************************************************************************)
(* The inductive invariant of EncryptPipe, in four parts: what is before   *)
(* the resegmentation thread, what is in it, what is behind it, and what   *)
(* the control states of the threads say of one another.                   *)
(***************************************************************************)
EXTENDS EncryptPipe, Channels

InHand(t)   == ending[t] = "running" /\ stage[t] # "recv"
Hands(T)    == {t \in T : InHand(t)}
Held(T)     == {hold[t].idx : t \in Hands(T)}   \* in the hands of workers

-----------------------------------------------------------------------------
(* Before the resegmentation thread a chunk number decides the message.    *)
CMsg(k) == [buf |-> Compress(source[k + 1]), of |-> source[k + 1], idx |-> k,
            final |-> IsFinal(k)]
InMsgs  == {InMsg(k) : k \in 0..(NChunks - 1)}
CMsgs   == {CMsg(k) : k \in 0..(NChunks - 1)}

Upstream ==
  /\ chIn \in Seq(InMsgs)
  /\ chC \in Seq(CMsgs)
  /\ \A t \in Compressors : ending[t] = "running" =>
       /\ stage[t] = "work" => hold[t] \in InMsgs
       /\ stage[t] = "send" => hold[t] \in CMsgs
  /\ rPending \subseteq CMsgs

-----------------------------------------------------------------------------
(* In it, buf_out is what was taken from the stream and not yet cut off:   *)
(* Ends(n) is where the frame of the n-th chunk ends in the stream.        *)
Ends(n) == Len(Whole(SubSeq(source, 1, n)))
Cut(k)  == k * SegSize

Buffer ==
  /\ rpc \in {"recv", "drain", "cut", "flush", "ended"}
  /\ outIndex \in 0..NChunks /\ newCount \in Nat
  /\ chunkFinal = (outIndex = NChunks)
  /\ newFinal \in BOOLEAN
  /\ newFinal /\ rpc # "ended" => chunkFinal /\ bufOut = <<>>
  /\ Cut(newCount) <= Ends(outIndex)
  /\ bufOut = SubSeq(Whole(source), Cut(newCount) + 1, Ends(outIndex))
  /\ rpc \in {"recv", "drain", "flush"} \/ ending[Resegmenter] = "ok" =>
       Len(bufOut) < SegSize

-----------------------------------------------------------------------------
(* Behind it a segment number decides the message: the full segments that  *)
(* were cut off, and the rest of the stream that was flushed.              *)
Flushed == ending[Resegmenter] = "ok" /\ bufOut # <<>>
NCuts   == IF Flushed THEN newCount + 1 ELSE newCount

FullMsg(k) == [buf |-> SubSeq(Whole(source), Cut(k) + 1, Cut(k + 1)), idx |-> k,
               final |-> Cut(k + 1) = Len(Whole(source))]
EMsg(k)   == IF k < newCount THEN FullMsg(k)
                             ELSE [buf |-> bufOut, idx |-> k, final |-> TRUE]
OutMsg(m) == [buf |-> Seal(m.buf, m.idx, m.final), idx |-> m.idx]
EMsgs     == {EMsg(k) : k \in 0..(NCuts - 1)}
OutMsgs   == {OutMsg(m) : m \in EMsgs}

Downstream ==
  /\ chE \in Seq(EMsgs)
  /\ chOut \in Seq(OutMsgs)
  /\ \A t \in Encryptors : ending[t] = "running" =>
       /\ stage[t] = "work" => hold[t] \in EMsgs
       /\ stage[t] = "send" => hold[t] \in OutMsgs
  /\ pending \subseteq OutMsgs
  /\ writeIndex \in 0..NCuts
  /\ written \in Seq({m.buf : m \in OutMsgs}) /\ Len(written) = writeIndex
  /\ \A k \in 0..(writeIndex - 1) : written[k + 1] = OutMsg(EMsg(k)).buf

-----------------------------------------------------------------------------
Failed == wpc = "err" \/ \E t \in Threads : ending[t] = "err"
Ended(T) == \A t \in T : ending[t] # "running"

Control ==
  /\ source \in Sources
  /\ mpc \in {"read", "send", "joinWriter", "joinCrypt", "done", "exited"}
  /\ wpc \in {"recv", "drain", "others", "ok", "err"}
  /\ chunkCount \in 0..NChunks /\ joined \in 0..NHandles
  /\ result \in {"none", "ok", "read", "writer", "crypt"}
  /\ ending \in [Threads -> {"running", "ok", "err"}]
  /\ stage \in [Workers -> {"recv", "work", "send"}]
  /\ DOMAIN hold = Workers
  /\ mpc \in {"read", "send"} => chunkCount < NChunks
  /\ mpc \in {"read", "send", "joinWriter"} => joined = 0
  /\ mpc \in {"joinWriter", "joinCrypt"} => chunkCount = NChunks \/ Failed
  /\ mpc = "joinCrypt" => wpc = "ok" /\ \A t \in 1..joined : ending[t] = "ok"
  /\ result = "ok" => /\ wpc = "ok" /\ chunkCount = NChunks
                      /\ \A t \in Threads : ending[t] = "ok"
  /\ \A t \in Compressors : ending[t] = "ok" => (~TxInOpen /\ chIn = <<>>) \/ Failed
  /\ ending[Resegmenter] = "running" <=> rpc # "ended"
  /\ rpc = "flush" \/ ending[Resegmenter] = "ok" => chC = <<>> /\ Ended(Compressors)
  /\ rpc \in {"recv", "flush"} \/ ending[Resegmenter] = "ok" =>
       outIndex \notin Waiting(rPending)
  /\ \A t \in Encryptors : ending[t] = "ok" => (rpc = "ended" /\ chE = <<>>) \/ Failed
  /\ wpc \in {"others", "ok"} => chOut = <<>> /\ Ended(Encryptors)
  /\ wpc \in {"recv", "others", "ok"} => writeIndex \notin Waiting(pending)
  /\ wpc = "ok" => finalised

(* As long as no thread failed, a chunk that was sent is in a place before *)
(* the resegmentation thread or in the stream, and a segment that was cut  *)
(* off is in a place behind it or in the file.                             *)
NoChunkLost ==
  \A k \in 0..(chunkCount - 1) :
    \/ k < outIndex
    \/ k \in Waiting(rPending) \cup Places(chC) \cup Held(Compressors) \cup Places(chIn)

NoSegmentLost ==
  \A k \in 0..(NCuts - 1) :
    \/ k < writeIndex
    \/ k \in Waiting(pending) \cup Places(chOut) \cup Held(Encryptors) \cup Places(chE)

NothingLost == ~Failed => NoChunkLost /\ NoSegmentLost

IInv == Control /\ Upstream /\ Buffer /\ Downstream /\ NothingLost
=============================================================================
