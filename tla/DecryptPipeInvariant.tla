------------------------ MODULE DecryptPipeInvariant ------------------------
(***************************************************************************)
(* The inductive invariant of compressed decryption.                       *)
(***************************************************************************)
EXTENDS DecryptPipe, Channels

-----------------------------------------------------------------------------
(* Where the numbers of segments and chunks can be.                        *)
InHand(t)   == ending[t] = "running" /\ stage[t] # "recv"
Hands(T)    == {t \in T : InHand(t)}
Held(T)     == {hold[t].idx : t \in Hands(T)}   \* in the hands of workers

-----------------------------------------------------------------------------
(* Before the resegmentation thread a segment number decides the message.  *)
InMsgs    == {InMsg(k) : k \in 0..(NChunks - 1)}
Opened    == {m \in InMsgs : Authentic(m)}
OpenMsg(m) == [buf |-> m.buf.data, idx |-> m.idx]
OpenMsgs  == {OpenMsg(m) : m \in Opened}

Upstream ==
  /\ chIn \in Seq(InMsgs)
  /\ chE \in Seq(OpenMsgs)
  /\ \A t \in Decryptors : ending[t] = "running" =>
       /\ stage[t] = "work" => hold[t] \in InMsgs
       /\ stage[t] = "send" => hold[t] \in OpenMsgs
  /\ rPending \subseteq OpenMsgs

-----------------------------------------------------------------------------
(* In it, buf_out is what was taken from the stream and not yet parsed.    *)
(* Parsing is between two frames, or behind the length field of one.       *)
Place(n)  == Len(UnitsOf(source, n))    \* where the n-th segment ends in the stream
Taken     == Place(outIndex)
Position  == Taken - Len(bufOut)
Behind    == Position - (IF LengthKnown THEN LenSize ELSE 0)
Border(p) == p = 0 \/ EndsFrame(Stream[p])
Texts(p)  == Len(TextsTo(p))       \* how many frames end among p units

\* The frames that were parsed, each by the place in the stream where it ends.
\* They are one behind the other.
Size(i)     == LenSize + Stream[i].size
FramesTo(p) == {i \in 1..p : EndsFrame(Stream[i])}
Frames      == FramesTo(Position)

Parsed(p, b, n) ==
  /\ b \in Nat /\ Border(b) /\ Texts(p) = n
  /\ \A i \in FramesTo(p) : /\ Stream[i].size \in Nat /\ Size(i) <= i /\ Border(i - Size(i))
                            /\ Stream[i - Size(i) + 1].size = Stream[i].size
  /\ \A x \in 1..b : \E i \in FramesTo(p) : i - Size(i) < x /\ x <= i

Buffer ==
  /\ rpc \in {"recv", "drain", "parse", "ended"}
  /\ outIndex \in 0..NChunks /\ newCount \in Nat
  /\ InPlace(source, outIndex)
  /\ Len(bufOut) \in 0..Taken /\ bufOut = SubSeq(Stream, Position + 1, Taken)
  /\ LengthKnown => chunkLen = Stream[Behind + 1].size
  /\ Parsed(Position, Behind, newCount)
  /\ rpc \in {"recv", "drain"} => Len(bufOut) < (IF LengthKnown THEN chunkLen ELSE LenSize)

-----------------------------------------------------------------------------
(* Behind it the end of its frame decides the message.                     *)
FrameMsg(i) == [buf |-> SubSeq(Stream, i - Stream[i].size + 1, i), idx |-> Texts(i) - 1]
TextMsg(i)  == [buf |-> Text(Stream[i].chunk), idx |-> Texts(i) - 1]
GoodFrames  == {i \in Frames : Compressed(FrameMsg(i).buf)}
FrameMsgs   == {FrameMsg(i) : i \in Frames}
TextMsgs    == {TextMsg(i) : i \in GoodFrames}

Downstream ==
  /\ chC \in Seq(FrameMsgs)
  /\ chOut \in Seq(TextMsgs)
  /\ \A t \in Decompressors : ending[t] = "running" =>
       /\ stage[t] = "work" => hold[t] \in FrameMsgs
       /\ stage[t] = "send" => hold[t] \in TextMsgs
  /\ pending \subseteq TextMsgs
  /\ writeIndex \in 0..newCount
  /\ written = SubSeq(Contents, 1, writeIndex)
  /\ \A i \in Frames : Texts(i) <= writeIndex => i \in GoodFrames

-----------------------------------------------------------------------------
Failed == wpc = "err" \/ \E t \in Threads : ending[t] = "err"
Ended(T) == \A t \in T : ending[t] # "running"

Control ==
  /\ source \in Sources
  /\ mpc \in {"read", "send", "joinWriter", "joinCrypt", "done", "exited"}
  /\ wpc \in {"recv", "drain", "others", "ok", "err"}
  /\ chunkCount \in 0..NChunks /\ joined \in 0..NHandles
  /\ result \in {"none", "ok", "read", "writer", "crypt"}
  /\ ending \in [Threads -> {"running", "ok", "err"}]
  /\ stage \in [Workers -> {"recv", "work", "send"}]
  /\ DOMAIN hold = Workers
  /\ mpc \in {"read", "send"} => chunkCount < NChunks
  /\ mpc \in {"read", "send", "joinWriter"} => joined = 0
  /\ mpc \in {"joinWriter", "joinCrypt"} => chunkCount = NChunks \/ Failed
  /\ mpc = "joinCrypt" => wpc = "ok" /\ \A t \in 1..joined : ending[t] = "ok"
  /\ result = "ok" => /\ wpc = "ok" /\ chunkCount = NChunks
                      /\ \A t \in Threads : ending[t] = "ok"
  /\ \A t \in Decryptors : ending[t] = "ok" =>
       (~TxInOpen /\ chIn = <<>>) \/ ending[Resegmenter] = "err"
  /\ ending[Resegmenter] = "running" <=> rpc # "ended"
  /\ ending[Resegmenter] = "ok" => chE = <<>> /\ Ended(Decryptors) /\ bufOut = <<>>
  /\ rpc = "recv" \/ ending[Resegmenter] = "ok" => outIndex \notin Waiting(rPending)
  /\ \A t \in Decompressors : ending[t] = "ok" => (rpc = "ended" /\ chC = <<>>) \/ wpc = "err"
  /\ wpc \in {"others", "ok"} => chOut = <<>> /\ Ended(Decompressors)
  /\ wpc \in {"recv", "others", "ok"} => writeIndex \notin Waiting(pending)
  /\ wpc = "ok" <=> finalised

(* As long as no thread failed, a segment that was sent is in a place      *)
(* before the resegmentation thread or in the stream, and a chunk that was *)
(* parsed is in a place behind it or was written.                          *)
NoSegmentLost ==
  \A k \in 0..(chunkCount - 1) :
    \/ k < outIndex
    \/ k \in Waiting(rPending) \cup Places(chE) \cup Held(Decryptors) \cup Places(chIn)

NoChunkLost ==
  \A k \in 0..(newCount - 1) :
    \/ k < writeIndex
    \/ k \in Waiting(pending) \cup Places(chOut) \cup Held(Decompressors) \cup Places(chC)

NothingLost == ~Failed => NoSegmentLost /\ NoChunkLost

-----------------------------------------------------------------------------
(* Why a thread fails: a segment that is not in its place, a chunk that was *)
(* damaged, or another failure behind or before it.                         *)
Blame ==
  /\ result = "crypt" => wpc = "ok" /\ joined < NHandles /\ ending[joined + 1] = "err"
                         /\ \A t \in 1..joined : ending[t] = "ok"
  /\ result = "writer" => wpc = "err"
  /\ mpc \in {"done", "exited"} <=> result # "none"
  /\ \A t \in Decryptors : ending[t] = "err" => ~Intact
  /\ \A t \in Decompressors : ending[t] = "err" => ~Sound
  /\ ending[Resegmenter] = "err" =>
       \/ wpc = "err" \/ result = "read" \/ ~Sound
       \/ \E t \in Decryptors : ending[t] = "err"

IInv == Control /\ Upstream /\ Buffer /\ Downstream /\ NothingLost /\ Blame
=============================================================================
