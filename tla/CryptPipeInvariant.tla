------------------------- MODULE CryptPipeInvariant -------------------------
(***************************************************************************)
(* The inductive invariant of CryptPipe, in three parts.                   *)
(***************************************************************************)
EXTENDS CryptPipe

\* The messages that belong to this source: the chunk number decides all.
InMsgs  == {InMsg(k) : k \in 0..(NChunks - 1)}
OutMsgs == {OutMsg(m) : m \in {n \in InMsgs : Authentic(n)}}
Results == {m.buf : m \in OutMsgs}

InHand(t) == ending[t] = "running" /\ stage[t] # "recv"

(* Each place that can hold a chunk holds only messages of its kind.       *)
Places ==
  /\ source \in Sources
  /\ chIn \in Seq(InMsgs) /\ Len(chIn) <= CapIn
  /\ chOut \in Seq(OutMsgs) /\ Len(chOut) <= CapOut
  /\ ending \in [Threads -> {"running", "ok", "err"}]
  /\ stage \in [Threads -> {"recv", "crypt", "send"}]
  /\ DOMAIN hold = Threads
  /\ \A t \in Threads : ending[t] = "running" =>
       /\ stage[t] = "crypt" => hold[t] \in InMsgs
       /\ stage[t] = "send"  => hold[t] \in OutMsgs
  /\ pending \subseteq OutMsgs
  /\ writeIndex \in 0..NChunks
  /\ written \in Seq(Results) /\ Len(written) = writeIndex
  /\ \A k \in 0..(writeIndex - 1) : /\ written[k + 1] = Crypted(InMsg(k))
                                    /\ Authentic(InMsg(k))

Failed == wpc = "err" \/ \E t \in Threads : ending[t] = "err"

(* What the control states of main, the writer and the workers say of one  *)
(* another.                                                                *)
Control ==
  /\ mpc \in MainStates
  /\ wpc \in {"recv", "drain", "others", "ok", "err"}
  /\ chunkCount \in 0..NChunks /\ joined \in 0..NHandles
  /\ result \in {"none", "ok", "read", "writer", "crypt"}
  /\ finalised \in BOOLEAN
  /\ result = "none" <=> mpc \notin {"done", "exited"}
  /\ mpc \in {"read", "send"} => chunkCount < NChunks
  /\ mpc \in {"read", "send", "joinWriter"} => joined = 0
  /\ mpc \in {"joinWriter", "joinCrypt"} => chunkCount = NChunks \/ Failed
  /\ mpc = "joinCrypt" => wpc = "ok" /\ \A t \in 1..joined : ending[t] = "ok"
  /\ result = "ok" => /\ wpc = "ok" /\ chunkCount = NChunks
                      /\ \A t \in Threads : ending[t] = "ok"
  /\ result = "crypt" => \E t \in Threads : ending[t] = "err"
  /\ wpc \in {"others", "ok"} => /\ chOut = <<>>
                                 /\ \A t \in Threads : ending[t] # "running"
  /\ wpc \in {"recv", "others", "ok"} => \A m \in pending : m.idx # writeIndex
  /\ wpc = "ok" => finalised
  /\ \A t \in Threads : ending[t] = "ok" =>
       (~TxInOpen /\ chIn = <<>>) \/ wpc = "err"
  /\ Decrypting /\ (\E t \in Threads : ending[t] = "err") => ~Intact

(* As long as no thread failed, every chunk sent is still somewhere.       *)
Somewhere(k) ==
  \/ k < writeIndex
  \/ \E m \in pending : m.idx = k
  \/ \E i \in 1..Len(chOut) : chOut[i].idx = k
  \/ \E t \in Threads : InHand(t) /\ hold[t].idx = k
  \/ \E i \in 1..Len(chIn) : chIn[i].idx = k

NothingLost == ~Failed => \A k \in 0..(chunkCount - 1) : Somewhere(k)

IInv == Places /\ Control /\ NothingLost
=============================================================================
