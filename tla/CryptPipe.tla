----------------------------- MODULE CryptPipe -----------------------------
(***************************************************************************)
(* The pipeline of one run without compression: io_chunks (IoChunks) with  *)
(* the workers of Encryption::encrypt_pipe or of Decryption::decrypt_pipe, *)
(* cpu_count threads that take chunks from rx_in and send results to       *)
(* tx_out.                                                                 *)
(* In decryption the chunks of the source are sealed chunks (Sealing).     *)
(***************************************************************************)
EXTENDS IoChunks, Sealing

CONSTANTS
  Ciphertexts,  \* the sources that decrypt_pipe is run on, not encrypt_pipe
  NoChunk       \* a thread between two chunks

ASSUME PipeAssumption ==
  /\ InSide = Threads /\ OutSide = Threads
  /\ Ciphertexts \subseteq Sources

VARIABLES
  stage,        \* workers: "recv", "crypt" (the chunk is a local) or "send"
  hold          \* workers: the chunk in hand

pipeVars == <<stage, hold>>
vars == <<ioVars, stage, hold>>

Decrypting == source \in Ciphertexts

\* cha_encrypt_buffer and aes_encrypt_buffer, or aes_ and cha_decrypt_buffer.
Crypted(m) == IF Decrypting THEN m.buf.data ELSE Seal(m.buf, m.idx, m.final)

Authentic(m) == Decrypting => Opens(m.buf, m.idx, m.final)

OutMsg(m) == [buf |-> Crypted(m), idx |-> m.idx]

-----------------------------------------------------------------------------
Init ==
  /\ IoInit
  /\ stage = [t \in Threads |-> "recv"]
  /\ hold = [t \in Threads |-> NoChunk]

Running(t, s) == Alive /\ ending[t] = "running" /\ stage[t] = s

End(t, how) ==
  /\ ending' = [ending EXCEPT ![t] = how]
  /\ hold' = [hold EXCEPT ![t] = NoChunk]
  /\ UNCHANGED <<mainVars, chIn, chOut, writerVars, stage>>

WorkerRecv(t) ==
  /\ Running(t, "recv") /\ chIn # <<>>
  /\ hold' = [hold EXCEPT ![t] = Head(chIn)]
  /\ chIn' = Tail(chIn)
  /\ stage' = [stage EXCEPT ![t] = "crypt"]
  /\ UNCHANGED <<mainVars, chOut, ending, writerVars>>

\* tx_in is dropped and the channel is empty: the for loop ends with Ok.
WorkerRecvClosed(t) ==
  /\ Running(t, "recv") /\ chIn = <<>> /\ ~TxInOpen
  /\ End(t, "ok")

WorkerCrypt(t) ==
  /\ Running(t, "crypt") /\ Authentic(hold[t])
  /\ hold' = [hold EXCEPT ![t] = OutMsg(hold[t])]
  /\ stage' = [stage EXCEPT ![t] = "send"]
  /\ UNCHANGED <<mainVars, chIn, chOut, ending, writerVars>>

\* Mutant: the error is swallowed.
WorkerCryptError_Swallowed(t) ==
  /\ Running(t, "crypt") /\ (Decrypting => ~Authentic(hold[t]))
  /\ End(t, "ok")

\* Encryption may run out of randomness; decryption fails on a chunk that was
\* not sealed for this place.  The chunk is lost, the thread ends with Err.
WorkerCryptError(t) ==
  /\ Running(t, "crypt") /\ (Decrypting => ~Authentic(hold[t]))
  /\ End(t, "err")

WorkerSend(t) ==
  /\ Running(t, "send") /\ RxOutOpen /\ Len(chOut) < CapOut
  /\ chOut' = Append(chOut, hold[t])
  /\ hold' = [hold EXCEPT ![t] = NoChunk]
  /\ stage' = [stage EXCEPT ![t] = "recv"]
  /\ UNCHANGED <<mainVars, chIn, ending, writerVars>>

\* The writer dropped rx_out: break, and Ok.
WorkerSendClosed(t) ==
  /\ Running(t, "send") /\ ~RxOutOpen
  /\ End(t, "ok")

WorkerNext(t) ==
  \/ WorkerRecv(t) \/ WorkerRecvClosed(t)
  \/ WorkerCrypt(t) \/ WorkerCryptError(t)
  \/ WorkerSend(t) \/ WorkerSendClosed(t)

Main == MainNext /\ UNCHANGED pipeVars
Writer == WriterNext /\ UNCHANGED pipeVars
Exited == mpc = "exited" /\ UNCHANGED vars

Next == Main \/ Writer \/ (\E t \in Threads : WorkerNext(t)) \/ Exited

Spec == Init /\ [][Next]_vars

\* The operating system runs every thread that is not blocked.
FairSpec == Spec /\ WF_vars(Main) /\ WF_vars(Writer)
                 /\ \A t \in Threads : WF_vars(WorkerNext(t))

-----------------------------------------------------------------------------
(* Properties.                                                             *)

\* What the sink is to receive, and how much of it is there to be had.
Expected == [i \in 1..NChunks |-> Crypted(InMsg(i - 1))]
InPlace(k) == source[k + 1].num = k /\ source[k + 1].last = (k + 1 = NChunks)
Intact == \A k \in 0..(NChunks - 1) : InPlace(k)

MainStates == {"read", "send", "joinWriter", "joinCrypt", "done", "exited"}

TypeOK ==
  /\ source \in Sources
  /\ mpc \in MainStates
  /\ chunkCount \in 0..NChunks /\ joined \in 0..NHandles
  /\ result \in {"none", "ok", "read", "writer", "crypt"}
  /\ Len(chIn) <= CapIn /\ Len(chOut) <= CapOut
  /\ ending \in [Threads -> {"running", "ok", "err"}]
  /\ stage \in [Threads -> {"recv", "crypt", "send"}]
  /\ DOMAIN hold = Threads
  /\ wpc \in {"recv", "drain", "others", "ok", "err"}
  /\ writeIndex \in 0..NChunks /\ Len(written) = writeIndex
  /\ finalised \in BOOLEAN

\* The sink gets the results of chunks 0, 1, 2, ... in this order, none twice
\* and none left out, whichever worker ends first; and decryption never hands
\* it a chunk whose number and final flag were not those of its place.
InOrder ==
  /\ written = SubSeq(Expected, 1, writeIndex)
  /\ Decrypting => \A k \in 0..(writeIndex - 1) : InPlace(k)

\* io_chunks returns Ok only after the sink received every chunk and was
\* finalised, and after every thread had ended without an error.
OkIsComplete ==
  result = "ok" =>
    /\ written = Expected
    /\ wpc = "ok" /\ finalised
    /\ \A t \in Threads : ending[t] = "ok"

\* In decryption the file decides: Ok only if each of its chunks is sealed for
\* its place, so that none is missing, repeated, moved or appended, and the
\* crypt threads are blamed only if one is not.
VerdictIsTrue ==
  Decrypting => /\ result = "ok" => Intact
                /\ result = "crypt" => ~Intact

\* A chunk is never in two places: the channels, the workers' hands and the
\* writer's map hold different chunks, none of which was written already.
\* pending_chunks.insert would silently replace one of two equal numbers.
Holders == {t \in Threads : hold[t] # NoChunk}
OneChunkOnePlace ==
  /\ \A i, j \in 1..Len(chIn) : chIn[i].idx = chIn[j].idx => i = j
  /\ \A i, j \in 1..Len(chOut) : chOut[i].idx = chOut[j].idx => i = j
  /\ \A t, u \in Holders : hold[t].idx = hold[u].idx => t = u
  /\ \A m, n \in pending : m.idx = n.idx => m = n
  /\ LET inIn   == {chIn[i].idx : i \in 1..Len(chIn)}
         inOut  == {chOut[i].idx : i \in 1..Len(chOut)}
         inHand == {hold[t].idx : t \in Holders}
         inMap  == {m.idx : m \in pending}
         done   == 0..(writeIndex - 1)
     IN  /\ inIn \cap (inOut \cup inHand \cup inMap \cup done) = {}
         /\ inOut \cap (inHand \cup inMap \cup done) = {}
         /\ inHand \cap (inMap \cup done) = {}
         /\ inMap \cap done = {}

\* The run always ends, whatever fails, blocks or ends early on the way: main
\* gets out of a full channel, a join never waits for a blocked thread.
Termination == <>(mpc = "exited")

\* The pipeline implements the in-order stream of OrderedStream.
Verdict == IF result \in {"none", "ok"} THEN result ELSE "err"
Stream == INSTANCE OrderedStream WITH
            stream <- Expected, out <- written,
            sealed <- wpc = "ok", verdict <- Verdict
ImplementsStream == Stream!Spec

=============================================================================
