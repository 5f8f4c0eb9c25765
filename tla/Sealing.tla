------------------------------ MODULE Sealing ------------------------------
(***************************************************************************)
(* One encrypted chunk.  The XChaCha20-Poly1305 layer has the chunk number *)
(* and the final flag in its nonce, the AES-256-GCM-SIV layer in its       *)
(* associated data; either makes decryption fail for any other number or   *)
(* flag.  A sealed chunk is therefore the record of the three.             *)
(***************************************************************************)
Seal(data, n, last) == [data |-> data, num |-> n, last |-> last]

\* Mutant: the final flag is not bound to the ciphertext.
Opens_AnyFinal(c, n, last) == c.num = n

\* Decryption as chunk n, with the given final flag, succeeds.
Opens(c, n, last) == c.num = n /\ c.last = last
=============================================================================
