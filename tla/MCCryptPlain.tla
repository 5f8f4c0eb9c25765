---------------------------- MODULE MCCryptPlain ----------------------------
(* Encryption of files of one to four chunks, and decryption of every      *)
(* stream of up to three sealed chunks: the intact file, and files with    *)
(* chunks missing, repeated, out of order or with a wrong final flag.      *)
EXTENDS CryptPipeInvariant

Plain == {[i \in 1..n |-> [data |-> i]] : n \in 1..4}
Sealed == {Seal(n, n, last) : n \in 0..2, last \in BOOLEAN}

MCCiphertexts == UNION {[1..n -> Sealed] : n \in 1..3}
MCSources == Plain \cup MCCiphertexts
MCThreads == 1..NHandles
=============================================================================
