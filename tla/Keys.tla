-------------------------------- MODULE Keys --------------------------------
(***************************************************************************)
(* KeyBuilder (common.rs): which secrets go into which keys.               *)
(*                                                                         *)
(* Hash functions and key derivations are free constructors: the result is *)
(* the record of what it was made from, so two keys are equal exactly if   *)
(* everything that went into them is.  A key file is the sequence of its   *)
(* blocks; a USB key is the record of its identity and of what it          *)
(* supports, and it answers only to credentials it has issued.             *)
(***************************************************************************)
EXTENDS Naturals, FiniteSets, Sequences

CONSTANTS
  MaxKeyfileReads,      \* MAX_KEYFILE_CHUNKS
  ReadSize,             \* CHUNK_SIZE: the most a read returns, in blocks
  LeastRead             \* the least it returns before the end of the file

ASSUME KeysAssumption ==
  /\ MaxKeyfileReads \in Nat \ {0} /\ LeastRead \in Nat \ {0}
  /\ ReadSize \in Nat /\ LeastRead <= ReadSize

Minimum(a, b) == IF a < b THEN a ELSE b

\* read_and_hash_keyfile: the possible lengths of what is hashed.  The number of
\* reads is bounded, not what they return; a short read counts as one.
HashedLengths(blocks) ==
  Minimum(Len(blocks), MaxKeyfileReads * LeastRead)
    ..Minimum(Len(blocks), MaxKeyfileReads * ReadSize)
KeyfileHashes(blocks) ==
  {[keyfile |-> SubSeq(blocks, 1, n)] : n \in HashedLengths(blocks)}

\* usb_fido2_hmac_secret refuses other devices, and several of them.
Usable(device) == device.hmacSecret /\ device.alwaysUv /\ device.clientPin
OnlyDevice(connected, device) == connected = {device} /\ Usable(device)
HmacSecret(device, credential, salt) ==
  [device |-> device.id, credential |-> credential, salt |-> salt]

-----------------------------------------------------------------------------
Argon2(secret, salt) == [secret |-> secret, salt |-> salt]
Hkdf(key, salt, info) == [key |-> key, salt |-> salt, info |-> info]

\* The two ciphers made from one Argon2 key.
Ciphers(secret, saltPw, saltEnc, part) ==
  LET key == Argon2(secret, saltPw)
  IN  [cha |-> Hkdf(key, saltEnc, <<part, "xchacha20poly1305">>),
       aes |-> Hkdf(key, saltEnc, <<part, "aes-256-gcm-siv">>)]

PasswordPart(password) == [password |-> password]

\* get_password_and_create_header_ciphers
HeaderCiphers(password, saltPw, saltEnc) ==
  Ciphers(<<PasswordPart(password)>>, saltPw, saltEnc, "header")

\* create_body_ciphers: the parts that are used, in this order.  hash and hmac
\* are sequences of at most one element.
BodyCiphers(hash, hmac, password, saltPw, saltEnc) ==
  Ciphers(hash \o hmac \o <<PasswordPart(password)>>, saltPw, saltEnc, "body")
=============================================================================
