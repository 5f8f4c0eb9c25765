----------------------------- MODULE FileHeader -----------------------------
(***************************************************************************)
(* The header of an encrypted file: create_header, and what decryption     *)
(* takes from it, get_unencrypted_header_items and                         *)
(* get_encrypted_header_items.  Nothing in the header says where a field   *)
(* is; writer and reader agree by their sizes only.                        *)
(*                                                                         *)
(* A byte is a number.  The parameters are the record of EncHeaderParams;  *)
(* an Option is a sequence of at most one element.                         *)
(***************************************************************************)
EXTENDS Integers, Sequences

CONSTANTS
  SaltSize, FileIdSize,     \* SALT_SIZE, FILE_ID_SIZE
  MaxCredentialSize         \* MAX_CREDENTIAL_ID_FIDO_SIZE

ASSUME HeaderAssumption ==
  SaltSize \in Nat \ {0} /\ FileIdSize \in Nat \ {0} /\ MaxCredentialSize \in Nat \ {0}

Bytes(n) == [1..n -> Nat]

None == <<>>
Some(x) == <<x>>

\* What can be written: the length of the credential has to fit in a byte and
\* the credential in its field (create_header fails or panics otherwise).
Fits(credential) == Len(credential) <= 255 /\ Len(credential) <= MaxCredentialSize

Bit(b, value) == IF b THEN value ELSE 0
Flags(p) == Bit(p.compress, 1) + Bit(p.archive, 2) + Bit(p.keyfile, 4) + Bit(p.usbKey, 8)
HasFlag(flags, value) == (flags \div value) % 2 = 1

CredentialOf(p) == IF p.credential = None THEN <<>> ELSE p.credential[1]

\* The part to be encrypted; filler is the random data in unused fields.
Metadata(version, p, filler) ==
  LET cred == CredentialOf(p)
  IN  <<version, Flags(p)>>
        \o p.saltBodyPw \o p.saltBodyEnc \o p.fileId
        \o (IF p.saltBodyFido = None THEN filler.salt ELSE p.saltBodyFido[1])
        \o <<Len(cred)>> \o cred \o SubSeq(filler.pad, 1, MaxCredentialSize - Len(cred))

MetadataSize == 2 + 3 * SaltSize + FileIdSize + 1 + MaxCredentialSize

-----------------------------------------------------------------------------
\* The n bytes from offset s, as in enc_header[s..s+n].
Slice(bytes, s, n) == SubSeq(bytes, s + 1, s + n)

FileIdAt == 2 + 2 * SaltSize
FidoAt == FileIdAt + FileIdSize
CredentialAt == FidoAt + SaltSize

\* Mutant: the credential begins with its length.
ReadCredential_Length(m) == Slice(m, CredentialAt, m[CredentialAt + 1])
ReadCredential(m) == Slice(m, CredentialAt + 1, m[CredentialAt + 1])

\* get_encrypted_header_items
ReadParams(m) ==
  LET flag(value) == HasFlag(m[2], value)
  IN  [compress |-> flag(1), archive |-> flag(2), keyfile |-> flag(4), usbKey |-> flag(8),
       saltBodyPw |-> Slice(m, 2, SaltSize),
       saltBodyEnc |-> Slice(m, 2 + SaltSize, SaltSize),
       fileId |-> Slice(m, FileIdAt, FileIdSize),
       saltBodyFido |-> IF flag(8) THEN Some(Slice(m, FidoAt, SaltSize)) ELSE None,
       credential |-> IF flag(8) THEN Some(ReadCredential(m)) ELSE None]

ReadVersion(m) == m[1]

\* The salts before the encrypted part.
ClearPart(saltPw, saltEnc) == saltPw \o saltEnc
ReadSaltPw(clear) == Slice(clear, 0, SaltSize)
ReadSaltEnc(clear) == Slice(clear, SaltSize, SaltSize)
=============================================================================
