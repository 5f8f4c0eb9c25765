--------------------------- MODULE SessionProofs ---------------------------
(***************************************************************************)
(* Proofs about whole runs, for every set of command lines, passwords, key *)
(* files and USB keys, and for every number of runs.  First, that no run   *)
(* changes a file before it has the secrets; then, what a decryption gives *)
(* back, and to whom.                                                      *)
(***************************************************************************)
EXTENDS Session, SequenceTheorems, TLAPS

-----------------------------------------------------------------------------
(* Slices of concatenations.                                               *)

LEMMA SliceKept ==
  ASSUME NEW S, NEW x \in Seq(S), NEW y \in Seq(S), NEW s \in Nat, NEW n \in Nat,
         s + n <= Len(x)
  PROVE  Slice(x \o y, s, n) = Slice(x, s, n)
  <1>0. Len(x) \in Nat /\ s + 1 \in Int /\ s + n \in Int
    BY LenProperties
  <1>1. /\ \A i \in (s + 1)..(s + n) : x[i] \in S
        /\ \A i \in (s + 1)..(s + n) : (x \o y)[i] = x[i]
    <2> SUFFICES ASSUME NEW i \in (s + 1)..(s + n)
                 PROVE  x[i] \in S /\ (x \o y)[i] = x[i]
      OBVIOUS
    <2>1. i \in 1..Len(x) /\ Len(y) \in Nat
      BY <1>0, LenProperties
    <2> QED BY <2>1, <1>0, ConcatProperties, ElementOfSeq
  <1>2. \A i \in (s + 1)..(s + n) : (x \o y)[i] \in S
    BY <1>1
  <1>3. /\ SubSeq(x, s + 1, s + n) \in Seq(S)
        /\ Len(SubSeq(x, s + 1, s + n)) = n
        /\ \A i \in 1..n : SubSeq(x, s + 1, s + n)[i] = x[s + i]
    BY <1>0, <1>1, SubSeqProperties
  <1>4. /\ SubSeq(x \o y, s + 1, s + n) \in Seq(S)
        /\ Len(SubSeq(x \o y, s + 1, s + n)) = n
        /\ \A i \in 1..n : SubSeq(x \o y, s + 1, s + n)[i] = (x \o y)[s + i]
    BY <1>0, <1>2, SubSeqProperties
  <1>5. \A i \in 1..n : s + i \in (s + 1)..(s + n)
    OBVIOUS
  <1> QED BY <1>1, <1>3, <1>4, <1>5, SeqEqual DEF Slice

LEMMA SliceLast ==
  ASSUME NEW S, NEW x \in Seq(S), NEW y \in Seq(S)
  PROVE  Slice(x \o y, Len(x), Len(y)) = y
  <1>0. Len(x) \in Nat /\ Len(y) \in Nat
    BY LenProperties
  <1>1. \A i \in 1..Len(y) : (x \o y)[Len(x) + i] = y[i] /\ y[i] \in S
    BY <1>0, ConcatProperties, ElementOfSeq
  <1>2. \A i \in (Len(x) + 1)..(Len(x) + Len(y)) : (x \o y)[i] \in S
    <2> TAKE i \in (Len(x) + 1)..(Len(x) + Len(y))
    <2>1. i - Len(x) \in 1..Len(y) /\ i = Len(x) + (i - Len(x))
      BY <1>0
    <2> QED BY <1>1, <2>1
  <1>3. /\ SubSeq(x \o y, Len(x) + 1, Len(x) + Len(y)) \in Seq(S)
        /\ Len(SubSeq(x \o y, Len(x) + 1, Len(x) + Len(y))) = Len(y)
        /\ \A i \in 1..Len(y) :
             SubSeq(x \o y, Len(x) + 1, Len(x) + Len(y))[i] = (x \o y)[Len(x) + i]
    BY <1>0, <1>2, SubSeqProperties
  <1> QED BY <1>1, <1>3, SeqEqual DEF Slice

LEMMA IndexKept ==
  ASSUME NEW S, NEW x \in Seq(S), NEW y \in Seq(S), NEW i \in 1..Len(x)
  PROVE  (x \o y)[i] = x[i]
  BY ConcatProperties, LenProperties

\* What is in x is at the same place in y.
Kept(x, y) ==
  /\ Len(x) \in Nat /\ Len(y) \in Nat /\ Len(x) <= Len(y)
  /\ \A s, n \in Nat : s + n <= Len(x) => Slice(y, s, n) = Slice(x, s, n)
  /\ \A i \in 1..Len(x) : y[i] = x[i]

LEMMA KeptTransitive ==
  ASSUME NEW x, NEW y, NEW z, Kept(x, y), Kept(y, z)
  PROVE  Kept(x, z)
  BY DEF Kept

\* x is a string of s bytes.
OfSize(x, s) == x \in Seq(Nat) /\ Len(x) = s

\* m is x with one more field, y.
Appended(m, x, y) == m = x \o y

LEMMA Field ==
  ASSUME NEW x, NEW s \in Nat, OfSize(x, s), NEW y, NEW n \in Nat, OfSize(y, n),
         NEW m, Appended(m, x, y)
  PROVE  OfSize(m, s + n) /\ Slice(m, s, n) = y /\ Kept(x, m)
  <1>0. x \in Seq(Nat) /\ Len(x) = s /\ y \in Seq(Nat) /\ Len(y) = n /\ m = x \o y
    BY DEF OfSize, Appended
  <1>1. m \in Seq(Nat) /\ Len(m) = s + n
    BY <1>0, ConcatProperties
  <1>2. Slice(m, s, n) = y
    BY <1>0, SliceLast
  <1>3. \A k, l \in Nat : k + l <= Len(x) => Slice(m, k, l) = Slice(x, k, l)
    BY <1>0, SliceKept
  <1>4. \A i \in 1..Len(x) : m[i] = x[i]
    BY <1>0, IndexKept
  <1> QED BY <1>0, <1>1, <1>2, <1>3, <1>4 DEF Kept, OfSize

LEMMA LastByte ==
  ASSUME NEW x, NEW s \in Nat, OfSize(x, s), NEW y, OfSize(y, 1), NEW m, Appended(m, x, y)
  PROVE  m[s + 1] = y[1]
  <1>1. x \in Seq(Nat) /\ Len(x) = s /\ y \in Seq(Nat) /\ Len(y) = 1 /\ m = x \o y
    BY DEF OfSize, Appended
  <1>2. s + 1 \in 1..(Len(x) + Len(y)) /\ ~(s + 1 <= Len(x)) /\ (s + 1) - Len(x) = 1
    BY <1>1
  <1>3. (x \o y)[s + 1] = y[(s + 1) - Len(x)]
    BY <1>1, <1>2, ConcatProperties
  <1> QED BY <1>1, <1>2, <1>3

LEMMA BytesAreSeq ==
  ASSUME NEW n \in Nat, NEW b \in Bytes(n)
  PROVE  b \in Seq(Nat) /\ Len(b) = n
  BY DEF Bytes

\* m consists of eight fields of the sizes that create_header gives them.
HasFields(m, S, F, C, G, m0, a, b, c, d, e, f, g) ==
  /\ OfSize(m0, 2) /\ OfSize(a, S) /\ OfSize(b, S) /\ OfSize(c, F) /\ OfSize(d, S)
  /\ OfSize(e, 1) /\ OfSize(f, C) /\ OfSize(g, G)
  /\ m = m0 \o a \o b \o c \o d \o e \o f \o g

\* Each field is where the reader looks for it.
FieldsFound(m, S, F, C, G, m0, a, b, c, d, e, f) ==
  /\ Len(m) = 2 + 2 * S + F + S + 1 + C + G
  /\ m[1] = m0[1] /\ m[2] = m0[2]
  /\ Slice(m, 2, S) = a
  /\ Slice(m, 2 + S, S) = b
  /\ Slice(m, 2 + 2 * S, F) = c
  /\ Slice(m, 2 + 2 * S + F, S) = d
  /\ m[2 + 2 * S + F + S + 1] = e[1]
  /\ Slice(m, 2 + 2 * S + F + S + 1, C) = f

LEMMA Layout ==
  ASSUME NEW m7, NEW S \in Nat, NEW F \in Nat, NEW C \in Nat, NEW G \in Nat,
         NEW m0, NEW a, NEW b, NEW c, NEW d, NEW e, NEW f, NEW g,
         HasFields(m7, S, F, C, G, m0, a, b, c, d, e, f, g)
  PROVE  FieldsFound(m7, S, F, C, G, m0, a, b, c, d, e, f)
  <1> DEFINE s1 == 2 + S
             s2 == 2 + 2 * S
             s3 == 2 + 2 * S + F
             s4 == 2 + 2 * S + F + S
             s5 == 2 + 2 * S + F + S + 1
  <1>0. /\ s1 \in Nat /\ s2 \in Nat /\ s3 \in Nat /\ s4 \in Nat /\ s5 \in Nat
        /\ 1 \in Nat /\ 2 \in Nat
        /\ s1 = 2 + S /\ s2 = s1 + S /\ s3 = s2 + F /\ s4 = s3 + S /\ s5 = s4 + 1
    OBVIOUS
  <1> HIDE DEF s1, s2, s3, s4, s5
  <1> DEFINE m1 == m0 \o a
             m2 == m1 \o b
             m3 == m2 \o c
             m4 == m3 \o d
             m5 == m4 \o e
             m6 == m5 \o f
  <1>w. /\ Appended(m1, m0, a) /\ Appended(m2, m1, b) /\ Appended(m3, m2, c)
        /\ Appended(m4, m3, d) /\ Appended(m5, m4, e) /\ Appended(m6, m5, f)
        /\ Appended(m7, m6, g)
    BY DEF Appended, HasFields
  <1>s. /\ OfSize(m0, 2) /\ OfSize(a, S) /\ OfSize(b, S) /\ OfSize(c, F) /\ OfSize(d, S)
        /\ OfSize(e, 1) /\ OfSize(f, C) /\ OfSize(g, G)
    BY DEF HasFields
  <1> HIDE DEF m1, m2, m3, m4, m5, m6
  <1>1. OfSize(m1, s1) /\ Slice(m1, 2, S) = a /\ Kept(m0, m1)
    <2>1. OfSize(m1, 2 + S) /\ Slice(m1, 2, S) = a /\ Kept(m0, m1)
      BY <1>0, <1>w, <1>s, Field, SMT
    <2> QED BY <1>0, <2>1
  <1>2. OfSize(m2, s2) /\ Slice(m2, s1, S) = b /\ Kept(m1, m2)
    <2>1. OfSize(m2, s1 + S) /\ Slice(m2, s1, S) = b /\ Kept(m1, m2)
      BY <1>0, <1>1, <1>w, <1>s, Field, SMT
    <2> QED BY <1>0, <2>1
  <1>3. OfSize(m3, s3) /\ Slice(m3, s2, F) = c /\ Kept(m2, m3)
    <2>1. OfSize(m3, s2 + F) /\ Slice(m3, s2, F) = c /\ Kept(m2, m3)
      BY <1>0, <1>2, <1>w, <1>s, Field, SMT
    <2> QED BY <1>0, <2>1
  <1>4. OfSize(m4, s4) /\ Slice(m4, s3, S) = d /\ Kept(m3, m4)
    <2>1. OfSize(m4, s3 + S) /\ Slice(m4, s3, S) = d /\ Kept(m3, m4)
      BY <1>0, <1>3, <1>w, <1>s, Field, SMT
    <2> QED BY <1>0, <2>1
  <1>5. OfSize(m5, s5) /\ m5[s5] = e[1] /\ Kept(m4, m5)
    <2>1. OfSize(m5, s4 + 1) /\ Kept(m4, m5) /\ m5[s4 + 1] = e[1]
      BY <1>0, <1>4, <1>w, <1>s, Field, LastByte, SMT
    <2> QED BY <1>0, <2>1
  <1>6. OfSize(m6, s5 + C) /\ Slice(m6, s5, C) = f /\ Kept(m5, m6)
    BY <1>0, <1>5, <1>w, <1>s, Field, SMT
  <1>7. Kept(m6, m7) /\ OfSize(m7, s5 + C + G)
    <2>1. s5 + C \in Nat
      BY <1>0
    <2> QED BY <2>1, <1>6, <1>w, <1>s, Field, SMT
  <1>8. /\ Kept(m5, m7) /\ Kept(m4, m7) /\ Kept(m3, m7) /\ Kept(m2, m7) /\ Kept(m1, m7)
        /\ Kept(m0, m7)
    BY <1>1, <1>2, <1>3, <1>4, <1>5, <1>6, <1>7, KeptTransitive, Zenon
  <1>9. m7[1] = m0[1] /\ m7[2] = m0[2]
    <2>1. 1 \in 1..Len(m0) /\ 2 \in 1..Len(m0)
      BY <1>s DEF OfSize
    <2> QED BY <2>1, <1>8 DEF Kept, OfSize
  <1>10. Slice(m7, 2, S) = a
    BY <1>0, <1>1, <1>8 DEF Kept, OfSize
  <1>11. Slice(m7, s1, S) = b
    BY <1>0, <1>2, <1>8 DEF Kept, OfSize
  <1>12. Slice(m7, s2, F) = c
    BY <1>0, <1>3, <1>8 DEF Kept, OfSize
  <1>13. Slice(m7, s3, S) = d
    BY <1>0, <1>4, <1>8 DEF Kept, OfSize
  <1>14. m7[s5] = e[1]
    <2>0. Len(m5) = s5
      BY <1>5 DEF OfSize
    <2>1. s5 \in 1..Len(m5)
      BY <1>0, <2>0
    <2> QED BY <2>1, <1>5, <1>8 DEF Kept, OfSize
  <1>15. Slice(m7, s5, C) = f
    BY <1>0, <1>6, <1>7 DEF Kept, OfSize
  <1>16. Len(m7) = s5 + C + G
    BY <1>7 DEF OfSize
  <1> QED
    BY <1>9, <1>10, <1>11, <1>12, <1>13, <1>14, <1>15, <1>16
       DEF FieldsFound, s1, s2, s3, s4, s5

-----------------------------------------------------------------------------
\* The unencrypted part.
THEOREM ClearPartRoundTrip ==
  ASSUME NEW saltPw \in Bytes(SaltSize), NEW saltEnc \in Bytes(SaltSize)
  PROVE  /\ ReadSaltPw(ClearPart(saltPw, saltEnc)) = saltPw
         /\ ReadSaltEnc(ClearPart(saltPw, saltEnc)) = saltEnc
  <1>1. /\ saltPw \in Seq(Nat) /\ saltEnc \in Seq(Nat)
        /\ Len(saltPw) = SaltSize /\ Len(saltEnc) = SaltSize
    BY BytesAreSeq, HeaderAssumption
  <1>2. ReadSaltEnc(ClearPart(saltPw, saltEnc)) = saltEnc
    BY <1>1, SliceLast DEF ReadSaltEnc, ClearPart
  <1>3. Slice(saltPw \o saltEnc, 0, SaltSize) = Slice(saltPw, 0, SaltSize)
    BY <1>1, SliceKept, HeaderAssumption
  <1>4. <<>> \in Seq(Nat) /\ Len(<<>>) = 0 /\ <<>> \o saltPw = saltPw
    BY <1>1, ConcatEmptySeq, EmptySeq
  <1>5. Slice(saltPw, 0, SaltSize) = saltPw
    BY <1>1, <1>4, SliceLast
  <1> QED BY <1>2, <1>3, <1>5 DEF ReadSaltPw, ClearPart

-----------------------------------------------------------------------------
\* The flags are told apart.
LEMMA FlagsRoundTrip ==
  ASSUME NEW p, p.compress \in BOOLEAN, p.archive \in BOOLEAN, p.keyfile \in BOOLEAN,
         p.usbKey \in BOOLEAN
  PROVE  /\ Flags(p) \in Nat
         /\ HasFlag(Flags(p), 1) = p.compress /\ HasFlag(Flags(p), 2) = p.archive
         /\ HasFlag(Flags(p), 4) = p.keyfile /\ HasFlag(Flags(p), 8) = p.usbKey
  <1> DEFINE f(a, b, c, d) == Bit(a, 1) + Bit(b, 2) + Bit(c, 4) + Bit(d, 8)
  <1>1. \A a, b, c, d \in BOOLEAN :
          /\ f(a, b, c, d) \in Nat
          /\ HasFlag(f(a, b, c, d), 1) <=> a
          /\ HasFlag(f(a, b, c, d), 2) <=> b
          /\ HasFlag(f(a, b, c, d), 4) <=> c
          /\ HasFlag(f(a, b, c, d), 8) <=> d
    BY DEF HasFlag, Bit
  <1> HIDE DEF f
  <1> DEFINE g == f(p.compress, p.archive, p.keyfile, p.usbKey)
  <1>2. g \in Nat /\ (HasFlag(g, 1) <=> p.compress) /\ (HasFlag(g, 2) <=> p.archive)
          /\ (HasFlag(g, 4) <=> p.keyfile) /\ (HasFlag(g, 8) <=> p.usbKey)
    BY <1>1, Zenon
  <1>3. Flags(p) = g
    BY DEF Flags, f
  <1> HIDE DEF g
  <1>4. \A n \in {1, 2, 4, 8} : HasFlag(Flags(p), n) \in BOOLEAN
    BY DEF HasFlag
  <1> QED BY <1>2, <1>3, <1>4, Zenon

-----------------------------------------------------------------------------
\* What encrypt gives to create_header (EncHeaderParams): a salt and a
\* credential exactly if a USB key is used.
Params ==
  [compress : BOOLEAN, archive : BOOLEAN, keyfile : BOOLEAN, usbKey : BOOLEAN,
   saltBodyPw : Bytes(SaltSize), saltBodyEnc : Bytes(SaltSize), fileId : Bytes(FileIdSize),
   saltBodyFido : {None} \cup {Some(salt) : salt \in Bytes(SaltSize)},
   credential : {None} \cup {Some(c) : c \in Seq(Nat)}]

Valid(p) ==
  /\ p \in Params /\ Fits(CredentialOf(p))
  /\ p.usbKey <=> p.saltBodyFido # None
  /\ p.usbKey <=> p.credential # None

Fillers == [salt : Bytes(SaltSize), pad : Bytes(MaxCredentialSize)]

\* What get_encrypted_header_items reads is what create_header was given, for
\* every version, all parameters and all random fillers; and the header is as
\* long as decryption expects.
THEOREM HeaderRoundTrip ==
  ASSUME NEW version \in Nat, NEW p, Valid(p), NEW filler \in Fillers
  PROVE  /\ ReadParams(Metadata(version, p, filler)) = p
         /\ ReadVersion(Metadata(version, p, filler)) = version
         /\ Len(Metadata(version, p, filler)) = MetadataSize
  <1> DEFINE cred == CredentialOf(p)
             fido == IF p.saltBodyFido = None THEN filler.salt ELSE p.saltBodyFido[1]
             pad == SubSeq(filler.pad, 1, MaxCredentialSize - Len(cred))
             start == <<version, Flags(p)>>
             bytes == start \o p.saltBodyPw \o p.saltBodyEnc \o p.fileId \o fido
                     \o <<Len(cred)>> \o cred \o pad
  <1>1. Metadata(version, p, filler) = bytes
    BY DEF Metadata
  <1>2. p \in Params
    BY DEF Valid
  <1>a. SaltSize \in Nat /\ FileIdSize \in Nat /\ MaxCredentialSize \in Nat
    BY HeaderAssumption
  <1>b. p.saltBodyPw \in Seq(Nat) /\ Len(p.saltBodyPw) = SaltSize
    BY <1>2, <1>a, BytesAreSeq DEF Params
  <1>c. p.saltBodyEnc \in Seq(Nat) /\ Len(p.saltBodyEnc) = SaltSize
    BY <1>2, <1>a, BytesAreSeq DEF Params
  <1>d. p.fileId \in Seq(Nat) /\ Len(p.fileId) = FileIdSize
    BY <1>2, <1>a, BytesAreSeq DEF Params
  <1>4. fido \in Seq(Nat) /\ Len(fido) = SaltSize
    <2>1. CASE p.saltBodyFido = None
      BY <2>1, BytesAreSeq, HeaderAssumption DEF Fillers
    <2>2. CASE p.saltBodyFido # None
      <3>1. PICK salt \in Bytes(SaltSize) : p.saltBodyFido = Some(salt)
        BY <1>2, <2>2 DEF Params
      <3>2. fido = salt
        BY <2>2, <3>1 DEF Some
      <3> QED BY <3>2, BytesAreSeq, HeaderAssumption
    <2> QED BY <2>1, <2>2
  <1>5. cred \in Seq(Nat) /\ Len(cred) \in Nat /\ Len(cred) <= MaxCredentialSize
    <2>1. cred \in Seq(Nat)
      <3>1. CASE p.credential = None
        BY <3>1, EmptySeq DEF CredentialOf
      <3>2. CASE p.credential # None
        <4>1. PICK c \in Seq(Nat) : p.credential = Some(c)
          BY <1>2, <3>2 DEF Params
        <4>2. cred = c
          BY <3>2, <4>1 DEF CredentialOf, Some
        <4> QED BY <4>2
      <3> QED BY <3>1, <3>2
    <2> QED BY <2>1, LenProperties DEF Valid, Fits
  <1>6. pad \in Seq(Nat) /\ Len(pad) = MaxCredentialSize - Len(cred)
    <2>1. filler.pad \in Seq(Nat) /\ Len(filler.pad) = MaxCredentialSize
      BY BytesAreSeq, HeaderAssumption DEF Fillers
    <2>2. \A i \in 1..(MaxCredentialSize - Len(cred)) : filler.pad[i] \in Nat
      BY <1>5, <2>1, ElementOfSeq, HeaderAssumption
    <2> QED BY <1>5, <2>2, SubSeqProperties, HeaderAssumption
  <1>7. start \in Seq(Nat) /\ Len(start) = 2 /\ start[1] = version /\ start[2] = Flags(p)
    BY <1>2, FlagsRoundTrip DEF Params
  <1>8. <<Len(cred)>> \in Seq(Nat) /\ Len(<<Len(cred)>>) = 1 /\ <<Len(cred)>>[1] = Len(cred)
    BY <1>5
  <1>9. p.saltBodyFido # None => Some(fido) = p.saltBodyFido
    BY <1>2 DEF Params, Some, None
  <1>10. p.credential # None => Some(cred) = p.credential
    BY <1>2 DEF Params, Some, None, CredentialOf
  <1>11. /\ p.compress \in BOOLEAN /\ p.archive \in BOOLEAN /\ p.keyfile \in BOOLEAN
         /\ p.usbKey \in BOOLEAN
    BY <1>2 DEF Params
  <1> HIDE DEF cred, fido, pad
  <1>12. /\ bytes[1] = start[1] /\ bytes[2] = start[2]
         /\ Slice(bytes, 2, SaltSize) = p.saltBodyPw
         /\ Slice(bytes, 2 + SaltSize, SaltSize) = p.saltBodyEnc
         /\ Slice(bytes, 2 + 2 * SaltSize, FileIdSize) = p.fileId
         /\ Slice(bytes, 2 + 2 * SaltSize + FileIdSize, SaltSize) = fido
         /\ bytes[2 + 2 * SaltSize + FileIdSize + SaltSize + 1] = <<Len(cred)>>[1]
         /\ Slice(bytes, 2 + 2 * SaltSize + FileIdSize + SaltSize + 1, Len(cred)) = cred
         /\ Len(bytes) = 2 + 2 * SaltSize + FileIdSize + SaltSize + 1 + Len(cred) + Len(pad)
    <2>1. /\ OfSize(start, 2) /\ OfSize(p.saltBodyPw, SaltSize) /\ OfSize(p.saltBodyEnc, SaltSize)
          /\ OfSize(p.fileId, FileIdSize) /\ OfSize(fido, SaltSize) /\ OfSize(<<Len(cred)>>, 1)
          /\ OfSize(cred, Len(cred)) /\ OfSize(pad, Len(pad))
      BY <1>b, <1>c, <1>d, <1>4, <1>5, <1>6, <1>7, <1>8 DEF OfSize
    <2>2. HasFields(bytes, SaltSize, FileIdSize, Len(cred), Len(pad), start, p.saltBodyPw,
                    p.saltBodyEnc, p.fileId, fido, <<Len(cred)>>, cred, pad)
      BY <2>1, Zenon DEF HasFields
    <2>3. Len(cred) \in Nat /\ Len(pad) \in Nat
      BY <1>5, <1>6, LenProperties
    <2> HIDE DEF start, bytes
    <2>4. FieldsFound(bytes, SaltSize, FileIdSize, Len(cred), Len(pad), start, p.saltBodyPw,
                      p.saltBodyEnc, p.fileId, fido, <<Len(cred)>>, cred)
      BY <2>2, <2>3, <1>a, Layout
    <2> QED BY <2>4, Zenon DEF FieldsFound
  <1> HIDE DEF start, bytes
  <1>13. /\ HasFlag(bytes[2], 1) = p.compress /\ HasFlag(bytes[2], 2) = p.archive
         /\ HasFlag(bytes[2], 4) = p.keyfile /\ HasFlag(bytes[2], 8) = p.usbKey
    BY <1>7, <1>11, <1>12, FlagsRoundTrip
  <1>14. Slice(bytes, FidoAt, SaltSize) = fido /\ Slice(bytes, FileIdAt, FileIdSize) = p.fileId
    BY <1>12 DEF FidoAt, FileIdAt
  <1>15. ReadCredential(bytes) = cred
    BY <1>8, <1>12 DEF ReadCredential, CredentialAt, FidoAt, FileIdAt
  <1>16. (IF HasFlag(bytes[2], 8) THEN Some(Slice(bytes, FidoAt, SaltSize)) ELSE None)
           = p.saltBodyFido
    BY <1>9, <1>11, <1>13, <1>14 DEF Valid
  <1>17. (IF HasFlag(bytes[2], 8) THEN Some(ReadCredential(bytes)) ELSE None) = p.credential
    BY <1>10, <1>11, <1>13, <1>15 DEF Valid
  <1>18. p = [compress |-> p.compress, archive |-> p.archive, keyfile |-> p.keyfile,
              usbKey |-> p.usbKey, saltBodyPw |-> p.saltBodyPw,
              saltBodyEnc |-> p.saltBodyEnc, fileId |-> p.fileId,
              saltBodyFido |-> p.saltBodyFido, credential |-> p.credential]
    BY <1>2 DEF Params
  <1>19. ReadParams(bytes) = p
    BY <1>12, <1>13, <1>14, <1>16, <1>17, <1>18 DEF ReadParams
  <1>20. Len(bytes) = MetadataSize
    <2>1. Len(bytes) = 2 + 2 * SaltSize + FileIdSize + SaltSize + 1 + Len(cred) + Len(pad)
      BY <1>12
    <2>2. Len(cred) \in Nat /\ Len(pad) = MaxCredentialSize - Len(cred)
      BY <1>5, <1>6
    <2> HIDE DEF bytes, cred, pad
    <2> QED BY <1>a, <2>1, <2>2 DEF MetadataSize
  <1> QED BY <1>1, <1>7, <1>12, <1>19, <1>20 DEF ReadVersion

(***************************************************************************)
(* What there is to be found at a path.  A file of this version opens with *)
(* the password it was encrypted with and asks for the other secrets that  *)
(* were used.  What it contains can be an encrypted file itself.           *)
(***************************************************************************)
WellSealed(c) ==
  LET p == ReadParams(c.header.sealed)
  IN  /\ \E w \in Passwords :
           /\ c.with.password = Some(w)
           /\ c.header.keys = HeaderCiphers(w, ReadSaltPw(c.header.clear),
                                            ReadSaltEnc(c.header.clear))
      /\ c.with.keyfile # None => p.keyfile
      /\ c.with.device # None =>
           p.saltBodyFido # None /\ c.with.device = Some(p.credential[1][1])

Good(c) ==
  \/ "kind" \in DOMAIN c /\ c.kind \in {"data", "tree", "broken"}
  \/ /\ c = Sealed(c.header, c.body, c.amount, c.with)
     /\ c.header.version = Version => WellSealed(c)

Closed(S) ==
  \A c \in S : Good(c) /\ (IsSealed(c) /\ c.body.version = Version => c.body.content \in S)

DiskGood == \E S : Closed(S) /\ \A p \in DOMAIN disk : disk[p] \in S

(***************************************************************************)
(* What the steps of a run know of what was done before them.              *)
(***************************************************************************)
Early == {"prepare", "confirm", "check", "password", "bodykeys"}

Run ==
  /\ pc # "idle" =>
       cmd \in Commands /\ cmd.in \in DOMAIN disk /\ given.keyfile = cmd.keyfile
  /\ pc \in {"prepare", "confirm", "header"} => Encrypting
  /\ pc \in {"check", "password", "mkdir"} => Decrypting
  /\ given = [password |-> given.password, keyfile |-> given.keyfile, device |-> given.device]

Untouched ==
  pc \in Early =>
    /\ disk = before.disk /\ given.device = None
    /\ Decrypting => dirs = before.dirs

EncryptionReady ==
  /\ Encrypting /\ pc \in {"bodykeys", "create", "header"} =>
       \E w \in Passwords :
         given.password = Some(w) /\ headerKeys = Some(HeaderCiphers(w, Salt(1), Salt(2)))
  /\ Encrypting /\ pc \in {"create", "header"} =>
       /\ Valid(params[1]) /\ params[1].keyfile = (cmd.keyfile # None)
       /\ given.device # None =>
            params[1].saltBodyFido # None /\ given.device = Some(params[1].credential[1][1])

DecryptionReady ==
  /\ pc = "password" => IsSealed(Source)
  /\ Decrypting /\ pc = "bodykeys" =>
       /\ IsSealed(Source) /\ Source.header.version = Version
       /\ given.password = Source.with.password
       /\ Source.with.keyfile # None => cmd.keyfile # None
       /\ params = Some(ReadParams(Source.header.sealed))

Allowed ==
  /\ pc \in {"mkdir", "create", "header", "body"} => Entitled
  /\ NothingWithoutSecrets

Control == Run /\ Untouched /\ EncryptionReady /\ DecryptionReady /\ Allowed

SessionInv == TypeOK /\ DiskGood /\ Control

-----------------------------------------------------------------------------
(* Secrets and salts.                                                      *)

LEMMA HeaderCiphersDiffer ==
  ASSUME NEW a, NEW b, NEW s, NEW t,
         HeaderCiphers(a, s, t) = HeaderCiphers(b, s, t)
  PROVE  a = b
  BY DEF HeaderCiphers, Ciphers, Argon2, Hkdf, PasswordPart

LEMMA SomeDiffer ==
  ASSUME NEW a
  PROVE  Some(a) # None /\ Some(a)[1] = a
  BY DEF Some, None

LEMMA SaltsAreBytes ==
  ASSUME runs \in Nat
  PROVE  /\ \A use \in Nat : Salt(use) \in Bytes(SaltSize)
         /\ FileId \in Bytes(FileIdSize)
         /\ Filler \in Fillers
  <1>1. \A use \in Nat : Salt(use) \in Bytes(SaltSize)
    BY HeaderAssumption DEF Salt, Bytes
  <1>2. FileId \in Bytes(FileIdSize)
    BY HeaderAssumption DEF FileId, Bytes
  <1>3. [i \in 1..MaxCredentialSize |-> 9] \in Bytes(MaxCredentialSize)
    BY DEF Bytes
  <1> QED BY <1>1, <1>2, <1>3 DEF Filler, Fillers

-----------------------------------------------------------------------------
(* What can be written keeps Closed.                                       *)

LEMMA BrokenIsGood ==
  ASSUME NEW S, Closed(S)
  PROVE  Closed(S \cup {Broken})
  <1>1. Good(Broken) /\ ~IsSealed(Broken)
    BY DEF Good, Broken, IsSealed
  <1> QED BY <1>1 DEF Closed

LEMMA AmountIsFree ==
  ASSUME NEW S, Closed(S), NEW c \in S, NEW a
  PROVE  Closed(S \cup {[c EXCEPT !.amount = a]})
  <1> DEFINE d == [c EXCEPT !.amount = a]
  <1>1. Good(c) /\ (IsSealed(c) /\ c.body.version = Version => c.body.content \in S)
    BY DEF Closed
  <1>2. CASE "kind" \in DOMAIN c /\ c.kind \in {"data", "tree", "broken"}
    <2>1. d.kind = c.kind /\ "kind" \in DOMAIN d
      BY <1>2
    <2>2. Good(d) /\ ~IsSealed(d)
      BY <1>2, <2>1 DEF Good, IsSealed
    <2> QED BY <2>2 DEF Closed
  <1>3. CASE /\ c = Sealed(c.header, c.body, c.amount, c.with)
             /\ c.header.version = Version => WellSealed(c)
    <2>1. /\ d = Sealed(c.header, c.body, a, c.with)
          /\ d.header = c.header /\ d.body = c.body /\ d.amount = a /\ d.with = c.with
          /\ d.kind = c.kind
      BY <1>3 DEF Sealed
    <2>2. WellSealed(c) => WellSealed(d)
      BY <2>1 DEF WellSealed
    <2>3. Good(d)
      BY <1>3, <2>1, <2>2 DEF Good
    <2> QED BY <1>1, <2>1, <2>3 DEF Closed, IsSealed
  <1> QED BY <1>1, <1>2, <1>3 DEF Good

LEMMA SealedIsGood ==
  ASSUME NEW S, Closed(S), NEW header, NEW body, NEW amount, NEW with,
         body.content \in S, WellSealed(Sealed(header, body, amount, with))
  PROVE  Closed(S \cup {Sealed(header, body, amount, with)})
  <1> DEFINE c == Sealed(header, body, amount, with)
  <1>1. /\ c.header = header /\ c.body = body /\ c.amount = amount /\ c.with = with
        /\ c = Sealed(c.header, c.body, c.amount, c.with)
    BY DEF Sealed
  <1>2. Good(c)
    BY <1>1 DEF Good
  <1> QED BY <1>1, <1>2 DEF Closed

LEMMA ContentIsGood ==
  ASSUME NEW S, Closed(S), NEW c \in S, IsSealed(c), c.body.version = Version
  PROVE  c.body.content \in S
  BY DEF Closed

LEMMA KindsAreFour ==
  ASSUME NEW c, Good(c)
  PROVE  c.kind \in {"data", "tree", "sealed", "broken"}
  BY DEF Good, Sealed

LEMMA WrittenIsGood ==
  ASSUME NEW S, \A p \in DOMAIN disk : disk[p] \in S,
         NEW q, NEW c, Closed(S \cup {c}), disk' = Written(q, c)
  PROVE  DiskGood'
  <1>1. \A p \in DOMAIN disk' : disk'[p] \in S \cup {c}
    BY DEF Written
  <1> QED BY <1>1 DEF DiskGood

-----------------------------------------------------------------------------
(* The initial states.                                                     *)

LEMMA InitInv == Init => SessionInv
  <1> SUFFICES ASSUME Init
               PROVE  SessionInv
    OBVIOUS
  <1> USE DEF Init
  <1>1. \A p \in DOMAIN disk :
          Good(disk[p]) /\ (IsSealed(disk[p]) => disk[p].body.version # Version)
    BY SessionAssumption DEF Foreign, Good, IsSealed
  <1>2. DiskGood
    <2>1. Closed({disk[p] : p \in DOMAIN disk})
      BY <1>1 DEF Closed
    <2> QED BY <2>1 DEF DiskGood
  <1>3. TypeOK
    BY <1>1, KindsAreFour, SessionAssumption DEF TypeOK
  <1>4. Control
    BY DEF Control, Run, Untouched, EncryptionReady, DecryptionReady, Allowed,
           NothingWithoutSecrets, NoSecrets, NoCommand, Early, Decrypting, Encrypting
  <1> QED BY <1>2, <1>3, <1>4 DEF SessionInv

-----------------------------------------------------------------------------
(* What is on disk.                                                        *)

LEMMA DiskStep ==
  ASSUME SessionInv, [Next]_vars
  PROVE  DiskGood'
  <1>1. PICK S : Closed(S) /\ \A p \in DOMAIN disk : disk[p] \in S
    BY DEF SessionInv, DiskGood
  <1>2. ASSUME UNCHANGED disk
        PROVE  DiskGood'
    BY <1>1, <1>2 DEF DiskGood
  <1>3. ASSUME NEW q, disk' = Written(q, Broken)
        PROVE  DiskGood'
    BY <1>1, <1>3, BrokenIsGood, WrittenIsGood
  <1>4. ASSUME NEW q, NEW a, disk' = [disk EXCEPT ![q].amount = a]
        PROVE  DiskGood'
    <2>1. CASE q \in DOMAIN disk
      <3> DEFINE c == [disk[q] EXCEPT !.amount = a]
      <3>1. Closed(S \cup {c})
        BY <1>1, <2>1, AmountIsFree
      <3>2. \A p \in DOMAIN disk' : disk'[p] \in S \cup {c}
        BY <1>1, <1>4, <2>1
      <3> QED BY <3>1, <3>2 DEF DiskGood
    <2>2. CASE q \notin DOMAIN disk
      <3>1. \A p \in DOMAIN disk' : disk'[p] \in S
        BY <1>1, <1>4, <2>2
      <3> QED BY <1>1, <3>1 DEF DiskGood
    <2> QED BY <2>1, <2>2
  <1>5. CASE WriteHeader
    <2>1. /\ pc = "header" /\ Encrypting /\ runs \in Nat
          /\ cmd.in \in DOMAIN disk /\ given.keyfile = cmd.keyfile
          /\ disk' = Written(EncOut, Sealed(Header, Body, "nothing", given))
      BY <1>5, SessionAssumption DEF WriteHeader, SessionInv, Control, Run, TypeOK
    <2>2. PICK w \in Passwords :
            given.password = Some(w) /\ headerKeys = Some(HeaderCiphers(w, Salt(1), Salt(2)))
      BY <2>1 DEF SessionInv, Control, EncryptionReady
    <2>3. /\ Valid(params[1]) /\ params[1].keyfile = (cmd.keyfile # None)
          /\ given.device # None =>
               params[1].saltBodyFido # None /\ given.device = Some(params[1].credential[1][1])
      BY <2>1 DEF SessionInv, Control, EncryptionReady
    <2>4. ReadParams(Header.sealed) = params[1]
      BY <2>1, <2>3, SaltsAreBytes, HeaderRoundTrip, SessionAssumption DEF Header
    <2>5. ReadSaltPw(Header.clear) = Salt(1) /\ ReadSaltEnc(Header.clear) = Salt(2)
      BY <2>1, SaltsAreBytes, ClearPartRoundTrip DEF Header
    <2>6. Header.keys = HeaderCiphers(w, Salt(1), Salt(2))
      BY <2>2, SomeDiffer DEF Header
    <2>7. WellSealed(Sealed(Header, Body, "nothing", given))
      <3> DEFINE c == Sealed(Header, Body, "nothing", given)
      <3>1. c.header = Header /\ c.with = given
        BY DEF Sealed
      <3> HIDE DEF c
      <3>2. ReadParams(c.header.sealed) = params[1]
        BY <2>4, <3>1
      <3>3. c.with.keyfile # None => params[1].keyfile
        BY <2>1, <2>3, <3>1
      <3>4. c.header.keys = HeaderCiphers(w, ReadSaltPw(c.header.clear),
                                          ReadSaltEnc(c.header.clear))
        BY <2>5, <2>6, <3>1
      <3>5. c.with.password = Some(w)
        BY <2>2, <3>1
      <3>6. c.with.device # None =>
              params[1].saltBodyFido # None /\ c.with.device = Some(params[1].credential[1][1])
        BY <2>3, <3>1
      <3>7. WellSealed(c)
        BY <3>2, <3>3, <3>4, <3>5, <3>6 DEF WellSealed
      <3> QED BY <3>7 DEF c
    <2>8. Body.content \in S
      BY <1>1, <2>1 DEF Body
    <2>9. Closed(S \cup {Sealed(Header, Body, "nothing", given)})
      BY <1>1, <2>7, <2>8, SealedIsGood
    <2> QED BY <1>1, <2>1, <2>9, WrittenIsGood
  <1>6. CASE DecryptAll
    <2>1. CASE disk' = Written(Target, Content)
      <3>1. cmd.in \in DOMAIN disk /\ IsSealed(Input) /\ Input.body.version = Version
        BY <1>6 DEF DecryptAll, BodyOpens, SessionInv, Control, Run
      <3>2. Closed(S \cup {Content})
        <4>1. CASE Input.amount = "whole"
          <5>1. Content \in S
            BY <1>1, <3>1, <4>1, ContentIsGood DEF Content, Input
          <5>2. S \cup {Content} = S
            BY <5>1
          <5> QED BY <1>1, <5>2
        <4>2. CASE Input.amount # "whole"
          BY <1>1, <4>2, BrokenIsGood DEF Content
        <4> QED BY <4>1, <4>2
      <3> QED BY <1>1, <2>1, <3>2, WrittenIsGood
    <2> QED BY <1>2, <1>6, <2>1 DEF DecryptAll
  <1>7. CASE DeleteOriginal
    <2>1. \A p \in DOMAIN disk' : disk'[p] \in S
      BY <1>1, <1>7 DEF DeleteOriginal
    <2> QED BY <1>1, <2>1 DEF DiskGood
  <1>8. CASE CreateEncrypted \/ CreateDecrypted \/ ExtractSome
    BY <1>2, <1>3, <1>8 DEF CreateEncrypted, CreateDecrypted, ExtractSome
  <1>9. CASE EncryptSome \/ EncryptAll \/ EncryptCut
    BY <1>4, <1>9 DEF EncryptSome, EncryptAll, EncryptCut
  <1>10. CASE Prepare \/ ConfirmPassword \/ MakeKeys \/ MakeKeysUsb
    BY <1>2, <1>10 DEF Prepare, ConfirmPassword, MakeKeys, MakeKeysUsb, KeysMade
  <1>11. CASE CheckInput \/ EnterPassword \/ MakeOutDir \/ DecryptRefused
    BY <1>2, <1>11 DEF CheckInput, EnterPassword, MakeOutDir, DecryptRefused
  <1>12. CASE RebuildKeys \/ RebuildKeysUsb
    BY <1>2, <1>12 DEF RebuildKeys, RebuildKeysUsb, KeysMade
  <1>13. CASE Abort \/ \E c \in Commands : Begin(c)
    BY <1>2, <1>13 DEF Abort, Begin
  <1>14. CASE UNCHANGED vars
    BY <1>2, <1>14 DEF vars
  <1> QED
    BY <1>5, <1>6, <1>7, <1>8, <1>9, <1>10, <1>11, <1>12, <1>13, <1>14
       DEF Next, Encrypt, Decrypt

-----------------------------------------------------------------------------
(* The run in progress.                                                    *)

Typed ==
  /\ pc \in {"idle", "prepare", "confirm", "bodykeys", "create", "header", "body",
             "check", "password", "mkdir"}
  /\ result \in {"none", "ok", "refused", "failed"}
  /\ runs \in 0..MaxRuns
  /\ IF pc = "bodykeys" THEN password \in {Some(p) : p \in Passwords} ELSE password = None
  /\ cmd \in Commands \cup {NoCommand}

LEMMA SourceIsGood ==
  ASSUME DiskGood, Run, Untouched, pc \in Early,
         IsSealed(Source), Source.header.version = Version
  PROVE  WellSealed(Source)
  <1>1. Source = disk[cmd.in] /\ cmd.in \in DOMAIN disk
    BY DEF Run, Untouched, Source, Early
  <1>2. Good(Source)
    BY <1>1 DEF DiskGood, Closed
  <1> QED BY <1>2 DEF Good, IsSealed

LEMMA EncParamsAreValid ==
  ASSUME runs \in Nat, cmd \in Commands, NEW credential,
         \/ ~cmd.usb /\ credential = None
         \/ /\ cmd.usb
            /\ \E c \in Seq(Nat) : credential = Some(c) /\ Fits(c)
  PROVE  /\ Valid(EncParams(credential))
         /\ EncParams(credential).keyfile = (cmd.keyfile # None)
         /\ EncParams(credential).credential = credential
         /\ cmd.usb => EncParams(credential).saltBodyFido # None
  <1> DEFINE p == EncParams(credential)
  <1>1. /\ Salt(3) \in Bytes(SaltSize) /\ Salt(4) \in Bytes(SaltSize)
        /\ Salt(5) \in Bytes(SaltSize) /\ FileId \in Bytes(FileIdSize)
    BY SaltsAreBytes
  <1>2. cmd.usb \in BOOLEAN /\ cmd.compress \in BOOLEAN
    BY SessionAssumption
  <1>3. IsDir(cmd.in) \in BOOLEAN
    BY DEF IsDir, Exists
  <1>4. credential \in {None} \cup {Some(c) : c \in Seq(Nat)}
    OBVIOUS
  <1>5. (IF cmd.usb THEN Some(Salt(5)) ELSE None)
          \in {None} \cup {Some(x) : x \in Bytes(SaltSize)}
    BY <1>1
  <1>6. p \in Params
    BY <1>1, <1>2, <1>3, <1>4, <1>5 DEF EncParams, Params
  <1>7. /\ p.usbKey = cmd.usb /\ p.credential = credential
        /\ p.saltBodyFido = IF cmd.usb THEN Some(Salt(5)) ELSE None
        /\ p.keyfile = (cmd.keyfile # None)
    BY DEF EncParams
  <1>8. cmd.usb <=> credential # None
    BY <1>2, SomeDiffer
  <1>9. cmd.usb <=> p.saltBodyFido # None
    BY <1>2, <1>7, SomeDiffer
  <1>10. Fits(CredentialOf(p))
    <2>1. CASE credential = None
      <3>1. CredentialOf(p) = <<>> /\ Len(<<>>) = 0
        BY <1>7, <2>1 DEF CredentialOf
      <3> QED BY <3>1, HeaderAssumption DEF Fits
    <2>2. CASE \E c \in Seq(Nat) : credential = Some(c) /\ Fits(c)
      BY <1>7, <2>2, SomeDiffer DEF CredentialOf
    <2> QED BY <2>1, <2>2
  <1> QED BY <1>6, <1>7, <1>8, <1>9, <1>10 DEF Valid

LEMMA ControlStep ==
  ASSUME SessionInv, [Next]_vars
  PROVE  Typed' /\ Control'
  <1> USE DEF SessionInv, Control, Run, Encrypting, Decrypting, keyVars
  <1>a. Typed
    BY DEF Typed, TypeOK
  <1>b. runs \in Nat
    BY SessionAssumption DEF TypeOK
  <1>c. Entitled' => Allowed'
    BY DEF Allowed, NothingWithoutSecrets
  <1>d. ASSUME disk' = before'.disk, dirs' = before'.dirs,
               pc' \notin {"mkdir", "create", "header", "body"}
        PROVE  Allowed'
    BY <1>d DEF Allowed, NothingWithoutSecrets
  <1>1. CASE Prepare
    BY <1>1, <1>a
       DEF Prepare, OutDir, Typed, Untouched, EncryptionReady, DecryptionReady, Allowed,
           NothingWithoutSecrets, Entitled, Source, Early, Salt
  <1>2. CASE ConfirmPassword
    BY <1>2, <1>a
       DEF ConfirmPassword, Return, Typed, Untouched, EncryptionReady, DecryptionReady,
           Allowed, NothingWithoutSecrets, Entitled, Source, Early, Salt
  <1>3. CASE EncryptSome
    BY <1>3, <1>a
       DEF EncryptSome, Typed, Untouched, EncryptionReady, DecryptionReady, Allowed,
           NothingWithoutSecrets, Entitled, Source, Early, Salt
  <1>4. CASE EncryptAll
    BY <1>4, <1>a
       DEF EncryptAll, Return, Typed, Untouched, EncryptionReady, DecryptionReady,
           Allowed, NothingWithoutSecrets, Entitled, Source, Early, Salt
  <1>5. CASE EncryptCut
    BY <1>5, <1>a
       DEF EncryptCut, Return, Typed, Untouched, EncryptionReady, DecryptionReady,
           Allowed, NothingWithoutSecrets, Entitled, Source, Early, Salt
  <1>6. CASE MakeOutDir
    BY <1>6, <1>a
       DEF MakeOutDir, Typed, Untouched, EncryptionReady, DecryptionReady, Allowed,
           NothingWithoutSecrets, Entitled, Source, Early, Salt
  <1>7. CASE DecryptAll
    BY <1>7, <1>a
       DEF DecryptAll, Return, Written, Typed, Untouched, EncryptionReady,
           DecryptionReady, Allowed, NothingWithoutSecrets, Entitled, Source, Early,
           Salt
  <1>8. CASE ExtractSome
    BY <1>8, <1>a
       DEF ExtractSome, Return, Typed, Untouched, EncryptionReady, DecryptionReady,
           Allowed, NothingWithoutSecrets, Entitled, Source, Early, Salt
  <1>9. CASE DecryptRefused
    BY <1>9, <1>a
       DEF DecryptRefused, Return, Typed, Untouched, EncryptionReady, DecryptionReady,
           Allowed, NothingWithoutSecrets, Entitled, Source, Early, Salt
  <1>10. CASE Abort
    BY <1>10, <1>a
       DEF Abort, Return, Typed, Untouched, EncryptionReady, DecryptionReady, Allowed,
           NothingWithoutSecrets, Entitled, Source, Early, Salt
  <1>11. CASE DeleteOriginal
    BY <1>11, <1>a
       DEF DeleteOriginal, Typed, Untouched, EncryptionReady, DecryptionReady, Allowed,
           NothingWithoutSecrets, Entitled, Source, Early, Salt
  <1>12. CASE UNCHANGED vars
    <2>1. Typed'
      BY <1>12, <1>a DEF vars, Typed
    <2>2. Run'
      BY <1>12, <1>a DEF vars
    <2>3. Untouched'
      BY <1>12, <1>a DEF vars, Untouched, Early
    <2>4. EncryptionReady'
      BY <1>12, <1>a DEF vars, Untouched, EncryptionReady, Early, Salt
    <2>5. DecryptionReady'
      BY <1>12, <1>a DEF vars, Untouched, DecryptionReady, Early, Source
    <2>6. Allowed'
      BY <1>12, <1>a
         DEF vars, Untouched, EncryptionReady, DecryptionReady, Allowed,
             NothingWithoutSecrets, Entitled, Early, Source
    <2> QED BY <2>1, <2>2, <2>3, <2>4, <2>5, <2>6
  <1>13. ASSUME NEW c \in Commands, Begin(c)
        PROVE  Typed' /\ Control'
    <2>0. c.op \in {"encrypt", "decrypt"}
      BY <1>13, SessionAssumption
    <2>1. Typed'
      BY <1>13, <1>a, <2>0, SessionAssumption DEF Begin, Typed
    <2>2. Run'
      BY <1>13, <2>0 DEF Begin, Exists, NoSecrets
    <2>3. Untouched'
      BY <1>13, <2>0 DEF Begin, Untouched, Early, NoSecrets
    <2>4. EncryptionReady'
      BY <1>13, <1>a DEF Begin, Untouched, EncryptionReady, Early, Salt
    <2>5. DecryptionReady'
      BY <1>13, <1>a DEF Begin, Untouched, DecryptionReady, Early, Source
    <2>6. Allowed'
      BY <1>13, <1>a
         DEF Begin, Untouched, EncryptionReady, DecryptionReady, Allowed,
             NothingWithoutSecrets, Entitled, Early, Source
    <2> QED BY <2>1, <2>2, <2>3, <2>4, <2>5, <2>6
  <1>14. CASE CreateEncrypted
    <2>1. Typed'
      BY <1>14, <1>a DEF CreateEncrypted, Typed
    <2>2. Run'
      BY <1>14 DEF CreateEncrypted, Written
    <2>3. Untouched'
      BY <1>14, <1>a DEF CreateEncrypted, Untouched, Early
    <2>4. EncryptionReady'
      BY <1>14, <1>a DEF CreateEncrypted, Untouched, EncryptionReady, Early, Salt
    <2>5. DecryptionReady'
      BY <1>14, <1>a DEF CreateEncrypted, Untouched, DecryptionReady, Early, Source
    <2>6. Allowed'
      BY <1>14, <1>a
         DEF CreateEncrypted, Untouched, EncryptionReady, DecryptionReady, Allowed,
             NothingWithoutSecrets, Entitled, Early, Source
    <2> QED BY <2>1, <2>2, <2>3, <2>4, <2>5, <2>6
  <1>15. CASE WriteHeader
    <2>1. Typed'
      BY <1>15, <1>a DEF WriteHeader, Typed
    <2>2. Run'
      BY <1>15 DEF WriteHeader, Written
    <2>3. Untouched'
      BY <1>15, <1>a DEF WriteHeader, Untouched, Early
    <2>4. EncryptionReady'
      BY <1>15, <1>a DEF WriteHeader, Untouched, EncryptionReady, Early, Salt
    <2>5. DecryptionReady'
      BY <1>15, <1>a DEF WriteHeader, Untouched, DecryptionReady, Early, Source
    <2>6. Allowed'
      BY <1>15, <1>a
         DEF WriteHeader, Untouched, EncryptionReady, DecryptionReady, Allowed,
             NothingWithoutSecrets, Entitled, Early, Source
    <2> QED BY <2>1, <2>2, <2>3, <2>4, <2>5, <2>6
  <1>16. CASE CreateDecrypted
    <2>1. Typed'
      BY <1>16, <1>a DEF CreateDecrypted, Typed
    <2>2. Run'
      BY <1>16 DEF CreateDecrypted, Written
    <2>3. Untouched'
      BY <1>16, <1>a DEF CreateDecrypted, Untouched, Early
    <2>4. EncryptionReady'
      BY <1>16, <1>a DEF CreateDecrypted, Untouched, EncryptionReady, Early, Salt
    <2>5. DecryptionReady'
      BY <1>16, <1>a DEF CreateDecrypted, Untouched, DecryptionReady, Early, Source
    <2>6. Allowed'
      BY <1>16, <1>a
         DEF CreateDecrypted, Untouched, EncryptionReady, DecryptionReady, Allowed,
             NothingWithoutSecrets, Entitled, Early, Source
    <2> QED BY <2>1, <2>2, <2>3, <2>4, <2>5, <2>6
  <1>17. CASE CheckInput
    <2>1. Typed'
      BY <1>17, <1>a DEF CheckInput, Return, Typed
    <2>2. Run'
      BY <1>17, <1>a DEF CheckInput, Return
    <2>3. Untouched'
      BY <1>17, <1>a DEF CheckInput, Return, Untouched, Early
    <2>4. EncryptionReady'
      BY <1>17, <1>a DEF CheckInput, Return, Untouched, EncryptionReady, Early, Salt
    <2>5. DecryptionReady'
      BY <1>17
         DEF CheckInput, Return, Acceptable, Input, Untouched, DecryptionReady, Early,
             Source
    <2>6. Allowed'
      BY <1>17, <1>a
         DEF CheckInput, Return, Untouched, EncryptionReady, DecryptionReady, Allowed,
             NothingWithoutSecrets, Entitled, Early, Source
    <2> QED BY <2>1, <2>2, <2>3, <2>4, <2>5, <2>6
  <1>18. CASE MakeKeys
    <2>1. Typed'
      BY <1>18, <1>a DEF MakeKeys, KeysMade, Typed
    <2>2. Run'
      BY <1>18, <1>a DEF MakeKeys, KeysMade
    <2>3. Untouched'
      BY <1>18, <1>a DEF MakeKeys, KeysMade, Untouched, Early
    <2>4. EncryptionReady'
      <3>1. PICK w \in Passwords :
              given.password = Some(w) /\ headerKeys = Some(HeaderCiphers(w, Salt(1), Salt(2)))
        BY <1>18 DEF MakeKeys, EncryptionReady
      <3>2. /\ given'.password = Some(w)
            /\ headerKeys' = Some(HeaderCiphers(w, Salt(1)', Salt(2)'))
        BY <1>18, <3>1 DEF MakeKeys, KeysMade, Salt
      <3> DEFINE p == EncParams(None)
      <3>3. Valid(p) /\ p.keyfile = (cmd.keyfile # None)
        BY <1>18, <1>b, EncParamsAreValid DEF MakeKeys
      <3> HIDE DEF p
      <3>4. params'[1] = p
        BY <1>18, SomeDiffer DEF MakeKeys, p
      <3>5. given'.device = None /\ cmd' = cmd
        BY <1>18 DEF MakeKeys, KeysMade, Untouched, Early
      <3> QED BY <3>2, <3>3, <3>4, <3>5 DEF EncryptionReady
    <2>5. DecryptionReady'
      BY <1>18, <1>a DEF MakeKeys, KeysMade, Untouched, DecryptionReady, Early, Source
    <2>6. Allowed'
      <3>1. given.password # None
        BY <1>18, SomeDiffer DEF MakeKeys, EncryptionReady
      <3>2. Entitled'
        BY <1>18, <3>1 DEF MakeKeys, KeysMade, Entitled
      <3> QED BY <1>c, <3>2
    <2> QED BY <2>1, <2>2, <2>3, <2>4, <2>5, <2>6
  <1>19. CASE MakeKeysUsb
    <2>1. Typed'
      BY <1>19, <1>a DEF MakeKeysUsb, KeysMade, Typed
    <2>2. Run'
      BY <1>19, <1>a DEF MakeKeysUsb, KeysMade
    <2>3. Untouched'
      BY <1>19, <1>a DEF MakeKeysUsb, KeysMade, Untouched, Early
    <2>4. EncryptionReady'
      <3>1. PICK w \in Passwords :
              given.password = Some(w) /\ headerKeys = Some(HeaderCiphers(w, Salt(1), Salt(2)))
        BY <1>19 DEF MakeKeysUsb, EncryptionReady
      <3>2. /\ given'.password = Some(w)
            /\ headerKeys' = Some(HeaderCiphers(w, Salt(1)', Salt(2)'))
        BY <1>19, <3>1 DEF MakeKeysUsb, KeysMade, Salt
      <3>3. PICK device \in Devices :
              /\ Fits(<<device.id, runs>>)
              /\ params' = Some(EncParams(Some(<<device.id, runs>>)))
              /\ given' = [given EXCEPT !.device = Some(device.id)]
        BY <1>19 DEF MakeKeysUsb, KeysMade
      <3>4. <<device.id, runs>> \in Seq(Nat)
        BY <1>b, SessionAssumption
      <3> DEFINE p == EncParams(Some(<<device.id, runs>>))
      <3>5. /\ Valid(p) /\ p.keyfile = (cmd.keyfile # None)
            /\ p.credential = Some(<<device.id, runs>>) /\ p.saltBodyFido # None
        BY <1>19, <1>b, <3>3, <3>4, EncParamsAreValid DEF MakeKeysUsb
      <3> HIDE DEF p
      <3>6. params'[1] = p
        BY <3>3, SomeDiffer DEF p
      <3>7. given'.device = Some(p.credential[1][1])
        BY <3>3, <3>5, SomeDiffer
      <3>8. cmd' = cmd
        BY <1>19 DEF MakeKeysUsb, KeysMade
      <3> QED BY <3>2, <3>5, <3>6, <3>7, <3>8 DEF EncryptionReady
    <2>5. DecryptionReady'
      BY <1>19, <1>a
         DEF MakeKeysUsb, KeysMade, Untouched, DecryptionReady, Early, Source
    <2>6. Allowed'
      <3>1. given.password # None
        BY <1>19, SomeDiffer DEF MakeKeysUsb, EncryptionReady
      <3>2. Entitled'
        BY <1>19, <3>1 DEF MakeKeysUsb, KeysMade, Entitled
      <3> QED BY <1>c, <3>2
    <2> QED BY <2>1, <2>2, <2>3, <2>4, <2>5, <2>6
  <1>20. CASE EnterPassword
    <2>1. Typed'
      BY <1>20, <1>a DEF EnterPassword, Return, Typed
    <2>2. Run'
      BY <1>20, <1>a DEF EnterPassword, Return
    <2>3. Untouched'
      BY <1>20, <1>a DEF EnterPassword, Return, Untouched, Early
    <2>4. EncryptionReady'
      BY <1>20, <1>a DEF EnterPassword, Return, Untouched, EncryptionReady, Early, Salt
    <2>5. DecryptionReady'
      <3>1. CASE pc' = "bodykeys"
        <4> DEFINE h == Source.header
        <4>1. PICK entered \in Passwords :
                /\ given'.password = Some(entered)
                /\ h.keys = HeaderCiphers(entered, ReadSaltPw(h.clear), ReadSaltEnc(h.clear))
                /\ h.version = Version /\ KeyfileGiven(h.sealed)
                /\ params' = Some(ReadParams(h.sealed))
          BY <1>20, <3>1
             DEF EnterPassword, Return, HeaderOpens, Input, Source, Untouched, Early
        <4>2. IsSealed(Source) /\ Source' = Source /\ cmd' = cmd
          BY <1>20 DEF EnterPassword, DecryptionReady, Source
        <4>3. WellSealed(Source)
          BY <1>20, <4>1, <4>2, SourceIsGood DEF EnterPassword, Early
        <4>4. Source.with.password = Some(entered)
          <5>1. PICK w \in Passwords :
                  /\ Source.with.password = Some(w)
                  /\ h.keys = HeaderCiphers(w, ReadSaltPw(h.clear), ReadSaltEnc(h.clear))
            BY <4>3 DEF WellSealed
          <5> DEFINE s == ReadSaltPw(h.clear)
                     t == ReadSaltEnc(h.clear)
          <5>2. HeaderCiphers(w, s, t) = HeaderCiphers(entered, s, t)
            BY <4>1, <5>1
          <5> HIDE DEF s, t
          <5>3. w = entered
            BY <5>2, HeaderCiphersDiffer
          <5> QED BY <5>1, <5>3
        <4>5. Source.with.keyfile # None => cmd.keyfile # None
          BY <4>1, <4>3 DEF WellSealed, KeyfileGiven
        <4> HIDE DEF h
        <4> QED BY <3>1, <4>1, <4>2, <4>4, <4>5 DEF DecryptionReady, h
      <3>2. CASE pc' # "bodykeys"
        BY <1>20, <3>2 DEF EnterPassword, Return, DecryptionReady
      <3> QED BY <3>1, <3>2
    <2>6. Allowed'
      BY <1>20, <1>a
         DEF EnterPassword, Return, Untouched, EncryptionReady, DecryptionReady,
             Allowed, NothingWithoutSecrets, Entitled, Early, Source
    <2> QED BY <2>1, <2>2, <2>3, <2>4, <2>5, <2>6
  <1>21. CASE RebuildKeys
    <2>1. Typed'
      BY <1>21, <1>a DEF RebuildKeys, KeysMade, Typed
    <2>2. Run'
      BY <1>21, <1>a DEF RebuildKeys, KeysMade
    <2>3. Untouched'
      BY <1>21, <1>a DEF RebuildKeys, KeysMade, Untouched, Early
    <2>4. EncryptionReady'
      BY <1>21, <1>a DEF RebuildKeys, KeysMade, Untouched, EncryptionReady, Early, Salt
    <2>5. DecryptionReady'
      BY <1>21, <1>a
         DEF RebuildKeys, KeysMade, Untouched, DecryptionReady, Early, Source
    <2>0. /\ IsSealed(Source) /\ Source.header.version = Version
          /\ given.password = Source.with.password
          /\ Source.with.keyfile # None => cmd.keyfile # None
          /\ params[1] = ReadParams(Source.header.sealed)
      BY <1>21, SomeDiffer DEF RebuildKeys, DecryptionReady
    <2>w. WellSealed(Source)
      BY <1>21, <2>0, SourceIsGood DEF RebuildKeys, Early
    <2>6. Allowed'
      <3>1. Source.with.device = None
        BY <1>21, <2>0, <2>w DEF RebuildKeys, WellSealed
      <3>2. given' = given /\ cmd' = cmd /\ Source' = Source
        BY <1>21 DEF RebuildKeys, KeysMade, Source
      <3>3. Entitled'
        BY <1>21, <2>0, <3>1, <3>2 DEF RebuildKeys, Entitled
      <3> QED BY <1>c, <3>3
    <2> QED BY <2>1, <2>2, <2>3, <2>4, <2>5, <2>6
  <1>22. CASE RebuildKeysUsb
    <2>1. Typed'
      BY <1>22, <1>a DEF RebuildKeysUsb, KeysMade, Return, Typed
    <2>2. Run'
      BY <1>22, <1>a DEF RebuildKeysUsb, KeysMade, Return
    <2>3. Untouched'
      BY <1>22, <1>a DEF RebuildKeysUsb, KeysMade, Return, Untouched, Early
    <2>4. EncryptionReady'
      BY <1>22, <1>a
         DEF RebuildKeysUsb, KeysMade, Return, Untouched, EncryptionReady, Early, Salt
    <2>5. DecryptionReady'
      BY <1>22, <1>a
         DEF RebuildKeysUsb, KeysMade, Return, Untouched, DecryptionReady, Early, Source
    <2>0. /\ IsSealed(Source) /\ Source.header.version = Version
          /\ given.password = Source.with.password
          /\ Source.with.keyfile # None => cmd.keyfile # None
          /\ params[1] = ReadParams(Source.header.sealed)
      BY <1>22, SomeDiffer DEF RebuildKeysUsb, DecryptionReady
    <2>w. WellSealed(Source)
      BY <1>22, <2>0, SourceIsGood DEF RebuildKeysUsb, Early
    <2>6. Allowed'
      <3>1. cmd' = cmd /\ Source' = Source
        BY <1>22 DEF RebuildKeysUsb, KeysMade, Return, Source
      <3>2. CASE pc' = "mkdir"
        <4>1. PICK device \in Devices :
                /\ given' = [given EXCEPT !.device = Some(device.id)]
                /\ device.id = params[1].credential[1][1]
          BY <1>22, <3>2 DEF RebuildKeysUsb, KeysMade, Return, Issued
        <4>2. given'.device = Some(device.id) /\ given'.password = given.password
          BY <4>1
        <4>3. Source.with.device # None => given'.device = Source.with.device
          BY <2>0, <2>w, <4>1, <4>2 DEF WellSealed
        <4>4. Entitled'
          BY <1>22, <2>0, <3>1, <4>2, <4>3 DEF RebuildKeysUsb, Entitled
        <4> QED BY <1>c, <4>4
      <3>3. CASE pc' # "mkdir"
        BY <1>22, <1>d, <3>3 DEF RebuildKeysUsb, KeysMade, Return, Untouched, Early
      <3> QED BY <3>2, <3>3
    <2> QED BY <2>1, <2>2, <2>3, <2>4, <2>5, <2>6
  <1> QED
    BY <1>1, <1>2, <1>3, <1>4, <1>5, <1>6, <1>7, <1>8, <1>9, <1>10, <1>11, <1>12,
       <1>13, <1>14, <1>15, <1>16, <1>17, <1>18, <1>19, <1>20, <1>21, <1>22
       DEF Next, Encrypt, Decrypt

-----------------------------------------------------------------------------
(* The invariant and what follows from it.                                 *)

LEMMA InvStep == SessionInv /\ [Next]_vars => SessionInv'
  <1> SUFFICES ASSUME SessionInv, [Next]_vars
               PROVE  SessionInv'
    OBVIOUS
  <1>1. DiskGood'
    BY DiskStep
  <1>2. Typed' /\ Control'
    BY ControlStep
  <1>3. \A p \in DOMAIN disk' : disk'[p].kind \in {"data", "tree", "sealed", "broken"}
    BY <1>1, KindsAreFour DEF DiskGood, Closed
  <1> QED BY <1>1, <1>2, <1>3 DEF SessionInv, TypeOK, Typed

\* SessionInv is an invariant: every encrypted file of this version opens with
\* the password it was encrypted with and asks for the other secrets that were
\* used, and each step of a run knows what the steps before it have done.
THEOREM SessionInvariance == Spec => []SessionInv
  BY InitInv, InvStep, PTL DEF Spec

\* The variables keep their types; the password is in memory only between its
\* entry and the derivation of the keys.
THEOREM SessionTypeCorrect == Spec => []TypeOK
  <1>1. SessionInv => TypeOK
    BY DEF SessionInv
  <1> QED BY <1>1, SessionInvariance, PTL

\* No run changes a file, and no decryption a directory, before it had the
\* secrets that entitle it to.
THEOREM NothingWithoutSecretsCorrect == Spec => []NothingWithoutSecrets
  <1>1. SessionInv => NothingWithoutSecrets
    BY DEF SessionInv, Control, Allowed
  <1> QED BY <1>1, SessionInvariance, PTL

-----------------------------------------------------------------------------
(***************************************************************************)
(* What a decryption gives back, and to whom: a complete file opens with   *)
(* the secrets it was encrypted with and with no others, and gives back    *)
(* the original under its name; listing changes nothing.                   *)
(***************************************************************************)

\* Every read of a key file returns as much as it can.
FullReads == LeastRead = ReadSize

(***************************************************************************)
(* The keys that belong to the secrets that were used (as in the fields of *)
(* given) and to the parameters in the header.                             *)
(***************************************************************************)
HashOf(keyfile) == IF keyfile = None THEN <<>> ELSE <<[keyfile |-> KeyBlocks(keyfile)]>>
HmacOf(device, p) ==
  IF p.saltBodyFido = None THEN <<>>
    ELSE <<[device |-> device[1], credential |-> p.credential[1], salt |-> p.saltBodyFido[1]]>>
BodyKeys(with, p) ==
  BodyCiphers(HashOf(with.keyfile), HmacOf(with.device, p), with.password[1],
              p.saltBodyPw, p.saltBodyEnc)

\* An encrypted file with that name: its header says what its body is.
Proper(name, c) ==
  LET p == ReadParams(c.header.sealed)
  IN  /\ ReadVersion(c.header.sealed) = Version
      /\ c.body.version = Version /\ c.body.fileId = p.fileId /\ c.body.compress = p.compress
      /\ p.archive <=> c.body.content.kind = "tree"
      /\ p.archive \/ DecryptedName(name) = c.body.root
      /\ p.keyfile <=> c.with.keyfile # None
      /\ p.saltBodyFido # None <=> c.with.device # None
      /\ c.with.device # None => c.with.device = Some(p.credential[1][1])
      /\ FullReads => c.body.keys = BodyKeys(c.with, p)

\* Pairs of names and of what is found under them.  An encrypted file contains
\* what will be found when it is decrypted, which may be an encrypted file.
Ours(c) == IsSealed(c) /\ c.header.version = Version
Known(S) ==
  \A e \in S :
    Ours(e[2]) => Proper(e[1], e[2]) /\ <<e[2].body.root, e[2].body.content>> \in S

DiskKnown == \E S : Known(S) /\ \A p \in DOMAIN disk : <<FileName(p), disk[p]>> \in S

(***************************************************************************)
(* What a run has in its hands.                                            *)
(***************************************************************************)
PasswordInHand == pc = "bodykeys" => password = given.password

EncryptionInHand ==
  Encrypting /\ pc \in {"create", "header"} =>
    /\ params[1].archive = IsDir(cmd.in) /\ params[1].fileId = FileId
    /\ params[1].compress = cmd.compress
    /\ params[1].saltBodyFido # None <=> given.device # None
    /\ FullReads => bodyKeys[1] = BodyKeys(given, params[1])

DecryptionInHand ==
  /\ Decrypting /\ pc \notin {"idle", "check"} => Decryptable(FileName(cmd.in))
  /\ Decrypting /\ pc \in {"mkdir", "create", "body"} =>
       /\ Ours(Source) /\ Proper(FileName(cmd.in), Source)
       /\ params = Some(ReadParams(Source.header.sealed))
       /\ disk[cmd.in] = Source
       /\ FullReads => bodyKeys[1] = BodyKeys(given, params[1])

Results ==
  /\ FullReads => OkIsOriginal /\ RightSecretsOpen
  /\ ListChangesNothing

InHand == PasswordInHand /\ EncryptionInHand /\ DecryptionInHand
DataInv == DiskKnown /\ InHand /\ Results

-----------------------------------------------------------------------------
(* Keys.                                                                   *)

\* With full reads, it is certain what is hashed of a key file.
LEMMA HashIsKnown ==
  ASSUME FullReads, cmd \in Commands, NEW hash \in Hashes
  PROVE  hash = HashOf(cmd.keyfile)
  <1>1. CASE cmd.keyfile = None
    BY <1>1 DEF Hashes, HashOf
  <1>2. CASE cmd.keyfile # None
    <2> DEFINE b == Keyfiles[cmd.keyfile[1]]
               m == Minimum(Len(b), MaxKeyfileReads * ReadSize)
    <2>1. Len(b) \in Nat
      BY <1>2, PathAssumption DEF IsSequence
    <2>2. MaxKeyfileReads * ReadSize \in Nat
      BY KeysAssumption
    <2>3. m \in Int
      BY <2>1, <2>2 DEF Minimum
    <2>4. HashedLengths(b) = m..m
      BY DEF FullReads, HashedLengths
    <2>5. PICK n \in HashedLengths(b) : hash = <<[keyfile |-> SubSeq(b, 1, n)]>>
      BY <1>2 DEF Hashes, KeyfileHashes
    <2> HIDE DEF m
    <2>6. n = m
      BY <2>3, <2>4, <2>5
    <2>7. KeyBlocks(cmd.keyfile) = SubSeq(b, 1, m)
      BY <1>2 DEF KeyBlocks, m
    <2> QED BY <1>2, <2>5, <2>6, <2>7 DEF HashOf
  <1> QED BY <1>1, <1>2

LEMMA FirstPartsEqual ==
  ASSUME NEW S, NEW h \in Seq(S), NEW k \in Seq(S), NEW m \in Seq(S), NEW a \in S, NEW b \in S,
         Len(h) <= 1, Len(k) <= 1, h \o m \o <<a>> = k \o m \o <<b>>
  PROVE  h = k
  <1>1. /\ Len(h \o m \o <<a>>) = Len(h) + Len(m) + 1
        /\ Len(k \o m \o <<b>>) = Len(k) + Len(m) + 1
    OBVIOUS
  <1>2. Len(h) = Len(k)
    BY <1>1
  <1>3. /\ h \o m \in Seq(S) /\ Len(h \o m) = Len(h) + Len(m)
        /\ k \o m \in Seq(S) /\ Len(k \o m) = Len(k) + Len(m)
        /\ <<a>> \in Seq(S) /\ <<b>> \in Seq(S)
    BY ConcatProperties
  <1>4. /\ Len(h) = 1 => (h \o m)[1] = h[1] /\ (h \o m \o <<a>>)[1] = (h \o m)[1]
        /\ Len(k) = 1 => (k \o m)[1] = k[1] /\ (k \o m \o <<b>>)[1] = (k \o m)[1]
    BY <1>3, ConcatProperties
  <1>5. Len(h) = 1 => h[1] = k[1]
    BY <1>2, <1>4
  <1> QED BY <1>2, <1>5, SeqEqual

\* Equal keys were made from the same key file, if any.
LEMMA BodyKeysDiffer ==
  ASSUME NEW v, NEW w, NEW p, HmacOf(v.device, p) = HmacOf(w.device, p),
         BodyKeys(v, p) = BodyKeys(w, p)
  PROVE  HashOf(v.keyfile) = HashOf(w.keyfile)
  <1> DEFINE h == HashOf(v.keyfile)
             k == HashOf(w.keyfile)
             m == HmacOf(v.device, p)
             a == PasswordPart(v.password[1])
             b == PasswordPart(w.password[1])
             x == [keyfile |-> KeyBlocks(v.keyfile)]
             y == [keyfile |-> KeyBlocks(w.keyfile)]
             z == [device |-> v.device[1], credential |-> p.credential[1],
                   salt |-> p.saltBodyFido[1]]
             S == {a, b, x, y, z}
  <1>1. h \o m \o <<a>> = k \o m \o <<b>>
    BY DEF BodyKeys, BodyCiphers, Ciphers, Hkdf, Argon2
  <1>2. h \in {<<>>, <<x>>} /\ k \in {<<>>, <<y>>} /\ m \in {<<>>, <<z>>}
    BY DEF HashOf, HmacOf
  <1> HIDE DEF h, k, m, a, b, x, y, z
  <1>3. <<>> \in Seq(S) /\ <<x>> \in Seq(S) /\ <<y>> \in Seq(S) /\ <<z>> \in Seq(S)
    OBVIOUS
  <1>4. a \in S /\ b \in S
    OBVIOUS
  <1> HIDE DEF S
  <1>5. h \in Seq(S) /\ Len(h) <= 1
    <2>1. CASE h = <<>>
      BY <1>3, <2>1
    <2>2. CASE h = <<x>>
      BY <1>3, <2>2
    <2> QED BY <1>2, <2>1, <2>2
  <1>6. k \in Seq(S) /\ Len(k) <= 1
    <2>1. CASE k = <<>>
      BY <1>3, <2>1
    <2>2. CASE k = <<y>>
      BY <1>3, <2>2
    <2> QED BY <1>2, <2>1, <2>2
  <1>7. m \in Seq(S)
    BY <1>2, <1>3
  <1>8. h = k
    BY <1>1, <1>4, <1>5, <1>6, <1>7, FirstPartsEqual
  <1> QED BY <1>8 DEF h, k
-----------------------------------------------------------------------------
(* Names.                                                                  *)

LEMMA SequenceIsSeq ==
  ASSUME NEW s, IsSequence(s)
  PROVE  \E S : s \in Seq(S)
  <1> DEFINE S == {s[i] : i \in 1..Len(s)}
  <1>1. s \in [1..Len(s) -> S]
    BY DEF IsSequence
  <1>2. Len(s) \in Nat
    BY DEF IsSequence
  <1> HIDE DEF S
  <1>3. s \in Seq(S)
    BY <1>1, <1>2
  <1> QED BY <1>3

LEMMA JoinName ==
  ASSUME NEW dir, NEW name, IsSequence(dir)
  PROVE  FileName(Join(dir, name)) = name /\ Len(Join(dir, name)) = Len(dir) + 1
  <1>1. PICK S : dir \in Seq(S)
    BY SequenceIsSeq
  <1>2. dir \in Seq(S \cup {name})
    BY <1>1, SeqMonotonic
  <1> QED BY <1>2 DEF FileName, Join, Last

LEMMA OutDirIsPath ==
  ASSUME cmd \in Commands
  PROVE  IsSequence(OutDir) /\ Len(OutDir) \in Nat \ {0}
  <1>1. IsSequence(OutDir) /\ OutDir # <<>>
    BY PathAssumption DEF OutDir
  <1>2. PICK S : OutDir \in Seq(S)
    BY <1>1, SequenceIsSeq
  <1> QED BY <1>1, <1>2

\* The name of the output is another name, and decryption takes the extension off.
LEMMA ExtensionAdded ==
  ASSUME NEW name, NEW ext, IsSequence(name), name \notin {<<>>, <<<<>>>>}
  PROVE  AddExt(name, ext) # name /\ DecryptedName(AddExt(name, ext)) = name
  <1> DEFINE n == AddExt(name, ext)
  <1>1. PICK R : name \in Seq(R)
    BY SequenceIsSeq
  <1> DEFINE S == R \cup {ext}
  <1>2. name \in Seq(S) /\ ext \in S
    BY <1>1, SeqMonotonic
  <1> HIDE DEF S
  <1>3. /\ n \in Seq(S) /\ Len(n) = Len(name) + 1
        /\ \A i \in 1..Len(name) : n[i] = name[i]
    BY <1>2 DEF AddExt
  <1>4. Len(name) \in Nat /\ Len(name) >= 1 /\ Len(n) \in Nat
    BY <1>2, <1>3
  <1> HIDE DEF n
  <1>5. HasExt(n)
    <2>1. CASE Len(name) = 1
      <3>1. name # <<<<>>>> => name[1] # <<>>
        <4>1. ASSUME name[1] = <<>>
              PROVE  name = <<<<>>>>
          BY <1>2, <2>1, <4>1
        <4> QED BY <4>1
      <3> QED BY <1>3, <2>1, <3>1 DEF HasExt
    <2>2. CASE Len(name) # 1
      <3>1. Len(name) > 1
        <4>1. \A k \in Nat : k >= 1 /\ k # 1 => k > 1
          OBVIOUS
        <4> QED BY <1>4, <2>2, <4>1, Zenon
      <3>2. Len(n) = Len(name) + 1
        BY <1>3
      <3>3. Len(n) > 1 /\ Len(n) # 2
        BY <1>4, <3>1, <3>2
      <3> QED BY <3>3, Zenon DEF HasExt
    <2> QED BY <2>1, <2>2
  <1>6. Front(n) = name
    <2>1. Front(n) = SubSeq(n, 1, Len(name))
      BY <1>3, <1>4 DEF Front
    <2>2. SubSeq(n, 1, Len(name)) \in Seq(S) /\ Len(SubSeq(n, 1, Len(name))) = Len(name)
      BY <1>3, <1>4
    <2>3. \A i \in 1..Len(name) : SubSeq(n, 1, Len(name))[i] = name[i]
      BY <1>3, <1>4
    <2> QED BY <1>2, <2>1, <2>2, <2>3, SeqEqual
  <1> QED BY <1>3, <1>4, <1>5, <1>6 DEF DecryptedName, Stem, n

LEMMA ExtensionRemoved ==
  ASSUME NEW name, IsSequence(name), Decryptable(name)
  PROVE  DecryptedName(name) # name
  <1>1. PICK S : name \in Seq(S)
    BY SequenceIsSeq
  <1>2. DecryptedName(name) = SubSeq(name, 1, Len(name) - 1) /\ Len(name) > 1
    BY DEF DecryptedName, Stem, Decryptable, HasExt, Front
  <1>3. Len(SubSeq(name, 1, Len(name) - 1)) = Len(name) - 1
    BY <1>1, <1>2
  <1> QED BY <1>1, <1>2, <1>3

LEMMA EncOutName ==
  ASSUME cmd \in Commands
  PROVE  /\ EncOut # cmd.in
         /\ ~IsDir(cmd.in) => DecryptedName(FileName(EncOut)) = FileName(cmd.in)
  <1> DEFINE name == OutName(cmd.in, IsDir(cmd.in), ~cmd.split)
             ext == IF ~cmd.split THEN Cce ELSE C00
  <1>1. FileName(EncOut) = name /\ Len(EncOut) > 1
    BY JoinName, OutDirIsPath DEF EncOut
  <1>2. IsSequence(FileName(cmd.in)) /\ FileName(cmd.in) \notin {<<>>, <<<<>>>>}
    BY PathAssumption
  <1>3. CASE ~(IsDir(cmd.in) /\ ~HasName(cmd.in))
    <2>1. name = AddExt(FileName(cmd.in), ext)
      BY <1>3 DEF OutName
    <2>2. name # FileName(cmd.in) /\ DecryptedName(name) = FileName(cmd.in)
      BY <1>2, <2>1, ExtensionAdded
    <2> QED BY <1>1, <2>2
  <1>4. CASE IsDir(cmd.in) /\ ~HasName(cmd.in)
    BY <1>1, <1>4 DEF HasName
  <1> QED BY <1>3, <1>4

LEMMA DecOutName ==
  ASSUME cmd \in Commands
  PROVE  /\ FileName(DecOut) = DecryptedName(FileName(cmd.in))
         /\ Decryptable(FileName(cmd.in)) => DecOut # cmd.in
  <1>1. FileName(DecOut) = DecryptedName(FileName(cmd.in))
    BY JoinName, OutDirIsPath DEF DecOut
  <1>2. Decryptable(FileName(cmd.in)) => DecryptedName(FileName(cmd.in)) # FileName(cmd.in)
    BY PathAssumption, ExtensionRemoved
  <1> QED BY <1>1, <1>2
-----------------------------------------------------------------------------
(* What is on disk.                                                        *)

LEMMA SourceIsKnown ==
  ASSUME DiskKnown, NEW p \in DOMAIN disk, Ours(disk[p])
  PROVE  Proper(FileName(p), disk[p])
  <1>1. PICK S : Known(S) /\ <<FileName(p), disk[p]>> \in S
    BY DEF DiskKnown
  <1> DEFINE e == <<FileName(p), disk[p]>>
  <1>2. e[1] = FileName(p) /\ e[2] = disk[p]
    OBVIOUS
  <1> HIDE DEF e
  <1>3. e \in S
    BY <1>1 DEF e
  <1>4. Proper(e[1], e[2])
    BY <1>1, <1>2, <1>3 DEF Known
  <1> QED BY <1>2, <1>4

LEMMA AddedIsKnown ==
  ASSUME NEW S, Known(S), NEW name, NEW c,
         Ours(c) => Proper(name, c) /\ <<c.body.root, c.body.content>> \in S
  PROVE  Known(S \cup {<<name, c>>})
  <1> DEFINE e == <<name, c>>
  <1>1. e[1] = name /\ e[2] = c
    OBVIOUS
  <1> HIDE DEF e
  <1>2. Ours(e[2]) => Proper(e[1], e[2]) /\ <<e[2].body.root, e[2].body.content>> \in S
    BY <1>1
  <1>3. Known(S \cup {e})
    BY <1>2 DEF Known
  <1> QED BY <1>3 DEF e

LEMMA WrittenIsKnown ==
  ASSUME NEW S, \A p \in DOMAIN disk : <<FileName(p), disk[p]>> \in S,
         NEW q, NEW c, Known(S \cup {<<FileName(q), c>>}), disk' = Written(q, c)
  PROVE  DiskKnown'
  <1>1. \A p \in DOMAIN disk' : <<FileName(p), disk'[p]>> \in S \cup {<<FileName(q), c>>}
    BY DEF Written
  <1> QED BY <1>1 DEF DiskKnown

LEMMA AmountIsKnown ==
  ASSUME NEW S, Known(S), NEW name, NEW c, Good(c), <<name, c>> \in S, NEW a
  PROVE  Known(S \cup {<<name, [c EXCEPT !.amount = a]>>})
  <1> DEFINE d == [c EXCEPT !.amount = a]
             e == <<name, c>>
  <1>1. e[1] = name /\ e[2] = c /\ e \in S
    OBVIOUS
  <1> HIDE DEF e
  <1>2. CASE "kind" \in DOMAIN c /\ c.kind \in {"data", "tree", "broken"}
    <2>1. d.kind = c.kind
      BY <1>2
    <2> HIDE DEF d
    <2>2. ~Ours(d)
      BY <1>2, <2>1 DEF Ours, IsSealed
    <2>3. Known(S \cup {<<name, d>>})
      BY <2>2, AddedIsKnown
    <2> QED BY <2>3 DEF d
  <1>3. CASE c = Sealed(c.header, c.body, c.amount, c.with)
    <2>1. d.header = c.header /\ d.body = c.body /\ d.with = c.with /\ d.kind = c.kind
      BY <1>3 DEF Sealed
    <2> HIDE DEF d
    <2>2. Ours(d) => Ours(c)
      BY <2>1 DEF Ours, IsSealed
    <2>3. Ours(c) => Proper(name, c) /\ <<c.body.root, c.body.content>> \in S
      BY <1>1 DEF Known
    <2>4. Proper(name, c) => Proper(name, d)
      BY <2>1 DEF Proper
    <2>5. Known(S \cup {<<name, d>>})
      BY <2>1, <2>2, <2>3, <2>4, AddedIsKnown
    <2> QED BY <2>5 DEF d
  <1> QED BY <1>2, <1>3 DEF Good

LEMMA HeaderIsProper ==
  ASSUME SessionInv, EncryptionInHand, WriteHeader
  PROVE  Proper(FileName(EncOut), Sealed(Header, Body, "nothing", given))
  <1> DEFINE c == Sealed(Header, Body, "nothing", given)
             p == params[1]
  <1>1. /\ pc = "header" /\ Encrypting /\ runs \in Nat /\ cmd \in Commands
        /\ given.keyfile = cmd.keyfile
    BY SessionAssumption DEF WriteHeader, SessionInv, Control, Run, TypeOK
  <1>2. /\ Valid(p) /\ p.keyfile = (cmd.keyfile # None)
        /\ given.device # None => given.device = Some(p.credential[1][1])
    BY <1>1 DEF SessionInv, Control, EncryptionReady
  <1>3. /\ p.archive = IsDir(cmd.in) /\ p.fileId = FileId /\ p.compress = cmd.compress
        /\ p.saltBodyFido # None <=> given.device # None
        /\ FullReads => bodyKeys[1] = BodyKeys(given, p)
    BY <1>1 DEF EncryptionInHand
  <1>4. ReadParams(Header.sealed) = p /\ ReadVersion(Header.sealed) = Version
    BY <1>1, <1>2, SaltsAreBytes, HeaderRoundTrip, SessionAssumption DEF Header
  <1>5. cmd.in \in DOMAIN disk
    BY <1>1 DEF SessionInv, Control, Run
  <1>6. p.archive <=> Body.content.kind = "tree"
    BY <1>3, <1>5 DEF Body, IsDir, Exists
  <1>7. p.archive \/ DecryptedName(FileName(EncOut)) = Body.root
    BY <1>1, <1>3, EncOutName DEF Body
  <1>8. /\ Body.version = Version /\ Body.fileId = FileId /\ Body.compress = cmd.compress
        /\ Body.keys = bodyKeys[1]
    BY DEF Body
  <1>9. c.header = Header /\ c.body = Body /\ c.with = given
    BY DEF Sealed
  <1> HIDE DEF c, p
  <1>10. Proper(FileName(EncOut), c)
    BY <1>1, <1>2, <1>3, <1>4, <1>6, <1>7, <1>8, <1>9 DEF Proper
  <1> QED BY <1>10 DEF c

LEMMA DiskKnownStep ==
  ASSUME SessionInv, DataInv, [Next]_vars
  PROVE  DiskKnown'
  <1>1. PICK S : Known(S) /\ \A p \in DOMAIN disk : <<FileName(p), disk[p]>> \in S
    BY DEF DataInv, DiskKnown
  <1>2. ASSUME UNCHANGED disk
        PROVE  DiskKnown'
    BY <1>1, <1>2 DEF DiskKnown
  <1>3. ASSUME NEW q, disk' = Written(q, Broken)
        PROVE  DiskKnown'
    <2>1. ~Ours(Broken)
      BY DEF Ours, IsSealed, Broken
    <2>2. Known(S \cup {<<FileName(q), Broken>>})
      BY <1>1, <2>1, AddedIsKnown
    <2> QED BY <1>1, <1>3, <2>2, WrittenIsKnown
  <1>4. ASSUME NEW q, NEW a, disk' = [disk EXCEPT ![q].amount = a]
        PROVE  DiskKnown'
    <2>1. CASE q \in DOMAIN disk
      <3> DEFINE c == [disk[q] EXCEPT !.amount = a]
      <3>1. Good(disk[q])
        BY <2>1 DEF SessionInv, DiskGood, Closed
      <3>2. Known(S \cup {<<FileName(q), c>>})
        BY <1>1, <2>1, <3>1, AmountIsKnown
      <3>3. \A p \in DOMAIN disk' : <<FileName(p), disk'[p]>> \in S \cup {<<FileName(q), c>>}
        BY <1>1, <1>4, <2>1
      <3> QED BY <3>2, <3>3 DEF DiskKnown
    <2>2. CASE q \notin DOMAIN disk
      <3>1. \A p \in DOMAIN disk' : <<FileName(p), disk'[p]>> \in S
        BY <1>1, <1>4, <2>2
      <3> QED BY <1>1, <3>1 DEF DiskKnown
    <2> QED BY <2>1, <2>2
  <1>5. CASE WriteHeader
    <2> DEFINE c == Sealed(Header, Body, "nothing", given)
    <2>1. Proper(FileName(EncOut), c)
      BY <1>5, HeaderIsProper DEF DataInv, InHand
    <2>2. cmd.in \in DOMAIN disk /\ disk' = Written(EncOut, c)
      BY <1>5 DEF WriteHeader, SessionInv, Control, Run
    <2>3. c.body.root = FileName(cmd.in) /\ c.body.content = disk[cmd.in]
      BY DEF Sealed, Body
    <2> HIDE DEF c
    <2>4. <<c.body.root, c.body.content>> \in S
      BY <1>1, <2>2, <2>3
    <2>5. Known(S \cup {<<FileName(EncOut), c>>})
      BY <1>1, <2>1, <2>4, AddedIsKnown
    <2> QED BY <1>1, <2>2, <2>5, WrittenIsKnown
  <1>6. CASE DecryptAll
    <2>1. CASE UNCHANGED disk
      BY <1>2, <2>1
    <2>2. CASE disk' = Written(Target, Content)
      <3>1. CASE Input.amount # "whole"
        BY <1>3, <2>2, <3>1 DEF Content
      <3>2. CASE Input.amount = "whole"
        <4>1. /\ Decrypting /\ pc = "body" /\ cmd \in Commands /\ cmd.in \in DOMAIN disk
              /\ Ours(Source) /\ Proper(FileName(cmd.in), Source) /\ disk[cmd.in] = Source
              /\ params = Some(ReadParams(Source.header.sealed))
          BY <1>6
             DEF DecryptAll, Decrypting, SessionInv, Control, Run, DataInv, InHand,
                 DecryptionInHand
        <4> DEFINE e == <<FileName(cmd.in), Source>>
        <4>2. e[1] = FileName(cmd.in) /\ e[2] = Source /\ e \in S
          BY <1>1, <4>1
        <4> HIDE DEF e
        <4>3. <<Source.body.root, Source.body.content>> \in S
          BY <1>1, <4>1, <4>2 DEF Known
        <4>4. Content = Source.body.content
          BY <3>2, <4>1 DEF Content, Input
        <4>5. FileName(Target) = Source.body.root
          <5>1. params[1] = ReadParams(Source.header.sealed)
            BY <4>1, SomeDiffer
          <5>2. CASE params[1].archive
            BY <4>1, <5>2, JoinName, OutDirIsPath DEF Target, Input
          <5>3. CASE ~params[1].archive
            BY <4>1, <5>1, <5>3, DecOutName DEF Target, Proper
          <5> QED BY <5>2, <5>3
        <4>6. S \cup {<<FileName(Target), Content>>} = S
          BY <4>3, <4>4, <4>5
        <4> QED BY <1>1, <2>2, <4>6, WrittenIsKnown
      <3> QED BY <3>1, <3>2
    <2> QED BY <1>6, <2>1, <2>2 DEF DecryptAll
  <1>7. CASE DeleteOriginal
    <2>1. \A p \in DOMAIN disk' : <<FileName(p), disk'[p]>> \in S
      BY <1>1, <1>7 DEF DeleteOriginal
    <2> QED BY <1>1, <2>1 DEF DiskKnown
  <1>8. CASE CreateEncrypted \/ CreateDecrypted \/ ExtractSome
    BY <1>2, <1>3, <1>8 DEF CreateEncrypted, CreateDecrypted, ExtractSome
  <1>9. CASE EncryptSome \/ EncryptAll \/ EncryptCut
    BY <1>4, <1>9 DEF EncryptSome, EncryptAll, EncryptCut
  <1>10. CASE Prepare \/ ConfirmPassword \/ MakeKeys \/ MakeKeysUsb
    BY <1>2, <1>10 DEF Prepare, ConfirmPassword, MakeKeys, MakeKeysUsb, KeysMade
  <1>11. CASE CheckInput \/ EnterPassword \/ MakeOutDir \/ DecryptRefused
    BY <1>2, <1>11 DEF CheckInput, EnterPassword, MakeOutDir, DecryptRefused
  <1>12. CASE RebuildKeys \/ RebuildKeysUsb
    BY <1>2, <1>12 DEF RebuildKeys, RebuildKeysUsb, KeysMade
  <1>13. CASE Abort \/ \E c \in Commands : Begin(c)
    BY <1>2, <1>13 DEF Abort, Begin
  <1>14. CASE UNCHANGED vars
    BY <1>2, <1>14 DEF vars
  <1> QED
    BY <1>5, <1>6, <1>7, <1>8, <1>9, <1>10, <1>11, <1>12, <1>13, <1>14
       DEF Next, Encrypt, Decrypt

-----------------------------------------------------------------------------
(* What a run has in its hands.                                            *)

\* The keys that encryption makes are those of the secrets it was given.
LEMMA EncryptionKeys ==
  ASSUME SessionInv, PasswordInHand, MakeKeys \/ MakeKeysUsb
  PROVE  /\ params'[1].archive = IsDir(cmd.in) /\ params'[1].fileId = FileId
         /\ params'[1].compress = cmd.compress
         /\ params'[1].saltBodyFido # None <=> given'.device # None
         /\ FullReads => bodyKeys'[1] = BodyKeys(given', params'[1])
  <1>1. /\ cmd \in Commands /\ given.keyfile = cmd.keyfile /\ given.device = None
        /\ password = given.password
    BY DEF MakeKeys, MakeKeysUsb, SessionInv, Control, Run, Untouched, Early, PasswordInHand
  <1>2. ASSUME NEW credential, params' = Some(EncParams(credential))
        PROVE  /\ params'[1].archive = IsDir(cmd.in) /\ params'[1].fileId = FileId
               /\ params'[1].compress = cmd.compress
               /\ params'[1].saltBodyFido = (IF cmd.usb THEN Some(Salt(5)) ELSE None)
               /\ params'[1].saltBodyPw = Salt(3) /\ params'[1].saltBodyEnc = Salt(4)
               /\ params'[1].credential = credential
    <2>1. params'[1] = EncParams(credential)
      BY <1>2, SomeDiffer
    <2> QED BY <2>1 DEF EncParams
  <1>3. CASE MakeKeys
    <2>1. PICK hash \in Hashes :
            /\ bodyKeys' = Some(BodyCiphers(hash, <<>>, password[1], Salt(3), Salt(4)))
            /\ given' = given
      BY <1>3 DEF MakeKeys, KeysMade
    <2>2. params' = Some(EncParams(None)) /\ ~cmd.usb
      BY <1>3 DEF MakeKeys
    <2>3. HmacOf(given'.device, params'[1]) = <<>>
      BY <1>2, <2>2 DEF HmacOf
    <2>4. FullReads => hash = HashOf(given'.keyfile)
      BY <1>1, <2>1, HashIsKnown
    <2>5. bodyKeys'[1] = BodyCiphers(hash, <<>>, password[1], Salt(3), Salt(4))
      BY <2>1, SomeDiffer
    <2> QED BY <1>1, <1>2, <2>1, <2>2, <2>3, <2>4, <2>5 DEF BodyKeys
  <1>4. CASE MakeKeysUsb
    <2>1. PICK hash \in Hashes, device \in Devices :
            LET credential == <<device.id, runs>>
                hmac == HmacSecret(device, credential, Salt(5))
            IN  /\ bodyKeys' = Some(BodyCiphers(hash, <<hmac>>, password[1], Salt(3), Salt(4)))
                /\ given' = [given EXCEPT !.device = Some(device.id)]
                /\ params' = Some(EncParams(Some(credential)))
      BY <1>4 DEF MakeKeysUsb, KeysMade
    <2> DEFINE credential == <<device.id, runs>>
               hmac == HmacSecret(device, credential, Salt(5))
    <2>2. cmd.usb
      BY <1>4 DEF MakeKeysUsb
    <2>3. /\ given'.device = Some(device.id) /\ given'.keyfile = given.keyfile
          /\ given'.password = given.password
      BY <2>1 DEF SessionInv, Control, Run
    <2>4. /\ params'[1].saltBodyFido = Some(Salt(5))
          /\ params'[1].credential = Some(credential)
      BY <1>2, <2>1, <2>2
    <2> HIDE DEF credential
    <2>5. HmacOf(given'.device, params'[1]) = <<hmac>>
      BY <2>3, <2>4, SomeDiffer DEF HmacOf, HmacSecret
    <2>6. FullReads => hash = HashOf(given'.keyfile)
      BY <1>1, <2>3, HashIsKnown
    <2> HIDE DEF hmac
    <2>7. bodyKeys'[1] = BodyCiphers(hash, <<hmac>>, password[1], Salt(3), Salt(4))
      BY <2>1, SomeDiffer DEF hmac, credential
    <2>8. params'[1].saltBodyPw = Salt(3) /\ params'[1].saltBodyEnc = Salt(4)
      BY <1>2, <2>1
    <2>9. FullReads => bodyKeys'[1] = BodyKeys(given', params'[1])
      BY <1>1, <2>3, <2>5, <2>6, <2>7, <2>8 DEF BodyKeys
    <2>10. params'[1].saltBodyFido # None /\ given'.device # None
      BY <2>3, <2>4, SomeDiffer
    <2> QED BY <1>2, <2>1, <2>9, <2>10
  <1> QED BY <1>3, <1>4

\* The same for decryption, with the parameters in the header.
LEMMA DecryptionKeys ==
  ASSUME SessionInv, PasswordInHand, RebuildKeys \/ RebuildKeysUsb, pc' = "mkdir"
  PROVE  FullReads => bodyKeys'[1] = BodyKeys(given', params[1])
  <1> DEFINE p == params[1]
  <1>1. /\ cmd \in Commands /\ given.keyfile = cmd.keyfile /\ password = given.password
    BY DEF RebuildKeys, RebuildKeysUsb, SessionInv, Control, Run, PasswordInHand
  <1>2. CASE RebuildKeys
    <2>1. PICK hash \in Hashes :
            /\ bodyKeys' = Some(BodyCiphers(hash, <<>>, password[1], p.saltBodyPw,
                                             p.saltBodyEnc))
            /\ given' = given /\ p.saltBodyFido = None
      BY <1>2 DEF RebuildKeys, KeysMade
    <2> HIDE DEF p
    <2>2. FullReads => hash = HashOf(given'.keyfile)
      BY <1>1, <2>1, HashIsKnown
    <2>3. bodyKeys'[1] = BodyCiphers(hash, <<>>, password[1], p.saltBodyPw, p.saltBodyEnc)
      BY <2>1, SomeDiffer
    <2>4. HmacOf(given'.device, p) = <<>>
      BY <2>1 DEF HmacOf
    <2>5. FullReads => bodyKeys'[1] = BodyKeys(given', p)
      BY <1>1, <2>1, <2>2, <2>3, <2>4 DEF BodyKeys
    <2> QED BY <2>5 DEF p
  <1>3. CASE RebuildKeysUsb
    <2>1. PICK hash \in Hashes, device \in Devices :
            LET hmac == HmacSecret(device, p.credential[1], p.saltBodyFido[1])
            IN  /\ bodyKeys' = Some(BodyCiphers(hash, <<hmac>>, password[1], p.saltBodyPw,
                                                p.saltBodyEnc))
                /\ given' = [given EXCEPT !.device = Some(device.id)]
                /\ p.saltBodyFido # None
      BY <1>3 DEF RebuildKeysUsb, KeysMade, Return
    <2> HIDE DEF p
    <2> DEFINE hmac == HmacSecret(device, p.credential[1], p.saltBodyFido[1])
    <2>2. /\ given'.device = Some(device.id) /\ given'.keyfile = given.keyfile
          /\ given'.password = given.password
      BY <2>1 DEF SessionInv, Control, Run
    <2>3. HmacOf(given'.device, p) = <<hmac>>
      BY <2>1, <2>2, SomeDiffer DEF HmacOf, HmacSecret
    <2>4. FullReads => hash = HashOf(given'.keyfile)
      BY <1>1, <2>2, HashIsKnown
    <2> HIDE DEF hmac
    <2>5. bodyKeys'[1] = BodyCiphers(hash, <<hmac>>, password[1], p.saltBodyPw, p.saltBodyEnc)
      BY <2>1, SomeDiffer DEF hmac
    <2>6. FullReads => bodyKeys'[1] = BodyKeys(given', p)
      BY <1>1, <2>2, <2>3, <2>4, <2>5 DEF BodyKeys
    <2> QED BY <2>6 DEF p
  <1> QED BY <1>2, <1>3

LEMMA InHandStep ==
  ASSUME SessionInv, DataInv, [Next]_vars
  PROVE  InHand'
  <1> USE DEF InHand, PasswordInHand, EncryptionInHand, DecryptionInHand, Encrypting,
              Decrypting, keyVars
  <1>a. InHand /\ DiskKnown /\ Run /\ Untouched
    BY DEF DataInv, SessionInv, Control
  <1>0. CASE Prepare
    BY <1>0, <1>a DEF Prepare, Run
  <1>1. CASE MakeOutDir
    <2>1. /\ UNCHANGED <<cmd, params, bodyKeys, given, disk>> /\ Source' = Source
          /\ pc = "mkdir" /\ pc' = "create"
      BY <1>1 DEF MakeOutDir, Source
    <2>2. cmd.op = "decrypt"
      BY <1>a, <2>1 DEF Run
    <2> QED BY <1>a, <2>1, <2>2
  <1>2. CASE ConfirmPassword
    BY <1>2, <1>a DEF ConfirmPassword, Return, Run
  <1>3. CASE EncryptAll \/ EncryptCut \/ DecryptAll \/ ExtractSome \/ DecryptRefused \/ Abort
    BY <1>3 DEF EncryptAll, EncryptCut, DecryptAll, ExtractSome, DecryptRefused, Abort, Return
  <1>4. CASE EncryptSome \/ DeleteOriginal
    BY <1>4, <1>a DEF EncryptSome, DeleteOriginal
  <1>5. CASE WriteHeader
    BY <1>5, <1>a DEF WriteHeader, Run
  <1>6. CASE UNCHANGED vars
    BY <1>6, <1>a DEF vars, Source, Exists, IsDir, FileId
  <1>7. ASSUME NEW c \in Commands, Begin(c)
        PROVE  InHand'
    BY <1>7, SessionAssumption DEF Begin
  <1>8. CASE MakeKeys \/ MakeKeysUsb
    <2>1. /\ params'[1].archive = IsDir(cmd.in) /\ params'[1].fileId = FileId
          /\ params'[1].compress = cmd.compress
          /\ params'[1].saltBodyFido # None <=> given'.device # None
          /\ FullReads => bodyKeys'[1] = BodyKeys(given', params'[1])
      BY <1>8, EncryptionKeys DEF SessionInv, DataInv
    <2>2. pc' = "create" /\ cmd.op = "encrypt" /\ UNCHANGED <<disk, runs, cmd>>
      BY <1>8 DEF MakeKeys, MakeKeysUsb, KeysMade
    <2> QED BY <2>1, <2>2 DEF IsDir, Exists, FileId
  <1>9. CASE CreateEncrypted
    <2>1. cmd \in Commands /\ cmd.in \in DOMAIN disk
      BY <1>9, <1>a DEF CreateEncrypted, Run
    <2>2. cmd.in \in DOMAIN disk' /\ disk'[cmd.in] = disk[cmd.in]
      BY <1>9, <2>1, EncOutName DEF CreateEncrypted, Written
    <2> QED BY <1>9, <1>a, <2>1, <2>2 DEF CreateEncrypted, IsDir, Exists, FileId
  <1>10. CASE CheckInput
    BY <1>10, <1>a DEF CheckInput, Return, Acceptable, Run
  <1>11. CASE EnterPassword
    BY <1>11, <1>a DEF EnterPassword, Return, Run
  <1>12. CASE RebuildKeys \/ RebuildKeysUsb
    <2>1. CASE pc' = "mkdir"
      <3>1. /\ cmd' = cmd /\ params' = params /\ Source' = Source /\ disk' = disk
            /\ pc = "bodykeys" /\ cmd.op = "decrypt"
        BY <1>12, <2>1 DEF RebuildKeys, RebuildKeysUsb, KeysMade, Return, Source
      <3>2. /\ Ours(Source) /\ params = Some(ReadParams(Source.header.sealed))
        BY <3>1 DEF Ours, SessionInv, Control, DecryptionReady
      <3>3. disk[cmd.in] = Source /\ cmd.in \in DOMAIN disk
        BY <1>a, <3>1 DEF Run, Untouched, Early, Source
      <3>4. Proper(FileName(cmd.in), Source)
        BY <1>a, <3>2, <3>3, SourceIsKnown
      <3>5. FullReads => bodyKeys'[1] = BodyKeys(given', params[1])
        BY <1>12, <1>a, <2>1, DecryptionKeys
      <3> QED BY <1>a, <2>1, <3>1, <3>2, <3>3, <3>4, <3>5
    <2>2. CASE pc' # "mkdir"
      BY <1>12, <2>2 DEF RebuildKeys, RebuildKeysUsb, KeysMade, Return
    <2> QED BY <2>1, <2>2
  <1>13. CASE CreateDecrypted
    <2>1. /\ cmd \in Commands /\ cmd.in \in DOMAIN disk /\ Decryptable(FileName(cmd.in))
      BY <1>13, <1>a DEF CreateDecrypted, Run
    <2>2. disk'[cmd.in] = disk[cmd.in]
      BY <1>13, <2>1, DecOutName DEF CreateDecrypted, Written
    <2>3. /\ UNCHANGED <<cmd, params, bodyKeys, given>> /\ Source' = Source
          /\ pc = "create" /\ pc' = "body" /\ cmd.op = "decrypt"
      BY <1>13 DEF CreateDecrypted, Source
    <2> QED BY <1>a, <2>1, <2>2, <2>3
  <1> QED
    BY <1>0, <1>1, <1>2, <1>3, <1>4, <1>5, <1>6, <1>7, <1>8, <1>9, <1>10, <1>11, <1>12,
       <1>13
       DEF Next, Encrypt, Decrypt

-----------------------------------------------------------------------------
(* How runs end.                                                           *)

LEMMA SameHashSameBlocks ==
  ASSUME NEW k, NEW l, HashOf(k) = HashOf(l)
  PROVE  (k = None) = (l = None) /\ KeyBlocks(k) = KeyBlocks(l)
  <1>1. \A x : <<x>> # <<>> /\ <<x>>[1] = x
    OBVIOUS
  <1>2. CASE k = None
    BY <1>1, <1>2 DEF HashOf, KeyBlocks
  <1>3. CASE k # None
    <2>1. l # None
      BY <1>1, <1>3 DEF HashOf
    <2>2. HashOf(k)[1].keyfile = KeyBlocks(k) /\ HashOf(l)[1].keyfile = KeyBlocks(l)
      BY <1>3, <2>1 DEF HashOf
    <2> QED BY <1>3, <2>1, <2>2
  <1> QED BY <1>2, <1>3

\* In the body, a decryption has the parameters and the keys of its source.
LEMMA BodyFacts ==
  ASSUME SessionInv, InHand, Decrypting, pc \in {"mkdir", "create", "body"}
  PROVE  /\ Ours(Source) /\ Proper(FileName(cmd.in), Source) /\ Input = Source
         /\ params[1] = ReadParams(Source.header.sealed)
         /\ FullReads => bodyKeys[1] = BodyKeys(given, params[1])
         /\ cmd \in Commands /\ given.keyfile = cmd.keyfile /\ Entitled
  BY SomeDiffer DEF SessionInv, Control, Run, Allowed, InHand, DecryptionInHand, Input

LEMMA OkStep ==
  ASSUME SessionInv, InHand, FullReads, DecryptAll
  PROVE  OkIsOriginal'
  <1> DEFINE q == ReadParams(Source.header.sealed)
  <1>1. /\ Ours(Source) /\ Proper(FileName(cmd.in), Source) /\ Input = Source
        /\ params[1] = q /\ bodyKeys[1] = BodyKeys(given, q)
        /\ cmd \in Commands /\ given.keyfile = cmd.keyfile /\ Entitled
        /\ Decrypting
    BY BodyFacts DEF DecryptAll, Decrypting
  <1>2. UNCHANGED <<cmd, before, given>> /\ Source' = Source /\ OutDir' = OutDir
    BY DEF DecryptAll, Source, OutDir
  <1> HIDE DEF q
  <1>3. /\ q.archive <=> Source.body.content.kind = "tree"
        /\ q.archive \/ DecryptedName(FileName(cmd.in)) = Source.body.root
        /\ q.saltBodyFido # None <=> Source.with.device # None
        /\ Source.body.keys = BodyKeys(Source.with, q)
    BY <1>1 DEF Proper, q
  <1>4. RightSecrets
    <2>1. /\ given.password = Source.with.password
          /\ Source.with.device # None => given.device = Source.with.device
      BY <1>1 DEF Entitled
    <2>2. HmacOf(given.device, q) = HmacOf(Source.with.device, q)
      BY <1>3, <2>1 DEF HmacOf
    <2>3. BodyKeys(given, q) = BodyKeys(Source.with, q)
      BY <1>1, <1>3 DEF DecryptAll, BodyOpens
    <2>4. HashOf(cmd.keyfile) = HashOf(Source.with.keyfile)
      BY <1>1, <2>2, <2>3, BodyKeysDiffer
    <2>5. /\ (cmd.keyfile = None) = (Source.with.keyfile = None)
          /\ KeyBlocks(cmd.keyfile) = KeyBlocks(Source.with.keyfile)
      BY <2>4, SameHashSameBlocks
    <2> QED BY <2>1, <2>5 DEF RightSecrets
  <1>5. RightSecrets'
    BY <1>2, <1>4 DEF RightSecrets, KeyBlocks
  <1>6. CASE Listing
    BY <1>1, <1>2, <1>3, <1>5, <1>6 DEF Listing, OkIsOriginal
  <1>7. CASE ~Listing /\ Source.amount # "cut"
    <2>1. Target = Join(OutDir, Source.body.root)
      BY <1>1, <1>3 DEF Target, DecOut
    <2>2. Content = Source.body.content
      BY <1>1, <1>7 DEF DecryptAll, Ends, Content
    <2>3. disk' = Written(Target, Content)
      BY <1>7 DEF DecryptAll
    <2> DEFINE t == Join(OutDir, Source.body.root)
    <2> HIDE DEF t
    <2>4. t \in DOMAIN disk' /\ disk'[t] = Source.body.content
      BY <2>1, <2>2, <2>3 DEF Written, t
    <2>5. RestoredTo(Join(OutDir, Source.body.root))'
      BY <1>2, <2>4 DEF RestoredTo, Exists, t
    <2> QED BY <1>5, <2>5 DEF OkIsOriginal
  <1>8. CASE Source.amount = "cut"
    BY <1>2, <1>5, <1>8 DEF OkIsOriginal
  <1> QED BY <1>6, <1>7, <1>8

\* With the right secrets, the keys are those of the body.
LEMMA RightSecretsRightKeys ==
  ASSUME FullReads, NEW name, Proper(name, Source), given.keyfile = cmd.keyfile, RightSecrets
  PROVE  BodyKeys(given, ReadParams(Source.header.sealed)) = Source.body.keys
  <1> DEFINE q == ReadParams(Source.header.sealed)
  <1>1. HashOf(given.keyfile) = HashOf(Source.with.keyfile)
    BY DEF RightSecrets, HashOf
  <1>2. HmacOf(given.device, q) = HmacOf(Source.with.device, q)
    BY DEF RightSecrets, HmacOf, Proper
  <1>3. given.password = Source.with.password
    BY DEF RightSecrets
  <1> HIDE DEF q
  <1>4. BodyKeys(given, q) = BodyKeys(Source.with, q)
    BY <1>1, <1>2, <1>3 DEF BodyKeys
  <1> QED BY <1>4 DEF Proper, q

\* A decryption that is refused, and of a complete file.
Refused ==
  /\ pc' = "idle" /\ result' = "refused"
  /\ Decrypting /\ Ours(Source) /\ Source.amount = "whole" /\ Decryptable(FileName(cmd.in))

LEMMA RefusedStep ==
  ASSUME SessionInv, DataInv, FullReads, Refused, RightSecrets', UNCHANGED <<cmd, before>>,
         CheckInput \/ EnterPassword \/ RebuildKeysUsb \/ DecryptRefused
  PROVE  FALSE
  <1> DEFINE q == ReadParams(Source.header.sealed)
  <1>1. Source' = Source /\ given'.password = Source.with.password
        /\ ((cmd.keyfile = None) = (Source.with.keyfile = None))
        /\ (Source.with.device # None => given'.device = Source.with.device)
    BY DEF RightSecrets, Source
  <1>2. pc \in Early => disk[cmd.in] = Source /\ cmd.in \in DOMAIN disk
    BY DEF SessionInv, Control, Run, Untouched, Early, Source, CheckInput, EnterPassword,
           RebuildKeysUsb, DecryptRefused
  <1>3. pc \in Early => WellSealed(Source) /\ Proper(FileName(cmd.in), Source)
    BY <1>2, SourceIsGood, SourceIsKnown DEF SessionInv, Control, DataInv, Refused, Ours
  <1>4. CASE CheckInput
    <2>1. Input = Source /\ cmd.in \in DOMAIN disk
      BY <1>2, <1>4 DEF CheckInput, Early, Input
    <2>2. Acceptable
      BY <2>1 DEF Acceptable, Refused, Ours, IsSealed, IsDir, Input
    <2> QED BY <1>4, <2>2 DEF CheckInput, Refused
  <1>5. CASE EnterPassword
    <2> DEFINE h == Source.header
    <2>1. PICK entered \in Passwords :
            LET keys == HeaderCiphers(entered, ReadSaltPw(h.clear), ReadSaltEnc(h.clear))
            IN  /\ given'.password = Some(entered)
                /\ ~(HeaderOpens(keys) /\ Supported(h.sealed) /\ KeyfileGiven(h.sealed))
      BY <1>2, <1>5 DEF EnterPassword, Early, Input, Refused, SessionInv, Control, Run
    <2>2. /\ WellSealed(Source) /\ Proper(FileName(cmd.in), Source) /\ Input = Source
          /\ h.version = Version
      BY <1>2, <1>3, <1>5 DEF EnterPassword, Early, Input, Refused, Ours
    <2>3. PICK w \in Passwords :
            /\ Source.with.password = Some(w)
            /\ h.keys = HeaderCiphers(w, ReadSaltPw(h.clear), ReadSaltEnc(h.clear))
      BY <2>2 DEF WellSealed
    <2>4. w = entered
      BY <1>1, <2>1, <2>3, SomeDiffer
    <2>5. Supported(h.sealed) /\ KeyfileGiven(h.sealed)
      BY <1>1, <2>2 DEF Proper, Supported, KeyfileGiven
    <2>6. HeaderOpens(HeaderCiphers(entered, ReadSaltPw(h.clear), ReadSaltEnc(h.clear)))
      BY <2>2, <2>3, <2>4 DEF HeaderOpens
    <2> QED BY <2>1, <2>5, <2>6
  <1>6. CASE RebuildKeysUsb
    <2>1. params[1] = q /\ params[1].saltBodyFido # None
      BY <1>6, SomeDiffer
         DEF RebuildKeysUsb, SessionInv, Control, DecryptionReady, Refused
    <2>2. PICK device \in Devices :
            /\ given'.device = Some(device.id) /\ ~Issued(device, params[1].credential[1])
      BY <1>6 DEF RebuildKeysUsb, Refused, SessionInv, Control, Run
    <2>3. Proper(FileName(cmd.in), Source)
      BY <1>3, <1>6 DEF RebuildKeysUsb, Early
    <2> HIDE DEF q
    <2>4. /\ q.saltBodyFido # None <=> Source.with.device # None
          /\ Source.with.device # None => Source.with.device = Some(q.credential[1][1])
      BY <2>3 DEF Proper, q
    <2>5. Some(device.id) = Some(q.credential[1][1])
      BY <1>1, <2>1, <2>2, <2>4
    <2>6. device.id = q.credential[1][1]
      BY <2>5, SomeDiffer
    <2> QED BY <2>1, <2>2, <2>6 DEF Issued
  <1>7. CASE DecryptRefused
    <2>1. /\ Ours(Source) /\ Proper(FileName(cmd.in), Source) /\ Input = Source
          /\ params[1] = q /\ bodyKeys[1] = BodyKeys(given, params[1])
          /\ given.keyfile = cmd.keyfile
      BY <1>7, BodyFacts DEF DecryptRefused, DataInv, Decrypting
    <2>2. RightSecrets
      BY <1>1, <1>7 DEF DecryptRefused, RightSecrets, KeyBlocks
    <2>3. bodyKeys[1] = Source.body.keys
      BY <2>1, <2>2, RightSecretsRightKeys
    <2>4. BodyOpens
      BY <2>1, <2>3 DEF BodyOpens, Proper, Ours
    <2>5. Ends
      BY <2>1 DEF Ends, Refused
    <2> QED BY <1>7, <2>4, <2>5 DEF DecryptRefused
  <1> QED BY <1>4, <1>5, <1>6, <1>7

LEMMA OkIsOriginalStep ==
  ASSUME SessionInv, DataInv, FullReads, [Next]_vars
  PROVE  OkIsOriginal'
  <1>1. CASE DecryptAll
    BY <1>1, OkStep DEF DataInv
  <1>2. CASE Encrypt
    <2>1. cmd.op = "encrypt" /\ cmd' = cmd
      BY <1>2
         DEF Encrypt, Prepare, ConfirmPassword, MakeKeys, MakeKeysUsb, KeysMade, CreateEncrypted,
             WriteHeader, EncryptSome, EncryptAll, EncryptCut, SessionInv, Control, Run,
             Encrypting
    <2> QED BY <2>1 DEF OkIsOriginal, Decrypting
  <1>3. CASE CheckInput \/ EnterPassword \/ RebuildKeys \/ RebuildKeysUsb
    BY <1>3 DEF CheckInput, EnterPassword, RebuildKeys, RebuildKeysUsb, Return, OkIsOriginal
  <1>4. CASE MakeOutDir \/ CreateDecrypted \/ ExtractSome \/ DecryptRefused \/ Abort
    BY <1>4
       DEF MakeOutDir, CreateDecrypted, ExtractSome, DecryptRefused, Abort, Return, OkIsOriginal
  <1>5. CASE DeleteOriginal
    BY <1>5 DEF DeleteOriginal, OkIsOriginal, Decrypting
  <1>6. ASSUME NEW c \in Commands, Begin(c)
        PROVE  OkIsOriginal'
    BY <1>6 DEF Begin, OkIsOriginal
  <1>7. CASE UNCHANGED vars
    <2>1. OkIsOriginal
      BY DEF DataInv, Results
    <2> QED
      BY <1>7, <2>1
         DEF vars, keyVars, OkIsOriginal, Decrypting, RightSecrets, KeyBlocks, Source, RestoredTo,
             Exists, OutDir
  <1> QED BY <1>1, <1>2, <1>3, <1>4, <1>5, <1>6, <1>7 DEF Next, Decrypt

LEMMA RightSecretsOpenStep ==
  ASSUME SessionInv, DataInv, FullReads, [Next]_vars
  PROVE  RightSecretsOpen'
  <1>1. CASE CheckInput \/ EnterPassword \/ RebuildKeysUsb \/ DecryptRefused
    <2>1. UNCHANGED <<cmd, before>> /\ Source' = Source
      BY <1>1
         DEF CheckInput, EnterPassword, RebuildKeysUsb, DecryptRefused, KeysMade, Return, Source
    <2>2. ~Refused => RightSecretsOpen'
      BY <2>1 DEF Refused, RightSecretsOpen, Ours, Decrypting
    <2>3. Refused => RightSecretsOpen'
      BY <1>1, <2>1, RefusedStep DEF RightSecretsOpen
    <2> QED BY <2>2, <2>3
  <1>2. CASE Encrypt
    <2>1. cmd.op = "encrypt" /\ cmd' = cmd
      BY <1>2
         DEF Encrypt, Prepare, ConfirmPassword, MakeKeys, MakeKeysUsb, KeysMade, CreateEncrypted,
             WriteHeader, EncryptSome, EncryptAll, EncryptCut, SessionInv, Control, Run,
             Encrypting
    <2> QED BY <2>1 DEF RightSecretsOpen, Decrypting
  <1>3. CASE RebuildKeys \/ MakeOutDir \/ CreateDecrypted \/ DecryptAll \/ ExtractSome \/ Abort
    BY <1>3
       DEF RebuildKeys, MakeOutDir, CreateDecrypted, DecryptAll, ExtractSome, Abort, Return,
           RightSecretsOpen
  <1>4. CASE DeleteOriginal
    BY <1>4 DEF DeleteOriginal, RightSecretsOpen, Decrypting
  <1>5. ASSUME NEW c \in Commands, Begin(c)
        PROVE  RightSecretsOpen'
    BY <1>5 DEF Begin, RightSecretsOpen
  <1>6. CASE UNCHANGED vars
    <2>1. RightSecretsOpen
      BY DEF DataInv, Results
    <2> QED
      BY <1>6, <2>1
         DEF vars, keyVars, RightSecretsOpen, Decrypting, RightSecrets, KeyBlocks, Source
  <1> QED BY <1>1, <1>2, <1>3, <1>4, <1>5, <1>6 DEF Next, Decrypt

LEMMA ListChangesNothingStep ==
  ASSUME SessionInv, DataInv, [Next]_vars
  PROVE  ListChangesNothing'
  <1>a. ListChangesNothing
    BY DEF DataInv, Results
  <1>1. ASSUME UNCHANGED <<cmd, disk, dirs, before>>
        PROVE  ListChangesNothing'
    BY <1>1, <1>a DEF ListChangesNothing, Decrypting, Source
  <1>2. CASE Encrypt
    <2>1. cmd.op = "encrypt" /\ cmd' = cmd
      BY <1>2
         DEF Encrypt, Prepare, ConfirmPassword, MakeKeys, MakeKeysUsb, KeysMade, CreateEncrypted,
             WriteHeader, EncryptSome, EncryptAll, EncryptCut, SessionInv, Control, Run,
             Encrypting
    <2> QED BY <2>1 DEF ListChangesNothing, Decrypting
  <1>3. CASE MakeOutDir \/ CreateDecrypted \/ DecryptAll \/ ExtractSome
    <2>1. /\ pc \in {"mkdir", "create", "body"} /\ Decrypting
          /\ UNCHANGED <<cmd, before>> /\ Source' = Source
      BY <1>3
         DEF MakeOutDir, CreateDecrypted, DecryptAll, ExtractSome, Decrypting, Source, SessionInv,
             Control, Run
    <2>2. Proper(FileName(cmd.in), Source) /\ params[1] = ReadParams(Source.header.sealed)
      BY <2>1, BodyFacts DEF DataInv
    <2>3. Source.body.content.kind = "tree" => params[1].archive
      BY <2>2 DEF Proper
    <2>4. cmd.list /\ params[1].archive => UNCHANGED <<disk, dirs>>
      BY <1>3 DEF MakeOutDir, CreateDecrypted, DecryptAll, ExtractSome, Listing
    <2> QED BY <1>a, <2>1, <2>3, <2>4 DEF ListChangesNothing, Decrypting
  <1>4. CASE CheckInput \/ EnterPassword \/ RebuildKeys \/ RebuildKeysUsb
    BY <1>1, <1>4 DEF CheckInput, EnterPassword, RebuildKeys, RebuildKeysUsb, KeysMade
  <1>5. CASE DecryptRefused \/ Abort \/ UNCHANGED vars
    BY <1>1, <1>5 DEF DecryptRefused, Abort, vars
  <1>6. CASE DeleteOriginal
    BY <1>6 DEF DeleteOriginal, ListChangesNothing, Decrypting
  <1>7. ASSUME NEW c \in Commands, Begin(c)
        PROVE  ListChangesNothing'
    BY <1>7 DEF Begin, ListChangesNothing
  <1> QED BY <1>2, <1>3, <1>4, <1>5, <1>6, <1>7 DEF Next, Decrypt

-----------------------------------------------------------------------------
(* The invariant and what follows from it.                                 *)

LEMMA InitData == Init => DataInv
  <1> SUFFICES ASSUME Init
               PROVE  DataInv
    OBVIOUS
  <1> USE DEF Init
  <1>1. DiskKnown
    <2> DEFINE S == {<<FileName(p), disk[p]>> : p \in DOMAIN disk}
    <2>1. \A p \in DOMAIN disk : ~Ours(disk[p])
      BY SessionAssumption DEF Foreign, Ours, IsSealed
    <2>2. \A e \in S : ~Ours(e[2])
      BY <2>1
    <2>3. \A p \in DOMAIN disk : <<FileName(p), disk[p]>> \in S
      OBVIOUS
    <2> HIDE DEF S
    <2>4. Known(S)
      BY <2>2 DEF Known
    <2> QED BY <2>3, <2>4 DEF DiskKnown
  <1>2. InHand
    BY DEF InHand, PasswordInHand, EncryptionInHand, DecryptionInHand, NoCommand, Encrypting,
           Decrypting
  <1>3. Results
    BY DEF Results, OkIsOriginal, RightSecretsOpen, ListChangesNothing, NoCommand, Decrypting
  <1> QED BY <1>1, <1>2, <1>3 DEF DataInv

LEMMA DataStep == SessionInv /\ DataInv /\ [Next]_vars => DataInv'
  BY DiskKnownStep, InHandStep, OkIsOriginalStep, RightSecretsOpenStep, ListChangesNothingStep
     DEF DataInv, Results, FullReads

\* DataInv is an invariant: the header of every encrypted file of this version
\* says what its body is, however often it was encrypted, and each run has the
\* keys that belong to the secrets it was given.
THEOREM DataInvariance == Spec => []DataInv
  BY InitData, DataStep, SessionInvariance, PTL DEF Spec

\* Listing an archive leaves the disk and the output directories as they were
\* before the run, at every step of it.
THEOREM ListChangesNothingCorrect == Spec => []ListChangesNothing
  <1>1. DataInv => ListChangesNothing
    BY DEF DataInv, Results
  <1> QED BY <1>1, DataInvariance, PTL

\* Ok of a decryption means that all the secrets of the encryption were given,
\* and that the original is back under its name (or was listed), except for a
\* file whose encryption had failed.
THEOREM OkIsOriginalCorrect ==
  ASSUME FullReads
  PROVE  Spec => []OkIsOriginal
  <1>1. DataInv => OkIsOriginal
    BY DEF DataInv, Results
  <1> QED BY <1>1, DataInvariance, PTL

\* No complete file is refused if the secrets of its encryption are given.
THEOREM RightSecretsOpenCorrect ==
  ASSUME FullReads
  PROVE  Spec => []RightSecretsOpen
  <1>1. DataInv => RightSecretsOpen
    BY DEF DataInv, Results
  <1> QED BY <1>1, DataInvariance, PTL
=============================================================================
