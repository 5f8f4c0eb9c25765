-------------------------- MODULE ArchiveReadProofs --------------------------
(***************************************************************************)
(* The entries of an archive do not mix and all of them are there, its     *)
(* chunks have their sizes, a hard link is the same file as its target,    *)
(* no more data follow a header than it says, and the output is not        *)
(* archived, for any number of workers and all trees.                      *)
(***************************************************************************)
EXTENDS ArchiveRead, SequenceFacts, FiniteSetTheorems

-----------------------------------------------------------------------------
(* The messages of an entry.                                               *)

Kinds == {"file", "dir", "symlink", "hardlink"}
IsSent(e) == IsEntry(e) /\ e.kind \in Kinds

\* The units that e may have; the bytes of its data segments.
DataSegs(e) == {i \in 1..Len(e.segs) : ~e.segs[i].hole}
DataOffsets(e) ==
  IF e.segs = <<>> THEN 0..(e.size - 1)
                   ELSE UNION {SegStart(e.segs, i)..(SegEnd(e.segs, i) - 1) : i \in DataSegs(e)}
DataWithin(e, from, len) == from..(from + len - 1) \subseteq DataOffsets(e)
OwnUnits(e) ==
  [of: {e}, part: {"header"}, at: 0..HeaderLen] \cup [of: {e}, part: {"data"}, at: DataOffsets(e)]
UnitSet(E) == UNION {OwnUnits(e) : e \in E}
MsgSet(E) == [units: Seq(UnitSet(E)), last: BOOLEAN]

\* A sequence of messages in which only the last may be empty, and exactly the
\* last is flagged, if closed.
Run(ms, closed) ==
  /\ \A k \in 1..Len(ms) : ms[k].last <=> (closed /\ k = Len(ms))
  /\ \A k \in 1..Len(ms) : ms[k].units = <<>> => ms[k].last

LEMMA UnitOwner ==
  ASSUME NEW E, NEW u \in UnitSet(E)
  PROVE  u.of \in E /\ u \in OwnUnits(u.of)
  BY DEF UnitSet, OwnUnits

LEMMA SetsGrow ==
  ASSUME NEW E, NEW F, E \subseteq F
  PROVE  /\ UnitSet(E) \subseteq UnitSet(F) /\ MsgSet(E) \subseteq MsgSet(F)
         /\ Seq(MsgSet(E)) \subseteq Seq(MsgSet(F)) /\ Seq(UnitSet(E)) \subseteq Seq(UnitSet(F))
  <1>1. UnitSet(E) \subseteq UnitSet(F)
    BY DEF UnitSet
  <1>2. Seq(UnitSet(E)) \subseteq Seq(UnitSet(F))
    BY <1>1
  <1>3. MsgSet(E) \subseteq MsgSet(F)
    BY <1>2 DEF MsgSet
  <1> QED BY <1>1, <1>2, <1>3

\* Where segments begin and end.
LEMMA StartFacts ==
  ASSUME NEW segs \in Seq([hole: BOOLEAN, len: Nat \ {0}])
  PROVE  /\ \A i \in 1..(Len(segs) + 1) : SegStart(segs, i) \in Nat
         /\ \A i \in 1..Len(segs) : SegEnd(segs, i) = SegStart(segs, i) + segs[i].len
         /\ \A i \in 1..Len(segs) : \A j \in (i + 1)..(Len(segs) + 1) :
              SegStart(segs, i) + segs[i].len <= SegStart(segs, j)
  <1> DEFINE n == Len(segs)
             f == CHOOSE g : StartSums(g, segs, n)
  <1>1. n \in Nat /\ \A k \in 1..n : segs[k].len \in Nat
    <2>1. \A k \in 1..n : segs[k] \in [hole: BOOLEAN, len: Nat \ {0}]
      BY ElementOfSeq
    <2> QED BY <2>1
  <1>2. StartSums(f, segs, n)
    BY <1>1, StartSumsExist
  <1>3. \A i \in 1..(n + 1) : SegStart(segs, i) = f[i - 1]
    BY DEF SegStart, StartSums
  <1> HIDE DEF f
  <1>4. /\ \A k \in 0..n : f[k] \in Nat
        /\ \A k \in 1..n : f[k] = f[k - 1] + segs[k].len
        /\ \A i \in 0..n : \A k \in i..n : f[i] <= f[k]
    BY <1>1, <1>2, StartSumsFacts
  <1> HIDE DEF n
  <1>5. \A i \in 1..(n + 1) : SegStart(segs, i) \in Nat
    <2>1. \A i \in 1..(n + 1) : i - 1 \in 0..n
      BY <1>1
    <2> QED BY <2>1, <1>3, <1>4
  <1>6. ASSUME NEW i \in 1..n
        PROVE  SegEnd(segs, i) = f[i] /\ f[i] = SegStart(segs, i) + segs[i].len
    <2>1. i \in 1..(n + 1) /\ i + 1 \in 1..(n + 1) /\ (i + 1) - 1 = i
      BY <1>1
    <2> QED BY <2>1, <1>3, <1>4 DEF SegEnd
  <1>7. ASSUME NEW i \in 1..n, NEW j \in (i + 1)..(n + 1)
        PROVE  SegStart(segs, i) + segs[i].len <= SegStart(segs, j)
    <2>1. i \in 0..n /\ j - 1 \in i..n /\ j \in 1..(n + 1)
      BY <1>1
    <2>2. f[i] <= f[j - 1] /\ SegStart(segs, j) = f[j - 1]
      BY <2>1, <1>3, <1>4
    <2> QED BY <2>2, <1>6
  <1> QED BY <1>5, <1>6, <1>7 DEF n

\* The data of a file or of a segment in pieces.
LEMMA PiecesFacts ==
  ASSUME NEW e, NEW from \in Nat, NEW len \in Nat, DataWithin(e, from, len),
         NEW last \in BOOLEAN
  PROVE  LET p == Pieces(e, from, len, last)
         IN  /\ p \in Seq(MsgSet({e})) /\ Run(p, last)
             /\ p = <<>> <=> len = 0
             /\ \A k \in 1..Len(p) : p[k].units # <<>>
  <1> DEFINE n == (len + PieceLen - 1) \div PieceLen
             Read(i) == (i - 1) * PieceLen
             M(i) == Message([j \in 1..Lesser(PieceLen, len - Read(i)) |-> Byte(e, from + (Read(i) + j - 1))],
                             last /\ i = n)
             p == Pieces(e, from, len, last)
  <1>1. n \in Nat /\ n * PieceLen <= len + PieceLen - 1 /\ (n = 0 <=> len = 0)
    <2>1. n \in Nat /\ n * PieceLen <= len + PieceLen - 1 /\ (len # 0 => n # 0)
      BY FormatAssumption
    <2>2. len = 0 => n = 0
      BY FormatAssumption, Quotient
    <2> QED BY <2>1, <2>2
  <1>2. ASSUME NEW i \in 1..n
        PROVE  /\ Read(i) \in Nat /\ Read(i) < len /\ len - Read(i) \in Nat \ {0}
               /\ Lesser(PieceLen, len - Read(i)) \in Nat \ {0}
    <2>1. i * PieceLen <= n * PieceLen /\ Read(i) = i * PieceLen - PieceLen /\ i * PieceLen \in Nat
          /\ i * PieceLen >= PieceLen
      BY <1>1, FormatAssumption
    <2>2. Read(i) \in Nat /\ Read(i) < len
      BY <2>1, <1>1, FormatAssumption
    <2> QED BY <2>2, FormatAssumption DEF Lesser
  <1>3. ASSUME NEW i \in 1..n
        PROVE  /\ M(i) \in MsgSet({e}) /\ M(i).units # <<>> /\ M(i).last = (last /\ i = n)
    <2> DEFINE l == Lesser(PieceLen, len - Read(i))
               u == [j \in 1..l |-> Byte(e, from + (Read(i) + j - 1))]
    <2>1. l \in Nat \ {0} /\ Read(i) \in Nat
      BY <1>2
    <2>2. \A j \in 1..l : Byte(e, from + (Read(i) + j - 1)) \in OwnUnits(e)
      <3> SUFFICES ASSUME NEW j \in 1..l
                   PROVE  Byte(e, from + (Read(i) + j - 1)) \in OwnUnits(e)
        OBVIOUS
      <3>1. PICK k \in Nat : k = Read(i) + j - 1 /\ k < len
        <4>1. j <= len - Read(i)
          BY <1>2, FormatAssumption DEF Lesser
        <4>2. Read(i) + j - 1 \in Nat /\ Read(i) + j - 1 < len
          BY ONLY <2>1, <4>1, j \in 1..l, len \in Nat
        <4> QED BY <4>2
      <3>2. from + k \in DataOffsets(e)
        <4>1. from + k \in from..(from + len - 1)
          BY ONLY <3>1, k \in Nat, from \in Nat, len \in Nat
        <4> QED BY <4>1 DEF DataWithin
      <3>3. Byte(e, from + k) \in OwnUnits(e)
        BY <3>2 DEF Byte, OwnUnits
      <3> QED BY <3>1, <3>3
    <2>3. u \in Seq(OwnUnits(e)) /\ u # <<>>
      <3>1. /\ DOMAIN u = 1..l
            /\ \A j \in 1..l : u[j] = Byte(e, from + (Read(i) + j - 1))
            /\ u = [j \in 1..l |-> u[j]]
        OBVIOUS
      <3> HIDE DEF u, l
      <3> QED BY <2>1, <2>2, <3>1, MakeSequence
    <2>4. OwnUnits(e) = UnitSet({e})
      BY DEF UnitSet
    <2> QED BY <2>3, <2>4 DEF Message, MsgSet
  <1>4. p = [i \in 1..n |-> M(i)]
    BY DEF Pieces
  <1> HIDE DEF M, n
  <1>5. p \in Seq(MsgSet({e})) /\ Len(p) = n /\ \A k \in 1..n : p[k] = M(k)
    <2>1. DOMAIN p = 1..n /\ p = [i \in 1..n |-> p[i]] /\ \A k \in 1..n : p[k] = M(k)
      BY <1>4
    <2> HIDE DEF p
    <2>2. \A k \in 1..n : p[k] \in MsgSet({e})
      BY <2>1, <1>3
    <2> QED BY <1>1, <2>1, <2>2, MakeSequence
  <1>6. \A k \in 1..n : p[k].units # <<>> /\ p[k].last = (last /\ k = n)
    BY <1>3, <1>5
  <1> HIDE DEF p
  <1>7. Run(p, last) /\ (p = <<>> <=> len = 0) /\ \A k \in 1..Len(p) : p[k].units # <<>>
    <2>1. p = <<>> <=> len = 0
      BY <1>1, <1>5
    <2>2. \A k \in 1..Len(p) : p[k].last = (last /\ k = Len(p))
      BY <1>5, <1>6
    <2>3. \A k \in 1..Len(p) : p[k].units # <<>>
      BY <1>5, <1>6
    <2> QED BY <2>1, <2>2, <2>3 DEF Run
  <1> QED BY <1>5, <1>7 DEF p

\* Runs of which only the last is closed.
LEMMA RunsTogether ==
  ASSUME NEW E, NEW s \in Seq(Seq(MsgSet(E))), s # <<>>, s[Len(s)] # <<>>,
         \A i \in 1..Len(s) : Run(s[i], i = Len(s))
  PROVE  /\ FlattenSeq(s) \in Seq(MsgSet(E)) /\ FlattenSeq(s) # <<>>
         /\ Run(FlattenSeq(s), TRUE)
  <1> DEFINE F == FlattenSeq(s)
             N == Len(s)
             e(n) == EndOf(s, n)
  <1>1. /\ F \in Seq(MsgSet(E)) /\ e(N) = Len(F) /\ N \in Nat \ {0}
        /\ \A n \in 0..(N - 1) : e(n) \in Nat /\ e(n + 1) = e(n) + Len(s[n + 1])
        /\ \A n \in 1..N : s[n] \in Seq(MsgSet(E)) /\ Len(s[n]) \in Nat
    BY FlattenParts
  <1>2. /\ \A n \in 0..(N - 1) : \A j \in 1..Len(s[n + 1]) : F[e(n) + j] = s[n + 1][j]
        /\ \A k \in 1..Len(F) :
              \E n \in 0..(N - 1) : \E j \in 1..Len(s[n + 1]) : k = e(n) + j
    BY FlattenElements
  <1>3. PICK z \in Nat : N = z + 1
    <2>1. N \in Nat \ {0}
      BY <1>1
    <2>2. N - 1 \in Nat /\ N = (N - 1) + 1
      BY ONLY <2>1
    <2> QED BY <2>2
  <1>4. Len(F) = e(z) + Len(s[N]) /\ Len(s[N]) # 0 /\ e(z) \in Nat /\ Len(s[N]) \in Nat
    BY <1>1, <1>3
  <1>5. \A n \in 0..(N - 1) : n # z => e(n + 1) <= e(z)
    <2> SUFFICES ASSUME NEW n \in 0..(N - 1), n # z
                 PROVE  e(n + 1) <= e(z)
      OBVIOUS
    <2>1. n + 1 \in 0..N /\ z \in (n + 1)..N
      BY <1>1, <1>3
    <2> QED BY <2>1, EndsGrow
  <1> HIDE DEF F, N, e
  <1>6. ASSUME NEW k \in 1..Len(F)
        PROVE  (F[k].last <=> k = Len(F)) /\ (F[k].units = <<>> => F[k].last)
    <2>0. PICK n \in 0..(N - 1) : \E j \in 1..Len(s[n + 1]) : k = e(n) + j
      BY <1>2
    <2>1. PICK j \in 1..Len(s[n + 1]) : k = e(n) + j
      BY <2>0
    <2>2. PICK m : m = s[n + 1]
      OBVIOUS
    <2>3. n + 1 \in 1..N /\ n \in Nat
      BY <1>1
    <2>4. Run(m, n + 1 = N)
      BY <2>2, <2>3 DEF N
    <2>5. F[k] = m[j] /\ j \in 1..Len(m)
      BY <1>2, <2>1, <2>2
    <2>6. Len(m) \in Nat /\ e(n + 1) = e(n) + Len(m) /\ e(n) \in Nat
      BY <1>1, <2>2, <2>3
    <2>7. (m[j].last <=> (n + 1 = N /\ j = Len(m))) /\ (m[j].units = <<>> => m[j].last)
      BY <2>4, <2>5 DEF Run
    <2>8. (n + 1 = N /\ j = Len(m)) <=> k = Len(F)
      <3>1. CASE n = z
        BY <3>1, <1>3, <1>4, <2>1, <2>2, <2>5, <2>6
      <3>2. CASE n # z
        <4>1. e(n) + Len(m) <= e(z)
          BY <3>2, <1>5, <2>6
        <4>2. k <= e(z) /\ e(z) < Len(F) /\ n + 1 # N
          <5>1. k = e(n) + j /\ j \in 1..Len(m) /\ Len(m) \in Nat /\ e(n) \in Nat
            BY <2>1, <2>5, <2>6
          <5>2. e(z) < Len(F) /\ n + 1 # N
            BY <3>2, <1>3, <1>4, <2>3
          <5> QED BY ONLY <4>1, <5>1, <5>2, <1>4, z \in Nat
        <4> QED BY <4>2, <1>4
      <3> QED BY <3>1, <3>2
    <2> QED BY <2>5, <2>7, <2>8
  <1>7. F # <<>>
    BY <1>1, <1>4
  <1>8. Run(F, TRUE)
    BY <1>6 DEF Run
  <1> QED BY <1>1, <1>7, <1>8 DEF F

LEMMA SegmentFacts ==
  ASSUME NEW e, IsSent(e), NEW i \in 1..Len(e.segs)
  PROVE  /\ SegmentMessages(e, i) \in Seq(MsgSet({e}))
         /\ Run(SegmentMessages(e, i), i = Len(e.segs))
         /\ i = Len(e.segs) => SegmentMessages(e, i) # <<>>
  <1>1. e.segs[i].hole \in BOOLEAN /\ e.segs[i].len \in Nat \ {0}
    <2>1. e.segs \in Seq([hole: BOOLEAN, len: Nat \ {0}])
      BY DEF IsSent, IsEntry
    <2>2. e.segs[i] \in [hole: BOOLEAN, len: Nat \ {0}]
      BY <2>1, ElementOfSeq
    <2> QED BY <2>2
  <1>2. CASE e.segs[i].hole
    <2>1. Message(<<>>, TRUE) \in MsgSet({e})
      BY DEF Message, MsgSet
    <2>2. Run(<<Message(<<>>, TRUE)>>, TRUE) /\ Run(<<>>, FALSE)
      BY DEF Run, Message
    <2>3. CASE i = Len(e.segs)
      <3>1. SegmentMessages(e, i) = <<Message(<<>>, TRUE)>>
        BY <1>2, <2>3 DEF SegmentMessages
      <3>2. Run(SegmentMessages(e, i), TRUE)
        BY <2>2, <3>1
      <3>3. Run(SegmentMessages(e, i), i = Len(e.segs))
        BY <2>3, <3>2 DEF Run
      <3>4. SegmentMessages(e, i) \in Seq(MsgSet({e})) /\ SegmentMessages(e, i) # <<>>
        <4>1. \A S : \A m \in S : <<m>> \in Seq(S) /\ <<m>> # <<>>
          OBVIOUS
        <4> QED BY <2>1, <3>1, <4>1
      <3> QED BY <3>3, <3>4
    <2>4. CASE i # Len(e.segs)
      <3>1. SegmentMessages(e, i) = <<>>
        BY <1>2, <2>4 DEF SegmentMessages
      <3>2. Run(SegmentMessages(e, i), FALSE)
        BY <2>2, <3>1
      <3>3. Run(SegmentMessages(e, i), i = Len(e.segs))
        BY <2>4, <3>2 DEF Run
      <3>4. SegmentMessages(e, i) \in Seq(MsgSet({e}))
        BY <3>1
      <3> QED BY <2>4, <3>3, <3>4
    <2> QED BY <2>3, <2>4
  <1>3. CASE ~e.segs[i].hole
    <2>1. SegmentMessages(e, i) = Pieces(e, SegStart(e.segs, i), e.segs[i].len, i = Len(e.segs))
      BY <1>3 DEF SegmentMessages
    <2>2. PICK last \in BOOLEAN : last = (i = Len(e.segs))
      OBVIOUS
    <2>3. SegStart(e.segs, i) \in Nat /\ SegEnd(e.segs, i) = SegStart(e.segs, i) + e.segs[i].len
      <3>1. e.segs \in Seq([hole: BOOLEAN, len: Nat \ {0}]) /\ Len(e.segs) \in Nat
        BY DEF IsSent, IsEntry
      <3> QED BY <3>1, StartFacts
    <2>4. PICK p : p = Pieces(e, SegStart(e.segs, i), e.segs[i].len, last)
      OBVIOUS
    <2>5. DataWithin(e, SegStart(e.segs, i), e.segs[i].len)
      <3>1. e.segs # <<>> /\ i \in DataSegs(e)
        BY <1>3 DEF DataSegs
      <3>2. PICK end : end = SegEnd(e.segs, i)
        OBVIOUS
      <3>3. SegStart(e.segs, i)..(end - 1) \subseteq DataOffsets(e)
        BY <3>1, <3>2 DEF DataOffsets
      <3>4. PICK start \in Nat : start = SegStart(e.segs, i)
        BY <2>3
      <3>5. PICK len \in Nat : len = e.segs[i].len
        BY <1>1
      <3>6. end = start + len
        BY <2>3, <3>2, <3>4, <3>5
      <3>7. start..(start + len - 1) \subseteq DataOffsets(e)
        BY <3>3, <3>4, <3>6
      <3> QED BY <3>4, <3>5, <3>7 DEF DataWithin
    <2>6. p \in Seq(MsgSet({e})) /\ Run(p, last) /\ p # <<>>
      <3>1. PICK from \in Nat : from = SegStart(e.segs, i)
        BY <2>3
      <3>2. PICK len \in Nat \ {0} : len = e.segs[i].len
        BY <1>1
      <3>3. DataWithin(e, from, len) /\ p = Pieces(e, from, len, last)
        BY <2>4, <2>5, <3>1, <3>2
      <3>4. len \in Nat /\ len # 0
        BY <3>2
      <3>5. p \in Seq(MsgSet({e})) /\ Run(p, last) /\ (p = <<>> <=> len = 0)
        BY <3>3, <3>4, PiecesFacts
      <3> QED BY <3>4, <3>5
    <2> QED BY <2>1, <2>2, <2>4, <2>6
  <1> QED BY <1>2, <1>3

LEMMA DataFacts ==
  ASSUME NEW e, IsSent(e)
  PROVE  /\ DataMessages(e) \in Seq(MsgSet({e})) /\ Run(DataMessages(e), TRUE)
         /\ DataMessages(e) = <<>> <=> (e.segs = <<>> /\ e.size = 0)
  <1>1. e.size \in Nat /\ e.segs \in Seq([hole: BOOLEAN, len: Nat \ {0}])
    BY DEF IsSent, IsEntry
  <1>2. CASE e.segs = <<>>
    <2>1. DataWithin(e, 0, e.size)
      BY <1>1, <1>2 DEF DataOffsets, DataWithin
    <2> QED BY <1>1, <1>2, <2>1, PiecesFacts DEF DataMessages
  <1>3. CASE e.segs # <<>>
    <2> DEFINE s == [i \in 1..Len(e.segs) |-> SegmentMessages(e, i)]
    <2>1. Len(e.segs) \in Nat \ {0}
      BY <1>1, <1>3
    <2>2. DOMAIN s = 1..Len(e.segs) /\ s = [i \in 1..Len(e.segs) |-> s[i]]
          /\ \A i \in 1..Len(e.segs) : s[i] = SegmentMessages(e, i)
      OBVIOUS
    <2>3. DataMessages(e) = FlattenSeq(s)
      BY <1>3 DEF DataMessages
    <2> HIDE DEF s
    <2>4. \A i \in 1..Len(e.segs) :
             s[i] \in Seq(MsgSet({e})) /\ Run(s[i], i = Len(e.segs))
             /\ (i = Len(e.segs) => s[i] # <<>>)
      BY <2>2, SegmentFacts
    <2>5. s \in Seq(Seq(MsgSet({e}))) /\ Len(s) = Len(e.segs) /\ s # <<>>
      BY <2>1, <2>2, <2>4, MakeSequence
    <2>6. s[Len(s)] # <<>> /\ \A i \in 1..Len(s) : Run(s[i], i = Len(s))
      BY <2>1, <2>4, <2>5
    <2> QED BY <1>3, <2>3, <2>5, <2>6, RunsTogether
  <1> QED BY <1>2, <1>3

\* The first unit of the file in the header: the file had no data, or its data
\* were found, too, when it was opened again.
SizeKept(e) == e.kind = "file" /\ e.size = 0 => e.segs = <<>>

LEMMA MessagesType ==
  ASSUME NEW e, IsSent(e)
  PROVE  /\ Messages(e) \in Seq(MsgSet({e})) /\ Messages(e) # <<>>
         /\ Messages(e)[1].units = HeaderUnits(e)
         /\ SizeKept(e) => Run(Messages(e), TRUE)
  <1> DEFINE h(last) == Message(HeaderUnits(e), last)
             D == DataMessages(e)
  <1>1. HeaderUnits(e) \in Seq(OwnUnits(e)) /\ HeaderUnits(e) # <<>>
    <2>1. DOMAIN HeaderUnits(e) = 1..(HeaderLen + 1)
          /\ HeaderUnits(e) = [j \in 1..(HeaderLen + 1) |-> HeaderUnits(e)[j]]
          /\ \A j \in 1..(HeaderLen + 1) :
                HeaderUnits(e)[j] = [of |-> e, part |-> "header", at |-> j - 1]
      BY DEF HeaderUnits
    <2>2. \A j \in 1..(HeaderLen + 1) : HeaderUnits(e)[j] \in OwnUnits(e)
      BY <2>1, FormatAssumption DEF OwnUnits
    <2> QED BY <2>1, <2>2, FormatAssumption, MakeSequence
  <1>2. OwnUnits(e) = UnitSet({e})
    BY DEF UnitSet
  <1>3. \A last \in BOOLEAN : h(last) \in MsgSet({e}) /\ h(last).units = HeaderUnits(e)
                              /\ h(last).last = last
    BY <1>1, <1>2 DEF MsgSet, Message
  <1> HIDE DEF h
  <1>4. CASE e.kind # "file"
    <2>1. Messages(e) = <<h(TRUE)>>
      BY <1>4 DEF Messages, h
    <2>2. Run(<<h(TRUE)>>, TRUE)
      <3>1. PICK m : m = h(TRUE)
        OBVIOUS
      <3>2. m.last = TRUE
        BY <1>3, <3>1
      <3>3. Run(<<m>>, TRUE)
        BY <3>2 DEF Run
      <3> QED BY <3>1, <3>3
    <2>3. \A S : \A m \in S : <<m>> \in Seq(S) /\ <<m>> # <<>> /\ <<m>>[1] = m
      OBVIOUS
    <2> QED BY <2>1, <2>2, <2>3, <1>3
  <1>5. CASE e.kind = "file"
    <2>1. PICK last \in BOOLEAN : last = (e.size = 0)
      OBVIOUS
    <2>2. Messages(e) = <<h(last)>> \o D
      BY <1>5, <2>1 DEF Messages, h
    <2>3. D \in Seq(MsgSet({e})) /\ Run(D, TRUE) /\ (D = <<>> <=> (e.segs = <<>> /\ e.size = 0))
      BY DataFacts
    <2>4. PICK m \in MsgSet({e}) : m = h(last)
      BY <1>3
    <2>5. m.units = HeaderUnits(e) /\ m.units # <<>> /\ m.last = last
      BY <1>1, <1>3, <2>4
    <2> HIDE DEF D
    <2>6. \A S : \A x \in S : \A s \in Seq(S) :
            /\ <<x>> \o s \in Seq(S) /\ <<x>> \o s # <<>> /\ (<<x>> \o s)[1] = x
            /\ Len(<<x>> \o s) = Len(s) + 1 /\ Len(s) \in Nat /\ (s = <<>> <=> Len(s) = 0)
            /\ \A k \in 2..(Len(s) + 1) : (<<x>> \o s)[k] = s[k - 1]
      OBVIOUS
    <2>7. PICK ms : ms = <<m>> \o D
      OBVIOUS
    <2>8. /\ ms \in Seq(MsgSet({e})) /\ ms # <<>> /\ ms[1] = m /\ Len(ms) = Len(D) + 1
          /\ Len(D) \in Nat /\ (D = <<>> <=> Len(D) = 0)
          /\ \A k \in 2..(Len(D) + 1) : ms[k] = D[k - 1]
      BY <2>3, <2>6, <2>7
    <2>9. ASSUME SizeKept(e)
          PROVE  Run(ms, TRUE)
      <3>1. last <=> Len(D) = 0
        BY <1>5, <2>1, <2>3, <2>8, <2>9 DEF SizeKept
      <3>2. ASSUME NEW k \in 1..Len(ms)
            PROVE  (ms[k].last <=> k = Len(ms)) /\ (ms[k].units = <<>> => ms[k].last)
        <4>1. CASE k = 1
          BY <4>1, <3>1, <2>5, <2>8
        <4>2. CASE k # 1
          <5>1. PICK j \in 1..Len(D) : j = k - 1
            BY <4>2, <2>8
          <5>2. ms[k] = D[j] /\ (k = Len(ms) <=> j = Len(D))
            BY <5>1, <4>2, <2>8
          <5>3. (D[j].last <=> j = Len(D)) /\ (D[j].units = <<>> => D[j].last)
            BY <2>3 DEF Run
          <5> QED BY <5>2, <5>3
        <4> QED BY <4>1, <4>2
      <3> QED BY <3>2 DEF Run
    <2> QED BY <2>2, <2>4, <2>5, <2>7, <2>8, <2>9
  <1> QED BY <1>4, <1>5

-----------------------------------------------------------------------------
(* The units of an entry follow each other, in a message and from one      *)
(* message to the next.                                                    *)

\* What a message begins with an entry, or goes on with it behind unit u.
Begins(m) == m.units # <<>> /\ First(m.units[1])
After(u, m) ==
  IF m.units = <<>> THEN m.last /\ Complete(u) ELSE Successor(u, m.units[1])

\* The units of m follow each other, and end their entry if m is flagged.
Well(m) ==
  /\ \A j \in 1..(Len(m.units) - 1) : Successor(m.units[j], m.units[j + 1])
  /\ m.last /\ m.units # <<>> => Complete(m.units[Len(m.units)])
  /\ m.units = <<>> => m.last

\* What may come behind m on a channel.
Follows(m, n) ==
  IF m.last THEN Begins(n) ELSE m.units # <<>> /\ After(m.units[Len(m.units)], n)

Chain(ms) ==
  /\ \A k \in 1..Len(ms) : Well(ms[k])
  /\ \A k \in 1..(Len(ms) - 1) : Follows(ms[k], ms[k + 1])

LEMMA MessagesChain ==
  ASSUME NEW e, IsSent(e), SizeKept(e)
  PROVE  /\ Chain(Messages(e)) /\ Begins(Messages(e)[1])
         /\ Messages(e)[Len(Messages(e))].last
  <1> DEFINE ms == Messages(e)
             N == Len(ms)
             us == [i \in 1..N |-> ms[i].units]
             W == Units(e)
             E(k) == EndOf(us, k)
             S == UnitSet({e})
  <1>1. ms \in Seq(MsgSet({e})) /\ ms # <<>> /\ ms[1].units = HeaderUnits(e) /\ Run(ms, TRUE)
    BY MessagesType
  <1> HIDE DEF ms
  <1>2. /\ N \in Nat \ {0}
        /\ \A k \in 1..N : ms[k].units \in Seq(S) /\ Len(ms[k].units) \in Nat
        /\ \A k \in 1..N : ms[k].last <=> k = N
        /\ \A k \in 1..N : ms[k].units = <<>> => k = N
    <2>1. N \in Nat \ {0} /\ \A k \in 1..N : ms[k] \in MsgSet({e})
      BY <1>1, ElementOfSeq
    <2>2. \A m \in MsgSet({e}) : m.units \in Seq(S) /\ Len(m.units) \in Nat
      BY DEF MsgSet
    <2>3. \A k \in 1..N : (ms[k].last <=> k = N) /\ (ms[k].units = <<>> => k = N)
      BY <1>1 DEF Run
    <2> QED BY <2>1, <2>2, <2>3
  <1>3. us \in Seq(Seq(S)) /\ Len(us) = N /\ \A k \in 1..N : us[k] = ms[k].units
    <2>1. DOMAIN us = 1..N /\ us = [k \in 1..N |-> us[k]] /\ \A k \in 1..N : us[k] = ms[k].units
      OBVIOUS
    <2> HIDE DEF us, N
    <2>2. \A k \in 1..N : us[k] \in Seq(S)
      BY <1>2, <2>1
    <2>3. N \in Nat
      BY <1>2
    <2> QED BY <2>1, <2>2, <2>3, MakeSequence
  <1>4. W = FlattenSeq(us)
    BY DEF Units, ms
  <1> HIDE DEF us, N, S, W
  <1>5. /\ W \in Seq(S) /\ Len(W) \in Nat /\ E(0) = 0 /\ E(N) = Len(W)
        /\ \A n \in 0..N : E(n) \in 0..Len(W)
        /\ \A n \in 0..(N - 1) : E(n + 1) = E(n) + Len(us[n + 1])
    BY <1>3, <1>4, FlattenParts
  <1>6. \A n \in 0..(N - 1) : \A j \in 1..Len(us[n + 1]) :
           E(n) + j \in 1..Len(W) /\ W[E(n) + j] = us[n + 1][j]
    BY <1>3, <1>4, FlattenElements
  <1> HIDE DEF E
  <1>7. ASSUME NEW n \in 0..(N - 1)
        PROVE  /\ E(n) \in Nat /\ E(n + 1) \in Nat /\ E(n + 1) <= Len(W)
               /\ Len(ms[n + 1].units) \in Nat /\ E(n + 1) = E(n) + Len(ms[n + 1].units)
               /\ \A j \in 1..Len(ms[n + 1].units) :
                     E(n) + j \in 1..Len(W) /\ W[E(n) + j] = ms[n + 1].units[j]
    <2>1. n + 1 \in 1..N /\ n \in 0..N /\ n + 1 \in 0..N
      BY <1>2
    <2>2. E(n) \in Nat /\ E(n + 1) \in Nat /\ E(n + 1) <= Len(W)
      BY <1>5, <2>1
    <2>3. us[n + 1] = ms[n + 1].units /\ Len(ms[n + 1].units) \in Nat
      BY <1>2, <1>3, <2>1
    <2> QED BY <1>5, <1>6, <2>2, <2>3
  <1>8. \A i \in 1..Len(W) : W[i].of = e
    <2> SUFFICES ASSUME NEW i \in 1..Len(W)
                 PROVE  W[i].of = e
      OBVIOUS
    <2>1. W[i] \in S
      BY <1>5, ElementOfSeq
    <2> QED BY <2>1, UnitOwner DEF S
  <1>9. \A i \in 1..(Len(W) - 1) : Successor(W[i], W[i + 1])
    <2> SUFFICES ASSUME NEW i \in 1..(Len(W) - 1)
                 PROVE  Successor(W[i], W[i + 1])
      OBVIOUS
    <2>1. W[i].of = e /\ Units(W[i].of) = W
      BY <1>5, <1>8 DEF W
    <2> QED BY <2>1 DEF Successor
  <1>10. W # <<>> => First(W[1]) /\ Complete(W[Len(W)])
    <2> SUFFICES ASSUME W # <<>>
                 PROVE  First(W[1]) /\ Complete(W[Len(W)])
      OBVIOUS
    <2>1. 1 \in 1..Len(W) /\ Len(W) \in 1..Len(W)
      BY <1>5
    <2>2. W[1].of = e /\ W[Len(W)].of = e
      BY <1>8, <2>1
    <2> QED BY <2>2 DEF First, Complete, Last, W
  <1>11. ASSUME NEW k \in 1..N
         PROVE  Well(ms[k])
    <2>1. PICK n \in 0..(N - 1) : k = n + 1
      <3>1. k - 1 \in 0..(N - 1) /\ k = (k - 1) + 1
        BY <1>2
      <3> QED BY <3>1
    <2>2. PICK u : u = ms[k].units
      OBVIOUS
    <2>3. PICK d \in Nat : d = E(n)
      BY <1>7
    <2>4. /\ Len(u) \in Nat /\ u \in Seq(S) /\ d + Len(u) = E(k) /\ d + Len(u) <= Len(W)
          /\ \A j \in 1..Len(u) : W[d + j] = u[j]
      BY <1>2, <1>7, <2>1, <2>2, <2>3
    <2>5. ASSUME NEW j \in 1..(Len(u) - 1)
          PROVE  Successor(u[j], u[j + 1])
      <3>1. j \in 1..Len(u) /\ j + 1 \in 1..Len(u) /\ d + (j + 1) = (d + j) + 1
        BY <2>4
      <3>2. d + j \in 1..(Len(W) - 1)
        BY <1>5, <2>4, <3>1
      <3> QED BY <1>9, <2>4, <3>1, <3>2
    <2>6. ASSUME ms[k].last, u # <<>>
          PROVE  Complete(u[Len(u)])
      <3>1. k = N /\ d + Len(u) = Len(W)
        BY <1>2, <1>5, <2>4, <2>6
      <3>2. Len(u) \in 1..Len(u)
        BY <2>4, <2>6
      <3>3. u[Len(u)] = W[Len(W)] /\ W # <<>>
        BY <1>5, <2>4, <3>1, <3>2
      <3> QED BY <1>10, <3>3
    <2>7. u = <<>> => ms[k].last
      BY <1>2, <2>2
    <2> QED BY <2>2, <2>5, <2>6, <2>7 DEF Well
  <1>12. ASSUME NEW k \in 1..(N - 1)
         PROVE  Follows(ms[k], ms[k + 1])
    <2>1. PICK n \in 0..(N - 1) : k = n + 1
      <3>1. k - 1 \in 0..(N - 1) /\ k = (k - 1) + 1
        BY <1>2
      <3> QED BY <3>1
    <2>2. k \in 0..(N - 1) /\ k \in 1..N /\ k + 1 \in 1..N /\ k # N
      BY <1>2
    <2>3. PICK u : u = ms[k].units
      OBVIOUS
    <2>4. PICK v : v = ms[k + 1].units
      OBVIOUS
    <2>5. u # <<>> /\ u \in Seq(S) /\ ~ms[k].last
      BY <1>2, <2>2, <2>3
    <2>6. Len(u) \in Nat \ {0}
      BY <2>5
    <2>7. /\ E(n) \in Nat /\ E(k) = E(n) + Len(u) /\ W[E(n) + Len(u)] = u[Len(u)]
          /\ E(n) + Len(u) \in 1..Len(W)
      <3>1. Len(u) \in 1..Len(u)
        BY <2>6
      <3> QED BY <1>7, <2>1, <2>3, <3>1
    <2>8. CASE v = <<>>
      <3>1. k + 1 = N /\ ms[k + 1].last
        BY <1>2, <2>2, <2>4, <2>8
      <3>2. E(k + 1) = E(k) + 0
        <4>1. E(k + 1) = E(k) + Len(v)
          BY <1>7, <2>2, <2>4
        <4> QED BY <2>8, <4>1
      <3>3. E(k) = Len(W) /\ W # <<>>
        BY <1>5, <2>7, <3>1, <3>2
      <3> QED BY <1>10, <2>3, <2>4, <2>5, <2>7, <2>8, <3>1, <3>3 DEF Follows, After
    <2>9. CASE v # <<>>
      <3>1. v \in Seq(S)
        BY <1>2, <2>2, <2>4
      <3>2. 1 \in 1..Len(v)
        BY <2>9, <3>1
      <3>3. W[E(k) + 1] = v[1] /\ E(k) + 1 \in 1..Len(W) /\ E(k) \in Nat
        BY <1>7, <2>2, <2>4, <3>2
      <3>4. E(k) \in 1..(Len(W) - 1) /\ W[E(k)] = u[Len(u)]
        BY <1>5, <2>7, <3>3
      <3>5. Successor(u[Len(u)], v[1])
        BY <1>9, <3>3, <3>4
      <3> QED BY <2>3, <2>4, <2>5, <2>9, <3>5 DEF Follows, After
    <2> QED BY <2>8, <2>9
  <1>13. Begins(ms[1])
    <2>1. 0 \in 0..(N - 1) /\ 1 \in 1..N /\ 0 + 1 = 1
      BY <1>2
    <2>2. ms[1].units # <<>> /\ 1 \in 1..Len(ms[1].units)
      BY <1>1, FormatAssumption DEF HeaderUnits
    <2>3. PICK u : u = ms[1].units
      OBVIOUS
    <2>4. \A j \in 1..Len(u) : E(0) + j \in 1..Len(W) /\ W[E(0) + j] = u[j]
      BY <1>7, <2>1, <2>3
    <2>5. W[1] = u[1] /\ 1 \in 1..Len(W)
      BY <1>5, <2>2, <2>3, <2>4
    <2>6. W # <<>>
      BY <1>5, <2>5
    <2> QED BY <1>10, <2>2, <2>3, <2>5, <2>6 DEF Begins
  <1>14. ms[N].last
    BY <1>2
  <1> QED BY <1>11, <1>12, <1>13, <1>14 DEF Chain, N, ms

-----------------------------------------------------------------------------
(* What has been sent, and what follows from it for hard links.            *)

\* The i-th element of the tree, as a hard link to a path.
AsLink(i, path) == [tree[i] EXCEPT !.kind = "hardlink", !.target = path]

\* The entry x is what the walker made of the i-th element of the tree.
IsLink(x, i, h) ==
  Linked(tree[i]) /\ h.id = FileId(tree[i]) /\ h.path # tree[i].path /\ x = AsLink(i, h.path)
IsFound(x, i) ==
  \/ /\ x = tree[i]
     /\ Linked(tree[i]) => \E h \in hardLinkFiles : h.id = FileId(x) /\ h.path = x.path
  \/ \E h \in hardLinkFiles : IsLink(x, i, h)
Forms ==
  UNION {{tree[i]} \cup {AsLink(i, tree[j].path) : j \in 1..Len(tree)} : i \in 1..Len(tree)}
Sent == {x \in Forms : \E i \in 1..(walkNo - 1) : IsFound(x, i)}

\* hard_link_files has the first path of each file with several.
Links ==
  /\ \A h \in hardLinkFiles : \E i \in 1..(walkNo - 1) :
       Linked(tree[i]) /\ h = [id |-> FileId(tree[i]), path |-> tree[i].path]
  /\ \A g, h \in hardLinkFiles : g.id = h.id => g = h

Carried(E) ==
  /\ chPaths \in Seq(E)
  /\ todo \in [Workers -> Seq(MsgSet(E))] /\ chData \in [Workers -> Seq(MsgSet(E))]
  /\ bufOut \in Seq(UnitSet(E)) /\ chunks \in Seq(MsgSet(E))

States ==
  /\ working \in [Workers -> {"running", "ok", "err"}]
  /\ channelIndex \in Workers \cup {NoWorker} /\ channelFinished \in [Workers -> BOOLEAN]
  /\ mpc \in {"read", "send", "join", "ended"}
  /\ tree \in Trees /\ walkNo \in 1..(Len(tree) + 1)

TypeInv == States /\ Links /\ Carried(Sent)

LEMMA TreeFacts ==
  ASSUME States
  PROVE  /\ Len(tree) \in Nat
         /\ \A i \in 1..Len(tree) : IsEntry(tree[i]) /\ tree[i].kind \in {"file", "dir", "symlink"}
         /\ \A i, j \in 1..Len(tree) : tree[i].path = tree[j].path => i = j
  BY ReadAssumption DEF States

LEMMA StatesStep ==
  ASSUME States, Next
  PROVE  States'
  <1> USE DEF States, vars, walkerVars, workerVars, readVars, mainVars, leftOut
  <1>1. CASE Walker
    <2>1. walkNo' = walkNo + 1 /\ walkNo \in 1..Len(tree) /\ tree' = tree
          /\ UNCHANGED <<working, channelIndex, channelFinished, mpc>>
      BY <1>1, TreeFacts DEF Walker, WalkEntry, WalkExclude, WalkError, WalkerEnded
    <2> QED BY <2>1, TreeFacts
  <1>2. ASSUME NEW t \in Workers, Worker(t)
        PROVE  States'
    BY <1>2 DEF Worker, WorkerTake, WorkerSkip, WorkerSend, WorkerReadError, WorkerEnd
  <1>3. CASE Main
    BY <1>3 DEF Main, ReadSticky, ReadSelected, ReadDisconnected, ReadChunk, ReadLastChunk,
                SendOn, Stop, ProgressError, Join, JoinedAll
  <1>4. CASE Ended
    BY <1>4 DEF Ended
  <1> QED BY <1>1, <1>2, <1>3, <1>4 DEF Next

\* Entries that were sent are entries.
LEMMA SentFacts ==
  ASSUME States
  PROVE  \A e \in Sent : IsSent(e)
  <1> SUFFICES ASSUME NEW e \in Sent
               PROVE  IsSent(e)
    OBVIOUS
  <1>1. CASE \E i \in 1..Len(tree) : e = tree[i]
    BY <1>1, TreeFacts DEF IsSent, Kinds
  <1>2. ASSUME NEW i \in 1..Len(tree), NEW j \in 1..Len(tree),
               e = AsLink(i, tree[j].path)
        PROVE  IsSent(e)
    <2>1. IsEntry(tree[i])
      BY TreeFacts
    <2>2. PICK f : f = tree[i]
      OBVIOUS
    <2>3. DOMAIN f = Fields
      BY <2>1, <2>2 DEF IsEntry
    <2>4. {"kind", "target", "size", "links", "segs"} \subseteq Fields
      BY DEF Fields
    <2>5. e = [f EXCEPT !.kind = "hardlink", !.target = tree[j].path]
      BY <1>2, <2>2 DEF AsLink
    <2>6. DOMAIN e = Fields /\ e.kind = "hardlink" /\ e.size = f.size /\ e.links = f.links
          /\ e.segs = f.segs
      BY ONLY <2>3, <2>4, <2>5
    <2> QED BY <2>1, <2>2, <2>6 DEF IsSent, IsEntry, Kinds
  <1>3. \/ \E i \in 1..Len(tree) : e = tree[i]
        \/ \E i \in 1..Len(tree) : \E j \in 1..Len(tree) :
             e = AsLink(i, tree[j].path)
    <2>1. e \in Forms
      BY DEF Sent
    <2> QED BY ONLY <2>1 DEF Forms
  <1> QED BY <1>1, <1>2, <1>3

\* Messages, of any set of entries, through the workers and main.
LEMMA CarriedStep ==
  ASSUME NEW E, NEW F, E \subseteq F, \A e \in E : IsSent(e), States, Carried(E), Next,
         WalkEntry => Found(tree[walkNo]) \in F
  PROVE  Carried(F)'
  <1> USE DEF vars, walkerVars, workerVars, readVars, mainVars, leftOut
  <1>0. PICK M : M = MsgSet(F)
    OBVIOUS
  <1>00. PICK U : U = UnitSet(F)
    OBVIOUS
  <1>1. /\ chPaths \in Seq(F) /\ \A i \in 1..Len(chPaths) : chPaths[i] \in E
        /\ todo \in [Workers -> Seq(M)] /\ chData \in [Workers -> Seq(M)]
        /\ bufOut \in Seq(U) /\ chunks \in Seq(M)
    BY SetsGrow, <1>0, <1>00 DEF Carried
  <1>2. \A m \in M : m.units \in Seq(U) /\ m.last \in BOOLEAN
    BY <1>0, <1>00 DEF MsgSet
  <1>3. \A u \in Seq(U) : \A b \in BOOLEAN : [units |-> u, last |-> b] \in M
    BY <1>0, <1>00 DEF MsgSet
  <1> SUFFICES /\ chPaths' \in Seq(F)
               /\ todo' \in [Workers -> Seq(M)] /\ chData' \in [Workers -> Seq(M)]
               /\ bufOut' \in Seq(U) /\ chunks' \in Seq(M)
    BY <1>0, <1>00 DEF Carried
  <1>4. CASE Walker
    <2>1. CASE WalkEntry
      <3>1. Found(tree[walkNo]) \in F
        BY <2>1
      <3>2. chPaths' = Append(chPaths, Found(tree[walkNo])) \/ chPaths' = chPaths
        BY <2>1 DEF WalkEntry
      <3>3. chPaths' \in Seq(F)
        <4>1. \A S : \A s \in Seq(S) : \A x \in S : Append(s, x) \in Seq(S)
          OBVIOUS
        <4> QED BY <1>1, <3>1, <3>2, <4>1
      <3> QED BY <2>1, <3>3, <1>1 DEF WalkEntry
    <2>2. CASE WalkExclude \/ WalkError
      BY <2>2, <1>1 DEF WalkExclude, WalkError
    <2> QED BY <1>4, <2>1, <2>2 DEF Walker
  <1>5. ASSUME NEW t \in Workers, Worker(t)
        PROVE  /\ chPaths' \in Seq(F)
               /\ todo' \in [Workers -> Seq(M)] /\ chData' \in [Workers -> Seq(M)]
               /\ bufOut' \in Seq(U) /\ chunks' \in Seq(M)
    <2>1. CASE WorkerTake(t)
      <3>1. chPaths # <<>> /\ Head(chPaths) \in E /\ Tail(chPaths) \in Seq(F)
        BY <2>1, <1>1 DEF WorkerTake
      <3>2. Messages(Head(chPaths)) \in Seq(MsgSet({Head(chPaths)}))
        BY <3>1, MessagesType
      <3>3. {Head(chPaths)} \subseteq F
        BY <3>1
      <3>4. Messages(Head(chPaths)) \in Seq(M)
        BY <3>2, <3>3, SetsGrow, <1>0
      <3> QED BY <2>1, <3>1, <3>4, <1>1 DEF WorkerTake
    <2>2. CASE WorkerSkip(t)
      BY <2>2, <1>1 DEF WorkerSkip
    <2>3. CASE WorkerSend(t)
      <3>1. todo[t] \in Seq(M) /\ todo[t] # <<>> /\ chData[t] \in Seq(M)
        BY <2>3, <1>1 DEF WorkerSend
      <3>2. Tail(todo[t]) \in Seq(M) /\ Append(chData[t], Head(todo[t])) \in Seq(M)
        BY <3>1
      <3> QED BY <2>3, <3>2, <1>1 DEF WorkerSend
    <2>4. CASE WorkerReadError(t)
      <3>1. <<>> \in Seq(M)
        OBVIOUS
      <3> QED BY <2>4, <3>1, <1>1 DEF WorkerReadError
    <2>5. CASE WorkerEnd(t)
      BY <2>5, <1>1 DEF WorkerEnd
    <2> QED BY <1>5, <2>1, <2>2, <2>3, <2>4, <2>5 DEF Worker
  <1>6. ASSUME NEW t \in Workers, Receive(t)
        PROVE  bufOut' \in Seq(U) /\ chData' \in [Workers -> Seq(M)]
    <2>1. chData[t] \in Seq(M) /\ chData[t] # <<>>
      BY <1>1, <1>6 DEF Receive
    <2>2. Head(chData[t]) \in M /\ Tail(chData[t]) \in Seq(M)
      BY <2>1
    <2>3. Head(chData[t]).units \in Seq(U)
      BY <1>2, <2>2
    <2> QED BY <1>1, <1>6, <2>2, <2>3 DEF Receive
  <1>7. CASE Main
    <2>1. CASE ReadSticky
      <3>1. channelIndex \in Workers
        BY <2>1 DEF ReadSticky, States
      <3> QED BY <2>1, <3>1, <1>1, <1>6 DEF ReadSticky
    <2>2. CASE ReadSelected
      BY <2>2, <1>1, <1>6 DEF ReadSelected
    <2>3. CASE ReadChunk
      <3>1. Len(bufOut) > ChunkLen /\ bufOut \in Seq(U) /\ ChunkLen \in 0..Len(bufOut)
        BY <2>3, <1>1, ReadAssumption DEF ReadChunk
      <3>2. SubSeq(bufOut, 1, ChunkLen) \in Seq(U)
        BY <3>1, FirstElements
      <3>3. SubSeq(bufOut, ChunkLen + 1, Len(bufOut)) \in Seq(U)
        BY <3>1, PieceFacts
      <3>4. chunks' \in Seq(M)
        <4>1. PICK m \in M : m = [units |-> SubSeq(bufOut, 1, ChunkLen), last |-> FALSE]
          BY <3>2, <1>3
        <4>2. chunks' = Append(chunks, m)
          BY <2>3, <4>1 DEF ReadChunk
        <4> QED BY <1>1, <4>2
      <3> QED BY <2>3, <3>3, <3>4, <1>1 DEF ReadChunk
    <2>4. CASE ReadLastChunk
      <3>1. PICK m \in M : m = [units |-> bufOut, last |-> TRUE]
        BY <1>1, <1>3
      <3>2. chunks' = Append(chunks, m)
        BY <2>4, <3>1 DEF ReadLastChunk
      <3>3. chunks' \in Seq(M)
        BY <1>1, <3>2
      <3> QED BY <2>4, <3>3, <1>1 DEF ReadLastChunk
    <2>5. CASE ReadDisconnected \/ SendOn \/ Stop \/ ProgressError \/ Join \/ JoinedAll
      BY <2>5, <1>1 DEF ReadDisconnected, SendOn, Stop, ProgressError, Join, JoinedAll
    <2> QED BY <1>7, <2>1, <2>2, <2>3, <2>4, <2>5 DEF Main
  <1>8. CASE Ended
    BY <1>8, <1>1 DEF Ended
  <1> QED BY <1>4, <1>5, <1>7, <1>8 DEF Next

LEMMA SentGrows ==
  ASSUME tree' = tree, walkNo \in Nat, walkNo' \in Nat, walkNo <= walkNo',
         hardLinkFiles \subseteq hardLinkFiles'
  PROVE  Sent \subseteq Sent'
  <1> SUFFICES ASSUME NEW x \in Sent
               PROVE  x \in Sent'
    OBVIOUS
  <1>1. PICK i \in 1..(walkNo - 1) : IsFound(x, i)
    BY DEF Sent
  <1>2. i \in 1..(walkNo' - 1)
    <2>1. PICK n \in Nat : n = walkNo
      OBVIOUS
    <2>2. PICK m \in Nat : m = walkNo'
      OBVIOUS
    <2>3. n <= m /\ i \in 1..(n - 1)
      BY <2>1, <2>2
    <2>4. i \in 1..(m - 1)
      BY ONLY <2>3, m \in Nat, n \in Nat
    <2> QED BY <2>2, <2>4
  <1>3. Forms' = Forms /\ x \in Forms
    <2>1. Forms' = Forms
      BY DEF Forms, AsLink
    <2> QED BY <2>1 DEF Sent
  <1>4. IsFound(x, i)'
    BY <1>1 DEF IsFound, IsLink, AsLink, Linked, FileId
  <1> QED BY <1>2, <1>3, <1>4 DEF Sent

LEMMA WalkEntryStep ==
  ASSUME States, Links, WalkEntry, NEW n, n = walkNo, NEW e, e = tree[n], NEW x, x = Found(e)
  PROVE  Links' /\ x \in Sent'
  <1> DEFINE h == [id |-> FileId(e), path |-> e.path]
  <1>0. /\ tree' = tree /\ walkNo' = n + 1 /\ n \in 1..Len(tree)
        /\ hardLinkFiles' = Remembered(e) /\ Len(tree) \in Nat
    BY TreeFacts DEF WalkEntry, WalkerEnded, States
  <1>1. hardLinkFiles \subseteq hardLinkFiles'
    BY <1>0 DEF Remembered
  <1>2. n \in 1..(walkNo' - 1) /\ \A i \in 1..(walkNo - 1) : i \in 1..(walkNo' - 1)
    BY <1>0
  <1>3. \A i, j \in 1..Len(tree) : tree[i].path = tree[j].path => i = j
    BY TreeFacts
  <1>4. Forms' = Forms
    BY <1>0 DEF Forms, AsLink
  <1>5. e \in Forms
    BY <1>0 DEF Forms
  <1>6. CASE ~Linked(e)
    <2>1. x = e /\ hardLinkFiles' = hardLinkFiles
      BY <1>0, <1>6 DEF Found, Remembered
    <2>2. Links'
      BY <2>1, <1>0, <1>2 DEF Links, Linked, FileId
    <2>3. IsFound(x, n)'
      BY <1>0, <1>6, <2>1 DEF IsFound, Linked
    <2> QED BY <1>0, <1>2, <1>4, <1>5, <2>1, <2>2, <2>3 DEF Sent
  <1>7. CASE Linked(e) /\ Known(e)
    <2>1. PICK g \in hardLinkFiles : g.id = FileId(e) /\ g.path = LinkTarget(e)
      BY <1>7 DEF Known, LinkTarget
    <2>2. PICK i \in 1..(walkNo - 1) : g = [id |-> FileId(tree[i]), path |-> tree[i].path]
      BY <2>1 DEF Links
    <2>3. x = AsLink(n, g.path) /\ hardLinkFiles' = hardLinkFiles
      BY <1>0, <1>7, <2>1 DEF Found, AsLink, Remembered
    <2>4. g.path = tree[i].path /\ i \in 1..Len(tree) /\ i # n
      BY <1>0, <2>2
    <2>5. g.path # e.path
      BY <1>0, <1>3, <2>4
    <2>6. IsFound(x, n)'
      BY <1>0, <1>7, <2>1, <2>3, <2>5 DEF IsFound, IsLink, AsLink, Linked, FileId
    <2>7. x \in Forms
      BY <1>0, <2>3, <2>4 DEF Forms
    <2>8. Links'
      BY <2>3, <1>0, <1>2 DEF Links, Linked, FileId
    <2> QED BY <1>2, <1>4, <2>6, <2>7, <2>8 DEF Sent
  <1>8. CASE Linked(e) /\ ~Known(e)
    <2>1. x = e /\ hardLinkFiles' = hardLinkFiles \cup {h}
      BY <1>0, <1>8 DEF Found, Remembered
    <2>2. \A g \in hardLinkFiles : g.id # h.id
      BY <1>8 DEF Known
    <2>3. \A f, g \in hardLinkFiles' : f.id = g.id => f = g
      BY <2>1, <2>2 DEF Links
    <2>4. \A g \in hardLinkFiles' : \E i \in 1..(walkNo' - 1) :
             Linked(tree[i]) /\ g = [id |-> FileId(tree[i]), path |-> tree[i].path]
      BY <2>1, <1>2, <1>8 DEF Links
    <2>5. Links'
      BY <2>3, <2>4, <1>0 DEF Links, Linked, FileId
    <2>6. h \in hardLinkFiles' /\ h.id = FileId(e) /\ h.path = e.path
      BY <2>1
    <2>7. IsFound(x, n)'
      BY <1>0, <2>1, <2>6 DEF IsFound, FileId, Linked
    <2> QED BY <1>2, <1>4, <1>5, <2>1, <2>5, <2>7 DEF Sent
  <1> QED BY <1>6, <1>7, <1>8

LEMMA LinksStep ==
  ASSUME States, Links, [Next]_vars
  PROVE  Links' /\ Sent \subseteq Sent' /\ (WalkEntry => Found(tree[walkNo]) \in Sent')
  <1> USE DEF vars, walkerVars, workerVars, readVars, mainVars, leftOut
  <1>0. walkNo \in Nat /\ Len(tree) \in Nat
    BY TreeFacts DEF States
  <1>1. CASE WalkEntry
    <2>1. hardLinkFiles \subseteq hardLinkFiles' /\ walkNo' = walkNo + 1 /\ tree' = tree
      BY <1>1 DEF WalkEntry, Remembered
    <2>2. \A n, e, x : n = walkNo /\ e = tree[n] /\ x = Found(e) => Links' /\ x \in Sent'
      BY <1>1, WalkEntryStep
    <2> QED BY <1>0, <1>1, <2>1, <2>2, SentGrows
  <1>2. ASSUME tree' = tree, hardLinkFiles' = hardLinkFiles, walkNo' \in {walkNo, walkNo + 1},
               ~WalkEntry
        PROVE  Links' /\ Sent \subseteq Sent' /\ (WalkEntry => Found(tree[walkNo]) \in Sent')
    <2>1. \A i \in 1..(walkNo - 1) : i \in 1..(walkNo' - 1)
      <3>1. PICK n \in Nat : n = walkNo
        BY <1>0
      <3>2. PICK m \in {n, n + 1} : m = walkNo'
        BY <1>2, <3>1
      <3>3. \A i \in 1..(n - 1) : i \in 1..(m - 1)
        OBVIOUS
      <3> QED BY <3>1, <3>2, <3>3
    <2>2. Links'
      BY <1>2, <2>1 DEF Links, Linked, FileId
    <2> QED BY <1>0, <1>2, <2>2, SentGrows
  <1>3. CASE ~WalkEntry
    <2>1. CASE WalkExclude \/ WalkError
      BY <1>2, <1>3, <2>1 DEF WalkExclude, WalkError
    <2>2. CASE \E t \in Workers : Worker(t)
      BY <1>2, <1>3, <2>2 DEF Worker, WorkerTake, WorkerSkip, WorkerSend, WorkerReadError, WorkerEnd
    <2>3. CASE Main
      BY <1>2, <1>3, <2>3 DEF Main, ReadSticky, ReadSelected, ReadDisconnected, ReadChunk,
           ReadLastChunk, SendOn, Stop, ProgressError, Join, JoinedAll
    <2>4. CASE Ended \/ UNCHANGED vars
      BY <1>2, <1>3, <2>4 DEF Ended
    <2> QED BY <1>3, <2>1, <2>2, <2>3, <2>4 DEF Next, Walker
  <1> QED BY <1>1, <1>3

LEMMA TypeStep ==
  ASSUME TypeInv, [Next]_vars
  PROVE  TypeInv'
  <1>1. CASE UNCHANGED vars
    <2> USE <1>1 DEF vars, walkerVars, workerVars, readVars, mainVars, leftOut
    <2>1. Forms' = Forms /\ Sent' = Sent
      BY DEF Forms, AsLink, Sent, IsFound, IsLink, Linked, FileId
    <2>2. States' /\ Links' /\ Carried(Sent)'
      BY <2>1 DEF TypeInv, States, Links, Carried, Linked, FileId
    <2> QED BY <2>2 DEF TypeInv
  <1>2. CASE Next
    <2>1. PICK E : E = Sent
      OBVIOUS
    <2>2. PICK F : F = Sent'
      OBVIOUS
    <2>3. Links' /\ E \subseteq F /\ (WalkEntry => Found(tree[walkNo]) \in F)
      BY <2>1, <2>2, LinksStep DEF TypeInv
    <2>4. \A e \in E : IsSent(e)
      BY <2>1, SentFacts DEF TypeInv
    <2>5. Carried(E)
      BY <2>1 DEF TypeInv
    <2>6. Carried(F)'
      BY <1>2, <2>3, <2>4, <2>5, CarriedStep DEF TypeInv
    <2>7. Carried(Sent)'
      BY <2>2, <2>6 DEF Carried
    <2>8. States'
      BY <1>2, StatesStep DEF TypeInv
    <2> QED BY <2>3, <2>7, <2>8 DEF TypeInv
  <1> QED BY <1>1, <1>2

LEMMA TypeInit ==
  ASSUME Init
  PROVE  TypeInv
  <1>1. States
    BY ReadAssumption DEF Init, States
  <1>2. Links
    BY DEF Init, Links
  <1>3. Carried(Sent)
    <2>1. PICK E : E = Sent
      OBVIOUS
    <2>2. Carried(E)
      BY DEF Init, Carried
    <2> QED BY <2>1, <2>2 DEF Carried
  <1> QED BY <1>1, <1>2, <1>3 DEF TypeInv

\* What main, the workers and the channels hold belongs to entries that were
\* sent, and hard_link_files knows one path of each of their files.
THEOREM ReadTypeCorrect == Spec => []TypeInv
  <1>1. Init => TypeInv
    BY TypeInit
  <1>2. TypeInv /\ [Next]_vars => TypeInv'
    BY TypeStep
  <1> QED BY <1>1, <1>2, PTL DEF Spec

LEMMA ArchivedIn ==
  ASSUME NEW E, Carried(E)
  PROVE  Stream \in Seq(UnitSet(E)) /\ Archived \subseteq E
  <1>1. PICK U : U = UnitSet(E)
    OBVIOUS
  <1> DEFINE s == [i \in 1..Len(chunks) |-> chunks[i].units]
  <1>2. chunks \in Seq(MsgSet(E)) /\ Len(chunks) \in Nat
    BY DEF Carried
  <1>3. \A i \in 1..Len(chunks) : chunks[i].units \in Seq(U)
    <2>1. \A m \in MsgSet(E) : m.units \in Seq(U)
      BY <1>1 DEF MsgSet
    <2> QED BY <1>2, <2>1, ElementOfSeq
  <1>4. s \in Seq(Seq(U))
    <2>1. DOMAIN s = 1..Len(chunks) /\ s = [i \in 1..Len(chunks) |-> s[i]]
          /\ \A i \in 1..Len(chunks) : s[i] = chunks[i].units
      OBVIOUS
    <2> HIDE DEF s
    <2> QED BY <1>2, <1>3, <2>1, MakeSequence
  <1>5. Stream \in Seq(U)
    BY <1>4, FlattenParts DEF Stream
  <1>6. ASSUME NEW e \in Archived
        PROVE  e \in E
    <2>1. PICK i \in 1..Len(Stream) : e = Stream[i].of
      BY DEF Archived
    <2>2. Stream[i] \in U
      BY <1>5, ElementOfSeq
    <2> QED BY <1>1, <2>1, <2>2, UnitOwner
  <1> QED BY <1>1, <1>5, <1>6

LEMMA ArchivedIsSent ==
  ASSUME TypeInv
  PROVE  Stream \in Seq(UnitSet(Sent)) /\ Archived \subseteq Sent
  <1>1. PICK E : E = Sent
    OBVIOUS
  <1>2. Carried(E)
    BY <1>1 DEF TypeInv
  <1> QED BY <1>1, <1>2, ArchivedIn

\* One number, one file: what the code relies on, and what holds on one file
\* system.
InodeIsFile ==
  \A t \in Trees : \A i, j \in 1..Len(t) : t[i].inode = t[j].inode => t[i].device = t[j].device

LEMMA LinkFacts ==
  ASSUME TypeInv, InodeIsFile
  PROVE  LinkIsSameFile
  <1>0. /\ States /\ Links /\ Len(tree) \in Nat /\ walkNo \in 1..(Len(tree) + 1) /\ tree \in Trees
        /\ \A i \in 1..Len(tree) : IsEntry(tree[i]) /\ tree[i].kind \in {"file", "dir", "symlink"}
        /\ \A i, j \in 1..Len(tree) : tree[i].path = tree[j].path => i = j
    BY TreeFacts DEF TypeInv, States
  <1>1. \A e \in Archived : \E i \in 1..Len(tree) : IsFound(e, i)
    <2>1. \A i \in 1..(walkNo - 1) : i \in 1..Len(tree)
      BY <1>0
    <2> QED BY <2>1, ArchivedIsSent DEF Sent
  <1>2. \A h \in hardLinkFiles : \E j \in 1..Len(tree) :
           Linked(tree[j]) /\ h = [id |-> FileId(tree[j]), path |-> tree[j].path]
    <2>1. \A i \in 1..(walkNo - 1) : i \in 1..Len(tree)
      BY <1>0
    <2> QED BY <1>0, <2>1 DEF Links
  <1>3. ASSUME NEW i \in 1..Len(tree), NEW p
        PROVE  /\ AsLink(i, p).kind = "hardlink" /\ AsLink(i, p).target = p
               /\ AsLink(i, p).path = tree[i].path /\ AsLink(i, p).inode = tree[i].inode
               /\ AsLink(i, p).device = tree[i].device
    <2>1. PICK f : f = tree[i]
      OBVIOUS
    <2>2. DOMAIN f = Fields
      BY <1>0, <2>1 DEF IsEntry
    <2>3. {"kind", "target", "path", "inode", "device"} \subseteq Fields
      BY DEF Fields
    <2>4. PICK x : x = AsLink(i, p)
      OBVIOUS
    <2>5. x = [f EXCEPT !.kind = "hardlink", !.target = p]
      BY <2>1, <2>4 DEF AsLink
    <2>6. x.kind = "hardlink" /\ x.target = p /\ x.path = f.path /\ x.inode = f.inode
          /\ x.device = f.device
      BY ONLY <2>2, <2>3, <2>5
    <2> QED BY <2>1, <2>4, <2>6
  <1>4. ASSUME NEW e \in Archived, e.kind = "hardlink"
        PROVE  /\ SameFile(e, EntryAt(e.target))
               /\ \A f \in Archived : f.path = e.target => f.kind = "file"
    <2>1. PICK i \in 1..Len(tree) : IsFound(e, i)
      BY <1>1
    <2>2. PICK h \in hardLinkFiles : IsLink(e, i, h)
      BY <1>0, <1>4, <2>1 DEF IsFound
    <2>3. PICK j \in 1..Len(tree) :
             Linked(tree[j]) /\ h = [id |-> FileId(tree[j]), path |-> tree[j].path]
      BY <1>2
    <2>4. /\ e.target = tree[j].path /\ h.path = tree[j].path /\ h.id = tree[j].inode
          /\ e.inode = tree[j].inode /\ e.inode = tree[i].inode /\ e.device = tree[i].device
      BY <1>3, <2>2, <2>3 DEF IsLink, FileId
    <2>5. EntryAt(e.target) = tree[j]
      BY <1>0, <2>4 DEF EntryAt
    <2>6. tree[i].device = tree[j].device
      BY <1>0, <2>4 DEF InodeIsFile
    <2>7. SameFile(e, EntryAt(e.target))
      BY <2>4, <2>5, <2>6 DEF SameFile
    <2>8. ASSUME NEW f \in Archived, f.path = e.target
          PROVE  f.kind = "file"
      <3>1. PICK k \in 1..Len(tree) : IsFound(f, k)
        BY <1>1
      <3>2. CASE f = tree[k]
        <4>1. k = j
          BY <1>0, <2>4, <2>8, <3>2
        <4> QED BY <2>3, <3>2, <4>1 DEF Linked
      <3>3. ASSUME NEW g \in hardLinkFiles, IsLink(f, k, g)
            PROVE  FALSE
        <4>1. f.path = tree[k].path /\ g.id = tree[k].inode /\ g.path # tree[k].path
          BY <1>3, <3>3 DEF IsLink, FileId
        <4>2. k = j
          BY <1>0, <2>4, <2>8, <4>1
        <4>3. g = h
          BY <1>0, <2>4, <4>1, <4>2 DEF Links
        <4> QED BY <2>4, <4>1, <4>2, <4>3
      <3> QED BY <3>1, <3>2, <3>3 DEF IsFound
    <2> QED BY <2>7, <2>8
  <1> QED BY <1>4 DEF LinkIsSameFile

\* A hard link is the same file as its target, and the target is no hard link,
\* whichever worker handled which of them when: if files are told apart by
\* their inodes.
THEOREM LinkIsSameFileCorrect ==
  ASSUME InodeIsFile
  PROVE  Spec => []LinkIsSameFile
  <1>1. TypeInv => LinkIsSameFile
    BY LinkFacts
  <1> QED BY <1>1, ReadTypeCorrect, PTL

-----------------------------------------------------------------------------
(* The order of the units: the invariant.                                  *)

Sizes ==
  /\ \A t \in Workers : channelFinished[t] => working[t] # "running"
  /\ mpc = "read" => \A i \in 1..Len(chunks) : ~chunks[i].last
  /\ ChunkSizes

\* All that main has taken from the channels.
Closed == \E i \in 1..Len(chunks) : chunks[i].last
Received == IF Closed THEN Stream ELSE Stream \o bufOut

Ordered(r, failed) ==
  /\ r # <<>> => First(r[1])
  /\ \A i \in 1..(Len(r) - 1) :
       Successor(r[i], r[i + 1]) \/ (First(r[i + 1]) /\ (Complete(r[i]) \/ failed))

\* The messages q of a worker, when r was received: the next one goes on where
\* main has stopped, if main waits for this worker, and begins an entry else;
\* the last one ends an entry, if the worker has not failed.
Proper(r, q, awaited, state) ==
  /\ Chain(q)
  /\ q # <<>> => IF awaited THEN r # <<>> /\ After(r[Len(r)], q[1]) ELSE Begins(q[1])
  /\ state # "err" => IF q = <<>> THEN ~awaited ELSE q[Len(q)].last

\* All that worker t has still to hand over, of the entries it took.
Queue(t) == chData[t] \o todo[t]

Queued(t) ==
  /\ Proper(Received, Queue(t), channelIndex = t, working[t])
  /\ working[t] # "running" => todo[t] = <<>>

\* Main waits for no worker: it is between two entries.
Between ==
  channelIndex = NoWorker /\ Received # <<>> => Complete(Received[Len(Received)]) \/ Failed

OrderInv == Ordered(Received, Failed) /\ Between /\ \A t \in Workers : Queued(t)

-----------------------------------------------------------------------------
(* Messages in a queue.                                                    *)

LEMMA ChainJoin ==
  ASSUME NEW S, NEW c \in Seq(S), NEW d \in Seq(S), Chain(c), Chain(d),
         c # <<>> /\ d # <<>> => Follows(c[Len(c)], d[1])
  PROVE  Chain(c \o d)
  <1> DEFINE q == c \o d
  <1>1. /\ Len(q) = Len(c) + Len(d) /\ Len(c) \in Nat /\ Len(d) \in Nat
        /\ (c = <<>> <=> Len(c) = 0) /\ (d = <<>> <=> Len(d) = 0)
        /\ \A k \in 1..Len(c) : q[k] = c[k]
        /\ \A k \in 1..Len(d) : q[Len(c) + k] = d[k]
    BY JoinFacts
  <1> HIDE DEF q
  <1>2. ASSUME NEW k \in 1..Len(q)
        PROVE  Well(q[k])
    <2>1. CASE k <= Len(c)
      BY <2>1, <1>1 DEF Chain
    <2>2. CASE k > Len(c)
      <3>1. PICK j \in 1..Len(d) : k = Len(c) + j
        <4>1. k - Len(c) \in 1..Len(d) /\ k = Len(c) + (k - Len(c))
          BY <2>2, <1>1
        <4> QED BY <4>1
      <3> QED BY <3>1, <1>1 DEF Chain
    <2> QED BY <2>1, <2>2, <1>1
  <1>3. ASSUME NEW k \in 1..(Len(q) - 1)
        PROVE  Follows(q[k], q[k + 1])
    <2>1. CASE k < Len(c)
      <3>1. k \in 1..(Len(c) - 1) /\ k \in 1..Len(c) /\ k + 1 \in 1..Len(c)
        BY <2>1, <1>1
      <3> QED BY <3>1, <1>1 DEF Chain
    <2>2. CASE k = Len(c)
      <3>1. k \in 1..Len(c) /\ 1 \in 1..Len(d)
        BY <2>2, <1>1
      <3>2. q[k] = c[Len(c)] /\ q[k + 1] = d[1] /\ c # <<>> /\ d # <<>>
        BY <2>2, <3>1, <1>1
      <3> QED BY <3>2
    <2>3. CASE k > Len(c)
      <3>1. PICK j \in 1..(Len(d) - 1) : k = Len(c) + j
        <4>1. k - Len(c) \in 1..(Len(d) - 1) /\ k = Len(c) + (k - Len(c))
          BY <2>3, <1>1
        <4> QED BY <4>1
      <3>2. j \in 1..Len(d) /\ j + 1 \in 1..Len(d) /\ k + 1 = Len(c) + (j + 1)
        BY <3>1, <1>1
      <3>3. q[k] = d[j] /\ q[k + 1] = d[j + 1]
        BY <3>1, <3>2, <1>1
      <3> QED BY <3>1, <3>3 DEF Chain
    <2> QED BY <2>1, <2>2, <2>3, <1>1
  <1> QED BY <1>2, <1>3 DEF Chain, q

LEMMA ChainBegin ==
  ASSUME NEW S, NEW c \in Seq(S), NEW d \in Seq(S), Chain(c \o d)
  PROVE  Chain(c)
  <1>1. /\ Len(c \o d) = Len(c) + Len(d) /\ Len(c) \in Nat /\ Len(d) \in Nat
        /\ \A k \in 1..Len(c) : (c \o d)[k] = c[k]
    BY JoinFacts
  <1>2. PICK q : q = c \o d
    OBVIOUS
  <1>3. \A k \in 1..Len(c) : k \in 1..Len(q) /\ q[k] = c[k]
    BY <1>1, <1>2
  <1>4. \A k \in 1..(Len(c) - 1) : k \in 1..(Len(q) - 1) /\ q[k] = c[k] /\ q[k + 1] = c[k + 1]
    BY <1>1, <1>2
  <1>5. Chain(q)
    BY <1>2
  <1> QED BY <1>3, <1>4, <1>5 DEF Chain

LEMMA ChainTail ==
  ASSUME NEW S, NEW q \in Seq(S), q # <<>>, Chain(q)
  PROVE  /\ Chain(Tail(q)) /\ Well(q[1])
         /\ Tail(q) # <<>> => Follows(q[1], Tail(q)[1]) /\ Tail(q)[Len(Tail(q))] = q[Len(q)]
         /\ Tail(q) = <<>> => q[Len(q)] = q[1]
  <1>1. PICK v : v = Tail(q)
    OBVIOUS
  <1>2. /\ Len(q) \in Nat \ {0} /\ Len(v) = Len(q) - 1 /\ v \in Seq(S)
        /\ \A k \in 1..Len(v) : v[k] = q[k + 1]
        /\ (v = <<>> <=> Len(v) = 0)
    <2>1. Len(q) \in Nat \ {0} /\ v \in Seq(S) /\ Len(v) = Len(q) - 1
      BY <1>1
    <2>2. \A k \in 1..Len(v) : v[k] = q[k + 1]
      BY <1>1, <2>1
    <2>3. v = <<>> <=> Len(v) = 0
      BY <2>1, EmptySeq
    <2> QED BY <2>1, <2>2, <2>3
  <1>3. \A k \in 1..Len(v) : Well(v[k])
    <2>1. \A k \in 1..Len(v) : k + 1 \in 1..Len(q)
      BY <1>2
    <2> QED BY <1>2, <2>1 DEF Chain
  <1>4. \A k \in 1..(Len(v) - 1) : Follows(v[k], v[k + 1])
    <2> SUFFICES ASSUME NEW k \in 1..(Len(v) - 1)
                 PROVE  Follows(v[k], v[k + 1])
      OBVIOUS
    <2>1. k \in 1..Len(v) /\ k + 1 \in 1..Len(v) /\ k + 1 \in 1..(Len(q) - 1)
      BY <1>2
    <2>2. v[k] = q[k + 1] /\ v[k + 1] = q[(k + 1) + 1]
      BY <1>2, <2>1
    <2> QED BY <2>1, <2>2 DEF Chain
  <1>5. Well(q[1])
    BY <1>2 DEF Chain
  <1>6. v # <<>> => Follows(q[1], v[1]) /\ v[Len(v)] = q[Len(q)]
    <2> SUFFICES ASSUME v # <<>>
                 PROVE  Follows(q[1], v[1]) /\ v[Len(v)] = q[Len(q)]
      OBVIOUS
    <2>1. 1 \in 1..Len(v) /\ 1 \in 1..(Len(q) - 1) /\ Len(v) \in 1..Len(v) /\ Len(v) + 1 = Len(q)
      BY <1>2
    <2>2. v[1] = q[1 + 1] /\ v[Len(v)] = q[Len(q)]
      BY <1>2, <2>1
    <2>3. Follows(q[1], q[1 + 1])
      BY <2>1 DEF Chain
    <2> QED BY <2>2, <2>3
  <1>7. v = <<>> => q[Len(q)] = q[1]
    <2>1. v = <<>> => Len(q) = 1
      BY <1>2
    <2> QED BY <2>1
  <1> QED BY <1>1, <1>3, <1>4, <1>5, <1>6, <1>7 DEF Chain

\* A worker takes one more entry.
LEMMA ProperTake ==
  ASSUME NEW S, NEW r, NEW q \in Seq(S), NEW awaited, NEW state, Proper(r, q, awaited, state),
         state # "err", NEW ms \in Seq(S), ms # <<>>, Chain(ms), Begins(ms[1]), ms[Len(ms)].last
  PROVE  Proper(r, q \o ms, awaited, state)
  <1>1. PICK v : v = q \o ms
    OBVIOUS
  <1>2. /\ v \in Seq(S) /\ Len(v) = Len(q) + Len(ms) /\ Len(q) \in Nat /\ Len(ms) \in Nat \ {0}
        /\ (q = <<>> <=> Len(q) = 0) /\ (v = <<>> <=> Len(v) = 0)
        /\ \A k \in 1..Len(q) : v[k] = q[k]
        /\ \A k \in 1..Len(ms) : v[Len(q) + k] = ms[k]
    BY <1>1, JoinFacts
  <1>3. q # <<>> => q[Len(q)].last
    BY DEF Proper
  <1>4. q # <<>> => Follows(q[Len(q)], ms[1])
    BY <1>3 DEF Follows
  <1>5. Chain(v)
    BY <1>1, <1>4, ChainJoin DEF Proper
  <1>6. Len(ms) \in 1..Len(ms) /\ 1 \in 1..Len(ms)
    BY <1>2
  <1>7. v # <<>> /\ v[Len(v)] = ms[Len(ms)]
    BY <1>2, <1>6
  <1>8. IF awaited THEN r # <<>> /\ After(r[Len(r)], v[1]) ELSE Begins(v[1])
    <2>1. CASE q = <<>>
      <3>1. v[1] = ms[1] /\ ~awaited
        BY <2>1, <1>2, <1>6 DEF Proper
      <3> QED BY <3>1
    <2>2. CASE q # <<>>
      <3>1. v[1] = q[1]
        BY <2>2, <1>2
      <3> QED BY <2>2, <3>1 DEF Proper
    <2> QED BY <2>1, <2>2
  <1> QED BY <1>1, <1>5, <1>7, <1>8 DEF Proper

\* A worker fails and forgets what it has not sent.
LEMMA ProperFail ==
  ASSUME NEW S, NEW r, NEW c \in Seq(S), NEW d \in Seq(S), NEW awaited, NEW state,
         Proper(r, c \o d, awaited, state)
  PROVE  Proper(r, c, awaited, "err")
  <1>1. Chain(c)
    BY ChainBegin DEF Proper
  <1>2. PICK q : q = c \o d
    OBVIOUS
  <1>3. c # <<>> => q # <<>> /\ q[1] = c[1]
    BY <1>2
  <1>4. Proper(r, q, awaited, state)
    BY <1>2
  <1> QED BY <1>1, <1>3, <1>4 DEF Proper

\* Main takes the next message, if it may be of this worker.
LEMMA ProperReceive ==
  ASSUME NEW U, NEW r \in Seq(U), NEW q \in Seq([units: Seq(U), last: BOOLEAN]), q # <<>>,
         NEW awaited \in BOOLEAN, NEW state, Proper(r, q, awaited, state)
  PROVE  LET m == q[1]
             next == r \o m.units
         IN  /\ Proper(next, Tail(q), ~m.last, state)
             /\ awaited => r # <<>> /\ (m.units # <<>> => Successor(r[Len(r)], m.units[1]))
             /\ ~awaited => m.units # <<>> /\ First(m.units[1])
             /\ \A j \in 1..(Len(m.units) - 1) : Successor(m.units[j], m.units[j + 1])
             /\ next # <<>> /\ (m.last => Complete(next[Len(next)]))
  <1>1. PICK m : m = q[1]
    OBVIOUS
  <1>2. PICK u : u = m.units
    OBVIOUS
  <1>3. PICK next : next = r \o u
    OBVIOUS
  <1>4. PICK v : v = Tail(q)
    OBVIOUS
  <1>5. m \in [units: Seq(U), last: BOOLEAN] /\ u \in Seq(U)
    <2>1. m \in [units: Seq(U), last: BOOLEAN]
      <3>1. \A M : \A x \in Seq(M) : x # <<>> => x[1] \in M
        OBVIOUS
      <3> QED BY <1>1, <3>1
    <2> QED BY ONLY <2>1, <1>2
  <1>6. /\ next \in Seq(U) /\ Len(next) = Len(r) + Len(u) /\ Len(r) \in Nat /\ Len(u) \in Nat
        /\ (r = <<>> <=> Len(r) = 0) /\ (u = <<>> <=> Len(u) = 0)
        /\ \A k \in 1..Len(r) : next[k] = r[k]
        /\ \A k \in 1..Len(u) : next[Len(r) + k] = u[k]
    BY <1>3, <1>5, JoinFacts
  <1>7. next = <<>> <=> Len(next) = 0
    BY <1>6
  <1>8. Chain(q)
    BY DEF Proper
  <1>9. /\ Chain(v) /\ Well(m)
        /\ v # <<>> => Follows(m, v[1]) /\ v[Len(v)] = q[Len(q)]
        /\ v = <<>> => q[Len(q)] = m
    BY <1>1, <1>4, <1>8, ChainTail
  <1>10. IF awaited THEN r # <<>> /\ After(r[Len(r)], m) ELSE Begins(m)
    BY <1>1 DEF Proper
  <1>11. next # <<>>
    BY <1>2, <1>6, <1>7, <1>10 DEF Begins
  <1>12. /\ u # <<>> => next[Len(next)] = u[Len(u)]
         /\ u = <<>> => awaited /\ m.last /\ next[Len(next)] = r[Len(r)] /\ Complete(r[Len(r)])
    <2>1. ASSUME u # <<>>
          PROVE  next[Len(next)] = u[Len(u)]
      <3>1. Len(u) \in 1..Len(u)
        BY <2>1, <1>6
      <3> QED BY <3>1, <1>6
    <2>2. ASSUME u = <<>>
          PROVE  awaited /\ m.last /\ next[Len(next)] = r[Len(r)] /\ Complete(r[Len(r)])
      <3>1. awaited
        BY <2>2, <1>2, <1>10 DEF Begins
      <3>2. Len(next) = Len(r) /\ Len(r) \in 1..Len(r)
        BY <2>2, <3>1, <1>6, <1>10
      <3>3. m.last /\ Complete(r[Len(r)])
        BY <2>2, <3>1, <1>2, <1>10 DEF After
      <3> QED BY <3>1, <3>2, <3>3, <1>6
    <2> QED BY <2>1, <2>2
  <1>13. m.last => Complete(next[Len(next)])
    BY <1>2, <1>9, <1>12 DEF Well
  <1>14. v # <<>> => IF ~m.last THEN next # <<>> /\ After(next[Len(next)], v[1]) ELSE Begins(v[1])
    BY <1>2, <1>9, <1>11, <1>12 DEF Follows
  <1>15. state # "err" => IF v = <<>> THEN ~~m.last ELSE v[Len(v)].last
    <2>1. state # "err" => q[Len(q)].last
      BY DEF Proper
    <2> QED BY <2>1, <1>9
  <1>16. Proper(next, v, ~m.last, state)
    BY <1>9, <1>14, <1>15 DEF Proper
  <1>17. awaited => r # <<>> /\ (u # <<>> => Successor(r[Len(r)], u[1]))
    BY <1>2, <1>10 DEF After
  <1>18. ~awaited => u # <<>> /\ First(u[1])
    BY <1>2, <1>10 DEF Begins
  <1>19. \A j \in 1..(Len(u) - 1) : Successor(u[j], u[j + 1])
    BY <1>2, <1>9 DEF Well
  <1> QED BY <1>1, <1>2, <1>3, <1>4, <1>11, <1>13, <1>16, <1>17, <1>18, <1>19

LEMMA OrderedAppend ==
  ASSUME NEW U, NEW r \in Seq(U), NEW u \in Seq(U), NEW failed \in BOOLEAN, Ordered(r, failed),
         \A j \in 1..(Len(u) - 1) : Successor(u[j], u[j + 1]),
         u # <<>> /\ r = <<>> => First(u[1]),
         u # <<>> /\ r # <<>> =>
           \/ Successor(r[Len(r)], u[1])
           \/ First(u[1]) /\ (Complete(r[Len(r)]) \/ failed)
  PROVE  Ordered(r \o u, failed)
  <1>1. PICK s : s = r \o u
    OBVIOUS
  <1>2. /\ s \in Seq(U) /\ Len(s) = Len(r) + Len(u) /\ Len(r) \in Nat /\ Len(u) \in Nat
        /\ (r = <<>> <=> Len(r) = 0) /\ (u = <<>> <=> Len(u) = 0)
        /\ \A k \in 1..Len(r) : s[k] = r[k]
        /\ \A k \in 1..Len(u) : s[Len(r) + k] = u[k]
    BY <1>1, JoinFacts
  <1>3. s = <<>> <=> Len(s) = 0
    BY <1>2
  <1>4. s # <<>> => First(s[1])
    <2>1. CASE r # <<>>
      <3>1. s[1] = r[1]
        BY <2>1, <1>2
      <3> QED BY <2>1, <3>1 DEF Ordered
    <2>2. CASE r = <<>>
      <3>1. u # <<>> => s[1] = u[1]
        <4>1. u # <<>> => 1 \in 1..Len(u) /\ Len(r) + 1 = 1
          BY <2>2, <1>2
        <4> QED BY <4>1, <1>2
      <3>2. u = <<>> => s = <<>>
        BY <2>2, <1>2, <1>3
      <3> QED BY <2>2, <3>1, <3>2
    <2> QED BY <2>1, <2>2
  <1>5. ASSUME NEW k \in 1..(Len(s) - 1)
        PROVE  Successor(s[k], s[k + 1]) \/ (First(s[k + 1]) /\ (Complete(s[k]) \/ failed))
    <2>1. CASE k < Len(r)
      <3>1. k \in 1..(Len(r) - 1) /\ s[k] = r[k] /\ s[k + 1] = r[k + 1]
        BY <2>1, <1>2
      <3> QED BY <3>1 DEF Ordered
    <2>2. CASE k = Len(r)
      <3>1. k \in 1..Len(r) /\ 1 \in 1..Len(u)
        BY <2>2, <1>2
      <3>2. s[k] = r[Len(r)] /\ s[k + 1] = u[1] /\ u # <<>> /\ r # <<>>
        BY <2>2, <3>1, <1>2
      <3> QED BY <3>2
    <2>3. CASE k > Len(r)
      <3>1. PICK j \in 1..(Len(u) - 1) : k = Len(r) + j
        <4>1. k - Len(r) \in 1..(Len(u) - 1) /\ k = Len(r) + (k - Len(r))
          BY <2>3, <1>2
        <4> QED BY <4>1
      <3>2. j \in 1..Len(u) /\ j + 1 \in 1..Len(u) /\ k + 1 = Len(r) + (j + 1)
        BY <3>1, <1>2
      <3>3. s[k] = u[j] /\ s[k + 1] = u[j + 1]
        BY <3>1, <3>2, <1>2
      <3> QED BY <3>1, <3>3
    <2> QED BY <2>1, <2>2, <2>3, <1>2
  <1> QED BY <1>1, <1>4, <1>5 DEF Ordered

-----------------------------------------------------------------------------
(* The sizes of the chunks.                                                *)

\* A worker that has ended has ended.
LEMMA WorkingStep ==
  ASSUME TypeInv, [Next]_vars
  PROVE  /\ \A t \in Workers : working[t] # "running" => working'[t] = working[t]
         /\ Failed => Failed'
  <1> USE DEF vars, walkerVars, workerVars, readVars, mainVars, leftOut
  <1>0. working \in [Workers -> {"running", "ok", "err"}]
    BY DEF TypeInv, States
  <1>1. \A t \in Workers : working[t] # "running" => working'[t] = working[t]
    <2>1. ASSUME NEW t \in Workers, Worker(t)
          PROVE  \A s \in Workers : working[s] # "running" => working'[s] = working[s]
      <3>1. CASE WorkerTake(t) \/ WorkerSkip(t) \/ WorkerSend(t)
        BY <3>1 DEF WorkerTake, WorkerSkip, WorkerSend
      <3>2. CASE WorkerReadError(t) \/ WorkerEnd(t)
        BY <3>2, <1>0 DEF WorkerReadError, WorkerEnd, Ready
      <3> QED BY <2>1, <3>1, <3>2 DEF Worker
    <2>2. CASE Walker
      BY <2>2 DEF Walker, WalkEntry, WalkExclude, WalkError
    <2>3. CASE Main
      BY <2>3 DEF Main, ReadSticky, ReadSelected, ReadDisconnected, ReadChunk, ReadLastChunk,
                  SendOn, Stop, ProgressError, Join, JoinedAll
    <2>4. CASE Ended \/ UNCHANGED vars
      BY <2>4 DEF Ended
    <2> QED BY <2>1, <2>2, <2>3, <2>4 DEF Next
  <1>2. Failed => Failed'
    BY <1>1 DEF Failed
  <1> QED BY <1>1, <1>2

LEMMA ChunksAppend ==
  ASSUME TypeInv, NEW m, chunks' = Append(chunks, m)
  PROVE  /\ Len(chunks) \in Nat /\ Len(chunks') = Len(chunks) + 1
         /\ chunks'[Len(chunks) + 1] = m
         /\ \A i \in 1..Len(chunks) : chunks'[i] = chunks[i]
         /\ \A i \in 1..Len(chunks') : i \in 1..Len(chunks) \/ i = Len(chunks')
  <1>1. PICK S : S = MsgSet(Sent) \cup {m}
    OBVIOUS
  <1>2. chunks \in Seq(S) /\ m \in S
    <2>1. chunks \in Seq(MsgSet(Sent))
      BY DEF TypeInv, Carried
    <2> QED BY <1>1, <2>1
  <1> QED BY <1>2, AppendProperties

LEMMA SizesStep ==
  ASSUME TypeInv, Sizes, [Next]_vars
  PROVE  Sizes'
  <1> USE DEF vars, walkerVars, workerVars, readVars, mainVars, leftOut
  <1>0. working \in [Workers -> {"running", "ok", "err"}]
        /\ channelFinished \in [Workers -> BOOLEAN]
    BY DEF TypeInv, States
  <1>1. \A t \in Workers : working[t] # "running" => working'[t] # "running"
    BY WorkingStep
  <1>2. ASSUME UNCHANGED <<channelFinished, chunks>>, mpc' = "read" => mpc = "read"
        PROVE  Sizes'
    BY <1>1, <1>2 DEF Sizes, ChunkSizes
  <1>3. ASSUME NEW m, chunks' = Append(chunks, m), mpc = "read", mpc' = "send",
               UNCHANGED <<channelFinished, working>>,
               IF m.last THEN Len(m.units) <= ChunkLen /\ AllFinished ELSE Len(m.units) = ChunkLen
        PROVE  Sizes'
    <2>1. /\ Len(chunks) \in Nat /\ Len(chunks') = Len(chunks) + 1
          /\ chunks'[Len(chunks) + 1] = m
          /\ \A i \in 1..Len(chunks) : chunks'[i] = chunks[i]
          /\ \A i \in 1..Len(chunks') : i \in 1..Len(chunks) \/ i = Len(chunks')
      BY <1>3, ChunksAppend
    <2>2. \A i \in 1..Len(chunks) : ~chunks[i].last /\ Len(chunks[i].units) = ChunkLen
      BY <1>3 DEF Sizes, ChunkSizes
    <2>3. m.last => \A t \in Workers : working[t] # "running"
      BY <1>3 DEF Sizes, AllFinished
    <2>4. ASSUME NEW i \in 1..Len(chunks')
          PROVE  IF chunks'[i].last
                   THEN i = Len(chunks') /\ Len(chunks'[i].units) <= ChunkLen
                          /\ \A t \in Workers : working'[t] # "running"
                   ELSE Len(chunks'[i].units) = ChunkLen
      <3>1. CASE i \in 1..Len(chunks)
        BY <2>1, <2>2, <3>1
      <3>2. CASE i = Len(chunks')
        <4>1. chunks'[i] = m
          BY <2>1, <3>2
        <4> QED BY <4>1, <3>2, <2>3, <1>3
      <3> QED BY <2>1, <3>1, <3>2
    <2>5. ChunkSizes'
      BY <2>4 DEF ChunkSizes
    <2> QED BY <1>3, <2>5 DEF Sizes
  <1>4. CASE ReadChunk
    <2>1. PICK m : m = [units |-> SubSeq(bufOut, 1, ChunkLen), last |-> FALSE]
      OBVIOUS
    <2>2. bufOut \in Seq(UnitSet(Sent)) /\ Len(bufOut) > ChunkLen
      BY <1>4 DEF TypeInv, Carried, ReadChunk
    <2>3. ChunkLen \in 0..Len(bufOut)
      BY <2>2, ReadAssumption
    <2>4. Len(SubSeq(bufOut, 1, ChunkLen)) = ChunkLen
      BY <2>2, <2>3, FirstElements
    <2>5. chunks' = Append(chunks, m)
      BY <1>4, <2>1 DEF ReadChunk
    <2>6. mpc = "read" /\ mpc' = "send" /\ UNCHANGED <<channelFinished, working>>
      BY <1>4 DEF ReadChunk, ChunkReady
    <2>7. IF m.last THEN Len(m.units) <= ChunkLen /\ AllFinished ELSE Len(m.units) = ChunkLen
      BY <2>1, <2>4
    <2> QED BY ONLY <1>3, <2>5, <2>6, <2>7
  <1>5. CASE ReadLastChunk
    <2>1. PICK m : m = [units |-> bufOut, last |-> TRUE]
      OBVIOUS
    <2>2. chunks' = Append(chunks, m)
      BY <1>5, <2>1 DEF ReadLastChunk
    <2>3. mpc = "read" /\ mpc' = "send" /\ UNCHANGED <<channelFinished, working>>
          /\ AllFinished /\ Len(bufOut) <= ChunkLen
      BY <1>5 DEF ReadLastChunk, ChunkReady, Filling
    <2>4. IF m.last THEN Len(m.units) <= ChunkLen /\ AllFinished ELSE Len(m.units) = ChunkLen
      BY <2>1, <2>3
    <2> QED BY ONLY <1>3, <2>2, <2>3, <2>4
  <1>6. CASE ReadDisconnected
    <2>1. PICK t \in Workers : working[t] # "running"
                               /\ channelFinished' = [channelFinished EXCEPT ![t] = TRUE]
      BY <1>6 DEF ReadDisconnected, Disconnected
    <2>2. UNCHANGED <<chunks, working, mpc>>
      BY <1>6 DEF ReadDisconnected
    <2>3. \A s \in Workers : channelFinished'[s] => channelFinished[s] \/ s = t
      BY <1>0, <2>1
    <2> QED BY <2>1, <2>2, <2>3 DEF Sizes, ChunkSizes
  <1>7. CASE SendOn
    <2>1. UNCHANGED <<chunks, working, channelFinished>>
      BY <1>7 DEF SendOn
    <2>2. chunks \in Seq(MsgSet(Sent))
      BY DEF TypeInv, Carried
    <2>3. mpc' = "read" => \A i \in 1..Len(chunks) : ~chunks[i].last
      <3> SUFFICES ASSUME mpc' = "read", NEW i \in 1..Len(chunks), chunks[i].last
                   PROVE  FALSE
        OBVIOUS
      <3>1. i = Len(chunks)
        BY DEF Sizes, ChunkSizes
      <3>2. ~chunks[Len(chunks)].last
        BY <1>7 DEF SendOn, Last
      <3> QED BY <3>1, <3>2
    <2> QED BY <2>1, <2>3 DEF Sizes, ChunkSizes
  <1>8. CASE ReadSticky \/ ReadSelected \/ Stop \/ ProgressError \/ Join \/ JoinedAll
    BY <1>2, <1>8 DEF ReadSticky, ReadSelected, Stop, ProgressError, Join, JoinedAll
  <1>9. CASE Walker \/ Ended \/ UNCHANGED vars
    BY <1>2, <1>9 DEF Walker, WalkEntry, WalkExclude, WalkError, Ended
  <1>10. ASSUME NEW t \in Workers, Worker(t)
         PROVE  Sizes'
    BY <1>2, <1>10 DEF Worker, WorkerTake, WorkerSkip, WorkerSend, WorkerReadError, WorkerEnd
  <1> QED BY <1>4, <1>5, <1>6, <1>7, <1>8, <1>9, <1>10 DEF Next, Main

\* The chunks have all the same size but for the last one, only the last one is
\* flagged, and it is flagged after all workers have ended.
THEOREM ChunkSizesCorrect == Spec => []ChunkSizes
  <1>1. Init => TypeInv /\ Sizes
    <2>1. Init => Sizes
      BY DEF Init, Sizes, ChunkSizes
    <2> QED BY <2>1, TypeInit
  <1>2. (TypeInv /\ Sizes) /\ [Next]_vars => (TypeInv /\ Sizes)'
    BY TypeStep, SizesStep
  <1>3. Sizes => ChunkSizes
    BY DEF Sizes
  <1> QED BY <1>1, <1>2, <1>3, PTL DEF Spec

-----------------------------------------------------------------------------
(* What main has received.                                                 *)

LEMMA StreamAppend ==
  ASSUME TypeInv, NEW U, U = UnitSet(Sent), NEW m, m.units \in Seq(U),
         chunks' = Append(chunks, m)
  PROVE  Stream' = Stream \o m.units
  <1> DEFINE s == [i \in 1..Len(chunks) |-> chunks[i].units]
  <1>1. chunks \in Seq(MsgSet(Sent)) /\ Len(chunks) \in Nat
    BY DEF TypeInv, Carried
  <1>2. \A i \in 1..Len(chunks) : chunks[i].units \in Seq(U)
    <2>1. \A x \in MsgSet(Sent) : x.units \in Seq(U)
      BY DEF MsgSet
    <2> QED BY <1>1, <2>1, ElementOfSeq
  <1>3. DOMAIN s = 1..Len(chunks) /\ s = [i \in 1..Len(chunks) |-> s[i]]
        /\ \A i \in 1..Len(chunks) : s[i] = chunks[i].units
    OBVIOUS
  <1> HIDE DEF s
  <1>4. s \in Seq(Seq(U)) /\ Len(s) = Len(chunks)
    BY <1>1, <1>2, <1>3, MakeSequence
  <1>5. PICK t : t = [i \in 1..Len(chunks') |-> chunks'[i].units]
    OBVIOUS
  <1>6. t = Append(s, m.units)
    <2>1. /\ Len(chunks') = Len(chunks) + 1 /\ chunks'[Len(chunks) + 1] = m
          /\ \A i \in 1..Len(chunks) : chunks'[i] = chunks[i]
          /\ \A i \in 1..Len(chunks') : i \in 1..Len(chunks) \/ i = Len(chunks')
      BY ChunksAppend
    <2>2. /\ DOMAIN t = 1..Len(chunks') /\ t = [i \in 1..Len(chunks') |-> t[i]]
          /\ \A i \in 1..Len(chunks') : t[i] = chunks'[i].units
      BY <1>5
    <2>3. PICK n \in Nat : n = Len(chunks)
      BY <1>1
    <2>4. \A i \in 1..n : t[i] = s[i]
      BY <1>3, <2>1, <2>2, <2>3
    <2>5. t[n + 1] = m.units /\ Len(chunks') = n + 1
      BY <2>1, <2>2, <2>3
    <2>6. \A i \in 1..(n + 1) : t[i] \in Seq(U)
      BY <1>4, <2>3, <2>4, <2>5
    <2>7. t \in Seq(Seq(U)) /\ Len(t) = n + 1
      <3>1. DOMAIN t = 1..(n + 1) /\ t = [i \in 1..(n + 1) |-> t[i]] /\ n + 1 \in Nat
        BY <2>2, <2>5
      <3> QED BY <3>1, <2>6, MakeSequence
    <2>8. /\ Append(s, m.units) \in Seq(Seq(U)) /\ Len(Append(s, m.units)) = n + 1
          /\ \A i \in 1..n : Append(s, m.units)[i] = s[i]
          /\ Append(s, m.units)[n + 1] = m.units
      BY <1>4, <2>3, AppendProperties
    <2>9. \A i \in 1..(n + 1) : t[i] = Append(s, m.units)[i]
      BY <2>4, <2>5, <2>8
    <2> QED BY <2>7, <2>8, <2>9, SeqEqual
  <1>7. Stream' = FlattenSeq(t) /\ Stream = FlattenSeq(s)
    BY <1>5 DEF Stream, s
  <1> QED BY <1>4, <1>6, <1>7, FlattenAppend

LEMMA ReceivedType ==
  ASSUME TypeInv
  PROVE  Received \in Seq(UnitSet(Sent))
  <1>1. Stream \in Seq(UnitSet(Sent)) /\ bufOut \in Seq(UnitSet(Sent))
    BY ArchivedIsSent DEF TypeInv, Carried
  <1>2. \A U : \A r \in Seq(U) : \A u \in Seq(U) : r \o u \in Seq(U)
    OBVIOUS
  <1> QED BY <1>1, <1>2 DEF Received

\* Nothing is taken from a channel.
LEMMA ReceivedKept ==
  ASSUME TypeInv, Sizes, [Next]_vars, ~ReadSticky, ~ReadSelected
  PROVE  Received' = Received
  <1> USE DEF vars, walkerVars, workerVars, readVars, mainVars, leftOut
  <1>0. PICK U : U = UnitSet(Sent)
    OBVIOUS
  <1>1. Stream \in Seq(U) /\ bufOut \in Seq(U)
    BY <1>0, ArchivedIsSent DEF TypeInv, Carried
  <1>2. ASSUME UNCHANGED <<chunks, bufOut>>
        PROVE  Received' = Received
    BY <1>2 DEF Received, Closed, Stream
  <1>3. CASE ReadChunk
    <2>1. Len(bufOut) > ChunkLen /\ ChunkLen \in 0..Len(bufOut) /\ Len(bufOut) \in Nat
      BY <1>1, <1>3, ReadAssumption DEF ReadChunk
    <2>2. PICK u : u = SubSeq(bufOut, 1, ChunkLen)
      OBVIOUS
    <2>3. PICK v : v = SubSeq(bufOut, ChunkLen + 1, Len(bufOut))
      OBVIOUS
    <2>4. PICK m : m = [units |-> u, last |-> FALSE]
      OBVIOUS
    <2>5. u \in Seq(U) /\ v \in Seq(U)
      BY <1>1, <2>1, <2>2, <2>3, FirstElements, PieceFacts
    <2>6. u \o v = bufOut
      <3>1. SubSeq(bufOut, 0 + 1, ChunkLen) \o SubSeq(bufOut, ChunkLen + 1, Len(bufOut))
              = SubSeq(bufOut, 0 + 1, Len(bufOut))
        <4>1. Len(bufOut) \in 0..Len(bufOut) /\ 0 \in 0..ChunkLen
          BY <2>1
        <4> QED BY <1>1, <2>1, <4>1, AppendPiece
      <3>2. SubSeq(bufOut, 1, Len(bufOut)) = bufOut
        BY <1>1, SubSeqFull
      <3>3. u = SubSeq(bufOut, 0 + 1, ChunkLen) /\ bufOut = SubSeq(bufOut, 0 + 1, Len(bufOut))
        BY <2>2, <3>2
      <3> QED BY <2>3, <3>1, <3>3, Zenon
    <2>7. chunks' = Append(chunks, m) /\ bufOut' = v /\ mpc = "read"
      BY <1>3, <2>2, <2>3, <2>4 DEF ReadChunk, ChunkReady
    <2>8. Stream' = Stream \o u
      <3>1. m.units = u /\ m.units \in Seq(U)
        BY <2>4, <2>5
      <3>2. Stream' = Stream \o m.units
        BY <1>0, <2>7, <3>1, StreamAppend
      <3> QED BY <3>1, <3>2
    <2>9. ~Closed /\ ~Closed'
      <3>1. ~Closed
        BY <2>7 DEF Sizes, Closed
      <3>2. /\ chunks'[Len(chunks) + 1] = m /\ Len(chunks') = Len(chunks) + 1
            /\ \A i \in 1..Len(chunks) : chunks'[i] = chunks[i]
            /\ \A i \in 1..Len(chunks') : i \in 1..Len(chunks) \/ i = Len(chunks')
        BY <2>7, ChunksAppend
      <3>3. \A i \in 1..Len(chunks') : ~chunks'[i].last
        BY <2>4, <3>1, <3>2 DEF Closed
      <3> QED BY <3>1, <3>3 DEF Closed
    <2>10. Received' = (Stream \o u) \o v
      BY <2>7, <2>8, <2>9 DEF Received
    <2>11. (Stream \o u) \o v = Stream \o (u \o v)
      <3>1. Stream \in Seq(U)
        BY <1>1
      <3> QED BY ONLY <2>5, <3>1, ConcatAssociative
    <2> QED BY <2>6, <2>9, <2>10, <2>11 DEF Received
  <1>4. CASE ReadLastChunk
    <2>1. PICK m : m = [units |-> bufOut, last |-> TRUE]
      OBVIOUS
    <2>2. chunks' = Append(chunks, m) /\ bufOut' = bufOut /\ mpc = "read"
      BY <1>4, <2>1 DEF ReadLastChunk, ChunkReady
    <2>3. Stream' = Stream \o bufOut
      <3>1. m.units = bufOut /\ m.units \in Seq(U)
        BY <1>1, <2>1
      <3>2. Stream' = Stream \o m.units
        BY <1>0, <2>2, <3>1, StreamAppend
      <3> QED BY <3>1, <3>2
    <2>4. ~Closed
      BY <2>2 DEF Sizes, Closed
    <2>5. Closed'
      <3>1. chunks'[Len(chunks) + 1] = m /\ Len(chunks') = Len(chunks) + 1 /\ Len(chunks) \in Nat
        BY <2>2, ChunksAppend
      <3>2. Len(chunks) + 1 \in 1..Len(chunks') /\ chunks'[Len(chunks) + 1].last
        BY <2>1, <3>1
      <3> QED BY <3>2 DEF Closed
    <2> QED BY <2>3, <2>4, <2>5 DEF Received
  <1>5. CASE Walker \/ Ended \/ UNCHANGED vars
    BY <1>2, <1>5 DEF Walker, WalkEntry, WalkExclude, WalkError, Ended
  <1>6. ASSUME NEW t \in Workers, Worker(t)
        PROVE  Received' = Received
    BY <1>2, <1>6 DEF Worker, WorkerTake, WorkerSkip, WorkerSend, WorkerReadError, WorkerEnd
  <1>7. CASE ReadDisconnected \/ SendOn \/ Stop \/ ProgressError \/ Join \/ JoinedAll
    BY <1>2, <1>7 DEF ReadDisconnected, SendOn, Stop, ProgressError, Join, JoinedAll
  <1> QED BY <1>3, <1>4, <1>5, <1>6, <1>7 DEF Next, Main

-----------------------------------------------------------------------------
(* The entries do not mix.                                                 *)

\* No file without a size in its metadata had data when it was opened.  The
\* worker flags the header of a file of size 0 as the end of the entry, so main
\* would take messages of other workers before these data.
SizesKept == \A t \in Trees : \A i \in 1..Len(t) : SizeKept(t[i])

LEMMA SentKept ==
  ASSUME TypeInv, SizesKept
  PROVE  \A e \in Sent : IsSent(e) /\ SizeKept(e)
  <1>1. \A e \in Sent : IsSent(e)
    BY SentFacts DEF TypeInv
  <1>2. ASSUME NEW e \in Sent
        PROVE  SizeKept(e)
    <2>1. tree \in Trees /\ Len(tree) \in Nat /\ \A i \in 1..Len(tree) : IsEntry(tree[i])
      BY TreeFacts DEF TypeInv, States
    <2>2. ASSUME NEW i \in 1..Len(tree), NEW p
          PROVE  AsLink(i, p).kind = "hardlink"
      <3>1. PICK f : f = tree[i]
        OBVIOUS
      <3>2. DOMAIN f = Fields /\ {"kind", "target"} \subseteq Fields
        BY <2>1, <3>1 DEF IsEntry, Fields
      <3>3. PICK x : x = AsLink(i, p)
        OBVIOUS
      <3>4. x = [f EXCEPT !.kind = "hardlink", !.target = p]
        BY <3>1, <3>3 DEF AsLink
      <3>5. x.kind = "hardlink"
        BY ONLY <3>2, <3>4
      <3> QED BY <3>3, <3>5
    <2>3. (\E i \in 1..Len(tree) : e = tree[i])
          \/ (\E i \in 1..Len(tree) : \E j \in 1..Len(tree) : e = AsLink(i, tree[j].path))
      <3>1. e \in Forms
        BY DEF Sent
      <3> QED BY ONLY <3>1 DEF Forms
    <2>4. CASE \E i \in 1..Len(tree) : e = tree[i]
      BY <2>1, <2>4 DEF SizesKept
    <2>5. CASE \E i \in 1..Len(tree) : \E j \in 1..Len(tree) : e = AsLink(i, tree[j].path)
      <3>1. e.kind = "hardlink"
        BY <2>2, <2>5
      <3> QED BY <3>1 DEF SizeKept
    <2> QED BY <2>3, <2>4, <2>5
  <1> QED BY <1>1, <1>2

LEMMA ProperSame ==
  ASSUME NEW r, NEW q, NEW a, NEW b, NEW state, a <=> b, Proper(r, q, a, state)
  PROVE  Proper(r, q, b, state)
  BY DEF Proper

LEMMA QueueType ==
  ASSUME TypeInv, NEW t \in Workers
  PROVE  /\ chData[t] \in Seq(MsgSet(Sent)) /\ todo[t] \in Seq(MsgSet(Sent))
         /\ Queue(t) \in Seq(MsgSet(Sent))
         /\ todo[t] = <<>> => Queue(t) = chData[t]
         /\ chData[t] # <<>> => /\ Queue(t) # <<>> /\ Queue(t)[1] = Head(chData[t])
                                /\ Tail(chData[t]) \o todo[t] = Tail(Queue(t))
  <1>1. PICK M : M = MsgSet(Sent)
    OBVIOUS
  <1>2. PICK c : c = chData[t]
    OBVIOUS
  <1>3. PICK d : d = todo[t]
    OBVIOUS
  <1>4. c \in Seq(M) /\ d \in Seq(M)
    BY <1>1, <1>2, <1>3 DEF TypeInv, Carried
  <1>5. c \o d \in Seq(M) /\ (d = <<>> => c \o d = c)
    BY <1>4
  <1>6. c # <<>> => c \o d # <<>> /\ (c \o d)[1] = Head(c) /\ Tail(c) \o d = Tail(c \o d)
    BY <1>4
  <1> QED BY <1>1, <1>2, <1>3, <1>4, <1>5, <1>6 DEF Queue

\* Main takes a message of worker t, which it waits for, or else while it waits
\* for none, or for one that has ended.
LEMMA ReceiveStep ==
  ASSUME TypeInv, Sizes, OrderInv, NEW t \in Workers, Receive(t), mpc = "read",
         UNCHANGED <<chunks, todo, working>>,
         channelIndex = t \/ Selecting,
         channelIndex' =
           IF Head(chData[t]).last
             THEN IF channelIndex = t THEN NoWorker ELSE channelIndex
             ELSE t
  PROVE  OrderInv'
  <1>0. PICK U : U = UnitSet(Sent)
    OBVIOUS
  <1>1. PICK r : r = Received
    OBVIOUS
  <1>2. PICK q : q = Queue(t)
    OBVIOUS
  <1>3. PICK m : m = q[1]
    OBVIOUS
  <1>4. PICK s : s = Received'
    OBVIOUS
  <1>5. PICK awaited \in BOOLEAN : awaited <=> channelIndex = t
    <2>1. (channelIndex = t) \in BOOLEAN
      OBVIOUS
    <2> QED BY <2>1
  <1>6. PICK failed \in BOOLEAN : failed <=> Failed
    <2>1. Failed \in BOOLEAN
      BY DEF Failed
    <2> QED BY <2>1
  <1>7. /\ q \in Seq([units: Seq(U), last: BOOLEAN]) /\ q # <<>> /\ m = Head(chData[t])
        /\ Tail(chData[t]) \o todo[t] = Tail(q)
    BY <1>0, <1>2, <1>3, QueueType DEF Receive, MsgSet
  <1>8. r \in Seq(U)
    BY <1>0, <1>1, ReceivedType
  <1>9. s = r \o m.units
    <2>1. ~Closed /\ ~Closed' /\ Stream' = Stream
      BY DEF Sizes, Closed, Stream
    <2>2. Stream \in Seq(U) /\ bufOut \in Seq(U)
      BY <1>0, ArchivedIsSent DEF TypeInv, Carried
    <2>3. m.units \in Seq(U)
      <3>1. m \in [units: Seq(U), last: BOOLEAN]
        <4>1. \A M : \A x \in Seq(M) : x # <<>> => x[1] \in M
          OBVIOUS
        <4> QED BY <1>3, <1>7, <4>1
      <3> QED BY ONLY <3>1
    <2>4. s = Stream \o (bufOut \o m.units)
      BY <1>4, <1>7, <2>1 DEF Received, Receive
    <2>5. r = Stream \o bufOut
      BY <1>1, <2>1 DEF Received
    <2>6. PICK u \in Seq(U) : u = m.units
      BY <2>3
    <2>7. (Stream \o bufOut) \o u = Stream \o (bufOut \o u)
      BY <2>2, ConcatAssociative
    <2> QED BY <2>4, <2>5, <2>6, <2>7
  <1>10. Proper(r, q, awaited, working[t])
    <2>1. Proper(r, q, channelIndex = t, working[t])
      BY <1>1, <1>2 DEF OrderInv, Queued
    <2> QED BY <1>5, <2>1, ProperSame
  <1>11. /\ Proper(s, Tail(q), ~m.last, working[t])
         /\ awaited => r # <<>> /\ (m.units # <<>> => Successor(r[Len(r)], m.units[1]))
         /\ ~awaited => m.units # <<>> /\ First(m.units[1])
         /\ \A j \in 1..(Len(m.units) - 1) : Successor(m.units[j], m.units[j + 1])
         /\ s # <<>> /\ (m.last => Complete(s[Len(s)]))
    BY <1>3, <1>7, <1>8, <1>9, <1>10, ProperReceive
  <1>12. ~awaited /\ channelIndex # NoWorker =>
           Failed /\ working[channelIndex] = "err" /\ Queue(channelIndex) = <<>>
    <2> SUFFICES ASSUME ~awaited, channelIndex # NoWorker
                 PROVE  Failed /\ working[channelIndex] = "err" /\ Queue(channelIndex) = <<>>
      OBVIOUS
    <2>1. channelIndex \in Workers /\ Disconnected(channelIndex)
      BY <1>5 DEF TypeInv, States, Selecting
    <2>2. PICK c \in Workers : c = channelIndex
      BY <2>1
    <2>3. Queued(c) /\ todo[c] = <<>> /\ chData[c] = <<>> /\ channelIndex = c
      BY <2>1, <2>2 DEF OrderInv, Queued, Disconnected
    <2>4. Queue(c) = <<>>
      BY <2>3, QueueType
    <2>5. working[c] = "err"
      BY <2>3, <2>4 DEF Queued, Proper
    <2> QED BY <2>2, <2>4, <2>5 DEF Failed
  <1>13. Ordered(s, Failed')
    <2>1. r # <<>> /\ ~awaited => Complete(r[Len(r)]) \/ failed
      BY <1>1, <1>6, <1>12 DEF OrderInv, Between
    <2>2. m.units # <<>> /\ r = <<>> => First(m.units[1])
      BY <1>11
    <2>3. m.units # <<>> /\ r # <<>> =>
            \/ Successor(r[Len(r)], m.units[1])
            \/ First(m.units[1]) /\ (Complete(r[Len(r)]) \/ failed)
      BY <1>11, <2>1
    <2>4. Ordered(r, failed)
      BY <1>1, <1>6 DEF OrderInv, Ordered
    <2>5. m.units \in Seq(U)
      <3>1. m \in [units: Seq(U), last: BOOLEAN]
        <4>1. \A M : \A x \in Seq(M) : x # <<>> => x[1] \in M
          OBVIOUS
        <4> QED BY <1>3, <1>7, <4>1
      <3> QED BY ONLY <3>1
    <2>6. Ordered(r \o m.units, failed)
      BY <1>8, <1>11, <2>2, <2>3, <2>4, <2>5, OrderedAppend
    <2>7. Failed' <=> failed
      BY <1>6 DEF Failed
    <2> QED BY <1>9, <2>6, <2>7 DEF Ordered
  <1>14. channelIndex' = NoWorker => Complete(s[Len(s)])
    <2>1. NoWorker # t
      BY ReadAssumption
    <2> QED BY <1>7, <1>11, <2>1
  <1>15. ASSUME NEW u \in Workers
         PROVE  Queued(u)'
    <2>1. working'[u] # "running" => todo'[u] = <<>>
      BY DEF OrderInv, Queued
    <2>2. CASE u = t
      <3>1. Queue(t)' = Tail(q)
        BY <1>7 DEF Queue, Receive, TypeInv, Carried
      <3>2. channelIndex' = t <=> ~m.last
        BY <1>7, ReadAssumption
      <3>3. Proper(s, Tail(q), channelIndex' = t, working[t])
        BY <1>11, <3>2, ProperSame
      <3> QED BY <1>4, <2>1, <2>2, <3>1, <3>3 DEF Queued
    <2>3. CASE u # t
      <3>1. Queue(u)' = Queue(u)
        BY <2>3 DEF Queue, Receive, TypeInv, Carried
      <3>2. Proper(r, Queue(u), channelIndex = u, working[u])
        BY <1>1 DEF OrderInv, Queued
      <3>3. CASE channelIndex = u
        <4>1. Queue(u) = <<>> /\ working[u] = "err"
          BY <1>5, <1>12, <2>3, <3>3, ReadAssumption
        <4>2. Proper(s, Queue(u), channelIndex' = u, working[u])
          BY <3>2, <4>1 DEF Proper
        <4> QED BY <1>4, <2>1, <3>1, <4>2 DEF Queued
      <3>4. CASE channelIndex # u
        <4>1. channelIndex' # u
          BY <2>3, <3>4, ReadAssumption
        <4>2. Proper(s, Queue(u), channelIndex' = u, working[u])
          BY <3>2, <3>4, <4>1 DEF Proper
        <4> QED BY <1>4, <2>1, <3>1, <4>2 DEF Queued
      <3> QED BY <3>3, <3>4
    <2> QED BY <2>2, <2>3
  <1> QED BY <1>4, <1>13, <1>14, <1>15 DEF OrderInv, Between

LEMMA OrderStep ==
  ASSUME TypeInv, Sizes, OrderInv, SizesKept, [Next]_vars
  PROVE  OrderInv'
  <1> USE DEF vars, walkerVars, workerVars, readVars, mainVars, leftOut
  <1>1. CASE ReadSticky
    <2>1. PICK t \in Workers : t = channelIndex
      BY <1>1 DEF ReadSticky, TypeInv, States
    <2> QED BY <1>1, <2>1, ReceiveStep DEF ReadSticky, Filling
  <1>2. CASE ReadSelected
    <2>1. PICK t \in Workers :
            Receive(t) /\ channelIndex' = IF Head(chData[t]).last THEN channelIndex ELSE t
      BY <1>2 DEF ReadSelected
    <2>2. channelIndex # t
      <3>1. Selecting /\ chData[t] # <<>>
        BY <1>2, <2>1 DEF ReadSelected, Receive
      <3> QED BY <3>1, ReadAssumption DEF Selecting, Disconnected
    <2> QED BY <1>2, <2>1, <2>2, ReceiveStep DEF ReadSelected, Selecting, Filling
  <1>3. CASE ~ReadSticky /\ ~ReadSelected
    <2>1. PICK r : r = Received /\ r = Received'
      BY <1>3, ReceivedKept
    <2>2. (Failed => Failed') /\ Ordered(r, Failed)
      BY <2>1, WorkingStep DEF OrderInv
    <2>3. Ordered(r, Failed')
      BY <2>2 DEF Ordered
    <2>4. channelIndex' = channelIndex
      BY <1>3 DEF Next, Walker, WalkEntry, WalkExclude, WalkError, Worker, WorkerTake, WorkerSkip,
           WorkerSend, WorkerReadError, WorkerEnd, Main, ReadDisconnected, ReadChunk, ReadLastChunk,
           SendOn, Stop, ProgressError, Join, JoinedAll, Ended
    <2>5. Between'
      BY <2>1, <2>2, <2>4 DEF OrderInv, Between
    <2>6. ASSUME NEW u \in Workers, UNCHANGED <<chData[u], todo[u], working[u]>>
          PROVE  Queued(u)'
      <3>1. Queue(u)' = Queue(u)
        BY <2>6 DEF Queue
      <3>2. Queued(u)
        BY DEF OrderInv
      <3> QED BY <2>1, <2>4, <2>6, <3>1, <3>2 DEF Queued
    <2>7. ASSUME UNCHANGED <<chData, todo, working>>
          PROVE  \A u \in Workers : Queued(u)'
      BY <2>6, <2>7
    <2>8. ASSUME NEW t \in Workers, Worker(t)
          PROVE  \A u \in Workers : Queued(u)'
      <3>1. ASSUME NEW u \in Workers, u # t
            PROVE  Queued(u)'
        <4>1. /\ chData \in [Workers -> Seq(MsgSet(Sent))] /\ todo \in [Workers -> Seq(MsgSet(Sent))]
              /\ working \in [Workers -> {"running", "ok", "err"}]
          BY DEF TypeInv, Carried, States
        <4>2. UNCHANGED <<chData[u], todo[u], working[u]>>
          BY <2>8, <3>1, <4>1 DEF Worker, WorkerTake, WorkerSkip, WorkerSend, WorkerReadError,
                                  WorkerEnd
        <4> QED BY <2>6, <4>2
      <3>2. Queued(t)'
        <4>0. PICK M : M = MsgSet(Sent)
          OBVIOUS
        <4>1. /\ chData \in [Workers -> Seq(M)] /\ todo \in [Workers -> Seq(M)]
              /\ working \in [Workers -> {"running", "ok", "err"}]
          BY <4>0 DEF TypeInv, Carried, States
        <4>2. PICK c \in Seq(M) : c = chData[t]
          BY <4>1
        <4>3. PICK d \in Seq(M) : d = todo[t]
          BY <4>1
        <4>4. Proper(r, c \o d, channelIndex = t, working[t])
              /\ (working[t] # "running" => d = <<>>)
          BY <2>1, <4>2, <4>3 DEF OrderInv, Queued, Queue
        <4>5. CASE WorkerTake(t)
          <5>1. d = <<>> /\ working[t] = "running" /\ chPaths # <<>>
            BY <4>3, <4>5 DEF WorkerTake, Ready
          <5>2. PICK e \in Sent : e = Head(chPaths)
            BY <5>1 DEF TypeInv, Carried
          <5>3. PICK ms : ms = Messages(e)
            OBVIOUS
          <5>4. IsSent(e) /\ SizeKept(e)
            BY SentKept
          <5>5. ms \in Seq(M) /\ ms # <<>>
            <6>1. ms \in Seq(MsgSet({e})) /\ ms # <<>> /\ {e} \subseteq Sent
              BY <5>3, <5>4, MessagesType
            <6> QED BY <4>0, <6>1, SetsGrow
          <5>6. Chain(ms) /\ Begins(ms[1]) /\ ms[Len(ms)].last
            BY <5>3, <5>4, MessagesChain
          <5>7. c \o d = c
            BY <5>1
          <5>8. Proper(r, c \o ms, channelIndex = t, working[t])
            BY <4>4, <5>1, <5>5, <5>6, <5>7, ProperTake
          <5>9. chData' = chData /\ todo'[t] = ms /\ working' = working
            BY <4>1, <4>5, <5>2, <5>3 DEF WorkerTake
          <5>10. Queue(t)' = c \o ms
            BY <4>2, <5>9 DEF Queue
          <5> QED BY <2>1, <2>4, <5>1, <5>8, <5>9, <5>10 DEF Queued
        <4>6. CASE WorkerSend(t)
          <5>1. d # <<>> /\ working[t] = "running" /\ working' = working
                /\ chData'[t] = Append(c, Head(d)) /\ todo'[t] = Tail(d)
            BY <4>1, <4>2, <4>3, <4>6 DEF WorkerSend
          <5>2. Append(c, Head(d)) \o Tail(d) = c \o d
            <6>1. /\ Head(d) \in M /\ Tail(d) \in Seq(M) /\ <<Head(d)>> \in Seq(M)
                  /\ d = <<Head(d)>> \o Tail(d) /\ Append(c, Head(d)) = c \o <<Head(d)>>
              BY <5>1
            <6>2. (c \o <<Head(d)>>) \o Tail(d) = c \o (<<Head(d)>> \o Tail(d))
              BY <6>1, ConcatAssociative
            <6> QED BY <6>1, <6>2
          <5>3. Queue(t)' = c \o d
            BY <5>1, <5>2 DEF Queue
          <5> QED BY <2>1, <2>4, <4>4, <5>1, <5>3 DEF Queued
        <4>7. CASE WorkerReadError(t)
          <5>1. chData'[t] = c /\ todo'[t] = <<>> /\ working'[t] = "err"
            BY <4>1, <4>2, <4>7 DEF WorkerReadError
          <5>2. Proper(r, c, channelIndex = t, "err")
            BY <4>4, ProperFail
          <5>3. Queue(t)' = c
            <6>1. c \o <<>> = c
              OBVIOUS
            <6> QED BY <5>1, <6>1 DEF Queue
          <5> QED BY <2>1, <2>4, <5>1, <5>2, <5>3 DEF Queued
        <4>8. CASE WorkerEnd(t)
          <5>1. chData' = chData /\ todo' = todo /\ d = <<>> /\ working[t] = "running"
                /\ working'[t] = "ok"
            BY <4>1, <4>3, <4>8 DEF WorkerEnd, Ready
          <5>2. Queue(t)' = c \o d
            BY <4>2, <4>3, <5>1 DEF Queue
          <5>3. Proper(r, c \o d, channelIndex = t, "ok")
            BY <4>4, <5>1 DEF Proper
          <5> QED BY <2>1, <2>4, <4>3, <5>1, <5>2, <5>3 DEF Queued
        <4>9. CASE WorkerSkip(t)
          BY <2>6, <4>9 DEF WorkerSkip
        <4> QED BY <2>8, <4>5, <4>6, <4>7, <4>8, <4>9 DEF Worker
      <3> QED BY <3>1, <3>2
    <2>9. \A u \in Workers : Queued(u)'
      <3>1. CASE Walker
        BY <2>7, <3>1 DEF Walker, WalkEntry, WalkExclude, WalkError
      <3>2. CASE Main
        BY <1>3, <2>7, <3>2 DEF Main, ReadDisconnected, ReadChunk, ReadLastChunk, SendOn, Stop,
                                ProgressError, Join, JoinedAll
      <3>3. CASE Ended \/ UNCHANGED vars
        BY <2>7, <3>3 DEF Ended
      <3> QED BY <2>8, <3>1, <3>2, <3>3 DEF Next
    <2> QED BY <2>1, <2>3, <2>5, <2>9 DEF OrderInv
  <1> QED BY <1>1, <1>2, <1>3

LEMMA OrderInit ==
  ASSUME Init
  PROVE  OrderInv
  <1>1. Stream = <<>> /\ bufOut = <<>>
    <2>1. [i \in 1..Len(chunks) |-> chunks[i].units] = <<>>
      BY DEF Init
    <2> QED BY <2>1, FlattenEmpty DEF Stream, Init
  <1>2. Received = <<>>
    BY <1>1 DEF Received
  <1>3. \A t \in Workers : Queue(t) = <<>> /\ channelIndex # t
    BY ReadAssumption DEF Init, Queue
  <1>4. \A r, a, state : ~a => Proper(r, <<>>, a, state)
    BY DEF Proper, Chain
  <1>5. \A t \in Workers : Queued(t)
    BY <1>3, <1>4 DEF Queued, Init
  <1>6. Ordered(<<>>, Failed)
    BY DEF Ordered
  <1> QED BY <1>2, <1>5, <1>6 DEF OrderInv, Between

ReadInv == TypeInv /\ Sizes /\ OrderInv

\* Each worker's queue holds whole entries, one behind the other, and what main
\* takes next goes on where it stopped.
THEOREM ReadInvariance ==
  ASSUME SizesKept
  PROVE  Spec => []ReadInv
  <1>1. Init => ReadInv
    <2>1. Init => Sizes
      BY DEF Init, Sizes, ChunkSizes
    <2> QED BY <2>1, TypeInit, OrderInit DEF ReadInv
  <1>2. ReadInv /\ [Next]_vars => ReadInv'
    BY TypeStep, SizesStep, OrderStep DEF ReadInv
  <1> QED BY <1>1, <1>2, PTL DEF Spec

LEMMA UnmixedFacts ==
  ASSUME ReadInv
  PROVE  Unmixed
  <1>1. PICK U : U = UnitSet(Sent)
    OBVIOUS
  <1>2. Stream \in Seq(U) /\ bufOut \in Seq(U)
    BY <1>1, ArchivedIsSent DEF ReadInv, TypeInv, Carried
  <1>3. PICK r : r = Received
    OBVIOUS
  <1>4. Ordered(r, Failed)
    BY <1>3 DEF ReadInv, OrderInv
  <1>5. Len(Stream) <= Len(r) /\ Len(r) \in Nat /\ \A i \in 1..Len(Stream) : r[i] = Stream[i]
    BY <1>2, <1>3 DEF Received
  <1>6. Stream # <<>> => First(Stream[1])
    <2>1. Stream # <<>> => 1 \in 1..Len(Stream) /\ r # <<>>
      BY <1>2, <1>5
    <2> QED BY <1>4, <1>5, <2>1 DEF Ordered
  <1>7. ASSUME NEW i \in 1..(Len(Stream) - 1)
        PROVE  \/ Successor(Stream[i], Stream[i + 1])
               \/ First(Stream[i + 1]) /\ (Complete(Stream[i]) \/ Failed)
    <2>1. i \in 1..Len(Stream) /\ i + 1 \in 1..Len(Stream) /\ i \in 1..(Len(r) - 1)
      BY <1>2, <1>5
    <2> QED BY <1>4, <1>5, <2>1 DEF Ordered
  <1> QED BY <1>6, <1>7 DEF Unmixed

\* The entries do not mix in the stream, whichever worker is when ready, and if
\* one fails in the middle of an entry that main waits for.
THEOREM UnmixedCorrect ==
  ASSUME SizesKept
  PROVE  Spec => []Unmixed
  <1>1. ReadInv => Unmixed
    BY UnmixedFacts
  <1> QED BY <1>1, ReadInvariance, PTL

-----------------------------------------------------------------------------
(* Nothing is lost: the invariant for OkIsWhole.                           *)

\* The unit that opens an entry, and where entries are opened in a stream and in
\* a queue.
Opens(u) == u.part = "header" /\ u.at = 0
OpenUnits(s) == {i \in 1..Len(s) : Opens(s[i])}
Opening(m) == m.units # <<>> /\ Opens(m.units[1])
OpenMessages(q) == {i \in 1..Len(q) : Opening(q[i])}
PathOf(m) == m.units[1].of.path

\* The entries opened or waiting in a sequence, and that none is there twice.
WaitingPaths(s) == {s[i].path : i \in 1..Len(s)}
QueuedPaths(q) == {PathOf(q[i]) : i \in OpenMessages(q)}
ReceivedPaths(r) == {r[i].of.path : i \in OpenUnits(r)}

WaitingOnce(s) == \A i, j \in 1..Len(s) : s[i].path = s[j].path => i = j
QueuedOnce(q) ==
  /\ \A i, j \in OpenMessages(q) : PathOf(q[i]) = PathOf(q[j]) => i = j
  /\ \A i \in 1..Len(q) : \A j \in 2..Len(q[i].units) : ~Opens(q[i].units[j])
ReceivedOnce(r) == \A i, j \in OpenUnits(r) : r[i].of.path = r[j].of.path => i = j

\* Who has an entry: the channel of the walker, a worker, main, or nobody, as it
\* was left out.
Holders == 0..(NWorkers + 2)
Held(s, q, r, out) ==
  [k \in Holders |-> IF k = 0 THEN WaitingPaths(s)
                     ELSE IF k \in Workers THEN QueuedPaths(q[k])
                     ELSE IF k = NWorkers + 1 THEN ReceivedPaths(r)
                     ELSE out]

\* The sets f[k] are disjoint parts of W, and are all of it if none was lost.
Parted(f, W, lost) ==
  /\ \A k, l \in Holders : k # l => f[k] \cap f[l] = {}
  /\ \A k \in Holders : f[k] \subseteq W
  /\ lost \/ \A p \in W : \E k \in Holders : p \in f[k]

PlacedIn(s, q, r, out, W, lost) ==
  /\ Parted(Held(s, q, r, out), W, lost)
  /\ WaitingOnce(s) /\ ReceivedOnce(r) /\ \A t \in Workers : QueuedOnce(q[t])

\* Every entry that the walker has passed is in one place.
Queues == [t \in Workers |-> Queue(t)]
Walked == {tree[i].path : i \in 1..(walkNo - 1)}
Placed == PlacedIn(chPaths, Queues, Received, skipped \cup excluded, Walked, Failed)

\* What has ended when a worker, a channel, the stream and main have.
WorkersEnd == \A t \in Workers : working[t] = "ok" => WalkerEnded /\ chPaths = <<>>
ChannelsEnd ==
  /\ \A t \in Workers : channelFinished[t] => chData[t] = <<>>
  /\ Closed => AllFinished
HandlesEnd == joined \in 0..NHandles /\ \A h \in 1..joined : HandleEnded(h) /\ ~HandleFailed(h)
StreamEnds ==
  /\ mpc = "send" => chunks # <<>>
  /\ result = "ok" => mpc = "ended" /\ joined = NHandles
  /\ (mpc = "join" \/ result = "ok") /\ ~stopped => chunks # <<>> /\ Last(chunks).last
Endings == WorkersEnd /\ ChannelsEnd /\ HandlesEnd /\ StreamEnds

-----------------------------------------------------------------------------
(* No unit is twice among those of an entry.                               *)

\* No unit is twice in the messages ms, and all are of the data in [from, to).
Differ(ms) ==
  \A k, l \in 1..Len(ms) : \A a \in 1..Len(ms[k].units) : \A b \in 1..Len(ms[l].units) :
    ms[k].units[a] = ms[l].units[b] => k = l /\ a = b
Within(ms, from, to) ==
  \A k \in 1..Len(ms) : \A a \in 1..Len(ms[k].units) :
    ms[k].units[a].part = "data" /\ ms[k].units[a].at \in from..(to - 1)

LEMMA WithinAt ==
  ASSUME NEW ms, NEW from, NEW to, Within(ms, from, to),
         NEW k \in 1..Len(ms), NEW a \in 1..Len(ms[k].units)
  PROVE  ms[k].units[a].part = "data" /\ ms[k].units[a].at \in from..(to - 1)
  BY DEF Within

LEMMA PiecesDiffer ==
  ASSUME NEW e, NEW from \in Nat, NEW len \in Nat, NEW last \in BOOLEAN
  PROVE  LET p == Pieces(e, from, len, last) IN Differ(p) /\ Within(p, from, from + len)
  <1> DEFINE n == (len + PieceLen - 1) \div PieceLen
             Read(i) == (i - 1) * PieceLen
             L(i) == Lesser(PieceLen, len - Read(i))
             U(i) == [j \in 1..L(i) |-> Byte(e, from + (Read(i) + j - 1))]
             p == Pieces(e, from, len, last)
  <1>1. n \in Nat /\ n * PieceLen <= len + PieceLen - 1
    BY FormatAssumption
  <1>2. ASSUME NEW i \in 1..n
        PROVE  Read(i) \in Nat /\ L(i) \in Nat \ {0} /\ L(i) <= PieceLen /\ Read(i) + L(i) <= len
    <2>1. i * PieceLen <= n * PieceLen /\ Read(i) = i * PieceLen - PieceLen /\ i * PieceLen \in Nat
          /\ i * PieceLen >= PieceLen
      BY <1>1, FormatAssumption
    <2>2. Read(i) \in Nat /\ Read(i) < len
      BY <2>1, <1>1, FormatAssumption
    <2> QED BY <2>2, FormatAssumption DEF Lesser
  <1>3. ASSUME NEW i \in 1..n, NEW k \in 1..n, i < k
        PROVE  Read(i) + PieceLen <= Read(k)
    <2>1. PICK d \in Nat : k = i + 1 + d
      <3>1. k - i - 1 \in Nat /\ k = i + 1 + (k - i - 1)
        BY <1>1, <1>3
      <3> QED BY <3>1
    <2>2. Read(k) = Read(i) + PieceLen + d * PieceLen /\ d * PieceLen \in Nat
      BY <2>1, <1>1, FormatAssumption
    <2> QED BY <2>2, <1>1, FormatAssumption
  <1>4. /\ DOMAIN p = 1..n /\ p = [i \in 1..n |-> p[i]]
        /\ \A i \in 1..n : p[i].units = U(i)
    BY DEF Pieces, Message
  <1> HIDE DEF p, n, L
  <1>5. Len(p) = n
    <2>1. \A i \in 1..n : p[i] \in {p[k] : k \in 1..n}
      OBVIOUS
    <2> QED BY <2>1, <1>1, <1>4, MakeSequence
  <1>6. \A i \in 1..n : Len(U(i)) = L(i) /\ \A a \in 1..L(i) : U(i)[a] = Byte(e, from + (Read(i) + a - 1))
    BY <1>2
  <1> HIDE DEF U, Read
  <1>7. \A i \in 1..n : \A a \in 1..L(i) :
           /\ U(i)[a].part = "data" /\ U(i)[a].at = from + (Read(i) + a - 1)
    <2>1. \A x : Byte(e, x).part = "data" /\ Byte(e, x).at = x
      BY DEF Byte
    <2> QED BY <1>6, <2>1
  <1>10. \A i \in 1..n : p[i].units = U(i) /\ Len(p[i].units) = L(i)
    BY <1>4, <1>6
  <1>11. \A i \in 1..Len(p) : i \in 1..n
    BY <1>5
  <1>8. Within(p, from, from + len)
    <2> SUFFICES ASSUME NEW k \in 1..n, NEW a \in 1..L(k)
                 PROVE  U(k)[a].part = "data" /\ U(k)[a].at \in from..(from + len - 1)
      BY <1>10, <1>11 DEF Within
    <2>1. from + (Read(k) + a - 1) \in from..(from + len - 1)
      BY <1>2
    <2> QED BY <1>7, <2>1
  <1>9. Differ(p)
    <2> SUFFICES ASSUME NEW k \in 1..n, NEW l \in 1..n, NEW a \in 1..L(k), NEW b \in 1..L(l),
                        U(k)[a] = U(l)[b]
                 PROVE  k = l /\ a = b
      BY <1>10, <1>11 DEF Differ
    <2>1. from + (Read(k) + a - 1) = from + (Read(l) + b - 1)
      BY <1>7
    <2>2. Read(k) + a = Read(l) + b /\ a \in 1..PieceLen /\ b \in 1..PieceLen
      BY <2>1, <1>2, FormatAssumption
    <2>3. ~(k < l) /\ ~(l < k)
      BY <2>2, <1>2, <1>3, FormatAssumption
    <2>4. k = l
      BY <2>3, <1>1
    <2>5. a = b
      BY <2>2, <2>4, <1>2
    <2> QED BY <2>4, <2>5
  <1> QED BY <1>8, <1>9 DEF p

LEMMA SegmentDiffer ==
  ASSUME NEW e, IsSent(e), NEW i \in 1..Len(e.segs)
  PROVE  /\ Differ(SegmentMessages(e, i))
         /\ Within(SegmentMessages(e, i), SegStart(e.segs, i), SegStart(e.segs, i) + e.segs[i].len)
  <1>1. e.segs \in Seq([hole: BOOLEAN, len: Nat \ {0}])
    BY DEF IsSent, IsEntry
  <1>2. e.segs[i] \in [hole: BOOLEAN, len: Nat \ {0}]
    BY <1>1, ElementOfSeq
  <1>3. SegStart(e.segs, i) \in Nat
    BY <1>1, StartFacts
  <1>4. CASE e.segs[i].hole
    <2>1. SegmentMessages(e, i) = <<Message(<<>>, TRUE)>> \/ SegmentMessages(e, i) = <<>>
      BY <1>4 DEF SegmentMessages
    <2>2. \A k \in 1..Len(SegmentMessages(e, i)) : Len(SegmentMessages(e, i)[k].units) = 0
      BY <2>1 DEF Message
    <2>3. \A k \in 1..Len(SegmentMessages(e, i)) : 1..Len(SegmentMessages(e, i)[k].units) = {}
      BY <2>2
    <2> QED BY <2>3 DEF Differ, Within
  <1>5. CASE ~e.segs[i].hole
    <2>1. PICK last \in BOOLEAN :
            SegmentMessages(e, i) = Pieces(e, SegStart(e.segs, i), e.segs[i].len, last)
      BY <1>5 DEF SegmentMessages
    <2> QED BY <2>1, <1>2, <1>3, PiecesDiffer
  <1> QED BY <1>4, <1>5

LEMMA DataDiffer ==
  ASSUME NEW e, IsSent(e)
  PROVE  /\ Differ(DataMessages(e))
         /\ \A k \in 1..Len(DataMessages(e)) : \A a \in 1..Len(DataMessages(e)[k].units) :
               DataMessages(e)[k].units[a].part = "data"
  <1>1. e.segs \in Seq([hole: BOOLEAN, len: Nat \ {0}]) /\ e.size \in Nat
    BY DEF IsSent, IsEntry
  <1>2. CASE e.segs = <<>>
    <2>1. PICK p : p = Pieces(e, 0, e.size, TRUE)
      OBVIOUS
    <2>2. DataMessages(e) = p
      BY <1>2, <2>1 DEF DataMessages
    <2>3. Differ(p) /\ Within(p, 0, 0 + e.size)
      BY <1>1, <2>1, PiecesDiffer
    <2> QED BY <2>2, <2>3 DEF Within
  <1>3. CASE e.segs # <<>>
    <2> DEFINE N == Len(e.segs)
               s == [i \in 1..N |-> SegmentMessages(e, i)]
               F == FlattenSeq(s)
    <2>1. N \in Nat /\ DataMessages(e) = F
      BY <1>1, <1>3 DEF DataMessages
    <2>2. DOMAIN s = 1..N /\ s = [i \in 1..N |-> s[i]] /\ \A i \in 1..N : s[i] = SegmentMessages(e, i)
      OBVIOUS
    <2> HIDE DEF s, N
    <2>3. \A i \in 1..N : s[i] \in Seq(MsgSet({e}))
      BY <2>2, SegmentFacts DEF N
    <2>4. s \in Seq(Seq(MsgSet({e}))) /\ Len(s) = N
      BY <2>1, <2>2, <2>3, MakeSequence
    <2> HIDE DEF F
    <2>5. /\ \A n \in 0..(N - 1) : \A j \in 1..Len(s[n + 1]) : F[EndOf(s, n) + j] = s[n + 1][j]
          /\ \A k \in 1..Len(F) :
               \E n \in 0..(N - 1) : \E j \in 1..Len(s[n + 1]) : k = EndOf(s, n) + j
      BY <2>4, FlattenElements DEF F
    <2>6. ASSUME NEW k \in 1..Len(F)
          PROVE  \E i \in 1..N : \E j \in 1..Len(s[i]) :
                   k = EndOf(s, i - 1) + j /\ F[k] = SegmentMessages(e, i)[j]
                   /\ j \in 1..Len(SegmentMessages(e, i))
      <3>1. PICK n \in 0..(N - 1) : \E j \in 1..Len(s[n + 1]) : k = EndOf(s, n) + j
        BY <2>5
      <3>2. PICK j \in 1..Len(s[n + 1]) : k = EndOf(s, n) + j
        BY <3>1
      <3>3. n + 1 \in 1..N /\ (n + 1) - 1 = n
        BY <2>1
      <3>4. F[k] = s[n + 1][j] /\ s[n + 1] = SegmentMessages(e, n + 1)
        BY <2>2, <2>5, <3>2, <3>3
      <3> QED BY <3>2, <3>3, <3>4
    <2>7. ASSUME NEW k \in 1..Len(F), NEW a \in 1..Len(F[k].units)
          PROVE  F[k].units[a].part = "data"
      <3>1. PICK i \in 1..N : \E j \in 1..Len(s[i]) :
              F[k] = SegmentMessages(e, i)[j] /\ j \in 1..Len(SegmentMessages(e, i))
        BY <2>6
      <3>2. PICK j \in 1..Len(SegmentMessages(e, i)) : F[k] = SegmentMessages(e, i)[j]
        BY <3>1
      <3>3. PICK m : m = SegmentMessages(e, i)
        OBVIOUS
      <3>4. m[j].units[a].part = "data"
        <4>1. Within(m, SegStart(e.segs, i), SegStart(e.segs, i) + e.segs[i].len)
          BY <3>3, SegmentDiffer DEF N
        <4> QED BY <2>7, <3>2, <3>3, <4>1 DEF Within
      <3> QED BY <3>2, <3>3, <3>4
    <2>8. ASSUME NEW k \in 1..Len(F), NEW l \in 1..Len(F),
                 NEW a \in 1..Len(F[k].units), NEW b \in 1..Len(F[l].units),
                 F[k].units[a] = F[l].units[b]
          PROVE  k = l /\ a = b
      <3>01. PICK i \in 1..N : \E j \in 1..Len(s[i]) :
              k = EndOf(s, i - 1) + j /\ F[k] = SegmentMessages(e, i)[j]
              /\ j \in 1..Len(SegmentMessages(e, i))
        BY <2>6
      <3>1. PICK j \in 1..Len(s[i]) :
              k = EndOf(s, i - 1) + j /\ F[k] = SegmentMessages(e, i)[j]
              /\ j \in 1..Len(SegmentMessages(e, i))
        BY <3>01
      <3>02. PICK x \in 1..N : \E y \in 1..Len(s[x]) :
              l = EndOf(s, x - 1) + y /\ F[l] = SegmentMessages(e, x)[y]
              /\ y \in 1..Len(SegmentMessages(e, x))
        BY <2>6
      <3>2. PICK y \in 1..Len(s[x]) :
              l = EndOf(s, x - 1) + y /\ F[l] = SegmentMessages(e, x)[y]
              /\ y \in 1..Len(SegmentMessages(e, x))
        BY <3>02
      <3>0. PICK w : w = F[k].units[a]
        OBVIOUS
      <3>3. w = F[k].units[a] /\ w = F[l].units[b]
        BY <2>8, <3>0
      <3>4. w.at \in SegStart(e.segs, i)..((SegStart(e.segs, i) + e.segs[i].len) - 1)
        <4>1. PICK m : m = SegmentMessages(e, i)
          OBVIOUS
        <4>2. Within(m, SegStart(e.segs, i), SegStart(e.segs, i) + e.segs[i].len)
          BY <4>1, SegmentDiffer DEF N
        <4>3. F[k] = m[j] /\ j \in 1..Len(m)
          BY <3>1, <4>1
        <4>4. a \in 1..Len(m[j].units) /\ w = m[j].units[a]
          BY <3>3, <4>3
        <4>5. m[j].units[a].at \in SegStart(e.segs, i)..((SegStart(e.segs, i) + e.segs[i].len) - 1)
          BY <4>2, <4>3, <4>4, WithinAt
        <4> QED BY <4>4, <4>5
      <3>5. w.at \in SegStart(e.segs, x)..((SegStart(e.segs, x) + e.segs[x].len) - 1)
        <4>1. PICK m : m = SegmentMessages(e, x)
          OBVIOUS
        <4>2. Within(m, SegStart(e.segs, x), SegStart(e.segs, x) + e.segs[x].len)
          BY <4>1, SegmentDiffer DEF N
        <4>3. F[l] = m[y] /\ y \in 1..Len(m)
          BY <3>2, <4>1
        <4>4. b \in 1..Len(m[y].units) /\ w = m[y].units[b]
          BY <3>3, <4>3
        <4>5. m[y].units[b].at \in SegStart(e.segs, x)..((SegStart(e.segs, x) + e.segs[x].len) - 1)
          BY <4>2, <4>3, <4>4, WithinAt
        <4> QED BY <4>4, <4>5
      <3>6. /\ SegStart(e.segs, i) \in Nat /\ SegStart(e.segs, x) \in Nat
            /\ e.segs[i].len \in Nat /\ e.segs[x].len \in Nat
            /\ i < x => SegStart(e.segs, i) + e.segs[i].len <= SegStart(e.segs, x)
            /\ x < i => SegStart(e.segs, x) + e.segs[x].len <= SegStart(e.segs, i)
        <4>1. \A z \in 1..N : e.segs[z] \in [hole: BOOLEAN, len: Nat \ {0}]
          BY <1>1, ElementOfSeq DEF N
        <4>2. /\ N \in Nat /\ i \in 1..(N + 1) /\ x \in 1..(N + 1)
              /\ (i < x => x \in (i + 1)..(N + 1)) /\ (x < i => i \in (x + 1)..(N + 1))
          BY <2>1
        <4> QED BY <4>1, <4>2, <1>1, StartFacts DEF N
      <3>7. i = x
        <4>1. PICK si \in Nat : si = SegStart(e.segs, i)
          BY <3>6
        <4>2. PICK sx \in Nat : sx = SegStart(e.segs, x)
          BY <3>6
        <4>3. PICK li \in Nat : li = e.segs[i].len
          BY <3>6
        <4>4. PICK lx \in Nat : lx = e.segs[x].len
          BY <3>6
        <4>5. PICK u : u = w.at
          OBVIOUS
        <4>6. u \in si..((si + li) - 1) /\ u \in sx..((sx + lx) - 1)
          BY <3>4, <3>5, <4>1, <4>2, <4>3, <4>4, <4>5
        <4>7. (i < x => si + li <= sx) /\ (x < i => sx + lx <= si)
          BY <3>6, <4>1, <4>2, <4>3, <4>4
        <4>8. ~(i < x) /\ ~(x < i)
          BY ONLY <4>6, <4>7, si \in Nat, sx \in Nat, li \in Nat, lx \in Nat
        <4> QED BY <4>8, <2>1
      <3>8. j = y /\ a = b
        <4>1. PICK m : m = SegmentMessages(e, i)
          OBVIOUS
        <4>2. Differ(m)
          BY <4>1, SegmentDiffer DEF N
        <4>3. F[k] = m[j] /\ F[l] = m[y] /\ j \in 1..Len(m) /\ y \in 1..Len(m)
          BY <3>1, <3>2, <3>7, <4>1
        <4> QED BY <2>8, <4>2, <4>3 DEF Differ
      <3> QED BY <3>1, <3>2, <3>7, <3>8
    <2>9. Differ(F)
      BY <2>8 DEF Differ
    <2> QED BY <2>1, <2>7, <2>9
  <1> QED BY <1>2, <1>3

LEMMA HeaderFacts ==
  ASSUME NEW e
  PROVE  /\ Len(HeaderUnits(e)) = HeaderLen + 1 /\ HeaderLen + 1 \in Nat \ {0}
         /\ \A a \in 1..(HeaderLen + 1) :
              /\ HeaderUnits(e)[a].of = e /\ HeaderUnits(e)[a].part = "header"
              /\ HeaderUnits(e)[a].at = a - 1
  <1> DEFINE n == HeaderLen + 1
             h == HeaderUnits(e)
  <1>1. n \in Nat \ {0}
    BY FormatAssumption
  <1>2. /\ DOMAIN h = 1..n /\ h = [a \in 1..n |-> h[a]]
        /\ \A a \in 1..n : h[a] = [of |-> e, part |-> "header", at |-> a - 1]
    BY DEF HeaderUnits
  <1> HIDE DEF h, n
  <1>3. \A a \in 1..n : h[a] \in {h[k] : k \in 1..n}
    OBVIOUS
  <1>4. Len(h) = n
    BY <1>1, <1>2, <1>3, MakeSequence
  <1> QED BY <1>1, <1>2, <1>4 DEF h, n

\* Only the first unit of the first message opens the entry.
LEMMA MessagesDiffer ==
  ASSUME NEW e, IsSent(e)
  PROVE  /\ Differ(Messages(e))
         /\ \A k \in 1..Len(Messages(e)) : \A a \in 1..Len(Messages(e)[k].units) :
               Opens(Messages(e)[k].units[a]) <=> k = 1 /\ a = 1
  <1> DEFINE D == IF e.kind = "file" THEN DataMessages(e) ELSE <<>>
             h(b) == Message(HeaderUnits(e), b)
  <1>1. PICK b \in BOOLEAN : Messages(e) = <<h(b)>> \o D
    <2>1. CASE e.kind = "file"
      <3>1. Messages(e) = <<h(e.size = 0)>> \o D /\ (e.size = 0) \in BOOLEAN
        BY <2>1 DEF Messages
      <3> QED BY <3>1
    <2>2. CASE e.kind # "file"
      <3>1. Messages(e) = <<h(TRUE)>> /\ D = <<>>
        BY <2>2 DEF Messages
      <3>2. \A m : <<m>> \o <<>> = <<m>>
        OBVIOUS
      <3> QED BY <3>1, <3>2
    <2> QED BY <2>1, <2>2
  <1>2. D \in Seq(MsgSet({e}))
    <2>1. <<>> \in Seq(MsgSet({e}))
      OBVIOUS
    <2> QED BY <2>1, DataFacts
  <1>3. /\ Differ(D)
        /\ \A k \in 1..Len(D) : \A a \in 1..Len(D[k].units) : D[k].units[a].part = "data"
    <2>1. Differ(<<>>)
      BY DEF Differ
    <2> QED BY <2>1, DataDiffer
  <1> HIDE DEF D
  <1>4. PICK ms : ms = Messages(e)
    OBVIOUS
  <1>5. /\ Len(ms) = Len(D) + 1 /\ Len(D) \in Nat /\ ms[1] = h(b)
        /\ \A k \in 1..Len(D) : ms[k + 1] = D[k]
    <2>1. PICK x : x = h(b)
      OBVIOUS
    <2>2. ms = <<x>> \o D
      BY <1>1, <1>4, <2>1
    <2>3. /\ Len(<<x>> \o D) = Len(D) + 1 /\ Len(D) \in Nat /\ (<<x>> \o D)[1] = x
          /\ \A k \in 1..Len(D) : (<<x>> \o D)[k + 1] = D[k]
      BY <1>2
    <2> QED BY <2>1, <2>2, <2>3
  <1>6. /\ Len(ms[1].units) = HeaderLen + 1
        /\ \A a \in 1..Len(ms[1].units) :
             ms[1].units[a].part = "header" /\ ms[1].units[a].at = a - 1
    <2>1. ms[1].units = HeaderUnits(e)
      BY <1>5 DEF Message
    <2> QED BY <2>1, HeaderFacts
  <1>7. \A k \in 1..Len(ms) : k # 1 => k - 1 \in 1..Len(D) /\ ms[k] = D[k - 1]
    <2> SUFFICES ASSUME NEW k \in 1..Len(ms), k # 1
                 PROVE  k - 1 \in 1..Len(D) /\ ms[k] = D[k - 1]
      OBVIOUS
    <2>1. k - 1 \in 1..Len(D) /\ (k - 1) + 1 = k
      BY <1>5
    <2> QED BY <1>5, <2>1
  <1>8. ASSUME NEW k \in 1..Len(ms), NEW a \in 1..Len(ms[k].units)
        PROVE  k # 1 => ms[k].units[a].part = "data"
    BY <1>3, <1>7
  <1>9. ASSUME NEW k \in 1..Len(ms), NEW a \in 1..Len(ms[k].units)
        PROVE  Opens(ms[k].units[a]) <=> k = 1 /\ a = 1
    <2>1. CASE k = 1
      <3>1. a \in 1..(HeaderLen + 1) /\ HeaderLen + 1 \in Nat
        BY <1>6, <2>1, FormatAssumption
      <3> QED BY <1>6, <2>1, <3>1 DEF Opens
    <2>2. CASE k # 1
      BY <1>8, <2>2 DEF Opens
    <2> QED BY <2>1, <2>2
  <1>10. ASSUME NEW k \in 1..Len(ms), NEW l \in 1..Len(ms),
                NEW a \in 1..Len(ms[k].units), NEW c \in 1..Len(ms[l].units),
                ms[k].units[a] = ms[l].units[c]
         PROVE  k = l /\ a = c
    <2>1. CASE k = 1 /\ l = 1
      <3>1. a \in 1..(HeaderLen + 1) /\ c \in 1..(HeaderLen + 1) /\ HeaderLen + 1 \in Nat
        BY <1>6, <2>1, FormatAssumption
      <3>2. ms[1].units[a].at = a - 1 /\ ms[1].units[c].at = c - 1
        BY <1>6, <2>1
      <3>3. a - 1 = c - 1
        BY <3>2, <1>10, <2>1
      <3> QED BY <2>1, <3>1, <3>3
    <2>2. CASE k # 1 /\ l # 1
      <3>1. k - 1 \in 1..Len(D) /\ l - 1 \in 1..Len(D) /\ ms[k] = D[k - 1] /\ ms[l] = D[l - 1]
        BY <1>7, <2>2
      <3>2. k - 1 = l - 1 /\ a = c
        BY <1>3, <1>10, <3>1 DEF Differ
      <3> QED BY <3>2
    <2>3. CASE k = 1 /\ l # 1
      <3>1. ms[k].units[a].part = "header" /\ ms[l].units[c].part = "data"
        BY <1>6, <1>8, <2>3
      <3> QED BY <1>10, <3>1
    <2>4. CASE k # 1 /\ l = 1
      <3>1. ms[k].units[a].part = "data" /\ ms[l].units[c].part = "header"
        BY <1>6, <1>8, <2>4
      <3> QED BY <1>10, <3>1
    <2> QED BY <2>1, <2>2, <2>3, <2>4
  <1>11. Differ(ms)
    BY <1>10 DEF Differ
  <1> QED BY <1>4, <1>9, <1>11

LEMMA UnitsDistinct ==
  ASSUME NEW e, IsSent(e)
  PROVE  /\ Units(e) \in Seq(UnitSet({e})) /\ Len(Units(e)) \in Nat \ {0}
         /\ \A i \in 1..Len(Units(e)) : Units(e)[i].of = e
         /\ \A i, j \in 1..Len(Units(e)) : Units(e)[i] = Units(e)[j] => i = j
         /\ \A i \in 1..Len(Units(e)) : Opens(Units(e)[i]) <=> i = 1
  <1> DEFINE ms == Messages(e)
             N == Len(ms)
             us == [i \in 1..N |-> ms[i].units]
             W == Units(e)
             E(k) == EndOf(us, k)
             S == UnitSet({e})
  <1>1. ms \in Seq(MsgSet({e})) /\ ms # <<>> /\ ms[1].units = HeaderUnits(e)
    BY MessagesType
  <1>2. /\ Differ(ms)
        /\ \A k \in 1..Len(ms) : \A a \in 1..Len(ms[k].units) :
             Opens(ms[k].units[a]) <=> k = 1 /\ a = 1
    BY MessagesDiffer
  <1>3. W = FlattenSeq(us)
    BY DEF Units
  <1> HIDE DEF ms
  <1>4. N \in Nat \ {0} /\ \A k \in 1..N : ms[k].units \in Seq(S)
    <2>1. N \in Nat \ {0} /\ \A k \in 1..N : ms[k] \in MsgSet({e})
      BY <1>1, ElementOfSeq
    <2> QED BY <2>1 DEF MsgSet
  <1>5. us \in Seq(Seq(S)) /\ Len(us) = N /\ \A k \in 1..N : us[k] = ms[k].units
    <2>1. DOMAIN us = 1..N /\ us = [k \in 1..N |-> us[k]] /\ \A k \in 1..N : us[k] = ms[k].units
      OBVIOUS
    <2> HIDE DEF us, N
    <2> QED BY <1>4, <2>1, MakeSequence
  <1> HIDE DEF us, N, S, W
  <1>6. W \in Seq(S) /\ E(0) = 0
    BY <1>3, <1>5, FlattenParts
  <1>7. /\ \A n \in 0..(N - 1) : \A j \in 1..Len(us[n + 1]) :
             E(n) + j \in 1..Len(W) /\ W[E(n) + j] = us[n + 1][j]
        /\ \A k \in 1..Len(W) : \E n \in 0..(N - 1) : \E j \in 1..Len(us[n + 1]) : k = E(n) + j
    <2>1. \A n \in 0..(N - 1) : \A j \in 1..Len(us[n + 1]) :
             E(n) + j \in 1..Len(W) /\ W[E(n) + j] = us[n + 1][j]
      BY <1>3, <1>5, FlattenElements
    <2>2. \A k \in 1..Len(W) : \E n \in 0..(N - 1) : \E j \in 1..Len(us[n + 1]) : k = E(n) + j
      BY <1>3, <1>5, FlattenElements
    <2> QED BY <2>1, <2>2
  <1> HIDE DEF E
  <1>8. ASSUME NEW i \in 1..Len(W)
        PROVE  \E n \in 0..(N - 1) : \E j \in 1..Len(ms[n + 1].units) :
                 i = E(n) + j /\ W[i] = ms[n + 1].units[j] /\ n + 1 \in 1..N /\ n \in Nat
    <2>1. PICK n \in 0..(N - 1) : \E j \in 1..Len(us[n + 1]) : i = E(n) + j
      BY <1>7
    <2>2. PICK j \in 1..Len(us[n + 1]) : i = E(n) + j
      BY <2>1
    <2>3. n + 1 \in 1..N /\ n \in Nat
      BY <1>4
    <2>4. us[n + 1] = ms[n + 1].units /\ W[i] = us[n + 1][j]
      BY <1>5, <1>7, <2>2, <2>3
    <2>5. j \in 1..Len(ms[n + 1].units) /\ W[i] = ms[n + 1].units[j]
      BY <2>4
    <2> QED BY <2>2, <2>3, <2>5
  <1>9. E(0) + 1 = 1 /\ 1 \in 1..Len(W) /\ W[1] = ms[1].units[1] /\ 1 \in 1..N
        /\ 1 \in 1..Len(ms[1].units)
    <2>1. 0 \in 0..(N - 1) /\ 1 \in 1..N /\ 0 + 1 = 1
      BY <1>4
    <2>2. 1 \in 1..Len(us[1]) /\ us[1] = ms[1].units
      BY <1>1, <1>5, <2>1, HeaderFacts
    <2> QED BY <1>6, <1>7, <2>1, <2>2
  <1>10. ASSUME NEW i \in 1..Len(W)
         PROVE  Opens(W[i]) <=> i = 1
    <2>1. PICK n \in 0..(N - 1) : \E j \in 1..Len(ms[n + 1].units) :
                 i = E(n) + j /\ W[i] = ms[n + 1].units[j] /\ n + 1 \in 1..N /\ n \in Nat
      BY <1>8
    <2>2. PICK j \in 1..Len(ms[n + 1].units) :
                 i = E(n) + j /\ W[i] = ms[n + 1].units[j] /\ n + 1 \in 1..N /\ n \in Nat
      BY <2>1
    <2>3. Opens(W[i]) <=> n + 1 = 1 /\ j = 1
      BY <1>2, <2>2 DEF N
    <2>4. n + 1 = 1 /\ j = 1 => i = 1
      BY <1>9, <2>2
    <2>5. Opens(W[1])
      BY <1>2, <1>9 DEF N
    <2> QED BY <2>3, <2>4, <2>5
  <1>11. ASSUME NEW i \in 1..Len(W), NEW k \in 1..Len(W), W[i] = W[k]
         PROVE  i = k
    <2>1. PICK n \in 0..(N - 1) : \E j \in 1..Len(ms[n + 1].units) :
                 i = E(n) + j /\ W[i] = ms[n + 1].units[j] /\ n + 1 \in 1..N /\ n \in Nat
      BY <1>8
    <2>2. PICK j \in 1..Len(ms[n + 1].units) :
                 i = E(n) + j /\ W[i] = ms[n + 1].units[j] /\ n + 1 \in 1..N /\ n \in Nat
      BY <2>1
    <2>3. PICK x \in 0..(N - 1) : \E j1 \in 1..Len(ms[x + 1].units) :
                 k = E(x) + j1 /\ W[k] = ms[x + 1].units[j1] /\ x + 1 \in 1..N /\ x \in Nat
      BY <1>8
    <2>4. PICK y \in 1..Len(ms[x + 1].units) :
                 k = E(x) + y /\ W[k] = ms[x + 1].units[y] /\ x + 1 \in 1..N /\ x \in Nat
      BY <2>3
    <2>5. n + 1 = x + 1 /\ j = y
      BY <1>2, <1>11, <2>2, <2>4 DEF Differ, N
    <2>6. n = x
      BY <2>2, <2>4, <2>5
    <2> QED BY <2>2, <2>4, <2>5, <2>6
  <1>12. \A i \in 1..Len(W) : W[i].of = e
    <2> SUFFICES ASSUME NEW i \in 1..Len(W)
                 PROVE  W[i].of = e
      OBVIOUS
    <2>1. W[i] \in S
      BY <1>6, ElementOfSeq
    <2> QED BY <2>1, UnitOwner DEF S
  <1>13. Len(W) \in Nat \ {0}
    BY <1>6, <1>9
  <1> QED BY <1>6, <1>10, <1>11, <1>12, <1>13 DEF W, S

-----------------------------------------------------------------------------
(* In a stream of whole entries, each opened once, each lies in one place. *)

\* Unit i of r is unit p of its entry, and those before it are there.
Back(r, i, p) ==
  /\ p \in 1..Len(Units(r[i].of)) /\ p <= i
  /\ \A q \in 1..p : r[i - p + q] = Units(r[i].of)[q]

LEMMA BackFacts ==
  ASSUME NEW E, \A e \in E : IsSent(e), NEW r \in Seq(UnitSet(E)), NEW failed,
         Ordered(r, failed)
  PROVE  \A i \in 1..Len(r) : r[i].of \in E /\ \E p \in Nat : Back(r, i, p)
  <1>1. \A i \in 1..Len(r) : r[i].of \in E /\ IsSent(r[i].of)
    <2> SUFFICES ASSUME NEW i \in 1..Len(r)
                 PROVE  r[i].of \in E
      OBVIOUS
    <2>1. r[i] \in UnitSet(E)
      BY ElementOfSeq
    <2> QED BY <2>1, UnitOwner
  <1>2. ASSUME NEW i \in 1..Len(r), First(r[i])
        PROVE  Back(r, i, 1)
    <2>1. PICK e : e = r[i].of
      OBVIOUS
    <2>2. Len(Units(e)) \in Nat \ {0}
      BY <1>1, <2>1, UnitsDistinct
    <2>3. 1 \in 1..Len(Units(e)) /\ i - 1 + 1 = i /\ 1 <= i
      BY <2>2
    <2>4. r[i] = Units(e)[1]
      BY <1>2, <2>1 DEF First
    <2>5. \A q \in 1..1 : q = 1
      OBVIOUS
    <2> QED BY <2>1, <2>3, <2>4, <2>5 DEF Back
  <1> DEFINE S == {i \in Nat : i \in 1..Len(r) => \E p \in Nat : Back(r, i, p)}
  <1>3. 0 \in S
    OBVIOUS
  <1>4. ASSUME NEW i \in Nat, i \in S, i + 1 \in 1..Len(r)
        PROVE  \E p \in Nat : Back(r, i + 1, p)
    <2>1. CASE i = 0
      <3>1. r # <<>> /\ i + 1 = 1
        BY <1>4, <2>1
      <3>2. First(r[i + 1])
        BY <3>1 DEF Ordered
      <3> QED BY <1>2, <1>4, <3>2
    <2>2. CASE i # 0
      <3>1. i \in 1..Len(r) /\ i \in 1..(Len(r) - 1)
        BY <1>4, <2>2
      <3>2. PICK p \in Nat : Back(r, i, p)
        BY <1>4, <3>1
      <3>3. PICK e : e = r[i].of
        OBVIOUS
      <3>4. PICK W : W = Units(e)
        OBVIOUS
      <3>5. /\ p \in 1..Len(W) /\ p <= i /\ Len(W) \in Nat
            /\ \A q \in 1..p : r[i - p + q] = W[q]
            /\ \A a, b \in 1..Len(W) : W[a] = W[b] => a = b
            /\ \A a \in 1..Len(W) : W[a].of = e
        BY <1>1, <3>1, <3>2, <3>3, <3>4, UnitsDistinct DEF Back
      <3>6. r[i] = W[p]
        <4>1. p \in 1..p /\ i - p + p = i
          BY <3>5
        <4> QED BY <3>5, <4>1
      <3>7. CASE Successor(r[i], r[i + 1])
        <4>1. PICK a \in 1..(Len(W) - 1) : W[a] = r[i] /\ W[a + 1] = r[i + 1]
          BY <3>3, <3>4, <3>7 DEF Successor
        <4>2. a = p
          BY <3>5, <3>6, <4>1
        <4>3. p + 1 \in 1..Len(W) /\ p + 1 <= i + 1 /\ p + 1 \in Nat
          BY <3>5, <4>1, <4>2
        <4>4. r[i + 1] = W[p + 1] /\ r[i + 1].of = e
          BY <3>5, <4>1, <4>2, <4>3
        <4>5. ASSUME NEW q \in 1..(p + 1)
              PROVE  r[(i + 1) - (p + 1) + q] = W[q]
          <5>1. CASE q = p + 1
            <6>1. (i + 1) - (p + 1) + q = i + 1
              BY <5>1
            <6> QED BY <4>4, <5>1, <6>1
          <5>2. CASE q # p + 1
            <6>1. q \in 1..p /\ (i + 1) - (p + 1) + q = i - p + q
              BY <5>2
            <6> QED BY <3>5, <6>1
          <5> QED BY <5>1, <5>2
        <4>6. Back(r, i + 1, p + 1)
          BY <3>4, <4>3, <4>4, <4>5 DEF Back
        <4> QED BY <4>3, <4>6
      <3>8. CASE First(r[i + 1])
        BY <1>2, <1>4, <3>8
      <3> QED BY <3>1, <3>7, <3>8 DEF Ordered
    <2> QED BY <2>1, <2>2
  <1>5. Nat \subseteq S
    <2>1. \A i \in Nat : i \in S => i + 1 \in S
      BY <1>4
    <2> HIDE DEF S
    <2> QED BY <1>3, <2>1, Induction
  <1> QED BY <1>1, <1>5

\* The places of e in r, and that they hold e from place k + 1 on.
PlacesIn(r, e) == {i \in 1..Len(r) : r[i].of = e}
Holds(r, e, k) ==
  /\ PlacesIn(r, e) = (k + 1)..(k + Len(Units(e)))
  /\ \A j \in 1..Len(Units(e)) : r[k + j] = Units(e)[j]

Lies(r, e, k) ==
  \A q \in 1..Len(Units(e)) : k + q \in 1..Len(r) /\ r[k + q] = Units(e)[q]

\* Whole entries, one behind the other.
Entire(r) == Ordered(r, FALSE) /\ (r # <<>> => Complete(r[Len(r)]))

\* An entry that was begun is ended.
LEMMA Onward ==
  ASSUME NEW E, \A e \in E : IsSent(e), NEW r \in Seq(UnitSet(E)), Entire(r),
         NEW e \in E, NEW k \in Nat, k + 1 \in 1..Len(r), r[k + 1] = Units(e)[1]
  PROVE  Lies(r, e, k)
  <1> DEFINE W == Units(e)
             S == {q \in Nat : q \in 1..Len(W) => k + q \in 1..Len(r) /\ r[k + q] = W[q]}
  <1>1. /\ Len(W) \in Nat \ {0}
        /\ \A a, b \in 1..Len(W) : W[a] = W[b] => a = b
        /\ \A a \in 1..Len(W) : W[a].of = e
    BY UnitsDistinct
  <1>2. 0 \in S
    OBVIOUS
  <1> HIDE DEF W
  <1>3. ASSUME NEW q \in Nat, q \in S, q + 1 \in 1..Len(W)
        PROVE  k + (q + 1) \in 1..Len(r) /\ r[k + (q + 1)] = W[q + 1]
    <2>1. CASE q = 0
      BY <2>1 DEF W
    <2>2. CASE q # 0
      <3>1. q \in 1..Len(W) /\ q # Len(W)
        BY <1>1, <1>3, <2>2
      <3>2. k + q \in 1..Len(r) /\ r[k + q] = W[q] /\ W[q].of = e
        BY <1>1, <1>3, <3>1
      <3>3. ~Complete(r[k + q])
        <4>1. Len(W) \in 1..Len(W) /\ W[q] # W[Len(W)]
          BY <1>1, <3>1
        <4> QED BY <3>2, <4>1 DEF Complete, Last, W
      <3>4. k + q \in 1..(Len(r) - 1) /\ k + (q + 1) \in 1..Len(r) /\ k + (q + 1) = (k + q) + 1
        <4>1. k + q # Len(r)
          BY <3>2, <3>3 DEF Entire
        <4> QED BY <3>2, <4>1
      <3>5. Successor(r[k + q], r[(k + q) + 1])
        BY <3>3, <3>4 DEF Ordered, Entire
      <3>6. PICK a \in 1..(Len(W) - 1) : W[a] = W[q] /\ W[a + 1] = r[(k + q) + 1]
        BY <3>2, <3>5 DEF Successor, W
      <3>7. a = q
        BY <1>1, <3>1, <3>6
      <3> QED BY <3>4, <3>6, <3>7
    <2> QED BY <2>1, <2>2
  <1>4. Nat \subseteq S
    <2>1. \A q \in Nat : q \in S => q + 1 \in S
      BY <1>3
    <2> HIDE DEF S
    <2> QED BY <1>2, <2>1, Induction
  <1> QED BY <1>1, <1>4 DEF W, Lies

LEMMA WholeEntries ==
  ASSUME NEW E, \A e \in E : IsSent(e), NEW r \in Seq(UnitSet(E)), Entire(r), ReceivedOnce(r)
  PROVE  /\ \A i \in 1..Len(r) : \E k \in 0..(Len(r) - Len(Units(r[i].of))) : Holds(r, r[i].of, k)
         /\ \A i, j \in 1..Len(r) : r[i].of.path = r[j].of.path => r[i].of = r[j].of
         /\ \A i \in 1..Len(r) : \E s \in OpenUnits(r) : r[s].of = r[i].of
  <1>0. \A i \in 1..Len(r) : r[i].of \in E /\ \E p \in Nat : Back(r, i, p)
    BY BackFacts DEF Entire
  <1>1. ASSUME NEW i \in 1..Len(r)
        PROVE  \E k \in Nat :
                 /\ k + 1 \in OpenUnits(r) /\ r[k + 1] = Units(r[i].of)[1] /\ r[k + 1].of = r[i].of
                 /\ i \in (k + 1)..(k + Len(Units(r[i].of)))
    <2>1. PICK e : e = r[i].of
      OBVIOUS
    <2>2. e \in E
      BY <1>0, <2>1
    <2>3. PICK p \in Nat : Back(r, i, p)
      BY <1>0
    <2>4. PICK W : W = Units(e)
      OBVIOUS
    <2>5. /\ Len(W) \in Nat \ {0} /\ W[1].of = e /\ Opens(W[1])
      <3>1. Len(Units(e)) \in Nat \ {0}
        BY <2>2, UnitsDistinct
      <3>2. 1 \in 1..Len(Units(e))
        BY <3>1
      <3> QED BY <2>2, <2>4, <3>1, <3>2, UnitsDistinct
    <2>6. p \in 1..Len(W) /\ p <= i /\ \A q \in 1..p : r[i - p + q] = W[q]
      BY <2>1, <2>3, <2>4 DEF Back
    <2>7. PICK k \in Nat : k = i - p
      <3>1. i - p \in Nat
        BY <2>6
      <3> QED BY <3>1
    <2>8. 1 \in 1..p /\ k + 1 \in 1..Len(r) /\ i - p + 1 = k + 1 /\ i \in (k + 1)..(k + Len(W))
      BY <2>5, <2>6, <2>7
    <2>9. r[k + 1] = W[1]
      BY <2>6, <2>8
    <2> QED BY <2>1, <2>4, <2>5, <2>8, <2>9 DEF OpenUnits
  <1>2. ASSUME NEW i \in 1..Len(r), NEW j \in 1..Len(r), r[i].of.path = r[j].of.path
        PROVE  r[i].of = r[j].of
    <2>1. PICK k \in Nat : k + 1 \in OpenUnits(r) /\ r[k + 1].of = r[i].of
      BY <1>1
    <2>2. PICK l \in Nat : l + 1 \in OpenUnits(r) /\ r[l + 1].of = r[j].of
      BY <1>1
    <2>3. k + 1 = l + 1
      BY <1>2, <2>1, <2>2 DEF ReceivedOnce
    <2> QED BY <2>1, <2>2, <2>3
  <1>3. ASSUME NEW i \in 1..Len(r)
        PROVE  \E k \in 0..(Len(r) - Len(Units(r[i].of))) : Holds(r, r[i].of, k)
    <2>1. PICK e : e = r[i].of
      OBVIOUS
    <2>2. e \in E
      BY <1>0, <2>1
    <2>3. PICK W : W = Units(e)
      OBVIOUS
    <2>4. PICK k \in Nat :
                 /\ k + 1 \in OpenUnits(r) /\ r[k + 1] = W[1] /\ r[k + 1].of = e
                 /\ i \in (k + 1)..(k + Len(W))
      BY <1>1, <2>1, <2>3
    <2>5. \A q \in 1..Len(W) : k + q \in 1..Len(r) /\ r[k + q] = W[q]
      <3>1. k + 1 \in 1..Len(r)
        BY <2>4 DEF OpenUnits
      <3>2. r[k + 1] = Units(e)[1]
        BY <2>3, <2>4
      <3>3. Lies(r, e, k)
        BY <2>2, <3>1, <3>2, Onward
      <3> QED BY <2>3, <3>3 DEF Lies
    <2>6. Len(W) \in Nat \ {0} /\ \A q \in 1..Len(W) : W[q].of = e
      BY <2>2, <2>3, UnitsDistinct
    <2>7. k \in 0..(Len(r) - Len(W))
      <3>1. Len(W) \in 1..Len(W)
        BY <2>6
      <3>2. k + Len(W) \in 1..Len(r)
        BY <2>5, <3>1
      <3> QED BY <2>6, <3>2
    <2>8. ASSUME NEW j \in 1..Len(r), r[j].of = e
          PROVE  j \in (k + 1)..(k + Len(W))
      <3>1. PICK l \in Nat : l + 1 \in OpenUnits(r) /\ r[l + 1].of = e /\ j \in (l + 1)..(l + Len(W))
        BY <1>1, <2>3, <2>8
      <3>2. l + 1 = k + 1
        BY <2>4, <3>1 DEF ReceivedOnce
      <3>3. l = k
        BY <3>2
      <3> QED BY <3>1, <3>3
    <2>9. ASSUME NEW j \in (k + 1)..(k + Len(W))
          PROVE  j \in 1..Len(r) /\ r[j].of = e
      <3>1. j - k \in 1..Len(W) /\ k + (j - k) = j
        BY <2>6
      <3> QED BY <2>5, <2>6, <3>1
    <2>10. PlacesIn(r, e) = (k + 1)..(k + Len(W))
      BY <2>8, <2>9 DEF PlacesIn
    <2> QED BY <2>1, <2>3, <2>5, <2>7, <2>10 DEF Holds
  <1> QED BY <1>1, <1>2, <1>3

-----------------------------------------------------------------------------
(* Who has the entries: steps of the sequences.                            *)

LEMMA WaitingAppend ==
  ASSUME NEW S, NEW s \in Seq(S), NEW x \in S, WaitingOnce(s), x.path \notin WaitingPaths(s)
  PROVE  /\ WaitingOnce(Append(s, x))
         /\ WaitingPaths(Append(s, x)) = WaitingPaths(s) \cup {x.path}
  <1>1. PICK v : v = Append(s, x)
    OBVIOUS
  <1>2. /\ Len(v) = Len(s) + 1 /\ Len(s) \in Nat /\ v[Len(s) + 1] = x
        /\ \A i \in 1..Len(s) : v[i] = s[i]
    BY <1>1
  <1>3. \A i \in 1..Len(v) : i \in 1..Len(s) \/ i = Len(s) + 1
    BY <1>2
  <1>4. 1..Len(s) \subseteq 1..Len(v) /\ Len(s) + 1 \in 1..Len(v)
    BY <1>2
  <1>5. WaitingPaths(v) = WaitingPaths(s) \cup {x.path}
    BY <1>2, <1>3, <1>4 DEF WaitingPaths
  <1>6. WaitingOnce(v)
    <2> SUFFICES ASSUME NEW i \in 1..Len(v), NEW j \in 1..Len(v), v[i].path = v[j].path
                 PROVE  i = j
      BY DEF WaitingOnce
    <2>1. CASE i \in 1..Len(s) /\ j \in 1..Len(s)
      BY <1>2, <2>1 DEF WaitingOnce
    <2>2. CASE i = Len(s) + 1 /\ j \in 1..Len(s)
      BY <1>2, <2>2 DEF WaitingPaths
    <2>3. CASE i \in 1..Len(s) /\ j = Len(s) + 1
      BY <1>2, <2>3 DEF WaitingPaths
    <2> QED BY <1>3, <2>1, <2>2, <2>3
  <1> QED BY <1>1, <1>5, <1>6

LEMMA WaitingTail ==
  ASSUME NEW S, NEW s \in Seq(S), s # <<>>, WaitingOnce(s)
  PROVE  /\ WaitingOnce(Tail(s)) /\ Head(s).path \in WaitingPaths(s)
         /\ WaitingPaths(Tail(s)) = WaitingPaths(s) \ {Head(s).path}
  <1>1. PICK v : v = Tail(s)
    OBVIOUS
  <1>2. /\ Len(s) \in Nat \ {0} /\ Len(v) = Len(s) - 1 /\ Head(s) = s[1]
        /\ \A i \in 1..Len(v) : v[i] = s[i + 1]
    BY <1>1
  <1>3. /\ 1 \in 1..Len(s) /\ \A i \in 1..Len(v) : i + 1 \in 1..Len(s) /\ i + 1 # 1
        /\ \A i \in 1..Len(s) : i # 1 => i - 1 \in 1..Len(v) /\ (i - 1) + 1 = i
    BY <1>2
  <1>4. Head(s).path \in WaitingPaths(s)
    BY <1>2, <1>3 DEF WaitingPaths
  <1>5. WaitingOnce(v)
    <2> SUFFICES ASSUME NEW i \in 1..Len(v), NEW j \in 1..Len(v), v[i].path = v[j].path
                 PROVE  i = j
      BY DEF WaitingOnce
    <2>1. i + 1 = j + 1
      BY <1>2, <1>3 DEF WaitingOnce
    <2> QED BY <2>1
  <1>6. ASSUME NEW p \in WaitingPaths(s), p # Head(s).path
        PROVE  p \in WaitingPaths(v)
    <2>1. PICK i \in 1..Len(s) : p = s[i].path
      BY DEF WaitingPaths
    <2>2. i # 1
      BY <1>2, <1>6, <2>1
    <2>3. i - 1 \in 1..Len(v) /\ p = v[i - 1].path
      BY <1>2, <1>3, <2>1, <2>2
    <2> QED BY <2>3 DEF WaitingPaths
  <1>7. ASSUME NEW p \in WaitingPaths(v)
        PROVE  p \in WaitingPaths(s) /\ p # Head(s).path
    <2>1. PICK i \in 1..Len(v) : p = v[i].path
      BY DEF WaitingPaths
    <2>2. i + 1 \in 1..Len(s) /\ i + 1 # 1 /\ p = s[i + 1].path
      BY <1>2, <1>3, <2>1
    <2>3. p # s[1].path
      BY <1>3, <2>2 DEF WaitingOnce
    <2> QED BY <1>2, <2>2, <2>3 DEF WaitingPaths
  <1>8. WaitingPaths(v) = WaitingPaths(s) \ {Head(s).path}
    BY <1>6, <1>7
  <1> QED BY <1>1, <1>4, <1>5, <1>8

LEMMA QueuedAppend ==
  ASSUME NEW S, NEW q \in Seq(S), NEW e, IsSent(e), NEW ms \in Seq(S), ms = Messages(e),
         QueuedOnce(q), e.path \notin QueuedPaths(q)
  PROVE  /\ QueuedOnce(q \o ms)
         /\ QueuedPaths(q \o ms) = QueuedPaths(q) \cup {e.path}
  <1>1. PICK v : v = q \o ms
    OBVIOUS
  <1>2. /\ Len(v) = Len(q) + Len(ms) /\ Len(q) \in Nat /\ Len(ms) \in Nat \ {0}
        /\ \A i \in 1..Len(q) : v[i] = q[i]
        /\ \A i \in 1..Len(ms) : v[Len(q) + i] = ms[i]
    <2>1. ms # <<>>
      BY MessagesType
    <2> QED BY <1>1, <2>1, JoinFacts
  <1>3. /\ ms[1].units # <<>> /\ 1 \in 1..Len(ms[1].units) /\ ms[1].units[1].of = e
    <2>1. ms[1].units = HeaderUnits(e)
      BY MessagesType
    <2>2. Len(HeaderUnits(e)) \in Nat \ {0} /\ 1 \in 1..Len(HeaderUnits(e)) /\ Len(<<>>) = 0
          /\ 1 \in 1..(HeaderLen + 1)
      BY HeaderFacts
    <2>3. HeaderUnits(e)[1].of = e
      BY <2>2, HeaderFacts
    <2> QED BY <2>1, <2>2, <2>3
  <1>4. \A k \in 1..Len(ms) : \A a \in 1..Len(ms[k].units) : Opens(ms[k].units[a]) <=> k = 1 /\ a = 1
    BY MessagesDiffer
  <1>5. ASSUME NEW k \in 1..Len(ms)
        PROVE  Opening(ms[k]) <=> k = 1
    <2>1. CASE ms[k].units = <<>>
      BY <1>3, <2>1 DEF Opening
    <2>2. CASE ms[k].units # <<>>
      <3>1. ms[k] \in MsgSet({e})
        BY MessagesType, ElementOfSeq
      <3>2. ms[k].units \in Seq(UnitSet({e}))
        BY <3>1 DEF MsgSet
      <3>3. 1 \in 1..Len(ms[k].units)
        BY <2>2, <3>2
      <3> QED BY <1>4, <2>2, <3>3 DEF Opening
    <2> QED BY <2>1, <2>2
  <1>6. /\ \A i \in 1..Len(v) : i \in 1..Len(q) \/ (i - Len(q) \in 1..Len(ms) /\ Len(q) + (i - Len(q)) = i)
        /\ \A i \in 1..Len(q) : i \in 1..Len(v)
        /\ Len(q) + 1 \in 1..Len(v) /\ 1 \in 1..Len(ms) /\ Len(q) + 1 \notin 1..Len(q)
    BY <1>2
  <1>7. \A i \in OpenMessages(v) : i \in OpenMessages(q) \/ i = Len(q) + 1
    <2> SUFFICES ASSUME NEW i \in OpenMessages(v), i \notin 1..Len(q)
                 PROVE  i = Len(q) + 1
      BY <1>2 DEF OpenMessages
    <2>1. i - Len(q) \in 1..Len(ms) /\ v[i] = ms[i - Len(q)] /\ Opening(v[i]) /\ i \in 1..Len(v)
      BY <1>2, <1>6 DEF OpenMessages
    <2>2. i - Len(q) = 1
      BY <1>5, <2>1
    <2> QED BY <1>2, <2>1, <2>2
  <1>8. \A i \in OpenMessages(q) : i \in OpenMessages(v) /\ v[i] = q[i] /\ i # Len(q) + 1
    BY <1>2, <1>6 DEF OpenMessages
  <1>9. Len(q) + 1 \in OpenMessages(v) /\ PathOf(v[Len(q) + 1]) = e.path
    BY <1>2, <1>3, <1>5, <1>6 DEF OpenMessages, PathOf
  <1>10. QueuedPaths(v) = QueuedPaths(q) \cup {e.path}
    BY <1>7, <1>8, <1>9 DEF QueuedPaths
  <1>11. ASSUME NEW i \in OpenMessages(v), NEW j \in OpenMessages(v), PathOf(v[i]) = PathOf(v[j])
         PROVE  i = j
    <2>1. CASE i \in OpenMessages(q) /\ j \in OpenMessages(q)
      BY <1>8, <1>11, <2>1 DEF QueuedOnce
    <2>2. CASE i \in OpenMessages(q) /\ j = Len(q) + 1
      BY <1>8, <1>9, <1>11, <2>2 DEF QueuedPaths
    <2>3. CASE i = Len(q) + 1 /\ j \in OpenMessages(q)
      BY <1>8, <1>9, <1>11, <2>3 DEF QueuedPaths
    <2> QED BY <1>7, <2>1, <2>2, <2>3
  <1>12. ASSUME NEW i \in 1..Len(v), NEW j \in 2..Len(v[i].units)
         PROVE  ~Opens(v[i].units[j])
    <2>1. CASE i \in 1..Len(q)
      BY <1>2, <2>1 DEF QueuedOnce
    <2>2. CASE i \notin 1..Len(q)
      <3>1. i - Len(q) \in 1..Len(ms) /\ v[i] = ms[i - Len(q)]
        BY <1>2, <1>6, <2>2
      <3>2. j \in 1..Len(v[i].units) /\ j # 1
        OBVIOUS
      <3> QED BY <1>4, <3>1, <3>2
    <2> QED BY <2>1, <2>2
  <1> QED BY <1>1, <1>10, <1>11, <1>12 DEF QueuedOnce

LEMMA QueuedBegin ==
  ASSUME NEW S, NEW c \in Seq(S), NEW d \in Seq(S), QueuedOnce(c \o d)
  PROVE  QueuedOnce(c) /\ QueuedPaths(c) \subseteq QueuedPaths(c \o d)
  <1>1. PICK v : v = c \o d
    OBVIOUS
  <1>2. Len(v) = Len(c) + Len(d) /\ Len(c) \in Nat /\ Len(d) \in Nat
        /\ \A i \in 1..Len(c) : v[i] = c[i]
    BY <1>1, JoinFacts
  <1>3. \A i \in 1..Len(c) : i \in 1..Len(v)
    BY <1>2
  <1>4. \A i \in OpenMessages(c) : i \in OpenMessages(v) /\ v[i] = c[i]
    BY <1>2, <1>3 DEF OpenMessages
  <1>5. QueuedOnce(c)
    BY <1>1, <1>2, <1>3, <1>4 DEF QueuedOnce
  <1>6. QueuedPaths(c) \subseteq QueuedPaths(v)
    BY <1>4 DEF QueuedPaths
  <1> QED BY <1>1, <1>5, <1>6

LEMMA QueuedTail ==
  ASSUME NEW S, NEW q \in Seq(S), q # <<>>, QueuedOnce(q)
  PROVE  /\ QueuedOnce(Tail(q))
         /\ Opening(q[1]) => /\ PathOf(q[1]) \in QueuedPaths(q)
                             /\ QueuedPaths(Tail(q)) = QueuedPaths(q) \ {PathOf(q[1])}
         /\ ~Opening(q[1]) => QueuedPaths(Tail(q)) = QueuedPaths(q)
  <1>1. PICK v : v = Tail(q)
    OBVIOUS
  <1>2. /\ Len(q) \in Nat \ {0} /\ Len(v) = Len(q) - 1
        /\ \A i \in 1..Len(v) : v[i] = q[i + 1]
    BY <1>1
  <1>3. /\ 1 \in 1..Len(q) /\ \A i \in 1..Len(v) : i + 1 \in 1..Len(q) /\ i + 1 # 1
        /\ \A i \in 1..Len(q) : i # 1 => i - 1 \in 1..Len(v) /\ (i - 1) + 1 = i
    BY <1>2
  <1>4. \A i \in OpenMessages(v) : i + 1 \in OpenMessages(q) /\ i + 1 # 1 /\ v[i] = q[i + 1]
    BY <1>2, <1>3 DEF OpenMessages
  <1>5. \A i \in OpenMessages(q) : i # 1 => i - 1 \in OpenMessages(v) /\ v[i - 1] = q[i]
    <2> SUFFICES ASSUME NEW i \in OpenMessages(q), i # 1
                 PROVE  i - 1 \in OpenMessages(v) /\ v[i - 1] = q[i]
      OBVIOUS
    <2>1. i \in 1..Len(q) /\ Opening(q[i])
      BY DEF OpenMessages
    <2>2. i - 1 \in 1..Len(v) /\ v[i - 1] = q[i]
      BY <1>2, <1>3, <2>1
    <2> QED BY <2>1, <2>2 DEF OpenMessages
  <1>6. QueuedOnce(v)
    <2>1. ASSUME NEW i \in OpenMessages(v), NEW j \in OpenMessages(v), PathOf(v[i]) = PathOf(v[j])
          PROVE  i = j
      <3>1. i + 1 = j + 1
        BY <1>4, <2>1 DEF QueuedOnce
      <3> QED BY <3>1 DEF OpenMessages
    <2>2. ASSUME NEW i \in 1..Len(v), NEW j \in 2..Len(v[i].units)
          PROVE  ~Opens(v[i].units[j])
      BY <1>2, <1>3 DEF QueuedOnce
    <2> QED BY <2>1, <2>2 DEF QueuedOnce
  <1>7. CASE Opening(q[1])
    <2>1. 1 \in OpenMessages(q)
      BY <1>3, <1>7 DEF OpenMessages
    <2>2. PathOf(q[1]) \in QueuedPaths(q)
      BY <2>1 DEF QueuedPaths
    <2>3. \A i \in OpenMessages(v) : PathOf(v[i]) \in QueuedPaths(q) /\ PathOf(v[i]) # PathOf(q[1])
      BY <1>4, <2>1 DEF QueuedPaths, QueuedOnce
    <2>4. \A i \in OpenMessages(q) : PathOf(q[i]) # PathOf(q[1]) => PathOf(q[i]) \in QueuedPaths(v)
      BY <1>5 DEF QueuedPaths
    <2>5. QueuedPaths(v) = QueuedPaths(q) \ {PathOf(q[1])}
      BY <2>3, <2>4 DEF QueuedPaths
    <2> QED BY <1>1, <1>6, <1>7, <2>2, <2>5
  <1>8. CASE ~Opening(q[1])
    <2>1. \A i \in OpenMessages(q) : i # 1
      BY <1>8 DEF OpenMessages
    <2>2. \A i \in OpenMessages(q) : PathOf(q[i]) \in QueuedPaths(v)
      BY <1>5, <2>1 DEF QueuedPaths
    <2>3. \A i \in OpenMessages(v) : PathOf(v[i]) \in QueuedPaths(q)
      BY <1>4 DEF QueuedPaths
    <2>4. QueuedPaths(v) = QueuedPaths(q)
      BY <2>2, <2>3 DEF QueuedPaths
    <2> QED BY <1>1, <1>6, <1>8, <2>4
  <1> QED BY <1>7, <1>8

LEMMA ReceivedAppend ==
  ASSUME NEW U, NEW r \in Seq(U), NEW m, m.units \in Seq(U), ReceivedOnce(r),
         \A j \in 2..Len(m.units) : ~Opens(m.units[j]),
         Opening(m) => PathOf(m) \notin ReceivedPaths(r)
  PROVE  /\ ReceivedOnce(r \o m.units)
         /\ Opening(m) => ReceivedPaths(r \o m.units) = ReceivedPaths(r) \cup {PathOf(m)}
         /\ ~Opening(m) => ReceivedPaths(r \o m.units) = ReceivedPaths(r)
  <1>1. PICK v : v = r \o m.units
    OBVIOUS
  <1>2. PICK u \in Seq(U) : u = m.units
    OBVIOUS
  <1>3. /\ Len(v) = Len(r) + Len(u) /\ Len(r) \in Nat /\ Len(u) \in Nat /\ (u = <<>> <=> Len(u) = 0)
        /\ \A i \in 1..Len(r) : v[i] = r[i]
        /\ \A i \in 1..Len(u) : v[Len(r) + i] = u[i]
    BY <1>1, <1>2, JoinFacts
  <1>4. \A i \in OpenUnits(r) : i \in OpenUnits(v) /\ v[i] = r[i] /\ i \in 1..Len(r)
    <2>1. \A i \in 1..Len(r) : i \in 1..Len(v)
      BY <1>3
    <2> QED BY <1>3, <2>1 DEF OpenUnits
  <1>5. ASSUME NEW i \in OpenUnits(v), i \notin OpenUnits(r)
        PROVE  i = Len(r) + 1 /\ Opening(m) /\ v[i] = u[1]
    <2>1. i \in 1..Len(v) /\ Opens(v[i])
      BY DEF OpenUnits
    <2>2. i \notin 1..Len(r)
      BY <1>3, <1>5, <2>1 DEF OpenUnits
    <2>3. i - Len(r) \in 1..Len(u) /\ v[i] = u[i - Len(r)]
      <3>1. i - Len(r) \in 1..Len(u) /\ Len(r) + (i - Len(r)) = i
        BY <1>3, <2>1, <2>2
      <3> QED BY <1>3, <3>1
    <2>4. i - Len(r) = 1
      <3>1. i - Len(r) \notin 2..Len(u)
        BY <1>2, <2>1, <2>3
      <3> QED BY <1>3, <2>3, <3>1
    <2>5. i = Len(r) + 1
      BY <1>3, <2>1, <2>4
    <2>6. u # <<>>
      BY <1>3, <2>3
    <2> QED BY <1>2, <2>1, <2>3, <2>4, <2>5, <2>6 DEF Opening
  <1>6. CASE Opening(m)
    <2>1. u # <<>> /\ Opens(u[1]) /\ PathOf(m) = u[1].of.path
      BY <1>2, <1>6 DEF Opening, PathOf
    <2>2. Len(r) + 1 \in OpenUnits(v) /\ v[Len(r) + 1] = u[1]
      <3>1. 1 \in 1..Len(u) /\ Len(r) + 1 \in 1..Len(v)
        BY <1>3, <2>1
      <3>2. v[Len(r) + 1] = u[1]
        BY <1>3, <3>1
      <3> QED BY <2>1, <3>1, <3>2 DEF OpenUnits
    <2>3. ReceivedPaths(v) = ReceivedPaths(r) \cup {PathOf(m)}
      BY <1>4, <1>5, <2>1, <2>2 DEF ReceivedPaths
    <2>4. \A i \in OpenUnits(r) : v[i].of.path # PathOf(m)
      BY <1>4, <1>6 DEF ReceivedPaths
    <2>5. ReceivedOnce(v)
      BY <1>4, <1>5, <2>1, <2>2, <2>4 DEF ReceivedOnce
    <2> QED BY <1>1, <1>6, <2>3, <2>5
  <1>7. CASE ~Opening(m)
    <2>1. \A i \in OpenUnits(v) : i \in OpenUnits(r)
      BY <1>5, <1>7
    <2>2. ReceivedPaths(v) = ReceivedPaths(r) /\ ReceivedOnce(v)
      BY <1>4, <2>1 DEF ReceivedPaths, ReceivedOnce
    <2> QED BY <1>1, <1>7, <2>2
  <1> QED BY <1>6, <1>7

-----------------------------------------------------------------------------
(* Who has the entries: a step moves one entry, adds one, or loses some.   *)

LEMMA PartMove ==
  ASSUME NEW f, NEW g, NEW W, NEW lost, Parted(f, W, lost),
         NEW a \in Holders, NEW b \in Holders, a # b, NEW p \in f[a],
         g[a] = f[a] \ {p}, g[b] = f[b] \cup {p},
         \A k \in Holders : k # a /\ k # b => g[k] = f[k]
  PROVE  Parted(g, W, lost)
  <1>1. \A k \in Holders : \A x \in g[k] : x \in f[k] \/ (k = b /\ x = p)
    OBVIOUS
  <1>2. \A k \in Holders : p \in g[k] => k = b
    BY DEF Parted
  <1>3. \A k, l \in Holders : k # l => g[k] \cap g[l] = {}
    BY <1>1, <1>2 DEF Parted
  <1>4. \A k \in Holders : g[k] \subseteq W
    BY <1>1 DEF Parted
  <1>5. \A x \in W : (\E k \in Holders : x \in f[k]) => \E k \in Holders : x \in g[k]
    <2> SUFFICES ASSUME NEW x \in W, NEW k \in Holders, x \in f[k]
                 PROVE  \E l \in Holders : x \in g[l]
      OBVIOUS
    <2>1. CASE x = p
      BY <2>1
    <2>2. CASE x # p
      BY <2>2
    <2> QED BY <2>1, <2>2
  <1> QED BY <1>3, <1>4, <1>5 DEF Parted

LEMMA PartAdd ==
  ASSUME NEW f, NEW g, NEW W, NEW lost, Parted(f, W, lost),
         NEW b \in Holders, NEW p, p \notin W,
         g[b] = f[b] \cup {p},
         \A k \in Holders : k # b => g[k] = f[k]
  PROVE  Parted(g, W \cup {p}, lost)
  <1>1. \A k \in Holders : \A x \in g[k] : x \in f[k] \/ (k = b /\ x = p)
    OBVIOUS
  <1>2. \A k \in Holders : p \notin f[k]
    BY DEF Parted
  <1>3. \A k, l \in Holders : k # l => g[k] \cap g[l] = {}
    BY <1>1, <1>2 DEF Parted
  <1>4. \A k \in Holders : g[k] \subseteq W \cup {p}
    BY <1>1 DEF Parted
  <1>5. \A x \in W \cup {p} : x = p \/ (\E k \in Holders : x \in f[k]) => \E k \in Holders : x \in g[k]
    OBVIOUS
  <1>6. lost \/ \A x \in W \cup {p} : x = p \/ \E k \in Holders : x \in f[k]
    BY DEF Parted
  <1> QED BY <1>3, <1>4, <1>5, <1>6 DEF Parted

LEMMA PartLose ==
  ASSUME NEW f, NEW g, NEW W, NEW lost, Parted(f, W, lost), \A k \in Holders : g[k] \subseteq f[k]
  PROVE  Parted(g, W, TRUE)
  <1>1. \A k, l \in Holders : k # l => g[k] \cap g[l] = {}
    BY DEF Parted
  <1> QED BY <1>1 DEF Parted

LEMMA HolderFacts ==
  /\ 0 \in Holders /\ Workers \subseteq Holders /\ NWorkers + 1 \in Holders /\ NWorkers + 2 \in Holders
  /\ 0 \notin Workers /\ NWorkers + 1 \notin Workers /\ NWorkers + 2 \notin Workers
  /\ 0 # NWorkers + 1 /\ 0 # NWorkers + 2 /\ NWorkers + 1 # NWorkers + 2
  /\ \A k \in Holders : k = 0 \/ k \in Workers \/ k = NWorkers + 1 \/ k = NWorkers + 2
  BY ReadAssumption DEF Holders, Workers

LEMMA HeldAt ==
  ASSUME NEW s, NEW q, NEW r, NEW out
  PROVE  /\ Held(s, q, r, out)[0] = WaitingPaths(s)
         /\ \A t \in Workers : Held(s, q, r, out)[t] = QueuedPaths(q[t])
         /\ Held(s, q, r, out)[NWorkers + 1] = ReceivedPaths(r)
         /\ Held(s, q, r, out)[NWorkers + 2] = out
  BY HolderFacts DEF Held

\* The walker hands an entry to the workers.
LEMMA PlacedWait ==
  ASSUME NEW s, NEW q, NEW r, NEW out, NEW W, NEW lost, PlacedIn(s, q, r, out, W, lost),
         NEW S, s \in Seq(S), NEW x \in S, x.path \notin W
  PROVE  PlacedIn(Append(s, x), q, r, out, W \cup {x.path}, lost)
  <1>1. PICK f : f = Held(s, q, r, out)
    OBVIOUS
  <1>2. PICK g : g = Held(Append(s, x), q, r, out)
    OBVIOUS
  <1>3. Parted(f, W, lost) /\ WaitingOnce(s)
    BY <1>1 DEF PlacedIn
  <1>4. f[0] = WaitingPaths(s) /\ 0 \in Holders
    BY <1>1, HeldAt, HolderFacts
  <1>5. x.path \notin WaitingPaths(s)
    BY <1>3, <1>4 DEF Parted
  <1>6. WaitingOnce(Append(s, x)) /\ WaitingPaths(Append(s, x)) = WaitingPaths(s) \cup {x.path}
    BY <1>3, <1>5, WaitingAppend
  <1>7. g[0] = f[0] \cup {x.path}
    BY <1>2, <1>4, <1>6, HeldAt
  <1>8. \A k \in Holders : k # 0 => g[k] = f[k]
    BY <1>1, <1>2 DEF Held
  <1>9. Parted(g, W \cup {x.path}, lost)
    BY <1>3, <1>4, <1>7, <1>8, PartAdd
  <1> QED BY <1>2, <1>6, <1>9 DEF PlacedIn

\* The walker leaves an entry out.
LEMMA PlacedOut ==
  ASSUME NEW s, NEW q, NEW r, NEW out, NEW W, NEW lost, PlacedIn(s, q, r, out, W, lost),
         NEW p, p \notin W
  PROVE  PlacedIn(s, q, r, out \cup {p}, W \cup {p}, lost)
  <1>1. PICK f : f = Held(s, q, r, out)
    OBVIOUS
  <1>2. PICK g : g = Held(s, q, r, out \cup {p})
    OBVIOUS
  <1>3. PICK b : b = NWorkers + 2
    OBVIOUS
  <1>4. f[b] = out /\ g[b] = f[b] \cup {p} /\ b \in Holders
    BY <1>1, <1>2, <1>3, HeldAt, HolderFacts
  <1>5. \A k \in Holders : k # b => g[k] = f[k]
    BY <1>1, <1>2, <1>3, HeldAt, HolderFacts
  <1>6. Parted(f, W, lost)
    BY <1>1 DEF PlacedIn
  <1>7. Parted(g, W \cup {p}, lost)
    BY <1>4, <1>5, <1>6, PartAdd
  <1> QED BY <1>2, <1>7 DEF PlacedIn

\* A worker takes an entry to send it, or leaves it out.
LEMMA PlacedTake ==
  ASSUME NEW s, NEW q, NEW r, NEW out, NEW W, NEW lost, PlacedIn(s, q, r, out, W, lost),
         NEW S, s \in Seq(S), s # <<>>, \A x \in S : IsSent(x),
         NEW t \in Workers, NEW M, q[t] \in Seq(M), Messages(Head(s)) \in Seq(M),
         NEW v, v[t] = q[t] \o Messages(Head(s)), \A u \in Workers : u # t => v[u] = q[u]
  PROVE  PlacedIn(Tail(s), v, r, out, W, lost)
  <1>1. PICK f : f = Held(s, q, r, out)
    OBVIOUS
  <1>2. PICK g : g = Held(Tail(s), v, r, out)
    OBVIOUS
  <1>3. Parted(f, W, lost) /\ WaitingOnce(s) /\ QueuedOnce(q[t])
    BY <1>1 DEF PlacedIn
  <1>4. PICK e : e = Head(s)
    OBVIOUS
  <1>5. PICK p : p = e.path
    OBVIOUS
  <1>6. IsSent(e)
    <2>1. Head(s) \in S
      OBVIOUS
    <2> QED BY <1>4, <2>1
  <1>7. WaitingOnce(Tail(s)) /\ p \in WaitingPaths(s) /\ WaitingPaths(Tail(s)) = WaitingPaths(s) \ {p}
    BY <1>3, <1>4, <1>5, WaitingTail
  <1>8. f[0] = WaitingPaths(s) /\ f[t] = QueuedPaths(q[t]) /\ 0 \in Holders /\ t \in Holders /\ t # 0
    BY <1>1, HeldAt, HolderFacts
  <1>9. p \notin QueuedPaths(q[t])
    BY <1>3, <1>7, <1>8 DEF Parted
  <1>10. QueuedOnce(v[t]) /\ QueuedPaths(v[t]) = QueuedPaths(q[t]) \cup {p}
    <2>1. PICK a \in Seq(M) : a = q[t]
      OBVIOUS
    <2>2. PICK ms \in Seq(M) : ms = Messages(e)
      BY <1>4
    <2>3. QueuedOnce(a \o ms) /\ QueuedPaths(a \o ms) = QueuedPaths(a) \cup {e.path}
      BY <1>3, <1>5, <1>6, <1>9, <2>1, <2>2, QueuedAppend
    <2> QED BY <1>4, <1>5, <2>1, <2>2, <2>3
  <1>11. p \in f[0] /\ g[0] = f[0] \ {p} /\ g[t] = f[t] \cup {p}
    <2>1. g[0] = WaitingPaths(Tail(s)) /\ \A u \in Workers : g[u] = QueuedPaths(v[u])
      BY ONLY <1>2, HeldAt
    <2> QED BY <2>1, <1>7, <1>8, <1>10
  <1>12. \A k \in Holders : k # 0 /\ k # t => g[k] = f[k]
    BY <1>1, <1>2, HeldAt, HolderFacts
  <1>13. Parted(g, W, lost)
    BY <1>3, <1>8, <1>11, <1>12, PartMove
  <1>14. \A u \in Workers : QueuedOnce(v[u])
    BY <1>10 DEF PlacedIn
  <1> QED BY <1>2, <1>7, <1>13, <1>14 DEF PlacedIn

LEMMA PlacedSkip ==
  ASSUME NEW s, NEW q, NEW r, NEW out, NEW W, NEW lost, PlacedIn(s, q, r, out, W, lost),
         NEW S, s \in Seq(S), s # <<>>
  PROVE  PlacedIn(Tail(s), q, r, out \cup {Head(s).path}, W, lost)
  <1>1. PICK f : f = Held(s, q, r, out)
    OBVIOUS
  <1>2. PICK g : g = Held(Tail(s), q, r, out \cup {Head(s).path})
    OBVIOUS
  <1>3. PICK b : b = NWorkers + 2
    OBVIOUS
  <1>4. PICK p : p = Head(s).path
    OBVIOUS
  <1>5. Parted(f, W, lost) /\ WaitingOnce(s)
    BY <1>1 DEF PlacedIn
  <1>6. WaitingOnce(Tail(s)) /\ p \in WaitingPaths(s) /\ WaitingPaths(Tail(s)) = WaitingPaths(s) \ {p}
    BY <1>4, <1>5, WaitingTail
  <1>7. f[0] = WaitingPaths(s) /\ g[0] = f[0] \ {p} /\ g[b] = f[b] \cup {p}
        /\ 0 \in Holders /\ b \in Holders /\ b # 0
    BY <1>1, <1>2, <1>3, <1>4, <1>6, HeldAt, HolderFacts
  <1>8. \A k \in Holders : k # 0 /\ k # b => g[k] = f[k]
    BY <1>1, <1>2, <1>3, HeldAt, HolderFacts
  <1>9. Parted(g, W, lost)
    BY <1>5, <1>6, <1>7, <1>8, PartMove
  <1> QED BY <1>2, <1>6, <1>9 DEF PlacedIn

\* Main takes the first message of a worker.
LEMMA PlacedReceive ==
  ASSUME NEW s, NEW q, NEW r, NEW out, NEW W, NEW lost, PlacedIn(s, q, r, out, W, lost),
         NEW t \in Workers, NEW M, q[t] \in Seq(M), q[t] # <<>>,
         NEW U, r \in Seq(U), q[t][1].units \in Seq(U),
         NEW v, v[t] = Tail(q[t]), \A u \in Workers : u # t => v[u] = q[u]
  PROVE  PlacedIn(s, v, r \o q[t][1].units, out, W, lost)
  <1>1. PICK m : m = q[t][1]
    OBVIOUS
  <1>2. PICK f : f = Held(s, q, r, out)
    OBVIOUS
  <1>3. PICK g : g = Held(s, v, r \o m.units, out)
    OBVIOUS
  <1>4. PICK b : b = NWorkers + 1
    OBVIOUS
  <1>5. Parted(f, W, lost) /\ ReceivedOnce(r) /\ QueuedOnce(q[t])
    BY <1>2 DEF PlacedIn
  <1>6. /\ QueuedOnce(v[t])
        /\ Opening(m) => /\ PathOf(m) \in QueuedPaths(q[t])
                         /\ QueuedPaths(v[t]) = QueuedPaths(q[t]) \ {PathOf(m)}
        /\ ~Opening(m) => QueuedPaths(v[t]) = QueuedPaths(q[t])
    <2>1. PICK a \in Seq(M) : a = q[t]
      OBVIOUS
    <2> QED BY <1>1, <1>5, <2>1, QueuedTail
  <1>7. /\ f[t] = QueuedPaths(q[t]) /\ f[b] = ReceivedPaths(r) /\ t # b /\ t \in Holders /\ b \in Holders
        /\ g[t] = QueuedPaths(v[t]) /\ g[b] = ReceivedPaths(r \o m.units)
    BY <1>2, <1>3, <1>4, HeldAt, HolderFacts
  <1>8. Opening(m) => PathOf(m) \notin ReceivedPaths(r)
    BY <1>5, <1>6, <1>7 DEF Parted
  <1>9. \A j \in 2..Len(m.units) : ~Opens(m.units[j])
    <2>1. 1 \in 1..Len(q[t])
      OBVIOUS
    <2> QED BY <1>1, <1>5, <2>1 DEF QueuedOnce
  <1>10. /\ ReceivedOnce(r \o m.units)
         /\ Opening(m) => ReceivedPaths(r \o m.units) = ReceivedPaths(r) \cup {PathOf(m)}
         /\ ~Opening(m) => ReceivedPaths(r \o m.units) = ReceivedPaths(r)
    <2>1. m.units \in Seq(U)
      BY <1>1
    <2> QED BY <1>5, <1>8, <1>9, <2>1, ReceivedAppend
  <1>11. \A k \in Holders : k # t /\ k # b => g[k] = f[k]
    BY <1>2, <1>3, <1>4, HeldAt, HolderFacts
  <1>12. Parted(g, W, lost)
    <2>1. CASE Opening(m)
      <3>1. PICK p : p = PathOf(m)
        OBVIOUS
      <3>2. p \in f[t] /\ g[t] = f[t] \ {p} /\ g[b] = f[b] \cup {p}
        BY <1>6, <1>7, <1>10, <2>1, <3>1
      <3> QED BY <1>5, <1>7, <1>11, <3>2, PartMove
    <2>2. CASE ~Opening(m)
      <3>1. \A k \in Holders : g[k] = f[k]
        BY <1>6, <1>7, <1>10, <1>11, <2>2
      <3> QED BY <1>5, <3>1 DEF Parted
    <2> QED BY <2>1, <2>2
  <1>13. \A u \in Workers : QueuedOnce(v[u])
    BY <1>6 DEF PlacedIn
  <1> QED BY <1>1, <1>3, <1>10, <1>12, <1>13 DEF PlacedIn

\* A worker fails and drops what it had in hand.
LEMMA PlacedFail ==
  ASSUME NEW s, NEW q, NEW r, NEW out, NEW W, NEW lost, PlacedIn(s, q, r, out, W, lost),
         NEW t \in Workers, NEW M, NEW c \in Seq(M), NEW d \in Seq(M), q[t] = c \o d,
         NEW v, v[t] = c, \A u \in Workers : u # t => v[u] = q[u]
  PROVE  PlacedIn(s, v, r, out, W, TRUE)
  <1>1. QueuedOnce(c) /\ QueuedPaths(c) \subseteq QueuedPaths(q[t])
    BY QueuedBegin DEF PlacedIn
  <1>2. PICK f : f = Held(s, q, r, out)
    OBVIOUS
  <1>3. PICK g : g = Held(s, v, r, out)
    OBVIOUS
  <1>4. \A k \in Holders : g[k] \subseteq f[k]
    <2>1. \A k \in Holders : k # t => g[k] = f[k]
      BY <1>2, <1>3, HeldAt, HolderFacts
    <2>2. \A u \in Workers : g[u] = QueuedPaths(v[u]) /\ f[u] = QueuedPaths(q[u])
      BY ONLY <1>2, <1>3, HeldAt
    <2> QED BY <1>1, <2>1, <2>2
  <1>5. Parted(f, W, lost)
    BY <1>2 DEF PlacedIn
  <1>6. Parted(g, W, TRUE)
    BY <1>4, <1>5, PartLose
  <1>7. \A u \in Workers : QueuedOnce(v[u])
    BY <1>1 DEF PlacedIn
  <1> QED BY <1>3, <1>6, <1>7 DEF PlacedIn

\* What main takes comes behind what it has taken.
LEMMA ReceivedOn ==
  ASSUME TypeInv, Sizes, NEW t \in Workers, Receive(t), mpc = "read", UNCHANGED chunks
  PROVE  Received' = Received \o Queue(t)[1].units
  <1>0. PICK U : U = UnitSet(Sent)
    OBVIOUS
  <1>1. PICK m : m = Queue(t)[1]
    OBVIOUS
  <1>2. m = Head(chData[t]) /\ m \in MsgSet(Sent)
    <2>1. \A M : \A x \in Seq(M) : x # <<>> => x[1] \in M
      OBVIOUS
    <2> QED BY <1>1, <2>1, QueueType DEF Receive
  <1>3. m.units \in Seq(U)
    BY <1>0, <1>2 DEF MsgSet
  <1>4. ~Closed /\ ~Closed' /\ Stream' = Stream
    BY DEF Sizes, Closed, Stream
  <1>5. Stream \in Seq(U) /\ bufOut \in Seq(U)
    BY <1>0, ArchivedIsSent DEF TypeInv, Carried
  <1>6. Received' = Stream \o (bufOut \o m.units) /\ Received = Stream \o bufOut
    BY <1>2, <1>4 DEF Received, Receive
  <1>7. PICK u \in Seq(U) : u = m.units
    BY <1>3
  <1>8. (Stream \o bufOut) \o u = Stream \o (bufOut \o u)
    BY <1>5, ConcatAssociative
  <1> QED BY <1>1, <1>6, <1>7, <1>8

-----------------------------------------------------------------------------
(* Every entry that the walker has passed stays in one place.              *)

LEMMA WalkedStep ==
  ASSUME TypeInv, ~WalkerEnded, walkNo' = walkNo + 1, tree' = tree
  PROVE  /\ tree[walkNo].path \notin Walked
         /\ Walked' = Walked \cup {tree[walkNo].path}
         /\ Found(tree[walkNo]).path = tree[walkNo].path
  <1>1. PICK n \in 1..Len(tree) : n = walkNo
    BY TreeFacts DEF TypeInv, States, WalkerEnded
  <1>2. /\ Len(tree) \in Nat
        /\ \A i \in 1..Len(tree) : IsEntry(tree[i])
        /\ \A i, j \in 1..Len(tree) : tree[i].path = tree[j].path => i = j
    BY TreeFacts DEF TypeInv
  <1>3. \A i \in 1..(n - 1) : i \in 1..Len(tree) /\ i # n
    BY <1>2
  <1>4. tree[n].path \notin Walked
    BY <1>1, <1>2, <1>3 DEF Walked
  <1>5. Walked' = Walked \cup {tree[n].path}
    <2>1. walkNo' - 1 = n /\ walkNo - 1 = n - 1 /\ 1..n = (1..(n - 1)) \cup {n}
      BY <1>1
    <2>2. Walked' = {tree[i].path : i \in 1..n} /\ Walked = {tree[i].path : i \in 1..(n - 1)}
      BY <2>1 DEF Walked
    <2> QED BY <2>1, <2>2
  <1>6. Found(tree[n]).path = tree[n].path
    <2>1. PICK e : e = tree[n]
      OBVIOUS
    <2>2. DOMAIN e = Fields /\ {"path", "kind", "target"} \subseteq Fields
      BY <1>2, <2>1 DEF IsEntry, Fields
    <2>3. \A p : [e EXCEPT !.kind = "hardlink", !.target = p].path = e.path
      BY ONLY <2>2
    <2> QED BY <2>1, <2>3 DEF Found
  <1> QED BY <1>1, <1>4, <1>5, <1>6

LEMMA PlacedSame ==
  ASSUME Placed, Received' = Received, UNCHANGED <<tree, walkNo, chPaths, skipped, excluded>>,
         UNCHANGED <<chData, todo, working>>
  PROVE  Placed'
  BY DEF Placed, Queues, Queue, Walked, Failed

LEMMA WalkPlaced ==
  ASSUME TypeInv, Endings, Placed, Walker, Received' = Received
  PROVE  Placed'
  <1> DEFINE e == tree[walkNo]
             out == skipped \cup excluded
  <1>1. /\ ~WalkerEnded /\ walkNo' = walkNo + 1
        /\ UNCHANGED <<tree, working, todo, chData>>
    BY DEF Walker, WalkEntry, WalkExclude, WalkError, workerVars
  <1>2. e.path \notin Walked /\ Walked' = Walked \cup {e.path} /\ Found(e).path = e.path
    BY <1>1, WalkedStep
  <1>3. Queues' = Queues /\ Received' = Received /\ Failed' = Failed
    BY <1>1 DEF Queues, Queue, Failed
  <1>4. PlacedIn(chPaths, Queues, Received, out, Walked, Failed)
    BY DEF Placed
  <1> HIDE DEF e
  <1>5. CASE WalkEntry /\ RxPathsOpen
    <2>1. PICK x : x = Found(e)
      OBVIOUS
    <2>2. chPaths' = Append(chPaths, x) /\ UNCHANGED <<skipped, excluded>>
      BY <1>5, <2>1 DEF WalkEntry, leftOut, e
    <2>3. PICK S : S = Sent \cup {x}
      OBVIOUS
    <2>4. chPaths \in Seq(S) /\ x \in S
      <3>1. chPaths \in Seq(Sent)
        BY DEF TypeInv, Carried
      <3> QED BY <2>3, <3>1
    <2>5. PlacedIn(Append(chPaths, x), Queues, Received, out, Walked \cup {x.path}, Failed)
      BY <1>2, <1>4, <2>1, <2>4, PlacedWait
    <2> QED BY <1>2, <1>3, <2>1, <2>2, <2>5 DEF Placed
  <1>6. CASE WalkEntry /\ ~RxPathsOpen
    <2>1. Failed
      <3>1. PICK t \in Workers : working[t] # "running"
        <4>1. 1 \in Workers
          BY ReadAssumption DEF Workers
        <4> QED BY <1>6, <4>1 DEF RxPathsOpen
      <3>2. working[t] # "ok"
        BY <1>1 DEF Endings, WorkersEnd
      <3>3. working[t] = "err"
        BY <3>1, <3>2 DEF TypeInv, States
      <3> QED BY <3>3 DEF Failed
    <2>2. UNCHANGED <<chPaths, skipped, excluded>>
      BY <1>6 DEF WalkEntry, leftOut
    <2>3. PICK f : f = Held(chPaths, Queues, Received, out)
      OBVIOUS
    <2>4. Parted(f, Walked \cup {e.path}, Failed)
      BY <1>4, <2>1, <2>3 DEF PlacedIn, Parted
    <2>5. PlacedIn(chPaths, Queues, Received, out, Walked \cup {e.path}, Failed)
      BY <1>4, <2>3, <2>4 DEF PlacedIn
    <2> QED BY <1>2, <1>3, <2>2, <2>5 DEF Placed
  <1>7. CASE WalkExclude \/ WalkError
    <2>1. chPaths' = chPaths /\ (skipped \cup excluded)' = out \cup {e.path}
      BY <1>7 DEF WalkExclude, WalkError, e
    <2>2. PlacedIn(chPaths, Queues, Received, out \cup {e.path}, Walked \cup {e.path}, Failed)
      BY <1>2, <1>4, PlacedOut
    <2> QED BY <1>2, <1>3, <2>1, <2>2 DEF Placed
  <1> QED BY <1>5, <1>6, <1>7 DEF Walker

LEMMA WorkerPlaced ==
  ASSUME TypeInv, Placed, NEW t \in Workers, Worker(t), Received' = Received
  PROVE  Placed'
  <1> DEFINE out == skipped \cup excluded
  <1>1. PICK M : M = MsgSet(Sent)
    OBVIOUS
  <1>2. /\ chData \in [Workers -> Seq(M)] /\ todo \in [Workers -> Seq(M)]
        /\ working \in [Workers -> {"running", "ok", "err"}]
        /\ chPaths \in Seq(Sent) /\ \A x \in Sent : IsSent(x)
    BY <1>1, SentFacts DEF TypeInv, Carried, States
  <1>3. PICK c \in Seq(M) : c = chData[t]
    BY <1>2
  <1>4. PICK d \in Seq(M) : d = todo[t]
    BY <1>2
  <1>5. Walked' = Walked
    BY DEF Worker, WorkerTake, WorkerSkip, WorkerSend, WorkerReadError, WorkerEnd, Walked,
           walkerVars
  <1>6. PlacedIn(chPaths, Queues, Received, out, Walked, Failed)
    BY DEF Placed
  <1>7. Queues[t] = c \o d /\ Queues'[t] = Queue(t)'
    BY <1>3, <1>4 DEF Queues, Queue
  <1>8. \A u \in Workers : u # t => Queues'[u] = Queues[u]
    BY <1>2 DEF Worker, WorkerTake, WorkerSkip, WorkerSend, WorkerReadError, WorkerEnd, Queues, Queue,
                workerVars
  <1>9. CASE WorkerTake(t)
    <2>1. d = <<>> /\ chPaths # <<>> /\ chPaths' = Tail(chPaths)
          /\ UNCHANGED <<working, chData, skipped, excluded>>
          /\ todo'[t] = Messages(Head(chPaths))
      BY <1>2, <1>4, <1>9 DEF WorkerTake, Ready, leftOut
    <2>2. Head(chPaths) \in Sent
      BY <1>2, <2>1
    <2>3. Messages(Head(chPaths)) \in Seq(M)
      <3>1. PICK e \in Sent : e = Head(chPaths)
        BY <2>2
      <3>2. Messages(e) \in Seq(MsgSet({e})) /\ {e} \subseteq Sent
        BY <1>2, MessagesType
      <3> QED BY <1>1, <3>1, <3>2, SetsGrow
    <2>4. Queues[t] = c /\ c \o <<>> = c
      BY <1>7, <2>1
    <2>5. Queues'[t] = c \o Messages(Head(chPaths))
      BY <1>3, <1>7, <2>1 DEF Queue
    <2>6. PICK v : v = Queues'
      OBVIOUS
    <2>7. PlacedIn(Tail(chPaths), v, Received, out, Walked, Failed)
      <3>1. v[t] = Queues[t] \o Messages(Head(chPaths)) /\ Queues[t] \in Seq(M)
            /\ \A u \in Workers : u # t => v[u] = Queues[u]
        BY <1>8, <2>4, <2>5, <2>6
      <3> QED BY <1>2, <1>6, <2>1, <2>3, <3>1, PlacedTake
    <2>8. Failed' = Failed
      BY <2>1 DEF Failed
    <2> QED BY <1>5, <2>1, <2>6, <2>7, <2>8 DEF Placed
  <1>10. CASE WorkerSkip(t)
    <2>1. chPaths # <<>> /\ chPaths' = Tail(chPaths) /\ UNCHANGED <<working, todo, chData, excluded>>
          /\ skipped' = skipped \cup {Head(chPaths).path}
      BY <1>10 DEF WorkerSkip, workerVars
    <2>2. Queues' = Queues /\ Failed' = Failed
      BY <2>1 DEF Queues, Queue, Failed
    <2>3. (skipped \cup excluded)' = out \cup {Head(chPaths).path}
      BY <2>1
    <2>4. PlacedIn(Tail(chPaths), Queues, Received, out \cup {Head(chPaths).path}, Walked, Failed)
      BY <1>2, <1>6, <2>1, PlacedSkip
    <2> QED BY <1>5, <2>1, <2>2, <2>3, <2>4 DEF Placed
  <1>11. CASE WorkerSend(t)
    <2>1. /\ d # <<>> /\ UNCHANGED <<working, chPaths, skipped, excluded>>
          /\ chData'[t] = Append(c, Head(d)) /\ todo'[t] = Tail(d)
      BY <1>2, <1>3, <1>4, <1>11 DEF WorkerSend, leftOut
    <2>2. Append(c, Head(d)) \o Tail(d) = c \o d
      <3>1. /\ Head(d) \in M /\ Tail(d) \in Seq(M) /\ <<Head(d)>> \in Seq(M)
            /\ d = <<Head(d)>> \o Tail(d) /\ Append(c, Head(d)) = c \o <<Head(d)>>
        BY <2>1
      <3>2. (c \o <<Head(d)>>) \o Tail(d) = c \o (<<Head(d)>> \o Tail(d))
        BY <3>1, ConcatAssociative
      <3> QED BY <3>1, <3>2
    <2>3. Queues'[t] = Queues[t]
      BY <1>7, <2>1, <2>2 DEF Queue
    <2>4. Queues' = Queues
      BY <1>8, <2>3 DEF Queues
    <2>5. Failed' = Failed
      BY <2>1 DEF Failed
    <2> QED BY <1>5, <1>6, <2>1, <2>4, <2>5 DEF Placed
  <1>12. CASE WorkerReadError(t)
    <2>1. chData'[t] = c /\ todo'[t] = <<>> /\ working'[t] = "err"
          /\ UNCHANGED <<chPaths, skipped, excluded>>
      BY <1>2, <1>3, <1>12 DEF WorkerReadError, leftOut
    <2>2. Failed' /\ Failed' \in BOOLEAN
      BY <2>1 DEF Failed
    <2>3. PICK v : v = Queues'
      OBVIOUS
    <2>4. v[t] = c
      <3>1. c \o <<>> = c
        OBVIOUS
      <3> QED BY <1>7, <2>1, <2>3, <3>1 DEF Queue
    <2>5. PlacedIn(chPaths, v, Received, out, Walked, TRUE)
      BY <1>6, <1>7, <1>8, <2>3, <2>4, PlacedFail
    <2>6. Parted(Held(chPaths, v, Received, out), Walked, Failed')
      BY <2>2, <2>5 DEF PlacedIn, Parted
    <2>7. PlacedIn(chPaths, v, Received, out, Walked, Failed')
      BY <2>5, <2>6 DEF PlacedIn
    <2> QED BY <1>5, <2>1, <2>3, <2>7 DEF Placed
  <1>13. CASE WorkerEnd(t)
    <2>1. UNCHANGED <<tree, walkNo, chPaths, skipped, excluded, chData, todo>>
          /\ working' = [working EXCEPT ![t] = "ok"] /\ working[t] = "running"
      BY <1>13 DEF WorkerEnd, Ready, leftOut, walkerVars
    <2>2. Queues' = Queues
      BY <2>1 DEF Queues, Queue
    <2>3. Failed' = Failed
      <3>1. \A u \in Workers : working'[u] = "err" <=> working[u] = "err"
        BY <1>2, <2>1
      <3> QED BY <3>1 DEF Failed
    <2> QED BY <1>5, <1>6, <2>1, <2>2, <2>3 DEF Placed
  <1> QED BY <1>9, <1>10, <1>11, <1>12, <1>13 DEF Worker

LEMMA ReceivePlaced ==
  ASSUME TypeInv, Sizes, Placed, NEW t \in Workers, Receive(t), mpc = "read",
         UNCHANGED <<chunks, todo, working, chPaths, tree, walkNo, skipped, excluded>>
  PROVE  Placed'
  <1>0. PICK U : U = UnitSet(Sent)
    OBVIOUS
  <1>1. PICK r : r = Received
    OBVIOUS
  <1>2. PICK q : q = Queue(t)
    OBVIOUS
  <1>3. PICK m : m = q[1]
    OBVIOUS
  <1>4. /\ q \in Seq([units: Seq(U), last: BOOLEAN]) /\ q # <<>> /\ m = Head(chData[t])
        /\ Tail(chData[t]) \o todo[t] = Tail(q)
    BY <1>0, <1>2, <1>3, QueueType DEF Receive, MsgSet
  <1>5. r \in Seq(U) /\ m.units \in Seq(U)
    <2>1. m \in [units: Seq(U), last: BOOLEAN]
      <3>1. \A M : \A x \in Seq(M) : x # <<>> => x[1] \in M
        OBVIOUS
      <3> QED BY <1>3, <1>4, <3>1
    <2>2. m.units \in Seq(U)
      BY ONLY <2>1
    <2> QED BY <1>0, <1>1, <2>2, ReceivedType
  <1>6. Received' = r \o m.units
    BY <1>0, <1>1, <1>2, <1>3, ReceivedOn
  <1>7. chData \in [Workers -> Seq(MsgSet(Sent))]
    BY DEF TypeInv, Carried
  <1>8. PICK v : v = Queues'
    OBVIOUS
  <1>9. Queues[t] = q /\ v[t] = Tail(q)
    BY <1>2, <1>4, <1>7, <1>8 DEF Queues, Queue, Receive
  <1>10. \A u \in Workers : u # t => v[u] = Queues[u]
    BY <1>7, <1>8 DEF Queues, Queue, Receive
  <1>11. PlacedIn(chPaths, v, r \o m.units, skipped \cup excluded, Walked, Failed)
    <2>1. PlacedIn(chPaths, Queues, r, skipped \cup excluded, Walked, Failed)
      BY <1>1 DEF Placed
    <2>2. Queues[t] \in Seq([units: Seq(U), last: BOOLEAN]) /\ Queues[t] # <<>>
          /\ Queues[t][1] = m /\ v[t] = Tail(Queues[t])
      BY <1>3, <1>4, <1>9
    <2> QED BY <1>5, <1>10, <2>1, <2>2, PlacedReceive
  <1>12. Walked' = Walked /\ Failed' = Failed
    BY DEF Walked, Failed
  <1> QED BY <1>6, <1>8, <1>11, <1>12 DEF Placed

LEMMA PlacedStep ==
  ASSUME TypeInv, Sizes, Endings, Placed, [Next]_vars
  PROVE  Placed'
  <1> USE DEF vars, walkerVars, workerVars, readVars, mainVars, leftOut
  <1>1. CASE ReadSticky
    <2>1. PICK t \in Workers : t = channelIndex
      BY <1>1 DEF ReadSticky, TypeInv, States
    <2> QED BY <1>1, <2>1, ReceivePlaced DEF ReadSticky, Filling
  <1>2. CASE ReadSelected
    <2>1. PICK t \in Workers : Receive(t)
      BY <1>2 DEF ReadSelected
    <2> QED BY <1>2, <2>1, ReceivePlaced DEF ReadSelected, Selecting, Filling
  <1>3. CASE ~ReadSticky /\ ~ReadSelected
    <2>1. Received' = Received
      BY <1>3, ReceivedKept
    <2>2. CASE Walker
      BY <2>1, <2>2, WalkPlaced
    <2>3. ASSUME NEW t \in Workers, Worker(t)
          PROVE  Placed'
      BY <2>1, <2>3, WorkerPlaced
    <2>4. CASE Main \/ Ended \/ UNCHANGED vars
      <3>1. UNCHANGED <<tree, walkNo, chPaths, skipped, excluded, chData, todo, working>>
        BY <1>3, <2>4 DEF Main, ReadDisconnected, ReadChunk, ReadLastChunk, SendOn, Stop,
                          ProgressError, Join, JoinedAll, Ended
      <3> QED BY <2>1, <3>1, PlacedSame
    <2> QED BY <2>2, <2>3, <2>4 DEF Next
  <1> QED BY <1>1, <1>2, <1>3

-----------------------------------------------------------------------------
(* What has ended stays so.                                                *)

LEMMA WorkersEndStep ==
  ASSUME TypeInv, WorkersEnd, [Next]_vars
  PROVE  WorkersEnd'
  <1> USE DEF vars, walkerVars, workerVars, readVars, mainVars, leftOut
  <1>0. working \in [Workers -> {"running", "ok", "err"}]
    BY DEF TypeInv, States
  <1>1. CASE Walker
    BY <1>1 DEF Walker, WalkEntry, WalkExclude, WalkError, WorkersEnd
  <1>2. ASSUME NEW t \in Workers, Worker(t)
        PROVE  WorkersEnd'
    <2>1. CASE WorkerTake(t) \/ WorkerSkip(t)
      BY <2>1 DEF WorkerTake, WorkerSkip, WorkersEnd
    <2>2. CASE WorkerSend(t)
      BY <2>2 DEF WorkerSend, WorkersEnd, WalkerEnded
    <2>3. CASE WorkerReadError(t)
      BY <2>3, <1>0 DEF WorkerReadError, WorkersEnd, WalkerEnded
    <2>4. CASE WorkerEnd(t)
      BY <2>4, <1>0 DEF WorkerEnd, WorkersEnd, WalkerEnded
    <2> QED BY <1>2, <2>1, <2>2, <2>3, <2>4 DEF Worker
  <1>3. CASE Main \/ Ended \/ UNCHANGED vars
    <2>1. UNCHANGED <<tree, walkNo, chPaths, working>>
      BY <1>3 DEF Main, ReadSticky, ReadSelected, ReadDisconnected, ReadChunk, ReadLastChunk,
                  SendOn, Stop, ProgressError, Join, JoinedAll, Ended
    <2> QED BY <2>1 DEF WorkersEnd, WalkerEnded
  <1> QED BY <1>1, <1>2, <1>3 DEF Next

LEMMA ChannelsEndStep ==
  ASSUME TypeInv, Sizes, ChannelsEnd, [Next]_vars
  PROVE  ChannelsEnd'
  <1> USE DEF vars, walkerVars, workerVars, readVars, mainVars, leftOut
  <1>0. /\ channelFinished \in [Workers -> BOOLEAN] /\ chData \in [Workers -> Seq(MsgSet(Sent))]
        /\ channelIndex \in Workers \cup {NoWorker}
    BY DEF TypeInv, States, Carried
  <1>1. ASSUME UNCHANGED <<channelFinished, chunks>>,
               \A t \in Workers : chData[t] = <<>> /\ channelFinished[t] => chData'[t] = <<>>
        PROVE  ChannelsEnd'
    BY <1>1 DEF ChannelsEnd, Closed, AllFinished
  <1>2. ASSUME NEW t \in Workers, Receive(t), UNCHANGED <<channelFinished, chunks>>
        PROVE  ChannelsEnd'
    BY <1>0, <1>1, <1>2 DEF Receive
  <1>3. CASE ReadSticky
    <2>1. channelIndex \in Workers
      BY <1>0, <1>3 DEF ReadSticky
    <2> QED BY <1>2, <1>3, <2>1 DEF ReadSticky
  <1>4. CASE ReadSelected
    BY <1>2, <1>4 DEF ReadSelected
  <1>5. CASE ReadDisconnected
    <2>1. PICK t \in Workers : chData[t] = <<>>
                               /\ channelFinished' = [channelFinished EXCEPT ![t] = TRUE]
      BY <1>5 DEF ReadDisconnected, Disconnected
    <2>2. UNCHANGED <<chunks, chData>>
      BY <1>5 DEF ReadDisconnected
    <2>3. \A u \in Workers : channelFinished'[u] <=> channelFinished[u] \/ u = t
      BY <1>0, <2>1
    <2> QED BY <2>1, <2>2, <2>3 DEF ChannelsEnd, Closed, AllFinished
  <1>6. CASE ReadChunk
    <2>1. PICK m : m = [units |-> SubSeq(bufOut, 1, ChunkLen), last |-> FALSE]
      OBVIOUS
    <2>2. chunks' = Append(chunks, m) /\ ~m.last /\ UNCHANGED <<channelFinished, chData>>
      BY <1>6, <2>1 DEF ReadChunk
    <2>3. Closed' => Closed
      BY <2>2, ChunksAppend DEF Closed
    <2> QED BY <2>2, <2>3 DEF ChannelsEnd, AllFinished
  <1>7. CASE ReadLastChunk
    <2>1. AllFinished /\ UNCHANGED <<channelFinished, chData>>
      BY <1>7 DEF ReadLastChunk, ChunkReady, Filling
    <2> QED BY <2>1 DEF ChannelsEnd, AllFinished
  <1>8. CASE SendOn \/ Stop \/ ProgressError \/ Join \/ JoinedAll \/ Walker \/ Ended \/ UNCHANGED vars
    <2>1. UNCHANGED <<channelFinished, chunks, chData>>
      BY <1>8 DEF SendOn, Stop, ProgressError, Join, JoinedAll, Walker, WalkEntry, WalkExclude,
                  WalkError, Ended
    <2> QED BY <1>1, <2>1
  <1>9. ASSUME NEW t \in Workers, Worker(t)
        PROVE  ChannelsEnd'
    <2>1. CASE WorkerSend(t)
      <3>1. ~channelFinished[t]
        BY <2>1 DEF WorkerSend, Sizes
      <3>2. \A u \in Workers : u # t => chData'[u] = chData[u]
        BY <1>0, <2>1 DEF WorkerSend
      <3>3. UNCHANGED <<channelFinished, chunks>>
        BY <2>1 DEF WorkerSend
      <3> QED BY <1>1, <3>1, <3>2, <3>3
    <2>2. CASE ~WorkerSend(t)
      <3>1. UNCHANGED <<channelFinished, chunks, chData>>
        BY <1>9, <2>2 DEF Worker, WorkerTake, WorkerSkip, WorkerReadError, WorkerEnd
      <3> QED BY <1>1, <3>1
    <2> QED BY <2>1, <2>2
  <1> QED BY <1>3, <1>4, <1>5, <1>6, <1>7, <1>8, <1>9 DEF Next, Main

LEMMA HandlesEndStep ==
  ASSUME TypeInv, HandlesEnd, [Next]_vars
  PROVE  HandlesEnd'
  <1> USE DEF vars, walkerVars, workerVars, readVars, mainVars, leftOut
  <1>0. NHandles \in Nat /\ \A h \in 1..NHandles : h > 1 => h - 1 \in Workers
    BY ReadAssumption DEF NHandles, Workers
  <1>1. WalkerEnded => WalkerEnded'
    <2>1. CASE Walker
      BY <2>1 DEF Walker, WalkEntry, WalkExclude, WalkError
    <2>2. CASE ~Walker
      <3>1. UNCHANGED <<tree, walkNo>>
        BY <2>2 DEF Next, Worker, WorkerTake, WorkerSkip, WorkerSend, WorkerReadError, WorkerEnd,
                    Main, ReadSticky, ReadSelected, ReadDisconnected, ReadChunk, ReadLastChunk,
                    SendOn, Stop, ProgressError, Join, JoinedAll, Ended
      <3> QED BY <3>1 DEF WalkerEnded
    <2> QED BY <2>1, <2>2
  <1>2. \A t \in Workers : working[t] # "running" => working'[t] = working[t]
    BY WorkingStep
  <1>3. \A h \in 1..NHandles :
          HandleEnded(h) /\ ~HandleFailed(h) => HandleEnded(h)' /\ ~HandleFailed(h)'
    <2> SUFFICES ASSUME NEW h \in 1..NHandles, HandleEnded(h), ~HandleFailed(h)
                 PROVE  HandleEnded(h)' /\ ~HandleFailed(h)'
      OBVIOUS
    <2>1. CASE h = 1
      BY <1>1, <2>1 DEF HandleEnded, HandleFailed
    <2>2. CASE h # 1
      <3>1. h - 1 \in Workers /\ h > 1
        BY <1>0, <2>2
      <3> QED BY <1>2, <2>2, <3>1 DEF HandleEnded, HandleFailed
    <2> QED BY <2>1, <2>2
  <1>4. 1..joined \subseteq 1..NHandles
    BY <1>0 DEF HandlesEnd
  <1>5. CASE joined' = joined
    BY <1>3, <1>4, <1>5 DEF HandlesEnd
  <1>6. CASE joined' # joined
    <2>1. Join
      BY <1>6 DEF Next, Walker, WalkEntry, WalkExclude, WalkError, Worker, WorkerTake, WorkerSkip,
                  WorkerSend, WorkerReadError, WorkerEnd, Main, ReadSticky, ReadSelected,
                  ReadDisconnected, ReadChunk, ReadLastChunk, SendOn, Stop, ProgressError, JoinedAll,
                  Ended
    <2>2. /\ joined < NHandles /\ joined' = joined + 1
          /\ HandleEnded(joined + 1) /\ ~HandleFailed(joined + 1)
      BY <1>6, <2>1 DEF Join
    <2>3. joined \in 0..NHandles
      BY DEF HandlesEnd
    <2>4. joined + 1 \in 1..NHandles /\ joined' \in 0..NHandles
          /\ \A h \in 1..joined' : h \in 1..joined \/ h = joined + 1
      BY <1>0, <2>2, <2>3
    <2>5. \A h \in 1..joined' : h \in 1..NHandles /\ HandleEnded(h) /\ ~HandleFailed(h)
      BY <1>4, <2>2, <2>4 DEF HandlesEnd
    <2> QED BY <1>3, <2>4, <2>5 DEF HandlesEnd
  <1> QED BY <1>5, <1>6

LEMMA StreamEndsStep ==
  ASSUME TypeInv, StreamEnds, [Next]_vars
  PROVE  StreamEnds'
  <1> USE DEF vars, walkerVars, workerVars, readVars, mainVars, leftOut
  <1>1. ASSUME UNCHANGED <<chunks, mpc, result, stopped, joined>>
        PROVE  StreamEnds'
    BY <1>1 DEF StreamEnds
  <1>2. CASE ReadChunk \/ ReadLastChunk
    <2>1. PICK m : chunks' = Append(chunks, m)
      BY <1>2 DEF ReadChunk, ReadLastChunk
    <2>2. chunks' # <<>>
      BY <2>1, ChunksAppend
    <2>3. mpc = "read" /\ mpc' = "send" /\ UNCHANGED result
      BY <1>2 DEF ReadChunk, ReadLastChunk, ChunkReady
    <2> QED BY <2>2, <2>3 DEF StreamEnds
  <1>3. CASE SendOn \/ Stop \/ ProgressError \/ JoinedAll
    BY <1>3 DEF SendOn, Stop, ProgressError, JoinedAll, StreamEnds
  <1>4. CASE Join
    BY <1>4 DEF Join, StreamEnds
  <1>5. CASE ReadSticky \/ ReadSelected \/ ReadDisconnected \/ Walker \/ Ended \/ UNCHANGED vars
    BY <1>1, <1>5 DEF ReadSticky, ReadSelected, ReadDisconnected, Walker, WalkEntry, WalkExclude,
                      WalkError, Ended
  <1>6. ASSUME NEW t \in Workers, Worker(t)
        PROVE  StreamEnds'
    BY <1>1, <1>6 DEF Worker, WorkerTake, WorkerSkip, WorkerSend, WorkerReadError, WorkerEnd
  <1> QED BY <1>2, <1>3, <1>4, <1>5, <1>6 DEF Next, Main

WholeInv == ReadInv /\ Placed /\ Endings

LEMMA WholeInit ==
  ASSUME Init
  PROVE  Placed /\ Endings
  <1>1. Stream = <<>> /\ bufOut = <<>>
    <2>1. [i \in 1..Len(chunks) |-> chunks[i].units] = <<>>
      BY DEF Init
    <2> QED BY <2>1, FlattenEmpty DEF Stream, Init
  <1>2. Received = <<>>
    BY <1>1 DEF Received
  <1>3. /\ chPaths = <<>> /\ \A t \in Workers : Queues[t] = <<>>
        /\ skipped \cup excluded = {} /\ Walked = {}
    <2>1. 1..(walkNo - 1) = {}
      BY DEF Init
    <2>2. <<>> \o <<>> = <<>>
      OBVIOUS
    <2> QED BY <2>1, <2>2 DEF Init, Queues, Queue, Walked
  <1>4. PICK z : z = <<>> /\ Len(z) = 0
    OBVIOUS
  <1>5. /\ WaitingPaths(z) = {} /\ QueuedPaths(z) = {} /\ ReceivedPaths(z) = {}
        /\ WaitingOnce(z) /\ QueuedOnce(z) /\ ReceivedOnce(z)
    BY ONLY <1>4 DEF WaitingPaths, QueuedPaths, ReceivedPaths, WaitingOnce, QueuedOnce, ReceivedOnce,
                OpenMessages, OpenUnits
  <1>6. Placed
    <2>1. PICK f : f = Held(chPaths, Queues, Received, skipped \cup excluded)
      OBVIOUS
    <2>2. f[0] = {} /\ (\A t \in Workers : f[t] = {}) /\ f[NWorkers + 1] = {} /\ f[NWorkers + 2] = {}
      BY <1>2, <1>3, <1>4, <1>5, <2>1, HeldAt
    <2>3. \A k \in Holders : f[k] = {}
      BY <2>2, HolderFacts
    <2>4. Parted(f, Walked, Failed)
      BY <1>3, <2>3 DEF Parted
    <2> QED BY <1>2, <1>3, <1>4, <1>5, <2>1, <2>4 DEF Placed, PlacedIn
  <1>7. WorkersEnd /\ ChannelsEnd /\ StreamEnds
    BY DEF Init, WorkersEnd, ChannelsEnd, Closed, StreamEnds
  <1>8. HandlesEnd
    BY ReadAssumption DEF Init, HandlesEnd, NHandles
  <1> QED BY <1>6, <1>7, <1>8 DEF Endings

\* Every entry is in the channel of the walker, with a worker, with main, or
\* left out, and in one of these only; when main has joined the threads without
\* an error the channels are empty, and the stream is whole entries.
THEOREM WholeInvariance ==
  ASSUME SizesKept
  PROVE  Spec => []WholeInv
  <1>1. Init => Placed /\ Endings
    BY WholeInit
  <1>2. ReadInv /\ Placed /\ Endings /\ [Next]_vars => Placed' /\ Endings'
    <2> SUFFICES ASSUME ReadInv, Placed, Endings, [Next]_vars
                 PROVE  Placed' /\ Endings'
      OBVIOUS
    <2>1. Placed'
      BY PlacedStep DEF ReadInv
    <2>2. WorkersEnd' /\ ChannelsEnd' /\ HandlesEnd' /\ StreamEnds'
      BY WorkersEndStep, ChannelsEndStep, HandlesEndStep, StreamEndsStep DEF ReadInv, Endings
    <2> QED BY <2>1, <2>2 DEF Endings
  <1> QED BY <1>1, <1>2, ReadInvariance, PTL DEF Spec, WholeInv

\* At the end, nothing is on its way any more.
LEMMA EndFacts ==
  ASSUME WholeInv, result = "ok", ~stopped
  PROVE  /\ chunks # <<>> /\ Last(chunks).last /\ Closed /\ ~Failed
         /\ WalkerEnded /\ chPaths = <<>> /\ channelIndex = NoWorker
         /\ \A t \in Workers : Queue(t) = <<>>
  <1>1. /\ TypeInv /\ OrderInv /\ WorkersEnd /\ ChannelsEnd /\ HandlesEnd /\ StreamEnds
    BY DEF WholeInv, ReadInv, Endings
  <1>2. chunks # <<>> /\ Last(chunks).last /\ joined = NHandles
    BY <1>1 DEF StreamEnds
  <1>3. Closed
    <2>1. chunks \in Seq(MsgSet(Sent))
      BY <1>1 DEF TypeInv, Carried
    <2>2. Len(chunks) \in 1..Len(chunks)
      BY <1>2, <2>1
    <2> QED BY <1>2, <2>2 DEF Closed, Last
  <1>4. ASSUME NEW t \in Workers
        PROVE  working[t] = "ok"
    <2>1. t + 1 \in 1..joined /\ t + 1 > 1 /\ t + 1 # 1 /\ (t + 1) - 1 = t
      BY <1>2, ReadAssumption DEF NHandles, Workers
    <2>2. HandleEnded(t + 1) /\ ~HandleFailed(t + 1)
      BY <1>1, <2>1 DEF HandlesEnd
    <2>3. working[t] # "running" /\ working[t] # "err"
      BY <2>1, <2>2 DEF HandleEnded, HandleFailed
    <2> QED BY <1>1, <2>3 DEF TypeInv, States
  <1>5. ~Failed
    BY <1>4 DEF Failed
  <1>6. WalkerEnded /\ chPaths = <<>>
    <2>1. 1 \in Workers
      BY ReadAssumption DEF Workers
    <2> QED BY <1>1, <1>4, <2>1 DEF WorkersEnd
  <1>7. ASSUME NEW t \in Workers
        PROVE  Queue(t) = <<>> /\ channelIndex # t
    <2>1. chData[t] = <<>>
      BY <1>1, <1>3 DEF ChannelsEnd, AllFinished
    <2>2. Queued(t) /\ todo[t] = <<>>
      BY <1>1, <1>4 DEF OrderInv, Queued
    <2>3. Queue(t) = <<>>
      BY <1>1, <2>1, <2>2, QueueType
    <2> QED BY <1>4, <2>2, <2>3 DEF Queued, Proper
  <1>8. channelIndex = NoWorker
    BY <1>1, <1>7 DEF TypeInv, States
  <1> QED BY <1>2, <1>3, <1>5, <1>6, <1>7, <1>8

LEMMA WholeFacts ==
  ASSUME WholeInv
  PROVE  OkIsWhole
  <1> SUFFICES ASSUME result = "ok", ~stopped
               PROVE  /\ {e.path : e \in Archived} = All \ (skipped \cup excluded)
                      /\ \A e, f \in Archived : e.path = f.path => e = f
                      /\ \A e \in Archived : WholeIn(e)
                      /\ chunks # <<>> /\ Last(chunks).last
    BY DEF OkIsWhole
  <1>1. /\ chunks # <<>> /\ Last(chunks).last /\ Closed /\ ~Failed
        /\ WalkerEnded /\ chPaths = <<>> /\ channelIndex = NoWorker
        /\ \A t \in Workers : Queue(t) = <<>>
    BY EndFacts
  <1>2. TypeInv /\ OrderInv /\ Placed
    BY DEF WholeInv, ReadInv
  <1>3. PICK E : E = Sent
    OBVIOUS
  <1>4. PICK r : r = Stream
    OBVIOUS
  <1>5. r \in Seq(UnitSet(E)) /\ (\A e \in E : IsSent(e)) /\ r = Received
    BY <1>1, <1>2, <1>3, <1>4, ArchivedIsSent, SentFacts DEF TypeInv, Received
  <1>6. Entire(r)
    <2>1. Ordered(r, Failed) /\ (r # <<>> => Complete(r[Len(r)]))
      BY <1>1, <1>2, <1>5 DEF OrderInv, Between
    <2> QED BY <1>1, <2>1 DEF Entire, Ordered
  <1>7. PICK out : out = skipped \cup excluded
    OBVIOUS
  <1>8. PICK f : f = Held(chPaths, Queues, r, out)
    OBVIOUS
  <1>9. Parted(f, Walked, Failed) /\ ReceivedOnce(r)
    BY <1>2, <1>5, <1>7, <1>8 DEF Placed, PlacedIn
  <1>10. /\ f[0] = {} /\ (\A t \in Workers : f[t] = {})
         /\ f[NWorkers + 1] = ReceivedPaths(r) /\ f[NWorkers + 2] = out
    <2>1. WaitingPaths(<<>>) = {} /\ QueuedPaths(<<>>) = {}
      BY DEF WaitingPaths, QueuedPaths, OpenMessages
    <2>2. \A t \in Workers : Queues[t] = <<>>
      BY <1>1 DEF Queues
    <2>3. f[0] = WaitingPaths(chPaths) /\ \A t \in Workers : f[t] = QueuedPaths(Queues[t])
      BY ONLY <1>8, HeldAt
    <2>4. f[NWorkers + 1] = ReceivedPaths(r) /\ f[NWorkers + 2] = out
      BY ONLY <1>8, HeldAt
    <2> QED BY <1>1, <2>1, <2>2, <2>3, <2>4
  <1>11. Walked = All
    <2>1. walkNo - 1 = Len(tree)
      BY <1>1, <1>2, TreeFacts DEF TypeInv, States, WalkerEnded
    <2> QED BY <2>1 DEF Walked, All
  <1>12. ReceivedPaths(r) = All \ out
    <2>1. ASSUME NEW p \in All
          PROVE  p \in ReceivedPaths(r) \/ p \in out
      <3>1. PICK k \in Holders : p \in f[k]
        BY <1>1, <1>9, <1>11 DEF Parted
      <3> QED BY <1>10, <3>1, HolderFacts
    <2>2. ReceivedPaths(r) \cap out = {} /\ ReceivedPaths(r) \subseteq All
      BY <1>9, <1>10, <1>11, HolderFacts DEF Parted
    <2> QED BY <2>1, <2>2
  <1>13. /\ \A i \in 1..Len(r) : \E k \in 0..(Len(r) - Len(Units(r[i].of))) : Holds(r, r[i].of, k)
         /\ \A i, j \in 1..Len(r) : r[i].of.path = r[j].of.path => r[i].of = r[j].of
         /\ \A i \in 1..Len(r) : \E s \in OpenUnits(r) : r[s].of = r[i].of
    BY <1>5, <1>6, <1>9, WholeEntries
  <1>14. Archived = {r[i].of : i \in 1..Len(r)}
    BY <1>4 DEF Archived
  <1>15. {e.path : e \in Archived} = ReceivedPaths(r)
    <2>1. \A e \in Archived : e.path \in ReceivedPaths(r)
      BY <1>13, <1>14 DEF ReceivedPaths
    <2>2. \A p \in ReceivedPaths(r) : \E e \in Archived : p = e.path
      BY <1>14 DEF ReceivedPaths, OpenUnits
    <2> QED BY <2>1, <2>2
  <1>16. \A e, g \in Archived : e.path = g.path => e = g
    BY <1>13, <1>14
  <1>17. ASSUME NEW e \in Archived
         PROVE  WholeIn(e)
    <2>1. PICK i \in 1..Len(r) : e = r[i].of
      BY <1>14
    <2>2. PICK k \in 0..(Len(r) - Len(Units(e))) : Holds(r, e, k)
      BY <1>13, <2>1
    <2>3. PlacesOf(e) = PlacesIn(r, e)
      BY <1>4 DEF PlacesOf, PlacesIn
    <2> QED BY <1>4, <2>2, <2>3 DEF Holds, WholeIn
  <1> QED BY <1>1, <1>7, <1>12, <1>15, <1>16, <1>17

\* Ok: every entry of the tree that was not left out is in the stream, whole and
\* once, and nothing else is.
THEOREM OkIsWholeCorrect ==
  ASSUME SizesKept
  PROVE  Spec => []OkIsWhole
  <1>1. WholeInv => OkIsWhole
    BY WholeFacts
  <1> QED BY <1>1, WholeInvariance, PTL

-----------------------------------------------------------------------------
(* The data of a file are as many as its header says.                      *)

LEMMA FitIsKept ==
  ASSUME SegmentsFit
  PROVE  SizesKept
  <1> SUFFICES ASSUME NEW t \in Trees, NEW i \in 1..Len(t), t[i].size = 0, t[i].segs # <<>>
               PROVE  FALSE
    BY DEF SizesKept, SizeKept
  <1>1. PICK segs : segs = t[i].segs
    OBVIOUS
  <1>2. segs \in Seq([hole: BOOLEAN, len: Nat \ {0}]) /\ segs # <<>>
    BY <1>1, ReadAssumption DEF IsEntry
  <1>3. PICK n \in Nat \ {0} : n = Len(segs)
    BY <1>2
  <1>4. segs[1] \in [hole: BOOLEAN, len: Nat \ {0}]
    <2>1. \A k \in 1..Len(segs) : segs[k] \in [hole: BOOLEAN, len: Nat \ {0}]
      BY ONLY <1>2, ElementOfSeq
    <2>2. 1 \in 1..Len(segs)
      BY <1>3
    <2> QED BY <2>1, <2>2
  <1>5. SegStart(segs, 1) \in Nat /\ SegStart(segs, 1) + segs[1].len <= SegStart(segs, n + 1)
        /\ SegStart(segs, n + 1) \in Nat
    <2>1. 1 \in 1..n /\ 1 \in 1..(n + 1) /\ n + 1 \in (1 + 1)..(n + 1) /\ n + 1 \in 1..(n + 1)
      BY <1>3
    <2> QED BY <1>2, <1>3, <2>1, StartFacts
  <1>6. SegStart(segs, n + 1) <= 0
    BY <1>1, <1>3 DEF SegmentsFit
  <1>7. segs[1].len \in Nat \ {0}
    BY <1>4
  <1> QED BY <1>5, <1>6, <1>7

\* The holes in the header are the hole segments.
LEMMA HoleFacts ==
  ASSUME NEW segs \in Seq([hole: BOOLEAN, len: Nat \ {0}]), NEW h \in Range(Holes(segs))
  PROVE  \E i \in 1..Len(segs) :
           segs[i].hole /\ h = [from |-> SegStart(segs, i), to |-> SegEnd(segs, i)]
  <1> DEFINE n == Len(segs)
             R(i) == [from |-> SegStart(segs, i), to |-> SegEnd(segs, i)]
             A == {R(i) : i \in 1..n}
  <1>1. PICK s : s = [i \in 1..n |-> HoleAt(segs, i)]
    OBVIOUS
  <1>2. Holes(segs) = FlattenSeq(s)
    BY <1>1 DEF Holes
  <1>3. DOMAIN s = 1..n /\ s = [i \in 1..n |-> s[i]] /\ \A i \in 1..n : s[i] = HoleAt(segs, i)
    BY <1>1
  <1>4. \A i \in 1..n : HoleAt(segs, i) = IF segs[i].hole THEN <<R(i)>> ELSE <<>>
    BY DEF HoleAt
  <1>5. n \in Nat
    OBVIOUS
  <1>6. \A i \in 1..n : R(i) \in A
    OBVIOUS
  <1> HIDE DEF n, R, A
  <1>7. \A S : \A x \in S : <<x>> \in Seq(S) /\ <<>> \in Seq(S)
    OBVIOUS
  <1>8. \A i \in 1..n : s[i] \in Seq(A)
    BY <1>3, <1>4, <1>6, <1>7
  <1>9. s \in Seq(Seq(A)) /\ Len(s) = n
    BY <1>3, <1>5, <1>8, MakeSequence
  <1>10. PICK w : w = FlattenSeq(s)
    OBVIOUS
  <1>11. w \in Seq(A)
    BY <1>9, <1>10, FlattenParts
  <1>12. PICK k \in 1..Len(w) : h = w[k]
    BY <1>2, <1>10, <1>11 DEF Range
  <1>13. PICK m \in 0..(n - 1) : \E j \in 1..Len(s[m + 1]) : k = EndOf(s, m) + j
    BY <1>9, <1>10, FlattenElements
  <1>14. PICK j \in 1..Len(s[m + 1]) : k = EndOf(s, m) + j
    BY <1>13
  <1>15. h = s[m + 1][j] /\ m + 1 \in 1..n
    <2>1. \A a \in 0..(n - 1) : \A b \in 1..Len(s[a + 1]) : w[EndOf(s, a) + b] = s[a + 1][b]
      BY <1>9, <1>10, FlattenElements
    <2> QED BY <1>5, <1>12, <1>14, <2>1
  <1>16. PICK i \in 1..n : i = m + 1
    BY <1>15
  <1>17. s[i] = (IF segs[i].hole THEN <<R(i)>> ELSE <<>>) /\ j \in 1..Len(s[i]) /\ h = s[i][j]
    BY <1>3, <1>4, <1>14, <1>15, <1>16
  <1>18. segs[i].hole
    <2> SUFFICES ASSUME ~segs[i].hole
                 PROVE  FALSE
      OBVIOUS
    <2>1. j \in 1..Len(<<>>)
      BY <1>17
    <2> QED BY <2>1
  <1>19. h = R(i)
    <2>1. j \in 1..Len(<<R(i)>>) /\ h = <<R(i)>>[j]
      BY <1>17, <1>18
    <2> QED BY <2>1
  <1> QED BY <1>18, <1>19 DEF n, R

\* Holes and data lie beside each other in the file.
LEMMA HolesApart ==
  ASSUME NEW e, IsSent(e),
         e.segs # <<>> => SegStart(e.segs, Len(e.segs) + 1) <= e.size
  PROVE  /\ DataOffsets(e) \subseteq 0..(e.size - 1) /\ HoleBytes(e) \subseteq 0..(e.size - 1)
         /\ DataOffsets(e) \cap HoleBytes(e) = {}
  <1>1. PICK segs : segs = e.segs
    OBVIOUS
  <1>2. PICK size \in Nat : size = e.size
    BY DEF IsSent, IsEntry
  <1>3. segs \in Seq([hole: BOOLEAN, len: Nat \ {0}])
    BY <1>1 DEF IsSent, IsEntry
  <1>4. PICK n \in Nat : n = Len(segs)
    BY <1>3
  <1>5. \A h \in Range(Holes(segs)) : \E i \in 1..n :
          segs[i].hole /\ h = [from |-> SegStart(segs, i), to |-> SegEnd(segs, i)]
    BY <1>3, <1>4, HoleFacts
  <1>6. ASSUME NEW i \in 1..n
        PROVE  SegStart(segs, i) \in Nat /\ SegEnd(segs, i) \in Nat /\ SegEnd(segs, i) <= size
    <2>1. i \in 1..(n + 1) /\ n + 1 \in (i + 1)..(n + 1) /\ n + 1 \in 1..(n + 1) /\ segs # <<>>
      BY <1>4
    <2>2. SegStart(segs, i) \in Nat /\ SegStart(segs, n + 1) \in Nat
      BY <1>3, <1>4, <2>1, StartFacts
    <2>3. SegEnd(segs, i) = SegStart(segs, i) + segs[i].len
          /\ SegStart(segs, i) + segs[i].len <= SegStart(segs, n + 1)
      BY <1>3, <1>4, <2>1, StartFacts
    <2>4. segs[i].len \in Nat
      <3>1. segs[i] \in [hole: BOOLEAN, len: Nat \ {0}]
        BY <1>3, <1>4, ElementOfSeq
      <3> QED BY <3>1
    <2>5. SegStart(segs, n + 1) <= size
      BY <1>1, <1>2, <1>4, <2>1
    <2>6. PICK len \in Nat : len = segs[i].len
      BY <2>4
    <2> QED BY <1>2, <2>2, <2>3, <2>5, <2>6
  <1>7. ASSUME NEW i \in 1..n, NEW j \in 1..n, i < j
        PROVE  SegEnd(segs, i) <= SegStart(segs, j)
    <2>1. j \in (i + 1)..(n + 1)
      BY <1>4, <1>7
    <2> QED BY <1>3, <1>4, <2>1, StartFacts
  <1>8. \A o \in HoleBytes(e) : \E i \in 1..n :
          segs[i].hole /\ o \in SegStart(segs, i)..(SegEnd(segs, i) - 1)
    <2> SUFFICES ASSUME NEW o \in HoleBytes(e)
                 PROVE  \E i \in 1..n :
                          segs[i].hole /\ o \in SegStart(segs, i)..(SegEnd(segs, i) - 1)
      OBVIOUS
    <2>1. PICK h \in Range(Holes(segs)) : o \in h.from..(h.to - 1)
      BY <1>1 DEF HoleBytes
    <2>2. PICK i \in 1..n :
            segs[i].hole /\ h = [from |-> SegStart(segs, i), to |-> SegEnd(segs, i)]
      BY <1>5
    <2>3. h.from = SegStart(segs, i) /\ h.to = SegEnd(segs, i)
      BY <2>2
    <2> QED BY <2>1, <2>2, <2>3
  <1>9. \A o \in DataOffsets(e) :
          \/ segs = <<>> /\ o \in 0..(size - 1)
          \/ \E i \in 1..n : ~segs[i].hole /\ o \in SegStart(segs, i)..(SegEnd(segs, i) - 1)
    BY <1>1, <1>2, <1>4 DEF DataOffsets, DataSegs
  <1>10. ASSUME NEW i \in 1..n, NEW o \in SegStart(segs, i)..(SegEnd(segs, i) - 1)
         PROVE  o \in 0..(size - 1)
    BY <1>2, <1>6
  <1>11. DataOffsets(e) \subseteq 0..(size - 1) /\ HoleBytes(e) \subseteq 0..(size - 1)
    BY <1>8, <1>9, <1>10
  <1>12. ASSUME NEW o \in DataOffsets(e), o \in HoleBytes(e)
         PROVE  FALSE
    <2>1. PICK j \in 1..n : segs[j].hole /\ o \in SegStart(segs, j)..(SegEnd(segs, j) - 1)
      BY <1>8, <1>12
    <2>2. segs # <<>>
      BY <1>4, <2>1
    <2>3. PICK i \in 1..n : ~segs[i].hole /\ o \in SegStart(segs, i)..(SegEnd(segs, i) - 1)
      BY <1>9, <2>2
    <2>4. i < j \/ j < i
      BY <2>1, <2>3
    <2>5. /\ SegStart(segs, i) <= o /\ o < SegEnd(segs, i) /\ SegStart(segs, j) <= o
          /\ o < SegEnd(segs, j) /\ o \in Int
      BY <1>6, <2>1, <2>3
    <2>6. SegEnd(segs, i) <= SegStart(segs, j) \/ SegEnd(segs, j) <= SegStart(segs, i)
      BY <1>7, <2>4
    <2> QED BY <1>6, <2>5, <2>6
  <1> QED BY <1>2, <1>11, <1>12

\* What is apart from some bytes of a file is not more than the others.
LEMMA ApartCount ==
  ASSUME NEW size \in Nat, NEW D \in SUBSET (0..(size - 1)), NEW H \in SUBSET (0..(size - 1)),
         D \cap H = {}
  PROVE  /\ IsFiniteSet(D) /\ Cardinality(D) \in Nat
         /\ Cardinality(D) <= size - Cardinality(H)
  <1>1. IsFiniteSet(0..(size - 1)) /\ Cardinality(0..(size - 1)) = size
    <2>1. 0 \in Int /\ size - 1 \in Int
      OBVIOUS
    <2>2. IsFiniteSet(0..(size - 1))
          /\ Cardinality(0..(size - 1)) = IF 0 > size - 1 THEN 0 ELSE size - 1 - 0 + 1
      BY <2>1, FS_Interval
    <2> QED BY <2>2
  <1>2. PICK A : A = 0..(size - 1)
    OBVIOUS
  <1>3. D \in SUBSET A /\ H \in SUBSET A /\ D \cup H \in SUBSET A
    BY <1>2
  <1>4. IsFiniteSet(D) /\ IsFiniteSet(H) /\ IsFiniteSet(D \cup H) /\ Cardinality(D \cup H) <= size
    BY ONLY <1>1, <1>2, <1>3, FS_Subset
  <1>5. Cardinality(D) \in Nat /\ Cardinality(H) \in Nat
    BY <1>4, FS_CardinalityType
  <1>6. Cardinality(D \cup H) = Cardinality(D) + Cardinality(H) - Cardinality(D \cap H)
    BY <1>4, FS_Union
  <1>7. Cardinality(D \cap H) = 0
    BY FS_EmptySet
  <1> QED BY <1>4, <1>5, <1>6, <1>7

\* A unit is not twice in a stream in which every entry is opened once.
LEMMA UnitsOnce ==
  ASSUME NEW E, \A e \in E : IsSent(e), NEW r \in Seq(UnitSet(E)), NEW failed,
         Ordered(r, failed), ReceivedOnce(r),
         NEW i \in 1..Len(r), NEW j \in 1..Len(r), r[i] = r[j]
  PROVE  i = j
  <1>1. PICK e : e = r[i].of
    OBVIOUS
  <1>2. e = r[j].of /\ e \in E
    BY <1>1, BackFacts
  <1>3. PICK p \in Nat : Back(r, i, p)
    BY BackFacts
  <1>4. PICK q \in Nat : Back(r, j, q)
    BY BackFacts
  <1>5. PICK W : W = Units(e)
    OBVIOUS
  <1>6. /\ Len(W) \in Nat \ {0}
        /\ \A a, b \in 1..Len(W) : W[a] = W[b] => a = b
        /\ \A a \in 1..Len(W) : W[a].of = e /\ (Opens(W[a]) <=> a = 1)
    BY <1>2, <1>5, UnitsDistinct
  <1>7. p \in 1..Len(W) /\ p <= i /\ \A a \in 1..p : r[i - p + a] = W[a]
    BY <1>1, <1>3, <1>5 DEF Back
  <1>8. q \in 1..Len(W) /\ q <= j /\ \A a \in 1..q : r[j - q + a] = W[a]
    BY <1>2, <1>4, <1>5 DEF Back
  <1>9. r[i] = W[p] /\ r[i - p + 1] = W[1] /\ i - p + 1 \in 1..Len(r)
    <2>1. p \in 1..p /\ 1 \in 1..p /\ i - p + p = i /\ i - p + 1 \in 1..Len(r)
      BY <1>7
    <2> QED BY <1>7, <2>1
  <1>10. r[j] = W[q] /\ r[j - q + 1] = W[1] /\ j - q + 1 \in 1..Len(r)
    <2>1. q \in 1..q /\ 1 \in 1..q /\ j - q + q = j /\ j - q + 1 \in 1..Len(r)
      BY <1>8
    <2> QED BY <1>8, <2>1
  <1>11. p = q
    <2>1. W[p] = W[q]
      BY <1>9, <1>10
    <2> QED BY <1>6, <1>7, <1>8, <2>1
  <1>12. i - p + 1 = j - q + 1
    <2>1. 1 \in 1..Len(W)
      BY <1>6
    <2>2. Opens(W[1])
      BY <1>6, <2>1
    <2>3. i - p + 1 \in OpenUnits(r) /\ j - q + 1 \in OpenUnits(r)
      BY <1>9, <1>10, <2>2 DEF OpenUnits
    <2>4. r[i - p + 1].of.path = r[j - q + 1].of.path
      BY <1>9, <1>10
    <2> QED BY <2>3, <2>4 DEF ReceivedOnce
  <1> QED BY <1>7, <1>8, <1>11, <1>12

\* The segments of an entry that was sent are those of an element of the tree.
LEMMA SentFits ==
  ASSUME States, SegmentsFit, NEW e \in Sent
  PROVE  e.segs # <<>> => SegStart(e.segs, Len(e.segs) + 1) <= e.size
  <1>1. PICK i \in 1..Len(tree) : e = tree[i] \/ \E p : e = AsLink(i, p)
    BY DEF Sent, Forms
  <1>2. PICK f : f = tree[i]
    OBVIOUS
  <1>3. DOMAIN f = Fields /\ {"kind", "target", "size", "segs"} \subseteq Fields
    BY <1>2, TreeFacts DEF IsEntry, Fields
  <1>4. \A p : LET x == [f EXCEPT !.kind = "hardlink", !.target = p]
               IN  x.size = f.size /\ x.segs = f.segs
    BY ONLY <1>3
  <1>5. e.size = f.size /\ e.segs = f.segs
    BY <1>1, <1>2, <1>4 DEF AsLink
  <1>6. tree \in Trees
    BY DEF States
  <1> QED BY <1>2, <1>5, <1>6 DEF SegmentsFit

LEMMA DataCounted ==
  ASSUME WholeInv, SegmentsFit, NEW e \in Archived
  PROVE  Cardinality({i \in PlacesOf(e) : Stream[i].part = "data"})
           <= e.size - Cardinality(HoleBytes(e))
  <1> DEFINE P == {i \in PlacesOf(e) : Stream[i].part = "data"}
             D == DataOffsets(e)
             f == [i \in P |-> Stream[i].at]
  <1>1. TypeInv /\ OrderInv /\ Placed /\ States
    BY DEF WholeInv, ReadInv, TypeInv
  <1>2. PICK E : E = Sent
    OBVIOUS
  <1>3. PICK s : s = Stream
    OBVIOUS
  <1>4. PICK r : r = Received
    OBVIOUS
  <1>5. s \in Seq(UnitSet(E)) /\ Archived \subseteq E /\ \A x \in E : IsSent(x)
    BY <1>1, <1>2, <1>3, ArchivedIsSent, SentFacts DEF TypeInv
  <1>6. r \in Seq(UnitSet(E)) /\ Ordered(r, Failed) /\ ReceivedOnce(r)
    BY <1>1, <1>2, <1>4, ReceivedType DEF OrderInv, Placed, PlacedIn
  <1>7. \A i \in 1..Len(s) : i \in 1..Len(r) /\ r[i] = s[i]
    <2>1. CASE Closed
      BY <1>3, <1>4, <2>1 DEF Received
    <2>2. CASE ~Closed
      <3>1. bufOut \in Seq(UnitSet(E))
        BY <1>1, <1>2 DEF TypeInv, Carried
      <3>2. r = s \o bufOut
        BY <1>3, <1>4, <2>2 DEF Received
      <3> QED BY <1>5, <3>1, <3>2, JoinFacts
    <2> QED BY <2>1, <2>2
  <1>8. ASSUME NEW i \in P
        PROVE  i \in 1..Len(s) /\ s[i].of = e /\ s[i].part = "data" /\ s[i].at \in D
               /\ s[i] = [of |-> e, part |-> "data", at |-> s[i].at]
    <2>1. i \in 1..Len(s) /\ s[i].of = e /\ s[i].part = "data"
      BY <1>3 DEF PlacesOf
    <2>2. s[i] \in UnitSet(E)
      BY <1>5, <2>1, ElementOfSeq
    <2>3. s[i] \in OwnUnits(e)
      BY <2>1, <2>2, UnitOwner
    <2>4. s[i] \in [of: {e}, part: {"data"}, at: D]
      BY <2>1, <2>3 DEF OwnUnits
    <2> HIDE DEF D
    <2> QED BY <2>1, <2>4
  <1>9. /\ D \subseteq 0..(e.size - 1) /\ HoleBytes(e) \subseteq 0..(e.size - 1)
        /\ D \cap HoleBytes(e) = {} /\ e.size \in Nat
    <2>1. e \in Sent /\ IsSent(e)
      BY <1>2, <1>5
    <2> QED BY <1>1, <2>1, SentFits, HolesApart DEF IsSent, IsEntry
  <1>10. IsFiniteSet(D) /\ Cardinality(D) \in Nat /\ Cardinality(D) <= e.size - Cardinality(HoleBytes(e))
    BY <1>9, ApartCount
  <1>11. f \in [P -> D] /\ \A i \in P : f[i] = s[i].at
    BY <1>3, <1>8
  <1> HIDE DEF P, D, f
  <1>12. ASSUME NEW i \in P, NEW j \in P, f[i] = f[j]
         PROVE  i = j
    <2>1. s[i] = s[j]
      BY <1>8, <1>11, <1>12
    <2>2. i \in 1..Len(r) /\ j \in 1..Len(r) /\ r[i] = r[j]
      BY <1>7, <1>8, <2>1
    <2> QED BY <1>5, <1>6, <2>2, UnitsOnce
  <1>13. f \in Injection(P, D)
    BY <1>11, <1>12 DEF Injection, IsInjective
  <1>14. IsFiniteSet(P) /\ Cardinality(P) <= Cardinality(D)
    BY <1>10, <1>13, FS_Injection
  <1>15. Cardinality(P) \in Nat
    BY <1>14, FS_CardinalityType
  <1>16. Cardinality(P) <= e.size - Cardinality(HoleBytes(e))
    <2>1. PICK z : z = e.size - Cardinality(HoleBytes(e))
      OBVIOUS
    <2>2. Cardinality(D) <= z /\ z \in Int
      <3>1. IsFiniteSet(HoleBytes(e))
        <4>1. 0 \in Int /\ e.size - 1 \in Int
          BY <1>9
        <4>2. IsFiniteSet(0..(e.size - 1))
          BY <4>1, FS_Interval
        <4> QED BY <1>9, <4>2, FS_Subset
      <3>2. Cardinality(HoleBytes(e)) \in Nat
        BY <3>1, FS_CardinalityType
      <3> QED BY <1>9, <1>10, <2>1, <3>2
    <2> QED BY <1>10, <1>14, <1>15, <2>1, <2>2
  <1> QED BY <1>16 DEF P

\* No more data follow a header than it says, so that what comes next is taken
\* for a header rightly: if no file grew between the two looks at it.
THEOREM DataIsAsHeaderSaysCorrect ==
  ASSUME SegmentsFit
  PROVE  Spec => []DataIsAsHeaderSays
  <1>1. WholeInv => DataIsAsHeaderSays
    BY DataCounted DEF DataIsAsHeaderSays
  <1>2. SizesKept
    BY FitIsKept
  <1> QED BY <1>1, <1>2, WholeInvariance, PTL

-----------------------------------------------------------------------------
(* The output is not archived.                                             *)

\* The path of the output is canonical: absolute, without another root in it.
Names == Seq(Seq(STRING))
IsCanonical(p) ==
  /\ p \in Seq({Path!Root} \cup Names) /\ Path!IsPath(p) /\ Path!HasName(p)
  /\ \A i \in 2..Len(p) : p[i] # Path!Root /\ p[i] \in Names
Canonical ==
  \A t \in Trees :
    IsCanonical(ExcludePath[t]) /\ \A i \in 1..Len(t) : t[i].at \in Seq({Path!Root} \cup Names)

\* The paths that WriteOutput may write to, for a tree.
SeriesOf(t) ==
  {Path!SeriesPath(ExcludePath[t], i) :
     i \in 0..((IF Path!Ext(Path!FileName(ExcludePath[t])) = Path!C00 THEN NOutputs ELSE 1) - 1)}

\* What is at these paths are the files that this run has created.
OutputsAreFiles == \A t \in Trees : \A i \in 1..Len(t) : t[i].at \in SeriesOf(t) => t[i].kind = "file"

\* The tree has no other file with the name of the output and a part number, as one
\* of an earlier run with more parts.
NoOtherParts ==
  \A t \in Trees : \A i \in 1..Len(t) :
    /\ Path!Ext(Path!FileName(ExcludePath[t])) = Path!C00
    /\ t[i].kind = "file" /\ Path!ExcludeFile(t[i].at, ExcludePath[t])
    => t[i].at \in SeriesOf(t)

\* The digits of the numbers up to m, as Decimal defines them.
DecimalsTo(m) ==
  {f \in [0..m -> Seq(Path!Digits)] :
     \A n \in 0..m :
       f[n] = IF n < 10 THEN <<Path!DigitOf(n)>> ELSE Append(f[n \div 10], Path!DigitOf(n))}

\* The last digit of a number, and the number without it.
LEMMA Tenth ==
  ASSUME NEW n \in Nat
  PROVE  /\ Path!DigitOf(n) \in Path!Digits
         /\ n >= 10 => n \div 10 \in 0..(n - 1)
  <1>1. (n % 10) + 1 \in 1..10
    OBVIOUS
  <1>2. n >= 10 => n \div 10 \in 0..(n - 1)
    OBVIOUS
  <1> QED BY <1>1, <1>2 DEF Path!DigitOf, Path!Digits

\* There are such digits, and there is only one way.
LEMMA DecimalsExist == \A m \in Nat : DecimalsTo(m) # {}
  <1> DEFINE S == {m \in Nat : DecimalsTo(m) # {}}
  <1>1. 0 \in S
    <2>1. PICK f : f = [n \in 0..0 |-> <<Path!DigitOf(n)>>]
      OBVIOUS
    <2>2. \A n \in 0..0 : n = 0 /\ f[n] = <<Path!DigitOf(n)>> /\ <<Path!DigitOf(n)>> \in Seq(Path!Digits)
      BY <2>1, Tenth
    <2>3. f \in [0..0 -> Seq(Path!Digits)]
      BY <2>1, <2>2
    <2>4. f \in DecimalsTo(0)
      BY <2>2, <2>3 DEF DecimalsTo
    <2> QED BY <2>4
  <1>2. ASSUME NEW m \in Nat, m \in S
        PROVE  m + 1 \in S
    <2>1. PICK f : f \in DecimalsTo(m)
      BY <1>2
    <2>2. PICK d : d = Path!DigitOf(m + 1) /\ d \in Path!Digits
      BY Tenth
    <2>3. PICK s \in Seq(Path!Digits) :
            s = IF m + 1 < 10 THEN <<d>> ELSE Append(f[(m + 1) \div 10], d)
      <3>1. m + 1 >= 10 => (m + 1) \div 10 \in 0..m
        BY Tenth
      <3>2. m + 1 >= 10 => f[(m + 1) \div 10] \in Seq(Path!Digits)
        BY <2>1, <3>1 DEF DecimalsTo
      <3>3. PICK s : s = IF m + 1 < 10 THEN <<d>> ELSE Append(f[(m + 1) \div 10], d)
        OBVIOUS
      <3>4. CASE m + 1 < 10
        <4>1. <<d>> \in Seq(Path!Digits)
          BY ONLY <2>2
        <4> QED BY <3>3, <3>4, <4>1
      <3>5. CASE ~(m + 1 < 10)
        <4>1. PICK r \in Seq(Path!Digits) : r = f[(m + 1) \div 10]
          BY <3>2, <3>5
        <4>2. Append(r, d) \in Seq(Path!Digits)
          BY ONLY <2>2, r \in Seq(Path!Digits)
        <4> QED BY <3>3, <3>5, <4>1, <4>2
      <3> QED BY <3>4, <3>5
    <2>4. PICK g : g = [n \in 0..(m + 1) |-> IF n = m + 1 THEN s ELSE f[n]]
      OBVIOUS
    <2>5. g \in [0..(m + 1) -> Seq(Path!Digits)] /\ g[m + 1] = s /\ \A n \in 0..m : g[n] = f[n]
      <3>1. \A n \in 0..m : f[n] \in Seq(Path!Digits)
        BY <2>1 DEF DecimalsTo
      <3>2. \A n \in 0..(m + 1) : n # m + 1 => n \in 0..m
        OBVIOUS
      <3>3. \A n \in 0..m : n # m + 1 /\ n \in 0..(m + 1)
        OBVIOUS
      <3> QED BY <2>4, <3>1, <3>2, <3>3
    <2>6. ASSUME NEW n \in 0..(m + 1)
          PROVE  g[n] = IF n < 10 THEN <<Path!DigitOf(n)>> ELSE Append(g[n \div 10], Path!DigitOf(n))
      <3>1. n >= 10 => n \div 10 \in 0..m
        BY Tenth
      <3>2. n >= 10 => g[n \div 10] = f[n \div 10]
        BY <2>5, <3>1
      <3>3. CASE n = m + 1
        BY <2>2, <2>3, <2>5, <3>2, <3>3
      <3>4. CASE n # m + 1
        <4>1. n \in 0..m
          BY <3>4
        <4> QED BY <2>1, <2>5, <3>2, <4>1 DEF DecimalsTo
      <3> QED BY <3>3, <3>4
    <2>7. g \in DecimalsTo(m + 1)
      BY <2>5, <2>6 DEF DecimalsTo
    <2> QED BY <2>7
  <1> HIDE DEF S
  <1>3. Nat \subseteq S
    BY <1>1, <1>2, Induction
  <1> QED BY <1>3 DEF S

LEMMA DecimalsAgree ==
  ASSUME NEW a \in Nat, NEW b \in Nat, NEW f \in DecimalsTo(a), NEW g \in DecimalsTo(b)
  PROVE  \A n \in Nat : n <= a /\ n <= b => f[n] = g[n]
  <1> DEFINE T == {n \in Nat : n <= a /\ n <= b /\ f[n] # g[n]}
  <1>1. ASSUME T # {}
        PROVE  FALSE
    <2>1. PICK n \in T : \A k \in T : n <= k
      BY <1>1, LeastNumber
    <2>2. n \in 0..a /\ n \in 0..b /\ n \in Nat
      BY <2>1
    <2>3. n >= 10 => n \div 10 \in Nat /\ n \div 10 < n
      BY <2>2, Tenth
    <2>4. n >= 10 => n \div 10 \notin T
      BY <2>1, <2>2, <2>3
    <2>5. n >= 10 => f[n \div 10] = g[n \div 10]
      BY <2>2, <2>3, <2>4
    <2>6. /\ f[n] = IF n < 10 THEN <<Path!DigitOf(n)>> ELSE Append(f[n \div 10], Path!DigitOf(n))
          /\ g[n] = IF n < 10 THEN <<Path!DigitOf(n)>> ELSE Append(g[n \div 10], Path!DigitOf(n))
      BY <2>2 DEF DecimalsTo
    <2>7. f[n] = g[n]
      BY <2>2, <2>5, <2>6
    <2> QED BY <2>1, <2>7
  <1> QED BY <1>1

\* Decimal is what its definition says.
LEMMA DecimalFacts ==
  ASSUME NEW n \in Nat
  PROVE  Path!Decimal[n] \in Seq(Path!Digits)
  <1> DEFINE Rec(f, k) == IF k < 10 THEN <<Path!DigitOf(k)>> ELSE Append(f[k \div 10], Path!DigitOf(k))
             D == [k \in Nat |-> (CHOOSE f : f \in DecimalsTo(k))[k]]
  <1>1. \A k \in Nat : (CHOOSE f : f \in DecimalsTo(k)) \in DecimalsTo(k)
    BY DecimalsExist
  <1>2. ASSUME NEW k \in Nat
        PROVE  D[k] = Rec(D, k)
    <2>1. PICK f \in DecimalsTo(k) : f = CHOOSE g : g \in DecimalsTo(k)
      BY <1>1
    <2>2. D[k] = f[k]
      BY <2>1
    <2>3. f[k] = Rec(f, k)
      BY DEF DecimalsTo
    <2>4. ASSUME k >= 10
          PROVE  D[k \div 10] = f[k \div 10]
      <3>1. PICK j \in Nat : j = k \div 10 /\ j <= k
        BY <2>4, Tenth
      <3>2. PICK g \in DecimalsTo(j) : g = CHOOSE h : h \in DecimalsTo(j)
        BY <1>1
      <3>3. f[j] = g[j]
        BY <3>1, DecimalsAgree
      <3>4. D[j] = g[j]
        BY <3>2
      <3> QED BY <3>1, <3>3, <3>4
    <2> QED BY <2>2, <2>3, <2>4
  <1>3. D = [k \in Nat |-> Rec(D, k)]
    <2>1. D = [k \in Nat |-> D[k]]
      OBVIOUS
    <2> HIDE DEF D
    <2>2. \A k \in Nat : D[k] = Rec(D, k)
      BY <1>2
    <2>3. [k \in Nat |-> D[k]] = [k \in Nat |-> Rec(D, k)]
      BY <2>2
    <2> QED BY <2>1, <2>3
  <1>4. Path!Decimal = CHOOSE f : f = [k \in Nat |-> Rec(f, k)]
    BY DEF Path!Decimal
  <1> HIDE DEF D
  <1>5. Path!Decimal = [k \in Nat |-> Rec(Path!Decimal, k)]
    BY <1>3, <1>4
  <1> DEFINE T == {k \in Nat : Path!Decimal[k] \notin Seq(Path!Digits)}
  <1>6. ASSUME T # {}
        PROVE  FALSE
    <2>1. PICK k \in T : \A j \in T : k <= j
      BY <1>6, LeastNumber
    <2>2. k \in Nat /\ Path!Decimal[k] = Rec(Path!Decimal, k)
      BY <1>5, <2>1
    <2>3. Path!DigitOf(k) \in Path!Digits
      BY <2>2, Tenth
    <2>4. k >= 10 => k \div 10 \in Nat /\ k \div 10 < k
      BY <2>2, Tenth
    <2>5. k >= 10 => Path!Decimal[k \div 10] \in Seq(Path!Digits)
      BY <2>1, <2>2, <2>4
    <2>6. Path!Decimal[k] \in Seq(Path!Digits)
      BY <2>2, <2>3, <2>5
    <2> QED BY <2>1, <2>6
  <1> QED BY <1>6

\* More digits do not make another extension of a part.
LEMMA MoreDigits ==
  ASSUME NEW S, NEW c \in Seq(S), Path!IsSplitPart(c), NEW d \in Seq(S), d \in Seq(Path!Digits)
  PROVE  c \o d \in Seq(S) /\ Path!IsSplitPart(c \o d)
  <1>1. PICK v : v = c \o d
    OBVIOUS
  <1>2. /\ v \in Seq(S) /\ Len(v) = Len(c) + Len(d) /\ Len(c) \in Nat /\ Len(d) \in Nat
        /\ \A k \in 1..Len(c) : v[k] = c[k]
        /\ \A k \in 1..Len(d) : v[Len(c) + k] = d[k]
    BY <1>1, JoinFacts
  <1>3. Len(c) # 0 /\ c[1] = "c" /\ \A k \in 2..Len(c) : c[k] \in Path!Digits
    BY DEF Path!IsSplitPart
  <1>4. ASSUME NEW i \in 2..Len(v)
        PROVE  v[i] \in Path!Digits
    <2>1. CASE i <= Len(c)
      <3>1. i \in 1..Len(c) /\ i \in 2..Len(c)
        BY <1>2, <2>1
      <3> QED BY <1>2, <1>3, <3>1
    <2>2. CASE ~(i <= Len(c))
      <3>1. PICK k \in 1..Len(d) : i = Len(c) + k
        <4>1. i - Len(c) \in 1..Len(d) /\ i = Len(c) + (i - Len(c))
          BY <1>2, <2>2
        <4> QED BY <4>1
      <3>2. d[k] \in Path!Digits
        OBVIOUS
      <3> QED BY <1>2, <3>1, <3>2
    <2> QED BY <2>1, <2>2
  <1>5. v # <<>> /\ v[1] = "c"
    <2>1. 1 \in 1..Len(c)
      BY <1>2, <1>3
    <2> QED BY <1>2, <1>3, <2>1
  <1> QED BY <1>1, <1>2, <1>4, <1>5 DEF Path!IsSplitPart

\* Every part of the output has an extension that exclude_file knows.
LEMMA SplitPartFacts ==
  ASSUME NEW n \in Nat
  PROVE  Path!IsSplitPart(Path!SplitPart(n))
  <1>1. PICK E : E = {"c"} \cup Path!Digits
    OBVIOUS
  <1>2. PICK z : z = IF n < 10 THEN <<"0">> ELSE <<>>
    OBVIOUS
  <1>3. z \in Seq(Path!Digits) /\ z \in Seq(E)
    <2>1. Path!Digit[1] = "0" /\ 1 \in 1..10
      BY DEF Path!Digit
    <2>2. "0" \in Path!Digits
      BY <2>1 DEF Path!Digits
    <2>3. <<"0">> \in Seq(Path!Digits) /\ <<>> \in Seq(Path!Digits)
      BY <2>2
    <2>4. z \in Seq(Path!Digits)
      <3>1. CASE n < 10
        BY ONLY <1>2, <2>3, <3>1
      <3>2. CASE ~(n < 10)
        BY ONLY <1>2, <2>3, <3>2
      <3> QED BY <3>1, <3>2
    <2>5. Seq(Path!Digits) \subseteq Seq(E)
      BY <1>1
    <2> QED BY <2>4, <2>5
  <1>4. Path!Decimal[n] \in Seq(Path!Digits) /\ Path!Decimal[n] \in Seq(E)
    BY <1>1, DecimalFacts
  <1>5. <<"c">> \in Seq(E) /\ Path!IsSplitPart(<<"c">>)
    <2>1. <<"c">> \in Seq(E) /\ <<"c">> # <<>> /\ <<"c">>[1] = "c" /\ \A i \in 2..Len(<<"c">>) : FALSE
      BY <1>1
    <2> QED BY <2>1 DEF Path!IsSplitPart
  <1>6. <<"c">> \o z \in Seq(E) /\ Path!IsSplitPart(<<"c">> \o z)
    BY <1>3, <1>5, MoreDigits
  <1>7. Path!IsSplitPart((<<"c">> \o z) \o Path!Decimal[n])
    BY <1>4, <1>6, MoreDigits
  <1> QED BY <1>2, <1>7 DEF Path!SplitPart

\* A path that is the end of another and begins with a root is that one.
LEMMA EndsWithFacts ==
  ASSUME NEW p, IsCanonical(p), NEW q \in Seq({Path!Root} \cup Names), Path!IsPath(q)
  PROVE  Path!EndsWith(p, q) <=> q = p
  <1>1. Len(p) \in Nat /\ Len(q) \in Nat \ {0} /\ Len(p) > 1 /\ q[1] = Path!Root
    BY DEF IsCanonical, Path!IsPath, Path!HasName
  <1>2. ASSUME Path!EndsWith(p, q)
        PROVE  q = p
    <2>0. PICK S : S = {Path!Root} \cup Names
      OBVIOUS
    <2>1. PICK k \in 0..(Len(p) - 1) : k = Len(p) - Len(q)
      <3>1. Len(q) <= Len(p)
        BY <1>2 DEF Path!EndsWith
      <3>2. Len(p) - Len(q) \in 0..(Len(p) - 1)
        BY <1>1, <3>1
      <3> QED BY <3>2
    <2>2. q = SubSeq(p, k + 1, Len(p))
      BY <1>2, <2>1 DEF Path!EndsWith
    <2>3. q[1] = p[k + 1]
      <3>1. p \in Seq(S) /\ Len(p) \in 0..Len(p) /\ k \in 0..Len(p) /\ 1 \in 1..(Len(p) - k)
        BY <1>1, <2>0, <2>1 DEF IsCanonical
      <3> QED BY <2>2, <3>1, PieceFacts
    <2>4. k = 0
      <3>1. k # 0 => k + 1 \in 2..Len(p)
        BY <1>1, <2>1
      <3> QED BY <1>1, <2>3, <3>1 DEF IsCanonical
    <2>5. q = SubSeq(p, 1, Len(p))
      BY <2>2, <2>4
    <2> QED BY <2>5, SubSeqFull DEF IsCanonical
  <1>3. ASSUME q = p
        PROVE  Path!EndsWith(p, q)
    <2>1. Len(p) - Len(p) + 1 = 1 /\ Len(p) <= Len(p)
      BY <1>1
    <2>2. SubSeq(p, 1, Len(p)) = p
      BY SubSeqFull DEF IsCanonical
    <2> QED BY <1>3, <2>1, <2>2 DEF Path!EndsWith
  <1> QED BY <1>2, <1>3

\* All but the last element, and one more.
LEMMA FrontAppend ==
  ASSUME NEW S, NEW s \in Seq(S), s # <<>>, NEW T, NEW x \in T
  PROVE  /\ Len(Append(Front(s), x)) = Len(s) /\ Front(Append(Front(s), x)) = Front(s)
         /\ Last(Append(Front(s), x)) = x
         /\ Len(s) > 1 => Append(Front(s), x)[1] = s[1]
  <1>1. PICK U : U = S \cup T
    OBVIOUS
  <1>2. s \in Seq(U) /\ x \in U /\ Len(s) \in Nat \ {0}
    BY <1>1
  <1>3. PICK n \in Nat : Len(s) = n + 1
    <2>1. Len(s) - 1 \in Nat /\ Len(s) = (Len(s) - 1) + 1
      BY <1>2
    <2> QED BY <2>1
  <1>4. PICK f : f = Front(s)
    OBVIOUS
  <1>5. f = SubSeq(s, 1, n)
    BY <1>3, <1>4 DEF Front
  <1>6. f \in Seq(U) /\ Len(f) = n /\ \A i \in 1..n : f[i] = s[i]
    BY <1>2, <1>3, <1>5, FirstElements
  <1>7. PICK g : g = Append(f, x)
    OBVIOUS
  <1>8. g \in Seq(U) /\ Len(g) = n + 1 /\ g[n + 1] = x /\ \A i \in 1..n : g[i] = f[i]
    BY <1>2, <1>6, <1>7, AppendProperties
  <1>9. Front(g) = f
    <2>1. Front(g) = SubSeq(g, 1, n)
      BY <1>8 DEF Front
    <2>2. Front(g) \in Seq(U) /\ Len(Front(g)) = n /\ \A i \in 1..n : Front(g)[i] = g[i]
      <3>1. n \in 0..Len(g)
        BY <1>8
      <3> QED BY <1>8, <2>1, <3>1, FirstElements
    <2> QED BY <1>6, <1>8, <2>2, SeqEqual
  <1>10. Last(g) = x
    BY <1>8 DEF Last
  <1>11. Len(s) > 1 => g[1] = s[1]
    BY <1>3, <1>6, <1>8
  <1> QED BY <1>3, <1>4, <1>7, <1>8, <1>9, <1>10, <1>11

\* exclude_file knows all names that WriteOutput gives to the files of a series.
LEMMA SeriesExcluded ==
  ASSUME NEW out, IsCanonical(out), Path!Decryptable(Path!FileName(out)), NEW n \in Nat,
         n # 0 => Path!Ext(Path!FileName(out)) = Path!C00
  PROVE  Path!ExcludeFile(Path!SeriesPath(out, n), out)
  <1>0. \A s : Path!Front(s) = Front(s) /\ Path!Last(s) = Last(s)
    BY DEF Path!Front, Front, Path!Last, Last
  <1>1. PICK name : name = Path!FileName(out)
    OBVIOUS
  <1>2. Path!HasExt(name) /\ Path!Ext(name) \in {Path!Cce, Path!C00}
    BY <1>1 DEF Path!Decryptable
  <1>3. CASE Path!Ext(name) # Path!C00
    <2>1. Path!SeriesPath(out, n) = out /\ Path!Ext(name) = Path!Cce
      BY <1>1, <1>2, <1>3 DEF Path!SeriesPath
    <2>2. Path!EndsWith(out, out)
      BY EndsWithFacts DEF IsCanonical
    <2> QED BY <1>1, <2>1, <2>2 DEF Path!ExcludeFile
  <1>4. CASE Path!Ext(name) = Path!C00
    <2>1. CASE n = 0
      <3>1. Path!SeriesPath(out, n) = out
        BY <2>1 DEF Path!SeriesPath
      <3>2. Path!IsSplitPart(Path!Ext(name))
        BY <1>4, SplitPartFacts DEF Path!C00
      <3> QED BY <1>1, <1>2, <1>4, <3>1, <3>2 DEF Path!ExcludeFile
    <2>2. CASE n # 0
      <3>1. PICK part : part = Path!SplitPart(n)
        OBVIOUS
      <3>2. PICK new : new = Append(Front(name), part)
        OBVIOUS
      <3>3. PICK p : p = Append(Front(out), new)
        OBVIOUS
      <3>4. Path!SeriesPath(out, n) = p
        BY <1>0, <1>1, <1>2, <2>2, <3>1, <3>2, <3>3
           DEF Path!SeriesPath, Path!WithExt, Path!Join, Path!Parent, Path!AddExt, Path!Stem
      <3>5. out \in Seq({Path!Root} \cup Names) /\ out # <<>> /\ Len(out) > 1
        BY DEF IsCanonical, Path!IsPath, Path!HasName
      <3>6. name \in Seq(Seq(STRING)) /\ name # <<>> /\ Len(name) > 1
        <4>1. Len(out) \in 2..Len(out)
          BY <3>5
        <4>2. name = out[Len(out)]
          BY <1>0, <1>1 DEF Path!FileName, Last
        <4>3. name \in Names
          BY <4>1, <4>2 DEF IsCanonical
        <4>4. Len(name) > 1
          BY <1>2 DEF Path!HasExt
        <4> QED BY <4>3, <4>4 DEF Names
      <3>7. Front(p) = Front(out) /\ Last(p) = new
        <4>1. new \in {new}
          OBVIOUS
        <4> QED BY <3>3, <3>5, <4>1, FrontAppend
      <3>8. Len(new) = Len(name) /\ Front(new) = Front(name) /\ Last(new) = part /\ new[1] = name[1]
        <4>1. part \in {part}
          OBVIOUS
        <4> QED BY <3>2, <3>6, <4>1, FrontAppend
      <3>9. Path!Parent(p) = Path!Parent(out) /\ Path!FileName(p) = new
        BY <1>0, <3>7 DEF Path!Parent, Path!FileName
      <3>10. Path!HasExt(new)
        BY <1>2, <3>8 DEF Path!HasExt
      <3>11. Path!Stem(new) = Path!Stem(name) /\ Path!Ext(new) = part
        BY <1>0, <1>2, <3>8, <3>10 DEF Path!Stem, Path!Ext
      <3>12. Path!IsSplitPart(part)
        BY <3>1, SplitPartFacts
      <3> QED BY <1>1, <1>4, <3>4, <3>9, <3>10, <3>11, <3>12 DEF Path!ExcludeFile
    <2> QED BY <2>1, <2>2
  <1> QED BY <1>3, <1>4

\* What was left out is excluded, and nothing of the output is on its way.
OutputInv ==
  /\ \A p \in excluded : \E i \in 1..Len(tree) : p = tree[i].path /\ Excluded(tree[i])
  /\ Carried({e \in Sent : e.at \notin Outputs})

LEMMA OutputsAreSeries ==
  ASSUME TypeInv, Canonical, OutputsAreFiles, NoOtherParts
  PROVE  /\ Outputs = SeriesOf(tree)
         /\ \A i \in 1..Len(tree) : Excluded(tree[i]) <=> tree[i].at \in Outputs
  <1>1. tree \in Trees /\ Len(tree) \in Nat /\ \A i \in 1..Len(tree) : Path!IsPath(tree[i].at)
    BY ReadAssumption DEF TypeInv, States
  <1>2. PICK out : out = ExcludePath[tree]
    OBVIOUS
  <1>3. IsCanonical(out) /\ Path!Decryptable(Path!FileName(out))
    BY <1>1, <1>2, ReadAssumption DEF Canonical
  <1>4. Outputs = SeriesOf(tree)
    BY DEF Outputs, SeriesOf, NFiles, OutputExt
  <1>5. NOutputs \in Nat \ {0}
    BY ReadAssumption
  <1>6. ASSUME NEW i \in 1..Len(tree), tree[i].at \in Outputs
        PROVE  Excluded(tree[i])
    <2>1. tree[i].kind = "file"
      BY <1>1, <1>4, <1>6 DEF OutputsAreFiles
    <2>2. PICK n \in 0..((IF Path!Ext(Path!FileName(out)) = Path!C00 THEN NOutputs ELSE 1) - 1) :
            tree[i].at = Path!SeriesPath(out, n)
      BY <1>2, <1>4, <1>6 DEF SeriesOf
    <2>3. n \in Nat /\ (n # 0 => Path!Ext(Path!FileName(out)) = Path!C00)
      BY <1>5, <2>2
    <2>4. Path!ExcludeFile(tree[i].at, out)
      BY <1>3, <2>2, <2>3, SeriesExcluded
    <2> QED BY <1>2, <2>1, <2>4 DEF Excluded
  <1>7. ASSUME NEW i \in 1..Len(tree), Excluded(tree[i])
        PROVE  tree[i].at \in Outputs
    <2>1. tree[i].kind = "file" /\ Path!ExcludeFile(tree[i].at, out)
      BY <1>2, <1>7 DEF Excluded
    <2>2. CASE Path!Ext(Path!FileName(out)) = Path!C00
      BY <1>1, <1>2, <1>4, <2>1, <2>2 DEF NoOtherParts
    <2>3. CASE Path!Ext(Path!FileName(out)) # Path!C00
      <3>1. Path!EndsWith(out, tree[i].at)
        BY <2>1, <2>3 DEF Path!ExcludeFile
      <3>2. tree[i].at \in Seq({Path!Root} \cup Names) /\ Path!IsPath(tree[i].at)
        BY <1>1 DEF Canonical
      <3>3. tree[i].at = out
        BY <1>3, <3>1, <3>2, EndsWithFacts
      <3>4. Path!SeriesPath(out, 0) = out /\ 0 \in 0..(1 - 1)
        BY DEF Path!SeriesPath
      <3> QED BY <1>2, <1>4, <2>3, <3>3, <3>4 DEF SeriesOf
    <2> QED BY <2>2, <2>3
  <1> QED BY <1>4, <1>6, <1>7

LEMMA OutputStep ==
  ASSUME TypeInv, OutputInv, Canonical, OutputsAreFiles, NoOtherParts, [Next]_vars
  PROVE  OutputInv'
  <1> USE DEF vars, walkerVars, workerVars, readVars, mainVars, leftOut
  <1>1. tree' = tree
    BY DEF Next, Walker, WalkEntry, WalkExclude, WalkError, Worker, WorkerTake, WorkerSkip,
           WorkerSend, WorkerReadError, WorkerEnd, Main, ReadSticky, ReadSelected,
           ReadDisconnected, ReadChunk, ReadLastChunk, SendOn, Stop, ProgressError, Join, JoinedAll,
           Ended
  <1>2. Outputs' = Outputs
    BY <1>1 DEF Outputs, NFiles, OutputExt
  <1>3. \A p \in excluded' : \E i \in 1..Len(tree) : p = tree[i].path /\ Excluded(tree[i])
    <2>1. CASE WalkExclude
      <3>1. walkNo \in 1..Len(tree) /\ Excluded(tree[walkNo])
        BY <2>1, TreeFacts DEF WalkExclude, WalkerEnded, TypeInv, States
      <3> QED BY <2>1, <3>1 DEF WalkExclude, OutputInv
    <2>2. CASE ~WalkExclude
      <3>1. excluded' = excluded
        BY <2>2 DEF Next, Walker, WalkEntry, WalkError, Worker, WorkerTake, WorkerSkip,
             WorkerSend, WorkerReadError, WorkerEnd, Main, ReadSticky, ReadSelected,
             ReadDisconnected, ReadChunk, ReadLastChunk, SendOn, Stop, ProgressError, Join,
             JoinedAll, Ended
      <3> QED BY <3>1 DEF OutputInv
    <2> QED BY <2>1, <2>2
  <1>4. PICK E : E = {e \in Sent : e.at \notin Outputs}
    OBVIOUS
  <1>5. PICK F : F = {e \in Sent' : e.at \notin Outputs}
    OBVIOUS
  <1>6. E \subseteq F /\ \A e \in E : IsSent(e)
    BY <1>4, <1>5, LinksStep, SentFacts DEF TypeInv
  <1>7. Carried(E)
    BY <1>4 DEF OutputInv
  <1>8. Carried(F)'
    <2>1. CASE UNCHANGED vars
      <3>1. Carried(E)'
        BY <1>7, <2>1 DEF Carried
      <3>2. Seq(E) \subseteq Seq(F)
        BY <1>6
      <3>3. Seq(MsgSet(E)) \subseteq Seq(MsgSet(F)) /\ Seq(UnitSet(E)) \subseteq Seq(UnitSet(F))
        BY <1>6, SetsGrow
      <3> QED BY <3>1, <3>2, <3>3 DEF Carried
    <2>2. CASE Next
      <3>1. ASSUME WalkEntry
            PROVE  Found(tree[walkNo]) \in F
        <4>1. PICK n \in 1..Len(tree) : n = walkNo /\ ~Excluded(tree[n])
          BY <3>1, TreeFacts DEF WalkEntry, WalkerEnded, TypeInv, States
        <4>2. tree[n].at \notin Outputs
          BY <4>1, OutputsAreSeries
        <4>3. Found(tree[n]).at = tree[n].at
          <5>1. PICK e : e = tree[n]
            OBVIOUS
          <5>2. DOMAIN e = Fields /\ {"at", "kind", "target"} \subseteq Fields
            BY <5>1, TreeFacts DEF IsEntry, Fields, TypeInv
          <5>3. \A p : [e EXCEPT !.kind = "hardlink", !.target = p].at = e.at
            BY ONLY <5>2
          <5> QED BY <5>1, <5>3 DEF Found
        <4>4. Found(tree[n]) \in Sent'
          BY <3>1, <4>1, LinksStep DEF TypeInv
        <4> QED BY <1>5, <4>1, <4>2, <4>3, <4>4
      <3> QED BY <1>6, <1>7, <2>2, <3>1, CarriedStep DEF TypeInv
    <2> QED BY <2>1, <2>2
  <1>9. Carried({e \in Sent : e.at \notin Outputs})'
    <2>1. {e \in Sent : e.at \notin Outputs}' = F
      BY <1>2, <1>5
    <2> QED BY <1>8, <2>1 DEF Carried
  <1> QED BY <1>1, <1>3, <1>9 DEF OutputInv, Excluded

LEMMA OutputFacts ==
  ASSUME TypeInv, OutputInv, Canonical, OutputsAreFiles, NoOtherParts
  PROVE  ExcludedIsOutput
  <1>1. PICK E : E = {e \in Sent : e.at \notin Outputs}
    OBVIOUS
  <1>2. Archived \subseteq E
    BY <1>1, ArchivedIn DEF OutputInv
  <1>3. ASSUME NEW i \in 1..Len(tree), tree[i].path \in excluded
        PROVE  tree[i].at \in Outputs
    <2>1. PICK j \in 1..Len(tree) : tree[i].path = tree[j].path /\ Excluded(tree[j])
      BY <1>3 DEF OutputInv
    <2>2. j = i
      BY <2>1, TreeFacts DEF TypeInv
    <2> QED BY <2>1, <2>2, OutputsAreSeries
  <1> QED BY <1>1, <1>2, <1>3 DEF ExcludedIsOutput

\* No file of the output gets into the archive, however many files it is split
\* into; and no other file is left out without a message, if none has the name of
\* a part of the output.
THEOREM ExcludedIsOutputCorrect ==
  ASSUME Canonical, OutputsAreFiles, NoOtherParts
  PROVE  Spec => []ExcludedIsOutput
  <1>1. Init => TypeInv /\ OutputInv
    <2> SUFFICES ASSUME Init
                 PROVE  OutputInv
      BY TypeInit
    <2>1. PICK E : E = {e \in Sent : e.at \notin Outputs}
      OBVIOUS
    <2>2. Carried(E)
      BY DEF Init, Carried
    <2> QED BY <2>1, <2>2 DEF Init, OutputInv
  <1>2. TypeInv /\ OutputInv /\ [Next]_vars => TypeInv' /\ OutputInv'
    BY TypeStep, OutputStep
  <1>3. TypeInv /\ OutputInv => ExcludedIsOutput
    BY OutputFacts
  <1> QED BY <1>1, <1>2, <1>3, PTL DEF Spec
=============================================================================
