-------------------------- MODULE ArchiveWriteProofs --------------------------
(***************************************************************************)
(* For all archives, all ways to cut them, and all contents of the output  *)
(* directory: an extraction changes no file that exists; what it ends with *)
(* is what was archived; listing shows it; and it is refused only for what *)
(* is in the way.                                                          *)
(***************************************************************************)
EXTENDS ArchiveWrite, SequenceFacts

\* p is as before.
Same(p) == p \in DOMAIN fs' /\ fs'[p] = fs[p]

\* p is neither a directory nor the file being written, nor at the place of a
\* directory of the archive.
Kept(p) ==
  p \in DOMAIN fs /\ p \notin {<<>>, fOut} /\ fs[p].kind # "dir" /\ p \notin Range(dirTimes')

\* A new element changes nothing but the time of its directory.
LEMMA CreateKeeps ==
  ASSUME NEW path, NEW element, NEW p, Kept(p),
         Create(path, element), MayCreate(path), ~Exists(path)
  PROVE  Same(p)
  <1>1. p # path /\ p # Base(path)
    BY DEF Exists, Kept, MayCreate
  <1> QED BY <1>1 DEF Create, Same, Kept

LEMMA WrittenKeeps ==
  ASSUME NEW n, NEW f, NEW p, Kept(p),
         \/ f = Written(n)
         \/ \E len : f = [fs EXCEPT ![fOut].content = @ \o HoleContent(len)]
         \/ f = fs
  PROVE  p \in DOMAIN f /\ f[p] = fs[p] /\ DOMAIN f = DOMAIN fs
  BY DEF Kept, Written

LEMMA TimesKeep ==
  ASSUME NEW f, NEW paths, NEW p \in DOMAIN f, p \notin paths
  PROVE  p \in DOMAIN TimesSet(f, paths) /\ TimesSet(f, paths)[p] = f[p]
  BY DEF TimesSet

LEMMA AfterKeeps ==
  ASSUME NEW index, NEW size, NEW f, NEW p, Kept(p), p \in DOMAIN f, f[p] = fs[p],
         AfterSegment(index, size, f)
  PROVE  Same(p)
  BY TimesKeep DEF AfterSegment, Closed, Same, Kept

\* dir_times is a list.
DirList == \E S : dirTimes \in Seq(S)

NoFileOpened == fOut' \in {fOut, NoPath}

\* The header of an entry e.
LEMMA HeaderKeeps ==
  ASSUME NEW e, EvalHeader(e), DirList
  PROVE  /\ \A p : Kept(p) => Same(p)
         /\ NoFileOpened \/ fOut' \notin DOMAIN fs
  <1>1. CASE EvalList(e) \/ EvalConflict(e) \/ EvalHardlink(e) \/ EvalDenied(e)
    BY <1>1 DEF EvalList, EvalConflict, EvalHardlink, EvalDenied, Refuse, fileVars,
                Kept, Same, NoFileOpened
  <1>2. CASE EvalDirectory(e)
    <2>1. e.path \in Range(dirTimes')
      BY <1>2, RangeAppend DEF EvalDirectory, DirList
    <2>2. NoFileOpened
      BY <1>2 DEF EvalDirectory, fileVars, NoFileOpened
    <2>3. CASE Exists(e.path)
      BY <1>2, <2>1, <2>2, <2>3 DEF EvalDirectory, Kept, Same
    <2>4. CASE ~Exists(e.path)
      BY <1>2, <2>2, <2>4, CreateKeeps DEF EvalDirectory
    <2> QED BY <2>3, <2>4
  <1>3. CASE EvalFile(e)
    <2>1. ~Exists(e.path)
      BY <1>3 DEF EvalFile, Conflict
    <2>2. fOut' \notin DOMAIN fs
      BY <1>3, <2>1 DEF EvalFile, Exists
    <2> QED BY <1>3, <2>1, <2>2, CreateKeeps DEF EvalFile
  <1>4. CASE EvalSymlink(e)
    <2>1. ~Exists(e.path)
      BY <1>4 DEF EvalSymlink, Conflict
    <2>2. NoFileOpened
      BY <1>4 DEF EvalSymlink, fileVars, NoFileOpened
    <2> QED BY <1>4, <2>1, <2>2, CreateKeeps DEF EvalSymlink
  <1> QED BY <1>1, <1>2, <1>3, <1>4 DEF EvalHeader

-----------------------------------------------------------------------------
LEMMA DirListStep == DirList /\ [Next]_vars => DirList'
  <1> SUFFICES ASSUME DirList, [Next]_vars
               PROVE  DirList'
    OBVIOUS
  <1>1. CASE UNCHANGED dirTimes
    BY <1>1 DEF DirList
  <1>2. ASSUME NEW x, dirTimes' = Append(dirTimes, x)
        PROVE  DirList'
    <2>1. PICK S : dirTimes \in Seq(S)
      BY DEF DirList
    <2>2. Append(dirTimes, x) \in Seq(S \cup {x})
      BY <2>1, SeqMonotonic, AppendProperties
    <2> QED BY <1>2, <2>2 DEF DirList
  <1>3. CASE TakeHeader
    <2>1. ASSUME NEW e, EvalHeader(e)
          PROVE  DirList'
      BY <1>1, <1>2, <2>1
         DEF EvalHeader, EvalList, EvalConflict, EvalHardlink, EvalDirectory, EvalFile,
             EvalSymlink, EvalDenied, Refuse, lateVars
    <2> QED BY <1>1, <1>3, <2>1 DEF TakeHeader, Refuse, lateVars
  <1> QED
    BY <1>1, <1>3
       DEF Next, Feed, WritePlain, WriteSegment, WriteHole, TakeLength, NotEnough, IoError,
           StartOthers, MakeLink, LinksMade, SetDirTimes, Stopped, vars, lateVars

LEMMA StepKeeps ==
  ASSUME DirList, [Next]_vars
  PROVE  /\ \A p : Kept(p) => Same(p)
         /\ NoFileOpened \/ fOut' \notin DOMAIN fs
  <1>1. CASE UNCHANGED <<fs, fOut>>
    BY <1>1 DEF Kept, Same, NoFileOpened
  <1>2. CASE TakeHeader
    BY <1>1, <1>2, HeaderKeeps DEF TakeHeader, Refuse, fileVars
  <1>3. CASE WritePlain
    <2>1. ASSUME NEW p, Kept(p)
          PROVE  Same(p)
      <3>1. PICK n : \/ fs' = Closed(Written(n))
                     \/ fs' = Written(n)
        BY <1>3 DEF WritePlain
      <3>2. p \in DOMAIN Written(n) /\ Written(n)[p] = fs[p]
        BY <2>1, WrittenKeeps
      <3> QED BY <2>1, <3>1, <3>2, TimesKeep DEF Closed, Kept, Same
    <2> QED BY <1>3, <2>1 DEF WritePlain, NoFileOpened
  <1>4. CASE WriteSegment
    <2>1. PICK n, index, size : AfterSegment(index, size, Written(n))
      BY <1>4 DEF WriteSegment
    <2>2. ASSUME NEW p, Kept(p)
          PROVE  Same(p)
      BY <2>1, <2>2, WrittenKeeps, AfterKeeps
    <2> QED BY <2>1, <2>2 DEF AfterSegment, NoFileOpened
  <1>5. CASE WriteHole
    <2>1. PICK len, index, size, f :
            /\ AfterSegment(index, size, f)
            /\ f = fs \/ f = [fs EXCEPT ![fOut].content = @ \o HoleContent(len)]
      BY <1>5 DEF WriteHole
    <2>2. ASSUME NEW p, Kept(p)
          PROVE  Same(p)
      BY <2>1, <2>2, WrittenKeeps, AfterKeeps
    <2> QED BY <2>1, <2>2 DEF AfterSegment, NoFileOpened
  <1>6. CASE MakeLink
    <2>1. NoFileOpened
      BY <1>6 DEF MakeLink, fileVars, NoFileOpened
    <2> QED BY <1>6, <2>1, CreateKeeps DEF MakeLink, Kept, Same
  <1>7. CASE SetDirTimes
    BY <1>7, TimesKeep DEF SetDirTimes, lateVars, fileVars, Kept, Same, NoFileOpened
  <1> QED
    BY <1>1, <1>2, <1>3, <1>4, <1>5, <1>6, <1>7
       DEF Next, Feed, TakeLength, NotEnough, IoError, StartOthers, LinksMade, Stopped, vars,
           fileVars

\* An extraction changes no existing file, link or symbolic link, whatever the
\* archive has at its path, except where the archive has a directory.
THEOREM NoOverwriteCorrect == Spec => NoOverwrite
  <1>1. Init => DirList
    <2>1. <<>> \in Seq({})
      BY EmptySeq
    <2> QED BY <2>1 DEF Init, DirList
  <1>2. Spec => []DirList
    BY <1>1, DirListStep, PTL DEF Spec
  <1>3. DirList /\ [Next]_vars =>
          [/\ \A p \in DOMAIN fs :
                p \notin {<<>>, fOut} /\ fs[p].kind # "dir" /\ p \notin Range(dirTimes') =>
                  p \in DOMAIN fs' /\ fs'[p] = fs[p]
           /\ fOut' \notin {fOut, NoPath} => fOut' \notin DOMAIN fs]_vars
    BY StepKeeps DEF Kept, Same, NoFileOpened
  <1> QED BY <1>2, <1>3, PTL DEF Spec, NoOverwrite

-----------------------------------------------------------------------------
(* The units of an entry.                                                  *)

UnitSet(E) == [of : E, part : {"header", "data"}, at : Nat]
MsgSet(E) == [units : Seq(UnitSet(E)), last : BOOLEAN]

\* len bytes of the file, from an offset.
Bytes(e, from, len) == [j \in 1..len |-> Byte(e, from + (j - 1))]

\* What is sent of a segment, and of a file.
SegBytes(e, i) ==
  IF e.segs[i].hole THEN <<>> ELSE Bytes(e, SegStart(e.segs, i), e.segs[i].len)
SegData(e) == [i \in 1..Len(e.segs) |-> SegBytes(e, i)]
Data(e) ==
  IF e.kind # "file" THEN <<>>
  ELSE IF e.segs = <<>> THEN Bytes(e, 0, e.size) ELSE FlattenSeq(SegData(e))

\* The units in messages.
UnitLists(ms) == [i \in 1..Len(ms) |-> ms[i].units]
UnitsIn(ms) == FlattenSeq(UnitLists(ms))

\* The lists of units in messages, and these put together.
LEMMA ListsType ==
  ASSUME NEW E, NEW ms \in Seq(MsgSet(E))
  PROVE  /\ UnitLists(ms) \in Seq(Seq(UnitSet(E))) /\ Len(UnitLists(ms)) = Len(ms)
         /\ \A i \in 1..Len(ms) : UnitLists(ms)[i] = ms[i].units
         /\ UnitsIn(ms) \in Seq(UnitSet(E))
  <1>1. Len(ms) \in Nat /\ \A i \in 1..Len(ms) : ms[i].units \in Seq(UnitSet(E))
    <2>1. \A i \in 1..Len(ms) : ms[i] \in MsgSet(E)
      BY ElementOfSeq
    <2> QED BY <2>1 DEF MsgSet
  <1>2. PICK f : f = UnitLists(ms)
    OBVIOUS
  <1>3. DOMAIN f = 1..Len(ms) /\ f = [i \in 1..Len(ms) |-> f[i]]
        /\ \A i \in 1..Len(ms) : f[i] = ms[i].units
    BY <1>2 DEF UnitLists
  <1>4. f \in Seq(Seq(UnitSet(E))) /\ Len(f) = Len(ms)
    BY <1>1, <1>3, MakeSequence
  <1>5. FlattenSeq(f) \in Seq(UnitSet(E))
    BY <1>4, FlattenParts
  <1> QED BY <1>2, <1>3, <1>4, <1>5 DEF UnitsIn

\* The units of messages after others.
LEMMA UnitsJoin ==
  ASSUME NEW E, NEW ms, NEW ns, ms \in Seq(MsgSet(E)), ns \in Seq(MsgSet(E))
  PROVE  UnitsIn(ms \o ns) = UnitsIn(ms) \o UnitsIn(ns)
  <1>1. PICK js : js = ms \o ns
    OBVIOUS
  <1>2. /\ js \in Seq(MsgSet(E)) /\ Len(js) = Len(ms) + Len(ns)
        /\ Len(ms) \in Nat /\ Len(ns) \in Nat
        /\ (\A k \in 1..Len(ms) : js[k] = ms[k])
        /\ (\A k \in 1..Len(ns) : js[Len(ms) + k] = ns[k])
    BY <1>1, JoinFacts
  <1>3. PICK a, b, c : a = UnitLists(ms) /\ b = UnitLists(ns) /\ c = UnitLists(js)
    OBVIOUS
  <1>4. /\ a \in Seq(Seq(UnitSet(E))) /\ b \in Seq(Seq(UnitSet(E))) /\ c \in Seq(Seq(UnitSet(E)))
        /\ Len(a) = Len(ms) /\ Len(b) = Len(ns) /\ Len(c) = Len(js)
        /\ \A i \in 1..Len(ms) : a[i] = ms[i].units
        /\ \A i \in 1..Len(ns) : b[i] = ns[i].units
        /\ \A i \in 1..Len(js) : c[i] = js[i].units
    BY <1>2, <1>3, ListsType
  <1>5. c = a \o b
    <2>1. PICK d, R : d = a \o b /\ R = Seq(UnitSet(E))
      OBVIOUS
    <2>2. /\ d \in Seq(R) /\ Len(d) = Len(ms) + Len(ns) /\ c \in Seq(R)
          /\ (\A k \in 1..Len(ms) : d[k] = a[k]) /\ (\A k \in 1..Len(ns) : d[Len(ms) + k] = b[k])
      <3>1. a \in Seq(R) /\ b \in Seq(R) /\ c \in Seq(R) /\ Len(a) = Len(ms) /\ Len(b) = Len(ns)
        BY <1>4, <2>1
      <3>2. d = a \o b
        BY <2>1
      <3>3. d \in Seq(R) /\ Len(d) = Len(a) + Len(b)
        BY ONLY <3>1, <3>2, JoinParts
      <3>4. \A k \in 1..Len(a) : d[k] = a[k]
        BY ONLY <3>1, <3>2, JoinParts
      <3>5. \A k \in 1..Len(b) : d[Len(a) + k] = b[k]
        BY ONLY <3>1, <3>2, JoinParts
      <3> QED BY <3>1, <3>3, <3>4, <3>5
    <2>3. ASSUME NEW i \in 1..Len(c)
          PROVE  c[i] = d[i]
      <3>1. CASE i <= Len(ms)
        <4>1. i \in 1..Len(ms) /\ i \in 1..Len(js)
          BY <1>2, <1>4, <3>1
        <4> QED BY <4>1, <1>2, <1>4, <2>2
      <3>2. CASE ~(i <= Len(ms))
        <4>1. PICK k \in 1..Len(ns) : i = Len(ms) + k
          <5>1. i - Len(ms) \in 1..Len(ns) /\ i = Len(ms) + (i - Len(ms))
            BY <1>2, <1>4, <3>2
          <5> QED BY <5>1
        <4> QED BY <4>1, <1>2, <1>4, <2>2
      <3> QED BY <3>1, <3>2
    <2>4. Len(c) = Len(d) /\ c \in Seq(R) /\ d \in Seq(R)
      BY <1>2, <1>4, <2>2
    <2>5. c = d
      BY ONLY <2>3, <2>4, SameSequence
    <2> QED BY <2>1, <2>5
  <1>6. FlattenSeq(a \o b) = FlattenSeq(a) \o FlattenSeq(b)
    BY <1>4, FlattenJoin
  <1> QED BY <1>1, <1>3, <1>5, <1>6 DEF UnitsIn

\* No message, no unit.
LEMMA UnitsNone == UnitsIn(<<>>) = <<>>
  <1>1. UnitLists(<<>>) = <<>>
    BY DEF UnitLists
  <1> QED BY <1>1, FlattenEmpty DEF UnitsIn

\* The units of one message, and of none.
LEMMA UnitsOne ==
  ASSUME NEW E, NEW m \in MsgSet(E)
  PROVE  /\ <<m>> \in Seq(MsgSet(E)) /\ UnitsIn(<<m>>) = m.units
         /\ <<>> \in Seq(MsgSet(E)) /\ UnitsIn(<<>>) = <<>>
  <1>1. UnitsIn(<<>>) = <<>>
    BY UnitsNone
  <1>2. PICK s : s = <<m>>
    OBVIOUS
  <1>3. s \in Seq(MsgSet(E)) /\ Len(s) = 1 /\ s[1] = m
    BY <1>2
  <1>4. PICK f : f = UnitLists(s)
    OBVIOUS
  <1>5. f \in Seq(Seq(UnitSet(E))) /\ Len(f) = 1 /\ f[1] = m.units
    BY <1>3, <1>4, ListsType
  <1>6. f = Append(<<>>, m.units)
    BY <1>5
  <1>7. m.units \in Seq(UnitSet(E)) /\ <<>> \in Seq(Seq(UnitSet(E)))
    BY DEF MsgSet
  <1>8. FlattenSeq(f) = <<>> \o m.units
    BY <1>6, <1>7, FlattenAppend, FlattenEmpty
  <1>9. <<>> \o m.units = m.units
    BY <1>7, ConcatEmptySeq
  <1> QED BY <1>1, <1>2, <1>3, <1>4, <1>8, <1>9 DEF UnitsIn

\* The units of lists of messages put together.
LEMMA UnitsFlatten ==
  ASSUME NEW E, NEW s, s \in Seq(Seq(MsgSet(E)))
  PROVE  UnitsIn(FlattenSeq(s)) = FlattenSeq([i \in 1..Len(s) |-> UnitsIn(s[i])])
  <1>1. PICK t, M, R : t = [i \in 1..Len(s) |-> UnitsIn(s[i])] /\ M = MsgSet(E) /\ R = UnitSet(E)
    OBVIOUS
  <1>2. Len(s) \in Nat /\ s \in Seq(Seq(M)) /\ \A i \in 1..Len(s) : s[i] \in Seq(M)
    BY <1>1, ElementOfSeq
  <1>3. DOMAIN t = 1..Len(s) /\ t = [i \in 1..Len(s) |-> t[i]]
        /\ \A i \in 1..Len(s) : t[i] = UnitsIn(s[i])
    BY <1>1
  <1>4. \A i \in 1..Len(s) : t[i] \in Seq(R)
    BY <1>1, <1>2, <1>3, ListsType
  <1>5. t \in Seq(Seq(R)) /\ Len(t) = Len(s)
    BY <1>2, <1>3, <1>4, MakeSequence
  <1> DEFINE A(n) == FlattenSeq(SubSeq(s, 1, n))
             B(n) == FlattenSeq(SubSeq(t, 1, n))
             T == {n \in Nat : n <= Len(s) => UnitsIn(A(n)) = B(n)}
  <1>6. \A n \in 0..Len(s) : A(n) \in Seq(M) /\ B(n) \in Seq(R)
    BY <1>2, <1>5, FlattenType
  <1>7. \A n \in 0..(Len(s) - 1) : A(n + 1) = A(n) \o s[n + 1] /\ B(n + 1) = B(n) \o t[n + 1]
    <2> SUFFICES ASSUME NEW n \in 0..(Len(s) - 1)
                 PROVE  A(n + 1) = A(n) \o s[n + 1] /\ B(n + 1) = B(n) \o t[n + 1]
      OBVIOUS
    <2>1. n \in 0..Len(s) /\ n \in 0..(Len(t) - 1)
      BY <1>2, <1>5
    <2>2. A(n) \in Seq(M) /\ B(n) \in Seq(R)
      BY <1>6, <2>1
    <2>3. A(n + 1) = A(n) \o s[n + 1]
      BY <1>2, <2>2, FlattenStep
    <2>4. B(n + 1) = B(n) \o t[n + 1]
      BY <1>5, <2>1, <2>2, FlattenStep
    <2> QED BY <2>3, <2>4
  <1>8. A(0) = <<>> /\ B(0) = <<>>
    <2>1. SubSeq(s, 1, 0) = <<>> /\ SubSeq(t, 1, 0) = <<>>
      BY <1>2, <1>5, FirstElements
    <2> QED BY <2>1, FlattenEmpty
  <1>9. A(Len(s)) = FlattenSeq(s) /\ B(Len(s)) = FlattenSeq(t)
    <2>1. SubSeq(s, 1, Len(s)) = s /\ SubSeq(t, 1, Len(t)) = t
      BY <1>2, <1>5, WholePiece
    <2> QED BY <1>5, <2>1
  <1> HIDE DEF A, B
  <1>10. 0 \in T
    BY <1>8, UnitsNone
  <1>11. ASSUME NEW n \in Nat, n \in T
         PROVE  n + 1 \in T
    <2> SUFFICES ASSUME n + 1 <= Len(s)
                 PROVE  UnitsIn(A(n + 1)) = B(n + 1)
      OBVIOUS
    <2>1. n \in 0..(Len(s) - 1) /\ n \in 0..Len(s) /\ n + 1 \in 1..Len(s)
      BY <1>2
    <2>2. A(n) \in Seq(MsgSet(E)) /\ s[n + 1] \in Seq(MsgSet(E))
      BY <1>1, <1>2, <1>6, <2>1
    <2>3. UnitsIn(A(n) \o s[n + 1]) = UnitsIn(A(n)) \o UnitsIn(s[n + 1])
      BY <2>2, UnitsJoin
    <2>4. UnitsIn(A(n)) = B(n)
      BY <1>2, <1>11, <2>1
    <2> QED BY <1>3, <1>7, <2>1, <2>3, <2>4
  <1>12. Nat \subseteq T
    <2> HIDE DEF T
    <2> QED BY <1>10, <1>11, Induction
  <1>13. UnitsIn(A(Len(s))) = B(Len(s))
    BY <1>2, <1>12
  <1> QED BY <1>1, <1>9, <1>13

\* The bytes of a piece of a file are units of its entry.
LEMMA BytesFacts ==
  ASSUME NEW E, NEW e \in E, NEW from \in Nat, NEW len \in Nat
  PROVE  /\ Bytes(e, from, len) \in Seq(UnitSet(E)) /\ Len(Bytes(e, from, len)) = len
         /\ \A j \in 1..len : Bytes(e, from, len)[j] = Byte(e, from + (j - 1))
  <1>1. PICK f : f = Bytes(e, from, len)
    OBVIOUS
  <1>2. DOMAIN f = 1..len /\ f = [j \in 1..len |-> f[j]]
        /\ \A j \in 1..len : f[j] = Byte(e, from + (j - 1))
    BY <1>1 DEF Bytes
  <1>3. ASSUME NEW j \in 1..len
        PROVE  f[j] \in UnitSet(E)
    <2>1. from + (j - 1) \in Nat
      OBVIOUS
    <2>2. f[j] = [of |-> e, part |-> "data", at |-> from + (j - 1)]
      BY <1>2 DEF Byte
    <2> QED BY <2>1, <2>2 DEF UnitSet
  <1>4. f \in Seq(UnitSet(E)) /\ Len(f) = len
    BY <1>2, <1>3, MakeSequence
  <1> QED BY <1>1, <1>2, <1>4

\* However the data are cut, they are sent.
LEMMA PiecesUnits ==
  ASSUME NEW E, NEW e \in E, NEW from \in Nat, NEW len \in Nat, NEW last \in BOOLEAN
  PROVE  /\ Pieces(e, from, len, last) \in Seq(MsgSet(E))
         /\ UnitsIn(Pieces(e, from, len, last)) = Bytes(e, from, len)
  <1> DEFINE n == (len + PieceLen - 1) \div PieceLen
             Read(i) == (i - 1) * PieceLen
             L(i) == Lesser(PieceLen, len - Read(i))
             U(i) == [j \in 1..L(i) |-> Byte(e, from + (Read(i) + j - 1))]
             M(i) == Message(U(i), last /\ i = n)
             p == Pieces(e, from, len, last)
             x == [i \in 0..n |-> Lesser(i * PieceLen, len)]
             w == Bytes(e, from, len)
  <1>1. n \in Nat /\ n * PieceLen <= len + PieceLen - 1 /\ n * PieceLen >= len
    BY FormatAssumption
  <1>2. ASSUME NEW i \in 1..n
        PROVE  /\ Read(i) \in Nat /\ Read(i) < len /\ L(i) \in Nat /\ Read(i) + L(i) <= len
               /\ x[i - 1] = Read(i) /\ x[i] = Read(i) + L(i) /\ x[i] \in 0..len /\ x[i - 1] \in 0..len
    <2>1. i * PieceLen <= n * PieceLen /\ Read(i) = i * PieceLen - PieceLen /\ i * PieceLen \in Nat
          /\ i * PieceLen >= PieceLen
      BY <1>1, FormatAssumption
    <2>2. Read(i) \in Nat /\ Read(i) < len
      BY <2>1, <1>1, FormatAssumption
    <2>3. L(i) \in Nat /\ Read(i) + L(i) <= len
      BY <2>2, FormatAssumption DEF Lesser
    <2>4. i - 1 \in 0..n /\ i \in 0..n
      BY <1>1
    <2>5. x[i - 1] = Lesser(Read(i), len) /\ x[i] = Lesser(i * PieceLen, len)
      BY <2>4
    <2>6. Lesser(Read(i), len) = Read(i) /\ Lesser(i * PieceLen, len) = Read(i) + L(i)
      BY <2>1, <2>2, FormatAssumption DEF Lesser
    <2> QED BY <2>2, <2>3, <2>5, <2>6
  <1>3. w \in Seq(UnitSet(E)) /\ Len(w) = len /\ \A j \in 1..len : w[j] = Byte(e, from + (j - 1))
    BY BytesFacts
  <1>4. p = [i \in 1..n |-> M(i)]
    BY DEF Pieces
  <1>5. \A i \in 1..n : x[i - 1] = Read(i) /\ x[i] = Read(i) + L(i)
    BY <1>2
  <1>6. x[0] = 0
    <2>1. 0 \in 0..n /\ 0 * PieceLen = 0
      BY <1>1, FormatAssumption
    <2> QED BY <2>1 DEF Lesser
  <1>7. x[n] = len
    <2>1. n \in 0..n
      BY <1>1
    <2> QED BY <1>1, <2>1, FormatAssumption DEF Lesser
  <1>8. \A i \in 0..n : x[i] \in 0..len
    BY <1>2, <1>6
  <1>9. ASSUME NEW i \in 1..n
        PROVE  U(i) = SubSeq(w, x[i - 1] + 1, x[i]) /\ U(i) \in Seq(UnitSet(E))
    <2>1. PICK v, u, l, r : v = SubSeq(w, x[i - 1] + 1, x[i]) /\ u = U(i) /\ l = L(i) /\ r = Read(i)
      OBVIOUS
    <2>2. r \in Nat /\ l \in Nat /\ r + l <= len /\ x[i - 1] = r /\ x[i] = r + l
      BY <1>2, <2>1
    <2>3. v \in Seq(UnitSet(E)) /\ Len(v) = l /\ \A j \in 1..l : v[j] = w[r + j]
      <3>1. PICK b : b = r + l
        OBVIOUS
      <3>2. v = SubSeq(w, r + 1, b)
        BY <2>1, <2>2, <3>1
      <3>3. b \in 0..Len(w) /\ r \in 0..b /\ b - r = l
        BY <1>3, <2>2, <3>1
      <3> QED BY ONLY <1>3, <3>2, <3>3, PieceFacts
    <2>4. DOMAIN u = 1..l /\ u = [j \in 1..l |-> u[j]] /\ \A j \in 1..l : u[j] = Byte(e, from + (r + j - 1))
      BY <2>1
    <2>5. \A j \in 1..l : u[j] = v[j]
      <3> SUFFICES ASSUME NEW j \in 1..l
                   PROVE  u[j] = v[j]
        OBVIOUS
      <3>1. r + j \in 1..len /\ (r + j) - 1 = r + j - 1
        BY <2>2
      <3>2. w[r + j] = Byte(e, from + ((r + j) - 1))
        BY <1>3, <3>1
      <3>3. v[j] = w[r + j] /\ u[j] = Byte(e, from + (r + j - 1))
        BY <2>3, <2>4
      <3> QED BY <3>1, <3>2, <3>3
    <2>6. u \in Seq(UnitSet(E)) /\ Len(u) = l
      <3>1. \A j \in 1..l : u[j] \in UnitSet(E)
        BY <2>3, <2>5, ElementOfSeq
      <3> QED BY <2>2, <2>4, <3>1, MakeSequence
    <2>7. u = v
      BY ONLY <2>3, <2>5, <2>6, SameSequence
    <2> QED BY <2>1, <2>6, <2>7
  <1> HIDE DEF U, n, x, w
  <1>10. p \in Seq(MsgSet(E)) /\ Len(p) = n /\ \A i \in 1..n : p[i].units = U(i)
    <2>1. DOMAIN p = 1..n /\ p = [i \in 1..n |-> p[i]] /\ \A i \in 1..n : p[i] = M(i)
      BY <1>4
    <2>2. \A i \in 1..n : M(i) \in MsgSet(E) /\ M(i).units = U(i)
      BY <1>9 DEF MsgSet, Message
    <2> HIDE DEF p, M
    <2>3. \A i \in 1..n : p[i] \in MsgSet(E) /\ p[i].units = U(i)
      BY <2>1, <2>2
    <2> QED BY <1>1, <2>1, <2>3, MakeSequence
  <1> HIDE DEF p
  <1>11. PICK s : s = UnitLists(p)
    OBVIOUS
  <1>12. s \in Seq(Seq(UnitSet(E))) /\ Len(s) = n /\ \A i \in 1..n : s[i] = U(i)
    BY <1>10, <1>11, ListsType
  <1>13. \A i \in 1..Len(s) : x[i - 1] <= x[i] /\ s[i] = SubSeq(w, x[i - 1] + 1, x[i])
    <2> SUFFICES ASSUME NEW i \in 1..n
                 PROVE  x[i - 1] <= x[i] /\ s[i] = SubSeq(w, x[i - 1] + 1, x[i])
      BY <1>12
    <2>1. Read(i) \in Nat /\ L(i) \in Nat
      BY <1>2
    <2>2. x[i - 1] <= x[i]
      BY <1>5, <2>1
    <2> QED BY <1>9, <1>12, <2>2
  <1>14. \A i \in 0..Len(s) : x[i] \in 0..Len(w)
    BY <1>3, <1>8, <1>12
  <1>15. FlattenSeq(s) = SubSeq(w, 1, x[Len(s)])
    BY <1>3, <1>6, <1>12, <1>13, <1>14, FlattenPieces
  <1>16. SubSeq(w, 1, x[Len(s)]) = w
    BY <1>3, <1>7, <1>12, SubSeqFull
  <1> QED BY <1>10, <1>11, <1>15, <1>16 DEF UnitsIn, p, w

\* What is sent of a segment is its data, and nothing of a hole.
LEMMA SegUnits ==
  ASSUME NEW E, NEW e \in E, NEW i \in 1..Len(e.segs), e.segs[i].hole \in BOOLEAN,
         e.segs[i].len \in Nat, SegStart(e.segs, i) \in Nat
  PROVE  /\ SegmentMessages(e, i) \in Seq(MsgSet(E))
         /\ UnitsIn(SegmentMessages(e, i)) = SegBytes(e, i) /\ SegBytes(e, i) \in Seq(UnitSet(E))
  <1>1. CASE ~e.segs[i].hole
    <2>1. SegmentMessages(e, i) = Pieces(e, SegStart(e.segs, i), e.segs[i].len, i = Len(e.segs))
          /\ SegBytes(e, i) = Bytes(e, SegStart(e.segs, i), e.segs[i].len)
      BY <1>1 DEF SegmentMessages, SegBytes
    <2>2. PICK last, from, len :
            last = (i = Len(e.segs)) /\ from = SegStart(e.segs, i) /\ len = e.segs[i].len
      OBVIOUS
    <2>3. last \in BOOLEAN /\ from \in Nat /\ len \in Nat
      BY <2>2
    <2>4. Bytes(e, from, len) \in Seq(UnitSet(E))
      BY <2>3, BytesFacts
    <2>5. /\ Pieces(e, from, len, last) \in Seq(MsgSet(E))
          /\ UnitsIn(Pieces(e, from, len, last)) = Bytes(e, from, len)
      BY <2>3, PiecesUnits
    <2> QED BY <2>1, <2>2, <2>4, <2>5
  <1>2. CASE e.segs[i].hole
    <2>1. PICK m : m = Message(<<>>, TRUE)
      OBVIOUS
    <2>2. m \in MsgSet(E) /\ m.units = <<>>
      BY <2>1 DEF Message, MsgSet
    <2>3. UnitsIn(<<m>>) = <<>> /\ UnitsIn(<<>>) = <<>>
          /\ <<m>> \in Seq(MsgSet(E)) /\ <<>> \in Seq(MsgSet(E))
      BY <2>2, UnitsOne
    <2>4. SegmentMessages(e, i) \in {<<m>>, <<>>}
      BY <1>2, <2>1 DEF SegmentMessages
    <2>5. SegBytes(e, i) = <<>> /\ SegBytes(e, i) \in Seq(UnitSet(E))
      BY <1>2 DEF SegBytes
    <2> QED BY <2>3, <2>4, <2>5
  <1> QED BY <1>1, <1>2

Segment == [hole: BOOLEAN, len: Nat \ {0}]

\* Where the segments start.
LEMMA Starts ==
  ASSUME NEW segs, segs \in Seq(Segment)
  PROVE  /\ Len(segs) \in Nat /\ SegStart(segs, 1) = 0
         /\ \A i \in 1..Len(segs) :
              /\ segs[i].hole \in BOOLEAN /\ segs[i].len \in Nat \ {0}
              /\ SegStart(segs, i + 1) = SegStart(segs, i) + segs[i].len
         /\ \A i \in 1..(Len(segs) + 1) :
              /\ SegStart(segs, i) \in Nat
              /\ \A j \in i..(Len(segs) + 1) : SegStart(segs, i) <= SegStart(segs, j)
  <1> DEFINE n == Len(segs)
             f == CHOOSE g : StartSums(g, segs, n)
  <1>1. n \in Nat /\ \A k \in 1..n : segs[k].hole \in BOOLEAN /\ segs[k].len \in Nat \ {0}
    <2>1. \A k \in 1..n : segs[k] \in Segment
      BY ElementOfSeq
    <2> QED BY <2>1 DEF Segment
  <1>2. StartSums(f, segs, n)
    BY <1>1, StartSumsExist
  <1>3. \A i \in 1..(n + 1) : SegStart(segs, i) = f[i - 1]
    BY DEF SegStart, StartSums
  <1> HIDE DEF f
  <1>4. /\ f[0] = 0 /\ \A k \in 0..n : f[k] \in Nat
        /\ \A k \in 1..n : f[k] = f[k - 1] + segs[k].len
        /\ \A i \in 0..n : \A k \in i..n : f[i] <= f[k]
    BY <1>1, <1>2, StartSumsFacts
  <1>5. SegStart(segs, 1) = 0
    <2>1. 1 \in 1..(n + 1) /\ 1 - 1 = 0
      BY <1>1
    <2> QED BY <1>3, <1>4, <2>1
  <1>6. ASSUME NEW i \in 1..n
        PROVE  SegStart(segs, i + 1) = SegStart(segs, i) + segs[i].len
    <2>1. i \in 1..(n + 1) /\ i + 1 \in 1..(n + 1) /\ (i + 1) - 1 = i
      BY <1>1
    <2> QED BY <1>3, <1>4, <2>1
  <1>7. ASSUME NEW i \in 1..(n + 1), NEW j \in i..(n + 1)
        PROVE  SegStart(segs, i) \in Nat /\ SegStart(segs, i) <= SegStart(segs, j)
    <2>1. j \in 1..(n + 1) /\ i - 1 \in 0..n /\ j - 1 \in (i - 1)..n
      BY <1>1
    <2> QED BY <1>3, <1>4, <2>1
  <1>8. \A i \in 1..(n + 1) : i \in i..(n + 1)
    BY <1>1
  <1> QED BY <1>1, <1>5, <1>6, <1>7, <1>8

\* The units of an entry are its header and its data.
LEMMA EntryUnits ==
  ASSUME NEW E, NEW e \in E, e.kind \in Kinds, e.size \in Nat, e.segs \in Seq(Segment)
  PROVE  /\ Units(e) = HeaderUnits(e) \o Data(e)
         /\ HeaderUnits(e) \in Seq(UnitSet(E)) /\ Len(HeaderUnits(e)) = HeaderLen + 1
         /\ \A j \in 1..(HeaderLen + 1) :
              HeaderUnits(e)[j] = [of |-> e, part |-> "header", at |-> j - 1]
         /\ Data(e) \in Seq(UnitSet(E))
         /\ SegData(e) \in Seq(Seq(UnitSet(E))) /\ Len(SegData(e)) = Len(e.segs)
         /\ \A i \in 1..Len(e.segs) : SegData(e)[i] = SegBytes(e, i)
  <1> DEFINE n == Len(e.segs)
  <1>1. /\ n \in Nat /\ (n = 0 <=> e.segs = <<>>)
        /\ \A i \in 1..n : /\ e.segs[i].hole \in BOOLEAN /\ e.segs[i].len \in Nat
                           /\ SegStart(e.segs, i) \in Nat
    <2>1. \A i \in 1..n : i \in 1..(n + 1)
      BY Starts
    <2> QED BY <2>1, Starts
  <1>2. /\ HeaderUnits(e) \in Seq(UnitSet(E)) /\ Len(HeaderUnits(e)) = HeaderLen + 1
        /\ \A j \in 1..(HeaderLen + 1) :
              HeaderUnits(e)[j] = [of |-> e, part |-> "header", at |-> j - 1]
    <2>1. PICK h, m : h = HeaderUnits(e) /\ m = HeaderLen + 1
      OBVIOUS
    <2>2. /\ DOMAIN h = 1..m /\ h = [j \in 1..m |-> h[j]] /\ m \in Nat
          /\ \A j \in 1..m : h[j] = [of |-> e, part |-> "header", at |-> j - 1]
      BY <2>1, FormatAssumption DEF HeaderUnits
    <2>3. \A j \in 1..m : h[j] \in UnitSet(E)
      BY <2>2 DEF UnitSet
    <2>4. h \in Seq(UnitSet(E)) /\ Len(h) = m
      BY <2>2, <2>3, MakeSequence
    <2> QED BY <2>1, <2>2, <2>4
  <1>3. /\ SegData(e) \in Seq(Seq(UnitSet(E))) /\ Len(SegData(e)) = n
        /\ \A i \in 1..n : SegData(e)[i] = SegBytes(e, i)
    <2>1. PICK s : s = SegData(e)
      OBVIOUS
    <2>2. DOMAIN s = 1..n /\ s = [i \in 1..n |-> s[i]] /\ \A i \in 1..n : s[i] = SegBytes(e, i)
      BY <2>1 DEF SegData
    <2>3. \A i \in 1..n : s[i] \in Seq(UnitSet(E))
      BY <1>1, <2>2, SegUnits
    <2>4. s \in Seq(Seq(UnitSet(E))) /\ Len(s) = n
      BY <1>1, <2>2, <2>3, MakeSequence
    <2> QED BY <2>1, <2>2, <2>4
  <1>4. FlattenSeq(SegData(e)) \in Seq(UnitSet(E))
    BY <1>3, FlattenParts
  <1>5. Bytes(e, 0, e.size) \in Seq(UnitSet(E))
    BY BytesFacts
  <1>6. Data(e) \in Seq(UnitSet(E))
    BY <1>4, <1>5 DEF Data
  <1>7. ASSUME e.kind = "file"
        PROVE  DataMessages(e) \in Seq(MsgSet(E)) /\ UnitsIn(DataMessages(e)) = Data(e)
    <2>1. CASE e.segs = <<>>
      <3>1. DataMessages(e) = Pieces(e, 0, e.size, TRUE) /\ Data(e) = Bytes(e, 0, e.size)
        BY <1>7, <2>1 DEF DataMessages, Data
      <3> QED BY <3>1, PiecesUnits
    <2>2. CASE e.segs # <<>>
      <3>1. PICK s : s = [i \in 1..n |-> SegmentMessages(e, i)]
        OBVIOUS
      <3>2. DataMessages(e) = FlattenSeq(s) /\ Data(e) = FlattenSeq(SegData(e))
        BY <1>7, <2>2, <3>1 DEF DataMessages, Data
      <3>3. DOMAIN s = 1..n /\ s = [i \in 1..n |-> s[i]] /\ \A i \in 1..n : s[i] = SegmentMessages(e, i)
        BY <3>1
      <3>4. \A i \in 1..n : s[i] \in Seq(MsgSet(E)) /\ UnitsIn(s[i]) = SegBytes(e, i)
        BY <1>1, <3>3, SegUnits
      <3>5. s \in Seq(Seq(MsgSet(E))) /\ Len(s) = n
        <4>1. PICK R : R = Seq(MsgSet(E))
          OBVIOUS
        <4>2. \A i \in 1..n : s[i] \in R
          BY <3>4, <4>1
        <4>3. s \in Seq(R) /\ Len(s) = n
          BY ONLY <1>1, <3>3, <4>2, MakeSequence
        <4> QED BY <4>1, <4>3
      <3>6. FlattenSeq(s) \in Seq(MsgSet(E))
        BY <3>5, FlattenParts
      <3>7. UnitsIn(FlattenSeq(s)) = FlattenSeq([i \in 1..Len(s) |-> UnitsIn(s[i])])
        BY <3>5, UnitsFlatten
      <3>8. [i \in 1..Len(s) |-> UnitsIn(s[i])] = SegData(e)
        BY <3>4, <3>5 DEF SegData
      <3> QED BY <3>2, <3>6, <3>7, <3>8
    <2> QED BY <2>1, <2>2
  <1>8. PICK h, last : h = Message(HeaderUnits(e), last) /\ last \in BOOLEAN
                       /\ Messages(e) = IF e.kind = "file" THEN <<h>> \o DataMessages(e) ELSE <<h>>
    <2>1. CASE e.kind = "file"
      BY <2>1 DEF Messages
    <2>2. CASE e.kind # "file"
      BY <2>2 DEF Messages
    <2> QED BY <2>1, <2>2
  <1>9. h \in MsgSet(E) /\ h.units = HeaderUnits(e)
    BY <1>2, <1>8 DEF Message, MsgSet
  <1>10. <<h>> \in Seq(MsgSet(E)) /\ UnitsIn(<<h>>) = HeaderUnits(e)
    BY <1>9, UnitsOne
  <1>11. Units(e) = UnitsIn(Messages(e))
    BY DEF Units, UnitsIn, UnitLists
  <1>12. Units(e) = HeaderUnits(e) \o Data(e)
    <2>1. CASE e.kind = "file"
      <3>1. UnitsIn(<<h>> \o DataMessages(e)) = UnitsIn(<<h>>) \o UnitsIn(DataMessages(e))
        <4>1. PICK a, b : a = <<h>> /\ b = DataMessages(e)
          OBVIOUS
        <4>2. a \in Seq(MsgSet(E)) /\ b \in Seq(MsgSet(E))
          BY <1>7, <1>10, <2>1, <4>1
        <4>3. UnitsIn(a \o b) = UnitsIn(a) \o UnitsIn(b)
          BY ONLY <4>2, UnitsJoin
        <4> QED BY <4>1, <4>3
      <3> QED BY <1>7, <1>8, <1>10, <1>11, <2>1, <3>1
    <2>2. CASE e.kind # "file"
      <3>1. HeaderUnits(e) \o <<>> = HeaderUnits(e)
        BY <1>2, ConcatEmptySeq
      <3>2. Data(e) = <<>>
        BY <2>2 DEF Data
      <3> QED BY <1>8, <1>10, <1>11, <2>2, <3>1, <3>2
    <2> QED BY <2>1, <2>2
  <1> QED BY <1>2, <1>3, <1>6, <1>12

-----------------------------------------------------------------------------
(* Data and hole segments that alternate, as scan_chunks finds them, are   *)
(* what parse_header makes of the holes in the header.                     *)

\* Whether a hole is the first, and the number of holes.
First(segs) == IF segs # <<>> /\ segs[1].hole THEN 1 ELSE 0
HoleCount(segs) == (Len(segs) + First(segs)) \div 2

HoleRange(segs, i) == [from |-> SegStart(segs, i), to |-> SegEnd(segs, i)]

\* Every second segment is a hole.
LEMMA Parity ==
  ASSUME NEW segs, segs \in Seq(Segment), Alternating(segs)
  PROVE  /\ First(segs) \in {0, 1}
         /\ \A i \in 1..Len(segs) : segs[i].hole <=> (i + First(segs)) % 2 = 0
  <1> DEFINE n == Len(segs)
             b == First(segs)
             T == {k \in Nat : k + 1 \in 1..n => (segs[k + 1].hole <=> (k + 1 + b) % 2 = 0)}
  <1>1. n \in Nat /\ (segs = <<>> <=> n = 0) /\ \A i \in 1..n : segs[i].hole \in BOOLEAN
    BY Starts
  <1>2. b \in {0, 1} /\ (n # 0 => (b = 1 <=> segs[1].hole))
    BY <1>1 DEF First
  <1> HIDE DEF b
  <1>3. 0 \in T
    BY <1>2
  <1>4. ASSUME NEW k \in Nat, k \in T
        PROVE  k + 1 \in T
    <2> SUFFICES ASSUME k + 1 + 1 \in 1..n
                 PROVE  segs[k + 1 + 1].hole <=> (k + 1 + 1 + b) % 2 = 0
      OBVIOUS
    <2>1. PICK i : i = k + 1
      OBVIOUS
    <2>2. i \in 1..(n - 1) /\ i \in 1..n /\ i \in Nat /\ k + 1 + 1 = i + 1 /\ i + 1 \in 1..n
      BY <2>1, <1>1
    <2>3. segs[i].hole # segs[i + 1].hole
      BY <2>2 DEF Alternating
    <2>4. segs[i].hole <=> (i + b) % 2 = 0
      BY <1>4, <2>1, <2>2
    <2>5. ((i + b) % 2 = 0) <=> ~((i + 1 + b) % 2 = 0)
      BY <1>2, <2>2
    <2>6. segs[i].hole <=> ~segs[i + 1].hole
      BY <2>3, <2>2, <1>1
    <2> QED BY <2>2, <2>4, <2>5, <2>6
  <1>5. Nat \subseteq T
    <2> HIDE DEF T
    <2> QED BY <1>3, <1>4, Induction
  <1>6. ASSUME NEW i \in 1..n
        PROVE  segs[i].hole <=> (i + b) % 2 = 0
    <2>1. i - 1 \in Nat /\ (i - 1) + 1 = i
      BY <1>1
    <2>2. i - 1 \in T
      BY <1>5, <2>1
    <2> QED BY <2>1, <2>2
  <1> QED BY <1>2, <1>6 DEF b

\* The q-th hole is the segment 2 * q or 2 * q - 1.
LEMMA HolesForm ==
  ASSUME NEW segs, segs \in Seq(Segment), Alternating(segs)
  PROVE  /\ Holes(segs) \in Seq([from: Nat, to: Nat]) /\ Len(Holes(segs)) = HoleCount(segs)
         /\ HoleCount(segs) \in Nat
         /\ \A q \in 1..HoleCount(segs) :
              /\ 2 * q - First(segs) \in 1..Len(segs)
              /\ Holes(segs)[q] = HoleRange(segs, 2 * q - First(segs))
  <1> DEFINE n == Len(segs)
             b == First(segs)
             c == HoleCount(segs)
             R == [from: Nat, to: Nat]
  <1>1. /\ n \in Nat
        /\ \A i \in 1..n : segs[i].hole \in BOOLEAN
    BY Starts
  <1>2. b \in {0, 1} /\ \A i \in 1..n : segs[i].hole <=> (i + b) % 2 = 0
    BY Parity
  <1>3. ASSUME NEW i \in 1..n
        PROVE  HoleRange(segs, i) \in R
    <2>1. i \in 1..(n + 1) /\ i + 1 \in 1..(n + 1)
      BY <1>1
    <2> QED BY <2>1, Starts DEF HoleRange, SegEnd
  <1>4. c = (n + b) \div 2
    BY DEF HoleCount
  <1> HIDE DEF b, c, R
  <1>5. c \in Nat /\ \A q \in 1..c : 2 * q - b \in 1..n
    BY <1>1, <1>2, <1>4
  <1>6. PICK w : w = [q \in 1..c |-> HoleRange(segs, 2 * q - b)]
    OBVIOUS
  <1>7. w \in Seq(R) /\ Len(w) = c /\ \A q \in 1..c : w[q] = HoleRange(segs, 2 * q - b)
    <2>1. DOMAIN w = 1..c /\ w = [q \in 1..c |-> w[q]] /\ \A q \in 1..c : w[q] = HoleRange(segs, 2 * q - b)
      BY <1>6
    <2>2. \A q \in 1..c : w[q] \in R
      BY <2>1, <1>3, <1>5
    <2> QED BY <1>5, <2>1, <2>2, MakeSequence
  <1>8. PICK s : s = [i \in 1..n |-> HoleAt(segs, i)]
    OBVIOUS
  <1>9. Holes(segs) = FlattenSeq(s)
    BY <1>8 DEF Holes
  <1>10. DOMAIN s = 1..n /\ s = [i \in 1..n |-> s[i]] /\ \A i \in 1..n : s[i] = HoleAt(segs, i)
    BY <1>8
  <1>11. \A i \in 1..n : HoleAt(segs, i) = IF segs[i].hole THEN <<HoleRange(segs, i)>> ELSE <<>>
    BY DEF HoleAt, HoleRange
  <1>12. s \in Seq(Seq(R)) /\ Len(s) = n
    <2>1. PICK Q : Q = Seq(R)
      OBVIOUS
    <2>2. \A r \in R : <<r>> \in Q /\ <<>> \in Q
      BY <2>1
    <2>3. <<>> \in Q
      BY <2>1
    <2>4. \A i \in 1..n : s[i] \in Q
      BY <1>3, <1>10, <1>11, <2>2, <2>3
    <2>5. s \in Seq(Q) /\ Len(s) = n
      BY ONLY <1>1, <1>10, <2>4, MakeSequence
    <2> QED BY <2>1, <2>5
  <1>13. PICK x : x = [i \in 0..n |-> (i + b) \div 2]
    OBVIOUS
  <1>14. /\ x[0] = 0 /\ x[n] = c /\ \A i \in 0..n : x[i] \in 0..c
         /\ \A i \in 1..n : /\ x[i - 1] = (i - 1 + b) \div 2 /\ x[i] = (i + b) \div 2
    <2>1. \A i \in 0..n : x[i] = (i + b) \div 2
      BY <1>13
    <2>2. 0 \in 0..n /\ n \in 0..n /\ \A i \in 1..n : i \in 0..n /\ i - 1 \in 0..n
      BY <1>1
    <2>3. x[0] = 0 /\ x[n] = c
      BY <2>1, <2>2, <1>2, <1>4
    <2>4. \A i \in 0..n : (i + b) \div 2 \in 0..c
      BY <1>1, <1>2, <1>4
    <2> QED BY <2>1, <2>2, <2>3, <2>4
  <1>15. ASSUME NEW i \in 1..n
         PROVE  x[i - 1] <= x[i] /\ s[i] = SubSeq(w, x[i - 1] + 1, x[i])
    <2>0. i - 1 \in 0..n /\ i \in 0..n
      BY <1>1
    <2>1. CASE segs[i].hole
      <3>1. (i + b) % 2 = 0
        BY <1>2, <2>1
      <3>2. PICK q : q = x[i]
        OBVIOUS
      <3>3. q \in 1..c /\ x[i - 1] = q - 1 /\ 2 * q - b = i
        <4>1. q = (i + b) \div 2 /\ x[i - 1] = (i - 1 + b) \div 2
          BY <3>2, <1>14
        <4>2. i + b = 2 * q /\ q \in Nat
          BY <3>1, <4>1, <1>2
        <4>3. i - 1 + b = 2 * (q - 1) + 1 /\ q >= 1 /\ q - 1 \in Nat
          BY <4>2, <1>2
        <4>4. (2 * (q - 1) + 1) \div 2 = q - 1
          BY <4>3
        <4>5. q <= c
          BY <3>2, <1>5, <1>14, <2>0
        <4> QED BY <4>1, <4>2, <4>3, <4>4, <4>5, <1>2, <1>5
      <3>4. PICK u : u = SubSeq(w, (q - 1) + 1, q)
        OBVIOUS
      <3>5. u \in Seq(R) /\ Len(u) = 1 /\ u[1] = w[q]
        <4>1. q \in 0..Len(w) /\ q - 1 \in 0..q /\ q - (q - 1) = 1 /\ (q - 1) + 1 = q /\ 1 \in 1..1
          BY <3>3, <1>5, <1>7
        <4>2. \A j \in 1..1 : u[j] = w[(q - 1) + j]
          BY <3>4, <4>1, <1>7, PieceFacts
        <4>3. u \in Seq(R) /\ Len(u) = 1
          BY <3>4, <4>1, <1>7, PieceFacts
        <4> QED BY <4>1, <4>2, <4>3
      <3>6. u = <<w[q]>>
        BY <3>5
      <3>7. w[q] = HoleRange(segs, i)
        BY <1>7, <3>3
      <3>8. x[i - 1] <= x[i] /\ u = SubSeq(w, x[i - 1] + 1, x[i])
        BY <3>2, <3>3, <3>4, <1>5
      <3> QED BY <1>10, <1>11, <2>1, <3>6, <3>7, <3>8
    <2>2. CASE ~segs[i].hole
      <3>1. (i + b) % 2 # 0
        BY <1>2, <2>2
      <3>2. x[i] = x[i - 1] /\ x[i] \in 0..c
        BY <3>1, <1>1, <1>2, <1>14, <2>0
      <3>3. SubSeq(w, x[i - 1] + 1, x[i]) = <<>>
        <4>1. PICK q : q = x[i]
          OBVIOUS
        <4>2. q \in 0..Len(w) /\ q \in 0..q
          BY <3>2, <4>1, <1>5, <1>7
        <4>3. SubSeq(w, q + 1, q) = <<>>
          BY <4>2, <1>7, PieceFacts
        <4> QED BY <3>2, <4>1, <4>3
      <3>4. x[i - 1] <= x[i]
        BY <3>2, <1>5
      <3> QED BY <1>10, <1>11, <2>2, <3>3, <3>4
    <2> QED BY <2>1, <2>2, <1>1
  <1>16. FlattenSeq(s) = SubSeq(w, 1, x[Len(s)])
    <2>1. \A i \in 0..Len(s) : x[i] \in 0..Len(w)
      BY <1>7, <1>12, <1>14
    <2>2. \A i \in 1..Len(s) : x[i - 1] <= x[i] /\ s[i] = SubSeq(w, x[i - 1] + 1, x[i])
      BY <1>12, <1>15
    <2>3. w \in Seq(R) /\ s \in Seq(Seq(R)) /\ x[0] = 0
      BY <1>7, <1>12, <1>14
    <2> QED BY ONLY <2>1, <2>2, <2>3, FlattenPieces
  <1>17. SubSeq(w, 1, x[Len(s)]) = w
    BY <1>7, <1>12, <1>14, WholePiece
  <1> QED BY <1>5, <1>7, <1>9, <1>16, <1>17 DEF R, b, c

\* The segments on the side of the writer are those on the side of the reader.
LEMMA SegmentsBack ==
  ASSUME NEW segs, segs \in Seq(Segment), Alternating(segs), Holes(segs) # <<>>
  PROVE  SegmentsFrom(Holes(segs), SegStart(segs, Len(segs) + 1)) = segs
  <1> DEFINE n == Len(segs)
             b == First(segs)
             c == HoleCount(segs)
             holes == Holes(segs)
             start(i) == IF i = 1 THEN 0 ELSE holes[i - 1].to
             s == [i \in 1..Len(holes) |->
                     DataBefore(start(i), holes[i]) \o <<HoleSeg(holes[i].to - holes[i].from)>>]
             size == SegStart(segs, n + 1)
  <1>1. /\ n \in Nat /\ SegStart(segs, 1) = 0
        /\ \A i \in 1..n : /\ segs[i].hole \in BOOLEAN /\ segs[i].len \in Nat \ {0}
                           /\ SegStart(segs, i + 1) = SegStart(segs, i) + segs[i].len
        /\ \A i \in 1..(n + 1) : SegStart(segs, i) \in Nat
    BY Starts
  <1>2. b \in {0, 1} /\ \A i \in 1..n : segs[i].hole <=> (i + b) % 2 = 0
    BY Parity
  <1>3. /\ Len(holes) = c /\ c \in Nat
        /\ \A q \in 1..c : 2 * q - b \in 1..n /\ holes[q] = HoleRange(segs, 2 * q - b)
    BY HolesForm
  <1>4. c # 0
    <2>1. holes \in Seq([from: Nat, to: Nat])
      BY HolesForm
    <2> QED BY <1>3, <2>1
  <1>5. c = (n + b) \div 2
    BY DEF HoleCount
  <1> HIDE DEF b, c
  <1>6. \A i \in 1..n : segs[i] = IF segs[i].hole THEN HoleSeg(segs[i].len) ELSE DataSeg(segs[i].len)
    <2> SUFFICES ASSUME NEW i \in 1..n
                 PROVE  segs[i] = IF segs[i].hole THEN HoleSeg(segs[i].len) ELSE DataSeg(segs[i].len)
      OBVIOUS
    <2>1. segs[i] \in Segment
      BY ElementOfSeq
    <2> QED BY <2>1 DEF Segment, HoleSeg, DataSeg
  <1>7. \A q \in 1..c : /\ holes[q].from = SegStart(segs, 2 * q - b)
                        /\ holes[q].to = SegStart(segs, 2 * q - b + 1)
    BY <1>3 DEF HoleRange, SegEnd
  <1>8. PICK x : x = [q \in 0..c |-> IF q = 0 THEN 0 ELSE 2 * q - b]
    OBVIOUS
  <1>9. x[0] = 0 /\ (\A q \in 1..c : x[q] = 2 * q - b) /\ \A q \in 0..c : x[q] \in 0..n
    BY <1>3, <1>8
  <1>10. ASSUME NEW q \in 1..c
         PROVE  s[q] = SubSeq(segs, x[q - 1] + 1, x[q]) /\ x[q - 1] <= x[q]
    <2>1. PICK i : i = 2 * q - b
      OBVIOUS
    <2>2. i \in 1..n /\ x[q] = i /\ segs[i].hole /\ q - 1 \in 0..c
      BY <1>2, <1>3, <1>9, <2>1
    <2>3. holes[q].from = SegStart(segs, i) /\ holes[q].to = SegStart(segs, i) + segs[i].len
          /\ SegStart(segs, i) \in Nat /\ segs[i].len \in Nat
      <3>1. holes[q].from = SegStart(segs, i) /\ holes[q].to = SegStart(segs, i + 1)
        BY <1>7, <2>1
      <3>2. i \in 1..(n + 1)
        BY <1>1, <2>2
      <3> QED BY <1>1, <2>2, <3>1, <3>2
    <2>4. HoleSeg(holes[q].to - holes[q].from) = segs[i]
      <3>1. holes[q].to - holes[q].from = segs[i].len
        BY <2>3
      <3> QED BY <1>6, <2>2, <3>1
    <2>5. s[q] = DataBefore(start(q), holes[q]) \o <<segs[i]>>
      BY <1>3, <2>4
    <2>6. CASE i = 1
      <3>1. q = 1 /\ x[q - 1] = 0
        BY <2>1, <2>6, <1>2, <1>9
      <3>2. DataBefore(start(q), holes[q]) = <<>>
        BY <2>3, <2>6, <1>1 DEF DataBefore
      <3>3. SubSeq(segs, 0 + 1, 1) = <<segs[1]>>
        <4>1. SubSeq(segs, (i - 1) + 1, i) = <<segs[i]>>
          BY <2>2, ShortPieces
        <4> QED BY <4>1, <2>6
      <3>4. s[q] = <<segs[1]>>
        <4>1. <<>> \o <<segs[1]>> = <<segs[1]>>
          BY JoinOnes
        <4>2. s[q] = <<>> \o <<segs[1]>>
          BY <2>5, <2>6, <3>2
        <4> QED BY <4>1, <4>2
      <3>5. x[q] = 1
        BY <2>2, <2>6
      <3>6. x[q - 1] <= x[q]
        BY <3>1, <3>5
      <3>7. s[q] = SubSeq(segs, 0 + 1, 1) /\ q = 1
        BY <3>1, <3>3, <3>4
      <3>8. SubSeq(segs, x[q - 1] + 1, x[q]) = SubSeq(segs, 0 + 1, 1)
        BY <3>1, <3>5
      <3> QED BY <3>6, <3>7, <3>8
    <2>7. CASE i # 1
      <3>1. i - 1 \in 1..n /\ (i - 1) + 1 = i /\ ~segs[i - 1].hole
        <4>1. i - 1 \in 1..n /\ (i - 1) + 1 = i
          BY <2>2, <2>7, <1>1
        <4>2. (i + b) % 2 = 0 /\ b \in {0, 1}
          BY <1>2, <2>2
        <4>3. ~((i - 1 + b) % 2 = 0)
          <5>1. PICK r \in Nat : r = i + b
            BY <4>2, <2>2
          <5>2. i - 1 + b = r - 1 /\ r % 2 = 0
            BY <5>1, <4>2, <2>2
          <5>3. (r - 1) % 2 # 0
            BY ONLY <5>2, r \in Nat
          <5> QED BY <5>2, <5>3
        <4> QED BY <4>1, <4>3, <1>2
      <3>2. x[q - 1] = i - 2 /\ start(q) = SegStart(segs, i - 1)
        <4>1. CASE q = 1
          <5>1. i = 2 /\ x[q - 1] = 0
            BY <4>1, <2>1, <2>7, <1>2, <1>9
          <5> QED BY <4>1, <5>1, <1>1
        <4>2. CASE q # 1
          <5>1. q - 1 \in 1..c /\ 2 * (q - 1) - b = i - 2
            BY <4>2, <2>1, <1>2, <1>3
          <5>2. 2 * (q - 1) - b + 1 = i - 1
            BY <5>1, <2>2
          <5> QED BY <4>2, <5>1, <5>2, <1>7, <1>9
        <4> QED BY <4>1, <4>2
      <3>3. SegStart(segs, i) = SegStart(segs, i - 1) + segs[i - 1].len
            /\ SegStart(segs, i - 1) \in Nat /\ segs[i - 1].len \in Nat \ {0}
        <4>1. i - 1 \in 1..(n + 1)
          BY <3>1, <1>1
        <4> QED BY <3>1, <4>1, <1>1
      <3>4. holes[q].from # 0 /\ holes[q].from - start(q) = segs[i - 1].len
        BY <2>3, <3>2, <3>3
      <3>5. DataBefore(start(q), holes[q]) = <<segs[i - 1]>>
        <4>1. DataSeg(segs[i - 1].len) = segs[i - 1]
          BY <1>6, <3>1
        <4> QED BY <3>4, <4>1 DEF DataBefore
      <3>6. s[q] = <<segs[i - 1], segs[i]>>
        <4>1. <<segs[i - 1]>> \o <<segs[i]>> = <<segs[i - 1], segs[i]>>
          BY JoinOnes
        <4> QED BY <2>5, <3>5, <4>1
      <3>7. SubSeq(segs, (i - 2) + 1, i) = <<segs[i - 1], segs[i]>>
        BY <2>2, <2>7, ShortPieces
      <3>8. x[q - 1] <= x[q]
        BY <2>2, <3>2, <1>1
      <3> QED BY <2>2, <3>2, <3>6, <3>7, <3>8
    <2> QED BY <2>6, <2>7
  <1>11. s \in Seq(Seq(Segment)) /\ Len(s) = c
    <2>1. PICK t, Q : t = s /\ Q = Seq(Segment)
      OBVIOUS
    <2>2. DOMAIN t = 1..c /\ t = [i \in 1..c |-> t[i]]
      BY <2>1, <1>3
    <2>3. \A q \in 1..c : t[q] \in Q
      <3> SUFFICES ASSUME NEW q \in 1..c
                   PROVE  t[q] \in Q
        OBVIOUS
      <3>1. q - 1 \in 0..c /\ q \in 0..c
        BY <1>3
      <3>2. x[q] \in 0..Len(segs) /\ x[q - 1] \in 0..x[q]
        <4>1. x[q] \in 0..n /\ x[q - 1] \in 0..n /\ x[q - 1] <= x[q]
          BY <1>9, <1>10, <3>1
        <4> QED BY <4>1
      <3>3. SubSeq(segs, x[q - 1] + 1, x[q]) \in Seq(Segment)
        BY <3>2, PieceFacts
      <3> QED BY <1>10, <2>1, <3>3
    <2>4. t \in Seq(Q) /\ Len(t) = c
      BY ONLY <1>3, <2>2, <2>3, MakeSequence
    <2> QED BY <2>1, <2>4
  <1> HIDE DEF s
  <1>12. FlattenSeq(s) = SubSeq(segs, 1, x[c])
    <2>1. \A i \in 0..Len(s) : x[i] \in 0..Len(segs)
      BY <1>9, <1>11
    <2>2. \A i \in 1..Len(s) : x[i - 1] <= x[i] /\ s[i] = SubSeq(segs, x[i - 1] + 1, x[i])
      BY <1>10, <1>11
    <2>3. segs \in Seq(Segment) /\ s \in Seq(Seq(Segment)) /\ x[0] = 0 /\ Len(s) = c
      BY <1>9, <1>11
    <2>4. FlattenSeq(s) = SubSeq(segs, 1, x[Len(s)])
      BY ONLY <2>1, <2>2, <2>3, FlattenPieces
    <2> QED BY <2>3, <2>4
  <1>13. SegmentsFrom(holes, size) =
           IF start(c + 1) # size THEN Append(FlattenSeq(s), DataSeg(size - start(c + 1)))
                                  ELSE FlattenSeq(s)
    BY <1>3 DEF SegmentsFrom, s
  <1>14. PICK m : m = 2 * c - b
    OBVIOUS
  <1>15. m \in {n - 1, n} /\ m \in Nat /\ x[c] = m /\ start(c + 1) = SegStart(segs, m + 1)
    <2>1. c \in 1..c /\ c + 1 # 1 /\ (c + 1) - 1 = c
      BY <1>3, <1>4
    <2>2. start(c + 1) = SegStart(segs, m + 1) /\ x[c] = m
      BY <1>7, <1>9, <1>14, <2>1
    <2>3. m \in {n - 1, n}
      <3>1. b \in {0, 1} /\ n \in Nat
        BY <1>1, <1>2
      <3> QED BY ONLY <3>1, <1>5, <1>14
    <2>4. m \in Nat
      BY <1>3, <1>14, <2>1
    <2> QED BY <2>2, <2>3, <2>4
  <1>16. CASE m = n
    <2>1. FlattenSeq(s) = segs
      BY <1>12, <1>15, <1>16, WholePiece
    <2> QED BY <1>13, <1>15, <1>16, <2>1
  <1>17. CASE m = n - 1 /\ m # n
    <2>1. m + 1 = n /\ n \in 1..n /\ n \in 1..(n + 1)
      BY <1>15, <1>17, <1>1
    <2>2. size = SegStart(segs, n) + segs[n].len /\ SegStart(segs, n) \in Nat
          /\ segs[n].len \in Nat \ {0}
      BY <1>1, <2>1
    <2>3. start(c + 1) # size /\ size - start(c + 1) = segs[n].len
      BY <1>15, <2>1, <2>2
    <2>4. ~segs[n].hole
      <3>1. (n + b) % 2 # 0
        BY <1>1, <1>2, <1>5, <1>14, <1>17
      <3> QED BY <3>1, <1>2, <2>1
    <2>5. DataSeg(segs[n].len) = segs[n]
      BY <1>6, <2>1, <2>4
    <2>6. FlattenSeq(s) = SubSeq(segs, 1, n - 1)
      BY <1>12, <1>15, <1>17
    <2>7. Append(SubSeq(segs, 1, n - 1), segs[n]) = segs
      <3>1. PICK u, k : u = SubSeq(segs, 1, k) /\ k = n - 1
        OBVIOUS
      <3>2. k \in 0..Len(segs)
        BY <2>1, <3>1
      <3>3. u \in Seq(Segment) /\ Len(u) = k /\ \A i \in 1..k : u[i] = segs[i]
        BY <3>1, <3>2, FirstElements
      <3>4. Append(u, segs[n]) = segs
        BY <2>1, <3>1, <3>3
      <3> QED BY <3>1, <3>4
    <2>8. SegmentsFrom(holes, size) = Append(FlattenSeq(s), DataSeg(segs[n].len))
      BY <1>13, <2>3
    <2> QED BY <2>5, <2>6, <2>7, <2>8
  <1> QED BY <1>15, <1>16, <1>17 DEF holes

-----------------------------------------------------------------------------
(* The content of a file, and what of it is sent.                          *)

IsFile(e) == e.kind = "file" /\ e.size \in Nat /\ e.segs \in Seq(Segment) /\ IsTruthful(e)

\* A byte is in a hole if its segment is one.
LEMMA InHoleFacts ==
  ASSUME NEW e, e.segs \in Seq(Segment), Alternating(e.segs), NEW i \in 1..Len(e.segs),
         NEW offset \in Nat, SegStart(e.segs, i) <= offset, offset < SegStart(e.segs, i + 1)
  PROVE  InHole(e, offset) <=> e.segs[i].hole
  <1> DEFINE segs == e.segs
             n == Len(segs)
             b == First(segs)
             c == HoleCount(segs)
             holes == Holes(segs)
  <1>1. /\ n \in Nat
        /\ \A k \in 1..(n + 1) :
              /\ SegStart(segs, k) \in Nat
              /\ \A j \in k..(n + 1) : SegStart(segs, k) <= SegStart(segs, j)
    BY Starts
  <1>2. b \in {0, 1} /\ \A k \in 1..n : segs[k].hole <=> (k + b) % 2 = 0
    BY Parity
  <1>3. /\ Len(holes) = c /\ c \in Nat
        /\ \A q \in 1..c : 2 * q - b \in 1..n /\ holes[q] = HoleRange(segs, 2 * q - b)
    BY HolesForm
  <1>4. c = (n + b) \div 2
    BY DEF HoleCount
  <1> HIDE DEF b, c
  <1>5. InHole(e, offset) <=> \E q \in 1..c : holes[q].from <= offset /\ offset < holes[q].to
    BY <1>3 DEF InHole
  <1>6. ASSUME segs[i].hole
        PROVE  \E q \in 1..c : holes[q].from <= offset /\ offset < holes[q].to
    <2>1. (i + b) % 2 = 0
      BY <1>2, <1>6
    <2>2. PICK q \in Nat : i + b = 2 * q
      <3>1. PICK r \in Nat : r = i + b
        BY <1>1, <1>2
      <3>2. r = 2 * (r \div 2) /\ r \div 2 \in Nat
        BY ONLY <2>1, <3>1, r \in Nat
      <3> QED BY <3>1, <3>2
    <2>3. q \in 1..c /\ 2 * q - b = i
      <3>1. b \in {0, 1} /\ i \in 1..n
        BY <1>2
      <3>2. i + b <= n + b /\ n + b \in Nat /\ q >= 1
        BY <1>1, <2>2, <3>1
      <3>3. q <= (n + b) \div 2
        BY <2>2, <3>2
      <3>4. 2 * q - b = i
        BY <2>2, <3>1
      <3> QED BY <1>4, <3>2, <3>3, <3>4
    <2>4. holes[q] = HoleRange(segs, i)
      BY <1>3, <2>3
    <2> QED BY <2>3, <2>4 DEF HoleRange, SegEnd
  <1>7. ASSUME NEW q \in 1..c, holes[q].from <= offset, offset < holes[q].to
        PROVE  segs[i].hole
    <2>1. PICK k \in 1..n : k = 2 * q - b /\ holes[q] = HoleRange(segs, k)
      BY <1>3
    <2>2. segs[k].hole
      <3>1. k + b = 2 * q /\ q \in Nat
        BY <2>1, <1>2, <1>3
      <3>2. (k + b) % 2 = 0
        BY <3>1
      <3> QED BY <1>2, <3>2
    <2>3. SegStart(segs, k) <= offset /\ offset < SegStart(segs, k + 1)
      BY <1>7, <2>1 DEF HoleRange, SegEnd
    <2>4. k = i
      <3>0. i \in 1..(n + 1) /\ k \in 1..(n + 1) /\ i + 1 \in 1..(n + 1) /\ k + 1 \in 1..(n + 1)
        BY <1>1
      <3>1. ASSUME k < i
            PROVE  FALSE
        <4>1. i \in (k + 1)..(n + 1)
          BY <3>0, <3>1
        <4>2. SegStart(segs, k + 1) <= SegStart(segs, i)
          BY <1>1, <3>0, <4>1
        <4>3. SegStart(segs, k + 1) \in Nat /\ SegStart(segs, i) \in Nat
          BY <1>1, <3>0
        <4> QED BY <2>3, <4>2, <4>3
      <3>2. ASSUME i < k
            PROVE  FALSE
        <4>1. k \in (i + 1)..(n + 1)
          BY <3>0, <3>2
        <4>2. SegStart(segs, i + 1) <= SegStart(segs, k)
          BY <1>1, <3>0, <4>1
        <4>3. SegStart(segs, i + 1) \in Nat /\ SegStart(segs, k) \in Nat
          BY <1>1, <3>0
        <4> QED BY <2>3, <4>2, <4>3
      <3> QED BY <3>1, <3>2, <1>1
    <2> QED BY <2>2, <2>4
  <1> QED BY <1>5, <1>6, <1>7

ContentSet(E) == UnitSet(E) \cup {Zero}

\* The content has the size of the file, and zeros in the holes.
LEMMA ContentFacts ==
  ASSUME NEW E, NEW e \in E, e.size \in Nat
  PROVE  /\ Content(e) \in Seq(ContentSet(E)) /\ Len(Content(e)) = e.size
         /\ \A j \in 1..e.size : Content(e)[j] = IF InHole(e, j - 1) THEN Zero ELSE Byte(e, j - 1)
  <1>1. PICK f, n : f = Content(e) /\ n = e.size
    OBVIOUS
  <1>2. DOMAIN f = 1..n /\ f = [j \in 1..n |-> f[j]]
        /\ \A j \in 1..n : f[j] = IF InHole(e, j - 1) THEN Zero ELSE Byte(e, j - 1)
    BY <1>1 DEF Content
  <1>3. \A j \in 1..n : Byte(e, j - 1) \in UnitSet(E)
    <2> SUFFICES ASSUME NEW j \in 1..n
                 PROVE  Byte(e, j - 1) \in UnitSet(E)
      OBVIOUS
    <2>1. j - 1 \in Nat
      BY <1>1
    <2> QED BY <2>1 DEF Byte, UnitSet
  <1>4. \A j \in 1..n : f[j] \in ContentSet(E)
    BY <1>2, <1>3 DEF ContentSet
  <1>5. f \in Seq(ContentSet(E)) /\ Len(f) = n
    BY <1>1, <1>2, <1>4, MakeSequence
  <1> QED BY <1>1, <1>2, <1>5

\* Of a file without holes all is sent.
LEMMA PlainFacts ==
  ASSUME NEW E, NEW e \in E, IsFile(e), Holes(e.segs) = <<>>
  PROVE  Data(e) = Content(e)
  <1> DEFINE n == Len(e.segs)
  <1>1. e.kind = "file" /\ e.size \in Nat /\ e.segs \in Seq(Segment) /\ n \in Nat
        /\ (e.segs = <<>> <=> n = 0)
    BY DEF IsFile
  <1>2. Bytes(e, 0, e.size) = Content(e)
    <2>1. PICK f, g, S : f = Bytes(e, 0, e.size) /\ g = Content(e) /\ S = ContentSet(E)
      OBVIOUS
    <2>2. UnitSet(E) \subseteq S
      BY <2>1 DEF ContentSet
    <2>3. \A offset : ~InHole(e, offset)
      BY DEF InHole
    <2>4. f \in Seq(UnitSet(E)) /\ Len(f) = e.size
          /\ \A j \in 1..e.size : f[j] = Byte(e, 0 + (j - 1))
      <3>1. PICK from \in Nat, len \in Nat : from = 0 /\ len = e.size
        BY <1>1
      <3>2. f = Bytes(e, from, len)
        BY <2>1, <3>1
      <3>3. f \in Seq(UnitSet(E)) /\ Len(f) = len /\ \A j \in 1..len : f[j] = Byte(e, from + (j - 1))
        BY ONLY <3>2, BytesFacts, from \in Nat, len \in Nat, e \in E
      <3> QED BY <3>1, <3>3
    <2>5. g \in Seq(S) /\ Len(g) = e.size /\ \A j \in 1..e.size : g[j] = Byte(e, j - 1)
      BY <1>1, <2>1, <2>3, ContentFacts
    <2>6. \A j \in 1..e.size : 0 + (j - 1) = j - 1
      BY <1>1
    <2>7. f \in Seq(S)
      BY <2>2, <2>4, SeqMonotonic
    <2>8. \A j \in 1..Len(f) : f[j] = g[j]
      BY <2>4, <2>5, <2>6
    <2>9. Len(f) = Len(g)
      BY <2>4, <2>5
    <2>10. f = g
      BY ONLY <2>5, <2>7, <2>8, <2>9, SameSequence
    <2> QED BY <2>1, <2>10
  <1>3. CASE e.segs = <<>>
    BY <1>1, <1>2, <1>3 DEF Data
  <1>4. CASE e.segs # <<>>
    <2>1. SegStart(e.segs, n + 1) = e.size /\ Alternating(e.segs)
      BY <1>1, <1>4 DEF IsFile, IsTruthful
    <2>2. HoleCount(e.segs) = 0
      BY <1>1, <2>1, HolesForm
    <2>3. n = 1 /\ First(e.segs) = 0
      <3>1. First(e.segs) \in {0, 1} /\ (n + First(e.segs)) \div 2 = 0 /\ n # 0
        BY <1>1, <1>4, <2>1, <2>2, Parity DEF HoleCount
      <3>2. PICK b, k : b = First(e.segs) /\ k = n
        OBVIOUS
      <3>3. k \in Nat /\ k # 0 /\ b \in {0, 1} /\ (k + b) \div 2 = 0
        BY <1>1, <3>1, <3>2
      <3>4. k = 1 /\ b = 0
        BY ONLY <3>3
      <3> QED BY <3>2, <3>4
    <2>4. ~e.segs[1].hole
      BY <1>4, <2>3 DEF First
    <2>5. SegStart(e.segs, 1) = 0 /\ SegStart(e.segs, 1 + 1) = SegStart(e.segs, 1) + e.segs[1].len
          /\ e.segs[1].len \in Nat
      BY <1>1, <2>3, Starts
    <2>6. SegBytes(e, 1) = Bytes(e, 0, e.size)
      BY <2>1, <2>3, <2>4, <2>5 DEF SegBytes
    <2>7. PICK s : s = SegData(e)
      OBVIOUS
    <2>8. s \in Seq(Seq(UnitSet(E))) /\ Len(s) = 1 /\ s[1] = Bytes(e, 0, e.size)
      <3>1. s \in Seq(Seq(UnitSet(E))) /\ Len(s) = n /\ \A i \in 1..n : s[i] = SegBytes(e, i)
        BY <1>1, <2>7, EntryUnits DEF Kinds
      <3>2. 1 \in 1..n
        BY <2>3
      <3>3. s[1] = SegBytes(e, 1)
        BY <3>1, <3>2
      <3> QED BY <2>3, <2>6, <3>1, <3>3
    <2>9. FlattenSeq(s) = s[1]
      <3>1. s[1] \in Seq(UnitSet(E))
        <4>1. PICK from \in Nat, len \in Nat : from = 0 /\ len = e.size
          BY <1>1
        <4>2. Bytes(e, from, len) \in Seq(UnitSet(E))
          BY ONLY BytesFacts, from \in Nat, len \in Nat, e \in E
        <4> QED BY <2>8, <4>1, <4>2
      <3> QED BY <2>8, <3>1, FlattenOne
    <2> QED BY <1>1, <1>2, <1>4, <2>7, <2>8, <2>9 DEF Data
  <1> QED BY <1>3, <1>4

\* Of a sparse file the data segments are sent.
LEMMA SparseFacts ==
  ASSUME NEW E, NEW e \in E, IsFile(e), Holes(e.segs) # <<>>
  PROVE  /\ EndOf(SegData(e), 0) = 0 /\ EndOf(SegData(e), Len(e.segs)) = Len(Data(e))
         /\ \A i \in 0..Len(e.segs) : EndOf(SegData(e), i) \in 0..Len(Data(e))
         /\ \A i \in 1..Len(e.segs) :
              /\ EndOf(SegData(e), i) =
                   EndOf(SegData(e), i - 1) + (IF e.segs[i].hole THEN 0 ELSE e.segs[i].len)
              /\ \A j \in 1..e.segs[i].len :
                   /\ SegStart(e.segs, i) + j \in 1..e.size
                   /\ Content(e)[SegStart(e.segs, i) + j] =
                        IF e.segs[i].hole THEN Zero
                                          ELSE Data(e)[EndOf(SegData(e), i - 1) + j]
  <1> DEFINE n == Len(e.segs)
  <1>1. e.kind = "file" /\ e.size \in Nat /\ e.segs \in Seq(Segment) /\ n \in Nat
    BY DEF IsFile
  <1>2. e.segs # <<>>
    <2>1. Alternating(<<>>) /\ HoleCount(<<>>) = 0
      BY DEF Alternating, HoleCount, First
    <2>2. ASSUME e.segs = <<>>
          PROVE  FALSE
      <3>1. Len(Holes(e.segs)) = 0 /\ Holes(e.segs) \in Seq([from: Nat, to: Nat])
        BY <1>1, <2>1, <2>2, HolesForm
      <3> QED BY <3>1
    <2> QED BY <2>2
  <1>3. SegStart(e.segs, n + 1) = e.size /\ Alternating(e.segs)
    BY <1>1, <1>2 DEF IsFile, IsTruthful
  <1>4. PICK s, D : s = SegData(e) /\ D = Data(e)
    OBVIOUS
  <1>5. s \in Seq(Seq(UnitSet(E))) /\ Len(s) = n /\ \A i \in 1..n : s[i] = SegBytes(e, i)
    BY <1>1, <1>4, EntryUnits DEF Kinds
  <1>6. D = FlattenSeq(s)
    BY <1>1, <1>2, <1>4 DEF Data
  <1>7. EndOf(s, 0) = 0 /\ EndOf(s, n) = Len(D) /\ \A i \in 0..n : EndOf(s, i) \in 0..Len(D)
    BY <1>5, <1>6, FlattenParts
  <1>8. ASSUME NEW i \in 1..n
        PROVE  /\ EndOf(s, i) = EndOf(s, i - 1) + (IF e.segs[i].hole THEN 0 ELSE e.segs[i].len)
               /\ \A j \in 1..e.segs[i].len :
                    /\ SegStart(e.segs, i) + j \in 1..e.size
                    /\ Content(e)[SegStart(e.segs, i) + j] =
                         IF e.segs[i].hole THEN Zero ELSE D[EndOf(s, i - 1) + j]
    <2>1. PICK k \in 0..(n - 1) : i = k + 1 /\ i - 1 = k
      <3>1. i - 1 \in 0..(n - 1) /\ i = (i - 1) + 1
        BY <1>1
      <3> QED BY <3>1
    <2>2. /\ EndOf(s, k + 1) = EndOf(s, k) + Len(s[k + 1])
      BY <1>5, <2>1, FlattenParts
    <2>3. \A j \in 1..Len(s[k + 1]) : D[EndOf(s, k) + j] = s[k + 1][j]
      BY <1>5, <1>6, <2>1, FlattenElements
    <2>4. PICK from, len : from = SegStart(e.segs, i) /\ len = e.segs[i].len
      OBVIOUS
    <2>5. from \in Nat /\ len \in Nat /\ SegStart(e.segs, i + 1) = from + len /\ from + len <= e.size
          /\ e.segs[i].hole \in BOOLEAN
      <3>1. i \in 1..(n + 1) /\ i + 1 \in 1..(n + 1) /\ n + 1 \in (i + 1)..(n + 1)
        BY <1>1
      <3>2. from \in Nat /\ len \in Nat /\ SegStart(e.segs, i + 1) = from + len
            /\ e.segs[i].hole \in BOOLEAN
        BY <1>1, <2>4, <3>1, Starts
      <3>3. SegStart(e.segs, i + 1) <= SegStart(e.segs, n + 1)
        BY <1>1, <3>1, Starts
      <3> QED BY <1>3, <3>2, <3>3
    <2>6. s[i] = IF e.segs[i].hole THEN <<>> ELSE Bytes(e, from, len)
      BY <1>5, <2>4 DEF SegBytes
    <2>7. Len(Bytes(e, from, len)) = len /\ \A j \in 1..len : Bytes(e, from, len)[j] = Byte(e, from + (j - 1))
      BY <2>5, BytesFacts
    <2>8. Len(s[i]) = IF e.segs[i].hole THEN 0 ELSE len
      BY <2>6, <2>7
    <2>9. ASSUME NEW j \in 1..len
          PROVE  /\ from + j \in 1..e.size
                 /\ Content(e)[from + j] = IF e.segs[i].hole THEN Zero ELSE D[EndOf(s, i - 1) + j]
      <3>1. from + j \in 1..e.size /\ (from + j) - 1 = from + (j - 1) /\ from + (j - 1) \in Nat
            /\ from <= from + (j - 1) /\ from + (j - 1) < from + len
        BY <2>5, <1>1
      <3>2. InHole(e, from + (j - 1)) <=> e.segs[i].hole
        BY <1>1, <1>3, <2>4, <2>5, <3>1, InHoleFacts
      <3>3. Content(e)[from + j] =
              IF InHole(e, (from + j) - 1) THEN Zero ELSE Byte(e, (from + j) - 1)
        BY <1>1, <3>1, ContentFacts
      <3>4. ~e.segs[i].hole => D[EndOf(s, i - 1) + j] = Byte(e, from + (j - 1))
        BY <2>1, <2>3, <2>6, <2>7
      <3> QED BY <3>1, <3>2, <3>3, <3>4
    <2> QED BY <2>1, <2>2, <2>4, <2>8, <2>9
  <1> QED BY <1>4, <1>7, <1>8

-----------------------------------------------------------------------------
(* The stream of an archive.                                               *)

UnitsOf(a) == [i \in 1..Len(a) |-> Units(a[i])]
Stream(a) == FlattenSeq(UnitsOf(a))
Begin(a, k) == EndOf(UnitsOf(a), k)     \* where entry k + 1 begins

\* The entries of an archive.
LEMMA ArchiveFacts ==
  ASSUME NEW a \in Archives
  PROVE  /\ Len(a) \in Nat
         /\ \A i \in 1..Len(a) :
              /\ a[i] \in Range(a) /\ a[i].kind \in Kinds /\ a[i].size \in Nat
              /\ a[i].segs \in Seq(Segment) /\ a[i].path # NoPath /\ a[i].path # <<>>
              /\ a[i].path \in Seq(Range(a[i].path))
              /\ \A j \in 1..Len(a) : a[i].path = a[j].path => i = j
         /\ \A e \in Range(a) : \E i \in 1..Len(a) : e = a[i]
  <1>1. IsArchive(a)
    BY WriteAssumption
  <1>2. Len(a) \in Nat /\ DOMAIN a = 1..Len(a)
    BY <1>1 DEF IsArchive
  <1>3. \A i \in 1..Len(a) : a[i] \in Range(a)
    BY <1>2 DEF Range
  <1>4. \A e \in Range(a) : \E i \in 1..Len(a) : e = a[i]
    BY <1>2 DEF Range
  <1>5. \A i \in 1..Len(a) : IsEntry(a[i])
    BY <1>1 DEF IsArchive
  <1>6. \A i \in 1..Len(a) :
           /\ a[i].kind \in Kinds /\ a[i].size \in Nat
           /\ a[i].segs \in Seq(Segment) /\ a[i].path # NoPath /\ a[i].path # <<>>
           /\ a[i].path \in Seq(Range(a[i].path))
    BY <1>5 DEF IsEntry, Segment
  <1>7. \A i, j \in 1..Len(a) : a[i].path = a[j].path => i = j
    BY <1>1 DEF IsArchive
  <1> QED BY <1>2, <1>3, <1>4, <1>6, <1>7

\* Header and data of entry k + 1 are where entry k ends.
LEMMA StreamFacts ==
  ASSUME NEW a \in Archives
  PROVE  /\ Stream(a) \in Seq(UnitSet(Range(a))) /\ Len(Stream(a)) \in Nat
         /\ Begin(a, 0) = 0 /\ Begin(a, Len(a)) = Len(Stream(a))
         /\ \A k \in 0..Len(a) : Begin(a, k) \in 0..Len(Stream(a))
         /\ \A k \in 0..(Len(a) - 1) :
              /\ Begin(a, k + 1) = Begin(a, k) + (HeaderLen + 1) + Len(Data(a[k + 1]))
              /\ Len(Data(a[k + 1])) \in Nat
              /\ \A j \in 1..(HeaderLen + 1) :
                   Stream(a)[Begin(a, k) + j] = [of |-> a[k + 1], part |-> "header", at |-> j - 1]
              /\ \A j \in 1..Len(Data(a[k + 1])) :
                   Stream(a)[Begin(a, k) + (HeaderLen + 1) + j] = Data(a[k + 1])[j]
  <1> DEFINE U == UnitSet(Range(a))
             n == Len(a)
  <1>1. PICK s : s = UnitsOf(a)
    OBVIOUS
  <1>2. n \in Nat
    BY ArchiveFacts
  <1>3. ASSUME NEW i \in 1..n
        PROVE  /\ Units(a[i]) \in Seq(U)
               /\ Len(Units(a[i])) = HeaderLen + 1 + Len(Data(a[i])) /\ Len(Data(a[i])) \in Nat
               /\ \A j \in 1..(HeaderLen + 1) :
                    Units(a[i])[j] = [of |-> a[i], part |-> "header", at |-> j - 1]
               /\ \A j \in 1..Len(Data(a[i])) :
                    Units(a[i])[HeaderLen + 1 + j] = Data(a[i])[j]
    <2>1. PICK h, d, u, m : h = HeaderUnits(a[i]) /\ d = Data(a[i]) /\ u = Units(a[i]) /\ m = HeaderLen + 1
      OBVIOUS
    <2>2. a[i] \in Range(a) /\ a[i].kind \in Kinds /\ a[i].size \in Nat /\ a[i].segs \in Seq(Segment)
      BY ArchiveFacts
    <2>3. /\ u = h \o d /\ h \in Seq(U) /\ Len(h) = m /\ d \in Seq(U)
          /\ \A j \in 1..m : h[j] = [of |-> a[i], part |-> "header", at |-> j - 1]
      BY <2>1, <2>2, EntryUnits
    <2>4. /\ u \in Seq(U) /\ Len(u) = Len(h) + Len(d) /\ Len(d) \in Nat
          /\ \A k \in 1..Len(h) : u[k] = h[k]
          /\ \A k \in 1..Len(d) : u[Len(h) + k] = d[k]
      <3>1. u \in Seq(U) /\ Len(u) = Len(h) + Len(d) /\ Len(d) \in Nat
        BY ONLY <2>3, JoinParts
      <3>2. \A k \in 1..Len(h) : u[k] = h[k]
        BY ONLY <2>3, JoinParts
      <3>3. \A k \in 1..Len(d) : u[Len(h) + k] = d[k]
        BY ONLY <2>3, JoinParts
      <3> QED BY <3>1, <3>2, <3>3
    <2>5. \A j \in 1..Len(d) : u[m + j] = d[j]
      BY <2>3, <2>4
    <2>6. \A j \in 1..m : u[j] = [of |-> a[i], part |-> "header", at |-> j - 1]
      BY <2>3, <2>4
    <2> QED BY <2>1, <2>3, <2>4, <2>5, <2>6
  <1>4. s \in Seq(Seq(U)) /\ Len(s) = n /\ \A i \in 1..n : s[i] = Units(a[i])
    <2>1. PICK Q : Q = Seq(U)
      OBVIOUS
    <2>2. DOMAIN s = 1..n /\ s = [i \in 1..n |-> s[i]] /\ \A i \in 1..n : s[i] = Units(a[i])
      BY <1>1 DEF UnitsOf
    <2>3. \A i \in 1..n : s[i] \in Q
      BY <1>3, <2>1, <2>2
    <2>4. s \in Seq(Q) /\ Len(s) = n
      BY ONLY <1>2, <2>2, <2>3, MakeSequence
    <2> QED BY <2>1, <2>2, <2>4
  <1>5. PICK w : w = Stream(a)
    OBVIOUS
  <1>6. w = FlattenSeq(s)
    BY <1>1, <1>5 DEF Stream
  <1> HIDE DEF U
  <1>7. /\ w \in Seq(U) /\ EndOf(s, 0) = 0 /\ EndOf(s, n) = Len(w)
        /\ \A k \in 0..n : EndOf(s, k) \in 0..Len(w)
        /\ \A k \in 0..(n - 1) : EndOf(s, k + 1) = EndOf(s, k) + Len(s[k + 1])
    BY <1>4, <1>6, FlattenParts
  <1>8. \A k \in 0..(n - 1) : \A j \in 1..Len(s[k + 1]) : w[EndOf(s, k) + j] = s[k + 1][j]
    BY <1>4, <1>6, FlattenElements
  <1>9. \A k : Begin(a, k) = EndOf(s, k)
    BY <1>1 DEF Begin
  <1>10. ASSUME NEW k \in 0..(n - 1)
         PROVE  /\ Begin(a, k + 1) = Begin(a, k) + (HeaderLen + 1) + Len(Data(a[k + 1]))
                /\ Len(Data(a[k + 1])) \in Nat
                /\ \A j \in 1..(HeaderLen + 1) :
                     w[Begin(a, k) + j] = [of |-> a[k + 1], part |-> "header", at |-> j - 1]
                /\ \A j \in 1..Len(Data(a[k + 1])) :
                     w[Begin(a, k) + (HeaderLen + 1) + j] = Data(a[k + 1])[j]
    <2>1. PICK i, b, m, d : i = k + 1 /\ b = EndOf(s, k) /\ m = HeaderLen + 1 /\ d = Len(Data(a[k + 1]))
      OBVIOUS
    <2>2. i \in 1..n /\ k \in 0..n
      BY <1>2, <2>1
    <2>3. b \in Nat /\ EndOf(s, i) = b + Len(s[i]) /\ \A j \in 1..Len(s[i]) : w[b + j] = s[i][j]
      <3>1. EndOf(s, k) \in 0..Len(w)
        BY <1>7, <2>2
      <3>2. EndOf(s, i) = b + Len(s[i]) /\ \A j \in 1..Len(s[i]) : w[b + j] = s[i][j]
        BY <1>7, <1>8, <2>1
      <3> QED BY <3>1, <3>2, <2>1
    <2>4. /\ Len(s[i]) = m + d /\ d \in Nat /\ m \in Nat
          /\ \A j \in 1..m : s[i][j] = [of |-> a[i], part |-> "header", at |-> j - 1]
          /\ \A j \in 1..d : s[i][m + j] = Data(a[i])[j]
      <3>1. s[i] = Units(a[i])
        BY <1>4, <2>2
      <3>2. m \in Nat
        BY <2>1, FormatAssumption
      <3>3. /\ Len(s[i]) = m + d /\ d \in Nat
            /\ \A j \in 1..m : s[i][j] = [of |-> a[i], part |-> "header", at |-> j - 1]
        BY <1>3, <2>1, <2>2, <3>1
      <3>4. \A j \in 1..d : s[i][m + j] = Data(a[i])[j]
        BY <1>3, <2>1, <2>2, <3>1
      <3> QED BY <3>2, <3>3, <3>4
    <2>5. \A j \in 1..m : w[b + j] = [of |-> a[i], part |-> "header", at |-> j - 1]
      <3>1. \A j \in 1..m : j \in 1..Len(s[i])
        BY <2>4
      <3> QED BY <2>3, <2>4, <3>1
    <2>6. \A j \in 1..d : w[b + m + j] = Data(a[i])[j]
      <3> SUFFICES ASSUME NEW j \in 1..d
                   PROVE  w[b + m + j] = Data(a[i])[j]
        OBVIOUS
      <3>1. m + j \in 1..Len(s[i]) /\ b + m + j = b + (m + j)
        BY <2>3, <2>4
      <3>2. w[b + (m + j)] = s[i][m + j]
        BY <2>3, <3>1
      <3> QED BY <2>4, <3>1, <3>2
    <2>7. EndOf(s, i) = b + m + d
      BY <2>3, <2>4
    <2> QED BY <1>9, <2>1, <2>4, <2>5, <2>6, <2>7
  <1>11. Len(w) \in Nat
    BY <1>7
  <1> QED BY <1>5, <1>7, <1>9, <1>10, <1>11 DEF U

-----------------------------------------------------------------------------
(* A place in the stream: buf is what follows it, and r the rest.          *)

At(w, pos, buf, r) ==
  /\ pos \in 0..Len(w) /\ Len(buf) \in 0..(Len(w) - pos)
  /\ buf = SubSeq(w, pos + 1, pos + Len(buf))
  /\ r = SubSeq(w, pos + Len(buf) + 1, Len(w))

\* What is in the buffer and in the rest.
LEMMA AtFacts ==
  ASSUME NEW S, NEW w, NEW pos, NEW buf, NEW r, w \in Seq(S), At(w, pos, buf, r)
  PROVE  /\ pos \in Nat /\ Len(w) \in Nat /\ Len(buf) \in Nat
         /\ buf \in Seq(S) /\ r \in Seq(S) /\ Len(r) = Len(w) - (pos + Len(buf))
         /\ (buf = <<>> <=> Len(buf) = 0) /\ (r = <<>> <=> pos + Len(buf) = Len(w))
         /\ \A j \in 1..Len(buf) : buf[j] = w[pos + j]
  <1>1. PICK l, b, m : l = Len(w) /\ b = Len(buf) /\ m = pos + b
    OBVIOUS
  <1>2. l \in Nat /\ pos \in 0..l /\ b \in 0..(l - pos) /\ buf = SubSeq(w, pos + 1, m)
        /\ r = SubSeq(w, m + 1, l)
    BY <1>1 DEF At
  <1>3. m \in 0..Len(w) /\ pos \in 0..m /\ m - pos = b /\ l \in 0..Len(w) /\ m \in 0..l
    BY <1>1, <1>2
  <1>4. buf \in Seq(S) /\ Len(buf) = m - pos /\ \A j \in 1..(m - pos) : buf[j] = w[pos + j]
    BY <1>2, <1>3, PieceFacts
  <1>5. r \in Seq(S) /\ Len(r) = l - m /\ (r = <<>> <=> m = l)
    BY ONLY <1>2, <1>3, PieceAt, w \in Seq(S)
  <1>6. buf = <<>> <=> Len(buf) = 0
    BY <1>4
  <1>7. pos \in Nat /\ Len(w) \in Nat /\ Len(buf) \in Nat
    BY <1>1, <1>2
  <1>8. \A j \in 1..Len(buf) : buf[j] = w[pos + j]
    BY <1>4
  <1>9. Len(r) = Len(w) - (pos + Len(buf)) /\ (r = <<>> <=> pos + Len(buf) = Len(w))
    BY <1>1, <1>5
  <1> QED BY <1>4, <1>5, <1>6, <1>7, <1>8, <1>9

\* Bytes are taken out of the buffer.
LEMMA AtTake ==
  ASSUME NEW S, NEW w, NEW pos, NEW buf, NEW r, w \in Seq(S), At(w, pos, buf, r),
         NEW n \in 0..Len(buf)
  PROVE  /\ At(w, pos + n, Drop(buf, n), r) /\ Len(Drop(buf, n)) = Len(buf) - n
         /\ Drop(buf, n) = <<>> <=> n = Len(buf)
  <1>1. PICK l, b, m, d : l = Len(w) /\ b = Len(buf) /\ m = pos + b /\ d = Drop(buf, n)
    OBVIOUS
  <1>2. l \in Nat /\ pos \in 0..l /\ b \in 0..(l - pos) /\ buf = SubSeq(w, pos + 1, m)
        /\ r = SubSeq(w, m + 1, l)
    BY <1>1 DEF At
  <1>3. m \in 0..Len(w) /\ pos \in 0..m /\ m - pos = b /\ n \in 0..(m - pos)
    BY <1>1, <1>2
  <1>4. d = SubSeq(w, pos + n + 1, m)
    <2>1. SubSeq(SubSeq(w, pos + 1, m), n + 1, m - pos) = SubSeq(w, pos + n + 1, m)
      BY <1>3, CutPiece
    <2>2. d = SubSeq(buf, n + 1, m - pos)
      BY <1>1, <1>3 DEF Drop
    <2> QED BY <1>2, <2>1, <2>2
  <1>5. d \in Seq(S) /\ Len(d) = b - n /\ (d = <<>> <=> n = b)
    <2>1. PICK q : q = pos + n
      OBVIOUS
    <2>2. q \in 0..m /\ m - q = b - n /\ (q = m <=> n = b)
      BY <1>1, <1>2, <1>3, <2>1
    <2>3. d = SubSeq(w, q + 1, m)
      BY <1>4, <2>1
    <2>4. d \in Seq(S) /\ Len(d) = m - q /\ (d = <<>> <=> q = m)
      BY ONLY <1>3, <2>2, <2>3, PieceAt, w \in Seq(S)
    <2> QED BY <2>2, <2>4
  <1>6. At(w, pos + n, d, r)
    <2>1. pos + n \in 0..l /\ b - n \in 0..(l - (pos + n)) /\ pos + n + (b - n) = m
      <3>1. l \in Nat /\ pos \in 0..l /\ b \in 0..(l - pos) /\ n \in 0..b /\ m = pos + b
        BY <1>1, <1>2
      <3> QED BY ONLY <3>1
    <2> QED BY <1>1, <1>2, <1>4, <1>5, <2>1 DEF At
  <1> QED BY <1>1, <1>5, <1>6

\* The next part of the stream is put into it.
LEMMA AtFeed ==
  ASSUME NEW S, NEW w, NEW pos, NEW buf, NEW r, w \in Seq(S), At(w, pos, buf, r),
         NEW n \in 0..Len(r)
  PROVE  At(w, pos, buf \o SubSeq(r, 1, n), Drop(r, n))
  <1>1. PICK l, b, m, c : l = Len(w) /\ b = Len(buf) /\ m = pos + b /\ c = m + n
    OBVIOUS
  <1>2. l \in Nat /\ pos \in 0..l /\ b \in 0..(l - pos) /\ buf = SubSeq(w, pos + 1, m)
        /\ r = SubSeq(w, m + 1, l)
    BY <1>1 DEF At
  <1>3. m \in 0..l /\ l \in 0..Len(w) /\ Len(r) = l - m /\ buf \in Seq(S) /\ r \in Seq(S) /\ m \in Nat
    <2>1. Len(r) = l - m /\ buf \in Seq(S) /\ r \in Seq(S)
      <3>1. r \in Seq(S) /\ buf \in Seq(S)
        BY AtFacts
      <3>2. Len(r) = Len(w) - (pos + Len(buf))
        BY AtFacts
      <3> QED BY <1>1, <3>1, <3>2
    <2>2. m \in 0..l /\ m \in Nat
      BY <1>1, <1>2
    <2> QED BY <1>1, <2>1, <2>2
  <1>4. n \in 0..(l - m) /\ c \in 0..Len(w) /\ m \in 0..c /\ pos \in 0..m /\ c - pos = b + n
        /\ b + n \in 0..(l - pos) /\ pos + (b + n) = c
    BY <1>1, <1>2, <1>3
  <1>5. SubSeq(r, 1, n) = SubSeq(w, m + 1, c) /\ Drop(r, n) = SubSeq(w, c + 1, l)
    <2>1. SubSeq(SubSeq(w, m + 1, l), 1, n) = SubSeq(w, m + 1, m + n)
          /\ SubSeq(SubSeq(w, m + 1, l), n + 1, l - m) = SubSeq(w, m + n + 1, l)
      BY <1>3, <1>4, CutPiece
    <2> QED BY <1>1, <1>2, <1>3, <2>1 DEF Drop
  <1>6. PICK d : d = buf \o SubSeq(r, 1, n)
    OBVIOUS
  <1>7. d = SubSeq(w, pos + 1, c)
    <2>1. SubSeq(w, pos + 1, m) \o SubSeq(w, m + 1, c) = SubSeq(w, pos + 1, c)
      BY <1>4, AppendPiece
    <2> QED BY <1>2, <1>5, <1>6, <2>1
  <1>8. Len(d) = b + n
    <2>1. pos \in 0..c
      BY <1>4
    <2> QED BY <1>4, <1>7, <2>1, PieceFacts
  <1> QED BY <1>1, <1>2, <1>4, <1>5, <1>6, <1>7, <1>8 DEF At

-----------------------------------------------------------------------------
(* The loop of write_files is at the length, the header or the data of an  *)
(* entry.                                                                  *)

N == Len(archive)
Given == archive \in Archives /\ before \in Befores /\ list \in BOOLEAN

Here(pos) == At(Stream(archive), pos, bufOut, rest)

Idle == fOut = NoPath /\ fileSize = 0 /\ segments = <<>> /\ segIndex = 1 /\ dataSize = 0

\* k entries were read; the length of the next one follows.
AtLength(k) ==
  /\ k \in 0..N /\ Idle /\ headerKnown = FALSE /\ Here(Begin(archive, k))
  /\ phase = "recv" => bufOut = <<>>
\* Its header follows.
AtHeader(k) ==
  /\ k \in 0..(N - 1) /\ Idle /\ headerKnown = TRUE /\ Here(Begin(archive, k) + 1)
  /\ phase = "recv" => Len(bufOut) < HeaderLen

\* Data of the file e, the entry k, follow.
InSegment == IF dataSize = 0 THEN 0 ELSE segments[segIndex].len - dataSize
Offset(e) == e.size - fileSize
DataAt(k) == Begin(archive, k - 1) + (HeaderLen + 1)
InPlain(k, e) ==
  /\ Holes(e.segs) = <<>> /\ segments = <<>> /\ segIndex = 1 /\ dataSize = 0
  /\ Here(DataAt(k) + Offset(e))
InSparse(k, e) ==
  /\ Holes(e.segs) # <<>> /\ segments = e.segs /\ segIndex \in 1..Len(e.segs)
  /\ dataSize \in 0..e.segs[segIndex].len /\ (dataSize # 0 => ~e.segs[segIndex].hole)
  /\ fileSize > 0 /\ Offset(e) = SegStart(e.segs, segIndex) + InSegment
  /\ Here(DataAt(k) + (EndOf(SegData(e), segIndex - 1) + InSegment))
InData(k) ==
  /\ k \in 1..N /\ headerKnown = FALSE
  /\ LET e == archive[k]
     IN  /\ e.kind = "file" /\ fOut = (IF list THEN NoPath ELSE e.path)
         /\ fileSize \in 0..e.size /\ (list => fileSize > 0)
         /\ InPlain(k, e) \/ InSparse(k, e)
         /\ phase = "recv" => /\ fileSize > 0 /\ bufOut = <<>>
                              /\ segments # <<>> => ~segments[segIndex].hole

Parsing(k) == AtLength(k) \/ AtHeader(k) \/ InData(k)

\* The entry k + 1 and those before it.
LEMMA EntryFacts ==
  ASSUME Given, NEW k \in 0..(N - 1)
  PROVE  /\ k + 1 \in 1..N /\ N \in Nat /\ archive[k + 1] \in Entries
         /\ archive[k + 1].size \in Nat /\ archive[k + 1].path # NoPath
         /\ \A j \in 1..k :
              archive[j] # archive[k + 1] /\ archive[j].path # archive[k + 1].path
  <1>1. PICK a, n : a = archive /\ n = Len(a)
    OBVIOUS
  <1>2. /\ n \in Nat /\ N = n /\ Entries = Range(a)
        /\ \A i \in 1..n : /\ a[i] \in Range(a) /\ a[i].size \in Nat /\ a[i].path # NoPath
                          /\ \A j \in 1..n : a[i].path = a[j].path => i = j
    BY <1>1, ArchiveFacts DEF Given, N, Entries
  <1>3. k + 1 \in 1..n /\ \A j \in 1..k : j \in 1..n /\ j # k + 1
    BY <1>2
  <1> QED BY ONLY <1>1, <1>2, <1>3

\* The entry k ends where the next one begins.
LEMMA EntryEnd ==
  ASSUME Given, NEW k \in 1..N
  PROVE  /\ DataAt(k) \in Nat /\ Begin(archive, k) \in Nat /\ Begin(archive, k - 1) \in Nat
         /\ Len(Data(archive[k])) \in Nat
         /\ Begin(archive, k) = DataAt(k) + Len(Data(archive[k]))
         /\ Begin(archive, k) <= Len(Stream(archive))
  <1>1. PICK a, i : a = archive /\ i = k - 1
    OBVIOUS
  <1>2. a \in Archives /\ Len(a) \in Nat
    BY <1>1, ArchiveFacts DEF Given
  <1>3. i \in 0..(Len(a) - 1) /\ i \in 0..Len(a) /\ k \in 0..Len(a) /\ i + 1 = k
    BY <1>1, <1>2 DEF N
  <1>4. /\ Begin(a, k) = Begin(a, i) + (HeaderLen + 1) + Len(Data(a[k])) /\ Len(Data(a[k])) \in Nat
    BY <1>2, <1>3, StreamFacts
  <1>5. Begin(a, i) \in 0..Len(Stream(a)) /\ Begin(a, k) \in 0..Len(Stream(a))
    BY <1>2, <1>3, StreamFacts
  <1>6. DataAt(k) = Begin(a, i) + (HeaderLen + 1)
    BY <1>1 DEF DataAt
  <1> QED BY <1>1, <1>4, <1>5, <1>6, FormatAssumption

\* What is at the place of data is data.
LEMMA DataSeen ==
  ASSUME Given, NEW k \in 1..N, NEW o \in Nat, Here(DataAt(k) + o),
         NEW n \in 0..Len(bufOut), o + n <= Len(Data(archive[k]))
  PROVE  /\ SubSeq(bufOut, 1, n) \in Seq(UnitSet(Entries)) /\ Len(SubSeq(bufOut, 1, n)) = n
         /\ \A j \in 1..n : SubSeq(bufOut, 1, n)[j] = Data(archive[k])[o + j]
  <1>1. PICK w, m, b, i, d : /\ w = Stream(archive) /\ m = DataAt(k) /\ b = SubSeq(bufOut, 1, n)
                             /\ i = k - 1 /\ d = Data(archive[k])
    OBVIOUS
  <1>2. archive \in Archives /\ w \in Seq(UnitSet(Entries))
    BY <1>1, StreamFacts DEF Given, Entries
  <1>3. At(w, m + o, bufOut, rest)
    BY <1>1 DEF Here
  <1>4. bufOut \in Seq(UnitSet(Entries)) /\ \A j \in 1..Len(bufOut) : bufOut[j] = w[m + o + j]
    BY <1>2, <1>3, AtFacts
  <1>5. b \in Seq(UnitSet(Entries)) /\ Len(b) = n /\ \A j \in 1..n : b[j] = bufOut[j]
    BY <1>1, <1>4, FirstElements
  <1>6. i \in 0..(N - 1) /\ i + 1 = k
    BY <1>1, <1>2, ArchiveFacts DEF N
  <1>7. m = Begin(archive, i) + (HeaderLen + 1)
    BY <1>1 DEF DataAt
  <1>8. \A j \in 1..Len(d) : w[m + j] = d[j]
    BY <1>1, <1>2, <1>6, <1>7, StreamFacts DEF N
  <1>9. ASSUME NEW j \in 1..n
        PROVE  b[j] = d[o + j]
    <2>1. Len(bufOut) \in Nat
      BY <1>4
    <2>2. j \in 1..Len(bufOut)
      BY <2>1
    <2>3. m \in Nat /\ Len(d) \in Nat
      BY <1>1, EntryEnd
    <2>4. o + j \in 1..Len(d) /\ m + (o + j) = m + o + j
      BY <1>1, <2>1, <2>3
    <2> QED BY <1>4, <1>5, <1>8, <2>2, <2>4
  <1> QED BY <1>1, <1>5, <1>9

\* An entry of the archive that is a file.
LEMMA FileFacts ==
  ASSUME Given, TruthfulArchives, NEW k \in 1..N, archive[k].kind = "file"
  PROVE  archive[k] \in Entries /\ IsFile(archive[k])
  <1>1. archive[k] \in Entries /\ archive[k].size \in Nat /\ archive[k].segs \in Seq(Segment)
    BY ArchiveFacts DEF Given, N, Entries
  <1>2. IsTruthful(archive[k])
    BY DEF Given, N, TruthfulArchives
  <1> QED BY <1>1, <1>2 DEF IsFile

-----------------------------------------------------------------------------
\* More of the stream changes nothing of where the loop is.
LEMMA FeedParses ==
  ASSUME Given, NEW k, Parsing(k), Feed
  PROVE  Parsing(k)'
  <1>1. PICK n \in 1..Lesser(MaxCut, Len(rest)) :
          bufOut' = bufOut \o SubSeq(rest, 1, n) /\ rest' = Drop(rest, n)
    BY DEF Feed
  <1>2. ASSUME NEW pos, Here(pos)
        PROVE  At(Stream(archive), pos, bufOut', rest')
    <2>1. PICK w : w = Stream(archive)
      OBVIOUS
    <2>2. w \in Seq(UnitSet(Entries)) /\ At(w, pos, bufOut, rest)
      BY <1>2, <2>1, StreamFacts DEF Given, Here, Entries
    <2>3. rest \in Seq(UnitSet(Entries))
      BY <2>2, AtFacts
    <2>4. Len(rest) \in Nat
      BY <2>3
    <2>5. n \in 0..Len(rest)
      BY <1>1, <2>4, WriteAssumption DEF Lesser
    <2> QED BY <1>1, <2>1, <2>2, <2>5, AtFeed
  <1>3. phase' = "loop" /\ UNCHANGED <<archive, list, headerKnown, fOut, fileSize, segments, segIndex, dataSize>>
    BY DEF Feed, fixed, fileVars
  <1>4. CASE AtLength(k)
    <2>1. AtLength(k)'
      BY <1>2, <1>3, <1>4 DEF AtLength, Idle, Here, N
    <2> QED BY <2>1 DEF Parsing
  <1>5. CASE AtHeader(k)
    <2>1. AtHeader(k)'
      BY <1>2, <1>3, <1>5 DEF AtHeader, Idle, Here, N
    <2> QED BY <2>1 DEF Parsing
  <1>6. CASE InData(k)
    <2>1. InPlain(k, archive[k]) => InPlain(k, archive[k])'
      BY <1>2, <1>3 DEF InPlain, Here, DataAt, Offset
    <2>2. InSparse(k, archive[k]) => InSparse(k, archive[k])'
      BY <1>2, <1>3 DEF InSparse, Here, DataAt, Offset, InSegment
    <2>3. InData(k)'
      BY <1>3, <1>6, <2>1, <2>2 DEF InData, N
    <2> QED BY <2>3 DEF Parsing
  <1> QED BY <1>4, <1>5, <1>6 DEF Parsing

\* A step that reads nothing.
LEMMA SameParses ==
  ASSUME NEW k, Parsing(k), phase' # "recv" \/ phase' = phase,
         UNCHANGED <<archive, list, rest, bufOut, headerKnown, fOut, fileSize, segments, segIndex, dataSize>>
  PROVE  Parsing(k)' /\ (AtLength(k) => AtLength(k)')
  <1>1. AtLength(k) => AtLength(k)'
    BY DEF AtLength, Idle, Here, N
  <1>2. AtHeader(k) => AtHeader(k)'
    BY DEF AtHeader, Idle, Here, N
  <1>3. InPlain(k, archive[k]) => InPlain(k, archive[k])'
    BY DEF InPlain, Here, DataAt, Offset
  <1>4. InSparse(k, archive[k]) => InSparse(k, archive[k])'
    BY DEF InSparse, Here, DataAt, Offset, InSegment
  <1>5. InData(k) => InData(k)'
    BY <1>3, <1>4 DEF InData, N
  <1> QED BY <1>1, <1>2, <1>5 DEF Parsing

\* In the data of a file the loop is, and only there.
LEMMA InFileFacts ==
  ASSUME Given, NEW k, Parsing(k)
  PROVE  InFile <=> InData(k)
  <1>1. CASE AtLength(k) \/ AtHeader(k)
    <2>1. Idle
      BY <1>1 DEF AtLength, AtHeader
    <2>2. ~InFile
      BY <2>1 DEF Idle, InFile
    <2>3. ~InData(k)
      <3>1. ASSUME InData(k)
            PROVE  FALSE
        <4>1. archive[k].path # NoPath
          BY <3>1, ArchiveFacts DEF InData, N, Given
        <4> QED BY <2>1, <3>1, <4>1 DEF InData, Idle
      <3> QED BY <3>1
    <2> QED BY <2>2, <2>3
  <1>2. CASE InData(k)
    <2>1. archive[k].path # NoPath
      BY <1>2, ArchiveFacts DEF InData, N, Given
    <2> QED BY <1>2, <2>1 DEF InData, InFile
  <1> QED BY <1>1, <1>2 DEF Parsing

\* The length field of a header is taken.
LEMMA LengthParses ==
  ASSUME Given, NEW k, Parsing(k), TakeLength
  PROVE  k \in 0..(N - 1) /\ AtLength(k) /\ AtHeader(k)'
  <1>1. AtLength(k)
    <2>1. ~InData(k)
      BY InFileFacts DEF TakeLength
    <2>2. ~AtHeader(k)
      BY DEF TakeLength, AtHeader
    <2> QED BY <2>1, <2>2 DEF Parsing
  <1>2. PICK w, pos : w = Stream(archive) /\ pos = Begin(archive, k)
    OBVIOUS
  <1>3. w \in Seq(UnitSet(Entries)) /\ At(w, pos, bufOut, rest) /\ Begin(archive, N) = Len(w)
        /\ N \in Nat
    BY <1>1, <1>2, StreamFacts, ArchiveFacts DEF Given, AtLength, Here, Entries, N
  <1>4. Len(bufOut) \in Nat /\ Len(bufOut) # 0 /\ pos + Len(bufOut) <= Len(w) /\ pos \in Nat
        /\ Len(w) \in Nat
    <2>1. bufOut # <<>>
      BY DEF TakeLength
    <2>2. Len(bufOut) \in Nat /\ Len(bufOut) # 0 /\ pos \in Nat /\ Len(w) \in Nat
      BY <1>3, <2>1, AtFacts
    <2> QED BY <1>3, <2>2 DEF At
  <1>5. k \in 0..(N - 1)
    <2>1. k # N
      BY <1>2, <1>3, <1>4
    <2> QED BY <1>1, <1>3, <2>1 DEF AtLength
  <1>6. At(w, pos + 1, Drop(bufOut, 1), rest)
    <2>1. 1 \in 0..Len(bufOut)
      BY <1>4
    <2> QED BY <1>3, <2>1, AtTake
  <1>7. AtHeader(k)'
    <2>1. Here(Begin(archive, k) + 1)'
      BY <1>2, <1>6 DEF TakeLength, fixed, Here
    <2>2. Idle'
      BY <1>1 DEF AtLength, TakeLength, Idle, fileVars
    <2> QED BY <1>5, <2>1, <2>2 DEF AtHeader, TakeLength, N, fixed
  <1> QED BY <1>1, <1>5, <1>7

\* The loop waits for more of the stream.
LEMMA NotEnoughParses ==
  ASSUME Given, NEW k, Parsing(k), NotEnough
  PROVE  Parsing(k)'
  <1>1. ~InData(k)
    BY InFileFacts DEF NotEnough
  <1>2. CASE AtLength(k)
    <2>1. bufOut = <<>>
      <3>1. Len(bufOut) < 1
        BY <1>2 DEF NotEnough, AtLength
      <3>2. Stream(archive) \in Seq(UnitSet(Entries)) /\ At(Stream(archive), Begin(archive, k), bufOut, rest)
        BY <1>2, StreamFacts DEF Given, AtLength, Here, Entries
      <3>3. Len(bufOut) \in Nat /\ (bufOut = <<>> <=> Len(bufOut) = 0)
        BY <3>2, AtFacts
      <3> QED BY <3>1, <3>3
    <2>2. AtLength(k)'
      BY <1>2, <2>1 DEF AtLength, NotEnough, Idle, Here, N, fileVars, fixed
    <2> QED BY <2>2 DEF Parsing
  <1>3. CASE AtHeader(k)
    <2>1. AtHeader(k)'
      BY <1>3 DEF AtHeader, NotEnough, Idle, Here, N, fileVars, fixed
    <2> QED BY <2>1 DEF Parsing
  <1> QED BY <1>1, <1>2, <1>3 DEF Parsing

\* Without holes, parse_header makes no segments.
LEMMA NoSegments ==
  ASSUME NEW size
  PROVE  SegmentsFrom(<<>>, size) = <<>>
  <1> DEFINE start(i) == IF i = 1 THEN 0 ELSE <<>>[i - 1].to
             all == [i \in 1..Len(<<>>) |->
                       DataBefore(start(i), <<>>[i]) \o <<HoleSeg(<<>>[i].to - <<>>[i].from)>>]
  <1>1. SegmentsFrom(<<>>, size) = FlattenSeq(all)
    BY DEF SegmentsFrom
  <1>2. all = <<>>
    OBVIOUS
  <1> QED BY <1>1, <1>2, FlattenEmpty

\* The segments the writer works with are those of the file.
LEMMA WriterSegments ==
  ASSUME NEW E, NEW e \in E, IsFile(e)
  PROVE  /\ SegmentsFrom(Holes(e.segs), e.size) = IF Holes(e.segs) = <<>> THEN <<>> ELSE e.segs
         /\ e.size = 0 => Holes(e.segs) = <<>>
         /\ Holes(e.segs) # <<>> => /\ e.segs # <<>> /\ Alternating(e.segs)
                                    /\ SegStart(e.segs, Len(e.segs) + 1) = e.size
  <1>1. e.kind = "file" /\ e.size \in Nat /\ e.segs \in Seq(Segment)
    BY DEF IsFile
  <1>2. ASSUME e.segs = <<>>
        PROVE  Holes(e.segs) = <<>>
    <2>1. [i \in 1..Len(<<>>) |-> HoleAt(<<>>, i)] = <<>>
      OBVIOUS
    <2> QED BY <1>2, <2>1, FlattenEmpty DEF Holes
  <1>3. ASSUME e.segs # <<>>
        PROVE  SegStart(e.segs, Len(e.segs) + 1) = e.size /\ Alternating(e.segs) /\ e.size # 0
    <2>1. SegStart(e.segs, Len(e.segs) + 1) = e.size /\ Alternating(e.segs)
      BY <1>1, <1>3 DEF IsFile, IsTruthful
    <2>2. PICK n : n = Len(e.segs)
      OBVIOUS
    <2>3. n \in 1..n
      BY <1>1, <1>3, <2>2
    <2>4. n \in 1..(n + 1)
      BY <2>3
    <2>5. SegStart(e.segs, n) \in Nat /\ e.segs[n].len \in Nat \ {0}
          /\ SegStart(e.segs, n + 1) = SegStart(e.segs, n) + e.segs[n].len
      BY <1>1, <2>2, <2>3, <2>4, Starts
    <2> QED BY <2>1, <2>2, <2>5
  <1>4. CASE Holes(e.segs) = <<>>
    BY <1>4, NoSegments
  <1>5. CASE Holes(e.segs) # <<>>
    <2>1. e.segs # <<>>
      BY <1>2, <1>5
    <2> QED BY <1>1, <1>3, <1>5, <2>1, SegmentsBack
  <1> QED BY <1>4, <1>5

\* The file of an entry is opened.
LEMMA OpenParses ==
  ASSUME Given, TruthfulArchives, archive' = archive, NEW k \in 1..N, archive[k].kind = "file",
         Here(DataAt(k))', fileSize' = archive[k].size, segIndex' = 1, dataSize' = 0,
         segments' = SegmentsFrom(Holes(archive[k].segs), archive[k].size)
  PROVE  InPlain(k, archive[k])' \/ InSparse(k, archive[k])'
  <1>1. PICK e : e = archive[k]
    OBVIOUS
  <1>2. e \in Entries /\ IsFile(e) /\ e.size \in Nat /\ e.segs \in Seq(Segment)
    BY <1>1, FileFacts DEF IsFile
  <1>3. DataAt(k)' = DataAt(k) /\ DataAt(k) \in Nat
    BY EntryEnd DEF DataAt
  <1>4. Offset(e)' = 0
    BY <1>1, <1>2 DEF Offset
  <1>5. CASE Holes(e.segs) = <<>>
    <2>1. segments' = <<>>
      BY <1>1, <1>2, <1>5, WriterSegments
    <2>2. DataAt(k)' + Offset(e)' = DataAt(k)'
      BY <1>3, <1>4
    <2>3. InPlain(k, e)'
      BY <1>5, <2>1, <2>2 DEF InPlain
    <2> QED BY <1>1, <2>3
  <1>6. CASE Holes(e.segs) # <<>>
    <2>1. segments' = e.segs /\ e.segs # <<>> /\ SegStart(e.segs, Len(e.segs) + 1) = e.size
          /\ e.size # 0
      BY <1>1, <1>2, <1>6, WriterSegments
    <2>2. 1 \in 1..Len(e.segs)
      BY <1>2, <2>1
    <2>3. e.segs[1].len \in Nat /\ SegStart(e.segs, 1) = 0
      BY <1>2, <2>2, Starts
    <2>4. EndOf(SegData(e), 0) = 0
      BY <1>2, <1>6, SparseFacts
    <2>5. InSegment' = 0
      BY DEF InSegment
    <2>6. DataAt(k)' + (EndOf(SegData(e), 1 - 1) + InSegment') = DataAt(k)'
      BY <1>3, <2>4, <2>5
    <2>7. fileSize' > 0
      BY <1>1, <1>2, <2>1
    <2>8. InSparse(k, e)'
      BY <1>4, <1>6, <2>1, <2>2, <2>3, <2>5, <2>6, <2>7 DEF InSparse
    <2> QED BY <1>1, <2>8
  <1> QED BY <1>5, <1>6

\* The header that is read is that of the next entry.
LEMMA HeaderRead ==
  ASSUME Given, NEW k, Parsing(k), TakeHeader
  PROVE  /\ k \in 0..(N - 1) /\ k + 1 \in 1..N /\ AtHeader(k) /\ EvalHeader(archive[k + 1])
         /\ Here(DataAt(k + 1))'
  <1>1. AtHeader(k)
    <2>1. ~InData(k)
      BY InFileFacts DEF TakeHeader
    <2>2. ~AtLength(k)
      BY DEF TakeHeader, AtLength
    <2> QED BY <2>1, <2>2 DEF Parsing
  <1>2. PICK w, pos, b, e : w = Stream(archive) /\ pos = Begin(archive, k) /\ e = archive[k + 1]
                            /\ b = SubSeq(bufOut, 1, HeaderLen)
    OBVIOUS
  <1>3. k \in 0..(N - 1) /\ N \in Nat
    BY <1>1, ArchiveFacts DEF Given, AtHeader, N
  <1>4. w \in Seq(UnitSet(Entries)) /\ At(w, pos + 1, bufOut, rest)
    BY <1>1, <1>2, StreamFacts DEF Given, AtHeader, Here, Entries
  <1>5. Begin(archive, k) \in 0..Len(Stream(archive))
    BY <1>3, StreamFacts DEF Given, N
  <1>6. pos \in Nat
    BY <1>2, <1>5
  <1>7. \A j \in 1..(HeaderLen + 1) : w[pos + j] = [of |-> e, part |-> "header", at |-> j - 1]
    BY <1>2, <1>3, StreamFacts DEF Given, N
  <1>8. bufOut \in Seq(UnitSet(Entries)) /\ Len(bufOut) \in Nat
        /\ \A j \in 1..Len(bufOut) : bufOut[j] = w[pos + 1 + j]
    BY <1>4, AtFacts
  <1>9. HeaderLen \in 1..Len(bufOut) /\ HeaderLen \in 0..Len(bufOut)
    BY <1>8, FormatAssumption DEF TakeHeader
  <1>10. \A j \in 1..HeaderLen : bufOut[j] = [of |-> e, part |-> "header", at |-> j]
    <2> SUFFICES ASSUME NEW j \in 1..HeaderLen
                 PROVE  bufOut[j] = [of |-> e, part |-> "header", at |-> j]
      OBVIOUS
    <2>1. j \in 1..Len(bufOut) /\ 1 + j \in 1..(HeaderLen + 1) /\ pos + 1 + j = pos + (1 + j)
          /\ (1 + j) - 1 = j
      BY <1>6, <1>8, <1>9
    <2> QED BY <1>7, <1>8, <2>1
  <1>11. b \in Seq(UnitSet(Entries)) /\ Len(b) = HeaderLen /\ \A j \in 1..HeaderLen : b[j] = bufOut[j]
    BY <1>2, <1>8, <1>9, FirstElements
  <1>12. e \in Entries /\ e.kind \in Kinds /\ e.size \in Nat /\ e.segs \in Seq(Segment)
    <2>1. k + 1 \in 1..N
      BY <1>3
    <2> QED BY <1>2, <2>1, ArchiveFacts DEF Given, N, Entries
  <1>13. b = Drop(HeaderUnits(e), 1)
    <2>1. PICK h, d : h = HeaderUnits(e) /\ d = Drop(h, 1)
      OBVIOUS
    <2>2. h \in Seq(UnitSet(Entries)) /\ Len(h) = HeaderLen + 1
          /\ \A j \in 1..(HeaderLen + 1) : h[j] = [of |-> e, part |-> "header", at |-> j - 1]
      BY <1>12, <2>1, EntryUnits
    <2>3. PICK l : l = HeaderLen + 1
      OBVIOUS
    <2>4. l \in 0..Len(h) /\ 1 \in 0..l /\ l - 1 = HeaderLen /\ d = SubSeq(h, 1 + 1, l)
      BY <2>1, <2>2, <2>3, FormatAssumption DEF Drop
    <2>5. d \in Seq(UnitSet(Entries)) /\ Len(d) = l - 1 /\ \A j \in 1..(l - 1) : d[j] = h[1 + j]
      BY <2>2, <2>4, PieceAt
    <2>6. ASSUME NEW j \in 1..HeaderLen
          PROVE  b[j] = d[j]
      <3>1. 1 + j \in 1..(HeaderLen + 1) /\ (1 + j) - 1 = j
        BY FormatAssumption
      <3> QED BY <1>10, <1>11, <2>2, <2>4, <2>5, <3>1
    <2>7. Len(b) = Len(d) /\ \A j \in 1..Len(b) : b[j] = d[j]
      BY <1>11, <2>4, <2>5, <2>6
    <2>8. b = d
      BY ONLY <1>11, <2>5, <2>7, SameSequence
    <2> QED BY <2>1, <2>8
  <1>14. bufOut[1].of = e /\ b[1].of = e
    <2>1. 1 \in 1..HeaderLen
      BY FormatAssumption
    <2>2. bufOut[1] = [of |-> e, part |-> "header", at |-> 1] /\ b[1] = bufOut[1]
      BY <1>10, <1>11, <2>1
    <2> QED BY <2>2
  <1>15. IsHeader(b)
    BY <1>13, <1>14 DEF IsHeader
  <1>16. EvalHeader(e)
    BY <1>2, <1>14, <1>15 DEF TakeHeader
  <1>17. At(w, pos + 1 + HeaderLen, Drop(bufOut, HeaderLen), rest)
    BY <1>4, <1>9, AtTake
  <1>18. DataAt(k + 1) = pos + 1 + HeaderLen
    <2>1. (k + 1) - 1 = k
      BY <1>3
    <2>2. DataAt(k + 1) = pos + (HeaderLen + 1)
      BY <1>2, <2>1 DEF DataAt
    <2> QED BY <1>6, <2>2, FormatAssumption
  <1>19. Here(DataAt(k + 1))'
    <2>1. archive' = archive /\ bufOut' = Drop(bufOut, HeaderLen) /\ rest' = rest
      BY DEF TakeHeader, fixed
    <2>2. DataAt(k + 1)' = DataAt(k + 1)
      BY <2>1 DEF DataAt
    <2> QED BY <1>2, <1>17, <1>18, <2>1, <2>2 DEF Here
  <1> QED BY <1>1, <1>2, <1>3, <1>16, <1>19

\* After a header comes the data of its entry, or the next length field.
LEMMA HeaderParses ==
  ASSUME Given, TruthfulArchives, NEW k, Parsing(k), TakeHeader, phase' # "err"
  PROVE  Parsing(k + 1)'
  <1>1. PICK i, e : i = k + 1 /\ e = archive[i]
    OBVIOUS
  <1>2. i \in 1..N /\ AtHeader(k) /\ EvalHeader(e) /\ Here(DataAt(i))'
    BY <1>1, HeaderRead
  <1>3. archive' = archive /\ list' = list /\ headerKnown' = FALSE /\ phase = "loop"
    BY DEF TakeHeader, fixed
  <1>4. Idle
    BY <1>2 DEF AtHeader
  <1>5. e.kind \in Kinds /\ e.size \in Nat
    BY <1>1, <1>2, ArchiveFacts DEF Given, N
  <1>6. ASSUME e.kind # "file" \/ e.size = 0, Idle', phase' = phase
        PROVE  AtLength(i)'
    <2>1. Len(Data(e)) = 0
      <3>1. CASE e.kind # "file"
        BY <3>1 DEF Data
      <3>2. CASE e.kind = "file" /\ e.size = 0
        <4>1. e \in Entries /\ IsFile(e)
          BY <1>1, <1>2, <3>2, FileFacts
        <4>2. Data(e) = Content(e)
          BY <3>2, <4>1, WriterSegments, PlainFacts
        <4> QED BY <1>5, <3>2, <4>1, <4>2, ContentFacts
      <3> QED BY <1>6, <3>1, <3>2
    <2>2. Begin(archive, i) = DataAt(i)
      BY <1>1, <1>2, <2>1, EntryEnd
    <2>3. Here(Begin(archive, i))'
      <3>1. Begin(archive, i)' = DataAt(i)'
        BY <1>3, <2>2 DEF DataAt
      <3> QED BY <1>2, <3>1
    <2>4. i \in 0..N
      BY <1>2
    <2> QED BY <1>3, <1>6, <2>3, <2>4 DEF AtLength, N
  <1>7. ASSUME e.kind = "file", fileSize' = e.size, segIndex' = 1, dataSize' = 0, phase' = phase,
               segments' = SegmentsFrom(Holes(e.segs), e.size),
               fOut' = (IF list THEN NoPath ELSE e.path), list => e.size # 0
        PROVE  InData(i)'
    <2>1. InPlain(i, e)' \/ InSparse(i, e)'
      BY <1>1, <1>2, <1>3, <1>7, OpenParses
    <2>2. fileSize' \in 0..e.size /\ (list' => fileSize' > 0)
      BY <1>3, <1>5, <1>7
    <2> QED BY <1>1, <1>2, <1>3, <1>7, <2>1, <2>2 DEF InData, N
  <1>8. CASE EvalConflict(e) \/ EvalDenied(e)
    BY <1>8 DEF EvalConflict, EvalDenied, Refuse
  <1>9. CASE EvalHardlink(e) \/ EvalDirectory(e) \/ EvalSymlink(e)
    <2>1. Idle' /\ phase' = phase /\ e.kind # "file"
      BY <1>4, <1>9 DEF EvalHardlink, EvalDirectory, EvalSymlink, Idle, fileVars
    <2> QED BY <1>1, <1>6, <2>1 DEF Parsing
  <1>10. CASE EvalList(e)
    <2>1. phase' = phase /\ fOut' = NoPath /\ segIndex' = 1 /\ dataSize' = 0 /\ list
      BY <1>4, <1>10 DEF EvalList, Idle
    <2>2. CASE e.kind # "file"
      <3>1. Idle'
        BY <1>4, <1>10, <2>1, <2>2 DEF EvalList, Idle
      <3> QED BY <1>1, <1>6, <2>1, <2>2, <3>1 DEF Parsing
    <2>3. CASE e.kind = "file"
      <3>1. fileSize' = e.size /\ segments' = SegmentsFrom(Holes(e.segs), e.size)
        BY <1>10, <2>3 DEF EvalList
      <3>2. CASE e.size = 0
        <4>1. e \in Entries /\ IsFile(e)
          BY <1>1, <1>2, <2>3, FileFacts
        <4>2. segments' = <<>>
          BY <3>1, <3>2, <4>1, WriterSegments
        <4>3. Idle'
          BY <2>1, <3>1, <3>2, <4>2 DEF Idle
        <4> QED BY <1>1, <1>6, <2>1, <3>2, <4>3 DEF Parsing
      <3>3. CASE e.size # 0
        BY <1>1, <1>7, <2>1, <2>3, <3>1, <3>3 DEF Parsing
      <3> QED BY <3>2, <3>3
    <2> QED BY <2>2, <2>3
  <1>11. CASE EvalFile(e)
    <2>1. /\ phase' = phase /\ fOut' = e.path /\ segIndex' = 1 /\ dataSize' = 0 /\ ~list
          /\ e.kind = "file" /\ fileSize' = e.size
      BY <1>4, <1>11 DEF EvalFile, Idle
    <2>2. segments' = SegmentsFrom(Holes(e.segs), e.size)
      <3>1. CASE Holes(e.segs) = <<>>
        BY <1>4, <1>11, <3>1, NoSegments DEF EvalFile, Idle
      <3>2. CASE Holes(e.segs) # <<>>
        BY <1>11, <3>2 DEF EvalFile
      <3> QED BY <3>1, <3>2
    <2> QED BY <1>1, <1>7, <2>1, <2>2 DEF Parsing
  <1> QED BY <1>2, <1>8, <1>9, <1>10, <1>11 DEF EvalHeader

\* Data were written: what the file has is more of its content.
Wrote(k) ==
  /\ Offset(archive[k]) \in 0..archive[k].size
  /\ Offset(archive[k])' \in Offset(archive[k])..archive[k].size
  /\ \E f :
       /\ f = IF list THEN fs
              ELSE [fs EXCEPT ![fOut].content =
                      @ \o SubSeq(Content(archive[k]), Offset(archive[k]) + 1, Offset(archive[k])')]
       /\ \/ fOut' = NoPath /\ Offset(archive[k])' = archive[k].size /\ fs' = Closed(f)
          \/ fOut' = fOut /\ InData(k)' /\ fs' = f

\* The units at the place of data are the next ones of the content.
LEMMA ContentSeen ==
  ASSUME Given, TruthfulArchives, NEW k \in 1..N, archive[k].kind = "file",
         NEW o \in Nat, NEW p \in Nat, Here(DataAt(k) + p), NEW n \in 0..Len(bufOut),
         p + n <= Len(Data(archive[k])), o + n <= archive[k].size,
         \A j \in 1..n : Content(archive[k])[o + j] = Data(archive[k])[p + j]
  PROVE  SubSeq(bufOut, 1, n) = SubSeq(Content(archive[k]), o + 1, o + n)
  <1>1. PICK e, b, c, S : /\ e = archive[k] /\ b = SubSeq(bufOut, 1, n)
                          /\ c = SubSeq(Content(e), o + 1, o + n) /\ S = ContentSet(Entries)
    OBVIOUS
  <1>2. e \in Entries /\ e.size \in Nat
    BY <1>1, FileFacts DEF IsFile
  <1>3. b \in Seq(UnitSet(Entries)) /\ Len(b) = n /\ \A j \in 1..n : b[j] = Data(e)[p + j]
    BY <1>1, DataSeen
  <1>4. b \in Seq(S)
    <2>1. UnitSet(Entries) \subseteq S
      BY <1>1 DEF ContentSet
    <2> QED BY <1>3, <2>1, SeqMonotonic
  <1>5. Content(e) \in Seq(S) /\ Len(Content(e)) = e.size
    BY <1>1, <1>2, ContentFacts
  <1>6. n \in Nat
    BY <1>3
  <1>7. PICK m : m = o + n
    OBVIOUS
  <1>8. m \in 0..Len(Content(e)) /\ o \in 0..m /\ m - o = n /\ c = SubSeq(Content(e), o + 1, m)
    BY <1>1, <1>2, <1>5, <1>6, <1>7
  <1>9. c \in Seq(S) /\ Len(c) = m - o /\ \A j \in 1..(m - o) : c[j] = Content(e)[o + j]
    BY ONLY <1>5, <1>8, PieceAt
  <1>10. Len(b) = Len(c)
    BY ONLY <1>3, <1>8, <1>9
  <1>11. \A j \in 1..Len(b) : b[j] = c[j]
    <2>1. ASSUME NEW j \in 1..n
          PROVE  b[j] = c[j]
      <3>1. Content(e)[o + j] = Data(e)[p + j]
        BY <1>1
      <3>2. c[j] = Content(e)[o + j]
        BY <1>8, <1>9
      <3> QED BY <1>3, <3>1, <3>2
    <2> QED BY <1>3, <2>1
  <1>12. b = c
    BY ONLY <1>4, <1>9, <1>10, <1>11, SameSequence
  <1> QED BY <1>1, <1>12

\* The place moves on with the units that are taken.
LEMMA HereOn ==
  ASSUME Given, NEW pos, Here(pos), NEW n \in 0..Len(bufOut), archive' = archive, rest' = rest,
         bufOut' = Drop(bufOut, n)
  PROVE  Here(pos + n)' /\ (bufOut' = <<>> <=> n = Len(bufOut)) /\ Len(bufOut) \in Nat
  <1>1. PICK w : w = Stream(archive)
    OBVIOUS
  <1>2. w \in Seq(UnitSet(Entries)) /\ At(w, pos, bufOut, rest)
    BY <1>1, StreamFacts DEF Given, Here, Entries
  <1>3. At(w, pos + n, Drop(bufOut, n), rest) /\ (Drop(bufOut, n) = <<>> <=> n = Len(bufOut))
    BY <1>2, AtTake
  <1>4. Len(bufOut) \in Nat
    BY <1>2, AtFacts
  <1> QED BY <1>1, <1>3, <1>4 DEF Here

\* A file without holes.
LEMMA PlainWrites ==
  ASSUME Given, TruthfulArchives, NEW k, Parsing(k), WritePlain
  PROVE  InData(k) /\ Parsing(k)' /\ Wrote(k)
  <1>1. InData(k)
    BY InFileFacts DEF WritePlain
  <1>2. PICK e, n, o : e = archive[k] /\ n = Lesser(Len(bufOut), fileSize) /\ o = Offset(e)
    OBVIOUS
  <1>3. k \in 1..N /\ e.kind = "file" /\ headerKnown = FALSE /\ fileSize \in 0..e.size
        /\ fOut = (IF list THEN NoPath ELSE e.path) /\ (list => fileSize > 0)
    BY <1>1, <1>2 DEF InData
  <1>4. e \in Entries /\ IsFile(e) /\ e.size \in Nat
    BY <1>2, <1>3, FileFacts DEF IsFile
  <1>5. InPlain(k, e)
    <2>1. ~InSparse(k, e)
      BY <1>4, WriterSegments DEF WritePlain, InSparse
    <2> QED BY <1>1, <1>2, <2>1 DEF InData
  <1>6. Data(e) = Content(e) /\ Len(Data(e)) = e.size
    BY <1>4, <1>5, PlainFacts, ContentFacts DEF InPlain
  <1>7. Len(bufOut) \in Nat
    <2>1. Here(DataAt(k) + o)
      BY <1>2, <1>5 DEF InPlain
    <2>2. Stream(archive) \in Seq(UnitSet(Entries)) /\ At(Stream(archive), DataAt(k) + o, bufOut, rest)
      BY <2>1, StreamFacts DEF Given, Here, Entries
    <2> QED BY <2>2, AtFacts
  <1>8. n \in 0..Len(bufOut) /\ n <= fileSize /\ o \in Nat /\ o \in 0..e.size /\ o + n <= e.size
        /\ fileSize' = fileSize - n /\ Offset(e)' = o + n /\ (fileSize' = 0 <=> o + n = e.size)
        /\ fileSize' \in 0..e.size /\ (fileSize' # 0 => n = Len(bufOut))
    <2>1. fileSize' = fileSize - n /\ fileSize \in 0..e.size /\ o = e.size - fileSize
          /\ Offset(e)' = e.size - fileSize'
      BY <1>2, <1>3 DEF WritePlain, WriteData, Offset
    <2> QED BY <1>2, <1>4, <1>7, <2>1 DEF Lesser
  <1>9. /\ archive' = archive /\ list' = list /\ rest' = rest /\ headerKnown' = headerKnown
        /\ segments' = segments /\ segIndex' = segIndex /\ dataSize' = dataSize
        /\ bufOut' = Drop(bufOut, n) /\ segments = <<>>
        /\ phase' = IF bufOut' = <<>> THEN "recv" ELSE phase
        /\ IF fileSize' = 0 THEN fs' = Closed(Written(n)) /\ fOut' = NoPath
                            ELSE fs' = Written(n) /\ fOut' = fOut
    BY <1>2 DEF WritePlain, WriteData, fixed
  <1>10. PICK q : q = DataAt(k) + o + n /\ Here(q)' /\ (bufOut' = <<>> <=> n = Len(bufOut))
    <2>1. PICK pos : pos = DataAt(k) + o
      OBVIOUS
    <2>2. Here(pos)
      BY <1>2, <1>5, <2>1 DEF InPlain
    <2>3. n \in 0..Len(bufOut)
      BY <1>8
    <2>4. archive' = archive /\ rest' = rest /\ bufOut' = Drop(bufOut, n)
      BY <1>9
    <2>5. Here(pos + n)'
      BY <2>2, <2>3, <2>4, HereOn
    <2>6. bufOut' = <<>> <=> n = Len(bufOut)
      BY <2>2, <2>3, <2>4, HereOn
    <2>7. pos + n = DataAt(k) + o + n
      BY <2>1
    <2> QED BY <2>5, <2>6, <2>7
  <1>11. DataAt(k)' = DataAt(k) /\ N' = N /\ Begin(archive, k)' = Begin(archive, k)
    BY <1>9 DEF DataAt, N
  <1>12. DataAt(k) \in Nat /\ Begin(archive, k) = DataAt(k) + e.size
    BY <1>2, <1>3, <1>6, EntryEnd
  <1>13. ASSUME fileSize' = 0
         PROVE  AtLength(k)'
    <2>1. Idle'
      BY <1>5, <1>9, <1>13 DEF Idle, InPlain
    <2>2. Here(Begin(archive, k))'
      <3>1. DataAt(k) + o + n = Begin(archive, k)
        BY <1>8, <1>12, <1>13
      <3> QED BY <1>10, <1>11, <3>1
    <2>3. k \in 0..N'
      BY <1>3, <1>11
    <2>5. phase = "loop"
      BY DEF WritePlain
    <2>4. phase' = "recv" => bufOut' = <<>>
      BY <1>9, <2>5
    <2> QED BY <1>3, <1>9, <2>1, <2>2, <2>3, <2>4 DEF AtLength
  <1>14. ASSUME fileSize' # 0
         PROVE  InData(k)'
    <2>1. DataAt(k) + o + n = DataAt(k) + (o + n)
      BY <1>8, <1>12
    <2>2. InPlain(k, e)'
      BY <1>5, <1>8, <1>9, <1>10, <1>11, <2>1 DEF InPlain
    <2>3. bufOut' = <<>> /\ phase' = "recv" /\ fileSize' > 0
      BY <1>8, <1>9, <1>10, <1>14
    <2> QED BY <1>2, <1>3, <1>8, <1>9, <1>11, <1>14, <2>2, <2>3 DEF InData
  <1>15. Written(n) =
           IF list THEN fs
           ELSE [fs EXCEPT ![fOut].content = @ \o SubSeq(Content(e), o + 1, o + n)]
    <2>1. SubSeq(bufOut, 1, n) = SubSeq(Content(e), o + 1, o + n)
      BY <1>2, <1>3, <1>5, <1>6, <1>8, ContentSeen DEF InPlain
    <2>2. fOut = NoPath <=> list
      BY <1>2, <1>3, ArchiveFacts DEF Given, N
    <2> QED BY <2>1, <2>2 DEF Written
  <1>16. o + n \in o..e.size
    BY <1>4, <1>8
  <1>17. Wrote(k)
    BY <1>2, <1>8, <1>9, <1>14, <1>15, <1>16 DEF Wrote
  <1> QED BY <1>1, <1>13, <1>14, <1>17 DEF Parsing

\* What is known where a segment begins or goes on.
LEMMA SegmentFacts ==
  ASSUME Given, TruthfulArchives, NEW k, Parsing(k), InFile, segments # <<>>
  PROVE  /\ k \in 1..N /\ InData(k) /\ InSparse(k, archive[k])
         /\ IsFile(archive[k]) /\ archive[k] \in Entries /\ archive[k].size \in Nat
         /\ Len(archive[k].segs) \in Nat
         /\ archive[k].segs[segIndex].hole \in BOOLEAN /\ archive[k].segs[segIndex].len \in Nat \ {0}
         /\ \A i \in 1..Len(archive[k].segs) :
              /\ archive[k].segs[i].len \in Nat \ {0}
              /\ SegStart(archive[k].segs, i) \in Nat
              /\ SegStart(archive[k].segs, i + 1) = SegStart(archive[k].segs, i) + archive[k].segs[i].len
              /\ SegStart(archive[k].segs, i + 1) <= archive[k].size
         /\ SegStart(archive[k].segs, Len(archive[k].segs) + 1) = archive[k].size
  <1>1. InData(k)
    BY InFileFacts
  <1>2. PICK e, segs : e = archive[k] /\ segs = e.segs
    OBVIOUS
  <1>3. k \in 1..N /\ e.kind = "file"
    BY <1>1, <1>2 DEF InData
  <1>4. e \in Entries /\ IsFile(e)
    BY <1>2, <1>3, FileFacts
  <1>5. InSparse(k, e)
    BY <1>1, <1>2 DEF InData, InPlain
  <1>6. e.size \in Nat /\ segs \in Seq(Segment)
    BY <1>2, <1>4 DEF IsFile
  <1>7. Holes(segs) # <<>> /\ segIndex \in 1..Len(segs)
    BY <1>2, <1>5 DEF InSparse
  <1>8. SegStart(segs, Len(segs) + 1) = e.size
    BY <1>2, <1>4, <1>7, WriterSegments
  <1>9. /\ Len(segs) \in Nat
        /\ \A i \in 1..Len(segs) :
              /\ segs[i].hole \in BOOLEAN /\ segs[i].len \in Nat \ {0}
              /\ SegStart(segs, i + 1) = SegStart(segs, i) + segs[i].len
        /\ \A i \in 1..(Len(segs) + 1) :
              /\ SegStart(segs, i) \in Nat
              /\ \A j \in i..(Len(segs) + 1) : SegStart(segs, i) <= SegStart(segs, j)
    BY <1>6, Starts
  <1>10. ASSUME NEW i \in 1..Len(segs)
         PROVE  SegStart(segs, i) \in Nat /\ SegStart(segs, i + 1) <= e.size
    <2>1. i + 1 \in 1..(Len(segs) + 1) /\ Len(segs) + 1 \in (i + 1)..(Len(segs) + 1)
          /\ i \in 1..(Len(segs) + 1)
      BY <1>9
    <2> QED BY <1>8, <1>9, <2>1
  <1> QED BY <1>1, <1>2, <1>3, <1>4, <1>5, <1>6, <1>7, <1>8, <1>9, <1>10

\* The loop goes on after n bytes of a segment: with the next segment, or with
\* the rest of this one, of size bytes.
LEMMA SegmentOn ==
  ASSUME Given, TruthfulArchives, NEW k, Parsing(k), InFile, segments # <<>>, phase = "loop",
         archive' = archive, list' = list, headerKnown' = headerKnown,
         NEW index, NEW size, NEW f, AfterSegment(index, size, f),
         NEW n \in Nat, fileSize' = fileSize - n,
         \/ index = segIndex + 1 /\ size = 0 /\ InSegment + n = segments[segIndex].len
         \/ /\ index = segIndex /\ size \in 1..segments[segIndex].len
            /\ ~segments[segIndex].hole /\ InSegment + n = segments[segIndex].len - size,
         NEW pos, Here(pos)',
         pos = DataAt(k) + (EndOf(SegData(archive[k]), index - 1)
                            + (IF size = 0 THEN 0 ELSE segments[segIndex].len - size)),
         f = IF list THEN fs
             ELSE [fs EXCEPT ![fOut].content =
                     @ \o SubSeq(Content(archive[k]), Offset(archive[k]) + 1, Offset(archive[k]) + n)]
  PROVE  Parsing(k)' /\ Wrote(k)
  <1>1. PICK e, segs, i, o, m, st : /\ e = archive[k] /\ segs = e.segs /\ i = segIndex
                                    /\ o = Offset(e) /\ m = InSegment
                                    /\ st = SegStart(segs, i)
    OBVIOUS
  <1>2. /\ k \in 1..N /\ InData(k) /\ InSparse(k, e) /\ IsFile(e) /\ e \in Entries /\ e.size \in Nat
        /\ Len(segs) \in Nat /\ segs[i].hole \in BOOLEAN
        /\ \A j \in 1..Len(segs) :
              /\ segs[j].len \in Nat \ {0}
              /\ SegStart(segs, j) \in Nat
              /\ SegStart(segs, j + 1) = SegStart(segs, j) + segs[j].len
              /\ SegStart(segs, j + 1) <= e.size
        /\ SegStart(segs, Len(segs) + 1) = e.size
    BY <1>1, SegmentFacts
  <1>3. /\ Holes(segs) # <<>> /\ segments = segs /\ i \in 1..Len(segs) /\ fileSize > 0
        /\ dataSize \in 0..segs[i].len /\ o = st + m
        /\ e.kind = "file" /\ fOut = (IF list THEN NoPath ELSE e.path) /\ headerKnown = FALSE
        /\ fileSize \in 0..e.size /\ o = e.size - fileSize
    BY <1>1, <1>2 DEF InSparse, InData, Offset
  <1>4. segs[i].len \in Nat \ {0} /\ st \in Nat /\ SegStart(segs, i + 1) = st + segs[i].len
        /\ st + segs[i].len <= e.size
    BY <1>1, <1>2, <1>3
  <1>5. m \in Nat /\ o \in 0..e.size /\ Offset(e)' = o + n /\ fileSize' = e.size - (o + n)
        /\ o + n \in o..e.size /\ fileSize' \in 0..e.size
        /\ \/ index = i + 1 /\ size = 0 /\ o + n = st + segs[i].len
           \/ /\ index = i /\ size \in 1..segs[i].len /\ ~segs[i].hole
              /\ o + n = st + (segs[i].len - size)
    <2>1. m \in Nat
      <3>1. PICK l, d : l = segs[i].len /\ d = dataSize
        OBVIOUS
      <3>2. m = IF d = 0 THEN 0 ELSE l - d
        BY <1>1, <1>3, <3>1 DEF InSegment
      <3>3. l \in Nat /\ d \in 0..l
        BY <1>3, <1>4, <3>1
      <3> QED BY ONLY <3>2, <3>3
    <2>2. Offset(e)' = e.size - fileSize'
      BY DEF Offset
    <2>3. segments[segIndex] = segs[i]
      BY <1>1, <1>3
    <2>4. \/ index = i + 1 /\ size = 0 /\ m + n = segs[i].len
          \/ index = i /\ size \in 1..segs[i].len /\ ~segs[i].hole /\ m + n = segs[i].len - size
      <3>1. CASE index = segIndex + 1 /\ size = 0 /\ InSegment + n = segments[segIndex].len
        BY <1>1, <2>3, <3>1
      <3>2. CASE index = segIndex /\ size \in 1..segments[segIndex].len
                 /\ ~segments[segIndex].hole /\ InSegment + n = segments[segIndex].len - size
        BY <1>1, <2>3, <3>2
      <3> QED BY <3>1, <3>2
    <2>5. PICK l, x, z : l = segs[i].len /\ x = fileSize' /\ z = Offset(e)'
      OBVIOUS
    <2>6. z = e.size - x /\ x = fileSize - n /\ z = o + n
      BY <1>2, <1>3, <2>2, <2>5
    <2>7. st + l <= e.size /\ o = st + m /\ l \in Nat /\ m + n <= l
      BY <1>3, <1>4, <2>1, <2>4, <2>5
    <2>8. o \in 0..e.size /\ x = e.size - (o + n) /\ o + n \in o..e.size /\ x \in 0..e.size
      <3>1. PICK c, y : c = e.size /\ y = fileSize
        OBVIOUS
      <3>2. c \in Nat /\ y \in 0..c /\ o = c - y /\ x = y - n /\ st \in Nat
            /\ st + l <= c /\ o = st + m
        BY <1>2, <1>3, <1>4, <2>6, <2>7, <3>1
      <3>3. o \in 0..c /\ x = c - (o + n) /\ o + n \in o..c /\ x \in 0..c
        BY ONLY <2>1, <2>7, <3>2, n \in Nat
      <3> QED BY <3>1, <3>3
    <2>9. \/ index = i + 1 /\ size = 0 /\ o + n = st + l
          \/ index = i /\ size \in 1..l /\ ~segs[i].hole /\ o + n = st + (l - size)
      BY <1>4, <2>1, <2>4, <2>5, <2>7
    <2> QED BY <2>1, <2>5, <2>6, <2>8, <2>9
  <1>6. DataAt(k)' = DataAt(k) /\ N' = N /\ Begin(archive, k)' = Begin(archive, k)
        /\ Begin(archive, k) = DataAt(k) + Len(Data(e)) /\ DataAt(k) \in Nat /\ Len(Data(e)) \in Nat
    BY <1>1, <1>2, EntryEnd DEF DataAt, N
  <1>7. EndOf(SegData(e), Len(segs)) = Len(Data(e))
    BY <1>1, <1>2, <1>3, SparseFacts
  <1>8. /\ pos = DataAt(k) + (EndOf(SegData(e), index - 1)
                         + (IF size = 0 THEN 0 ELSE segs[i].len - size))
        /\ Here(pos)'
    <2>1. segments[segIndex] = segs[i]
      BY <1>1, <1>3
    <2> QED BY <1>1, <2>1
  <1>9. ASSUME fileSize' = 0
        PROVE  AtLength(k)' /\ fs' = Closed(f) /\ fOut' = NoPath
    <2>1. fs' = Closed(f) /\ fOut' = NoPath /\ Idle' /\ phase' = phase
      BY <1>9 DEF AfterSegment, Idle
    <2>2. o + n = e.size
      BY <1>2, <1>5, <1>9
    <2>3. index = i + 1 /\ size = 0
      <3>1. PICK l, c : l = segs[i].len /\ c = e.size
        OBVIOUS
      <3>2. l \in Nat /\ st \in Nat /\ st + l <= c /\ c \in Nat
        BY <1>2, <1>4, <3>1
      <3>3. ~(size \in 1..l /\ o + n = st + (l - size))
        BY <2>2, <3>1, <3>2
      <3> QED BY <1>5, <3>1, <3>3
    <2>4. i = Len(segs)
      <3>1. ASSUME i # Len(segs)
            PROVE  FALSE
        <4>1. i + 1 \in 1..Len(segs)
          BY <1>2, <1>3, <3>1
        <4>2. SegStart(segs, (i + 1) + 1) = SegStart(segs, i + 1) + segs[i + 1].len
              /\ SegStart(segs, (i + 1) + 1) <= e.size /\ segs[i + 1].len \in Nat \ {0}
          BY <1>2, <4>1
        <4>3. SegStart(segs, i + 1) = e.size
          BY <1>4, <1>5, <2>2, <2>3
        <4> QED BY <1>2, <4>2, <4>3
      <3> QED BY <3>1
    <2>5. pos = Begin(archive, k)
      <3>1. index - 1 = Len(segs)
        BY <1>2, <2>3, <2>4
      <3> QED BY <1>6, <1>7, <1>8, <2>3, <3>1
    <2>6. Here(Begin(archive, k))'
      BY <1>6, <1>8, <2>5
    <2>7. phase' # "recv" /\ headerKnown' = FALSE /\ k \in 0..N'
      BY <1>2, <1>3, <1>6, <2>1
    <2> QED BY <2>1, <2>6, <2>7 DEF AtLength
  <1>10. ASSUME fileSize' # 0
         PROVE  InData(k)' /\ fs' = f /\ fOut' = fOut
    <2>1. /\ fs' = f /\ fOut' = fOut /\ segments' = segs /\ segIndex' = index /\ dataSize' = size
          /\ phase' = IF bufOut' = <<>> /\ index <= Len(segs) /\ ~segs[index].hole
                       THEN "recv" ELSE phase
      BY <1>3, <1>10 DEF AfterSegment
    <2>2. index \in 1..Len(segs) /\ fileSize' > 0
      <3>1. o + n # e.size /\ fileSize' > 0
        <4>1. PICK c, x : c = e.size /\ x = fileSize'
          OBVIOUS
        <4>2. x = c - (o + n) /\ x \in 0..c /\ c \in Nat /\ x # 0 /\ o + n \in o..c /\ o \in 0..c
          BY <1>2, <1>5, <1>10, <4>1
        <4>3. o + n # c /\ x > 0
          BY ONLY <4>2
        <4> QED BY <4>1, <4>3
      <3>2. index = i + 1 => i # Len(segs)
        BY <1>2, <1>4, <1>5, <3>1
      <3>3. index = i \/ index = i + 1
        BY <1>5
      <3>4. i \in 1..Len(segs) /\ Len(segs) \in Nat
        BY <1>2, <1>3
      <3> QED BY <3>1, <3>2, <3>3, <3>4
    <2>3. InSegment' = IF size = 0 THEN 0 ELSE segs[index].len - size
      BY <2>1 DEF InSegment
    <2>4. size \in 0..segs[index].len /\ (size # 0 => index = i /\ ~segs[index].hole)
      <3>1. segs[index].len \in Nat
        BY <1>2, <2>2
      <3>2. CASE index = i + 1 /\ size = 0
        BY <3>1, <3>2
      <3>3. CASE index = i /\ size \in 1..segs[i].len /\ ~segs[i].hole
        BY <3>1, <3>3
      <3> QED BY <1>5, <3>2, <3>3
    <2>5. Offset(e)' = SegStart(segs, index) + InSegment'
      <3>1. CASE index = i + 1 /\ size = 0 /\ o + n = st + segs[i].len
        <4>1. Offset(e)' = SegStart(segs, i + 1) /\ InSegment' = 0
          BY <1>4, <1>5, <2>3, <3>1
        <4>2. SegStart(segs, i + 1) \in Nat
          BY <1>4
        <4> QED BY <3>1, <4>1, <4>2
      <3>2. CASE index = i /\ size \in 1..segs[i].len /\ o + n = st + (segs[i].len - size)
        <4>1. size # 0
          BY <1>4, <3>2
        <4> QED BY <1>1, <1>5, <2>3, <3>2, <4>1
      <3> QED BY <1>5, <3>1, <3>2
    <2>6. pos = DataAt(k) + (EndOf(SegData(e), index - 1) + InSegment')
      BY <1>8, <2>3, <2>4
    <2>7. archive' = archive /\ archive[k] = e
      BY <1>1
    <2>8. InSparse(k, e)'
      <3>1. Here(DataAt(k) + (EndOf(SegData(e), segIndex - 1) + InSegment))'
        BY <1>6, <1>8, <2>1, <2>6
      <3> QED BY <1>1, <1>3, <2>1, <2>2, <2>4, <2>5, <3>1 DEF InSparse
    <2>9. phase' = "recv" => bufOut' = <<>> /\ ~segs[index].hole
      BY <2>1
    <2>10. fOut' = (IF list' THEN NoPath ELSE e.path) /\ headerKnown' = FALSE
      BY <1>3, <2>1
    <2> QED BY <1>2, <1>3, <1>5, <1>6, <2>1, <2>2, <2>7, <2>8, <2>9, <2>10 DEF InData
  <1>11. Wrote(k)
    <2>1. f = IF list THEN fs
              ELSE [fs EXCEPT ![fOut].content = @ \o SubSeq(Content(e), o + 1, Offset(e)')]
      BY <1>1, <1>5
    <2>2. fileSize' = 0 => Offset(e)' = e.size
      BY <1>2, <1>5
    <2> QED BY <1>1, <1>5, <1>9, <1>10, <2>1, <2>2 DEF Wrote
  <1> QED BY <1>9, <1>10, <1>11 DEF Parsing

\* A segment of data.
LEMMA SegmentWrites ==
  ASSUME Given, TruthfulArchives, NEW k, Parsing(k), WriteSegment
  PROVE  InData(k) /\ Parsing(k)' /\ Wrote(k)
  <1>1. InFile /\ segments # <<>> /\ ~segments[segIndex].hole /\ phase = "loop"
    BY DEF WriteSegment
  <1>2. PICK e, segs, i, o, m : /\ e = archive[k] /\ segs = e.segs /\ i = segIndex
                                /\ o = Offset(e) /\ m = InSegment
    OBVIOUS
  <1>3. /\ k \in 1..N /\ InData(k) /\ InSparse(k, e) /\ IsFile(e) /\ e \in Entries /\ e.size \in Nat
        /\ Len(segs) \in Nat
        /\ \A j \in 1..Len(segs) :
              /\ segs[j].len \in Nat \ {0}
              /\ SegStart(segs, j) \in Nat
              /\ SegStart(segs, j + 1) = SegStart(segs, j) + segs[j].len
              /\ SegStart(segs, j + 1) <= e.size
    BY <1>1, <1>2, SegmentFacts
  <1>4. PICK st, l, d : st = SegStart(segs, i) /\ l = segs[i].len /\ d = EndOf(SegData(e), i - 1)
    OBVIOUS
  <1>5. /\ Holes(segs) # <<>> /\ segments = segs /\ i \in 1..Len(segs) /\ segs[i] = segments[segIndex]
        /\ dataSize \in 0..l /\ o = st + m /\ Here(DataAt(k) + (d + m))
        /\ m = (IF dataSize = 0 THEN 0 ELSE l - dataSize) /\ ~segs[i].hole
    BY <1>1, <1>2, <1>3, <1>4 DEF InSparse, InSegment
  <1>6. l \in Nat \ {0} /\ st \in Nat /\ st + l <= e.size
    BY <1>3, <1>4, <1>5
  <1>7. PICK size : size = IF dataSize = 0 THEN l ELSE dataSize
    OBVIOUS
  <1>8. size \in 1..l /\ m = l - size
    BY <1>5, <1>6, <1>7
  <1>9. Len(bufOut) \in Nat
    <2>1. Stream(archive) \in Seq(UnitSet(Entries))
          /\ At(Stream(archive), DataAt(k) + (d + m), bufOut, rest)
      BY <1>5, StreamFacts DEF Given, Here, Entries
    <2> QED BY <2>1, AtFacts
  <1>10. PICK n : n = Lesser(Len(bufOut), size)
    OBVIOUS
  <1>11. n \in 0..Len(bufOut) /\ n \in 0..size /\ (n # size => n = Len(bufOut)) /\ n \in Nat
    BY <1>8, <1>9, <1>10 DEF Lesser
  <1>12. PICK index, left : index = (IF size = n THEN i + 1 ELSE i) /\ left = size - n
    OBVIOUS
  <1>13. /\ bufOut' = Drop(bufOut, n) /\ fileSize' = fileSize - n
         /\ AfterSegment(index, left, Written(n))
         /\ archive' = archive /\ list' = list /\ rest' = rest /\ headerKnown' = headerKnown
    BY <1>2, <1>4, <1>5, <1>7, <1>10, <1>12 DEF WriteSegment, WriteData, fixed
  <1>14. d \in Nat /\ d + l <= Len(Data(e)) /\ Len(Data(e)) \in Nat /\ EndOf(SegData(e), i) = d + l
         /\ \A j \in 1..l : Content(e)[st + j] = Data(e)[d + j]
    <2>1. /\ \A j \in 0..Len(segs) : EndOf(SegData(e), j) \in 0..Len(Data(e))
          /\ EndOf(SegData(e), i) = d + l
          /\ \A j \in 1..l : Content(e)[st + j] = Data(e)[d + j]
      <3>1. /\ EndOf(SegData(e), 0) = 0 /\ EndOf(SegData(e), Len(e.segs)) = Len(Data(e))
            /\ \A g \in 0..Len(e.segs) : EndOf(SegData(e), g) \in 0..Len(Data(e))
            /\ \A g \in 1..Len(e.segs) :
                 /\ EndOf(SegData(e), g) =
                      EndOf(SegData(e), g - 1) + (IF e.segs[g].hole THEN 0 ELSE e.segs[g].len)
                 /\ \A j \in 1..e.segs[g].len :
                      /\ SegStart(e.segs, g) + j \in 1..e.size
                      /\ Content(e)[SegStart(e.segs, g) + j] =
                           IF e.segs[g].hole THEN Zero
                                             ELSE Data(e)[EndOf(SegData(e), g - 1) + j]
        <4>1. e \in Entries /\ IsFile(e) /\ Holes(e.segs) # <<>>
          BY <1>2, <1>3, <1>5
        <4> QED BY ONLY <4>1, SparseFacts
      <3>2. i \in 1..Len(e.segs) /\ e.segs[i].len = l /\ ~e.segs[i].hole
            /\ EndOf(SegData(e), i - 1) = d /\ SegStart(e.segs, i) = st
        BY <1>2, <1>4, <1>5
      <3> QED BY ONLY <1>2, <3>1, <3>2
    <2>2. i \in 0..Len(segs) /\ i - 1 \in 0..Len(segs)
      BY <1>3, <1>5
    <2>3. Len(Data(e)) \in Nat
      BY <1>2, <1>3, EntryEnd
    <2> QED BY <1>4, <2>1, <2>2, <2>3
  <1>15. SubSeq(bufOut, 1, n) = SubSeq(Content(e), o + 1, o + n)
    <2>1. PICK p : p = d + m
      OBVIOUS
    <2>2. m \in Nat /\ m + n <= l /\ p \in Nat /\ p + n <= Len(Data(e))
          /\ o \in Nat /\ o + n <= e.size
      <3>1. PICK c, x : c = e.size /\ x = Len(Data(e))
        OBVIOUS
      <3>2. l \in Nat /\ st \in Nat /\ st + l <= c /\ c \in Nat /\ size \in 1..l /\ m = l - size
            /\ n \in 0..size /\ d \in Nat /\ d + l <= x /\ x \in Nat /\ o = st + m /\ p = d + m
        BY <1>3, <1>5, <1>6, <1>8, <1>11, <1>14, <2>1, <3>1
      <3>3. m \in Nat /\ m + n <= l /\ p \in Nat /\ p + n <= x /\ o \in Nat /\ o + n <= c
        BY ONLY <3>2
      <3> QED BY <3>1, <3>3
    <2>3. ASSUME NEW j \in 1..n
          PROVE  Content(e)[o + j] = Data(e)[p + j]
      <3>1. /\ m \in Nat /\ m + n <= l /\ l \in Nat /\ st \in Nat /\ d \in Nat /\ n \in Nat
            /\ o = st + m /\ p = d + m
        BY <1>5, <1>6, <1>8, <1>11, <1>14, <2>1, <2>2
      <3>2. m + j \in 1..l /\ o + j = st + (m + j) /\ p + j = d + (m + j)
        BY ONLY <2>3, <3>1
      <3> QED BY <1>14, <3>2
    <2>4. e.kind = "file" /\ Here(DataAt(k) + p)
      BY <1>3, <1>5, <2>1 DEF IsFile
    <2>5. archive[k].kind = "file" /\ k \in 1..N /\ o \in Nat /\ p \in Nat /\ n \in 0..Len(bufOut)
          /\ p + n <= Len(Data(archive[k])) /\ o + n <= archive[k].size
          /\ \A j \in 1..n : Content(archive[k])[o + j] = Data(archive[k])[p + j]
      BY <1>2, <1>3, <1>11, <2>2, <2>3, <2>4
    <2>6. SubSeq(bufOut, 1, n) = SubSeq(Content(archive[k]), o + 1, o + n)
      BY <2>4, <2>5, ContentSeen
    <2> QED BY <1>2, <2>6
  <1>16. Written(n) =
           IF list THEN fs
           ELSE [fs EXCEPT ![fOut].content = @ \o SubSeq(Content(e), o + 1, o + n)]
    <2>1. fOut = NoPath <=> list
      BY <1>2, <1>3, ArchiveFacts DEF Given, N, InData
    <2> QED BY <1>15, <2>1 DEF Written
  <1>17. \/ index = i + 1 /\ left = 0 /\ m + n = l
         \/ index = i /\ left \in 1..l /\ m + n = l - left
    BY <1>6, <1>8, <1>11, <1>12
  <1>18. PICK pos : pos = DataAt(k) + (EndOf(SegData(e), index - 1) + (IF left = 0 THEN 0 ELSE l - left))
    OBVIOUS
  <1>19. Here(pos)'
    <2>1. PICK q, w : q = DataAt(k) + (d + m) /\ w = DataAt(k)
      OBVIOUS
    <2>2. Here(q + n)'
      BY <1>5, <1>11, <1>13, <2>1, HereOn
    <2>3. w \in Nat
      BY <1>3, <2>1, EntryEnd
    <2>4. pos = w + (d + (m + n))
      <3>1. CASE index = i + 1 /\ left = 0 /\ m + n = l
        <4>1. index - 1 = i
          BY <1>3, <1>5, <3>1
        <4> QED BY <1>6, <1>14, <1>18, <2>1, <3>1, <4>1
      <3>2. CASE index = i /\ left \in 1..l /\ m + n = l - left
        <4>1. left # 0
          BY <1>6, <3>2
        <4> QED BY <1>4, <1>18, <2>1, <3>2, <4>1
      <3> QED BY <1>17, <3>1, <3>2
    <2>5. q + n = w + (d + (m + n))
      <3>1. m \in Nat
        BY <1>6, <1>8
      <3> QED BY ONLY <1>11, <1>14, <2>1, <2>3, <3>1
    <2> QED BY <2>2, <2>4, <2>5
  <1>20. \/ index = segIndex + 1 /\ left = 0 /\ InSegment + n = segments[segIndex].len
         \/ /\ index = segIndex /\ left \in 1..segments[segIndex].len
            /\ ~segments[segIndex].hole /\ InSegment + n = segments[segIndex].len - left
    BY <1>2, <1>4, <1>5, <1>17
  <1>21. pos = DataAt(k) + (EndOf(SegData(archive[k]), index - 1)
                            + (IF left = 0 THEN 0 ELSE segments[segIndex].len - left))
    BY <1>2, <1>4, <1>5, <1>18
  <1>22. PICK f : f = Written(n)
    OBVIOUS
  <1>23. f = IF list THEN fs
             ELSE [fs EXCEPT ![fOut].content =
                     @ \o SubSeq(Content(archive[k]), Offset(archive[k]) + 1, Offset(archive[k]) + n)]
    BY <1>2, <1>16, <1>22
  <1>24. AfterSegment(index, left, f)
    BY <1>13, <1>22
  <1>25. Parsing(k)' /\ Wrote(k)
    BY <1>1, <1>11, <1>13, <1>19, <1>20, <1>21, <1>23, <1>24, SegmentOn
  <1> QED BY <1>3, <1>25

\* A hole.
LEMMA HoleWrites ==
  ASSUME Given, TruthfulArchives, NEW k, Parsing(k), WriteHole
  PROVE  InData(k) /\ Parsing(k)' /\ Wrote(k)
  <1>1. InFile /\ segments # <<>> /\ segments[segIndex].hole /\ phase = "loop"
    BY DEF WriteHole
  <1>2. PICK e, segs, i, o, m : /\ e = archive[k] /\ segs = e.segs /\ i = segIndex
                                /\ o = Offset(e) /\ m = InSegment
    OBVIOUS
  <1>3. /\ k \in 1..N /\ InData(k) /\ InSparse(k, e) /\ IsFile(e) /\ e \in Entries /\ e.size \in Nat
        /\ Len(segs) \in Nat
        /\ \A j \in 1..Len(segs) :
              /\ segs[j].len \in Nat \ {0}
              /\ SegStart(segs, j) \in Nat
              /\ SegStart(segs, j + 1) = SegStart(segs, j) + segs[j].len
              /\ SegStart(segs, j + 1) <= e.size
    BY <1>1, <1>2, SegmentFacts
  <1>4. PICK n : n = segs[i].len
    OBVIOUS
  <1>5. /\ Holes(segs) # <<>> /\ segments = segs /\ i \in 1..Len(segs) /\ segs[i] = segments[segIndex]
        /\ dataSize = 0 /\ m = 0 /\ segs[i].hole
        /\ o = SegStart(segs, i) + 0 /\ Here(DataAt(k) + (EndOf(SegData(e), i - 1) + 0))
    BY <1>1, <1>2, <1>3 DEF InSparse, InSegment
  <1>6. n \in Nat /\ SegStart(segs, i) \in Nat /\ SegStart(segs, i) + n <= e.size
    BY <1>3, <1>4, <1>5
  <1>7. o = SegStart(segs, i) /\ o \in Nat /\ o + n \in 0..e.size /\ o \in 0..(o + n)
    BY <1>3, <1>5, <1>6
  <1>8. /\ EndOf(SegData(e), i) = EndOf(SegData(e), i - 1) + 0
        /\ EndOf(SegData(e), i) \in Nat
        /\ \A j \in 1..n : Content(e)[o + j] = Zero
    <2>1. /\ EndOf(SegData(e), i) = EndOf(SegData(e), i - 1) + 0
          /\ \A j \in 1..n : Content(e)[o + j] = Zero
      <3>1. /\ EndOf(SegData(e), 0) = 0 /\ EndOf(SegData(e), Len(e.segs)) = Len(Data(e))
            /\ \A g \in 0..Len(e.segs) : EndOf(SegData(e), g) \in 0..Len(Data(e))
            /\ \A g \in 1..Len(e.segs) :
                 /\ EndOf(SegData(e), g) =
                      EndOf(SegData(e), g - 1) + (IF e.segs[g].hole THEN 0 ELSE e.segs[g].len)
                 /\ \A j \in 1..e.segs[g].len :
                      /\ SegStart(e.segs, g) + j \in 1..e.size
                      /\ Content(e)[SegStart(e.segs, g) + j] =
                           IF e.segs[g].hole THEN Zero
                                             ELSE Data(e)[EndOf(SegData(e), g - 1) + j]
        <4>1. e \in Entries /\ IsFile(e) /\ Holes(e.segs) # <<>>
          BY <1>2, <1>3, <1>5
        <4> QED BY ONLY <4>1, SparseFacts
      <3>2. i \in 1..Len(e.segs) /\ e.segs[i].len = n /\ e.segs[i].hole /\ SegStart(e.segs, i) = o
        BY <1>2, <1>4, <1>5, <1>7
      <3> QED BY ONLY <3>1, <3>2
    <2>2. i \in 0..Len(segs) /\ Len(Data(e)) \in Nat
      BY <1>2, <1>3, <1>5, EntryEnd
    <2>3. EndOf(SegData(e), i) \in 0..Len(Data(e))
      BY <1>2, <1>3, <1>5, <2>2, SparseFacts
    <2> QED BY <2>1, <2>2, <2>3
  <1>9. HoleContent(n) = SubSeq(Content(e), o + 1, o + n)
    <2>1. PICK b, c, S : b = HoleContent(n) /\ c = SubSeq(Content(e), o + 1, o + n)
                         /\ S = ContentSet(Entries)
      OBVIOUS
    <2>2. Content(e) \in Seq(S) /\ Len(Content(e)) = e.size
      BY <1>3, <2>1, ContentFacts
    <2>3. PICK z : z = o + n
      OBVIOUS
    <2>4. z \in 0..Len(Content(e)) /\ o \in 0..z /\ z - o = n /\ c = SubSeq(Content(e), o + 1, z)
      BY <1>6, <1>7, <2>1, <2>2, <2>3
    <2>5. c \in Seq(S) /\ Len(c) = z - o /\ \A j \in 1..(z - o) : c[j] = Content(e)[o + j]
      BY ONLY <2>2, <2>4, PieceAt
    <2>6. b = [j \in 1..n |-> Zero]
      BY <2>1 DEF HoleContent, Zeros
    <2>7. Zero \in S
      BY <2>1 DEF ContentSet
    <2>8. b \in Seq(S) /\ Len(b) = n /\ \A j \in 1..n : b[j] = Zero
      <3>1. DOMAIN b = 1..n /\ b = [j \in 1..n |-> b[j]] /\ \A j \in 1..n : b[j] = Zero /\ b[j] \in S
        BY <2>6, <2>7
      <3> QED BY <1>6, <3>1, MakeSequence
    <2>9. Len(b) = Len(c)
      BY ONLY <2>4, <2>5, <2>8
    <2>10. \A j \in 1..Len(b) : b[j] = c[j]
      <3>1. ASSUME NEW j \in 1..n
            PROVE  b[j] = c[j]
        BY <1>8, <2>4, <2>5, <2>8
      <3> QED BY <2>8, <3>1
    <2>11. b = c
      BY ONLY <2>5, <2>8, <2>9, <2>10, SameSequence
    <2> QED BY <2>1, <2>11
  <1>10. PICK f : f = IF fOut = NoPath THEN fs ELSE [fs EXCEPT ![fOut].content = @ \o HoleContent(n)]
    OBVIOUS
  <1>11. PICK index : index = i + 1
    OBVIOUS
  <1>12. /\ bufOut' = bufOut /\ fileSize' = fileSize - n
         /\ AfterSegment(index, 0, f)
         /\ archive' = archive /\ list' = list /\ rest' = rest /\ headerKnown' = headerKnown
    BY <1>2, <1>4, <1>5, <1>10, <1>11 DEF WriteHole, fixed
  <1>13. f = IF list THEN fs
             ELSE [fs EXCEPT ![fOut].content =
                     @ \o SubSeq(Content(archive[k]), Offset(archive[k]) + 1, Offset(archive[k]) + n)]
    <2>1. fOut = NoPath <=> list
      BY <1>2, <1>3, ArchiveFacts DEF Given, N, InData
    <2> QED BY <1>2, <1>9, <1>10, <2>1
  <1>14. index = segIndex + 1 /\ InSegment + n = segments[segIndex].len
    BY <1>2, <1>4, <1>5, <1>6, <1>11
  <1>15. PICK pos : pos = DataAt(k) + (EndOf(SegData(archive[k]), index - 1)
                            + (IF 0 = 0 THEN 0 ELSE segments[segIndex].len - 0))
    OBVIOUS
  <1>16. Here(pos)'
    <2>1. PICK q : q = DataAt(k) + (EndOf(SegData(e), i - 1) + 0)
      OBVIOUS
    <2>2. index - 1 = i
      BY <1>3, <1>5, <1>11
    <2>3. pos = q
      BY <1>2, <1>8, <1>15, <2>1, <2>2
    <2> QED BY <1>5, <1>12, <2>1, <2>3 DEF Here
  <1>17. Parsing(k)' /\ Wrote(k)
    BY <1>1, <1>6, <1>12, <1>13, <1>14, <1>15, <1>16, SegmentOn
  <1> QED BY <1>3, <1>17

\* Where the stream ends, all entries were read.
LEMMA StreamEnds ==
  ASSUME Given, TruthfulArchives, NEW k, Parsing(k), phase = "recv", rest = <<>>
  PROVE  AtLength(k) /\ k = N
  <1>1. PICK w, S, L : w = Stream(archive) /\ S = UnitSet(Entries) /\ L = Len(w)
    OBVIOUS
  <1>2. archive \in Archives /\ w \in Seq(S) /\ N \in Nat
    BY <1>1, StreamFacts, ArchiveFacts DEF Given, Entries, N
  <1>3. ASSUME NEW pos, Here(pos)
        PROVE  pos + Len(bufOut) = L /\ pos \in Nat /\ Len(bufOut) \in Nat
    <2>1. At(w, pos, bufOut, rest)
      BY <1>1, <1>3 DEF Here
    <2> QED BY <1>1, <1>2, <2>1, AtFacts
  <1>4. \A j \in 1..N : /\ Begin(archive, j) = DataAt(j) + Len(Data(archive[j]))
                        /\ DataAt(j) \in Nat /\ Len(Data(archive[j])) \in Nat
                        /\ Begin(archive, j) <= L /\ Begin(archive, j) \in Nat
                        /\ DataAt(j) = Begin(archive, j - 1) + (HeaderLen + 1)
                        /\ Begin(archive, j - 1) \in Nat
    BY <1>1, EntryEnd DEF DataAt
  <1>5. CASE AtLength(k)
    <2>1. k \in 0..N /\ Here(Begin(archive, k)) /\ bufOut = <<>>
      BY <1>5 DEF AtLength
    <2>2. Begin(archive, k) = L
      BY <1>3, <2>1
    <2>3. ASSUME k # N
          PROVE  FALSE
      <3>1. k + 1 \in 1..N /\ (k + 1) - 1 = k
        BY <1>2, <2>1, <2>3
      <3> QED BY <1>4, <2>2, <3>1, FormatAssumption
    <2> QED BY <1>5, <2>3
  <1>6. CASE AtHeader(k)
    <2>1. k \in 0..(N - 1) /\ Here(Begin(archive, k) + 1) /\ Len(bufOut) < HeaderLen
      BY <1>6 DEF AtHeader
    <2>2. k + 1 \in 1..N /\ (k + 1) - 1 = k
      BY <1>2, <2>1
    <2> QED BY <1>3, <1>4, <2>1, <2>2, FormatAssumption
  <1>7. CASE InData(k)
    <2>1. PICK e : e = archive[k]
      OBVIOUS
    <2>2. k \in 1..N /\ fileSize > 0 /\ bufOut = <<>> /\ e.kind = "file"
          /\ (InPlain(k, e) \/ InSparse(k, e)) /\ (segments # <<>> => ~segments[segIndex].hole)
          /\ fileSize \in 0..e.size
      BY <1>7, <2>1 DEF InData
    <2>3. e \in Entries /\ IsFile(e) /\ e.size \in Nat
      BY <2>1, <2>2, FileFacts DEF IsFile
    <2>4. CASE InPlain(k, e)
      <3>1. Len(Data(e)) = e.size
        BY <2>3, <2>4, PlainFacts, ContentFacts DEF InPlain
      <3>2. DataAt(k) + Offset(e) = L
        BY <1>3, <2>2, <2>4 DEF InPlain
      <3>3. Offset(e) < e.size /\ Offset(e) \in Nat
        BY <2>2, <2>3 DEF Offset
      <3> QED BY <1>4, <2>1, <2>2, <2>3, <3>1, <3>2, <3>3
    <2>5. CASE InSparse(k, e)
      <3>1. PICK segs, i, m : segs = e.segs /\ i = segIndex /\ m = InSegment
        OBVIOUS
      <3>2. Holes(segs) # <<>> /\ segments = segs /\ i \in 1..Len(segs) /\ dataSize \in 0..segs[i].len
            /\ Here(DataAt(k) + (EndOf(SegData(e), i - 1) + m)) /\ segs # <<>> /\ ~segs[i].hole
            /\ m = (IF dataSize = 0 THEN 0 ELSE segs[i].len - dataSize)
        <4>1. Holes(segs) # <<>> /\ segments = segs /\ i \in 1..Len(segs) /\ dataSize \in 0..segs[i].len
              /\ Here(DataAt(k) + (EndOf(SegData(e), i - 1) + m))
              /\ m = (IF dataSize = 0 THEN 0 ELSE segs[i].len - dataSize)
          BY <2>5, <3>1 DEF InSparse, InSegment
        <4>2. segs # <<>>
          BY <2>3, <3>1, <4>1, WriterSegments
        <4> QED BY <2>2, <3>1, <4>1, <4>2
      <3>3. segs[i].len \in Nat \ {0} /\ Len(segs) \in Nat
        BY <2>3, <3>1, <3>2, Starts DEF IsFile
      <3>4. /\ EndOf(SegData(e), i) = EndOf(SegData(e), i - 1) + segs[i].len
            /\ \A j \in 0..Len(segs) : EndOf(SegData(e), j) \in 0..Len(Data(e))
        BY <2>3, <3>1, <3>2, SparseFacts
      <3>5. i \in 0..Len(segs) /\ i - 1 \in 0..Len(segs)
        BY <3>2, <3>3
      <3>6. PICK d : d = EndOf(SegData(e), i - 1)
        OBVIOUS
      <3>7. d \in Nat /\ d + segs[i].len <= Len(Data(e))
        BY <1>4, <2>1, <2>2, <3>4, <3>5, <3>6
      <3>8. m \in Nat /\ m < segs[i].len
        BY <3>2, <3>3
      <3>9. DataAt(k) + (d + m) = L
        BY <1>3, <2>2, <3>2, <3>6
      <3> QED BY <1>4, <2>1, <2>2, <3>3, <3>7, <3>8, <3>9
    <2> QED BY <2>2, <2>4, <2>5
  <1> QED BY <1>5, <1>6, <1>7 DEF Parsing

-----------------------------------------------------------------------------
(* The file system.                                                        *)

Fields == {"kind", "content", "target", "writable", "time"}
FsType(f) ==
  /\ f = [p \in DOMAIN f |-> f[p]] /\ <<>> \notin DOMAIN f
  /\ \A p \in DOMAIN f : DOMAIN f[p] = Fields

\* Whatever is changed, p remains what it is, and its time if it is no directory.
Remains(f, g, p) ==
  /\ p \in DOMAIN g /\ g[p].kind = f[p].kind /\ g[p].target = f[p].target
  /\ f[p].kind # "dir" /\ f[p].time = "kept" => g[p].time = "kept"
SameContent(f, g, p) == g[p].content = f[p].content
SameWritable(f, g, p) == g[p].writable = f[p].writable

\* One field of an element is set.
LEMMA FieldSet ==
  ASSUME NEW r, DOMAIN r = Fields, NEW x, NEW field \in Fields
  PROVE  /\ DOMAIN [r EXCEPT ![field] = x] = Fields
         /\ \A y \in Fields : [r EXCEPT ![field] = x][y] = IF y = field THEN x ELSE r[y]
  OBVIOUS

\* Setting times changes nothing else.
LEMMA TimesFacts ==
  ASSUME NEW f, FsType(f), NEW paths, NEW g, g = TimesSet(f, paths)
  PROVE  /\ FsType(g) /\ DOMAIN g = DOMAIN f
         /\ \A p \in DOMAIN f :
              /\ Remains(f, g, p) /\ SameContent(f, g, p) /\ SameWritable(f, g, p)
              /\ p \in paths \ NoTimes => g[p].time = "kept"
              /\ g[p].time \in {f[p].time, "kept"}
  <1>1. DOMAIN g = DOMAIN f /\ g = [p \in DOMAIN f |-> g[p]]
        /\ \A p \in DOMAIN f :
             g[p] = IF p \in paths \ NoTimes THEN [f[p] EXCEPT !["time"] = "kept"] ELSE f[p]
    BY DEF FsType, TimesSet
  <1>2. ASSUME NEW p \in DOMAIN f
        PROVE  /\ DOMAIN g[p] = Fields
               /\ g[p].kind = f[p].kind /\ g[p].target = f[p].target
               /\ g[p].content = f[p].content /\ g[p].writable = f[p].writable
               /\ g[p].time = IF p \in paths \ NoTimes THEN "kept" ELSE f[p].time
    <2>1. DOMAIN f[p] = Fields
      BY DEF FsType
    <2>2. CASE p \in paths \ NoTimes
      <3>1. "time" \in Fields /\ g[p] = [f[p] EXCEPT !["time"] = "kept"]
        BY <1>1, <2>2 DEF Fields
      <3>2. DOMAIN g[p] = Fields
            /\ \A y \in Fields : g[p][y] = IF y = "time" THEN "kept" ELSE f[p][y]
        BY <2>1, <3>1, FieldSet
      <3> QED BY <2>2, <3>2 DEF Fields
    <2>3. CASE p \notin paths \ NoTimes
      BY <1>1, <2>1, <2>3
    <2> QED BY <2>2, <2>3
  <1>3. FsType(g)
    BY <1>1, <1>2 DEF FsType
  <1> QED BY <1>1, <1>2, <1>3 DEF Remains, SameContent, SameWritable

\* Times of paths that do not exist are not set.
LEMMA TimesOfNone ==
  ASSUME NEW f, FsType(f), NEW paths, paths \cap DOMAIN f = {}
  PROVE  TimesSet(f, paths) = f
  BY DEF FsType, TimesSet

\* The lowest directory that exists is on the way, if there is one.
LEMMA BaseFacts ==
  ASSUME NEW S, NEW path, path \in Seq(S)
  PROVE  /\ Base(path) \in (Above(path) \cap DOMAIN fs) \cup {<<>>}
         /\ <<>> \notin Above(path) /\ path \notin Above(path)
  <1>1. Len(path) \in Nat
        /\ \A i \in 1..(Len(path) - 1) : Len(SubSeq(path, 1, i)) = i
    <2>1. ASSUME NEW i \in 1..(Len(path) - 1)
          PROVE  Len(SubSeq(path, 1, i)) = i
      <3>1. Len(path) \in Nat
        OBVIOUS
      <3>2. i \in 0..Len(path)
        BY <3>1
      <3> QED BY <3>2, FirstElements
    <2> QED BY <2>1
  <1>2. <<>> \notin Above(path) /\ path \notin Above(path)
    <2>1. ASSUME NEW i \in 1..(Len(path) - 1)
          PROVE  SubSeq(path, 1, i) # <<>> /\ SubSeq(path, 1, i) # path
      BY <1>1
    <2> QED BY <2>1 DEF Above
  <1>3. CASE Above(path) \cap DOMAIN fs = {}
    BY <1>2, <1>3 DEF Base
  <1>4. CASE Above(path) \cap DOMAIN fs # {}
    <2> DEFINE I == {i \in 1..(Len(path) - 1) : SubSeq(path, 1, i) \in DOMAIN fs}
               J == {Len(path) - i : i \in I}
    <2>1. \A q \in Above(path) \cap DOMAIN fs : \E i \in I : q = SubSeq(path, 1, i)
      BY DEF Above
    <2>2. J \subseteq Nat /\ J # {}
      BY <1>1, <1>4, <2>1
    <2>3. PICK n \in J : \A m \in J : n <= m
      BY <2>2, LeastNumber
    <2>4. PICK i \in I : n = Len(path) - i
      OBVIOUS
    <2>5. \A j \in I : j <= i
      <3>1. ASSUME NEW j \in I
            PROVE  j <= i
        <4>1. Len(path) - j \in J
          OBVIOUS
        <4>2. i \in Nat /\ j \in Nat /\ Len(path) \in Nat
          BY <1>1
        <4>3. Len(path) - i <= Len(path) - j
          BY <2>3, <2>4, <4>1
        <4> QED BY ONLY <4>2, <4>3
      <3> QED BY <3>1
    <2>6. PICK p : p = SubSeq(path, 1, i)
      OBVIOUS
    <2>7. p \in (Above(path) \cap DOMAIN fs) \cup {<<>>}
      BY <2>6 DEF Above
    <2>8. \A q \in Above(path) \cap DOMAIN fs : Len(q) <= Len(p)
      BY <1>1, <2>1, <2>5, <2>6
    <2> QED BY <1>2, <2>7, <2>8 DEF Base
  <1> QED BY <1>3, <1>4

\* A new element, and the directories on the way to it.
LEMMA CreateFacts ==
  ASSUME FsType(fs), NEW S, NEW path, path \in Seq(S), path # <<>>,
         NEW element, DOMAIN element = Fields,
         Create(path, element), MayCreate(path), ~Exists(path)
  PROVE  /\ FsType(fs') /\ DOMAIN fs' = DOMAIN fs \cup Above(path) \cup {path}
         /\ \A p \in DOMAIN fs :
              Remains(fs, fs', p) /\ SameContent(fs, fs', p) /\ SameWritable(fs, fs', p)
         /\ fs'[path] = element
         /\ \A p \in Above(path) \ DOMAIN fs : fs'[p] = NewDir
  <1>1. /\ Base(path) \in (Above(path) \cap DOMAIN fs) \cup {<<>>}
        /\ <<>> \notin Above(path) /\ path \notin Above(path)
    BY BaseFacts
  <1>2. DOMAIN fs' = DOMAIN fs \cup Above(path) \cup {path} /\ path \notin DOMAIN fs
        /\ fs' = [p \in DOMAIN fs' |-> fs'[p]]
        /\ \A p \in DOMAIN fs' :
             fs'[p] = IF p = path THEN element
                      ELSE IF p \notin DOMAIN fs THEN NewDir
                      ELSE IF p = Base(path) THEN [fs[p] EXCEPT !["time"] = "now"]
                      ELSE fs[p]
    BY DEF Create, Exists
  <1>3. DOMAIN NewDir = Fields
    BY DEF NewDir, Element, Fields
  <1>4. ASSUME NEW p \in DOMAIN fs
        PROVE  /\ DOMAIN fs'[p] = Fields
               /\ Remains(fs, fs', p) /\ SameContent(fs, fs', p) /\ SameWritable(fs, fs', p)
    <2>1. DOMAIN fs[p] = Fields /\ p # path /\ p \in DOMAIN fs' /\ p # <<>>
      BY <1>2 DEF FsType
    <2>2. CASE p = Base(path)
      <3>1. "time" \in Fields /\ fs'[p] = [fs[p] EXCEPT !["time"] = "now"]
        BY <1>2, <2>1, <2>2 DEF Fields
      <3>2. DOMAIN fs'[p] = Fields
            /\ \A y \in Fields : fs'[p][y] = IF y = "time" THEN "now" ELSE fs[p][y]
        BY <2>1, <3>1, FieldSet
      <3>3. fs[p].kind = "dir"
        BY <2>1, <2>2 DEF MayCreate
      <3> QED BY <2>1, <3>2, <3>3 DEF Fields, Remains, SameContent, SameWritable
    <2>3. CASE p # Base(path)
      <3>1. fs'[p] = fs[p]
        BY <1>2, <2>1, <2>3
      <3> QED BY <2>1, <3>1 DEF Remains, SameContent, SameWritable
    <2> QED BY <2>2, <2>3
  <1>5. fs'[path] = element /\ \A p \in Above(path) \ DOMAIN fs : fs'[p] = NewDir
    BY <1>1, <1>2
  <1>6. <<>> \notin DOMAIN fs'
    BY <1>1, <1>2 DEF FsType
  <1>7. \A p \in DOMAIN fs' : DOMAIN fs'[p] = Fields
    BY <1>2, <1>3, <1>4, <1>5
  <1>8. FsType(fs')
    BY <1>2, <1>6, <1>7 DEF FsType
  <1> QED BY <1>2, <1>4, <1>5, <1>8

-----------------------------------------------------------------------------
(* What is extracted after k entries.                                      *)

Timed(e) == e.path \notin NoTimes => fs[e.path].time = "kept"
Opened(e) == Exists(e.path) /\ fs[e.path].kind = "file" /\ fs[e.path].writable = e.writable
Linked(e) ==
  /\ Exists(e.path)
  /\ \A f \in Entries : f.path = e.target /\ f.kind = "file" => fs[e.path].content = Content(f)

PlacedFile(e) == Opened(e) /\ fs[e.path].content = Content(e) /\ Timed(e)
PlacedDir(e) ==
  /\ Exists(e.path) /\ fs[e.path].writable = e.writable
  /\ fs[e.path].kind = "dir" \/ e.path \in DOMAIN before
  /\ e.path \in Range(dirTimes) /\ (phase = "ok" => Timed(e))
PlacedSymlink(e) ==
  Exists(e.path) /\ fs[e.path].kind = "symlink" /\ fs[e.path].target = e.target /\ Timed(e)
Placed(e) ==
  /\ e.kind = "file" => PlacedFile(e)
  /\ e.kind = "dir" => PlacedDir(e)
  /\ e.kind = "symlink" => PlacedSymlink(e)
  /\ e.kind = "hardlink" => e \in Range(pendingLinks) \/ Linked(e)

\* All of them, but the file that is open: of that, what was read.
Filed(k) ==
  /\ \A i \in 1..k : i < k \/ fOut = NoPath => Placed(archive[i])
  /\ fOut # NoPath =>
       /\ Opened(archive[k])
       /\ fs[fOut].content = SubSeq(Content(archive[k]), 1, Offset(archive[k]))

\* What is new is an entry, or a directory on the way to one.
IsMade(k, p) ==
  \/ fs[p].kind = "dir" /\ \E j \in 1..N : p \in Above(archive[j].path)
  \/ \E i \in 1..k : /\ p = archive[i].path /\ archive[i] \notin Range(pendingLinks)
                     /\ archive[i].kind = "dir" => fs[p].kind = "dir"
Made(k) ==
  /\ \A p \in DOMAIN before : p \in DOMAIN fs /\ fs[p].kind = before[p].kind
  /\ \A p \in DOMAIN fs : p \in DOMAIN before \/ IsMade(k, p)

\* The hard links that are still to be made, each once.
Pending(k) ==
  /\ pendingLinks \in Seq(Entries)
  /\ \A i \in 1..Len(pendingLinks) :
       /\ \E j \in 1..k : archive[j] = pendingLinks[i] /\ archive[j].kind = "hardlink"
       /\ \A j \in 1..Len(pendingLinks) : pendingLinks[i] = pendingLinks[j] => i = j

Extracted(k) == FsType(fs) /\ DirList /\ Filed(k) /\ Made(k) /\ Pending(k)

-----------------------------------------------------------------------------
\* An entry stays where it was placed.
LEMMA PlacedStays ==
  ASSUME NEW e, Placed(e), phase' = "ok" /\ e.kind = "dir" => Timed(e)',
         archive' = archive, before' = before,
         \A p \in DOMAIN fs : Remains(fs, fs', p),
         Exists(e.path) => SameContent(fs, fs', e.path) /\ SameWritable(fs, fs', e.path),
         Range(dirTimes) \subseteq Range(dirTimes'),
         e \in Range(pendingLinks) => e \in Range(pendingLinks') \/ Linked(e)'
  PROVE  Placed(e)'
  <1>1. Exists(e.path) => /\ Exists(e.path)' /\ Remains(fs, fs', e.path)
                          /\ SameContent(fs, fs', e.path) /\ SameWritable(fs, fs', e.path)
    BY DEF Exists, Remains
  <1>2. Opened(e) => Opened(e)'
    BY <1>1 DEF Opened, Remains, SameWritable
  <1>3. Timed(e) /\ Exists(e.path) /\ fs[e.path].kind # "dir" => Timed(e)'
    BY <1>1 DEF Timed, Remains
  <1>4. e.kind = "file" => PlacedFile(e)'
    BY <1>1, <1>2, <1>3 DEF Placed, PlacedFile, Opened, SameContent
  <1>5. e.kind = "dir" => PlacedDir(e)'
    BY <1>1 DEF Placed, PlacedDir, Remains, SameWritable
  <1>6. e.kind = "symlink" => PlacedSymlink(e)'
    BY <1>1, <1>3 DEF Placed, PlacedSymlink, Remains
  <1>7. Linked(e) => Linked(e)'
    BY <1>1 DEF Linked, SameContent, Entries
  <1>8. e.kind = "hardlink" => e \in Range(pendingLinks)' \/ Linked(e)'
    BY <1>7 DEF Placed
  <1> QED BY <1>4, <1>5, <1>6, <1>8 DEF Placed

\* What is new remains so.
LEMMA MadeStays ==
  ASSUME NEW k, NEW m, k \in Nat, m \in Nat, k <= m, Made(k), archive' = archive, before' = before,
         \A p \in DOMAIN fs : Remains(fs, fs', p),
         \A i \in 1..k : archive[i] \in Range(pendingLinks') => archive[i] \in Range(pendingLinks),
         \A p \in DOMAIN fs' : p \in DOMAIN fs \/ IsMade(m, p)'
  PROVE  Made(m)'
  <1>1. \A p \in DOMAIN before : p \in DOMAIN fs' /\ fs'[p].kind = before[p].kind
    BY DEF Made, Remains
  <1>2. ASSUME NEW p \in DOMAIN fs', p \in DOMAIN fs, p \notin DOMAIN before
        PROVE  IsMade(m, p)'
    <2>1. IsMade(k, p) /\ fs'[p].kind = fs[p].kind
      BY <1>2 DEF Made, Remains
    <2>2. CASE fs[p].kind = "dir" /\ \E j \in 1..N : p \in Above(archive[j].path)
      BY <2>1, <2>2 DEF IsMade, N
    <2>3. CASE \E i \in 1..k : /\ p = archive[i].path /\ archive[i] \notin Range(pendingLinks)
                               /\ archive[i].kind = "dir" => fs[p].kind = "dir"
      <3>1. PICK i \in 1..k : /\ p = archive[i].path /\ archive[i] \notin Range(pendingLinks)
                              /\ archive[i].kind = "dir" => fs[p].kind = "dir"
        BY <2>3
      <3>2. i \in 1..m /\ archive[i] \notin Range(pendingLinks')
        BY <3>1
      <3> QED BY <2>1, <3>1, <3>2 DEF IsMade
    <2> QED BY <2>1, <2>2, <2>3 DEF IsMade
  <1> QED BY <1>1, <1>2 DEF Made

\* The new element of an entry.
LEMMA CreateMakes ==
  ASSUME Given, FsType(fs), NEW k, NEW m, k \in Nat, m \in 0..N, k <= m, Made(k),
         archive' = archive, before' = before, NEW i \in 1..m,
         NEW element, DOMAIN element = Fields, archive[i].kind = "dir" => element.kind = "dir",
         Create(archive[i].path, element), MayCreate(archive[i].path), ~Exists(archive[i].path),
         archive[i] \notin Range(pendingLinks'),
         \A j \in 1..k : archive[j] \in Range(pendingLinks') => archive[j] \in Range(pendingLinks)
  PROVE  /\ Made(m)' /\ FsType(fs') /\ Exists(archive[i].path)' /\ fs'[archive[i].path] = element
         /\ \A p \in DOMAIN fs :
              Remains(fs, fs', p) /\ SameContent(fs, fs', p) /\ SameWritable(fs, fs', p)
  <1>1. PICK path, S : path = archive[i].path /\ S = Range(path)
    OBVIOUS
  <1>2. N \in Nat /\ i \in 1..N
    BY ArchiveFacts DEF Given, N
  <1>3. path \in Seq(S) /\ path # <<>>
    BY <1>1, <1>2, ArchiveFacts DEF Given, N
  <1>4. /\ FsType(fs') /\ DOMAIN fs' = DOMAIN fs \cup Above(path) \cup {path}
        /\ \A p \in DOMAIN fs :
              Remains(fs, fs', p) /\ SameContent(fs, fs', p) /\ SameWritable(fs, fs', p)
        /\ fs'[path] = element
        /\ \A p \in Above(path) \ DOMAIN fs : fs'[p] = NewDir
    BY <1>1, <1>3, CreateFacts
  <1>5. ASSUME NEW p \in DOMAIN fs', p \notin DOMAIN fs
        PROVE  IsMade(m, p)'
    <2>1. CASE p \in Above(path)
      <3>1. fs'[p].kind = "dir"
        BY <1>4, <1>5, <2>1 DEF NewDir, Element
      <3> QED BY <1>1, <1>2, <2>1, <3>1 DEF IsMade, N
    <2>2. CASE p = path
      BY <1>1, <1>4, <2>2 DEF IsMade
    <2> QED BY <1>4, <1>5, <2>1, <2>2
  <1>6. m \in Nat
    BY <1>2
  <1>7. Made(m)'
    BY <1>4, <1>5, <1>6, MadeStays
  <1> QED BY <1>1, <1>4, <1>7 DEF Exists

-----------------------------------------------------------------------------
\* A step that touches nothing.
LEMMA SameExtracted ==
  ASSUME NEW k, k \in Nat, Extracted(k), phase' # "ok",
         UNCHANGED <<archive, before, fs, fOut, fileSize, dirTimes, pendingLinks>>
  PROVE  Extracted(k)'
  <1>1. ASSUME NEW e, Placed(e)
        PROVE  Placed(e)'
    BY <1>1 DEF Placed, PlacedFile, PlacedDir, PlacedSymlink, Opened, Timed, Linked, Exists, Entries
  <1>2. Filed(k)'
    BY <1>1 DEF Extracted, Filed, Opened, Exists, Offset
  <1>3. Made(k)'
    BY DEF Extracted, Made, IsMade, N
  <1>4. Pending(k)'
    BY DEF Extracted, Pending, Entries
  <1> QED BY <1>2, <1>3, <1>4 DEF Extracted, DirList

\* Data of a file: nothing changes but the content of the file that is open.
LEMMA WroteFacts ==
  ASSUME list = FALSE, NEW k, Wrote(k), FsType(fs), fOut \in DOMAIN fs, NEW g,
         g = fs[fOut].content
             \o SubSeq(Content(archive[k]), Offset(archive[k]) + 1, Offset(archive[k])')
  PROVE  /\ FsType(fs') /\ DOMAIN fs' = DOMAIN fs /\ fs'[fOut].content = g
         /\ \A p \in DOMAIN fs : /\ Remains(fs, fs', p) /\ SameWritable(fs, fs', p)
                                 /\ p # fOut => SameContent(fs, fs', p)
         /\ \/ fOut' = NoPath /\ Offset(archive[k])' = archive[k].size
            \/ fOut' = fOut /\ InData(k)'
         /\ fOut' # fOut /\ fOut \notin NoTimes => fs'[fOut].time = "kept"
  <1>1. PICK w, q : w = "content" /\ q = fOut /\ w \in Fields /\ q \in DOMAIN fs
    BY DEF Fields
  <1>2. PICK f : /\ f = [fs EXCEPT ![q][w] = g]
                 /\ \/ fOut' = NoPath /\ Offset(archive[k])' = archive[k].size /\ fs' = Closed(f)
                    \/ fOut' = fOut /\ InData(k)' /\ fs' = f
    BY <1>1 DEF Wrote
  <1>3. /\ DOMAIN f = DOMAIN fs /\ f = [p \in DOMAIN f |-> f[p]]
        /\ \A p \in DOMAIN fs : p # q => f[p] = fs[p]
        /\ f[q] = [fs[q] EXCEPT ![w] = g]
    BY <1>1, <1>2 DEF FsType
  <1>4. DOMAIN f[q] = Fields /\ \A y \in Fields : f[q][y] = IF y = w THEN g ELSE fs[q][y]
    <2>1. DOMAIN fs[q] = Fields
      BY <1>1 DEF FsType
    <2> QED BY <1>1, <1>3, <2>1, FieldSet
  <1>5. FsType(f)
    BY <1>3, <1>4 DEF FsType
  <1>6. f[fOut].content = g
    BY <1>1, <1>4
  <1>7. ASSUME NEW p \in DOMAIN fs
        PROVE  Remains(fs, f, p) /\ (p # fOut => SameContent(fs, f, p)) /\ SameWritable(fs, f, p)
    BY <1>1, <1>3, <1>4 DEF Fields, Remains, SameContent, SameWritable
  <1>8. CASE fs' = f /\ fOut' = fOut /\ InData(k)'
    BY <1>3, <1>5, <1>6, <1>7, <1>8
  <1>9. CASE fs' = Closed(f) /\ fOut' = NoPath /\ Offset(archive[k])' = archive[k].size
    <2>1. /\ FsType(fs') /\ DOMAIN fs' = DOMAIN f
          /\ \A p \in DOMAIN f :
               /\ Remains(f, fs', p) /\ SameContent(f, fs', p) /\ SameWritable(f, fs', p)
               /\ p \in {fOut} \ NoTimes => fs'[p].time = "kept"
      BY <1>5, <1>9, TimesFacts DEF Closed
    <2>2. ASSUME NEW p \in DOMAIN fs
          PROVE  /\ Remains(fs, fs', p) /\ SameWritable(fs, fs', p)
                 /\ p # fOut => SameContent(fs, fs', p)
      BY <1>3, <1>7, <2>1 DEF Remains, SameContent, SameWritable
    <2>3. fs'[fOut].content = g
      BY <1>3, <1>6, <2>1 DEF SameContent
    <2> QED BY <1>3, <1>9, <2>1, <2>2, <2>3
  <1> QED BY <1>2, <1>8, <1>9

\* Data of a file.
LEMMA WroteExtracted ==
  ASSUME Given, TruthfulArchives, list = FALSE, NEW k, Parsing(k), InData(k), Wrote(k), Extracted(k),
         phase' # "ok", UNCHANGED <<archive, before, dirTimes, pendingLinks>>
  PROVE  Extracted(k)'
  <1>1. PICK e, c, o, z, g : /\ e = archive[k] /\ c = Content(e) /\ o = Offset(e) /\ z = Offset(e)'
                             /\ g = fs[fOut].content \o SubSeq(c, o + 1, z)
    OBVIOUS
  <1>2. k \in 1..N /\ N \in Nat /\ fOut = e.path /\ e.kind = "file" /\ e.path # NoPath
        /\ e \in Entries /\ e.size \in Nat
    BY <1>1, ArchiveFacts DEF Given, N, InData, Entries
  <1>3. c \in Seq(ContentSet(Entries)) /\ Len(c) = e.size
    BY <1>1, <1>2, ContentFacts
  <1>4. o \in 0..e.size /\ z \in o..e.size
    BY <1>1 DEF Wrote
  <1>5. /\ FsType(fs) /\ DirList /\ Pending(k) /\ Opened(e) /\ Made(k)
        /\ fs[fOut].content = SubSeq(c, 1, o) /\ \A i \in 1..k : i < k => Placed(archive[i])
    BY <1>1, <1>2 DEF Extracted, Filed
  <1>6. g = SubSeq(c, 1, z)
    <2>1. z \in 0..Len(c) /\ o \in 0..z /\ 0 \in 0..o /\ 0 + 1 = 1
      BY <1>2, <1>3, <1>4
    <2>2. SubSeq(c, 0 + 1, o) \o SubSeq(c, o + 1, z) = SubSeq(c, 0 + 1, z)
      BY ONLY <1>3, <2>1, AppendPiece
    <2> QED BY <1>1, <1>5, <2>1, <2>2
  <1>7. fOut \in DOMAIN fs
    BY <1>2, <1>5 DEF Opened, Exists
  <1>8. /\ FsType(fs') /\ DOMAIN fs' = DOMAIN fs /\ fs'[fOut].content = g
        /\ \A p \in DOMAIN fs : /\ Remains(fs, fs', p) /\ SameWritable(fs, fs', p)
                                /\ p # fOut => SameContent(fs, fs', p)
        /\ \/ fOut' = NoPath /\ z = e.size
           \/ fOut' = fOut /\ InData(k)'
        /\ fOut' # fOut /\ fOut \notin NoTimes => fs'[fOut].time = "kept"
    BY <1>1, <1>5, <1>7, WroteFacts
  <1>9. ASSUME NEW i \in 1..k, i < k
         PROVE  Placed(archive[i])'
    <2>1. archive[i].path # fOut
      BY <1>1, <1>2, <1>9, ArchiveFacts DEF Given, N
    <2>2. Placed(archive[i])
      BY <1>5, <1>9
    <2>3. Exists(archive[i].path) =>
            SameContent(fs, fs', archive[i].path) /\ SameWritable(fs, fs', archive[i].path)
      BY <1>8, <2>1 DEF Exists
    <2> QED BY <1>8, <2>2, <2>3, PlacedStays
  <1>10. Opened(e)'
    BY <1>2, <1>5, <1>8 DEF Opened, Exists, Remains, SameWritable
  <1>11. Filed(k)'
    <2>1. CASE fOut' = NoPath /\ z = e.size
      <3>1. fs'[e.path].content = c
        <4>1. SubSeq(c, 1, Len(c)) = c
          BY ONLY <1>3, WholePiece
        <4> QED BY <1>2, <1>3, <1>6, <1>8, <2>1, <4>1
      <3>2. e.path \notin NoTimes => fs'[e.path].time = "kept"
        BY <1>2, <1>8, <2>1
      <3>3. Placed(e)'
        BY <1>1, <1>2, <1>10, <3>1, <3>2 DEF Placed, PlacedFile, Timed
      <3>4. ASSUME NEW i \in 1..k
            PROVE  Placed(archive[i])'
        <4>1. CASE i < k
          BY <1>9, <4>1
        <4>2. CASE i = k
          BY <1>1, <3>3, <4>2
        <4> QED BY <1>2, <4>1, <4>2
      <3> QED BY <2>1, <3>4 DEF Filed
    <2>2. CASE fOut' = fOut /\ InData(k)'
      BY <1>1, <1>2, <1>6, <1>8, <1>9, <1>10, <2>2 DEF Filed
    <2> QED BY <1>8, <2>1, <2>2
  <1>12. Made(k)'
    <2>1. k \in Nat
      BY <1>2
    <2>2. \A p \in DOMAIN fs : Remains(fs, fs', p)
      BY <1>8
    <2>3. \A i \in 1..k : archive[i] \in Range(pendingLinks') => archive[i] \in Range(pendingLinks)
      OBVIOUS
    <2>4. \A p \in DOMAIN fs' : p \in DOMAIN fs \/ IsMade(k, p)'
      BY <1>8
    <2>5. archive' = archive /\ before' = before /\ k <= k
      BY <2>1
    <2> QED BY ONLY <1>5, <2>1, <2>2, <2>3, <2>4, <2>5, MadeStays
  <1>13. Pending(k)'
    BY <1>5 DEF Pending, Entries
  <1> QED BY <1>5, <1>8, <1>11, <1>12, <1>13 DEF Extracted, DirList

\* A header is read: the entries that were placed remain so.
LEMMA OthersStay ==
  ASSUME Given, NEW k \in 0..(N - 1), Extracted(k), fOut = NoPath, phase' = phase, phase = "loop",
         archive' = archive, before' = before,
         \A p \in DOMAIN fs :
           /\ Remains(fs, fs', p) /\ SameContent(fs, fs', p)
           /\ p # archive[k + 1].path => SameWritable(fs, fs', p),
         Range(dirTimes) \subseteq Range(dirTimes'), Range(pendingLinks) \subseteq Range(pendingLinks')
  PROVE  \A i \in 1..k : Placed(archive[i])'
  <1>1. ASSUME NEW i \in 1..k
        PROVE  Placed(archive[i])'
    <2>1. Placed(archive[i])
      BY DEF Extracted, Filed
    <2>2. archive[i].path # archive[k + 1].path
      BY ArchiveFacts DEF Given, N
    <2>3. Exists(archive[i].path) =>
            SameContent(fs, fs', archive[i].path) /\ SameWritable(fs, fs', archive[i].path)
      BY <2>2 DEF Exists
    <2> QED BY <2>1, <2>3, PlacedStays
  <1> QED BY <1>1

\* A hard link is put off.
LEMMA HardlinkExtracted ==
  ASSUME Given, list = FALSE, NEW k \in 0..(N - 1), Extracted(k), fOut = NoPath, phase = "loop",
         archive' = archive, before' = before, EvalHardlink(archive[k + 1])
  PROVE  Extracted(k + 1)'
  <1>1. PICK e, i : e = archive[k + 1] /\ i = k + 1
    OBVIOUS
  <1>2. /\ pendingLinks' = Append(pendingLinks, e) /\ e.kind = "hardlink"
        /\ UNCHANGED <<phase, fOut, fileSize, dirTimes, fs>>
    BY <1>1 DEF EvalHardlink, fileVars
  <1>3. i \in 1..N /\ i \in Nat /\ k \in Nat /\ k <= i /\ N \in Nat /\ \A j \in 1..i : j \in 1..k \/ j = i
    BY <1>1, ArchiveFacts DEF Given, N
  <1>4. e \in Entries /\ (\A j \in 1..k : archive[j] # e /\ archive[j].path # e.path)
    BY <1>1, EntryFacts
  <1>5. /\ FsType(fs) /\ DirList /\ Made(k) /\ Pending(k) /\ pendingLinks \in Seq(Entries)
        /\ \A j \in 1..k : Placed(archive[j])
    BY <1>2, <1>3 DEF Extracted, Filed, Pending
  <1>6. /\ Range(pendingLinks') = Range(pendingLinks) \cup {e}
        /\ Len(pendingLinks') = Len(pendingLinks) + 1 /\ Len(pendingLinks) \in Nat
        /\ \A j \in 1..Len(pendingLinks) : pendingLinks'[j] = pendingLinks[j]
                                           /\ pendingLinks[j] \in Range(pendingLinks)
        /\ pendingLinks'[Len(pendingLinks) + 1] = e
    BY <1>2, <1>5, RangeAppend
  <1>7. \A p \in DOMAIN fs :
           Remains(fs, fs', p) /\ SameContent(fs, fs', p) /\ SameWritable(fs, fs', p)
    BY <1>2 DEF Remains, SameContent, SameWritable
  <1>8. \A j \in 1..k : Placed(archive[j])'
    BY <1>2, <1>6, <1>7, OthersStay
  <1>9. Filed(i)'
    <2>1. Placed(e)'
      BY <1>2, <1>6 DEF Placed
    <2> QED BY <1>1, <1>2, <1>3, <1>8, <2>1 DEF Filed
  <1>10. Made(i)'
    <2>1. \A j \in 1..k : archive[j] \in Range(pendingLinks') => archive[j] \in Range(pendingLinks)
      BY <1>4, <1>6
    <2>2. \A p \in DOMAIN fs' : p \in DOMAIN fs \/ IsMade(i, p)'
      BY <1>2
    <2> QED BY <1>3, <1>5, <1>7, <2>1, <2>2, MadeStays
  <1>11. Pending(i)'
    <2>1. pendingLinks' \in Seq(Entries)
      BY <1>2, <1>4, <1>5, AppendProperties
    <2>2. PICK n : n = Len(pendingLinks)
      OBVIOUS
    <2>3. \A j \in 1..n : /\ \E q \in 1..k : archive[q] = pendingLinks[j] /\ archive[q].kind = "hardlink"
                          /\ \A q \in 1..n : pendingLinks[j] = pendingLinks[q] => j = q
      BY <1>5, <2>2 DEF Pending
    <2>4. \A j \in 1..n : pendingLinks[j] # e
      BY <1>4, <2>3
    <2>5. n \in Nat /\ \A j \in 1..(n + 1) : j \in 1..n \/ j = n + 1
      BY <1>6, <2>2
    <2>6. ASSUME NEW j \in 1..(n + 1)
          PROVE  /\ \E q \in 1..i : archive[q] = pendingLinks'[j] /\ archive[q].kind = "hardlink"
                 /\ \A q \in 1..(n + 1) : pendingLinks'[j] = pendingLinks'[q] => j = q
      <3>1. \A q \in 1..n : pendingLinks'[q] = pendingLinks[q]
        BY <1>6, <2>2
      <3>2. pendingLinks'[n + 1] = e
        BY <1>6, <2>2
      <3>3. \E q \in 1..i : archive[q] = pendingLinks'[j] /\ archive[q].kind = "hardlink"
        <4>1. CASE j \in 1..n
          <5>1. PICK q \in 1..k : archive[q] = pendingLinks[j] /\ archive[q].kind = "hardlink"
            BY <2>3, <4>1
          <5>2. q \in 1..i
            BY <1>3
          <5> QED BY <3>1, <4>1, <5>1, <5>2
        <4>2. CASE j = n + 1
          <5>1. i \in 1..i
            BY <1>3
          <5> QED BY <1>1, <1>2, <3>2, <4>2, <5>1
        <4> QED BY <2>5, <4>1, <4>2
      <3>4. \A q \in 1..(n + 1) : pendingLinks'[j] = pendingLinks'[q] => j = q
        BY <2>3, <2>4, <2>5, <3>1, <3>2
      <3> QED BY <3>3, <3>4
    <2>7. archive' = archive /\ Entries' = Entries /\ Len(pendingLinks') = n + 1
      BY <1>6, <2>2 DEF Entries
    <2> QED BY <2>1, <2>6, <2>7 DEF Pending
  <1> QED BY <1>1, <1>2, <1>5, <1>9, <1>10, <1>11 DEF Extracted, DirList

\* The hard links that are to be made are the same.
LEMMA PendingStays ==
  ASSUME NEW k, NEW m, k \in Nat, m \in Nat, k <= m, Pending(k),
         archive' = archive, pendingLinks' = pendingLinks
  PROVE  Pending(m)'
  <1>1. \A q \in 1..k : q \in 1..m
    OBVIOUS
  <1> QED BY <1>1 DEF Pending, Entries

\* A directory is created, or it is there already.
LEMMA DirectoryExtracted ==
  ASSUME Given, list = FALSE, NEW k \in 0..(N - 1), Extracted(k), fOut = NoPath, phase = "loop",
         archive' = archive, before' = before, EvalDirectory(archive[k + 1])
  PROVE  Extracted(k + 1)'
  <1>1. PICK e, i : e = archive[k + 1] /\ i = k + 1
    OBVIOUS
  <1>2. /\ dirTimes' = Append(dirTimes, e.path) /\ e.kind = "dir"
        /\ UNCHANGED <<phase, fOut, fileSize, pendingLinks>>
    BY <1>1 DEF EvalDirectory, fileVars
  <1>3. i \in 1..N /\ i \in Nat /\ k \in Nat /\ k <= i /\ N \in Nat /\ \A j \in 1..i : j \in 1..k \/ j = i
    BY <1>1, ArchiveFacts DEF Given, N
  <1>4. e \in Entries /\ (\A j \in 1..k : archive[j] # e /\ archive[j].path # e.path)
    BY <1>1, EntryFacts
  <1>5. /\ FsType(fs) /\ DirList /\ Made(k) /\ Pending(k) /\ pendingLinks \in Seq(Entries)
        /\ \A j \in 1..k : Placed(archive[j])
    BY <1>2, <1>3 DEF Extracted, Filed, Pending
  <1>6. Range(dirTimes') = Range(dirTimes) \cup {e.path} /\ DirList'
    <2>1. PICK S : dirTimes \in Seq(S)
      BY <1>5 DEF DirList
    <2>2. Append(dirTimes, e.path) \in Seq(S \cup {e.path})
      BY <2>1, SeqMonotonic, AppendProperties
    <2> QED BY <1>2, <2>1, <2>2, RangeAppend DEF DirList
  <1>7. e \notin Range(pendingLinks)
    <2>1. ASSUME e \in Range(pendingLinks)
          PROVE  FALSE
      <3>1. \E j \in 1..Len(pendingLinks) : e = pendingLinks[j]
        BY <1>5, <2>1, RangeAppend
      <3> QED BY <1>2, <1>5, <3>1 DEF Pending
    <2> QED BY <2>1
  <1>8. /\ FsType(fs') /\ Made(i)' /\ PlacedDir(e)'
        /\ \A p \in DOMAIN fs :
             /\ Remains(fs, fs', p) /\ SameContent(fs, fs', p)
             /\ p # e.path => SameWritable(fs, fs', p)
    <2>1. CASE Exists(e.path)
      <3>1. PICK w, q, x : w = "writable" /\ q = e.path /\ x = e.writable
        OBVIOUS
      <3>2. fs' = [fs EXCEPT ![q][w] = x] /\ w \in Fields /\ q \in DOMAIN fs
        BY <1>1, <2>1, <3>1 DEF EvalDirectory, Exists, Fields
      <3>4. /\ DOMAIN fs' = DOMAIN fs /\ fs' = [p \in DOMAIN fs' |-> fs'[p]]
            /\ \A p \in DOMAIN fs : p # q => fs'[p] = fs[p]
            /\ fs'[q] = [fs[q] EXCEPT ![w] = x]
        BY <1>5, <3>2 DEF FsType
      <3>5. DOMAIN fs'[q] = Fields /\ \A y \in Fields : fs'[q][y] = IF y = w THEN x ELSE fs[q][y]
        <4>1. DOMAIN fs[q] = Fields
          BY <1>5, <3>2 DEF FsType
        <4> QED BY <3>2, <3>4, <4>1, FieldSet
      <3>3. FsType(fs') /\ DOMAIN fs' = DOMAIN fs
        BY <1>5, <3>4, <3>5 DEF FsType
      <3>6. fs'[q].kind = fs[q].kind /\ fs'[q].target = fs[q].target /\ fs'[q].content = fs[q].content
            /\ fs'[q].time = fs[q].time /\ fs'[q].writable = x
        BY <3>1, <3>5 DEF Fields
      <3>7. \A p \in DOMAIN fs :
             /\ Remains(fs, fs', p) /\ SameContent(fs, fs', p)
             /\ p # e.path => SameWritable(fs, fs', p)
        BY <3>1, <3>3, <3>4, <3>6 DEF Remains, SameContent, SameWritable
      <3>8. \A p \in DOMAIN fs : Remains(fs, fs', p)
        BY <3>7
      <3>9. \A p \in DOMAIN fs' : p \in DOMAIN fs \/ IsMade(i, p)'
        BY <3>3
      <3>10. Made(i)'
        BY <1>2, <1>3, <1>5, <3>8, <3>9, MadeStays
      <3>11. fs[q].kind = "dir" \/ q \in DOMAIN before
        <4>1. q \in DOMAIN before \/ IsMade(k, q)
          BY <1>5, <3>2 DEF Made
        <4> QED BY <1>4, <3>1, <4>1 DEF IsMade
      <3>12. PlacedDir(e)'
        BY <1>2, <1>6, <3>1, <3>2, <3>3, <3>6, <3>11 DEF PlacedDir, Exists
      <3> QED BY <3>3, <3>7, <3>10, <3>12
    <2>2. CASE ~Exists(e.path)
      <3>1. PICK r : r = [NewDir EXCEPT !.writable = e.writable]
        OBVIOUS
      <3>2. Create(e.path, r) /\ MayCreate(e.path)
        BY <1>1, <2>2, <3>1 DEF EvalDirectory
      <3>3. DOMAIN r = Fields /\ r.kind = "dir" /\ r.writable = e.writable
        BY <3>1 DEF NewDir, Element, Fields
      <3>4. i \in 0..N /\ i \in 1..i
        BY <1>3
      <3>5. archive[i] = e /\ archive[i] \notin Range(pendingLinks')
            /\ \A j \in 1..k : archive[j] \in Range(pendingLinks') => archive[j] \in Range(pendingLinks)
        BY <1>1, <1>2, <1>7
      <3>6. /\ Made(i)' /\ FsType(fs') /\ Exists(e.path)' /\ fs'[e.path] = r
            /\ \A p \in DOMAIN fs :
                 Remains(fs, fs', p) /\ SameContent(fs, fs', p) /\ SameWritable(fs, fs', p)
        BY <1>3, <1>5, <2>2, <3>2, <3>3, <3>4, <3>5, CreateMakes
      <3>7. PlacedDir(e)'
        BY <1>2, <1>6, <3>3, <3>6 DEF PlacedDir
      <3> QED BY <3>6, <3>7
    <2> QED BY <2>1, <2>2
  <1>9. \A j \in 1..k : Placed(archive[j])'
    BY <1>1, <1>2, <1>6, <1>8, OthersStay
  <1>10. Placed(e)'
    BY <1>2, <1>8 DEF Placed
  <1>11. Filed(i)'
    BY <1>1, <1>2, <1>3, <1>9, <1>10 DEF Filed
  <1>12. Pending(i)'
    BY <1>2, <1>3, <1>5, PendingStays
  <1> QED BY <1>1, <1>6, <1>8, <1>11, <1>12 DEF Extracted

\* A file or a symbolic link is created.
LEMMA ElementExtracted ==
  ASSUME Given, list = FALSE, NEW k \in 0..(N - 1), Extracted(k), fOut = NoPath, phase = "loop",
         archive' = archive, before' = before, EvalFile(archive[k + 1]) \/ EvalSymlink(archive[k + 1])
  PROVE  Extracted(k + 1)'
  <1>1. PICK e, i : e = archive[k + 1] /\ i = k + 1
    OBVIOUS
  <1>2. i \in 1..N /\ i \in Nat /\ k \in Nat /\ k <= i /\ N \in Nat /\ \A j \in 1..i : j \in 1..k \/ j = i
    BY <1>1, ArchiveFacts DEF Given, N
  <1>3. e \in Entries /\ (\A j \in 1..k : archive[j] # e /\ archive[j].path # e.path)
        /\ e.size \in Nat /\ e.path # NoPath
    BY <1>1, EntryFacts
  <1>4. /\ FsType(fs) /\ DirList /\ Made(k) /\ Pending(k) /\ pendingLinks \in Seq(Entries)
        /\ \A j \in 1..k : Placed(archive[j])
    BY <1>2 DEF Extracted, Filed, Pending
  <1>5. PICK r : /\ e.kind \in {"file", "symlink"} /\ ~Exists(e.path) /\ MayCreate(e.path)
                 /\ Create(e.path, r) /\ DOMAIN r = Fields /\ phase' = phase
                 /\ dirTimes' = dirTimes /\ pendingLinks' = pendingLinks
                 /\ e.kind = "file" =>
                      /\ r.kind = "file" /\ r.content = <<>> /\ r.writable = e.writable
                      /\ fOut' = e.path /\ fileSize' = e.size
                 /\ e.kind = "symlink" =>
                      /\ r.kind = "symlink" /\ r.target = e.target /\ fOut' = fOut
                      /\ e.path \notin NoTimes => r.time = "kept"
    <2>1. CASE EvalFile(e)
      <3>1. PICK r : r = Element("file", <<>>, NoPath, e.writable)
        OBVIOUS
      <3>2. /\ e.kind = "file" /\ ~Exists(e.path) /\ MayCreate(e.path)
            /\ Create(e.path, r) /\ phase' = phase
            /\ dirTimes' = dirTimes /\ pendingLinks' = pendingLinks
            /\ fOut' = e.path /\ fileSize' = e.size
        BY <2>1, <3>1 DEF EvalFile, Conflict, lateVars
      <3>3. DOMAIN r = Fields /\ r.kind = "file" /\ r.content = <<>> /\ r.writable = e.writable
        BY <3>1 DEF Element, Fields
      <3> QED BY <3>2, <3>3
    <2>2. CASE EvalSymlink(e)
      <3>1. PICK r : r = [Element("symlink", <<>>, e.target, TRUE) EXCEPT
                            !.time = IF e.path \in NoTimes THEN "now" ELSE "kept"]
        OBVIOUS
      <3>2. /\ e.kind = "symlink" /\ ~Exists(e.path) /\ MayCreate(e.path)
            /\ Create(e.path, r) /\ phase' = phase
            /\ dirTimes' = dirTimes /\ pendingLinks' = pendingLinks /\ fOut' = fOut
        BY <2>2, <3>1 DEF EvalSymlink, Conflict, lateVars, fileVars
      <3>3. DOMAIN r = Fields /\ r.kind = "symlink" /\ r.target = e.target
            /\ (e.path \notin NoTimes => r.time = "kept")
        BY <3>1 DEF Element, Fields
      <3> QED BY <3>2, <3>3
    <2> QED BY <1>1, <2>1, <2>2
  <1>6. e \notin Range(pendingLinks)
    <2>1. ASSUME e \in Range(pendingLinks)
          PROVE  FALSE
      <3>1. \E j \in 1..Len(pendingLinks) : e = pendingLinks[j]
        BY <1>4, <2>1, RangeAppend
      <3> QED BY <1>3, <1>4, <3>1 DEF Pending
    <2> QED BY <2>1
  <1>7. i \in 0..N /\ i \in 1..i /\ (archive[i].kind = "dir" => r.kind = "dir")
    BY <1>1, <1>2, <1>5
  <1>8. archive[i] = e /\ archive[i] \notin Range(pendingLinks')
        /\ \A j \in 1..k : archive[j] \in Range(pendingLinks') => archive[j] \in Range(pendingLinks)
    BY <1>1, <1>5, <1>6
  <1>9. /\ Made(i)' /\ FsType(fs') /\ Exists(e.path)' /\ fs'[e.path] = r
        /\ \A p \in DOMAIN fs :
             Remains(fs, fs', p) /\ SameContent(fs, fs', p) /\ SameWritable(fs, fs', p)
    BY <1>2, <1>4, <1>5, <1>7, <1>8, CreateMakes
  <1>10. \A j \in 1..k : Placed(archive[j])'
    BY <1>5, <1>9, OthersStay
  <1>11. Pending(i)'
    BY <1>2, <1>4, <1>5, PendingStays
  <1>12. Filed(i)'
    <2>1. CASE e.kind = "file"
      <3>1. fOut' = e.path /\ fileSize' = e.size /\ Opened(e)' /\ fs'[e.path].content = <<>>
        BY <1>5, <1>9, <2>1 DEF Opened
      <3>2. Offset(e)' = 0
        BY <1>3, <3>1 DEF Offset
      <3>3. SubSeq(Content(e), 1, 0) = <<>>
        <4>1. Content(e) \in Seq(ContentSet(Entries)) /\ Len(Content(e)) \in Nat
          BY <1>3, ContentFacts
        <4>2. 0 \in 0..Len(Content(e))
          BY <4>1
        <4> QED BY <4>1, <4>2, FirstElements
      <3>4. fOut' # NoPath /\ \A j \in 1..i : j < i => Placed(archive[j])'
        BY <1>2, <1>3, <1>10, <3>1
      <3>5. archive' = archive /\ archive[i] = e
        BY <1>1
      <3> QED BY <3>1, <3>2, <3>3, <3>4, <3>5 DEF Filed
    <2>2. CASE e.kind = "symlink"
      <3>1. Placed(e)'
        BY <1>5, <1>9, <2>2 DEF Placed, PlacedSymlink, Timed
      <3>2. fOut' = NoPath
        BY <1>5, <2>2
      <3> QED BY <1>1, <1>2, <1>10, <3>1, <3>2 DEF Filed
    <2> QED BY <1>5, <2>1, <2>2
  <1> QED BY <1>1, <1>4, <1>5, <1>9, <1>11, <1>12 DEF Extracted, DirList

\* The header of an entry that is not refused.
LEMMA HeaderExtracted ==
  ASSUME Given, list = FALSE, NEW k, Parsing(k), Extracted(k), TakeHeader, phase' # "err",
         before' = before
  PROVE  Extracted(k + 1)'
  <1>1. k \in 0..(N - 1) /\ fOut = NoPath /\ EvalHeader(archive[k + 1]) /\ phase = "loop"
        /\ archive' = archive
    BY HeaderRead DEF AtHeader, Idle, TakeHeader, fixed
  <1>2. ~EvalList(archive[k + 1]) /\ ~EvalConflict(archive[k + 1]) /\ ~EvalDenied(archive[k + 1])
    BY DEF EvalList, EvalConflict, EvalDenied, Refuse
  <1>3. CASE EvalHardlink(archive[k + 1])
    BY <1>1, <1>3, HardlinkExtracted
  <1>4. CASE EvalDirectory(archive[k + 1])
    BY <1>1, <1>4, DirectoryExtracted
  <1>5. CASE EvalFile(archive[k + 1]) \/ EvalSymlink(archive[k + 1])
    BY <1>1, <1>5, ElementExtracted
  <1> QED BY <1>1, <1>2, <1>3, <1>4, <1>5 DEF EvalHeader

\* A hard link is made, after all entries.
LEMMA LinkExtracted ==
  ASSUME Given, NEW k, k = N, Extracted(k), fOut = NoPath, MakeLink, phase' # "err", before' = before
  PROVE  Extracted(k)'
  <1>1. PICK e : e = Head(pendingLinks)
    OBVIOUS
  <1>2. /\ pendingLinks # <<>> /\ pendingLinks' = Tail(pendingLinks) /\ phase = "links"
        /\ Exists(e.target) /\ ~Exists(e.path) /\ MayCreate(e.path)
        /\ Create(e.path, fs[e.target]) /\ phase' = phase
        /\ archive' = archive /\ UNCHANGED <<fOut, fileSize, dirTimes>>
    BY <1>1 DEF MakeLink, fixed, fileVars
  <1>3. /\ FsType(fs) /\ DirList /\ Made(k) /\ Pending(k) /\ pendingLinks \in Seq(Entries)
        /\ \A j \in 1..k : Placed(archive[j])
    BY DEF Extracted, Filed, Pending
  <1>4. PICK s, n : s = pendingLinks /\ n = Len(s)
    OBVIOUS
  <1>5. /\ n \in Nat \ {0} /\ e = s[1] /\ e \in Range(s)
        /\ Tail(s) \in Seq(Entries) /\ Len(Tail(s)) = n - 1
        /\ (\A i \in 1..(n - 1) : Tail(s)[i] = s[i + 1])
        /\ (\A y : y \in Range(s) <=> \E i \in 1..n : y = s[i])
        /\ (\A y : y \in Range(Tail(s)) <=> \E i \in 1..(n - 1) : y = s[i + 1])
    BY <1>1, <1>2, <1>3, <1>4, RangeTail
  <1>6. \A j \in 1..n : /\ \E q \in 1..k : archive[q] = s[j] /\ archive[q].kind = "hardlink"
                        /\ \A q \in 1..n : s[j] = s[q] => j = q
    BY <1>3, <1>4 DEF Pending
  <1>7. 1 \in 1..n /\ \A i \in 1..(n - 1) : i + 1 \in 1..n /\ i + 1 # 1
    BY <1>5
  <1>8. PICK q \in 1..k : archive[q] = e /\ e.kind = "hardlink"
    BY <1>5, <1>6, <1>7
  <1>9. e \notin Range(Tail(s)) /\ \A y \in Range(s) : y = e \/ y \in Range(Tail(s))
    <2>1. e \notin Range(Tail(s))
      BY <1>5, <1>6, <1>7
    <2>2. ASSUME NEW y \in Range(s)
          PROVE  y = e \/ y \in Range(Tail(s))
      <3>1. PICK i \in 1..n : y = s[i]
        BY <1>5
      <3>2. CASE i = 1
        BY <1>5, <3>1, <3>2
      <3>3. CASE i # 1
        <4>1. i - 1 \in 1..(n - 1) /\ (i - 1) + 1 = i
          BY <1>5, <3>3
        <4> QED BY <1>5, <3>1, <4>1
      <3> QED BY <3>2, <3>3
    <2> QED BY <2>1, <2>2
  <1>10. PICK r : r = fs[e.target] /\ DOMAIN r = Fields
    BY <1>2, <1>3 DEF FsType, Exists
  <1>11. k \in Nat /\ k \in 0..N /\ k <= k /\ k = N /\ q \in 1..k /\ archive' = archive /\ before' = before
    BY <1>2, ArchiveFacts DEF Given, N
  <1>12. archive[q] \notin Range(pendingLinks') /\ (archive[q].kind = "dir" => r.kind = "dir")
         /\ \A j \in 1..k : archive[j] \in Range(pendingLinks') => archive[j] \in Range(pendingLinks)
    <2>1. \A y \in Range(Tail(s)) : y \in Range(s)
      BY <1>5, <1>7
    <2> QED BY <1>2, <1>4, <1>8, <1>9, <2>1
  <1>13. Create(archive[q].path, r) /\ MayCreate(archive[q].path) /\ ~Exists(archive[q].path)
    BY <1>2, <1>8, <1>10
  <1>14. /\ Made(k)' /\ FsType(fs') /\ Exists(archive[q].path)' /\ fs'[archive[q].path] = r
         /\ \A p \in DOMAIN fs :
              Remains(fs, fs', p) /\ SameContent(fs, fs', p) /\ SameWritable(fs, fs', p)
    BY ONLY Given, <1>3, <1>10, <1>11, <1>12, <1>13, CreateMakes
  <1>15. N' = N /\ Entries' = Entries
    BY <1>2 DEF N, Entries
  <1>16. Linked(e)'
    <2>1. ASSUME NEW f \in Entries, f.path = e.target, f.kind = "file"
          PROVE  fs'[e.path].content = Content(f)
      <3>1. PICK j \in 1..k : f = archive[j]
        BY <1>11, ArchiveFacts DEF Given, N, Entries
      <3>2. PlacedFile(f)
        BY <1>3, <2>1, <3>1 DEF Placed
      <3> QED BY <1>8, <1>10, <1>14, <2>1, <3>2 DEF PlacedFile
    <2>2. Exists(e.path)'
      BY <1>2, <1>8, <1>14 DEF Exists
    <2> QED BY ONLY <1>15, <2>1, <2>2 DEF Linked
  <1>17. ASSUME NEW j \in 1..k
         PROVE  Placed(archive[j])'
    <2>1. Placed(archive[j])
      BY <1>3
    <2>2. archive[j] \in Range(pendingLinks) => archive[j] \in Range(pendingLinks') \/ Linked(archive[j])'
      BY <1>2, <1>4, <1>9, <1>16
    <2>3. Exists(archive[j].path) =>
            SameContent(fs, fs', archive[j].path) /\ SameWritable(fs, fs', archive[j].path)
      BY <1>14 DEF Exists
    <2> QED BY <1>2, <1>14, <2>1, <2>2, <2>3, PlacedStays
  <1>18. Filed(k)'
    BY <1>2, <1>15, <1>17 DEF Filed
  <1>19. Pending(k)'
    <2>1. ASSUME NEW i \in 1..(n - 1)
          PROVE  /\ \E g \in 1..k : archive[g] = Tail(s)[i] /\ archive[g].kind = "hardlink"
                 /\ \A g \in 1..(n - 1) : Tail(s)[i] = Tail(s)[g] => i = g
      <3>1. Tail(s)[i] = s[i + 1] /\ i + 1 \in 1..n
        BY <1>5, <1>7
      <3>2. ASSUME NEW g \in 1..(n - 1), Tail(s)[i] = Tail(s)[g]
            PROVE  i = g
        <4>1. s[i + 1] = s[g + 1] /\ g + 1 \in 1..n
          BY <1>5, <1>7, <3>1, <3>2
        <4>2. i + 1 = g + 1
          BY <1>6, <3>1, <4>1
        <4> QED BY <4>2
      <3>3. \E g \in 1..k : archive[g] = s[i + 1] /\ archive[g].kind = "hardlink"
        BY <1>6, <3>1
      <3> QED BY <3>1, <3>2, <3>3
    <2>2. pendingLinks' = Tail(s) /\ Len(pendingLinks') = n - 1 /\ pendingLinks' \in Seq(Entries)
      BY <1>2, <1>4, <1>5
    <2>3. archive' = archive /\ Entries' = Entries
      BY <1>2, <1>15
    <2> QED BY ONLY <2>1, <2>2, <2>3 DEF Pending
  <1> QED BY <1>2, <1>3, <1>14, <1>15, <1>18, <1>19 DEF Extracted, DirList

\* The times of the directories.
LEMMA TimesExtracted ==
  ASSUME Given, NEW k, k = N, Extracted(k), fOut = NoPath, SetDirTimes, before' = before
  PROVE  Extracted(k)'
  <1>1. /\ fs' = TimesSet(fs, Range(dirTimes)) /\ archive' = archive
        /\ UNCHANGED <<fOut, fileSize, dirTimes, pendingLinks>>
    BY DEF SetDirTimes, fixed, fileVars, lateVars
  <1>2. /\ FsType(fs) /\ DirList /\ Made(k) /\ Pending(k) /\ \A j \in 1..k : Placed(archive[j])
    BY DEF Extracted, Filed
  <1>3. /\ FsType(fs') /\ DOMAIN fs' = DOMAIN fs
        /\ \A p \in DOMAIN fs :
              /\ Remains(fs, fs', p) /\ SameContent(fs, fs', p) /\ SameWritable(fs, fs', p)
              /\ p \in Range(dirTimes) \ NoTimes => fs'[p].time = "kept"
    BY <1>1, <1>2, TimesFacts
  <1>4. k \in Nat /\ k <= k
    BY <1>1, ArchiveFacts DEF Given, N
  <1>5. ASSUME NEW j \in 1..k
        PROVE  Placed(archive[j])'
    <2>1. Placed(archive[j])
      BY <1>2
    <2>2. archive[j].kind = "dir" => Timed(archive[j])'
      BY <1>1, <1>3, <2>1 DEF Placed, PlacedDir, Exists, Timed
    <2>3. Exists(archive[j].path) =>
            SameContent(fs, fs', archive[j].path) /\ SameWritable(fs, fs', archive[j].path)
      BY <1>3 DEF Exists
    <2> QED BY <1>1, <1>3, <2>1, <2>2, <2>3, PlacedStays
  <1>6. Filed(k)'
    BY <1>1, <1>4, <1>5 DEF Filed
  <1>7. \A p \in DOMAIN fs' : p \in DOMAIN fs \/ IsMade(k, p)'
    BY <1>3
  <1>8. Made(k)'
    BY <1>1, <1>2, <1>3, <1>4, <1>7, MadeStays
  <1>9. Pending(k)'
    BY <1>1, <1>2, <1>4, PendingStays
  <1> QED BY <1>1, <1>2, <1>3, <1>6, <1>8, <1>9 DEF Extracted, DirList

Late == {"links", "times", "ok"}
Listed(k) ==
  /\ fs = before /\ printed = [i \in 1..k |-> archive[i].path]
  /\ pendingLinks = <<>> /\ dirTimes = <<>>

Going(k) ==
  /\ Parsing(k) /\ (phase \in Late => AtLength(k) /\ k = N)
  /\ list => Listed(k)
  /\ ~list => Extracted(k) /\ (phase \in {"times", "ok"} => pendingLinks = <<>>)

\* The inductive invariant.
WriteInv ==
  /\ Given /\ (list => phase \notin {"err", "io"})
  /\ phase \notin {"err", "io"} => \E k \in 0..N : Going(k)

-----------------------------------------------------------------------------
\* What is there before is a file system.
LEMMA BeforeFacts ==
  ASSUME Given
  PROVE  FsType(before) /\ NoPath \notin DOMAIN before
  <1>1. IsBefore(before)
    BY WriteAssumption DEF Given
  <1> QED BY <1>1 DEF IsBefore, FsType, Fields

\* The invariant holds at the start.
LEMMA StartGoes ==
  ASSUME Init
  PROVE  WriteInv
  <1>1. Given /\ phase = "recv" /\ fs = before /\ archive \in Archives
    BY WriteAssumption DEF Init, Given
  <1>2. N \in Nat /\ 0 \in 0..N
    BY <1>1, ArchiveFacts DEF N
  <1>3. AtLength(0)
    <2>1. PICK w : w = Stream(archive)
      OBVIOUS
    <2>2. w \in Seq(UnitSet(Range(archive))) /\ Begin(archive, 0) = 0
      BY <1>1, <2>1, StreamFacts
    <2>3. Len(w) \in Nat /\ SubSeq(w, 1, 0) = <<>> /\ SubSeq(w, 1, Len(w)) = w
      <3>1. SubSeq(w, 1, Len(w)) = w
        BY <2>2, WholePiece
      <3>2. 0 \in 0..Len(w) /\ Len(w) \in Nat
        BY <2>2
      <3> QED BY <2>2, <3>1, <3>2, FirstElements
    <2>4. rest = w /\ bufOut = <<>>
      BY <2>1 DEF Init, Stream, UnitsOf
    <2>5. At(w, 0, bufOut, rest)
      BY <2>3, <2>4 DEF At
    <2> QED BY <1>2, <2>1, <2>2, <2>4, <2>5 DEF AtLength, Idle, Here, Init
  <1>4. printed = [i \in 1..0 |-> archive[i].path]
    BY DEF Init
  <1>5. Extracted(0)
    <2>1. <<>> \in Seq({}) /\ <<>> \in Seq(Entries) /\ Len(<<>>) = 0
      BY EmptySeq
    <2>2. FsType(fs)
      BY <1>1, BeforeFacts
    <2>3. fOut = NoPath /\ pendingLinks = <<>> /\ dirTimes = <<>>
      BY DEF Init
    <2> QED BY <1>1, <2>1, <2>2, <2>3 DEF Extracted, DirList, Filed, Made, Pending
  <1>6. Going(0)
    BY <1>1, <1>3, <1>4, <1>5 DEF Going, Late, Listed, Parsing, Init
  <1> QED BY <1>1, <1>2, <1>6 DEF WriteInv

\* A step of the loop that changes nothing but what is read.
LEMMA ReadGoes ==
  ASSUME Given, NEW k, k \in 0..N, Going(k), Parsing(k)', phase' \in {"recv", "loop"},
         UNCHANGED <<archive, list, before, fs, fOut, fileSize, dirTimes, pendingLinks, printed>>
  PROVE  Going(k)'
  <1>1. phase' \notin Late /\ phase' \notin {"times", "ok"} /\ phase' # "ok"
    BY DEF Late
  <1>2. k \in Nat
    OBVIOUS
  <1>3. ~list => Extracted(k)'
    BY <1>1, <1>2, SameExtracted DEF Going
  <1>4. list => Listed(k)'
    BY DEF Going, Listed
  <1> QED BY <1>1, <1>3, <1>4 DEF Going

\* Data are written, or skipped when listing.
LEMMA DataGoes ==
  ASSUME Given, TruthfulArchives, NEW k, k \in 0..N, Going(k), WritePlain \/ WriteSegment \/ WriteHole
  PROVE  Going(k)' /\ phase' \in {"recv", "loop"} /\ UNCHANGED <<archive, list, before>>
  <1>1. InData(k) /\ Parsing(k)' /\ Wrote(k)
    BY PlainWrites, SegmentWrites, HoleWrites DEF Going
  <1>2. UNCHANGED <<archive, list, before, dirTimes, pendingLinks, printed>> /\ phase = "loop"
    BY DEF WritePlain, WriteSegment, WriteHole, fixed, lateVars
  <1>3. phase' \in {"recv", "loop"}
    BY <1>2 DEF WritePlain, WriteSegment, WriteHole, AfterSegment
  <1>4. phase' \notin Late /\ phase' \notin {"times", "ok"} /\ phase' # "ok"
    BY <1>3 DEF Late
  <1>5. ~list => Extracted(k)'
    BY <1>1, <1>2, <1>4, WroteExtracted DEF Going, Given
  <1>6. ASSUME list
        PROVE  Listed(k)'
    <2>1. fs = before /\ fOut = NoPath
      BY <1>1, <1>6 DEF Going, Listed, InData
    <2>2. Closed(fs) = fs
      <3>1. FsType(fs) /\ {fOut} \cap DOMAIN fs = {}
        BY <2>1, BeforeFacts
      <3> QED BY <3>1, TimesOfNone DEF Closed
    <2>3. fs' = fs
      BY <1>1, <1>6, <2>2 DEF Wrote
    <2> QED BY <1>2, <1>6, <2>3 DEF Going, Listed
  <1> QED BY <1>1, <1>2, <1>3, <1>4, <1>5, <1>6 DEF Going

\* A header is evaluated.
LEMMA HeaderGoes ==
  ASSUME Given, TruthfulArchives, NEW k, k \in 0..N, Going(k), TakeHeader
  PROVE  /\ UNCHANGED <<archive, list, before>> /\ (list => phase' # "err")
         /\ phase' \in {"loop", "err"}
         /\ phase' # "err" => Going(k + 1)' /\ k + 1 \in 0..N
  <1>1. k \in 0..(N - 1) /\ k + 1 \in 1..N /\ EvalHeader(archive[k + 1]) /\ Parsing(k)
    BY HeaderRead DEF Going
  <1>2. UNCHANGED <<archive, list, before>> /\ phase = "loop"
    BY DEF TakeHeader, fixed
  <1>3. PICK e : e = archive[k + 1]
    OBVIOUS
  <1>4. phase' \in {"loop", "err"}
    BY <1>1, <1>2, <1>3 DEF EvalHeader, EvalList, EvalConflict, EvalHardlink, EvalDirectory, EvalFile,
             EvalSymlink, EvalDenied, Refuse
  <1>5. ASSUME list
        PROVE  phase' = "loop" /\ Listed(k + 1)'
    <2>1. EvalList(e)
      BY <1>1, <1>3, <1>5 DEF EvalHeader, EvalConflict, EvalHardlink, EvalDirectory, EvalFile,
             EvalSymlink, EvalDenied
    <2>2. /\ phase' = phase /\ printed' = Append(printed, e.path)
          /\ UNCHANGED <<fs, dirTimes, pendingLinks>>
      BY <2>1 DEF EvalList, lateVars
    <2>3. PICK S, i : S = {archive[j].path : j \in 1..N} /\ i = k + 1
      OBVIOUS
    <2>4. k \in Nat /\ N \in Nat /\ i \in 1..N /\ \A j \in 1..i : j \in 1..k \/ j = k + 1
      BY <1>1, <2>3, ArchiveFacts DEF Given, N
    <2>5. printed = [j \in 1..k |-> archive[j].path]
      BY <1>5 DEF Going, Listed
    <2>6. printed \in Seq(S) /\ Len(printed) = k /\ \A j \in 1..k : printed[j] = archive[j].path
      <3>1. \A j \in 1..k : archive[j].path \in S
        BY <2>3, <2>4
      <3>2. DOMAIN printed = 1..k /\ printed = [j \in 1..k |-> printed[j]]
            /\ \A j \in 1..k : printed[j] = archive[j].path /\ printed[j] \in S
        BY <2>5, <3>1
      <3> QED BY <2>4, <3>2, MakeSequence
    <2>7. e.path \in S
      BY <1>3, <2>3, <2>4
    <2>8. PICK p, q : p = Append(printed, e.path) /\ q = [j \in 1..i |-> archive[j].path]
      OBVIOUS
    <2>9. p \in Seq(S) /\ Len(p) = i /\ (\A j \in 1..k : p[j] = archive[j].path) /\ p[k + 1] = e.path
      BY <2>3, <2>6, <2>7, <2>8, AppendProperties
    <2>10. q \in Seq(S) /\ Len(q) = i /\ (\A j \in 1..i : q[j] = archive[j].path)
      <3>1. \A j \in 1..i : archive[j].path \in S
        BY <2>3, <2>4
      <3>2. DOMAIN q = 1..i /\ q = [j \in 1..i |-> q[j]]
            /\ \A j \in 1..i : q[j] = archive[j].path /\ q[j] \in S
        BY <2>8, <3>1
      <3> QED BY <2>4, <3>2, MakeSequence
    <2>11. \A j \in 1..Len(p) : p[j] = q[j]
      BY <1>3, <2>3, <2>4, <2>9, <2>10
    <2>12. p = q
      BY ONLY <2>9, <2>10, <2>11, SameSequence
    <2>13. printed' = [j \in 1..i |-> archive[j].path]
      BY <2>2, <2>8, <2>12
    <2> QED BY <1>2, <1>5, <2>2, <2>3, <2>13 DEF Going, Listed
  <1>6. ASSUME phase' # "err"
        PROVE  Going(k + 1)'
    <2>1. Parsing(k + 1)'
      BY <1>1, <1>6, HeaderParses
    <2>2. phase' \notin Late /\ phase' \notin {"times", "ok"}
      BY <1>4 DEF Late
    <2>3. ~list => Extracted(k + 1)'
      BY <1>1, <1>2, <1>6, HeaderExtracted DEF Going, Given
    <2> QED BY <1>2, <1>5, <2>1, <2>2, <2>3 DEF Going
  <1> QED BY <1>1, <1>2, <1>4, <1>5, <1>6

\* write_others.
LEMMA LateGoes ==
  ASSUME Given, TruthfulArchives, NEW k, k \in 0..N, Going(k),
         StartOthers \/ MakeLink \/ LinksMade \/ SetDirTimes
  PROVE  /\ UNCHANGED <<archive, list, before>> /\ (list => phase' \notin {"err", "io"})
         /\ phase' # "err" => Going(k)'
  <1>1. /\ UNCHANGED <<archive, list, before, rest, bufOut, headerKnown, fOut, fileSize, segments,
                       segIndex, dataSize, printed>>
        /\ phase' # "recv"
    <2>1. phase' # "recv"
      BY DEF StartOthers, MakeLink, LinksMade, SetDirTimes
    <2> QED BY <2>1 DEF StartOthers, MakeLink, LinksMade, SetDirTimes, fixed, fileVars
  <1>2. AtLength(k) /\ k = N /\ Parsing(k)
    <2>1. CASE StartOthers
      BY <2>1, StreamEnds DEF StartOthers, Going
    <2>2. CASE MakeLink \/ LinksMade \/ SetDirTimes
      BY <2>2 DEF MakeLink, LinksMade, SetDirTimes, Going, Late
    <2> QED BY <2>1, <2>2
  <1>3. Parsing(k)' /\ AtLength(k)' /\ (k = N)'
    BY <1>1, <1>2, SameParses DEF N
  <1>4. fOut = NoPath /\ N \in Nat /\ k \in Nat
    BY <1>2, ArchiveFacts DEF AtLength, Idle, Given, N
  <1>5. CASE StartOthers \/ LinksMade
    <2>1. UNCHANGED <<fs, dirTimes, pendingLinks>> /\ phase' \notin {"ok", "err", "io"}
          /\ (phase' = "times" => pendingLinks = <<>>)
      BY <1>5 DEF StartOthers, LinksMade, lateVars
    <2>2. ~list => Extracted(k)'
      BY <1>1, <1>4, <2>1, SameExtracted DEF Going
    <2>3. list => Listed(k)'
      BY <1>1, <2>1 DEF Going, Listed
    <2>4. Going(k)'
      BY <1>1, <1>3, <2>1, <2>2, <2>3 DEF Going
    <2> QED BY <1>1, <2>1, <2>4
  <1>6. CASE MakeLink
    <2>1. ~list
      BY <1>6 DEF MakeLink, Going, Listed
    <2>2. phase = "links" /\ phase' \in {"links", "err"}
      BY <1>6 DEF MakeLink
    <2>3. ASSUME phase' # "err"
          PROVE  Going(k)'
      <3>1. Extracted(k)'
        BY <1>1, <1>2, <1>4, <1>6, <2>1, <2>3, LinkExtracted DEF Going
      <3>2. phase' \notin {"times", "ok"}
        BY <2>2
      <3> QED BY <1>1, <1>3, <2>1, <3>1, <3>2 DEF Going
    <2> QED BY <1>1, <2>1, <2>3
  <1>7. CASE SetDirTimes
    <2>1. phase = "times" /\ phase' = "ok" /\ fs' = TimesSet(fs, Range(dirTimes))
          /\ UNCHANGED <<dirTimes, pendingLinks>>
      BY <1>7 DEF SetDirTimes, lateVars
    <2>2. ~list => Extracted(k)' /\ pendingLinks' = <<>>
      BY <1>1, <1>2, <1>4, <1>7, <2>1, TimesExtracted DEF Going
    <2>3. ASSUME list
          PROVE  Listed(k)'
      <3>1. fs = before /\ dirTimes = <<>>
        BY <2>3 DEF Going, Listed
      <3>2. Range(dirTimes) = {}
        BY <3>1 DEF Range
      <3>3. FsType(fs) /\ Range(dirTimes) \cap DOMAIN fs = {}
        BY <3>1, <3>2, BeforeFacts
      <3>4. fs' = fs
        BY <2>1, <3>3, TimesOfNone
      <3> QED BY <1>1, <2>1, <2>3, <3>4 DEF Going, Listed
    <2>4. Going(k)'
      BY <1>1, <1>3, <2>2, <2>3 DEF Going
    <2> QED BY <2>1, <2>4, <1>1
  <1> QED BY <1>5, <1>6, <1>7

\* Every step keeps the invariant.
LEMMA WriteInvStep ==
  ASSUME TruthfulArchives, WriteInv, [Next]_vars
  PROVE  WriteInv'
  <1>1. Given /\ (list => phase \notin {"err", "io"})
    BY DEF WriteInv
  <1>2. CASE UNCHANGED vars
    <2>1. UNCHANGED <<archive, list, before, rest, bufOut, headerKnown, fOut, fileSize, segments,
                       segIndex, dataSize, printed, fs, phase, dirTimes, pendingLinks>>
      BY <1>2 DEF vars, fixed, fileVars, lateVars
    <2>2. ASSUME NEW k \in 0..N, Going(k)
          PROVE  Going(k)'
      <3>1. Parsing(k)' /\ (AtLength(k) => AtLength(k)')
        BY <2>1, <2>2, SameParses DEF Going
      <3>2. Extracted(k) => Extracted(k)'
        <4>1. ASSUME NEW e, Placed(e)
              PROVE  Placed(e)'
          BY <2>1, <4>1 DEF Placed, PlacedFile, PlacedDir, PlacedSymlink, Opened, Timed, Linked, Exists, Entries
        <4>2. Filed(k) => Filed(k)'
          BY <2>1, <4>1 DEF Filed, Opened, Exists, Offset
        <4>3. Made(k) => Made(k)'
          BY <2>1 DEF Made, IsMade, N
        <4>4. Pending(k) => Pending(k)'
          BY <2>1 DEF Pending, Entries
        <4> QED BY <2>1, <4>2, <4>3, <4>4 DEF Extracted, DirList
      <3>3. Listed(k) => Listed(k)'
        BY <2>1 DEF Listed
      <3> QED BY <2>1, <2>2, <3>1, <3>2, <3>3 DEF Going, N
    <2> QED BY <2>1, <2>2 DEF WriteInv, Given, N
  <1>3. ASSUME phase \notin {"err", "io"}, NEW k \in 0..N, Going(k)
        PROVE  WriteInv' \/ UNCHANGED vars
    <2>1. ASSUME UNCHANGED <<archive, list, before>>, list => phase' \notin {"err", "io"},
                 phase' \notin {"err", "io"} => \E m \in 0..N : Going(m)'
          PROVE  WriteInv'
      BY <1>1, <2>1 DEF WriteInv, Given, N
    <2>2. Parsing(k)
      BY <1>3 DEF Going
    <2>3. CASE Feed
      <3>1. Parsing(k)'
        BY <1>1, <2>2, <2>3, FeedParses
      <3>2. phase' = "loop" /\ UNCHANGED <<archive, list, before, fs, fOut, fileSize, dirTimes, pendingLinks, printed>>
        BY <2>3 DEF Feed, fixed, fileVars, lateVars
      <3>3. Going(k)'
        BY <1>1, <1>3, <3>1, <3>2, ReadGoes
      <3> QED BY <2>1, <3>2, <3>3
    <2>4. CASE WritePlain \/ WriteSegment \/ WriteHole
      BY <1>1, <1>3, <2>1, <2>4, DataGoes
    <2>5. CASE TakeHeader
      <3>1. /\ UNCHANGED <<archive, list, before>> /\ (list => phase' # "err")
            /\ phase' \in {"loop", "err"}
            /\ phase' # "err" => Going(k + 1)' /\ k + 1 \in 0..N
        BY <1>1, <1>3, <2>5, HeaderGoes
      <3>2. PICK m : m = k + 1
        OBVIOUS
      <3> QED BY <2>1, <3>1, <3>2
    <2>6. CASE TakeLength
      <3>1. Parsing(k)'
        BY <1>1, <2>2, <2>6, LengthParses DEF Parsing
      <3>2. phase' = "loop" /\ UNCHANGED <<archive, list, before, fs, fOut, fileSize, dirTimes, pendingLinks, printed>>
        BY <2>6 DEF TakeLength, fixed, fileVars, lateVars
      <3>3. Going(k)'
        BY <1>1, <1>3, <3>1, <3>2, ReadGoes
      <3> QED BY <2>1, <3>2, <3>3
    <2>7. CASE NotEnough
      <3>1. Parsing(k)'
        BY <1>1, <2>2, <2>7, NotEnoughParses
      <3>2. phase' = "recv" /\ UNCHANGED <<archive, list, before, fs, fOut, fileSize, dirTimes, pendingLinks, printed>>
        BY <2>7 DEF NotEnough, fixed, fileVars, lateVars
      <3>3. Going(k)'
        BY <1>1, <1>3, <3>1, <3>2, ReadGoes
      <3> QED BY <2>1, <3>2, <3>3
    <2>8. CASE IoError
      BY <2>1, <2>8 DEF IoError, fixed
    <2>9. CASE StartOthers \/ MakeLink \/ LinksMade \/ SetDirTimes
      BY <1>1, <1>3, <2>1, <2>9, LateGoes
    <2>10. CASE Stopped
      BY <2>10 DEF Stopped
    <2>11. CASE UNCHANGED vars
      BY <2>11
    <2> QED BY <2>3, <2>4, <2>5, <2>6, <2>7, <2>8, <2>9, <2>10, <2>11 DEF Next
  <1>4. ASSUME phase \in {"err", "io"}
        PROVE  UNCHANGED vars
    BY <1>4 DEF Next, Feed, WritePlain, WriteSegment, WriteHole, TakeLength, TakeHeader, NotEnough,
         IoError, StartOthers, MakeLink, LinksMade, SetDirTimes, Stopped
  <1> QED BY <1>2, <1>3, <1>4 DEF WriteInv

\* All that write_files and write_others do keeps to the entries of the archive: the
\* loop is at the length, the header or the data of one of them, and what came before
\* is extracted, wherever the stream was cut.
THEOREM WriteInvariance ==
  ASSUME TruthfulArchives
  PROVE  Spec => []WriteInv
  <1>1. Init => WriteInv
    BY StartGoes
  <1>2. WriteInv /\ [Next]_vars => WriteInv'
    BY WriteInvStep
  <1> QED BY <1>1, <1>2, PTL DEF Spec

\* Listing prints the paths of all entries in their order, skips exactly their data,
\* changes nothing in the output directory and is never refused.
THEOREM ListIsArchiveCorrect ==
  ASSUME TruthfulArchives
  PROVE  Spec => []ListIsArchive
  <1>1. WriteInv => ListIsArchive
    <2>1. ASSUME WriteInv, list
          PROVE  /\ fs = before /\ phase # "err"
                 /\ phase = "ok" => printed = [i \in 1..Len(archive) |-> archive[i].path]
      <3>1. PICK k \in 0..N : Going(k)
        BY <2>1 DEF WriteInv
      <3>2. Listed(k) /\ (phase = "ok" => k = N)
        BY <2>1, <3>1 DEF Going, Late
      <3> QED BY <2>1, <3>2 DEF Listed, N, WriteInv
    <2> QED BY <2>1 DEF ListIsArchive
  <1> QED BY <1>1, WriteInvariance, PTL

\* No step changes what is given.
LEMMA FixedStep ==
  ASSUME [Next]_vars
  PROVE  UNCHANGED <<archive, list, before>>
  BY DEF Next, Feed, WritePlain, WriteSegment, WriteHole, TakeLength, TakeHeader, NotEnough,
         IoError, StartOthers, MakeLink, LinksMade, SetDirTimes, Stopped, vars, fixed

\* At the end of an extraction, extracted is restored.
LEMMA InvRestored ==
  ASSUME WriteInv, NoFileAtDir, LinksToFiles
  PROVE  Restored
  <1>1. ASSUME phase = "ok", ~list, NEW e \in Entries, ~Dangling(e)
        PROVE  IsRestored(e)
    <2>1. PICK k \in 0..N : Going(k)
      BY <1>1 DEF WriteInv
    <2>2. k = N /\ AtLength(k) /\ Extracted(k) /\ pendingLinks = <<>>
      BY <1>1, <2>1 DEF Going, Late
    <2>3. PICK i \in 1..N : e = archive[i] /\ e.kind \in Kinds
      BY ArchiveFacts DEF WriteInv, Given, Entries, N
    <2>4. Placed(e) /\ Made(k)
      BY <2>2, <2>3 DEF AtLength, Idle, Extracted, Filed
    <2>5. CASE e.kind = "file"
      BY <2>4, <2>5 DEF Placed, PlacedFile, Opened, Timed, IsRestored
    <2>6. CASE e.kind = "dir"
      <3>1. fs[e.path].kind = "dir"
        BY <2>4, <2>6 DEF Placed, PlacedDir, Made, NoFileAtDir
      <3> QED BY <1>1, <2>4, <2>6, <3>1 DEF Placed, PlacedDir, Timed, IsRestored
    <2>7. CASE e.kind = "symlink"
      BY <2>4, <2>7 DEF Placed, PlacedSymlink, Timed, IsRestored
    <2>8. CASE e.kind = "hardlink"
      <3>1. Linked(e)
        <4>1. Range(pendingLinks) = {}
          BY <2>2 DEF Range
        <4> QED BY <2>4, <2>8, <4>1 DEF Placed
      <3>2. PICK f \in Entries : f.path = e.target
        BY <1>1, <2>8 DEF Dangling
      <3>3. EntryOf(e.target) \in Entries /\ EntryOf(e.target).path = e.target
        BY <3>2 DEF EntryOf
      <3>4. EntryOf(e.target).kind = "file"
        BY <2>8, <3>3 DEF LinksToFiles
      <3>5. fs[e.path].content = Content(EntryOf(e.target)) /\ Exists(e.path)
        BY <3>1, <3>3, <3>4 DEF Linked
      <3> QED BY <2>8, <3>5 DEF IsRestored
    <2> QED BY <2>3, <2>5, <2>6, <2>7, <2>8 DEF Kinds
  <1> QED BY <1>1 DEF Restored

\* If write_files and write_others end with Ok, every entry of the archive is restored,
\* its bytes and holes, permission and times, and the content behind its hard links.
THEOREM RestoredCorrect ==
  ASSUME TruthfulArchives
  PROVE  Spec /\ NoFileAtDir /\ LinksToFiles => []Restored
  <1>1. NoFileAtDir /\ LinksToFiles /\ [Next]_vars => (NoFileAtDir /\ LinksToFiles)'
    BY FixedStep DEF NoFileAtDir, LinksToFiles, Entries
  <1>2. WriteInv /\ NoFileAtDir /\ LinksToFiles => Restored
    BY InvRestored
  <1> QED BY <1>1, <1>2, WriteInvariance, PTL DEF Spec

WritableDirs == \A p \in DOMAIN fs : fs[p].kind = "dir" => fs[p].writable = TRUE

\* Elements are created.
LEMMA CreateWritable ==
  ASSUME WritableDirs, FsType(fs), NEW S, NEW path, path \in Seq(S), path # <<>>,
         NEW element, DOMAIN element = Fields, element.kind = "dir" => element.writable = TRUE,
         Create(path, element), MayCreate(path), ~Exists(path)
  PROVE  WritableDirs'
  <1>1. /\ DOMAIN fs' = DOMAIN fs \cup Above(path) \cup {path}
        /\ \A p \in DOMAIN fs :
              Remains(fs, fs', p) /\ SameContent(fs, fs', p) /\ SameWritable(fs, fs', p)
        /\ fs'[path] = element
        /\ \A p \in Above(path) \ DOMAIN fs : fs'[p] = NewDir
    BY CreateFacts
  <1>2. ASSUME NEW p \in DOMAIN fs', fs'[p].kind = "dir"
        PROVE  fs'[p].writable = TRUE
    <2>1. CASE p \in DOMAIN fs
      BY <1>1, <1>2, <2>1 DEF WritableDirs, Remains, SameWritable
    <2>2. CASE p = path
      BY <1>1, <1>2, <2>2
    <2>3. CASE p \in Above(path) \ DOMAIN fs
      BY <1>1, <2>3 DEF NewDir, Element
    <2> QED BY <1>1, <2>1, <2>2, <2>3
  <1> QED BY <1>2 DEF WritableDirs

\* Nothing changes its write permission.
LEMMA SteadyWritable ==
  ASSUME WritableDirs, DOMAIN fs' = DOMAIN fs,
         \A p \in DOMAIN fs : Remains(fs, fs', p) /\ SameWritable(fs, fs', p)
  PROVE  WritableDirs'
  BY DEF WritableDirs, Remains, SameWritable

\* A header is evaluated.
LEMMA HeaderWritable ==
  ASSUME Given, WritableDirs, FsType(fs), NEW e \in Entries, EvalHeader(e),
         e.kind = "dir" => e.writable = TRUE
  PROVE  WritableDirs'
  <1>1. PICK path, S : path = e.path /\ path \in Seq(S) /\ path # <<>>
    BY ArchiveFacts DEF Given, Entries
  <1>2. CASE fs' = fs
    BY <1>2 DEF WritableDirs
  <1>3. CASE EvalDirectory(e)
    <2>1. e.kind = "dir" /\ e.writable = TRUE
      BY <1>3 DEF EvalDirectory
    <2>2. CASE Exists(e.path)
      <3>1. PICK w, q, x : w = "writable" /\ q = e.path /\ x = e.writable
        OBVIOUS
      <3>2. fs' = [fs EXCEPT ![q][w] = x] /\ w \in Fields /\ q \in DOMAIN fs
        BY <1>3, <2>2, <3>1 DEF EvalDirectory, Exists, Fields
      <3>3. /\ DOMAIN fs' = DOMAIN fs
            /\ \A p \in DOMAIN fs : p # q => fs'[p] = fs[p]
            /\ fs'[q] = [fs[q] EXCEPT ![w] = x]
        BY <3>2 DEF FsType
      <3>4. DOMAIN fs[q] = Fields
        BY <3>2 DEF FsType
      <3>5. fs'[q][w] = x
        BY <3>2, <3>3, <3>4, FieldSet
      <3>6. fs'[q].writable = TRUE
        BY <2>1, <3>1, <3>5
      <3> QED BY <3>3, <3>6 DEF WritableDirs
    <2>3. CASE ~Exists(e.path)
      <3>1. PICK r : r = [NewDir EXCEPT !.writable = e.writable]
        OBVIOUS
      <3>2. Create(path, r) /\ MayCreate(path)
        BY <1>1, <1>3, <2>3, <3>1 DEF EvalDirectory
      <3>3. DOMAIN r = Fields /\ r.writable = TRUE
        BY <2>1, <3>1 DEF NewDir, Element, Fields
      <3> QED BY <1>1, <2>3, <3>2, <3>3, CreateWritable
    <2> QED BY <2>2, <2>3
  <1>4. CASE EvalFile(e)
    <2>1. PICK r : r = Element("file", <<>>, NoPath, e.writable)
      OBVIOUS
    <2>2. ~Exists(path) /\ MayCreate(path) /\ Create(path, r)
      BY <1>1, <1>4, <2>1 DEF EvalFile, Conflict
    <2>3. DOMAIN r = Fields /\ r.kind = "file"
      BY <2>1 DEF Element, Fields
    <2> QED BY <1>1, <2>2, <2>3, CreateWritable
  <1>5. CASE EvalSymlink(e)
    <2>1. PICK r : r = [Element("symlink", <<>>, e.target, TRUE) EXCEPT
                            !.time = IF e.path \in NoTimes THEN "now" ELSE "kept"]
      OBVIOUS
    <2>2. ~Exists(path) /\ MayCreate(path) /\ Create(path, r)
      BY <1>1, <1>5, <2>1 DEF EvalSymlink, Conflict
    <2>3. DOMAIN r = Fields /\ r.kind = "symlink"
      BY <2>1 DEF Element, Fields
    <2> QED BY <1>1, <2>2, <2>3, CreateWritable
  <1> QED BY <1>2, <1>3, <1>4, <1>5 DEF EvalHeader, EvalList, EvalConflict, EvalHardlink, EvalDenied, Refuse

\* Directories remain writable.
LEMMA WritableStep ==
  ASSUME TruthfulArchives, WriteInv, DirsWritable, WritableDirs, [Next]_vars
  PROVE  WritableDirs'
  <1>1. CASE fs' = fs
    BY <1>1 DEF WritableDirs
  <1>2. CASE list
    <2>1. WriteInv' /\ UNCHANGED <<list, before>>
      BY WriteInvStep, FixedStep
    <2>2. PICK k : Going(k)'
      BY <1>2, <2>1 DEF WriteInv
    <2>3. fs' = before
      BY <1>2, <2>1, <2>2 DEF Going, Listed
    <2> QED BY <2>3 DEF WritableDirs, DirsWritable
  <1>3. ASSUME ~list, phase \notin {"err", "io"}, fs' # fs
        PROVE  WritableDirs'
    <2>1. PICK k \in 0..N : Going(k)
      BY <1>3 DEF WriteInv
    <2>2. Given /\ list = FALSE /\ Parsing(k) /\ Extracted(k) /\ FsType(fs)
      BY <1>3, <2>1 DEF Going, WriteInv, Given, Extracted
    <2>3. CASE WritePlain \/ WriteSegment \/ WriteHole
      <3>1. InData(k) /\ Wrote(k)
        BY <2>2, <2>3, PlainWrites, SegmentWrites, HoleWrites
      <3>2. fOut \in DOMAIN fs
        <4>1. fOut # NoPath /\ fOut = archive[k].path
          BY <2>2, <3>1, ArchiveFacts DEF InData, Given, N
        <4> QED BY <2>2, <4>1 DEF Extracted, Filed, Opened, Exists
      <3>3. PICK g : g = fs[fOut].content
                     \o SubSeq(Content(archive[k]), Offset(archive[k]) + 1, Offset(archive[k])')
        OBVIOUS
      <3>4. DOMAIN fs' = DOMAIN fs /\ \A p \in DOMAIN fs : Remains(fs, fs', p) /\ SameWritable(fs, fs', p)
        BY <2>2, <3>1, <3>2, <3>3, WroteFacts
      <3> QED BY <3>4, SteadyWritable
    <2>4. CASE TakeHeader
      <3>1. k + 1 \in 1..N /\ EvalHeader(archive[k + 1])
        BY <2>2, <2>4, HeaderRead
      <3>2. archive[k + 1] \in Entries
        BY <2>2, <3>1, ArchiveFacts DEF Given, N, Entries
      <3>3. archive[k + 1].kind = "dir" => archive[k + 1].writable = TRUE
        BY <3>2 DEF DirsWritable
      <3> QED BY <2>2, <3>1, <3>2, <3>3, HeaderWritable
    <2>5. CASE MakeLink
      <3>1. PICK e, r : e = Head(pendingLinks) /\ r = fs[e.target]
        OBVIOUS
      <3>2. /\ Exists(e.target) /\ ~Exists(e.path) /\ MayCreate(e.path) /\ Create(e.path, r)
            /\ pendingLinks # <<>> /\ pendingLinks \in Seq(Entries)
        BY <1>3, <2>2, <2>5, <3>1 DEF MakeLink, Extracted, Pending
      <3>3. e \in Entries
        BY <3>1, <3>2, HeadTailProperties
      <3>4. PICK path, S : path = e.path /\ path \in Seq(S) /\ path # <<>>
        BY <2>2, <3>3, ArchiveFacts DEF Given, Entries
      <3>5. DOMAIN r = Fields /\ (r.kind = "dir" => r.writable = TRUE)
        BY <2>2, <3>1, <3>2 DEF FsType, Exists, WritableDirs
      <3> QED BY <2>2, <3>2, <3>4, <3>5, CreateWritable
    <2>6. CASE SetDirTimes
      <3>1. fs' = TimesSet(fs, Range(dirTimes))
        BY <2>6 DEF SetDirTimes
      <3>2. DOMAIN fs' = DOMAIN fs /\ \A p \in DOMAIN fs : Remains(fs, fs', p) /\ SameWritable(fs, fs', p)
        BY <2>2, <3>1, TimesFacts
      <3> QED BY <3>2, SteadyWritable
    <2> QED BY <1>3, <2>3, <2>4, <2>5, <2>6
          DEF Next, Feed, TakeLength, NotEnough, IoError, StartOthers, LinksMade, Stopped, vars
  <1>4. ASSUME phase \in {"err", "io"}
        PROVE  fs' = fs
    BY <1>4 DEF Next, Feed, WritePlain, WriteSegment, WriteHole, TakeLength, TakeHeader, NotEnough,
         IoError, StartOthers, MakeLink, LinksMade, SetDirTimes, Stopped, vars
  <1> QED BY <1>1, <1>2, <1>3, <1>4

-----------------------------------------------------------------------------
\* What is in the way of an entry was there before.
LEMMA TakenBefore ==
  ASSUME Given, NEW k, k \in 0..N, Extracted(k), TreeShaped, NEW e \in Entries, e.kind # "dir", Exists(e.path),
         \A i \in 1..k : archive[i] = e => e \in Range(pendingLinks)
  PROVE  Occupied
  <1>1. CASE e.path \in DOMAIN before
    BY <1>1 DEF Occupied
  <1>2. CASE e.path \notin DOMAIN before
    <2>1. IsMade(k, e.path)
      BY <1>2 DEF Extracted, Made, Exists
    <2>2. ~\E j \in 1..N : e.path \in Above(archive[j].path)
      BY ArchiveFacts DEF TreeShaped, Given, Entries, N
    <2>3. PICK i \in 1..k : e.path = archive[i].path /\ archive[i] \notin Range(pendingLinks)
      BY <2>1, <2>2 DEF IsMade
    <2>4. archive[i] = e
      BY <2>3, ArchiveFacts DEF Given, Entries, N
    <2> QED BY <2>3, <2>4
  <1> QED BY <1>1, <1>2

\* Where an element may not be created, something that was there before is on the way.
LEMMA DeniedBefore ==
  ASSUME Given, NEW k, k \in 0..N, Extracted(k), TreeShaped, WritableDirs, NEW e \in Entries, ~MayCreate(e.path)
  PROVE  Occupied
  <1>1. PICK path, S, b : path = e.path /\ path \in Seq(S) /\ path # <<>> /\ b = Base(path)
    BY ArchiveFacts DEF Given, Entries
  <1>2. b \in Above(path) /\ b \in DOMAIN fs /\ ~(fs[b].kind = "dir" /\ fs[b].writable)
    BY <1>1, BaseFacts DEF MayCreate
  <1>3. fs[b].kind # "dir"
    BY <1>2 DEF WritableDirs
  <1>4. CASE b \in DOMAIN before
    <2>1. before[b].kind # "dir"
      BY <1>3, <1>4 DEF Extracted, Made
    <2> QED BY <1>1, <1>2, <1>4, <2>1 DEF Occupied
  <1>5. CASE b \notin DOMAIN before
    <2>1. IsMade(k, b)
      BY <1>2, <1>5 DEF Extracted, Made
    <2>2. PICK i \in 1..k : b = archive[i].path /\ archive[i].kind # "dir"
      BY <1>3, <2>1 DEF IsMade
    <2>3. archive[i] \in Entries
      BY ArchiveFacts DEF Given, Entries, N
    <2> QED BY <1>1, <1>2, <2>2, <2>3 DEF TreeShaped
  <1> QED BY <1>4, <1>5

\* What leads to an error.
LEMMA ErrStep ==
  ASSUME TruthfulArchives, WriteInv, WritableDirs, TreeShaped, LinksToFiles, [Next]_vars,
         phase # "err", phase' = "err"
  PROVE  Occupied \/ \E e \in Entries : Dangling(e)
  <1>1. TakeHeader \/ MakeLink
    BY DEF Next, Feed, WritePlain, WriteSegment, WriteHole, AfterSegment, TakeLength, NotEnough,
         IoError, StartOthers, LinksMade, SetDirTimes, Stopped, vars
  <1>2. phase \notin {"err", "io"}
    BY <1>1 DEF TakeHeader, MakeLink
  <1>3. PICK k \in 0..N : Going(k)
    BY <1>2 DEF WriteInv
  <1>4. ~list
    <2>1. list' = list /\ WriteInv'
      BY WriteInvStep, FixedStep
    <2> QED BY <2>1 DEF WriteInv
  <1>5. Given /\ list = FALSE /\ Parsing(k) /\ Extracted(k) /\ N \in Nat
    BY <1>3, <1>4, ArchiveFacts DEF Going, WriteInv, Given, N
  <1>6. CASE TakeHeader
    <2>1. k + 1 \in 1..N /\ EvalHeader(archive[k + 1])
      BY <1>5, <1>6, HeaderRead
    <2>2. PICK e : e = archive[k + 1] /\ e \in Entries
      BY <1>5, <2>1, ArchiveFacts DEF Given, N, Entries
    <2>3. phase = "loop"
      BY <1>6 DEF TakeHeader
    <2>4. EvalConflict(e) \/ EvalDenied(e)
      BY <1>4, <2>1, <2>2, <2>3
         DEF EvalHeader, EvalList, EvalHardlink, EvalDirectory, EvalFile, EvalSymlink
    <2>5. CASE EvalConflict(e)
      <3>1. e.kind # "dir" /\ Exists(e.path)
        BY <2>5 DEF EvalConflict, Conflict
      <3>2. \A i \in 1..k : archive[i] # e
        <4>1. ASSUME NEW i \in 1..k, archive[i] = e
              PROVE  FALSE
          <5>1. i \in 1..N /\ i # k + 1
            BY <1>5, <2>1, <4>1
          <5>2. \A x, y \in 1..N : x # y => archive[x].path # archive[y].path
            BY <1>5, ArchiveFacts DEF Given, N
          <5> QED BY <2>1, <2>2, <4>1, <5>1, <5>2
        <4> QED BY <4>1
      <3> QED BY <1>5, <2>2, <3>1, <3>2, TakenBefore
    <2>6. CASE EvalDenied(e)
      BY <1>5, <2>2, <2>6, DeniedBefore DEF EvalDenied
    <2> QED BY <2>4, <2>5, <2>6
  <1>7. CASE MakeLink
    <2>1. PICK e : e = Head(pendingLinks)
      OBVIOUS
    <2>2. /\ pendingLinks # <<>> /\ phase = "links" /\ k = N /\ AtLength(k)
          /\ pendingLinks \in Seq(Entries)
          /\ ~Exists(e.target) \/ Exists(e.path) \/ ~MayCreate(e.path)
      BY <1>3, <1>5, <1>7, <2>1 DEF MakeLink, Going, Late, Extracted, Pending
    <2>3. e = pendingLinks[1] /\ e \in Range(pendingLinks) /\ 1 \in 1..Len(pendingLinks)
      BY <2>1, <2>2, RangeTail
    <2>4. e.kind = "hardlink" /\ e \in Entries
      <3>1. PICK j \in 1..k : archive[j] = e /\ archive[j].kind = "hardlink"
        BY <1>5, <2>3 DEF Extracted, Pending
      <3> QED BY <1>5, <2>2, <3>1, ArchiveFacts DEF Given, Entries, N
    <2>5. CASE ~Exists(e.target)
      <3>1. ASSUME NEW f \in Entries, f.path = e.target
            PROVE  FALSE
        <4>1. f.kind = "file"
          BY <2>4, <3>1 DEF LinksToFiles
        <4>2. PICK i \in 1..N : f = archive[i]
          BY <1>5, ArchiveFacts DEF Given, Entries, N
        <4>3. Placed(f)
          BY <1>5, <2>2, <4>2 DEF Extracted, Filed, AtLength, Idle
        <4> QED BY <2>5, <3>1, <4>1, <4>3 DEF Placed, PlacedFile, Opened
      <3> QED BY <2>4, <3>1 DEF Dangling
    <2>6. CASE Exists(e.path)
      BY <1>5, <2>3, <2>4, <2>6, TakenBefore
    <2>7. CASE ~MayCreate(e.path)
      BY <1>5, <2>4, <2>7, DeniedBefore
    <2> QED BY <2>2, <2>5, <2>6, <2>7
  <1> QED BY <1>1, <1>6, <1>7

\* An archive is refused only for an element that was in the way before, or for a hard
\* link without its target, whatever the order of its entries.
THEOREM ErrHasCauseCorrect ==
  ASSUME TruthfulArchives
  PROVE  Spec /\ TreeShaped /\ LinksToFiles /\ DirsWritable => []ErrHasCause
  <1> DEFINE P == TreeShaped /\ LinksToFiles /\ DirsWritable
             Inv == P /\ WritableDirs /\ ErrHasCause
  <1>1. Init /\ P => Inv
    BY DEF Init, DirsWritable, WritableDirs, ErrHasCause
  <1>2. WriteInv /\ Inv /\ [Next]_vars => Inv'
    <2>1. ASSUME WriteInv, Inv, [Next]_vars
          PROVE  Inv'
      <3>1. archive' = archive /\ before' = before
        BY <2>1, FixedStep
      <3>2. P'
        BY <2>1, <3>1 DEF TreeShaped, LinksToFiles, DirsWritable, Entries
      <3>3. WritableDirs'
        BY <2>1, WritableStep
      <3>4. ASSUME phase' = "err"
            PROVE  Occupied \/ \E e \in Entries : Dangling(e)
        <4>1. CASE phase = "err"
          BY <2>1, <4>1 DEF ErrHasCause
        <4>2. CASE phase # "err"
          BY <2>1, <3>4, <4>2, ErrStep
        <4> QED BY <4>1, <4>2
      <3>5. ErrHasCause'
        BY <3>1, <3>4 DEF ErrHasCause, Occupied, Dangling, Entries
      <3> QED BY <3>2, <3>3, <3>5
    <2> QED BY <2>1
  <1>3. Inv => ErrHasCause
    OBVIOUS
  <1> QED BY <1>1, <1>2, <1>3, WriteInvariance, PTL DEF Spec
=============================================================================
