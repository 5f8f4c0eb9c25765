---------------------------- MODULE SequenceFacts ----------------------------
(***************************************************************************)
(* Induction over the natural numbers, and what follows for sequences of   *)
(* sequences that are put together.                                        *)
(***************************************************************************)
EXTENDS Channels, Integers, SequencesExt, SequenceTheorems, WellFoundedInduction, TLAPS

Less == {ss \in Nat \X Nat : ss[1] < ss[2]}

LEMMA LessWellFounded == IsWellFoundedOn(Less, Nat)
  BY NatLessThanWellFounded DEF OpToRel, Less

\* A set of natural numbers has a least element.
LEMMA LeastNumber ==
  ASSUME NEW T, T \subseteq Nat, T # {}
  PROVE  \E n \in T : \A m \in T : n <= m
  <1>1. PICK n \in T : \A m \in T : ~(<<m, n>> \in Less)
    BY LessWellFounded, WFMin
  <1>2. \A m \in T : ~(m < n)
    BY <1>1 DEF Less
  <1> QED BY <1>2

\* Induction, with a set in the place of a predicate.
LEMMA Induction ==
  ASSUME NEW S, 0 \in S, \A n \in Nat : n \in S => n + 1 \in S
  PROVE  Nat \subseteq S
  <1> DEFINE T == Nat \ S
  <1>1. ASSUME T # {}
        PROVE  FALSE
    <2>1. PICK n \in T : \A m \in T : n <= m
      BY <1>1, LeastNumber
    <2>2. n \in Nat /\ n # 0 /\ n \notin S
      BY <2>1
    <2>3. n - 1 \in Nat /\ (n - 1) + 1 = n
      BY <2>2
    <2>4. n - 1 \in S
      BY <2>1, <2>3
    <2> QED BY <2>2, <2>3, <2>4
  <1> QED BY <1>1

-----------------------------------------------------------------------------
(* A piece w[a + 1], ..., w[b] of a sequence w, cut once more.             *)

\* Its length and its elements.
LEMMA PieceFacts ==
  ASSUME NEW S, NEW w \in Seq(S), NEW b \in 0..Len(w), NEW a \in 0..b
  PROVE  /\ SubSeq(w, a + 1, b) \in Seq(S) /\ Len(SubSeq(w, a + 1, b)) = b - a
         /\ \A i \in 1..(b - a) : SubSeq(w, a + 1, b)[i] = w[a + i]
         /\ SubSeq(w, a + 1, b) = <<>> <=> a = b
  OBVIOUS

\* The first n elements.
LEMMA FirstElements ==
  ASSUME NEW S, NEW s \in Seq(S), NEW n \in 0..Len(s)
  PROVE  /\ SubSeq(s, 1, n) \in Seq(S) /\ Len(SubSeq(s, 1, n)) = n
         /\ \A i \in 1..n : SubSeq(s, 1, n)[i] = s[i]
         /\ n = 0 => SubSeq(s, 1, n) = <<>>
  OBVIOUS

\* A piece of a piece is a piece.
LEMMA PieceOfPiece ==
  ASSUME NEW S, NEW w \in Seq(S), NEW b \in 0..Len(w), NEW a \in 0..b,
         NEW n \in 0..(b - a), NEW m \in 0..n
  PROVE  SubSeq(SubSeq(w, a + 1, b), m + 1, n) = SubSeq(w, a + m + 1, a + n)
  <1> DEFINE v == SubSeq(w, a + 1, b)
             l == n - m
  <1>1. /\ v \in Seq(S) /\ Len(v) = b - a
        /\ \A i \in 1..(b - a) : v[i] = w[a + i]
    BY PieceFacts
  <1> HIDE DEF v
  <1>2. /\ SubSeq(v, m + 1, n) \in Seq(S) /\ Len(SubSeq(v, m + 1, n)) = l
        /\ \A i \in 1..l : SubSeq(v, m + 1, n)[i] = v[m + i]
    BY <1>1, PieceFacts
  <1>3. /\ SubSeq(w, a + m + 1, a + n) \in Seq(S) /\ Len(SubSeq(w, a + m + 1, a + n)) = l
        /\ \A i \in 1..l : SubSeq(w, a + m + 1, a + n)[i] = w[(a + m) + i]
    <2>1. PICK d \in 0..Len(w) : d = a + n
      OBVIOUS
    <2>2. PICK c \in 0..d : c = a + m
      BY <2>1
    <2>3. /\ SubSeq(w, c + 1, d) \in Seq(S) /\ Len(SubSeq(w, c + 1, d)) = d - c
          /\ \A i \in 1..(d - c) : SubSeq(w, c + 1, d)[i] = w[c + i]
      BY PieceFacts
    <2>4. l = d - c
      BY <2>1, <2>2
    <2> QED BY <2>1, <2>2, <2>3, <2>4
  <1>4. \A i \in 1..l : v[m + i] = w[(a + m) + i]
    BY <1>1
  <1> QED BY <1>2, <1>3, <1>4, SeqEqual DEF v

\* A piece cut in two.
LEMMA CutPiece ==
  ASSUME NEW S, NEW w \in Seq(S), NEW b \in 0..Len(w), NEW a \in 0..b, NEW n \in 0..(b - a)
  PROVE  /\ SubSeq(SubSeq(w, a + 1, b), 1, n) = SubSeq(w, a + 1, a + n)
         /\ SubSeq(SubSeq(w, a + 1, b), n + 1, b - a) = SubSeq(w, a + n + 1, b)
  <1>1. SubSeq(SubSeq(w, a + 1, b), 0 + 1, n) = SubSeq(w, a + 0 + 1, a + n)
    <2>1. 0 \in 0..n
      OBVIOUS
    <2> QED BY <2>1, PieceOfPiece
  <1>2. PICK l \in 0..(b - a) : l = b - a
    OBVIOUS
  <1>3. SubSeq(SubSeq(w, a + 1, b), n + 1, l) = SubSeq(w, a + n + 1, a + l)
    <2>1. n \in 0..l
      BY <1>2
    <2> QED BY <2>1, PieceOfPiece
  <1>4. a + 0 + 1 = a + 1 /\ a + l = b
    BY <1>2
  <1> QED BY <1>1, <1>2, <1>3, <1>4

\* Two pieces that meet.
LEMMA AppendPiece ==
  ASSUME NEW S, NEW w \in Seq(S), NEW c \in 0..Len(w), NEW b \in 0..c, NEW a \in 0..b
  PROVE  SubSeq(w, a + 1, b) \o SubSeq(w, b + 1, c) = SubSeq(w, a + 1, c)
  <1>1. PICK d \in 1..(Len(w) + 1) : d = a + 1
    OBVIOUS
  <1>2. b \in (d - 1)..Len(w) /\ c \in b..Len(w)
    BY <1>1
  <1>3. SubSeq(w, d, b) \o SubSeq(w, b + 1, c) = SubSeq(w, d, c)
    BY <1>2, ConcatAdjacentSubSeq
  <1> QED BY <1>1, <1>3

-----------------------------------------------------------------------------
(* FlattenSeq.                                                             *)

\* The sequence f of the first, the first two, ... of the sequences in s put
\* together.
Joins(f, s, n) ==
  f = [i \in 1..n |-> IF i = 1 THEN s[i] ELSE f[i - 1] \o s[i]]

LEMMA JoinsExist ==
  ASSUME NEW s, NEW n \in Nat
  PROVE  \E f : Joins(f, s, n)
  <1> DEFINE S == {m \in Nat : \E f : Joins(f, s, m)}
  <1>1. 0 \in S
    <2>1. Joins([i \in 1..0 |-> 0], s, 0)
      BY DEF Joins
    <2> QED BY <2>1
  <1>2. ASSUME NEW m \in Nat, m \in S
        PROVE  m + 1 \in S
    <2>1. PICK f : Joins(f, s, m)
      BY <1>2
    <2> DEFINE g == [i \in 1..(m + 1) |->
                      IF i \in 1..m THEN f[i] ELSE IF i = 1 THEN s[i] ELSE f[i - 1] \o s[i]]
    <2>2. \A i \in 1..(m + 1) : g[i] = IF i = 1 THEN s[i] ELSE g[i - 1] \o s[i]
      <3> TAKE i \in 1..(m + 1)
      <3>1. CASE i \in 1..m
        <4>1. g[i] = f[i] /\ (i # 1 => i - 1 \in 1..(m + 1) /\ g[i - 1] = f[i - 1])
          BY <3>1
        <4>2. f[i] = IF i = 1 THEN s[i] ELSE f[i - 1] \o s[i]
          BY <2>1, <3>1 DEF Joins
        <4> QED BY <4>1, <4>2
      <3>2. CASE i \notin 1..m
        <4>1. i = m + 1 /\ (i # 1 => i - 1 \in 1..(m + 1) /\ i - 1 \in 1..m)
          BY <3>2
        <4>2. i # 1 => g[i - 1] = f[i - 1]
          BY <4>1
        <4> QED BY <3>2, <4>2
      <3> QED BY <3>1, <3>2
    <2>3. Joins(g, s, m + 1)
      BY <2>2 DEF Joins
    <2> QED BY <2>3
  <1>3. Nat \subseteq S
    <2> HIDE DEF S
    <2> QED BY <1>1, <1>2, Induction
  <1> QED BY <1>3

\* The value at i is determined by the sequences up to i.
LEMMA JoinsAgree ==
  ASSUME NEW s, NEW t, NEW f, NEW g, NEW m \in Nat, NEW n \in Nat, m <= n,
         \A i \in 1..m : s[i] = t[i], Joins(f, s, m), Joins(g, t, n)
  PROVE  \A i \in 1..m : f[i] = g[i]
  <1> DEFINE S == {k \in Nat : k \in 1..m => f[k] = g[k]}
  <1>1. 0 \in S
    OBVIOUS
  <1>2. ASSUME NEW k \in Nat, k \in S
        PROVE  k + 1 \in S
    <2>1. CASE k + 1 \in 1..m
      <3>1. /\ k + 1 \in 1..m /\ k + 1 \in 1..n /\ (k + 1) - 1 = k
            /\ k + 1 # 1 => k \in 1..m
        BY <2>1
      <3>2. /\ f[k + 1] = IF k + 1 = 1 THEN s[k + 1] ELSE f[(k + 1) - 1] \o s[k + 1]
            /\ g[k + 1] = IF k + 1 = 1 THEN t[k + 1] ELSE g[(k + 1) - 1] \o t[k + 1]
        BY <3>1 DEF Joins
      <3> QED BY <1>2, <2>1, <3>1, <3>2
    <2> QED BY <2>1
  <1>3. Nat \subseteq S
    <2> HIDE DEF S
    <2> QED BY <1>1, <1>2, Induction
  <1> QED BY <1>3

LEMMA FlattenIsLastJoin ==
  ASSUME NEW s, Len(s) \in Nat, Len(s) # 0
  PROVE  \E f : Joins(f, s, Len(s)) /\ FlattenSeq(s) = f[Len(s)]
  <1> DEFINE f == CHOOSE g : Joins(g, s, Len(s))
  <1>1. Joins(f, s, Len(s))
    BY JoinsExist
  <1>2. FlattenSeq(s) = f[Len(s)]
    BY DEF FlattenSeq, Joins
  <1> QED BY <1>1, <1>2

LEMMA FlattenEmpty == FlattenSeq(<<>>) = <<>>
  BY DEF FlattenSeq

\* One more sequence.
LEMMA FlattenStep ==
  ASSUME NEW S, NEW s \in Seq(Seq(S)), NEW n \in 0..(Len(s) - 1),
         FlattenSeq(SubSeq(s, 1, n)) \in Seq(S)
  PROVE  FlattenSeq(SubSeq(s, 1, n + 1)) = FlattenSeq(SubSeq(s, 1, n)) \o s[n + 1]
  <1> DEFINE a == SubSeq(s, 1, n)
             b == SubSeq(s, 1, n + 1)
  <1>1. /\ n \in Nat /\ Len(a) = n /\ Len(b) = n + 1
        /\ \A i \in 1..n : a[i] = s[i] /\ b[i] = s[i]
        /\ b[n + 1] = s[n + 1]
        /\ s[n + 1] \in Seq(S)
    BY FirstElements
  <1>0. n = 0 => a = <<>>
    BY FirstElements
  <1> HIDE DEF a, b
  <1>2. PICK g : Joins(g, b, n + 1) /\ FlattenSeq(b) = g[n + 1]
    <2>1. Len(b) \in Nat /\ Len(b) # 0 /\ Len(b) = n + 1
      BY <1>1
    <2>2. PICK g : Joins(g, b, Len(b)) /\ FlattenSeq(b) = g[Len(b)]
      BY ONLY <2>1, FlattenIsLastJoin
    <2> QED BY ONLY <2>1, <2>2
  <1>3. CASE n = 0
    <2>1. FlattenSeq(b) = s[1]
      BY <1>1, <1>2, <1>3 DEF Joins
    <2>2. FlattenSeq(a) = <<>>
      BY <1>0, <1>3, FlattenEmpty
    <2>3. FlattenSeq(a) \o s[n + 1] = s[1] /\ n + 1 = 1
      BY <1>1, <1>3, <2>2, ConcatEmptySeq
    <2> QED BY <2>1, <2>3 DEF a, b
  <1>4. CASE n # 0
    <2>1. PICK f : Joins(f, a, n) /\ FlattenSeq(a) = f[n]
      <3>1. Len(a) \in Nat /\ Len(a) # 0 /\ Len(a) = n
        BY <1>1, <1>4
      <3>2. PICK f : Joins(f, a, Len(a)) /\ FlattenSeq(a) = f[Len(a)]
        BY ONLY <3>1, FlattenIsLastJoin
      <3> QED BY ONLY <3>1, <3>2
    <2>2. f[n] = g[n]
      <3>1. \A i \in 1..n : a[i] = b[i]
        BY <1>1
      <3>2. n \in 1..n /\ n \in Nat /\ n + 1 \in Nat /\ n <= n + 1
        BY <1>1, <1>4
      <3>3. \A i \in 1..n : f[i] = g[i]
        <4>1. PICK k \in Nat : k = n + 1
          BY <3>2
        <4>2. Joins(f, a, n) /\ Joins(g, b, k) /\ n <= k
          BY <1>2, <2>1, <3>2, <4>1
        <4>3. n \in Nat
          BY <3>2
        <4> QED BY ONLY <3>1, <4>2, <4>3, k \in Nat, JoinsAgree
      <3> QED BY <3>2, <3>3
    <2>3. g[n + 1] = g[n] \o b[n + 1]
      <3>1. n + 1 \in 1..(n + 1) /\ n + 1 # 1 /\ (n + 1) - 1 = n
        BY <1>1, <1>4
      <3>2. g[n + 1] = IF n + 1 = 1 THEN b[n + 1] ELSE g[(n + 1) - 1] \o b[n + 1]
        BY <1>2, <3>1 DEF Joins
      <3> QED BY <3>1, <3>2
    <2>4. FlattenSeq(b) = FlattenSeq(a) \o s[n + 1]
      BY <1>1, <1>2, <2>1, <2>2, <2>3
    <2> QED BY <2>4 DEF a, b
  <1> QED BY <1>3, <1>4

LEMMA FlattenType ==
  ASSUME NEW S, NEW s \in Seq(Seq(S))
  PROVE  \A n \in 0..Len(s) : FlattenSeq(SubSeq(s, 1, n)) \in Seq(S)
  <1> DEFINE T == {n \in Nat : n <= Len(s) => FlattenSeq(SubSeq(s, 1, n)) \in Seq(S)}
  <1>1. 0 \in T
    <2>1. SubSeq(s, 1, 0) = <<>>
      BY FirstElements
    <2>2. <<>> \in Seq(S)
      OBVIOUS
    <2> QED BY <2>1, <2>2, FlattenEmpty
  <1>2. ASSUME NEW n \in Nat, n \in T
        PROVE  n + 1 \in T
    <2> SUFFICES ASSUME n + 1 <= Len(s)
                 PROVE  FlattenSeq(SubSeq(s, 1, n + 1)) \in Seq(S)
      OBVIOUS
    <2>1. n \in 0..(Len(s) - 1) /\ FlattenSeq(SubSeq(s, 1, n)) \in Seq(S) /\ s[n + 1] \in Seq(S)
      BY <1>2
    <2>2. FlattenSeq(SubSeq(s, 1, n + 1)) = FlattenSeq(SubSeq(s, 1, n)) \o s[n + 1]
      BY <2>1, FlattenStep
    <2> QED BY <2>1, <2>2, ConcatProperties
  <1>3. Nat \subseteq T
    <2> HIDE DEF T
    <2> QED BY <1>1, <1>2, Induction
  <1> QED BY <1>3

\* The first sequences put together are the beginning of all put together.
LEMMA FlattenBegins ==
  ASSUME NEW S, NEW s \in Seq(Seq(S)), NEW m \in 0..Len(s)
  PROVE  \A n \in m..Len(s) :
           /\ Len(FlattenSeq(SubSeq(s, 1, m))) <= Len(FlattenSeq(SubSeq(s, 1, n)))
           /\ FlattenSeq(SubSeq(s, 1, m)) =
                SubSeq(FlattenSeq(SubSeq(s, 1, n)), 1, Len(FlattenSeq(SubSeq(s, 1, m))))
  <1> DEFINE U(n) == FlattenSeq(SubSeq(s, 1, n))
             Begins(n) == Len(U(m)) <= Len(U(n)) /\ U(m) = SubSeq(U(n), 1, Len(U(m)))
             T == {n \in Nat : m <= n /\ n <= Len(s) => Begins(n)}
  <1>1. \A n \in 0..Len(s) : U(n) \in Seq(S)
    BY FlattenType
  <1>2. \A n \in 0..(Len(s) - 1) : U(n + 1) = U(n) \o s[n + 1]
    <2> TAKE n \in 0..(Len(s) - 1)
    <2>1. U(n) \in Seq(S)
      BY <1>1
    <2> QED BY <2>1, FlattenStep
  <1> HIDE DEF U
  <1>3. Begins(m)
    BY <1>1, SubSeqFull
  <1>4. 0 \in T
    BY <1>3
  <1>5. ASSUME NEW n \in Nat, n \in T
        PROVE  n + 1 \in T
    <2> SUFFICES ASSUME m <= n + 1, n + 1 <= Len(s)
                 PROVE  Begins(n + 1)
      OBVIOUS
    <2>1. CASE m = n + 1
      BY <1>3, <2>1
    <2>2. CASE m <= n
      <3>1. Begins(n) /\ U(n + 1) = U(n) \o s[n + 1]
        BY <1>2, <1>5, <2>2
      <3>2. /\ U(m) \in Seq(S) /\ U(n) \in Seq(S) /\ s[n + 1] \in Seq(S)
            /\ U(n + 1) \in Seq(S)
        BY <1>1, <2>2
      <3>3. /\ Len(U(n + 1)) = Len(U(n)) + Len(s[n + 1])
            /\ \A i \in 1..Len(U(n)) : U(n + 1)[i] = U(n)[i]
        BY <3>1, <3>2, ConcatProperties
      <3>4. /\ SubSeq(U(n + 1), 1, Len(U(m))) \in Seq(S)
            /\ Len(SubSeq(U(n + 1), 1, Len(U(m)))) = Len(U(m))
            /\ \A i \in 1..Len(U(m)) : SubSeq(U(n + 1), 1, Len(U(m)))[i] = U(m)[i]
        <4>1. Len(U(m)) \in 0..Len(U(n + 1)) /\ Len(U(m)) <= Len(U(n))
          BY <3>1, <3>2, <3>3
        <4>2. \A i \in 1..Len(U(m)) : U(m)[i] = U(n)[i]
          <5>1. Len(U(m)) \in 0..Len(U(n))
            BY <3>1, <3>2
          <5>2. \A i \in 1..Len(U(m)) : SubSeq(U(n), 1, Len(U(m)))[i] = U(n)[i]
            BY <3>2, <5>1, FirstElements
          <5> QED BY <3>1, <5>2
        <4>3. \A i \in 1..Len(U(m)) : i \in 1..Len(U(n))
          BY <3>2, <4>1
        <4>4. /\ SubSeq(U(n + 1), 1, Len(U(m))) \in Seq(S)
              /\ Len(SubSeq(U(n + 1), 1, Len(U(m)))) = Len(U(m))
              /\ \A i \in 1..Len(U(m)) : SubSeq(U(n + 1), 1, Len(U(m)))[i] = U(n + 1)[i]
          BY <3>2, <4>1, FirstElements
        <4> QED BY <3>3, <4>2, <4>3, <4>4
      <3>5. SubSeq(U(n + 1), 1, Len(U(m))) = U(m)
        BY <3>2, <3>4, SeqEqual
      <3>6. Len(U(m)) <= Len(U(n + 1))
        BY <3>1, <3>2, <3>3
      <3> QED BY <3>5, <3>6
    <2> QED BY <2>1, <2>2
  <1>6. Nat \subseteq T
    <2> HIDE DEF T
    <2> QED BY <1>4, <1>5, Induction
  <1> QED BY <1>6 DEF U

\* Where the n-th sequence ends when they are put together.
EndOf(s, n) == Len(FlattenSeq(SubSeq(s, 1, n)))

LEMMA EndsGrow ==
  ASSUME NEW S, NEW s \in Seq(Seq(S)), NEW m \in 0..Len(s), NEW n \in m..Len(s)
  PROVE  EndOf(s, m) <= EndOf(s, n)
  BY FlattenBegins DEF EndOf

\* The sequences are found again in what they are put together to.
LEMMA FlattenParts ==
  ASSUME NEW S, NEW s \in Seq(Seq(S))
  PROVE  /\ FlattenSeq(s) \in Seq(S)
         /\ EndOf(s, 0) = 0 /\ EndOf(s, Len(s)) = Len(FlattenSeq(s))
         /\ \A n \in 0..Len(s) : EndOf(s, n) \in 0..Len(FlattenSeq(s))
         /\ \A n \in 0..(Len(s) - 1) :
              /\ EndOf(s, n + 1) = EndOf(s, n) + Len(s[n + 1])
              /\ SubSeq(FlattenSeq(s), EndOf(s, n) + 1, EndOf(s, n + 1)) = s[n + 1]
  <1> DEFINE U(n) == FlattenSeq(SubSeq(s, 1, n))
             N == Len(s)
             W == FlattenSeq(s)
  <1>1. N \in Nat /\ SubSeq(s, 1, N) = s
    BY SubSeqFull
  <1>2. \A n \in 0..N : U(n) \in Seq(S) /\ EndOf(s, n) = Len(U(n))
    BY FlattenType DEF EndOf
  <1>3. ASSUME NEW n \in 0..(N - 1)
        PROVE  U(n + 1) = U(n) \o s[n + 1] /\ s[n + 1] \in Seq(S)
    <2>1. n \in 0..N /\ n + 1 \in 1..N
      BY <1>1
    <2>2. U(n) \in Seq(S) /\ s[n + 1] \in Seq(S)
      BY <1>2, <2>1
    <2>3. FlattenSeq(SubSeq(s, 1, n + 1)) = FlattenSeq(SubSeq(s, 1, n)) \o s[n + 1]
      BY <2>2, FlattenStep
    <2> QED BY <2>2, <2>3
  <1>4. \A n \in 0..N : Len(U(n)) <= Len(U(N)) /\ U(n) = SubSeq(U(N), 1, Len(U(n)))
    <2> TAKE n \in 0..N
    <2>1. N \in n..N
      BY <1>1
    <2> QED BY <2>1, FlattenBegins
  <1>5. U(0) = <<>>
    <2>1. SubSeq(s, 1, 0) = <<>>
      BY FirstElements
    <2> QED BY <2>1, FlattenEmpty
  <1>6. W = U(N)
    BY <1>1
  <1> HIDE DEF U, W, N
  <1>7. W \in Seq(S) /\ EndOf(s, 0) = 0 /\ EndOf(s, N) = Len(W)
    <2>1. 0 \in 0..N /\ N \in 0..N
      BY <1>1
    <2> QED BY <1>2, <1>5, <1>6, <2>1
  <1>8. \A n \in 0..N : EndOf(s, n) \in 0..Len(W)
    <2> TAKE n \in 0..N
    <2>1. U(n) \in Seq(S) /\ Len(U(n)) <= Len(W) /\ EndOf(s, n) = Len(U(n))
      BY <1>2, <1>4, <1>6
    <2> QED BY <1>7, <2>1
  <1>9. ASSUME NEW n \in 0..(N - 1)
        PROVE  /\ EndOf(s, n + 1) = EndOf(s, n) + Len(s[n + 1])
               /\ SubSeq(W, EndOf(s, n) + 1, EndOf(s, n + 1)) = s[n + 1]
    <2> DEFINE a == U(n)
               b == U(n + 1)
               f == s[n + 1]
    <2>1. n \in 0..N /\ n + 1 \in 0..N
      BY <1>1
    <2>2. /\ a \in Seq(S) /\ b \in Seq(S) /\ W \in Seq(S) /\ f \in Seq(S)
          /\ b = a \o f /\ b = SubSeq(W, 1, Len(b)) /\ Len(b) <= Len(W)
          /\ EndOf(s, n) = Len(a) /\ EndOf(s, n + 1) = Len(b)
      BY <1>2, <1>3, <1>4, <1>6, <1>7, <2>1
    <2> HIDE DEF a, b, f
    <2>3. /\ Len(b) = Len(a) + Len(f)
          /\ \A i \in 1..Len(f) : b[Len(a) + i] = f[i]
      BY <2>2, ConcatProperties
    <2>4. \A i \in 1..Len(b) : b[i] = W[i]
      <3>1. Len(b) \in 0..Len(W)
        BY <2>2
      <3> QED BY <2>2, <3>1, FirstElements
    <2>5. \A i \in 1..Len(f) : W[Len(a) + i] = f[i]
      <3> TAKE i \in 1..Len(f)
      <3>1. Len(a) + i \in 1..Len(b)
        BY <2>2, <2>3
      <3> QED BY <2>3, <2>4, <3>1
    <2>6. SubSeq(W, Len(a) + 1, Len(b)) = f
      <3>1. Len(b) \in 0..Len(W) /\ Len(a) \in 0..Len(b) /\ Len(b) - Len(a) = Len(f)
        BY <2>2, <2>3
      <3>2. \A y \in 0..Len(W) : \A x \in 0..y :
              /\ SubSeq(W, x + 1, y) \in Seq(S) /\ Len(SubSeq(W, x + 1, y)) = y - x
              /\ \A i \in 1..(y - x) : SubSeq(W, x + 1, y)[i] = W[x + i]
        BY ONLY <2>2, PieceFacts
      <3>3. /\ SubSeq(W, Len(a) + 1, Len(b)) \in Seq(S)
            /\ Len(SubSeq(W, Len(a) + 1, Len(b))) = Len(b) - Len(a)
            /\ \A i \in 1..(Len(b) - Len(a)) : SubSeq(W, Len(a) + 1, Len(b))[i] = W[Len(a) + i]
        BY ONLY <3>1, <3>2
      <3> QED BY <2>2, <2>5, <3>1, <3>3, SeqEqual
    <2> QED BY <2>2, <2>3, <2>6 DEF f
  <1> QED BY <1>7, <1>8, <1>9 DEF N, W

LEMMA FlattenAppend ==
  ASSUME NEW S, NEW s \in Seq(Seq(S)), NEW x \in Seq(S)
  PROVE  FlattenSeq(Append(s, x)) = FlattenSeq(s) \o x
  <1>1. PICK t : t = Append(s, x)
    OBVIOUS
  <1>2. PICK n \in Nat : n = Len(s)
    OBVIOUS
  <1>3. /\ t \in Seq(Seq(S)) /\ Len(t) = n + 1 /\ t[n + 1] = x
        /\ \A i \in 1..n : t[i] = s[i]
    BY <1>1, <1>2
  <1>4. n \in 0..Len(t) /\ n \in 0..(Len(t) - 1) /\ n + 1 = Len(t)
    BY <1>3
  <1>5. SubSeq(t, 1, n) = s
    <2>1. /\ SubSeq(t, 1, n) \in Seq(Seq(S)) /\ Len(SubSeq(t, 1, n)) = n
          /\ \A i \in 1..n : SubSeq(t, 1, n)[i] = t[i]
      BY <1>3, <1>4, FirstElements
    <2> QED BY <1>2, <1>3, <2>1, SeqEqual
  <1>6. SubSeq(t, 1, n + 1) = t
    BY <1>3, <1>4, SubSeqFull
  <1>7. FlattenSeq(s) \in Seq(S)
    BY FlattenParts
  <1>8. FlattenSeq(SubSeq(t, 1, n + 1)) = FlattenSeq(SubSeq(t, 1, n)) \o t[n + 1]
    BY <1>3, <1>4, <1>5, <1>7, FlattenStep
  <1> QED BY <1>1, <1>3, <1>5, <1>6, <1>8

\* Each element of the sequences put together is one of one of the sequences.
LEMMA FlattenElements ==
  ASSUME NEW S, NEW s \in Seq(Seq(S))
  PROVE  /\ \A n \in 0..(Len(s) - 1) : \A j \in 1..Len(s[n + 1]) :
              /\ EndOf(s, n) + j \in 1..Len(FlattenSeq(s))
              /\ FlattenSeq(s)[EndOf(s, n) + j] = s[n + 1][j]
         /\ \A k \in 1..Len(FlattenSeq(s)) :
              \E n \in 0..(Len(s) - 1) : \E j \in 1..Len(s[n + 1]) : k = EndOf(s, n) + j
  <1> DEFINE W == FlattenSeq(s)
             N == Len(s)
             e(n) == EndOf(s, n)
  <1>1. /\ W \in Seq(S) /\ N \in Nat /\ Len(W) \in Nat
        /\ e(0) = 0 /\ e(N) = Len(W) /\ \A n \in 0..N : e(n) \in 0..Len(W)
        /\ \A n \in 0..(N - 1) :
             e(n + 1) = e(n) + Len(s[n + 1]) /\ SubSeq(W, e(n) + 1, e(n + 1)) = s[n + 1]
    BY FlattenParts
  <1>2. \A n \in 0..(N - 1) : Len(s[n + 1]) \in Nat /\ n + 1 \in 0..N /\ n \in 0..N
    BY <1>1
  <1> HIDE DEF W, N, e
  <1>a. ASSUME NEW n \in 0..(N - 1)
        PROVE  /\ e(n) \in Nat /\ e(n + 1) \in Nat /\ e(n + 1) <= Len(W)
               /\ Len(s[n + 1]) \in Nat /\ e(n + 1) = e(n) + Len(s[n + 1])
               /\ SubSeq(W, e(n) + 1, e(n + 1)) = s[n + 1]
    <2>1. n + 1 \in 0..N /\ n \in 0..N /\ Len(s[n + 1]) \in Nat
      BY <1>2
    <2>2. e(n) \in 0..Len(W) /\ e(n + 1) \in 0..Len(W)
      BY <1>1, <2>1
    <2> QED BY <1>1, <2>1, <2>2
  <1>3. ASSUME NEW n \in 0..(N - 1), NEW j \in 1..Len(s[n + 1])
        PROVE  e(n) + j \in 1..Len(W) /\ W[e(n) + j] = s[n + 1][j]
    <2>1. /\ e(n) \in Nat /\ e(n + 1) \in 0..Len(W) /\ e(n + 1) = e(n) + Len(s[n + 1])
          /\ Len(s[n + 1]) \in Nat /\ e(n) \in 0..e(n + 1)
          /\ e(n + 1) \in Nat /\ e(n + 1) <= Len(W)
      BY <1>1, <1>a
    <2>2. \A i \in 1..(e(n + 1) - e(n)) : SubSeq(W, e(n) + 1, e(n + 1))[i] = W[e(n) + i]
      <3>1. W \in Seq(S) /\ Len(W) \in Nat
        BY <1>1
      <3>2. e(n + 1) \in 0..Len(W) /\ e(n) \in 0..e(n + 1)
        BY ONLY <2>1, <3>1
      <3> QED BY ONLY <3>1, <3>2, PieceFacts
    <2>3. j \in 1..(e(n + 1) - e(n))
      BY <2>1
    <2>4. SubSeq(W, e(n) + 1, e(n + 1)) = s[n + 1]
      BY <1>a
    <2>5. e(n) + j \in 1..Len(W)
      <3>1. Len(W) \in Nat
        BY <1>1
      <3>2. PICK l \in Nat : l = Len(s[n + 1])
        BY <2>1
      <3>3. j \in 1..l /\ e(n + 1) = e(n) + l
        BY <3>2, <2>1
      <3> QED BY ONLY <2>1, <3>1, <3>2, <3>3, j \in 1..l
    <2> QED BY <2>2, <2>3, <2>4, <2>5
  <1>4. ASSUME NEW k \in 1..Len(W)
        PROVE  \E n \in 0..(N - 1) : \E j \in 1..Len(s[n + 1]) : k = e(n) + j
    <2> DEFINE T == {n \in 0..N : k <= e(n)}
    <2>1. T \subseteq Nat /\ N \in T
      BY <1>1
    <2>2. PICK m \in T : \A n \in T : m <= n
      BY <2>1, LeastNumber
    <2>3. m # 0
      BY <1>1, <2>2
    <2>4. PICK n \in 0..(N - 1) : m = n + 1
      BY <1>1, <2>2, <2>3
    <2>5. n \notin T /\ n \in 0..N
      BY <1>1, <2>2, <2>4
    <2>6. e(n) < k /\ k <= e(n + 1)
      BY <1>1, <2>2, <2>4, <2>5
    <2>7. PICK j \in Nat : j = k - e(n)
      BY <1>1, <2>5, <2>6
    <2>8. j \in 1..Len(s[n + 1]) /\ k = e(n) + j
      <3>1. e(n) \in Nat /\ Len(s[n + 1]) \in Nat /\ e(n + 1) = e(n) + Len(s[n + 1])
        BY <1>a
      <3> QED BY <3>1, <2>6, <2>7
    <2> QED BY <2>8
  <1> QED BY <1>3, <1>4 DEF W, N, e

\* A sequence is the pieces it was cut into, put together; e[i] is where the
\* i-th piece ends.
LEMMA FlattenPieces ==
  ASSUME NEW S, NEW w \in Seq(S), NEW s \in Seq(Seq(S)), NEW e, e[0] = 0,
         \A i \in 0..Len(s) : e[i] \in 0..Len(w),
         \A i \in 1..Len(s) : e[i - 1] <= e[i] /\ s[i] = SubSeq(w, e[i - 1] + 1, e[i])
  PROVE  FlattenSeq(s) = SubSeq(w, 1, e[Len(s)])
  <1> DEFINE U(n) == FlattenSeq(SubSeq(s, 1, n))
             T == {n \in Nat : n <= Len(s) => U(n) = SubSeq(w, 1, e[n])}
  <1>1. 0 \in T
    <2>1. SubSeq(s, 1, 0) = <<>> /\ SubSeq(w, 1, 0) = <<>>
      BY FirstElements
    <2> QED BY <2>1, FlattenEmpty
  <1>2. ASSUME NEW n \in Nat, n \in T
        PROVE  n + 1 \in T
    <2> SUFFICES ASSUME n + 1 <= Len(s)
                 PROVE  U(n + 1) = SubSeq(w, 1, e[n + 1])
      OBVIOUS
    <2>1. U(n) = SubSeq(w, 1, e[n]) /\ n \in 0..(Len(s) - 1) /\ n \in 0..Len(s)
      BY <1>2
    <2>2. U(n + 1) = U(n) \o s[n + 1]
      BY <2>1, FlattenType, FlattenStep
    <2>3. /\ n + 1 \in 0..Len(s) /\ n + 1 \in 1..Len(s) /\ (n + 1) - 1 = n
          /\ e[n] \in 0..Len(w) /\ e[n + 1] \in 0..Len(w)
          /\ e[n] <= e[n + 1] /\ s[n + 1] = SubSeq(w, e[n] + 1, e[n + 1])
      <3>1. n + 1 \in 0..Len(s) /\ n + 1 \in 1..Len(s) /\ (n + 1) - 1 = n
        BY <2>1
      <3>2. /\ e[(n + 1) - 1] <= e[n + 1]
            /\ s[n + 1] = SubSeq(w, e[(n + 1) - 1] + 1, e[n + 1])
        BY <3>1
      <3> QED BY <2>1, <3>1, <3>2
    <2>4. SubSeq(w, 1, e[n]) \o SubSeq(w, e[n] + 1, e[n + 1]) = SubSeq(w, 1, e[n + 1])
      <3>1. 1 \in 1..(Len(w) + 1) /\ e[n] \in (1 - 1)..Len(w) /\ e[n + 1] \in e[n]..Len(w)
        BY <2>3
      <3> QED BY <3>1, ConcatAdjacentSubSeq
    <2> QED BY <2>1, <2>2, <2>3, <2>4
  <1>3. Nat \subseteq T
    <2> HIDE DEF T
    <2> QED BY <1>1, <1>2, Induction
  <1>4. SubSeq(s, 1, Len(s)) = s /\ Len(s) \in Nat
    BY SubSeqFull
  <1>5. Len(s) \in T
    BY <1>3, <1>4
  <1>6. U(Len(s)) = SubSeq(w, 1, e[Len(s)])
    BY <1>4, <1>5
  <1>7. U(Len(s)) = FlattenSeq(s)
    BY <1>4, Zenon
  <1> HIDE DEF U
  <1> QED BY <1>6, <1>7

-----------------------------------------------------------------------------
(* Channels.                                                               *)

LEMMA SendFacts ==
  ASSUME NEW S, NEW q \in Seq(S), NEW m \in S
  PROVE  /\ Append(q, m) \in Seq(S) /\ Append(q, m) # <<>>
         /\ Places(Append(q, m)) = Places(q) \cup {m.idx}
  <1>1. /\ Append(q, m) \in Seq(S) /\ Len(Append(q, m)) = Len(q) + 1 /\ Len(q) \in Nat
        /\ \A i \in 1..Len(q) : Append(q, m)[i] = q[i]
        /\ Append(q, m)[Len(q) + 1] = m
    BY AppendProperties
  <1>2. 1..Len(Append(q, m)) = (1..Len(q)) \cup {Len(q) + 1}
    BY <1>1
  <1>3. Places(Append(q, m)) = Places(q) \cup {m.idx}
    BY <1>1, <1>2, Zenon DEF Places
  <1> QED BY <1>1, <1>3

LEMMA RecvFacts ==
  ASSUME NEW S, NEW q \in Seq(S), q # <<>>
  PROVE  /\ Head(q) \in S /\ Tail(q) \in Seq(S)
         /\ Places(q) = Places(Tail(q)) \cup {Head(q).idx}
  <1>1. /\ Head(q) \in S /\ Head(q) = q[1]
        /\ Tail(q) \in Seq(S) /\ Len(Tail(q)) = Len(q) - 1 /\ Len(q) \in Nat \ {0}
        /\ \A i \in 1..(Len(q) - 1) : Tail(q)[i] = q[i + 1]
    OBVIOUS
  <1>2. ASSUME NEW k
        PROVE  k \in Places(q) <=> k \in Places(Tail(q)) \cup {Head(q).idx}
    <2>1. ASSUME NEW i \in 1..Len(q), k = q[i].idx
          PROVE  k \in Places(Tail(q)) \cup {Head(q).idx}
      <3>1. CASE i = 1
        BY <1>1, <2>1, <3>1
      <3>2. CASE i # 1
        <4>1. i - 1 \in 1..Len(Tail(q)) /\ Tail(q)[i - 1] = q[i]
          BY <1>1, <3>2
        <4> QED BY <2>1, <4>1 DEF Places
      <3> QED BY <3>1, <3>2
    <2>2. ASSUME NEW i \in 1..Len(Tail(q)), k = Tail(q)[i].idx
          PROVE  k \in Places(q)
      <3>1. i + 1 \in 1..Len(q) /\ Tail(q)[i] = q[i + 1]
        BY <1>1
      <3> QED BY <2>2, <3>1 DEF Places
    <2>3. Head(q).idx \in Places(q)
      BY <1>1 DEF Places
    <2> QED BY <2>1, <2>2, <2>3 DEF Places
  <1> QED BY <1>1, <1>2

-----------------------------------------------------------------------------
\* Division.
LEMMA Quotient ==
  ASSUME NEW a \in Nat, NEW b \in Nat \ {0}, NEW q \in Nat, q * b <= a, a < q * b + b
  PROVE  a \div b = q
  OBVIOUS

-----------------------------------------------------------------------------
(* Sequences that are cut, put together and flattened once more.           *)

\* A function that lists n elements is a sequence.
LEMMA MakeSequence ==
  ASSUME NEW S, NEW n \in Nat, NEW f, DOMAIN f = 1..n, f = [i \in 1..n |-> f[i]],
         \A i \in 1..n : f[i] \in S
  PROVE  f \in Seq(S) /\ Len(f) = n /\ (f = <<>> <=> n = 0)
  <1>1. f \in [1..n -> S]
    OBVIOUS
  <1> QED BY <1>1

\* A sequence after another one.
LEMMA JoinFacts ==
  ASSUME NEW S, NEW c \in Seq(S), NEW d \in Seq(S)
  PROVE  /\ c \o d \in Seq(S) /\ Len(c \o d) = Len(c) + Len(d)
         /\ Len(c) \in Nat /\ Len(d) \in Nat
         /\ (c = <<>> <=> Len(c) = 0) /\ (d = <<>> <=> Len(d) = 0)
         /\ \A k \in 1..Len(c) : (c \o d)[k] = c[k]
         /\ \A k \in 1..Len(d) : (c \o d)[Len(c) + k] = d[k]
  OBVIOUS

\* The same, for a name of it.
LEMMA JoinParts ==
  ASSUME NEW S, NEW a, NEW b, NEW c, a \in Seq(S), b \in Seq(S), c = a \o b
  PROVE  /\ c \in Seq(S) /\ Len(c) = Len(a) + Len(b) /\ Len(a) \in Nat /\ Len(b) \in Nat
         /\ \A k \in 1..Len(a) : c[k] = a[k]
         /\ \A k \in 1..Len(b) : c[Len(a) + k] = b[k]
  BY JoinFacts

\* PieceFacts, for a name of the piece.
LEMMA PieceAt ==
  ASSUME NEW S, NEW w, NEW a, NEW b, NEW c,
         w \in Seq(S), b \in 0..Len(w), a \in 0..b, c = SubSeq(w, a + 1, b)
  PROVE  /\ c \in Seq(S) /\ Len(c) = b - a /\ (c = <<>> <=> a = b)
         /\ \A i \in 1..(b - a) : c[i] = w[a + i]
  BY PieceFacts

\* Equal sequences.
LEMMA SameSequence ==
  ASSUME NEW S, NEW c \in Seq(S), NEW d \in Seq(S), Len(c) = Len(d),
         \A i \in 1..Len(c) : c[i] = d[i]
  PROVE  c = d
  OBVIOUS

\* Putting together is associative.
LEMMA JoinOfJoin ==
  ASSUME NEW S, NEW a \in Seq(S), NEW b \in Seq(S), NEW c \in Seq(S)
  PROVE  (a \o b) \o c = a \o (b \o c) /\ a \o <<>> = a /\ <<>> \o a = a
  BY ConcatAssociative, ConcatEmptySeq

\* Of single elements.
LEMMA JoinOnes ==
  ASSUME NEW a, NEW b
  PROVE  <<a>> \o <<b>> = <<a, b>> /\ <<>> \o <<b>> = <<b>>
  <1>1. PICK c, d, e : c = <<a>> /\ d = <<b>> /\ e = c \o d
    OBVIOUS
  <1>2. c \in Seq({a, b}) /\ d \in Seq({a, b}) /\ Len(c) = 1 /\ Len(d) = 1 /\ c[1] = a /\ d[1] = b
    BY <1>1
  <1>3. e \in Seq({a, b}) /\ Len(e) = 2 /\ e[1] = a /\ e[2] = b
    BY <1>1, <1>2
  <1>4. e = <<a, b>>
    BY ONLY <1>3
  <1>5. <<>> \o d = d
    BY <1>2, ConcatEmptySeq
  <1> QED BY <1>1, <1>4, <1>5

\* A sequence of one or two elements is made of them.
LEMMA ShortSequence ==
  ASSUME NEW S, NEW u, u \in Seq(S)
  PROVE  /\ Len(u) = 1 => u = <<u[1]>>
         /\ Len(u) = 2 => u = <<u[1], u[2]>>
  OBVIOUS

\* Pieces of one and of two.
LEMMA ShortPieces ==
  ASSUME NEW S, NEW s, NEW i, s \in Seq(S), i \in 1..Len(s)
  PROVE  /\ SubSeq(s, (i - 1) + 1, i) = <<s[i]>>
         /\ i > 1 => SubSeq(s, (i - 2) + 1, i) = <<s[i - 1], s[i]>>
  <1>1. PICK u, a : u = SubSeq(s, a + 1, i) /\ a = i - 1
    OBVIOUS
  <1>2. i \in 0..Len(s) /\ a \in 0..i /\ i - a = 1 /\ a + 1 = i
    BY <1>1
  <1>3. u \in Seq(S) /\ Len(u) = i - a /\ \A j \in 1..(i - a) : u[j] = s[a + j]
    BY <1>1, <1>2, PieceFacts
  <1>4. Len(u) = 1 /\ u[1] = s[i]
    BY <1>2, <1>3
  <1>5. u = <<u[1]>>
    BY <1>3, <1>4, ShortSequence
  <1>6. ASSUME i > 1
        PROVE  SubSeq(s, (i - 2) + 1, i) = <<s[i - 1], s[i]>>
    <2>1. PICK v, d : v = SubSeq(s, d + 1, i) /\ d = i - 2
      OBVIOUS
    <2>2. i \in 0..Len(s) /\ d \in 0..i /\ i - d = 2 /\ d + 1 = i - 1 /\ d + 2 = i
      BY <1>6, <2>1
    <2>3. v \in Seq(S) /\ Len(v) = i - d /\ \A j \in 1..(i - d) : v[j] = s[d + j]
      BY <2>1, <2>2, PieceFacts
    <2>4. Len(v) = 2 /\ v[1] = s[i - 1] /\ v[2] = s[i]
      BY <2>2, <2>3
    <2>5. v = <<v[1], v[2]>>
      BY <2>3, <2>4, ShortSequence
    <2> QED BY <2>1, <2>4, <2>5
  <1> QED BY <1>1, <1>4, <1>5, <1>6

\* The piece that is all of it.
LEMMA WholePiece ==
  ASSUME NEW S, NEW s, s \in Seq(S)
  PROVE  SubSeq(s, 1, Len(s)) = s
  BY SubSeqFull

\* Two lists of sequences put together.
LEMMA FlattenJoin ==
  ASSUME NEW S, NEW s, NEW t, s \in Seq(Seq(S)), t \in Seq(Seq(S))
  PROVE  FlattenSeq(s \o t) = FlattenSeq(s) \o FlattenSeq(t)
  <1> DEFINE T == {n \in Nat : n <= Len(t) =>
                     FlattenSeq(s \o SubSeq(t, 1, n)) = FlattenSeq(s) \o FlattenSeq(SubSeq(t, 1, n))}
  <1>0. FlattenSeq(s) \in Seq(S) /\ Len(t) \in Nat
    BY FlattenParts
  <1>1. 0 \in T
    <2>1. SubSeq(t, 1, 0) = <<>>
      BY FirstElements
    <2>2. s \o <<>> = s /\ FlattenSeq(s) \o <<>> = FlattenSeq(s)
      BY <1>0, ConcatEmptySeq
    <2> QED BY <2>1, <2>2, FlattenEmpty
  <1>2. ASSUME NEW n \in Nat, n \in T
        PROVE  n + 1 \in T
    <2> SUFFICES ASSUME n + 1 <= Len(t)
                 PROVE  FlattenSeq(s \o SubSeq(t, 1, n + 1)) = FlattenSeq(s) \o FlattenSeq(SubSeq(t, 1, n + 1))
      OBVIOUS
    <2>0. PICK a, b, x : a = SubSeq(t, 1, n) /\ b = SubSeq(t, 1, n + 1) /\ x = t[n + 1]
      OBVIOUS
    <2>1. n \in 0..(Len(t) - 1) /\ n \in 0..Len(t) /\ n + 1 \in 0..Len(t) /\ n + 1 \in 1..Len(t)
      BY <1>0
    <2>2. a \in Seq(Seq(S)) /\ b \in Seq(Seq(S)) /\ x \in Seq(S) /\ Len(a) = n /\ Len(b) = n + 1
          /\ (\A i \in 1..n : a[i] = t[i]) /\ (\A i \in 1..(n + 1) : b[i] = t[i])
      BY <2>0, <2>1, FirstElements, ElementOfSeq
    <2>3. s \o b = Append(s \o a, x)
      <3>1. b = Append(a, x)
        BY <2>0, <2>2
      <3> QED BY ONLY <2>2, <3>1, s \in Seq(Seq(S))
    <2>4. FlattenSeq(s \o b) = FlattenSeq(s \o a) \o x
      <3>1. s \o a \in Seq(Seq(S))
        BY <2>2, ConcatProperties
      <3> QED BY <2>2, <2>3, <3>1, FlattenAppend
    <2>5. FlattenSeq(s \o a) = FlattenSeq(s) \o FlattenSeq(a)
      BY <1>2, <2>0, <2>1
    <2>6. FlattenSeq(b) = FlattenSeq(a) \o x /\ FlattenSeq(a) \in Seq(S)
      BY <2>0, <2>1, <2>2, FlattenStep, FlattenType
    <2>7. PICK c, d : c = FlattenSeq(s) /\ d = FlattenSeq(a)
      OBVIOUS
    <2>8. c \in Seq(S) /\ d \in Seq(S) /\ x \in Seq(S)
      BY <1>0, <2>2, <2>6, <2>7
    <2>9. (c \o d) \o x = c \o (d \o x)
      BY ONLY <2>8, ConcatAssociative
    <2> QED BY <2>0, <2>4, <2>5, <2>6, <2>7, <2>9
  <1>3. Len(t) \in T
    <2> HIDE DEF T
    <2> QED BY <1>0, <1>1, <1>2, Induction
  <1>4. SubSeq(t, 1, Len(t)) = t
    <2>1. PICK u, R : u = SubSeq(t, 1, Len(t)) /\ R = Seq(S)
      OBVIOUS
    <2>2. u \in Seq(R) /\ t \in Seq(R) /\ Len(u) = Len(t) /\ \A i \in 1..Len(u) : u[i] = t[i]
      BY <1>0, <2>1, FirstElements
    <2>3. u = t
      BY ONLY <2>2, SameSequence
    <2> QED BY <2>1, <2>3
  <1>5. FlattenSeq(s \o SubSeq(t, 1, Len(t))) = FlattenSeq(s) \o FlattenSeq(SubSeq(t, 1, Len(t)))
    BY <1>0, <1>3
  <1> QED BY <1>4, <1>5

\* A single sequence.
LEMMA FlattenOne ==
  ASSUME NEW S, NEW x, NEW s, x \in Seq(S), s \in Seq(Seq(S)), Len(s) = 1, s[1] = x
  PROVE  FlattenSeq(s) = x
  <1>1. s = Append(<<>>, x)
    OBVIOUS
  <1>2. <<>> \in Seq(Seq(S))
    OBVIOUS
  <1>3. FlattenSeq(s) = <<>> \o x
    BY <1>1, <1>2, FlattenAppend, FlattenEmpty
  <1> QED BY <1>3, ConcatEmptySeq

\* f[k] is the sum of the first k lengths.
StartSums(f, segs, n) == f = [k \in 0..n |-> IF k = 0 THEN 0 ELSE f[k - 1] + segs[k].len]

\* There are such sums.
LEMMA StartSumsExist ==
  ASSUME NEW segs, NEW n \in Nat
  PROVE  \E f : StartSums(f, segs, n)
  <1> DEFINE S == {m \in Nat : \E f : StartSums(f, segs, m)}
  <1>1. 0 \in S
    <2>1. StartSums([k \in 0..0 |-> 0], segs, 0)
      BY DEF StartSums
    <2> QED BY <2>1
  <1>2. ASSUME NEW m \in Nat, m \in S
        PROVE  m + 1 \in S
    <2>1. PICK f : StartSums(f, segs, m)
      BY <1>2
    <2> DEFINE g == [k \in 0..(m + 1) |-> IF k \in 0..m THEN f[k] ELSE f[m] + segs[k].len]
    <2>2. \A k \in 0..(m + 1) : g[k] = IF k = 0 THEN 0 ELSE g[k - 1] + segs[k].len
      <3> TAKE k \in 0..(m + 1)
      <3>1. CASE k \in 0..m
        <4>1. g[k] = f[k] /\ (k # 0 => k - 1 \in 0..(m + 1) /\ g[k - 1] = f[k - 1])
          BY <3>1
        <4>2. f[k] = IF k = 0 THEN 0 ELSE f[k - 1] + segs[k].len
          BY <2>1, <3>1 DEF StartSums
        <4> QED BY <4>1, <4>2
      <3>2. CASE k \notin 0..m
        <4>1. k = m + 1 /\ k # 0 /\ k - 1 = m /\ k - 1 \in 0..m
          BY <3>2
        <4> QED BY <3>2, <4>1
      <3> QED BY <3>1, <3>2
    <2>3. StartSums(g, segs, m + 1)
      BY <2>2 DEF StartSums
    <2> QED BY <2>3
  <1>3. Nat \subseteq S
    <2> HIDE DEF S
    <2> QED BY <1>1, <1>2, Induction
  <1> QED BY <1>3

\* They grow with the index.
LEMMA StartSumsFacts ==
  ASSUME NEW segs, NEW n \in Nat, NEW f, StartSums(f, segs, n), \A k \in 1..n : segs[k].len \in Nat
  PROVE  /\ f[0] = 0 /\ \A k \in 0..n : f[k] \in Nat
         /\ \A k \in 1..n : f[k] = f[k - 1] + segs[k].len
         /\ \A i \in 0..n : \A k \in i..n : f[i] <= f[k]
  <1>4. f[0] = 0 /\ \A k \in 1..n : f[k] = f[k - 1] + segs[k].len
    <2>1. 0 \in 0..n /\ \A k \in 1..n : k \in 0..n /\ k # 0
      OBVIOUS
    <2>2. \A k \in 0..n : f[k] = IF k = 0 THEN 0 ELSE f[k - 1] + segs[k].len
      BY DEF StartSums
    <2> QED BY <2>1, <2>2
  <1>5. \A k \in 0..n : f[k] \in Nat
    <2> DEFINE S == {k \in Nat : k \in 0..n => f[k] \in Nat}
    <2>1. 0 \in S
      BY <1>4
    <2>2. ASSUME NEW k \in Nat, k \in S
          PROVE  k + 1 \in S
      <3>1. CASE k + 1 \in 0..n
        <4>1. k \in 0..n /\ k + 1 \in 1..n /\ (k + 1) - 1 = k
          BY <3>1
        <4> QED BY <2>2, <4>1, <1>4
      <3> QED BY <3>1
    <2>3. Nat \subseteq S
      <3> HIDE DEF S
      <3> QED BY <2>1, <2>2, Induction
    <2> QED BY <2>3
  <1>6. ASSUME NEW i \in 0..n
        PROVE  \A k \in i..n : f[i] <= f[k]
    <2> DEFINE S == {k \in Nat : k \in i..n => f[i] <= f[k]}
    <2>1. 0 \in S
      BY <1>5
    <2>2. ASSUME NEW k \in Nat, k \in S
          PROVE  k + 1 \in S
      <3>1. CASE k + 1 \in i..n /\ k + 1 # i
        <4>1. k \in i..n /\ k + 1 \in 1..n /\ (k + 1) - 1 = k /\ k \in 0..n
          BY <3>1
        <4>2. f[k] \in Nat /\ f[i] \in Nat /\ f[i] <= f[k] /\ f[k + 1] = f[k] + segs[k + 1].len
              /\ segs[k + 1].len \in Nat
          BY <2>2, <4>1, <1>4, <1>5
        <4> QED BY <4>2
      <3>2. CASE k + 1 = i
        <4>1. f[i] \in Nat
          BY <1>5
        <4> QED BY <3>2, <4>1
      <3> QED BY <3>1, <3>2
    <2>3. Nat \subseteq S
      <3> HIDE DEF S
      <3> QED BY <2>1, <2>2, Induction
    <2> QED BY <2>3
  <1> QED BY <1>4, <1>5, <1>6

\* What is in a list with one more element.
LEMMA RangeAppend ==
  ASSUME NEW S, NEW s, s \in Seq(S), NEW x
  PROVE  /\ Range(Append(s, x)) = Range(s) \cup {x} /\ Len(Append(s, x)) = Len(s) + 1
         /\ Len(s) \in Nat
         /\ \A i \in 1..Len(s) : Append(s, x)[i] = s[i] /\ s[i] \in Range(s)
         /\ Append(s, x)[Len(s) + 1] = x
         /\ \A y \in Range(s) : \E i \in 1..Len(s) : y = s[i]
  <1>1. s \in Seq(S \cup {x})
    BY SeqMonotonic
  <1>2. /\ DOMAIN s = 1..Len(s) /\ Len(s) \in Nat
        /\ DOMAIN Append(s, x) = 1..(Len(s) + 1) /\ Len(Append(s, x)) = Len(s) + 1
        /\ \A i \in 1..Len(s) : Append(s, x)[i] = s[i]
        /\ Append(s, x)[Len(s) + 1] = x
    BY <1>1, AppendProperties, LenProperties
  <1>3. \A y : y \in Range(s) <=> \E i \in 1..Len(s) : y = s[i]
    BY <1>2 DEF Range
  <1>4. \A y : y \in Range(Append(s, x)) <=> \E i \in 1..(Len(s) + 1) : y = Append(s, x)[i]
    BY <1>2 DEF Range
  <1>5. \A i \in 1..(Len(s) + 1) : i \in 1..Len(s) \/ i = Len(s) + 1
    BY <1>2
  <1>6. \A i \in 1..Len(s) : i \in 1..(Len(s) + 1)
    BY <1>2
  <1>7. Len(s) + 1 \in 1..(Len(s) + 1)
    BY <1>2
  <1>8. ASSUME NEW y
        PROVE  y \in Range(Append(s, x)) <=> y \in Range(s) \cup {x}
    BY <1>2, <1>3, <1>4, <1>5, <1>6, <1>7
  <1> QED BY <1>2, <1>3, <1>8

\* What is in a list and in its tail.
LEMMA RangeTail ==
  ASSUME NEW S, NEW s, s \in Seq(S), s # <<>>
  PROVE  /\ Len(s) \in Nat \ {0} /\ Head(s) = s[1] /\ Head(s) \in Range(s)
         /\ Tail(s) \in Seq(S) /\ Len(Tail(s)) = Len(s) - 1
         /\ \A i \in 1..(Len(s) - 1) : Tail(s)[i] = s[i + 1]
         /\ \A y : y \in Range(s) <=> \E i \in 1..Len(s) : y = s[i]
         /\ \A y : y \in Range(Tail(s)) <=> \E i \in 1..(Len(s) - 1) : y = s[i + 1]
  <1>1. Len(s) \in Nat \ {0} /\ DOMAIN s = 1..Len(s) /\ Head(s) = s[1]
        /\ Tail(s) \in Seq(S) /\ Len(Tail(s)) = Len(s) - 1
        /\ \A i \in 1..(Len(s) - 1) : Tail(s)[i] = s[i + 1]
    BY HeadTailProperties, LenProperties, EmptySeq
  <1>2. DOMAIN Tail(s) = 1..(Len(s) - 1)
    BY <1>1, LenProperties
  <1>3. \A y : y \in Range(s) <=> \E i \in 1..Len(s) : y = s[i]
    BY <1>1 DEF Range
  <1>4. \A y : y \in Range(Tail(s)) <=> \E i \in 1..(Len(s) - 1) : y = s[i + 1]
    BY <1>1, <1>2 DEF Range
  <1>5. 1 \in 1..Len(s)
    BY <1>1
  <1> QED BY <1>1, <1>3, <1>4, <1>5
=============================================================================
