----------------------------- MODULE KrpcProofs -----------------------------
(***************************************************************************)
(* Theorems about Krpc.                                                    *)
(***************************************************************************)
EXTENDS Krpc, FiniteSetTheorems, WellFoundedInduction, SequenceTheorems, TLAPS

LEMMA LeastIs ==
  ASSUME NEW T \in SUBSET Nat, T # {}
  PROVE  \E m \in T : \A n \in T : m <= n
<1> DEFINE R == OpToRel(<, Nat)
<1>1. IsWellFoundedOn(R, Nat)
  BY NatLessThanWellFounded
<1>2. \A x, y \in Nat : <<x, y>> \in R <=> x < y
  BY DEF OpToRel
<1> HIDE DEF R
<1>3. PICK m \in T : \A n \in T : ~(<<n, m>> \in R)
  BY <1>1, WFMin
<1>4. ASSUME NEW n \in T
      PROVE  m <= n
  <2>1. m \in Nat /\ n \in Nat /\ ~ (n < m)
    BY <1>2, <1>3
  <2> QED
    BY <2>1
<1> QED
  BY <1>4

-----------------------------------------------------------------------------
(* Sequences. *)

(* A sequence of whatever it holds. *)
IsSeq(s) == s \in Seq(Range(s))

LEMMA SeqIs ==
  ASSUME NEW s, IsSeq(s)
  PROVE  Len(s) \in Nat /\ DOMAIN s = 1..Len(s) /\ s = [i \in 1..Len(s) |-> s[i]]
BY LenProperties DEF IsSeq

LEMMA SeqIsSeq ==
  ASSUME NEW S, NEW s \in Seq(S)
  PROVE  IsSeq(s)
<1>1. /\ Len(s) \in Nat /\ DOMAIN s = 1..Len(s) /\ s \in [1..Len(s) -> S]
  BY LenProperties
<1>2. s \in [1..Len(s) -> Range(s)]
  BY <1>1 DEF Range
<1> QED
  BY <1>1, <1>2, SeqDef DEF IsSeq

LEMMA FunctionIsSeq ==
  ASSUME NEW n \in Nat, NEW s, s = [i \in 1..n |-> s[i]]
  PROVE  IsSeq(s) /\ Len(s) = n
<1>1. s \in [1..n -> Range(s)]
  BY DEF Range
<1>2. s \in Seq(Range(s))
  BY <1>1, SeqDef
<1>3. DOMAIN s = 1..n /\ Len(s) \in Nat /\ DOMAIN s = 1..Len(s)
  BY <1>1, <1>2, LenProperties
<1> QED
  BY <1>2, <1>3 DEF IsSeq

LEMMA SameSeq ==
  ASSUME NEW s, NEW t, IsSeq(s), IsSeq(t), Len(s) = Len(t),
         \A i \in 1..Len(s) : s[i] = t[i]
  PROVE  s = t
BY SeqIs

LEMMA CatIs ==
  ASSUME NEW s, NEW t, IsSeq(s), IsSeq(t)
  PROVE  /\ IsSeq(s \o t) /\ Len(s \o t) = Len(s) + Len(t)
         /\ \A i \in 1..Len(s) + Len(t) :
              (s \o t)[i] = IF i <= Len(s) THEN s[i] ELSE t[i - Len(s)]
<1> DEFINE S == Range(s) \cup Range(t)
<1>1. s \in Seq(S) /\ t \in Seq(S)
  <2>1. Range(s) \subseteq S /\ Range(t) \subseteq S
    OBVIOUS
  <2> HIDE DEF S
  <2> QED
    BY <2>1, SeqMonotonic DEF IsSeq
<1> HIDE DEF S
<1> QED
  BY <1>1, ConcatProperties, SeqIsSeq

LEMMA TuplesAreSeqs ==
  /\ IsSeq(<<>>) /\ Len(<<>>) = 0
  /\ \A a : IsSeq(<<a>>) /\ Len(<<a>>) = 1
  /\ \A a, b : IsSeq(<<a, b>>) /\ Len(<<a, b>>) = 2
  /\ \A a, b, c : IsSeq(<<a, b, c>>) /\ Len(<<a, b, c>>) = 3
  /\ \A a, b, c, d : IsSeq(<<a, b, c, d>>) /\ Len(<<a, b, c, d>>) = 4
  /\ \A a, b, c, d, e : IsSeq(<<a, b, c, d, e>>) /\ Len(<<a, b, c, d, e>>) = 5
<1>1. IsSeq(<<>>)
  BY SeqIsSeq, EmptySeq
<1>2. ASSUME NEW a PROVE IsSeq(<<a>>)
  <2>1. <<a>> \in Seq({a})
    OBVIOUS
  <2> QED
    BY <2>1, SeqIsSeq
<1>3. ASSUME NEW a, NEW b PROVE IsSeq(<<a, b>>)
  <2>1. <<a, b>> \in Seq({a, b})
    OBVIOUS
  <2> QED
    BY <2>1, SeqIsSeq
<1>4. ASSUME NEW a, NEW b, NEW c PROVE IsSeq(<<a, b, c>>)
  <2>1. <<a, b, c>> \in Seq({a, b, c})
    OBVIOUS
  <2> QED
    BY <2>1, SeqIsSeq
<1>5. ASSUME NEW a, NEW b, NEW c, NEW d PROVE IsSeq(<<a, b, c, d>>)
  <2>1. <<a, b, c, d>> \in Seq({a, b, c, d})
    OBVIOUS
  <2> QED
    BY <2>1, SeqIsSeq
<1>6. ASSUME NEW a, NEW b, NEW c, NEW d, NEW e PROVE IsSeq(<<a, b, c, d, e>>)
  <2>1. <<a, b, c, d, e>> \in Seq({a, b, c, d, e})
    OBVIOUS
  <2> QED
    BY <2>1, SeqIsSeq
<1> QED
  BY <1>1, <1>2, <1>3, <1>4, <1>5, <1>6

-----------------------------------------------------------------------------
(* Sequences that are put together from others. *)

Parts(ss) == IsSeq(ss) /\ \A i \in 1..Len(ss) : IsSeq(ss[i])

(* f[i] is what the first i of them make. *)
Joins(f, ss) ==
  /\ f[0] = <<>>
  /\ \A i \in 1..Len(ss) : f[i] = f[i - 1] \o ss[i]

LEMMA FlattenExists ==
  ASSUME NEW ss, NEW m \in Nat
  PROVE  \E f : f = [i \in 1..m |-> IF i = 1 THEN ss[i] ELSE f[i - 1] \o ss[i]]
<1> DEFINE Meets(f, n) == f = [i \in 1..n |-> IF i = 1 THEN ss[i] ELSE f[i - 1] \o ss[i]]
           Bad == {n \in Nat : ~ \E f : Meets(f, n)}
<1>1. SUFFICES ASSUME Bad # {} PROVE FALSE
  OBVIOUS
<1>2. PICK n \in Bad : \A k \in Bad : n <= k
  <2>1. Bad \in SUBSET Nat
    OBVIOUS
  <2> HIDE DEF Bad
  <2> QED
    BY <1>1, <2>1, LeastIs
<1>3. n \in Nat /\ n # 0
  <2>1. Meets([i \in 1..0 |-> ss[i]], 0)
    OBVIOUS
  <2> QED
    BY <2>1
<1>4. PICK g : Meets(g, n - 1)
  <2>1. n - 1 \in Nat /\ ~ (n <= n - 1)
    BY <1>3
  <2>2. n - 1 \notin Bad
    <3> HIDE DEF Bad
    <3> QED
      BY <1>2, <2>1
  <2> QED
    BY <2>1, <2>2
<1> DEFINE f == [i \in 1..n |->
             IF i <= n - 1 THEN g[i] ELSE IF i = 1 THEN ss[i] ELSE g[i - 1] \o ss[i]]
<1>5. Meets(f, n)
  <2>1. \A i \in 1..(n - 1) : g[i] = IF i = 1 THEN ss[i] ELSE g[i - 1] \o ss[i]
    BY <1>4
  <2>2. ASSUME NEW i \in 1..n
        PROVE  f[i] = IF i = 1 THEN ss[i] ELSE f[i - 1] \o ss[i]
    <3>1. f[i] = IF i <= n - 1 THEN g[i] ELSE IF i = 1 THEN ss[i] ELSE g[i - 1] \o ss[i]
      OBVIOUS
    <3>2. i # 1 => f[i - 1] = g[i - 1]
      BY <1>3
    <3>3. i <= n - 1 => g[i] = IF i = 1 THEN ss[i] ELSE g[i - 1] \o ss[i]
      BY <1>3, <2>1
    <3> HIDE DEF f
    <3> QED
      BY <3>1, <3>2, <3>3
  <2> QED
    BY <2>2
<1> QED
  BY <1>2, <1>5

LEMMA FlattenIs ==
  ASSUME NEW ss, Parts(ss)
  PROVE  \E f : Joins(f, ss) /\ FlattenSeq(ss) = f[Len(ss)]
<1>1. Len(ss) \in Nat
  BY SeqIs DEF Parts
<1>2. CASE Len(ss) = 0
  <2> DEFINE f == [i \in {0} |-> <<>>]
  <2>1. ss = <<>>
    BY <1>2, SeqIs, TuplesAreSeqs, SameSeq DEF Parts
  <2>2. FlattenSeq(ss) = f[Len(ss)]
    BY <1>2, <2>1 DEF FlattenSeq
  <2>3. Joins(f, ss)
    BY <1>2 DEF Joins
  <2> QED
    BY <2>2, <2>3
<1>3. CASE Len(ss) # 0
  <2> DEFINE n == Len(ss)
             Meets(g) == g = [i \in 1..n |-> IF i = 1 THEN ss[i] ELSE g[i - 1] \o ss[i]]
             g == CHOOSE h : Meets(h)
  <2>1. FlattenSeq(ss) = g[n]
    BY <1>3 DEF FlattenSeq
  <2>2. Meets(g)
    <3>1. \E h : Meets(h)
      BY <1>1, FlattenExists
    <3> HIDE DEF Meets
    <3> QED
      BY <3>1
  <2> HIDE DEF g
  <2>3. \A i \in 1..n : g[i] = IF i = 1 THEN ss[i] ELSE g[i - 1] \o ss[i]
    BY <2>2
  <2> HIDE DEF Meets, n
  <2> DEFINE f == [i \in 0..n |-> IF i = 0 THEN <<>> ELSE g[i]]
  <2>4. f[0] = <<>>
    BY <1>1 DEF n
  <2>5. ASSUME NEW i \in 1..n
        PROVE  f[i] = f[i - 1] \o ss[i]
    <3>1. f[i] = g[i]
      OBVIOUS
    <3>2. CASE i = 1
      <4>1. IsSeq(ss[1])
        BY <3>2 DEF Parts, n
      <4>2. <<>> \o ss[1] = ss[1]
        BY <4>1, ConcatEmptySeq DEF IsSeq
      <4>3. f[i - 1] = <<>>
        BY <1>1, <3>2 DEF n
      <4> HIDE DEF f
      <4> QED
        BY <3>1, <3>2, <4>2, <4>3, <2>3
    <3>3. CASE i # 1
      <4>1. f[i - 1] = g[i - 1]
        BY <1>1, <3>3 DEF n
      <4> HIDE DEF f
      <4> QED
        BY <3>1, <3>3, <4>1, <2>3
    <3> QED
      BY <3>2, <3>3
  <2>6. f[n] = g[n]
    BY <1>1, <1>3 DEF n
  <2> HIDE DEF f
  <2>7. Joins(f, ss)
    BY <2>4, <2>5 DEF Joins, n
  <2> QED
    BY <2>1, <2>6, <2>7 DEF n
<1> QED
  BY <1>2, <1>3

LEMMA JoinsAre ==
  ASSUME NEW ss, Parts(ss), NEW f, Joins(f, ss)
  PROVE  \A i \in 0..Len(ss) : IsSeq(f[i])
<1> DEFINE Bad == {i \in 0..Len(ss) : ~ IsSeq(f[i])}
<1>0. Len(ss) \in Nat
  BY SeqIs DEF Parts
<1>1. SUFFICES ASSUME Bad # {} PROVE FALSE
  OBVIOUS
<1>2. PICK i \in Bad : \A k \in Bad : i <= k
  <2>1. Bad \in SUBSET Nat
    BY <1>0
  <2> HIDE DEF Bad
  <2> QED
    BY <1>1, <2>1, LeastIs
<1>3. i \in 0..Len(ss) /\ ~ IsSeq(f[i])
  OBVIOUS
<1>4. i # 0
  BY <1>3, TuplesAreSeqs DEF Joins
<1>5. i \in 1..Len(ss) /\ i - 1 \in 0..Len(ss) /\ ~ (i <= i - 1)
  BY <1>0, <1>3, <1>4
<1>6. IsSeq(f[i - 1])
  <2>1. i - 1 \notin Bad
    <3> HIDE DEF Bad
    <3> QED
      BY <1>2, <1>5
  <2> QED
    BY <1>5, <2>1
<1>7. IsSeq(f[i])
  <2>1. f[i] = f[i - 1] \o ss[i] /\ IsSeq(ss[i])
    BY <1>5 DEF Joins, Parts
  <2> QED
    BY <1>6, <2>1, CatIs
<1> QED
  BY <1>3, <1>7

(* Where each of the parts of s lies. *)
Offsets(off, ss, s) ==
  /\ IsSeq(s) /\ Len(s) = off[Len(ss)]
  /\ off \in [0..Len(ss) -> Nat] /\ off[0] = 0
  /\ \A i \in 1..Len(ss) : off[i] = off[i - 1] + Len(ss[i])
  /\ \A i \in 1..Len(ss) : \A m \in 1..Len(ss[i]) :
       off[i - 1] + m \in 1..Len(s) /\ s[off[i - 1] + m] = ss[i][m]
  /\ \A p \in 1..Len(s) : \E i \in 1..Len(ss) : p - off[i - 1] \in 1..Len(ss[i])

LEMMA FlattenAt ==
  ASSUME NEW ss, Parts(ss)
  PROVE  IsSeq(FlattenSeq(ss)) /\ \E off : Offsets(off, ss, FlattenSeq(ss))
<1>1. PICK f : Joins(f, ss) /\ FlattenSeq(ss) = f[Len(ss)]
  BY FlattenIs
<1> DEFINE n == Len(ss)
           off == [i \in 0..n |-> Len(f[i])]
<1>2. n \in Nat /\ \A i \in 0..n : IsSeq(f[i]) /\ Len(f[i]) \in Nat
  BY <1>1, JoinsAre, SeqIs DEF Parts
<1>3. \A i \in 1..n : IsSeq(ss[i]) /\ Len(ss[i]) \in Nat
  BY SeqIs DEF Parts
<1>4. off[0] = 0
  BY <1>1, <1>2, TuplesAreSeqs DEF Joins
<1>5. ASSUME NEW i \in 1..n
      PROVE  /\ i - 1 \in 0..n /\ i \in 0..n
             /\ off[i] = off[i - 1] + Len(ss[i])
             /\ f[i] = f[i - 1] \o ss[i]
             /\ \A p \in 1..off[i] :
                  f[i][p] = IF p <= off[i - 1] THEN f[i - 1][p] ELSE ss[i][p - off[i - 1]]
  <2>1. i - 1 \in 0..n /\ i \in 0..n
    BY <1>2
  <2>2. off[i] = Len(f[i]) /\ off[i - 1] = Len(f[i - 1])
    BY <2>1
  <2>3. f[i] = f[i - 1] \o ss[i]
    BY <1>1 DEF Joins
  <2>4. IsSeq(f[i - 1]) /\ IsSeq(ss[i])
    BY <2>1, <1>2, <1>3
  <2>5. /\ Len(f[i]) = Len(f[i - 1]) + Len(ss[i])
        /\ \A p \in 1..Len(f[i - 1]) + Len(ss[i]) :
             f[i][p] = IF p <= Len(f[i - 1]) THEN f[i - 1][p] ELSE ss[i][p - Len(f[i - 1])]
    <3> DEFINE a == f[i - 1]
               b == ss[i]
    <3>1. /\ Len(a \o b) = Len(a) + Len(b)
          /\ \A p \in 1..Len(a) + Len(b) :
               (a \o b)[p] = IF p <= Len(a) THEN a[p] ELSE b[p - Len(a)]
      <4> HIDE DEF a, b
      <4>1. IsSeq(a) /\ IsSeq(b)
        BY <2>4 DEF a, b
      <4> QED
        BY <4>1, CatIs
    <3> QED
      BY <2>3, <3>1
  <2> HIDE DEF off
  <2> QED
    BY <2>1, <2>2, <2>3, <2>5
<1>6. off \in [0..n -> Nat]
  BY <1>2
<1> DEFINE Good(j) == /\ \A i \in 1..j : \A m \in 1..Len(ss[i]) :
                           off[i - 1] + m \in 1..off[j] /\ f[j][off[i - 1] + m] = ss[i][m]
                      /\ \A p \in 1..off[j] : \E i \in 1..j : p - off[i - 1] \in 1..Len(ss[i])
           Bad == {j \in 0..n : ~ Good(j)}
<1>7. ASSUME Bad # {} PROVE FALSE
  <2>1. PICK j \in Bad : \A k \in Bad : j <= k
    <3>1. Bad \in SUBSET Nat
      BY <1>2
    <3> HIDE DEF Bad
    <3> QED
      BY <1>7, <3>1, LeastIs
  <2>2. j \in 0..n /\ ~ Good(j)
    OBVIOUS
  <2>3. j # 0
    <3>1. Good(0)
      BY <1>4
    <3> HIDE DEF Good
    <3> QED
      BY <2>2, <3>1
  <2>4. j \in 1..n /\ j - 1 \in 0..n /\ ~ (j <= j - 1) /\ j \in Nat
    BY <1>2, <2>2, <2>3
  <2>5. Good(j - 1)
    <3> HIDE DEF Good
    <3>1. j - 1 \notin Bad
      <4> HIDE DEF Bad
      <4> QED
        BY <2>1, <2>4
    <3> QED
      BY <2>4, <3>1
  <2> DEFINE a == off[j - 1]
             l == Len(ss[j])
  <2>6. a \in Nat /\ l \in Nat /\ off[j] = a + l
    BY <2>4, <1>3, <1>5, <1>6
  <2>7. \A p \in 1..a + l : f[j][p] = IF p <= a THEN f[j - 1][p] ELSE ss[j][p - a]
    BY <2>4, <2>6, <1>5
  <2>8. \A i \in 1..j - 1 : \A m \in 1..Len(ss[i]) :
           off[i - 1] + m \in 1..a /\ f[j - 1][off[i - 1] + m] = ss[i][m]
    BY <2>5
  <2>9. \A p \in 1..a : \E i \in 1..j - 1 : p - off[i - 1] \in 1..Len(ss[i])
    BY <2>5
  <2>10. \A i \in 1..j : i = j \/ i \in 1..j - 1
    BY <2>4
  <2> HIDE DEF off
  <2>11. ASSUME NEW i \in 1..j, NEW m \in 1..Len(ss[i])
         PROVE  off[i - 1] + m \in 1..off[j] /\ f[j][off[i - 1] + m] = ss[i][m]
    <3>1. CASE i = j
      <4>1. m \in 1..l /\ off[i - 1] = a
        BY <3>1
      <4> HIDE DEF a, l
      <4>2. a + m \in 1..a + l /\ ~ (a + m <= a) /\ (a + m) - a = m
        BY <2>6, <4>1
      <4> QED
        BY <2>6, <2>7, <3>1, <4>1, <4>2
    <3>2. CASE i \in 1..j - 1
      <4>1. off[i - 1] + m \in 1..a /\ f[j - 1][off[i - 1] + m] = ss[i][m]
        BY <2>8, <3>2
      <4> HIDE DEF a, l
      <4> QED
        BY <2>6, <2>7, <4>1
    <3> QED
      BY <2>10, <3>1, <3>2
  <2>12. ASSUME NEW p \in 1..off[j]
         PROVE  \E i \in 1..j : p - off[i - 1] \in 1..Len(ss[i])
    <3>1. CASE p <= a
      <4>1. p \in 1..a
        BY <2>6, <3>1
      <4> QED
        BY <2>4, <2>9, <4>1
    <3>2. CASE ~ (p <= a)
      <4>1. p - a \in 1..l
        BY <2>6, <3>2
      <4> QED
        BY <2>4, <4>1
    <3> QED
      BY <3>1, <3>2
  <2> QED
    BY <2>2, <2>11, <2>12
<1>8. Good(n)
  <2> HIDE DEF Good
  <2> QED
    BY <1>2, <1>7
<1>9. off[n] = Len(f[n]) /\ IsSeq(f[n])
  BY <1>2
<1>10. Offsets(off, ss, FlattenSeq(ss))
  <2>1. \A i \in 1..n : off[i] = off[i - 1] + Len(ss[i])
    BY <1>5
  <2> HIDE DEF off
  <2> QED
    BY <1>1, <1>4, <1>6, <1>8, <1>9, <2>1 DEF Offsets
<1> HIDE DEF off
<1> QED
  BY <1>1, <1>9, <1>10

-----------------------------------------------------------------------------
(* Openings and closings. *)

Turn(c) == IF Opens(c) THEN 1 ELSE IF c = End THEN -1 ELSE 0

(* How many openings more than closings there are in s from p to q. *)
Depth(s, p, q) ==
  Cardinality({i \in p .. q : Opens(s[i])}) - Cardinality({i \in p .. q : s[i] = End})

LEMMA CountStep ==
  ASSUME NEW S, NEW p \in Int, NEW q \in Int, q >= p - 1
  PROVE  /\ Cardinality((p .. q) \cap S) \in Nat
         /\ Cardinality((p .. q + 1) \cap S) =
              IF q + 1 \in S THEN Cardinality((p .. q) \cap S) + 1
              ELSE Cardinality((p .. q) \cap S)
<1> DEFINE T == (p .. q) \cap S
           U == (p .. q + 1) \cap S
<1>1. IsFiniteSet(T)
  <2>1. IsFiniteSet(p .. q) /\ T \subseteq p .. q
    BY FS_Interval
  <2> QED
    BY <2>1, FS_Subset
<1>2. U = IF q + 1 \in S THEN T \cup {q + 1} ELSE T
  OBVIOUS
<1>3. q + 1 \notin T
  OBVIOUS
<1> HIDE DEF T, U
<1>4. Cardinality(T) \in Nat
  BY <1>1, FS_CardinalityType
<1>5. Cardinality(T \cup {q + 1}) = Cardinality(T) + 1
  BY <1>1, <1>3, FS_AddElement
<1>6. Cardinality(U) = IF q + 1 \in S THEN Cardinality(T) + 1 ELSE Cardinality(T)
  BY <1>2, <1>5
<1> QED
  BY <1>4, <1>6 DEF T, U

LEMMA DepthStep ==
  ASSUME NEW s, NEW p \in Int, NEW q \in Int, q >= p - 1
  PROVE  /\ Depth(s, p, q) \in Int
         /\ Depth(s, p, q + 1) = Depth(s, p, q) + Turn(s[q + 1])
<1> DEFINE O == {i \in p .. q + 1 : Opens(s[i])}
           E == {i \in p .. q + 1 : s[i] = End}
           A == Cardinality((p .. q) \cap O)
           B == Cardinality((p .. q) \cap E)
           AA == Cardinality((p .. q + 1) \cap O)
           BB == Cardinality((p .. q + 1) \cap E)
<1>1. A \in Nat /\ AA = IF q + 1 \in O THEN A + 1 ELSE A
  <2> HIDE DEF O
  <2> QED
    BY CountStep
<1>2. B \in Nat /\ BB = IF q + 1 \in E THEN B + 1 ELSE B
  <2> HIDE DEF E
  <2> QED
    BY CountStep
<1>3. /\ q + 1 \in O <=> Opens(s[q + 1])
      /\ q + 1 \in E <=> s[q + 1] = End
  OBVIOUS
<1>4. Depth(s, p, q) = A - B /\ Depth(s, p, q + 1) = AA - BB
  <2>1. (p .. q) \cap O = {i \in p .. q : Opens(s[i])}
    OBVIOUS
  <2>2. (p .. q + 1) \cap O = {i \in p .. q + 1 : Opens(s[i])}
    OBVIOUS
  <2>3. (p .. q) \cap E = {i \in p .. q : s[i] = End}
    OBVIOUS
  <2>4. (p .. q + 1) \cap E = {i \in p .. q + 1 : s[i] = End}
    OBVIOUS
  <2> HIDE DEF O, E
  <2> QED
    BY <2>1, <2>2, <2>3, <2>4 DEF Depth
<1>5. ~ (Opens(s[q + 1]) /\ s[q + 1] = End)
  BY DEF Opens, Dict, List, End
<1> HIDE DEF A, B, AA, BB, O, E
<1> QED
  BY <1>1, <1>2, <1>3, <1>4, <1>5 DEF Turn

LEMMA DepthOfNone ==
  ASSUME NEW s, NEW p \in Int
  PROVE  Depth(s, p, p - 1) = 0
<1>1. p .. p - 1 = {}
  OBVIOUS
<1> DEFINE O == {i \in p .. p - 1 : Opens(s[i])}
           E == {i \in p .. p - 1 : s[i] = End}
<1>2. O = {} /\ E = {}
  BY <1>1
<1>3. Depth(s, p, p - 1) = Cardinality(O) - Cardinality(E)
  BY DEF Depth
<1> HIDE DEF O, E
<1>4. Cardinality(O) = 0 /\ Cardinality(E) = 0
  BY <1>2, FS_EmptySet
<1> QED
  BY <1>3, <1>4

(* The n cells of s from p on are those of t from q on. *)
Alike(s, p, t, q, n) == \A i \in 1..n : s[p - 1 + i] = t[q - 1 + i]

(* Wherever they are, they are as deep. *)
LEMMA DepthShifts ==
  ASSUME NEW s, NEW t, NEW p \in Int, NEW q \in Int, NEW n \in Nat, Alike(s, p, t, q, n)
  PROVE  \A i \in 0..n : Depth(s, p, p - 1 + i) = Depth(t, q, q - 1 + i)
<1>B. \A i \in 1..n : s[p - 1 + i] = t[q - 1 + i]
  BY DEF Alike
<1> DEFINE Bad == {i \in 0..n : Depth(s, p, p - 1 + i) # Depth(t, q, q - 1 + i)}
<1>1. SUFFICES ASSUME Bad # {} PROVE FALSE
  OBVIOUS
<1>2. PICK i \in Bad : \A k \in Bad : i <= k
  <2>1. Bad \in SUBSET Nat
    OBVIOUS
  <2> HIDE DEF Bad
  <2> QED
    BY <1>1, <2>1, LeastIs
<1>3. i \in 0..n /\ Depth(s, p, p - 1 + i) # Depth(t, q, q - 1 + i)
  OBVIOUS
<1>4. i # 0
  <2>1. p - 1 + 0 = p - 1 /\ q - 1 + 0 = q - 1
    OBVIOUS
  <2>2. Depth(s, p, p - 1) = 0 /\ Depth(t, q, q - 1) = 0
    BY DepthOfNone
  <2> QED
    BY <1>3, <2>1, <2>2
<1> DEFINE c == p - 1 + (i - 1)
           d == q - 1 + (i - 1)
<1>5. /\ i - 1 \in 0..n /\ ~ (i <= i - 1) /\ i \in 1..n
      /\ c \in Int /\ d \in Int /\ c >= p - 1 /\ d >= q - 1
      /\ c + 1 = p - 1 + i /\ d + 1 = q - 1 + i
  BY <1>3, <1>4
<1>6. Depth(s, p, c) = Depth(t, q, d)
  <2>1. i - 1 \notin Bad
    <3> HIDE DEF Bad
    <3> QED
      BY <1>2, <1>5
  <2> QED
    BY <1>5, <2>1
<1> HIDE DEF c, d
<1>7. Depth(s, p, c + 1) = Depth(s, p, c) + Turn(s[c + 1])
  BY <1>5, DepthStep
<1>8. Depth(t, q, d + 1) = Depth(t, q, d) + Turn(t[d + 1])
  BY <1>5, DepthStep
<1>9. s[c + 1] = t[d + 1]
  BY <1>B, <1>5
<1> QED
  BY <1>3, <1>5, <1>6, <1>7, <1>8, <1>9

LEMMA DepthSplits ==
  ASSUME NEW s, NEW p \in Int, NEW q \in Int, q >= p - 1, NEW n \in Nat
  PROVE  Depth(s, p, q + n) = Depth(s, p, q) + Depth(s, q + 1, q + n)
<1> DEFINE Meets(m) == Depth(s, p, q + m) = Depth(s, p, q) + Depth(s, q + 1, q + m)
           Bad == {m \in Nat : ~ Meets(m)}
<1>1. SUFFICES ASSUME Bad # {} PROVE FALSE
  OBVIOUS
<1>2. PICK m \in Bad : \A k \in Bad : m <= k
  <2>1. Bad \in SUBSET Nat
    OBVIOUS
  <2> HIDE DEF Bad
  <2> QED
    BY <1>1, <2>1, LeastIs
<1>3. m \in Nat /\ ~ Meets(m)
  OBVIOUS
<1>4. m # 0
  <2>1. q + 0 = q /\ (q + 1) - 1 = q /\ q + 1 \in Int
    OBVIOUS
  <2>2. Depth(s, q + 1, (q + 1) - 1) = 0
    BY <2>1, DepthOfNone
  <2>3. Depth(s, q + 1, q) = 0
    BY <2>1, <2>2
  <2>4. Depth(s, p, q) \in Int
    BY DepthStep
  <2> QED
    BY <1>3, <2>1, <2>3, <2>4
<1> DEFINE a == q + (m - 1)
<1>5. /\ m - 1 \in Nat /\ ~ (m <= m - 1)
      /\ a \in Int /\ a >= p - 1 /\ a >= (q + 1) - 1 /\ a + 1 = q + m /\ q + 1 \in Int
  BY <1>3, <1>4
<1>6. Meets(m - 1)
  <2>1. m - 1 \notin Bad
    <3> HIDE DEF Bad
    <3> QED
      BY <1>2, <1>5
  <2> QED
    BY <1>5, <2>1
<1>7. Depth(s, p, a) = Depth(s, p, q) + Depth(s, q + 1, a)
  BY <1>6
<1> HIDE DEF a
<1>8. Depth(s, p, a + 1) = Depth(s, p, a) + Turn(s[a + 1])
  BY <1>5, DepthStep
<1>9. Depth(s, q + 1, a + 1) = Depth(s, q + 1, a) + Turn(s[a + 1]) /\ Depth(s, q + 1, a) \in Int
  BY <1>5, DepthStep
<1>10. Depth(s, p, q) \in Int /\ Turn(s[a + 1]) \in Int
  BY DepthStep DEF Turn
<1> QED
  BY <1>3, <1>5, <1>7, <1>8, <1>9, <1>10

(* A sequence that closes what it opens and nothing else. *)
Nested(s) ==
  /\ IsSeq(s) /\ Depth(s, 1, Len(s)) = 0
  /\ \A n \in 0..Len(s) : Depth(s, 1, n) >= 0

AllNested(ss) == Parts(ss) /\ \A i \in 1..Len(ss) : Nested(ss[i])

LEMMA NestedNothing == Nested(<<>>)
<1>1. Depth(<<>>, 1, 1 - 1) = 0
  BY DepthOfNone
<1>2. Depth(<<>>, 1, 0) = 0
  BY <1>1
<1> QED
  BY <1>2, TuplesAreSeqs DEF Nested

(* How deep it is behind s in s \o t. *)
LEMMA DepthBehind ==
  ASSUME NEW s, NEW t, IsSeq(s), IsSeq(t)
  PROVE  /\ IsSeq(s \o t)
         /\ \A n \in 0..Len(s) : Depth(s \o t, 1, n) = Depth(s, 1, n)
         /\ \A n \in 0..Len(t) :
              Depth(s \o t, 1, Len(s) + n) = Depth(s, 1, Len(s)) + Depth(t, 1, n)
<1> DEFINE u == s \o t
           m == Len(s)
           l == Len(t)
<1>1. m \in Nat /\ l \in Nat
  BY SeqIs
<1>2. \A i \in 1..m + l : u[i] = IF i <= m THEN s[i] ELSE t[i - m]
  BY CatIs
<1> HIDE DEF u, m, l
<1>3. \A n \in 0..m : Depth(u, 1, n) = Depth(s, 1, n)
  <2>1. Alike(u, 1, s, 1, m)
    BY <1>1, <1>2 DEF Alike
  <2>2. \A n \in 0..m : Depth(u, 1, 1 - 1 + n) = Depth(s, 1, 1 - 1 + n)
    BY <1>1, <2>1, DepthShifts
  <2>3. \A n \in 0..m : 1 - 1 + n = n
    OBVIOUS
  <2> QED
    BY <2>2, <2>3
<1>4. \A n \in 0..l : Depth(u, m + 1, m + n) = Depth(t, 1, n)
  <2>1. Alike(u, m + 1, t, 1, l)
    <3> SUFFICES ASSUME NEW i \in 1..l
                 PROVE  u[(m + 1) - 1 + i] = t[1 - 1 + i]
      BY DEF Alike
    <3>1. m + i \in 1..m + l /\ ~ (m + i <= m) /\ (m + i) - m = i
      BY <1>1
    <3>2. u[m + i] = t[i]
      BY <1>2, <3>1
    <3>3. (m + 1) - 1 + i = m + i /\ 1 - 1 + i = i
      BY <1>1
    <3> QED
      BY <3>2, <3>3
  <2>2. \A n \in 0..l : Depth(u, m + 1, (m + 1) - 1 + n) = Depth(t, 1, 1 - 1 + n)
    BY <1>1, <2>1, DepthShifts
  <2>3. \A n \in 0..l : 1 - 1 + n = n /\ (m + 1) - 1 + n = m + n
    BY <1>1
  <2> QED
    BY <2>2, <2>3
<1>5. ASSUME NEW n \in 0..l
      PROVE  Depth(u, 1, m + n) = Depth(s, 1, m) + Depth(t, 1, n)
  <2>1. n \in Nat /\ m \in Int /\ m >= 1 - 1 /\ m \in 0..m
    BY <1>1
  <2>2. Depth(u, 1, m + n) = Depth(u, 1, m) + Depth(u, m + 1, m + n)
    BY <2>1, DepthSplits
  <2> QED
    BY <1>3, <1>4, <2>1, <2>2
<1>6. IsSeq(u)
  BY CatIs DEF u
<1> QED
  BY <1>3, <1>5, <1>6 DEF u, m, l

LEMMA NestedCat ==
  ASSUME NEW s, NEW t, Nested(s), Nested(t)
  PROVE  Nested(s \o t)
<1> DEFINE u == s \o t
           m == Len(s)
           l == Len(t)
<1>1. IsSeq(s) /\ IsSeq(t) /\ m \in Nat /\ l \in Nat
  BY SeqIs DEF Nested
<1>2. IsSeq(u) /\ Len(u) = m + l
  BY <1>1, CatIs
<1>3. /\ \A n \in 0..m : Depth(u, 1, n) = Depth(s, 1, n)
      /\ \A n \in 0..l : Depth(u, 1, m + n) = Depth(s, 1, m) + Depth(t, 1, n)
  BY <1>1, DepthBehind
<1>4. Depth(s, 1, m) = 0 /\ Depth(t, 1, l) = 0
  BY DEF Nested
<1>5. /\ \A n \in 0..m : Depth(s, 1, n) >= 0
      /\ \A n \in 0..l : Depth(t, 1, n) >= 0
  BY DEF Nested
<1> HIDE DEF u, m, l
<1>6. Depth(u, 1, m + l) = 0
  BY <1>1, <1>3, <1>4
<1>7. ASSUME NEW n \in 0..m + l
      PROVE  Depth(u, 1, n) >= 0
  <2>1. CASE n <= m
    BY <1>1, <1>3, <1>5, <2>1
  <2>2. CASE ~ (n <= m)
    <3>1. n - m \in 0..l /\ m + (n - m) = n
      BY <1>1, <2>2
    <3>2. Depth(u, 1, m + (n - m)) = Depth(s, 1, m) + Depth(t, 1, n - m)
      BY <1>3, <3>1
    <3>3. Depth(t, 1, n - m) >= 0 /\ Depth(t, 1, n - m) \in Int
      <4>1. n - m \in Int /\ n - m >= 1 - 1
        BY <3>1
      <4> QED
        BY <1>5, <3>1, <4>1, DepthStep
    <3> QED
      BY <1>4, <3>1, <3>2, <3>3
  <2> QED
    BY <2>1, <2>2
<1>8. Nested(u)
  BY <1>2, <1>6, <1>7 DEF Nested
<1> QED
  BY <1>8 DEF u

LEMMA NestedFlatten ==
  ASSUME NEW ss, AllNested(ss)
  PROVE  Nested(FlattenSeq(ss))
<1>0. Parts(ss) /\ Len(ss) \in Nat
  BY SeqIs DEF AllNested, Parts
<1>1. PICK f : Joins(f, ss) /\ FlattenSeq(ss) = f[Len(ss)]
  BY <1>0, FlattenIs
<1> DEFINE Bad == {i \in 0..Len(ss) : ~ Nested(f[i])}
<1>2. ASSUME Bad # {} PROVE FALSE
  <2>1. PICK i \in Bad : \A k \in Bad : i <= k
    <3>1. Bad \in SUBSET Nat
      BY <1>0
    <3> HIDE DEF Bad
    <3> QED
      BY <1>2, <3>1, LeastIs
  <2>2. i \in 0..Len(ss) /\ ~ Nested(f[i])
    OBVIOUS
  <2>3. i # 0
    BY <1>1, <2>2, NestedNothing DEF Joins
  <2>4. i \in 1..Len(ss) /\ i - 1 \in 0..Len(ss) /\ ~ (i <= i - 1)
    BY <1>0, <2>2, <2>3
  <2>5. Nested(f[i - 1])
    <3>1. i - 1 \notin Bad
      <4> HIDE DEF Bad
      <4> QED
        BY <2>1, <2>4
    <3> QED
      BY <2>4, <3>1
  <2>6. f[i] = f[i - 1] \o ss[i] /\ Nested(ss[i])
    BY <1>1, <2>4 DEF Joins, AllNested
  <2> QED
    BY <2>2, <2>5, <2>6, NestedCat
<1> QED
  BY <1>0, <1>1, <1>2

(* What one cell opens another one closes. *)
Encloses(b, s) ==
  /\ IsSeq(s) /\ Len(s) >= 2 /\ s[1] = b /\ s[Len(s)] = End
  /\ Depth(s, 1, Len(s)) = 0
  /\ \A n \in 1..Len(s) - 1 : Depth(s, 1, n) >= 1

LEMMA DepthOfOne ==
  ASSUME NEW c
  PROVE  Depth(<<c>>, 1, 0) = 0 /\ Depth(<<c>>, 1, 1) = Turn(c)
<1>1. Depth(<<c>>, 1, 1 - 1) = 0
  BY DepthOfNone
<1>2. 0 >= 1 - 1 /\ 0 \in Int /\ 0 + 1 = 1
  OBVIOUS
<1>3. Depth(<<c>>, 1, 0 + 1) = Depth(<<c>>, 1, 0) + Turn(<<c>>[0 + 1])
  BY <1>2, DepthStep
<1>4. Turn(c) \in Int /\ <<c>>[1] = c
  BY DEF Turn
<1> QED
  BY <1>1, <1>2, <1>3, <1>4

LEMMA NestedOne ==
  ASSUME NEW c, ~ Opens(c), c # End
  PROVE  Nested(<<c>>)
BY DepthOfOne, TuplesAreSeqs DEF Nested, Turn

LEMMA EnclosedIs ==
  ASSUME NEW b, Opens(b), NEW s, Nested(s)
  PROVE  /\ Encloses(b, <<b>> \o s \o <<End>>)
         /\ Nested(<<b>> \o s \o <<End>>)
<1> DEFINE o == <<b>>
           e == <<End>>
           u == o \o s
           v == u \o e
           m == Len(s)
<1>1. IsSeq(s) /\ m \in Nat /\ IsSeq(o) /\ IsSeq(e) /\ Len(o) = 1 /\ Len(e) = 1
  BY SeqIs, TuplesAreSeqs DEF Nested
<1>2. Turn(b) = 1 /\ Turn(End) = -1
  BY DEF Turn, Opens, Dict, List, End
<1>3. /\ Depth(o, 1, 0) = 0 /\ Depth(o, 1, 1) = 1
      /\ Depth(e, 1, 0) = 0 /\ Depth(e, 1, 1) = -1
  BY <1>2, DepthOfOne
<1>4. o[1] = b /\ e[1] = End
  OBVIOUS
<1> HIDE DEF o, e
<1>5. IsSeq(u) /\ Len(u) = 1 + m /\ u[1] = b
  <2>1. /\ IsSeq(u) /\ Len(u) = Len(o) + Len(s)
        /\ \A i \in 1..Len(o) + Len(s) : u[i] = IF i <= Len(o) THEN o[i] ELSE s[i - Len(o)]
    BY <1>1, CatIs
  <2> QED
    BY <1>1, <1>4, <2>1
<1>6. /\ \A n \in 0..1 : Depth(u, 1, n) = Depth(o, 1, n)
      /\ \A n \in 0..m : Depth(u, 1, 1 + n) = 1 + Depth(s, 1, n)
  <2>1. /\ \A n \in 0..Len(o) : Depth(u, 1, n) = Depth(o, 1, n)
        /\ \A n \in 0..Len(s) :
             Depth(u, 1, Len(o) + n) = Depth(o, 1, Len(o)) + Depth(s, 1, n)
    <3>1. IsSeq(o) /\ IsSeq(s)
      BY <1>1
    <3> QED
      BY <3>1, DepthBehind
  <2> QED
    BY <1>1, <1>3, <2>1
<1>7. Depth(s, 1, m) = 0 /\ \A n \in 0..m : Depth(s, 1, n) >= 0 /\ Depth(s, 1, n) \in Int
  <2>1. \A n \in 0..m : n \in Int /\ n >= 1 - 1
    BY <1>1
  <2> QED
    BY <2>1, DepthStep DEF Nested
<1> HIDE DEF u, m
<1>8. /\ Depth(u, 1, 0) = 0 /\ Depth(u, 1, 1 + m) = 1
      /\ \A n \in 1..1 + m : Depth(u, 1, n) >= 1
  <2>1. Depth(u, 1, 0) = 0
    BY <1>3, <1>6
  <2>2. Depth(u, 1, 1 + m) = 1
    BY <1>1, <1>6, <1>7
  <2>3. ASSUME NEW n \in 1..1 + m
        PROVE  Depth(u, 1, n) >= 1
    <3> DEFINE k == n - 1
    <3>1. k \in 0..m /\ 1 + k = n
      BY <1>1
    <3> HIDE DEF k
    <3>2. Depth(u, 1, 1 + k) = 1 + Depth(s, 1, k) /\ Depth(s, 1, k) \in Int /\ Depth(s, 1, k) >= 0
      BY <1>6, <1>7, <3>1
    <3> QED
      BY <3>1, <3>2
  <2> QED
    BY <2>1, <2>2, <2>3
<1>9. /\ IsSeq(v) /\ Len(v) = m + 2
      /\ \A i \in 1..m + 2 : v[i] = IF i <= m + 1 THEN u[i] ELSE e[i - (m + 1)]
  <2>1. /\ IsSeq(v) /\ Len(v) = Len(u) + Len(e)
        /\ \A i \in 1..Len(u) + Len(e) : v[i] = IF i <= Len(u) THEN u[i] ELSE e[i - Len(u)]
    BY <1>1, <1>5, CatIs
  <2>2. Len(u) = m + 1 /\ Len(u) + Len(e) = m + 2
    BY <1>1, <1>5
  <2> HIDE DEF v
  <2> QED
    BY <2>1, <2>2
<1>10. /\ \A n \in 0..1 + m : Depth(v, 1, n) = Depth(u, 1, n)
       /\ \A n \in 0..1 : Depth(v, 1, 1 + m + n) = 1 + Depth(e, 1, n)
  <2>1. /\ \A n \in 0..Len(u) : Depth(v, 1, n) = Depth(u, 1, n)
        /\ \A n \in 0..Len(e) :
             Depth(v, 1, Len(u) + n) = Depth(u, 1, Len(u)) + Depth(e, 1, n)
    <3>1. IsSeq(u) /\ IsSeq(e)
      BY <1>1, <1>5
    <3> QED
      BY <3>1, DepthBehind
  <2> HIDE DEF v
  <2> QED
    BY <1>1, <1>5, <1>8, <2>1
<1> HIDE DEF v
<1>11. Depth(v, 1, m + 2) = 0
  <2>1. 1 + m + 1 = m + 2
    BY <1>1
  <2> QED
    BY <1>3, <1>10, <2>1
<1>12. \A n \in 1..m + 1 : Depth(v, 1, n) >= 1
  BY <1>1, <1>8, <1>10
<1>13. Depth(v, 1, 0) = 0
  BY <1>1, <1>8, <1>10
<1>14. v[1] = b /\ v[m + 2] = End
  BY <1>1, <1>4, <1>5, <1>9
<1>15. Encloses(b, v)
  BY <1>1, <1>9, <1>11, <1>12, <1>14 DEF Encloses
<1>16. Nested(v)
  <2>1. \A n \in 0..m + 2 : n = 0 \/ n = m + 2 \/ n \in 1..m + 1
    BY <1>1
  <2>2. ASSUME NEW n \in 1..m + 1
        PROVE  Depth(v, 1, n) >= 0
    <3>1. Depth(v, 1, n) \in Int
      BY <1>1, DepthStep
    <3> QED
      BY <1>12, <3>1
  <2> QED
    BY <1>9, <1>11, <1>13, <2>1, <2>2 DEF Nested
<1> QED
  BY <1>15, <1>16 DEF v, u, o, e

-----------------------------------------------------------------------------
(* Whatever the encoders write is nested. *)

LEMMA AllNestedTuples ==
  /\ AllNested(<<>>)
  /\ \A a : Nested(a) => AllNested(<<a>>)
  /\ \A a, b : Nested(a) /\ Nested(b) => AllNested(<<a, b>>)
  /\ \A a, b, c : Nested(a) /\ Nested(b) /\ Nested(c) => AllNested(<<a, b, c>>)
  /\ \A a, b, c, d :
       Nested(a) /\ Nested(b) /\ Nested(c) /\ Nested(d) => AllNested(<<a, b, c, d>>)
  /\ \A a, b, c, d, e :
       Nested(a) /\ Nested(b) /\ Nested(c) /\ Nested(d) /\ Nested(e)
       => AllNested(<<a, b, c, d, e>>)
<1>1. \A ss : IsSeq(ss) /\ (\A i \in 1..Len(ss) : Nested(ss[i])) => AllNested(ss)
  BY DEF AllNested, Parts, Nested
<1>2. AllNested(<<>>)
  BY <1>1, TuplesAreSeqs
<1>3. ASSUME NEW a, Nested(a) PROVE AllNested(<<a>>)
  <2>1. IsSeq(<<a>>) /\ \A i \in 1..Len(<<a>>) : Nested(<<a>>[i])
    BY <1>3, TuplesAreSeqs
  <2> QED
    BY <1>1, <2>1
<1>4. ASSUME NEW a, NEW b, Nested(a), Nested(b) PROVE AllNested(<<a, b>>)
  <2>1. IsSeq(<<a, b>>) /\ \A i \in 1..Len(<<a, b>>) : Nested(<<a, b>>[i])
    BY <1>4, TuplesAreSeqs
  <2> QED
    BY <1>1, <2>1
<1>5. ASSUME NEW a, NEW b, NEW c, Nested(a), Nested(b), Nested(c)
      PROVE  AllNested(<<a, b, c>>)
  <2>1. IsSeq(<<a, b, c>>) /\ \A i \in 1..Len(<<a, b, c>>) : Nested(<<a, b, c>>[i])
    BY <1>5, TuplesAreSeqs
  <2> QED
    BY <1>1, <2>1
<1>6. ASSUME NEW a, NEW b, NEW c, NEW d, Nested(a), Nested(b), Nested(c), Nested(d)
      PROVE  AllNested(<<a, b, c, d>>)
  <2>1. IsSeq(<<a, b, c, d>>) /\ \A i \in 1..Len(<<a, b, c, d>>) : Nested(<<a, b, c, d>>[i])
    BY <1>6, TuplesAreSeqs
  <2> QED
    BY <1>1, <2>1
<1>7. ASSUME NEW a, NEW b, NEW c, NEW d, NEW e,
             Nested(a), Nested(b), Nested(c), Nested(d), Nested(e)
      PROVE  AllNested(<<a, b, c, d, e>>)
  <2>1. /\ IsSeq(<<a, b, c, d, e>>)
        /\ \A i \in 1..Len(<<a, b, c, d, e>>) : Nested(<<a, b, c, d, e>>[i])
    BY <1>7, TuplesAreSeqs
  <2> QED
    BY <1>1, <2>1
<1> QED
  BY <1>2, <1>3, <1>4, <1>5, <1>6, <1>7

LEMMA ScalarsNested ==
  /\ \A n : Nested(<<Integer(n)>>)
  /\ \A n, v : Nested(<<Str(n, v)>>)
  /\ \A v : Nested(<<Text(v)>>)
  /\ Nested(Flag(TRUE))
<1>1. ASSUME NEW n PROVE ~ Opens(Integer(n)) /\ Integer(n) # End
  BY DEF Opens, Dict, List, End, Integer
<1>2. ASSUME NEW n, NEW v PROVE ~ Opens(Str(n, v)) /\ Str(n, v) # End
  BY DEF Opens, Dict, List, End, Str
<1>3. \A n : Nested(<<Integer(n)>>)
  BY <1>1, NestedOne
<1>4. \A n, v : Nested(<<Str(n, v)>>)
  BY <1>2, NestedOne
<1>5. Nested(Flag(TRUE))
  <2>1. Flag(TRUE) = <<Integer(1)>>
    BY DEF Flag
  <2> QED
    BY <1>3, <2>1
<1> QED
  BY <1>3, <1>4, <1>5 DEF Text

LEMMA PairsNested ==
  ASSUME NEW k, NEW v, Nested(v)
  PROVE  Nested(PairOf(k, v))
<1>1. Nested(<<Key(k)>>)
  BY ScalarsNested DEF Key
<1> QED
  BY <1>1, NestedCat DEF PairOf

LEMMA DictsNested ==
  ASSUME NEW ss, AllNested(ss)
  PROVE  /\ Nested(DictOf(ss)) /\ Encloses(Dict, DictOf(ss))
         /\ Nested(ListOf(ss)) /\ Encloses(List, ListOf(ss))
<1>1. Opens(Dict) /\ Opens(List)
  BY DEF Opens
<1> QED
  BY <1>1, NestedFlatten, EnclosedIs DEF DictOf, ListOf

LEMMA MapsNested ==
  ASSUME NEW vs, IsSeq(vs)
  PROVE  Nested(Texts(vs)) /\ Nested(Contacts(vs)) /\ AllNested(Counts(vs))
<1>1. Len(vs) \in Nat /\ DOMAIN vs = 1..Len(vs)
  BY SeqIs
<1>2. ASSUME NEW ss, ss = [i \in 1..Len(vs) |-> ss[i]], \A i \in 1..Len(vs) : Nested(ss[i])
      PROVE  AllNested(ss)
  <2>1. IsSeq(ss) /\ Len(ss) = Len(vs)
    BY <1>1, <1>2, FunctionIsSeq
  <2> QED
    BY <1>2, <2>1 DEF AllNested, Parts, Nested
<1>3. Nested(Texts(vs))
  <2> DEFINE ss == [i \in DOMAIN vs |-> <<Text(vs[i])>>]
  <2>1. ss = [i \in 1..Len(vs) |-> ss[i]] /\ \A i \in 1..Len(vs) : Nested(ss[i])
    BY <1>1, ScalarsNested
  <2>2. Texts(vs) = ListOf(ss)
    BY DEF Texts
  <2> HIDE DEF ss
  <2> QED
    BY <1>2, <2>1, <2>2, DictsNested
<1>4. Nested(Contacts(vs))
  <2> DEFINE ss == [i \in DOMAIN vs |-> <<Str(6, vs[i])>>]
  <2>1. ss = [i \in 1..Len(vs) |-> ss[i]] /\ \A i \in 1..Len(vs) : Nested(ss[i])
    BY <1>1, ScalarsNested
  <2>2. Contacts(vs) = ListOf(ss)
    BY DEF Contacts
  <2> HIDE DEF ss
  <2> QED
    BY <1>2, <2>1, <2>2, DictsNested
<1>5. AllNested(Counts(vs))
  <2> DEFINE ss == [i \in DOMAIN vs |-> PairOf(vs[i], <<Integer(0)>>)]
  <2>1. ss = [i \in 1..Len(vs) |-> ss[i]] /\ \A i \in 1..Len(vs) : Nested(ss[i])
    BY <1>1, ScalarsNested, PairsNested
  <2>2. Counts(vs) = ss
    BY DEF Counts
  <2> HIDE DEF ss
  <2> QED
    BY <1>2, <2>1, <2>2
<1> QED
  BY <1>3, <1>4, <1>5

LEMMA BodiesNested == \A k \in DOMAIN Bodies : AllNested(Bodies[k])
<1>1. Nested(Id) /\ Nested(Token) /\ Nested(Target) /\ Nested(InfoHash)
  BY ScalarsNested, PairsNested DEF Id, Token, Target, InfoHash
<1>2. Nested(Want) /\ Nested(Nodes)
  BY ScalarsNested, PairsNested, MapsNested, TuplesAreSeqs
     DEF Want, Nodes, CompactNodes
<1>3. /\ AllNested(PingRequest) /\ AllNested(FindNodeRequest) /\ AllNested(GetPeersRequest)
      /\ AllNested(SampleInfohashesRequest)
  BY <1>1, <1>2, AllNestedTuples
     DEF PingRequest, FindNodeRequest, GetPeersRequest, SampleInfohashesRequest
<1>4. AllNested(GetPeersScrapeRequest) /\ AllNested(AnnouncePeerRequest)
  <2> DEFINE v == Flag(TRUE)
             f == PairOf("scrape", v)
             g == PairOf("implied_port", v)
             h == PairOf("port", <<Integer(6881)>>)
  <2>1. Nested(f) /\ Nested(g) /\ Nested(h)
    <3>1. Nested(v)
      BY ScalarsNested
    <3> HIDE DEF v
    <3> QED
      BY <3>1, ScalarsNested, PairsNested
  <2>2. /\ GetPeersScrapeRequest = <<Id, InfoHash, Want, f>>
        /\ AnnouncePeerRequest = <<Id, g, InfoHash, h, Token>>
    BY DEF GetPeersScrapeRequest, AnnouncePeerRequest
  <2> HIDE DEF f, g, h
  <2> QED
    BY <1>1, <1>2, <2>1, <2>2, AllNestedTuples
<1>5. /\ AllNested(PingResponse) /\ AllNested(FindNodeResponse) /\ AllNested(GetPeersResponse)
      /\ AllNested(AnnouncePeerResponse)
  BY <1>1, <1>2, AllNestedTuples
     DEF PingResponse, FindNodeResponse, GetPeersResponse, AnnouncePeerResponse
<1>6. AllNested(GetPeersPeersResponse) /\ AllNested(GetPeersScrapeResponse)
  <2>1. Nested(PairOf("values", Contacts(<<"a", "b">>)))
    BY PairsNested, MapsNested, TuplesAreSeqs
  <2>2. Nested(PairOf("BFsd", <<Str(256, "seeds")>>)) /\ Nested(PairOf("BFpe", <<Str(256, "peers")>>))
    BY ScalarsNested, PairsNested
  <2> QED
    BY <1>1, <2>1, <2>2, AllNestedTuples DEF GetPeersPeersResponse, GetPeersScrapeResponse
<1>7. AllNested(SampleInfohashesResponse)
  <2>1. Nested(PairOf("interval", <<Integer(60)>>)) /\ Nested(PairOf("num", <<Integer(2)>>))
        /\ Nested(Samples)
    BY ScalarsNested, PairsNested DEF CompactHashes, Samples
  <2> QED
    BY <1>1, <1>2, <2>1, AllNestedTuples DEF SampleInfohashesResponse
<1>8. AllNested(NoArguments) /\ AllNested(SearchRequest) /\ AllNested(StopSearchRequest)
  <2>1. Nested(PairOf("search", <<Str(20, "infohash")>>)) /\ Nested(PairOf("timeout", <<Integer(60)>>))
    BY ScalarsNested, PairsNested
  <2> QED
    BY <2>1, AllNestedTuples DEF NoArguments, SearchRequest, StopSearchRequest
<1>9. AllNested(Found)
  <2>1. \A c : Nested(ContactDict(c))
    <3>1. \A c : Nested(PairOf("ipv4", <<Integer(c)>>)) /\ Nested(PairOf("port", <<Integer(c)>>))
      BY ScalarsNested, PairsNested
    <3> QED
      BY <3>1, AllNestedTuples, DictsNested DEF ContactDict
  <2>2. Nested(PairOf("id", <<Str(20, "infohash")>>))
    BY ScalarsNested, PairsNested
  <2>3. Nested(PairOf("contacts", ListOf(<<ContactDict(1), ContactDict(2)>>)))
    BY <2>1, AllNestedTuples, DictsNested, PairsNested
  <2> QED
    BY <2>2, <2>3, AllNestedTuples DEF Found
<1> QED
  BY <1>3, <1>4, <1>5, <1>6, <1>7, <1>8, <1>9 DEF Bodies

-----------------------------------------------------------------------------
(* What a sequence is made of, whatever the order is. *)

LEMMA RangeOfCat ==
  ASSUME NEW s, NEW t, IsSeq(s), IsSeq(t)
  PROVE  IsSeq(s \o t) /\ Range(s \o t) = Range(s) \cup Range(t)
<1>1. Len(s) \in Nat /\ Len(t) \in Nat /\ DOMAIN s = 1..Len(s) /\ DOMAIN t = 1..Len(t)
  BY SeqIs
<1> DEFINE u == s \o t
<1>2. /\ IsSeq(u) /\ Len(u) = Len(s) + Len(t) /\ DOMAIN u = 1..Len(s) + Len(t)
      /\ \A i \in 1..Len(s) + Len(t) : u[i] = IF i <= Len(s) THEN s[i] ELSE t[i - Len(s)]
  <2>1. /\ IsSeq(u) /\ Len(u) = Len(s) + Len(t)
        /\ \A i \in 1..Len(s) + Len(t) : u[i] = IF i <= Len(s) THEN s[i] ELSE t[i - Len(s)]
    BY CatIs
  <2> HIDE DEF u
  <2> QED
    BY <2>1, SeqIs
<1> HIDE DEF u
<1>3. ASSUME NEW x \in Range(u)
      PROVE  x \in Range(s) \cup Range(t)
  <2>1. PICK i \in 1..Len(s) + Len(t) : x = u[i]
    BY <1>2 DEF Range
  <2>2. CASE i <= Len(s)
    <3>1. i \in 1..Len(s) /\ x = s[i]
      BY <1>1, <1>2, <2>1, <2>2
    <3> QED
      BY <1>1, <3>1 DEF Range
  <2>3. CASE ~ (i <= Len(s))
    <3>1. i - Len(s) \in 1..Len(t) /\ x = t[i - Len(s)]
      BY <1>1, <1>2, <2>1, <2>3
    <3> QED
      BY <1>1, <3>1 DEF Range
  <2> QED
    BY <2>2, <2>3
<1>4. ASSUME NEW x \in Range(s)
      PROVE  x \in Range(u)
  <2>1. PICK i \in 1..Len(s) : x = s[i]
    BY <1>1 DEF Range
  <2>2. i \in 1..Len(s) + Len(t) /\ i <= Len(s)
    BY <1>1
  <2> QED
    BY <1>2, <2>1, <2>2 DEF Range
<1>5. ASSUME NEW x \in Range(t)
      PROVE  x \in Range(u)
  <2>1. PICK i \in 1..Len(t) : x = t[i]
    BY <1>1 DEF Range
  <2> DEFINE j == Len(s) + i
  <2>2. j \in 1..Len(s) + Len(t) /\ ~ (j <= Len(s)) /\ j - Len(s) = i
    BY <1>1
  <2> HIDE DEF j
  <2> QED
    BY <1>2, <2>1, <2>2 DEF Range
<1> QED
  BY <1>2, <1>3, <1>4, <1>5 DEF u

LEMMA RangeOfTuples ==
  /\ Range(<<>>) = {}
  /\ \A a : Range(<<a>>) = {a}
  /\ \A a, b : Range(<<a, b>>) = {a, b}
  /\ \A a, b, c : Range(<<a, b, c>>) = {a, b, c}
  /\ \A a, b, c, d : Range(<<a, b, c, d>>) = {a, b, c, d}
  /\ \A a, b, c, d, e : Range(<<a, b, c, d, e>>) = {a, b, c, d, e}
<1>1. Range(<<>>) = {}
  BY DEF Range
<1>2. \A a : Range(<<a>>) = {a}
  BY DEF Range
<1>3. \A a, b : Range(<<a, b>>) = {a, b}
  BY DEF Range
<1>4. \A a, b, c : Range(<<a, b, c>>) = {a, b, c}
  BY DEF Range
<1>5. \A a, b, c, d : Range(<<a, b, c, d>>) = {a, b, c, d}
  BY DEF Range
<1>6. \A a, b, c, d, e : Range(<<a, b, c, d, e>>) = {a, b, c, d, e}
  BY DEF Range
<1> QED
  BY <1>1, <1>2, <1>3, <1>4, <1>5, <1>6


LEMMA PairsAreSeqs == \A a, b : IsSeq(<<a, b>>) /\ Range(<<a, b>>) = {a, b}
BY TuplesAreSeqs, RangeOfTuples

LEMMA SubSeqIs ==
  ASSUME NEW s, IsSeq(s), NEW m \in Int, NEW n \in Int, 1 <= m, n <= Len(s)
  PROVE  /\ IsSeq(SubSeq(s, m, n))
         /\ Len(SubSeq(s, m, n)) = IF m <= n THEN n - m + 1 ELSE 0
         /\ \A i \in 1 .. n - m + 1 : SubSeq(s, m, n)[i] = s[m + i - 1]
<1>1. \A i \in m .. n : s[i] \in Range(s)
  <2>1. Len(s) \in Nat /\ DOMAIN s = 1..Len(s)
    BY SeqIs
  <2>2. \A i \in m .. n : i \in 1..Len(s)
    BY <2>1
  <2> QED
    BY <2>1, <2>2 DEF Range
<1>2. /\ SubSeq(s, m, n) \in Seq(Range(s))
      /\ Len(SubSeq(s, m, n)) = IF m <= n THEN n - m + 1 ELSE 0
      /\ \A i \in 1 .. n - m + 1 : SubSeq(s, m, n)[i] = s[m + i - 1]
  BY <1>1, SubSeqProperties
<1> QED
  BY <1>2, SeqIsSeq

-----------------------------------------------------------------------------
(* What a delivery consists of. *)

LEMMA Rearranged ==
  ASSUME NEW s, IsSeq(s)
  PROVE  /\ \A t \in Shuffled(s) : IsSeq(t) /\ Len(t) = Len(s) /\ Range(t) \subseteq Range(s)
         /\ \A x : \A t \in Extended(s, x) : IsSeq(t) /\ Range(t) \subseteq Range(s) \cup {x}
         /\ \A i \in DOMAIN s : IsSeq(Append(s, s[i])) /\ Range(Append(s, s[i])) \subseteq Range(s)
<1>1. Len(s) \in Nat /\ DOMAIN s = 1..Len(s) /\ s \in Seq(Range(s))
  BY SeqIs DEF IsSeq
<1>2. ASSUME NEW t \in Shuffled(s)
      PROVE  IsSeq(t) /\ Len(t) = Len(s) /\ Range(t) \subseteq Range(s)
  <2>1. PICK p \in SetToSeqs(DOMAIN s) : t = [i \in DOMAIN s |-> s[p[i]]]
    BY DEF Shuffled
  <2>2. Cardinality(1..Len(s)) = Len(s)
    BY <1>1, FS_Interval
  <2>3. p \in [1..Len(s) -> 1..Len(s)]
    BY <1>1, <2>2 DEF SetToSeqs
  <2>4. t = [i \in 1..Len(s) |-> t[i]] /\ \A i \in 1..Len(s) : t[i] \in Range(s)
    BY <1>1, <2>1, <2>3 DEF Range
  <2>5. IsSeq(t) /\ Len(t) = Len(s) /\ DOMAIN t = 1..Len(s)
    BY <1>1, <2>4, FunctionIsSeq
  <2> QED
    BY <2>4, <2>5 DEF Range
<1>3. ASSUME NEW x, NEW t \in Extended(s, x)
      PROVE  IsSeq(t) /\ Range(t) \subseteq Range(s) \cup {x}
  <2>1. PICK i \in 1 .. Len(s) + 1 : t = InsertAt(s, i, x)
    BY DEF Extended
  <2> DEFINE a == SubSeq(s, 1, i - 1)
             b == <<x>>
             c == SubSeq(s, i, Len(s))
  <2>2. t = a \o b \o c
    BY <2>1 DEF InsertAt
  <2>3. IsSeq(a) /\ Range(a) \subseteq Range(s)
    <3>1. /\ IsSeq(a) /\ Len(a) = IF 1 <= i - 1 THEN (i - 1) - 1 + 1 ELSE 0
          /\ \A j \in 1 .. (i - 1) - 1 + 1 : a[j] = s[1 + j - 1]
      BY <1>1, SubSeqIs
    <3> HIDE DEF a
    <3>2. DOMAIN a = 1..Len(a)
      BY <3>1, SeqIs
    <3>3. ASSUME NEW j \in 1..Len(a)
          PROVE  a[j] \in Range(s)
      <4>1. j \in 1 .. (i - 1) - 1 + 1 /\ 1 + j - 1 \in 1..Len(s)
        BY <1>1, <3>1
      <4> QED
        BY <1>1, <3>1, <4>1 DEF Range
    <3> QED
      BY <3>1, <3>2, <3>3 DEF Range
  <2>4. IsSeq(c) /\ Range(c) \subseteq Range(s)
    <3>1. /\ IsSeq(c) /\ Len(c) = IF i <= Len(s) THEN Len(s) - i + 1 ELSE 0
          /\ \A j \in 1 .. Len(s) - i + 1 : c[j] = s[i + j - 1]
      BY <1>1, SubSeqIs
    <3> HIDE DEF c
    <3>2. DOMAIN c = 1..Len(c)
      BY <3>1, SeqIs
    <3>3. ASSUME NEW j \in 1..Len(c)
          PROVE  c[j] \in Range(s)
      <4>1. j \in 1 .. Len(s) - i + 1 /\ i + j - 1 \in 1..Len(s)
        BY <1>1, <3>1
      <4> QED
        BY <1>1, <3>1, <4>1 DEF Range
    <3> QED
      BY <3>1, <3>2, <3>3 DEF Range
  <2>5. IsSeq(b) /\ Range(b) = {x}
    BY TuplesAreSeqs, RangeOfTuples
  <2> HIDE DEF a, b, c
  <2>6. IsSeq(a \o b) /\ Range(a \o b) = Range(a) \cup Range(b)
    BY <2>3, <2>5, RangeOfCat
  <2>7. IsSeq(a \o b \o c) /\ Range(a \o b \o c) = Range(a \o b) \cup Range(c)
    BY <2>4, <2>6, RangeOfCat
  <2> QED
    BY <2>2, <2>3, <2>4, <2>5, <2>6, <2>7
<1>4. ASSUME NEW i \in DOMAIN s
      PROVE  IsSeq(Append(s, s[i])) /\ Range(Append(s, s[i])) \subseteq Range(s)
  <2> DEFINE x == s[i]
             t == Append(s, x)
  <2>1. x \in Range(s)
    BY DEF Range
  <2> HIDE DEF x
  <2>2. /\ t \in Seq(Range(s)) /\ Len(t) = Len(s) + 1
        /\ \A j \in 1..Len(s) : t[j] = s[j]
        /\ t[Len(s) + 1] = x
    BY <1>1, <2>1, AppendProperties
  <2> HIDE DEF t
  <2>3. IsSeq(t)
    BY <2>2, SeqIsSeq
  <2>4. DOMAIN t = 1..Len(s) + 1
    BY <2>2, <2>3, SeqIs
  <2>5. \A j \in 1..Len(s) + 1 : j \in 1..Len(s) \/ j = Len(s) + 1
    BY <1>1
  <2>6. Range(t) \subseteq Range(s)
    BY <1>1, <2>1, <2>2, <2>4, <2>5 DEF Range
  <2> QED
    BY <2>3, <2>6 DEF t, x
<1> QED
  BY <1>2, <1>3, <1>4

(* The attributes around the body. *)
LEMMA MessageIs ==
  ASSUME NEW body, NEW q, NEW y, IsSeq(body), IsSeq(q)
  PROVE  /\ IsSeq(Message(body, q, y)) /\ Len(Message(body, q, y)) >= 3
         /\ Range(Message(body, q, y)) =
              Range(body) \cup Range(q)
              \cup {PairOf("t", <<Str(4, "tx")>>), PairOf("v", <<Str(4, "sp02")>>),
                    PairOf("y", <<Key(y)>>)}
         /\ Message(body, q, y)[Len(Message(body, q, y))] = PairOf("y", <<Key(y)>>)
<1> DEFINE t == PairOf("t", <<Str(4, "tx")>>)
           v == PairOf("v", <<Str(4, "sp02")>>)
           z == PairOf("y", <<Key(y)>>)
           e == <<t, v, z>>
           u == body \o q
           m == u \o e
<1>1. Message(body, q, y) = m
  BY DEF Message
<1> HIDE DEF t, v, z
<1>2. IsSeq(e) /\ Len(e) = 3 /\ e[3] = z
  BY TuplesAreSeqs
<1>3. Range(e) = {t, v, z}
  BY RangeOfTuples
<1> HIDE DEF e
<1>4. IsSeq(u) /\ Range(u) = Range(body) \cup Range(q)
  BY RangeOfCat
<1> HIDE DEF u
<1>5. IsSeq(m) /\ Range(m) = Range(u) \cup Range(e)
  BY <1>2, <1>4, RangeOfCat
<1>6. /\ Len(m) = Len(u) + 3 /\ Len(u) \in Nat
      /\ \A i \in 1..Len(u) + 3 : m[i] = IF i <= Len(u) THEN u[i] ELSE e[i - Len(u)]
  <2>1. /\ Len(m) = Len(u) + Len(e)
        /\ \A i \in 1..Len(u) + Len(e) : m[i] = IF i <= Len(u) THEN u[i] ELSE e[i - Len(u)]
    BY <1>2, <1>4, CatIs
  <2>2. Len(u) \in Nat
    BY <1>4, SeqIs
  <2> QED
    BY <1>2, <2>1, <2>2
<1> HIDE DEF m
<1>7. m[Len(u) + 3] = z
  <2> DEFINE j == Len(u) + 3
  <2>1. j \in 1..Len(u) + 3 /\ ~ (j <= Len(u)) /\ j - Len(u) = 3
    BY <1>6
  <2> HIDE DEF j
  <2>2. m[j] = z
    BY <1>2, <1>6, <2>1
  <2> QED
    BY <2>2 DEF j
<1>8. IsSeq(m) /\ Len(m) >= 3 /\ Range(m) = Range(body) \cup Range(q) \cup {t, v, z}
      /\ m[Len(m)] = z
  BY <1>3, <1>4, <1>5, <1>6, <1>7
<1> QED
  BY <1>1, <1>8 DEF t, v, z

(* All of them, and the last one. *)
Around(y) ==
  {PairOf("t", <<Str(4, "tx")>>), PairOf("v", <<Str(4, "sp02")>>), PairOf("y", <<Key(y)>>)}

Details == PairOf("e", ListOf(<< <<Integer(204)>>, <<Text("unknown method")>> >>))

Frames(f, k, body) ==
  /\ IsSeq(f) /\ Len(f) >= 3 /\ \E y : f[Len(f)] = PairOf("y", <<Key(y)>>)
  /\ k \in Replies => Range(f) = {PairOf("r", DictOf(body))} \cup Around("r")
  /\ k = "error" => Range(f) = {Details} \cup Around("e")
  /\ k \notin Replies \cup {"error"} =>
       Range(f) = {PairOf("a", DictOf(body)), PairOf("q", <<Text(Query(k))>>)} \cup Around("q")

LEMMA FramedIs ==
  ASSUME NEW k, NEW body
  PROVE  Frames(Framed(k, body), k, body)
<1>1. ASSUME NEW x
      PROVE  IsSeq(<<x>>) /\ Range(<<x>>) = {x} /\ IsSeq(<<>>) /\ Range(<<>>) = {}
  <2>1. IsSeq(<<x>>) /\ IsSeq(<<>>)
    BY TuplesAreSeqs
  <2>2. Range(<<x>>) = {x} /\ Range(<<>>) = {}
    BY RangeOfTuples
  <2> QED
    BY <2>1, <2>2
<1>2. ASSUME NEW x, NEW y
      PROVE  LET m == Message(<<x>>, <<>>, y)
             IN  /\ IsSeq(m) /\ Len(m) >= 3 /\ m[Len(m)] = PairOf("y", <<Key(y)>>)
                 /\ Range(m) = {x} \cup Around(y)
  <2> DEFINE a == <<x>>
             b == <<>>
  <2>1. IsSeq(a) /\ IsSeq(b) /\ Range(a) = {x} /\ Range(b) = {}
    BY <1>1
  <2> HIDE DEF a, b
  <2>2. LET m == Message(a, b, y)
        IN  /\ IsSeq(m) /\ Len(m) >= 3 /\ m[Len(m)] = PairOf("y", <<Key(y)>>)
            /\ Range(m) = {x} \cup Around(y)
    BY <2>1, MessageIs DEF Around
  <2> QED
    BY <2>2 DEF a, b
<1>3. ASSUME NEW x, NEW z, NEW y
      PROVE  LET m == Message(<<x>>, <<z>>, y)
             IN  /\ IsSeq(m) /\ Len(m) >= 3 /\ m[Len(m)] = PairOf("y", <<Key(y)>>)
                 /\ Range(m) = {x, z} \cup Around(y)
  <2> DEFINE a == <<x>>
             b == <<z>>
  <2>1. IsSeq(a) /\ IsSeq(b) /\ Range(a) = {x} /\ Range(b) = {z}
    BY <1>1
  <2> HIDE DEF a, b
  <2>2. LET m == Message(a, b, y)
        IN  /\ IsSeq(m) /\ Len(m) >= 3 /\ m[Len(m)] = PairOf("y", <<Key(y)>>)
            /\ Range(m) = {x, z} \cup Around(y)
    BY <2>1, MessageIs DEF Around
  <2> QED
    BY <2>2 DEF a, b
<1>4. CASE k \in Replies
  <2>1. Framed(k, body) = Message(<<PairOf("r", DictOf(body))>>, <<>>, "r")
        /\ k # "error"
    BY <1>4 DEF Framed, Response, Replies
  <2> QED
    BY <1>2, <1>4, <2>1 DEF Frames
<1>5. CASE k = "error"
  <2>1. Framed(k, body) = Message(<<Details>>, <<>>, "e") /\ k \notin Replies
    BY <1>5 DEF Framed, ErrorMessage, Details, Replies
  <2> QED
    BY <1>2, <1>5, <2>1 DEF Frames
<1>6. CASE k \notin Replies \cup {"error"}
  <2>1. Framed(k, body) = Message(<<PairOf("a", DictOf(body))>>, <<PairOf("q", <<Text(Query(k))>>)>>, "q")
    BY <1>6 DEF Framed, Request
  <2> DEFINE x == PairOf("a", DictOf(body))
             z == PairOf("q", <<Text(Query(k))>>)
             m == Message(<<x>>, <<z>>, "q")
  <2>2. Framed(k, body) = m
    BY <2>1
  <2> HIDE DEF x, z
  <2>3. /\ IsSeq(m) /\ Len(m) >= 3 /\ m[Len(m)] = PairOf("y", <<Key("q")>>)
        /\ Range(m) = {x, z} \cup Around("q")
    BY <1>3
  <2>4. k \notin Replies /\ k # "error"
    BY <1>6
  <2> HIDE DEF m
  <2> QED
    BY <2>2, <2>3, <2>4 DEF Frames, x, z
<1> QED
  BY <1>4, <1>5, <1>6

LEMMA Climb ==
  ASSUME NEW n \in Nat, NEW G, 0 \in G, \A i \in 1..n : i - 1 \in G => i \in G
  PROVE  \A i \in 0..n : i \in G
<1> DEFINE Bad == {i \in 0..n : i \notin G}
<1>1. SUFFICES ASSUME Bad # {} PROVE FALSE
  OBVIOUS
<1>2. PICK i \in Bad : \A k \in Bad : i <= k
  <2>1. Bad \in SUBSET Nat
    OBVIOUS
  <2> HIDE DEF Bad
  <2> QED
    BY <1>1, <2>1, LeastIs
<1>3. i \in 1..n /\ i \notin G /\ i - 1 \in 0..n /\ ~ (i <= i - 1)
  OBVIOUS
<1>4. i - 1 \notin Bad
  <2> HIDE DEF Bad
  <2> QED
    BY <1>2, <1>3
<1> QED
  BY <1>3, <1>4


LEMMA WrappedIs ==
  ASSUME NEW b, NEW s, IsSeq(s)
  PROVE  LET u == <<b>> \o s \o <<End>>
         IN  /\ IsSeq(u) /\ Len(u) = Len(s) + 2 /\ u[1] = b /\ u[Len(s) + 2] = End
             /\ \A i \in 1..Len(s) : u[i + 1] = s[i]
<1> DEFINE o == <<b>>
           e == <<End>>
           v == o \o s
           u == v \o e
           l == Len(s)
<1>1. l \in Nat
  BY SeqIs
<1>2. IsSeq(o) /\ Len(o) = 1 /\ o[1] = b /\ IsSeq(e) /\ Len(e) = 1 /\ e[1] = End
  BY TuplesAreSeqs
<1> HIDE DEF o, e
<1>3. /\ IsSeq(v) /\ Len(v) = Len(o) + l
      /\ \A i \in 1..Len(o) + l : v[i] = IF i <= Len(o) THEN o[i] ELSE s[i - Len(o)]
  BY <1>2, CatIs
<1> HIDE DEF v
<1>4. /\ IsSeq(u) /\ Len(u) = Len(v) + Len(e)
      /\ \A i \in 1..Len(v) + Len(e) : u[i] = IF i <= Len(v) THEN v[i] ELSE e[i - Len(v)]
  BY <1>2, <1>3, CatIs
<1> HIDE DEF u, l
<1>5. Len(v) = 1 + l /\ Len(u) = l + 2
  BY <1>1, <1>2, <1>3, <1>4
<1>6. u[1] = b
  BY <1>1, <1>2, <1>3, <1>4, <1>5
<1>7. u[l + 2] = End
  <2> DEFINE j == l + 2
  <2>1. j \in 1..Len(v) + Len(e) /\ ~ (j <= Len(v)) /\ j - Len(v) = 1
    BY <1>1, <1>2, <1>5
  <2> HIDE DEF j
  <2>2. u[j] = End
    BY <1>2, <1>4, <2>1
  <2> QED
    BY <2>2 DEF j
<1>8. ASSUME NEW i \in 1..l
      PROVE  u[i + 1] = s[i]
  <2> DEFINE j == i + 1
  <2>1. /\ j \in 1..Len(v) + Len(e) /\ j <= Len(v)
        /\ j \in 1..Len(o) + l /\ ~ (j <= Len(o)) /\ j - Len(o) = i
    BY <1>1, <1>2, <1>5
  <2> HIDE DEF j
  <2>2. u[j] = s[i]
    BY <1>3, <1>4, <2>1
  <2> QED
    BY <2>2 DEF j
<1>9. IsSeq(u) /\ Len(u) = l + 2 /\ u[1] = b /\ u[l + 2] = End /\ \A i \in 1..l : u[i + 1] = s[i]
  BY <1>4, <1>5, <1>6, <1>7, <1>8
<1> QED
  BY <1>9 DEF u, v, o, e, l

-----------------------------------------------------------------------------
(* Values: one cell, or what it encloses. *)

Value(v) ==
  \/ \E c : v = <<c>> /\ ~ Opens(c) /\ c # End
  \/ IsSeq(v) /\ Opens(v[1]) /\ Encloses(v[1], v)

LEMMA ValuesNested ==
  ASSUME NEW v, Value(v)
  PROVE  Nested(v) /\ IsSeq(v) /\ Len(v) \in Nat /\ Len(v) >= 1
<1>1. ASSUME NEW c, v = <<c>>, ~ Opens(c), c # End
      PROVE  Nested(v) /\ IsSeq(v) /\ Len(v) = 1
  BY <1>1, NestedOne, TuplesAreSeqs
<1>2. ASSUME IsSeq(v), Opens(v[1]), Encloses(v[1], v)
      PROVE  Nested(v) /\ IsSeq(v) /\ Len(v) \in Nat /\ Len(v) >= 2
  <2>1. Len(v) \in Nat /\ Len(v) >= 2
    BY <1>2, SeqIs DEF Encloses
  <2>2. Depth(v, 1, 1 - 1) = 0 /\ 1 - 1 = 0
    BY DepthOfNone
  <2>3. ASSUME NEW n \in 0..Len(v) PROVE Depth(v, 1, n) >= 0
    <3>1. n = 0 \/ n = Len(v) \/ n \in 1..Len(v) - 1
      BY <2>1
    <3>2. CASE n \in 1..Len(v) - 1
      <4>1. Depth(v, 1, n) >= 1 /\ Depth(v, 1, n) \in Int
        <5>1. 1 \in Int /\ n \in Int /\ n >= 1 - 1
          BY <2>1
        <5> QED
          BY <1>2, <3>2, <5>1, DepthStep DEF Encloses
      <4> QED
        BY <4>1
    <3> QED
      BY <1>2, <2>2, <3>1, <3>2 DEF Encloses
  <2> QED
    BY <1>2, <2>1, <2>3 DEF Nested, Encloses
<1> QED
  BY <1>1, <1>2 DEF Value

LEMMA PairIs ==
  ASSUME NEW k, NEW v, IsSeq(v)
  PROVE  LET x == PairOf(k, v)
         IN  /\ IsSeq(x) /\ Len(x) = Len(v) + 1 /\ x[1] = Key(k)
             /\ \A i \in 1..Len(v) : x[i + 1] = v[i]
<1> DEFINE o == <<Key(k)>>
           x == PairOf(k, v)
<1>1. Len(v) \in Nat
  BY SeqIs
<1>2. IsSeq(o) /\ Len(o) = 1 /\ o[1] = Key(k)
  BY TuplesAreSeqs
<1>3. x = o \o v
  BY DEF PairOf
<1> HIDE DEF o, x
<1>4. /\ IsSeq(x) /\ Len(x) = Len(o) + Len(v)
      /\ \A i \in 1..Len(o) + Len(v) : x[i] = IF i <= Len(o) THEN o[i] ELSE v[i - Len(o)]
  BY <1>1, <1>2, <1>3, CatIs
<1>5. Len(x) = Len(v) + 1 /\ x[1] = Key(k)
  BY <1>1, <1>2, <1>4
<1>6. ASSUME NEW i \in 1..Len(v) PROVE x[i + 1] = v[i]
  <2> DEFINE j == i + 1
  <2>1. j \in 1..Len(o) + Len(v) /\ ~ j <= Len(o) /\ j - Len(o) = i
    BY <1>1, <1>2
  <2> HIDE DEF j
  <2>2. x[j] = v[i]
    BY <1>4, <2>1
  <2> QED
    BY <2>2 DEF j
<1> QED
  BY <1>4, <1>5, <1>6 DEF x

(* What is in a pair tells what it was made of. *)
LEMMA SamePair ==
  ASSUME NEW a, NEW v, IsSeq(v), NEW k, NEW w, IsSeq(w), PairOf(a, v) = PairOf(k, w)
  PROVE  a = k /\ v = w
<1> DEFINE x == PairOf(a, v)
           y == PairOf(k, w)
<1>1. /\ Len(x) = Len(v) + 1 /\ x[1] = Key(a) /\ \A i \in 1..Len(v) : x[i + 1] = v[i]
      /\ Len(y) = Len(w) + 1 /\ y[1] = Key(k) /\ \A i \in 1..Len(w) : y[i + 1] = w[i]
  BY PairIs
<1>2. x = y
  OBVIOUS
<1> HIDE DEF x, y
<1>3. a = k
  BY <1>1, <1>2 DEF Key, Str
<1>4. Len(v) \in Nat /\ Len(w) \in Nat
  BY SeqIs
<1>5. Len(v) = Len(w) /\ \A i \in 1..Len(v) : v[i] = w[i]
  BY <1>1, <1>2, <1>4
<1> QED
  BY <1>3, <1>5, SameSeq

(* An integer or a string. *)
Scalar(c) ==
  \/ \E n : c = Integer(n)
  \/ \E n, v : c = Str(n, v)

LEMMA ScalarIs ==
  ASSUME NEW c, Scalar(c)
  PROVE  ~ Opens(c) /\ c # End /\ c # List /\ c # Dict
BY DEF Scalar, Integer, Str, Opens, End, List, Dict

LEMMA Scalars ==
  /\ \A n : Scalar(Integer(n))
  /\ \A n, v : Scalar(Str(n, v))
  /\ \A v : Scalar(Text(v)) /\ Scalar(Key(v))
<1>1. \A n : Scalar(Integer(n))
  BY DEF Scalar
<1>2. \A n, v : Scalar(Str(n, v))
  BY DEF Scalar
<1> QED
  BY <1>1, <1>2 DEF Text, Key

LEMMA ScalarValue ==
  ASSUME NEW c, Scalar(c)
  PROVE  Value(<<c>>) /\ IsSeq(<<c>>) /\ Len(<<c>>) = 1
BY ScalarIs, TuplesAreSeqs DEF Value

(* A list of scalars. *)
FlatList(v) ==
  /\ IsSeq(v) /\ Len(v) >= 2 /\ v[1] = List /\ v[Len(v)] = End
  /\ \A j \in 2 .. Len(v) - 1 : Scalar(v[j])

TextList(v) == FlatList(v) /\ \A j \in 2 .. Len(v) - 1 : v[j][1] = "s"

LEMMA ScalarsFlat ==
  ASSUME NEW ss, IsSeq(ss), \A x \in Range(ss) : \E c : Scalar(c) /\ x = <<c>>
  PROVE  /\ FlatList(ListOf(ss))
         /\ (\A x \in Range(ss) : x[1][1] = "s") => TextList(ListOf(ss))
<1> DEFINE F == FlattenSeq(ss)
<1>1. Len(ss) \in Nat /\ \A i \in 1..Len(ss) : \E c : Scalar(c) /\ ss[i] = <<c>>
  BY SeqIs DEF Range
<1>2. \A i \in 1..Len(ss) : IsSeq(ss[i]) /\ Len(ss[i]) = 1 /\ Scalar(ss[i][1])
  <2>1. SUFFICES ASSUME NEW i \in 1..Len(ss)
                 PROVE  IsSeq(ss[i]) /\ Len(ss[i]) = 1 /\ Scalar(ss[i][1])
    OBVIOUS
  <2>2. PICK c : Scalar(c) /\ ss[i] = <<c>>
    BY <1>1
  <2>3. IsSeq(<<c>>) /\ Len(<<c>>) = 1 /\ <<c>>[1] = c
    BY TuplesAreSeqs
  <2> QED
    BY <2>2, <2>3
<1>3. Parts(ss)
  BY <1>2 DEF Parts
<1>4. PICK off : IsSeq(F) /\ Offsets(off, ss, F)
  BY <1>3, FlattenAt
<1> HIDE DEF F
<1>5. Len(F) \in Nat
  BY <1>4, SeqIs
<1>6. ASSUME NEW p \in 1..Len(F)
      PROVE  Scalar(F[p]) /\ \E x \in Range(ss) : F[p] = x[1]
  <2>1. PICK i \in 1..Len(ss) : p - off[i - 1] \in 1..Len(ss[i])
    BY <1>4 DEF Offsets
  <2>2. i - 1 \in 0..Len(ss)
    BY <1>1
  <2>3. off[i - 1] \in Nat
    BY <1>4, <2>2 DEF Offsets
  <2>6. Len(ss[i]) = 1
    BY <1>2
  <2>7. p - off[i - 1] = 1 /\ 1 \in 1..Len(ss[i])
    BY <1>5, <2>1, <2>3, <2>6
  <2>4. off[i - 1] + 1 = p
    BY <1>5, <2>3, <2>7
  <2>5. F[p] = ss[i][1]
    BY <1>4, <2>4, <2>7 DEF Offsets
  <2>8. ss[i] \in Range(ss)
    BY SeqIs DEF Range
  <2> QED
    BY <1>2, <2>5, <2>8
<1> DEFINE u == <<List>> \o F \o <<End>>
<1>7. /\ IsSeq(u) /\ Len(u) = Len(F) + 2 /\ u[1] = List /\ u[Len(F) + 2] = End
      /\ \A i \in 1..Len(F) : u[i + 1] = F[i]
  BY <1>4, WrappedIs
<1>8. ListOf(ss) = u
  BY DEF ListOf, F
<1> HIDE DEF u
<1>9. ASSUME NEW j \in 2 .. Len(u) - 1
      PROVE  Scalar(u[j]) /\ \E x \in Range(ss) : u[j] = x[1]
  <2>1. j - 1 \in 1..Len(F) /\ (j - 1) + 1 = j
    BY <1>5, <1>7
  <2>2. u[(j - 1) + 1] = F[j - 1]
    BY <1>7, <2>1
  <2> QED
    BY <1>6, <2>1, <2>2
<1>10. FlatList(u)
  BY <1>5, <1>7, <1>9 DEF FlatList
<1>11. ASSUME \A x \in Range(ss) : x[1][1] = "s" PROVE TextList(u)
  BY <1>9, <1>10, <1>11 DEF TextList
<1> QED
  BY <1>8, <1>10, <1>11

LEMMA ListsFlat ==
  ASSUME NEW vs, IsSeq(vs)
  PROVE  TextList(Texts(vs)) /\ FlatList(Contacts(vs))
<1>1. Len(vs) \in Nat /\ DOMAIN vs = 1..Len(vs)
  BY SeqIs
<1>2. ASSUME NEW ss, ss = [i \in 1..Len(vs) |-> ss[i]],
             \A i \in 1..Len(vs) : \E n, v : ss[i] = <<Str(n, v)>>
      PROVE  FlatList(ListOf(ss)) /\ TextList(ListOf(ss))
  <2>1. IsSeq(ss) /\ DOMAIN ss = 1..Len(vs)
    BY <1>1, <1>2, FunctionIsSeq
  <2>2. \A x \in Range(ss) : \E n, v : x = <<Str(n, v)>>
    BY <1>2, <2>1 DEF Range
  <2>3. \A x \in Range(ss) : \E c : Scalar(c) /\ x = <<c>>
    BY <2>2, Scalars
  <2>4. \A x \in Range(ss) : x[1][1] = "s"
    BY <2>2 DEF Str
  <2> QED
    BY <2>1, <2>3, <2>4, ScalarsFlat
<1>3. TextList(Texts(vs))
  <2> DEFINE ss == [i \in DOMAIN vs |-> <<Text(vs[i])>>]
  <2>1. ss = [i \in 1..Len(vs) |-> ss[i]] /\ \A i \in 1..Len(vs) : ss[i] = <<Str(2, vs[i])>>
    BY <1>1 DEF Text
  <2>2. Texts(vs) = ListOf(ss)
    BY DEF Texts
  <2> HIDE DEF ss
  <2> QED
    BY <1>2, <2>1, <2>2
<1>4. FlatList(Contacts(vs))
  <2> DEFINE ss == [i \in DOMAIN vs |-> <<Str(6, vs[i])>>]
  <2>1. ss = [i \in 1..Len(vs) |-> ss[i]] /\ \A i \in 1..Len(vs) : ss[i] = <<Str(6, vs[i])>>
    BY <1>1
  <2>2. Contacts(vs) = ListOf(ss)
    BY DEF Contacts
  <2> HIDE DEF ss
  <2> QED
    BY <1>2, <2>1, <2>2
<1> QED
  BY <1>3, <1>4

LEMMA FlatListValue ==
  ASSUME NEW v, FlatList(v)
  PROVE  Value(v)
<1>1. IsSeq(v) /\ Len(v) \in Nat /\ Len(v) >= 2 /\ v[1] = List /\ v[Len(v)] = End
  BY SeqIs DEF FlatList
<1>2. Opens(List) /\ List # End
  BY DEF Opens, List, End
<1>3. Depth(v, 1, 0) = 0
  BY DepthOfNone, 1 - 1 = 0
<1> DEFINE G == {0} \cup {i \in 1..Len(v) - 1 : Depth(v, 1, i) = 1}
<1>4. ASSUME NEW i \in 1..Len(v) - 1, i - 1 \in G PROVE i \in G
  <2>1. i - 1 \in Int /\ i - 1 >= 1 - 1 /\ (i - 1) + 1 = i
    BY <1>1
  <2>2. /\ Depth(v, 1, i - 1) \in Int
        /\ Depth(v, 1, (i - 1) + 1) = Depth(v, 1, i - 1) + Turn(v[(i - 1) + 1])
    BY <2>1, DepthStep
  <2>3. Depth(v, 1, i) = Depth(v, 1, i - 1) + Turn(v[i])
    BY <2>1, <2>2
  <2>4. CASE i = 1
    <3>1. Turn(v[1]) = 1
      BY <1>1, <1>2 DEF Turn
    <3>2. Depth(v, 1, i) = 1
      BY <1>3, <2>3, <2>4, <3>1, 1 - 1 = 0
    <3> QED
      BY <3>2
  <2>5. CASE i # 1
    <3>1. i \in 2 .. Len(v) - 1 /\ i - 1 # 0
      BY <1>1, <2>5
    <3>2. Turn(v[i]) = 0
      BY <3>1, ScalarIs DEF FlatList, Turn
    <3>3. Depth(v, 1, i - 1) = 1
      BY <1>4, <3>1
    <3>4. Depth(v, 1, i) = 1
      BY <2>3, <3>2, <3>3
    <3> QED
      BY <3>4
  <2> QED
    BY <2>4, <2>5
<1>5. \A i \in 0..Len(v) - 1 : i \in G
  <2>1. Len(v) - 1 \in Nat /\ 0 \in G
    BY <1>1
  <2> HIDE DEF G
  <2> QED
    BY <1>4, <2>1, Climb
<1>6. \A i \in 1..Len(v) - 1 : Depth(v, 1, i) = 1
  <2>1. ASSUME NEW i \in 1..Len(v) - 1 PROVE Depth(v, 1, i) = 1
    <3>1. i \in 0..Len(v) - 1 /\ i # 0
      BY <1>1
    <3> QED
      BY <1>5, <3>1
  <2> QED
    BY <2>1
<1>7. Depth(v, 1, Len(v)) = 0
  <2> DEFINE q == Len(v) - 1
  <2>1. q \in 1..Len(v) - 1 /\ q \in Int /\ q >= 1 - 1 /\ q + 1 = Len(v) /\ 1 \in Int
    BY <1>1
  <2> HIDE DEF q
  <2>2. Depth(v, 1, q + 1) = Depth(v, 1, q) + Turn(v[q + 1])
    BY <2>1, DepthStep
  <2>3. Depth(v, 1, q) = 1
    BY <1>6, <2>1
  <2>4. Turn(End) = -1
    BY DEF Turn, Opens, Dict, List, End
  <2>5. Depth(v, 1, Len(v)) = 1 + Turn(End)
    BY <1>1, <2>1, <2>2, <2>3
  <2> QED
    BY <2>4, <2>5
<1>8. \A i \in 1..Len(v) - 1 : Depth(v, 1, i) >= 1
  BY <1>6
<1> QED
  BY <1>1, <1>2, <1>7, <1>8 DEF Value, Encloses

-----------------------------------------------------------------------------
(* What the decoders make of a value. *)

(* The types of values that the parsers of bodies know. *)
Types ==
  {"id", "ref", "u16", "number", "contact", "nodes", "hashes", "peers", "want", "contacts"}

(* What is no list is one cell or refused. *)
LEMMA OneCellRead ==
  ASSUME NEW b, NEW p \in Int, NEW t \in Types, At(b, p) # List
  PROVE  /\ ValueAt(b, p, t) \in {0, p + 1}
         /\ At(b, p) = End => ValueAt(b, p, t) = 0
<1>1. ~ Is(b, p, List)
  BY DEF Is
<1>2. At(b, p) = End => ~ StringAt(b, p) /\ ~ IntAt(b, p)
  BY DEF StringAt, IntAt, End
<1>3. CASE t \in {"peers", "want", "contacts"}
  <2>1. \A items : ListAt(b, p, items) = 0
    BY <1>1 DEF ListAt
  <2>2. ContactDictsAt(b, p) = 0
    BY <1>1 DEF ContactDictsAt
  <2>3. PeersAt(b, p) = 0 /\ TextsAt(b, p) = 0
    BY <2>1 DEF PeersAt, TextsAt
  <2>4. ValueAt(b, p, t) = 0
    BY <1>3, <2>2, <2>3 DEF ValueAt
  <2> QED
    BY <2>4
<1>4. CASE t \in {"id", "ref"}
  <2>1. ValueAt(b, p, t) = IF StringAt(b, p) /\ (t = "id" => At(b, p)[2] <= 20) THEN p + 1 ELSE 0
    BY <1>4 DEF ValueAt, BytesAt
  <2> QED
    BY <1>2, <2>1
<1>5. CASE t \in {"u16", "number"}
  <2>1. ValueAt(b, p, t) = IF IntAt(b, p) /\ (t = "u16" => At(b, p)[2] <= 2^16 - 1) THEN p + 1 ELSE 0
    BY <1>5 DEF ValueAt, NumberAt
  <2> QED
    BY <1>2, <2>1
<1>6. CASE t = "contact"
  <2>1. ValueAt(b, p, t) = IF IsContact(b, p) THEN p + 1 ELSE 0
    BY <1>6 DEF ValueAt, ContactAt
  <2> QED
    BY <1>2, <2>1 DEF IsContact
<1>7. CASE t \in {"nodes", "hashes"}
  <2>1. PICK unit : ValueAt(b, p, t) = PackedAt(b, p, unit)
    BY <1>7 DEF ValueAt
  <2> QED
    BY <1>2, <2>1 DEF PackedAt
<1> QED
  BY <1>3, <1>4, <1>5, <1>6, <1>7 DEF Types

(* The cells of v lie at p in the memory r, before h. *)
LiesAt(v, r, h, p) ==
  /\ IsSeq(v) /\ IsSeq(r) /\ p \in Nat /\ p >= 1 /\ h \in Nat
  /\ p + Len(v) - 1 <= h /\ h <= Len(r)
  /\ \A m \in 1..Len(v) : r[p + m - 1] = v[m]

LEMMA LiesIs ==
  ASSUME NEW v, NEW r, NEW h, NEW p, LiesAt(v, r, h, p), NEW m \in 1..Len(v)
  PROVE  At([raw |-> r, length |-> h], p + m - 1) = v[m]
<1>1. Len(v) \in Nat /\ Len(r) \in Nat
  BY SeqIs DEF LiesAt
<1>2. p + m - 1 \in 1..Len(r)
  BY <1>1 DEF LiesAt
<1> QED
  BY <1>2 DEF LiesAt, At

LEMMA FlatListRead ==
  ASSUME NEW v, FlatList(v), NEW r, NEW h, NEW p, LiesAt(v, r, h, p),
         NEW items, \A q \in items : At([raw |-> r, length |-> h], q) # End
  PROVE  /\ ListAt([raw |-> r, length |-> h], p, items) \in {0, p + Len(v)}
         /\ p + 1 .. p + Len(v) - 2 \subseteq items =>
              ListAt([raw |-> r, length |-> h], p, items) = p + Len(v)
<1> DEFINE b == [raw |-> r, length |-> h]
           l == Len(v)
           ends == { q \in p + 1 .. h : At(b, q) = End /\ p + 1 .. q - 1 \subseteq items }
           z == p + l - 1
<1>1. l \in Nat /\ l >= 2 /\ p \in Nat /\ h \in Nat /\ p >= 1 /\ z <= h
  BY SeqIs DEF FlatList, LiesAt
<1>2. \A m \in 1..l : At(b, p + m - 1) = v[m]
  BY LiesIs
<1>3. \A q \in items : At(b, q) # End
  OBVIOUS
<1>4. b.length = h
  OBVIOUS
<1>5. ListAt(b, p, items) = IF Is(b, p, List) /\ ends # {} THEN Least(ends) + 1 ELSE 0
  BY <1>4 DEF ListAt
<1>6. ASSUME NEW q \in ends PROVE q = z
  <2>1. q \in Int /\ q >= p + 1 /\ q <= h /\ At(b, q) = End /\ p + 1 .. q - 1 \subseteq items
    BY <1>1
  <2>2. ~ q > z
    <3>1. SUFFICES ASSUME q > z PROVE FALSE
      OBVIOUS
    <3>2. z \in p + 1 .. q - 1
      BY <1>1, <2>1, <3>1
    <3>3. l \in 1..l /\ p + l - 1 = z
      BY <1>1
    <3>4. At(b, z) = End
      BY <1>2, <3>3 DEF FlatList
    <3> QED
      BY <1>3, <2>1, <3>2, <3>4
  <2>3. ~ q < z
    <3>1. SUFFICES ASSUME q < z PROVE FALSE
      OBVIOUS
    <3> DEFINE m == q - p + 1
    <3>2. m \in 2 .. l - 1 /\ m \in 1..l /\ p + m - 1 = q
      BY <1>1, <2>1, <3>1
    <3> HIDE DEF m
    <3>3. At(b, q) = v[m] /\ Scalar(v[m])
      BY <1>2, <3>2 DEF FlatList
    <3> QED
      BY <2>1, <3>3, ScalarIs
  <2> QED
    BY <1>1, <2>1, <2>2, <2>3
<1>9. ASSUME p + 1 .. p + l - 2 \subseteq items PROVE z \in ends /\ Is(b, p, List)
  <2>1. l \in 1..l /\ 1 \in 1..l /\ p + 1 - 1 = p /\ z \in p + 1 .. h /\ z - 1 = p + l - 2
    BY <1>1
  <2>2. At(b, z) = End /\ At(b, p) = List
    <3>1. At(b, p + l - 1) = v[l] /\ At(b, p + 1 - 1) = v[1]
      BY <1>2, <2>1
    <3> QED
      BY <2>1, <3>1 DEF FlatList
  <2>3. p <= b.length
    BY <1>1, <1>4
  <2> HIDE DEF z
  <2> QED
    BY <1>9, <2>1, <2>2, <2>3 DEF Is, Within
<1> HIDE DEF ends
<1>7. ASSUME ends # {} PROVE Least(ends) = z
  <2>1. ends = {z}
    BY <1>6, <1>7
  <2>2. z \in Int
    BY <1>1
  <2>3. \A q : (q \in {z} /\ \A s \in {z} : q <= s) <=> q = z
    BY <2>2
  <2> QED
    BY <2>1, <2>3 DEF Least
<1>8. z + 1 = p + l
  BY <1>1
<1> QED
  BY <1>5, <1>7, <1>8, <1>9

(* Two contacts in their dictionaries. *)
FoundList(v) ==
  /\ IsSeq(v) /\ Len(v) = 14 /\ v[1] = List /\ v[2] = Dict /\ v[8] = Dict /\ v[14] = End

LEMMA FoundListRead ==
  ASSUME NEW v, FoundList(v), NEW r, NEW h, NEW p, LiesAt(v, r, h, p)
  PROVE  ContactDictsAt([raw |-> r, length |-> h], p) \in {0, p + Len(v)}
<1> DEFINE b == [raw |-> r, length |-> h]
           IsContactDict(q) ==
             /\ Is(b, q, Dict) /\ KeyAt(b, q + 1, "ipv4") /\ IntAt(b, q + 2)
             /\ KeyAt(b, q + 3, "port") /\ IntAt(b, q + 4) /\ Is(b, q + 5, End)
           counts == { n \in 0 .. h \div 6 :
                         /\ \A i \in 0 .. n - 1 : IsContactDict(p + 1 + 6 * i)
                         /\ Is(b, p + 1 + 6 * n, End) }
<1>1. p \in Nat /\ h \in Nat /\ h \div 6 \in Int
  BY DEF LiesAt
<1>2. At(b, p + 2 - 1) = Dict /\ At(b, p + 8 - 1) = Dict /\ At(b, p + 14 - 1) = End
  <2>1. \A m \in 1..Len(v) : At(b, p + m - 1) = v[m]
    BY LiesIs
  <2>2. 2 \in 1..Len(v) /\ 8 \in 1..Len(v) /\ 14 \in 1..Len(v)
    BY DEF FoundList
  <2> QED
    BY <2>1, <2>2 DEF FoundList
<1>3. At(b, p + 1) = Dict /\ At(b, p + 7) = Dict /\ At(b, p + 13) = End
  BY <1>1, <1>2
<1>4. Dict # End
  BY DEF Dict, End
<1>5. ContactDictsAt(b, p) =
        IF Is(b, p, List) /\ counts # {} THEN p + 2 + 6 * (CHOOSE n \in counts : TRUE) ELSE 0
  BY DEF ContactDictsAt
<1>6. ASSUME NEW n \in counts PROVE n = 2
  <2>1. /\ n \in Int /\ n >= 0 /\ \A i \in 0 .. n - 1 : IsContactDict(p + 1 + 6 * i)
        /\ Is(b, p + 1 + 6 * n, End)
    BY <1>1
  <2> HIDE DEF IsContactDict
  <2>2. At(b, p + 1 + 6 * n) = End
    BY <2>1 DEF Is
  <2>3. n # 0
    <3>1. p + 1 + 6 * 0 = p + 1
      BY <1>1
    <3> QED
      BY <1>3, <1>4, <2>2, <3>1
  <2>4. n # 1
    <3>1. p + 1 + 6 * 1 = p + 7
      BY <1>1
    <3> QED
      BY <1>3, <1>4, <2>2, <3>1
  <2>5. ~ n >= 3
    <3>1. SUFFICES ASSUME n >= 3 PROVE FALSE
      OBVIOUS
    <3>2. 2 \in 0 .. n - 1 /\ p + 1 + 6 * 2 = p + 13
      BY <1>1, <2>1, <3>1
    <3>3. IsContactDict(p + 13)
      BY <2>1, <3>2
    <3>4. At(b, p + 13) = Dict
      BY <3>3 DEF IsContactDict, Is
    <3> QED
      BY <1>3, <1>4, <3>4
  <2> QED
    BY <2>1, <2>3, <2>4, <2>5
<1> HIDE DEF counts
<1>7. ASSUME counts # {} PROVE (CHOOSE n \in counts : TRUE) = 2
  BY <1>6, <1>7
<1>8. p + 2 + 6 * 2 = p + Len(v)
  BY <1>1 DEF FoundList
<1> QED
  BY <1>5, <1>7, <1>8

(* The values that a parser takes whole or not at all. *)
ReadsWhole(v, t) ==
  \/ \E c : v = <<c>> /\ Scalar(c)
  \/ FlatList(v) /\ t \in {"peers", "want"}
  \/ FoundList(v) /\ t = "contacts"

LEMMA ValueRead ==
  ASSUME NEW v, NEW t \in Types, ReadsWhole(v, t), NEW r, NEW h, NEW p, LiesAt(v, r, h, p)
  PROVE  ValueAt([raw |-> r, length |-> h], p, t) \in {0, p + Len(v)}
<1> DEFINE b == [raw |-> r, length |-> h]
<1>1. p \in Int
  BY DEF LiesAt
<1>2. ASSUME NEW c, v = <<c>>, Scalar(c) PROVE ValueAt(b, p, t) \in {0, p + Len(v)}
  <2>1. Len(v) = 1 /\ v[1] = c /\ p + 1 - 1 = p /\ 1 \in 1..Len(v)
    BY <1>1, <1>2, TuplesAreSeqs
  <2>2. At(b, p) = c
    BY <2>1, LiesIs
  <2>3. At(b, p) # List
    BY <1>2, <2>2, ScalarIs
  <2> HIDE DEF b
  <2> QED
    BY <1>1, <2>1, <2>3, OneCellRead
<1>3. ASSUME FlatList(v), t \in {"peers", "want"} PROVE ValueAt(b, p, t) \in {0, p + Len(v)}
  <2>1. PeersAt(b, p) \in {0, p + Len(v)}
    <3> DEFINE items == { q \in 1 .. h : IsContact(b, q) }
    <3>1. PeersAt(b, p) = ListAt(b, p, items)
      BY DEF PeersAt
    <3>2. \A q \in items : At(b, q) # End
      BY DEF IsContact, StringAt, End
    <3> HIDE DEF items
    <3> QED
      BY <1>3, <3>1, <3>2, FlatListRead
  <2>2. TextsAt(b, p) \in {0, p + Len(v)}
    <3> DEFINE items == { q \in 1 .. h : StringAt(b, q) }
    <3>1. TextsAt(b, p) = ListAt(b, p, items)
      BY DEF TextsAt
    <3>2. \A q \in items : At(b, q) # End
      BY DEF StringAt, End
    <3> HIDE DEF items
    <3> QED
      BY <1>3, <3>1, <3>2, FlatListRead
  <2>3. ValueAt(b, p, t) \in {PeersAt(b, p), TextsAt(b, p)}
    BY <1>3 DEF ValueAt
  <2> QED
    BY <2>1, <2>2, <2>3
<1>4. ASSUME FoundList(v), t = "contacts" PROVE ValueAt(b, p, t) \in {0, p + Len(v)}
  <2>1. ContactDictsAt(b, p) \in {0, p + Len(v)}
    BY <1>4, FoundListRead
  <2>2. ValueAt(b, p, t) = ContactDictsAt(b, p)
    BY <1>4 DEF ValueAt
  <2> QED
    BY <2>1, <2>2
<1> QED
  BY <1>2, <1>3, <1>4 DEF ReadsWhole

(* A list of texts is taken. *)
LEMMA TextsRead ==
  ASSUME NEW v, TextList(v), NEW r, NEW h, NEW p, LiesAt(v, r, h, p)
  PROVE  ValueAt([raw |-> r, length |-> h], p, "want") # 0
<1> DEFINE b == [raw |-> r, length |-> h]
           items == { q \in 1 .. h : StringAt(b, q) }
<1>1. ValueAt(b, p, "want") = ListAt(b, p, items)
  BY DEF ValueAt, TextsAt
<1>2. \A q \in items : At(b, q) # End
  BY DEF StringAt, End
<1>3. p \in Nat /\ p >= 1 /\ Len(v) \in Nat /\ Len(v) >= 2 /\ h \in Nat /\ p + Len(v) - 1 <= h
  BY SeqIs DEF LiesAt, TextList, FlatList
<1>4. ASSUME NEW q \in p + 1 .. p + Len(v) - 2 PROVE q \in items
  <2> DEFINE m == q - p + 1
  <2>1. m \in 1..Len(v) /\ m \in 2 .. Len(v) - 1 /\ p + m - 1 = q /\ q \in 1 .. h
    BY <1>3
  <2> HIDE DEF m
  <2>2. At(b, p + m - 1) = v[m]
    BY <2>1, LiesIs
  <2>3. v[m][1] = "s"
    BY <2>1 DEF TextList
  <2>4. q <= b.length
    BY <2>1
  <2> QED
    BY <2>1, <2>2, <2>3, <2>4 DEF StringAt, Within
<1> HIDE DEF items
<1>5. ListAt(b, p, items) = p + Len(v)
  <2>1. p + 1 .. p + Len(v) - 2 \subseteq items /\ FlatList(v)
    BY <1>4 DEF TextList
  <2> QED
    BY <1>2, <2>1, FlatListRead
<1> QED
  BY <1>1, <1>3, <1>5

(* An unknown attribute is passed over whole or not at all. *)
Passable(v) ==
  \/ \E c : v = <<c>> /\ Scalar(c)
  \/ FlatList(v)
  \/ v[1] = Dict

LEMMA AnyRead ==
  ASSUME NEW v, Passable(v), Value(v), NEW r, NEW h, NEW p, p \in Nat, LiesAt(v, r, h, p + 1)
  PROVE  AnyAt([raw |-> r, length |-> h], p) \in {0, (p + 1) + Len(v)}
<1> DEFINE b == [raw |-> r, length |-> h]
           scalars == { q \in 1 .. b.length : StringAt(b, q) \/ IntAt(b, q) }
<1>1. \/ AnyAt(b, p) = 0
      \/ p + 1 \in scalars /\ AnyAt(b, p) = p + 2
      \/ p + 1 \notin scalars /\ AnyAt(b, p) = ListAt(b, p + 1, scalars)
  BY DEF AnyAt
<1>2. At(b, p + 1) = v[1] /\ Len(v) >= 1 /\ Len(v) \in Nat
  <2>1. Len(v) \in Nat /\ Len(v) >= 1
    BY ValuesNested
  <2>2. 1 \in 1..Len(v) /\ (p + 1) + 1 - 1 = p + 1
    BY <2>1
  <2>3. At(b, (p + 1) + 1 - 1) = v[1]
    BY <2>2, LiesIs
  <2> QED
    BY <2>1, <2>2, <2>3
<1>3. \A q \in scalars : At(b, q) # End /\ At(b, q) # List /\ At(b, q) # Dict
  BY DEF StringAt, IntAt, End, List, Dict
<1> HIDE DEF scalars, b
<1>4. ASSUME NEW c, v = <<c>>, Scalar(c) PROVE AnyAt(b, p) \in {0, (p + 1) + Len(v)}
  <2>1. Len(v) = 1 /\ v[1] = c
    BY <1>4, TuplesAreSeqs
  <2>2. ListAt(b, p + 1, scalars) = 0
    BY <1>2, <1>4, <2>1, ScalarIs DEF ListAt, Is
  <2> QED
    BY <1>1, <2>1, <2>2
<1>5. ASSUME FlatList(v) PROVE AnyAt(b, p) \in {0, (p + 1) + Len(v)}
  <2>1. p + 1 \notin scalars
    BY <1>2, <1>3, <1>5 DEF FlatList
  <2>2. ListAt(b, p + 1, scalars) \in {0, (p + 1) + Len(v)}
    BY <1>3, <1>5, FlatListRead DEF b
  <2> QED
    BY <1>1, <2>1, <2>2
<1>6. ASSUME v[1] = Dict PROVE AnyAt(b, p) = 0
  <2>1. p + 1 \notin scalars
    BY <1>2, <1>3, <1>6
  <2>2. ListAt(b, p + 1, scalars) = 0
    BY <1>2, <1>6 DEF ListAt, Is, List, Dict
  <2> QED
    BY <1>1, <2>1, <2>2
<1> QED
  BY <1>4, <1>5, <1>6 DEF Passable, b

-----------------------------------------------------------------------------
(* The list of contacts that a client is sent. *)

LEMMA TwoFlattened ==
  ASSUME NEW s, NEW t, IsSeq(s), IsSeq(t)
  PROVE  FlattenSeq(<<s, t>>) = s \o t
<1> DEFINE ss == <<s, t>>
<1>1. Len(ss) = 2 /\ IsSeq(ss) /\ ss[1] = s /\ ss[2] = t
  BY TuplesAreSeqs
<1>2. FlattenSeq(ss) = FlattenSeq(<<s, t>>)
  OBVIOUS
<1> HIDE DEF ss
<1>3. \A i \in 1..2 : i = 1 \/ i = 2
  OBVIOUS
<1>4. Parts(ss)
  BY <1>1, <1>3 DEF Parts
<1>5. PICK f : Joins(f, ss) /\ FlattenSeq(ss) = f[Len(ss)]
  BY <1>4, FlattenIs
<1>6. f[0] = <<>> /\ f[1] = f[1 - 1] \o s /\ f[2] = f[2 - 1] \o t
  <2>1. 1 \in 1..Len(ss) /\ 2 \in 1..Len(ss)
    BY <1>1
  <2> QED
    BY <1>1, <1>5, <2>1 DEF Joins
<1>7. 1 - 1 = 0 /\ 2 - 1 = 1
  OBVIOUS
<1>8. <<>> \o s = s
  BY ConcatEmptySeq DEF IsSeq
<1> QED
  BY <1>1, <1>2, <1>5, <1>6, <1>7, <1>8

LEMMA ContactDictIs ==
  ASSUME NEW c
  PROVE  LET d == ContactDict(c)
         IN  /\ IsSeq(d) /\ Len(d) = 6 /\ d[1] = Dict /\ d[6] = End
<1> DEFINE p == PairOf("ipv4", <<Integer(c)>>)
           q == PairOf("port", <<Integer(c)>>)
           F == FlattenSeq(<<p, q>>)
<1>3. IsSeq(p) /\ Len(p) = 2 /\ IsSeq(q) /\ Len(q) = 2
  <2>1. IsSeq(<<Integer(c)>>) /\ Len(<<Integer(c)>>) = 1
    BY TuplesAreSeqs
  <2>2. ASSUME NEW a, NEW v, IsSeq(v), Len(v) = 1
        PROVE  IsSeq(PairOf(a, v)) /\ Len(PairOf(a, v)) = 2
    <3>1. IsSeq(PairOf(a, v)) /\ Len(PairOf(a, v)) = Len(v) + 1
      BY <2>2, PairIs
    <3> QED
      BY <2>2, <3>1
  <2> QED
    BY <2>1, <2>2
<1>5. ContactDict(c) = DictOf(<<p, q>>)
  BY DEF ContactDict
<1> HIDE DEF p, q
<1>6. F = p \o q /\ IsSeq(<<p, q>>) /\ Range(<<p, q>>) = {p, q}
  BY <1>3, TwoFlattened, TuplesAreSeqs, RangeOfTuples
<1>7. Len(p \o q) = 4 /\ IsSeq(p \o q)
  <2>1. IsSeq(p) /\ IsSeq(q)
    BY <1>3
  <2>2. Len(p \o q) = Len(p) + Len(q) /\ IsSeq(p \o q)
    BY <2>1, CatIs
  <2> QED
    BY <1>3, <2>2
<1>9. DictOf(<<p, q>>) = <<Dict>> \o F \o <<End>>
  BY DEF DictOf
<1> DEFINE u == <<Dict>> \o F \o <<End>>
<1> HIDE DEF F
<1>10. IsSeq(u) /\ Len(u) = Len(F) + 2 /\ u[1] = Dict /\ u[Len(F) + 2] = End
  BY <1>6, <1>7, WrappedIs
<1>11. Len(F) + 2 = 6
  BY <1>6, <1>7
<1> QED
  BY <1>5, <1>9, <1>10, <1>11

LEMMA FoundContactsAre ==
  LET v == ListOf(<<ContactDict(1), ContactDict(2)>>)
  IN  FoundList(v) /\ Value(v)
<1> DEFINE p == ContactDict(1)
           q == ContactDict(2)
           F == FlattenSeq(<<p, q>>)
<1>1. /\ IsSeq(p) /\ Len(p) = 6 /\ p[1] = Dict
      /\ IsSeq(q) /\ Len(q) = 6 /\ q[1] = Dict
  BY ContactDictIs
<1>2. ListOf(<<p, q>>) = <<List>> \o F \o <<End>>
  BY DEF ListOf
<1>11. Value(ListOf(<<p, q>>))
  <2>1. \A c : Nested(ContactDict(c))
    <3> TAKE c
    <3>1. Nested(<<Integer(c)>>)
      BY ScalarsNested
    <3>2. Nested(PairOf("ipv4", <<Integer(c)>>)) /\ Nested(PairOf("port", <<Integer(c)>>))
      BY <3>1, PairsNested
    <3> QED
      BY <3>2, AllNestedTuples, DictsNested DEF ContactDict
  <2>2. AllNested(<<p, q>>)
    BY <2>1, AllNestedTuples
  <2>3. Encloses(List, ListOf(<<p, q>>))
    BY <2>2, DictsNested
  <2>4. Opens(List)
    BY DEF Opens
  <2> HIDE DEF p, q
  <2> QED
    BY <2>3, <2>4 DEF Value, Encloses
<1> HIDE DEF p, q
<1>3. F = p \o q /\ IsSeq(<<p, q>>) /\ Range(<<p, q>>) = {p, q}
  BY <1>1, TwoFlattened, TuplesAreSeqs, RangeOfTuples
<1>5. IsSeq(p \o q) /\ Len(p \o q) = Len(p) + Len(q)
      /\ \A i \in 1..Len(p) + Len(q) : (p \o q)[i] = IF i <= Len(p) THEN p[i] ELSE q[i - Len(p)]
  BY <1>1, CatIs
<1>6. Len(F) = 12 /\ IsSeq(F) /\ F[1] = Dict /\ F[7] = Dict
  <2>1. 1 \in 1..Len(p) + Len(q) /\ 7 \in 1..Len(p) + Len(q) /\ 1 <= Len(p)
        /\ ~ 7 <= Len(p) /\ 7 - Len(p) = 1 /\ Len(p) + Len(q) = 12
    BY <1>1
  <2> QED
    BY <1>1, <1>3, <1>5, <2>1
<1> DEFINE u == <<List>> \o F \o <<End>>
<1> HIDE DEF F
<1>7. /\ IsSeq(u) /\ Len(u) = Len(F) + 2 /\ u[1] = List /\ u[Len(F) + 2] = End
      /\ \A i \in 1..Len(F) : u[i + 1] = F[i]
  <2>1. IsSeq(F)
    BY <1>6
  <2> QED
    BY <2>1, WrappedIs
<1>8. 1 \in 1..Len(F) /\ 7 \in 1..Len(F) /\ 1 + 1 = 2 /\ 7 + 1 = 8 /\ Len(F) + 2 = 14
  BY <1>6
<1> HIDE DEF u
<1>9. u[2] = Dict /\ u[8] = Dict
  <2>1. u[1 + 1] = F[1] /\ u[7 + 1] = F[7]
    BY <1>7, <1>8
  <2> QED
    BY <1>6, <1>8, <2>1
<1>10. FoundList(u)
  BY <1>7, <1>8, <1>9 DEF FoundList
<1> QED
  BY <1>2, <1>10, <1>11 DEF p, q, u
-----------------------------------------------------------------------------
(* The attributes of a body. *)

(* A key with its value. *)
Attr(x) == \E a, v : x = PairOf(a, v) /\ Value(v)

(* One cell. *)
OneCell(x) == \E a, c : x = PairOf(a, <<c>>) /\ Scalar(c)

(* A packed string of whole units. *)
Packs(a, c) ==
  /\ a = "nodes" => \E n, w : c = Str(n, w) /\ n % 26 = 0
  /\ a = "samples" => \E n, w : c = Str(n, w) /\ n % 20 = 0

Plain(x) == \E a, c : x = PairOf(a, <<c>>) /\ Scalar(c) /\ a # "want" /\ Packs(a, c)

Values == PairOf("values", Contacts(<<"a", "b">>))

FoundContacts == PairOf("contacts", ListOf(<<ContactDict(1), ContactDict(2)>>))

Known(x, k) ==
  \/ Plain(x)
  \/ x = Want
  \/ k = "r_get_peers_peers" /\ x = Values
  \/ k = "sp_found" /\ x = FoundContacts

LEMMA PlainPairs ==
  /\ \A a, n : a \notin {"want", "nodes", "samples"} => Plain(PairOf(a, <<Integer(n)>>))
  /\ \A a, n, v : a \notin {"want", "nodes", "samples"} => Plain(PairOf(a, <<Str(n, v)>>))
<1>1. \A a, c : a \notin {"want", "nodes", "samples"} /\ Scalar(c) => Plain(PairOf(a, <<c>>))
  BY DEF Plain, Packs
<1> QED
  BY <1>1, Scalars

LEMMA PackedPairs == Plain(Nodes) /\ Plain(Samples)
<1>1. 26 * 2 = 52 /\ 52 % 26 = 0 /\ 20 * 2 = 40 /\ 40 % 20 = 0
  OBVIOUS
<1>2. /\ CompactNodes(<<"near", "far">>) = <<Str(52, <<"near", "far">>)>>
      /\ CompactHashes(<<"x", "y">>) = <<Str(40, <<"x", "y">>)>>
  BY <1>1 DEF CompactNodes, CompactHashes
<1>3. \A w : Packs("nodes", Str(52, w)) /\ Packs("samples", Str(40, w))
  BY <1>1 DEF Packs
<1>4. "nodes" # "want" /\ "samples" # "want"
  OBVIOUS
<1> QED
  BY <1>2, <1>3, <1>4, Scalars DEF Plain, Nodes, Samples

LEMMA BodiesAre == \A k \in DOMAIN Bodies : \A x \in Range(Bodies[k]) : Known(x, k)
<1> DEFINE N == {"want", "nodes", "samples"}
<1>1. /\ "id" \notin N /\ "token" \notin N /\ "target" \notin N /\ "info_hash" \notin N
      /\ "scrape" \notin N /\ "implied_port" \notin N /\ "port" \notin N /\ "BFsd" \notin N
      /\ "BFpe" \notin N /\ "interval" \notin N /\ "num" \notin N /\ "search" \notin N
      /\ "timeout" \notin N
  OBVIOUS
<1> HIDE DEF N
<1>2. Plain(Id) /\ Plain(Token) /\ Plain(Target) /\ Plain(InfoHash)
  BY <1>1, PlainPairs DEF N, Id, Token, Target, InfoHash
<1>3. Plain(Nodes) /\ Plain(Samples)
  BY PackedPairs
<1> DEFINE T == Flag(TRUE)
           f == PairOf("scrape", T)
           g == PairOf("implied_port", T)
           h == PairOf("port", <<Integer(6881)>>)
           s == PairOf("BFsd", <<Str(256, "seeds")>>)
           p == PairOf("BFpe", <<Str(256, "peers")>>)
           i == PairOf("interval", <<Integer(60)>>)
           n == PairOf("num", <<Integer(2)>>)
           q == PairOf("search", <<Str(20, "infohash")>>)
           t == PairOf("timeout", <<Integer(60)>>)
           u == PairOf("id", <<Str(20, "infohash")>>)
<1>4. T = <<Integer(1)>>
  BY DEF Flag
<1> HIDE DEF T
<1>6. Plain(f) /\ Plain(g) /\ Plain(h)
  BY <1>1, <1>4, PlainPairs DEF N
<1>7. Plain(s) /\ Plain(p) /\ Plain(i) /\ Plain(n)
  BY <1>1, PlainPairs DEF N
<1>8. Plain(q) /\ Plain(t) /\ Plain(u)
  BY <1>1, PlainPairs DEF N
<1>9. /\ PingRequest = <<Id>> /\ FindNodeRequest = <<Id, Target, Want>>
      /\ GetPeersRequest = <<Id, InfoHash, Want>>
      /\ GetPeersScrapeRequest = <<Id, InfoHash, Want, f>>
      /\ AnnouncePeerRequest = <<Id, g, InfoHash, h, Token>>
      /\ SampleInfohashesRequest = <<Id, Target, Want>>
  BY DEF PingRequest, FindNodeRequest, GetPeersRequest, GetPeersScrapeRequest,
         AnnouncePeerRequest, SampleInfohashesRequest, T
<1>10. /\ PingResponse = <<Id>> /\ FindNodeResponse = <<Id, Nodes>>
       /\ GetPeersResponse = <<Id, Token, Nodes>>
       /\ GetPeersPeersResponse = <<Id, Token, Values>>
       /\ GetPeersScrapeResponse = <<Id, Token, s, p>>
       /\ AnnouncePeerResponse = <<Id>>
       /\ SampleInfohashesResponse = <<Id, i, Nodes, n, Samples>>
  BY DEF PingResponse, FindNodeResponse, GetPeersResponse, GetPeersPeersResponse, Values,
         GetPeersScrapeResponse, AnnouncePeerResponse, SampleInfohashesResponse
<1>11. /\ SearchRequest = <<q, t>> /\ StopSearchRequest = <<q>> /\ NoArguments = <<>>
       /\ Found = <<u, FoundContacts>>
  BY DEF SearchRequest, StopSearchRequest, NoArguments, Found, FoundContacts
<1> HIDE DEF f, g, h, s, p, i, n, q, t, u
<1> DEFINE Fine(b) == \A x \in Range(b) : Plain(x) \/ x = Want
<1>12. Fine(PingRequest) /\ Fine(FindNodeRequest) /\ Fine(GetPeersRequest)
       /\ Fine(SampleInfohashesRequest)
  BY <1>2, <1>9, RangeOfTuples
<1>13. Fine(GetPeersScrapeRequest) /\ Fine(AnnouncePeerRequest)
  BY <1>2, <1>6, <1>9, RangeOfTuples
<1>14. Fine(PingResponse) /\ Fine(FindNodeResponse) /\ Fine(GetPeersResponse)
       /\ Fine(AnnouncePeerResponse) /\ \A x \in Range(GetPeersPeersResponse) : Plain(x) \/ x = Values
  BY <1>2, <1>3, <1>10, RangeOfTuples
<1>15. Fine(GetPeersScrapeResponse) /\ Fine(SampleInfohashesResponse)
  BY <1>2, <1>3, <1>7, <1>8, <1>10, RangeOfTuples
<1>16. Fine(SearchRequest) /\ Fine(StopSearchRequest) /\ Fine(NoArguments)
  BY <1>8, <1>11, RangeOfTuples
<1>17. \A x \in Range(Found) : Plain(x) \/ x = FoundContacts
  BY <1>8, <1>11, RangeOfTuples
<1> HIDE DEF Fine
<1>18. \A k \in DOMAIN Bodies :
         \/ Fine(Bodies[k])
         \/ k = "sp_found" /\ Bodies[k] = Found
         \/ k = "r_get_peers_peers" /\ Bodies[k] = GetPeersPeersResponse
  BY <1>12, <1>13, <1>14, <1>15, <1>16 DEF Bodies
<1> QED
  BY <1>14, <1>17, <1>18 DEF Known, Fine

(* The messages whose body is parsed. *)
Parsed == DOMAIN Bodies \ (Unread \cup {"error", "unheard_of"})

Typed(T) ==
  /\ \A a \in DOMAIN T : T[a] \in Types
  /\ "want" \in DOMAIN T => T["want"] = "want"
  /\ "values" \in DOMAIN T => T["values"] = "peers"
  /\ "x" \notin DOMAIN T

LEMMA ParsersTyped ==
  ASSUME NEW k \in Parsed
  PROVE  /\ Typed(ParserOf(k).types)
         /\ k \notin {"r_sample_infohashes", "sp_found"} =>
              /\ ParserOf(k).strict = {}
              /\ \A a \in DOMAIN ParserOf(k).types :
                   ParserOf(k).types[a] \notin {"hashes", "contacts"}
         /\ k = "r_sample_infohashes" => ParserOf(k) = ParseSampleInfohashesResponse
         /\ k = "sp_found" => ParserOf(k) = ParseFound
<1> DEFINE Good(p) ==
      /\ Typed(p.types) /\ p.strict = {}
      /\ \A a \in DOMAIN p.types : p.types[a] \notin {"hashes", "contacts"}
<1>1. Good(ParsePingRequest)
  BY DEF ParsePingRequest, Parser, Typed, Types
<1>2. Good(ParseFindNodeRequest)
  BY DEF ParseFindNodeRequest, Parser, Typed, Types
<1>3. Good(ParseGetPeersRequest)
  BY DEF ParseGetPeersRequest, Parser, Typed, Types
<1>4. Good(ParseAnnouncePeerRequest)
  BY DEF ParseAnnouncePeerRequest, Parser, Typed, Types
<1>5. Good(ParseSampleInfohashesRequest)
  BY DEF ParseSampleInfohashesRequest, Parser, Typed, Types
<1>6. Good(ParsePingResponse)
  BY DEF ParsePingResponse, Parser, Typed, Types
<1>7. Good(ParseFindNodeResponse)
  BY DEF ParseFindNodeResponse, Parser, Typed, Types
<1>8. Good(ParseGetPeersResponse)
  BY DEF ParseGetPeersResponse, Parser, Typed, Types
<1>9. Good(ParseAnnouncePeerResponse)
  BY DEF ParseAnnouncePeerResponse, Parser, Typed, Types
<1>10. Typed(ParseSampleInfohashesResponse.types)
  BY DEF ParseSampleInfohashesResponse, Parser, Typed, Types
<1>11. Good(ParseSearch)
  BY DEF ParseSearch, Ordered, Typed, Types
<1>12. Good(ParseStopSearch)
  BY DEF ParseStopSearch, Ordered, Typed, Types
<1>13. Typed(ParseFound.types)
  BY DEF ParseFound, Ordered, Typed, Types
<1> HIDE DEF Good
<1>14. k \in {"ping", "find_node", "get_peers", "get_peers_scrape", "announce_peer",
              "sample_infohashes", "r_ping", "r_find_node", "r_get_peers", "r_get_peers_peers",
              "r_get_peers_scrape", "r_announce_peer", "r_sample_infohashes", "sp_search",
              "sp_search_stop", "sp_found"}
  BY DEF Parsed, Bodies, Unread
<1>15. CASE k = "sp_found"
  BY <1>13, <1>15 DEF ParserOf
<1>16. CASE k = "r_sample_infohashes"
  BY <1>10, <1>16 DEF ParserOf
<1>17. CASE k \notin {"r_sample_infohashes", "sp_found"}
  <2>1. Good(ParserOf(k))
    BY <1>1, <1>2, <1>3, <1>4, <1>5, <1>6, <1>7, <1>8, <1>9, <1>11, <1>12, <1>14, <1>17
       DEF ParserOf
  <2> QED
    BY <1>17, <2>1 DEF Good
<1> QED
  BY <1>15, <1>16, <1>17

(* The parsers with something special. *)
LEMMA StrictParser ==
  LET p == ParseSampleInfohashesResponse
  IN  /\ p.strict = {"nodes", "samples"} /\ p.strict \subseteq DOMAIN p.types
      /\ p.types["nodes"] = "nodes" /\ p.types["samples"] = "hashes"
      /\ \A a \in DOMAIN p.types :
           p.types[a] # "contacts" /\ (p.types[a] = "hashes" => a = "samples")
BY DEF ParseSampleInfohashesResponse, Parser

LEMMA FoundParser ==
  LET p == ParseFound
  IN  /\ p.strict = {} /\ p.order # <<>> /\ "want" \notin DOMAIN p.types
      /\ DOMAIN p.types = {"id", "contacts"} /\ p.types["contacts"] = "contacts"
BY DEF ParseFound, Ordered

(* A pair of which the parser of k takes all or nothing. *)
Takeable(a, v, k) ==
  /\ Value(v)
  /\ ParserOf(k).order = <<>> => Passable(v)
  /\ a \in DOMAIN ParserOf(k).types =>
       ParserOf(k).types[a] \in Types /\ ReadsWhole(v, ParserOf(k).types[a])
  /\ a = "want" /\ "want" \in DOMAIN ParserOf(k).types =>
       ParserOf(k).types["want"] = "want" /\ TextList(v)
  /\ a \in ParserOf(k).strict => \E c : v = <<c>> /\ Packs(a, c)

OwnPair(x, k) == \E a, v : x = PairOf(a, v) /\ Takeable(a, v, k)

LEMMA ScalarTakeable ==
  ASSUME NEW k \in Parsed, NEW a, a # "want", NEW c, Scalar(c),
         a \in ParserOf(k).strict => Packs(a, c)
  PROVE  Takeable(a, <<c>>, k)
<1>1. Value(<<c>>)
  BY ScalarValue
<1>2. Passable(<<c>>)
  BY DEF Passable
<1>3. a \in DOMAIN ParserOf(k).types =>
        ParserOf(k).types[a] \in Types /\ ReadsWhole(<<c>>, ParserOf(k).types[a])
  BY ParsersTyped DEF Typed, ReadsWhole
<1> QED
  BY <1>1, <1>2, <1>3 DEF Takeable

LEMMA ListTakeable ==
  ASSUME NEW k \in Parsed, NEW a, NEW v, FlatList(v), a \notin ParserOf(k).strict,
         a \in DOMAIN ParserOf(k).types => ParserOf(k).types[a] \in {"peers", "want"},
         a = "want" => TextList(v)
  PROVE  Takeable(a, v, k)
<1>1. Value(v) /\ Passable(v)
  BY FlatListValue DEF Passable
<1>2. a \in DOMAIN ParserOf(k).types =>
        ParserOf(k).types[a] \in Types /\ ReadsWhole(v, ParserOf(k).types[a])
  BY DEF Types, ReadsWhole
<1>3. "want" \in DOMAIN ParserOf(k).types => ParserOf(k).types["want"] = "want"
  BY ParsersTyped DEF Typed
<1> QED
  BY <1>1, <1>2, <1>3 DEF Takeable

(* What no parser takes for an attribute with a list or with packed strings. *)
LEMMA NotStrict ==
  ASSUME NEW k \in Parsed
  PROVE  ParserOf(k).strict \subseteq {"nodes", "samples"}
BY ParsersTyped, StrictParser, FoundParser

LEMMA KnownOwn ==
  ASSUME NEW k \in Parsed, NEW x, Known(x, k)
  PROVE  OwnPair(x, k)
<1>1. CASE Plain(x)
  BY <1>1, ScalarTakeable DEF Plain, OwnPair
<1>2. CASE x = Want
  <2>1. TextList(Texts(<<"n4">>)) /\ FlatList(Texts(<<"n4">>))
    BY TuplesAreSeqs, ListsFlat DEF TextList
  <2>2. "want" \in DOMAIN ParserOf(k).types => ParserOf(k).types["want"] \in {"peers", "want"}
    BY ParsersTyped DEF Typed
  <2>3. "want" \notin ParserOf(k).strict
    BY NotStrict
  <2>4. Takeable("want", Texts(<<"n4">>), k)
    BY <2>1, <2>2, <2>3, ListTakeable
  <2> QED
    BY <1>2, <2>4 DEF Want, OwnPair
<1>3. CASE x = Values
  <2>1. FlatList(Contacts(<<"a", "b">>))
    BY TuplesAreSeqs, ListsFlat
  <2>2. "values" \in DOMAIN ParserOf(k).types => ParserOf(k).types["values"] \in {"peers", "want"}
    BY ParsersTyped DEF Typed
  <2>3. "values" \notin ParserOf(k).strict /\ "values" # "want"
    BY NotStrict
  <2>4. Takeable("values", Contacts(<<"a", "b">>), k)
    BY <2>1, <2>2, <2>3, ListTakeable
  <2> QED
    BY <1>3, <2>4 DEF Values, OwnPair
<1>4. CASE k = "sp_found" /\ x = FoundContacts
  <2> DEFINE v == ListOf(<<ContactDict(1), ContactDict(2)>>)
  <2>1. FoundList(v) /\ Value(v)
    BY FoundContactsAre
  <2>2. FoundContacts = PairOf("contacts", v)
    BY DEF FoundContacts
  <2> HIDE DEF v
  <2>3. ParserOf(k) = ParseFound
    BY <1>4, ParsersTyped
  <2>4. /\ ParserOf(k).strict = {} /\ ParserOf(k).order # <<>>
        /\ ParserOf(k).types["contacts"] = "contacts"
    BY <2>3, FoundParser
  <2>5. "contacts" \in Types /\ ReadsWhole(v, "contacts")
    BY <2>1 DEF ReadsWhole, Types
  <2>6. "contacts" # "want"
    OBVIOUS
  <2>7. Takeable("contacts", v, k)
    BY <2>1, <2>4, <2>5, <2>6 DEF Takeable
  <2> QED
    BY <1>4, <2>2, <2>7 DEF OwnPair
<1> QED
  BY <1>1, <1>2, <1>3, <1>4 DEF Known

(* Its strict attributes are always sent. *)
LEMMA StrictSent ==
  ASSUME NEW k \in Parsed, NEW a \in ParserOf(k).strict
  PROVE  \E i \in DOMAIN Bodies[k] : Bodies[k][i][1] = Key(a)
<1>1. k = "r_sample_infohashes" /\ a \in {"nodes", "samples"}
  BY ParsersTyped, StrictParser, FoundParser
<1> DEFINE i == PairOf("interval", <<Integer(60)>>)
           n == PairOf("num", <<Integer(2)>>)
           s == <<Id, i, Nodes, n, Samples>>
<1>2. Bodies[k] = s
  BY <1>1 DEF Bodies, SampleInfohashesResponse
<1> HIDE DEF i, n
<1>3. DOMAIN s = 1..5 /\ s[3] = Nodes /\ s[5] = Samples
  OBVIOUS
<1> HIDE DEF s
<1>4. Nodes[1] = Key("nodes") /\ Samples[1] = Key("samples")
  <2>1. \A c : IsSeq(<<c>>)
    BY TuplesAreSeqs
  <2>2. IsSeq(CompactNodes(<<"near", "far">>)) /\ IsSeq(CompactHashes(<<"x", "y">>))
    BY <2>1 DEF CompactNodes, CompactHashes
  <2> QED
    BY <2>2, PairIs DEF Nodes, Samples
<1>5. 3 \in 1..5 /\ 5 \in 1..5
  OBVIOUS
<1> QED
  BY <1>1, <1>2, <1>3, <1>4, <1>5

LEMMA OptionalOwn ==
  ASSUME NEW k \in Parsed, NEW x \in Optional(k)
  PROVE  OwnPair(x, k)
<1> DEFINE T == ParserOf(k).types
<1>1. PICK a \in DOMAIN T : /\ InAnyOrder(k) /\ x = PairOf(a, Sample(T[a]))
                            /\ \A i \in DOMAIN Bodies[k] : Bodies[k][i][1] # Key(a)
  BY DEF Optional
<1>2. a \notin ParserOf(k).strict
  BY <1>1, StrictSent
<1>3. T[a] \in Types /\ T[a] \notin {"contacts", "hashes"} /\ (a = "want" => T[a] = "want")
  <2>1. Typed(T) /\ k # "sp_found"
    BY <1>1, ParsersTyped DEF InAnyOrder
  <2>2. T[a] \notin {"contacts", "hashes"}
    <3>1. CASE k = "r_sample_infohashes"
      <4>1. ParserOf(k) = ParseSampleInfohashesResponse
        BY <3>1, ParsersTyped
      <4>2. T[a] # "contacts" /\ (T[a] = "hashes" => a = "samples") /\ "samples" \in ParserOf(k).strict
        BY <4>1, StrictParser
      <4> QED
        BY <1>2, <4>2
    <3>2. CASE k # "r_sample_infohashes"
      BY <2>1, <3>2, ParsersTyped
    <3> QED
      BY <3>1, <3>2
  <2> QED
    BY <2>1, <2>2 DEF Typed
<1> DEFINE t == T[a]
<1>4. t \in {"id", "ref", "u16", "number", "contact", "nodes", "peers", "want"}
  BY <1>3 DEF Types
<1>5. SUFFICES Takeable(a, Sample(t), k)
  BY <1>1 DEF OwnPair
<1>6. CASE t \in {"peers", "want"}
  <2>1. FlatList(Contacts(<<"a">>)) /\ TextList(Texts(<<"n4", "n6">>))
    BY TuplesAreSeqs, ListsFlat
  <2>2. FlatList(Sample(t)) /\ (t = "want" => TextList(Sample(t)))
    BY <1>6, <2>1 DEF Sample, TextList
  <2> HIDE DEF T
  <2>3. FlatList(Sample(t)) /\ (a = "want" => TextList(Sample(t)))
    BY <1>3, <2>2
  <2> QED
    BY <1>2, <1>6, <2>3, ListTakeable DEF T
<1>7. CASE t \notin {"peers", "want"}
  <2>1. \E c : Scalar(c) /\ Sample(t) = <<c>>
    <3>1. t \in {"id", "ref"} => Sample(t) = <<Str(4, "optional")>>
      BY DEF Sample
    <3>2. t \in {"u16", "number"} => Sample(t) = <<Integer(1)>>
      BY DEF Sample
    <3>3. t = "contact" => Sample(t) = <<Str(6, "address")>>
      BY DEF Sample
    <3>4. t = "nodes" => \E n : Sample(t) = <<Str(n, <<"near">>)>>
      BY DEF Sample, CompactNodes
    <3> HIDE DEF t
    <3> QED
      BY <1>4, <1>7, <3>1, <3>2, <3>3, <3>4, Scalars
  <2>2. PICK c : Scalar(c) /\ Sample(t) = <<c>>
    BY <2>1
  <2>3. a # "want"
    BY <1>3, <1>7
  <2>4. Takeable(a, <<c>>, k)
    BY <1>2, <2>2, <2>3, ScalarTakeable
  <2> QED
    BY <2>2, <2>4
<1> QED
  BY <1>6, <1>7

(* An unknown attribute. *)
UnheardValues ==
  {<<Text("?")>>, <<Str(200, "?")>>, <<Integer(1)>>, <<Key("id")>>, <<Key("q")>>,
   ListOf(<< <<Key("id")>>, OtherId >>), DictOf(<<PairOf("id", OtherId)>>)}

LEMMA UnheardIs ==
  ASSUME NEW x \in Unheard
  PROVE  \E v : x = PairOf("x", v) /\ Value(v) /\ Passable(v)
<1>1. PICK v \in UnheardValues : x = PairOf("x", v)
  BY DEF Unheard, UnheardValues
<1> DEFINE m == ListOf(<< <<Key("id")>>, OtherId >>)
           D == DictOf(<<PairOf("id", OtherId)>>)
<1>2. CASE v \in {<<Text("?")>>, <<Str(200, "?")>>, <<Integer(1)>>, <<Key("id")>>, <<Key("q")>>}
  <2>1. \E c : v = <<c>> /\ Scalar(c)
    BY <1>2, Scalars
  <2> QED
    BY <1>1, <2>1, ScalarValue DEF Passable
<1>3. CASE v = m
  <2> DEFINE a == <<Key("id")>>
             b == <<Str(20, "other")>>
  <2>1. Scalar(Key("id")) /\ Scalar(Str(20, "other"))
    BY Scalars
  <2>2. m = ListOf(<<a, b>>)
    BY DEF OtherId
  <2>3. IsSeq(<<a, b>>) /\ Range(<<a, b>>) = {a, b}
    BY PairsAreSeqs
  <2>4. \A z \in Range(<<a, b>>) : \E c : Scalar(c) /\ z = <<c>>
    BY <2>1, <2>3
  <2> HIDE DEF a, b, m
  <2>5. FlatList(m)
    BY <2>2, <2>3, <2>4, ScalarsFlat
  <2> QED
    BY <1>1, <1>3, <2>5, FlatListValue DEF Passable
<1>4. CASE v = D
  <2> DEFINE y == PairOf("id", OtherId)
  <2>1. Nested(y)
    BY ScalarsNested, PairsNested DEF OtherId
  <2>2. D = DictOf(<<y>>)
    OBVIOUS
  <2> HIDE DEF y, D
  <2>3. AllNested(<<y>>)
    BY <2>1, AllNestedTuples
  <2>4. Encloses(Dict, D)
    BY <2>2, <2>3, DictsNested
  <2>5. Value(D) /\ D[1] = Dict
    BY <2>4 DEF Value, Encloses, Opens
  <2> QED
    BY <1>1, <1>4, <2>5 DEF Passable
<1> HIDE DEF m, D
<1> QED
  BY <1>1, <1>2, <1>3, <1>4 DEF UnheardValues, m, D

LEMMA UnheardOwn ==
  ASSUME NEW k \in Parsed, NEW x \in Unheard
  PROVE  OwnPair(x, k)
<1>1. PICK v : x = PairOf("x", v) /\ Value(v) /\ Passable(v)
  BY UnheardIs
<1>2. "x" \notin DOMAIN ParserOf(k).types /\ "x" \notin ParserOf(k).strict /\ "x" # "want"
  BY ParsersTyped, NotStrict DEF Typed
<1>3. Takeable("x", v, k)
  BY <1>1, <1>2 DEF Takeable
<1> QED
  BY <1>1, <1>3 DEF OwnPair

(* A body in which the parser may get out of step consists of single cells. *)
Loose(k, h) == h = "unlisted" \/ (h = "ragged" /\ k = "r_sample_infohashes")

Belongs(x, k, h) ==
  /\ Attr(x)
  /\ k \in Parsed => IF Loose(k, h) THEN OneCell(x) ELSE OwnPair(x, k)

LEMMA OwnBelongs ==
  ASSUME NEW k, NEW h, ~ Loose(k, h), NEW x, OwnPair(x, k)
  PROVE  Belongs(x, k, h)
BY DEF Belongs, OwnPair, Attr, Takeable

LEMMA CellBelongs ==
  ASSUME NEW k, NEW h, Loose(k, h), NEW x, OneCell(x)
  PROVE  Belongs(x, k, h)
BY ScalarValue DEF Belongs, OneCell, Attr

(* What our encoders do not write comes to parsers only. *)
LEMMA PartsBelong ==
  ASSUME NEW k \in DOMAIN Bodies, NEW h, ~ Loose(k, h)
  PROVE  \A x \in Range(Bodies[k]) \cup Optional(k) \cup Unheard : Belongs(x, k, h)
<1>1. CASE k \in Parsed
  <2>1. \A x \in Range(Bodies[k]) \cup Optional(k) \cup Unheard : OwnPair(x, k)
    BY <1>1, BodiesAre, KnownOwn, OptionalOwn, UnheardOwn
  <2> QED
    BY <2>1, OwnBelongs
<1>2. CASE k \notin Parsed
  <2>1. k \in Unread \cup {"error", "unheard_of"}
    BY <1>2 DEF Parsed
  <2>2. Optional(k) = {}
    BY <2>1 DEF Optional
  <2>3. Bodies[k] = <<>>
    BY <2>1 DEF Bodies, NoArguments, Unread
  <2>4. \A x \in Unheard : Attr(x)
    BY UnheardIs DEF Attr
  <2> QED
    BY <1>2, <2>2, <2>3, <2>4, RangeOfTuples DEF Belongs
<1> QED
  BY <1>1, <1>2

-----------------------------------------------------------------------------
(* What arrives. *)

(* The attributes that a message of another make has around the body. *)
Besides == {PairOf("ip", <<Str(6, "address")>>), PairOf("ro", <<Integer(1)>>)} \cup Unheard

Composed(k, d) ==
  /\ IsSeq(d.sent) /\ \A x \in Range(d.sent) : Belongs(x, k, d.how)
  /\ \E pairs : /\ IsSeq(pairs) /\ Range(pairs) \subseteq Range(Framed(k, d.sent)) \cup Besides
                /\ d.buf = DictOf(pairs) /\ d.len = Len(DictOf(pairs))

LEMMA DeliveryComposed ==
  ASSUME NEW k, NEW h, NEW b, NEW pairs, IsSeq(b), \A x \in Range(b) : Belongs(x, k, h),
         IsSeq(pairs), Range(pairs) \subseteq Range(Framed(k, b)) \cup Besides
  PROVE  Composed(k, Delivery(h, b, pairs))
<1> DEFINE e == Delivery(h, b, pairs)
<1>1. e.how = h /\ e.sent = b /\ e.buf = DictOf(pairs) /\ e.len = Len(DictOf(pairs))
  BY DEF Delivery
<1> HIDE DEF e
<1>2. Composed(k, e)
  BY <1>1 DEF Composed
<1> QED
  BY <1>2 DEF e

LEMMA BodiesAreSeqs == \A k \in DOMAIN Bodies : IsSeq(Bodies[k])
BY BodiesNested DEF AllNested, Parts

LEMMA FramedIsSeq == \A k, b : IsSeq(Framed(k, b))
BY FramedIs DEF Frames

(* A body as it is, and one more or one again. *)
LEMMA BodiesBelong ==
  ASSUME NEW k \in DOMAIN Bodies, NEW h, ~ Loose(k, h), NEW b, IsSeq(b),
         Range(b) \subseteq Range(Bodies[k]) \cup Optional(k) \cup Unheard,
         NEW pairs, IsSeq(pairs), Range(pairs) \subseteq Range(Framed(k, b)) \cup Besides
  PROVE  Composed(k, Delivery(h, b, pairs))
<1>1. \A x \in Range(b) : Belongs(x, k, h)
  BY PartsBelong
<1> QED
  BY <1>1, DeliveryComposed

LEMMA WholeComposed ==
  ASSUME NEW k \in DOMAIN Bodies, NEW d \in WholeDeliveries(k)
  PROVE  Composed(k, d)
<1> DEFINE s == Bodies[k]
           f == Framed(k, s)
           More == {PairOf("ip", <<Str(6, "address")>>), PairOf("ro", <<Integer(1)>>)}
<1>1. IsSeq(s) /\ IsSeq(f) /\ ~ Loose(k, "whole") /\ More \subseteq Besides
  BY BodiesAreSeqs, FramedIsSeq DEF Loose, Besides
<1>2. \/ \E b \in IF InAnyOrder(k) THEN Shuffled(s) ELSE {s} : d = Delivery("whole", b, Framed(k, b))
      \/ \E pairs \in Shuffled(f) : d = Delivery("whole", s, pairs)
      \/ \E x \in More : \E pairs \in Extended(f, x) : d = Delivery("whole", s, pairs)
      \/ \E x \in Optional(k) : \E b \in Extended(s, x) : d = Delivery("whole", b, Framed(k, b))
  BY DEF WholeDeliveries
<1> HIDE DEF s, f, More
<1>3. ASSUME NEW b \in IF InAnyOrder(k) THEN Shuffled(s) ELSE {s}
      PROVE  Composed(k, Delivery("whole", b, Framed(k, b)))
  <2>1. IsSeq(b) /\ Range(b) \subseteq Range(s)
    BY <1>1, Rearranged
  <2> QED
    BY <1>1, <2>1, FramedIsSeq, BodiesBelong DEF s
<1>4. ASSUME NEW pairs \in Shuffled(f) PROVE Composed(k, Delivery("whole", s, pairs))
  <2>1. IsSeq(pairs) /\ Range(pairs) \subseteq Range(f)
    BY <1>1, Rearranged
  <2> QED
    BY <1>1, <2>1, BodiesBelong DEF s, f
<1>5. ASSUME NEW x \in More, NEW pairs \in Extended(f, x)
      PROVE  Composed(k, Delivery("whole", s, pairs))
  <2>1. IsSeq(pairs) /\ Range(pairs) \subseteq Range(f) \cup {x}
    BY <1>1, Rearranged
  <2>2. Range(pairs) \subseteq Range(f) \cup Besides
    BY <1>1, <2>1
  <2> QED
    BY <1>1, <2>1, <2>2, BodiesBelong DEF s, f
<1>6. ASSUME NEW x \in Optional(k), NEW b \in Extended(s, x)
      PROVE  Composed(k, Delivery("whole", b, Framed(k, b)))
  <2>1. IsSeq(b) /\ Range(b) \subseteq Range(s) \cup {x}
    BY <1>1, Rearranged
  <2>2. Range(b) \subseteq Range(s) \cup Optional(k) \cup Unheard
    BY <2>1
  <2> QED
    BY <1>1, <2>1, <2>2, FramedIsSeq, BodiesBelong DEF s
<1> QED
  BY <1>2, <1>3, <1>4, <1>5, <1>6

LEMMA RepeatedComposed ==
  ASSUME NEW k \in DOMAIN Bodies, NEW d \in RepeatedDeliveries(k)
  PROVE  Composed(k, d)
<1> DEFINE s == Bodies[k]
           f == Framed(k, s)
<1>1. IsSeq(s) /\ IsSeq(f) /\ ~ Loose(k, "repeated")
  BY BodiesAreSeqs, FramedIsSeq DEF Loose
<1>2. \/ \E i \in DOMAIN f : d = Delivery("repeated", s, Append(f, f[i]))
      \/ \E i \in DOMAIN s : d = Delivery("repeated", Append(s, s[i]), Framed(k, Append(s, s[i])))
  BY DEF RepeatedDeliveries
<1> HIDE DEF s, f
<1>3. ASSUME NEW i \in DOMAIN f PROVE Composed(k, Delivery("repeated", s, Append(f, f[i])))
  <2>1. IsSeq(Append(f, f[i])) /\ Range(Append(f, f[i])) \subseteq Range(f)
    BY <1>1, Rearranged
  <2> QED
    BY <1>1, <2>1, BodiesBelong DEF s, f
<1>4. ASSUME NEW i \in DOMAIN s
      PROVE  Composed(k, Delivery("repeated", Append(s, s[i]), Framed(k, Append(s, s[i]))))
  <2>1. IsSeq(Append(s, s[i])) /\ Range(Append(s, s[i])) \subseteq Range(s)
    BY <1>1, Rearranged
  <2> QED
    BY <1>1, <2>1, FramedIsSeq, BodiesBelong DEF s
<1> QED
  BY <1>2, <1>3, <1>4

LEMMA UnknownComposed ==
  ASSUME NEW k \in DOMAIN Bodies, NEW d \in UnknownDeliveries(k) \cup ForeignDeliveries(k)
  PROVE  Composed(k, d)
<1> DEFINE s == Bodies[k]
           f == Framed(k, s)
<1>1. IsSeq(s) /\ IsSeq(f) /\ ~ Loose(k, "unknown") /\ ~ Loose(k, "foreign")
  BY BodiesAreSeqs, FramedIsSeq DEF Loose
<1>2. \/ \E x \in Unheard : \E pairs \in Extended(f, x) : d = Delivery("unknown", s, pairs)
      \/ \E x \in Unheard : \E b \in Extended(s, x) : d = Delivery("foreign", b, Framed(k, b))
  BY DEF UnknownDeliveries, ForeignDeliveries
<1> HIDE DEF s, f
<1>3. ASSUME NEW x \in Unheard, NEW pairs \in Extended(f, x)
      PROVE  Composed(k, Delivery("unknown", s, pairs))
  <2>1. IsSeq(pairs) /\ Range(pairs) \subseteq Range(f) \cup {x}
    BY <1>1, Rearranged
  <2>2. Range(pairs) \subseteq Range(f) \cup Besides
    BY <2>1 DEF Besides
  <2> QED
    BY <1>1, <2>1, <2>2, BodiesBelong DEF s, f
<1>4. ASSUME NEW x \in Unheard, NEW b \in Extended(s, x)
      PROVE  Composed(k, Delivery("foreign", b, Framed(k, b)))
  <2>1. IsSeq(b) /\ Range(b) \subseteq Range(s) \cup {x}
    BY <1>1, Rearranged
  <2>2. Range(b) \subseteq Range(s) \cup Optional(k) \cup Unheard
    BY <2>1
  <2> QED
    BY <1>1, <2>1, <2>2, FramedIsSeq, BodiesBelong DEF s
<1> QED
  BY <1>2, <1>3, <1>4

(* One attribute in another form. *)
LEMMA ReformedIs ==
  ASSUME NEW k \in DOMAIN Bodies, NEW x, NEW b \in Reformed(k, x)
  PROVE  /\ IsSeq(b)
         /\ \A y \in Range(b) : y = x \/ (y \in Range(Bodies[k]) /\ y[1] # x[1])
<1> DEFINE s == Bodies[k]
           w == [i \in DOMAIN s |-> IF s[i][1] = x[1] THEN x ELSE s[i]]
<1>1. IsSeq(s) /\ DOMAIN s = 1..Len(s) /\ Len(s) \in Nat
  BY BodiesAreSeqs, SeqIs
<1>2. b \in Shuffled(w)
  BY DEF Reformed
<1>3. w = [i \in 1..Len(s) |-> w[i]]
  BY <1>1
<1>4. \A i \in 1..Len(s) : w[i] = x \/ (w[i] \in Range(s) /\ w[i][1] # x[1])
  BY <1>1 DEF Range
<1> HIDE DEF w, s
<1>5. IsSeq(w) /\ DOMAIN w = 1..Len(s)
  BY <1>1, <1>3, FunctionIsSeq
<1>6. \A y \in Range(w) : y = x \/ (y \in Range(s) /\ y[1] # x[1])
  BY <1>4, <1>5 DEF Range
<1>7. IsSeq(b) /\ Range(b) \subseteq Range(w)
  BY <1>2, <1>5, Rearranged
<1> QED
  BY <1>6, <1>7 DEF s

(* What a pair of one cell begins with. *)
LEMMA KeyOf == \A a, c : PairOf(a, <<c>>)[1] = Key(a)
BY TuplesAreSeqs, PairIs

(* Where there is a 'want' there are no contacts. *)
LEMMA WantHas ==
  ASSUME NEW k \in DOMAIN Bodies, Has(k, OtherWant)
  PROVE  k \notin {"r_get_peers_peers", "sp_found"}
<1>1. OtherWant[1] = Key("want")
  BY KeyOf DEF OtherWant
<1>2. PICK i \in DOMAIN Bodies[k] : Bodies[k][i][1] = Key("want")
  BY <1>1 DEF Has
<1>3. \A a : a # "want" => Key(a) # Key("want")
  BY DEF Key, Str
<1>4. Id[1] = Key("id") /\ Token[1] = Key("token") /\ Values[1] = Key("values")
  <2>1. IsSeq(Contacts(<<"a", "b">>))
    BY TuplesAreSeqs, ListsFlat DEF FlatList
  <2> QED
    BY <2>1, KeyOf, PairIs DEF Id, Token, Values
<1>5. PairOf("id", <<Str(20, "infohash")>>)[1] = Key("id") /\ FoundContacts[1] = Key("contacts")
  <2>1. IsSeq(ListOf(<<ContactDict(1), ContactDict(2)>>))
    BY FoundContactsAre DEF FoundList
  <2> QED
    BY <2>1, KeyOf, PairIs DEF FoundContacts
<1>6. k # "r_get_peers_peers"
  <2> SUFFICES ASSUME k = "r_get_peers_peers" PROVE FALSE
    OBVIOUS
  <2>1. Bodies[k] = <<Id, Token, Values>>
    BY DEF Bodies, GetPeersPeersResponse, Values
  <2>2. \A a, b, c : \A j \in DOMAIN <<a, b, c>> : <<a, b, c>>[j] \in {a, b, c}
    OBVIOUS
  <2>3. Bodies[k][i] \in {Id, Token, Values}
    BY <1>2, <2>1, <2>2
  <2> QED
    BY <1>2, <1>3, <1>4, <2>3
<1>7. k # "sp_found"
  <2> SUFFICES ASSUME k = "sp_found" PROVE FALSE
    OBVIOUS
  <2> DEFINE u == PairOf("id", <<Str(20, "infohash")>>)
  <2>1. Bodies[k] = <<u, FoundContacts>>
    BY DEF Bodies, Found, FoundContacts
  <2> HIDE DEF u
  <2>2. \A a, b : \A j \in DOMAIN <<a, b>> : <<a, b>>[j] \in {a, b}
    OBVIOUS
  <2>3. Bodies[k][i] \in {u, FoundContacts}
    BY <1>2, <2>1, <2>2
  <2> QED
    BY <1>2, <1>3, <1>5, <2>3 DEF u
<1> QED
  BY <1>6, <1>7

LEMMA UnlistedComposed ==
  ASSUME NEW k \in DOMAIN Bodies, NEW d \in UnlistedDeliveries(k)
  PROVE  Composed(k, d)
<1>1. Has(k, OtherWant)
  BY DEF UnlistedDeliveries
<1>2. PICK b \in Reformed(k, OtherWant) : d = Delivery("unlisted", b, Framed(k, b))
  BY <1>1 DEF UnlistedDeliveries
<1>3. /\ IsSeq(b)
      /\ \A y \in Range(b) : y = OtherWant \/ (y \in Range(Bodies[k]) /\ y[1] # OtherWant[1])
  BY ReformedIs
<1>4. OtherWant[1] = Key("want") /\ OneCell(OtherWant)
  BY KeyOf, Scalars DEF OtherWant, OneCell
<1>5. Want[1] = Key("want")
  <2>1. IsSeq(Texts(<<"n4">>))
    BY TuplesAreSeqs, ListsFlat DEF TextList, FlatList
  <2> QED
    BY <2>1, PairIs DEF Want
<1>6. \A y \in Range(b) : OneCell(y)
  <2> TAKE y \in Range(b)
  <2>1. CASE y = OtherWant
    BY <1>4, <2>1
  <2>2. CASE y \in Range(Bodies[k]) /\ y[1] # OtherWant[1]
    <3>1. Known(y, k) /\ y # Want
      BY <1>4, <1>5, <2>2, BodiesAre
    <3>2. Plain(y)
      BY <1>1, <3>1, WantHas DEF Known
    <3> QED
      BY <3>2 DEF Plain, OneCell
  <2> QED
    BY <1>3, <2>1, <2>2
<1>7. \A y \in Range(b) : Belongs(y, k, "unlisted")
  BY <1>6, CellBelongs DEF Loose
<1> QED
  BY <1>2, <1>3, <1>7, FramedIsSeq, DeliveryComposed

LEMMA RaggedComposed ==
  ASSUME NEW k \in DOMAIN Bodies, NEW d \in RaggedDeliveries(k)
  PROVE  Composed(k, d)
<1>1. \E x \in Ragged : \E b \in Reformed(k, x) : d = Delivery("ragged", b, Framed(k, b))
  BY DEF RaggedDeliveries
<1>2. PICK x \in Ragged : \E b \in Reformed(k, x) : d = Delivery("ragged", b, Framed(k, b))
  BY <1>1
<1>3. PICK b \in Reformed(k, x) : d = Delivery("ragged", b, Framed(k, b))
  BY <1>2
<1>4. /\ IsSeq(b)
      /\ \A y \in Range(b) : y = x \/ (y \in Range(Bodies[k]) /\ y[1] # x[1])
  BY ReformedIs
<1>5. \E a, c : x = PairOf(a, <<c>>) /\ Scalar(c) /\ a # "want"
  BY Scalars DEF Ragged
<1>6. CASE k = "r_sample_infohashes"
  <2> DEFINE i == PairOf("interval", <<Integer(60)>>)
             n == PairOf("num", <<Integer(2)>>)
  <2>1. Bodies[k] = <<Id, i, Nodes, n, Samples>>
    BY <1>6 DEF Bodies, SampleInfohashesResponse
  <2>2. Plain(Id) /\ Plain(i) /\ Plain(n)
    <3>1. /\ "id" \notin {"want", "nodes", "samples"} /\ "interval" \notin {"want", "nodes", "samples"}
          /\ "num" \notin {"want", "nodes", "samples"}
      OBVIOUS
    <3> QED
      BY <3>1, PlainPairs DEF Id
  <2> HIDE DEF i, n
  <2>3. \A y \in Range(Bodies[k]) : Plain(y)
    BY <2>1, <2>2, PackedPairs, RangeOfTuples
  <2>4. \A y \in Range(b) : OneCell(y)
    BY <1>4, <1>5, <2>3 DEF Plain, OneCell
  <2>5. \A y \in Range(b) : Belongs(y, k, "ragged")
    BY <1>6, <2>4, CellBelongs DEF Loose
  <2> QED
    BY <1>3, <1>4, <2>5, FramedIsSeq, DeliveryComposed
<1>7. CASE k # "r_sample_infohashes"
  <2>1. ~ Loose(k, "ragged")
    BY <1>7 DEF Loose
  <2>2. Belongs(x, k, "ragged")
    <3>1. PICK a, c : x = PairOf(a, <<c>>) /\ Scalar(c) /\ a # "want"
      BY <1>5
    <3>2. CASE k \in Parsed
      <4>1. ParserOf(k).strict = {}
        BY <1>7, <3>2, ParsersTyped, FoundParser
      <4>2. OwnPair(x, k)
        BY <3>1, <3>2, <4>1, ScalarTakeable DEF OwnPair
      <4> QED
        BY <2>1, <4>2, OwnBelongs
    <3>3. CASE k \notin Parsed
      BY <3>1, <3>3, ScalarValue DEF Belongs, Attr
    <3> QED
      BY <3>2, <3>3
  <2>3. \A y \in Range(b) : Belongs(y, k, "ragged")
    BY <1>4, <2>1, <2>2, PartsBelong
  <2> QED
    BY <1>3, <1>4, <2>3, FramedIsSeq, DeliveryComposed
<1> QED
  BY <1>6, <1>7

LEMMA DeliveriesAre ==
  ASSUME KrpcAssumption, NEW k \in Kinds, NEW d \in Deliveries(k)
  PROVE  Composed(k, d)
<1>1. k \in DOMAIN Bodies
  BY DEF KrpcAssumption
<1> QED
  BY <1>1, WholeComposed, RepeatedComposed, UnknownComposed, UnlistedComposed, RaggedComposed
     DEF Deliveries

-----------------------------------------------------------------------------
(* Attributes one behind another, and where each of them begins. *)

Attrs(ss) == IsSeq(ss) /\ \A x \in Range(ss) : Attr(x)

LEMMA AttrsAre ==
  ASSUME NEW ss, Attrs(ss)
  PROVE  /\ Parts(ss) /\ AllNested(ss)
         /\ \A i \in 1..Len(ss) : ss[i] \in Range(ss) /\ Len(ss[i]) >= 1
<1>1. ASSUME NEW x, Attr(x) PROVE Nested(x) /\ IsSeq(x) /\ Len(x) >= 1
  <2>1. PICK a, v : x = PairOf(a, v) /\ Value(v)
    BY <1>1 DEF Attr
  <2>2. Nested(x)
    BY <2>1, ValuesNested, PairsNested
  <2>3. IsSeq(v) /\ Len(v) \in Nat
    BY <2>1, ValuesNested
  <2>4. IsSeq(x) /\ Len(x) = Len(v) + 1
    BY <2>1, <2>3, PairIs
  <2> QED
    BY <2>2, <2>3, <2>4
<1>2. IsSeq(ss) /\ \A i \in 1..Len(ss) : ss[i] \in Range(ss)
  BY SeqIs DEF Attrs, Range
<1> QED
  BY <1>1, <1>2 DEF Attrs, Parts, AllNested

(* p is where one of the attributes that lie behind o begins, or the end. *)
Stands(o, ss, p) ==
  \E off, j : /\ Offsets(off, ss, FlattenSeq(ss)) /\ j \in 0..Len(ss)
              /\ p = o + off[j] + 1

Size(ss) == Len(FlattenSeq(ss))

LEMMA StandsFirst ==
  ASSUME NEW ss, Attrs(ss), NEW o \in Nat
  PROVE  Stands(o, ss, o + 1)
<1>1. Parts(ss)
  BY AttrsAre
<1>2. PICK off : Offsets(off, ss, FlattenSeq(ss))
  BY <1>1, FlattenAt
<1>3. off[0] = 0 /\ 0 \in 0..Len(ss) /\ o + 1 = o + 0 + 1
  BY <1>1, <1>2, SeqIs DEF Offsets, Parts
<1> QED
  BY <1>2, <1>3 DEF Stands

(* The attributes lie behind o in the memory b, and an 'e' behind them. *)
Laid(b, o, ss) ==
  /\ IsSeq(b) /\ Attrs(ss) /\ o \in Nat /\ o >= 1 /\ Size(ss) \in Nat
  /\ o + Size(ss) + 1 <= Len(b) /\ b[o + Size(ss) + 1] = End
  /\ \A i \in 1..Size(ss) : b[o + i] = FlattenSeq(ss)[i]

LEMMA LaidIs ==
  ASSUME NEW b, NEW o, NEW ss, NEW h, Attrs(ss), LiesAt(DictOf(ss), b, h, o)
  PROVE  Laid(b, o, ss) /\ Len(DictOf(ss)) = Size(ss) + 2
<1> DEFINE F == FlattenSeq(ss)
           d == DictOf(ss)
<1>1. IsSeq(F)
  BY AttrsAre, FlattenAt
<1>2. /\ IsSeq(d) /\ Len(d) = Len(F) + 2 /\ d[1] = Dict /\ d[Len(F) + 2] = End
      /\ \A i \in 1..Len(F) : d[i + 1] = F[i]
  <2>1. d = <<Dict>> \o F \o <<End>>
    BY DEF DictOf
  <2> HIDE DEF F, d
  <2> QED
    BY <1>1, <2>1, WrappedIs
<1>3. Len(F) \in Nat /\ Size(ss) = Len(F)
  BY <1>1, SeqIs DEF Size
<1>4. /\ IsSeq(b) /\ o \in Nat /\ o >= 1 /\ h \in Nat
      /\ o + Len(d) - 1 <= h /\ h <= Len(b)
      /\ \A m \in 1..Len(d) : b[o + m - 1] = d[m]
  BY DEF LiesAt
<1> HIDE DEF F, d
<1>5. Len(b) \in Nat
  BY <1>4, SeqIs
<1>6. b[o + Len(F) + 1] = End
  <2>1. Len(F) + 2 \in 1..Len(d) /\ o + (Len(F) + 2) - 1 = o + Len(F) + 1
    BY <1>2, <1>3, <1>4
  <2>2. b[o + (Len(F) + 2) - 1] = d[Len(F) + 2]
    BY <1>4, <2>1
  <2> QED
    BY <1>2, <2>1, <2>2
<1>7. ASSUME NEW i \in 1..Len(F) PROVE b[o + i] = F[i]
  <2>1. i + 1 \in 1..Len(d) /\ o + (i + 1) - 1 = o + i
    BY <1>2, <1>3, <1>4
  <2>2. b[o + (i + 1) - 1] = d[i + 1]
    BY <1>4, <2>1
  <2> QED
    BY <1>2, <2>1, <2>2
<1>8. o + Len(F) + 1 <= Len(b)
  BY <1>2, <1>3, <1>4, <1>5
<1> QED
  BY <1>2, <1>3, <1>4, <1>6, <1>7, <1>8 DEF Laid, F, d

(* The attribute a with the value v begins at p. *)
Begins(b, o, ss, p, a, v) ==
  /\ PairOf(a, v) \in Range(ss) /\ Value(v)
  /\ b[p] = Key(a) /\ LiesAt(v, b, Len(b), p + 1)
  /\ (p + 1) + Len(v) <= o + Size(ss) + 1 /\ Stands(o, ss, (p + 1) + Len(v))

(* Where a part begins, and where the next one does. *)
LEMMA PartBegins ==
  ASSUME NEW b, NEW o, NEW ss, Laid(b, o, ss), NEW p, Stands(o, ss, p)
  PROVE  /\ p \in Nat /\ p > o /\ p <= o + Size(ss) + 1
         /\ p # o + Size(ss) + 1 =>
              \E x \in Range(ss) :
                /\ p + Len(x) <= o + Size(ss) + 1 /\ Stands(o, ss, p + Len(x))
                /\ \A m \in 1..Len(x) : b[p + m - 1] = x[m]
<1> DEFINE F == FlattenSeq(ss)
<1>1. PICK off, j : Offsets(off, ss, F) /\ j \in 0..Len(ss) /\ p = o + off[j] + 1
  BY DEF Stands
<1>2. Parts(ss) /\ \A i \in 1..Len(ss) : ss[i] \in Range(ss) /\ Len(ss[i]) >= 1
  BY AttrsAre DEF Laid
<1>3. Len(ss) \in Nat /\ \A i \in 1..Len(ss) : Len(ss[i]) \in Nat
  BY <1>2, SeqIs DEF Parts
<1>4. Size(ss) = Len(F) /\ Len(F) \in Nat /\ o \in Nat
  BY DEF Size, Laid
<1>5. /\ off[Len(ss)] = Len(F) /\ off \in [0..Len(ss) -> Nat]
      /\ \A i \in 1..Len(ss) : off[i] = off[i - 1] + Len(ss[i])
      /\ \A i \in 1..Len(ss) : \A m \in 1..Len(ss[i]) :
           off[i - 1] + m \in 1..Len(F) /\ F[off[i - 1] + m] = ss[i][m]
  BY <1>1 DEF Offsets
<1>6. off[j] \in Nat
  BY <1>1, <1>5
<1>7. CASE j = Len(ss)
  <2>1. p = o + Size(ss) + 1
    BY <1>1, <1>4, <1>5, <1>7
  <2> QED
    BY <1>4, <2>1
<1>8. CASE j # Len(ss)
  <2> DEFINE i == j + 1
             x == ss[i]
  <2>1. i \in 1..Len(ss) /\ i \in 0..Len(ss) /\ i - 1 = j
    BY <1>1, <1>3, <1>8
  <2> HIDE DEF i
  <2>2. off[i] = off[j] + Len(x) /\ x \in Range(ss) /\ Len(x) \in Nat /\ Len(x) >= 1
    BY <1>2, <1>3, <1>5, <2>1
  <2>3. \A m \in 1..Len(x) : off[j] + m \in 1..Len(F) /\ F[off[j] + m] = x[m]
    BY <1>5, <2>1
  <2> HIDE DEF x
  <2>4. off[j] + Len(x) \in 1..Len(F)
    <3>1. Len(x) \in 1..Len(x)
      BY <2>2
    <3> QED
      BY <2>3, <3>1
  <2>5. p + Len(x) = o + off[i] + 1 /\ p + Len(x) <= o + Size(ss) + 1 /\ p > o /\ p \in Nat
    <3>1. p = o + off[j] + 1 /\ p \in Nat
      BY <1>1, <1>4, <1>6
    <3>2. off[i] = off[j] + Len(x) /\ off[i] <= Size(ss)
      BY <1>4, <2>2, <2>4
    <3> QED
      BY <1>4, <1>6, <2>2, <3>1, <3>2
  <2>6. Stands(o, ss, p + Len(x))
    BY <1>1, <2>1, <2>5 DEF Stands
  <2>7. ASSUME NEW m \in 1..Len(x) PROVE b[p + m - 1] = x[m]
    <3>1. p + m - 1 = o + (off[j] + m)
      BY <1>1, <1>4, <1>6, <2>2
    <3>2. b[o + (off[j] + m)] = F[off[j] + m]
      BY <1>4, <2>3 DEF Laid
    <3> QED
      BY <2>3, <3>1, <3>2
  <2>8. p <= o + Size(ss) + 1
    BY <1>4, <2>2, <2>5
  <2> QED
    BY <2>2, <2>5, <2>6, <2>7, <2>8
<1> QED
  BY <1>7, <1>8

LEMMA StandsAt ==
  ASSUME NEW b, NEW o, NEW ss, Laid(b, o, ss), NEW p, Stands(o, ss, p)
  PROVE  /\ p \in Nat /\ p > o /\ p <= o + Size(ss) + 1 /\ p <= Len(b)
         /\ \/ p = o + Size(ss) + 1 /\ b[p] = End
            \/ \E a, v : Begins(b, o, ss, p, a, v)
<1>1. p \in Nat /\ p > o /\ p <= o + Size(ss) + 1
  BY PartBegins
<1>2. o \in Nat /\ Size(ss) \in Nat /\ IsSeq(b) /\ Len(b) \in Nat /\ o + Size(ss) + 1 <= Len(b)
  BY SeqIs DEF Laid
<1>3. p <= Len(b)
  BY <1>1, <1>2
<1>4. CASE p = o + Size(ss) + 1
  BY <1>1, <1>3, <1>4 DEF Laid
<1>5. CASE p # o + Size(ss) + 1
  <2>1. PICK x \in Range(ss) :
          /\ p + Len(x) <= o + Size(ss) + 1 /\ Stands(o, ss, p + Len(x))
          /\ \A m \in 1..Len(x) : b[p + m - 1] = x[m]
    BY <1>5, PartBegins
  <2>2. PICK a, v : x = PairOf(a, v) /\ Value(v)
    BY DEF Laid, Attrs, Attr
  <2>3. IsSeq(v) /\ Len(v) \in Nat /\ Len(v) >= 1
    BY <2>2, ValuesNested
  <2>4. Len(x) = Len(v) + 1 /\ x[1] = Key(a) /\ \A m \in 1..Len(v) : x[m + 1] = v[m]
    BY <2>2, <2>3, PairIs
  <2>5. b[p] = Key(a)
    <3>1. 1 \in 1..Len(x) /\ p + 1 - 1 = p
      BY <1>1, <2>3, <2>4
    <3>2. b[p + 1 - 1] = x[1]
      BY <2>1, <3>1
    <3> QED
      BY <2>4, <3>1, <3>2
  <2>6. p + Len(x) = (p + 1) + Len(v)
    BY <1>1, <2>3, <2>4
  <2>7. LiesAt(v, b, Len(b), p + 1)
    <3>1. ASSUME NEW m \in 1..Len(v) PROVE b[(p + 1) + m - 1] = v[m]
      <4>1. m + 1 \in 1..Len(x) /\ p + (m + 1) - 1 = (p + 1) + m - 1
        BY <1>1, <2>3, <2>4
      <4>2. b[p + (m + 1) - 1] = x[m + 1]
        BY <2>1, <4>1
      <4> QED
        BY <2>4, <4>1, <4>2
    <3>2. (p + 1) + Len(v) - 1 <= Len(b) /\ p + 1 \in Nat /\ p + 1 >= 1
      BY <1>1, <1>2, <2>1, <2>3, <2>6
    <3> QED
      BY <1>2, <2>3, <3>1, <3>2 DEF LiesAt
  <2>8. Begins(b, o, ss, p, a, v)
    BY <2>1, <2>2, <2>5, <2>6, <2>7 DEF Begins
  <2> QED
    BY <1>1, <1>3, <2>8
<1> QED
  BY <1>4, <1>5

(* Nothing is opened and nothing is closed within one cell. *)
LEMMA CellBegins ==
  ASSUME NEW b, NEW o, NEW ss, NEW p, p \in Nat, NEW a, NEW v, Begins(b, o, ss, p, a, v),
         b[p + 1][1] \in {"s", "i"}
  PROVE  v = <<b[p + 1]>> /\ Len(v) = 1 /\ (p + 1) + Len(v) = p + 2
<1>1. IsSeq(v) /\ Len(v) \in Nat /\ Len(v) >= 1
  BY ValuesNested DEF Begins
<1>2. b[p + 1] = v[1]
  <2>1. 1 \in 1..Len(v) /\ (p + 1) + 1 - 1 = p + 1
    BY <1>1
  <2>2. b[(p + 1) + 1 - 1] = v[1]
    BY <2>1 DEF Begins, LiesAt
  <2> QED
    BY <2>1, <2>2
<1>3. ~ Opens(v[1])
  BY <1>2 DEF Opens, Dict, List
<1>4. PICK c : v = <<c>>
  BY <1>3 DEF Begins, Value
<1>5. Len(v) = 1 /\ v[1] = c
  BY <1>4, TuplesAreSeqs
<1> QED
  BY <1>2, <1>4, <1>5

-----------------------------------------------------------------------------
(* The attributes around the body. *)

LEMMA FramedAttrs ==
  ASSUME NEW k, NEW sq, Attrs(sq)
  PROVE  \A x \in Range(Framed(k, sq)) \cup Besides : Attr(x)
<1>1. \A a, c : Scalar(c) => Attr(PairOf(a, <<c>>))
  BY ScalarValue DEF Attr
<1>2. \A y : \A x \in Around(y) : Attr(x)
  BY <1>1, Scalars DEF Around
<1>3. \A x \in Besides : Attr(x)
  BY <1>1, Scalars, UnheardIs DEF Besides, Attr
<1>4. \A y : Attr(PairOf("q", <<Text(y)>>))
  BY <1>1, Scalars
<1>5. \A a : Attr(PairOf(a, DictOf(sq)))
  <2>1. Encloses(Dict, DictOf(sq)) /\ Opens(Dict)
    BY AttrsAre, DictsNested DEF Opens
  <2>2. Value(DictOf(sq))
    BY <2>1 DEF Value, Encloses
  <2> QED
    BY <2>2 DEF Attr
<1>6. Attr(Details)
  <2> DEFINE m == ListOf(<< <<Integer(204)>>, <<Text("unknown method")>> >>)
             a == <<Integer(204)>>
             b == <<Text("unknown method")>>
  <2>1. Scalar(Integer(204)) /\ Scalar(Text("unknown method"))
    BY Scalars
  <2>2. m = ListOf(<<a, b>>)
    OBVIOUS
  <2>3. IsSeq(<<a, b>>) /\ Range(<<a, b>>) = {a, b}
    BY PairsAreSeqs
  <2>4. \A z \in Range(<<a, b>>) : \E c : Scalar(c) /\ z = <<c>>
    BY <2>1, <2>3
  <2>5. Details = PairOf("e", m)
    BY DEF Details
  <2> HIDE DEF a, b, m
  <2>6. FlatList(m)
    BY <2>2, <2>3, <2>4, ScalarsFlat
  <2> QED
    BY <2>5, <2>6, FlatListValue DEF Attr
<1>7. Frames(Framed(k, sq), k, sq)
  BY FramedIs
<1> QED
  BY <1>2, <1>3, <1>4, <1>5, <1>6, <1>7 DEF Frames

-----------------------------------------------------------------------------
(* What opens the body ends where the body ends: the count of openings and  *)
(* closings comes back to nothing there and nowhere before.                 *)

LEMMA WildcardRead ==
  ASSUME NEW v, Value(v), NEW r, NEW h, NEW p, LiesAt(v, r, h, p), NEW c, Opens(c)
  PROVE  WildcardAt([raw |-> r, length |-> h], p, c) \in {0, p + Len(v)}
<1> DEFINE B == [raw |-> r, length |-> h]
           closing == { q \in p .. Len(r) : r[q] = End /\ Depth(r, p, q) = 0 }
           e == p + Len(v) - 1
<1>1. B.raw = r /\ B.length = h
  OBVIOUS
<1>2. /\ IsSeq(v) /\ IsSeq(r) /\ p \in Nat /\ p >= 1 /\ e <= Len(r)
      /\ \A m \in 1..Len(v) : r[p + m - 1] = v[m]
  BY SeqIs DEF LiesAt
<1>3. SUFFICES ASSUME WildcardAt(B, p, c) # 0
               PROVE  WildcardAt(B, p, c) = p + Len(v)
  OBVIOUS
<1>4. At(B, p) = c /\ WildcardAt(B, p, c) = Least(closing) + 1
  BY <1>1, <1>3 DEF WildcardAt, Depth
<1>5. Len(v) \in Nat /\ Len(v) >= 1 /\ Len(r) \in Nat
  BY <1>2, SeqIs, ValuesNested
<1>6. At(B, p) = v[1]
  <2>1. 1 \in 1..Len(v) /\ p + 1 - 1 = p
    BY <1>2, <1>5
  <2> QED
    BY <2>1, LiesIs
<1>7. Encloses(c, v)
  <2>1. ASSUME NEW d, v = <<d>>, ~ Opens(d) PROVE FALSE
    <3>1. v[1] = d
      BY <2>1, TuplesAreSeqs
    <3> QED
      BY <1>4, <1>6, <2>1, <3>1
  <2> QED
    BY <1>4, <1>6, <2>1 DEF Value
<1>8. /\ Len(v) >= 2 /\ v[Len(v)] = End /\ Depth(v, 1, Len(v)) = 0
      /\ \A n \in 1..Len(v) - 1 : Depth(v, 1, n) >= 1
  BY <1>7 DEF Encloses
<1>9. \A n \in 0..Len(v) : Depth(r, p, p - 1 + n) = Depth(v, 1, 1 - 1 + n)
  <2>1. ASSUME NEW i \in 1..Len(v) PROVE r[p - 1 + i] = v[1 - 1 + i]
    <3>1. p - 1 + i = p + i - 1 /\ 1 - 1 + i = i
      BY <1>2
    <3> QED
      BY <1>2, <3>1
  <2>2. Alike(r, p, v, 1, Len(v))
    BY <2>1 DEF Alike
  <2>3. p \in Int /\ 1 \in Int
    BY <1>2
  <2> QED
    BY <1>5, <2>2, <2>3, DepthShifts
<1>10. e \in closing
  <2>1. Len(v) \in 0..Len(v) /\ p - 1 + Len(v) = e /\ 1 - 1 + Len(v) = Len(v) /\ e \in p .. Len(r)
    BY <1>2, <1>5
  <2>2. Depth(r, p, e) = 0
    BY <1>8, <1>9, <2>1
  <2>3. r[e] = End
    <3>1. Len(v) \in 1..Len(v)
      BY <1>5
    <3> QED
      BY <1>2, <1>8, <3>1
  <2> HIDE DEF e
  <2> QED
    BY <2>1, <2>2, <2>3
<1>11. ASSUME NEW q \in closing PROVE q \in Int /\ e <= q
  <2>1. q \in Int /\ q >= p /\ Depth(r, p, q) = 0
    BY <1>2, <1>5
  <2>2. CASE q < e
    <3> DEFINE n == q - p + 1
    <3>1. n \in 0..Len(v) /\ n \in 1..Len(v) - 1 /\ p - 1 + n = q /\ 1 - 1 + n = n
      BY <1>2, <1>5, <2>1, <2>2
    <3> HIDE DEF n
    <3>2. Depth(r, p, q) = Depth(v, 1, n)
      BY <1>9, <3>1
    <3>3. Depth(v, 1, n) >= 1
      BY <1>8, <3>1
    <3> QED
      BY <2>1, <3>2, <3>3
  <2>3. CASE ~ (q < e)
    BY <1>2, <1>5, <2>1, <2>3
  <2> QED
    BY <2>2, <2>3
<1> HIDE DEF closing
<1>12. Least(closing) = e
  <2> HIDE DEF e
  <2>1. \E x \in closing : \A y \in closing : x <= y
    BY <1>10, <1>11
  <2>2. Least(closing) \in closing /\ \A y \in closing : Least(closing) <= y
    BY <2>1 DEF Least
  <2> DEFINE l == Least(closing)
  <2> HIDE DEF l
  <2>3. l \in Int /\ e <= l /\ l <= e /\ e \in Int
    BY <1>10, <1>11, <2>2 DEF l
  <2> QED
    BY <2>3 DEF l
<1> QED
  BY <1>2, <1>4, <1>5, <1>12

-----------------------------------------------------------------------------
(* One attribute, as the decoders find it. *)

LEMMA KeysDiffer == \A a, k : Key(a) = Key(k) => a = k
<1> TAKE a, k
<1>1. Key(a)[3] = a /\ Key(k)[3] = k
  BY DEF Key, Str
<1> QED
  BY <1>1

LEMMA KeyFound ==
  ASSUME NEW b, NEW n, NEW p, NEW k, KeyAt([raw |-> b, length |-> n], p, k),
         p \in 1..Len(b)
  PROVE  b[p] = Key(k) /\ b[p] # End
<1>1. b[p] = Key(k)
  BY DEF KeyAt, At
<1> QED
  BY <1>1 DEF Key, Str, End

LEMMA StringFound ==
  ASSUME NEW b, NEW n, NEW p, p \in 1..Len(b),
         StringAt([raw |-> b, length |-> n], p) \/ IntAt([raw |-> b, length |-> n], p)
  PROVE  b[p][1] \in {"s", "i"} /\ b[p] # End
BY DEF StringAt, IntAt, At, End

(* Where a key is read an attribute with this key begins. *)
LEMMA KeyBegins ==
  ASSUME NEW b, NEW o, NEW ss, Laid(b, o, ss), NEW p, Stands(o, ss, p),
         NEW n, NEW k, KeyAt([raw |-> b, length |-> n], p, k)
  PROVE  \E v : Begins(b, o, ss, p, k, v)
<1>1. p \in 1..Len(b)
  <2>1. p \in Nat /\ p > o /\ p <= Len(b) /\ o \in Nat
    BY StandsAt DEF Laid
  <2>2. Len(b) \in Nat
    BY SeqIs DEF Laid
  <2> QED
    BY <2>1, <2>2
<1>2. b[p] = Key(k) /\ b[p] # End
  BY <1>1, KeyFound
<1>3. PICK a, v : Begins(b, o, ss, p, a, v)
  BY <1>2, StandsAt
<1>4. a = k
  BY <1>2, <1>3, KeysDiffer DEF Begins
<1> QED
  BY <1>3, <1>4

LEMMA StringBegins ==
  ASSUME NEW b, NEW o, NEW ss, Laid(b, o, ss), NEW p, Stands(o, ss, p),
         NEW n, StringAt([raw |-> b, length |-> n], p)
  PROVE  \E a, v : Begins(b, o, ss, p, a, v)
<1>1. p \in 1..Len(b)
  <2>1. p \in Nat /\ p > o /\ p <= Len(b) /\ o \in Nat
    BY StandsAt DEF Laid
  <2>2. Len(b) \in Nat
    BY SeqIs DEF Laid
  <2> QED
    BY <2>1, <2>2
<1>2. b[p] # End
  BY <1>1, StringFound
<1> QED
  BY <1>2, StandsAt

(* What begins at p has a first cell behind its key. *)
LEMMA BeginsIs ==
  ASSUME NEW b, NEW o, NEW ss, Laid(b, o, ss), NEW p, Stands(o, ss, p),
         NEW a, NEW v, Begins(b, o, ss, p, a, v)
  PROVE  /\ p \in Nat /\ p > o /\ p \in 1..Len(b) /\ p + 1 \in 1..Len(b)
         /\ IsSeq(v) /\ Len(v) \in Nat /\ Len(v) >= 1 /\ b[p + 1] = v[1]
<1>1. p \in Nat /\ p > o /\ o \in Nat /\ Len(b) \in Nat
  BY StandsAt, SeqIs DEF Laid
<1>2. IsSeq(v) /\ Len(v) \in Nat /\ Len(v) >= 1
  BY ValuesNested DEF Begins
<1>3. (p + 1) + Len(v) - 1 <= Len(b) /\ \A m \in 1..Len(v) : b[(p + 1) + m - 1] = v[m]
  BY DEF Begins, LiesAt
<1>4. p \in 1..Len(b) /\ p + 1 \in 1..Len(b)
  BY <1>1, <1>2, <1>3
<1>5. b[p + 1] = v[1]
  <2>1. 1 \in 1..Len(v) /\ (p + 1) + 1 - 1 = p + 1
    BY <1>1, <1>2
  <2> QED
    BY <1>3, <2>1
<1> QED
  BY <1>1, <1>2, <1>4, <1>5

(* An attribute whose value is one cell, and the next one. *)
LEMMA CellTaken ==
  ASSUME NEW b, NEW o, NEW ss, Laid(b, o, ss), NEW p, Stands(o, ss, p),
         NEW a, NEW v, Begins(b, o, ss, p, a, v), NEW n,
         \/ StringAt([raw |-> b, length |-> n], p + 1)
         \/ IntAt([raw |-> b, length |-> n], p + 1)
  PROVE  PairOf(a, <<b[p + 1]>>) \in Range(ss) /\ Stands(o, ss, (p + 1) + 1)
<1>1. p \in Nat /\ p + 1 \in 1..Len(b)
  BY BeginsIs
<1>2. b[p + 1][1] \in {"s", "i"}
  BY <1>1, StringFound
<1>3. v = <<b[p + 1]>> /\ Len(v) = 1
  BY <1>1, <1>2, CellBegins
<1>4. (p + 1) + Len(v) = (p + 1) + 1
  BY <1>3
<1> QED
  BY <1>3, <1>4 DEF Begins

(* It lies within what the parser of a body may look at. *)
LEMMA LiesInBody ==
  ASSUME NEW b, NEW o, NEW ss, Laid(b, o, ss), NEW p, NEW a, NEW v,
         Begins(b, o, ss, p, a, v), NEW h, h = o + Size(ss) + 1
  PROVE  LiesAt(v, b, h, p + 1)
<1>1. h \in Nat /\ h <= Len(b)
  BY DEF Laid
<1>2. LiesAt(v, b, Len(b), p + 1) /\ (p + 1) + Len(v) <= h
  BY DEF Begins
<1>3. p + 1 \in Nat /\ Len(v) \in Nat
  <2>1. IsSeq(v) /\ p + 1 \in Nat
    BY <1>2 DEF LiesAt
  <2> QED
    BY <2>1, SeqIs
<1>4. (p + 1) + Len(v) - 1 <= h
  BY <1>1, <1>2, <1>3
<1> QED
  BY <1>1, <1>2, <1>4 DEF LiesAt

(* What was taken is the value. *)
LEMMA ValueIsCut ==
  ASSUME NEW v, NEW b, NEW h, NEW p, LiesAt(v, b, h, p), Len(v) >= 1
  PROVE  SubSeq(b, p, (p + Len(v)) - 1) = v
<1>1. /\ IsSeq(v) /\ IsSeq(b) /\ p \in Nat /\ p >= 1 /\ h \in Nat
      /\ p + Len(v) - 1 <= h /\ h <= Len(b)
      /\ \A m \in 1..Len(v) : b[p + m - 1] = v[m]
  BY DEF LiesAt
<1>2. Len(v) \in Nat /\ Len(b) \in Nat
  BY <1>1, SeqIs
<1> DEFINE up == (p + Len(v)) - 1
           s == SubSeq(b, p, up)
<1>3. /\ up \in Int /\ up <= Len(b) /\ p <= up /\ up - p + 1 = Len(v) /\ p \in Int
      /\ 1 <= p
  BY <1>1, <1>2
<1> HIDE DEF up
<1>4. /\ IsSeq(s) /\ Len(s) = IF p <= up THEN up - p + 1 ELSE 0
      /\ \A i \in 1 .. up - p + 1 : s[i] = b[p + i - 1]
  BY <1>1, <1>3, SubSeqIs
<1> HIDE DEF s
<1>5. Len(s) = Len(v) /\ \A i \in 1..Len(s) : s[i] = v[i]
  BY <1>1, <1>3, <1>4
<1>6. s = v
  BY <1>1, <1>4, <1>5, SameSeq
<1> QED
  BY <1>6 DEF s, up

(* No cell of single cells opens a list. *)
LEMMA NoListWithin ==
  ASSUME NEW b, NEW o, NEW ss, Laid(b, o, ss), \A x \in Range(ss) : OneCell(x),
         NEW p \in Nat, p > o, p <= o + Size(ss) + 1
  PROVE  b[p] # List
<1>1. o \in Nat /\ Size(ss) \in Nat
  BY DEF Laid
<1>2. CASE p = o + Size(ss) + 1
  BY <1>2 DEF Laid, End, List
<1>3. CASE p # o + Size(ss) + 1
  <2> DEFINE i == p - o
             F == FlattenSeq(ss)
  <2>1. i \in 1..Size(ss) /\ o + i = p
    BY <1>1, <1>3
  <2>2. b[p] = F[i]
    BY <2>1 DEF Laid
  <2>3. Parts(ss) /\ \A j \in 1..Len(ss) : ss[j] \in Range(ss)
    BY AttrsAre DEF Laid
  <2>4. PICK off : Offsets(off, ss, F)
    BY <2>3, FlattenAt
  <2> HIDE DEF i
  <2>5. PICK j \in 1..Len(ss) : i - off[j - 1] \in 1..Len(ss[j])
    BY <2>1, <2>4 DEF Offsets, Size
  <2> DEFINE m == i - off[j - 1]
  <2>6. Len(ss) \in Nat
    BY <2>3, SeqIs DEF Parts
  <2>7. off[j - 1] \in Nat
    <3>1. off \in [0..Len(ss) -> Nat]
      BY <2>4 DEF Offsets
    <3>2. j - 1 \in 0..Len(ss)
      BY <2>6
    <3> HIDE DEF m
    <3> QED
      BY <3>1, <3>2
  <2>8. off[j - 1] + m = i /\ m \in 1..Len(ss[j])
    BY <2>1, <2>5, <2>7
  <2> HIDE DEF m
  <2>9. F[i] = ss[j][m]
    BY <2>4, <2>8 DEF Offsets
  <2>10. PICK a, c : ss[j] = PairOf(a, <<c>>) /\ Scalar(c)
    BY <2>3 DEF OneCell
  <2>11. /\ Len(ss[j]) = 2 /\ ss[j][1] = Key(a) /\ ss[j][2] = c
    <3> DEFINE w == <<c>>
    <3>1. IsSeq(w) /\ Len(w) = 1 /\ w[1] = c
      BY TuplesAreSeqs
    <3> HIDE DEF w
    <3>2. Len(PairOf(a, w)) = Len(w) + 1 /\ PairOf(a, w)[1] = Key(a)
          /\ \A q \in 1..Len(w) : PairOf(a, w)[q + 1] = w[q]
      BY <3>1, PairIs
    <3>3. 1 \in 1..Len(w) /\ 1 + 1 = 2
      BY <3>1
    <3>4. Len(PairOf(a, w)) = 2 /\ PairOf(a, w)[1] = Key(a) /\ PairOf(a, w)[2] = c
      BY <3>1, <3>2, <3>3
    <3> QED
      BY <2>10, <3>4 DEF w
  <2>12. m = 1 \/ m = 2
    BY <2>8, <2>11
  <2>13. Key(a) # List
    BY DEF Key, Str, List
  <2> QED
    BY <2>2, <2>9, <2>10, <2>11, <2>12, <2>13, ScalarIs
<1> QED
  BY <1>2, <1>3

-----------------------------------------------------------------------------
(* What a message says of itself. *)

TypeOf(k) == IF k \in Replies THEN "r" ELSE IF k = "error" THEN "e" ELSE "q"

Surrounding(k, sq) == Range(Framed(k, sq)) \cup Besides

LEMMA BesidesAre ==
  ASSUME NEW x \in Besides
  PROVE  \E a, w : a \in {"ip", "ro", "x"} /\ IsSeq(w) /\ x = PairOf(a, w)
<1>1. CASE x \in Unheard
  BY <1>1, UnheardIs, ValuesNested
<1>2. CASE x = PairOf("ip", <<Str(6, "address")>>) \/ x = PairOf("ro", <<Integer(1)>>)
  BY <1>2, TuplesAreSeqs
<1> QED
  BY <1>1, <1>2 DEF Besides

LEMMA SurroundingIs ==
  ASSUME NEW k, NEW sq, Attrs(sq), NEW a \in {"a", "r", "e", "q", "y"}, NEW v, IsSeq(v),
         PairOf(a, v) \in Surrounding(k, sq)
  PROVE  /\ a = "q" => k \notin Replies \cup {"error"} /\ v = <<Text(Query(k))>>
         /\ a = "y" => v = <<Key(TypeOf(k))>>
         /\ a \in {"a", "r", "e"} /\ k # "error" => v = DictOf(sq)
<1> DEFINE x == PairOf(a, v)
<1>1. x \notin Besides
  <2> SUFFICES ASSUME x \in Besides PROVE FALSE
    OBVIOUS
  <2>1. PICK b, w : b \in {"ip", "ro", "x"} /\ IsSeq(w) /\ x = PairOf(b, w)
    BY BesidesAre
  <2>2. a = b
    BY <2>1, SamePair
  <2> QED
    BY <2>1, <2>2
<1>2. x \in Range(Framed(k, sq))
  BY <1>1 DEF Surrounding
<1>3. Frames(Framed(k, sq), k, sq)
  BY FramedIs
<1>4. \A c : IsSeq(<<c>>)
  BY TuplesAreSeqs
<1>5. IsSeq(DictOf(sq))
  BY AttrsAre, DictsNested DEF Encloses
<1>6. ASSUME NEW y, x \in Around(y)
      PROVE  a = "y" /\ v = <<Key(y)>>
  <2>1. \/ x = PairOf("t", <<Str(4, "tx")>>)
        \/ x = PairOf("v", <<Str(4, "sp02")>>)
        \/ x = PairOf("y", <<Key(y)>>)
    BY <1>6 DEF Around
  <2>2. x # PairOf("t", <<Str(4, "tx")>>) /\ x # PairOf("v", <<Str(4, "sp02")>>)
    BY <1>4, SamePair
  <2>3. x = PairOf("y", <<Key(y)>>)
    BY <2>1, <2>2
  <2> QED
    BY <1>4, <2>3, SamePair
<1>7. CASE k \in Replies
  <2>1. k # "error" /\ TypeOf(k) = "r"
    BY <1>7 DEF TypeOf, Replies
  <2>2. x = PairOf("r", DictOf(sq)) \/ x \in Around("r")
    BY <1>2, <1>3, <1>7 DEF Frames
  <2>3. CASE x = PairOf("r", DictOf(sq))
    <3>1. a = "r" /\ v = DictOf(sq)
      BY <1>5, <2>3, SamePair
    <3> QED
      BY <3>1
  <2>4. CASE x \in Around("r")
    <3>1. a = "y" /\ v = <<Key("r")>>
      BY <1>6, <2>4
    <3> QED
      BY <2>1, <3>1
  <2> QED
    BY <2>2, <2>3, <2>4
<1>8. CASE k = "error"
  <2>1. TypeOf(k) = "e"
    BY <1>8 DEF TypeOf, Replies
  <2>2. x = Details \/ x \in Around("e")
    BY <1>2, <1>3, <1>8 DEF Frames
  <2>3. CASE x = Details
    <3>1. IsSeq(ListOf(<< <<Integer(204)>>, <<Text("unknown method")>> >>))
      <4> DEFINE b == <<Integer(204)>>
                 c == <<Text("unknown method")>>
      <4>1. Scalar(Integer(204)) /\ Scalar(Text("unknown method"))
        BY Scalars
      <4>2. IsSeq(<<b, c>>) /\ Range(<<b, c>>) = {b, c}
        BY PairsAreSeqs
      <4>3. \A z \in Range(<<b, c>>) : \E d : Scalar(d) /\ z = <<d>>
        BY <4>1, <4>2
      <4> HIDE DEF b, c
      <4>4. IsSeq(ListOf(<<b, c>>))
        BY <4>2, <4>3, ScalarsFlat DEF FlatList
      <4> QED
        BY <4>4 DEF b, c
    <3> DEFINE m == ListOf(<< <<Integer(204)>>, <<Text("unknown method")>> >>)
    <3>3. x = PairOf("e", m) /\ IsSeq(m)
      BY <2>3, <3>1 DEF Details
    <3> HIDE DEF m
    <3>2. a = "e"
      BY <3>3, SamePair
    <3> QED
      BY <1>8, <3>2
  <2>4. CASE x \in Around("e")
    <3>1. a = "y" /\ v = <<Key("e")>>
      BY <1>6, <2>4
    <3> QED
      BY <2>1, <3>1
  <2> QED
    BY <2>2, <2>3, <2>4
<1>9. CASE k \notin Replies \cup {"error"}
  <2>1. TypeOf(k) = "q"
    BY <1>9 DEF TypeOf
  <2>2. \/ x = PairOf("a", DictOf(sq)) \/ x = PairOf("q", <<Text(Query(k))>>)
        \/ x \in Around("q")
    BY <1>2, <1>3, <1>9 DEF Frames
  <2>3. CASE x = PairOf("a", DictOf(sq))
    <3>1. a = "a" /\ v = DictOf(sq)
      BY <1>5, <2>3, SamePair
    <3> QED
      BY <3>1
  <2>4. CASE x = PairOf("q", <<Text(Query(k))>>)
    <3>1. a = "q" /\ v = <<Text(Query(k))>>
      BY <1>4, <2>4, SamePair
    <3> QED
      BY <1>9, <3>1
  <2>5. CASE x \in Around("q")
    <3>1. a = "y" /\ v = <<Key("q")>>
      BY <1>6, <2>5
    <3> QED
      BY <2>1, <3>1
  <2> QED
    BY <2>2, <2>3, <2>4, <2>5
<1> QED
  BY <1>7, <1>8, <1>9

-----------------------------------------------------------------------------
(* The inductive invariant: which attributes were received, with which of  *)
(* them the parsers stand, and that the body is where its attribute is.    *)

Came(sq, pairs) ==
  /\ kind \in DOMAIN Bodies /\ domain \in Domains(kind)
  /\ Attrs(sq) /\ sent = Range(sq) /\ \A x \in Range(sq) : Belongs(x, kind, how)
  /\ Attrs(pairs) /\ Range(pairs) \subseteq Surrounding(kind, sq)
  /\ buf = DictOf(pairs) /\ len = Len(buf)

(* The attributes q and y are what was sent as such. *)
Heard(pairs, k) == top[k] # "" => \E c : PairOf(k, <<c>>) \in Range(pairs) /\ c[3] = top[k]

Marked(pairs) ==
  /\ DOMAIN mark = 1..3
  /\ mark[1] = 0 => mark[2] = 0
  /\ mark[1] # 0 =>
       /\ \E a \in {"a", "r", "e"} : \E v : PairOf(a, v) \in Range(pairs) /\ Value(v)
            /\ LiesAt(v, buf, len, mark[1]) /\ mark[2] = mark[1] + Len(v)
       /\ mark[2] <= len

AtTop(pairs) == phase = "top" => Stands(1, pairs, pos)

InBody(sq) ==
  phase = "body" =>
    /\ kind \in Parsed /\ mark[1] # 0
    /\ LiesAt(DictOf(sq), buf, len, mark[1]) /\ mark[2] = mark[1] + Len(DictOf(sq))
    /\ Loose(kind, how) => pos \in Nat /\ pos > mark[1] /\ pos < mark[2]
    /\ ~ Loose(kind, how) => Stands(mark[1], sq, pos)

Own ==
  /\ IsSeq(args)
  /\ ~ Loose(kind, how) =>
       \A i \in DOMAIN args : PairOf(args[i][1], args[i][2]) \in sent

Commands ==
  domain = "public" =>
    acted \notin PrivateQueries /\ (phase = "body" => kind \notin PrivateQueries)

TopType == DOMAIN top = DOMAIN Attributes

Reading(sq, pairs) ==
  /\ Came(sq, pairs) /\ TopType /\ Heard(pairs, "q") /\ Heard(pairs, "y") /\ Marked(pairs)
  /\ AtTop(pairs) /\ InBody(sq) /\ Own /\ Commands

ReadingInv == \E sq, pairs : Reading(sq, pairs)

(* Where everything lies. *)
LEMMA MessageLies ==
  ASSUME NEW sq, NEW pairs, Came(sq, pairs)
  PROVE  /\ Laid(buf, 1, pairs) /\ IsSeq(buf) /\ len \in Nat /\ len = 1 + Size(pairs) + 1
         /\ Size(pairs) \in Nat
<1>1. IsSeq(buf) /\ Encloses(Dict, DictOf(pairs))
  BY AttrsAre, DictsNested DEF Came, Encloses
<1>2. len \in Nat /\ len = Len(buf)
  BY <1>1, SeqIs DEF Came
<1>3. LiesAt(DictOf(pairs), buf, len, 1)
  <2>1. DictOf(pairs) = buf
    BY DEF Came
  <2> DEFINE b == buf
             n == len
  <2>2. IsSeq(b) /\ n \in Nat /\ n = Len(b)
    BY <1>1, <1>2
  <2> HIDE DEF b, n
  <2>3. \A m \in 1..Len(b) : 1 + m - 1 = m
    BY <2>2
  <2>4. 1 + Len(b) - 1 <= n /\ n <= Len(b)
    BY <2>2
  <2>5. LiesAt(b, b, n, 1)
    BY <2>2, <2>3, <2>4 DEF LiesAt
  <2> QED
    BY <2>1, <2>5 DEF b, n
<1>4. Laid(buf, 1, pairs) /\ Len(DictOf(pairs)) = Size(pairs) + 2
  BY <1>3, LaidIs DEF Came
<1>5. Size(pairs) \in Nat
  BY <1>4 DEF Laid
<1>6. len = 1 + Size(pairs) + 1
  BY <1>2, <1>4, <1>5 DEF Came
<1> QED
  BY <1>1, <1>2, <1>4, <1>5, <1>6

LEMMA BodyLies ==
  ASSUME NEW sq, NEW pairs, Came(sq, pairs), InBody(sq), phase = "body"
  PROVE  /\ Laid(buf, mark[1], sq) /\ mark[1] \in Nat /\ Size(sq) \in Nat
         /\ mark[2] - 1 = mark[1] + Size(sq) + 1 /\ mark[2] = mark[1] + Size(sq) + 2
<1>1. Laid(buf, mark[1], sq) /\ Len(DictOf(sq)) = Size(sq) + 2
  BY LaidIs DEF Came, InBody
<1>2. mark[1] \in Nat /\ Size(sq) \in Nat
  BY <1>1 DEF Laid
<1>3. mark[2] = mark[1] + (Size(sq) + 2)
  BY <1>1 DEF InBody
<1> QED
  BY <1>1, <1>2, <1>3

-----------------------------------------------------------------------------
(* The steps of the parser of the message. *)

LEMMA CameKept ==
  ASSUME NEW sq, NEW pairs, Came(sq, pairs), UNCHANGED received
  PROVE  Came(sq, pairs)' /\ (Loose(kind, how) <=> Loose(kind, how)')
BY DEF Came, received, Loose

LEMMA MarkedKept ==
  ASSUME NEW sq, NEW pairs, Marked(pairs), UNCHANGED received,
         mark' = mark \/ mark' = [mark EXCEPT ![3] = pos]
  PROVE  Marked(pairs)' /\ mark'[1] = mark[1] /\ mark'[2] = mark[2]
<1>1. DOMAIN mark' = 1..3 /\ mark'[1] = mark[1] /\ mark'[2] = mark[2]
  <2>1. DOMAIN mark = 1..3
    BY DEF Marked
  <2>2. 1 \in 1..3 /\ 2 \in 1..3 /\ 3 \in 1..3
    OBVIOUS
  <2> QED
    BY <2>1, <2>2
<1>2. buf' = buf /\ len' = len
  BY DEF received
<1> QED
  BY <1>1, <1>2 DEF Marked

LEMMA OwnKept ==
  ASSUME NEW sq, NEW pairs, Came(sq, pairs), Own, UNCHANGED <<received, args>>
  PROVE  Own'
<1>1. sent' = sent /\ args' = args /\ (Loose(kind, how) <=> Loose(kind, how)')
  BY CameKept DEF received
<1> QED
  BY <1>1 DEF Own

(* A step that is not one of the parsers'. *)
LEMMA Leaves ==
  ASSUME NEW sq, NEW pairs, Reading(sq, pairs), UNCHANGED <<received, top, args>>,
         mark' = mark \/ mark' = [mark EXCEPT ![3] = pos],
         phase' \notin {"top", "body"}, domain = "public" => acted' \notin PrivateQueries
  PROVE  Reading(sq, pairs)'
<1>1. Came(sq, pairs)' /\ Own'
  BY CameKept, OwnKept DEF Reading
<1>2. TopType' /\ Heard(pairs, "q")' /\ Heard(pairs, "y")'
  BY DEF Reading, TopType, Heard
<1>3. Marked(pairs)'
  BY MarkedKept DEF Reading
<1>4. AtTop(pairs)' /\ InBody(sq)'
  BY DEF AtTop, InBody
<1>5. Commands'
  BY DEF Commands, received
<1> QED
  BY <1>1, <1>2, <1>3, <1>4, <1>5 DEF Reading

(* A step of the parser of the message. *)
LEMMA TopKept ==
  ASSUME NEW sq, NEW pairs, Reading(sq, pairs), UNCHANGED <<received, phase, args, acted>>,
         phase = "top", Stands(1, pairs, pos'), TopType',
         Heard(pairs, "q")', Heard(pairs, "y")', Marked(pairs)'
  PROVE  Reading(sq, pairs)'
<1>1. Came(sq, pairs)' /\ Own'
  BY CameKept, OwnKept DEF Reading
<1>2. AtTop(pairs)' /\ InBody(sq)'
  BY DEF AtTop, InBody
<1>3. Commands'
  BY DEF Reading, Commands, received
<1> QED
  BY <1>1, <1>2, <1>3 DEF Reading

LEMMA HeardKept ==
  ASSUME NEW pairs, NEW k, Heard(pairs, k), top' = top
  PROVE  Heard(pairs, k)'
BY DEF Heard

LEMMA AttributeTaken ==
  ASSUME NEW k \in DOMAIN Attributes, PairAt(Received, pos, k, Attributes[k]) # 0
  PROVE  /\ KeyAt(Received, pos, k) /\ StringAt(Received, pos + 1)
         /\ PairAt(Received, pos, k, Attributes[k]) = (pos + 1) + 1
<1>1. KeyAt(Received, pos, k) /\ ValueAt(Received, pos + 1, Attributes[k]) # 0
      /\ PairAt(Received, pos, k, Attributes[k]) = ValueAt(Received, pos + 1, Attributes[k])
  BY DEF PairAt
<1>2. Attributes[k] \in {"tx", "msg_type", "query", "contact", "version"}
  BY DEF Attributes
<1> DEFINE t == Attributes[k]
<1> HIDE DEF t
<1>3. ASSUME NEW b, NEW p, NEW n, BytesAt(b, p, n) # 0
      PROVE  StringAt(b, p) /\ BytesAt(b, p, n) = p + 1
  BY <1>3 DEF BytesAt
<1>4. ASSUME NEW b, NEW p, ContactAt(b, p) # 0
      PROVE  StringAt(b, p) /\ ContactAt(b, p) = p + 1
  BY <1>4 DEF ContactAt, IsContact
<1>5. \E n : ValueAt(Received, pos + 1, t) \in {BytesAt(Received, pos + 1, n), ContactAt(Received, pos + 1)}
  BY <1>2 DEF ValueAt, t
<1> QED
  BY <1>1, <1>3, <1>4, <1>5 DEF t

LEMMA TakeAttributeStep ==
  ASSUME NEW sq, NEW pairs, Reading(sq, pairs), TakeAttribute
  PROVE  Reading(sq, pairs)'
<1>1. PICK k \in DOMAIN Attributes :
        /\ Takes(k) /\ pos' = PairAt(Received, pos, k, Attributes[k])
        /\ top' = [top EXCEPT ![k] = buf[pos + 1][3]]
  BY DEF TakeAttribute
<1>2. UNCHANGED <<received, phase, mark, args, acted, reply>> /\ phase = "top"
  BY DEF TakeAttribute
<1>3. /\ KeyAt(Received, pos, k) /\ StringAt(Received, pos + 1)
      /\ pos' = (pos + 1) + 1
  BY <1>1, AttributeTaken DEF Takes
<1>4. Laid(buf, 1, pairs) /\ Stands(1, pairs, pos)
  BY <1>2, MessageLies DEF Reading, AtTop
<1> DEFINE c == buf[pos + 1]
<1>5. PairOf(k, <<c>>) \in Range(pairs) /\ Stands(1, pairs, pos')
  <2>1. PICK v : Begins(buf, 1, pairs, pos, k, v)
    BY <1>3, <1>4, KeyBegins DEF Received
  <2> QED
    BY <1>3, <1>4, <2>1, CellTaken DEF Received
<1>6. Marked(pairs)'
  BY <1>2, MarkedKept DEF Reading
<1>7. TopType'
  BY <1>1 DEF Reading, TopType
<1> HIDE DEF c
<1>8. ASSUME NEW a \in DOMAIN Attributes, Heard(pairs, a) PROVE Heard(pairs, a)'
  <2>1. CASE a = k
    <3>1. top'[a] = c[3]
      BY <1>1, <2>1 DEF c, Reading, TopType
    <3> QED
      BY <1>5, <2>1, <3>1 DEF Heard
  <2>2. CASE a # k
    <3>1. top'[a] = top[a]
      BY <1>1, <2>2 DEF Reading, TopType
    <3> QED
      BY <1>8, <3>1 DEF Heard
  <2> QED
    BY <2>1, <2>2
<1>9. "q" \in DOMAIN Attributes /\ "y" \in DOMAIN Attributes
  BY DEF Attributes
<1>10. Heard(pairs, "q")' /\ Heard(pairs, "y")'
  BY <1>8, <1>9 DEF Reading
<1> QED
  BY <1>2, <1>5, <1>6, <1>7, <1>10, TopKept

(* Attributes of which nothing is kept. *)
LEMMA PassedKept ==
  ASSUME NEW sq, NEW pairs, Reading(sq, pairs), phase = "top", Stands(1, pairs, pos'),
         UNCHANGED <<received, phase, top, mark, args, acted, reply>>
  PROVE  Reading(sq, pairs)'
<1>1. Marked(pairs)' /\ TopType' /\ Heard(pairs, "q")' /\ Heard(pairs, "y")'
  BY MarkedKept, HeardKept DEF Reading, TopType
<1> QED
  BY <1>1, TopKept

LEMMA TakeReadOnlyStep ==
  ASSUME NEW sq, NEW pairs, Reading(sq, pairs), TakeReadOnly
  PROVE  Reading(sq, pairs)'
<1>1. UNCHANGED <<received, phase, top, mark, args, acted, reply>> /\ phase = "top"
  BY DEF TakeReadOnly
<1>2. PairAt(Received, pos, "ro", "number") # 0 /\ pos' = PairAt(Received, pos, "ro", "number")
  BY DEF TakeReadOnly, ReadOnlyAt
<1>3. /\ KeyAt(Received, pos, "ro") /\ IntAt(Received, pos + 1)
      /\ pos' = (pos + 1) + 1
  BY <1>2 DEF PairAt, ValueAt
<1>4. Laid(buf, 1, pairs) /\ Stands(1, pairs, pos)
  BY <1>1, MessageLies DEF Reading, AtTop
<1>5. Stands(1, pairs, pos')
  <2>1. PICK v : Begins(buf, 1, pairs, pos, "ro", v)
    BY <1>3, <1>4, KeyBegins DEF Received
  <2> QED
    BY <1>3, <1>4, <2>1, CellTaken DEF Received
<1> QED
  BY <1>1, <1>5, PassedKept

LEMMA SkipUnknownStep ==
  ASSUME NEW sq, NEW pairs, Reading(sq, pairs), SkipUnknown
  PROVE  Reading(sq, pairs)'
<1>1. UNCHANGED <<received, phase, top, mark, args, acted, reply>> /\ phase = "top"
  BY DEF SkipUnknown, Other
<1>2. PairAnyAt(Received, pos) # 0 /\ pos' = PairAnyAt(Received, pos)
  BY DEF SkipUnknown
<1>3. StringAt(Received, pos) /\ StringAt(Received, pos + 1) /\ pos' = pos + 2
  BY <1>2 DEF PairAnyAt, BytesAt
<1>4. Laid(buf, 1, pairs) /\ Stands(1, pairs, pos)
  BY <1>1, MessageLies DEF Reading, AtTop
<1>5. Stands(1, pairs, pos')
  <2>1. PICK a, v : Begins(buf, 1, pairs, pos, a, v)
    BY <1>3, <1>4, StringBegins DEF Received
  <2>2. Stands(1, pairs, (pos + 1) + 1)
    BY <1>3, <1>4, <2>1, CellTaken DEF Received
  <2>3. pos \in Nat
    BY <1>4, StandsAt
  <2>4. (pos + 1) + 1 = pos'
    BY <1>3, <2>3
  <2> QED
    BY <2>2, <2>4
<1> QED
  BY <1>1, <1>5, PassedKept

LEMMA TakeBodyStep ==
  ASSUME NEW sq, NEW pairs, Reading(sq, pairs), TakeBody
  PROVE  Reading(sq, pairs)'
<1>1. UNCHANGED <<received, phase, top, args, acted, reply>> /\ phase = "top"
  BY DEF TakeBody
<1>2. BodyAt /\ BodyEnd # 0 /\ mark' = <<pos + 1, BodyEnd, 0>> /\ pos' = BodyEnd
  BY DEF TakeBody
<1>3. PICK a \in {"a", "r", "e"} : KeyAt(Received, pos, a)
  BY <1>2 DEF BodyAt
<1>4. Laid(buf, 1, pairs) /\ Stands(1, pairs, pos) /\ len = 1 + Size(pairs) + 1
  BY <1>1, MessageLies DEF Reading, AtTop
<1>5. PICK v : Begins(buf, 1, pairs, pos, a, v)
  BY <1>3, <1>4, KeyBegins DEF Received
<1>6. LiesAt(v, buf, len, pos + 1)
  BY <1>4, <1>5, LiesInBody
<1>7. BodyEnd = (pos + 1) + Len(v)
  <2>1. PICK c : Opens(c) /\ BodyEnd = WildcardAt(Received, pos + 1, c)
    BY DEF BodyEnd, Opens
  <2>2. Value(v)
    BY <1>5 DEF Begins
  <2>3. WildcardAt(Received, pos + 1, c) \in {0, (pos + 1) + Len(v)}
    BY <1>6, <2>1, <2>2, WildcardRead DEF Received
  <2> QED
    BY <1>2, <2>1, <2>3
<1>8. Stands(1, pairs, pos')
  BY <1>2, <1>5, <1>7 DEF Begins
<1>9. Marked(pairs)'
  <2>1. /\ DOMAIN mark' = 1..3 /\ mark'[1] = pos + 1 /\ mark'[2] = BodyEnd
    BY <1>2
  <2>2. PairOf(a, v) \in Range(pairs) /\ Value(v) /\ (pos + 1) + Len(v) <= 1 + Size(pairs) + 1
    BY <1>5 DEF Begins
  <2>3. pos + 1 # 0
    <3>1. pos \in Nat
      BY <1>4, StandsAt
    <3> QED
      BY <3>1
  <2>4. buf' = buf /\ len' = len
    BY <1>1 DEF received
  <2> QED
    BY <1>4, <1>6, <1>7, <2>1, <2>2, <2>3, <2>4 DEF Marked
<1>10. TopType' /\ Heard(pairs, "q")' /\ Heard(pairs, "y")'
  BY <1>1, HeardKept DEF Reading, TopType
<1> QED
  BY <1>1, <1>8, <1>9, <1>10, TopKept

-----------------------------------------------------------------------------
(* The handler, and the body that is opened. *)

(* What comes to be served is a query of the socket or a reply. *)
LEMMA ServedIs ==
  ASSUME NEW sq, NEW pairs, Reading(sq, pairs), Ready, Served
  PROVE  /\ kind # "error" /\ kind # "unheard_of"
         /\ domain = "public" => kind \notin PrivateQueries
         /\ LiesAt(DictOf(sq), buf, len, mark[1]) /\ mark[2] = mark[1] + Len(DictOf(sq))
<1>1. Came(sq, pairs) /\ Heard(pairs, "q") /\ Heard(pairs, "y") /\ Marked(pairs)
  BY DEF Reading
<1>2. top.y # "e" /\ top.y # "" /\ (top.y = "q" => top.q # "") /\ mark[1] # 0
  BY DEF Ready, Required
<1>3. \A c : IsSeq(<<c>>)
  BY TuplesAreSeqs
<1>4. top.y = TypeOf(kind)
  <2>1. PICK c : PairOf("y", <<c>>) \in Range(pairs) /\ c[3] = top.y
    BY <1>1, <1>2 DEF Heard
  <2>2. PairOf("y", <<c>>) \in Surrounding(kind, sq) /\ Attrs(sq) /\ IsSeq(<<c>>)
    BY <1>1, <1>3, <2>1 DEF Came
  <2>3. <<c>> = <<Key(TypeOf(kind))>>
    BY <2>2, SurroundingIs
  <2>4. c = Key(TypeOf(kind))
    BY <2>3
  <2> QED
    BY <2>1, <2>4 DEF Key, Str
<1>5. kind # "error"
  BY <1>2, <1>4 DEF TypeOf, Replies
<1>6. LiesAt(DictOf(sq), buf, len, mark[1]) /\ mark[2] = mark[1] + Len(DictOf(sq))
  <2>1. PICK a \in {"a", "r", "e"} :
          \E v : PairOf(a, v) \in Range(pairs) /\ Value(v)
            /\ LiesAt(v, buf, len, mark[1]) /\ mark[2] = mark[1] + Len(v)
    BY <1>1, <1>2 DEF Marked
  <2>2. PICK v : PairOf(a, v) \in Range(pairs) /\ Value(v)
            /\ LiesAt(v, buf, len, mark[1]) /\ mark[2] = mark[1] + Len(v)
    BY <2>1
  <2>3. PairOf(a, v) \in Surrounding(kind, sq) /\ Attrs(sq) /\ IsSeq(v)
    BY <1>1, <2>2, ValuesNested DEF Came
  <2>4. v = DictOf(sq)
    BY <1>5, <2>3, SurroundingIs
  <2> QED
    BY <2>2, <2>4
<1>7. CASE kind \in Replies
  <2>1. kind # "unheard_of" /\ kind \notin PrivateQueries
    BY <1>7 DEF Replies, PrivateQueries
  <2> QED
    BY <1>5, <1>6, <2>1
<1>8. CASE kind \notin Replies
  <2>1. top.y = "q"
    BY <1>4, <1>5, <1>8 DEF TypeOf
  <2>2. PICK c : PairOf("q", <<c>>) \in Range(pairs) /\ c[3] = top.q
    BY <1>1, <1>2, <2>1 DEF Heard
  <2>3. PairOf("q", <<c>>) \in Surrounding(kind, sq) /\ Attrs(sq) /\ IsSeq(<<c>>)
    BY <1>1, <1>3, <2>2 DEF Came
  <2>4. <<c>> = <<Text(Query(kind))>>
    BY <2>3, SurroundingIs
  <2>5. c = Text(Query(kind))
    BY <2>4
  <2>6. top.q = Query(kind)
    BY <2>2, <2>5 DEF Text, Str
  <2>7. domain = "client" \/ Query(kind) \in Modules(domain)
    BY <2>1, <2>6 DEF Served
  <2>8. kind # "unheard_of"
    <3> SUFFICES ASSUME kind = "unheard_of" PROVE FALSE
      OBVIOUS
    <3>1. domain \in {"public", "private"}
      BY <1>1 DEF Came, Domains
    <3>2. Query(kind) = "unheard_of"
      BY DEF Query
    <3>3. "unheard_of" \notin Modules(domain)
      BY DEF Modules, PublicQueries, PrivateQueries
    <3> QED
      BY <2>7, <3>1, <3>2, <3>3
  <2>9. domain = "public" => kind \notin PrivateQueries
    <3> SUFFICES ASSUME domain = "public", kind \in PrivateQueries PROVE FALSE
      OBVIOUS
    <3>1. Query(kind) = kind
      BY DEF Query, PrivateQueries
    <3>2. kind \in PublicQueries
      BY <2>7, <3>1 DEF Modules
    <3> QED
      BY <3>2 DEF PublicQueries, PrivateQueries
  <2> QED
    BY <1>5, <1>6, <2>8, <2>9
<1> QED
  BY <1>7, <1>8

LEMMA CommandStep ==
  ASSUME NEW sq, NEW pairs, Reading(sq, pairs), Command
  PROVE  Reading(sq, pairs)'
<1>1. UNCHANGED <<received, top, args>> /\ mark' = [mark EXCEPT ![3] = pos]
  BY DEF Command
<1>2. phase' = "writing" /\ acted' = kind
  BY DEF Command, Handle, Write
<1>3. domain = "public" => acted' \notin PrivateQueries
  BY <1>2, ServedIs DEF Command
<1> QED
  BY <1>1, <1>2, <1>3, Leaves

LEMMA OpenBodyStep ==
  ASSUME NEW sq, NEW pairs, Reading(sq, pairs), OpenBody
  PROVE  Reading(sq, pairs)'
<1>1. /\ UNCHANGED <<received, top, args, acted>> /\ mark' = [mark EXCEPT ![3] = pos]
      /\ phase' \in {"body", "refused"} /\ pos' = mark[1] + 1
  BY DEF OpenBody
<1>2. /\ kind # "error" /\ kind # "unheard_of"
      /\ domain = "public" => kind \notin PrivateQueries
      /\ LiesAt(DictOf(sq), buf, len, mark[1]) /\ mark[2] = mark[1] + Len(DictOf(sq))
  BY ServedIs DEF OpenBody
<1>3. kind \in Parsed /\ mark[1] # 0
  BY <1>2 DEF Parsed, OpenBody, Reading, Came, Ready
<1>4. Came(sq, pairs)' /\ Own' /\ (Loose(kind, how) <=> Loose(kind, how)')
  BY <1>1, CameKept, OwnKept DEF Reading
<1>5. TopType' /\ Heard(pairs, "q")' /\ Heard(pairs, "y")'
  BY <1>1, HeardKept DEF Reading, TopType
<1>6. Marked(pairs)' /\ mark'[1] = mark[1] /\ mark'[2] = mark[2]
  BY <1>1, MarkedKept DEF Reading
<1>7. AtTop(pairs)'
  BY <1>1 DEF AtTop
<1>8. InBody(sq)'
  <2>1. Attrs(sq)
    BY DEF Reading, Came
  <2>2. Laid(buf, mark[1], sq) /\ Len(DictOf(sq)) = Size(sq) + 2
    BY <1>2, <2>1, LaidIs
  <2>3. mark[1] \in Nat /\ Size(sq) \in Nat
    BY <2>2 DEF Laid
  <2>4. Stands(mark[1], sq, pos')
    BY <1>1, <2>1, <2>3, StandsFirst
  <2>5. mark[2] = mark[1] + (Size(sq) + 2)
    BY <1>2, <2>2
  <2>6. pos' \in Nat /\ pos' > mark[1] /\ pos' < mark[2]
    BY <1>1, <2>3, <2>5
  <2>7. buf' = buf /\ len' = len /\ kind' = kind
    BY <1>1 DEF received
  <2> QED
    BY <1>2, <1>3, <1>4, <1>6, <2>4, <2>6, <2>7 DEF InBody
<1>9. Commands'
  BY <1>1, <1>2 DEF Reading, Commands, received
<1> QED
  BY <1>4, <1>5, <1>6, <1>7, <1>8, <1>9 DEF Reading

-----------------------------------------------------------------------------
(* The steps of the parsers of the body. *)

LEMMA BodyKept ==
  ASSUME NEW sq, NEW pairs, Reading(sq, pairs), phase = "body",
         UNCHANGED <<received, phase, top, mark, acted>>, Own',
         Loose(kind, how) => pos' \in Nat /\ pos' > mark[1] /\ pos' < mark[2],
         ~ Loose(kind, how) => Stands(mark[1], sq, pos')
  PROVE  Reading(sq, pairs)'
<1>1. Came(sq, pairs)' /\ (Loose(kind, how) <=> Loose(kind, how)')
  BY CameKept DEF Reading
<1>2. TopType' /\ Heard(pairs, "q")' /\ Heard(pairs, "y")'
  BY HeardKept DEF Reading, TopType
<1>3. Marked(pairs)'
  BY MarkedKept DEF Reading
<1>4. AtTop(pairs)'
  BY DEF AtTop
<1>5. InBody(sq)'
  BY <1>1 DEF Reading, InBody, received
<1>6. Commands'
  BY DEF Reading, Commands, received
<1> QED
  BY <1>1, <1>2, <1>3, <1>4, <1>5, <1>6 DEF Reading

LEMMA Appended ==
  ASSUME NEW s, IsSeq(s), NEW x
  PROVE  /\ IsSeq(Append(s, x)) /\ Len(Append(s, x)) = Len(s) + 1
         /\ \A i \in 1..Len(s) + 1 : Append(s, x)[i] = IF i <= Len(s) THEN s[i] ELSE x
<1> DEFINE S == Range(s) \cup {x}
           t == Append(s, x)
<1>1. s \in Seq(S) /\ x \in S
  <2>1. Range(s) \subseteq S
    OBVIOUS
  <2> HIDE DEF S
  <2> QED
    BY <2>1, SeqMonotonic DEF IsSeq, S
<1> HIDE DEF S
<1>2. /\ t \in Seq(S) /\ Len(t) = Len(s) + 1
      /\ \A i \in 1..Len(s) : t[i] = s[i]
      /\ t[Len(s) + 1] = x
  BY <1>1, AppendProperties
<1> HIDE DEF t
<1>3. IsSeq(t) /\ Len(s) \in Nat
  BY <1>2, SeqIsSeq, SeqIs
<1>4. \A i \in 1..Len(s) + 1 : t[i] = IF i <= Len(s) THEN s[i] ELSE x
  BY <1>2, <1>3
<1> QED
  BY <1>2, <1>3, <1>4 DEF t

LEMMA OwnGrows ==
  ASSUME NEW sq, NEW pairs, Came(sq, pairs), Own, UNCHANGED received, NEW k, NEW v,
         args' = Append(args, <<k, v>>), ~ Loose(kind, how) => PairOf(k, v) \in sent
  PROVE  Own'
<1> DEFINE x == <<k, v>>
<1>1. x[1] = k /\ x[2] = v
  OBVIOUS
<1> HIDE DEF x
<1>2. /\ IsSeq(args') /\ Len(args') = Len(args) + 1
      /\ \A i \in 1..Len(args) + 1 : args'[i] = IF i <= Len(args) THEN args[i] ELSE x
  BY Appended DEF Own, x
<1>3. sent' = sent /\ (Loose(kind, how) <=> Loose(kind, how)')
  BY CameKept DEF received
<1>4. Len(args) \in Nat /\ DOMAIN args = 1..Len(args) /\ DOMAIN args' = 1..Len(args) + 1
  BY <1>2, SeqIs DEF Own
<1>5. ASSUME ~ Loose(kind, how), NEW i \in 1..Len(args) + 1
      PROVE  PairOf(args'[i][1], args'[i][2]) \in sent
  <2>1. CASE i <= Len(args)
    <3>1. i \in 1..Len(args) /\ args'[i] = args[i]
      BY <1>2, <1>4, <2>1
    <3> QED
      BY <1>4, <1>5, <3>1 DEF Own
  <2>2. CASE ~ (i <= Len(args))
    <3>1. args'[i] = x
      BY <1>2, <2>2
    <3> QED
      BY <1>1, <1>5, <3>1
  <2> QED
    BY <2>1, <2>2
<1> QED
  BY <1>2, <1>3, <1>4, <1>5 DEF Own

(* An attribute of the body, when the parser is in step with them. *)
LEMMA OwnBegins ==
  ASSUME NEW sq, NEW pairs, Reading(sq, pairs), phase = "body", ~ Loose(kind, how),
         NEW a, NEW v, Begins(buf, mark[1], sq, pos, a, v)
  PROVE  /\ Takeable(a, v, kind) /\ LiesAt(v, Body.raw, Body.length, pos + 1)
         /\ PairOf(a, v) \in sent
         /\ IsSeq(v) /\ Len(v) \in Nat /\ Len(v) >= 1 /\ pos \in Nat
         /\ Stands(mark[1], sq, (pos + 1) + Len(v))
<1>1. Came(sq, pairs) /\ InBody(sq)
  BY DEF Reading
<1>2. Laid(buf, mark[1], sq) /\ mark[2] - 1 = mark[1] + Size(sq) + 1 /\ Stands(mark[1], sq, pos)
  BY <1>1, BodyLies DEF InBody
<1>3. Body.raw = buf /\ Body.length = mark[2] - 1
  BY DEF Body
<1>4. LiesAt(v, buf, mark[2] - 1, pos + 1)
  BY <1>2, LiesInBody
<1>5. PairOf(a, v) \in Range(sq) /\ Value(v) /\ Stands(mark[1], sq, (pos + 1) + Len(v))
  BY DEF Begins
<1>6. IsSeq(v) /\ Len(v) \in Nat /\ Len(v) >= 1 /\ pos \in Nat
  BY <1>2, BeginsIs
<1>7. OwnPair(PairOf(a, v), kind)
  BY <1>1, <1>5 DEF Came, Belongs, InBody
<1>8. PICK c, w : PairOf(a, v) = PairOf(c, w) /\ Takeable(c, w, kind)
  BY <1>7 DEF OwnPair
<1>9. IsSeq(w)
  BY <1>8, ValuesNested DEF Takeable
<1>10. a = c /\ v = w
  BY <1>6, <1>8, <1>9, SamePair
<1> QED
  BY <1>1, <1>3, <1>4, <1>5, <1>6, <1>8, <1>10 DEF Came

(* A cell of the body, when the parser may be out of step. *)
LEMMA LooseCells ==
  ASSUME NEW sq, NEW pairs, Reading(sq, pairs), phase = "body", Loose(kind, how)
  PROVE  /\ pos \in Nat /\ mark[1] \in Nat /\ mark[2] \in Nat /\ pos > mark[1] /\ pos < mark[2]
         /\ At(Body, mark[2] - 1) = End
         /\ \A q \in Nat : q > mark[1] /\ q < mark[2] => At(Body, q) # List
<1>1. Came(sq, pairs) /\ InBody(sq)
  BY DEF Reading
<1>2. /\ Laid(buf, mark[1], sq) /\ mark[1] \in Nat /\ Size(sq) \in Nat
      /\ mark[2] - 1 = mark[1] + Size(sq) + 1 /\ mark[2] = mark[1] + Size(sq) + 2
  BY <1>1, BodyLies
<1>3. pos \in Nat /\ pos > mark[1] /\ pos < mark[2]
  BY <1>1 DEF InBody
<1>4. \A x \in Range(sq) : OneCell(x)
  BY <1>1 DEF Came, Belongs, InBody
<1>5. mark[1] + Size(sq) + 1 <= Len(buf) /\ Len(buf) \in Nat /\ buf[mark[1] + Size(sq) + 1] = End
  BY <1>2, SeqIs DEF Laid
<1>6. Body.raw = buf
  BY DEF Body
<1>7. ASSUME NEW q \in Nat, q > mark[1], q < mark[2] PROVE At(Body, q) = buf[q]
  <2>1. q \in 1..Len(buf)
    BY <1>2, <1>5, <1>7
  <2> QED
    BY <1>6, <2>1 DEF At
<1>8. At(Body, mark[2] - 1) = End
  <2>1. mark[2] - 1 \in Nat /\ mark[2] - 1 > mark[1] /\ mark[2] - 1 < mark[2]
    BY <1>2
  <2> QED
    BY <1>2, <1>5, <1>7, <2>1
<1>9. ASSUME NEW q \in Nat, q > mark[1], q < mark[2] PROVE At(Body, q) # List
  <2>1. q <= mark[1] + Size(sq) + 1
    BY <1>2, <1>9
  <2>2. buf[q] # List
    BY <1>2, <1>4, <1>9, <2>1, NoListWithin
  <2> QED
    BY <1>7, <1>9, <2>2
<1>10. mark[2] \in Nat
  BY <1>2
<1> QED
  BY <1>2, <1>3, <1>8, <1>9, <1>10

LEMMA ArgumentTaken ==
  ASSUME NEW k, NEW z, z = ArgumentAt(k), z # 0
  PROVE  KeyAt(Body, pos, k) /\ z = ValueAt(Body, pos + 1, P.types[k])
<1>1. z = PairAt(Body, pos, k, P.types[k])
  BY DEF ArgumentAt
<1> QED
  BY <1>1 DEF PairAt

LEMMA TakeArgumentStep ==
  ASSUME NEW sq, NEW pairs, Reading(sq, pairs), TakeArgument
  PROVE  Reading(sq, pairs)'
<1>1. UNCHANGED <<received, phase, top, mark, acted, reply>> /\ phase = "body"
  BY DEF TakeArgument
<1>2. PICK k \in DOMAIN P.types :
        /\ ArgumentAt(k) # 0 /\ pos' = ArgumentAt(k)
        /\ args' = Append(args, <<k, SubSeq(buf, pos + 1, pos' - 1)>>)
  BY DEF TakeArgument
<1>3. KeyAt(Body, pos, k) /\ pos' = ValueAt(Body, pos + 1, P.types[k]) /\ pos' # 0
  BY <1>2, ArgumentTaken
<1>4. Came(sq, pairs) /\ Own /\ InBody(sq) /\ kind \in Parsed
  BY <1>1 DEF Reading, InBody
<1>5. k \in DOMAIN ParserOf(kind).types /\ ParserOf(kind).types[k] \in Types
  BY <1>2, <1>4, ParsersTyped DEF P, Typed
<1> DEFINE cut == SubSeq(buf, pos + 1, pos' - 1)
<1>6. CASE ~ Loose(kind, how)
  <2>1. Laid(buf, mark[1], sq) /\ Stands(mark[1], sq, pos)
    BY <1>1, <1>4, <1>6, BodyLies DEF InBody
  <2>2. PICK v : Begins(buf, mark[1], sq, pos, k, v)
    BY <1>3, <2>1, KeyBegins DEF Body
  <2>3. /\ Takeable(k, v, kind) /\ LiesAt(v, Body.raw, Body.length, pos + 1)
        /\ PairOf(k, v) \in sent
        /\ IsSeq(v) /\ Len(v) \in Nat /\ Len(v) >= 1 /\ pos \in Nat
        /\ Stands(mark[1], sq, (pos + 1) + Len(v))
    BY <1>1, <1>6, <2>2, OwnBegins
  <2>4. Body.raw = buf /\ Body = [raw |-> buf, length |-> Body.length]
    BY DEF Body
  <2>5. pos' = (pos + 1) + Len(v)
    <3> DEFINE h == Body.length
               t == P.types[k]
    <3>1. ReadsWhole(v, t) /\ t \in Types
      BY <1>5, <2>3 DEF Takeable, P
    <3>2. LiesAt(v, buf, h, pos + 1) /\ Body = [raw |-> buf, length |-> h]
      BY <2>3, <2>4
    <3> HIDE DEF h, t
    <3>3. ValueAt([raw |-> buf, length |-> h], pos + 1, t) \in {0, (pos + 1) + Len(v)}
      BY <3>1, <3>2, ValueRead
    <3>4. pos' = ValueAt([raw |-> buf, length |-> h], pos + 1, t)
      BY <1>3, <3>2 DEF t
    <3> QED
      BY <1>3, <3>3, <3>4
  <2>6. cut = v
    <3>1. SubSeq(buf, pos + 1, ((pos + 1) + Len(v)) - 1) = v
      BY <2>3, <2>4, ValueIsCut
    <3> QED
      BY <2>5, <3>1
  <2> HIDE DEF cut
  <2>7. args' = Append(args, <<k, cut>>) /\ PairOf(k, cut) \in sent
    BY <1>2, <2>3, <2>6 DEF cut
  <2>8. Own'
    BY <1>1, <1>4, <2>7, OwnGrows
  <2> QED
    BY <1>1, <1>6, <2>3, <2>5, <2>8, BodyKept
<1>7. CASE Loose(kind, how)
  <2>1. /\ pos \in Nat /\ mark[1] \in Nat /\ mark[2] \in Nat /\ pos > mark[1] /\ pos < mark[2]
        /\ At(Body, mark[2] - 1) = End
        /\ \A q \in Nat : q > mark[1] /\ q < mark[2] => At(Body, q) # List
    BY <1>1, <1>7, LooseCells
  <2>2. At(Body, pos) # End
    BY <1>3 DEF KeyAt, Key, Str, End
  <2>3. pos # mark[2] - 1
    BY <2>1, <2>2
  <2>4. pos + 1 \in Nat /\ pos + 1 > mark[1] /\ pos + 1 < mark[2] /\ pos + 1 \in Int
    BY <2>1, <2>3
  <2>5. At(Body, pos + 1) # List
    BY <2>1, <2>4
  <2> DEFINE t == P.types[k]
             b == Body
             p == pos + 1
  <2>6. t \in Types /\ pos' = ValueAt(b, p, t) /\ At(b, p) # List /\ p \in Int
    BY <1>3, <1>5, <2>4, <2>5 DEF P
  <2> HIDE DEF t, b, p
  <2>7. ValueAt(b, p, t) \in {0, p + 1} /\ (At(b, p) = End => ValueAt(b, p, t) = 0)
    BY <2>6, OneCellRead
  <2>8. pos' = p + 1 /\ At(b, p) # End
    BY <1>3, <2>6, <2>7
  <2>9. pos' = pos + 2 /\ pos + 1 # mark[2] - 1
    <3>1. At(Body, pos + 1) # End /\ pos' = (pos + 1) + 1
      BY <2>8 DEF b, p
    <3>2. pos + 1 # mark[2] - 1
      BY <2>1, <3>1
    <3> QED
      BY <2>1, <3>1, <3>2
  <2>10. pos' \in Nat /\ pos' > mark[1] /\ pos' < mark[2]
    BY <2>1, <2>4, <2>9
  <2> HIDE DEF cut
  <2>11. args' = Append(args, <<k, cut>>)
    BY <1>2 DEF cut
  <2>12. Own'
    BY <1>1, <1>4, <1>7, <2>11, OwnGrows
  <2> QED
    BY <1>1, <1>7, <2>10, <2>12, BodyKept
<1> QED
  BY <1>6, <1>7

LEMMA TakeRaggedStep ==
  ASSUME NEW sq, NEW pairs, Reading(sq, pairs), TakeRagged
  PROVE  Reading(sq, pairs)'
<1>1. UNCHANGED <<received, phase, top, mark, acted, reply>> /\ phase = "body"
  BY DEF TakeRagged
<1>2. PICK k \in P.strict :
        /\ Fits(k) /\ KeyAt(Body, pos, k) /\ StringAt(Body, pos + 1) /\ ArgumentAt(k) = 0
        /\ pos' \in pos + 3 .. mark[2] - 1
        /\ args' = Append(args, <<k, SubSeq(buf, pos + 1, pos' - 1)>>)
  BY DEF TakeRagged
<1>3. Came(sq, pairs) /\ Own /\ InBody(sq) /\ kind \in Parsed
  BY <1>1 DEF Reading, InBody
<1>4. Loose(kind, how)
  <2> SUFFICES ASSUME ~ Loose(kind, how) PROVE FALSE
    OBVIOUS
  <2>1. Laid(buf, mark[1], sq) /\ Stands(mark[1], sq, pos)
    BY <1>1, <1>3, BodyLies DEF InBody
  <2>2. PICK v : Begins(buf, mark[1], sq, pos, k, v)
    BY <1>2, <2>1, KeyBegins DEF Body
  <2>3. Takeable(k, v, kind) /\ pos \in Nat
    BY <1>1, <2>2, OwnBegins
  <2>4. PICK c : v = <<c>> /\ Packs(k, c)
    BY <1>2, <2>3 DEF Takeable, P
  <2>5. buf[pos + 1] = c /\ pos + 1 \in 1..Len(buf)
    <3>1. buf[pos + 1] = v[1] /\ pos + 1 \in 1..Len(buf)
      BY <2>1, <2>2, BeginsIs
    <3> QED
      BY <2>4, <3>1
  <2>6. At(Body, pos + 1) = c
    BY <2>5 DEF At, Body
  <2>7. P = ParseSampleInfohashesResponse
    BY <1>2, <1>3, ParsersTyped, FoundParser DEF P
  <2>8. \/ k = "nodes" /\ P.types[k] = "nodes"
        \/ k = "samples" /\ P.types[k] = "hashes"
    BY <1>2, <2>7, StrictParser
  <2> DEFINE z == ValueAt(Body, pos + 1, P.types[k])
  <2>9. ArgumentAt(k) = z
    BY <1>2 DEF ArgumentAt, PairAt
  <2>10. z = (pos + 1) + 1
    <3>1. CASE k = "nodes" /\ P.types[k] = "nodes"
      <4>1. c[2] % 26 = 0
        BY <2>4, <3>1 DEF Packs, Str
      <4>2. z = PackedAt(Body, pos + 1, 26)
        BY <3>1 DEF ValueAt
      <4> QED
        BY <1>2, <2>6, <4>1, <4>2 DEF PackedAt
    <3>2. CASE k = "samples" /\ P.types[k] = "hashes"
      <4>1. c[2] % 20 = 0
        BY <2>4, <3>2 DEF Packs, Str
      <4>2. z = PackedAt(Body, pos + 1, 20)
        BY <3>2 DEF ValueAt
      <4> QED
        BY <1>2, <2>6, <4>1, <4>2 DEF PackedAt
    <3> QED
      BY <2>8, <3>1, <3>2
  <2> HIDE DEF z
  <2>11. (pos + 1) + 1 # 0
    BY <2>3
  <2> QED
    BY <1>2, <2>9, <2>10, <2>11
<1>5. /\ pos \in Nat /\ mark[1] \in Nat /\ mark[2] \in Nat /\ pos > mark[1]
  BY <1>1, <1>4, LooseCells
<1>6. pos' \in Nat /\ pos' > mark[1] /\ pos' < mark[2]
  BY <1>2, <1>5
<1> DEFINE cut == SubSeq(buf, pos + 1, pos' - 1)
<1>7. args' = Append(args, <<k, cut>>)
  BY <1>2
<1> HIDE DEF cut
<1>8. Own'
  BY <1>1, <1>3, <1>4, <1>7, OwnGrows
<1> QED
  BY <1>1, <1>4, <1>6, <1>8, BodyKept

LEMMA SkipArgumentStep ==
  ASSUME NEW sq, NEW pairs, Reading(sq, pairs), SkipArgument
  PROVE  Reading(sq, pairs)'
<1>1. UNCHANGED <<received, phase, top, mark, args, acted, reply>> /\ phase = "body"
  BY DEF SkipArgument, NoArgument
<1>2. /\ \A k \in DOMAIN P.types : ArgumentAt(k) = 0
      /\ P.order = <<>> /\ AnyAt(Body, Rest) # 0 /\ pos' = AnyAt(Body, Rest)
  BY DEF SkipArgument, NoArgument, Skippable
<1>3. Came(sq, pairs) /\ Own /\ InBody(sq) /\ kind \in Parsed
  BY <1>1 DEF Reading, InBody
<1>4. Own'
  BY <1>1, <1>3, OwnKept
<1>5. StringAt(Body, Rest)
  BY <1>2 DEF AnyAt
<1>6. CASE ~ Loose(kind, how)
  <2>1. Laid(buf, mark[1], sq) /\ Stands(mark[1], sq, pos)
    BY <1>1, <1>3, <1>6, BodyLies DEF InBody
  <2>2. Body.raw = buf /\ Body = [raw |-> buf, length |-> Body.length]
    BY DEF Body
  <2>3. Rest = pos
    <3> SUFFICES ASSUME "want" \in DOMAIN P.types, Fits("want"), KeyAt(Body, pos, "want")
                 PROVE  FALSE
      BY DEF Rest
    <3>1. PICK v : Begins(buf, mark[1], sq, pos, "want", v)
      BY <2>1, KeyBegins DEF Body
    <3>2. Takeable("want", v, kind) /\ LiesAt(v, Body.raw, Body.length, pos + 1)
      BY <1>1, <1>6, <3>1, OwnBegins
    <3>3. TextList(v) /\ P.types["want"] = "want"
      BY <3>2 DEF Takeable, P
    <3>4. ValueAt([raw |-> buf, length |-> Body.length], pos + 1, "want") # 0
      BY <2>2, <3>2, <3>3, TextsRead
    <3>5. ArgumentAt("want") = ValueAt(Body, pos + 1, "want")
      BY <3>3 DEF ArgumentAt, PairAt
    <3> QED
      BY <1>2, <2>2, <3>4, <3>5
  <2>4. StringAt(Body, pos)
    BY <1>5, <2>3
  <2>5. PICK a, v : Begins(buf, mark[1], sq, pos, a, v)
    BY <2>1, <2>4, StringBegins DEF Body
  <2>6. /\ Takeable(a, v, kind) /\ LiesAt(v, Body.raw, Body.length, pos + 1)
        /\ pos \in Nat /\ Stands(mark[1], sq, (pos + 1) + Len(v))
    BY <1>1, <1>6, <2>5, OwnBegins
  <2>7. Value(v) /\ Passable(v)
    BY <1>2, <2>6 DEF Takeable, P
  <2>8. AnyAt([raw |-> buf, length |-> Body.length], pos) \in {0, (pos + 1) + Len(v)}
    BY <2>2, <2>6, <2>7, AnyRead
  <2>9. pos' = (pos + 1) + Len(v)
    BY <1>2, <2>2, <2>3, <2>8
  <2> QED
    BY <1>1, <1>4, <1>6, <2>6, <2>9, BodyKept
<1>7. CASE Loose(kind, how)
  <2>1. /\ pos \in Nat /\ mark[1] \in Nat /\ mark[2] \in Nat /\ pos > mark[1] /\ pos < mark[2]
        /\ At(Body, mark[2] - 1) = End
        /\ \A q \in Nat : q > mark[1] /\ q < mark[2] => At(Body, q) # List
    BY <1>1, <1>7, LooseCells
  <2> DEFINE r == Rest
             b == Body
  <2>2. r \in Nat /\ r >= pos /\ r <= pos + 1
    BY <2>1 DEF Rest
  <2>3. r < mark[2] - 1
    <3>1. At(b, r) # End
      BY <1>5 DEF StringAt, End
    <3>2. r # mark[2] - 1
      BY <2>1, <3>1
    <3>3. r = pos => r < mark[2] - 1
      BY <2>1, <3>2
    <3>4. r # pos => r < mark[2] - 1
      <4> SUFFICES ASSUME r # pos PROVE r < mark[2] - 1
        OBVIOUS
      <4>1. KeyAt(Body, pos, "want") /\ r = pos + 1
        BY DEF Rest
      <4>2. At(Body, pos) # End
        BY <4>1 DEF KeyAt, Key, Str, End
      <4>3. pos # mark[2] - 1
        BY <2>1, <4>2
      <4> HIDE DEF r
      <4> QED
        BY <2>1, <3>2, <4>1, <4>3
    <3> QED
      BY <3>3, <3>4
  <2>4. r + 1 \in Nat /\ r + 1 > mark[1] /\ r + 1 < mark[2]
    <3> HIDE DEF r
    <3> QED
      BY <2>1, <2>2, <2>3
  <2>5. At(b, r + 1) # List
    BY <2>1, <2>4
  <2>6. pos' = r + 2 /\ (StringAt(b, r + 1) \/ IntAt(b, r + 1))
    <3> DEFINE scalars == { q \in 1 .. b.length : StringAt(b, q) \/ IntAt(b, q) }
    <3>1. pos' = AnyAt(b, r) /\ AnyAt(b, r) # 0 /\ StringAt(b, r)
      BY <1>2, <1>5
    <3> HIDE DEF b, r
    <3>2. AnyAt(b, r) = IF r + 1 \in scalars THEN r + 2 ELSE ListAt(b, r + 1, scalars)
      BY <3>1 DEF AnyAt
    <3>3. CASE r + 1 \in scalars
      BY <3>1, <3>2, <3>3
    <3>4. CASE r + 1 \notin scalars
      <4>1. ListAt(b, r + 1, scalars) # 0
        BY <3>1, <3>2, <3>4
      <4> HIDE DEF scalars
      <4>2. At(b, r + 1) = List
        BY <4>1 DEF ListAt, Is
      <4> QED
        BY <2>5, <4>2
    <3> QED
      BY <3>3, <3>4
  <2>7. r + 1 # mark[2] - 1
    <3>1. At(b, r + 1) # End
      BY <2>6 DEF StringAt, IntAt, End
    <3> HIDE DEF r
    <3> QED
      BY <2>1, <3>1
  <2>8. pos' \in Nat /\ pos' > mark[1] /\ pos' < mark[2]
    <3> HIDE DEF r
    <3> QED
      BY <2>1, <2>2, <2>4, <2>6, <2>7
  <2> QED
    BY <1>1, <1>4, <1>7, <2>8, BodyKept
<1> QED
  BY <1>6, <1>7

-----------------------------------------------------------------------------
(* All of them. *)

LEMMA ReadingInit ==
  ASSUME KrpcAssumption, Init
  PROVE  ReadingInv
<1>1. PICK d \in Deliveries(kind) :
        how = d.how /\ sent = Range(d.sent) /\ buf = d.buf /\ len = d.len
  BY DEF Init
<1>2. kind \in Kinds /\ kind \in DOMAIN Bodies /\ domain \in Domains(kind)
  BY DEF Init, KrpcAssumption
<1>3. Composed(kind, d)
  BY <1>1, <1>2, DeliveriesAre
<1> DEFINE sq == d.sent
<1>4. PICK pairs : /\ IsSeq(pairs)
                   /\ Range(pairs) \subseteq Range(Framed(kind, d.sent)) \cup Besides
                   /\ d.buf = DictOf(pairs) /\ d.len = Len(DictOf(pairs))
  BY <1>3 DEF Composed
<1>5. IsSeq(sq) /\ \A x \in Range(sq) : Belongs(x, kind, how)
  BY <1>1, <1>3 DEF Composed
<1>6. Range(pairs) \subseteq Range(Framed(kind, sq)) \cup Besides /\ sent = Range(sq)
      /\ buf = DictOf(pairs) /\ len = Len(buf)
  BY <1>1, <1>4
<1> HIDE DEF sq
<1>7. Attrs(sq)
  BY <1>5 DEF Attrs, Belongs
<1>8. Attrs(pairs) /\ Range(pairs) \subseteq Surrounding(kind, sq)
  <2>1. \A x \in Range(Framed(kind, sq)) \cup Besides : Attr(x)
    BY <1>7, FramedAttrs
  <2> QED
    BY <1>4, <1>6, <2>1 DEF Attrs, Surrounding
<1>9. Came(sq, pairs)
  BY <1>2, <1>5, <1>6, <1>7, <1>8 DEF Came
<1>10. TopType /\ Heard(pairs, "q") /\ Heard(pairs, "y")
  BY DEF Init, TopType, Heard, Attributes
<1>11. Marked(pairs) /\ InBody(sq) /\ Commands
  <2>1. mark = <<0, 0, 0>> /\ phase = "top" /\ acted = ""
    BY DEF Init
  <2>2. mark = <<0, 0, 0>>
    BY <2>1
  <2>3. DOMAIN mark = 1..3 /\ mark[1] = 0 /\ mark[2] = 0
    BY <2>2
  <2> QED
    BY <2>1, <2>3 DEF Marked, InBody, Commands, PrivateQueries
<1>12. AtTop(pairs)
  <2>1. Stands(1, pairs, 1 + 1)
    BY <1>8, StandsFirst
  <2>2. pos = 2
    BY DEF Init
  <2>3. 1 + 1 = 2
    OBVIOUS
  <2>4. Stands(1, pairs, pos)
    BY <2>1, <2>2, <2>3
  <2> QED
    BY <2>4 DEF AtTop
<1>13. Own
  <2>1. args = <<>>
    BY DEF Init
  <2> QED
    BY <2>1, TuplesAreSeqs DEF Own
<1>14. Reading(sq, pairs)
  BY <1>9, <1>10, <1>11, <1>12, <1>13 DEF Reading
<1> QED
  BY <1>14 DEF ReadingInv

LEMMA ReadingStep ==
  ASSUME ReadingInv, [Next]_vars
  PROVE  ReadingInv'
<1>1. PICK sq, pairs : Reading(sq, pairs)
  BY DEF ReadingInv
<1>2. SUFFICES Reading(sq, pairs)'
  BY DEF ReadingInv
<1>3. domain = "public" => acted \notin PrivateQueries /\ (phase = "body" => kind \notin PrivateQueries)
  BY <1>1 DEF Reading, Commands
<1>4. CASE TakeAttribute
  BY <1>1, <1>4, TakeAttributeStep
<1>5. CASE TakeReadOnly
  BY <1>1, <1>5, TakeReadOnlyStep
<1>6. CASE TakeBody
  BY <1>1, <1>6, TakeBodyStep
<1>7. CASE SkipUnknown
  BY <1>1, <1>7, SkipUnknownStep
<1>8. CASE RefuseAttribute
  <2>1. UNCHANGED <<received, top, mark, args, acted>> /\ phase' = "refused"
    BY <1>8 DEF RefuseAttribute
  <2> QED
    BY <1>1, <1>3, <2>1, Leaves
<1>9. CASE Incomplete
  <2>1. UNCHANGED <<received, top, mark, args, acted>> /\ phase' = "refused"
    BY <1>9 DEF Incomplete
  <2> QED
    BY <1>1, <1>3, <2>1, Leaves
<1>10. CASE UnknownQuery
  <2>1. /\ UNCHANGED <<received, top, args>> /\ mark' = [mark EXCEPT ![3] = pos]
        /\ phase' = "writing" /\ acted' = "error"
    BY <1>10 DEF UnknownQuery, Write
  <2>2. acted' \notin PrivateQueries
    BY <2>1 DEF PrivateQueries
  <2> QED
    BY <1>1, <2>1, <2>2, Leaves
<1>11. CASE Command
  BY <1>1, <1>11, CommandStep
<1>12. CASE OpenBody
  BY <1>1, <1>12, OpenBodyStep
<1>13. CASE TakeArgument
  BY <1>1, <1>13, TakeArgumentStep
<1>14. CASE TakeRagged
  BY <1>1, <1>14, TakeRaggedStep
<1>15. CASE SkipArgument
  BY <1>1, <1>15, SkipArgumentStep
<1>16. CASE RefuseBody
  <2>1. UNCHANGED <<received, top, mark, args, acted>> /\ phase' = "refused"
    BY <1>16 DEF RefuseBody
  <2> QED
    BY <1>1, <1>3, <2>1, Leaves
<1>17. CASE Act
  <2>1. /\ UNCHANGED <<received, top, mark, args>> /\ phase = "body"
        /\ phase' = "writing" /\ acted' = kind
    BY <1>17 DEF Act, NoArgument, Handle, Write
  <2> QED
    BY <1>1, <1>3, <2>1, Leaves
<1>18. CASE WriteCell
  <2>1. UNCHANGED <<received, top, mark, args, acted>> /\ phase' = phase /\ phase = "writing"
    BY <1>18 DEF WriteCell
  <2> QED
    BY <1>1, <1>3, <2>1, Leaves
<1>19. CASE DoesNotFit
  <2>1. UNCHANGED <<received, top, mark, args, acted>> /\ phase' = "giving up"
    BY <1>19 DEF DoesNotFit
  <2> QED
    BY <1>1, <1>3, <2>1, Leaves
<1>20. CASE GiveUp
  <2>1. UNCHANGED <<received, top, mark, args, acted>> /\ phase' = phase /\ phase = "giving up"
    BY <1>20 DEF GiveUp
  <2> QED
    BY <1>1, <1>3, <2>1, Leaves
<1>21. CASE StopListing
  <2>1. UNCHANGED <<received, top, mark, args, acted>> /\ phase' = "writing"
    BY <1>21 DEF StopListing
  <2> QED
    BY <1>1, <1>3, <2>1, Leaves
<1>22. CASE Written
  <2>1. UNCHANGED <<received, top, mark, args, acted>> /\ phase' \in {"close", "refused"}
    BY <1>22 DEF Written
  <2> QED
    BY <1>1, <1>3, <2>1, Leaves
<1>23. CASE Close
  <2>1. UNCHANGED <<received, top, mark, args, acted>> /\ phase' \in {"answered", "refused"}
    BY <1>23 DEF Close
  <2> QED
    BY <1>1, <1>3, <2>1, Leaves
<1>24. CASE UNCHANGED vars
  <2>1. UNCHANGED <<received, pos, phase, top, mark, args, acted>>
    BY <1>24 DEF vars, received
  <2>2. Came(sq, pairs)' /\ Own' /\ (Loose(kind, how) <=> Loose(kind, how)')
    BY <1>1, <2>1, CameKept, OwnKept DEF Reading
  <2>3. TopType' /\ Heard(pairs, "q")' /\ Heard(pairs, "y")'
    BY <1>1, <2>1, HeardKept DEF Reading, TopType
  <2>4. Marked(pairs)'
    BY <1>1, <2>1, MarkedKept DEF Reading
  <2>5. AtTop(pairs)' /\ InBody(sq)' /\ Commands'
    BY <1>1, <2>1, <2>2 DEF Reading, AtTop, InBody, Commands, received
  <2> QED
    BY <2>2, <2>3, <2>4, <2>5 DEF Reading
<1> QED
  BY <1>4, <1>5, <1>6, <1>7, <1>8, <1>9, <1>10, <1>11, <1>12, <1>13, <1>14, <1>15, <1>16,
     <1>17, <1>18, <1>19, <1>20, <1>21, <1>22, <1>23, <1>24 DEF Next

(* ReadingHolds: the parsers always stand where an attribute begins, and  *)
(* what they have taken so far was sent (krpc.h:118-214, krpc_parse.cpp).  *)
THEOREM ReadingHolds == Spec => []ReadingInv
<1>1. Init => ReadingInv
  BY ReadingInit, KrpcAssumption
<1>2. ReadingInv /\ [Next]_vars => ReadingInv'
  BY ReadingStep
<1> QED
  BY <1>1, <1>2, PTL DEF Spec

LEMMA InMessage ==
  ASSUME ReadingInv
  PROVE  WithinMessage
<1>1. PICK sq, pairs : Reading(sq, pairs)
  BY DEF ReadingInv
<1>2. Came(sq, pairs) /\ Marked(pairs)
  BY <1>1 DEF Reading
<1>3. Laid(buf, 1, pairs) /\ len \in Nat /\ len = 1 + Size(pairs) + 1
  BY <1>2, MessageLies
<1>4. phase = "top" => pos <= len
  <2> SUFFICES ASSUME phase = "top" PROVE pos <= len
    OBVIOUS
  <2>1. Stands(1, pairs, pos)
    BY <1>1 DEF Reading, AtTop
  <2> QED
    BY <1>3, <2>1, StandsAt
<1>5. phase = "body" => pos < mark[2]
  <2> SUFFICES ASSUME phase = "body" PROVE pos < mark[2]
    OBVIOUS
  <2>1. InBody(sq)
    BY <1>1 DEF Reading
  <2>2. /\ Laid(buf, mark[1], sq) /\ mark[1] \in Nat /\ Size(sq) \in Nat
        /\ mark[2] = mark[1] + Size(sq) + 2
    BY <1>2, <2>1, BodyLies
  <2>3. ~ Loose(kind, how) => pos \in Nat /\ pos <= mark[1] + Size(sq) + 1
    <3> SUFFICES ASSUME ~ Loose(kind, how) PROVE pos \in Nat /\ pos <= mark[1] + Size(sq) + 1
      OBVIOUS
    <3>1. Stands(mark[1], sq, pos)
      BY <2>1 DEF InBody
    <3> QED
      BY <2>2, <3>1, StandsAt
  <2>4. CASE Loose(kind, how)
    BY <2>1, <2>4 DEF InBody
  <2>5. CASE ~ Loose(kind, how)
    <3>1. pos \in Nat /\ pos <= mark[1] + Size(sq) + 1
      BY <2>3, <2>5
    <3> QED
      BY <2>2, <3>1
  <2> QED
    BY <2>4, <2>5
<1>6. mark[2] <= len
  <2>1. CASE mark[1] = 0
    BY <1>2, <1>3, <2>1 DEF Marked
  <2>2. CASE mark[1] # 0
    BY <1>2, <2>2 DEF Marked
  <2> QED
    BY <2>1, <2>2
<1> QED
  BY <1>4, <1>5, <1>6 DEF WithinMessage

(* WithinMessageHolds: whatever kind of message arrives, in whichever order *)
(* and with whatever is unknown or repeated in it, the parsers of a whole   *)
(* message look at nothing behind it, and those of the body at nothing      *)
(* behind the body (krpc.h:121, bencode_offset.cpp:31).                     *)
THEOREM WithinMessageHolds == Spec => []WithinMessage
<1>1. ReadingInv => WithinMessage
  BY InMessage
<1> QED
  BY <1>1, ReadingHolds, PTL

(* ArgumentsAreSentHolds: of each kind of message the parser of the body    *)
(* takes nothing but the attributes that were sent in it, as they were      *)
(* sent (krpc.h:195, bencode_offset.cpp:31-85).                             *)
THEOREM ArgumentsAreSentHolds == Spec => []ArgumentsAreSent
<1>1. ReadingInv => ArgumentsAreSent
  <2> SUFFICES ASSUME ReadingInv, how \notin {"ragged", "unlisted"}
               PROVE  \A i \in DOMAIN args : PairOf(args[i][1], args[i][2]) \in sent
    BY DEF ArgumentsAreSent
  <2>1. Own
    BY DEF ReadingInv, Reading
  <2>2. ~ Loose(kind, how)
    BY DEF Loose
  <2> QED
    BY <2>1, <2>2 DEF Own
<1> QED
  BY <1>1, ReadingHolds, PTL

(* PublicCannotCommandHolds: no message from the network reaches the        *)
(* daemon's own commands (dht-server.cpp:131, private_interface.cpp:152).   *)
THEOREM PublicCannotCommandHolds == Spec => []PublicCannotCommand
<1>1. ReadingInv => PublicCannotCommand
  BY DEF ReadingInv, Reading, Commands, PublicCannotCommand
<1> QED
  BY <1>1, ReadingHolds, PTL

-----------------------------------------------------------------------------
(* Every reply closes what it opens. *)

LEMMA AllNestedCat ==
  ASSUME NEW ss, NEW tt, AllNested(ss), AllNested(tt)
  PROVE  AllNested(ss \o tt)
<1>1. IsSeq(ss) /\ IsSeq(tt) /\ Len(ss) \in Nat /\ Len(tt) \in Nat
  BY SeqIs DEF AllNested, Parts
<1>2. /\ IsSeq(ss \o tt) /\ Len(ss \o tt) = Len(ss) + Len(tt)
      /\ \A i \in 1..Len(ss) + Len(tt) :
           (ss \o tt)[i] = IF i <= Len(ss) THEN ss[i] ELSE tt[i - Len(ss)]
  BY <1>1, CatIs
<1>3. ASSUME NEW i \in 1..Len(ss \o tt)
      PROVE  Nested((ss \o tt)[i])
  <2>1. \/ i \in 1..Len(ss)
        \/ i - Len(ss) \in 1..Len(tt) /\ ~ (i <= Len(ss))
    BY <1>1, <1>2
  <2>2. \/ (ss \o tt)[i] = ss[i] /\ i \in 1..Len(ss)
        \/ (ss \o tt)[i] = tt[i - Len(ss)] /\ i - Len(ss) \in 1..Len(tt)
    BY <1>1, <1>2, <2>1
  <2> QED
    BY <2>2 DEF AllNested
<1>4. \A i \in 1..Len(ss \o tt) : IsSeq((ss \o tt)[i])
  BY <1>3 DEF Nested
<1> QED
  BY <1>2, <1>3, <1>4 DEF AllNested, Parts

LEMMA RepliesNested ==
  /\ AllNested(ErrorMessage)
  /\ \A body : AllNested(body) => AllNested(Response(body))
<1>1. ASSUME NEW body, NEW y, AllNested(body)
      PROVE  AllNested(Message(body, <<>>, y))
  <2>1. /\ Nested(PairOf("t", <<Str(4, "tx")>>)) /\ Nested(PairOf("v", <<Str(4, "sp02")>>))
        /\ Nested(PairOf("y", <<Key(y)>>))
    BY ScalarsNested, PairsNested DEF Key
  <2>2. AllNested(<<PairOf("t", <<Str(4, "tx")>>), PairOf("v", <<Str(4, "sp02")>>),
                    PairOf("y", <<Key(y)>>)>>)
    BY <2>1, AllNestedTuples
  <2>3. AllNested(body \o <<>>)
    BY <1>1, AllNestedTuples, AllNestedCat
  <2> QED
    BY <2>2, <2>3, AllNestedCat DEF Message
<1>2. AllNested(ErrorMessage)
  <2>1. Nested(<<Integer(204)>>) /\ Nested(<<Text("unknown method")>>)
    BY ScalarsNested
  <2>2. Nested(PairOf("e", ListOf(<< <<Integer(204)>>, <<Text("unknown method")>> >>)))
    BY <2>1, AllNestedTuples, DictsNested, PairsNested
  <2>3. AllNested(<<PairOf("e", ListOf(<< <<Integer(204)>>, <<Text("unknown method")>> >>))>>)
    BY <2>2, AllNestedTuples
  <2> QED
    BY <1>1, <2>3 DEF ErrorMessage
<1>3. ASSUME NEW body, AllNested(body)
      PROVE  AllNested(Response(body))
  <2>1. AllNested(<<PairOf("r", DictOf(body))>>)
    BY <1>3, AllNestedTuples, DictsNested, PairsNested
  <2> QED
    BY <1>1, <2>1 DEF Response
<1> QED
  BY <1>2, <1>3

LEMMA DumpsNested ==
  /\ AllNested(DumpResponse) /\ AllNested(DumpScrapeResponse)
  /\ AllNested(DebugScrapeResponse) /\ AllNested(StatisticsResponse)
  /\ \A n \in Nat : AllNested(DumpDbResponse(n))
<1>1. \A a : AllNested(Counts(<<a>>))
  BY MapsNested, TuplesAreSeqs
<1>2. \A a, b : AllNested(Counts(<<a, b>>))
  BY MapsNested, TuplesAreSeqs
<1>3. \A a, b, c : AllNested(Counts(<<a, b, c>>))
  BY MapsNested, TuplesAreSeqs
<1>4. Nested(Id)
  BY ScalarsNested, PairsNested DEF Id
<1>5. AllNested(DebugScrapeResponse)
  BY <1>2 DEF DebugScrapeResponse
<1>6. AllNested(DumpScrapeResponse)
  <2> DEFINE keys == <<"active_scrapes", "active_sample_infohashes_requests",
        "queue_get_peers_ih", "info_hash0", "routing_table_nodes0", "candidates0",
        "stat.publish0", "bootstrap_unique_inserts", "scrape_hour_current_idx",
        "scrape_hour0">>
  <2>1. IsSeq(keys)
    <3>1. ASSUME NEW a, NEW b, NEW c, NEW d, NEW e, NEW f, NEW g, NEW h, NEW i, NEW j
          PROVE  IsSeq(<<a, b, c, d, e, f, g, h, i, j>>)
      <4>1. <<a, b, c, d, e, f, g, h, i, j>> \in Seq({a, b, c, d, e, f, g, h, i, j})
        OBVIOUS
      <4> QED
        BY <4>1, SeqIsSeq
    <3> QED
      BY <3>1
  <2>2. DumpScrapeResponse = <<PairOf("scrape", DictOf(Counts(keys)))>>
    BY DEF DumpScrapeResponse
  <2> HIDE DEF keys
  <2>3. Nested(PairOf("scrape", DictOf(Counts(keys))))
    BY <2>1, MapsNested, DictsNested, PairsNested
  <2> QED
    BY <2>2, <2>3, AllNestedTuples
<1>7. AllNested(StatisticsResponse)
  <2>1. ASSUME NEW t PROVE AllNested(Traffic(t))
    <3> DEFINE keys == [i \in 1 .. 6 |-> t \o <<"-ping", "-find_node", "-get_peers",
                          "-announce_peer", "-sample_infohashes", "-error">>[i]]
    <3>1. IsSeq(keys)
      <4>1. keys = [i \in 1..6 |-> keys[i]]
        OBVIOUS
      <4> HIDE DEF keys
      <4> QED
        BY <4>1, FunctionIsSeq
    <3>2. Traffic(t) = Counts(keys)
      BY DEF Traffic
    <3> HIDE DEF keys
    <3> QED
      BY <3>1, <3>2, MapsNested
  <2>2. AllNested(<<>>)
    BY AllNestedTuples
  <2>3. ASSUME NEW d
        PROVE  AllNested(Direction(d, TRUE)) /\ AllNested(Direction(d, FALSE))
    <3> DEFINE a == Traffic(d \o "-request")
               b == Traffic(d \o "-response_timeout")
               c == Traffic(d \o "-response")
               e == Counts(<<d \o "-parse_error">>)
    <3>1. AllNested(a) /\ AllNested(b) /\ AllNested(c) /\ AllNested(e)
      BY <1>1, <2>1
    <3>2. Direction(d, TRUE) = a \o <<>> \o c \o e /\ Direction(d, FALSE) = a \o b \o c \o e
      BY DEF Direction
    <3> HIDE DEF a, b, c, e
    <3>3. AllNested(a \o <<>> \o c \o e) /\ AllNested(a \o b \o c \o e)
      BY <2>2, <3>1, AllNestedCat
    <3> QED
      BY <3>2, <3>3
  <2> DEFINE s == Direction("transmit", TRUE)
             r == Direction("received", FALSE)
             k == Counts(<<"known_tx", "unknown_tx", "scrape_swapped_ih">>)
  <2>4. AllNested(s) /\ AllNested(r) /\ AllNested(k)
    BY <1>3, <2>3
  <2>5. StatisticsResponse = s \o r \o k
    BY DEF StatisticsResponse
  <2> HIDE DEF s, r, k
  <2> QED
    BY <2>4, <2>5, AllNestedCat
<1>8. AllNested(DumpResponse)
  <2>1. Nested(PairOf("root", Table))
    <3>1. Nested(NodeDict)
      <4> DEFINE v == Flag(TRUE)
                 g == PairOf("good", v)
                 h == PairOf("outstanding", <<Integer(0)>>)
      <4>1. Nested(v) /\ Nested(h)
        BY ScalarsNested, PairsNested
      <4>2. NodeDict = DictOf(<<Id, g, h>>)
        BY DEF NodeDict
      <4> HIDE DEF v, h
      <4>3. Nested(g)
        BY <4>1, PairsNested
      <4> HIDE DEF g
      <4> QED
        BY <1>4, <4>1, <4>2, <4>3, AllNestedTuples, DictsNested
    <3> QED
      BY <3>1, AllNestedTuples, DictsNested, PairsNested DEF Table, Bucket
  <2> DEFINE a == PairOf("cache", DictOf(Counts(<<"min_read_idx", "max_read_idx", "write_idx">>)))
             b == PairOf("bootstrap", DictOf(Counts(<<"unique_inserts", "candidates">>)))
             c == PairOf("spbt", DictOf(Counts(<<"stored">>)))
             d == PairOf("ip_election", DictOf(Counts(<<"an address">>)))
             e == PairOf("root", Table)
             f == Counts(<<"pid", "bind_port">>)
             g == Counts(<<"last_activity", "routing_table_nodes", "bad_nodes">>)
  <2>2. /\ Nested(a) /\ Nested(b) /\ Nested(c) /\ Nested(d) /\ Nested(e)
        /\ AllNested(f) /\ AllNested(g)
    BY <1>1, <1>2, <1>3, <2>1, DictsNested, PairsNested
  <2>3. DumpResponse = <<Id>> \o f \o <<a, b, c, d, e>> \o g
    BY DEF DumpResponse
  <2> HIDE DEF a, b, c, d, e, f, g
  <2>4. AllNested(<<Id>>) /\ AllNested(<<a, b, c, d, e>>)
    BY <1>4, <2>2, AllNestedTuples
  <2> QED
    BY <2>2, <2>3, <2>4, AllNestedCat
<1>9. ASSUME NEW n \in Nat
      PROVE  AllNested(DumpDbResponse(n))
  <2>1. Nested(DbEntry)
    BY ScalarsNested, PairsNested, AllNestedTuples, DictsNested DEF DbEntry
  <2> DEFINE ss == [i \in 1 .. n |-> DbEntry]
  <2>2. AllNested(ss)
    <3>1. ss = [i \in 1..n |-> ss[i]] /\ \A i \in 1..n : ss[i] = DbEntry
      OBVIOUS
    <3> HIDE DEF ss
    <3>2. IsSeq(ss) /\ Len(ss) = n
      BY <3>1, FunctionIsSeq
    <3> QED
      BY <2>1, <3>1, <3>2 DEF AllNested, Parts, Nested
  <2>3. DumpDbResponse(n) = <<PairOf("db", DictOf(ss))>>
    BY DEF DumpDbResponse
  <2> HIDE DEF ss
  <2> QED
    BY <2>2, <2>3, DictsNested, PairsNested, AllNestedTuples
<1> QED
  BY <1>5, <1>6, <1>7, <1>8, <1>9

LEMMA RepliesEnclosed ==
  ASSUME KrpcAssumption
  PROVE  /\ \A k : \A r \in ReplyTo(k) : Encloses(Dict, DictOf(r))
         /\ \A n \in 0..DbEntries : Encloses(Dict, DictOf(Response(DumpDbResponse(n))))
         /\ Encloses(Dict, DictOf(ErrorMessage))
<1>1. \A k \in DOMAIN Bodies : Encloses(Dict, DictOf(Response(Bodies[k])))
  BY BodiesNested, RepliesNested, DictsNested
<1>2. ASSUME NEW k, NEW r \in ReplyTo(k)
      PROVE  Encloses(Dict, DictOf(r))
  <2>1. \/ r = ErrorMessage
        \/ \E b \in DOMAIN Bodies : r = Response(Bodies[b])
        \/ r \in {Response(DumpResponse), Response(DumpScrapeResponse),
                  Response(DebugScrapeResponse), Response(StatisticsResponse)}
    <3>1. /\ {"r_ping", "r_find_node", "r_get_peers", "r_get_peers_peers",
              "r_get_peers_scrape", "r_announce_peer", "r_sample_infohashes", "error"}
               \subseteq DOMAIN Bodies
          /\ Bodies["r_ping"] = PingResponse /\ Bodies["r_find_node"] = FindNodeResponse
          /\ Bodies["r_get_peers"] = GetPeersResponse
          /\ Bodies["r_get_peers_peers"] = GetPeersPeersResponse
          /\ Bodies["r_get_peers_scrape"] = GetPeersScrapeResponse
          /\ Bodies["r_announce_peer"] = AnnouncePeerResponse
          /\ Bodies["r_sample_infohashes"] = SampleInfohashesResponse
          /\ Bodies["error"] = NoArguments
      BY DEF Bodies
    <3> QED
      BY <3>1 DEF ReplyTo
  <2> QED
    BY <1>1, <2>1, DumpsNested, RepliesNested, DictsNested
<1>3. \A n \in 0..DbEntries : Encloses(Dict, DictOf(Response(DumpDbResponse(n))))
  BY DumpsNested, RepliesNested, DictsNested DEF KrpcAssumption
<1>4. Encloses(Dict, DictOf(ErrorMessage))
  BY RepliesNested, DictsNested
<1> QED
  BY <1>2, <1>3, <1>4

-----------------------------------------------------------------------------
(* The reply to sp_dump_db, cell by cell. *)

Dump(n) == DictOf(Response(DumpDbResponse(n)))

Heading == <<Dict, Key("r"), Dict, Key("db"), Dict>>

Entry == <<Dict, Key("infohash"), Text("hex"), Key("entries"), Integer(1), End>>

Ending == <<End, End, Key("t"), Str(4, "tx"), Key("v"), Str(4, "sp02"), Key("y"), Key("r"), End>>

LEMMA OneFlattened ==
  ASSUME NEW s, IsSeq(s)
  PROVE  FlattenSeq(<<s>>) = s
<1> DEFINE ss == <<s>>
<1>1. Len(ss) = 1 /\ IsSeq(ss) /\ ss[1] = s
  BY TuplesAreSeqs
<1>2. FlattenSeq(ss) = FlattenSeq(<<s>>)
  OBVIOUS
<1> HIDE DEF ss
<1>3. Parts(ss)
  BY <1>1 DEF Parts
<1>4. PICK f : Joins(f, ss) /\ FlattenSeq(ss) = f[Len(ss)]
  BY <1>3, FlattenIs
<1>5. f[0] = <<>> /\ f[1] = f[1 - 1] \o s
  BY <1>1, <1>4 DEF Joins
<1>6. <<>> \o s = s
  BY ConcatEmptySeq DEF IsSeq
<1>7. 1 - 1 = 0
  OBVIOUS
<1> QED
  BY <1>1, <1>2, <1>4, <1>5, <1>6, <1>7

LEMMA FourFlattened ==
  ASSUME NEW ss, IsSeq(ss), Len(ss) = 4,
         IsSeq(ss[1]), IsSeq(ss[2]), IsSeq(ss[3]), IsSeq(ss[4])
  PROVE  FlattenSeq(ss) = ((ss[1] \o ss[2]) \o ss[3]) \o ss[4]
<1>1. Len(ss) = 4 /\ IsSeq(ss)
  OBVIOUS
<1>2. \A i \in 1..4 : i = 1 \/ i = 2 \/ i = 3 \/ i = 4
  OBVIOUS
<1>3. Parts(ss)
  BY <1>1, <1>2 DEF Parts
<1>4. PICK f : Joins(f, ss) /\ FlattenSeq(ss) = f[Len(ss)]
  BY <1>3, FlattenIs
<1>5. /\ f[0] = <<>> /\ f[1] = f[1 - 1] \o ss[1] /\ f[2] = f[2 - 1] \o ss[2]
      /\ f[3] = f[3 - 1] \o ss[3] /\ f[4] = f[4 - 1] \o ss[4]
  <2>1. 1 \in 1..4 /\ 2 \in 1..4 /\ 3 \in 1..4 /\ 4 \in 1..4
    OBVIOUS
  <2> QED
    BY <1>1, <1>4, <2>1 DEF Joins
<1>6. 1 - 1 = 0 /\ 2 - 1 = 1 /\ 3 - 1 = 2 /\ 4 - 1 = 3
  OBVIOUS
<1>7. <<>> \o ss[1] = ss[1]
  BY ConcatEmptySeq DEF IsSeq
<1> QED
  BY <1>1, <1>4, <1>5, <1>6, <1>7

Wrapped(b, s) == <<b>> \o s \o <<End>>

LEMMA WrapIs ==
  ASSUME NEW b, NEW s, IsSeq(s)
  PROVE  /\ IsSeq(Wrapped(b, s)) /\ Len(Wrapped(b, s)) = Len(s) + 2
         /\ Wrapped(b, s)[1] = b /\ Wrapped(b, s)[Len(s) + 2] = End
         /\ \A i \in 1..Len(s) : Wrapped(b, s)[i + 1] = s[i]
BY WrappedIs DEF Wrapped

LEMMA KeyedIs ==
  ASSUME NEW k, NEW v, IsSeq(v)
  PROVE  /\ IsSeq(PairOf(k, v)) /\ Len(PairOf(k, v)) = Len(v) + 1
         /\ PairOf(k, v)[1] = Key(k)
         /\ \A i \in 1..Len(v) : PairOf(k, v)[i + 1] = v[i]
BY PairIs

(* A pair of two cells. *)
LEMMA TwoCells ==
  ASSUME NEW k, NEW c
  PROVE  PairOf(k, <<c>>) = <<Key(k), c>> /\ IsSeq(PairOf(k, <<c>>))
<1> DEFINE v == <<c>>
           x == PairOf(k, v)
           y == <<Key(k), c>>
<1>1. IsSeq(v) /\ Len(v) = 1 /\ v[1] = c
  BY TuplesAreSeqs
<1>2. IsSeq(y) /\ Len(y) = 2 /\ y[1] = Key(k) /\ y[2] = c
  BY TuplesAreSeqs
<1> HIDE DEF v, y
<1>3. /\ IsSeq(x) /\ Len(x) = Len(v) + 1 /\ x[1] = Key(k)
      /\ \A i \in 1..Len(v) : x[i + 1] = v[i]
  BY <1>1, PairIs
<1> HIDE DEF x
<1>4. IsSeq(x) /\ Len(x) = 2 /\ x[1] = Key(k) /\ x[2] = c
  <2>1. 1 \in 1..Len(v) /\ 1 + 1 = 2 /\ Len(v) + 1 = 2
    BY <1>1
  <2> QED
    BY <1>1, <1>3, <2>1
<1>5. \A i \in 1..2 : i = 1 \/ i = 2
  OBVIOUS
<1>6. x = y
  BY <1>2, <1>4, <1>5, SameSeq
<1> QED
  BY <1>4, <1>6 DEF x, y, v

LEMMA EntryIs == DbEntry = Entry /\ IsSeq(Entry) /\ Len(Entry) = 6
<1> DEFINE p == PairOf("infohash", <<Text("hex")>>)
           q == PairOf("entries", <<Integer(1)>>)
           s == p \o q
           u == Wrapped(Dict, s)
<1>1. /\ IsSeq(p) /\ Len(p) = 2 /\ p[1] = Key("infohash") /\ p[2] = Text("hex")
      /\ IsSeq(q) /\ Len(q) = 2 /\ q[1] = Key("entries") /\ q[2] = Integer(1)
  BY TwoCells, TuplesAreSeqs
<1>2. DbEntry = DictOf(<<p, q>>)
  BY DEF DbEntry
<1> HIDE DEF p, q
<1>3. DbEntry = u
  BY <1>1, <1>2, TwoFlattened DEF DictOf, Wrapped
<1>4. /\ IsSeq(s) /\ Len(s) = 4 /\ s[1] = p[1] /\ s[2] = p[2] /\ s[3] = q[1] /\ s[4] = q[2]
  <2>1. /\ IsSeq(s) /\ Len(s) = Len(p) + Len(q)
        /\ \A i \in 1..Len(p) + Len(q) : s[i] = IF i <= Len(p) THEN p[i] ELSE q[i - Len(p)]
    BY <1>1, CatIs
  <2> HIDE DEF s
  <2> QED
    BY <1>1, <2>1
<1> HIDE DEF s
<1>5. /\ IsSeq(u) /\ Len(u) = Len(s) + 2 /\ u[1] = Dict /\ u[Len(s) + 2] = End
      /\ \A i \in 1..Len(s) : u[i + 1] = s[i]
  <2>1. IsSeq(s)
    BY <1>4
  <2> QED
    BY <2>1, WrapIs
<1> HIDE DEF u
<1>6. /\ IsSeq(u) /\ Len(u) = 6 /\ u[1] = Dict /\ u[2] = Key("infohash") /\ u[3] = Text("hex")
      /\ u[4] = Key("entries") /\ u[5] = Integer(1) /\ u[6] = End
  <2>1. /\ 1 \in 1..Len(s) /\ 2 \in 1..Len(s) /\ 3 \in 1..Len(s) /\ 4 \in 1..Len(s)
        /\ 1 + 1 = 2 /\ 2 + 1 = 3 /\ 3 + 1 = 4 /\ 4 + 1 = 5 /\ Len(s) + 2 = 6
    BY <1>4
  <2>2. u[1 + 1] = s[1] /\ u[2 + 1] = s[2] /\ u[3 + 1] = s[3] /\ u[4 + 1] = s[4]
    BY <1>5, <2>1
  <2> QED
    BY <1>1, <1>4, <1>5, <2>1, <2>2
<1>7. IsSeq(Entry) /\ Len(Entry) = 6
  <2>1. ASSUME NEW a, NEW b, NEW c, NEW d, NEW e, NEW f
        PROVE  IsSeq(<<a, b, c, d, e, f>>) /\ Len(<<a, b, c, d, e, f>>) = 6
    <3>1. <<a, b, c, d, e, f>> \in Seq({a, b, c, d, e, f})
      OBVIOUS
    <3> QED
      BY <3>1, SeqIsSeq
  <2> QED
    BY <2>1 DEF Entry
<1>8. /\ Entry[1] = Dict /\ Entry[2] = Key("infohash") /\ Entry[3] = Text("hex")
      /\ Entry[4] = Key("entries") /\ Entry[5] = Integer(1) /\ Entry[6] = End
  BY DEF Entry
<1>9. \A i \in 1..6 : i = 1 \/ i = 2 \/ i = 3 \/ i = 4 \/ i = 5 \/ i = 6
  OBVIOUS
<1>10. \A i \in 1..6 : u[i] = Entry[i]
  BY <1>6, <1>8, <1>9
<1>11. u = Entry
  BY <1>6, <1>7, <1>10, SameSeq
<1> QED
  BY <1>3, <1>7, <1>11

(* Entries one behind the other. *)
LEMMA EntriesAre ==
  ASSUME NEW n \in Nat
  PROVE  LET s == FlattenSeq([i \in 1 .. n |-> DbEntry])
         IN  /\ IsSeq(s) /\ Len(s) = 6 * n
             /\ \A i \in 1..n : \A j \in 1..6 : s[6 * (i - 1) + j] = Entry[j]
<1> DEFINE ss == [i \in 1 .. n |-> DbEntry]
           s == FlattenSeq(ss)
<1>1. ss = [i \in 1..n |-> ss[i]] /\ \A i \in 1..n : ss[i] = Entry
  BY EntryIs
<1> HIDE DEF ss
<1>2. IsSeq(ss) /\ Len(ss) = n
  BY <1>1, FunctionIsSeq
<1>3. Parts(ss) /\ \A i \in 1..n : Len(ss[i]) = 6
  BY <1>1, <1>2, EntryIs DEF Parts
<1>4. IsSeq(s) /\ \E off : Offsets(off, ss, s)
  BY <1>3, FlattenAt
<1>5. PICK off : Offsets(off, ss, s)
  BY <1>4
<1> HIDE DEF s
<1>6. \A i \in 0..n : off[i] = 6 * i
  <2> DEFINE G == {i \in 0..n : off[i] = 6 * i}
  <2>1. 0 \in G
    BY <1>5 DEF Offsets
  <2>2. ASSUME NEW i \in 1..n, i - 1 \in G
        PROVE  i \in G
    <3>1. off[i] = off[i - 1] + 6
      BY <1>2, <1>3, <1>5 DEF Offsets
    <3>2. off[i - 1] = 6 * (i - 1)
      BY <2>2
    <3> QED
      BY <3>1, <3>2
  <2> HIDE DEF G
  <2>3. \A i \in 0..n : i \in G
    BY <2>1, <2>2, Climb
  <2> QED
    BY <2>3 DEF G
<1>7. Len(s) = 6 * n
  BY <1>2, <1>5, <1>6 DEF Offsets
<1>8. ASSUME NEW i \in 1..n, NEW j \in 1..6
      PROVE  s[6 * (i - 1) + j] = Entry[j]
  <2>1. s[off[i - 1] + j] = ss[i][j]
    BY <1>2, <1>3, <1>5 DEF Offsets
  <2>2. off[i - 1] = 6 * (i - 1) /\ ss[i] = Entry
    BY <1>1, <1>6
  <2> QED
    BY <2>1, <2>2
<1> QED
  BY <1>4, <1>7, <1>8 DEF s, ss

LEMMA OneAndThree ==
  ASSUME NEW x, NEW t, NEW v, NEW z
  PROVE  (<<x>> \o <<>>) \o <<t, v, z>> = <<x, t, v, z>>
<1> DEFINE o == <<x>>
           e == <<t, v, z>>
           f == <<x, t, v, z>>
           g == o \o e
<1>1. /\ IsSeq(o) /\ Len(o) = 1 /\ o[1] = x
      /\ IsSeq(e) /\ Len(e) = 3 /\ e[1] = t /\ e[2] = v /\ e[3] = z
      /\ IsSeq(f) /\ Len(f) = 4 /\ f[1] = x /\ f[2] = t /\ f[3] = v /\ f[4] = z
  BY TuplesAreSeqs
<1> HIDE DEF o, e, f
<1>2. o \o <<>> = o
  BY <1>1, ConcatEmptySeq DEF IsSeq
<1>3. /\ IsSeq(g) /\ Len(g) = Len(o) + Len(e)
      /\ \A i \in 1..Len(o) + Len(e) : g[i] = IF i <= Len(o) THEN o[i] ELSE e[i - Len(o)]
  BY <1>1, CatIs
<1> HIDE DEF g
<1>4. \A i \in 1..4 : i = 1 \/ i = 2 \/ i = 3 \/ i = 4
  OBVIOUS
<1>5. Len(g) = 4 /\ \A i \in 1..4 : g[i] = f[i]
  BY <1>1, <1>3, <1>4
<1>6. g = f
  BY <1>1, <1>3, <1>5, SameSeq
<1>7. (o \o <<>>) \o e = f
  BY <1>2, <1>6 DEF g
<1> QED
  BY <1>7 DEF o, e, f

LEMMA DumpIs ==
  ASSUME NEW n \in Nat
  PROVE  /\ IsSeq(Dump(n)) /\ Len(Dump(n)) = 14 + 6 * n
         /\ \A i \in 1..5 : Dump(n)[i] = Heading[i]
         /\ \A i \in 1..n : \A j \in 1..6 : Dump(n)[5 + 6 * (i - 1) + j] = Entry[j]
         /\ \A j \in 1..9 : Dump(n)[5 + 6 * n + j] = Ending[j]
<1> DEFINE es == [i \in 1 .. n |-> DbEntry]
           F == FlattenSeq(es)
           G == DictOf(es)
           y == PairOf("db", G)
           B == DictOf(<<y>>)
           x == PairOf("r", B)
           t == PairOf("t", <<Str(4, "tx")>>)
           v == PairOf("v", <<Str(4, "sp02")>>)
           z == PairOf("y", <<Key("r")>>)
           M == x \o t \o v \o z
           D == Wrapped(Dict, M)
           m == 6 * n
<1>0. m \in Nat /\ Dump(n) = DictOf(Message(<<x>>, <<>>, "r"))
  BY DEF Dump, Response, DumpDbResponse
<1>1. /\ IsSeq(F) /\ Len(F) = m
      /\ \A i \in 1..n : \A j \in 1..6 : F[6 * (i - 1) + j] = Entry[j]
  BY EntriesAre
<1>2. G = Wrapped(Dict, F)
  BY DEF DictOf, Wrapped
<1> HIDE DEF F, G
<1>3. /\ IsSeq(G) /\ Len(G) = m + 2 /\ G[1] = Dict /\ G[m + 2] = End
      /\ \A i \in 1..m : G[i + 1] = F[i]
  <2>1. /\ IsSeq(G) /\ Len(G) = Len(F) + 2 /\ G[1] = Dict /\ G[Len(F) + 2] = End
        /\ \A i \in 1..Len(F) : G[i + 1] = F[i]
    <3>1. IsSeq(F)
      BY <1>1
    <3> QED
      BY <1>2, <3>1, WrapIs
  <2> QED
    BY <1>1, <2>1
<1>4. /\ IsSeq(y) /\ Len(y) = m + 3 /\ y[1] = Key("db")
      /\ \A i \in 1..m + 2 : y[i + 1] = G[i]
  <2>1. /\ IsSeq(y) /\ Len(y) = Len(G) + 1 /\ y[1] = Key("db")
        /\ \A i \in 1..Len(G) : y[i + 1] = G[i]
    <3>1. IsSeq(G)
      BY <1>3
    <3> QED
      BY <3>1, KeyedIs
  <2> HIDE DEF y
  <2> QED
    BY <1>0, <1>3, <2>1
<1> HIDE DEF y
<1>5. B = Wrapped(Dict, y)
  BY <1>4, OneFlattened DEF DictOf, Wrapped
<1> HIDE DEF B
<1>6. /\ IsSeq(B) /\ Len(B) = m + 5 /\ B[1] = Dict /\ B[m + 5] = End
      /\ \A i \in 1..m + 3 : B[i + 1] = y[i]
  <2>1. /\ IsSeq(B) /\ Len(B) = Len(y) + 2 /\ B[1] = Dict /\ B[Len(y) + 2] = End
        /\ \A i \in 1..Len(y) : B[i + 1] = y[i]
    <3>1. IsSeq(y)
      BY <1>4
    <3> QED
      BY <1>5, <3>1, WrapIs
  <2>2. Len(y) + 2 = m + 5
    BY <1>0, <1>4
  <2> QED
    BY <1>4, <2>1, <2>2
<1>7. /\ IsSeq(x) /\ Len(x) = m + 6 /\ x[1] = Key("r")
      /\ \A i \in 1..m + 5 : x[i + 1] = B[i]
  <2>1. /\ IsSeq(x) /\ Len(x) = Len(B) + 1 /\ x[1] = Key("r")
        /\ \A i \in 1..Len(B) : x[i + 1] = B[i]
    <3>1. IsSeq(B)
      BY <1>6
    <3> QED
      BY <3>1, KeyedIs
  <2> HIDE DEF x
  <2> QED
    BY <1>0, <1>6, <2>1
<1> HIDE DEF x
<1>8. /\ IsSeq(t) /\ Len(t) = 2 /\ t[1] = Key("t") /\ t[2] = Str(4, "tx")
      /\ IsSeq(v) /\ Len(v) = 2 /\ v[1] = Key("v") /\ v[2] = Str(4, "sp02")
      /\ IsSeq(z) /\ Len(z) = 2 /\ z[1] = Key("y") /\ z[2] = Key("r")
  BY TwoCells, TuplesAreSeqs
<1>9. Message(<<x>>, <<>>, "r") = <<x, t, v, z>>
  <2>1. Message(<<x>>, <<>>, "r") = (<<x>> \o <<>>) \o <<t, v, z>>
    BY DEF Message
  <2> HIDE DEF t, v, z
  <2> QED
    BY <2>1, OneAndThree
<1> HIDE DEF t, v, z
<1>10. Dump(n) = D
  <2> DEFINE q == <<x, t, v, z>>
  <2>1. IsSeq(q) /\ Len(q) = 4 /\ q[1] = x /\ q[2] = t /\ q[3] = v /\ q[4] = z
    BY TuplesAreSeqs
  <2>2. Dump(n) = DictOf(q)
    BY <1>0, <1>9
  <2> HIDE DEF q
  <2>3. IsSeq(q[1]) /\ IsSeq(q[2]) /\ IsSeq(q[3]) /\ IsSeq(q[4])
    BY <1>7, <1>8, <2>1
  <2>4. FlattenSeq(q) = ((q[1] \o q[2]) \o q[3]) \o q[4]
    BY <2>1, <2>3, FourFlattened
  <2>5. FlattenSeq(q) = M
    BY <2>1, <2>4
  <2> HIDE DEF M
  <2> QED
    BY <2>2, <2>5 DEF DictOf, Wrapped
<1>11. /\ IsSeq(M) /\ Len(M) = m + 12 /\ \A i \in 1..m + 6 : M[i] = x[i]
       /\ M[m + 7] = Key("t") /\ M[m + 8] = Str(4, "tx") /\ M[m + 9] = Key("v")
       /\ M[m + 10] = Str(4, "sp02") /\ M[m + 11] = Key("y") /\ M[m + 12] = Key("r")
  <2> DEFINE a == x \o t
             b == a \o v
  <2>1. /\ IsSeq(a) /\ Len(a) = Len(x) + Len(t)
        /\ \A i \in 1..Len(x) + Len(t) : a[i] = IF i <= Len(x) THEN x[i] ELSE t[i - Len(x)]
    BY <1>7, <1>8, CatIs
  <2>2. M = b \o z
    OBVIOUS
  <2> HIDE DEF a, M
  <2>3. /\ IsSeq(b) /\ Len(b) = Len(a) + Len(v)
        /\ \A i \in 1..Len(a) + Len(v) : b[i] = IF i <= Len(a) THEN a[i] ELSE v[i - Len(a)]
    BY <1>8, <2>1, CatIs
  <2> HIDE DEF b
  <2>4. /\ IsSeq(M) /\ Len(M) = Len(b) + Len(z)
        /\ \A i \in 1..Len(b) + Len(z) : M[i] = IF i <= Len(b) THEN b[i] ELSE z[i - Len(b)]
    BY <1>8, <2>2, <2>3, CatIs
  <2>5. /\ Len(a) = m + 8 /\ \A i \in 1..m + 6 : a[i] = x[i]
        /\ a[m + 7] = Key("t") /\ a[m + 8] = Str(4, "tx")
    BY <1>0, <1>7, <1>8, <2>1
  <2>6. /\ Len(b) = m + 10 /\ \A i \in 1..m + 8 : b[i] = a[i]
        /\ b[m + 9] = Key("v") /\ b[m + 10] = Str(4, "sp02")
    BY <1>0, <1>8, <2>3, <2>5
  <2>7. /\ Len(M) = m + 12 /\ \A i \in 1..m + 10 : M[i] = b[i]
        /\ M[m + 11] = Key("y") /\ M[m + 12] = Key("r")
    BY <1>0, <1>8, <2>4, <2>6
  <2>8. \A i \in 1..m + 6 : M[i] = x[i]
    <3>1. \A i \in 1..m + 6 : i \in 1..m + 8 /\ i \in 1..m + 10
      BY <1>0
    <3> QED
      BY <2>5, <2>6, <2>7, <3>1
  <2>9. M[m + 7] = Key("t") /\ M[m + 8] = Str(4, "tx")
    <3>1. m + 7 \in 1..m + 8 /\ m + 7 \in 1..m + 10 /\ m + 8 \in 1..m + 8 /\ m + 8 \in 1..m + 10
      BY <1>0
    <3> QED
      BY <2>5, <2>6, <2>7, <3>1
  <2>10. M[m + 9] = Key("v") /\ M[m + 10] = Str(4, "sp02")
    <3>1. m + 9 \in 1..m + 10 /\ m + 10 \in 1..m + 10
      BY <1>0
    <3> QED
      BY <2>6, <2>7, <3>1
  <2> QED
    BY <2>4, <2>7, <2>8, <2>9, <2>10
<1> HIDE DEF M
<1>12. /\ IsSeq(D) /\ Len(D) = m + 14 /\ D[1] = Dict /\ D[m + 14] = End
       /\ \A i \in 1..m + 12 : D[i + 1] = M[i]
  <2>1. /\ IsSeq(D) /\ Len(D) = Len(M) + 2 /\ D[1] = Dict /\ D[Len(M) + 2] = End
        /\ \A i \in 1..Len(M) : D[i + 1] = M[i]
    <3>1. IsSeq(M)
      BY <1>11
    <3> QED
      BY <3>1, WrapIs
  <2> HIDE DEF D
  <2>2. Len(M) + 2 = m + 14
    BY <1>0, <1>11
  <2> QED
    BY <1>11, <2>1, <2>2
<1> HIDE DEF D
<1>13. /\ D[2] = x[1] /\ \A i \in 1..m + 5 : D[i + 2] = B[i]
  <2>1. \A i \in 1..m + 6 : D[i + 1] = x[i]
    BY <1>0, <1>11, <1>12
  <2>2. ASSUME NEW i \in 1..m + 5 PROVE D[i + 2] = B[i]
    <3>1. i + 1 \in 1..m + 6 /\ (i + 1) + 1 = i + 2
      BY <1>0
    <3>2. D[(i + 1) + 1] = x[i + 1]
      BY <2>1, <3>1
    <3> QED
      BY <1>7, <3>1, <3>2
  <2>3. 1 \in 1..m + 6 /\ 1 + 1 = 2
    BY <1>0
  <2> QED
    BY <2>1, <2>2, <2>3
<1>14. /\ D[3] = Dict /\ D[m + 7] = End /\ \A i \in 1..m + 3 : D[i + 3] = y[i]
  <2>1. ASSUME NEW i \in 1..m + 3 PROVE D[i + 3] = y[i]
    <3>1. i + 1 \in 1..m + 5 /\ (i + 1) + 2 = i + 3
      BY <1>0
    <3>2. D[(i + 1) + 2] = B[i + 1]
      BY <1>13, <3>1
    <3> QED
      BY <1>6, <3>1, <3>2
  <2>2. 1 \in 1..m + 5 /\ 1 + 2 = 3 /\ m + 5 \in 1..m + 5 /\ (m + 5) + 2 = m + 7
    BY <1>0
  <2>3. D[1 + 2] = B[1] /\ D[(m + 5) + 2] = B[m + 5]
    BY <1>13, <2>2
  <2> QED
    BY <1>6, <2>1, <2>2, <2>3
<1>15. /\ D[4] = Key("db") /\ \A i \in 1..m + 2 : D[i + 4] = G[i]
  <2>1. ASSUME NEW i \in 1..m + 2 PROVE D[i + 4] = G[i]
    <3>1. i + 1 \in 1..m + 3 /\ (i + 1) + 3 = i + 4
      BY <1>0
    <3>2. D[(i + 1) + 3] = y[i + 1]
      BY <1>14, <3>1
    <3> QED
      BY <1>4, <3>1, <3>2
  <2>2. 1 \in 1..m + 3 /\ 1 + 3 = 4
    BY <1>0
  <2> QED
    BY <1>4, <1>14, <2>1, <2>2
<1>16. /\ D[5] = Dict /\ D[m + 6] = End /\ \A i \in 1..m : D[i + 5] = F[i]
  <2>1. ASSUME NEW i \in 1..m PROVE D[i + 5] = F[i]
    <3>1. i + 1 \in 1..m + 2 /\ (i + 1) + 4 = i + 5
      BY <1>0
    <3>2. D[(i + 1) + 4] = G[i + 1]
      BY <1>15, <3>1
    <3> QED
      BY <1>3, <3>1, <3>2
  <2>2. 1 \in 1..m + 2 /\ 1 + 4 = 5 /\ m + 2 \in 1..m + 2 /\ (m + 2) + 4 = m + 6
    BY <1>0
  <2>3. D[1 + 4] = G[1] /\ D[(m + 2) + 4] = G[m + 2]
    BY <1>15, <2>2
  <2> QED
    BY <1>3, <2>1, <2>2, <2>3
<1>17. /\ D[m + 8] = Key("t") /\ D[m + 9] = Str(4, "tx") /\ D[m + 10] = Key("v")
       /\ D[m + 11] = Str(4, "sp02") /\ D[m + 12] = Key("y") /\ D[m + 13] = Key("r")
  <2>1. \A k \in 7..12 : D[(m + k) + 1] = M[m + k]
    BY <1>0, <1>12
  <2>2. \A k \in 7..12 : (m + k) + 1 = m + (k + 1)
    BY <1>0
  <2>3. \A k \in 7..12 : D[m + (k + 1)] = M[m + k]
    BY <2>1, <2>2
  <2> QED
    BY <1>11, <2>3
<1>18. \A i \in 1..5 : D[i] = Heading[i]
  <2>1. \A i \in 1..5 : i = 1 \/ i = 2 \/ i = 3 \/ i = 4 \/ i = 5
    OBVIOUS
  <2>2. /\ Heading[1] = Dict /\ Heading[2] = Key("r") /\ Heading[3] = Dict
        /\ Heading[4] = Key("db") /\ Heading[5] = Dict
    BY DEF Heading
  <2> QED
    BY <1>7, <1>12, <1>13, <1>14, <1>15, <1>16, <2>1, <2>2
<1>19. ASSUME NEW i \in 1..n, NEW j \in 1..6
       PROVE  D[5 + 6 * (i - 1) + j] = Entry[j]
  <2> DEFINE k == 6 * (i - 1) + j
  <2>1. k \in 1..m /\ 5 + 6 * (i - 1) + j = k + 5
    OBVIOUS
  <2>2. F[k] = Entry[j]
    BY <1>1
  <2> HIDE DEF k
  <2> QED
    BY <1>16, <2>1, <2>2
<1>20. ASSUME NEW j \in 1..9
       PROVE  D[5 + 6 * n + j] = Ending[j]
  <2>1. j = 1 \/ j = 2 \/ j = 3 \/ j = 4 \/ j = 5 \/ j = 6 \/ j = 7 \/ j = 8 \/ j = 9
    OBVIOUS
  <2>2. /\ Ending[1] = End /\ Ending[2] = End /\ Ending[3] = Key("t")
        /\ Ending[4] = Str(4, "tx") /\ Ending[5] = Key("v") /\ Ending[6] = Str(4, "sp02")
        /\ Ending[7] = Key("y") /\ Ending[8] = Key("r") /\ Ending[9] = End
    BY DEF Ending
  <2>3. 5 + 6 * n + j = m + (5 + j)
    OBVIOUS
  <2> HIDE DEF m
  <2>4. D[m + (5 + j)] = Ending[j]
    BY <1>12, <1>14, <1>16, <1>17, <2>1, <2>2
  <2> QED
    BY <2>3, <2>4
<1>21. m + 14 = 14 + 6 * n
  OBVIOUS
<1> QED
  BY <1>10, <1>12, <1>18, <1>19, <1>20, <1>21

LEMMA TurnsAre ==
  /\ Turn(Dict) = 1 /\ Turn(End) = -1
  /\ \A k : Turn(Key(k)) = 0
  /\ \A v : Turn(Text(v)) = 0
  /\ \A l, v : Turn(Str(l, v)) = 0
  /\ \A i : Turn(Integer(i)) = 0
BY DEF Turn, Opens, Dict, List, End, Key, Text, Str, Integer

(* Three are open where an infohash begins, and nowhere else. *)
LEMMA DumpDepth ==
  ASSUME NEW n \in Nat
  PROVE  /\ \A m \in 0..n : Depth(Dump(n), 1, 5 + 6 * m) = 3
         /\ \A k \in 0..14 + 6 * n :
              /\ Depth(Dump(n), 1, k) <= 4
              /\ Depth(Dump(n), 1, k) = 3 => \E m \in 0..n : k = 5 + 6 * m
<1> DEFINE w == Dump(n)
           D(k) == Depth(w, 1, k)
<1>1. \A k \in Nat : D(k) \in Int /\ D(k + 1) = D(k) + Turn(w[k + 1])
  <2> SUFFICES ASSUME NEW k \in Nat
               PROVE  D(k) \in Int /\ D(k + 1) = D(k) + Turn(w[k + 1])
    OBVIOUS
  <2>1. k \in Int /\ k >= 1 - 1
    OBVIOUS
  <2> HIDE DEF w
  <2> QED
    BY <2>1, DepthStep
<1>2. D(0) = 0
  <2>1. Depth(w, 1, 1 - 1) = 0
    BY DepthOfNone
  <2> QED
    BY <2>1
<1>3. /\ \A i \in 1..5 : w[i] = Heading[i]
      /\ \A i \in 1..n : \A j \in 1..6 : w[5 + 6 * (i - 1) + j] = Entry[j]
      /\ \A j \in 1..9 : w[5 + 6 * n + j] = Ending[j]
  BY DumpIs
<1> HIDE DEF w, D
<1>4. D(1) = 1 /\ D(2) = 1 /\ D(3) = 2 /\ D(4) = 2 /\ D(5) = 3
  <2>1. /\ Turn(w[1]) = 1 /\ Turn(w[2]) = 0 /\ Turn(w[3]) = 1 /\ Turn(w[4]) = 0
        /\ Turn(w[5]) = 1
    <3>1. /\ Turn(Heading[1]) = 1 /\ Turn(Heading[2]) = 0 /\ Turn(Heading[3]) = 1
          /\ Turn(Heading[4]) = 0 /\ Turn(Heading[5]) = 1
      BY TurnsAre DEF Heading
    <3> QED
      BY <1>3, <3>1
  <2>2. /\ D(0 + 1) = D(0) + Turn(w[0 + 1]) /\ D(1 + 1) = D(1) + Turn(w[1 + 1])
        /\ D(2 + 1) = D(2) + Turn(w[2 + 1]) /\ D(3 + 1) = D(3) + Turn(w[3 + 1])
        /\ D(4 + 1) = D(4) + Turn(w[4 + 1])
    BY <1>1
  <2> QED
    BY <1>2, <2>1, <2>2
<1>5. /\ Turn(Entry[1]) = 1 /\ Turn(Entry[2]) = 0 /\ Turn(Entry[3]) = 0 /\ Turn(Entry[4]) = 0
      /\ Turn(Entry[5]) = 0 /\ Turn(Entry[6]) = -1
  BY TurnsAre DEF Entry
<1>6. ASSUME NEW i \in 1..n, D(5 + 6 * (i - 1)) = 3
      PROVE  (\A j \in 1..5 : D(5 + 6 * (i - 1) + j) = 4) /\ D(5 + 6 * i) = 3
  <2> DEFINE p == 5 + 6 * (i - 1)
  <2>1. p \in Nat /\ p + 6 = 5 + 6 * i
    OBVIOUS
  <2>2. \A j \in 1..6 : w[p + j] = Entry[j]
    BY <1>3
  <2>3. D(p) = 3
    BY <1>6
  <2> HIDE DEF p
  <2>4. \A j \in 0..5 : D(p + (j + 1)) = D(p + j) + Turn(Entry[j + 1])
    <3> SUFFICES ASSUME NEW j \in 0..5
                 PROVE  D(p + (j + 1)) = D(p + j) + Turn(Entry[j + 1])
      OBVIOUS
    <3>1. p + j \in Nat /\ (p + j) + 1 = p + (j + 1) /\ j + 1 \in 1..6
      BY <2>1
    <3>2. D((p + j) + 1) = D(p + j) + Turn(w[(p + j) + 1])
      BY <1>1, <3>1
    <3> QED
      BY <2>2, <3>1, <3>2
  <2>5. p + 0 = p
    BY <2>1
  <2>6. /\ D(p + 1) = 4 /\ D(p + 2) = 4 /\ D(p + 3) = 4 /\ D(p + 4) = 4 /\ D(p + 5) = 4
        /\ D(p + 6) = 3
    <3>1. /\ D(p + (0 + 1)) = D(p + 0) + Turn(Entry[0 + 1])
          /\ D(p + (1 + 1)) = D(p + 1) + Turn(Entry[1 + 1])
          /\ D(p + (2 + 1)) = D(p + 2) + Turn(Entry[2 + 1])
          /\ D(p + (3 + 1)) = D(p + 3) + Turn(Entry[3 + 1])
          /\ D(p + (4 + 1)) = D(p + 4) + Turn(Entry[4 + 1])
          /\ D(p + (5 + 1)) = D(p + 5) + Turn(Entry[5 + 1])
      BY <2>4
    <3> QED
      BY <1>5, <2>3, <2>5, <3>1
  <2>7. \A j \in 1..5 : j = 1 \/ j = 2 \/ j = 3 \/ j = 4 \/ j = 5
    OBVIOUS
  <2>8. \A j \in 1..5 : D(p + j) = 4
    BY <2>6, <2>7
  <2>9. D(5 + 6 * i) = 3
    BY <2>1, <2>6
  <2> QED
    BY <2>8, <2>9 DEF p
<1>7. \A m \in 0..n : D(5 + 6 * m) = 3
  <2> DEFINE G == {m \in 0..n : D(5 + 6 * m) = 3}
  <2>1. 0 \in G
    BY <1>4
  <2>2. ASSUME NEW i \in 1..n, i - 1 \in G
        PROVE  i \in G
    BY <1>6, <2>2
  <2> HIDE DEF G
  <2>3. \A i \in 0..n : i \in G
    BY <2>1, <2>2, Climb
  <2> QED
    BY <2>3 DEF G
<1>8. \A i \in 1..n : \A j \in 1..5 : D(5 + 6 * (i - 1) + j) = 4
  <2>1. \A i \in 1..n : i - 1 \in 0..n
    OBVIOUS
  <2> QED
    BY <1>6, <1>7, <2>1
<1> DEFINE p == 5 + 6 * n
<1>9. D(p + 1) = 2 /\ (\A j \in 2..8 : D(p + j) = 1) /\ D(p + 9) = 0
  <2>1. p \in Nat /\ D(p) = 3 /\ \A j \in 1..9 : w[p + j] = Ending[j]
    BY <1>3, <1>7
  <2>2. /\ Turn(Ending[1]) = -1 /\ Turn(Ending[2]) = -1 /\ Turn(Ending[3]) = 0
        /\ Turn(Ending[4]) = 0 /\ Turn(Ending[5]) = 0 /\ Turn(Ending[6]) = 0
        /\ Turn(Ending[7]) = 0 /\ Turn(Ending[8]) = 0 /\ Turn(Ending[9]) = -1
    BY TurnsAre DEF Ending
  <2> HIDE DEF p
  <2>3. \A j \in 0..8 : D(p + (j + 1)) = D(p + j) + Turn(Ending[j + 1])
    <3> SUFFICES ASSUME NEW j \in 0..8
                 PROVE  D(p + (j + 1)) = D(p + j) + Turn(Ending[j + 1])
      OBVIOUS
    <3>1. p + j \in Nat /\ (p + j) + 1 = p + (j + 1) /\ j + 1 \in 1..9
      BY <2>1
    <3>2. D((p + j) + 1) = D(p + j) + Turn(w[(p + j) + 1])
      BY <1>1, <3>1
    <3> QED
      BY <2>1, <3>1, <3>2
  <2>4. p + 0 = p
    BY <2>1
  <2>5. /\ D(p + 1) = 2 /\ D(p + 2) = 1 /\ D(p + 3) = 1 /\ D(p + 4) = 1 /\ D(p + 5) = 1
        /\ D(p + 6) = 1 /\ D(p + 7) = 1 /\ D(p + 8) = 1 /\ D(p + 9) = 0
    <3>1. /\ D(p + (0 + 1)) = D(p + 0) + Turn(Ending[0 + 1])
          /\ D(p + (1 + 1)) = D(p + 1) + Turn(Ending[1 + 1])
          /\ D(p + (2 + 1)) = D(p + 2) + Turn(Ending[2 + 1])
          /\ D(p + (3 + 1)) = D(p + 3) + Turn(Ending[3 + 1])
          /\ D(p + (4 + 1)) = D(p + 4) + Turn(Ending[4 + 1])
          /\ D(p + (5 + 1)) = D(p + 5) + Turn(Ending[5 + 1])
          /\ D(p + (6 + 1)) = D(p + 6) + Turn(Ending[6 + 1])
          /\ D(p + (7 + 1)) = D(p + 7) + Turn(Ending[7 + 1])
          /\ D(p + (8 + 1)) = D(p + 8) + Turn(Ending[8 + 1])
      BY <2>3
    <3> QED
      BY <2>1, <2>2, <2>4, <3>1
  <2>6. \A j \in 2..8 : j = 2 \/ j = 3 \/ j = 4 \/ j = 5 \/ j = 6 \/ j = 7 \/ j = 8
    OBVIOUS
  <2> QED
    BY <2>5, <2>6
<1>10. ASSUME NEW k \in 0..14 + 6 * n
       PROVE  D(k) <= 4 /\ (D(k) = 3 => \E m \in 0..n : k = 5 + 6 * m)
  <2>1. CASE k < 5
    <3>1. k = 0 \/ k = 1 \/ k = 2 \/ k = 3 \/ k = 4
      BY <2>1
    <3> QED
      BY <1>2, <1>4, <3>1
  <2>2. CASE 5 <= k /\ k <= 5 + 6 * n
    <3> DEFINE m == (k - 5) \div 6
               j == (k - 5) % 6
    <3>1. m \in 0..n /\ j \in 0..5 /\ k = 5 + 6 * m + j
      BY <2>2
    <3> HIDE DEF m, j
    <3>2. CASE j = 0
      <4>1. k = 5 + 6 * m
        BY <3>1, <3>2
      <4>2. D(k) = 3
        BY <1>7, <3>1, <4>1
      <4> QED
        BY <3>1, <4>1, <4>2
    <3>3. CASE j # 0
      <4>1. m + 1 \in 1..n /\ j \in 1..5 /\ (m + 1) - 1 = m
        BY <2>2, <3>1, <3>3
      <4>2. D(5 + 6 * ((m + 1) - 1) + j) = 4
        BY <1>8, <4>1
      <4> QED
        BY <3>1, <4>1, <4>2
    <3> QED
      BY <3>2, <3>3
  <2>3. CASE k > 5 + 6 * n
    <3> DEFINE j == k - p
    <3>1. j \in 1..9 /\ k = p + j
      BY <2>3
    <3> HIDE DEF j, p
    <3>2. j = 1 \/ j \in 2..8 \/ j = 9
      BY <3>1
    <3>3. D(k) \in {0, 1, 2}
      BY <1>9, <3>1, <3>2
    <3> QED
      BY <3>3
  <2> QED
    BY <2>1, <2>2, <2>3
<1> QED
  BY <1>7, <1>10 DEF D, w

-----------------------------------------------------------------------------
(* What the writers do to sequences. *)

LEMMA AppendIs ==
  ASSUME NEW s, IsSeq(s), NEW x
  PROVE  /\ IsSeq(Append(s, x)) /\ Len(Append(s, x)) = Len(s) + 1
         /\ \A i \in 1..Len(s) : Append(s, x)[i] = s[i]
         /\ Append(s, x)[Len(s) + 1] = x
<1> DEFINE S == Range(s) \cup {x}
<1>1. s \in Seq(S) /\ x \in S
  <2>1. Range(s) \subseteq S
    OBVIOUS
  <2> HIDE DEF S
  <2>2. s \in Seq(S)
    BY <2>1, SeqMonotonic DEF IsSeq
  <2> QED
    BY <2>2 DEF S
<1> HIDE DEF S
<1>2. /\ Append(s, x) \in Seq(S) /\ Len(Append(s, x)) = Len(s) + 1
      /\ \A i \in 1..Len(s) : Append(s, x)[i] = s[i]
      /\ Append(s, x)[Len(s) + 1] = x
  BY <1>1, AppendProperties
<1>3. IsSeq(Append(s, x))
  BY <1>2, SeqIsSeq
<1> QED
  BY <1>2, <1>3

LEMMA TailIs ==
  ASSUME NEW s, IsSeq(s), s # <<>>
  PROVE  /\ Len(s) \in Nat /\ Len(s) > 0 /\ Head(s) = s[1]
         /\ IsSeq(Tail(s)) /\ Len(Tail(s)) = Len(s) - 1
         /\ \A i \in 1..Len(s) - 1 : Tail(s)[i] = s[i + 1]
<1>1. /\ Tail(s) \in Seq(Range(s)) /\ Len(Tail(s)) = Len(s) - 1
      /\ \A i \in 1..Len(Tail(s)) : Tail(s)[i] = s[i + 1]
  BY HeadTailProperties DEF IsSeq
<1>2. Len(s) \in Nat \ {0}
  BY EmptySeq DEF IsSeq
<1>3. Head(s) = s[1]
  OBVIOUS
<1>4. IsSeq(Tail(s))
  BY <1>1, SeqIsSeq
<1>5. Len(s) \in Nat /\ Len(s) > 0
  BY <1>2
<1> QED
  BY <1>1, <1>3, <1>4, <1>5

LEMMA FrontIs ==
  ASSUME NEW s, IsSeq(s), s # <<>>
  PROVE  /\ IsSeq(Front(s)) /\ Len(Front(s)) = Len(s) - 1
         /\ \A i \in 1..Len(s) - 1 : Front(s)[i] = s[i]
<1>1. Len(s) \in Nat /\ Len(s) > 0
  BY TailIs
<1> DEFINE n == Len(s) - 1
<1>2. n \in Nat /\ n <= Len(s) /\ 1 <= 1
  BY <1>1
<1>3. Front(s) = SubSeq(s, 1, n)
  BY DEF Front
<1> DEFINE f == SubSeq(s, 1, n)
<1>4. /\ IsSeq(f) /\ Len(f) = (IF 1 <= n THEN n - 1 + 1 ELSE 0)
      /\ \A i \in 1 .. n - 1 + 1 : f[i] = s[1 + i - 1]
  <2> HIDE DEF n
  <2> QED
    BY <1>2, SubSeqIs
<1> HIDE DEF f, n
<1>5. n - 1 + 1 = n /\ (1 <= n \/ n = 0)
  BY <1>2
<1>6. Len(f) = n
  BY <1>4, <1>5
<1>7. \A i \in 1..n : 1 + i - 1 = i
  BY <1>2
<1>8. \A i \in 1..n : f[i] = s[i]
  BY <1>4, <1>5, <1>7
<1> QED
  BY <1>3, <1>4, <1>6, <1>8 DEF f, n

LEMMA NoCells ==
  ASSUME NEW s, IsSeq(s)
  PROVE  s = <<>> <=> Len(s) = 0
BY TailIs, TuplesAreSeqs

-----------------------------------------------------------------------------
(* The inductive invariant of the writers.                                 *)

(* w is what has been written and what is still to be written. *)
Divided(w) ==
  /\ IsSeq(out) /\ IsSeq(todo) /\ Len(w) = Len(out) + Len(todo)
  /\ \A i \in 1..Len(out) : out[i] = w[i]
  /\ \A i \in 1..Len(todo) : todo[i] = w[Len(out) + i]

(* The outermost of those that are open began with the reply. *)
Framing == IsSeq(frames) /\ (frames # <<>> => frames[1] = 0)

(* The fourth that is open in a reply to sp_dump_db is an infohash. *)
Listed(w) ==
  Len(frames) = 4 =>
    \E n \in 0..DbEntries : \E m \in 0..n :
      w = Dump(n) /\ frames[4] = 5 + 6 * m /\ frames[4] <= Len(out)

Writing(w) ==
  /\ w \in WholeReplies \cup {<<>>}
  /\ Divided(w) /\ Framing /\ Len(frames) = Depth(w, 1, Len(out))
  /\ acted = "sp_dump_db" => Listed(w)

(* The reply begins with m infohashes. *)
Holds(n, m) ==
  /\ IsSeq(out) /\ 5 + 6 * m <= Len(out)
  /\ \A i \in 1..5 + 6 * m : out[i] = Dump(n)[i]

GivingUp ==
  /\ Framing /\ (frames = <<>> => out = <<>>)
  /\ acted = "sp_dump_db" =>
       /\ Len(frames) <= 4
       /\ Len(frames) >= 3 =>
            \E n \in 0..DbEntries : \E m \in 0..n :
              Holds(n, m) /\ (IF Len(frames) = 3 THEN Len(out) ELSE frames[4]) = 5 + 6 * m

WritersInv ==
  /\ phase = "writing" => \E w : Writing(w)
  /\ phase = "giving up" => GivingUp
  /\ ReplyWhole

(* What a writer of the reply stands in front of. *)
LEMMA InReply ==
  ASSUME KrpcAssumption, NEW w, Writing(w), todo # <<>>
  PROVE  LET k == Len(out)
         IN  /\ w \in WholeReplies /\ Encloses(Dict, w) /\ Len(w) \in Nat
             /\ k \in Nat /\ k < Len(w) /\ Head(todo) = w[k + 1]
             /\ (frames = <<>> => k = 0) /\ (k = 0 => w[k + 1] = Dict)
             /\ Len(frames) \in Nat
             /\ Depth(w, 1, k + 1) = Len(frames) + Turn(w[k + 1])
             /\ (k + 1 < Len(w) => Depth(w, 1, k + 1) >= 1)
             /\ (k + 1 = Len(w) => Depth(w, 1, k + 1) = 0)
<1> DEFINE k == Len(out)
<1>1. /\ IsSeq(out) /\ IsSeq(todo) /\ Len(w) = k + Len(todo)
      /\ \A i \in 1..Len(todo) : todo[i] = w[k + i]
  BY DEF Writing, Divided
<1>2. k \in Nat /\ Len(todo) \in Nat /\ Len(todo) > 0 /\ Head(todo) = todo[1]
  BY <1>1, SeqIs, TailIs
<1>3. Len(w) \in Nat /\ k < Len(w) /\ Head(todo) = w[k + 1]
  BY <1>1, <1>2
<1>4. w \in WholeReplies
  <2>1. w # <<>>
    BY <1>2, <1>3, TuplesAreSeqs
  <2> QED
    BY <2>1 DEF Writing
<1>5. Encloses(Dict, w)
  BY <1>4, RepliesEnclosed DEF WholeReplies
<1>6. /\ w[1] = Dict /\ Depth(w, 1, Len(w)) = 0
      /\ \A n \in 1..Len(w) - 1 : Depth(w, 1, n) >= 1
  BY <1>5 DEF Encloses
<1>7. IsSeq(frames) /\ Len(frames) = Depth(w, 1, k) /\ Len(frames) \in Nat
  BY SeqIs DEF Writing, Framing
<1> HIDE DEF k
<1>8. Depth(w, 1, k + 1) = Depth(w, 1, k) + Turn(w[k + 1])
  <2>1. k \in Int /\ k >= 1 - 1
    BY <1>2
  <2> QED
    BY <2>1, DepthStep
<1>9. frames = <<>> => k = 0
  <2> SUFFICES ASSUME frames = <<>>, k # 0 PROVE FALSE
    OBVIOUS
  <2>1. Depth(w, 1, k) = 0
    BY <1>7, NoCells
  <2>2. k \in 1..Len(w) - 1
    BY <1>2, <1>3
  <2>3. Depth(w, 1, k) >= 1
    BY <1>6, <2>2
  <2> QED
    BY <2>1, <2>3
<1>10. k = 0 => w[k + 1] = Dict
  BY <1>6
<1>11. k + 1 < Len(w) => Depth(w, 1, k + 1) >= 1
  <2> SUFFICES ASSUME k + 1 < Len(w) PROVE Depth(w, 1, k + 1) >= 1
    OBVIOUS
  <2>1. k + 1 \in 1..Len(w) - 1
    BY <1>2, <1>3
  <2> QED
    BY <1>6, <2>1
<1>12. k + 1 = Len(w) => Depth(w, 1, k + 1) = 0
  BY <1>6
<1> QED
  BY <1>2, <1>3, <1>4, <1>5, <1>7, <1>8, <1>9, <1>10, <1>11, <1>12 DEF k

(* A reply to sp_dump_db lists some of the infohashes. *)
LEMMA IsDump ==
  ASSUME acted = "sp_dump_db", NEW w \in WholeReplies
  PROVE  \E n \in 0..DbEntries : w = Dump(n)
<1>1. WholeReplies = { DictOf(Response(DumpDbResponse(n))) : n \in 0 .. DbEntries }
  BY DEF WholeReplies
<1> QED
  BY <1>1 DEF Dump

LEMMA WriteCellStep ==
  ASSUME KrpcAssumption, NEW w, Writing(w), WriteCell
  PROVE  Writing(w)'
<1> DEFINE k == Len(out)
           c == w[k + 1]
<1>1. /\ todo # <<>> /\ out' = Append(out, Head(todo)) /\ todo' = Tail(todo)
      /\ frames' = IF Opens(Head(todo)) THEN Append(frames, Len(out))
                   ELSE IF Head(todo) = End THEN Front(frames) ELSE frames
      /\ acted' = acted /\ kind' = kind
  BY DEF WriteCell, received
<1>2. /\ w \in WholeReplies /\ Encloses(Dict, w) /\ Len(w) \in Nat
      /\ k \in Nat /\ k < Len(w) /\ Head(todo) = c
      /\ (frames = <<>> => k = 0) /\ (k = 0 => c = Dict)
      /\ Len(frames) \in Nat /\ Depth(w, 1, k + 1) = Len(frames) + Turn(c)
      /\ (k + 1 < Len(w) => Depth(w, 1, k + 1) >= 1)
      /\ (k + 1 = Len(w) => Depth(w, 1, k + 1) = 0)
  BY <1>1, InReply
<1>3. IsSeq(frames) /\ (frames # <<>> => frames[1] = 0) /\ Len(frames) \in Nat
  BY <1>2 DEF Writing, Framing
<1>4. WholeReplies' = WholeReplies
  BY <1>1 DEF WholeReplies
<1>5. /\ IsSeq(out) /\ IsSeq(todo) /\ Len(w) = Len(out) + Len(todo)
      /\ \A i \in 1..Len(out) : out[i] = w[i]
      /\ \A i \in 1..Len(todo) : todo[i] = w[Len(out) + i]
  BY DEF Writing, Divided
<1>6. /\ IsSeq(out') /\ Len(out') = k + 1 /\ out'[k + 1] = c
      /\ \A i \in 1..k : out'[i] = out[i]
  BY <1>1, <1>2, <1>5, AppendIs
<1>7. /\ IsSeq(todo') /\ Len(todo') = Len(todo) - 1 /\ Len(todo) \in Nat /\ Len(todo) > 0
      /\ \A i \in 1..Len(todo) - 1 : todo'[i] = todo[i + 1]
  BY <1>1, <1>5, TailIs
<1>8. Divided(w)'
  <2>1. Len(w) = Len(out') + Len(todo')
    BY <1>2, <1>5, <1>6, <1>7
  <2>2. \A i \in 1..Len(out') : out'[i] = w[i]
    BY <1>2, <1>5, <1>6
  <2>3. ASSUME NEW i \in 1..Len(todo')
        PROVE  todo'[i] = w[Len(out') + i]
    <3>1. i \in 1..Len(todo) - 1 /\ i + 1 \in 1..Len(todo) /\ k + (i + 1) = (k + 1) + i
      BY <1>2, <1>7
    <3>2. todo'[i] = todo[i + 1] /\ todo[i + 1] = w[k + (i + 1)]
      BY <1>5, <1>7, <3>1
    <3> QED
      BY <1>6, <3>1, <3>2
  <2> QED
    BY <1>6, <1>7, <2>1, <2>2, <2>3 DEF Divided
<1>9. acted = "sp_dump_db" =>
        \E n \in 0..DbEntries :
          w = Dump(n) /\ Len(frames) + Turn(c) <= 4
          /\ (Len(frames) = 3 => \E m \in 0..n : k = 5 + 6 * m)
  <2> SUFFICES ASSUME acted = "sp_dump_db"
               PROVE  \E n \in 0..DbEntries :
                        w = Dump(n) /\ Len(frames) + Turn(c) <= 4
                        /\ (Len(frames) = 3 => \E m \in 0..n : k = 5 + 6 * m)
    OBVIOUS
  <2>1. PICK n \in 0..DbEntries : w = Dump(n)
    BY <1>2, IsDump
  <2>2. n \in Nat
    BY DEF KrpcAssumption
  <2>3. Len(w) = 14 + 6 * n
    BY <2>1, <2>2, DumpIs
  <2>4. k \in 0..14 + 6 * n /\ k + 1 \in 0..14 + 6 * n
    BY <1>2, <2>2, <2>3
  <2>5. /\ Depth(w, 1, k + 1) <= 4
        /\ Depth(w, 1, k) = 3 => \E m \in 0..n : k = 5 + 6 * m
    BY <2>1, <2>2, <2>4, DumpDepth
  <2>6. Depth(w, 1, k) = Len(frames)
    BY DEF Writing
  <2> QED
    BY <1>2, <2>1, <2>5, <2>6
<1>10. acted = "sp_dump_db" /\ Len(frames) = 4 =>
         \E n \in 0..DbEntries : \E m \in 0..n :
           w = Dump(n) /\ frames[4] = 5 + 6 * m /\ frames[4] <= k
  BY DEF Writing, Listed
<1>11. Framing' /\ Len(frames') = Depth(w, 1, Len(out')) /\ (acted' = "sp_dump_db" => Listed(w)')
  <2> HIDE DEF k, c
  <2>1. CASE Opens(c)
    <3>1. frames' = Append(frames, k)
      BY <1>1, <1>2, <2>1 DEF k
    <3>2. /\ IsSeq(frames') /\ Len(frames') = Len(frames) + 1
          /\ \A i \in 1..Len(frames) : frames'[i] = frames[i]
          /\ frames'[Len(frames) + 1] = k
      BY <1>3, <3>1, AppendIs
    <3>3. Turn(c) = 1
      BY <2>1 DEF Turn
    <3>4. frames'[1] = 0
      <4>1. CASE frames = <<>>
        BY <1>2, <3>2, <4>1, TuplesAreSeqs
      <4>2. CASE frames # <<>>
        <5>1. 1 \in 1..Len(frames)
          BY <1>2, <1>3, <4>2, NoCells
        <5> QED
          BY <1>3, <3>2, <4>2, <5>1
      <4> QED
        BY <4>1, <4>2
    <3>5. acted' = "sp_dump_db" => Listed(w)'
      <4> SUFFICES ASSUME acted = "sp_dump_db", Len(frames') = 4
                   PROVE  \E n \in 0..DbEntries : \E m \in 0..n :
                            w = Dump(n) /\ frames'[4] = 5 + 6 * m /\ frames'[4] <= Len(out')
        BY <1>1 DEF Listed, Dump
      <4>1. Len(frames) = 3 /\ Len(frames) + 1 = 4
        <5> DEFINE l == Len(frames)
        <5>1. 4 = l + 1 /\ l \in Nat
          BY <1>3, <3>2
        <5> HIDE DEF l
        <5>2. l = 3 /\ l + 1 = 4
          BY <5>1
        <5> QED
          BY <5>2 DEF l
      <4>2. frames'[4] = k /\ k <= Len(out')
        BY <1>2, <1>6, <3>2, <4>1
      <4> QED
        BY <1>9, <4>1, <4>2
    <3> QED
      BY <1>2, <1>6, <3>2, <3>3, <3>4, <3>5 DEF Framing
  <2>2. CASE c = End
    <3>1. ~ Opens(c) /\ Turn(c) = -1 /\ c # Dict
      BY <2>2 DEF Turn, Opens, Dict, List, End
    <3>2. frames' = Front(frames) /\ frames # <<>>
      BY <1>1, <1>2, <2>2, <3>1
    <3>3. /\ IsSeq(frames') /\ Len(frames') = Len(frames) - 1
          /\ \A i \in 1..Len(frames) - 1 : frames'[i] = frames[i]
      BY <1>3, <3>2, FrontIs
    <3>4. frames' # <<>> => frames'[1] = 0
      <4> SUFFICES ASSUME frames' # <<>> PROVE frames'[1] = 0
        OBVIOUS
      <4>1. Len(frames') # 0
        BY <3>3, NoCells
      <4>2. 1 \in 1..Len(frames) - 1
        BY <1>2, <3>1, <3>3, <4>1, SeqIs
      <4> QED
        BY <1>3, <3>2, <3>3, <4>2
    <3>5. acted' = "sp_dump_db" => Listed(w)'
      <4>1. acted = "sp_dump_db" => Len(frames) <= 5
        BY <1>2, <1>9, <3>1
      <4>2. ASSUME acted = "sp_dump_db", Len(frames') = 4 PROVE FALSE
        <5>1. Len(frames) = 5
          <6> DEFINE l == Len(frames)
          <6>1. 4 = l - 1 /\ l \in Nat
            BY <1>3, <3>3, <4>2
          <6> HIDE DEF l
          <6>2. l = 5
            BY <6>1
          <6> QED
            BY <6>2 DEF l
        <5>2. Depth(w, 1, k) = 5
          BY <5>1 DEF Writing, k
        <5>3. PICK n \in 0..DbEntries : w = Dump(n)
          BY <1>2, <4>2, IsDump
        <5>4. n \in Nat
          BY DEF KrpcAssumption
        <5>5. k \in 0..14 + 6 * n
          <6>1. Len(w) = 14 + 6 * n
            BY <5>3, <5>4, DumpIs
          <6> QED
            BY <1>2, <5>4, <6>1
        <5>6. Depth(w, 1, k) <= 4
          BY <5>3, <5>4, <5>5, DumpDepth
        <5> QED
          BY <5>2, <5>6
      <4> QED
        BY <1>1, <4>2 DEF Listed
    <3> QED
      BY <1>2, <1>6, <3>1, <3>3, <3>4, <3>5 DEF Framing
  <2>3. CASE ~ Opens(c) /\ c # End
    <3>1. frames' = frames /\ Turn(c) = 0
      BY <1>1, <1>2, <2>3 DEF Turn
    <3>2. acted' = "sp_dump_db" => Listed(w)'
      <4> SUFFICES ASSUME acted = "sp_dump_db", Len(frames) = 4
                   PROVE  \E n \in 0..DbEntries : \E m \in 0..n :
                            w = Dump(n) /\ frames[4] = 5 + 6 * m /\ frames[4] <= Len(out')
        BY <1>1, <3>1 DEF Listed, Dump
      <4>1. PICK n \in 0..DbEntries : \E m \in 0..n :
              w = Dump(n) /\ frames[4] = 5 + 6 * m /\ frames[4] <= k
        BY <1>10
      <4>2. PICK m \in 0..n : w = Dump(n) /\ frames[4] = 5 + 6 * m /\ frames[4] <= k
        BY <4>1
      <4>3. n \in Nat /\ m \in Nat
        BY DEF KrpcAssumption
      <4>4. frames[4] <= Len(out')
        BY <1>2, <1>6, <4>2, <4>3
      <4> QED
        BY <4>2, <4>4
    <3>3. Framing'
      BY <1>3, <3>1 DEF Framing
    <3> QED
      BY <1>2, <1>6, <3>1, <3>2, <3>3
  <2> QED
    BY <2>1, <2>2, <2>3
<1> QED
  BY <1>2, <1>4, <1>8, <1>11 DEF Writing

(* The writer that gives up closes what it opened. *)
LEMMA PopStep ==
  ASSUME Framing, frames # <<>>, frames' = Front(frames), out' = PutBack(out, Last(frames))
  PROVE  /\ Framing' /\ (frames' = <<>> => out' = <<>>) /\ Len(frames') = Len(frames) - 1
         /\ Len(frames) \in Nat
<1>1. IsSeq(frames) /\ frames[1] = 0 /\ Len(frames) \in Nat /\ Len(frames) > 0
  BY TailIs DEF Framing
<1>2. /\ IsSeq(frames') /\ Len(frames') = Len(frames) - 1
      /\ \A i \in 1..Len(frames) - 1 : frames'[i] = frames[i]
  BY <1>1, FrontIs
<1>3. frames' # <<>> => frames'[1] = 0
  <2> SUFFICES ASSUME frames' # <<>> PROVE frames'[1] = 0
    OBVIOUS
  <2>1. Len(frames') # 0
    BY <1>2, NoCells
  <2>2. 1 \in 1..Len(frames) - 1
    BY <1>1, <1>2, <2>1
  <2> QED
    BY <1>1, <1>2, <2>2
<1>4. frames' = <<>> => out' = <<>>
  <2> SUFFICES ASSUME frames' = <<>> PROVE out' = <<>>
    OBVIOUS
  <2>1. Len(frames) = 1
    BY <1>1, <1>2, NoCells
  <2>2. out' = SubSeq(out, 1, 0)
    BY <1>1, <2>1 DEF PutBack, Last
  <2> QED
    BY <2>2, SubSeqEmpty
<1> QED
  BY <1>1, <1>2, <1>3, <1>4 DEF Framing

LEMMA CutBack ==
  ASSUME NEW n \in Nat, NEW m \in 0..n, Holds(n, m), Len(frames) = 4, frames[4] = 5 + 6 * m,
         out' = PutBack(out, Last(frames))
  PROVE  Holds(n, m)' /\ Len(out') = 5 + 6 * m
<1> DEFINE k == 5 + 6 * m
<1>1. IsSeq(out) /\ Len(out) \in Nat /\ k <= Len(out) /\ \A i \in 1..k : out[i] = Dump(n)[i]
  BY SeqIs DEF Holds
<1>2. k \in Nat /\ 1 <= k /\ k - 1 + 1 = k /\ \A i \in 1..k : 1 + i - 1 = i
  OBVIOUS
<1>3. out' = SubSeq(out, 1, k)
  BY DEF PutBack, Last
<1>4. /\ IsSeq(SubSeq(out, 1, k))
      /\ Len(SubSeq(out, 1, k)) = (IF 1 <= k THEN k - 1 + 1 ELSE 0)
      /\ \A i \in 1 .. k - 1 + 1 : SubSeq(out, 1, k)[i] = out[1 + i - 1]
  <2> HIDE DEF k
  <2> QED
    BY <1>1, <1>2, SubSeqIs
<1> HIDE DEF k
<1>5. IsSeq(out') /\ Len(out') = k /\ \A i \in 1..k : out'[i] = out[i]
  BY <1>2, <1>3, <1>4
<1>6. \A i \in 1..k : out'[i] = Dump(n)[i]
  BY <1>1, <1>5
<1> QED
  BY <1>2, <1>5, <1>6 DEF Holds, Dump, k

(* In the reply to sp_dump_db. *)
LEMMA InDump ==
  ASSUME KrpcAssumption, NEW w, Writing(w), todo # <<>>, acted = "sp_dump_db"
  PROVE  /\ Len(frames) \in Nat /\ Len(frames) <= 4
         /\ Len(frames) >= 3 =>
              \E n \in 0..DbEntries : \E m \in 0..n :
                Holds(n, m) /\ (IF Len(frames) = 3 THEN Len(out) ELSE frames[4]) = 5 + 6 * m
<1> DEFINE k == Len(out)
<1>1. /\ w \in WholeReplies /\ Len(w) \in Nat /\ k \in Nat /\ k < Len(w)
      /\ Len(frames) \in Nat /\ Len(frames) = Depth(w, 1, k)
  BY InReply DEF Writing
<1>2. PICK n \in 0..DbEntries : w = Dump(n)
  BY <1>1, IsDump
<1>3. n \in Nat
  BY DEF KrpcAssumption
<1>4. k \in 0..14 + 6 * n
  <2>1. Len(w) = 14 + 6 * n
    BY <1>2, <1>3, DumpIs
  <2> QED
    BY <1>1, <1>3, <2>1
<1>5. Len(frames) <= 4 /\ (Len(frames) = 3 => \E m \in 0..n : k = 5 + 6 * m)
  BY <1>1, <1>2, <1>3, <1>4, DumpDepth
<1>6. IsSeq(out) /\ \A i \in 1..k : out[i] = w[i]
  BY DEF Writing, Divided
<1>7. ASSUME NEW l \in 0..DbEntries, w = Dump(l), NEW m \in 0..l, 5 + 6 * m <= k
      PROVE  Holds(l, m)
  <2>1. m \in Nat
    BY DEF KrpcAssumption
  <2>2. \A i \in 1..5 + 6 * m : i \in 1..k
    BY <1>1, <1>7, <2>1
  <2> QED
    BY <1>6, <1>7, <2>2 DEF Holds
<1>8. CASE Len(frames) = 3
  <2>1. PICK m \in 0..n : k = 5 + 6 * m
    BY <1>5, <1>8
  <2>2. 5 + 6 * m <= k
    BY <1>1, <2>1
  <2>3. Holds(n, m)
    BY <1>2, <1>7, <2>2
  <2> QED
    BY <1>1, <1>5, <1>8, <2>1, <2>3
<1>9. CASE Len(frames) = 4
  <2>1. PICK l \in 0..DbEntries : \E m \in 0..l :
          w = Dump(l) /\ frames[4] = 5 + 6 * m /\ frames[4] <= k
    BY <1>9 DEF Writing, Listed
  <2>2. PICK m \in 0..l : w = Dump(l) /\ frames[4] = 5 + 6 * m /\ frames[4] <= k
    BY <2>1
  <2>3. Holds(l, m)
    BY <1>7, <2>2
  <2>4. (IF Len(frames) = 3 THEN Len(out) ELSE frames[4]) = 5 + 6 * m
    BY <1>9, <2>2
  <2> QED
    BY <1>1, <1>5, <2>3, <2>4
<1> QED
  BY <1>1, <1>5, <1>8, <1>9

LEMMA DoesNotFitStep ==
  ASSUME KrpcAssumption, NEW w, Writing(w), DoesNotFit
  PROVE  GivingUp'
<1>1. /\ todo # <<>> /\ acted' = acted
      /\ IF Head(todo) = End
         THEN out' = PutBack(out, Last(frames)) /\ frames' = Front(frames)
         ELSE out' = out /\ frames' = frames
  BY DEF DoesNotFit
<1> DEFINE k == Len(out)
<1>2. /\ k \in Nat /\ Head(todo) = w[k + 1] /\ (frames = <<>> => k = 0)
      /\ (k = 0 => w[k + 1] = Dict)
  BY <1>1, InReply
<1>3. Framing /\ IsSeq(out)
  BY DEF Writing, Divided
<1>4. acted = "sp_dump_db" =>
        /\ Len(frames) \in Nat /\ Len(frames) <= 4
        /\ Len(frames) >= 3 =>
             \E n \in 0..DbEntries : \E m \in 0..n :
               Holds(n, m) /\ (IF Len(frames) = 3 THEN Len(out) ELSE frames[4]) = 5 + 6 * m
  BY <1>1, InDump
<1>5. CASE Head(todo) = End
  <2>1. frames # <<>>
    BY <1>2, <1>5 DEF Dict, End
  <2>2. out' = PutBack(out, Last(frames)) /\ frames' = Front(frames)
    BY <1>1, <1>5
  <2>3. /\ Framing' /\ (frames' = <<>> => out' = <<>>) /\ Len(frames') = Len(frames) - 1
        /\ Len(frames) \in Nat
    BY <1>3, <2>1, <2>2, PopStep
  <2>4. ASSUME acted = "sp_dump_db", Len(frames') >= 3
        PROVE  \E n \in 0..DbEntries : \E m \in 0..n :
                 Holds(n, m)' /\ (IF Len(frames') = 3 THEN Len(out') ELSE frames'[4]) = 5 + 6 * m
    <3>1. Len(frames) = 4 /\ Len(frames') = 3
      BY <1>4, <2>3, <2>4
    <3>2. PICK n \in 0..DbEntries : \E m \in 0..n : Holds(n, m) /\ frames[4] = 5 + 6 * m
      BY <1>4, <2>4, <3>1
    <3>3. PICK m \in 0..n : Holds(n, m) /\ frames[4] = 5 + 6 * m
      BY <3>2
    <3>4. n \in Nat
      BY DEF KrpcAssumption
    <3>5. Holds(n, m)' /\ Len(out') = 5 + 6 * m
      BY <2>2, <3>1, <3>3, <3>4, CutBack
    <3> QED
      BY <3>1, <3>5
  <2>5. acted = "sp_dump_db" => Len(frames') <= 4
    BY <1>4, <2>3
  <2> QED
    BY <1>1, <2>3, <2>4, <2>5 DEF GivingUp
<1>6. CASE Head(todo) # End
  <2>1. out' = out /\ frames' = frames
    BY <1>1, <1>6
  <2>2. frames = <<>> => out = <<>>
    BY <1>2, <1>3, NoCells
  <2>3. Framing'
    BY <1>3, <2>1 DEF Framing
  <2>4. \A n, m : Holds(n, m) => Holds(n, m)'
    BY <2>1 DEF Holds, Dump
  <2> QED
    BY <1>1, <1>4, <2>1, <2>2, <2>3, <2>4 DEF GivingUp
<1> QED
  BY <1>5, <1>6

LEMMA GiveUpStep ==
  ASSUME KrpcAssumption, GivingUp, GiveUp
  PROVE  GivingUp'
<1>1. /\ frames # <<>> /\ acted' = acted /\ ~ Listing
      /\ out' = PutBack(out, Last(frames)) /\ frames' = Front(frames)
  BY DEF GiveUp
<1>2. /\ Framing' /\ (frames' = <<>> => out' = <<>>) /\ Len(frames') = Len(frames) - 1
      /\ Len(frames) \in Nat
  BY <1>1, PopStep DEF GivingUp
<1>3. ASSUME acted = "sp_dump_db", Len(frames') >= 3
      PROVE  \E n \in 0..DbEntries : \E m \in 0..n :
               Holds(n, m)' /\ (IF Len(frames') = 3 THEN Len(out') ELSE frames'[4]) = 5 + 6 * m
  <2>1. Len(frames) = 4 /\ Len(frames') = 3
    BY <1>2, <1>3 DEF GivingUp
  <2>2. PICK n \in 0..DbEntries : \E m \in 0..n : Holds(n, m) /\ frames[4] = 5 + 6 * m
    BY <1>3, <2>1 DEF GivingUp
  <2>3. PICK m \in 0..n : Holds(n, m) /\ frames[4] = 5 + 6 * m
    BY <2>2
  <2>4. n \in Nat
    BY DEF KrpcAssumption
  <2>5. Holds(n, m)' /\ Len(out') = 5 + 6 * m
    BY <1>1, <2>1, <2>3, <2>4, CutBack
  <2> QED
    BY <2>1, <2>5
<1>4. acted = "sp_dump_db" => Len(frames') <= 4
  BY <1>2 DEF GivingUp
<1> QED
  BY <1>1, <1>2, <1>3, <1>4 DEF GivingUp

(* Up to the last infohash they share, two replies are the same. *)
LEMMA DumpsBegin ==
  ASSUME NEW n \in Nat, NEW m \in 0..n
  PROVE  \A i \in 1..5 + 6 * m : Dump(n)[i] = Dump(m)[i]
<1>1. m \in Nat /\ m <= n
  OBVIOUS
<1>2. /\ \A i \in 1..5 : Dump(n)[i] = Heading[i] /\ Dump(m)[i] = Heading[i]
      /\ \A i \in 1..m : \A j \in 1..6 : /\ Dump(n)[5 + 6 * (i - 1) + j] = Entry[j]
                                         /\ Dump(m)[5 + 6 * (i - 1) + j] = Entry[j]
  <2>1. /\ \A i \in 1..5 : Dump(n)[i] = Heading[i]
        /\ \A i \in 1..n : \A j \in 1..6 : Dump(n)[5 + 6 * (i - 1) + j] = Entry[j]
    BY DumpIs
  <2>2. /\ \A i \in 1..5 : Dump(m)[i] = Heading[i]
        /\ \A i \in 1..m : \A j \in 1..6 : Dump(m)[5 + 6 * (i - 1) + j] = Entry[j]
    BY <1>1, DumpIs
  <2>3. \A i \in 1..m : i \in 1..n
    BY <1>1
  <2> QED
    BY <2>1, <2>2, <2>3
<1> SUFFICES ASSUME NEW k \in 1..5 + 6 * m
             PROVE  Dump(n)[k] = Dump(m)[k]
  OBVIOUS
<1>3. CASE k <= 5
  BY <1>2, <1>3
<1>4. CASE k > 5
  <2> DEFINE i == ((k - 6) \div 6) + 1
             j == ((k - 6) % 6) + 1
  <2>1. i \in 1..m /\ j \in 1..6 /\ k = 5 + 6 * (i - 1) + j
    BY <1>1, <1>4
  <2> HIDE DEF i, j
  <2> QED
    BY <1>2, <2>1
<1> QED
  BY <1>3, <1>4

LEMMA StopListingStep ==
  ASSUME KrpcAssumption, GivingUp, StopListing
  PROVE  \E w : Writing(w)'
<1>1. /\ acted = "sp_dump_db" /\ Len(frames) = 3 /\ todo' = SubSeq(Dump(0), 6, Len(Dump(0)))
      /\ acted' = acted /\ out' = out /\ frames' = frames /\ kind' = kind
  BY DEF StopListing, Listing, Dump, received
<1>2. PICK n \in 0..DbEntries : \E m \in 0..n : Holds(n, m) /\ Len(out) = 5 + 6 * m
  BY <1>1 DEF GivingUp
<1>3. PICK m \in 0..n : Holds(n, m) /\ Len(out) = 5 + 6 * m
  BY <1>2
<1>4. DbEntries \in Nat /\ n \in Nat /\ m \in Nat /\ m \in 0..DbEntries
  BY DEF KrpcAssumption
<1> DEFINE w == Dump(m)
           d == Dump(0)
<1>5. IsSeq(d) /\ Len(d) = 14 /\ \A j \in 1..9 : d[5 + j] = Ending[j]
  <2>1. 0 \in Nat /\ 14 + 6 * 0 = 14 /\ \A j \in 1..9 : 5 + 6 * 0 + j = 5 + j
    OBVIOUS
  <2>2. /\ IsSeq(d) /\ Len(d) = 14 + 6 * 0
        /\ \A j \in 1..9 : d[5 + 6 * 0 + j] = Ending[j]
    BY <2>1, DumpIs
  <2> HIDE DEF d
  <2> QED
    BY <2>1, <2>2
<1>6. /\ IsSeq(w) /\ Len(w) = 14 + 6 * m
      /\ \A j \in 1..9 : w[5 + 6 * m + j] = Ending[j]
  BY <1>4, DumpIs
<1>7. IsSeq(out) /\ \A i \in 1..5 + 6 * m : out[i] = w[i]
  BY <1>3, <1>4, DumpsBegin DEF Holds
<1>8. Depth(w, 1, 5 + 6 * m) = 3
  BY <1>4, DumpDepth
<1>9. w \in WholeReplies'
  BY <1>1, <1>4 DEF WholeReplies, Dump
<1> HIDE DEF w, d
<1>10. IsSeq(todo') /\ Len(todo') = 9 /\ \A j \in 1..9 : todo'[j] = Ending[j]
  <2>1. todo' = SubSeq(d, 6, 14)
    BY <1>1, <1>5 DEF d
  <2>2. 6 \in Int /\ 14 \in Int /\ 1 <= 6 /\ 14 <= Len(d)
    BY <1>5
  <2>3. \A a, b \in Int : 1 <= a /\ b <= Len(d) =>
          /\ IsSeq(SubSeq(d, a, b)) /\ Len(SubSeq(d, a, b)) = (IF a <= b THEN b - a + 1 ELSE 0)
          /\ \A i \in 1 .. b - a + 1 : SubSeq(d, a, b)[i] = d[a + i - 1]
    <3> SUFFICES ASSUME NEW a \in Int, NEW b \in Int, 1 <= a, b <= Len(d)
                 PROVE  /\ IsSeq(SubSeq(d, a, b))
                        /\ Len(SubSeq(d, a, b)) = (IF a <= b THEN b - a + 1 ELSE 0)
                        /\ \A i \in 1 .. b - a + 1 : SubSeq(d, a, b)[i] = d[a + i - 1]
      OBVIOUS
    <3>1. IsSeq(d)
      BY <1>5
    <3> QED
      BY <3>1, SubSeqIs
  <2>4. /\ IsSeq(SubSeq(d, 6, 14))
        /\ Len(SubSeq(d, 6, 14)) = (IF 6 <= 14 THEN 14 - 6 + 1 ELSE 0)
        /\ \A i \in 1 .. 14 - 6 + 1 : SubSeq(d, 6, 14)[i] = d[6 + i - 1]
    BY <2>2, <2>3
  <2>5. 14 - 6 + 1 = 9 /\ 6 <= 14
    OBVIOUS
  <2>6. /\ IsSeq(todo') /\ Len(todo') = 9 /\ \A i \in 1..9 : todo'[i] = d[6 + i - 1]
    BY <2>1, <2>4, <2>5
  <2>7. \A i \in 1..9 : 6 + i - 1 = 5 + i
    OBVIOUS
  <2> QED
    BY <1>5, <2>6, <2>7
<1>11. Divided(w)'
  <2>1. Len(w) = Len(out') + Len(todo')
    <3>1. Len(out') = 5 + 6 * m /\ Len(todo') = 9 /\ Len(w) = 14 + 6 * m
      BY <1>1, <1>3, <1>6, <1>10
    <3> HIDE DEF w
    <3> QED
      BY <1>4, <3>1
  <2>2. \A i \in 1..Len(out') : out'[i] = w[i]
    BY <1>1, <1>3, <1>7
  <2>3. \A i \in 1..Len(todo') : todo'[i] = w[Len(out') + i]
    BY <1>1, <1>3, <1>6, <1>10
  <2> QED
    BY <1>1, <1>7, <1>10, <2>1, <2>2, <2>3 DEF Divided
<1>12. Framing'
  BY <1>1 DEF GivingUp, Framing
<1>13. Len(frames') = Depth(w, 1, Len(out'))
  BY <1>1, <1>3, <1>8
<1>14. Listed(w)'
  <2>1. Len(frames') = 3
    BY <1>1
  <2>2. Len(frames') # 4
    BY <2>1
  <2> QED
    BY <2>2 DEF Listed
<1>15. Writing(w)'
  BY <1>9, <1>11, <1>12, <1>13, <1>14 DEF Writing
<1> QED
  BY <1>15

(* A reply that is begun. *)
LEMMA WriteBegins ==
  ASSUME NEW cells, Write(cells), cells \in WholeReplies' \cup {<<>>}, IsSeq(cells)
  PROVE  Writing(cells)'
<1>1. todo' = cells /\ frames' = <<>> /\ out' = <<>>
  BY DEF Write
<1>2. IsSeq(<<>>) /\ Len(<<>>) = 0 /\ Len(cells) \in Nat
  BY TuplesAreSeqs, SeqIs
<1>3. Divided(cells)'
  <2>1. Len(cells) = Len(out') + Len(todo') /\ \A i \in 1..Len(cells) : 0 + i = i
    BY <1>1, <1>2
  <2> QED
    BY <1>1, <1>2, <2>1 DEF Divided
<1>4. Depth(cells, 1, 0) = 0
  <2>1. Depth(cells, 1, 1 - 1) = 0
    BY DepthOfNone
  <2> QED
    BY <2>1
<1> QED
  BY <1>1, <1>2, <1>3, <1>4 DEF Writing, Framing, Listed

LEMMA HandleBegins ==
  ASSUME KrpcAssumption, Handle, kind' = kind, kind # "error"
  PROVE  \E w : Writing(w)'
<1>1. PICK cells : /\ Write(cells)
                   /\ \/ kind \in PrivateQueries /\ cells \in PrivateReply
                      \/ kind \notin PrivateQueries /\ cells \in {<<>>} \cup PublicReply
  <2>1. CASE kind \in PrivateQueries
    <3>1. \E cells \in PrivateReply : Write(cells)
      BY <2>1 DEF Handle, PrivateQueries, Replies
    <3> QED
      BY <2>1, <3>1
  <2>2. CASE kind \notin PrivateQueries
    <3>1. \E cells \in {<<>>} \cup PublicReply : Write(cells)
      <4>1. CASE kind \in Replies \cup {"sp_found"}
        BY <2>2, <4>1 DEF Handle
      <4>2. CASE kind \notin Replies \cup {"sp_found"}
        BY <2>2, <4>2 DEF Handle
      <4> QED
        BY <4>1, <4>2
    <3> QED
      BY <2>2, <3>1
  <2> QED
    BY <2>1, <2>2
<1>2. acted' = kind
  BY DEF Handle
<1>3. cells \in WholeReplies' \cup {<<>>}
  <2>1. CASE kind = "sp_dump_db"
    <3>1. kind \in PrivateQueries
      BY <2>1 DEF PrivateQueries
    <3>2. cells = DictOf(Response(DumpDbResponse(DbEntries)))
      <4>1. cells \in PrivateReply
        BY <1>1, <3>1
      <4>2. PrivateReply = {DictOf(Response(DumpDbResponse(DbEntries)))}
        BY <2>1 DEF PrivateReply
      <4> QED
        BY <4>1, <4>2
    <3>3. DbEntries \in 0..DbEntries
      BY DEF KrpcAssumption
    <3>4. WholeReplies' = { DictOf(Response(DumpDbResponse(n))) : n \in 0 .. DbEntries }
      BY <1>2, <2>1 DEF WholeReplies
    <3> QED
      BY <3>2, <3>3, <3>4
  <2>2. CASE kind # "sp_dump_db"
    <3>1. WholeReplies' = { DictOf(r) : r \in ReplyTo(kind) }
      BY <1>2, <2>2 DEF WholeReplies
    <3>2. cells \in { DictOf(r) : r \in ReplyTo(kind) } \cup {<<>>}
      BY <1>1, <2>2 DEF PrivateReply, PublicReply
    <3> QED
      BY <3>1, <3>2
  <2> QED
    BY <2>1, <2>2
<1>4. IsSeq(cells)
  <2>1. \A w \in WholeReplies' : IsSeq(w)
    <3>1. \A w \in WholeReplies' : Encloses(Dict, w)
      BY <1>2, RepliesEnclosed DEF WholeReplies
    <3> QED
      BY <3>1 DEF Encloses
  <2> QED
    BY <1>3, <2>1, TuplesAreSeqs
<1> QED
  BY <1>1, <1>3, <1>4, WriteBegins

-----------------------------------------------------------------------------
(* The steps of the invariant. *)

LEMMA Begun ==
  ASSUME NEW w, Writing(w)', phase' = "writing"
  PROVE  WritersInv'
<1>1. (\E u : Writing(u))'
  OBVIOUS
<1>2. ReplyWhole'
  BY DEF ReplyWhole
<1> QED
  BY <1>1, <1>2 DEF WritersInv

LEMMA GaveUp ==
  ASSUME GivingUp', phase' = "giving up"
  PROVE  WritersInv'
<1>1. ReplyWhole'
  BY DEF ReplyWhole
<1> QED
  BY <1>1 DEF WritersInv

LEMMA NotWriting ==
  ASSUME WritersInv, UNCHANGED <<received, acted, reply>>,
         phase \notin {"writing", "giving up"}, phase' \notin {"writing", "giving up"}
  PROVE  WritersInv'
<1>1. kind' = kind /\ acted' = acted /\ out' = out
  BY DEF received, reply
<1>2. WholeReplies' = WholeReplies
  BY <1>1 DEF WholeReplies
<1>3. ReplyWhole'
  BY <1>1, <1>2 DEF WritersInv, ReplyWhole
<1> QED
  BY <1>3 DEF WritersInv

LEMMA HandledStep ==
  ASSUME KrpcAssumption, Handle, kind' = kind, kind # "error"
  PROVE  WritersInv'
<1>1. PICK w : Writing(w)'
  BY HandleBegins
<1>2. phase' = "writing"
  BY DEF Handle, Write
<1> QED
  BY <1>1, <1>2, Begun

LEMMA UnknownQueryStep ==
  ASSUME KrpcAssumption, UnknownQuery
  PROVE  WritersInv'
<1> DEFINE w == DictOf(ErrorMessage)
<1>1. Write(w) /\ acted' = "error" /\ phase' = "writing"
  BY DEF UnknownQuery, Write
<1>2. WholeReplies' = {w}
  BY <1>1 DEF WholeReplies
<1>3. IsSeq(w)
  BY RepliesEnclosed DEF Encloses
<1> HIDE DEF w
<1>4. Writing(w)'
  BY <1>1, <1>2, <1>3, WriteBegins
<1> QED
  BY <1>1, <1>4, Begun

(* What may be sent is a sequence. *)
LEMMA WholeAreSeqs ==
  ASSUME KrpcAssumption
  PROVE  \A w \in WholeReplies : IsSeq(w)
<1>1. \A w \in WholeReplies : Encloses(Dict, w)
  BY RepliesEnclosed DEF WholeReplies
<1> QED
  BY <1>1 DEF Encloses

LEMMA WrittenStep ==
  ASSUME KrpcAssumption, WritersInv, Written
  PROVE  WritersInv'
<1>1. /\ kind' = kind /\ acted' = acted /\ out' = out
      /\ phase' \notin {"writing", "giving up"}
      /\ \/ phase = "writing" /\ todo = <<>>
         \/ phase = "giving up" /\ frames = <<>>
  BY DEF Written, received, reply
<1>2. WholeReplies' = WholeReplies
  BY <1>1 DEF WholeReplies
<1>3. out = <<>> \/ out \in WholeReplies
  <2>1. CASE phase = "writing" /\ todo = <<>>
    <3>1. PICK w : Writing(w)
      BY <2>1 DEF WritersInv
    <3>2. /\ IsSeq(out) /\ Len(w) = Len(out) + Len(todo) /\ Len(out) \in Nat
          /\ \A i \in 1..Len(out) : out[i] = w[i]
      BY <3>1, SeqIs DEF Writing, Divided
    <3>3. Len(todo) = 0
      BY <2>1, TuplesAreSeqs
    <3>4. Len(out) = Len(w)
      BY <3>2, <3>3
    <3>5. w \in WholeReplies \cup {<<>>}
      BY <3>1 DEF Writing
    <3>6. IsSeq(w)
      BY <3>5, WholeAreSeqs, TuplesAreSeqs
    <3>7. out = w
      BY <3>2, <3>4, <3>6, SameSeq
    <3> QED
      BY <3>5, <3>7
  <2>2. CASE phase = "giving up" /\ frames = <<>>
    BY <2>2 DEF WritersInv, GivingUp
  <2> QED
    BY <1>1, <2>1, <2>2
<1>4. ReplyWhole'
  BY <1>1, <1>2, <1>3 DEF ReplyWhole
<1> QED
  BY <1>1, <1>4 DEF WritersInv

LEMMA WritersStep ==
  ASSUME KrpcAssumption, ReadingInv, WritersInv, [Next]_vars
  PROVE  WritersInv'
<1>1. PICK sq, pairs : Reading(sq, pairs)
  BY DEF ReadingInv
<1>2. CASE TakeAttribute
  <2>1. UNCHANGED <<received, acted, reply>> /\ phase = "top" /\ phase' = phase
    BY <1>2 DEF TakeAttribute
  <2> QED
    BY <2>1, NotWriting
<1>3. CASE TakeReadOnly
  <2>1. UNCHANGED <<received, acted, reply>> /\ phase = "top" /\ phase' = phase
    BY <1>3 DEF TakeReadOnly
  <2> QED
    BY <2>1, NotWriting
<1>4. CASE TakeBody
  <2>1. UNCHANGED <<received, acted, reply>> /\ phase = "top" /\ phase' = phase
    BY <1>4 DEF TakeBody
  <2> QED
    BY <2>1, NotWriting
<1>5. CASE SkipUnknown
  <2>1. UNCHANGED <<received, acted, reply>> /\ phase = "top" /\ phase' = phase
    BY <1>5 DEF SkipUnknown, Other
  <2> QED
    BY <2>1, NotWriting
<1>6. CASE RefuseAttribute
  <2>1. UNCHANGED <<received, acted, reply>> /\ phase = "top" /\ phase' = "refused"
    BY <1>6 DEF RefuseAttribute, Other
  <2> QED
    BY <2>1, NotWriting
<1>7. CASE Incomplete
  <2>1. UNCHANGED <<received, acted, reply>> /\ phase = "top" /\ phase' = "refused"
    BY <1>7 DEF Incomplete, AtEnd
  <2> QED
    BY <2>1, NotWriting
<1>8. CASE UnknownQuery
  BY <1>8, UnknownQueryStep
<1>9. CASE Command
  <2>1. Handle /\ kind' = kind
    BY <1>9 DEF Command, received
  <2>2. kind # "error"
    BY <1>1, <1>9, ServedIs DEF Command
  <2> QED
    BY <2>1, <2>2, HandledStep
<1>10. CASE OpenBody
  <2>1. UNCHANGED <<received, acted, reply>> /\ phase = "top" /\ phase' \in {"body", "refused"}
    BY <1>10 DEF OpenBody, Ready, AtEnd
  <2> QED
    BY <2>1, NotWriting
<1>11. CASE TakeArgument
  <2>1. UNCHANGED <<received, acted, reply>> /\ phase = "body" /\ phase' = phase
    BY <1>11 DEF TakeArgument
  <2> QED
    BY <2>1, NotWriting
<1>12. CASE TakeRagged
  <2>1. UNCHANGED <<received, acted, reply>> /\ phase = "body" /\ phase' = phase
    BY <1>12 DEF TakeRagged
  <2> QED
    BY <2>1, NotWriting
<1>13. CASE SkipArgument
  <2>1. UNCHANGED <<received, acted, reply>> /\ phase = "body" /\ phase' = phase
    BY <1>13 DEF SkipArgument, NoArgument
  <2> QED
    BY <2>1, NotWriting
<1>14. CASE RefuseBody
  <2>1. UNCHANGED <<received, acted, reply>> /\ phase = "body" /\ phase' = "refused"
    BY <1>14 DEF RefuseBody, NoArgument
  <2> QED
    BY <2>1, NotWriting
<1>15. CASE Act
  <2>1. Handle /\ kind' = kind /\ phase = "body"
    BY <1>15 DEF Act, NoArgument, received
  <2>2. kind # "error"
    BY <1>1, <2>1 DEF Reading, InBody, Parsed
  <2> QED
    BY <2>1, <2>2, HandledStep
<1>16. CASE WriteCell
  <2>1. PICK w : Writing(w)
    BY <1>16 DEF WriteCell, WritersInv
  <2>2. phase' = "writing"
    BY <1>16 DEF WriteCell
  <2> QED
    BY <1>16, <2>1, <2>2, WriteCellStep, Begun
<1>17. CASE DoesNotFit
  <2>1. PICK w : Writing(w)
    BY <1>17 DEF DoesNotFit, WritersInv
  <2>2. phase' = "giving up"
    BY <1>17 DEF DoesNotFit
  <2> QED
    BY <1>17, <2>1, <2>2, DoesNotFitStep, GaveUp
<1>18. CASE GiveUp
  <2>1. GivingUp
    BY <1>18 DEF GiveUp, WritersInv
  <2>2. phase' = "giving up"
    BY <1>18 DEF GiveUp
  <2> QED
    BY <1>18, <2>1, <2>2, GiveUpStep, GaveUp
<1>19. CASE StopListing
  <2>1. GivingUp
    BY <1>19 DEF StopListing, WritersInv
  <2>2. phase' = "writing"
    BY <1>19 DEF StopListing
  <2>3. PICK w : Writing(w)'
    BY <1>19, <2>1, StopListingStep
  <2> QED
    BY <2>2, <2>3, Begun
<1>20. CASE Written
  BY <1>20, WrittenStep
<1>21. CASE Close
  <2>1. UNCHANGED <<received, acted, reply>> /\ phase = "close"
        /\ phase' \in {"answered", "refused"}
    BY <1>21 DEF Close
  <2> QED
    BY <2>1, NotWriting
<1>22. CASE UNCHANGED vars
  <2>1. UNCHANGED <<kind, phase, acted, todo, frames, out>>
    BY <1>22 DEF vars, reply
  <2>2. WholeReplies' = WholeReplies /\ \A n, m : Holds(n, m)' <=> Holds(n, m)
    BY <2>1 DEF WholeReplies, Holds, Dump
  <2>3. \A w : Writing(w) => Writing(w)'
    BY <2>1, <2>2 DEF Writing, Divided, Framing, Listed, Dump
  <2>4. GivingUp => GivingUp'
    BY <2>1, <2>2 DEF GivingUp, Framing
  <2>5. ReplyWhole => ReplyWhole'
    BY <2>1, <2>2 DEF ReplyWhole
  <2> QED
    BY <2>1, <2>3, <2>4, <2>5 DEF WritersInv
<1> QED
  BY <1>2, <1>3, <1>4, <1>5, <1>6, <1>7, <1>8, <1>9, <1>10, <1>11, <1>12, <1>13, <1>14,
     <1>15, <1>16, <1>17, <1>18, <1>19, <1>20, <1>21, <1>22 DEF Next

(* ReplyWholeHolds: whatever is replied and wherever the buffer ends, the  *)
(* nested writers leave a whole message or nothing, though a reply to      *)
(* sp_dump_db may list fewer infohashes (krpc_shared.h:8-71, bencode.h:36, *)
(* priv_krpc.cpp:348-397).                                                 *)
THEOREM ReplyWholeHolds == Spec => []ReplyWhole
<1>1. Init => WritersInv
  BY DEF Init, WritersInv, ReplyWhole
<1>2. ReadingInv /\ WritersInv /\ [Next]_vars => WritersInv'
  BY WritersStep, KrpcAssumption
<1>3. WritersInv => ReplyWhole
  BY DEF WritersInv
<1> QED
  BY <1>1, <1>2, <1>3, ReadingHolds, PTL DEF Spec
=============================================================================
