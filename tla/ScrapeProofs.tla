--------------------------- MODULE ScrapeProofs ---------------------------
(***************************************************************************)
(* Theorems about Scrape, for any nodes, infohashes and scrapes, any       *)
(* number of slots and any length of an hour: a node is not asked again    *)
(* before the hours it named have passed, every request is counted, what   *)
(* is known is not looked up and a scrape is not replaced for nothing.     *)
(*                                                                         *)
(* Sums over finite sets are taken member by member and reasoned about by  *)
(* a smallest set for which a claim fails.                                 *)
(***************************************************************************)
EXTENDS Scrape, FiniteSetTheorems, WellFoundedInduction, TLAPS

(* Products and remainders by a number that is not known. *)
LEMMA ProductGrows ==
  ASSUME NEW m \in Nat \ {0}, NEW x \in Int, NEW y \in Int, x < y
  PROVE  m * x + m <= m * y
<1>1. PICK d \in Nat : y = x + 1 + d
  <2>1. y - x - 1 \in Nat /\ y = x + 1 + (y - x - 1)
    OBVIOUS
  <2> QED
    BY <2>1
<1>2. m * y = m * x + m + m * d
  BY <1>1
<1>3. m * d >= 0 /\ m * d \in Int /\ m * x \in Int
  BY <1>1
<1> QED
  BY <1>2, <1>3

LEMMA ModIs ==
  ASSUME NEW m \in Nat \ {0}, NEW a \in Int
  PROVE  a % m \in 0..m - 1 /\ a \div m \in Int /\ a = m * (a \div m) + (a % m)
OBVIOUS

LEMMA ModUnique ==
  ASSUME NEW m \in Nat \ {0}, NEW q \in Int, NEW r \in 0..m - 1
  PROVE  (m * q + r) % m = r
<1> DEFINE a == m * q + r
<1> DEFINE p == a \div m
<1> DEFINE s == a % m
<1>1. a \in Int /\ m * q \in Int
  OBVIOUS
<1>2. s \in 0..m - 1 /\ p \in Int /\ a = m * p + s /\ m * p \in Int
  BY <1>1, ModIs
<1>3. m * q + r = m * p + s
  BY <1>2
<1> HIDE DEF a, p, s
<1>4. ~ (p < q)
  <2>1. SUFFICES ASSUME p < q PROVE FALSE
    OBVIOUS
  <2>2. m * p + m <= m * q
    BY <1>2, <2>1, ProductGrows
  <2> QED
    BY <1>1, <1>2, <1>3, <2>2
<1>5. ~ (q < p)
  <2>1. SUFFICES ASSUME q < p PROVE FALSE
    OBVIOUS
  <2>2. m * q + m <= m * p
    BY <1>2, <2>1, ProductGrows
  <2> QED
    BY <1>1, <1>2, <1>3, <2>2
<1>6. p = q
  BY <1>2, <1>4, <1>5
<1>7. s = r
  BY <1>1, <1>2, <1>3, <1>6
<1> QED
  BY <1>7 DEF s, a

LEMMA ModAdd ==
  ASSUME NEW m \in Nat \ {0}, NEW a \in Int, NEW b \in Int
  PROVE  ((a % m) + b) % m = (a + b) % m
<1> DEFINE r == a % m
<1> DEFINE q == a \div m
<1>1. r \in Int /\ q \in Int /\ a = m * q + r /\ m * q \in Int
  BY ModIs
<1> DEFINE c == r + b
<1> DEFINE s == c % m
<1> DEFINE p == c \div m
<1> HIDE DEF r, q
<1>2. c \in Int
  BY <1>1
<1> HIDE DEF c
<1>3. s \in 0..m - 1 /\ p \in Int /\ c = m * p + s /\ m * p \in Int
  BY <1>2, ModIs
<1> HIDE DEF s, p
<1>4. a + b = m * q + m * p + s
  BY <1>1, <1>3 DEF c
<1>5. m * q + m * p = m * (q + p) /\ q + p \in Int
  BY <1>1, <1>3
<1>6. a + b = m * (q + p) + s
  BY <1>4, <1>5
<1>7. (m * (q + p) + s) % m = s
  BY <1>3, <1>5, ModUnique
<1> QED
  BY <1>6, <1>7 DEF s, c, r

LEMMA ModDiffer ==
  ASSUME NEW m \in Nat \ {0}, NEW a \in Int, NEW d \in 1..m - 1
  PROVE  (a + d) % m # a % m
<1> DEFINE r == a % m
<1>1. r \in 0..m - 1 /\ (r + d) % m = (a + d) % m
  <2>1. d \in Int
    OBVIOUS
  <2>2. a % m \in 0..m - 1
    BY ModIs
  <2>3. ((a % m) + d) % m = (a + d) % m
    BY <2>1, ModAdd
  <2> QED
    BY <2>2, <2>3
<1> HIDE DEF r
<1>2. CASE r + d < m
  <2>1. r + d \in 0..m - 1 /\ m * 0 + (r + d) = r + d
    BY <1>1, <1>2
  <2>2. (m * 0 + (r + d)) % m = r + d
    BY <2>1, ModUnique
  <2> QED
    BY <1>1, <2>1, <2>2 DEF r
<1>3. CASE ~ (r + d < m)
  <2> DEFINE e == r + d - m
  <2>1. e \in 0..m - 1 /\ m * 1 + e = r + d /\ e # r
    BY <1>1, <1>3
  <2> HIDE DEF e
  <2>2. (m * 1 + e) % m = e
    BY <2>1, ModUnique
  <2> QED
    BY <1>1, <2>1, <2>2 DEF r
<1> QED
  BY <1>2, <1>3

----------------------------------------------------------------------------
(* Sums over finite sets, which MapThenSumSet takes member by member.      *)

LEMMA LeastIs ==
  ASSUME NEW T \in SUBSET Nat, T # {}
  PROVE  \E m \in T : \A n \in T : m <= n
<1> DEFINE R == OpToRel(<, Nat)
<1>1. IsWellFoundedOn(R, Nat)
  BY NatLessThanWellFounded
<1>2. \A x, y \in Nat : <<x, y>> \in R <=> x < y
  BY DEF OpToRel
<1> HIDE DEF R
<1>3. PICK m \in T : \A n \in T : ~(<<n, m>> \in R)
  BY <1>1, WFMin
<1>4. ASSUME NEW n \in T
      PROVE  m <= n
  <2>1. m \in Nat /\ n \in Nat /\ ~ (n < m)
    BY <1>2, <1>3
  <2> QED
    BY <2>1
<1> QED
  BY <1>4

Picked(s) == CHOOSE x \in s : TRUE

Small(S, m) == {s \in SUBSET S : Cardinality(s) <= m}

(* g gives the sum of f over each of some sets. *)
SumsOn(g, f, sets) ==
  g = [s \in sets |-> IF s = {} THEN 0 ELSE f[Picked(s)] + g[s \ {Picked(s)}]]

(* Some set that is as small as any is found by its cardinality.           *)
LEMMA SmallestIs ==
  ASSUME NEW S, IsFiniteSet(S), NEW Bad \in SUBSET (SUBSET S), Bad # {}
  PROVE  \E s \in Bad : \A x \in SUBSET S : Cardinality(x) < Cardinality(s) => x \notin Bad
<1> DEFINE Sizes == {Cardinality(s) : s \in Bad}
<1>1. \A s \in SUBSET S : IsFiniteSet(s) /\ Cardinality(s) \in Nat
  BY FS_Subset, FS_CardinalityType
<1>2. Sizes \in SUBSET Nat /\ Sizes # {}
  BY <1>1
<1>3. PICK m \in Sizes : \A n \in Sizes : m <= n
  <2> HIDE DEF Sizes
  <2> QED
    BY <1>2, LeastIs
<1>4. PICK s \in Bad : m = Cardinality(s)
  OBVIOUS
<1>5. ASSUME NEW x \in SUBSET S, Cardinality(x) < Cardinality(s), x \in Bad
      PROVE  FALSE
  <2>1. Cardinality(s) <= Cardinality(x)
    BY <1>3, <1>4, <1>5
  <2> QED
    BY <1>1, <1>5, <2>1
<1> QED
  BY <1>5

LEMMA PickedIs ==
  ASSUME NEW S, IsFiniteSet(S), NEW s \in SUBSET S, s # {}
  PROVE  /\ Picked(s) \in s /\ Picked(s) \in S /\ s \ {Picked(s)} \in SUBSET S
         /\ IsFiniteSet(s) /\ Cardinality(s) \in Nat /\ Cardinality(s) # 0
         /\ Cardinality(s \ {Picked(s)}) = Cardinality(s) - 1
<1>1. Picked(s) \in s
  BY DEF Picked
<1>2. IsFiniteSet(s)
  BY FS_Subset
<1>3. Cardinality(s) \in Nat /\ Cardinality(s) # 0
  BY <1>2, FS_CardinalityType, FS_EmptySet
<1>4. Cardinality(s \ {Picked(s)}) = Cardinality(s) - 1
  BY <1>1, <1>2, FS_RemoveElement
<1> QED
  BY <1>1, <1>2, <1>3, <1>4

LEMMA SmallSumsExist ==
  ASSUME NEW S, IsFiniteSet(S), NEW f, NEW k \in Nat
  PROVE  \E g : SumsOn(g, f, Small(S, k))
<1> DEFINE Bad == {m \in Nat : ~ \E g : SumsOn(g, f, Small(S, m))}
<1>1. SUFFICES ASSUME Bad # {} PROVE FALSE
  OBVIOUS
<1>2. PICK m \in Bad : \A n \in Bad : m <= n
  <2>1. Bad \in SUBSET Nat
    OBVIOUS
  <2> HIDE DEF Bad
  <2> QED
    BY <1>1, <2>1, LeastIs
<1>3. \A s \in SUBSET S : s # {} =>
        /\ Picked(s) \in S /\ s \ {Picked(s)} \in SUBSET S /\ Cardinality(s) \in Nat
        /\ Cardinality(s) # 0 /\ Cardinality(s \ {Picked(s)}) = Cardinality(s) - 1
  BY PickedIs
<1>4. Cardinality({}) = 0
  BY FS_EmptySet
<1>5. m \in Nat /\ m # 0
  <2>1. ASSUME NEW s \in Small(S, 0)
        PROVE  s = {}
    <3>1. s \in SUBSET S /\ Cardinality(s) <= 0
      BY DEF Small
    <3>2. s # {} => Cardinality(s) \in Nat /\ Cardinality(s) # 0
      BY <1>3, <3>1
    <3> QED
      BY <3>1, <3>2
  <2>2. SumsOn([s \in Small(S, 0) |-> 0], f, Small(S, 0))
    BY <2>1 DEF SumsOn
  <2> QED
    BY <2>2
<1>6. PICK g : SumsOn(g, f, Small(S, m - 1))
  <2>1. m - 1 \in Nat /\ ~ (m <= m - 1)
    BY <1>5
  <2>2. m - 1 \notin Bad
    <3> HIDE DEF Bad
    <3> QED
      BY <1>2, <2>1
  <2> QED
    BY <2>1, <2>2
<1> DEFINE h == [s \in Small(S, m) |->
                   IF s = {} THEN 0 ELSE f[Picked(s)] + g[s \ {Picked(s)}]]
<1>7. \A s \in Small(S, m - 1) : s \in Small(S, m) /\ h[s] = g[s]
  <2>1. \A s \in Small(S, m - 1) : s \in Small(S, m)
    <3> SUFFICES ASSUME NEW s \in Small(S, m - 1) PROVE s \in Small(S, m)
      OBVIOUS
    <3>1. s \in SUBSET S /\ Cardinality(s) <= m - 1
      BY DEF Small
    <3>2. Cardinality(s) \in Nat
      BY <3>1, FS_Subset, FS_CardinalityType
    <3> QED
      BY <1>5, <3>1, <3>2 DEF Small
  <2> QED
    BY <1>6, <2>1 DEF SumsOn
<1>8. \A s \in Small(S, m) : s # {} => s \ {Picked(s)} \in Small(S, m - 1)
  <2> SUFFICES ASSUME NEW s \in Small(S, m), s # {} PROVE s \ {Picked(s)} \in Small(S, m - 1)
    OBVIOUS
  <2>1. /\ s \ {Picked(s)} \in SUBSET S /\ Cardinality(s) \in Nat /\ Cardinality(s) <= m
        /\ Cardinality(s \ {Picked(s)}) = Cardinality(s) - 1
    BY <1>3 DEF Small
  <2> QED
    BY <1>5, <2>1 DEF Small
<1>9. SumsOn(h, f, Small(S, m))
  <2>1. \A s \in Small(S, m) : h[s] = IF s = {} THEN 0 ELSE f[Picked(s)] + h[s \ {Picked(s)}]
    BY <1>7, <1>8
  <2> QED
    BY <2>1 DEF SumsOn
<1> HIDE DEF h
<1> QED
  BY <1>9

LEMMA SumsExist ==
  ASSUME NEW S, IsFiniteSet(S), NEW f
  PROVE  \E g : SumsOn(g, f, SUBSET S)
<1>1. Cardinality(S) \in Nat
  BY FS_CardinalityType
<1>2. Small(S, Cardinality(S)) = SUBSET S
  BY FS_Subset DEF Small
<1>3. \E g : SumsOn(g, f, Small(S, Cardinality(S)))
  BY <1>1, SmallSumsExist
<1> QED
  BY <1>2, <1>3

(* Raising some of the terms by one raises the sum by their number.        *)
LEMMA SumRaised ==
  ASSUME NEW S, IsFiniteSet(S), NEW f, NEW g, NEW h, NEW k, NEW T \in SUBSET S,
         SumsOn(g, f, SUBSET S), SumsOn(k, h, SUBSET S),
         \A x \in S : f[x] \in Int /\ h[x] = IF x \in T THEN f[x] + 1 ELSE f[x]
  PROVE  g[S] \in Int /\ k[S] = g[S] + Cardinality(T)
<1> DEFINE Raised(s) == g[s] \in Int /\ k[s] = g[s] + Cardinality(s \cap T)
           Bad == {s \in SUBSET S : ~ Raised(s)}
<1>1. Bad = {}
  <2>1. SUFFICES ASSUME Bad # {} PROVE FALSE
    OBVIOUS
  <2>2. PICK s \in Bad : \A x \in SUBSET S : Cardinality(x) < Cardinality(s) => x \notin Bad
    <3>1. Bad \in SUBSET (SUBSET S)
      OBVIOUS
    <3> HIDE DEF Bad
    <3> QED
      BY <2>1, <3>1, SmallestIs
  <2>3. s # {}
    <3>1. {} \cap T = {}
      OBVIOUS
    <3>2. Raised({})
      <4>1. g[{}] = 0 /\ k[{}] = 0 /\ Cardinality({} \cap T) = 0
        BY <3>1, FS_EmptySet DEF SumsOn
      <4> QED
        BY <4>1
    <3> QED
      BY <3>2
  <2> DEFINE x == Picked(s)
             r == s \ {x}
  <2>4. /\ x \in s /\ x \in S /\ r \in SUBSET S /\ IsFiniteSet(s)
        /\ Cardinality(s) \in Nat /\ Cardinality(r) = Cardinality(s) - 1
    BY <2>3, PickedIs
  <2>5. g[s] = f[x] + g[r] /\ k[s] = h[x] + k[r]
    <3>1. s \in SUBSET S
      OBVIOUS
    <3> QED
      BY <2>3, <3>1 DEF SumsOn
  <2> HIDE DEF x
  <2>6. IsFiniteSet(r \cap T) /\ Cardinality(r \cap T) \in Nat
    BY <2>4, FS_Subset, FS_CardinalityType
  <2>7. Cardinality(s \cap T) = Cardinality(r \cap T) + IF x \in T THEN 1 ELSE 0
    <3>1. CASE x \in T
      <4>1. s \cap T = (r \cap T) \cup {x} /\ x \notin r \cap T
        BY <2>4, <3>1
      <4> HIDE DEF r
      <4> QED
        BY <2>6, <3>1, <4>1, FS_AddElement
    <3>2. CASE x \notin T
      <4>1. s \cap T = r \cap T
        BY <3>2
      <4>2. Cardinality(s \cap T) = Cardinality(r \cap T)
        BY <4>1
      <4> HIDE DEF r
      <4> QED
        BY <2>6, <3>2, <4>2
    <3> QED
      BY <3>1, <3>2
  <2>8. g[r] \in Int /\ k[r] = g[r] + Cardinality(r \cap T)
    <3> HIDE DEF r
    <3> QED
      BY <2>2, <2>4
  <2>9. f[x] \in Int /\ h[x] = IF x \in T THEN f[x] + 1 ELSE f[x]
    BY <2>4
  <2>10. Raised(s)
    <3> HIDE DEF r
    <3> QED
      BY <2>5, <2>6, <2>7, <2>8, <2>9
  <2> QED
    BY <2>10
<1>2. S \in SUBSET S /\ S \cap T = T
  OBVIOUS
<1>3. Raised(S)
  BY <1>1, <1>2
<1> QED
  BY <1>2, <1>3

(* A sum of zeros and one more term is that term. *)
LEMMA SumOfOne ==
  ASSUME NEW S, IsFiniteSet(S), NEW f, NEW g, NEW t \in S, f[t] \in Int,
         SumsOn(g, f, SUBSET S), \A x \in S \ {t} : f[x] = 0
  PROVE  g[S] = f[t]
<1> DEFINE Right(s) == g[s] = IF t \in s THEN f[t] ELSE 0
           Bad == {s \in SUBSET S : ~ Right(s)}
<1>1. Bad = {}
  <2>1. SUFFICES ASSUME Bad # {} PROVE FALSE
    OBVIOUS
  <2>2. PICK s \in Bad : \A x \in SUBSET S : Cardinality(x) < Cardinality(s) => x \notin Bad
    <3>1. Bad \in SUBSET (SUBSET S)
      OBVIOUS
    <3> HIDE DEF Bad
    <3> QED
      BY <2>1, <3>1, SmallestIs
  <2>3. s # {}
    <3>1. Right({})
      BY DEF SumsOn
    <3> QED
      BY <3>1
  <2> DEFINE x == Picked(s)
             r == s \ {x}
  <2>4. /\ x \in s /\ x \in S /\ r \in SUBSET S
        /\ Cardinality(s) \in Nat /\ Cardinality(r) = Cardinality(s) - 1
    BY <2>3, PickedIs
  <2>5. g[s] = f[x] + g[r]
    <3>1. s \in SUBSET S
      OBVIOUS
    <3> QED
      BY <2>3, <3>1 DEF SumsOn
  <2> HIDE DEF x
  <2>6. g[r] = IF t \in r THEN f[t] ELSE 0
    <3> HIDE DEF r
    <3> QED
      BY <2>2, <2>4
  <2>7. Right(s)
    <3>1. CASE x = t
      BY <2>4, <2>5, <2>6, <3>1
    <3>2. CASE x # t
      <4>1. f[x] = 0 /\ (t \in r <=> t \in s)
        BY <2>4, <3>2
      <4> HIDE DEF r
      <4> QED
        BY <2>5, <2>6, <4>1
    <3> QED
      BY <3>1, <3>2
  <2> QED
    BY <2>7
<1> QED
  BY <1>1

(* The values of a function, added up. *)
Total(f, S) == MapThenSumSet(LAMBDA n : f[n], S)

LEMMA TotalIs ==
  ASSUME NEW f, NEW S, IsFiniteSet(S)
  PROVE  \E g : SumsOn(g, f, SUBSET S) /\ Total(f, S) = g[S]
<1> DEFINE Is(g) == SumsOn(g, f, SUBSET S)
           g == CHOOSE v : Is(v)
<1>1. Total(f, S) = g[S]
  BY DEF Total, MapThenSumSet, MapThenFoldSet, SumsOn, Picked
<1>2. Is(g)
  <2>1. \E v : Is(v)
    BY SumsExist
  <2> HIDE DEF Is
  <2> QED
    BY <2>1
<1> HIDE DEF g
<1> QED
  BY <1>1, <1>2

(* And the differences of the scrapes. *)
LEMMA AverageIs ==
  ASSUME NEW scrapes, IsFiniteSet(DOMAIN scrapes)
  PROVE  \E g : /\ SumsOn(g, [s \in DOMAIN scrapes |-> scrapes[s].diff], SUBSET DOMAIN scrapes)
                /\ Average(scrapes) = g[DOMAIN scrapes]
<1> DEFINE S == DOMAIN scrapes
           f == [s \in S |-> scrapes[s].diff]
           Is(g) == g = [s \in SUBSET S |-> IF s = {} THEN 0
                          ELSE scrapes[Picked(s)].diff + g[s \ {Picked(s)}]]
           g == CHOOSE v : Is(v)
<1>1. Average(scrapes) = g[S]
  BY DEF Average, MapThenSumSet, MapThenFoldSet, Picked
<1>2. \A s \in SUBSET S : s # {} => f[Picked(s)] = scrapes[Picked(s)].diff
  BY DEF Picked
<1>3. \A v : Is(v) <=> SumsOn(v, f, SUBSET S)
  <2> HIDE DEF f, S
  <2> QED
    BY <1>2 DEF SumsOn
<1>4. Is(g)
  <2>1. \E v : SumsOn(v, f, SUBSET S)
    <3> HIDE DEF f
    <3> QED
      BY SumsExist
  <2>2. \E v : Is(v)
    BY <1>3, <2>1
  <2> HIDE DEF Is
  <2> QED
    BY <2>2
<1> HIDE DEF g, Is
<1> QED
  BY <1>1, <1>3, <1>4

----------------------------------------------------------------------------
(* The filter that is k hours from being cleared holds what may rest until *)
(* then: whoever rests is in such a filter.                                *)
InFilter(n, k) ==
  n \in hour[(hourIdx + k) % Slots] /\ rest[n] <= hourTime + k * Hour

Covered == \A n \in Nodes : rest[n] > now => \E k \in 1..Slots : InFilter(n, k)

(* A request is answered or given up before the ring is due to be turned.  *)
AskedThisHour == \A n \in Nodes : sampling[n] > 0 => now < hourTime + Hour

RingInv == TypeOK /\ Covered /\ AskedThisHour

LEMMA SlotInRing ==
  ASSUME NEW a \in Int
  PROVE  a % Slots \in Ring
BY SlotsAssumption, ModIs DEF Ring

(* Whoever rests is remembered. *)
LEMMA RestersRemembered ==
  ASSUME TypeOK, Covered, NEW n \in Nodes, rest[n] > now
  PROVE  n \in Remembered(hour)
<1>1. PICK k \in 1..Slots : InFilter(n, k)
  BY DEF Covered
<1>2. (hourIdx + k) % Slots \in Ring
  <2>1. hourIdx + k \in Int
    BY SlotsAssumption DEF TypeOK, Ring
  <2> QED
    BY <2>1, SlotInRing
<1> QED
  BY <1>1, <1>2 DEF InFilter, Remembered

(* Turning moves the time and the index by the same number of hours, which *)
(* is less than the whole turn.                                            *)
LEMMA TurnIs ==
  ASSUME TypeOK, ~ Expired
  PROVE  /\ Turns \in Nat
         /\ hourTime + Hour * Turns <= now
         /\ now < hourTime + Hour * Turns + Hour
         /\ Hour * Turns \in Nat
<1> DEFINE d == now - hourTime
<1>1. d \in Nat /\ now = hourTime + d /\ Hour \in Nat \ {0} /\ hourTime \in Int
  BY HourAssumption DEF TypeOK
<1> HIDE DEF d
<1> DEFINE q == d \div Hour
<1> DEFINE r == d % Hour
<1>2. r \in 0..Hour - 1 /\ q \in Int /\ d = Hour * q + r /\ Hour * q \in Int
  BY <1>1, ModIs
<1> HIDE DEF q, r
<1>3. q \in Nat
  <2>1. ~ (q < 0)
    <3>1. SUFFICES ASSUME q < 0 PROVE FALSE
      OBVIOUS
    <3>2. Hour * q + Hour <= Hour * 0
      BY <1>1, <1>2, <3>1, ProductGrows
    <3> QED
      BY <1>1, <1>2, <3>2
  <2> QED
    BY <1>2, <2>1
<1>4. Hour * q \in Nat /\ hourTime + Hour * q <= now /\ now < hourTime + Hour * q + Hour
  BY <1>1, <1>2, <1>3
<1>5. Turns = q
  BY DEF Turns, q, d
<1> QED
  BY <1>3, <1>4, <1>5

(* A filter that is further away than the ring is turned is not cleared,   *)
(* and is that much closer afterwards.                                     *)
LEMMA FilterKept ==
  ASSUME TypeOK, ~ Expired, NEW k \in 1..Slots, Turns < k
  PROVE  /\ k - Turns \in 1..Slots
         /\ (TurnedIdx + (k - Turns)) % Slots = (hourIdx + k) % Slots
         /\ TurnedRing[(hourIdx + k) % Slots] = hour[(hourIdx + k) % Slots]
<1> DEFINE t == Turns
<1>1. t \in Nat /\ t < k
  BY TurnIs
<1>2. TurnedIdx = (hourIdx + t) % Slots
  BY DEF TurnedIdx
<1> HIDE DEF t
<1>3. Slots \in Nat \ {0} /\ hourIdx \in Int /\ k \in Int /\ t \in Int
  BY <1>1, SlotsAssumption DEF TypeOK, Ring
<1>4. k - t \in 1..Slots
  BY <1>1, <1>3
<1>5. (((hourIdx + t) % Slots) + (k - t)) % Slots = (hourIdx + k) % Slots
  <2>1. hourIdx + t \in Int /\ k - t \in Int /\ (hourIdx + t) + (k - t) = hourIdx + k
    BY <1>3
  <2>2. (((hourIdx + t) % Slots) + (k - t)) % Slots = ((hourIdx + t) + (k - t)) % Slots
    BY <1>3, <2>1, ModAdd
  <2> QED
    BY <2>1, <2>2
<1>6. ASSUME NEW j \in 1..t
      PROVE  (hourIdx + k) % Slots # (hourIdx + j) % Slots
  <2> DEFINE e == k - j
  <2> DEFINE b == hourIdx + j
  <2>1. e \in 1..Slots - 1 /\ b \in Int /\ b + e = hourIdx + k
    BY <1>1, <1>3
  <2> HIDE DEF e, b
  <2>2. (b + e) % Slots # b % Slots
    BY <1>3, <2>1, ModDiffer
  <2> QED
    BY <2>1, <2>2 DEF b
<1>7. (hourIdx + k) % Slots \in Ring
  <2>1. hourIdx + k \in Int
    BY <1>3
  <2> QED
    BY <2>1, SlotInRing
<1>8. TurnedRing[(hourIdx + k) % Slots] = hour[(hourIdx + k) % Slots]
  BY <1>6, <1>7 DEF TurnedRing, t
<1> QED
  BY <1>2, <1>4, <1>5, <1>8 DEF t

LEMMA TurningKeepsCover ==
  ASSUME TypeOK, Covered, now' = now, rest' = rest,
         hour' = TurnedRing, hourIdx' = TurnedIdx, hourTime' = TurnedTime
  PROVE  Covered'
<1> SUFFICES ASSUME NEW n \in Nodes, rest[n] > now
             PROVE  \E k \in 1..Slots :
                      n \in hour'[(hourIdx' + k) % Slots] /\ rest[n] <= hourTime' + k * Hour
  BY DEF Covered, InFilter
<1>1. PICK k \in 1..Slots :
        n \in hour[(hourIdx + k) % Slots] /\ rest[n] <= hourTime + k * Hour
  BY DEF Covered, InFilter
<1>2. /\ hourTime \in Int /\ now \in Int /\ rest[n] \in Int /\ Slots \in Int
      /\ Hour \in Nat \ {0} /\ k \in Int /\ k <= Slots
  BY SlotsAssumption, HourAssumption DEF TypeOK
<1>3. Hour * k \in Int /\ k * Hour = Hour * k /\ Hour * Slots \in Int
  BY <1>2
<1>4. Hour * k <= Hour * Slots
  <2>1. CASE k = Slots
    BY <1>3, <2>1
  <2>2. CASE k < Slots
    <3>1. Hour * k + Hour <= Hour * Slots
      BY <1>2, <2>2, ProductGrows
    <3> QED
      BY <1>2, <1>3, <3>1
  <2> QED
    BY <1>2, <2>1, <2>2
<1>5. ~ Expired
  BY <1>1, <1>2, <1>3, <1>4 DEF Expired
<1>6. Turns \in Nat /\ hourTime + Hour * Turns <= now /\ Hour * Turns \in Nat
  BY <1>5, TurnIs
<1> DEFINE t == Turns
<1> HIDE DEF t
<1>7. t \in Nat /\ hourTime + Hour * t <= now /\ Hour * t \in Nat
  BY <1>6 DEF t
<1>8. t < k
  <2>1. SUFFICES ASSUME k <= t PROVE FALSE
    BY <1>2, <1>7
  <2>2. Hour * k <= Hour * t
    <3>1. CASE k = t
      BY <1>7, <3>1
    <3>2. CASE k < t
      <4>1. Hour * k + Hour <= Hour * t
        BY <1>2, <1>7, <3>2, ProductGrows
      <4> QED
        BY <1>2, <1>3, <1>7, <4>1
    <3> QED
      BY <1>2, <1>7, <2>1, <3>1, <3>2
  <2> QED
    BY <1>1, <1>2, <1>3, <1>7, <2>2
<1>9. /\ k - t \in 1..Slots
      /\ (TurnedIdx + (k - t)) % Slots = (hourIdx + k) % Slots
      /\ TurnedRing[(hourIdx + k) % Slots] = hour[(hourIdx + k) % Slots]
  BY <1>5, <1>8, FilterKept DEF t
<1>10. n \in hour'[(hourIdx' + (k - t)) % Slots]
  BY <1>1, <1>9
<1>11. rest[n] <= hourTime' + (k - t) * Hour
  <2>1. TurnedTime = hourTime + Hour * t
    BY <1>5 DEF TurnedTime, t
  <2>2. (k - t) * Hour = Hour * k - Hour * t
    BY <1>2, <1>7
  <2>3. rest[n] <= TurnedTime + (k - t) * Hour
    BY <1>1, <1>2, <1>3, <1>7, <2>1, <2>2
  <2> QED
    BY <2>3
<1> QED
  BY <1>9, <1>10, <1>11

(* What TypeOK and the cover need of a round. *)
LEMMA AwakeAsks ==
  ASSUME Awake
  PROVE  \E S : S \cap Remembered(hour') = {} /\ Sample(S)
<1>1. PICK back \in [retired -> Matches(active)] :
        LET filled == IF active = NoScrapes THEN [s \in Scrapes |-> NewScrape]
                      ELSE Placed(active, back)
        IN \E s, t \in Scrapes :
             LET checked == Checked(filled, s)
                 eligible == filled[s].nodes \ Remembered(hour')
             IN /\ \/ Poor(filled, checked, s)
                      /\ \E place \in [eligible -> Matches(checked)] :
                           active' = Swapped(checked, s, place)
                   \/ ~ Poor(filled, checked, s) /\ active' = checked
                /\ \E S \in SUBSET (active'[t].nodes \ Remembered(hour')) :
                     /\ Len(queue') = QueueSize => S = {}
                     /\ Sample(S)
  BY Zenon DEF Awake
<1>2. PICK t \in Scrapes : \E S \in SUBSET (active'[t].nodes \ Remembered(hour')) : Sample(S)
  BY <1>1, Zenon
<1>3. PICK S \in SUBSET (active'[t].nodes \ Remembered(hour')) : Sample(S)
  BY <1>2
<1>4. S \cap Remembered(hour') = {}
  OBVIOUS
<1> QED
  BY <1>3, <1>4

LEMMA StepAwake ==
  ASSUME RingInv, Awake
  PROVE  RingInv'
<1>1. TypeOK /\ Covered /\ AskedThisHour
  BY DEF RingInv
<1>2. /\ hour' = TurnedRing /\ hourIdx' = TurnedIdx /\ hourTime' = TurnedTime
      /\ retired' = {} /\ now' = now /\ backoff' = backoff /\ known' = known /\ rest' = rest
  BY DEF Awake
<1>3. PICK S : Sample(S)
  BY AwakeAsks
<1>4. Covered'
  BY <1>1, <1>2, TurningKeepsCover
<1>5. TurnedTime \in 0 .. now /\ now < TurnedTime + Hour
  <2>1. CASE Expired
    BY <1>1, <2>1, HourAssumption DEF TypeOK, TurnedTime
  <2>2. CASE ~ Expired
    <3> DEFINE u == Hour * Turns
    <3>1. u \in Nat /\ hourTime + u <= now /\ now < hourTime + u + Hour
      BY <1>1, <2>2, TurnIs
    <3>2. TurnedTime = hourTime + u
      BY <2>2 DEF TurnedTime
    <3> HIDE DEF u
    <3> QED
      BY <1>1, <3>1, <3>2, HourAssumption DEF TypeOK
  <2> QED
    BY <2>1, <2>2
<1>6. TurnedIdx \in Ring
  <2>1. CASE Expired
    BY <1>1, <2>1 DEF TypeOK, TurnedIdx
  <2>2. CASE ~ Expired
    <3> DEFINE a == hourIdx + Turns
    <3>1. a \in Int
      BY <1>1, <2>2, TurnIs DEF TypeOK, Ring
    <3> HIDE DEF a
    <3>2. a % Slots \in Ring
      BY <3>1, SlotInRing
    <3> QED
      BY <2>2, <3>2 DEF TurnedIdx, a
  <2> QED
    BY <2>1, <2>2
<1>7. TurnedRing \in [Ring -> SUBSET Nodes]
  BY <1>1 DEF TypeOK, TurnedRing
<1>8. sampling' \in [Nodes -> Nat]
  BY <1>1, <1>3 DEF TypeOK, Sample
<1>9. TypeOK'
  BY <1>1, <1>2, <1>5, <1>6, <1>7, <1>8 DEF TypeOK
<1>10. AskedThisHour'
  BY <1>2, <1>5 DEF AskedThisHour
<1> QED
  BY <1>4, <1>9, <1>10 DEF RingInv

(* A node goes into the filter that is cleared after the hours it named.   *)
LEMMA StepResponse ==
  ASSUME RingInv, NEW n \in Nodes, SampleResponse(n)
  PROVE  RingInv'
<1>1. TypeOK /\ Covered /\ AskedThisHour
  BY DEF RingInv
<1>2. /\ sampling[n] > 0 /\ sampling' = [sampling EXCEPT ![n] = @ - 1]
      /\ now' = now /\ hourIdx' = hourIdx /\ hourTime' = hourTime
      /\ retired' = retired /\ backoff' = backoff /\ known' = known
  BY DEF SampleResponse
<1>3. PICK h \in 0 .. Slots :
        /\ hour' = [hour EXCEPT ![SlotFor(h)] = @ \cup {n}]
        /\ rest' = [rest EXCEPT ![n] = IF h < Slots THEN now + h * Hour ELSE now]
  BY Zenon DEF SampleResponse
<1>4. /\ now \in Nat /\ hourTime \in Nat /\ hourIdx \in Int /\ now < hourTime + Hour
      /\ Slots \in Nat \ {0} /\ Hour \in Nat \ {0} /\ h \in Nat
      /\ sampling[n] \in Nat /\ h <= Slots
  BY <1>1, <1>2, SlotsAssumption, HourAssumption DEF TypeOK, Ring, AskedThisHour
<1>5. h * Hour \in Nat /\ (h + 1) * Hour = h * Hour + Hour
  BY <1>4
<1>6. SlotFor(h) \in Ring /\ SlotFor(h) = (hourIdx + (h + 1)) % Slots
  <2> DEFINE a == hourIdx + (h + 1)
  <2>1. a \in Int /\ hourIdx + Slots + h + 1 = a + Slots /\ Slots \in Int
    BY <1>4
  <2> HIDE DEF a
  <2> DEFINE q == a \div Slots
  <2> DEFINE r == a % Slots
  <2>2. r \in 0..Slots - 1 /\ q \in Int /\ a = Slots * q + r
    BY <1>4, <2>1, ModIs
  <2> HIDE DEF q, r
  <2>3. a + Slots = Slots * (q + 1) + r /\ q + 1 \in Int
    BY <1>4, <2>2
  <2>4. (Slots * (q + 1) + r) % Slots = r
    BY <1>4, <2>2, <2>3, ModUnique
  <2>5. SlotFor(h) = r
    BY <2>1, <2>3, <2>4 DEF SlotFor
  <2> QED
    BY <2>2, <2>5 DEF r, a, Ring
<1>7. \A i \in Ring : hour[i] \subseteq hour'[i]
  BY <1>1, <1>3, <1>6 DEF TypeOK
<1>8. hour' \in [Ring -> SUBSET Nodes] /\ n \in hour'[SlotFor(h)]
  BY <1>1, <1>3, <1>6 DEF TypeOK
<1>9. rest' \in [Nodes -> Nat]
  <2>1. now + h * Hour \in Nat
    BY <1>4, <1>5
  <2> QED
    BY <1>1, <1>3, <1>4, <2>1 DEF TypeOK
<1>10. sampling' \in [Nodes -> Nat]
  BY <1>1, <1>2, <1>4 DEF TypeOK
<1>11. TypeOK'
  BY <1>1, <1>2, <1>8, <1>9, <1>10 DEF TypeOK
<1>12. AskedThisHour'
  BY <1>1, <1>2, <1>4 DEF AskedThisHour, TypeOK
<1>13. Covered'
  <2> SUFFICES ASSUME NEW m \in Nodes, rest'[m] > now
               PROVE  \E k \in 1..Slots :
                        m \in hour'[(hourIdx + k) % Slots] /\ rest'[m] <= hourTime + k * Hour
    BY <1>2 DEF Covered, InFilter
  <2>1. CASE m = n
    <3>1. rest'[n] = IF h < Slots THEN now + h * Hour ELSE now
      BY <1>1, <1>3 DEF TypeOK
    <3>2. h < Slots /\ rest'[n] = now + h * Hour
      BY <1>4, <2>1, <3>1
    <3>3. h + 1 \in 1..Slots /\ rest'[n] <= hourTime + (h + 1) * Hour
      BY <1>4, <1>5, <3>2
    <3> QED
      BY <1>6, <1>8, <2>1, <3>3
  <2>2. CASE m # n
    <3>1. rest'[m] = rest[m]
      BY <1>1, <1>3, <2>2 DEF TypeOK
    <3>2. PICK k \in 1..Slots :
            m \in hour[(hourIdx + k) % Slots] /\ rest[m] <= hourTime + k * Hour
      BY <1>1, <3>1 DEF Covered, InFilter
    <3>3. (hourIdx + k) % Slots \in Ring
      <4>1. hourIdx + k \in Int
        BY <1>4
      <4> QED
        BY <4>1, SlotInRing
    <3> QED
      BY <1>7, <3>1, <3>2, <3>3
  <2> QED
    BY <2>1, <2>2
<1> QED
  BY <1>11, <1>12, <1>13 DEF RingInv

(* Everything else leaves the ring, the time and what was named alone, but *)
(* for Tick, when nothing is asked.                                        *)
LEMMA StepOther ==
  ASSUME RingInv, [Next]_vars, ~ Awake, \A n \in Nodes : ~ SampleResponse(n)
  PROVE  RingInv'
<1>1. TypeOK /\ Covered /\ AskedThisHour
  BY DEF RingInv
<1>2. CASE Tick
  <2>1. /\ now' = now + 1 /\ \A n \in Nodes : sampling[n] = 0
        /\ hour' = hour /\ hourIdx' = hourIdx /\ hourTime' = hourTime /\ rest' = rest
        /\ retired' = retired /\ known' = known /\ backoff' = backoff /\ sampling' = sampling
    BY <1>2 DEF Tick
  <2>2. TypeOK'
    BY <1>1, <2>1 DEF TypeOK
  <2>3. Covered'
    <3> SUFFICES ASSUME NEW n \in Nodes, rest[n] > now + 1
                 PROVE  \E k \in 1..Slots : InFilter(n, k)
      BY <2>1 DEF Covered, InFilter
    <3>1. rest[n] > now
      BY <1>1 DEF TypeOK
    <3> QED
      BY <1>1, <3>1 DEF Covered
  <2>4. AskedThisHour'
    BY <2>1 DEF AskedThisHour
  <2> QED
    BY <2>2, <2>3, <2>4 DEF RingInv
<1>3. CASE /\ now' = now /\ hour' = hour /\ hourIdx' = hourIdx /\ hourTime' = hourTime
           /\ rest' = rest /\ retired' \subseteq Nodes /\ known' \subseteq Infohashes
           /\ backoff' \in BOOLEAN
           /\ \/ sampling' = sampling
              \/ \E n \in Nodes : sampling[n] > 0 /\ sampling' = [sampling EXCEPT ![n] = @ - 1]
  <2>1. sampling' \in [Nodes -> Nat] /\ \A n \in Nodes : sampling'[n] <= sampling[n]
    BY <1>1, <1>3 DEF TypeOK
  <2>2. TypeOK'
    BY <1>1, <1>3, <2>1 DEF TypeOK
  <2>3. Covered'
    BY <1>1, <1>3 DEF Covered, InFilter
  <2>4. AskedThisHour'
    BY <1>1, <1>3, <2>1 DEF AskedThisHour, TypeOK
  <2> QED
    BY <2>2, <2>3, <2>4 DEF RingInv
<1>4. CASE AwakeInBackoff
  BY <1>1, <1>3, <1>4 DEF AwakeInBackoff, TypeOK
<1>6. CASE Backoff
  BY <1>1, <1>3, <1>6 DEF Backoff, TypeOK
<1>7. ASSUME NEW n \in Nodes, SampleFailure(n)
      PROVE  RingInv'
  BY <1>1, <1>3, <1>7 DEF SampleFailure, TypeOK
<1>8. ASSUME NEW n \in Nodes, SampleError(n)
      PROVE  RingInv'
  BY <1>1, <1>3, <1>8 DEF SampleError, TypeOK
<1>9. ASSUME NEW n \in Nodes, SeedInsert(n)
      PROVE  RingInv'
  BY <1>1, <1>3, <1>9 DEF SeedInsert, TypeOK
<1>10. ASSUME NEW n \in Nodes, Retire(n)
       PROVE  RingInv'
  BY <1>1, <1>3, <1>10 DEF Retire, TypeOK
<1>11. ASSUME NEW ih \in Infohashes, Publish(ih)
       PROVE  RingInv'
  BY <1>1, <1>3, <1>11 DEF Publish, TypeOK
<1>12. CASE UNCHANGED vars
  BY <1>1, <1>3, <1>12 DEF vars, TypeOK
<1> QED
  BY <1>2, <1>4, <1>6, <1>7, <1>8, <1>9, <1>10, <1>11, <1>12 DEF Next

LEMMA InitRing == Init => RingInv
<1> SUFFICES ASSUME Init PROVE RingInv
  OBVIOUS
<1>1. /\ now = 0 /\ hourTime = 0 /\ hourIdx = 0 /\ hour = [i \in Ring |-> {}]
      /\ retired = {} /\ backoff = FALSE /\ known = {}
      /\ sampling = [n \in Nodes |-> 0] /\ rest = [n \in Nodes |-> 0]
  BY DEF Init
<1>2. 0 \in Ring
  BY SlotsAssumption DEF Ring
<1>3. TypeOK
  <2>1. now \in Nat /\ hourTime \in 0 .. now /\ hourIdx \in Ring
    BY <1>1, <1>2
  <2>2. sampling \in [Nodes -> Nat] /\ rest \in [Nodes -> Nat] /\ hour \in [Ring -> SUBSET Nodes]
    BY <1>1
  <2>3. retired \subseteq Nodes /\ known \subseteq Infohashes /\ backoff \in BOOLEAN
    BY <1>1
  <2> QED
    BY <2>1, <2>2, <2>3 DEF TypeOK
<1>4. \A n \in Nodes : rest[n] = 0 /\ sampling[n] = 0
  BY <1>1
<1>5. Covered /\ AskedThisHour
  BY <1>1, <1>4 DEF Covered, AskedThisHour
<1> QED
  BY <1>3, <1>5 DEF RingInv

LEMMA RingAlways == Spec => []RingInv
<1>1. Init => RingInv
  BY InitRing
<1>2. RingInv /\ [Next]_vars => RingInv'
  BY StepAwake, StepResponse, StepOther
<1> QED
  BY <1>1, <1>2, PTL DEF Spec

----------------------------------------------------------------------------
(* The time, the ring of filters and the count of requests to each node    *)
(* keep their types; the ring is never turned into the future.             *)
THEOREM TypeCorrect == Spec => []TypeOK
<1>1. RingInv => TypeOK
  BY DEF RingInv
<1> QED
  BY <1>1, RingAlways, PTL

(* A node that answered is not asked for samples again before the hours it *)
(* named have passed (on_sample_infohashes and on_awake_scrape), for any   *)
(* number of filters and any length of an hour: a round only asks whom the *)
(* turned ring does not remember, and it remembers whoever rests.          *)
THEOREM IntervalHonouredHolds == Spec => IntervalHonoured
<1> DEFINE Kept == \A n \in Nodes : sampling'[n] > sampling[n] => rest[n] <= now
<1>1. RingInv /\ [Next]_vars => [Kept]_vars
  <2> SUFFICES ASSUME RingInv, Next, NEW n \in Nodes, sampling'[n] > sampling[n]
               PROVE  rest[n] <= now
    OBVIOUS
  <2>1. TypeOK
    BY DEF RingInv
  <2>2. Awake
    <3>1. ~ (sampling' = sampling)
      BY <2>1 DEF TypeOK
    <3>2. ASSUME NEW m \in Nodes, sampling' = [sampling EXCEPT ![m] = @ - 1]
          PROVE  FALSE
      BY <2>1, <3>2 DEF TypeOK
    <3> QED
      BY <3>1, <3>2 DEF Next, AwakeInBackoff, Backoff, Tick, SampleResponse,
         SampleFailure, SampleError, SeedInsert, Retire, Publish
  <2>3. PICK S : S \cap Remembered(hour') = {} /\ Sample(S)
    BY <2>2, AwakeAsks
  <2>4. n \in S
    BY <2>1, <2>3 DEF Sample, TypeOK
  <2>5. RingInv'
    BY <2>2, StepAwake
  <2>6. (TypeOK /\ Covered /\ rest[n] > now => n \in Remembered(hour))'
    BY RestersRemembered, PTL
  <2>7. ~ (rest'[n] > now')
    BY <2>3, <2>4, <2>5, <2>6 DEF RingInv
  <2>8. now' = now /\ rest' = rest
    BY <2>2 DEF Awake
  <2> QED
    BY <2>1, <2>7, <2>8 DEF TypeOK
<1> QED
  BY <1>1, RingAlways, PTL DEF Spec, IntervalHonoured

----------------------------------------------------------------------------
(* The scrapes: there are none before the first round, and then all of     *)
(* them; no more was boxed for one than was published.                     *)
ScrapeState ==
  [nodes : SUBSET Nodes, started : Nat, publish : Nat, boxed : Nat, checked : Nat, diff : Nat]

Sound(scrapes) ==
  /\ scrapes \in [DOMAIN scrapes -> ScrapeState]
  /\ \A s \in DOMAIN scrapes : scrapes[s].boxed <= scrapes[s].publish

ScrapesOK == Sound(active) /\ DOMAIN active \in {{}, Scrapes}

(* The same scrapes, each with its time and its counts. *)
SameRecords(a, b) ==
  /\ DOMAIN b = DOMAIN a
  /\ \A s \in DOMAIN a : /\ b[s].started = a[s].started /\ b[s].diff = a[s].diff
                         /\ b[s].publish = a[s].publish /\ b[s].boxed = a[s].boxed

LEMMA PlacedIs ==
  ASSUME NEW scrapes, Sound(scrapes), NEW place, DOMAIN place \subseteq Nodes
  PROVE  Sound(Placed(scrapes, place)) /\ SameRecords(scrapes, Placed(scrapes, place))
<1> DEFINE D == DOMAIN scrapes
           T(s) == { n \in DOMAIN place : s \in place[n] }
           p == [s \in D |-> [scrapes[s] EXCEPT !.nodes = @ \cup T(s)]]
<1>1. Placed(scrapes, place) = p
  BY DEF Placed
<1>2. \A s \in D : T(s) \subseteq Nodes
  OBVIOUS
<1> HIDE DEF T
<1>3. \A s \in D : scrapes[s] \in ScrapeState
  BY DEF Sound
<1>4. ASSUME NEW s \in D
      PROVE  /\ p[s] \in ScrapeState /\ p[s].boxed = scrapes[s].boxed
             /\ p[s].publish = scrapes[s].publish /\ p[s].started = scrapes[s].started
             /\ p[s].diff = scrapes[s].diff
  BY <1>2, <1>3 DEF ScrapeState
<1>5. DOMAIN p = D /\ p \in [D -> ScrapeState]
  BY <1>4
<1> HIDE DEF p
<1>6. \A s \in D : scrapes[s].boxed <= scrapes[s].publish
  BY DEF Sound
<1> QED
  BY <1>1, <1>4, <1>5, <1>6 DEF Sound, SameRecords

LEMMA NewIs ==
  ASSUME TypeOK
  PROVE  NewScrape \in ScrapeState /\ NewScrape.boxed <= NewScrape.publish
BY DEF TypeOK, NewScrape, ScrapeState

LEMMA CheckedIs ==
  ASSUME TypeOK, NEW scrapes, Sound(scrapes), NEW s \in DOMAIN scrapes
  PROVE  /\ Sound(Checked(scrapes, s)) /\ DOMAIN Checked(scrapes, s) = DOMAIN scrapes
         /\ \A t \in DOMAIN scrapes : Checked(scrapes, s)[t].started = scrapes[t].started
         /\ \A t \in DOMAIN scrapes \ {s} : Checked(scrapes, s)[t] = scrapes[t]
         /\ scrapes[s].checked < now =>
              Checked(scrapes, s)[s].diff = scrapes[s].publish - scrapes[s].boxed
<1>1. CASE scrapes[s].checked < now
  <2> DEFINE c == [scrapes[s] EXCEPT !.diff = scrapes[s].publish - scrapes[s].boxed,
                                     !.boxed = scrapes[s].publish, !.checked = now]
  <2>1. Checked(scrapes, s) = [scrapes EXCEPT ![s] = c]
    BY <1>1 DEF Checked, Sound, ScrapeState
  <2>2. scrapes[s] \in ScrapeState /\ scrapes[s].boxed <= scrapes[s].publish /\ now \in Nat
    BY DEF Sound, TypeOK
  <2>3. scrapes[s].publish - scrapes[s].boxed \in Nat
    BY <2>2 DEF ScrapeState
  <2>4. /\ c \in ScrapeState /\ c.boxed <= c.publish /\ c.started = scrapes[s].started
        /\ c.diff = scrapes[s].publish - scrapes[s].boxed
    <3> DEFINE r == scrapes[s]
               d == r.publish - r.boxed
    <3>1. c = [r EXCEPT !.diff = d, !.boxed = r.publish, !.checked = now]
      OBVIOUS
    <3>2. r \in ScrapeState /\ d \in Nat /\ now \in Nat
      BY <2>2, <2>3
    <3> HIDE DEF c, d, r
    <3>3. r.publish \in Nat
      BY <3>2 DEF ScrapeState
    <3> DEFINE e == r.publish
    <3>4. e \in Nat /\ c = [r EXCEPT !.diff = d, !.boxed = e, !.checked = now]
      BY <3>1, <3>3
    <3>5. c.publish = e /\ c.boxed = e /\ c.started = r.started /\ c.diff = d
      <4>1. e = r.publish
        OBVIOUS
      <4> HIDE DEF e
      <4> QED
        BY <3>2, <3>4, <4>1 DEF ScrapeState
    <3>6. c \in ScrapeState
      <4> HIDE DEF e
      <4> QED
        BY <3>2, <3>4 DEF ScrapeState
    <3>7. d = scrapes[s].publish - scrapes[s].boxed
      BY DEF d, r
    <3> HIDE DEF e
    <3> QED
      BY <3>4, <3>5, <3>6, <3>7 DEF r
  <2> HIDE DEF c
  <2> QED
    BY <2>1, <2>4 DEF Sound
<1>2. CASE ~ (scrapes[s].checked < now)
  BY <1>2 DEF Checked
<1> QED
  BY <1>1, <1>2

LEMMA SwappedIs ==
  ASSUME TypeOK, NEW scrapes, Sound(scrapes), NEW s \in DOMAIN scrapes,
         NEW place, DOMAIN place \subseteq Nodes
  PROVE  /\ Sound(Swapped(scrapes, s, place))
         /\ DOMAIN Swapped(scrapes, s, place) = DOMAIN scrapes
         /\ \A t \in DOMAIN scrapes \ {s} :
              Swapped(scrapes, s, place)[t].started = scrapes[t].started
<1> DEFINE new == [scrapes EXCEPT ![s] = NewScrape]
<1>1. /\ Sound(new) /\ DOMAIN new = DOMAIN scrapes
      /\ \A t \in DOMAIN scrapes \ {s} : new[t] = scrapes[t]
  BY NewIs DEF Sound
<1>2. Swapped(scrapes, s, place) = Placed(new, place)
  BY DEF Swapped
<1> HIDE DEF new
<1>3. Sound(Placed(new, place)) /\ SameRecords(new, Placed(new, place))
  BY <1>1, PlacedIs
<1> QED
  BY <1>1, <1>2, <1>3 DEF SameRecords

(* A round: the scrapes are made or given back what was retired, one is    *)
(* checked and perhaps replaced, and nodes of one are asked.               *)
LEMMA RoundIs ==
  ASSUME TypeOK, ScrapesOK, Awake
  PROVE  \E filled, s, t, S :
           /\ s \in Scrapes /\ t \in Scrapes
           /\ Sound(filled) /\ DOMAIN filled = Scrapes
           /\ active = NoScrapes \/ SameRecords(active, filled)
           /\ \/ /\ Poor(filled, Checked(filled, s), s)
                 /\ \E place : /\ DOMAIN place \subseteq Nodes
                               /\ active' = Swapped(Checked(filled, s), s, place)
              \/ active' = Checked(filled, s)
           /\ S \in SUBSET active'[t].nodes /\ Sample(S)
<1>1. PICK back \in [retired -> Matches(active)] :
        LET filled == IF active = NoScrapes THEN [s \in Scrapes |-> NewScrape]
                      ELSE Placed(active, back)
        IN \E s, t \in Scrapes :
             LET checked == Checked(filled, s)
                 eligible == filled[s].nodes \ Remembered(hour')
             IN /\ \/ Poor(filled, checked, s)
                      /\ \E place \in [eligible -> Matches(checked)] :
                           active' = Swapped(checked, s, place)
                   \/ ~ Poor(filled, checked, s) /\ active' = checked
                /\ \E S \in SUBSET (active'[t].nodes \ Remembered(hour')) :
                     /\ Len(queue') = QueueSize => S = {}
                     /\ Sample(S)
  BY Zenon DEF Awake
<1> DEFINE filled == IF active = NoScrapes THEN [s \in Scrapes |-> NewScrape]
                     ELSE Placed(active, back)
<1>2. PICK s \in Scrapes, t \in Scrapes :
        /\ \/ Poor(filled, Checked(filled, s), s)
              /\ \E place \in [filled[s].nodes \ Remembered(hour') -> Matches(Checked(filled, s))] :
                   active' = Swapped(Checked(filled, s), s, place)
           \/ active' = Checked(filled, s)
        /\ \E S \in SUBSET (active'[t].nodes \ Remembered(hour')) : Sample(S)
  BY <1>1, Zenon
<1>3. /\ Sound(filled) /\ DOMAIN filled = Scrapes
      /\ active = NoScrapes \/ SameRecords(active, filled)
  <2>1. CASE active = NoScrapes
    BY <2>1, NewIs DEF Sound
  <2>2. CASE active # NoScrapes
    <3>1. filled = Placed(active, back)
      BY <2>2
    <3>2. DOMAIN back \subseteq Nodes
      BY DEF TypeOK
    <3>3. Sound(filled) /\ SameRecords(active, filled)
      BY <3>1, <3>2, PlacedIs DEF ScrapesOK
    <3>4. DOMAIN active # {}
      <4>1. DOMAIN active = {} => active = NoScrapes
        BY DEF NoScrapes, ScrapesOK, Sound
      <4> QED
        BY <2>2, <4>1
    <3> HIDE DEF filled
    <3> QED
      BY <3>3, <3>4 DEF ScrapesOK, SameRecords
  <2> QED
    BY <2>1, <2>2
<1> HIDE DEF filled
<1>4. filled[s].nodes \subseteq Nodes
  BY <1>3 DEF Sound, ScrapeState
<1>5. \/ /\ Poor(filled, Checked(filled, s), s)
         /\ \E place : /\ DOMAIN place \subseteq Nodes
                       /\ active' = Swapped(Checked(filled, s), s, place)
      \/ active' = Checked(filled, s)
  <2>1. ASSUME NEW place \in [filled[s].nodes \ Remembered(hour') -> Matches(Checked(filled, s))]
        PROVE  DOMAIN place \subseteq Nodes
    BY <1>4
  <2> QED
    BY <1>2, <2>1
<1>6. \E S : S \in SUBSET active'[t].nodes /\ Sample(S)
  BY <1>2
<1> QED
  BY <1>3, <1>5, <1>6

----------------------------------------------------------------------------
(* The requests outstanding to the nodes, added up. *)
Requested(f) == Total(f, Nodes)

LEMMA RequestsRaised ==
  ASSUME NEW f \in [Nodes -> Int], NEW T \in SUBSET Nodes,
         NEW h, \A n \in Nodes : h[n] = IF n \in T THEN f[n] + 1 ELSE f[n]
  PROVE  Requested(f) \in Int /\ Requested(h) = Requested(f) + Cardinality(T)
<1>1. IsFiniteSet(Nodes)
  BY FiniteAssumption
<1>2. PICK g : SumsOn(g, f, SUBSET Nodes) /\ Requested(f) = g[Nodes]
  BY <1>1, TotalIs DEF Requested
<1>3. PICK k : SumsOn(k, h, SUBSET Nodes) /\ Requested(h) = k[Nodes]
  BY <1>1, TotalIs DEF Requested
<1>4. g[Nodes] \in Int /\ k[Nodes] = g[Nodes] + Cardinality(T)
  BY <1>1, <1>2, <1>3, SumRaised
<1> QED
  BY <1>2, <1>3, <1>4

(* A request less to one node is one less in all. *)
LEMMA RequestAnswered ==
  ASSUME NEW f \in [Nodes -> Int], NEW n \in Nodes,
         NEW h, h = [f EXCEPT ![n] = @ - 1]
  PROVE  Requested(h) \in Int /\ Requested(f) = Requested(h) + 1
<1>1. h \in [Nodes -> Int] /\ \A m \in Nodes : f[m] = IF m \in {n} THEN h[m] + 1 ELSE h[m]
  OBVIOUS
<1>2. Requested(h) \in Int /\ Requested(f) = Requested(h) + Cardinality({n})
  <2>1. {n} \in SUBSET Nodes
    OBVIOUS
  <2> QED
    BY <1>1, <2>1, RequestsRaised
<1>3. Cardinality({n}) = 1
  BY FS_Singleton
<1> QED
  BY <1>2, <1>3

Counted == count \in Int /\ Requested(sampling) \in Int /\ Requested(sampling) <= count

IInv == RingInv /\ ScrapesOK /\ Counted

(* Whatever else happens to the scrapes: nodes come and go, and more is    *)
(* published.                                                              *)
LEMMA ScrapesKept ==
  ASSUME TypeOK, ScrapesOK, Next, ~ Awake
  PROVE  /\ ScrapesOK' /\ DOMAIN active' = DOMAIN active
         /\ \A s \in DOMAIN active : active'[s].started = active[s].started
<1>1. CASE active' = active
  BY <1>1 DEF ScrapesOK, Sound
<1>2. \A s \in DOMAIN active : active[s] \in ScrapeState /\ active[s].boxed <= active[s].publish
  BY DEF ScrapesOK, Sound
<1>3. ASSUME NEW ih \in Infohashes, Publish(ih)
      PROVE  /\ ScrapesOK' /\ DOMAIN active' = DOMAIN active
             /\ \A s \in DOMAIN active : active'[s].started = active[s].started
  <2>1. PICK match : active' =
          [s \in DOMAIN active |->
             IF s \in match THEN [active[s] EXCEPT !.publish = @ + 1] ELSE active[s]]
    BY <1>3 DEF Publish
  <2>2. ASSUME NEW s \in DOMAIN active
        PROVE  /\ active'[s] \in ScrapeState /\ active'[s].boxed <= active'[s].publish
               /\ active'[s].started = active[s].started
    BY <1>2, <2>1 DEF ScrapeState
  <2>3. DOMAIN active' = DOMAIN active /\ active' \in [DOMAIN active -> ScrapeState]
    BY <2>1, <2>2
  <2> QED
    BY <2>2, <2>3 DEF ScrapesOK, Sound
<1>4. ASSUME NEW n \in Nodes, SeedInsert(n)
      PROVE  /\ ScrapesOK' /\ DOMAIN active' = DOMAIN active
             /\ \A s \in DOMAIN active : active'[s].started = active[s].started
  <2>1. PICK match : active' = Placed(active, [m \in {n} |-> match])
    BY <1>4 DEF SeedInsert
  <2> DEFINE place == [m \in {n} |-> match]
  <2>2. DOMAIN place \subseteq Nodes
    OBVIOUS
  <2> HIDE DEF place
  <2>3. Sound(active') /\ SameRecords(active, active')
    BY <2>1, <2>2, PlacedIs DEF ScrapesOK, place
  <2> QED
    BY <2>3 DEF ScrapesOK, SameRecords
<1>5. ASSUME NEW n \in Nodes, Retire(n), active' # active
      PROVE  /\ ScrapesOK' /\ DOMAIN active' = DOMAIN active
             /\ \A s \in DOMAIN active : active'[s].started = active[s].started
  <2>1. PICK s \in DOMAIN active : active' = [active EXCEPT ![s].nodes = @ \ {n}]
    BY <1>5 DEF Retire
  <2> DEFINE c == [active[s] EXCEPT !.nodes = @ \ {n}]
  <2>2. c \in ScrapeState /\ c.boxed <= c.publish /\ c.started = active[s].started
    BY <1>2 DEF ScrapeState
  <2>3. active' = [active EXCEPT ![s] = c]
    BY <2>1
  <2> HIDE DEF c
  <2> QED
    BY <1>2, <2>2, <2>3 DEF ScrapesOK, Sound
<1> QED
  BY <1>1, <1>3, <1>4, <1>5 DEF Next, AwakeInBackoff, Backoff, Tick,
     SampleResponse, SampleFailure, SampleError, SeedInsert, Retire

LEMMA AwakeKeepsIInv ==
  ASSUME IInv, Awake
  PROVE  IInv'
<1>1. TypeOK /\ ScrapesOK /\ Counted
  BY DEF IInv, RingInv
<1>2. PICK filled, s, t, S :
        /\ s \in Scrapes /\ t \in Scrapes
        /\ Sound(filled) /\ DOMAIN filled = Scrapes
        /\ active = NoScrapes \/ SameRecords(active, filled)
        /\ \/ /\ Poor(filled, Checked(filled, s), s)
              /\ \E place : /\ DOMAIN place \subseteq Nodes
                            /\ active' = Swapped(Checked(filled, s), s, place)
           \/ active' = Checked(filled, s)
        /\ S \in SUBSET active'[t].nodes /\ Sample(S)
  BY <1>1, RoundIs
<1> DEFINE checked == Checked(filled, s)
<1>3. Sound(checked) /\ DOMAIN checked = Scrapes
  BY <1>1, <1>2, CheckedIs
<1>4. Sound(active') /\ DOMAIN active' = Scrapes
  <2>1. CASE active' = checked
    BY <1>3, <2>1
  <2>2. ASSUME NEW place, DOMAIN place \subseteq Nodes, active' = Swapped(checked, s, place)
        PROVE  Sound(active') /\ DOMAIN active' = Scrapes
    <3> HIDE DEF checked
    <3> QED
      BY <1>1, <1>2, <1>3, <2>2, SwappedIs
  <2> QED
    BY <1>2, <2>1, <2>2
<1>5. S \in SUBSET Nodes
  BY <1>2, <1>4 DEF Sound, ScrapeState
<1>6. Requested(sampling') = Requested(sampling) + Cardinality(S)
  <2>1. sampling \in [Nodes -> Int]
    BY <1>1 DEF TypeOK
  <2>2. \A n \in Nodes : sampling'[n] = IF n \in S THEN sampling[n] + 1 ELSE sampling[n]
    BY <1>2 DEF Sample
  <2> QED
    BY <1>5, <2>1, <2>2, RequestsRaised
<1>7. Cardinality(S) \in Nat /\ count' = count + Cardinality(S)
  BY <1>2, <1>5, FiniteAssumption, FS_Subset, FS_CardinalityType DEF Sample, CountAll
<1>8. Counted'
  <2>1. /\ count' \in Int /\ Requested(sampling') \in Int
        /\ Requested(sampling') <= count'
    BY <1>1, <1>6, <1>7 DEF Counted
  <2> QED
    BY <2>1 DEF Counted
<1>9. ScrapesOK'
  BY <1>4 DEF ScrapesOK, Sound
<1>10. RingInv'
  BY StepAwake DEF IInv
<1> QED
  BY <1>8, <1>9, <1>10 DEF IInv

(* An answer or a failure takes one from both, an error from the requests  *)
(* only.                                                                   *)
LEMMA OthersKeepIInv ==
  ASSUME IInv, Next, ~ Awake
  PROVE  IInv'
<1>1. TypeOK /\ ScrapesOK /\ Counted
  BY DEF IInv, RingInv
<1>2. ScrapesOK'
  BY <1>1, ScrapesKept
<1>3. RingInv'
  <2>1. CASE \E n \in Nodes : SampleResponse(n)
    BY <2>1, StepResponse DEF IInv
  <2>2. CASE \A n \in Nodes : ~ SampleResponse(n)
    BY <2>2, StepOther DEF IInv
  <2> QED
    BY <2>1, <2>2
<1>4. ASSUME sampling' = sampling, count' = count
      PROVE  Counted'
  BY <1>1, <1>4 DEF Counted
<1>5. ASSUME NEW n \in Nodes, sampling' = [sampling EXCEPT ![n] = @ - 1],
             count' \in {count, count - 1}
      PROVE  Counted'
  <2>1. sampling \in [Nodes -> Int]
    BY <1>1 DEF TypeOK
  <2>2. Requested(sampling') \in Int /\ Requested(sampling) = Requested(sampling') + 1
    BY <1>5, <2>1, RequestAnswered
  <2>3. count' \in Int /\ Requested(sampling') <= count'
    BY <1>1, <1>5, <2>2 DEF Counted
  <2> QED
    BY <2>2, <2>3 DEF Counted
<1>6. \/ sampling' = sampling /\ count' = count
      \/ \E n \in Nodes : /\ sampling' = [sampling EXCEPT ![n] = @ - 1]
                         /\ count' \in {count, count - 1}
  BY DEF Next, AwakeInBackoff, Backoff, Tick, SampleResponse,
     SampleFailure, SampleError, SeedInsert, Retire, Publish
<1>7. Counted'
  BY <1>4, <1>5, <1>6
<1> QED
  BY <1>2, <1>3, <1>7 DEF IInv

LEMMA Inductive == Spec => []IInv
<1>1. Init => IInv
  <2> SUFFICES ASSUME Init PROVE IInv
    OBVIOUS
  <2>1. RingInv
    BY InitRing
  <2>2. ScrapesOK
    <3>1. active = NoScrapes
      BY DEF Init
    <3> QED
      BY <3>1 DEF NoScrapes, ScrapesOK, Sound
  <2>3. Requested(sampling) = 0
    <3>1. IsFiniteSet(Nodes) /\ sampling = [n \in Nodes |-> 0]
      BY FiniteAssumption DEF Init
    <3>2. PICK g : SumsOn(g, sampling, SUBSET Nodes) /\ Requested(sampling) = g[Nodes]
      BY <3>1, TotalIs DEF Requested
    <3>3. CASE Nodes = {}
      BY <3>2, <3>3 DEF SumsOn
    <3>4. ASSUME NEW t \in Nodes
          PROVE  g[Nodes] = 0
      <4>1. sampling[t] = 0 /\ \A x \in Nodes \ {t} : sampling[x] = 0
        BY <3>1
      <4>2. g[Nodes] = sampling[t]
        BY <3>1, <3>2, <4>1, SumOfOne
      <4> QED
        BY <4>1, <4>2
    <3> QED
      BY <3>2, <3>3, <3>4
  <2>4. Counted
    BY <2>3 DEF Init, Counted
  <2> QED
    BY <2>1, <2>2, <2>4 DEF IInv
<1>2. IInv /\ [Next]_vars => IInv'
  <2> SUFFICES ASSUME IInv, [Next]_vars PROVE IInv'
    OBVIOUS
  <2>1. CASE UNCHANGED vars
    <3>1. RingInv'
      <4>1. CASE Next
        BY <4>1, AwakeKeepsIInv, OthersKeepIInv DEF IInv
      <4>2. CASE ~ Next
        BY <4>2, StepOther DEF IInv, Next
      <4> QED
        BY <4>1, <4>2
    <3> QED
      BY <2>1, <3>1 DEF IInv, vars, ScrapesOK, Sound, Counted
  <2>2. CASE Next
    BY <2>2, AwakeKeepsIInv, OthersKeepIInv
  <2> QED
    BY <2>1, <2>2
<1> QED
  BY <1>1, <1>2, PTL DEF Spec

(* The counter of outstanding requests is at least their number, so it is  *)
(* not 0 when an answer or a failure takes one from it, as the handlers    *)
(* assert (handle_response_sample_infohashes): for any number of nodes and *)
(* of requests in a round.                                                 *)
THEOREM EveryRequestCountedHolds == Spec => []EveryRequestCounted
<1>1. IInv => EveryRequestCounted
  BY DEF IInv, Counted, EveryRequestCounted, Requested, Total
<1> QED
  BY <1>1, Inductive, PTL

(* The average is what the one scrape got when the others got nothing. *)
LEMMA AverageOfOne ==
  ASSUME NEW scrapes, Sound(scrapes), DOMAIN scrapes = Scrapes, NEW s \in Scrapes,
         \A t \in Scrapes \ {s} : scrapes[t].diff = 0
  PROVE  Average(scrapes) = scrapes[s].diff
<1> DEFINE f == [t \in Scrapes |-> scrapes[t].diff]
<1>1. PICK g : SumsOn(g, f, SUBSET Scrapes) /\ Average(scrapes) = g[Scrapes]
  BY AverageIs, FiniteAssumption
<1>2. f[s] \in Int /\ f[s] = scrapes[s].diff /\ \A t \in Scrapes \ {s} : f[t] = 0
  BY DEF Sound, ScrapeState
<1> HIDE DEF f
<1>3. g[Scrapes] = f[s]
  BY <1>1, <1>2, FiniteAssumption, SumOfOne
<1> QED
  BY <1>1, <1>2, <1>3

(* A scrape is only replaced when too little was published for it since    *)
(* its last check, for the decision is made on the check of that round     *)
(* alone; and when something was for another one (on_awake_scrape): if     *)
(* not, the average is its own difference, which is not below itself.      *)
THEOREM ProductiveKeptHolds == Spec => ProductiveKept
<1> DEFINE Kept == \A s \in DOMAIN active :
                     active'[s].started > active[s].started =>
                       /\ active[s].publish - active[s].boxed < Enough
                       /\ \E t \in DOMAIN active \ {s} : active[t].diff > 0
<1>1. IInv /\ [Next]_vars => [Kept]_vars
  <2> SUFFICES ASSUME IInv, Next, NEW u \in DOMAIN active,
                      active'[u].started > active[u].started,
                      active[u].publish - active[u].boxed < Enough =>
                        \A t \in DOMAIN active \ {u} : ~ (active[t].diff > 0)
               PROVE  FALSE
    OBVIOUS
  <2>1. TypeOK /\ ScrapesOK
    BY DEF IInv, RingInv
  <2>2. \A t \in DOMAIN active : active[t].started \in Nat /\ active[t].diff \in Nat
    BY <2>1 DEF ScrapesOK, Sound, ScrapeState
  <2>3. CASE ~ Awake
    <3>1. active'[u].started = active[u].started
      BY <2>1, <2>3, ScrapesKept
    <3> QED
      BY <2>2, <3>1
  <2>4. CASE Awake
    <3>1. PICK filled, s, t, S :
            /\ s \in Scrapes /\ t \in Scrapes
            /\ Sound(filled) /\ DOMAIN filled = Scrapes
            /\ active = NoScrapes \/ SameRecords(active, filled)
            /\ \/ /\ Poor(filled, Checked(filled, s), s)
                  /\ \E place : /\ DOMAIN place \subseteq Nodes
                                /\ active' = Swapped(Checked(filled, s), s, place)
               \/ active' = Checked(filled, s)
            /\ S \in SUBSET active'[t].nodes /\ Sample(S)
      BY <2>1, <2>4, RoundIs
    <3> DEFINE checked == Checked(filled, s)
    <3>2. /\ Sound(checked) /\ DOMAIN checked = Scrapes
          /\ \A r \in Scrapes : checked[r].started = filled[r].started
          /\ \A r \in Scrapes \ {s} : checked[r] = filled[r]
          /\ filled[s].checked < now => checked[s].diff = filled[s].publish - filled[s].boxed
      BY <2>1, <3>1, CheckedIs
    <3>3. SameRecords(active, filled) /\ u \in Scrapes /\ DOMAIN active = Scrapes
      <4>1. active # NoScrapes
        BY DEF NoScrapes
      <4> QED
        BY <3>1, <4>1 DEF SameRecords
    <3>4. checked[u].started = active[u].started
      BY <3>2, <3>3 DEF SameRecords
    <3>5. CASE active' = checked
      BY <2>2, <3>4, <3>5
    <3>6. ASSUME Poor(filled, checked, s),
                 NEW place, DOMAIN place \subseteq Nodes, active' = Swapped(checked, s, place)
          PROVE  FALSE
      <4> HIDE DEF checked
      <4>1. \A r \in Scrapes \ {s} : active'[r].started = checked[r].started
        BY <2>1, <3>1, <3>2, <3>6, SwappedIs
      <4>2. u = s
        BY <2>2, <3>3, <3>4, <4>1
      <4>6. active[u].publish - active[u].boxed < Enough
        <5>1. checked[s].diff = filled[s].publish - filled[s].boxed /\ checked[s].diff < Enough
          BY <3>2, <3>6 DEF Poor
        <5>2. filled[s].publish = active[s].publish /\ filled[s].boxed = active[s].boxed
          BY <3>1, <3>3 DEF SameRecords
        <5> QED
          BY <4>2, <5>1, <5>2
      <4>3. \A r \in Scrapes \ {s} : checked[r].diff = 0
        BY <2>2, <3>2, <3>3, <4>2, <4>6 DEF SameRecords
      <4>4. Average(checked) = checked[s].diff
        BY <3>1, <3>2, <4>3, AverageOfOne
      <4>5. checked[s].diff \in Nat
        BY <3>1, <3>2 DEF Sound, ScrapeState
      <4> QED
        BY <3>6, <4>4, <4>5 DEF Poor
    <3> QED
      BY <3>1, <3>5, <3>6
  <2> QED
    BY <2>3, <2>4
<1> QED
  BY <1>1, Inductive, PTL DEF Spec, ProductiveKept
=============================================================================
