------------------------- MODULE RoutingTableProofs -------------------------
(***************************************************************************)
(* The lists of tables, the places of the contacts and the count of bad    *)
(* ones survive every insertion, for every number of tables, slots, ids    *)
(* and ranks.                                                              *)
(*                                                                         *)
(* Walks along pointers are what the code does and are hard to reason      *)
(* about.  The first section shows that a walk visits the members of a     *)
(* Chain, a set closed under the link on which an order increases; after   *)
(* it the proofs speak of the home of each table, the first table of its   *)
(* level, and never of walks again.                                        *)
(***************************************************************************)
EXTENDS RoutingTable, FiniteSetTheorems, WellFoundedInduction, TLAPS

(* The tables of a list: closed under its link, along which ord grows,     *)
(* each the head or linked from another.                                   *)
Chain(S, link, head, ord) ==
  /\ S \subseteq Table
  /\ IF head = Null THEN S = {} ELSE head \in S
  /\ \A t \in S : ord[t] \in Nat
  /\ \A t \in S : link[t] # Null => link[t] \in S /\ ord[t] < ord[link[t]]
  /\ \A t \in S : t # head => \E u \in S : link[u] = t

(* home[t] is the first table of the level t is in, Null if t is in none.  *)
Heads(home) == {t \in Table : home[t] = t}
Level(home, h) == {t \in Table : home[t] = h}
InTree(home) == {t \in Table : home[t] # Null}

(* The tables are in the lists where home says, and pos grows along each   *)
(* level.                                                                  *)
Layout(s, home, pos) ==
  /\ home \in [Table -> Table \cup {Null}]
  /\ pos \in [Table -> Nat]
  /\ Chain(Heads(home), s.inTree, s.root, s.depth)
  /\ \A h \in Heads(home) : Chain(Level(home, h), s.parallel, h, pos)
  /\ \A t \in InTree(home) :
       /\ home[t] \in Heads(home)
       /\ s.depth[t] = s.depth[home[t]]
       /\ t <= s.length
       /\ t # home[t] => s.inTree[t] = Null

(* Tables that were never allocated. *)
Unused(s) ==
  \A t \in Table : t > s.length =>
    s.inTree[t] = Null /\ s.parallel[t] = Null /\ s.bucket[t] = EmptyBucket

(* Contacts in the tree are in the level of their rank, and in it once. *)
Placed(s, home) ==
  \A t \in InTree(home), i \in Index : s.bucket[t][i] # NoContact =>
    /\ Rank[s.bucket[t][i].id] = s.depth[t]
    /\ \A u \in InTree(home), j \in Index :
         s.bucket[u][j] # NoContact /\ s.bucket[u][j].id = s.bucket[t][i].id => u = t /\ j = i

Marked(s) == {p \in Stored(s, Table) : ~ s.bucket[p[1]][p[2]].good}

Counted(s) == s.bad = Cardinality(Marked(s))

Sound(s, home, pos) ==
  /\ s \in State
  /\ Layout(s, home, pos)
  /\ Unused(s)
  /\ Placed(s, home)
  /\ Counted(s)

(* What the invariants rest on: the lists can be laid out. *)
IInv == \E home, pos : Sound(rt, home, pos)

(* A table for rank r that is in no list. *)
Free(s, home, t, r) ==
  /\ t \in Table /\ home[t] = Null /\ t <= s.length
  /\ s.inTree[t] = Null /\ s.parallel[t] = Null
  /\ s.bucket[t] = EmptyBucket /\ s.depth[t] = r

(* What allocation, which made a of s, leaves of the lists: t is in none,  *)
(* and if it was in one, it was in the root level, which is not deep enough *)
(* for r.                                                                  *)
Taken(s, home, a, new, t, r) ==
  /\ Free(a, new, t, r)
  /\ a.aborted = s.aborted
  /\ \A x \in Table \ {t} : /\ new[x] = Null <=> home[x] = Null
                            /\ a.depth[x] = s.depth[x] /\ a.bucket[x] = s.bucket[x]
  /\ \A x \in Heads(home) \ {t} : x \in Heads(new) /\ a.inTree[x] = s.inTree[x]
  /\ \A x \in Heads(new) : x \in Heads(home) \/ s.depth[x] < r
  /\ \A x \in Heads(home) : s.depth[x] = r => a.parallel[x] = s.parallel[x]
  /\ \/ home[t] = Null /\ new = home /\ a.root = s.root
     \/ /\ home[t] # Null /\ s.root # Null /\ s.length = Capacity
        /\ s.depth[t] = s.depth[s.root] /\ s.depth[s.root] < r

(* What making the table t for rank r of s leaves: t is empty, no other table *)
(* left the tree, and t was in none of the lists or in the root level.     *)
Made(s, home, t, r, m, new) ==
  /\ t \in Table /\ t <= m.length /\ m.bucket[t] = EmptyBucket /\ m.depth[t] = r
  /\ m.aborted = s.aborted
  /\ \A x \in Table \ {t} : /\ new[x] = Null <=> home[x] = Null
                            /\ m.depth[x] = s.depth[x] /\ m.bucket[x] = s.bucket[x]
  /\ home[t] # Null =>
       /\ s.root # Null /\ s.length = Capacity
       /\ s.depth[t] = s.depth[s.root] /\ s.depth[s.root] < r

(* u differs from s in the links of t and of tables in the lists. *)
Relinked(u, s, home, t) ==
  /\ u \in State
  /\ u.length = s.length /\ u.bad = s.bad /\ u.aborted = s.aborted
  /\ u.depth = s.depth /\ u.bucket = s.bucket
  /\ \A x \in Table \ {t} : home[x] = Null =>
       u.inTree[x] = s.inTree[x] /\ u.parallel[x] = s.parallel[x]

-----------------------------------------------------------------------------
(* Numbers and finite sets. *)

LEMMA LeastIs ==
  ASSUME NEW T \in SUBSET Nat, T # {}
  PROVE  \E m \in T : \A n \in T : m <= n
<1> DEFINE R == OpToRel(<, Nat)
<1>1. IsWellFoundedOn(R, Nat)
  BY NatLessThanWellFounded
<1>2. \A x, y \in Nat : <<x, y>> \in R <=> x < y
  BY DEF OpToRel
<1> HIDE DEF R
<1>3. PICK m \in T : \A n \in T : ~(<<n, m>> \in R)
  BY <1>1, WFMin
<1>4. ASSUME NEW n \in T
      PROVE  m <= n
  <2>1. m \in Nat /\ n \in Nat /\ ~ (n < m)
    BY <1>2, <1>3
  <2> QED
    BY <2>1
<1> QED
  BY <1>4

LEMMA MinIs ==
  ASSUME NEW T \in SUBSET Nat, T # {}
  PROVE  Min(T) \in T /\ \A n \in T : Min(T) <= n
BY LeastIs DEF Min

LEMMA MaxOfZero ==
  ASSUME NEW x \in Int
  PROVE  Max({0, x}) \in Nat
<1>1. \E m \in {0, x} : \A n \in {0, x} : m >= n
  <2>1. CASE x >= 0
    BY <2>1
  <2>2. CASE x < 0
    BY <2>2
  <2> QED
    BY <2>1, <2>2
<1>2. Max({0, x}) \in {0, x} /\ Max({0, x}) >= 0
  BY <1>1 DEF Max
<1> QED
  BY <1>2

(* A function on one more number than there are tables takes two numbers   *)
(* to the same table.                                                      *)
LEMMA TooManySteps ==
  ASSUME NEW w \in [0..Capacity -> Table]
  PROVE  \E m, n \in 0..Capacity : m < n /\ w[m] = w[n]
<1>1. /\ IsFiniteSet(0..Capacity) /\ Cardinality(0..Capacity) = Capacity + 1
      /\ IsFiniteSet(Table) /\ Cardinality(Table) = Capacity
  <2>1. 0 \in Int /\ 1 \in Int /\ Capacity \in Int /\ Capacity >= 1
    BY RoutingTableAssumption
  <2> QED
    BY <2>1, FS_Interval DEF Table
<1>2. Cardinality(Table) < Cardinality(0..Capacity)
  BY <1>1, RoutingTableAssumption
<1>3. PICK x \in 0..Capacity, y \in 0..Capacity : x # y /\ w[x] = w[y]
  <2> DEFINE S == 0..Capacity
  <2>1. w \in [S -> Table] /\ IsFiniteSet(S) /\ IsFiniteSet(Table)
        /\ Cardinality(Table) < Cardinality(S)
    BY <1>1, <1>2
  <2> HIDE DEF S
  <2>2. \E x, y \in S : x # y /\ w[x] = w[y]
    BY <2>1, FS_PigeonHole
  <2> QED
    BY <2>2 DEF S
<1>4. x < y \/ y < x
  BY <1>3
<1> QED
  BY <1>3, <1>4

-----------------------------------------------------------------------------
(* Walks. *)

(* w makes m steps from t. *)
Walks(w, link, t, m) ==
  w = [n \in 0..m |-> IF n = 0 THEN t ELSE IF w[n - 1] = Null THEN Null ELSE link[w[n - 1]]]

LEMMA WalkExists ==
  ASSUME NEW link, NEW t
  PROVE  \E w : Walks(w, link, t, Capacity)
<1> DEFINE Is(w, m) == Walks(w, link, t, m)
           Bad == {m \in Nat : ~ \E w : Is(w, m)}
<1>1. SUFFICES ASSUME Bad # {} PROVE FALSE
  BY RoutingTableAssumption
<1>2. PICK m \in Bad : \A n \in Bad : m <= n
  <2>1. Bad \in SUBSET Nat
    OBVIOUS
  <2> HIDE DEF Bad
  <2> QED
    BY <1>1, <2>1, LeastIs
<1>3. m \in Nat /\ m # 0
  <2>1. Is([n \in 0..0 |-> t], 0)
    BY DEF Walks
  <2> QED
    BY <2>1
<1>4. PICK w : Is(w, m - 1)
  <2>1. m - 1 \in Nat /\ ~ (m <= m - 1)
    BY <1>3
  <2>2. m - 1 \notin Bad
    <3> HIDE DEF Bad
    <3> QED
      BY <1>2, <2>1
  <2> QED
    BY <2>1, <2>2
<1> DEFINE v == [n \in 0..m |->
             IF n <= m - 1 THEN w[n] ELSE IF w[m - 1] = Null THEN Null ELSE link[w[m - 1]]]
<1>5. Is(v, m)
  <2>1. \A n \in 0..(m - 1) :
          w[n] = IF n = 0 THEN t ELSE IF w[n - 1] = Null THEN Null ELSE link[w[n - 1]]
    BY <1>4 DEF Walks
  <2>2. ASSUME NEW n \in 0..m
        PROVE  v[n] = IF n = 0 THEN t ELSE IF v[n - 1] = Null THEN Null ELSE link[v[n - 1]]
    <3>1. CASE n = 0
      BY <3>1, <1>3, <2>1
    <3>2. CASE n # 0
      <4>1. v[n - 1] = w[n - 1]
        BY <1>3, <3>2
      <4>2. CASE n <= m - 1
        BY <4>1, <4>2, <3>2, <1>3, <2>1
      <4>3. CASE n = m
        BY <4>1, <4>3, <3>2, <1>3
      <4> QED
        BY <4>2, <4>3, <1>3
    <3> QED
      BY <3>1, <3>2
  <2> QED
    BY <2>2 DEF Walks
<1> QED
  BY <1>2, <1>5

LEMMA AlongIs ==
  ASSUME NEW link, NEW t
  PROVE  /\ DOMAIN Along(link, t) = 0..Capacity
         /\ Along(link, t) = [n \in 0..Capacity |-> Along(link, t)[n]]
         /\ Along(link, t)[0] = t
         /\ \A n \in 1..Capacity :
              Along(link, t)[n] = IF Along(link, t)[n - 1] = Null THEN Null
                                  ELSE link[Along(link, t)[n - 1]]
<1> DEFINE w == Along(link, t)
           Is(v) == Walks(v, link, t, Capacity)
<1>1. w = CHOOSE v : Is(v)
  BY DEF Along, Walks
<1>2. \E v : Is(v)
  BY WalkExists
<1> HIDE DEF Is
<1>3. Is(w)
  BY <1>1, <1>2
<1> USE DEF Is, Walks
<1> HIDE DEF w
<1>4. \A n \in 1..Capacity : n - 1 \in 0..Capacity /\ n # 0 /\ n \in 0..Capacity
  BY RoutingTableAssumption
<1>5. 0 \in 0..Capacity
  BY RoutingTableAssumption
<1>6. /\ DOMAIN w = 0..Capacity /\ w[0] = t /\ w = [n \in 0..Capacity |-> w[n]]
      /\ \A n \in 1..Capacity :
           w[n] = IF w[n - 1] = Null THEN Null ELSE link[w[n - 1]]
  BY <1>3, <1>4, <1>5
<1> QED
  BY <1>6 DEF w

-----------------------------------------------------------------------------
(* A walk from the head of a chain goes up its order, ends, and visits all *)
(* of it.                                                                  *)

LEMMA WalkStays ==
  ASSUME NEW S, NEW link, NEW head, NEW ord, Chain(S, link, head, ord)
  PROVE  \A n \in 0..Capacity : Along(link, head)[n] \in S \cup {Null}
<1> DEFINE w == Along(link, head)
           Bad == {n \in 0..Capacity : w[n] \notin S \cup {Null}}
<1>1. SUFFICES ASSUME Bad # {} PROVE FALSE
  OBVIOUS
<1>2. PICK m \in Bad : \A n \in Bad : m <= n
  <2>1. Bad \in SUBSET Nat
    OBVIOUS
  <2> HIDE DEF Bad
  <2> QED
    BY <1>1, <2>1, LeastIs
<1>3. m # 0
  BY AlongIs DEF Chain
<1>4. m - 1 \in 0..Capacity /\ m \in 1..Capacity /\ ~ (m <= m - 1)
  BY <1>3, RoutingTableAssumption
<1>5. w[m - 1] \in S \cup {Null}
  <2>1. m - 1 \notin Bad
    <3> HIDE DEF Bad
    <3> QED
      BY <1>2, <1>4
  <2> QED
    BY <1>4, <2>1
<1>6. w[m] = IF w[m - 1] = Null THEN Null ELSE link[w[m - 1]]
  BY <1>4, AlongIs
<1> HIDE DEF w
<1>7. w[m] \in S \cup {Null}
  BY <1>5, <1>6 DEF Chain
<1> QED
  BY <1>7

LEMMA WalkClimbs ==
  ASSUME NEW S, NEW link, NEW head, NEW ord, Chain(S, link, head, ord)
  PROVE  \A n \in 0..Capacity : Along(link, head)[n] # Null =>
           \A m \in 0..(n - 1) : /\ Along(link, head)[m] # Null
                                 /\ ord[Along(link, head)[m]] < ord[Along(link, head)[n]]
<1> DEFINE w == Along(link, head)
           Good(n) == w[n] # Null => \A m \in 0..(n - 1) : w[m] # Null /\ ord[w[m]] < ord[w[n]]
           Bad == {n \in 0..Capacity : ~ Good(n)}
<1>1. SUFFICES ASSUME Bad # {} PROVE FALSE
  OBVIOUS
<1>2. PICK k \in Bad : \A n \in Bad : k <= n
  <2>1. Bad \in SUBSET Nat
    OBVIOUS
  <2> HIDE DEF Bad
  <2> QED
    BY <1>1, <2>1, LeastIs
<1>3. k \in 0..Capacity /\ k # 0
  OBVIOUS
<1>4. k - 1 \in 0..Capacity /\ k \in 1..Capacity /\ ~ (k <= k - 1)
  BY <1>3, RoutingTableAssumption
<1>5. Good(k - 1)
  <2>1. k - 1 \notin Bad
    <3> HIDE DEF Bad
    <3> QED
      BY <1>2, <1>4
  <2> QED
    BY <1>4, <2>1
<1>x. \A m \in 0..(k - 1) : m \in 0..Capacity
  BY <1>3, RoutingTableAssumption
<1>6. /\ w[k] = IF w[k - 1] = Null THEN Null ELSE link[w[k - 1]]
      /\ w[k] \in S \cup {Null} /\ w[k - 1] \in S \cup {Null}
      /\ \A m \in 0..(k - 1) : w[m] \in S \cup {Null}
  BY <1>4, <1>x, AlongIs, WalkStays
<1> HIDE DEF w
<1>7. ASSUME w[k] # Null, NEW m \in 0..(k - 1)
      PROVE  w[m] # Null /\ ord[w[m]] < ord[w[k]]
  <2>1. w[k - 1] # Null /\ ord[w[k - 1]] < ord[w[k]]
    BY <1>6, <1>7 DEF Chain
  <2>2. CASE m = k - 1
    BY <2>1, <2>2
  <2>3. CASE m # k - 1
    <3>1. m \in 0..((k - 1) - 1)
      BY <1>3, <2>3
    <3>2. w[m] # Null /\ ord[w[m]] < ord[w[k - 1]]
      BY <1>5, <2>1, <3>1
    <3>3. ord[w[m]] \in Nat /\ ord[w[k - 1]] \in Nat /\ ord[w[k]] \in Nat
      BY <1>6, <1>7, <2>1, <3>2 DEF Chain
    <3> QED
      BY <2>1, <3>2, <3>3
  <2> QED
    BY <2>2, <2>3
<1> QED
  BY <1>7

LEMMA WalkEnds ==
  ASSUME NEW S, NEW link, NEW head, NEW ord, Chain(S, link, head, ord)
  PROVE  Along(link, head)[Capacity] = Null
<1> DEFINE w == Along(link, head)
<1>1. SUFFICES ASSUME w[Capacity] # Null PROVE FALSE
  OBVIOUS
<1>2. Capacity \in 0..Capacity /\ \A n \in 0..Capacity : n = Capacity \/ n \in 0..(Capacity - 1)
  BY RoutingTableAssumption
<1>3. \A n \in 0..Capacity : w[n] # Null
  BY <1>1, <1>2, WalkClimbs
<1>4. w \in [0..Capacity -> Table]
  <2>1. \A n \in 0..Capacity : w[n] \in S
    BY <1>3, WalkStays
  <2>2. w = [n \in 0..Capacity |-> w[n]]
    BY AlongIs
  <2> QED
    BY <2>1, <2>2 DEF Chain
<1>5. PICK m \in 0..Capacity, n \in 0..Capacity : m < n /\ w[m] = w[n]
  <2> HIDE DEF w
  <2> QED
    BY <1>4, TooManySteps
<1>6. m \in 0..(n - 1)
  BY <1>5
<1>7. ord[w[m]] < ord[w[n]]
  BY <1>3, <1>6, WalkClimbs
<1>8. ord[w[n]] \in Nat
  BY <1>3, WalkStays DEF Chain
<1> QED
  BY <1>5, <1>7, <1>8

LEMMA WalkVisits ==
  ASSUME NEW S, NEW link, NEW head, NEW ord, Chain(S, link, head, ord), NEW t \in S
  PROVE  \E n \in 0..Capacity : Along(link, head)[n] = t
<1> DEFINE w == Along(link, head)
           Visited(u) == \E n \in 0..Capacity : w[n] = u
           Missed == {u \in S : ~ Visited(u)}
           Orders == {ord[u] : u \in Missed}
<1>1. SUFFICES ASSUME Missed # {} PROVE FALSE
  OBVIOUS
<1>2. PICK x \in Orders : \A y \in Orders : x <= y
  <2>1. Orders \in SUBSET Nat /\ Orders # {}
    BY <1>1 DEF Chain
  <2> HIDE DEF Orders
  <2> QED
    BY <2>1, LeastIs
<1>3. PICK u \in Missed : x = ord[u]
  OBVIOUS
<1>4. u # head
  <2>1. 0 \in 0..Capacity /\ w[0] = head
    BY AlongIs, RoutingTableAssumption
  <2> QED
    BY <2>1
<1>5. PICK v \in S : link[v] = u
  BY <1>4 DEF Chain
<1>6. Visited(v)
  <2>1. ord[v] < ord[u] /\ ord[v] \in Nat /\ ord[u] \in Nat
    <3>1. u \in Table /\ u # Null
      BY DEF Chain, Table, Null
    <3> QED
      BY <1>5, <3>1 DEF Chain
  <2>2. ord[v] \notin Orders
    BY <1>2, <1>3, <2>1
  <2> QED
    BY <2>2
<1>7. PICK n \in 0..Capacity : w[n] = v
  BY <1>6
<1>8. v # Null
  BY DEF Chain, Table, Null
<1>9. n + 1 \in 1..Capacity /\ (n + 1) - 1 = n
  <2>1. n # Capacity
    BY <1>7, <1>8, WalkEnds
  <2> QED
    BY <2>1, RoutingTableAssumption
<1>10. w[n + 1] = u
  BY <1>5, <1>7, <1>8, <1>9, AlongIs
<1> QED
  BY <1>3, <1>9, <1>10

LEMMA ChainMembers ==
  ASSUME NEW S, NEW link, NEW head, NEW ord, Chain(S, link, head, ord)
  PROVE  Members(Along(link, head)) = S /\ Along(link, head)[Capacity] = Null
<1>1. Null \notin S
  BY DEF Chain, Table, Null
<1>2. \A t \in S : \E n \in 0..Capacity : Along(link, head)[n] = t
  BY WalkVisits
<1> DEFINE w == Along(link, head)
<1>3. DOMAIN w = 0..Capacity /\ \A n \in 0..Capacity : w[n] \in S \cup {Null}
  BY AlongIs, WalkStays
<1>4. w[Capacity] = Null
  BY WalkEnds
<1>5. Members(w) = S
  <2> HIDE DEF w
  <2>1. \A t \in S : \E n \in 0..Capacity : w[n] = t
    BY <1>2 DEF w
  <2> QED
    BY <1>1, <1>3, <2>1 DEF Members
<1> QED
  BY <1>4, <1>5

(* Where an order says where a member is, no two have the same.            *)
LEMMA ChainOrdered ==
  ASSUME NEW S, NEW link, NEW head, NEW ord, Chain(S, link, head, ord),
         NEW t \in S, NEW u \in S, t # u
  PROVE  ord[t] # ord[u] /\ (link[t] # Null => link[t] # link[u])
<1> DEFINE w == Along(link, head)
<1>1. PICK m \in 0..Capacity : w[m] = t
  BY WalkVisits
<1>2. PICK n \in 0..Capacity : w[n] = u
  BY WalkVisits
<1>3. t # Null /\ u # Null
  BY DEF Chain, Table, Null
<1>4. m \in 0..(n - 1) \/ n \in 0..(m - 1)
  BY <1>1, <1>2
<1>5. ord[t] < ord[u] \/ ord[u] < ord[t]
  BY <1>1, <1>2, <1>3, <1>4, WalkClimbs
<1>6. ord[t] \in Nat /\ ord[u] \in Nat
  BY DEF Chain
<1>7. ASSUME link[t] # Null, link[t] = link[u]
      PROVE  FALSE
  <2>1. m + 1 \in 1..Capacity /\ n + 1 \in 1..Capacity
        /\ (m + 1) - 1 = m /\ (n + 1) - 1 = n
    <3>1. m # Capacity /\ n # Capacity
      BY <1>1, <1>2, <1>3, WalkEnds
    <3> QED
      BY <3>1, RoutingTableAssumption
  <2>2. w[m + 1] = link[t] /\ w[n + 1] = link[t]
    BY <1>1, <1>2, <1>3, <1>7, <2>1, AlongIs
  <2>3. m + 1 \in 0..((n + 1) - 1) \/ n + 1 \in 0..((m + 1) - 1)
    BY <1>4, <2>1
  <2>4. ord[link[t]] < ord[link[t]]
    BY <1>7, <2>1, <2>2, <2>3, WalkClimbs
  <2>5. ord[link[t]] \in Nat
    BY <1>7 DEF Chain
  <2> QED
    BY <2>4, <2>5
<1> QED
  BY <1>5, <1>6, <1>7

(* The first on the walk is the lowest in the order.                       *)
LEMMA FirstInChain ==
  ASSUME NEW S, NEW link, NEW head, NEW ord, Chain(S, link, head, ord), NEW T \in SUBSET Table
  PROVE  LET x == FirstOf(Along(link, head), T)
         IN  IF S \cap T = {} THEN x = Null
             ELSE x \in S \cap T /\ \A y \in S \cap T : ord[x] <= ord[y]
<1> DEFINE w == Along(link, head)
           hits == {n \in 0..Capacity : w[n] \in T}
           x == FirstOf(w, T)
<1>1. x = IF hits = {} THEN Null ELSE w[Min(hits)]
  BY AlongIs DEF FirstOf
<1>2. Null \notin T
  BY DEF Table, Null
<1>3. \A n \in hits : w[n] \in S \cap T
  BY <1>2, WalkStays
<1>4. \A y \in S \cap T : \E n \in hits : w[n] = y
  BY WalkVisits
<1>5. CASE hits = {}
  BY <1>1, <1>4, <1>5
<1>6. CASE hits # {}
  <2>1. hits \in SUBSET Nat
    OBVIOUS
  <2>2. Min(hits) \in hits /\ \A n \in hits : Min(hits) <= n
    <3> HIDE DEF hits
    <3> QED
      BY <1>6, <2>1, MinIs
  <2>3. x = w[Min(hits)] /\ x \in S \cap T
    BY <1>1, <1>3, <1>6, <2>2
  <2>4. ASSUME NEW y \in S \cap T
        PROVE  ord[x] <= ord[y]
    <3>1. PICK n \in hits : w[n] = y
      BY <1>4
    <3>2. ord[x] \in Nat /\ ord[y] \in Nat
      BY <2>3 DEF Chain
    <3>3. CASE n = Min(hits)
      BY <2>3, <3>1, <3>2, <3>3
    <3>4. CASE n # Min(hits)
      <4>1. Min(hits) \in 0..(n - 1) /\ n \in 0..Capacity /\ w[n] # Null
        BY <1>2, <2>2, <3>1, <3>4
      <4>2. ord[w[Min(hits)]] < ord[w[n]]
        BY <4>1, WalkClimbs
      <4> QED
        BY <2>3, <3>1, <3>2, <4>2
    <3> QED
      BY <3>3, <3>4
  <2> QED
    BY <2>3, <2>4
<1> QED
  BY <1>5, <1>6

(* Nothing links to the head.                                              *)
LEMMA HeadIsLowest ==
  ASSUME NEW S, NEW link, NEW head, NEW ord, Chain(S, link, head, ord), head # Null
  PROVE  \A t \in S : ord[head] <= ord[t] /\ link[t] # head
<1> DEFINE w == Along(link, head)
<1>1. 0 \in 0..Capacity /\ w[0] = head /\ ord[head] \in Nat
  BY AlongIs, RoutingTableAssumption DEF Chain
<1>2. ASSUME NEW t \in S
      PROVE  ord[head] <= ord[t]
  <2>1. PICK n \in 0..Capacity : w[n] = t
    BY WalkVisits
  <2>2. t # Null /\ ord[t] \in Nat
    BY DEF Chain, Table, Null
  <2>3. CASE n = 0
    BY <1>1, <2>1, <2>2, <2>3
  <2>4. CASE n # 0
    <3>1. 0 \in 0..(n - 1)
      BY <2>4
    <3>2. ord[w[0]] < ord[w[n]]
      BY <2>1, <2>2, <3>1, WalkClimbs
    <3> QED
      BY <1>1, <2>1, <2>2, <3>2
  <2> QED
    BY <2>3, <2>4
<1>3. ASSUME NEW t \in S, link[t] = head
      PROVE  FALSE
  <2>1. ord[t] < ord[head] /\ ord[t] \in Nat
    BY <1>3 DEF Chain
  <2>2. ord[head] <= ord[t]
    BY <1>2
  <2> QED
    BY <1>1, <2>1, <2>2
<1> QED
  BY <1>2, <1>3

(* A list has a last member. *)
LEMMA LastOfChain ==
  ASSUME NEW S, NEW link, NEW head, NEW ord, Chain(S, link, head, ord), head # Null
  PROVE  \E t \in S : link[t] = Null
<1> DEFINE w == Along(link, head)
           Ends == {n \in 0..Capacity : w[n] = Null}
<1>1. Capacity \in Ends
  BY WalkEnds, RoutingTableAssumption
<1>2. PICK n \in Ends : \A m \in Ends : n <= m
  <2>1. Ends \in SUBSET Nat /\ Ends # {}
    BY <1>1
  <2> HIDE DEF Ends
  <2> QED
    BY <2>1, LeastIs
<1>3. n # 0
  BY AlongIs
<1>4. n - 1 \in 0..Capacity /\ n \in 1..Capacity /\ ~ (n <= n - 1)
  BY <1>3, RoutingTableAssumption
<1>5. n - 1 \notin Ends
  <2> HIDE DEF Ends
  <2> QED
    BY <1>2, <1>4
<1>6. w[n - 1] # Null /\ w[n] = Null
  BY <1>4, <1>5
<1>7. w[n - 1] \in S
  BY <1>4, <1>6, WalkStays
<1>8. link[w[n - 1]] = Null
  BY <1>4, <1>6, AlongIs
<1> QED
  BY <1>7, <1>8

(* A list whose head links to nothing has one member.                      *)
LEMMA SingleChain ==
  ASSUME NEW S, NEW link, NEW head, NEW ord, Chain(S, link, head, ord),
         head # Null, link[head] = Null
  PROVE  S = {head}
<1> DEFINE w == Along(link, head)
<1>1. 0 \in 0..Capacity /\ 1 \in 0..Capacity /\ 1 \in 1..Capacity /\ 1 - 1 = 0
  BY RoutingTableAssumption
<1>2. w[0] = head /\ w[1] = Null
  BY <1>1, AlongIs
<1>3. ASSUME NEW t \in S
      PROVE  t = head
  <2>1. PICK n \in 0..Capacity : w[n] = t
    BY WalkVisits
  <2>2. t # Null
    BY DEF Chain, Table, Null
  <2>3. ~ (1 \in 0..(n - 1))
    BY <1>2, <2>1, <2>2, WalkClimbs
  <2>4. n = 0
    <3>1. n # 1
      BY <1>2, <2>1, <2>2
    <3> QED
      BY <2>3, <3>1
  <2> QED
    BY <1>2, <2>1, <2>4
<1> QED
  BY <1>3 DEF Chain

-----------------------------------------------------------------------------
(* What keeps a chain a chain. *)

LEMMA ChainAgrees ==
  ASSUME NEW S, NEW link, NEW head, NEW ord, Chain(S, link, head, ord),
         NEW newLink, NEW newOrd,
         \A t \in S : newLink[t] = link[t] /\ newOrd[t] \in Nat,
         \A t, u \in S : ord[t] < ord[u] => newOrd[t] < newOrd[u]
  PROVE  Chain(S, newLink, head, newOrd)
BY DEF Chain

(* t is linked between a and b. *)
Inserted(S, link, head, ord, t, a, b, newLink, newHead, newOrd) ==
  /\ Chain(S, link, head, ord)
  /\ t \in Table \ S /\ a \in S \cup {Null}
  /\ b = IF a = Null THEN head ELSE link[a]
  /\ newLink[t] = b /\ \A u \in S : newLink[u] = IF u = a THEN t ELSE link[u]
  /\ newHead = IF a = Null THEN t ELSE head
  /\ \A u \in S \cup {t} : newOrd[u] \in Nat
  /\ \A u, v \in S : ord[u] < ord[v] => newOrd[u] < newOrd[v]
  /\ a # Null => newOrd[a] < newOrd[t]
  /\ b # Null => newOrd[t] < newOrd[b]

LEMMA ChainInsert ==
  ASSUME NEW S, NEW link, NEW head, NEW ord, NEW t, NEW a, NEW b,
         NEW newLink, NEW newHead, NEW newOrd,
         Inserted(S, link, head, ord, t, a, b, newLink, newHead, newOrd)
  PROVE  Chain(S \cup {t}, newLink, newHead, newOrd)
<1> USE DEF Inserted
<1>1. t # Null /\ Null \notin S
  BY DEF Chain, Table, Null
<1>2. S \cup {t} \subseteq Table
  BY DEF Chain
<1>3. newHead # Null /\ newHead \in S \cup {t}
  BY <1>1 DEF Chain
<1>4. ASSUME NEW u \in S \cup {t}, newLink[u] # Null
      PROVE  newLink[u] \in S \cup {t} /\ newOrd[u] < newOrd[newLink[u]]
  <2>1. CASE u = t
    <3>1. b \in S
      BY <1>4, <2>1 DEF Chain
    <3> QED
      BY <1>4, <2>1, <3>1
  <2>2. CASE u # t /\ u = a
    BY <1>1, <2>2
  <2>3. CASE u # t /\ u # a
    BY <1>4, <2>3 DEF Chain
  <2> QED
    BY <2>1, <2>2, <2>3
<1>5. ASSUME NEW u \in S \cup {t}, u # newHead
      PROVE  \E v \in S \cup {t} : newLink[v] = u
  <2>1. CASE u = t
    BY <1>5, <2>1
  <2>2. CASE u # t /\ u = b
    BY <2>2
  <2>3. CASE u # t /\ u # b
    <3>1. u # head
      BY <1>5, <2>3
    <3>2. PICK v \in S : link[v] = u
      BY <2>3, <3>1 DEF Chain
    <3>3. v # a
      BY <1>1, <2>3, <3>2
    <3> QED
      BY <3>2, <3>3
  <2> QED
    BY <2>1, <2>2, <2>3
<1> QED
  BY <1>2, <1>3, <1>4, <1>5 DEF Chain

(* t is taken out, what linked to it links to what it linked to. *)
Removed(S, link, head, ord, t, newLink, newHead) ==
  /\ Chain(S, link, head, ord)
  /\ t \in S
  /\ \A u \in S \ {t} : newLink[u] = IF link[u] = t THEN link[t] ELSE link[u]
  /\ newHead = IF t = head THEN link[t] ELSE head

LEMMA ChainRemove ==
  ASSUME NEW S, NEW link, NEW head, NEW ord, NEW t, NEW newLink, NEW newHead,
         Removed(S, link, head, ord, t, newLink, newHead)
  PROVE  Chain(S \ {t}, newLink, newHead, ord)
<1> USE DEF Removed
<1>1. t # Null /\ Null \notin S
  BY DEF Chain, Table, Null
<1>2. head # Null /\ head \in S
  BY DEF Chain
<1>3. link[t] # t /\ \A u \in S : link[u] # head
  <2>1. \A u \in S : link[u] # Null => ord[u] < ord[link[u]] /\ ord[u] \in Nat
    BY DEF Chain
  <2> QED
    BY <1>1, <1>2, <2>1, HeadIsLowest
<1>4. IF newHead = Null THEN S \ {t} = {} ELSE newHead \in S \ {t}
  <2>1. CASE t = head /\ link[t] = Null
    BY <1>2, <2>1, SingleChain
  <2>2. CASE t = head /\ link[t] # Null
    BY <1>3, <2>2 DEF Chain
  <2>3. CASE t # head
    BY <1>2, <2>3
  <2> QED
    BY <2>1, <2>2, <2>3
<1>5. ASSUME NEW u \in S \ {t}, newLink[u] # Null
      PROVE  newLink[u] \in S \ {t} /\ ord[u] < ord[newLink[u]]
  <2>1. CASE link[u] # t
    BY <1>5, <2>1 DEF Chain
  <2>2. CASE link[u] = t
    <3>1. link[t] \in S /\ ord[u] < ord[t] /\ ord[t] < ord[link[t]]
      BY <1>1, <1>5, <2>2 DEF Chain
    <3>2. ord[u] \in Nat /\ ord[t] \in Nat /\ ord[link[t]] \in Nat
      BY <3>1 DEF Chain
    <3> QED
      BY <1>3, <1>5, <2>2, <3>1, <3>2
  <2> QED
    BY <2>1, <2>2
<1>6. ASSUME NEW u \in S \ {t}, u # newHead
      PROVE  \E v \in S \ {t} : newLink[v] = u
  <2>1. u # head
    BY <1>6
  <2>2. PICK v \in S : link[v] = u
    BY <2>1 DEF Chain
  <2>3. CASE v # t
    BY <2>2, <2>3
  <2>4. CASE v = t
    <3>1. t # head
      BY <1>6, <2>2, <2>4
    <3>2. PICK x \in S : link[x] = t
      BY <3>1 DEF Chain
    <3>3. x # t
      BY <1>3, <3>2
    <3> QED
      BY <2>2, <2>4, <3>2, <3>3
  <2> QED
    BY <2>3, <2>4
<1> QED
  BY <1>4, <1>5, <1>6 DEF Chain

-----------------------------------------------------------------------------
(* What the walks of the code find. *)

LEMMA LayoutReads ==
  ASSUME NEW s, NEW home, NEW pos, Layout(s, home, pos)
  PROVE  /\ Members(Levels(s)) = Heads(home)
         /\ \A h \in Heads(home) : Members(Row(s, h)) = Level(home, h)
         /\ \A h \in Heads(home) : Along(s.parallel, h)[Capacity] = Null
         /\ Reachable(s) = InTree(home)
<1>1. Members(Levels(s)) = Heads(home)
  BY ChainMembers DEF Layout, Levels
<1>2. \A h \in Heads(home) :
        Members(Row(s, h)) = Level(home, h) /\ Along(s.parallel, h)[Capacity] = Null
  BY ChainMembers DEF Layout, Row
<1>3. \A t \in InTree(home) : t \in Level(home, home[t]) /\ home[t] \in Heads(home)
  BY DEF Layout, InTree, Level
<1>4. \A h \in Heads(home) : h # Null /\ Level(home, h) \subseteq InTree(home)
  BY DEF Heads, Level, InTree, Table, Null
<1>5. Reachable(s) = InTree(home)
  BY <1>1, <1>2, <1>3, <1>4 DEF Reachable
<1> QED
  BY <1>1, <1>2, <1>5

(* The level of a rank is the one first table with its depth. *)
LEMMA LevelIs ==
  ASSUME NEW s, NEW home, NEW pos, Layout(s, home, pos), NEW r
  PROVE  /\ LevelOf(s, r) \in Heads(home) \cup {Null}
         /\ \A h \in Heads(home) : s.depth[h] = r <=> h = LevelOf(s, r)
<1> DEFINE S == Heads(home)
           T == {t \in Table : s.depth[t] = r}
           x == LevelOf(s, r)
<1>1. Chain(S, s.inTree, s.root, s.depth)
  BY DEF Layout
<1>2. IF S \cap T = {} THEN x = Null ELSE x \in S \cap T
  <2>1. x = FirstOf(Along(s.inTree, s.root), T)
    BY DEF LevelOf, Levels
  <2>2. T \in SUBSET Table
    OBVIOUS
  <2> HIDE DEF S, T, x
  <2> QED
    BY <1>1, <2>1, <2>2, FirstInChain
<1>3. \A h, g \in S : h # g => s.depth[h] # s.depth[g]
  <2> HIDE DEF S
  <2> QED
    BY <1>1, ChainOrdered
<1>4. Null \notin S /\ S \subseteq Table
  BY DEF Heads, Table, Null
<1> HIDE DEF S, x
<1>5. x \in S \cup {Null} /\ \A h \in S : s.depth[h] = r <=> h = x
  BY <1>2, <1>3, <1>4
<1> QED
  BY <1>5 DEF S, x

(* find_node finds whatever is in the tree at the level of its rank. *)
LEMMA FindIs ==
  ASSUME NEW s, NEW home, NEW pos, Layout(s, home, pos), NEW id
  PROVE  Find(s, id) =
           {p \in Stored(s, Table) : /\ home[p[1]] # Null
                                     /\ s.depth[p[1]] = Rank[id]
                                     /\ s.bucket[p[1]][p[2]].id = id}
<1> DEFINE x == LevelOf(s, Rank[id])
<1>1. x \in Heads(home) \cup {Null} /\ \A h \in Heads(home) : s.depth[h] = Rank[id] <=> h = x
  BY LevelIs
<1>2. Members(Row(s, x)) = IF x = Null THEN {} ELSE Level(home, x)
  <2>1. CASE x = Null
    <3>1. Chain({}, s.parallel, Null, pos)
      BY DEF Chain
    <3> HIDE DEF x
    <3> QED
      BY <2>1, <3>1, ChainMembers DEF Row
  <2>2. CASE x # Null
    BY <1>1, <2>2, LayoutReads
  <2> QED
    BY <2>1, <2>2
<1> HIDE DEF x
<1>3. \A t \in Table : t \in Members(Row(s, x)) <=> home[t] # Null /\ s.depth[t] = Rank[id]
  <2> SUFFICES ASSUME NEW t \in Table
               PROVE  t \in Members(Row(s, x)) <=> home[t] # Null /\ s.depth[t] = Rank[id]
    OBVIOUS
  <2>1. CASE home[t] = Null
    BY <1>1, <1>2, <2>1 DEF Level
  <2>2. CASE home[t] # Null
    <3>1. home[t] \in Heads(home) /\ s.depth[t] = s.depth[home[t]]
      BY <2>2 DEF Layout, InTree
    <3> QED
      BY <1>1, <1>2, <2>2, <3>1 DEF Level
  <2> QED
    BY <2>1, <2>2
<1>4. Members(Row(s, x)) \subseteq Table
  BY <1>2 DEF Level
<1> QED
  BY <1>3, <1>4 DEF Find, Stored, x

-----------------------------------------------------------------------------
(* Linking a table that is in no list. *)

(* As a level of its own, after the level a and before the level b. *)
LinkedAsLevel(s, home, pos, t, a, b, u) ==
  /\ Layout(s, home, pos)
  /\ t \in Table /\ home[t] = Null /\ t <= s.length
  /\ s.parallel[t] = Null /\ s.depth[t] \in Nat
  /\ a \in Heads(home) \cup {Null}
  /\ b = IF a = Null THEN s.root ELSE s.inTree[a]
  /\ a # Null => s.depth[a] < s.depth[t]
  /\ b # Null => s.depth[t] < s.depth[b]
  /\ u.length = s.length /\ u.depth = s.depth /\ u.parallel = s.parallel
  /\ u.root = IF a = Null THEN t ELSE s.root
  /\ \A x \in Table : u.inTree[x] = IF x = t THEN b ELSE IF x = a THEN t ELSE s.inTree[x]

LEMMA LevelLinked ==
  ASSUME NEW s, NEW home, NEW pos, NEW t, NEW a, NEW b, NEW u,
         LinkedAsLevel(s, home, pos, t, a, b, u)
  PROVE  Layout(u, [home EXCEPT ![t] = t], pos)
<1> USE DEF LinkedAsLevel
<1> DEFINE new == [home EXCEPT ![t] = t]
<1>1. t # Null /\ a # t /\ Null \notin Table
  BY DEF Heads, Table, Null
<1>2. home \in [Table -> Table \cup {Null}] /\ new \in [Table -> Table \cup {Null}]
  BY DEF Layout
<1>3. new[t] = t /\ \A x \in Table \ {t} : new[x] = home[x]
  BY <1>2
<1>4. \A x \in Table : home[x] # t
  <2>1. t \notin Heads(home)
    BY <1>1 DEF Heads
  <2> QED
    BY <1>1, <2>1 DEF Layout, InTree
<1>5. /\ Heads(new) = Heads(home) \cup {t}
      /\ InTree(new) = InTree(home) \cup {t}
      /\ Level(new, t) = {t}
      /\ \A h \in Heads(home) : Level(new, h) = Level(home, h)
  <2> HIDE DEF new
  <2>1. Heads(new) = Heads(home) \cup {t}
    BY <1>1, <1>3 DEF Heads
  <2>2. InTree(new) = InTree(home) \cup {t}
    BY <1>1, <1>3 DEF InTree
  <2>3. Level(new, t) = {t}
    BY <1>1, <1>3, <1>4 DEF Level
  <2>4. ASSUME NEW h \in Heads(home)
        PROVE  Level(new, h) = Level(home, h)
    <3>1. h # t /\ h # Null
      BY <1>1 DEF Heads
    <3> QED
      BY <1>3, <3>1 DEF Level
  <2> QED
    BY <2>1, <2>2, <2>3, <2>4
<1>6. Chain(Heads(home), s.inTree, s.root, s.depth)
  BY DEF Layout
<1>7. t \notin Heads(home) /\ Heads(home) \subseteq Table
  BY <1>1 DEF Heads
<1> HIDE DEF new
<1>8. Chain(Heads(new), u.inTree, u.root, u.depth)
  <2> DEFINE S == Heads(home)
             link == s.inTree
             newLink == u.inTree
             ord == s.depth
  <2>1. Chain(S, link, s.root, ord) /\ t \notin S /\ a \in S \cup {Null}
    BY <1>6, <1>7
  <2>2. newLink[t] = b /\ \A x \in S : newLink[x] = IF x = a THEN t ELSE link[x]
    BY <1>7
  <2>3. \A x \in S \cup {t} : ord[x] \in Nat
    BY <1>6 DEF Chain
  <2>4. b = IF a = Null THEN s.root ELSE link[a]
    OBVIOUS
  <2>5. (a # Null => ord[a] < ord[t]) /\ (b # Null => ord[t] < ord[b])
    OBVIOUS
  <2>6. \A x, y \in S : ord[x] < ord[y] => ord[x] < ord[y]
    OBVIOUS
  <2> DEFINE head == s.root
             newHead == u.root
  <2>7. newHead = IF a = Null THEN t ELSE head
    OBVIOUS
  <2> HIDE DEF S, link, newLink, ord, head, newHead
  <2>8. Inserted(S, link, head, ord, t, a, b, newLink, newHead, ord)
    BY <2>1, <2>2, <2>3, <2>4, <2>5, <2>6, <2>7 DEF head, Inserted
  <2>9. Chain(S \cup {t}, newLink, newHead, ord)
    BY <2>8, ChainInsert
  <2> QED
    BY <1>5, <2>9 DEF S, newLink, ord, newHead
<1>9. ASSUME NEW h \in Heads(new)
      PROVE  Chain(Level(new, h), u.parallel, h, pos)
  <2>1. CASE h = t
    <3>1. pos[t] \in Nat
      BY DEF Layout
    <3> QED
      BY <1>1, <1>5, <2>1, <3>1 DEF Chain
  <2>2. CASE h # t
    BY <1>5, <2>2 DEF Layout
  <2> QED
    BY <2>1, <2>2
<1>10. ASSUME NEW x \in InTree(new)
       PROVE  /\ new[x] \in Heads(new)
              /\ u.depth[x] = u.depth[new[x]]
              /\ x <= u.length
              /\ x # new[x] => u.inTree[x] = Null
  <2>1. CASE x = t
    BY <1>3, <1>5, <2>1
  <2>2. CASE x # t
    <3>1. x \in InTree(home) /\ x \in Table /\ new[x] = home[x]
      BY <1>3, <1>5, <2>2 DEF InTree
    <3>2. x # home[x] => x # a
      BY <1>1, <3>1 DEF Heads, InTree
    <3> QED
      BY <1>1, <1>5, <2>2, <3>1, <3>2 DEF Layout
  <2> QED
    BY <2>1, <2>2
<1>11. pos \in [Table -> Nat]
  BY DEF Layout
<1>12. Layout(u, new, pos)
  BY <1>2, <1>8, <1>9, <1>10, <1>11 DEF Layout, new
<1> QED
  BY <1>12 DEF new

(* After the first table of a level. *)
LinkedAfter(s, home, pos, t, h, u) ==
  /\ Layout(s, home, pos)
  /\ t \in Table /\ home[t] = Null /\ t <= s.length /\ s.inTree[t] = Null
  /\ h \in Heads(home) /\ s.depth[t] = s.depth[h]
  /\ u.length = s.length /\ u.depth = s.depth /\ u.inTree = s.inTree /\ u.root = s.root
  /\ \A x \in Table : u.parallel[x] = IF x = t THEN s.parallel[h]
                                       ELSE IF x = h THEN t ELSE s.parallel[x]

LEMMA RowLinked ==
  ASSUME NEW s, NEW home, NEW pos, NEW t, NEW h, NEW u,
         LinkedAfter(s, home, pos, t, h, u)
  PROVE  Layout(u, [home EXCEPT ![t] = h],
                   [x \in Table |-> IF x = t THEN 2 * pos[h] + 1 ELSE 2 * pos[x]])
<1> USE DEF LinkedAfter
<1> DEFINE new == [home EXCEPT ![t] = h]
           newPos == [x \in Table |-> IF x = t THEN 2 * pos[h] + 1 ELSE 2 * pos[x]]
<1>1. t # Null /\ h # t /\ h # Null /\ h \in Table /\ home[h] = h /\ Null \notin Table
  BY DEF Heads, Table, Null
<1>2. home \in [Table -> Table \cup {Null}] /\ new \in [Table -> Table \cup {Null}]
  BY <1>1 DEF Layout
<1>3. new[t] = h /\ \A x \in Table \ {t} : new[x] = home[x]
  BY <1>2
<1>4. pos \in [Table -> Nat]
  BY DEF Layout
<1>5. /\ newPos \in [Table -> Nat]
      /\ \A x, y \in Table \ {t} : pos[x] < pos[y] => newPos[x] < newPos[y]
      /\ newPos[h] < newPos[t]
      /\ \A x \in Table \ {t} : pos[h] < pos[x] => newPos[t] < newPos[x]
  BY <1>1, <1>4
<1> HIDE DEF new, newPos
<1>6. /\ Heads(new) = Heads(home)
      /\ InTree(new) = InTree(home) \cup {t}
      /\ Level(new, h) = Level(home, h) \cup {t}
      /\ \A g \in Heads(home) \ {h} : Level(new, g) = Level(home, g)
      /\ \A g \in Heads(home) : t \notin Level(home, g)
  <2>1. Heads(new) = Heads(home)
    BY <1>1, <1>3 DEF Heads
  <2>2. InTree(new) = InTree(home) \cup {t}
    BY <1>1, <1>3 DEF InTree
  <2>3. Level(new, h) = Level(home, h) \cup {t}
    BY <1>1, <1>3 DEF Level
  <2>4. ASSUME NEW g \in Heads(home)
        PROVE  t \notin Level(home, g) /\ (g # h => Level(new, g) = Level(home, g))
    <3>1. g # Null
      BY <1>1 DEF Heads
    <3> QED
      BY <1>3, <3>1 DEF Level
  <2> QED
    BY <2>1, <2>2, <2>3, <2>4
<1>7. Chain(Heads(new), u.inTree, u.root, u.depth)
  BY <1>6 DEF Layout
<1>8. ASSUME NEW g \in Heads(new)
      PROVE  Chain(Level(new, g), u.parallel, g, newPos)
  <2> DEFINE S == Level(home, g)
  <2>1. g \in Heads(home) /\ Chain(S, s.parallel, g, pos) /\ t \notin S /\ S \subseteq Table
    BY <1>6 DEF Layout, Level
  <2>2. \A x \in S : newPos[x] \in Nat
    BY <1>5, <2>1
  <2>3. \A x, y \in S : pos[x] < pos[y] => newPos[x] < newPos[y]
    BY <1>5, <2>1
  <2> HIDE DEF S
  <2>4. CASE g # h
    <3>1. h \notin S
      BY <1>1, <2>4 DEF S, Level
    <3>2. \A x \in S : u.parallel[x] = s.parallel[x]
      BY <2>1, <3>1
    <3>3. Level(new, g) = S
      BY <1>6, <2>1, <2>4 DEF S
    <3> DEFINE link == s.parallel
               newLink == u.parallel
    <3>4. Chain(S, link, g, pos) /\ \A x \in S : newLink[x] = link[x]
      BY <2>1, <3>2
    <3> HIDE DEF link, newLink
    <3>5. Chain(S, newLink, g, newPos)
      BY <2>2, <2>3, <3>4, ChainAgrees
    <3> QED
      BY <3>3, <3>5 DEF newLink
  <2>5. CASE g = h
    <3> DEFINE link == s.parallel
               newLink == u.parallel
               b == s.parallel[h]
    <3>1. h \in S
      BY <1>1, <2>5 DEF S, Level
    <3>2. \A x \in S : newLink[x] = IF x = h THEN t ELSE link[x]
      BY <2>1
    <3>3. newLink[t] = b /\ b = link[h]
      OBVIOUS
    <3>4. b # Null => newPos[t] < newPos[b]
      <4>1. b # Null => b \in S /\ pos[h] < pos[b]
        BY <2>1, <3>1 DEF Chain
      <4> QED
        BY <1>5, <2>1, <4>1
    <3>5. \A x \in S \cup {t} : newPos[x] \in Nat
      BY <1>5, <2>2
    <3>6. Chain(S, link, h, pos) /\ Level(new, g) = S \cup {t}
      BY <1>6, <2>1, <2>5 DEF S
    <3>7. h = (IF h = Null THEN t ELSE h) /\ b = (IF h = Null THEN h ELSE link[h])
      BY <1>1
    <3>8. h \in S \cup {Null} /\ t \notin S /\ newPos[h] < newPos[t]
      BY <1>5, <2>1, <3>1
    <3> HIDE DEF link, newLink, b
    <3>9. Inserted(S, link, h, pos, t, h, b, newLink, h, newPos)
      BY <2>3, <3>2, <3>3, <3>4, <3>5, <3>6, <3>7, <3>8 DEF Inserted
    <3>10. Chain(S \cup {t}, newLink, h, newPos)
      BY <3>9, ChainInsert
    <3> QED
      BY <2>5, <3>6, <3>10 DEF newLink
  <2> QED
    BY <2>4, <2>5
<1>9. ASSUME NEW x \in InTree(new)
      PROVE  /\ new[x] \in Heads(new)
             /\ u.depth[x] = u.depth[new[x]]
             /\ x <= u.length
             /\ x # new[x] => u.inTree[x] = Null
  <2>1. CASE x = t
    BY <1>3, <1>6, <2>1
  <2>2. CASE x # t
    <3>1. x \in InTree(home) /\ x \in Table /\ new[x] = home[x]
      BY <1>3, <1>6, <2>2 DEF InTree
    <3> QED
      BY <1>6, <3>1 DEF Layout
  <2> QED
    BY <2>1, <2>2
<1>10. Layout(u, new, newPos)
  BY <1>2, <1>5, <1>7, <1>8, <1>9 DEF Layout
<1> QED
  BY <1>10 DEF new, newPos

-----------------------------------------------------------------------------
(* Taking a table out of the root level. *)

LEMMA NullIsNoTable == Null \notin Table
BY DEF Null, Table

LEMMA StateIs ==
  ASSUME NEW s \in State
  PROVE  /\ s.root \in Table \cup {Null}
         /\ s.length \in 0..Capacity
         /\ s.total \in Nat /\ s.bad \in Nat /\ s.aborted \in BOOLEAN
         /\ s.depth \in [Table -> Range(Rank) \cup {-1}]
         /\ s.inTree \in [Table -> Table \cup {Null}]
         /\ s.parallel \in [Table -> Table \cup {Null}]
         /\ s.bucket \in [Table -> [Index -> Contact \cup {NoContact}]]
BY DEF State

(* The second table of a level takes over from the first. *)
Without(s, home, t) ==
  [x \in Table |-> IF x = t THEN Null ELSE IF home[x] = t THEN s.parallel[t] ELSE home[x]]

LEMMA UnlinkedIs ==
  ASSUME NEW s \in State, NEW home, NEW pos, Layout(s, home, pos), s.root # Null,
         NEW t \in Level(home, s.root)
  PROVE  LET u == Unlinked(s, t)
             p == s.parallel[t]
         IN  /\ u \in State
             /\ u.length = s.length /\ u.total = s.total /\ u.bad = s.bad
             /\ u.aborted = s.aborted /\ u.depth = s.depth /\ u.bucket = s.bucket
             /\ u.root = IF t # s.root THEN s.root ELSE IF p # Null THEN p ELSE s.inTree[t]
             /\ \A x \in Table : u.inTree[x] = IF x = t THEN Null
                                              ELSE IF t = s.root /\ x = p THEN s.inTree[t]
                                              ELSE s.inTree[x]
             /\ \A x \in Table : u.parallel[x] =
                  IF x = t THEN Null
                  ELSE IF x \in Level(home, s.root) /\ s.parallel[x] = t THEN p
                  ELSE s.parallel[x]
<1> DEFINE S == Level(home, s.root)
           u == Unlinked(s, t)
           p == s.parallel[t]
           cleared == [s EXCEPT !.inTree[t] = Null, !.parallel[t] = Null]
<1>1. s.root \in Heads(home) /\ Chain(S, s.parallel, s.root, pos)
  BY DEF Layout, Chain
<1>2. /\ t \in Table /\ t # Null /\ p \in Table \cup {Null} /\ Null \notin Table
      /\ s.inTree[t] \in Table \cup {Null}
      /\ s.inTree \in [Table -> Table \cup {Null}]
      /\ s.parallel \in [Table -> Table \cup {Null}]
  <2>1. t \in Table
    BY DEF Level
  <2> QED
    BY <2>1, NullIsNoTable, StateIs
<1>3. p # Null => p # t
  BY <1>1, <1>2 DEF Chain
<1>4. /\ cleared \in State
      /\ cleared.length = s.length /\ cleared.total = s.total /\ cleared.bad = s.bad
      /\ cleared.aborted = s.aborted /\ cleared.depth = s.depth /\ cleared.bucket = s.bucket
      /\ cleared.root = s.root
      /\ cleared.inTree = [s.inTree EXCEPT ![t] = Null]
      /\ cleared.parallel = [s.parallel EXCEPT ![t] = Null]
  BY <1>2 DEF State
<1> HIDE DEF cleared
<1>5. CASE t # s.root
  <2> DEFINE before == CHOOSE b \in Members(Row(s, s.root)) : s.parallel[b] = t
  <2>1. before \in S /\ s.parallel[before] = t
    <3>1. Members(Row(s, s.root)) = S
      BY <1>1, LayoutReads
    <3>2. \E b \in S : s.parallel[b] = t
      BY <1>1, <1>5 DEF Chain
    <3> QED
      BY <3>1, <3>2
  <2>2. u = [cleared EXCEPT !.parallel[before] = p]
    BY <1>5 DEF Unlinked, cleared
  <2>3. \A x \in S : x # before => s.parallel[x] # t
    <3> HIDE DEF S, before
    <3> QED
      BY <1>1, <1>2, <2>1, ChainOrdered
  <2>4. before \in Table /\ before # t
    <3> HIDE DEF before
    <3> QED
      BY <1>2, <1>3, <2>1 DEF Level
  <2> HIDE DEF u, before, S
  <2>5. /\ u \in State
        /\ u.length = s.length /\ u.total = s.total /\ u.bad = s.bad
        /\ u.aborted = s.aborted /\ u.depth = s.depth /\ u.bucket = s.bucket
        /\ u.root = s.root
        /\ u.inTree = [s.inTree EXCEPT ![t] = Null]
        /\ u.parallel = [[s.parallel EXCEPT ![t] = Null] EXCEPT ![before] = p]
    BY <1>2, <1>4, <2>2, <2>4 DEF State
  <2>6. \A x \in Table : u.inTree[x] = IF x = t THEN Null ELSE s.inTree[x]
    BY <1>2, <2>5
  <2>7. \A x \in Table : u.parallel[x] =
          IF x = t THEN Null ELSE IF x \in S /\ s.parallel[x] = t THEN p ELSE s.parallel[x]
    BY <1>2, <2>1, <2>3, <2>4, <2>5
  <2> QED
    BY <1>5, <2>5, <2>6, <2>7 DEF S, u
<1>6. ASSUME t = s.root
      PROVE  \A x \in Table : x \in S => s.parallel[x] # t
  <2> HIDE DEF S
  <2> QED
    BY <1>1, <1>2, <1>6, HeadIsLowest
<1>7. CASE t = s.root /\ p # Null
  <2>1. u = [cleared EXCEPT !.root = p, !.inTree[p] = s.inTree[t]]
    BY <1>7 DEF Unlinked, cleared
  <2> HIDE DEF u
  <2>2. /\ u \in State
        /\ u.length = s.length /\ u.total = s.total /\ u.bad = s.bad
        /\ u.aborted = s.aborted /\ u.depth = s.depth /\ u.bucket = s.bucket
        /\ u.root = p
        /\ u.inTree = [[s.inTree EXCEPT ![t] = Null] EXCEPT ![p] = s.inTree[t]]
        /\ u.parallel = [s.parallel EXCEPT ![t] = Null]
    BY <1>2, <1>4, <1>7, <2>1 DEF State
  <2>3. \A x \in Table : u.inTree[x] =
          IF x = t THEN Null ELSE IF x = p THEN s.inTree[t] ELSE s.inTree[x]
    BY <1>2, <1>3, <1>7, <2>2
  <2>4. \A x \in Table : u.parallel[x] = IF x = t THEN Null ELSE s.parallel[x]
    BY <1>2, <2>2
  <2> HIDE DEF S
  <2> QED
    BY <1>6, <1>7, <2>2, <2>3, <2>4 DEF u, S
<1>8. CASE t = s.root /\ p = Null
  <2>1. u = [cleared EXCEPT !.root = s.inTree[t]]
    BY <1>8 DEF Unlinked, cleared
  <2> HIDE DEF u
  <2>2. /\ u \in State
        /\ u.length = s.length /\ u.total = s.total /\ u.bad = s.bad
        /\ u.aborted = s.aborted /\ u.depth = s.depth /\ u.bucket = s.bucket
        /\ u.root = s.inTree[t]
        /\ u.inTree = [s.inTree EXCEPT ![t] = Null]
        /\ u.parallel = [s.parallel EXCEPT ![t] = Null]
    BY <1>2, <1>4, <2>1 DEF State
  <2>3. \A x \in Table : u.inTree[x] = IF x = t THEN Null ELSE s.inTree[x]
    BY <1>2, <2>2
  <2>4. \A x \in Table : u.parallel[x] = IF x = t THEN Null ELSE s.parallel[x]
    BY <1>2, <2>2
  <2> HIDE DEF S
  <2> QED
    BY <1>2, <1>6, <1>8, <2>2, <2>3, <2>4 DEF u, S
<1> QED
  BY <1>5, <1>7, <1>8

LEMMA UnlinkedLayout ==
  ASSUME NEW s \in State, NEW home, NEW pos, Layout(s, home, pos), s.root # Null,
         NEW t \in Level(home, s.root)
  PROVE  LET new == Without(s, home, t)
         IN  /\ Layout(Unlinked(s, t), new, pos)
             /\ new[t] = Null
             /\ \A x \in Table \ {t} : new[x] = Null <=> home[x] = Null
             /\ \A x \in Heads(home) \ {t} : x \in Heads(new)
             /\ \A x \in Heads(new) : x \in Heads(home) \/ s.depth[x] = s.depth[s.root]
<1> DEFINE root == s.root
           S == Level(home, root)
           H == Heads(home)
           u == Unlinked(s, t)
           p == s.parallel[t]
           new == Without(s, home, t)
           first == IF t = root THEN p ELSE root
<1>1. /\ root \in H /\ root \in S /\ home[root] = root /\ home[t] = root
      /\ Chain(S, s.parallel, root, pos)
      /\ Chain(H, s.inTree, root, s.depth)
  BY DEF Layout, Chain, Heads, Level
<1>2. /\ t \in Table /\ t # Null /\ root \in Table /\ Null \notin Table
      /\ home \in [Table -> Table \cup {Null}] /\ p \in Table \cup {Null}
  <2>1. t \in Table /\ root \in Table
    BY <1>1 DEF Level
  <2>2. home \in [Table -> Table \cup {Null}]
    BY DEF Layout
  <2> HIDE DEF root
  <2> QED
    BY <2>1, <2>2, NullIsNoTable, StateIs
<1>3. /\ u \in State /\ u.length = s.length /\ u.depth = s.depth
      /\ u.root = IF t # root THEN root ELSE IF p # Null THEN p ELSE s.inTree[t]
      /\ \A x \in Table : u.inTree[x] = IF x = t THEN Null
                                       ELSE IF t = root /\ x = p THEN s.inTree[t]
                                       ELSE s.inTree[x]
      /\ \A x \in Table : u.parallel[x] = IF x = t THEN Null
                                         ELSE IF x \in S /\ s.parallel[x] = t THEN p
                                         ELSE s.parallel[x]
  BY UnlinkedIs
<1>4. p # Null => p \in S /\ p # t /\ home[p] = root
  BY <1>1, <1>2 DEF Chain, Level
<1>5. t = root /\ p = Null => S = {t}
  <2> HIDE DEF S
  <2> QED
    BY <1>1, <1>2, SingleChain
<1>6. \A x \in Table : x \in S <=> home[x] = root
  BY DEF Level
<1> HIDE DEF u, S, H, root, p
<1>7. /\ new \in [Table -> Table \cup {Null}]
      /\ new[t] = Null
      /\ \A x \in Table \ {t} : new[x] = IF home[x] = t THEN p ELSE home[x]
  BY <1>2 DEF Without, p
<1> HIDE DEF new
<1>8. \A x \in Table \ {t} : home[x] = t => t = root /\ p # Null /\ x \in S
  <2> SUFFICES ASSUME NEW x \in Table \ {t}, home[x] = t
               PROVE  t = root /\ p # Null /\ x \in S
    OBVIOUS
  <2>1. t \in H
    BY <1>2 DEF Layout, InTree, H
  <2>2. t = root
    BY <1>1, <2>1 DEF H, Heads
  <2> QED
    BY <1>5, <1>6, <2>2
<1>9. \A x \in Table \ {t} : new[x] = Null <=> home[x] = Null
  BY <1>2, <1>7, <1>8
<1>10. Heads(new) = (H \ {t}) \cup (IF t = root /\ p # Null THEN {p} ELSE {})
  <2>1. ASSUME NEW x \in Table
        PROVE  new[x] = x <=> (home[x] = x /\ x # t) \/ (t = root /\ p # Null /\ x = p)
    <3>1. CASE x = t
      BY <1>2, <1>4, <1>7, <3>1
    <3>2. CASE x # t /\ home[x] = t
      BY <1>7, <1>8, <3>2
    <3>3. CASE x # t /\ home[x] # t
      BY <1>1, <1>4, <1>7, <3>3
    <3> QED
      BY <3>1, <3>2, <3>3
  <2> QED
    BY <1>2, <2>1 DEF Heads, H
<1>11. \A x \in Heads(new) : x \in H \/ s.depth[x] = s.depth[root]
  <2>1. p # Null => s.depth[p] = s.depth[root]
    <3>1. p # Null => p \in InTree(home)
      BY <1>1, <1>2, <1>4 DEF InTree
    <3> QED
      BY <1>4, <3>1 DEF Layout
  <2> QED
    BY <1>10, <2>1
<1>12. Chain(Heads(new), u.inTree, u.root, u.depth)
  <2> DEFINE link == s.inTree
             newLink == u.inTree
             ord == s.depth
             newRoot == u.root
  <2>1. Chain(H, link, root, ord) /\ u.depth = ord /\ H \subseteq Table
    BY <1>1, <1>3 DEF Chain
  <2>2. CASE t # root
    <3>1. t \notin H
      BY <1>1, <2>2 DEF H, Heads
    <3>2. \A x \in H : newLink[x] = link[x] /\ ord[x] \in Nat
      BY <1>3, <2>1, <2>2, <3>1 DEF Chain
    <3>3. newRoot = root /\ Heads(new) = H
      BY <1>3, <1>10, <2>2, <3>1
    <3> HIDE DEF link, newLink, ord, newRoot
    <3>4. Chain(H, newLink, root, ord)
      BY <2>1, <3>2, ChainAgrees
    <3> QED
      BY <2>1, <3>3, <3>4 DEF newLink, newRoot
  <2>3. ASSUME t = root
        PROVE  Chain(H \ {t}, newLink, link[t], ord)
    <3>1. \A x \in H : link[x] # t
      <4> HIDE DEF link, ord
      <4> QED
        BY <1>2, <2>1, <2>3, HeadIsLowest
    <3>2. p \notin H
      BY <1>2, <1>4, <2>3 DEF H, Heads
    <3>3. \A x \in H \ {t} : newLink[x] = link[x]
      BY <1>3, <2>1, <3>2
    <3> HIDE DEF link, newLink, ord
    <3>4. Removed(H, link, root, ord, t, newLink, link[t])
      BY <1>1, <2>1, <2>3, <3>1, <3>3 DEF Removed
    <3> QED
      BY <3>4, ChainRemove
  <2>4. CASE t = root /\ p = Null
    BY <1>3, <1>10, <2>1, <2>3, <2>4
  <2>5. CASE t = root /\ p # Null
    <3> DEFINE R == H \ {t}
               b == link[t]
    <3>1. Chain(R, newLink, b, ord)
      BY <2>3, <2>5
    <3>2. p \in Table \ R
      BY <1>2, <1>4, <2>5 DEF H, Heads
    <3>3. newLink[p] = b /\ newRoot = p
      BY <1>2, <1>3, <1>4, <2>5
    <3>4. ord[p] = ord[t]
      <4>1. p \in InTree(home)
        BY <1>1, <1>2, <1>4, <2>5 DEF InTree
      <4> QED
        BY <1>4, <2>5, <4>1 DEF Layout
    <3>5. t \in H /\ t # Null
      BY <1>1, <1>2, <2>5
    <3>6. (b # Null => ord[p] < ord[b]) /\ \A x \in R \cup {p} : ord[x] \in Nat
      BY <2>1, <3>4, <3>5 DEF Chain
    <3>7. Null \notin R
      BY <1>2 DEF H, Heads
    <3>8. Heads(new) = R \cup {p}
      BY <1>10, <2>5
    <3> HIDE DEF R, b, newLink, link, ord, newRoot
    <3>9. Inserted(R, newLink, b, ord, p, Null, b, newLink, newRoot, ord)
      BY <3>1, <3>2, <3>3, <3>6, <3>7 DEF Inserted
    <3>10. Chain(R \cup {p}, newLink, newRoot, ord)
      BY <3>9, ChainInsert
    <3> QED
      BY <2>1, <3>8, <3>10 DEF newLink, newRoot
  <2> QED
    BY <2>2, <2>4, <2>5
<1>13. ASSUME NEW g \in Heads(new)
       PROVE  Chain(Level(new, g), u.parallel, g, pos)
  <2> DEFINE link == s.parallel
             newLink == u.parallel
  <2>1. CASE g = first
    <3>1. first = IF t = root THEN link[t] ELSE root
      BY DEF p
    <3>2. \A x \in S \ {t} : newLink[x] = IF link[x] = t THEN link[t] ELSE link[x]
      <4>1. S \subseteq Table
        BY DEF S, Level
      <4> QED
        BY <1>3, <4>1 DEF p
    <3>3. Level(new, g) = S \ {t}
      <4>1. g # Null
        BY <1>2 DEF Heads
      <4>2. ASSUME NEW x \in Table \ {t}
            PROVE  new[x] = g <=> home[x] = root
        <5>1. CASE t = root
          <6>1. p # root
            BY <1>2, <1>4, <2>1, <4>1, <5>1
          <6>2. home[x] # p
            <7>1. p \notin H
              BY <1>4, <2>1, <4>1, <5>1, <6>1 DEF H, Heads
            <7>2. home[x] # Null => home[x] \in H
              BY DEF Layout, InTree, H
            <7> QED
              BY <2>1, <4>1, <5>1, <7>1, <7>2
          <6> QED
            BY <1>7, <2>1, <5>1, <6>2
        <5>2. CASE t # root
          <6>1. home[x] # t
            BY <1>8, <5>2
          <6> QED
            BY <1>7, <2>1, <5>2, <6>1
        <5> QED
          BY <5>1, <5>2
      <4> QED
        BY <1>6, <1>7, <4>1, <4>2 DEF Level, S
    <3> HIDE DEF link, newLink, first
    <3>4. Removed(S, link, root, pos, t, newLink, first)
      <4>1. t \in S /\ Chain(S, link, root, pos)
        BY <1>1, <1>2, <1>6 DEF link
      <4> QED
        BY <3>1, <3>2, <4>1 DEF Removed
    <3>5. Chain(S \ {t}, newLink, first, pos)
      BY <3>4, ChainRemove
    <3> QED
      BY <2>1, <3>3, <3>5 DEF newLink
  <2>2. CASE g # first
    <3>1. g \in H /\ g # t /\ g # root
      BY <1>10, <2>2
    <3>2. Level(new, g) = Level(home, g)
      <4>1. g # Null /\ home[g] = g
        BY <1>2, <3>1 DEF H, Heads
      <4>2. p # g
        BY <1>4, <3>1, <4>1
      <4>3. \A x \in Table : new[x] = g <=> home[x] = g
        BY <1>1, <1>7, <3>1, <4>1, <4>2
      <4> QED
        BY <4>3 DEF Level
    <3>3. \A x \in Level(home, g) : newLink[x] = link[x] /\ pos[x] \in Nat
      <4>1. ASSUME NEW x \in Level(home, g)
            PROVE  x \in Table /\ x # t /\ x \notin S
        BY <1>1, <1>6, <3>1 DEF Level
      <4> QED
        BY <1>3, <4>1 DEF Layout
    <3>4. Chain(Level(home, g), link, g, pos)
      BY <3>1 DEF Layout, H
    <3> HIDE DEF link, newLink
    <3>5. Chain(Level(home, g), newLink, g, pos)
      BY <3>3, <3>4, ChainAgrees
    <3> QED
      BY <3>2, <3>5 DEF newLink
  <2> QED
    BY <2>1, <2>2
<1>14. ASSUME NEW x \in InTree(new)
       PROVE  /\ new[x] \in Heads(new)
              /\ u.depth[x] = u.depth[new[x]]
              /\ x <= u.length
              /\ x # new[x] => u.inTree[x] = Null
  <2>1. x \in Table \ {t} /\ home[x] # Null /\ x \in InTree(home)
    BY <1>7, <1>9 DEF InTree
  <2>2. /\ home[x] \in H /\ s.depth[x] = s.depth[home[x]] /\ x <= s.length
        /\ x # home[x] => s.inTree[x] = Null
    BY <2>1 DEF Layout, H
  <2>3. CASE home[x] = t
    <3>1. t = root /\ p # Null /\ new[x] = p
      BY <1>7, <1>8, <2>1, <2>3
    <3>2. p \in InTree(home)
      BY <1>1, <1>2, <1>4, <3>1 DEF InTree
    <3>3. s.depth[p] = s.depth[t]
      BY <1>4, <3>1, <3>2 DEF Layout
    <3> QED
      BY <1>3, <1>10, <2>1, <2>2, <2>3, <3>1, <3>3
  <2>4. CASE home[x] # t
    <3>1. new[x] = home[x] /\ new[x] \in Heads(new)
      BY <1>7, <1>10, <2>1, <2>2, <2>4
    <3>2. t = root => x # p
      BY <1>4, <1>2, <2>1, <2>4
    <3> QED
      BY <1>3, <2>1, <2>2, <3>1, <3>2
  <2> QED
    BY <2>3, <2>4
<1>15. pos \in [Table -> Nat]
  BY DEF Layout
<1>16. Layout(u, new, pos)
  BY <1>7, <1>12, <1>13, <1>14, <1>15 DEF Layout
<1>17. \A x \in H \ {t} : x \in Heads(new)
  BY <1>10
<1> QED
  BY <1>7, <1>9, <1>11, <1>16, <1>17 DEF new, u, H, root

(* The lists only depend on the links and depths of the tables in them.    *)
LEMMA LayoutAgrees ==
  ASSUME NEW s, NEW home, NEW pos, Layout(s, home, pos), NEW u,
         u.root = s.root, u.length \in Nat, s.length \in Nat, s.length <= u.length,
         \A x \in InTree(home) :
           u.inTree[x] = s.inTree[x] /\ u.parallel[x] = s.parallel[x] /\ u.depth[x] = s.depth[x]
  PROVE  Layout(u, home, pos)
<1>1. Heads(home) \subseteq InTree(home) /\ \A h \in Heads(home) : Level(home, h) \subseteq InTree(home)
  BY NullIsNoTable DEF Heads, InTree, Level
<1>2. Chain(Heads(home), u.inTree, u.root, u.depth)
  <2>1. Chain(Heads(home), s.inTree, s.root, s.depth)
    BY DEF Layout
  <2>2. \A x \in Heads(home) : u.inTree[x] = s.inTree[x] /\ u.depth[x] = s.depth[x] /\ u.depth[x] \in Nat
    BY <1>1, <2>1 DEF Chain
  <2>3. \A x, y \in Heads(home) : s.depth[x] < s.depth[y] => u.depth[x] < u.depth[y]
    BY <2>2
  <2> DEFINE link == s.inTree
             newLink == u.inTree
             ord == s.depth
             newOrd == u.depth
             head == s.root
             S == Heads(home)
  <2>4. /\ Chain(S, link, head, ord)
        /\ \A x \in S : newLink[x] = link[x] /\ newOrd[x] \in Nat
        /\ \A x, y \in S : ord[x] < ord[y] => newOrd[x] < newOrd[y]
    BY <2>1, <2>2, <2>3
  <2> HIDE DEF link, newLink, ord, newOrd, head, S
  <2>5. Chain(S, newLink, head, newOrd)
    BY <2>4, ChainAgrees
  <2> QED
    BY <2>5 DEF newLink, newOrd, head, S
<1>3. ASSUME NEW h \in Heads(home)
      PROVE  Chain(Level(home, h), u.parallel, h, pos)
  <2> DEFINE link == s.parallel
             newLink == u.parallel
             S == Level(home, h)
  <2>1. Chain(S, link, h, pos)
    BY DEF Layout
  <2>2. \A x \in S : newLink[x] = link[x]
    BY <1>1
  <2>3. \A x \in S : pos[x] \in Nat
    BY <2>1 DEF Chain
  <2> HIDE DEF link, newLink, S
  <2>4. Chain(S, newLink, h, pos)
    BY <2>1, <2>2, <2>3, ChainAgrees
  <2> QED
    BY <2>4 DEF newLink, S
<1>4. ASSUME NEW x \in InTree(home)
      PROVE  /\ home[x] \in Heads(home)
             /\ u.depth[x] = u.depth[home[x]]
             /\ x <= u.length
             /\ x # home[x] => u.inTree[x] = Null
  <2>1. home[x] \in Heads(home) /\ home[x] \in InTree(home) /\ x \in Table
    BY <1>1 DEF Layout, InTree
  <2>2. x <= s.length /\ x \in Int
    BY <2>1 DEF Layout, Table
  <2>3. x <= u.length
    BY <2>2
  <2> QED
    BY <2>1, <2>3 DEF Layout
<1> QED
  BY <1>2, <1>3, <1>4 DEF Layout

-----------------------------------------------------------------------------
(* Emptying slots. *)

LEMMA StoredIsFinite ==
  ASSUME NEW s, NEW tables \in SUBSET Table
  PROVE  IsFiniteSet(Stored(s, tables))
<1>1. IsFiniteSet(Table) /\ IsFiniteSet(Index)
  <2>1. 1 \in Int /\ Capacity \in Int /\ K \in Int
    BY RoutingTableAssumption
  <2> QED
    BY <2>1, FS_Interval DEF Table, Index
<1>2. IsFiniteSet(tables)
  BY <1>1, FS_Subset
<1>3. IsFiniteSet(tables \X Index)
  BY <1>1, <1>2, FS_Product
<1>4. Stored(s, tables) \in SUBSET (tables \X Index)
  BY DEF Stored
<1> QED
  BY <1>3, <1>4, FS_Subset

LEMMA MarkedIsFinite ==
  ASSUME NEW s
  PROVE  IsFiniteSet(Marked(s))
<1>1. IsFiniteSet(Stored(s, Table))
  BY StoredIsFinite
<1>2. Marked(s) \in SUBSET Stored(s, Table)
  BY DEF Marked
<1> QED
  BY <1>1, <1>2, FS_Subset

LEMMA ResetIs ==
  ASSUME NEW s \in State, Counted(s), NEW slots \in SUBSET Stored(s, Table)
  PROVE  LET u == Reset(s, slots)
         IN  /\ u \in State /\ Counted(u)
             /\ u.root = s.root /\ u.length = s.length /\ u.aborted = s.aborted
             /\ u.depth = s.depth /\ u.inTree = s.inTree /\ u.parallel = s.parallel
             /\ \A t \in Table, i \in Index :
                  u.bucket[t][i] = IF <<t, i>> \in slots THEN NoContact ELSE s.bucket[t][i]
<1> DEFINE u == Reset(s, slots)
           gone == {p \in slots : ~ s.bucket[p[1]][p[2]].good}
           bucket == [t \in Table |-> [i \in Index |->
                        IF <<t, i>> \in slots THEN NoContact ELSE s.bucket[t][i]]]
           total == Max({0, s.total - Cardinality(slots)})
           bad == s.bad - Cardinality(gone)
<1>1. u = [s EXCEPT !.bucket = bucket, !.total = total, !.bad = bad]
  BY DEF Reset
<1>2. total \in Nat
  <2>1. IsFiniteSet(slots)
    BY StoredIsFinite, FS_Subset
  <2>2. Cardinality(slots) \in Nat
    BY <2>1, FS_CardinalityType
  <2>3. s.total - Cardinality(slots) \in Int
    BY <2>2, StateIs
  <2> QED
    BY <2>3, MaxOfZero
<1>3. bucket \in [Table -> [Index -> Contact \cup {NoContact}]]
  <2>1. s.bucket \in [Table -> [Index -> Contact \cup {NoContact}]]
    BY StateIs
  <2> QED
    BY <2>1
<1>4. \A t \in Table, i \in Index :
        bucket[t][i] = IF <<t, i>> \in slots THEN NoContact ELSE s.bucket[t][i]
  OBVIOUS
<1>5. gone = Marked(s) \cap slots
  BY DEF Marked
<1>6. bad = Cardinality(Marked(s) \ slots) /\ bad \in Nat
  <2>1. IsFiniteSet(Marked(s))
    BY MarkedIsFinite
  <2>2. /\ IsFiniteSet(Marked(s) \ slots)
        /\ Cardinality(Marked(s) \ slots) = Cardinality(Marked(s)) - Cardinality(gone)
    BY <1>5, <2>1, FS_Difference
  <2>3. Cardinality(Marked(s) \ slots) \in Nat
    BY <2>2, FS_CardinalityType
  <2> QED
    BY <2>2, <2>3 DEF Counted
<1> HIDE DEF u, bucket, total, bad, gone
<1>7. /\ u \in State
      /\ u.root = s.root /\ u.length = s.length /\ u.aborted = s.aborted
      /\ u.depth = s.depth /\ u.inTree = s.inTree /\ u.parallel = s.parallel
      /\ u.bucket = bucket /\ u.bad = bad
  BY <1>1, <1>2, <1>3, <1>6 DEF State
<1>8. Marked(u) = Marked(s) \ slots
  <2>1. ASSUME NEW t \in Table, NEW i \in Index
        PROVE  <<t, i>> \in Marked(u) <=> <<t, i>> \in Marked(s) /\ <<t, i>> \notin slots
    BY <1>4, <1>7 DEF Marked, Stored
  <2>2. Marked(u) \subseteq Table \X Index /\ Marked(s) \subseteq Table \X Index
    BY DEF Marked, Stored
  <2>3. \A p \in Table \X Index : p \in Marked(u) <=> p \in Marked(s) \ slots
    BY <2>1
  <2> QED
    BY <2>2, <2>3
<1>9. Counted(u)
  BY <1>6, <1>7, <1>8 DEF Counted
<1> QED
  BY <1>4, <1>7, <1>9 DEF u

-----------------------------------------------------------------------------
(* alloc_RoutingTable *)

LEMMA VictimIs ==
  ASSUME NEW s, NEW home, NEW pos, Layout(s, home, pos), s.root # Null
  PROVE  Victim(s) \in Level(home, s.root)
<1> DEFINE S == Level(home, s.root)
           lengths == {BucketLength(s, t) : t \in S}
           shortest == Min(lengths)
           T == {t \in Table : BucketLength(s, t) = shortest}
           x == Victim(s)
<1>1. s.root \in Heads(home) /\ Chain(S, s.parallel, s.root, pos) /\ S \subseteq Table
  BY DEF Layout, Chain, Level
<1>2. Members(Row(s, s.root)) = S
  BY <1>1, LayoutReads
<1>3. x = FirstOf(Along(s.parallel, s.root), T)
  BY <1>2 DEF Victim, Row
<1>4. lengths \in SUBSET Nat /\ lengths # {}
  <2>1. ASSUME NEW t \in S
        PROVE  BucketLength(s, t) \in Nat
    <3>1. {t} \in SUBSET Table
      BY <1>1
    <3>2. IsFiniteSet(Stored(s, {t}))
      BY <3>1, StoredIsFinite
    <3> QED
      BY <3>2, FS_CardinalityType DEF BucketLength
  <2>2. s.root \in S
    BY <1>1 DEF Heads, Level
  <2> QED
    BY <2>1, <2>2
<1>5. shortest \in lengths
  <2> HIDE DEF lengths
  <2> QED
    BY <1>4, MinIs
<1>6. S \cap T # {} /\ T \in SUBSET Table
  <2>1. PICK t \in S : shortest = BucketLength(s, t)
    BY <1>5
  <2> QED
    BY <1>1, <2>1
<1> HIDE DEF T, S, x
<1>7. x \in S
  BY <1>1, <1>3, <1>6, FirstInChain
<1> QED
  BY <1>7 DEF S, x

LEMMA RankIs ==
  ASSUME NEW r \in Range(Rank)
  PROVE  r \in Nat
BY RoutingTableAssumption DEF Range

LEMMA CountedAgrees ==
  ASSUME NEW s, Counted(s), NEW u, u.bucket = s.bucket, u.bad = s.bad
  PROVE  Counted(u)
BY DEF Counted, Marked, Stored

LEMMA AllocFresh ==
  ASSUME NEW s, NEW home, NEW pos, Sound(s, home, pos), NEW r \in Range(Rank),
         s.length < Capacity
  PROVE  LET new == Alloc(s, r)
         IN  Sound(new.state, home, pos) /\ Taken(s, home, new.state, home, new.table, r)
<1> DEFINE t == s.length + 1
           a == [s EXCEPT !.length = t, !.depth[t] = r]
<1>1. Alloc(s, r).table = t /\ Alloc(s, r).state = a
  BY DEF Alloc
<1>2. s \in State /\ Layout(s, home, pos) /\ Unused(s) /\ Placed(s, home) /\ Counted(s)
  BY DEF Sound
<1>3. t \in Table /\ t \in 0..Capacity /\ s.length \in Nat /\ t \in Nat /\ t > s.length
  BY <1>2, StateIs, RoutingTableAssumption DEF Table
<1> HIDE DEF t
<1>4. /\ a \in State /\ a.root = s.root /\ a.length = t /\ a.bad = s.bad /\ a.aborted = s.aborted
      /\ a.depth = [s.depth EXCEPT ![t] = r]
      /\ a.inTree = s.inTree /\ a.parallel = s.parallel /\ a.bucket = s.bucket
  BY <1>2, <1>3 DEF State
<1> HIDE DEF a
<1>5. a.depth[t] = r /\ \A x \in Table \ {t} : a.depth[x] = s.depth[x]
  BY <1>2, <1>3, <1>4, StateIs
<1>6. home[t] = Null
  <2>1. t \notin InTree(home)
    BY <1>2, <1>3 DEF Layout
  <2> QED
    BY <1>3, <2>1 DEF InTree
<1>7. \A x \in InTree(home) : x \in Table \ {t} /\ a.depth[x] = s.depth[x]
  BY <1>5, <1>6 DEF InTree
<1>8. Layout(a, home, pos)
  <2>1. s.length <= a.length /\ a.length \in Nat
    BY <1>3, <1>4
  <2>2. \A x \in InTree(home) : /\ a.inTree[x] = s.inTree[x] /\ a.parallel[x] = s.parallel[x]
                                /\ a.depth[x] = s.depth[x]
    BY <1>4, <1>7
  <2>3. a.root = s.root
    BY <1>4
  <2> QED
    BY <1>2, <1>3, <2>1, <2>2, <2>3, LayoutAgrees
<1>9. Unused(a)
  <2>1. \A x \in Table : x > t => x > s.length
    BY <1>3 DEF Table
  <2> QED
    BY <1>2, <1>4, <2>1 DEF Unused
<1>10. Placed(a, home)
  BY <1>2, <1>4, <1>7 DEF Placed
<1>11. Counted(a)
  BY <1>2, <1>4, CountedAgrees
<1>12. Free(a, home, t, r)
  BY <1>2, <1>3, <1>4, <1>5, <1>6 DEF Free, Unused
<1>13. Taken(s, home, a, home, t, r)
  BY <1>4, <1>5, <1>6, <1>12 DEF Taken
<1> QED
  BY <1>1, <1>4, <1>8, <1>9, <1>10, <1>11, <1>13 DEF Sound

LEMMA AllocEvicts ==
  ASSUME NEW s, NEW home, NEW pos, Sound(s, home, pos), NEW r \in Range(Rank),
         ~ (s.length < Capacity), s.root # Null, r > s.depth[s.root]
  PROVE  LET new == Alloc(s, r)
             rest == Without(s, home, new.table)
         IN  Sound(new.state, rest, pos) /\ Taken(s, home, new.state, rest, new.table, r)
<1> DEFINE t == Victim(s)
           slots == Stored(s, {t})
           v == Unlinked(s, t)
           e == Reset(v, slots)
           a == [e EXCEPT !.depth[t] = r]
           new == Without(s, home, t)
<1>1. Alloc(s, r).table = t /\ Alloc(s, r).state = a
  BY DEF Alloc
<1>2. s \in State /\ Layout(s, home, pos) /\ Unused(s) /\ Placed(s, home) /\ Counted(s)
  BY DEF Sound
<1>3. t \in Level(home, s.root) /\ t \in Table
  BY <1>2, VictimIs DEF Level
<1>4. home[t] = s.root /\ s.root \in Heads(home) /\ t \in InTree(home)
  BY <1>2, <1>3 DEF Layout, Chain, Level, InTree
<1> HIDE DEF t, new, v
<1>5. /\ v \in State
      /\ v.length = s.length /\ v.total = s.total /\ v.bad = s.bad
      /\ v.aborted = s.aborted /\ v.depth = s.depth /\ v.bucket = s.bucket
      /\ \A x \in Table : v.inTree[x] = IF x = t THEN Null
                                       ELSE IF t = s.root /\ x = s.parallel[t] THEN s.inTree[t]
                                       ELSE s.inTree[x]
      /\ \A x \in Table : v.parallel[x] =
           IF x = t THEN Null
           ELSE IF x \in Level(home, s.root) /\ s.parallel[x] = t THEN s.parallel[t]
           ELSE s.parallel[x]
  BY <1>2, <1>3, UnlinkedIs DEF v
<1>6. /\ Layout(v, new, pos)
      /\ new[t] = Null
      /\ \A x \in Table \ {t} : new[x] = Null <=> home[x] = Null
      /\ \A x \in Heads(home) \ {t} : x \in Heads(new)
      /\ \A x \in Heads(new) : x \in Heads(home) \/ s.depth[x] = s.depth[s.root]
  BY <1>2, <1>3, UnlinkedLayout DEF new, v
<1>7. Counted(v)
  BY <1>2, <1>5, CountedAgrees
<1>8. slots \in SUBSET Stored(v, Table)
  BY <1>3, <1>5 DEF Stored
<1> HIDE DEF e
<1>9. /\ e \in State /\ Counted(e)
      /\ e.root = v.root /\ e.length = s.length /\ e.aborted = s.aborted
      /\ e.depth = s.depth /\ e.inTree = v.inTree /\ e.parallel = v.parallel
      /\ \A x \in Table, i \in Index :
           e.bucket[x][i] = IF <<x, i>> \in slots THEN NoContact ELSE s.bucket[x][i]
  <2> HIDE DEF slots
  <2> QED
    BY <1>5, <1>7, <1>8, ResetIs DEF e
<1>10. e.bucket[t] = EmptyBucket /\ \A x \in Table \ {t} : e.bucket[x] = s.bucket[x]
  <2>1. \A x \in Table, i \in Index : <<x, i>> \in slots <=> x = t /\ s.bucket[x][i] # NoContact
    BY <1>3 DEF Stored
  <2>2. /\ e.bucket \in [Table -> [Index -> Contact \cup {NoContact}]]
        /\ s.bucket \in [Table -> [Index -> Contact \cup {NoContact}]]
    BY <1>2, <1>9, StateIs
  <2> HIDE DEF slots
  <2>3. \A i \in Index : e.bucket[t][i] = NoContact
    BY <1>3, <1>9, <2>1
  <2>4. e.bucket[t] = [i \in Index |-> NoContact]
    BY <1>3, <2>2, <2>3
  <2>5. ASSUME NEW x \in Table \ {t}
        PROVE  e.bucket[x] = s.bucket[x]
    <3>1. \A i \in Index : e.bucket[x][i] = s.bucket[x][i]
      BY <1>9, <2>1
    <3>2. /\ e.bucket[x] \in [Index -> Contact \cup {NoContact}]
          /\ s.bucket[x] \in [Index -> Contact \cup {NoContact}]
      BY <2>2
    <3> QED
      BY <3>1, <3>2
  <2> QED
    BY <2>4, <2>5 DEF EmptyBucket
<1>11. /\ a \in State /\ a.root = e.root /\ a.length = e.length /\ a.bad = e.bad
       /\ a.aborted = e.aborted /\ a.depth = [s.depth EXCEPT ![t] = r]
       /\ a.inTree = e.inTree /\ a.parallel = e.parallel /\ a.bucket = e.bucket
  BY <1>3, <1>9 DEF State
<1> HIDE DEF a, slots
<1>12. a.depth[t] = r /\ \A x \in Table \ {t} : a.depth[x] = s.depth[x]
  BY <1>2, <1>3, <1>11, StateIs
<1>13. \A x \in InTree(new) : x \in Table \ {t} /\ x \in InTree(home)
  BY <1>6 DEF InTree
<1>14. s.length \in Nat /\ s.length = Capacity
  <2>1. s.length \in 0..Capacity
    BY <1>2, StateIs
  <2> QED
    BY <2>1, RoutingTableAssumption
<1>15. Layout(a, new, pos)
  <2>1. \A x \in InTree(new) : /\ a.inTree[x] = v.inTree[x] /\ a.parallel[x] = v.parallel[x]
                               /\ a.depth[x] = v.depth[x]
    BY <1>5, <1>9, <1>11, <1>12, <1>13
  <2>2. a.root = v.root /\ a.length \in Nat /\ v.length \in Nat /\ v.length <= a.length
    BY <1>5, <1>9, <1>11, <1>14
  <2> QED
    BY <1>6, <2>1, <2>2, LayoutAgrees
<1>16. Unused(a)
  <2>1. \A x \in Table : ~ (x > a.length)
    BY <1>9, <1>11, <1>14 DEF Table
  <2> QED
    BY <2>1 DEF Unused
<1>17. Placed(a, new)
  <2>1. \A x \in InTree(new) : a.bucket[x] = s.bucket[x] /\ a.depth[x] = s.depth[x]
    BY <1>10, <1>11, <1>12, <1>13
  <2> QED
    BY <1>2, <1>13, <2>1 DEF Placed
<1>18. Counted(a)
  BY <1>9, <1>11, CountedAgrees
<1>19. Free(a, new, t, r)
  <2>1. t <= a.length
    BY <1>2, <1>4, <1>9, <1>11 DEF Layout
  <2> QED
    BY <1>3, <1>5, <1>6, <1>9, <1>10, <1>11, <1>12, <2>1 DEF Free
<1>20. Taken(s, home, a, new, t, r)
  <2>1. s.depth[s.root] < r
    <3>1. s.depth[s.root] \in Nat
      BY <1>2, <1>4 DEF Layout, Chain
    <3> QED
      BY <3>1, RankIs
  <2>2. s.depth[t] = s.depth[s.root]
    BY <1>2, <1>4 DEF Layout
  <2>3. ASSUME NEW x \in Heads(home) \ {t}
        PROVE  x \in Heads(new) /\ a.inTree[x] = s.inTree[x]
    <3>1. t = s.root => x # s.parallel[t]
      <4>1. SUFFICES ASSUME t = s.root, x = s.parallel[t] PROVE FALSE
        OBVIOUS
      <4>2. Chain(Level(home, t), s.parallel, t, pos)
        BY <1>2, <1>4, <4>1 DEF Layout
      <4>3. x # Null /\ home[x] = x
        BY NullIsNoTable DEF Heads
      <4>4. x \in Level(home, t)
        BY <1>3, <4>1, <4>2, <4>3 DEF Chain
      <4> QED
        BY <4>3, <4>4 DEF Level
    <3>2. x \in Table
      BY DEF Heads
    <3> QED
      BY <1>5, <1>6, <1>9, <1>11, <3>1, <3>2
  <2>4. ASSUME NEW x \in Heads(home), s.depth[x] = r
        PROVE  a.parallel[x] = s.parallel[x]
    <3>1. x \in Table /\ home[x] = x
      BY DEF Heads
    <3>2. x # s.root
      BY <2>1, <2>4, RankIs
    <3>3. x # t /\ x \notin Level(home, s.root)
      BY <1>3, <3>1, <3>2 DEF Level
    <3> QED
      BY <1>5, <1>9, <1>11, <3>1, <3>3
  <2>5. \A x \in Heads(new) : x \in Heads(home) \/ s.depth[x] < r
    BY <1>6, <2>1
  <2> QED
    BY <1>4, <1>6, <1>9, <1>10, <1>11, <1>12, <1>14, <1>19, <2>1, <2>2, <2>3, <2>4, <2>5 DEF Taken
<1>21. Sound(a, new, pos)
  BY <1>11, <1>15, <1>16, <1>17, <1>18 DEF Sound
<1> QED
  BY <1>1, <1>20, <1>21 DEF new

-----------------------------------------------------------------------------
(* __make_routing_table *)

LEMMA RelinkedIsSound ==
  ASSUME NEW s, NEW home, NEW pos, Sound(s, home, pos), NEW t, NEW r, Free(s, home, t, r),
         NEW u, Relinked(u, s, home, t), NEW newHome, NEW newPos, Layout(u, newHome, newPos),
         \A x \in Table \ {t} : newHome[x] = Null <=> home[x] = Null
  PROVE  Sound(u, newHome, newPos)
<1>1. Unused(u)
  <2> SUFFICES ASSUME NEW x \in Table, x > u.length
               PROVE  u.inTree[x] = Null /\ u.parallel[x] = Null /\ u.bucket[x] = EmptyBucket
    BY DEF Unused
  <2>1. x > s.length /\ s.length \in Nat
    BY StateIs DEF Relinked, Sound
  <2>2. x # t /\ home[x] = Null
    <3>1. x \in Int /\ ~ (x <= s.length)
      BY <2>1 DEF Table
    <3> QED
      BY <3>1 DEF Free, Sound, Layout, InTree
  <2> QED
    BY <2>1, <2>2 DEF Relinked, Sound, Unused
<1>2. Placed(u, newHome)
  <2>1. \A x \in InTree(newHome) : x = t \/ x \in InTree(home)
    BY DEF InTree
  <2>2. \A x \in Table : u.bucket[x] = s.bucket[x] /\ u.depth[x] = s.depth[x]
    BY DEF Relinked
  <2>3. \A i \in Index : s.bucket[t][i] = NoContact
    BY DEF Free, EmptyBucket
  <2>4. Placed(s, home)
    BY DEF Sound
  <2>5. \A x \in InTree(newHome) : x \in Table
    BY DEF InTree
  <2> QED
    BY <2>1, <2>2, <2>3, <2>4, <2>5 DEF Placed
<1>3. Counted(u)
  BY CountedAgrees DEF Sound, Relinked
<1> QED
  BY <1>1, <1>2, <1>3 DEF Sound, Relinked

LEMMA InsertLevelIs ==
  ASSUME NEW s \in State, NEW home, NEW pos, Layout(s, home, pos),
         NEW t \in Table, home[t] = Null, t <= s.length, s.parallel[t] = Null,
         s.depth[t] \in Nat, \A h \in Heads(home) : s.depth[h] # s.depth[t]
  PROVE  /\ Layout(InsertLevel(s, t), [home EXCEPT ![t] = t], pos)
         /\ Relinked(InsertLevel(s, t), s, home, t)
<1> DEFINE H == Heads(home)
           u == InsertLevel(s, t)
           above == {l \in Members(Levels(s)) : s.depth[l] < s.depth[t]}
           T == {l \in Table : s.depth[l] > s.depth[t]}
           deeper == FirstOf(Levels(s), T)
           parent == CHOOSE l \in above : s.inTree[l] = deeper
<1>1. /\ Chain(H, s.inTree, s.root, s.depth) /\ H \subseteq Table
      /\ above = {l \in H : s.depth[l] < s.depth[t]}
  <2>1. Members(Levels(s)) = H
    BY LayoutReads
  <2>2. H \subseteq Table
    BY DEF Heads
  <2>3. Chain(H, s.inTree, s.root, s.depth)
    BY DEF Layout
  <2> HIDE DEF H
  <2> QED
    BY <2>1, <2>2, <2>3
<1>2. IF H \cap T = {} THEN deeper = Null
      ELSE deeper \in H \cap T /\ \A y \in H \cap T : s.depth[deeper] <= s.depth[y]
  <2>1. deeper = FirstOf(Along(s.inTree, s.root), T) /\ T \in SUBSET Table
    BY DEF Levels
  <2> HIDE DEF H, T, deeper
  <2> QED
    BY <1>1, <2>1, FirstInChain
<1>3. u = IF above = {} THEN [s EXCEPT !.inTree[t] = s.root, !.root = t]
          ELSE [s EXCEPT !.inTree[t] = deeper, !.inTree[parent] = t]
  BY DEF InsertLevel
<1>4. /\ t # Null /\ Null \notin H /\ t \notin H /\ \A h \in H : h \in Table /\ home[h] = h
      /\ \A h \in H : s.depth[h] \in Nat /\ s.depth[h] # s.depth[t]
  BY <1>1, NullIsNoTable DEF Heads, Chain
<1>5. /\ s.root \in Table \cup {Null} /\ s.inTree \in [Table -> Table \cup {Null}]
      /\ s.root # Null => s.root \in H
  BY <1>1, StateIs DEF Chain
<1>6. \A h \in H : h \in T <=> s.depth[h] > s.depth[t]
  BY <1>4
<1> HIDE DEF H, u, T, deeper, above
<1>7. CASE above = {}
  <2>1. /\ u \in State
        /\ u.length = s.length /\ u.bad = s.bad /\ u.aborted = s.aborted
        /\ u.depth = s.depth /\ u.bucket = s.bucket /\ u.parallel = s.parallel
        /\ u.root = t /\ u.inTree = [s.inTree EXCEPT ![t] = s.root]
    BY <1>3, <1>5, <1>7 DEF State
  <2>2. \A x \in Table : u.inTree[x] = IF x = t THEN s.root ELSE s.inTree[x]
    BY <1>5, <2>1
  <2>3. s.root # Null => s.depth[t] < s.depth[s.root]
    BY <1>1, <1>4, <1>5, <1>7
  <2>4. \A x \in Table : u.inTree[x] = IF x = t THEN s.root ELSE IF x = Null THEN t ELSE s.inTree[x]
    BY <2>2, NullIsNoTable
  <2>5. Layout(u, [home EXCEPT ![t] = t], pos)
    <3>1. LinkedAsLevel(s, home, pos, t, Null, s.root, u)
      BY <2>1, <2>3, <2>4 DEF LinkedAsLevel
    <3> QED
      BY <3>1, LevelLinked
  <2>6. Relinked(u, s, home, t)
    BY <2>1, <2>2 DEF Relinked
  <2> QED
    BY <2>5, <2>6 DEF u
<1>8. CASE above # {}
  <2>1. PICK l \in H : s.depth[l] < s.depth[t]
    BY <1>1, <1>8
  <2>2. s.root # Null
    BY <1>1 DEF Chain
  <2>3. \E x \in above : s.inTree[x] = deeper
    <3>1. CASE deeper = Null
      <4>1. PICK x \in H : s.inTree[x] = Null
        BY <1>1, <2>2, LastOfChain
      <4>2. ~ (s.depth[x] > s.depth[t])
        BY <1>2, <1>4, <1>6, <3>1
      <4> QED
        BY <1>1, <1>4, <3>1, <4>1, <4>2
    <3>2. CASE deeper # Null
      <4>1. deeper \in H /\ s.depth[deeper] > s.depth[t]
        BY <1>2, <1>6, <3>2
      <4>2. deeper # s.root
        <5>1. s.depth[s.root] <= s.depth[l]
          BY <1>1, <2>2, HeadIsLowest
        <5> QED
          BY <1>4, <1>5, <2>1, <2>2, <4>1, <5>1
      <4>3. PICK x \in H : s.inTree[x] = deeper
        BY <1>1, <4>1, <4>2 DEF Chain
      <4>4. s.depth[x] < s.depth[deeper]
        BY <1>1, <3>2, <4>3 DEF Chain
      <4>5. ~ (s.depth[x] > s.depth[t])
        <5>1. SUFFICES ASSUME x \in T PROVE FALSE
          BY <1>6
        <5>2. s.depth[deeper] <= s.depth[x]
          BY <1>2, <5>1
        <5> QED
          BY <1>4, <4>1, <4>4, <5>2
      <4> QED
        BY <1>1, <1>4, <4>3, <4>5
    <3> QED
      BY <3>1, <3>2
  <2>4. parent \in above /\ s.inTree[parent] = deeper
    BY <2>3
  <2> HIDE DEF parent
  <2>5. parent \in H /\ s.depth[parent] < s.depth[t] /\ parent # t /\ parent # Null /\ parent \in Table
    BY <1>1, <1>4, <2>4
  <2>6. deeper # Null => s.depth[t] < s.depth[deeper]
    BY <1>2, <1>4, <1>6
  <2>7. deeper \in Table \cup {Null}
    BY <1>2, <1>4
  <2>8. /\ u \in State
        /\ u.length = s.length /\ u.bad = s.bad /\ u.aborted = s.aborted
        /\ u.depth = s.depth /\ u.bucket = s.bucket /\ u.parallel = s.parallel
        /\ u.root = s.root
        /\ u.inTree = [[s.inTree EXCEPT ![t] = deeper] EXCEPT ![parent] = t]
    BY <1>3, <1>5, <1>8, <2>5, <2>7 DEF State
  <2>9. \A x \in Table : u.inTree[x] = IF x = t THEN deeper ELSE IF x = parent THEN t ELSE s.inTree[x]
    BY <1>5, <2>5, <2>8
  <2>10. Layout(u, [home EXCEPT ![t] = t], pos)
    <3>1. parent \in Heads(home) \cup {Null}
      BY <2>5 DEF H
    <3>2. deeper = (IF parent = Null THEN s.root ELSE s.inTree[parent])
          /\ u.root = (IF parent = Null THEN t ELSE s.root)
      BY <2>4, <2>5, <2>8
    <3>3. LinkedAsLevel(s, home, pos, t, parent, deeper, u)
      BY <2>5, <2>6, <2>8, <2>9, <3>1, <3>2 DEF LinkedAsLevel
    <3> QED
      BY <3>3, LevelLinked
  <2>11. Relinked(u, s, home, t)
    <3>1. home[parent] # Null
      BY <1>4, <2>5
    <3> QED
      BY <2>8, <2>9, <3>1 DEF Relinked
  <2> QED
    BY <2>10, <2>11 DEF u
<1> QED
  BY <1>7, <1>8

(* Whatever allocation took out of the lists, the table is linked where    *)
(* the lists have room for its rank, or, when it was itself the table to   *)
(* link to, stays out of them.                                             *)
LEMMA LinkIs ==
  ASSUME NEW s, NEW home, NEW pos, Sound(s, home, pos), s.root # Null,
         NEW r \in Range(Rank),
         NEW t, t = Alloc(s, r).table, NEW a, a = Alloc(s, r).state,
         NEW new, Sound(a, new, pos), Taken(s, home, a, new, t, r)
  PROVE  /\ MakeTable(s, r).table = t
         /\ \E newHome, newPos :
              /\ Layout(MakeTable(s, r).state, newHome, newPos)
              /\ Relinked(MakeTable(s, r).state, a, new, t)
              /\ \A x \in Table \ {t} : newHome[x] = Null <=> new[x] = Null
<1> DEFINE H == Heads(home)
           m == MakeTable(s, r)
           u == m.state
           levels == Levels(s)
           Deep == {l \in Table : s.depth[l] >= r}
           Last == {l \in Table : s.inTree[l] = Null}
           deeper == FirstOf(levels, Deep)
           last == FirstOf(levels, Last)
           it == IF deeper # Null THEN deeper ELSE last
           Before == {l \in Table : s.inTree[l] = it}
           parent == FirstOf(levels, Before)
           next == s.parallel[it]
           v == [a EXCEPT !.inTree[t] = it]
           level == [new EXCEPT ![t] = t]
<1>1. /\ s \in State /\ Layout(s, home, pos) /\ a \in State /\ Layout(a, new, pos)
      /\ Free(a, new, t, r)
  BY DEF Sound, Taken
<1>2. /\ t \in Table /\ t # Null /\ new[t] = Null /\ t <= a.length
      /\ a.inTree[t] = Null /\ a.parallel[t] = Null /\ a.depth[t] = r /\ r \in Nat
      /\ new \in [Table -> Table \cup {Null}]
  BY <1>1, NullIsNoTable, RankIs DEF Free, Layout
<1>3. /\ Chain(H, s.inTree, s.root, s.depth) /\ s.root \in H
      /\ \A h \in H : h \in Table /\ h # Null /\ home[h] = h /\ s.depth[h] \in Nat
  BY <1>1, NullIsNoTable DEF Layout, Chain, Heads
<1>4. /\ IF H \cap Deep = {} THEN deeper = Null
         ELSE deeper \in H \cap Deep /\ \A y \in H \cap Deep : s.depth[deeper] <= s.depth[y]
      /\ IF H \cap Last = {} THEN last = Null ELSE last \in H \cap Last
      /\ IF H \cap Before = {} THEN parent = Null ELSE parent \in H \cap Before
  <2>1. levels = Along(s.inTree, s.root)
    BY DEF Levels
  <2>2. Deep \in SUBSET Table /\ Last \in SUBSET Table /\ Before \in SUBSET Table
    OBVIOUS
  <2> HIDE DEF H, levels, Deep, Last, Before
  <2> QED
    BY <1>3, <2>1, <2>2, FirstInChain
<1>5. /\ m.table = t
      /\ u = IF s.depth[it] = r THEN [a EXCEPT !.parallel[t] = next, !.parallel[it] = t]
             ELSE IF s.depth[it] < r THEN [a EXCEPT !.inTree[it] = t]
             ELSE IF parent = t THEN InsertLevel(v, t)
             ELSE IF parent # Null THEN [v EXCEPT !.inTree[parent] = t]
             ELSE [v EXCEPT !.root = t]
  BY <1>2 DEF MakeTable
<1>6. /\ it \in H
      /\ s.depth[it] < r => s.inTree[it] = Null
      /\ s.depth[it] > r => \A y \in H : s.depth[y] < r \/ s.depth[it] <= s.depth[y]
  <2>1. H \cap Last # {}
    <3>1. PICK x \in H : s.inTree[x] = Null
      <4> HIDE DEF H
      <4> QED
        BY <1>3, LastOfChain
    <3> QED
      BY <1>3, <3>1
  <2>2. \A y \in H : y \in Deep <=> ~ (s.depth[y] < r)
    BY <1>2, <1>3
  <2>3. \A y \in H : y \in Last <=> s.inTree[y] = Null
    BY <1>3
  <2> HIDE DEF Deep, Last, H, deeper, last
  <2>4. CASE deeper # Null
    <3>1. it = deeper /\ it \in H /\ ~ (s.depth[it] < r)
      BY <1>4, <2>2, <2>4
    <3>2. \A y \in H : s.depth[y] < r \/ s.depth[it] <= s.depth[y]
      BY <1>4, <2>2, <2>4
    <3> QED
      BY <3>1, <3>2
  <2>5. CASE deeper = Null
    <3>1. it = last /\ it \in H /\ s.inTree[it] = Null
      BY <1>4, <2>1, <2>3, <2>5
    <3>2. s.depth[it] < r /\ s.depth[it] \in Nat
      BY <1>3, <1>4, <2>2, <2>5, <3>1
    <3> QED
      BY <1>2, <3>1, <3>2
  <2> QED
    BY <2>4, <2>5
<1>7. /\ IF \E l \in H : s.inTree[l] = it THEN parent \in H /\ s.inTree[parent] = it ELSE parent = Null
  <2>1. \A l \in H : l \in Before <=> s.inTree[l] = it
    BY <1>3
  <2> HIDE DEF H, Before, it, parent
  <2> QED
    BY <1>4, <2>1
<1> HIDE DEF it, parent, next, H, Deep, Last, deeper, last, Before, levels, m
<1>8. /\ \A x \in H \ {t} : x \in Heads(new) /\ a.inTree[x] = s.inTree[x] /\ a.depth[x] = s.depth[x]
      /\ \A x \in Heads(new) : x \in H \/ s.depth[x] < r
      /\ \A x \in H : s.depth[x] = r => a.parallel[x] = s.parallel[x]
      /\ t \in H => s.depth[t] < r
      /\ (new = home /\ a.root = s.root) \/ s.depth[s.root] < r
      /\ \A x \in Table \ {t} : a.depth[x] = s.depth[x]
  <2>1. t \in H => home[t] # Null
    BY <1>3
  <2>2. \A x \in H : x \in Table
    BY <1>3
  <2> QED
    BY <2>1, <2>2 DEF Taken, H
<1>9. \A x \in Heads(new) : x \in Table /\ x # t /\ x # Null /\ new[x] = x
  BY <1>2, NullIsNoTable DEF Heads
<1>10. /\ a.inTree \in [Table -> Table \cup {Null}] /\ a.parallel \in [Table -> Table \cup {Null}]
       /\ s.parallel \in [Table -> Table \cup {Null}]
  BY <1>1, StateIs
<1>11. level[t] = t /\ \A x \in Table \ {t} : level[x] = new[x]
  BY <1>2
<1>12. CASE s.depth[it] = r
  <2> DEFINE h == it
  <2>1. h \in H /\ h # t
    BY <1>2, <1>6, <1>8, <1>12
  <2>2. h \in Heads(new) /\ a.parallel[h] = next /\ a.depth[h] = r /\ h \in Table
    BY <1>3, <1>8, <1>12, <2>1 DEF next
  <2>3. u = [a EXCEPT !.parallel[t] = next, !.parallel[it] = t] /\ next \in Table \cup {Null}
    BY <1>5, <1>10, <1>12, <2>2 DEF next
  <2> HIDE DEF u, v
  <2>4. /\ u \in State
        /\ u.length = a.length /\ u.bad = a.bad /\ u.aborted = a.aborted
        /\ u.depth = a.depth /\ u.bucket = a.bucket /\ u.inTree = a.inTree /\ u.root = a.root
        /\ u.parallel = [[a.parallel EXCEPT ![t] = next] EXCEPT ![h] = t]
    BY <1>1, <1>2, <1>10, <2>2, <2>3 DEF State
  <2>5. \A x \in Table : u.parallel[x] = IF x = t THEN a.parallel[h]
                                        ELSE IF x = h THEN t ELSE a.parallel[x]
    BY <1>2, <1>10, <2>1, <2>2, <2>4
  <2> HIDE DEF h
  <2>6. LinkedAfter(a, new, pos, t, h, u)
    BY <1>1, <1>2, <2>2, <2>4, <2>5 DEF LinkedAfter
  <2> DEFINE row == [new EXCEPT ![t] = h]
             rowPos == [x \in Table |-> IF x = t THEN 2 * pos[h] + 1 ELSE 2 * pos[x]]
  <2>7. Layout(u, row, rowPos)
    BY <2>6, RowLinked
  <2>8. Relinked(u, a, new, t)
    <3>1. \A x \in Table \ {t} : new[x] = Null => x # h
      BY <1>9, <2>2
    <3> QED
      BY <2>4, <2>5, <3>1 DEF Relinked
  <2>9. \A x \in Table \ {t} : row[x] = Null <=> new[x] = Null
    BY <1>2
  <2> HIDE DEF row, rowPos
  <2> QED
    BY <1>5, <2>7, <2>8, <2>9 DEF u, m
<1>13. CASE s.depth[it] < r
  <2>1. it \in Table /\ s.inTree[it] = Null /\ u = [a EXCEPT !.inTree[it] = t]
    BY <1>2, <1>3, <1>5, <1>6, <1>13
  <2> HIDE DEF u, v
  <2>2. /\ u \in State
        /\ u.length = a.length /\ u.bad = a.bad /\ u.aborted = a.aborted
        /\ u.depth = a.depth /\ u.bucket = a.bucket /\ u.parallel = a.parallel /\ u.root = a.root
        /\ u.inTree = [a.inTree EXCEPT ![it] = t]
    BY <1>1, <1>2, <1>10, <2>1 DEF State
  <2>3. \A x \in Table : u.inTree[x] = IF x = it THEN t ELSE a.inTree[x]
    BY <1>10, <2>1, <2>2
  <2>4. CASE it = t
    <3>1. Layout(u, new, pos)
      <4>1. \A x \in InTree(new) : x # t /\ x \in Table
        BY <1>2 DEF InTree
      <4>2. \A x \in InTree(new) : /\ u.inTree[x] = a.inTree[x] /\ u.parallel[x] = a.parallel[x]
                                   /\ u.depth[x] = a.depth[x]
        BY <2>2, <2>3, <2>4, <4>1
      <4>3. a.length \in Nat /\ u.length \in Nat /\ a.length <= u.length /\ u.root = a.root
        BY <1>1, <2>2, StateIs
      <4> QED
        BY <1>1, <4>2, <4>3, LayoutAgrees
    <3>2. Relinked(u, a, new, t)
      BY <2>2, <2>3, <2>4 DEF Relinked
    <3> QED
      BY <1>5, <3>1, <3>2 DEF u, m
  <2>5. CASE it # t
    <3>1. it \in Heads(new) /\ a.inTree[it] = Null /\ a.depth[it] < r /\ it # Null
      BY <1>6, <1>8, <1>9, <1>13, <2>1, <2>5
    <3>2. \A x \in Table : u.inTree[x] = IF x = t THEN Null ELSE IF x = it THEN t ELSE a.inTree[x]
      BY <1>2, <2>3, <2>5
    <3>3. LinkedAsLevel(a, new, pos, t, it, Null, u)
      BY <1>1, <1>2, <2>2, <3>1, <3>2 DEF LinkedAsLevel
    <3>4. Layout(u, level, pos)
      BY <3>3, LevelLinked
    <3>5. Relinked(u, a, new, t)
      <4>1. new[it] # Null
        BY <1>9, <3>1
      <4> QED
        BY <2>2, <2>3, <4>1 DEF Relinked
    <3> HIDE DEF level
    <3> QED
      BY <1>5, <1>11, <3>4, <3>5 DEF u, m
  <2> QED
    BY <2>4, <2>5
<1>14. CASE s.depth[it] > r
  <2>1. /\ it \in H /\ it # t /\ it \in Heads(new) /\ it \in Table /\ it # Null
        /\ a.depth[it] = s.depth[it] /\ s.depth[it] \in Nat
    BY <1>2, <1>3, <1>6, <1>8, <1>14
  <2>2. u = IF parent = t THEN InsertLevel(v, t)
            ELSE IF parent # Null THEN [v EXCEPT !.inTree[parent] = t]
            ELSE [v EXCEPT !.root = t]
    BY <1>2, <1>5, <1>14, <2>1
  <2> HIDE DEF u
  <2>3. /\ v \in State
        /\ v.length = a.length /\ v.bad = a.bad /\ v.aborted = a.aborted
        /\ v.depth = a.depth /\ v.bucket = a.bucket /\ v.parallel = a.parallel /\ v.root = a.root
        /\ v.inTree = [a.inTree EXCEPT ![t] = it]
    BY <1>1, <1>2, <1>10, <2>1 DEF State
  <2> HIDE DEF v
  <2>4. \A x \in Table : v.inTree[x] = IF x = t THEN it ELSE a.inTree[x]
    BY <1>2, <1>10, <2>3
  <2>5. ASSUME parent \in H, s.inTree[parent] = it
        PROVE  s.depth[parent] < r
    <3>1. s.depth[parent] < s.depth[it] /\ s.depth[parent] \in Nat
      BY <1>3, <2>1, <2>5 DEF Chain
    <3> QED
      BY <1>2, <1>6, <1>14, <2>1, <2>5, <3>1
  <2>6. CASE parent = t
    <3>1. Layout(v, new, pos)
      <4>1. \A x \in InTree(new) : x # t /\ x \in Table
        BY <1>2 DEF InTree
      <4>2. \A x \in InTree(new) : /\ v.inTree[x] = a.inTree[x] /\ v.parallel[x] = a.parallel[x]
                                   /\ v.depth[x] = a.depth[x]
        BY <2>3, <2>4, <4>1
      <4>3. a.length \in Nat /\ v.length \in Nat /\ a.length <= v.length /\ v.root = a.root
        BY <1>1, <2>3, StateIs
      <4> QED
        BY <1>1, <4>2, <4>3, LayoutAgrees
    <3>2. \A h \in Heads(new) : v.depth[h] # v.depth[t]
      <4> SUFFICES ASSUME NEW h \in Heads(new) PROVE v.depth[h] # r
        BY <1>2, <2>3
      <4>1. h \in Table /\ h # t /\ v.depth[h] = s.depth[h]
        BY <1>8, <1>9, <2>3
      <4>2. CASE h \in H
        BY <1>2, <1>3, <1>6, <1>14, <2>1, <4>1, <4>2
      <4>3. CASE s.depth[h] < r
        <5>1. s.depth[h] \in Nat
          BY <1>1, <1>8, <4>1 DEF Layout, Chain
        <5> QED
          BY <1>2, <4>1, <4>3, <5>1
      <4> QED
        BY <1>8, <4>2, <4>3
    <3>3. /\ Layout(InsertLevel(v, t), level, pos)
          /\ Relinked(InsertLevel(v, t), v, new, t)
      <4>1. /\ v \in State /\ t \in Table /\ new[t] = Null /\ t <= v.length
            /\ v.parallel[t] = Null /\ v.depth[t] \in Nat
        BY <1>2, <2>3
      <4> HIDE DEF v, level
      <4>2. /\ Layout(InsertLevel(v, t), [new EXCEPT ![t] = t], pos)
            /\ Relinked(InsertLevel(v, t), v, new, t)
        BY <3>1, <3>2, <4>1, InsertLevelIs
      <4> QED
        BY <4>2 DEF level
    <3>4. Layout(u, level, pos) /\ Relinked(u, v, new, t)
      BY <2>2, <2>6, <3>3
    <3>5. Relinked(u, a, new, t)
      BY <2>3, <2>4, <3>4 DEF Relinked
    <3> HIDE DEF level
    <3> QED
      BY <1>5, <1>11, <3>4, <3>5 DEF u, m
  <2>7. CASE parent # t /\ parent # Null
    <3>1. parent \in H /\ s.inTree[parent] = it /\ parent \in Table
      BY <1>3, <1>7, <2>7
    <3>2. parent \in Heads(new) /\ a.inTree[parent] = it /\ a.depth[parent] < r
      BY <1>8, <2>5, <2>7, <3>1
    <3>3. u = [v EXCEPT !.inTree[parent] = t]
      BY <2>2, <2>7
    <3>4. /\ u \in State
          /\ u.length = a.length /\ u.bad = a.bad /\ u.aborted = a.aborted
          /\ u.depth = a.depth /\ u.bucket = a.bucket /\ u.parallel = a.parallel /\ u.root = a.root
          /\ u.inTree = [v.inTree EXCEPT ![parent] = t]
      BY <1>2, <2>3, <3>1, <3>3 DEF State
    <3>5. \A x \in Table : u.inTree[x] = IF x = t THEN it ELSE IF x = parent THEN t ELSE a.inTree[x]
      <4>1. v.inTree \in [Table -> Table \cup {Null}]
        BY <2>3, StateIs
      <4> QED
        BY <2>4, <2>7, <3>1, <3>4, <4>1
    <3>6. LinkedAsLevel(a, new, pos, t, parent, it, u)
      <4>1. a.depth[t] < a.depth[it]
        BY <1>2, <1>14, <2>1
      <4>2. a.depth[parent] < a.depth[t]
        BY <1>2, <3>2
      <4> QED
        BY <1>1, <1>2, <2>7, <3>2, <3>4, <3>5, <4>1, <4>2 DEF LinkedAsLevel
    <3>7. Layout(u, level, pos)
      BY <3>6, LevelLinked
    <3>8. Relinked(u, a, new, t)
      <4>1. new[parent] # Null
        BY <1>9, <3>2
      <4> QED
        BY <3>4, <3>5, <4>1 DEF Relinked
    <3> HIDE DEF level
    <3> QED
      BY <1>5, <1>11, <3>7, <3>8 DEF u, m
  <2>8. CASE parent = Null
    <3>1. it = s.root
      <4>1. ~ \E l \in H : s.inTree[l] = it
        BY <1>3, <1>7, <2>8
      <4> QED
        BY <1>3, <2>1, <4>1 DEF Chain
    <3>2. a.root = it
      BY <1>2, <1>8, <1>14, <2>1, <3>1
    <3>3. u = [v EXCEPT !.root = t]
      BY <1>2, <2>2, <2>8
    <3>4. /\ u \in State
          /\ u.length = a.length /\ u.bad = a.bad /\ u.aborted = a.aborted
          /\ u.depth = a.depth /\ u.bucket = a.bucket /\ u.parallel = a.parallel /\ u.root = t
          /\ u.inTree = v.inTree
      BY <1>2, <2>3, <3>3 DEF State
    <3>5. \A x \in Table : u.inTree[x] = IF x = t THEN it ELSE IF x = Null THEN t ELSE a.inTree[x]
      BY <2>4, <3>4, NullIsNoTable
    <3>6. LinkedAsLevel(a, new, pos, t, Null, it, u)
      <4>1. a.depth[t] < a.depth[it]
        BY <1>2, <1>14, <2>1
      <4> QED
        BY <1>1, <1>2, <3>2, <3>4, <3>5, <4>1 DEF LinkedAsLevel
    <3>7. Layout(u, level, pos)
      BY <3>6, LevelLinked
    <3>8. Relinked(u, a, new, t)
      BY <2>4, <3>4 DEF Relinked
    <3> HIDE DEF level
    <3> QED
      BY <1>5, <1>11, <3>7, <3>8 DEF u, m
  <2> QED
    BY <2>6, <2>7, <2>8
<1>15. s.depth[it] \in Nat
  BY <1>3, <1>6
<1> QED
  BY <1>2, <1>12, <1>13, <1>14, <1>15

(* The first level of an empty tree. *)
LEMMA RootLinked ==
  ASSUME NEW s, NEW home, NEW pos, Sound(s, home, pos), s.root = Null,
         NEW t, NEW r \in Range(Rank), Free(s, home, t, r)
  PROVE  LET u == [s EXCEPT !.root = t]
         IN  Sound(u, [home EXCEPT ![t] = t], pos) /\ Relinked(u, s, home, t)
<1> DEFINE u == [s EXCEPT !.root = t]
<1>1. s \in State /\ Layout(s, home, pos) /\ t \in Table /\ r \in Nat
  BY RankIs DEF Sound, Free
<1>2. /\ u \in State /\ u.root = t
      /\ u.length = s.length /\ u.bad = s.bad /\ u.aborted = s.aborted
      /\ u.depth = s.depth /\ u.bucket = s.bucket
      /\ u.inTree = s.inTree /\ u.parallel = s.parallel
  BY <1>1 DEF State
<1> HIDE DEF u
<1>3. \A x \in Table : u.inTree[x] = IF x = t THEN Null ELSE IF x = Null THEN t ELSE s.inTree[x]
  BY <1>2, NullIsNoTable DEF Free
<1>4. LinkedAsLevel(s, home, pos, t, Null, Null, u)
  BY <1>1, <1>2, <1>3 DEF LinkedAsLevel, Free
<1> DEFINE new == [home EXCEPT ![t] = t]
<1>5. Layout(u, new, pos)
  BY <1>4, LevelLinked
<1>6. Relinked(u, s, home, t)
  BY <1>2 DEF Relinked
<1>7. \A x \in Table \ {t} : new[x] = Null <=> home[x] = Null
  BY <1>1 DEF Layout
<1> HIDE DEF new
<1>8. Sound(u, new, pos)
  BY <1>5, <1>6, <1>7, RelinkedIsSound
<1> QED
  BY <1>6, <1>8 DEF u, new

LEMMA MakeTableIs ==
  ASSUME NEW s, NEW home, NEW pos, Sound(s, home, pos), NEW r \in Range(Rank)
  PROVE  LET m == MakeTable(s, r)
         IN  \/ m.table = Null /\ m.state \in {s, [s EXCEPT !.aborted = TRUE]}
             \/ \E newHome, newPos : /\ Sound(m.state, newHome, newPos)
                                    /\ Made(s, home, m.table, r, m.state, newHome)
<1> DEFINE m == MakeTable(s, r)
           t == Alloc(s, r).table
           a == Alloc(s, r).state
           Failed == m.table = Null /\ m.state \in {s, [s EXCEPT !.aborted = TRUE]}
           Succeeded == \E newHome, newPos : /\ Sound(m.state, newHome, newPos)
                                            /\ Made(s, home, m.table, r, m.state, newHome)
<1>1. \/ s.length < Capacity
      \/ ~ (s.length < Capacity) /\ s.root # Null /\ r > s.depth[s.root]
      \/ /\ ~ (s.length < Capacity)
         /\ s.root # Null => ~ (r > s.depth[s.root])
  OBVIOUS
<1>2. ASSUME ~ (s.length < Capacity), s.root # Null => ~ (r > s.depth[s.root])
      PROVE  Failed
  <2>1. t = Null /\ a = IF s.root = Null THEN [s EXCEPT !.aborted = TRUE] ELSE s
    BY <1>2 DEF Alloc
  <2>2. CASE s.root = Null
    <3>1. m = [table |-> t, state |-> [a EXCEPT !.root = t]]
      BY <2>2 DEF MakeTable
    <3>2. [a EXCEPT !.root = t] = a
      <4>1. s \in State
        BY DEF Sound
      <4> QED
        BY <2>1, <2>2, <4>1 DEF State
    <3> QED
      BY <2>1, <2>2, <3>1, <3>2
  <2>3. CASE s.root # Null
    <3>1. m = Alloc(s, r)
      BY <2>1, <2>3 DEF MakeTable
    <3> QED
      BY <2>1, <2>3, <3>1
  <2> QED
    BY <2>2, <2>3
<1>3. ASSUME NEW new, Sound(a, new, pos), Taken(s, home, a, new, t, r), s.root # Null
      PROVE  Succeeded
  <2>1. /\ m.table = t
        /\ \E newHome, newPos :
             /\ Layout(m.state, newHome, newPos)
             /\ Relinked(m.state, a, new, t)
             /\ \A x \in Table \ {t} : newHome[x] = Null <=> new[x] = Null
    <3> HIDE DEF t, a
    <3>1. t = Alloc(s, r).table /\ a = Alloc(s, r).state
      BY DEF t, a
    <3> QED
      BY <1>3, <3>1, LinkIs
  <2> HIDE DEF m, t, a
  <2>2. PICK newHome, newPos :
             /\ Layout(m.state, newHome, newPos)
             /\ Relinked(m.state, a, new, t)
             /\ \A x \in Table \ {t} : newHome[x] = Null <=> new[x] = Null
    BY <2>1
  <2>3. Free(a, new, t, r)
    BY <1>3 DEF Taken
  <2>4. Sound(m.state, newHome, newPos)
    BY <1>3, <2>2, <2>3, RelinkedIsSound
  <2>5. Made(s, home, t, r, m.state, newHome)
    BY <1>3, <2>2, <2>3 DEF Made, Taken, Relinked, Free
  <2> QED
    BY <2>1, <2>4, <2>5
<1>4. ASSUME s.length < Capacity PROVE Succeeded
  <2>1. Sound(a, home, pos) /\ Taken(s, home, a, home, t, r)
    BY <1>4, AllocFresh
  <2>2. CASE s.root = Null
    <3>1. m = [table |-> t, state |-> [a EXCEPT !.root = t]]
      BY <2>2 DEF MakeTable
    <3> HIDE DEF m, t, a
    <3>2. Free(a, home, t, r) /\ a.root = Null
      BY <2>1, <2>2 DEF Taken
    <3> DEFINE u == [a EXCEPT !.root = t]
               newHome == [home EXCEPT ![t] = t]
    <3>3. Sound(u, newHome, pos) /\ Relinked(u, a, home, t)
      BY <2>1, <3>2, RootLinked
    <3>4. \A x \in Table \ {t} : newHome[x] = Null <=> home[x] = Null
      BY <2>1 DEF Sound, Layout
    <3> HIDE DEF u, newHome
    <3>5. Made(s, home, t, r, u, newHome)
      BY <2>1, <3>2, <3>3, <3>4 DEF Made, Taken, Relinked, Free
    <3> QED
      BY <3>1, <3>3, <3>5 DEF u
  <2>3. CASE s.root # Null
    <3> HIDE DEF m, t, a
    <3> QED
      BY <1>3, <2>1, <2>3
  <2> QED
    BY <2>2, <2>3
<1>5. ASSUME ~ (s.length < Capacity), s.root # Null, r > s.depth[s.root]
      PROVE  Succeeded
  <2> DEFINE rest == Without(s, home, t)
  <2>1. Sound(a, rest, pos) /\ Taken(s, home, a, rest, t, r)
    BY <1>5, AllocEvicts
  <2> HIDE DEF m, t, a, rest
  <2> QED
    BY <1>3, <1>5, <2>1
<1>6. Failed \/ Succeeded
  <2> HIDE DEF Failed, Succeeded
  <2> QED
    BY <1>1, <1>2, <1>4, <1>5
<1> QED
  BY <1>6

-----------------------------------------------------------------------------
(* bucket_insert *)

Usable(s, t, i) ==
  \/ s.bucket[t][i] = NoContact
  \/ ~ IsGood(s.bucket[t][i])
  \/ s.bucket[t][i].readonly

(* s with c in the slot i of t, which is reset first when it is used. *)
Filled(s, t, i, c) ==
  LET replaced == s.bucket[t][i] # NoContact
      u == IF replaced THEN Reset(s, {<<t, i>>}) ELSE s
  IN  [u EXCEPT !.bucket[t][i] = c, !.total = IF replaced THEN @ ELSE @ + 1]

(* Nothing in the tree has this id. *)
Absent(s, home, id) ==
  \A u \in InTree(home), j \in Index :
    s.bucket[u][j] # NoContact => s.bucket[u][j].id # id

LEMMA FilledReads ==
  ASSUME NEW s, NEW home, NEW pos, Sound(s, home, pos),
         NEW t \in Table, NEW i \in Index, NEW c \in Contact, c.good
  PROVE  LET u == Filled(s, t, i, c)
         IN  /\ u \in State /\ Counted(u)
             /\ u.root = s.root /\ u.length = s.length /\ u.aborted = s.aborted
             /\ u.depth = s.depth /\ u.inTree = s.inTree /\ u.parallel = s.parallel
             /\ \A x \in Table, j \in Index :
                  u.bucket[x][j] = IF x = t /\ j = i THEN c ELSE s.bucket[x][j]
<1> DEFINE slot == <<t, i>>
           replaced == s.bucket[t][i] # NoContact
           e == IF replaced THEN Reset(s, {slot}) ELSE s
           u == Filled(s, t, i, c)
<1>1. s \in State /\ Counted(s)
  BY DEF Sound
<1>2. /\ e \in State /\ Counted(e)
      /\ e.root = s.root /\ e.length = s.length /\ e.aborted = s.aborted
      /\ e.depth = s.depth /\ e.inTree = s.inTree /\ e.parallel = s.parallel
      /\ \A x \in Table, j \in Index :
           e.bucket[x][j] = IF x = t /\ j = i THEN NoContact ELSE s.bucket[x][j]
  <2>1. CASE ~ replaced
    BY <1>1, <2>1
  <2>2. CASE replaced
    <3>1. {slot} \in SUBSET Stored(s, Table)
      BY <2>2 DEF Stored
    <3> HIDE DEF slot
    <3>2. LET v == Reset(s, {slot})
          IN  /\ v \in State /\ Counted(v)
              /\ v.root = s.root /\ v.length = s.length /\ v.aborted = s.aborted
              /\ v.depth = s.depth /\ v.inTree = s.inTree /\ v.parallel = s.parallel
              /\ \A x \in Table, j \in Index :
                   v.bucket[x][j] = IF <<x, j>> \in {slot} THEN NoContact ELSE s.bucket[x][j]
      BY <1>1, <3>1, ResetIs
    <3>3. e = Reset(s, {slot})
      BY <2>2
    <3>4. \A x \in Table, j \in Index : <<x, j>> \in {slot} <=> x = t /\ j = i
      BY DEF slot
    <3> HIDE DEF e
    <3> QED
      BY <3>2, <3>3, <3>4
  <2> QED
    BY <2>1, <2>2
<1>3. u = [e EXCEPT !.bucket[t][i] = c, !.total = IF replaced THEN @ ELSE @ + 1]
  BY DEF Filled
<1> HIDE DEF e, u, replaced
<1> DEFINE bucket == [e.bucket EXCEPT ![t][i] = c]
<1>4. e.bucket \in [Table -> [Index -> Contact \cup {NoContact}]]
  BY <1>2, StateIs
<1>5. /\ bucket \in [Table -> [Index -> Contact \cup {NoContact}]]
      /\ \A x \in Table, j \in Index :
           bucket[x][j] = IF x = t /\ j = i THEN c ELSE e.bucket[x][j]
  BY <1>4
<1> HIDE DEF bucket
<1>6. /\ u \in State /\ u.bucket = bucket /\ u.bad = e.bad
      /\ u.root = s.root /\ u.length = s.length /\ u.aborted = s.aborted
      /\ u.depth = s.depth /\ u.inTree = s.inTree /\ u.parallel = s.parallel
  <2> DEFINE total == IF replaced THEN e.total ELSE e.total + 1
  <2>1. u = [e EXCEPT !.bucket = bucket, !.total = total]
    BY <1>2, <1>3 DEF State, bucket
  <2>2. total \in Nat
    BY <1>2, StateIs
  <2> HIDE DEF total
  <2> QED
    BY <1>2, <1>5, <2>1, <2>2 DEF State
<1>7. \A x \in Table, j \in Index :
        u.bucket[x][j] = IF x = t /\ j = i THEN c ELSE s.bucket[x][j]
  BY <1>2, <1>5, <1>6
<1>8. Counted(u)
  <2>1. e.bucket[t][i] = NoContact
    BY <1>2
  <2>2. \A x \in Table, j \in Index : <<x, j>> \in Marked(u) <=> <<x, j>> \in Marked(e)
    <3> SUFFICES ASSUME NEW x \in Table, NEW j \in Index
                 PROVE  <<x, j>> \in Marked(u) <=> <<x, j>> \in Marked(e)
      OBVIOUS
    <3>1. CASE x = t /\ j = i
      BY <1>5, <1>6, <2>1, <3>1 DEF Marked, Stored
    <3>2. CASE ~ (x = t /\ j = i)
      BY <1>5, <1>6, <3>2 DEF Marked, Stored
    <3> QED
      BY <3>1, <3>2
  <2>3. Marked(u) \subseteq Table \X Index /\ Marked(e) \subseteq Table \X Index
    BY DEF Marked, Stored
  <2>4. Marked(u) = Marked(e)
    BY <2>2, <2>3
  <2> QED
    BY <1>2, <1>6, <2>4 DEF Counted
<1> QED
  BY <1>6, <1>7, <1>8 DEF u

LEMMA FilledIsSound ==
  ASSUME NEW s, NEW home, NEW pos, Sound(s, home, pos),
         NEW t \in Table, NEW i \in Index, NEW c \in Contact, c.good,
         t <= s.length, home[t] # Null => s.depth[t] = Rank[c.id], Absent(s, home, c.id)
  PROVE  Sound(Filled(s, t, i, c), home, pos)
<1> DEFINE u == Filled(s, t, i, c)
<1>1. s \in State /\ Layout(s, home, pos) /\ Unused(s) /\ Placed(s, home)
  BY DEF Sound
<1>2. /\ u \in State /\ Counted(u)
      /\ u.root = s.root /\ u.length = s.length /\ u.aborted = s.aborted
      /\ u.depth = s.depth /\ u.inTree = s.inTree /\ u.parallel = s.parallel
      /\ \A x \in Table, j \in Index :
           u.bucket[x][j] = IF x = t /\ j = i THEN c ELSE s.bucket[x][j]
  BY FilledReads
<1> HIDE DEF u
<1>3. Layout(u, home, pos)
  BY <1>1, <1>2 DEF Layout
<1>4. Unused(u)
  <2> SUFFICES ASSUME NEW x \in Table, x > u.length
               PROVE  u.inTree[x] = Null /\ u.parallel[x] = Null /\ u.bucket[x] = EmptyBucket
    BY DEF Unused
  <2>1. x # t /\ x > s.length
    BY <1>1, <1>2, StateIs DEF Table
  <2>2. s.bucket[x] = EmptyBucket
    BY <1>1, <2>1 DEF Unused
  <2>3. u.bucket[x] = EmptyBucket
    <3>1. u.bucket[x] \in [Index -> Contact \cup {NoContact}]
      BY <1>2, StateIs
    <3>2. \A j \in Index : u.bucket[x][j] = EmptyBucket[j]
      BY <1>2, <2>1, <2>2
    <3> QED
      BY <3>1, <3>2 DEF EmptyBucket
  <2> QED
    BY <1>1, <1>2, <2>1, <2>3 DEF Unused
<1>5. Placed(u, home)
  <2> SUFFICES ASSUME NEW x \in InTree(home), NEW j \in Index, u.bucket[x][j] # NoContact
               PROVE  /\ Rank[u.bucket[x][j].id] = u.depth[x]
                      /\ \A y \in InTree(home), k \in Index :
                           /\ u.bucket[y][k] # NoContact
                           /\ u.bucket[y][k].id = u.bucket[x][j].id
                           => y = x /\ k = j
    BY DEF Placed
  <2>1. x \in Table /\ \A y \in InTree(home) : y \in Table /\ home[y] # Null
    BY DEF InTree
  <2>2. CASE x = t /\ j = i
    <3>1. u.bucket[x][j] = c /\ s.depth[t] = Rank[c.id]
      BY <1>2, <2>1, <2>2
    <3> QED
      BY <1>2, <2>1, <2>2, <3>1 DEF Absent
  <2>3. CASE ~ (x = t /\ j = i)
    <3>1. u.bucket[x][j] = s.bucket[x][j]
      BY <1>2, <2>1, <2>3
    <3>2. s.bucket[x][j].id # c.id
      BY <3>1 DEF Absent
    <3> QED
      BY <1>1, <1>2, <2>1, <3>1, <3>2 DEF Placed
  <2> QED
    BY <2>2, <2>3
<1> QED
  BY <1>2, <1>3, <1>4, <1>5 DEF Sound, u

(* The first slot that can be used of a level takes the contact: one of its *)
(* first table when there is any.                                          *)
LEMMA PlaceIs ==
  ASSUME NEW s, NEW head \in Table, NEW c
  PROVE  \/ /\ Place(s, head, c) = s
            /\ \A t \in Members(Row(s, head)), i \in Index : ~ Usable(s, t, i)
         \/ \E t \in Members(Row(s, head)), i \in Index :
              /\ Place(s, head, c) = Filled(s, t, i, c)
              /\ Usable(s, t, i)
              /\ \A j \in Index : Usable(s, head, j) => t = head
<1> DEFINE row == Row(s, head)
           places == {p \in (DOMAIN row) \X Index : row[p[1]] # Null /\ Usable(s, row[p[1]], p[2])}
           IsFirst(p) == \A q \in places : p[1] < q[1] \/ (p[1] = q[1] /\ p[2] <= q[2])
           first == CHOOSE p \in places : IsFirst(p)
<1>1. DOMAIN row = 0..Capacity /\ row[0] = head
  BY AlongIs DEF Row
<1>2. Place(s, head, c) = IF places = {} THEN s ELSE Filled(s, row[first[1]], first[2], c)
  BY DEF Place, Filled, Usable
<1>3. \A t \in Members(row) : \E n \in DOMAIN row : t = row[n] /\ row[n] # Null
  BY DEF Members
<1>4. \A n \in DOMAIN row : row[n] # Null => row[n] \in Members(row)
  BY DEF Members
<1>5. head # Null /\ 0 \in 0..Capacity /\ 0..Capacity \subseteq Nat /\ Index \subseteq Nat
  BY NullIsNoTable, RoutingTableAssumption DEF Index
<1> HIDE DEF row
<1>6. CASE places = {}
  <2>1. ASSUME NEW t \in Members(row), NEW i \in Index
        PROVE  ~ Usable(s, t, i)
    <3>1. PICK n \in DOMAIN row : t = row[n] /\ row[n] # Null
      BY <1>3
    <3>2. <<n, i>> \notin places /\ <<n, i>> \in (DOMAIN row) \X Index
      BY <1>6
    <3> QED
      BY <3>1, <3>2
  <2> QED
    BY <1>2, <1>6, <2>1 DEF row
<1>7. CASE places # {}
  <2> DEFINE Rows == {n \in DOMAIN row : \E i \in Index : <<n, i>> \in places}
  <2>1. \A p \in places : p[1] \in Rows /\ p[2] \in Index /\ p = <<p[1], p[2]>>
    OBVIOUS
  <2>2. Rows \in SUBSET Nat /\ Rows # {}
    BY <1>1, <1>5, <1>7, <2>1
  <2> HIDE DEF Rows
  <2>3. PICK n \in Rows : \A k \in Rows : n <= k
    BY <2>2, LeastIs
  <2> DEFINE Slots == {i \in Index : <<n, i>> \in places}
  <2>4. Slots \in SUBSET Nat /\ Slots # {}
    BY <1>5, <2>3 DEF Rows
  <2> HIDE DEF Slots
  <2>5. PICK i \in Slots : \A k \in Slots : i <= k
    BY <2>4, LeastIs
  <2>6. <<n, i>> \in places /\ IsFirst(<<n, i>>)
    <3>1. <<n, i>> \in places
      BY <2>5 DEF Slots
    <3>2. ASSUME NEW q \in places
          PROVE  n < q[1] \/ (n = q[1] /\ i <= q[2])
      <4>1. n <= q[1] /\ n \in Nat /\ q[1] \in Nat
        BY <2>1, <2>2, <2>3
      <4>2. n = q[1] => q[2] \in Slots
        BY <2>1 DEF Slots
      <4> HIDE DEF places
      <4> QED
        BY <2>5, <4>1, <4>2
    <3> HIDE DEF places
    <3> QED
      BY <3>1, <3>2
  <2>7. first \in places /\ IsFirst(first)
    <3> HIDE DEF places, IsFirst
    <3> QED
      BY <2>6
  <2> HIDE DEF first
  <2> DEFINE t == row[first[1]]
             k == first[2]
  <2>8. t \in Members(row) /\ k \in Index /\ Usable(s, t, k)
    BY <1>4, <2>7
  <2>9. ASSUME NEW j \in Index, Usable(s, head, j)
        PROVE  t = head
    <3>1. <<0, j>> \in places
      BY <1>1, <1>5, <2>9
    <3>2. first[1] < 0 \/ first[1] = 0
      BY <2>7, <3>1
    <3>3. first[1] \in Nat
      BY <2>1, <2>2, <2>7
    <3> QED
      BY <1>1, <3>2, <3>3
  <2>10. Place(s, head, c) = Filled(s, t, k, c)
    BY <1>2, <1>7
  <2> HIDE DEF t, k
  <2> QED
    BY <2>8, <2>9, <2>10 DEF row
<1> QED
  BY <1>6, <1>7

-----------------------------------------------------------------------------
(* insert *)

LEMMA AbsentIs ==
  ASSUME NEW s, NEW home, NEW pos, Sound(s, home, pos), NEW id, Find(s, id) = {}
  PROVE  Absent(s, home, id)
<1> SUFFICES ASSUME NEW u \in InTree(home), NEW j \in Index,
                    s.bucket[u][j] # NoContact, s.bucket[u][j].id = id
             PROVE  FALSE
  BY DEF Absent
<1>1. u \in Table /\ home[u] # Null
  BY DEF InTree
<1>2. s.depth[u] = Rank[id]
  BY DEF Sound, Placed
<1>3. <<u, j>> \in Stored(s, Table)
  BY <1>1 DEF Stored
<1>4. Layout(s, home, pos)
  BY DEF Sound
<1> DEFINE p == <<u, j>>
<1>5. p \in Stored(s, Table) /\ home[p[1]] # Null /\ s.depth[p[1]] = Rank[id]
      /\ s.bucket[p[1]][p[2]].id = id
  BY <1>1, <1>2, <1>3
<1> HIDE DEF p
<1>6. p \in Find(s, id)
  BY <1>4, <1>5, FindIs
<1> QED
  BY <1>6

(* What is in the tree can be found. *)
LEMMA InTreeIsFound ==
  ASSUME NEW s, NEW home, NEW pos, Sound(s, home, pos),
         NEW t \in Table, NEW i \in Index, s.bucket[t][i] # NoContact, home[t] # Null
  PROVE  Find(s, s.bucket[t][i].id) # {}
<1>1. t \in InTree(home)
  BY DEF InTree
<1>2. s.depth[t] = Rank[s.bucket[t][i].id]
  BY <1>1 DEF Sound, Placed
<1>3. <<t, i>> \in Stored(s, Table)
  BY DEF Stored
<1>4. Layout(s, home, pos)
  BY DEF Sound
<1>5. <<t, i>> \in Find(s, s.bucket[t][i].id)
  BY <1>2, <1>3, <1>4, FindIs
<1> QED
  BY <1>5

LEMMA AbortedIsSound ==
  ASSUME NEW s, NEW home, NEW pos, Sound(s, home, pos)
  PROVE  Sound([s EXCEPT !.aborted = TRUE], home, pos)
<1> DEFINE u == [s EXCEPT !.aborted = TRUE]
<1>1. s \in State
  BY DEF Sound
<1>2. /\ u \in State /\ u.bucket = s.bucket /\ u.bad = s.bad
      /\ u.root = s.root /\ u.length = s.length
      /\ u.depth = s.depth /\ u.inTree = s.inTree /\ u.parallel = s.parallel
  BY <1>1 DEF State
<1> HIDE DEF u
<1>3. Counted(u)
  BY <1>2, CountedAgrees DEF Sound
<1>4. Layout(u, home, pos) /\ Unused(u) /\ Placed(u, home)
  BY <1>2 DEF Sound, Layout, Unused, Placed
<1> QED
  BY <1>2, <1>3, <1>4 DEF Sound, u

(* What happens to the contacts in the tree of s when c is inserted: each  *)
(* is where it was, or could be replaced, or was in the root level, which  *)
(* lost its table to c.                                                    *)
Kept(s, home, u, new, c) ==
  \A t \in InTree(home), i \in Index : s.bucket[t][i] # NoContact =>
    \/ new[t] # Null /\ u.bucket[t][i] = s.bucket[t][i]
    \/ Usable(s, t, i)
    \/ /\ s.length = Capacity
       /\ s.depth[t] = s.depth[s.root] /\ s.depth[s.root] < Rank[c.id]
       /\ \E v \in Table, j \in Index : u.bucket[v][j] = c

LEMMA InsertIs ==
  ASSUME NEW s, NEW home, NEW pos, Sound(s, home, pos),
         NEW c \in Contact, c.good, Find(s, c.id) = {}
  PROVE  \E new, newPos : Sound(Insert(s, c), new, newPos) /\ Kept(s, home, Insert(s, c), new, c)
<1> DEFINE r == Rank[c.id]
           level == LevelOf(s, r)
           m == MakeTable(s, r)
           u == Insert(s, c)
           Goal == \E new, newPos : Sound(u, new, newPos) /\ Kept(s, home, u, new, c)
<1>1. r \in Range(Rank)
  BY RoutingTableAssumption DEF Contact, Range
<1>2. Absent(s, home, c.id)
  BY AbsentIs
<1>3. Layout(s, home, pos) /\ s \in State
  BY DEF Sound
<1>4. u = IF level # Null /\ ~ IsFull(s, level) THEN Place(s, level, c)
          ELSE IF m.table = Null THEN m.state ELSE Place(m.state, m.table, c)
  BY DEF Insert
<1>5. Kept(s, home, s, home, c) /\ Kept(s, home, [s EXCEPT !.aborted = TRUE], home, c)
  <2>1. [s EXCEPT !.aborted = TRUE].bucket = s.bucket
    BY <1>3 DEF State
  <2> QED
    BY <2>1 DEF Kept, InTree
<1> HIDE DEF u, m, level
<1>6. ASSUME level # Null, ~ IsFull(s, level)
      PROVE  Goal
  <2>1. level \in Heads(home) /\ s.depth[level] = r
    BY <1>3, <1>6, LevelIs DEF level
  <2>2. Members(Row(s, level)) = Level(home, level) /\ level \in Table
    BY <1>3, <2>1, LayoutReads DEF Heads
  <2>3. CASE Place(s, level, c) = s
    BY <1>4, <1>5, <1>6, <2>3
  <2>4. CASE \E t \in Members(Row(s, level)), i \in Index :
               Place(s, level, c) = Filled(s, t, i, c) /\ Usable(s, t, i)
    <3>1. PICK t \in Level(home, level), i \in Index : u = Filled(s, t, i, c) /\ Usable(s, t, i)
      BY <1>4, <1>6, <2>2, <2>4
    <3>2. t \in Table /\ home[t] = level /\ t \in InTree(home)
      BY <1>6, <3>1 DEF Level, InTree
    <3>3. t <= s.length /\ s.depth[t] = r
      BY <1>3, <2>1, <3>2 DEF Layout
    <3>4. Sound(u, home, pos)
      BY <1>2, <3>1, <3>2, <3>3, FilledIsSound
    <3>5. \A x \in Table, j \in Index :
            u.bucket[x][j] = IF x = t /\ j = i THEN c ELSE s.bucket[x][j]
      BY <3>1, <3>2, FilledReads
    <3>6. Kept(s, home, u, home, c)
      <4> HIDE DEF r
      <4> QED
        BY <3>1, <3>5 DEF Kept, InTree
    <3> QED
      BY <3>4, <3>6
  <2> QED
    BY <2>2, <2>3, <2>4, PlaceIs
<1>7. ASSUME ~ (level # Null /\ ~ IsFull(s, level)),
             m.table = Null, m.state \in {s, [s EXCEPT !.aborted = TRUE]}
      PROVE  Goal
  <2>1. u = s \/ u = [s EXCEPT !.aborted = TRUE]
    BY <1>4, <1>7
  <2>2. Sound(u, home, pos) /\ Kept(s, home, u, home, c)
    <3>1. Sound([s EXCEPT !.aborted = TRUE], home, pos)
      BY AbortedIsSound
    <3> QED
      BY <1>5, <2>1, <3>1
  <2> QED
    BY <2>2
<1>8. ASSUME ~ (level # Null /\ ~ IsFull(s, level)),
             NEW new, NEW newPos, Sound(m.state, new, newPos), Made(s, home, m.table, r, m.state, new)
      PROVE  Goal
  <2> DEFINE t == m.table
             a == m.state
  <2>1. t \in Table /\ t # Null /\ t <= a.length /\ a.depth[t] = r
    BY <1>8, NullIsNoTable DEF Made
  <2>2. \A j \in Index : a.bucket[t][j] = NoContact
    BY <1>8 DEF Made, EmptyBucket
  <2>3. u = Place(a, t, c)
    BY <1>4, <1>8, <2>1
  <2>4. t \in Members(Row(a, t)) /\ 1 \in Index /\ Usable(a, t, 1)
    <3>1. 1 \in Index
      BY RoutingTableAssumption DEF Index
    <3>2. DOMAIN Row(a, t) = 0..Capacity /\ Row(a, t)[0] = t /\ 0 \in 0..Capacity
      BY AlongIs, RoutingTableAssumption DEF Row
    <3> HIDE DEF t, a
    <3> QED
      BY <2>1, <2>2, <3>1, <3>2 DEF Members, Usable
  <2> HIDE DEF t, a
  <2>5. PICK i \in Index : u = Filled(a, t, i, c)
    BY <2>1, <2>3, <2>4, PlaceIs
  <2>6. Sound(a, new, newPos) /\ Made(s, home, t, r, a, new)
    BY <1>8 DEF t, a
  <2>7. Absent(a, new, c.id)
    <3>1. \A x \in InTree(new) : x \in Table /\ (x = t \/ x \in InTree(home))
      BY <2>6 DEF InTree, Made
    <3>2. \A x \in Table \ {t} : a.bucket[x] = s.bucket[x]
      BY <2>6 DEF Made
    <3> QED
      BY <1>2, <2>2, <3>1, <3>2 DEF Absent
  <2>8. Sound(u, new, newPos)
    BY <2>1, <2>5, <2>6, <2>7, FilledIsSound
  <2>9. \A x \in Table, j \in Index :
          u.bucket[x][j] = IF x = t /\ j = i THEN c ELSE a.bucket[x][j]
    BY <2>1, <2>5, <2>6, FilledReads
  <2>10. Kept(s, home, u, new, c)
    <3> SUFFICES ASSUME NEW x \in InTree(home), NEW j \in Index
                 PROVE  \/ new[x] # Null /\ u.bucket[x][j] = s.bucket[x][j]
                        \/ /\ s.length = Capacity
                           /\ s.depth[x] = s.depth[s.root] /\ s.depth[s.root] < r
                           /\ \E v \in Table, k \in Index : u.bucket[v][k] = c
      BY DEF Kept
    <3>1. x \in Table /\ home[x] # Null
      BY DEF InTree
    <3>2. CASE x = t
      BY <2>1, <2>6, <2>9, <3>1, <3>2 DEF Made
    <3>3. CASE x # t
      BY <2>6, <2>9, <3>1, <3>3 DEF Made
    <3> QED
      BY <3>2, <3>3
  <2> QED
    BY <2>8, <2>10
<1>9. \/ m.table = Null /\ m.state \in {s, [s EXCEPT !.aborted = TRUE]}
      \/ \E new, newPos : /\ Sound(m.state, new, newPos)
                          /\ Made(s, home, m.table, r, m.state, new)
  <2> HIDE DEF r
  <2> QED
    BY <1>1, MakeTableIs DEF m
<1>10. Goal
  <2> HIDE DEF Goal, r
  <2>1. CASE level # Null /\ ~ IsFull(s, level)
    BY <1>6, <2>1
  <2>2. CASE ~ (level # Null /\ ~ IsFull(s, level))
    <3>1. CASE m.table = Null /\ m.state \in {s, [s EXCEPT !.aborted = TRUE]}
      BY <1>7, <2>2, <3>1
    <3>2. CASE \E new, newPos : /\ Sound(m.state, new, newPos)
                               /\ Made(s, home, m.table, r, m.state, new)
      <4>1. PICK new, newPos : /\ Sound(m.state, new, newPos)
                               /\ Made(s, home, m.table, r, m.state, new)
        BY <3>2
      <4> QED
        BY <1>8, <2>2, <4>1
    <3> QED
      BY <1>9, <3>1, <3>2
  <2> QED
    BY <2>1, <2>2
<1> QED
  BY <1>10 DEF u

-----------------------------------------------------------------------------
(* Messages, queries and time change a contact where it is.                *)

Touched(s, t, i, d, u) ==
  u = [s EXCEPT !.bucket = [s.bucket EXCEPT ![t][i] = d],
                !.bad = IF s.bucket[t][i].good = d.good THEN s.bad
                        ELSE IF d.good THEN s.bad - 1 ELSE s.bad + 1]

LEMMA TouchedIsSound ==
  ASSUME NEW s, NEW home, NEW pos, Sound(s, home, pos),
         NEW t \in Table, NEW i \in Index, s.bucket[t][i] # NoContact,
         NEW d \in Contact, d.id = s.bucket[t][i].id, NEW u, Touched(s, t, i, d, u)
  PROVE  /\ Sound(u, home, pos)
         /\ \A x \in Table, j \in Index :
              /\ u.bucket[x][j] # NoContact <=> s.bucket[x][j] # NoContact
              /\ u.bucket[x][j].id = s.bucket[x][j].id
<1> DEFINE c == s.bucket[t][i]
           p == <<t, i>>
           bucket == [s.bucket EXCEPT ![t][i] = d]
           bad == IF c.good = d.good THEN s.bad ELSE IF d.good THEN s.bad - 1 ELSE s.bad + 1
<1>1. /\ s \in State /\ Layout(s, home, pos) /\ Unused(s) /\ Placed(s, home) /\ Counted(s)
      /\ s.bucket \in [Table -> [Index -> Contact \cup {NoContact}]]
      /\ NoContact \notin Contact
  BY StateIs, RoutingTableAssumption DEF Sound
<1>2. c \in Contact /\ c.good \in BOOLEAN /\ d.good \in BOOLEAN /\ d # NoContact
  <2>1. c \in Contact
    BY <1>1
  <2> QED
    BY <1>1, <2>1 DEF Contact
<1>3. /\ bucket \in [Table -> [Index -> Contact \cup {NoContact}]]
      /\ \A x \in Table, j \in Index :
           bucket[x][j] = IF x = t /\ j = i THEN d ELSE s.bucket[x][j]
  BY <1>1
<1>4. u = [s EXCEPT !.bucket = bucket, !.bad = bad]
  BY DEF Touched
<1> HIDE DEF bucket
<1> DEFINE marked == {q \in Table \X Index : /\ bucket[q[1]][q[2]] # NoContact
                                            /\ ~ bucket[q[1]][q[2]].good}
<1>5. p \in Marked(s) <=> ~ c.good
  BY DEF Marked, Stored
<1>6. \A q \in Table \X Index : q \in marked <=> IF q = p THEN ~ d.good ELSE q \in Marked(s)
  <2> SUFFICES ASSUME NEW x \in Table, NEW j \in Index
               PROVE  <<x, j>> \in marked <=> IF <<x, j>> = p THEN ~ d.good ELSE <<x, j>> \in Marked(s)
    OBVIOUS
  <2> QED
    BY <1>2, <1>3 DEF Marked, Stored
<1>7. marked = IF d.good THEN Marked(s) \ {p} ELSE Marked(s) \cup {p}
  <2>1. Marked(s) \subseteq Table \X Index /\ marked \subseteq Table \X Index /\ p \in Table \X Index
    BY DEF Marked, Stored
  <2> HIDE DEF marked, p
  <2> QED
    BY <1>6, <2>1
<1>8. bad = Cardinality(marked) /\ bad \in Nat
  <2> HIDE DEF marked, c, p
  <2>1. IsFiniteSet(Marked(s)) /\ s.bad = Cardinality(Marked(s)) /\ s.bad \in Nat
    BY <1>1, MarkedIsFinite, StateIs DEF Counted
  <2>2. /\ IsFiniteSet(Marked(s) \ {p})
        /\ Cardinality(Marked(s) \ {p}) = IF p \in Marked(s) THEN s.bad - 1 ELSE s.bad
    BY <2>1, FS_RemoveElement
  <2>3. /\ IsFiniteSet(Marked(s) \cup {p})
        /\ Cardinality(Marked(s) \cup {p}) = IF p \in Marked(s) THEN s.bad ELSE s.bad + 1
    BY <2>1, FS_AddElement
  <2>4. Cardinality(marked) \in Nat
    BY <1>7, <2>2, <2>3, FS_CardinalityType
  <2>5. bad = Cardinality(marked)
    <3>1. CASE d.good
      BY <1>2, <1>5, <1>7, <2>2, <3>1
    <3>2. CASE ~ d.good
      BY <1>2, <1>5, <1>7, <2>3, <3>2
    <3> QED
      BY <3>1, <3>2
  <2> HIDE DEF bad
  <2> QED
    BY <2>4, <2>5
<1> HIDE DEF bad, marked, p
<1>9. /\ u \in State /\ u.bucket = bucket /\ u.bad = bad
      /\ u.root = s.root /\ u.length = s.length
      /\ u.depth = s.depth /\ u.inTree = s.inTree /\ u.parallel = s.parallel
  BY <1>1, <1>3, <1>4, <1>8 DEF State
<1>10. \A x \in Table, j \in Index :
         u.bucket[x][j] = IF x = t /\ j = i THEN d ELSE s.bucket[x][j]
  BY <1>3, <1>9
<1>11. \A x \in Table, j \in Index :
         /\ u.bucket[x][j] # NoContact <=> s.bucket[x][j] # NoContact
         /\ u.bucket[x][j].id = s.bucket[x][j].id
  BY <1>2, <1>10
<1>12. Layout(u, home, pos)
  BY <1>1, <1>9 DEF Layout
<1>13. Unused(u)
  <2> SUFFICES ASSUME NEW x \in Table, x > u.length
               PROVE  u.inTree[x] = Null /\ u.parallel[x] = Null /\ u.bucket[x] = EmptyBucket
    BY DEF Unused
  <2>1. s.inTree[x] = Null /\ s.parallel[x] = Null /\ s.bucket[x] = EmptyBucket
    BY <1>1, <1>9 DEF Unused
  <2>2. u.bucket[x] = EmptyBucket
    <3>1. u.bucket[x] \in [Index -> Contact \cup {NoContact}]
      BY <1>9, StateIs
    <3>2. \A j \in Index : u.bucket[x][j] = NoContact
      BY <1>11, <2>1 DEF EmptyBucket
    <3> QED
      BY <3>1, <3>2 DEF EmptyBucket
  <2> QED
    BY <1>9, <2>1, <2>2
<1>14. Placed(u, home)
  <2>1. \A x \in InTree(home) : x \in Table
    BY DEF InTree
  <2> QED
    BY <1>1, <1>9, <1>11, <2>1 DEF Placed
<1>15. Counted(u)
  <2>1. Marked(u) = marked
    BY <1>9 DEF Marked, Stored, marked
  <2> QED
    BY <1>8, <1>9, <2>1 DEF Counted
<1> QED
  BY <1>9, <1>11, <1>12, <1>13, <1>14, <1>15 DEF Sound

-----------------------------------------------------------------------------
(* The steps. *)

(* What CloseContactsKept says of a step. *)
CloseKept(s, u) ==
  \A p \in Stored(s, Reachable(s)) :
    LET c == s.bucket[p[1]][p[2]]
    IN  Find(u, c.id) # {} \/ ~ IsGood(c) \/ c.readonly
        \/ /\ s.length = Capacity
           /\ s.depth[p[1]] = s.depth[s.root]
           /\ \E q \in Stored(u, Table) :
                /\ Rank[u.bucket[q[1]][q[2]].id] > Rank[c.id]
                /\ Find(s, u.bucket[q[1]][q[2]].id) = {}

(* What the steps keep. *)
Safe(s, u) == CloseKept(s, u) /\ \E home, pos : Sound(u, home, pos)

LEMMA InitIsSound == Init => IInv
<1> SUFFICES ASSUME Init PROVE IInv
  OBVIOUS
<1> DEFINE home == [t \in Table |-> Null]
           pos == [t \in Table |-> 0]
<1>1. rt \in State
  <2>1. 0 \in 0..Capacity
    BY RoutingTableAssumption
  <2> QED
    BY <2>1 DEF Init, State, EmptyBucket
<1>2. /\ rt.root = Null /\ rt.inTree = [t \in Table |-> Null] /\ rt.parallel = [t \in Table |-> Null]
      /\ rt.bucket = [t \in Table |-> EmptyBucket] /\ rt.bad = 0
  BY DEF Init
<1>3. Heads(home) = {} /\ InTree(home) = {}
  BY NullIsNoTable DEF Heads, InTree
<1>4. home \in [Table -> Table \cup {Null}] /\ pos \in [Table -> Nat]
  OBVIOUS
<1> HIDE DEF home, pos
<1>5. Layout(rt, home, pos)
  BY <1>2, <1>3, <1>4 DEF Layout, Chain
<1>6. Unused(rt)
  BY <1>2 DEF Unused
<1>7. Placed(rt, home)
  BY <1>3 DEF Placed
<1>8. Counted(rt)
  <2>1. Marked(rt) = {}
    BY <1>2 DEF Marked, Stored, EmptyBucket
  <2> QED
    BY <1>2, <2>1, FS_EmptySet DEF Counted
<1> QED
  BY <1>1, <1>5, <1>6, <1>7, <1>8 DEF IInv, Sound

LEMMA StoredInTree ==
  ASSUME NEW s, NEW home, NEW pos, Sound(s, home, pos), NEW p \in Stored(s, Reachable(s))
  PROVE  /\ p = <<p[1], p[2]>> /\ p[1] \in Table /\ p[2] \in Index /\ p[1] \in InTree(home)
         /\ home[p[1]] # Null /\ s.bucket[p[1]][p[2]] # NoContact
         /\ s.depth[p[1]] = Rank[s.bucket[p[1]][p[2]].id]
<1>1. Reachable(s) = InTree(home)
  BY LayoutReads DEF Sound
<1>2. /\ p = <<p[1], p[2]>> /\ p[1] \in InTree(home) /\ p[2] \in Index
      /\ s.bucket[p[1]][p[2]] # NoContact
  BY <1>1 DEF Stored
<1>3. p[1] \in Table /\ home[p[1]] # Null
  BY <1>2 DEF InTree
<1>4. s.depth[p[1]] = Rank[s.bucket[p[1]][p[2]].id]
  BY <1>2 DEF Sound, Placed
<1> QED
  BY <1>2, <1>3, <1>4

LEMMA TouchedIsSafe ==
  ASSUME NEW s, NEW home, NEW pos, Sound(s, home, pos),
         NEW t \in Table, NEW i \in Index, s.bucket[t][i] # NoContact,
         NEW d \in Contact, d.id = s.bucket[t][i].id, NEW u, Touched(s, t, i, d, u)
  PROVE  Safe(s, u)
<1>1. /\ Sound(u, home, pos)
      /\ \A x \in Table, j \in Index :
           /\ u.bucket[x][j] # NoContact <=> s.bucket[x][j] # NoContact
           /\ u.bucket[x][j].id = s.bucket[x][j].id
  BY TouchedIsSound
<1>2. ASSUME NEW p \in Stored(s, Reachable(s))
      PROVE  Find(u, s.bucket[p[1]][p[2]].id) # {}
  <2>1. p[1] \in Table /\ p[2] \in Index /\ home[p[1]] # Null /\ s.bucket[p[1]][p[2]] # NoContact
    BY StoredInTree
  <2>2. Find(u, u.bucket[p[1]][p[2]].id) # {}
    BY <1>1, <2>1, InTreeIsFound
  <2> QED
    BY <1>1, <2>1, <2>2
<1> QED
  BY <1>1, <1>2 DEF Safe, CloseKept

LEMMA InsertIsSafe ==
  ASSUME NEW s, NEW home, NEW pos, Sound(s, home, pos),
         NEW c \in Contact, c.good, Find(s, c.id) = {}
  PROVE  Safe(s, Insert(s, c))
<1> DEFINE u == Insert(s, c)
<1>1. PICK new, newPos : Sound(u, new, newPos) /\ Kept(s, home, u, new, c)
  BY InsertIs
<1> HIDE DEF u
<1>2. ASSUME NEW p \in Stored(s, Reachable(s))
      PROVE  LET b == s.bucket[p[1]][p[2]]
             IN  Find(u, b.id) # {} \/ ~ IsGood(b) \/ b.readonly
                 \/ /\ s.length = Capacity
                    /\ s.depth[p[1]] = s.depth[s.root]
                    /\ \E q \in Stored(u, Table) :
                         /\ Rank[u.bucket[q[1]][q[2]].id] > Rank[b.id]
                         /\ Find(s, u.bucket[q[1]][q[2]].id) = {}
  <2> DEFINE t == p[1]
             i == p[2]
             b == s.bucket[t][i]
  <2>1. t \in Table /\ i \in Index /\ t \in InTree(home) /\ b # NoContact /\ s.depth[t] = Rank[b.id]
    BY StoredInTree
  <2> HIDE DEF t, i
  <2>2. CASE new[t] # Null /\ u.bucket[t][i] = b
    <3>1. Find(u, u.bucket[t][i].id) # {}
      BY <1>1, <2>1, <2>2, InTreeIsFound
    <3> QED
      BY <2>2, <3>1 DEF t, i
  <2>3. CASE Usable(s, t, i)
    BY <2>1, <2>3 DEF Usable, t, i
  <2>4. CASE /\ s.length = Capacity
             /\ s.depth[t] = s.depth[s.root] /\ s.depth[s.root] < Rank[c.id]
             /\ \E v \in Table, j \in Index : u.bucket[v][j] = c
    <3>1. PICK v \in Table, j \in Index : u.bucket[v][j] = c
      BY <2>4
    <3> DEFINE q == <<v, j>>
    <3>2. q \in Stored(u, Table) /\ u.bucket[q[1]][q[2]] = c
      BY <3>1, RoutingTableAssumption DEF Stored
    <3>3. Rank[c.id] > Rank[b.id]
      <4>1. Rank[c.id] \in Nat /\ Rank[b.id] \in Range(Rank) \cup {-1}
        <5>1. s.depth \in [Table -> Range(Rank) \cup {-1}]
          BY StateIs DEF Sound
        <5>2. s.depth[t] \in Range(Rank) \cup {-1}
          BY <2>1, <5>1
        <5> HIDE DEF b
        <5> QED
          BY <2>1, <5>2, RoutingTableAssumption DEF Contact
      <4>2. Rank[b.id] \in Int
        BY <4>1, RankIs
      <4> QED
        BY <2>1, <2>4, <4>1, <4>2
    <3> HIDE DEF q
    <3>4. s.length = Capacity /\ s.depth[t] = s.depth[s.root]
      BY <2>4
    <3>5. /\ Rank[u.bucket[q[1]][q[2]].id] > Rank[b.id]
          /\ Find(s, u.bucket[q[1]][q[2]].id) = {}
      BY <3>2, <3>3
    <3> QED
      BY <3>2, <3>4, <3>5 DEF t, i
  <2> QED
    BY <1>1, <2>1, <2>2, <2>3, <2>4 DEF Kept
<1>3. CloseKept(s, u)
  BY <1>2 DEF CloseKept
<1> QED
  BY <1>1, <1>3 DEF Safe, u

LEMMA StutterIsSafe ==
  ASSUME NEW s, NEW home, NEW pos, Sound(s, home, pos)
  PROVE  Safe(s, s)
<1>1. ASSUME NEW p \in Stored(s, Reachable(s))
      PROVE  Find(s, s.bucket[p[1]][p[2]].id) # {}
  <2>1. p[1] \in Table /\ p[2] \in Index /\ home[p[1]] # Null /\ s.bucket[p[1]][p[2]] # NoContact
    BY StoredInTree
  <2> QED
    BY <2>1, InTreeIsFound
<1> QED
  BY <1>1 DEF Safe, CloseKept

LEMMA KnownSenderIsSafe ==
  ASSUME NEW home, NEW pos, Sound(rt, home, pos),
         NEW id, NEW ro \in BOOLEAN, NEW pong \in BOOLEAN, KnownSender(id, ro, pong)
  PROVE  Safe(rt, rt')
<1>1. PICK p \in Find(rt, id) :
        LET c == rt.bucket[p[1]][p[2]]
        IN  rt' = [rt EXCEPT !.bucket[p[1]][p[2]] = Heard(c, ro, pong),
                             !.bad = IF c.good THEN @ ELSE @ - 1]
  BY DEF KnownSender
<1> DEFINE t == p[1]
           i == p[2]
           c == rt.bucket[t][i]
           d == Heard(c, ro, pong)
<1>2. t \in Table /\ i \in Index /\ c # NoContact
  <2>1. p \in Stored(rt, Table)
    BY FindIs DEF Sound
  <2> QED
    BY <2>1 DEF Stored
<1>3. rt \in State /\ c \in Contact
  <2>1. rt \in State
    BY DEF Sound
  <2>2. rt.bucket \in [Table -> [Index -> Contact \cup {NoContact}]]
    BY <2>1, StateIs
  <2> HIDE DEF t, i
  <2> QED
    BY <1>2, <2>1, <2>2
<1>4. rt' = [rt EXCEPT !.bucket[t][i] = d, !.bad = IF c.good THEN @ ELSE @ - 1]
  BY <1>1
<1> HIDE DEF t, i
<1>5. d \in Contact /\ d.id = c.id /\ d.good = TRUE
  <2> HIDE DEF c
  <2> QED
    BY <1>3 DEF Heard, Contact
<1>6. c.good \in BOOLEAN
  BY <1>3 DEF Contact
<1>7. Touched(rt, t, i, d, rt')
  <2> HIDE DEF d
  <2> QED
    BY <1>3, <1>4, <1>5, <1>6 DEF Touched, State
<1> HIDE DEF d
<1> QED
  BY <1>2, <1>5, <1>7, TouchedIsSafe

LEMMA NewSenderIsSafe ==
  ASSUME NEW home, NEW pos, Sound(rt, home, pos), NEW id \in Node, NewSender(id)
  PROVE  Safe(rt, rt')
<1> DEFINE c == [id |-> id, good |-> TRUE, readonly |-> FALSE, unanswered |-> FALSE, recent |-> TRUE]
<1>1. c \in Contact /\ c.good /\ c.id = id
  BY DEF Contact
<1>2. Find(rt, id) = {} /\ rt' = Insert(rt, c)
  BY DEF NewSender
<1> HIDE DEF c
<1> QED
  BY <1>1, <1>2, InsertIsSafe

LEMMA QueryIsSafe ==
  ASSUME NEW home, NEW pos, Sound(rt, home, pos), Query
  PROVE  Safe(rt, rt')
<1>1. PICK p \in Stored(rt, Table), unanswered \in BOOLEAN :
        LET c == rt.bucket[p[1]][p[2]]
            marked == c.good /\ ~IsGood(c)
        IN  rt' = [rt EXCEPT
              !.bucket[p[1]][p[2]] = [c EXCEPT !.good = @ /\ ~marked,
                                               !.unanswered = @ \/ unanswered],
              !.bad = IF marked THEN @ + 1 ELSE @]
  BY DEF Query
<1> DEFINE t == p[1]
           i == p[2]
           c == rt.bucket[t][i]
           marked == c.good /\ ~IsGood(c)
           d == [c EXCEPT !.good = @ /\ ~marked, !.unanswered = @ \/ unanswered]
<1>2. t \in Table /\ i \in Index /\ c # NoContact
  BY DEF Stored
<1>3. rt \in State /\ c \in Contact /\ rt.bucket \in [Table -> [Index -> Contact \cup {NoContact}]]
  <2>1. rt \in State
    BY DEF Sound
  <2>2. rt.bucket \in [Table -> [Index -> Contact \cup {NoContact}]]
    BY <2>1, StateIs
  <2> HIDE DEF t, i
  <2> QED
    BY <1>2, <2>1, <2>2
<1>4. rt' = [rt EXCEPT !.bucket[t][i] = d, !.bad = IF marked THEN @ + 1 ELSE @]
  BY <1>1
<1> HIDE DEF t, i
<1>5. c.good \in BOOLEAN /\ c.unanswered \in BOOLEAN /\ marked \in BOOLEAN
  BY <1>3 DEF Contact
<1>6. d \in Contact /\ d.id = c.id /\ d.good = (c.good /\ ~marked)
  <2> HIDE DEF c, marked
  <2> QED
    BY <1>3, <1>5 DEF Contact
<1>7. Touched(rt, t, i, d, rt')
  <2> DEFINE bucket == [rt.bucket EXCEPT ![t][i] = d]
  <2>1. rt' = [rt EXCEPT !.bucket = bucket, !.bad = IF marked THEN @ + 1 ELSE @]
    <3> HIDE DEF marked, d
    <3> QED
      BY <1>3, <1>4 DEF State
  <2>2. (IF marked THEN rt.bad + 1 ELSE rt.bad)
          = IF c.good = d.good THEN rt.bad ELSE IF d.good THEN rt.bad - 1 ELSE rt.bad + 1
    <3> HIDE DEF d
    <3> QED
      BY <1>5, <1>6
  <2> HIDE DEF marked, d
  <2> QED
    BY <2>1, <2>2 DEF Touched
<1> HIDE DEF d
<1> QED
  BY <1>2, <1>6, <1>7, TouchedIsSafe

LEMMA GoesQuietIsSafe ==
  ASSUME NEW home, NEW pos, Sound(rt, home, pos), GoesQuiet
  PROVE  Safe(rt, rt')
<1>1. PICK p \in Stored(rt, Table) : rt' = [rt EXCEPT !.bucket[p[1]][p[2]].recent = FALSE]
  BY DEF GoesQuiet
<1> DEFINE t == p[1]
           i == p[2]
           c == rt.bucket[t][i]
           d == [c EXCEPT !.recent = FALSE]
<1>2. t \in Table /\ i \in Index /\ c # NoContact
  BY DEF Stored
<1>3. rt \in State /\ c \in Contact /\ rt.bucket \in [Table -> [Index -> Contact \cup {NoContact}]]
  <2>1. rt \in State
    BY DEF Sound
  <2>2. rt.bucket \in [Table -> [Index -> Contact \cup {NoContact}]]
    BY <2>1, StateIs
  <2> HIDE DEF t, i
  <2> QED
    BY <1>2, <2>1, <2>2
<1>4. rt' = [rt EXCEPT !.bucket[t][i].recent = FALSE]
  BY <1>1
<1> HIDE DEF t, i
<1>5. d \in Contact /\ d.id = c.id /\ d.good = c.good
  <2> HIDE DEF c
  <2> QED
    BY <1>3 DEF Contact
<1>6. Touched(rt, t, i, d, rt')
  <2> DEFINE bucket == [rt.bucket EXCEPT ![t][i] = d]
  <2>1. rt' = [rt EXCEPT !.bucket = bucket]
    BY <1>4
  <2> HIDE DEF bucket
  <2>2. rt' = [rt EXCEPT !.bucket = bucket, !.bad = rt.bad]
    BY <1>3, <2>1 DEF State
  <2> HIDE DEF d
  <2> QED
    BY <1>5, <2>2 DEF Touched, bucket
<1> HIDE DEF d
<1> QED
  BY <1>2, <1>5, <1>6, TouchedIsSafe

LEMMA StepIsSafe ==
  ASSUME IInv, [Next]_rt
  PROVE  Safe(rt, rt')
<1>1. PICK home, pos : Sound(rt, home, pos)
  BY DEF IInv
<1>2. CASE Message
  <2>1. PICK id \in Node : (\E ro, pong \in BOOLEAN : KnownSender(id, ro, pong)) \/ NewSender(id)
    BY <1>2 DEF Message
  <2>2. CASE NewSender(id)
    BY <1>1, <2>2, NewSenderIsSafe
  <2>3. CASE \E ro, pong \in BOOLEAN : KnownSender(id, ro, pong)
    BY <1>1, <2>3, KnownSenderIsSafe
  <2> QED
    BY <2>1, <2>2, <2>3
<1>3. CASE Query
  BY <1>1, <1>3, QueryIsSafe
<1>4. CASE GoesQuiet
  BY <1>1, <1>4, GoesQuietIsSafe
<1>5. CASE UNCHANGED rt
  BY <1>1, <1>5, StutterIsSafe
<1> QED
  BY <1>2, <1>3, <1>4, <1>5 DEF Next

(* The lists can be laid out, what is in the tree is in its place and the  *)
(* count is right, in every reachable state.                               *)
THEOREM Inductive == Spec => []IInv
<1>1. Init => IInv
  BY InitIsSound
<1>2. IInv /\ [Next]_rt => IInv'
  BY StepIsSafe DEF Safe, IInv
<1> QED
  BY <1>1, <1>2, PTL DEF Spec

-----------------------------------------------------------------------------
(* The properties. *)

(* TypeOK: no index leaves the array of tables and no counter is negative. *)
THEOREM TypeCorrect == Spec => []TypeOK
<1>1. IInv => TypeOK
  BY DEF IInv, Sound, TypeOK
<1> QED
  BY <1>1, Inductive, PTL

(* TreeWellFormed: after any insertions and evictions the levels get       *)
(* deeper along in_tree, the tables of a level have its depth, only the    *)
(* first of them continues to the next level, no table is in two levels    *)
(* and no list is a cycle, so the walks of find_RoutingTable and           *)
(* bucket_insert end.                                                      *)
THEOREM TreeIsWellFormed == Spec => []TreeWellFormed
<1>1. IInv => TreeWellFormed
  <2> SUFFICES ASSUME NEW home, NEW pos, Sound(rt, home, pos) PROVE TreeWellFormed
    BY DEF IInv
  <2> DEFINE H == Heads(home)
  <2>1. rt \in State /\ Layout(rt, home, pos)
    BY DEF Sound
  <2>2. /\ Members(Levels(rt)) = H
        /\ \A h \in H : Members(Row(rt, h)) = Level(home, h)
        /\ \A h \in H : Along(rt.parallel, h)[Capacity] = Null
    BY <2>1, LayoutReads
  <2>3. \A h \in H : h \in Table /\ home[h] = h /\ h # Null
    BY NullIsNoTable DEF Heads
  <2>4. ASSUME NEW h \in H, rt.inTree[h] # Null
        PROVE  rt.depth[h] < rt.depth[rt.inTree[h]]
    BY <2>1, <2>4 DEF Layout, Chain
  <2>5. ASSUME NEW h \in H, NEW u \in Level(home, h) \ {h}
        PROVE  rt.depth[u] = rt.depth[h] /\ rt.inTree[u] = Null
    <3>1. u \in InTree(home) /\ home[u] = h
      BY <2>3 DEF Level, InTree
    <3> QED
      BY <2>1, <3>1 DEF Layout
  <2>6. ASSUME NEW g \in H, NEW h \in H, g # h
        PROVE  Level(home, g) \cap Level(home, h) = {}
    BY <2>6 DEF Level
  <2> HIDE DEF H
  <2> QED
    BY <2>1, <2>2, <2>4, <2>5, <2>6 DEF TreeWellFormed, TypeOK
<1> QED
  BY <1>1, Inductive, PTL

(* ContactsInPlace: a contact of the tree is in the level of its rank,     *)
(* where find_node looks for it, and no two slots of the tree hold the     *)
(* same id, whatever insert evicted or replaced before.                    *)
THEOREM ContactsAreInPlace == Spec => []ContactsInPlace
<1>1. IInv => ContactsInPlace
  <2> SUFFICES ASSUME NEW home, NEW pos, Sound(rt, home, pos) PROVE ContactsInPlace
    BY DEF IInv
  <2>1. Placed(rt, home)
    BY DEF Sound
  <2>2. ASSUME NEW p \in Stored(rt, Reachable(rt)), NEW q \in Stored(rt, Reachable(rt)),
               rt.bucket[p[1]][p[2]].id = rt.bucket[q[1]][q[2]].id
        PROVE  p = q
    <3>1. /\ p = <<p[1], p[2]>> /\ p[1] \in InTree(home) /\ p[2] \in Index
          /\ rt.bucket[p[1]][p[2]] # NoContact
      BY StoredInTree
    <3>2. /\ q = <<q[1], q[2]>> /\ q[1] \in InTree(home) /\ q[2] \in Index
          /\ rt.bucket[q[1]][q[2]] # NoContact
      BY StoredInTree
    <3>3. p[1] = q[1] /\ p[2] = q[2]
      BY <2>1, <2>2, <3>1, <3>2 DEF Placed
    <3> QED
      BY <3>1, <3>2, <3>3
  <2>3. \A p \in Stored(rt, Reachable(rt)) : Rank[rt.bucket[p[1]][p[2]].id] = rt.depth[p[1]]
    BY StoredInTree
  <2> QED
    BY <2>2, <2>3 DEF ContactsInPlace
<1> QED
  BY <1>1, Inductive, PTL

(* BadCount: bad_nodes is the number of the contacts marked bad, in the    *)
(* tree or in a table that fell out of it, through sweeps, messages,       *)
(* replacements and evictions.                                             *)
THEOREM BadIsCounted == Spec => []BadCount
<1>1. IInv => BadCount
  BY DEF IInv, Sound, Counted, Marked, BadCount
<1> QED
  BY <1>1, Inductive, PTL

(* CloseContactsKept: insert gives up a contact that looks good and is not *)
(* read only in one case, from the shallowest level for a contact of a     *)
(* deeper rank when every table is allocated.                              *)
THEOREM CloseContactsAreKept == Spec => CloseContactsKept
<1>1. IInv /\ [Next]_rt => CloseKept(rt, rt')
  BY StepIsSafe DEF Safe
<1> QED
  BY <1>1, Inductive, PTL DEF Spec, CloseContactsKept, CloseKept

=============================================================================
