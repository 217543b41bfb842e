------------------------- MODULE PeerDatabaseProofs -------------------------
(***************************************************************************)
(* Proofs about the peer database, for all infohashes, peers, addresses    *)
(* and nodes, and every age limit: what tokens are accepted, what the      *)
(* count of infohashes is good for, and which peers leave their lists.     *)
(***************************************************************************)
EXTENDS PeerDatabase, FiniteSetTheorems, WellFoundedInduction, TLAPS

(* The part of TypeOK that tokens need. *)
TokensTyped ==
  /\ keyAge \in 0..Worn
  /\ held \in [Address -> Token \cup {NoToken}]

(* A token of the previous key is at least as old as the current key, and  *)
(* one of a dropped key is older than token_key_refresh: it was made       *)
(* before the key was made that took the place of its own, and that key    *)
(* was worn when it was replaced itself.                                   *)
KeysInOrder ==
  \A a \in Address : held[a] # NoToken =>
    /\ held[a].address = a
    /\ held[a].key = "previous" => held[a].age >= keyAge
    /\ held[a].key = "dropped" => held[a].age = Worn

(* The inductive invariant of the tokens. *)
TokensInv == TokensTyped /\ KeysInOrder

-----------------------------------------------------------------------------
(* Tokens. *)

(* An age that saturates stays in its range and does not decrease. *)
LEMMA OlderIsAge ==
  ASSUME NEW limit \in Nat, NEW age \in 0..limit
  PROVE  Older(age, limit) \in 0..limit /\ Older(age, limit) >= age
  BY DEF Older

(* Time leaves the order of ages alone. *)
LEMMA TickKeepsTokens ==
  ASSUME TokensInv, Tick
  PROVE  TokensInv'
<1> USE PeerDatabaseAssumption
<1>1. Worn \in Nat
  BY DEF Worn
<1>2. keyAge' \in 0..Worn
  BY <1>1, OlderIsAge DEF TokensInv, TokensTyped, Tick
<1>3. ASSUME NEW a \in Address, held[a] # NoToken
      PROVE  /\ held'[a] = [held[a] EXCEPT !.age = Older(held[a].age, Worn)]
             /\ held[a] \in Token /\ held'[a] \in Token
  <2>1. held[a] \in Token
    BY <1>3 DEF TokensInv, TokensTyped
  <2>2. Older(held[a].age, Worn) \in 0..Worn
    BY <1>1, <2>1, OlderIsAge DEF Token
  <2> QED
    BY <1>3, <2>1, <2>2 DEF Tick, Token
<1>4. \A a \in Address : held[a] = NoToken => held'[a] = NoToken
  BY DEF Tick
<1>5. held' \in [Address -> Token \cup {NoToken}]
  BY <1>3, <1>4 DEF Tick
<1>6. KeysInOrder'
  <2> SUFFICES ASSUME NEW a \in Address, held'[a] # NoToken
               PROVE  /\ held'[a].address = a
                      /\ held'[a].key = "previous" => held'[a].age >= keyAge'
                      /\ held'[a].key = "dropped" => held'[a].age = Worn
    BY DEF KeysInOrder
  <2>1. held[a] # NoToken
    BY <1>4
  <2>2. /\ held'[a].address = held[a].address
        /\ held'[a].key = held[a].key
        /\ held'[a].age = Older(held[a].age, Worn)
        /\ held[a].age \in 0..Worn
    BY <1>3, <2>1 DEF Token
  <2>3. keyAge' = Older(keyAge, Worn) /\ keyAge \in 0..Worn
    BY DEF Tick, TokensInv, TokensTyped
  <2> QED
    BY <1>1, <2>1, <2>2, <2>3 DEF TokensInv, KeysInOrder, Older
<1> QED
  BY <1>2, <1>5, <1>6 DEF TokensInv, TokensTyped

(* What get_token_key does to a token: nothing as long as the key is used, *)
(* else the token moves with its key, and a previous one had become old.   *)
LEMMA GetPeersKeepsTokens ==
  ASSUME TokensInv, NEW s \in Sender, NEW b \in Address, GetPeers(s, b)
  PROVE  TokensInv'
<1> USE PeerDatabaseAssumption
<1> DEFINE kept == [a \in Address |-> IF KeyGivesWay THEN Moved(held[a]) ELSE held[a]]
           given == [address |-> b, key |-> "current", age |-> 0]
<1>1. Worn \in Nat /\ given \in Token
  BY DEF Worn, Token, Key
<1>2. keyAge' \in 0..Worn /\ (KeyGivesWay => keyAge = Worn /\ keyAge' = 0)
                          /\ (~KeyGivesWay => keyAge' = keyAge)
  BY <1>1 DEF GetPeers, TokensInv, TokensTyped, KeyGivesWay
<1>3. ASSUME NEW a \in Address
      PROVE  /\ kept[a] \in Token \cup {NoToken}
             /\ kept[a] # NoToken =>
                  /\ kept[a].address = a
                  /\ kept[a].key = "previous" => kept[a].age >= keyAge'
                  /\ kept[a].key = "dropped" => kept[a].age = Worn
  <2>1. CASE ~KeyGivesWay
    BY <1>2, <2>1 DEF TokensInv, TokensTyped, KeysInOrder
  <2>2. CASE KeyGivesWay /\ held[a] = NoToken
    BY <2>2 DEF Moved
  <2>3. CASE KeyGivesWay /\ held[a] # NoToken
    <3>1. held[a] \in Token
      BY <2>3 DEF TokensInv, TokensTyped
    <3>2. /\ kept[a] = [held[a] EXCEPT
               !.key = IF held[a].key = "current" THEN "previous" ELSE "dropped"]
          /\ kept[a] \in Token
      BY <2>3, <3>1 DEF Moved, Token, Key
    <3>3. /\ kept[a].address = held[a].address /\ kept[a].age = held[a].age
          /\ kept[a].key = IF held[a].key = "current" THEN "previous" ELSE "dropped"
          /\ held[a].age \in 0..Worn /\ held[a].key \in Key
      BY <3>1, <3>2 DEF Token
    <3> QED
      BY <1>1, <1>2, <2>3, <3>2, <3>3 DEF TokensInv, KeysInOrder, Key
  <2> QED
    BY <2>1, <2>2, <2>3
<1>4. held' = kept \/ held' = [kept EXCEPT ![b] = given]
  BY DEF GetPeers
<1>5. \A a \in Address : held'[a] = kept[a] \/ (a = b /\ held'[a] = given)
  BY <1>4
<1>6. held' \in [Address -> Token \cup {NoToken}]
  BY <1>1, <1>3, <1>4
<1>7. KeysInOrder'
  <2> HIDE DEF kept
  <2> QED
    BY <1>3, <1>5 DEF KeysInOrder
<1> QED
  BY <1>2, <1>6, <1>7 DEF TokensInv, TokensTyped

(* Keys stay in order along every behaviour. *)
LEMMA TokensInvHolds == Spec => []TokensInv
<1>1. Init => TokensInv
  BY PeerDatabaseAssumption DEF Init, TokensInv, TokensTyped, KeysInOrder, Worn
<1>2. TokensInv /\ [Next]_vars => TokensInv'
  <2> SUFFICES ASSUME TokensInv, [Next]_vars
               PROVE  TokensInv'
    OBVIOUS
  <2>1. CASE UNCHANGED <<keyAge, held>>
    BY <2>1 DEF TokensInv, TokensTyped, KeysInOrder
  <2>2. CASE Tick
    BY <2>2, TickKeepsTokens
  <2>3. ASSUME NEW s \in Sender, NEW a \in Address, GetPeers(s, a)
        PROVE  TokensInv'
    BY <2>3, GetPeersKeepsTokens
  <2> QED
    BY <2>1, <2>2, <2>3 DEF Next, Forget, AnnouncePeer, OnAwakePeerDb, vars, tokens
<1> QED
  BY <1>1, <1>2, PTL DEF Spec

(* A token is accepted for token_key_refresh after it was handed out.      *)
THEOREM FreshTokenHolds == Spec => []FreshTokenAccepted
<1>1. TokensInv => FreshTokenAccepted
  <2> SUFFICES ASSUME TokensInv, NEW a \in Address,
                      held[a] # NoToken, held[a].age <= KeyRefresh
               PROVE  IsValidToken(a, held[a])
    BY DEF FreshTokenAccepted
  <2>1. held[a] \in Token
    BY DEF TokensInv, TokensTyped
  <2>2. held[a].age # Worn
    BY <2>1, PeerDatabaseAssumption DEF Token, Worn
  <2> QED
    BY <2>1, <2>2 DEF TokensInv, KeysInOrder, IsValidToken, Token, Key
<1> QED
  BY <1>1, TokensInvHolds, PTL

-----------------------------------------------------------------------------
(* The count of infohashes. *)

(* The inductive invariant of the count. *)
LengthInv == table \subseteq Infohash /\ length \in Int /\ LengthCoversTable

(* The tree is finite. *)
LEMMA SubsetsAreFinite ==
  ASSUME NEW S \in SUBSET Infohash
  PROVE  IsFiniteSet(S) /\ Cardinality(S) \in Nat
  BY PeerDatabaseAssumption, FS_Subset, FS_CardinalityType

(* An announcement that adds an infohash counts it. *)
LEMMA AnnounceKeepsLength ==
  ASSUME LengthInv, NEW s \in Sender, NEW a \in Address, AnnouncePeer(s, a)
  PROVE  LengthInv'
<1>1. CASE UNCHANGED stored
  BY <1>1 DEF LengthInv, LengthCoversTable, stored
<1>2. ASSUME NEW ih \in Infohash,
             table' = table \cup {ih}, length' = LengthAfter(ih)
      PROVE  LengthInv'
  <2>1. IsFiniteSet(table) /\ Cardinality(table) \in Nat
    BY SubsetsAreFinite DEF LengthInv
  <2>2. Cardinality(table') =
          IF ih \in table THEN Cardinality(table) ELSE Cardinality(table) + 1
    BY <1>2, <2>1, FS_AddElement
  <2> QED
    BY <1>2, <2>1, <2>2 DEF LengthInv, LengthCoversTable, LengthAfter, IsFound
<1> QED
  BY <1>1, <1>2 DEF AnnouncePeer

(* A run discounts as many infohashes as it removes. *)
LEMMA OnAwakeKeepsLength ==
  ASSUME LengthInv, OnAwakePeerDb
  PROVE  LengthInv'
<1>1. PICK gone \in SUBSET table :
        table' = table \ gone /\ length' = length - Cardinality(gone)
  BY DEF OnAwakePeerDb, Removed, LengthWithout
<1>2. /\ IsFiniteSet(table) /\ Cardinality(table) \in Nat
      /\ IsFiniteSet(gone) /\ Cardinality(gone) \in Nat
  BY SubsetsAreFinite DEF LengthInv
<1>3. Cardinality(table \ gone) = Cardinality(table) - Cardinality(gone)
  <2>1. table \cap gone = gone
    OBVIOUS
  <2> QED
    BY <1>2, <2>1, FS_Difference
<1> QED
  BY <1>1, <1>2, <1>3 DEF LengthInv, LengthCoversTable

LEMMA LengthInvHolds == Spec => []LengthInv
<1>1. Init => LengthInv
  BY FS_EmptySet DEF Init, LengthInv, LengthCoversTable
<1>2. LengthInv /\ [Next]_vars => LengthInv'
  <2> SUFFICES ASSUME LengthInv, [Next]_vars
               PROVE  LengthInv'
    OBVIOUS
  <2>1. CASE UNCHANGED <<table, length>>
    BY <2>1 DEF LengthInv, LengthCoversTable
  <2>2. ASSUME NEW s \in Sender, NEW a \in Address, AnnouncePeer(s, a)
        PROVE  LengthInv'
    BY <2>2, AnnounceKeepsLength
  <2>3. CASE OnAwakePeerDb
    BY <2>3, OnAwakeKeepsLength
  <2> QED
    BY <2>1, <2>2, <2>3 DEF Next, Tick, Forget, GetPeers, vars, stored
<1> QED
  BY <1>1, <1>2, PTL DEF Spec

(* length_lookup_table never falls below the number of infohashes.         *)
THEOREM LengthCoversTableHolds == Spec => []LengthCoversTable
<1>1. LengthInv => LengthCoversTable
  BY DEF LengthInv
<1> QED
  BY <1>1, LengthInvHolds, PTL

-----------------------------------------------------------------------------
(* The lists of peers. *)

LEMMA LeastIs ==
  ASSUME NEW T \in SUBSET Nat, T # {}
  PROVE  \E m \in T : \A n \in T : m <= n
<1> DEFINE R == OpToRel(<, Nat)
<1>1. IsWellFoundedOn(R, Nat)
  BY NatLessThanWellFounded
<1>2. \A x, y \in Nat : <<x, y>> \in R <=> x < y
  BY DEF OpToRel
<1> HIDE DEF R
<1>3. PICK m \in T : \A n \in T : ~(<<n, m>> \in R)
  BY <1>1, WFMin
<1>4. ASSUME NEW n \in T
      PROVE  m <= n
  <2>1. m \in Nat /\ n \in Nat /\ ~ (n < m)
    BY <1>2, <1>3
  <2> QED
    BY <2>1
<1> QED
  BY <1>4

LEMMA MinIs ==
  ASSUME NEW T \in SUBSET Nat, T # {}
  PROVE  Min(T) \in T /\ \A n \in T : Min(T) <= n
<1>1. \E m \in T : \A n \in T : m <= n
  BY LeastIs
<1> QED
  BY <1>1 DEF Min

LEMMA RemoveAtIs ==
  ASSUME NEW S, NEW list \in Seq(S), NEW m \in 1..Len(list)
  PROVE  /\ RemoveAt(list, m) \in Seq(S) /\ Len(RemoveAt(list, m)) = Len(list) - 1
         /\ \A i \in 1..Len(list) - 1 :
              RemoveAt(list, m)[i] = IF i < m THEN list[i] ELSE list[i + 1]
<1> DEFINE a == SubSeq(list, 1, m - 1)
           b == SubSeq(list, m + 1, Len(list))
<1>1. Len(list) \in Nat /\ m \in Nat
  OBVIOUS
<1>2. a \in Seq(S) /\ Len(a) = m - 1 /\ \A i \in 1..m - 1 : a[i] = list[i]
  BY <1>1
<1>3. /\ b \in Seq(S) /\ Len(b) = Len(list) - m
      /\ \A i \in 1..Len(list) - m : b[i] = list[m + i]
  BY <1>1
<1>4. RemoveAt(list, m) = a \o b
  BY DEF RemoveAt
<1> HIDE DEF a, b
<1>5. a \o b \in Seq(S) /\ Len(a \o b) = Len(list) - 1
  <2>0. a \in Seq(S) /\ b \in Seq(S)
    BY <1>2, <1>3
  <2>1. a \o b \in Seq(S) /\ Len(a \o b) = Len(a) + Len(b)
    BY ONLY <2>0
  <2> QED
    BY <1>1, <1>2, <1>3, <2>1
<1>6. ASSUME NEW i \in 1..Len(list) - 1
      PROVE  (a \o b)[i] = IF i < m THEN list[i] ELSE list[i + 1]
  <2>1. CASE i < m
    BY <1>1, <1>2, <1>3, <1>6, <2>1
  <2>2. CASE ~ (i < m)
    <3>1. (a \o b)[i] = b[i - (m - 1)]
      BY <1>1, <1>2, <1>3, <1>6, <2>2
    <3>2. i - (m - 1) \in 1..Len(list) - m /\ m + (i - (m - 1)) = i + 1
      BY <1>1, <1>6, <2>2
    <3>3. b[i - (m - 1)] = list[m + (i - (m - 1))]
      BY <1>3, <3>2
    <3> QED
      BY <2>2, <3>1, <3>2, <3>3
  <2> QED
    BY <2>1, <2>2
<1> QED
  BY <1>4, <1>5, <1>6

(* A list from its head is in the order of the announcements. *)
Sorted(list) ==
  /\ list \in Seq(Entry)
  /\ \A i, j \in 1..Len(list) : i <= j => list[j].age <= list[i].age

Holds(list, e) == \E i \in 1..Len(list) : list[i] = e

LEMMA AnnouncedIs ==
  ASSUME NEW list, Sorted(list), NEW p \in Peer
  PROVE  /\ Sorted(Announced(list, p))
         /\ Holds(Announced(list, p), [peer |-> p, age |-> 0])
         /\ \A i \in 1..Len(list) : list[i].peer # p => Holds(Announced(list, p), list[i])
<1> DEFINE new == [peer |-> p, age |-> 0]
           short == RemoveFirstMatch(list, LAMBDA e : e.peer = p)
<1>1. new \in Entry /\ new.age = 0
  BY PeerDatabaseAssumption DEF Entry
<1>2. list \in Seq(Entry) /\ Len(list) \in Nat /\ \A i \in 1..Len(list) : list[i] \in Entry
  BY DEF Sorted
<1>3. /\ Sorted(short)
      /\ \A i \in 1..Len(list) : list[i].peer # p => Holds(short, list[i])
  <2>1. CASE \E i \in 1..Len(list) : list[i].peer = p
    <3> DEFINE I == {i \in 1..Len(list) : list[i].peer = p}
               m == Min(I)
    <3>1. short = RemoveAt(list, m)
      BY <2>1 DEF RemoveFirstMatch, SelectInSeq
    <3>2. m \in I
      <4>1. I \in SUBSET Nat /\ I # {}
        BY <2>1
      <4> HIDE DEF I
      <4> QED
        BY <4>1, MinIs
    <3>3. m \in 1..Len(list) /\ list[m].peer = p
      BY <3>2
    <3> HIDE DEF m, short
    <3>4. /\ short \in Seq(Entry) /\ Len(short) = Len(list) - 1
          /\ \A i \in 1..Len(list) - 1 : short[i] = IF i < m THEN list[i] ELSE list[i + 1]
      BY <1>2, <3>1, <3>3, RemoveAtIs
    <3>5. Sorted(short)
      <4> SUFFICES ASSUME NEW i \in 1..Len(short), NEW j \in 1..Len(short), i <= j
                   PROVE  short[j].age <= short[i].age
        BY <3>4 DEF Sorted
      <4> DEFINE k == IF i < m THEN i ELSE i + 1
                 l == IF j < m THEN j ELSE j + 1
      <4>1. k \in 1..Len(list) /\ l \in 1..Len(list) /\ k <= l
        BY <1>2, <3>3, <3>4
      <4>2. short[i] = list[k] /\ short[j] = list[l]
        BY <3>4
      <4> HIDE DEF k, l
      <4> QED
        BY <4>1, <4>2 DEF Sorted
    <3>6. ASSUME NEW i \in 1..Len(list), list[i].peer # p
          PROVE  Holds(short, list[i])
      <4> DEFINE k == IF i < m THEN i ELSE i - 1
      <4>1. i # m
        BY <3>3, <3>6
      <4>2. k \in 1..Len(list) - 1 /\ short[k] = list[i]
        <5>1. CASE i < m
          BY <1>2, <3>3, <3>4, <5>1
        <5>2. CASE i > m
          <6>1. k = i - 1 /\ k \in 1..Len(list) - 1 /\ ~ (k < m) /\ k + 1 = i
            BY <1>2, <3>3, <5>2
          <6> QED
            BY <3>4, <6>1
        <5> QED
          BY <1>2, <3>3, <4>1, <5>1, <5>2
      <4> HIDE DEF k
      <4> QED
        BY <3>4, <4>2 DEF Holds
    <3> QED
      BY <3>5, <3>6
  <2>2. CASE \A i \in 1..Len(list) : list[i].peer # p
    <3>1. short = list
      BY <2>2 DEF RemoveFirstMatch
    <3> HIDE DEF short
    <3> QED
      BY <3>1 DEF Holds
  <2> QED
    BY <2>1, <2>2
<1>4. Announced(list, p) = Append(short, new)
  BY DEF Announced
<1> HIDE DEF short, new
<1> DEFINE long == Append(short, new)
<1>5. /\ long \in Seq(Entry) /\ Len(long) = Len(short) + 1 /\ Len(short) \in Nat
      /\ \A i \in 1..Len(short) : long[i] = short[i] /\ short[i].age \in Nat
      /\ long[Len(short) + 1] = new
  <2>1. short \in Seq(Entry)
    BY <1>3 DEF Sorted
  <2>2. \A i \in 1..Len(short) : short[i].age \in Nat
    <3>1. \A i \in 1..Len(short) : short[i] \in Entry
      BY <2>1
    <3> QED
      BY <3>1, PeerDatabaseAssumption DEF Entry
  <2>3. \A i \in 1..Len(short) : long[i] = short[i]
    BY <1>1, <2>1
  <2> QED
    BY <1>1, <2>1, <2>2, <2>3
<1> HIDE DEF long
<1>6. Sorted(long)
  <2> SUFFICES ASSUME NEW i \in 1..Len(long), NEW j \in 1..Len(long), i <= j
               PROVE  long[j].age <= long[i].age
    BY <1>5 DEF Sorted
  <2>1. CASE j <= Len(short)
    BY <1>3, <1>5, <2>1 DEF Sorted
  <2>2. CASE j = Len(short) + 1
    <3>1. long[j].age = 0 /\ long[i].age \in Nat
      <4>1. i \in 1..Len(short) \/ i = Len(short) + 1
        BY <1>5
      <4> QED
        BY <1>1, <1>5, <2>2, <4>1
    <3> QED
      BY <3>1
  <2> QED
    BY <1>5, <2>1, <2>2
<1>7. \A e : Holds(short, e) => Holds(long, e)
  BY <1>5 DEF Holds
<1>8. Holds(long, new)
  BY <1>5 DEF Holds
<1> QED
  BY <1>3, <1>4, <1>6, <1>7, <1>8 DEF long, new

(* What on_awake_peer_db keeps of a list. *)
LEMMA YoungFromIs ==
  ASSUME NEW list, Sorted(list)
  PROVE  /\ Sorted(YoungFrom(list))
         /\ \A i \in 1..Len(YoungFrom(list)) : YoungFrom(list)[i].age < PeerAge
         /\ \A i \in 1..Len(list) : list[i].age < PeerAge => Holds(YoungFrom(list), list[i])
<1> DEFINE I == {i \in 1..Len(list) : list[i].age < PeerAge}
           m == Min(I)
           young == YoungFrom(list)
<1>1. /\ list \in Seq(Entry) /\ Len(list) \in Nat /\ PeerAge \in Nat
      /\ \A i \in 1..Len(list) : list[i].age \in Nat
  <2>1. list \in Seq(Entry) /\ \A i \in 1..Len(list) : list[i] \in Entry
    BY DEF Sorted
  <2> QED
    BY <2>1, PeerDatabaseAssumption DEF Entry
<1>2. CASE I = {}
  <2>1. young = <<>>
    BY <1>2 DEF YoungFrom, SelectInSeq
  <2> HIDE DEF young
  <2> QED
    BY <1>2, <2>1 DEF Sorted, young
<1>3. CASE I # {}
  <2>1. m \in I /\ \A i \in I : m <= i
    <3>1. I \in SUBSET Nat
      OBVIOUS
    <3> HIDE DEF I
    <3> QED
      BY <1>3, <3>1, MinIs
  <2>2. m \in 1..Len(list) /\ list[m].age < PeerAge
    BY <2>1
  <2>3. young = SubSeq(list, m, Len(list))
    <3>1. SelectInSeq(list, LAMBDA e : e.age < PeerAge) = m
      BY <1>3 DEF SelectInSeq
    <3>2. m # 0
      BY <2>2
    <3> HIDE DEF m
    <3> QED
      BY <3>1, <3>2 DEF YoungFrom
  <2>4. \A i \in 1..Len(list) : list[i].age < PeerAge => m <= i
    BY <2>1
  <2> HIDE DEF m, young, I
  <2>5. /\ young \in Seq(Entry) /\ Len(young) = Len(list) - m + 1
        /\ \A i \in 1..Len(young) : /\ m + i - 1 \in 1..Len(list)
                                    /\ young[i] = list[m + i - 1]
    BY <1>1, <2>2, <2>3
  <2>6. Sorted(young)
    <3> SUFFICES ASSUME NEW i \in 1..Len(young), NEW j \in 1..Len(young), i <= j
                 PROVE  young[j].age <= young[i].age
      BY <2>5 DEF Sorted
    <3> DEFINE k == m + i - 1
               l == m + j - 1
    <3>1. k \in 1..Len(list) /\ l \in 1..Len(list) /\ young[i] = list[k] /\ young[j] = list[l]
      BY <2>5
    <3>2. k <= l
      BY <2>2
    <3> HIDE DEF k, l
    <3> QED
      BY <3>1, <3>2 DEF Sorted
  <2>7. ASSUME NEW i \in 1..Len(young)
        PROVE  young[i].age < PeerAge
    <3> DEFINE k == m + i - 1
    <3>1. young[i] = list[k] /\ m <= k /\ k \in 1..Len(list)
      BY <2>2, <2>5
    <3> HIDE DEF k
    <3>2. list[k].age <= list[m].age
      BY <2>2, <3>1 DEF Sorted
    <3>3. list[k].age \in Nat /\ list[m].age \in Nat
      BY <1>1, <2>2, <3>1
    <3> QED
      BY <1>1, <2>2, <3>1, <3>2, <3>3
  <2>8. ASSUME NEW i \in 1..Len(list), list[i].age < PeerAge
        PROVE  Holds(young, list[i])
    <3> DEFINE k == i - m + 1
    <3>1. k \in 1..Len(young) /\ m + k - 1 = i
      BY <1>1, <2>2, <2>4, <2>5, <2>8
    <3> HIDE DEF k
    <3> QED
      BY <2>5, <3>1 DEF Holds
  <2> QED
    BY <2>6, <2>7, <2>8 DEF young
<1> QED
  BY <1>2, <1>3

(* Time leaves the order alone. *)
LEMMA AgedIs ==
  ASSUME NEW list, Sorted(list), NEW aged,
         aged = [i \in DOMAIN list |-> [list[i] EXCEPT !.age = Older(@, PeerAge)]]
  PROVE  /\ Sorted(aged)
         /\ \A i \in 1..Len(list) : i \in 1..Len(aged) /\ aged[i].peer = list[i].peer
<1>1. list \in Seq(Entry) /\ DOMAIN list = 1..Len(list) /\ Len(list) \in Nat
  BY DEF Sorted
<1>2. ASSUME NEW i \in 1..Len(list)
      PROVE  /\ aged[i] \in Entry /\ aged[i].peer = list[i].peer
             /\ aged[i].age = Older(list[i].age, PeerAge) /\ list[i].age \in 0..PeerAge
  <2>1. list[i] \in Entry
    BY <1>1
  <2>2. list[i].age \in 0..PeerAge /\ Older(list[i].age, PeerAge) \in 0..PeerAge
    <3>1. list[i].age \in 0..PeerAge
      BY <2>1 DEF Entry
    <3> QED
      BY <3>1, OlderIsAge, PeerDatabaseAssumption
  <2>3. aged[i] = [list[i] EXCEPT !.age = Older(list[i].age, PeerAge)]
    BY <1>1
  <2> QED
    BY <2>1, <2>2, <2>3 DEF Entry
<1>3. aged \in Seq(Entry) /\ Len(aged) = Len(list)
  <2>1. DOMAIN aged = 1..Len(list) /\ aged = [i \in 1..Len(list) |-> aged[i]]
    BY <1>1
  <2>2. \A i \in 1..Len(list) : aged[i] \in Entry
    BY <1>2
  <2>3. aged \in [1..Len(list) -> Entry]
    BY ONLY <2>1, <2>2
  <2> QED
    BY <1>1, <2>3
<1>4. ASSUME NEW i \in 1..Len(list), NEW j \in 1..Len(list), i <= j
      PROVE  aged[j].age <= aged[i].age
  <2>1. list[j].age <= list[i].age
    BY <1>4 DEF Sorted
  <2>2. list[i].age \in 0..PeerAge /\ list[j].age \in 0..PeerAge /\ PeerAge \in Nat
    BY <1>2, PeerDatabaseAssumption
  <2>3. Older(list[j].age, PeerAge) <= Older(list[i].age, PeerAge)
    BY <2>1, <2>2 DEF Older
  <2> QED
    BY <1>2, <2>3
<1> QED
  BY <1>2, <1>3, <1>4 DEF Sorted

(* The invariant of the lists. *)
ListsInv ==
  /\ peers \in [Infohash -> Seq(Entry)]
  /\ \A ih \in Infohash : Sorted(peers[ih])

(* What a step makes of a list: it ages, gets an announcement, loses its   *)
(* old peers, or stays.                                                    *)
LEMMA ListStep ==
  ASSUME ListsInv, [Next]_vars, NEW ih \in Infohash
  PROVE  /\ DOMAIN peers' = Infohash
         /\ Sorted(peers'[ih])
         /\ \A i \in 1..Len(peers[ih]) : peers[ih][i].age < PeerAge =>
              \E j \in 1..Len(peers'[ih]) : peers'[ih][j].peer = peers[ih][i].peer
         /\ OnAwakePeerDb => peers'[ih] = YoungFrom(peers[ih])
<1> DEFINE list == peers[ih]
<1>1. DOMAIN peers = Infohash /\ Sorted(list)
  BY DEF ListsInv
<1>2. CASE OnAwakePeerDb
  <2>1. DOMAIN peers' = Infohash /\ peers'[ih] = YoungFrom(list)
    BY <1>2 DEF OnAwakePeerDb
  <2>2. /\ Sorted(YoungFrom(list))
        /\ \A i \in 1..Len(list) : list[i].age < PeerAge => Holds(YoungFrom(list), list[i])
    BY <1>1, YoungFromIs
  <2> HIDE DEF list
  <2>3. \A i \in 1..Len(list) : list[i].age < PeerAge =>
          \E j \in 1..Len(peers'[ih]) : peers'[ih][j].peer = list[i].peer
    BY <2>1, <2>2 DEF Holds
  <2> QED
    BY <2>1, <2>2, <2>3 DEF list
<1>3. CASE Tick /\ ~ OnAwakePeerDb
  <2>1. /\ DOMAIN peers' = Infohash
        /\ peers'[ih] = [i \in DOMAIN list |-> [list[i] EXCEPT !.age = Older(@, PeerAge)]]
    BY <1>3 DEF Tick
  <2>2. /\ Sorted(peers'[ih])
        /\ \A i \in 1..Len(list) : i \in 1..Len(peers'[ih]) /\ peers'[ih][i].peer = list[i].peer
    BY <1>1, <2>1, AgedIs
  <2> QED
    BY <1>3, <2>1, <2>2
<1>4. CASE peers' = peers /\ ~ OnAwakePeerDb
  BY <1>1, <1>4
<1>5. ASSUME NEW jh \in Infohash, NEW p \in Peer, ~ OnAwakePeerDb,
             peers' = [peers EXCEPT ![jh] = Announced(@, p)]
      PROVE  /\ DOMAIN peers' = Infohash
             /\ Sorted(peers'[ih])
             /\ \A i \in 1..Len(list) : list[i].age < PeerAge =>
                  \E j \in 1..Len(peers'[ih]) : peers'[ih][j].peer = list[i].peer
             /\ OnAwakePeerDb => peers'[ih] = YoungFrom(peers[ih])
  <2>1. CASE jh # ih
    <3>1. DOMAIN peers' = Infohash /\ peers'[ih] = list
      BY <1>1, <1>5, <2>1
    <3> HIDE DEF list
    <3> QED
      BY <1>1, <1>5, <3>1
  <2>2. CASE jh = ih
    <3>1. DOMAIN peers' = Infohash /\ peers'[ih] = Announced(list, p)
      BY <1>1, <1>5, <2>2
    <3> DEFINE new == [peer |-> p, age |-> 0]
    <3>2. /\ Sorted(Announced(list, p)) /\ Holds(Announced(list, p), new)
          /\ \A i \in 1..Len(list) : list[i].peer # p => Holds(Announced(list, p), list[i])
      BY <1>1, AnnouncedIs
    <3>3. new.peer = p
      OBVIOUS
    <3> HIDE DEF list, new
    <3>4. ASSUME NEW i \in 1..Len(list)
          PROVE  \E j \in 1..Len(peers'[ih]) : peers'[ih][j].peer = list[i].peer
      BY <3>1, <3>2, <3>3 DEF Holds
    <3> QED
      BY <1>5, <3>1, <3>2, <3>4
  <2> QED
    BY <2>1, <2>2
<1>6. \/ OnAwakePeerDb \/ Tick \/ peers' = peers
      \/ \E jh \in Infohash, p \in Peer : peers' = [peers EXCEPT ![jh] = Announced(@, p)]
  <2>1. ASSUME NEW s \in Sender, NEW a \in Address, AnnouncePeer(s, a)
        PROVE  \/ peers' = peers
               \/ \E jh \in Infohash, p \in Peer : peers' = [peers EXCEPT ![jh] = Announced(@, p)]
    <3>1. HostOf[a] \in Peer
      BY PeerDatabaseAssumption
    <3> QED
      BY <2>1, <3>1 DEF AnnouncePeer, stored
  <2> QED
    BY <2>1 DEF Next, Forget, GetPeers, stored, vars
<1> QED
  BY <1>2, <1>3, <1>4, <1>5, <1>6

LEMMA ListsInvHolds == Spec => []ListsInv
<1>1. Init => ListsInv
  BY DEF Init, ListsInv, Sorted
<1>2. ListsInv /\ [Next]_vars => ListsInv'
  <2> SUFFICES ASSUME ListsInv, [Next]_vars PROVE ListsInv'
    OBVIOUS
  <2>1. \A ih \in Infohash : DOMAIN peers' = Infohash /\ Sorted(peers'[ih])
    BY ListStep
  <2>2. peers' = [ih \in Infohash |-> peers'[ih]]
    <3>1. CASE peers' = peers
      BY <3>1 DEF ListsInv
    <3>2. ASSUME NEW jh \in Infohash, NEW p, peers' = [peers EXCEPT ![jh] = Announced(@, p)]
          PROVE  peers' = [ih \in Infohash |-> peers'[ih]]
      BY <3>2 DEF ListsInv
    <3>3. CASE Tick
      BY <3>3 DEF Tick
    <3>4. CASE OnAwakePeerDb
      BY <3>4 DEF OnAwakePeerDb
    <3> QED
      BY <3>1, <3>2, <3>3, <3>4 DEF Next, Forget, GetPeers, AnnouncePeer, stored, vars
  <2>3. peers' \in [Infohash -> Seq(Entry)]
    BY <2>1, <2>2 DEF Sorted
  <2> QED
    BY <2>1, <2>3 DEF ListsInv, Sorted
<1> QED
  BY <1>1, <1>2, PTL DEF Spec

LEMMA RangeIs ==
  ASSUME NEW list, Sorted(list)
  PROVE  Range(list) = {list[i] : i \in 1..Len(list)}
BY DEF Sorted, Range

(* A run of on_awake_peer_db leaves no old peer behind: announcements go   *)
(* to the tail and time keeps the order, so that whatever is behind the    *)
(* first young peer is young.                                              *)
THEOREM OldPeersLeaveHolds == Spec => OldPeersLeave
<1> DEFINE Left == OnAwakePeerDb =>
                     \A ih \in Infohash : \A e \in Range(peers'[ih]) : e.age < PeerAge
<1>1. ListsInv /\ [Next]_vars => [Left]_vars
  <2> SUFFICES ASSUME ListsInv, [Next]_vars, OnAwakePeerDb, NEW ih \in Infohash,
                      NEW e \in Range(peers'[ih])
               PROVE  e.age < PeerAge
    OBVIOUS
  <2>1. Sorted(peers[ih]) /\ Sorted(peers'[ih]) /\ peers'[ih] = YoungFrom(peers[ih])
    BY ListStep DEF ListsInv
  <2>2. PICK i \in 1..Len(peers'[ih]) : e = peers'[ih][i]
    BY <2>1, RangeIs
  <2> QED
    BY <2>1, <2>2, YoungFromIs
<1> QED
  BY <1>1, ListsInvHolds, PTL DEF Spec, OldPeersLeave

(* No peer leaves before it is old: not by time, not with an old one, and  *)
(* not by an announcement, which takes out only what it puts in again.     *)
THEOREM YoungPeersStayHolds == Spec => YoungPeersStay
<1> DEFINE Stay == \A ih \in Infohash : \A e \in Range(peers[ih]) :
                     e.age < PeerAge => \E f \in Range(peers'[ih]) : f.peer = e.peer
<1>1. ListsInv /\ [Next]_vars => [Stay]_vars
  <2> SUFFICES ASSUME ListsInv, [Next]_vars, NEW ih \in Infohash,
                      NEW e \in Range(peers[ih]), e.age < PeerAge
               PROVE  \E f \in Range(peers'[ih]) : f.peer = e.peer
    OBVIOUS
  <2>1. Sorted(peers[ih]) /\ Sorted(peers'[ih])
    BY ListStep DEF ListsInv
  <2>2. PICK i \in 1..Len(peers[ih]) : e = peers[ih][i]
    BY <2>1, RangeIs
  <2>3. PICK j \in 1..Len(peers'[ih]) : peers'[ih][j].peer = e.peer
    BY <2>2, ListStep
  <2>4. peers'[ih][j] \in Range(peers'[ih])
    BY <2>1, RangeIs
  <2> QED
    BY <2>3, <2>4
<1> QED
  BY <1>1, ListsInvHolds, PTL DEF Spec, YoungPeersStay

-----------------------------------------------------------------------------
(* The routing table's addresses come from messages. *)
LEMMA KnownHolds == Spec => [](known \in [Sender -> Address \cup {NoAddress}])
<1> DEFINE KnownTyped == known \in [Sender -> Address \cup {NoAddress}]
<1>1. Init => KnownTyped
  BY DEF Init
<1>2. KnownTyped /\ [Next]_vars => KnownTyped'
  <2>1. ASSUME KnownTyped, NEW s \in Sender, NEW a \in Address, Message(s, a)
        PROVE  KnownTyped'
    BY <2>1 DEF Message
  <2>2. ASSUME KnownTyped, NEW s \in Sender, Forget(s)
        PROVE  KnownTyped'
    BY <2>2 DEF Forget
  <2> HIDE DEF KnownTyped
  <2>3. KnownTyped /\ known' = known => KnownTyped'
    BY DEF KnownTyped
  <2> QED
    BY <2>1, <2>2, <2>3 DEF Next, Tick, GetPeers, AnnouncePeer, OnAwakePeerDb, vars, tokens
<1> QED
  BY <1>1, <1>2, PTL DEF Spec

(* The tree, the lists, the count, the keys, the tokens and the addresses  *)
(* keep their types: the count does not fall below zero, which unsigned    *)
(* arithmetic would wrap.                                                  *)
THEOREM TypeCorrect == Spec => []TypeOK
<1>1. TokensInv /\ LengthInv /\ ListsInv /\ known \in [Sender -> Address \cup {NoAddress}] => TypeOK
  BY SubsetsAreFinite
     DEF TokensInv, TokensTyped, LengthInv, LengthCoversTable, ListsInv, TypeOK
<1> QED
  BY <1>1, TokensInvHolds, LengthInvHolds, ListsInvHolds, KnownHolds, PTL
==============================================================================
