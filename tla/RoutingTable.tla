---------------------------- MODULE RoutingTable ----------------------------
(***************************************************************************)
(* The routing table of the DHT (src/src/routing_table.cpp) and the steps  *)
(* of the message and ping handlers that change it                         *)
(* (src/src/dht_interface.cpp).                                            *)
(*                                                                         *)
(* Contacts are kept by rank, the length of the prefix their id shares     *)
(* with ours.  The ranks in use form a list of levels linked by in_tree    *)
(* from root, the shallowest, to deeper ones; a level is a list of tables  *)
(* linked by parallel, each with one bucket of K slots.  At most Capacity  *)
(* tables are allocated: for a deeper rank than the root's, the emptiest   *)
(* table of the root level is emptied and reused.                          *)
(*                                                                         *)
(* The pointers are kept as they are.  Of a contact's data the model keeps *)
(* what decisions are made on: outstanding > 2 is unanswered, and          *)
(* remote_activity + refresh_interval > now is recent.                     *)
(***************************************************************************)
EXTENDS Integers, FiniteSetsExt, Functions

CONSTANTS
  Capacity,   \* tables, 100 for the routing table and 30 for a scrape
  K,          \* Bucket::K, 32 in the code
  Node,       \* ids of remote nodes
  Rank,       \* Rank[n]: length of the prefix n shares with our id
  NoContact   \* a slot that is not valid

Null == 0
Table == 1..Capacity
Index == 1..K

Contact ==
  [id : Node,
   good : BOOLEAN,        \* properties.is_good
   readonly : BOOLEAN,    \* properties.is_readonly
   unanswered : BOOLEAN,  \* outstanding > 2
   recent : BOOLEAN]      \* remote_activity + refresh_interval > now

ASSUME RoutingTableAssumption ==
  /\ Capacity \in Nat \ {0}
  /\ K \in Nat \ {0}
  /\ Rank \in [Node -> Nat]
  /\ NoContact \notin Contact

VARIABLE rt  \* DHTMetaRoutingTable, with the tables it allocated

State ==
  [root : Table \cup {Null},  \* the shallowest level
   length : 0..Capacity,      \* tables allocated
   total : Nat, bad : Nat,    \* total_nodes, bad_nodes
   aborted : BOOLEAN,         \* an assertion has failed
   depth : [Table -> Range(Rank) \cup {-1}],
   inTree : [Table -> Table \cup {Null}],
   parallel : [Table -> Table \cup {Null}],
   bucket : [Table -> [Index -> Contact \cup {NoContact}]]]

EmptyBucket == [i \in Index |-> NoContact]

-----------------------------------------------------------------------------
(* Reading the table. *)

(* The nth table from t along a link, Null after the last. *)
Along(link, t) ==
  LET walk[n \in 0..Capacity] ==
        IF n = 0 THEN t
        ELSE IF walk[n - 1] = Null THEN Null ELSE link[walk[n - 1]]
  IN  walk

Levels(s) == Along(s.inTree, s.root)
Row(s, head) == Along(s.parallel, head)

(* The tables of a walk. *)
Members(walk) == {walk[n] : n \in DOMAIN walk} \ {Null}

Reachable(s) == UNION {Members(Row(s, head)) : head \in Members(Levels(s))}

Stored(s, tables) ==
  {p \in tables \X Index : s.bucket[p[1]][p[2]] # NoContact}

BucketLength(s, t) == Cardinality(Stored(s, {t}))

(* The first of some tables on a walk, Null if none is on it. *)
FirstOf(walk, tables) ==
  LET hits == {n \in DOMAIN walk : walk[n] \in tables}
  IN  IF hits = {} THEN Null ELSE walk[Min(hits)]

(* Mistake: the first level that is deep enough. *)
LevelAtLeast(s, r) == FirstOf(Levels(s), {t \in Table : s.depth[t] >= r})

(* find_RoutingTable *)
LevelOf(s, r) == FirstOf(Levels(s), {t \in Table : s.depth[t] = r})

(* is_good(dht, contact): what is replaced, and marked bad by the sweep. *)
IsGood(c) == ~(c.unanswered /\ c.recent)

(* find_node: where the contact with this id is, the empty set if nowhere. *)
Find(s, id) ==
  {p \in Stored(s, Members(Row(s, LevelOf(s, Rank[id])))) : s.bucket[p[1]][p[2]].id = id}

(* routing_table_level_find_node's is_full *)
IsFull(s, head) ==
  \A t \in Members(Row(s, head)), i \in Index :
    s.bucket[t][i] # NoContact /\ IsGood(s.bucket[t][i])

-----------------------------------------------------------------------------
(* Taking contacts out. *)

(* Mistake: the count of bad contacts is kept. *)
ResetKeepsBad(s, slots) ==
  [s EXCEPT
    !.bucket = [t \in Table |-> [i \in Index |->
      IF <<t, i>> \in slots THEN NoContact ELSE s.bucket[t][i]]],
    !.total = Max({0, @ - Cardinality(slots)})]

(* timeout_unlink_reset_node on the slots of a set. *)
Reset(s, slots) ==
  LET bad == {p \in slots : ~s.bucket[p[1]][p[2]].good}
  IN  [s EXCEPT
        !.bucket = [t \in Table |-> [i \in Index |->
          IF <<t, i>> \in slots THEN NoContact ELSE s.bucket[t][i]]],
        !.total = Max({0, @ - Cardinality(slots)}),
        !.bad = @ - Cardinality(bad)]

(* __dequeue_root: the first of the shortest tables of the root level is   *)
(* unlinked.                                                               *)
Victim(s) ==
  LET row == Row(s, s.root)
      shortest == Min({BucketLength(s, t) : t \in Members(row)})
  IN  FirstOf(row, {t \in Table : BucketLength(s, t) = shortest})

Unlinked(s, t) ==
  LET cleared == [s EXCEPT !.inTree[t] = Null, !.parallel[t] = Null]
  IN  IF t # s.root
        THEN LET before == CHOOSE b \in Members(Row(s, s.root)) : s.parallel[b] = t
             IN  [cleared EXCEPT !.parallel[before] = s.parallel[t]]
      ELSE IF s.parallel[t] # Null
        THEN [cleared EXCEPT !.root = s.parallel[t],
                             !.inTree[s.parallel[t]] = s.inTree[t]]
      ELSE [cleared EXCEPT !.root = s.inTree[t]]

-----------------------------------------------------------------------------
(* Mistake: a table is taken for a contact of any rank. *)
AllocForAnyRank(s, r) ==
  IF s.length < Capacity
    THEN [table |-> s.length + 1,
          state |-> [s EXCEPT !.length = @ + 1, !.depth[s.length + 1] = r]]
  ELSE IF s.root = Null
    THEN [table |-> Null, state |-> [s EXCEPT !.aborted = TRUE]]
  ELSE LET t == Victim(s)
           u == Reset(Unlinked(s, t), Stored(s, {t}))
       IN  [table |-> t, state |-> [u EXCEPT !.depth[t] = r]]

(* alloc_RoutingTable: a table of depth r that is in no list, or Null.     *)
(* With every table allocated and no root its assertion fails.             *)
Alloc(s, r) ==
  IF s.length < Capacity
    THEN [table |-> s.length + 1,
          state |-> [s EXCEPT !.length = @ + 1, !.depth[s.length + 1] = r]]
  ELSE IF s.root = Null
    THEN [table |-> Null, state |-> [s EXCEPT !.aborted = TRUE]]
  ELSE IF r > s.depth[s.root]
    THEN LET t == Victim(s)
             u == Reset(Unlinked(s, t), Stored(s, {t}))
         IN  [table |-> t, state |-> [u EXCEPT !.depth[t] = r]]
  ELSE [table |-> Null, state |-> s]

(* Mistake: the new level becomes the root. *)
InsertLevelFirst(s, t) == [s EXCEPT !.inTree[t] = s.root, !.root = t]

(* rt_insert_new: link t before the first deeper level. *)
InsertLevel(s, t) ==
  LET above == {l \in Members(Levels(s)) : s.depth[l] < s.depth[t]}
      deeper == FirstOf(Levels(s), {l \in Table : s.depth[l] > s.depth[t]})
  IN  IF above = {}
        THEN [s EXCEPT !.inTree[t] = s.root, !.root = t]
        ELSE LET parent == CHOOSE l \in above : s.inTree[l] = deeper
             IN  [s EXCEPT !.inTree[t] = deeper, !.inTree[parent] = t]

(* __make_routing_table: a table for rank r linked into the tree.  It is   *)
(* the level of rank r, else the first deeper one, else the last; parent   *)
(* the level before it.  Both are chosen before alloc_RoutingTable, which  *)
(* may take either of them out of the tree, and are used after it.         *)
MakeTable(s, r) ==
  LET levels == Levels(s)
      deeper == FirstOf(levels, {l \in Table : s.depth[l] >= r})
      last == FirstOf(levels, {l \in Table : s.inTree[l] = Null})
      it == IF deeper # Null THEN deeper ELSE last
      parent == FirstOf(levels, {l \in Table : s.inTree[l] = it})
      next == s.parallel[it]
      new == Alloc(s, r)
      t == new.table
      u == new.state
      v == [u EXCEPT !.inTree[t] = it]
  IN  IF s.root = Null
        THEN [table |-> t, state |-> [u EXCEPT !.root = t]]
      ELSE IF t = Null
        THEN new
      ELSE IF s.depth[it] = r
        THEN [table |-> t, state |-> [u EXCEPT !.parallel[t] = next, !.parallel[it] = t]]
      ELSE IF s.depth[it] < r
        THEN [table |-> t, state |-> [u EXCEPT !.inTree[it] = t]]
      ELSE IF parent = t
        THEN [table |-> t, state |-> InsertLevel(v, t)]
      ELSE IF parent # Null
        THEN [table |-> t, state |-> [v EXCEPT !.inTree[parent] = t]]
      ELSE [table |-> t, state |-> [v EXCEPT !.root = t]]

(* bucket_insert over the tables of a level: the first slot that is empty, *)
(* not good or read only takes the contact.  The total is not incremented  *)
(* for a replaced contact, although reset has decremented it.              *)
Place(s, head, c) ==
  LET row == Row(s, head)
      usable(n, i) ==
        /\ row[n] # Null
        /\ \/ s.bucket[row[n]][i] = NoContact
           \/ ~IsGood(s.bucket[row[n]][i])
           \/ s.bucket[row[n]][i].readonly
      places == {p \in (DOMAIN row) \X Index : usable(p[1], p[2])}
      first == CHOOSE p \in places : \A q \in places :
                 p[1] < q[1] \/ (p[1] = q[1] /\ p[2] <= q[2])
      t == row[first[1]]
      i == first[2]
      replaced == s.bucket[t][i] # NoContact
      u == IF replaced THEN Reset(s, {<<t, i>>}) ELSE s
  IN  IF places = {} THEN s
      ELSE [u EXCEPT !.bucket[t][i] = c, !.total = IF replaced THEN @ ELSE @ + 1]

(* insert, of an id that is not in the table. *)
Insert(s, c) ==
  LET level == LevelOf(s, Rank[c.id])
      made == MakeTable(s, Rank[c.id])
  IN  IF level # Null /\ ~IsFull(s, level)
        THEN Place(s, level, c)
      ELSE IF made.table = Null
        THEN made.state
      ELSE Place(made.state, made.table, c)

-----------------------------------------------------------------------------
Init ==
  rt = [root |-> Null, length |-> 0, total |-> 0, bad |-> 0, aborted |-> FALSE,
        depth |-> [t \in Table |-> -1],
        inTree |-> [t \in Table |-> Null],
        parallel |-> [t \in Table |-> Null],
        bucket |-> [t \in Table |-> EmptyBucket]]

(* dht_activity for a known sender, then message's remote_activity = now   *)
(* and, for the answer to a ping, outstanding = 0.                         *)
Heard(c, ro, pong) ==
  [c EXCEPT !.readonly = ro, !.good = TRUE, !.recent = TRUE,
            !.unanswered = @ /\ c.good /\ ~pong]

KnownSender(id, ro, pong) ==
  \E p \in Find(rt, id) :
    LET c == rt.bucket[p[1]][p[2]]
    IN  rt' = [rt EXCEPT !.bucket[p[1]][p[2]] = Heard(c, ro, pong),
                         !.bad = IF c.good THEN @ ELSE @ - 1]

(* dht_activity for an unknown sender that is not read only. *)
NewSender(id) ==
  /\ Find(rt, id) = {}
  /\ rt' = Insert(rt, [id |-> id, good |-> TRUE, readonly |-> FALSE,
                       unanswered |-> FALSE, recent |-> TRUE])

Message ==
  /\ ~rt.aborted
  /\ \E id \in Node :
       \/ \E ro, pong \in BOOLEAN : KnownSender(id, ro, pong)
       \/ NewSender(id)

(* timeout::for_all_node takes a contact of any allocated table whose      *)
(* req_sent is old, marks it bad if it does not look good, and queries it. *)
Query ==
  /\ ~rt.aborted
  /\ \E p \in Stored(rt, Table), unanswered \in BOOLEAN :
       LET c == rt.bucket[p[1]][p[2]]
           marked == c.good /\ ~IsGood(c)
       IN  rt' = [rt EXCEPT
             !.bucket[p[1]][p[2]] = [c EXCEPT !.good = @ /\ ~marked,
                                              !.unanswered = @ \/ unanswered],
             !.bad = IF marked THEN @ + 1 ELSE @]

(* refresh_interval passes without a message from a contact. *)
GoesQuiet ==
  /\ ~rt.aborted
  /\ \E p \in Stored(rt, Table) : rt' = [rt EXCEPT !.bucket[p[1]][p[2]].recent = FALSE]

Next == Message \/ Query \/ GoesQuiet

Spec == Init /\ [][Next]_rt

-----------------------------------------------------------------------------
TypeOK == rt \in State

(* The linked structure survives evictions (debug_correct_level): links    *)
(* are to tables, levels get strictly deeper along in_tree, the tables of  *)
(* a level have its depth and only the first of them continues to the next *)
(* level, and no table is in two places.                                   *)
TreeWellFormed ==
  LET heads == Members(Levels(rt))
  IN  /\ TypeOK
      /\ \A t \in heads : rt.inTree[t] # Null => rt.depth[t] < rt.depth[rt.inTree[t]]
      /\ \A t \in heads : \A u \in Members(Row(rt, t)) \ {t} :
           rt.depth[u] = rt.depth[t] /\ rt.inTree[u] = Null
      /\ \A t, u \in heads : t # u => Members(Row(rt, t)) \cap Members(Row(rt, u)) = {}
      /\ \A t \in heads : Along(rt.parallel, t)[Capacity] = Null

(* A contact is at the level of its rank, where find_node looks, and no id *)
(* is stored twice in the tree ("XXX unique set of nodeid",                *)
(* routing_table.cpp:312), whatever was evicted or replaced before.        *)
ContactsInPlace ==
  LET stored == Stored(rt, Reachable(rt))
      At(p) == rt.bucket[p[1]][p[2]]
  IN  /\ \A p \in stored : Rank[At(p).id] = rt.depth[p[1]]
      /\ \A p, q \in stored : At(p).id = At(q).id => p = q

(* bad_nodes is the number of contacts marked bad.  It is changed by the   *)
(* sweep, by a message from a contact marked bad, and by removing one; a   *)
(* contact can be replaced or evicted in either mark.                      *)
BadCount ==
  rt.bad = Cardinality({p \in Stored(rt, Table) : ~rt.bucket[p[1]][p[2]].good})

(* Contacts close to us are not given up for others: a contact that looks  *)
(* good and is not read only leaves the tree only when every table is      *)
(* allocated, from the shallowest level, for a contact of a deeper rank.   *)
CloseContactsKept ==
  [][\A p \in Stored(rt, Reachable(rt)) :
       LET c == rt.bucket[p[1]][p[2]]
       IN  Find(rt', c.id) # {} \/ ~IsGood(c) \/ c.readonly
           \/ /\ rt.length = Capacity
              /\ rt.depth[p[1]] = rt.depth[rt.root]
              /\ \E q \in Stored(rt', Table) :
                   /\ Rank[rt'.bucket[q[1]][q[2]].id] > Rank[c.id]
                   /\ Find(rt, rt'.bucket[q[1]][q[2]].id) = {}]_rt

(* The test test_find_node finds every contact it has inserted with        *)
(* find_node: what insert stores is reached from root.                     *)
StoredIsFound ==
  \A p \in Stored(rt, Table) : p \in Find(rt, rt.bucket[p[1]][p[2]].id)
=============================================================================
