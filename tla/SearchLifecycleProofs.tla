----------------------- MODULE SearchLifecycleProofs -----------------------
(***************************************************************************)
(* Proofs about the life of a SearchContext, for all infohashes and        *)
(* contexts: it is not used after it was deleted, and it is deleted when   *)
(* nobody holds it unless a bad reply kept a reference.                    *)
(***************************************************************************)
EXTENDS SearchLifecycle, FiniteSetTheorems, TLAPS

(* The search the context was made for still has it. *)
Searched(c) == ctx[object[c].search] = c

(* A context in memory is counted for its search, for each request that    *)
(* holds it and for each reply that kept a reference, and it is dead when  *)
(* its search is; nobody holds one that is not in memory.                  *)
Counted(c) ==
  \/ /\ object[c].state = "alive"
     /\ ~object[c].is_dead /\ Searched(c)
     /\ object[c].ref_cnt = waiting[c] + lost[c] + 1
  \/ /\ object[c].state = "alive"
     /\ object[c].is_dead /\ ~Searched(c)
     /\ object[c].ref_cnt = waiting[c] + lost[c]
     /\ object[c].ref_cnt > 0
  \/ /\ object[c].state # "alive"
     /\ waiting[c] = 0 /\ ~Searched(c)
     /\ object[c].state = "unused" => lost[c] = 0

(* A search has a context that was made for it. *)
OwnContext == \A ih \in Infohash : ctx[ih] # NoContext => object[ctx[ih]].search = ih

(* The inductive invariant. *)
CountInv == TypeOK /\ OwnContext /\ \A c \in Context : Counted(c)

-----------------------------------------------------------------------------
(* One more holder is gone: the fields of the context afterwards. *)
LEMMA DecrementedIs ==
  ASSUME NEW o \in Object
  PROVE  /\ Decremented(o) \in Object
         /\ Decremented(o).search = o.search
         /\ Decremented(o).is_dead = o.is_dead
         /\ Decremented(o).ref_cnt = o.ref_cnt - 1
         /\ Decremented(o).state =
              IF o.is_dead /\ o.ref_cnt = 1 THEN "deleted" ELSE o.state
<1> DEFINE s == IF o.is_dead /\ o.ref_cnt = 1 THEN "deleted" ELSE o.state
           d == [o EXCEPT !.ref_cnt = @ - 1, !.state = s]
<1>1. s \in {"unused", "alive", "deleted"} /\ o.ref_cnt - 1 \in Int
  BY DEF Object
<1>2. Decremented(o) = d
  BY DEF Decremented
<1> HIDE DEF s
<1>3. /\ d \in Object /\ d.search = o.search /\ d.is_dead = o.is_dead
      /\ d.ref_cnt = o.ref_cnt - 1 /\ d.state = s
  BY <1>1 DEF Object
<1> QED
  BY <1>2, <1>3 DEF s

(* Nothing about a context changes. *)
LEMMA CountedStays ==
  ASSUME NEW c \in Context, Counted(c),
         object'[c].state = object[c].state, object'[c].is_dead = object[c].is_dead,
         object'[c].ref_cnt = object[c].ref_cnt,
         waiting'[c] = waiting[c], lost'[c] = lost[c], Searched(c)' <=> Searched(c)
  PROVE  Counted(c)'
<1>1. CASE Searched(c)
  BY <1>1 DEF Counted
<1>2. CASE ~Searched(c)
  BY <1>2 DEF Counted
<1> QED
  BY <1>1, <1>2

(* The search is gone: the fields of its context afterwards. *)
LEMMA AbandonedIs ==
  ASSUME NEW o \in Object
  PROVE  /\ Abandoned(o) \in Object
         /\ Abandoned(o).search = o.search
         /\ Abandoned(o).is_dead
         /\ Abandoned(o).ref_cnt = o.ref_cnt - 1
         /\ Abandoned(o).state = IF o.ref_cnt = 1 THEN "deleted" ELSE o.state
<1> DEFINE d == [o EXCEPT !.is_dead = TRUE]
<1>1. /\ d \in Object /\ d.search = o.search /\ d.is_dead = TRUE
      /\ d.ref_cnt = o.ref_cnt /\ d.state = o.state
  BY DEF Object
<1>2. Abandoned(o) = Decremented(d)
  BY DEF Abandoned
<1> HIDE DEF d
<1> QED
  BY <1>1, <1>2, DecrementedIs

(* A request is answered or times out: one holder less, and no other       *)
(* context changes.                                                        *)
LEMMA ReleaseKeepsCount ==
  ASSUME CountInv, NEW c \in Context, waiting[c] > 0,
         waiting' = [waiting EXCEPT ![c] = @ - 1],
         object' = [object EXCEPT ![c] = Decremented(@)],
         UNCHANGED <<ctx, left, lost>>
  PROVE  CountInv'
<1>1. object[c] \in Object
  BY DEF CountInv, TypeOK
<1>2. TypeOK'
  BY <1>1, DecrementedIs DEF CountInv, TypeOK
<1>3. \A d \in Context : object'[d].search = object[d].search
  BY <1>1, DecrementedIs DEF CountInv, TypeOK
<1>4. OwnContext'
  BY <1>3 DEF CountInv, TypeOK, OwnContext
<1>5. ASSUME NEW d \in Context
      PROVE  Counted(d)'
  <2>1. Searched(d)' = Searched(d)
    BY <1>3 DEF Searched
  <2>2. CASE d # c
    BY <2>1, <2>2 DEF CountInv, TypeOK, Counted
  <2>3. CASE d = c
    <3>1. object'[c] = Decremented(object[c]) /\ waiting'[c] = waiting[c] - 1
      BY DEF CountInv, TypeOK
    <3>2. waiting[c] \in Nat /\ lost[c] \in Nat /\ object[c].ref_cnt \in Int
      BY <1>1 DEF CountInv, TypeOK, Object
    <3>3. Counted(c) /\ object[c].state = "alive"
      BY DEF CountInv, Counted
    <3> QED
      BY <1>1, <2>1, <2>3, <3>1, <3>2, <3>3, DecrementedIs DEF Counted
  <2> QED
    BY <2>2, <2>3
<1> QED
  BY <1>2, <1>4, <1>5 DEF CountInv

(* A reply that is an error or cannot be parsed: what held the context     *)
(* does not any more, and the count stays.                                 *)
LEMMA BadReplyKeepsCount ==
  ASSUME CountInv, NEW c \in Context, BadReply(c)
  PROVE  CountInv'
<1>1. /\ waiting' = [waiting EXCEPT ![c] = @ - 1] /\ lost' = [lost EXCEPT ![c] = @ + 1]
      /\ waiting[c] > 0 /\ UNCHANGED <<ctx, left, object>>
  BY DEF BadReply, searches
<1>2. TypeOK' /\ OwnContext'
  BY <1>1 DEF CountInv, TypeOK, OwnContext
<1>3. ASSUME NEW d \in Context
      PROVE  Counted(d)'
  <2>1. Searched(d)' = Searched(d) /\ Counted(d)
    BY <1>1 DEF Searched, CountInv
  <2>2. CASE d # c
    BY <1>1, <2>1, <2>2 DEF CountInv, TypeOK, Counted
  <2>3. CASE d = c
    <3>1. /\ waiting'[c] = waiting[c] - 1 /\ lost'[c] = lost[c] + 1
          /\ waiting[c] \in Nat /\ lost[c] \in Nat
      BY <1>1 DEF CountInv, TypeOK
    <3> QED
      BY <1>1, <2>1, <2>3, <3>1 DEF Counted
  <2> QED
    BY <2>2, <2>3
<1> QED
  BY <1>2, <1>3 DEF CountInv

(* A new search: its context has one holder. *)
LEMMA StartKeepsCount ==
  ASSUME CountInv, NEW ih \in Infohash, Start(ih)
  PROVE  CountInv'
<1> DEFINE made == [state |-> "alive", search |-> ih, ref_cnt |-> 1, is_dead |-> FALSE]
<1>1. PICK c \in Context, timeout \in 0..MaxTimeout :
        /\ object[c].state = "unused"
        /\ object' = [object EXCEPT ![c] = made]
        /\ ctx' = [ctx EXCEPT ![ih] = c]
        /\ left' = [left EXCEPT ![ih] = timeout]
  BY DEF Start
<1>2. ctx[ih] = NoContext /\ UNCHANGED <<waiting, lost>>
  BY DEF Start, Active
<1>3. made \in Object
  BY DEF Object
<1>4. TypeOK'
  BY <1>1, <1>2, <1>3, SearchAssumption DEF CountInv, TypeOK
<1>5. Counted(c) /\ ~Searched(c) /\ waiting[c] = 0 /\ lost[c] = 0
  BY <1>1 DEF CountInv, Counted
<1>6. \A j \in Infohash : ctx[j] # c
  BY <1>5, SearchAssumption DEF CountInv, OwnContext, Searched
<1>7. OwnContext'
  BY <1>1, <1>6 DEF CountInv, TypeOK, OwnContext
<1>8. ASSUME NEW d \in Context
      PROVE  Counted(d)'
  <2>1. CASE d = c
    <3>1. object'[c] = made /\ ctx'[ih] = c
      BY <1>1 DEF CountInv, TypeOK
    <3>2. Searched(c)'
      BY <3>1 DEF Searched
    <3> QED
      BY <1>2, <1>5, <2>1, <3>1, <3>2 DEF Counted
  <2>2. CASE d # c
    <3>1. object'[d] = object[d] /\ object[d].search \in Infohash
      BY <1>1, <2>2 DEF CountInv, TypeOK, Object
    <3>2. Searched(d)' = Searched(d)
      BY <1>1, <1>2, <2>2, <3>1, SearchAssumption DEF Searched, CountInv, TypeOK
    <3> QED
      BY <1>2, <3>1, <3>2 DEF CountInv, Counted
  <2> QED
    BY <2>1, <2>2
<1> QED
  BY <1>4, <1>7, <1>8 DEF CountInv

(* Searches are removed and others ask contacts: each context loses its    *)
(* search or gains as many holders as references, and never both.          *)
LEMMA ScheduledKeepsCount ==
  ASSUME CountInv, NEW gone \in SUBSET Active, NEW more \in [Context -> Nat],
         \A c \in Context : more[c] > 0 => ctx[object[c].search] = c
                                           /\ object[c].search \in Active \ gone,
         ctx' = CtxWithout(gone),
         waiting' = [c \in Context |-> waiting[c] + more[c]],
         object' = [c \in Context |->
           [ObjectsWithout(gone)[c] EXCEPT !.ref_cnt = @ + more[c]]],
         UNCHANGED <<left, lost>>
  PROVE  CountInv'
<1> DEFINE mid == ObjectsWithout(gone)
           Lost(c) == \E ih \in gone : ctx[ih] = c
<1>1. ASSUME NEW c \in Context
      PROVE  /\ object[c] \in Object /\ mid[c] \in Object
             /\ mid[c] = IF Lost(c) THEN Abandoned(object[c]) ELSE object[c]
             /\ mid[c].search = object[c].search
  <2>1. object[c] \in Object
    BY DEF CountInv, TypeOK
  <2>2. mid[c] = IF Lost(c) THEN Abandoned(object[c]) ELSE object[c]
    BY DEF ObjectsWithout
  <2> QED
    BY <2>1, <2>2, AbandonedIs
<1>2. ASSUME NEW c \in Context
      PROVE  /\ object'[c] \in Object
             /\ object'[c].search = object[c].search
             /\ object'[c].state = mid[c].state
             /\ object'[c].is_dead = mid[c].is_dead
             /\ object'[c].ref_cnt = mid[c].ref_cnt + more[c]
  <2> HIDE DEF mid
  <2>1. object'[c] = [mid[c] EXCEPT !.ref_cnt = @ + more[c]]
    BY DEF mid
  <2>2. mid[c] \in Object /\ mid[c].search = object[c].search /\ more[c] \in Nat
    BY <1>1
  <2> QED
    BY <2>1, <2>2 DEF Object
<1>3. ctx' \in [Infohash -> Context \cup {NoContext}]
  BY DEF CtxWithout, CountInv, TypeOK
<1>4. TypeOK'
  <2>1. object' \in [Context -> Object]
    BY <1>2
  <2>2. waiting' \in [Context -> Nat]
    BY DEF CountInv, TypeOK
  <2> QED
    BY <1>3, <2>1, <2>2 DEF CountInv, TypeOK
<1>5. \A ih \in Infohash : ctx'[ih] = IF ih \in gone THEN NoContext ELSE ctx[ih]
  BY DEF CtxWithout
<1>6. ASSUME NEW ih \in Infohash, ctx'[ih] # NoContext
      PROVE  object'[ctx'[ih]].search = ih
  <2>1. ctx'[ih] = ctx[ih] /\ ctx[ih] \in Context /\ object[ctx[ih]].search = ih
    BY <1>5, <1>6 DEF CountInv, TypeOK, OwnContext
  <2>2. object'[ctx[ih]].search = object[ctx[ih]].search
    BY <1>2, <2>1
  <2> QED
    BY <2>1, <2>2
<1>7. ASSUME NEW c \in Context
      PROVE  Counted(c)'
  <2>1. object[c].search \in Infohash /\ object'[c].search = object[c].search
    BY <1>1, <1>2 DEF Object
  <2>2. Lost(c) <=> Searched(c) /\ object[c].search \in gone
    BY <2>1, SearchAssumption DEF CountInv, OwnContext, Searched, Active
  <2>3. Searched(c)' <=> Searched(c) /\ ~Lost(c)
    BY <1>5, <2>1, <2>2, SearchAssumption DEF Searched
  <2>4. /\ waiting'[c] = waiting[c] + more[c] /\ lost'[c] = lost[c]
        /\ waiting[c] \in Nat /\ lost[c] \in Nat /\ more[c] \in Nat
        /\ object[c].ref_cnt \in Int /\ object[c].is_dead \in BOOLEAN
    BY <1>1 DEF CountInv, TypeOK, Object
  <2>5. more[c] > 0 => Searched(c) /\ ~Lost(c)
    BY <2>2 DEF Searched
  <2>6. Counted(c)
    BY DEF CountInv
  <2> HIDE DEF mid, Lost
  <2>7. CASE Lost(c)
    <3>1. object[c] \in Object /\ mid[c] = Abandoned(object[c])
      BY <1>1, <2>7
    <3>2. /\ mid[c].state = IF object[c].ref_cnt = 1 THEN "deleted" ELSE object[c].state
          /\ mid[c].is_dead /\ mid[c].ref_cnt = object[c].ref_cnt - 1
      BY <3>1, AbandonedIs
    <3>3. /\ object'[c].state = mid[c].state /\ object'[c].is_dead = mid[c].is_dead
          /\ object'[c].ref_cnt = mid[c].ref_cnt + more[c] /\ more[c] = 0
      BY <1>2, <2>4, <2>5, <2>7
    <3>4. Searched(c)
      BY <2>2, <2>7
    <3>5. object[c].state = "alive" /\ object[c].ref_cnt = waiting[c] + lost[c] + 1
      BY <2>6, <3>4 DEF Counted
    <3>6. ~Searched(c)'
      BY <2>3, <2>7
    <3>7. /\ waiting'[c] = waiting[c]
          /\ object'[c].ref_cnt = waiting[c] + lost[c]
          /\ object'[c].ref_cnt = 0 <=> object[c].ref_cnt = 1
          /\ object'[c].ref_cnt >= 0
          /\ object'[c].ref_cnt = 0 => waiting[c] = 0
      BY <2>4, <3>2, <3>3, <3>5
    <3>8. object'[c].is_dead
      BY <3>2, <3>3
    <3>9. CASE object[c].ref_cnt = 1
      <4>1. object'[c].state = "deleted" /\ waiting'[c] = 0
        BY <3>2, <3>3, <3>7, <3>9
      <4> QED
        BY <3>6, <4>1 DEF Counted
    <3>10. CASE object[c].ref_cnt # 1
      <4>1. object'[c].state = "alive" /\ object'[c].ref_cnt > 0
            /\ object'[c].ref_cnt = waiting'[c] + lost'[c]
        BY <2>4, <3>2, <3>3, <3>5, <3>7, <3>10
      <4> QED
        BY <3>6, <3>8, <4>1 DEF Counted
    <3> QED
      BY <3>9, <3>10
  <2>8. CASE ~Lost(c)
    <3>1. /\ object'[c].state = object[c].state /\ object'[c].is_dead = object[c].is_dead
          /\ object'[c].ref_cnt = object[c].ref_cnt + more[c]
      BY <1>1, <1>2, <2>8
    <3>2. Searched(c)' <=> Searched(c)
      BY <2>3, <2>8
    <3>3. CASE more[c] > 0
      <4>1. object[c].state = "alive" /\ ~object[c].is_dead
            /\ object[c].ref_cnt = waiting[c] + lost[c] + 1
        BY <2>5, <2>6, <3>3 DEF Counted
      <4> QED
        BY <2>4, <2>5, <3>1, <3>2, <3>3, <4>1 DEF Counted
    <3>4. CASE more[c] = 0
      <4>1. waiting'[c] = waiting[c] /\ object'[c].ref_cnt = object[c].ref_cnt
        BY <2>4, <3>1, <3>4
      <4> QED
        BY <2>4, <2>6, <3>1, <3>2, <4>1, CountedStays
    <3> QED
      BY <2>4, <3>3, <3>4
  <2> QED
    BY <2>7, <2>8
<1> QED
  BY <1>4, <1>6, <1>7 DEF CountInv, OwnContext

(* scheduled_search is such a step: what it removes is past its timeout,   *)
(* and what asks contacts is not.                                          *)
LEMMA ScheduledSearchKeepsCount ==
  ASSUME CountInv, ScheduledSearch
  PROVE  CountInv'
<1> DEFINE more(asked) ==
             [c \in Context |->
                IF object[c].search \in Active /\ ctx[object[c].search] = c
                  THEN asked[object[c].search] ELSE 0]
<1>1. PICK passed \in [Infohash -> 0..MaxResult], asked \in Sendings :
        /\ ctx' = CtxWithout(Over(passed))
        /\ waiting' = [c \in Context |-> waiting[c] +
             (IF object[c].search \in Active /\ ctx[object[c].search] = c
                THEN asked[object[c].search] ELSE 0)]
        /\ object' = [c \in Context |->
             [ObjectsWithout(Over(passed))[c] EXCEPT !.ref_cnt = @ +
               (IF object[c].search \in Active /\ ctx[object[c].search] = c
                  THEN asked[object[c].search] ELSE 0)]]
        /\ UNCHANGED <<left, lost>>
  BY Zenon DEF ScheduledSearch
<1>2. /\ asked \in [Infohash -> Nat]
      /\ \A ih \in Infohash : asked[ih] > 0 => left[ih] > 0
  BY SearchAssumption DEF Sendings
<1>3. Over(passed) \in SUBSET Active
  BY DEF Over
<1>4. \A c \in Context : object[c].search \in Infohash
  BY DEF CountInv, TypeOK, Object
<1>5. more(asked) \in [Context -> Nat]
  BY <1>2, <1>4
<1>6. ASSUME NEW c \in Context, more(asked)[c] > 0
      PROVE  ctx[object[c].search] = c /\ object[c].search \in Active \ Over(passed)
  <2>1. /\ object[c].search \in Active /\ ctx[object[c].search] = c
        /\ asked[object[c].search] > 0
    BY <1>6
  <2>2. left[object[c].search] \in Int /\ left[object[c].search] > 0
    BY <1>2, <1>4, <2>1 DEF CountInv, TypeOK
  <2>3. object[c].search \notin Over(passed)
    BY <2>2 DEF Over
  <2> QED
    BY <2>1, <2>3
<1> DEFINE gone == Over(passed)
           m == more(asked)
<1>7. /\ gone \in SUBSET Active /\ m \in [Context -> Nat]
      /\ \A c \in Context : m[c] > 0 =>
           ctx[object[c].search] = c /\ object[c].search \in Active \ gone
      /\ ctx' = CtxWithout(gone)
      /\ waiting' = [c \in Context |-> waiting[c] + m[c]]
      /\ object' = [c \in Context |->
           [ObjectsWithout(gone)[c] EXCEPT !.ref_cnt = @ + m[c]]]
      /\ UNCHANGED <<left, lost>>
  BY <1>1, <1>3, <1>5, <1>6
<1> HIDE DEF gone, m
<1> QED
  BY <1>7, ScheduledKeepsCount

(* A stopped search is one that is removed while none asks.                *)
LEMMA StopKeepsCount ==
  ASSUME CountInv, NEW ih \in Infohash, Stop(ih)
  PROVE  CountInv'
<1> DEFINE gone == {ih}
           m == [c \in Context |-> 0]
<1>1. \A c \in Context :
        /\ ObjectsWithout(gone)[c] \in Object
        /\ [ObjectsWithout(gone)[c] EXCEPT !.ref_cnt = @ + m[c]] = ObjectsWithout(gone)[c]
  <2> SUFFICES ASSUME NEW c \in Context
               PROVE  /\ ObjectsWithout(gone)[c] \in Object
                      /\ [ObjectsWithout(gone)[c] EXCEPT !.ref_cnt = @ + m[c]]
                            = ObjectsWithout(gone)[c]
    OBVIOUS
  <2>1. object[c] \in Object
    BY DEF CountInv, TypeOK
  <2>2. ObjectsWithout(gone)[c] \in Object
    BY <2>1, AbandonedIs DEF ObjectsWithout
  <2>3. m[c] = 0
    OBVIOUS
  <2> HIDE DEF gone, m
  <2> QED
    BY <2>2, <2>3 DEF Object
<1>2. /\ gone \in SUBSET Active /\ m \in [Context -> Nat]
      /\ \A c \in Context : m[c] > 0 =>
           ctx[object[c].search] = c /\ object[c].search \in Active \ gone
      /\ ctx' = CtxWithout(gone)
      /\ UNCHANGED <<left, lost>>
  BY DEF Stop
<1>3. waiting' = [c \in Context |-> waiting[c] + m[c]]
  BY DEF Stop, CountInv, TypeOK
<1>4. object' = [c \in Context |->
        [ObjectsWithout(gone)[c] EXCEPT !.ref_cnt = @ + m[c]]]
  <2>1. object' = ObjectsWithout(gone)
    BY DEF Stop
  <2>2. ObjectsWithout(gone) = [c \in Context |-> ObjectsWithout(gone)[c]]
    BY DEF ObjectsWithout
  <2> HIDE DEF gone, m
  <2> QED
    BY <1>1, <2>1, <2>2
<1> HIDE DEF gone, m
<1> QED
  BY <1>2, <1>3, <1>4, ScheduledKeepsCount

-----------------------------------------------------------------------------
(* The counts are right along every behaviour.                             *)
LEMMA CountInvHolds == Spec => []CountInv
<1>1. Init => CountInv
  <2> SUFFICES ASSUME Init
               PROVE  CountInv
    OBVIOUS
  <2>1. TypeOK
    BY DEF Init, TypeOK, Object
  <2>2. \A c \in Context :
          /\ object[c].state = "unused" /\ waiting[c] = 0 /\ lost[c] = 0
          /\ object[c].search \in Infohash
    BY DEF Init
  <2>3. \A ih \in Infohash : ctx[ih] = NoContext
    BY DEF Init
  <2> QED
    BY <2>1, <2>2, <2>3, SearchAssumption DEF CountInv, OwnContext, Counted, Searched
<1>2. CountInv /\ [Next]_vars => CountInv'
  <2> SUFFICES ASSUME CountInv, [Next]_vars
               PROVE  CountInv'
    OBVIOUS
  <2>1. ASSUME NEW ih \in Infohash, Start(ih)
        PROVE  CountInv'
    BY <2>1, StartKeepsCount
  <2>2. ASSUME NEW ih \in Infohash, Stop(ih)
        PROVE  CountInv'
    BY <2>2, StopKeepsCount
  <2>3. CASE Tick
    <3>1. left' \in [Infohash -> Int]
      BY <2>3 DEF Tick, CountInv, TypeOK
    <3>2. UNCHANGED <<ctx, object, waiting, lost>>
      BY <2>3 DEF Tick
    <3> QED
      BY <3>1, <3>2 DEF CountInv, TypeOK, OwnContext, Counted, Searched
  <2>4. CASE ScheduledSearch
    BY <2>4, ScheduledSearchKeepsCount
  <2>5. ASSUME NEW c \in Context, Response(c) \/ Timeout(c)
        PROVE  CountInv'
    <3>1. /\ waiting[c] > 0
          /\ waiting' = [waiting EXCEPT ![c] = @ - 1]
          /\ object' = [object EXCEPT ![c] = Decremented(@)]
          /\ UNCHANGED <<ctx, left, lost>>
      BY <2>5 DEF Response, Timeout, searches
    <3> QED
      BY <3>1, ReleaseKeepsCount
  <2>6. ASSUME NEW c \in Context, BadReply(c)
        PROVE  CountInv'
    BY <2>6, BadReplyKeepsCount
  <2>7. CASE UNCHANGED vars
    BY <2>7 DEF vars, searches, CountInv, TypeOK, OwnContext, Counted, Searched
  <2> QED
    BY <2>1, <2>2, <2>3, <2>4, <2>5, <2>6, <2>7 DEF Next
<1> QED
  BY <1>1, <1>2, PTL DEF Spec

(* Searches, contexts and the counts of their holders keep their types.    *)
THEOREM TypeCorrect == Spec => []TypeOK
<1>1. CountInv => TypeOK
  BY DEF CountInv
<1> QED
  BY <1>1, CountInvHolds, PTL

(* No context that a search or a transaction holds has been deleted.       *)
THEOREM HeldIsAliveHolds == Spec => []HeldIsAlive
<1>1. CountInv => HeldIsAlive
  <2> SUFFICES ASSUME CountInv
               PROVE  HeldIsAlive
    OBVIOUS
  <2>1. ASSUME NEW ih \in Active
        PROVE  object[ctx[ih]].state = "alive" /\ ~object[ctx[ih]].is_dead
    <3>1. ctx[ih] \in Context /\ Searched(ctx[ih])
      BY DEF Active, CountInv, TypeOK, OwnContext, Searched
    <3> QED
      BY <3>1 DEF CountInv, Counted
  <2>2. \A c \in Context : waiting[c] > 0 => object[c].state = "alive"
    BY DEF CountInv, Counted
  <2> QED
    BY <2>1, <2>2 DEF HeldIsAlive
<1> QED
  BY <1>1, CountInvHolds, PTL

(* A context that nobody holds is deleted, but for one that a bad reply    *)
(* has left behind.                                                        *)
THEOREM DeletedWhenUnusedHolds == Spec => []DeletedWhenUnused
<1>1. CountInv => DeletedWhenUnused
  <2> SUFFICES ASSUME CountInv, NEW c \in Context,
                      object[c].state = "alive", Holders(c) = 0
               PROVE  lost[c] > 0
    BY DEF DeletedWhenUnused
  <2> DEFINE S == {ih \in Infohash : ctx[ih] = c}
  <2>1. Counted(c) /\ waiting[c] \in Nat /\ lost[c] \in Nat
    BY DEF CountInv, TypeOK
  <2>2. S \in SUBSET {object[c].search}
    BY SearchAssumption DEF CountInv, OwnContext
  <2>3. IsFiniteSet(S) /\ Cardinality(S) \in Nat
    BY <2>2, FS_Singleton, FS_Subset, FS_CardinalityType
  <2>4. waiting[c] = 0 /\ Cardinality(S) = 0
    <3>1. waiting[c] + Cardinality(S) = 0
      BY DEF Holders
    <3> HIDE DEF S
    <3> QED
      BY <2>1, <2>3, <3>1
  <2>5. S = {}
    BY <2>3, <2>4, FS_EmptySet
  <2>6. object[c].search \in Infohash
    BY DEF CountInv, TypeOK, Object
  <2>7. ~Searched(c)
    BY <2>5, <2>6 DEF Searched
  <2> QED
    BY <2>1, <2>4, <2>7 DEF Counted
<1> QED
  BY <1>1, CountInvHolds, PTL
=============================================================================
