-------------------------- MODULE SearchLifecycle --------------------------
(***************************************************************************)
(* Searches for the peers of an infohash, asked for by local clients       *)
(* (src/src/private_interface.cpp, src/src/search.cpp), and the life of    *)
(* the SearchContext that a search shares with its get_peers requests      *)
(* (src/src/dht_interface.cpp).                                            *)
(*                                                                         *)
(* A search is removed when it is stopped or over, while requests for it   *)
(* are still outstanding: each of them holds the context, whose ref_cnt    *)
(* decides when it is deleted.  A new search for the same infohash can be  *)
(* started before the replies to the former one have come; it gets a       *)
(* context of its own, and the replies to both.                            *)
(*                                                                         *)
(* Of contacts and peers only their number matters, and the outstanding    *)
(* requests of a context are counted: which of them is answered makes no   *)
(* difference.  A request that is timed out because a get_peers needs its  *)
(* transaction is one that Timeout took just before.                       *)
(***************************************************************************)
EXTENDS Integers, SequencesExt

CONSTANTS
  Infohash,
  Context,     \* the SearchContext objects, each allocated once
  NoContext,   \* Search::ctx of an infohash that is not searched
  MaxTimeout,  \* bound on the timeout a client asks for
  MaxQueue,    \* bound on the contacts to ask, 1024 in the code
  MaxResult,   \* bound on the peers not yet passed to the client
  MaxWaiting,  \* Client::tree_capacity
  MaxLost      \* bound on the replies that are errors or cannot be parsed

ASSUME SearchAssumption ==
  /\ NoContext \notin Context
  /\ MaxTimeout \in Nat /\ MaxQueue \in Nat /\ MaxResult \in Nat /\ MaxWaiting \in Nat
  /\ MaxLost \in Nat

VARIABLES
  list,     \* DHTMetaSearch, from search_root
  ctx,      \* Search::ctx of each infohash
  left,     \* Search::timeout - now, from -1
  queue,    \* how many contacts Search::queue holds
  result,   \* how many peers Search::result holds
  fail,     \* Search::fail, at most 3: the code asks whether it is above 2
  object,   \* the contexts in memory
  waiting,  \* how many transactions hold each context
  lost      \* history: replies that gave up a context and kept its count

searches == <<list, ctx, left, queue, result, fail>>
vars == <<searches, object, waiting, lost>>

Object ==
  [state : {"unused", "alive", "deleted"},
   search : Infohash,
   ref_cnt : Int,
   is_dead : BOOLEAN]

Active == {ih \in Infohash : ctx[ih] # NoContext}

Outstanding == SumFunction(waiting)

(* Mistake: a dead context is deleted whoever holds it. *)
DecrementedDead(o) ==
  [o EXCEPT !.ref_cnt = @ - 1, !.state = IF o.is_dead THEN "deleted" ELSE @]

(* search_decrement. *)
Decremented(o) ==
  [o EXCEPT !.ref_cnt = @ - 1,
            !.state = IF o.is_dead /\ o.ref_cnt = 1 THEN "deleted" ELSE @]

(* Mistake: the search does not give up its own reference. *)
AbandonedHeld(o) == [o EXCEPT !.is_dead = TRUE]

(* ~Search *)
Abandoned(o) == Decremented([o EXCEPT !.is_dead = TRUE])

-----------------------------------------------------------------------------
Init ==
  /\ list = <<>>
  /\ ctx = [ih \in Infohash |-> NoContext]
  /\ left = [ih \in Infohash |-> -1]
  /\ queue = [ih \in Infohash |-> 0]
  /\ result = [ih \in Infohash |-> 0]
  /\ fail = [ih \in Infohash |-> 0]
  /\ \E ih \in Infohash : object =
       [c \in Context |-> [state |-> "unused", search |-> ih, ref_cnt |-> 0, is_dead |-> FALSE]]
  /\ waiting = [c \in Context |-> 0]
  /\ lost = [c \in Context |-> 0]

(* sp_search: a search that is already running is left as it is.  A new    *)
(* one starts with the contacts of the routing table.                      *)
Start(ih) ==
  /\ ih \notin Active
  /\ \E c \in Context, timeout \in 0..MaxTimeout, contacts \in 0..MaxQueue :
       /\ object[c].state = "unused"
       /\ object' = [object EXCEPT
            ![c] = [state |-> "alive", search |-> ih, ref_cnt |-> 1, is_dead |-> FALSE]]
       /\ ctx' = [ctx EXCEPT ![ih] = c]
       /\ left' = [left EXCEPT ![ih] = timeout]
       /\ queue' = [queue EXCEPT ![ih] = contacts]
  /\ list' = <<ih>> \o list
  /\ UNCHANGED <<result, fail, waiting, lost>>

(* search_remove of a set of searches: the list, the tree, what the        *)
(* deleted Search objects held and the contexts afterwards.                *)
ListWithout(gone) == SelectSeq(list, LAMBDA ih : ih \notin gone)
CtxWithout(gone) == [ih \in Infohash |-> IF ih \in gone THEN NoContext ELSE ctx[ih]]
Cleared(field, gone) == [ih \in Infohash |-> IF ih \in gone THEN 0 ELSE field[ih]]
ObjectsWithout(gone) ==
  [c \in Context |->
     IF \E ih \in gone : ctx[ih] = c THEN Abandoned(object[c]) ELSE object[c]]

(* sp_search_stop *)
Stop(ih) ==
  /\ ih \in Active
  /\ list' = ListWithout({ih})
  /\ ctx' = CtxWithout({ih})
  /\ queue' = Cleared(queue, {ih})
  /\ result' = Cleared(result, {ih})
  /\ fail' = Cleared(fail, {ih})
  /\ object' = ObjectsWithout({ih})
  /\ UNCHANGED <<left, waiting, lost>>

Tick ==
  /\ left' = [ih \in Infohash |-> IF left[ih] < 0 THEN -1 ELSE left[ih] - 1]
  /\ UNCHANGED <<list, ctx, queue, result, fail, object, waiting, lost>>

(* client::priv::found passed some of the results of each search to the    *)
(* client, all of them or until it failed.                                 *)
Kept(passed) == [ih \in Infohash |-> result[ih] - passed[ih]]

FailAfter(passed) ==
  [ih \in Infohash |->
     IF ih \notin Active \/ result[ih] = 0 THEN fail[ih]
     ELSE Min({3, (IF passed[ih] > 0 THEN 0 ELSE fail[ih])
                    + (IF passed[ih] < result[ih] THEN 1 ELSE 0)})]

(* Mistake: only in the instant of the timeout. *)
OverAtDeadline(passed) ==
  {ih \in Active : left[ih] = 0 /\ (Kept(passed)[ih] = 0 \/ FailAfter(passed)[ih] > 2)}

(* The searches that are over, with nothing left to pass on or nobody to   *)
(* pass it to.                                                             *)
Over(passed) ==
  {ih \in Active : left[ih] < 0 /\ (Kept(passed)[ih] = 0 \/ FailAfter(passed)[ih] > 2)}

(* The numbers of get_peers that one run sends for each search: for the    *)
(* running ones, in the order of the list, until one cannot be sent.       *)
Sendings ==
  {asked \in [Infohash -> 0..MaxQueue] :
     /\ \A ih \in Infohash : asked[ih] <= IF ih \in Active /\ left[ih] > 0 THEN queue[ih] ELSE 0
     /\ Outstanding + SumFunction(asked) <= MaxWaiting
     /\ \A i, j \in DOMAIN list :
          i < j /\ left[list[i]] > 0 /\ asked[list[j]] > 0 => asked[list[i]] = queue[list[i]]}

(* scheduled_search: pass on results, remove the searches that are over,   *)
(* then ask contacts, each of these requests with one more reference.      *)
ScheduledSearch ==
  \E passed \in [Infohash -> 0..MaxResult], asked \in Sendings :
    LET gone == Over(passed)
        more(c) == IF object[c].search \in Active /\ ctx[object[c].search] = c
                     THEN asked[object[c].search] ELSE 0
        objects == ObjectsWithout(gone)
    IN  /\ \A ih \in Infohash : passed[ih] <= IF ih \in Active THEN result[ih] ELSE 0
        /\ result' = Cleared(Kept(passed), gone)
        /\ fail' = Cleared(FailAfter(passed), gone)
        /\ list' = ListWithout(gone)
        /\ ctx' = CtxWithout(gone)
        /\ queue' = Cleared([ih \in Infohash |-> queue[ih] - asked[ih]], gone)
        /\ waiting' = [c \in Context |-> waiting[c] + more(c)]
        /\ object' = [c \in Context |-> [objects[c] EXCEPT !.ref_cnt = @ + more(c)]]
        /\ UNCHANGED <<left, lost>>

(* get_peers::on_response: what comes is for the search of that infohash   *)
(* if there is one, whether or not it is the one that asked.               *)
Response(c) ==
  /\ waiting[c] > 0
  /\ waiting' = [waiting EXCEPT ![c] = @ - 1]
  /\ object' = [object EXCEPT ![c] = Decremented(@)]
  /\ LET ih == object[c].search
     IN  IF ih \in Active
           THEN \E nodes \in queue[ih]..MaxQueue, peers \in result[ih]..MaxResult :
                  /\ queue' = [queue EXCEPT ![ih] = nodes]
                  /\ result' = [result EXCEPT ![ih] = peers]
           ELSE UNCHANGED <<queue, result>>
  /\ UNCHANGED <<list, ctx, left, fail, lost>>

(* parse hands the transaction of an error reply to nobody, and on_response *)
(* returns before search_decrement when the response cannot be parsed.     *)
BadReply(c) ==
  /\ waiting[c] > 0
  /\ SumFunction(lost) < MaxLost
  /\ waiting' = [waiting EXCEPT ![c] = @ - 1]
  /\ lost' = [lost EXCEPT ![c] = @ + 1]
  /\ UNCHANGED <<searches, object>>

(* get_peers::on_timeout *)
Timeout(c) ==
  /\ waiting[c] > 0
  /\ waiting' = [waiting EXCEPT ![c] = @ - 1]
  /\ object' = [object EXCEPT ![c] = Decremented(@)]
  /\ UNCHANGED <<searches, lost>>

Next ==
  \/ \E ih \in Infohash : Start(ih) \/ Stop(ih)
  \/ Tick
  \/ ScheduledSearch
  \/ \E c \in Context : Response(c) \/ BadReply(c) \/ Timeout(c)

Spec == Init /\ [][Next]_vars

(* Time passes and every turn of the main loop runs scheduled_search. *)
FairSpec == Spec /\ WF_vars(Tick) /\ WF_vars(ScheduledSearch)

-----------------------------------------------------------------------------
TypeOK ==
  /\ ctx \in [Infohash -> Context \cup {NoContext}]
  /\ left \in [Infohash -> Int]
  /\ object \in [Context -> Object]
  /\ waiting \in [Context -> Nat]
  /\ lost \in [Context -> Nat]

(* No use after free: a context that a search or a transaction holds has   *)
(* not been deleted, in whichever order the search ends, is started again, *)
(* and its requests are answered or time out.                              *)
HeldIsAlive ==
  /\ \A ih \in Active : object[ctx[ih]].state = "alive" /\ ~object[ctx[ih]].is_dead
  /\ \A c \in Context : waiting[c] > 0 => object[c].state = "alive"

Holders(c) == waiting[c] + Cardinality({ih \in Infohash : ctx[ih] = c})

(* No leak but one: a context that nobody holds is deleted, unless a reply *)
(* has been an error or could not be parsed.                               *)
DeletedWhenUnused ==
  \A c \in Context : object[c].state = "alive" /\ Holders(c) = 0 => lost[c] > 0

(* A search that is over goes away: its results reach the client or three  *)
(* runs in a row fail, although replies to it keep adding results.         *)
OverIsRemoved == \A ih \in Infohash : (ih \in Active /\ left[ih] < 0) ~> (ih \notin Active)
=============================================================================
