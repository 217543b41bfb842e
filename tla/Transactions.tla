---------------------------- MODULE Transactions ----------------------------
(***************************************************************************)
(* The table of outstanding KRPC transactions of the DHT client            *)
(* (src/src/transaction.cpp) and the only function that opens one,         *)
(* client::send (src/src/client.cpp).                                      *)
(*                                                                         *)
(* The table is a fixed array of Tx, linked in one circular list from      *)
(* Client::timeout_head.  A Tx is named by its two byte prefix, which      *)
(* never changes; the four byte suffix is drawn by rand() every time the   *)
(* Tx is handed out.  The list is meant to keep the Tx that are not in use *)
(* first and then the used ones by the time they were sent, so that only   *)
(* the head is looked at to find a free Tx and only a prefix of the list   *)
(* to time out the old ones.                                               *)
(*                                                                         *)
(* The network and the remote nodes are the environment: a reply to any id *)
(* that ever left the socket may arrive, at any later time, any number of  *)
(* times or never, as a response ("r") or as an error ("e").               *)
(***************************************************************************)
EXTENDS Integers, FiniteSets

CONSTANTS
  Capacity,            \* Client::tree_capacity, 1024 in the code
  TransactionTimeout,  \* Config::transaction_timeout, one minute in the code
  Horizon,             \* bound on the clock
  Suffix,              \* the values rand() gives to the second part of an id
  NoSuffix,            \* the zeroed suffix of a Tx that is not in use
  Request,             \* the calls of client::send, one name for each
  NoRequest            \* the cleared TxContext of a Tx that is not in use

ASSUME TransactionsAssumption ==
  /\ Capacity \in Nat \ {0}
  /\ TransactionTimeout \in Nat \ {0}
  /\ Horizon \in Nat \ {0}
  /\ NoSuffix \notin Suffix
  /\ NoRequest \notin Request

(* The prefixes, and the positions in the list: 1 is timeout_head. *)
Slot == 1..Capacity
Position == 1..Capacity

(* What the owner of a request has seen of it.  "refused": client::send    *)
(* returned ERR_TOKEN, "failed": it returned ERR.                          *)
Status ==
  {"idle", "pending", "response", "error", "timeout", "failed", "refused"}

(* A transaction id on the wire, with the request it was sent for. *)
Message == [slot : Slot, suffix : Suffix, request : Request]

VARIABLES
  now,      \* DHT::now, constant while a callback runs
  order,    \* the circular list: the slot at each position from timeout_head
  sent,     \* Tx::sent, 0 for a Tx that is not in use
  suffix,   \* Tx::suffix
  context,  \* Tx::context, as the request whose callbacks and closure it holds
  active,   \* Client::active
  wire,     \* every id that was sent: what a reply can carry
  status,   \* what the owner of each request has been told
  answer    \* history: the request whose reply completed a request

vars == <<now, order, sent, suffix, context, active, wire, status, answer>>

-----------------------------------------------------------------------------
(* Operations on the list. *)

Head == order[1]

PositionOf(o, t) == CHOOSE i \in Position : o[i] = t

(* Mistakes: the Tx is not unlinked first; it stays where it is. *)
MoveFrontNotUnlinked(o, t) == [o EXCEPT ![1] = t]
MoveFrontForgotten(o, t) == o

(* unlink(t) and add_front(t). *)
MoveFront(o, t) ==
  [i \in Position |->
     IF i = 1 THEN t ELSE IF i <= PositionOf(o, t) THEN o[i - 1] ELSE o[i]]

(* Mistake: a minted Tx stays at the head. *)
MoveBackForgotten(o) == o

(* unlink(head) and add_back(head). *)
MoveBack(o) == [i \in Position |-> IF i = Capacity THEN o[1] ELSE o[i + 1]]

-----------------------------------------------------------------------------
(* Predicates on one Tx. *)

IsSent(t) == sent[t] # 0

ExpireTime(t) == sent[t] + TransactionTimeout

(* Mistake: one tick early. *)
IsExpiredEarly(t) == IsSent(t) => ExpireTime(t) <= now + 1

(* A Tx that is not in use counts as expired. *)
IsExpired(t) == IsSent(t) => ExpireTime(t) <= now

HasFreeTransaction == IsExpired(Head)

(* The earliest time a caller that found no free Tx tries again. *)
NextAvailable == IF IsExpired(Head) THEN now ELSE ExpireTime(Head)

(* Mistakes: nobody is told; every former user of the Tx is told. *)
StatusNotTold(S) == status
StatusToldAgain(S) ==
  [r \in Request |->
     IF \E m \in wire : m.slot \in S /\ m.request = r THEN "timeout" ELSE status[r]]

(* TxContext::timeout of the Tx in S: their requests are told. *)
StatusTimedOut(S) ==
  [r \in Request |-> IF \E t \in S : context[t] = r THEN "timeout" ELSE status[r]]

(* Mistake: the old context is overwritten. *)
ReclaimedForgotten == {}

(* The head, when mint_transaction has to time it out before reusing it. *)
Reclaimed == IF IsSent(Head) /\ IsExpired(Head) THEN {Head} ELSE {}

-----------------------------------------------------------------------------
Init ==
  /\ now = 1
  /\ order = [i \in Position |-> Capacity + 1 - i]
  /\ sent = [t \in Slot |-> 0]
  /\ suffix = [t \in Slot |-> NoSuffix]
  /\ context = [t \in Slot |-> NoRequest]
  /\ active = 0
  /\ wire = {}
  /\ status = [r \in Request |-> "idle"]
  /\ answer = [r \in Request |-> NoRequest]

(* The main loop reads the clock: it never goes backwards. *)
Tick ==
  /\ now < Horizon
  /\ now' = now + 1
  /\ UNCHANGED <<order, sent, suffix, context, active, wire, status, answer>>

(* client::send succeeds: mint_transaction takes the head, after telling   *)
(* its request of the timeout when it is an old one, and the datagram      *)
(* leaves.                                                                 *)
Send(r) ==
  /\ status[r] = "idle"
  /\ now + TransactionTimeout <= Horizon
  /\ HasFreeTransaction
  /\ \E s \in Suffix :
       /\ suffix' = [suffix EXCEPT ![Head] = s]
       /\ wire' = wire \cup {[slot |-> Head, suffix |-> s, request |-> r]}
  /\ sent' = [sent EXCEPT ![Head] = now]
  /\ context' = [context EXCEPT ![Head] = r]
  /\ active' = active - Cardinality(Reclaimed) + 1
  /\ order' = MoveBack(order)
  /\ status' = [StatusTimedOut(Reclaimed) EXCEPT ![r] = "pending"]
  /\ UNCHANGED <<now, answer>>

(* client::send fails to serialise or to send after mint_transaction: it   *)
(* consumes the transaction it has just minted and returns ERR.            *)
SendFails(r) ==
  /\ status[r] = "idle"
  /\ HasFreeTransaction
  /\ sent' = [sent EXCEPT ![Head] = 0]
  /\ suffix' = [suffix EXCEPT ![Head] = NoSuffix]
  /\ context' = [context EXCEPT ![Head] = NoRequest]
  /\ active' = active - Cardinality(Reclaimed)
  /\ order' = MoveFront(MoveBack(order), Head)
  /\ status' = [StatusTimedOut(Reclaimed) EXCEPT ![r] = "failed"]
  /\ UNCHANGED <<now, wire, answer>>

(* client::send finds no transaction to mint and returns ERR_TOKEN. *)
SendRefused(r) ==
  /\ status[r] = "idle"
  /\ ~HasFreeTransaction
  /\ status' = [status EXCEPT ![r] = "refused"]
  /\ UNCHANGED <<now, order, sent, suffix, context, active, wire, answer>>

(* Mistake: only the prefix is compared. *)
MatchesPrefix(m) == IsSent(m.slot)

(* The Tx a received id selects: the prefix is looked up in the tree, then *)
(* prefix and suffix are compared and the Tx has to be in use.             *)
Matches(m) == suffix[m.slot] = m.suffix /\ IsSent(m.slot)

(* parse: a response or an error whose id is known.  consume_transaction   *)
(* hands the context out and clears the Tx; the context's handler runs for *)
(* a response and for nothing else.  An unknown id changes nothing.        *)
Receive(m, outcome) ==
  /\ Matches(m)
  /\ active' = active - 1
  /\ status' = [status EXCEPT ![context[m.slot]] = outcome]
  /\ answer' = [answer EXCEPT ![context[m.slot]] = m.request]
  /\ sent' = [sent EXCEPT ![m.slot] = 0]
  /\ suffix' = [suffix EXCEPT ![m.slot] = NoSuffix]
  /\ context' = [context EXCEPT ![m.slot] = NoRequest]
  /\ order' = MoveFront(order, m.slot)
  /\ UNCHANGED <<now, wire>>

ReceiveResponse == \E m \in wire : Receive(m, "response")
ReceiveError == \E m \in wire : Receive(m, "error")

(* Mistake: the walk ends at a Tx that is not in use. *)
OverdueOfHead == IF IsSent(Head) /\ IsExpired(Head) THEN {Head} ELSE {}

(* The Tx eager_tx_timeout reaches and finds too old: it walks from the    *)
(* head over the ones not in use and stops at the first that is in use and *)
(* not yet expired.                                                        *)
Overdue ==
  {order[i] : i \in {j \in Position :
     /\ IsSent(order[j])
     /\ \A k \in 1..j : IsExpired(order[k])}}

(* on_awake_eager_tx_timeout: the overdue Tx are cleared where they are. *)
EagerTxTimeout ==
  /\ Overdue # {}
  /\ active' = active - Cardinality(Overdue)
  /\ status' = StatusTimedOut(Overdue)
  /\ sent' = [t \in Slot |-> IF t \in Overdue THEN 0 ELSE sent[t]]
  /\ suffix' = [t \in Slot |-> IF t \in Overdue THEN NoSuffix ELSE suffix[t]]
  /\ context' = [t \in Slot |-> IF t \in Overdue THEN NoRequest ELSE context[t]]
  /\ UNCHANGED <<now, order, wire, answer>>

Next ==
  \/ Tick
  \/ \E r \in Request : Send(r) \/ SendFails(r) \/ SendRefused(r)
  \/ ReceiveResponse
  \/ ReceiveError
  \/ EagerTxTimeout

Spec == Init /\ [][Next]_vars

(* The clock advances and on_awake runs the eager timeout in every turn of *)
(* the main loop; nothing is assumed of the remote nodes or the callers.   *)
FairSpec == Spec /\ WF_vars(Tick) /\ WF_vars(EagerTxTimeout)

-----------------------------------------------------------------------------
(* The list links every Tx, each once. *)
ListsEverySlot(o) ==
  /\ o \in [Position -> Slot]
  /\ \A i, j \in Position : o[i] = o[j] => i = j
  /\ \A t \in Slot : \E i \in Position : o[i] = t

(* Every variable holds a value of its kind and the list holds every Tx    *)
(* exactly once: transaction.cpp asserts the length of the list around     *)
(* every operation (debug_count).                                          *)
TypeOK ==
  /\ now \in 1..Horizon
  /\ ListsEverySlot(order)
  /\ sent \in [Slot -> 0..Horizon]
  /\ suffix \in [Slot -> Suffix \cup {NoSuffix}]
  /\ context \in [Slot -> Request \cup {NoRequest}]
  /\ active \in Nat
  /\ wire \subseteq Message
  /\ status \in [Request -> Status]
  /\ answer \in [Request -> Request \cup {NoRequest}]

(* The list is sorted by the time the Tx were sent, the ones not in use    *)
(* first (transaction.h:7-9, asserted by debug_is_ordered): a Tx that is   *)
(* consumed has to go to the front and one that is minted to the back.     *)
SentOrder ==
  \A i, j \in Position : i <= j => sent[order[i]] <= sent[order[j]]

(* Looking at a part of the list misses nothing.  When the head is not     *)
(* free no Tx is (asserted by has_free_transaction), and the walk of       *)
(* eager_tx_timeout, which stops early, reaches every expired Tx (asserted *)
(* by next_timeout, which runs right after it).                            *)
PartialSearchIsComplete ==
  /\ (\E t \in Slot : IsExpired(t)) => HasFreeTransaction
  /\ Overdue = {t \in Slot : IsSent(t) /\ IsExpired(t)}

(* Client::active counts the Tx in use, whichever way they were freed:     *)
(* each decrement is guarded by assertx(active > 0).                       *)
ActiveCount == active = Cardinality({t \in Slot : IsSent(t)})

(* No context is lost and none is held twice: a request whose owner still  *)
(* waits is in exactly one Tx in use, so that a response or the timeout    *)
(* can still reach it, and a Tx in use holds a request that still waits.   *)
ContextHeldOnce ==
  /\ \A t \in Slot : IsSent(t) => context[t] \in Request
  /\ \A t, u \in Slot : IsSent(t) /\ IsSent(u) /\ context[t] = context[u] => t = u
  /\ \A r \in Request :
       status[r] = "pending" <=> \E t \in Slot : IsSent(t) /\ context[t] = r

(* The owner of a request is told one outcome: a request that was answered *)
(* is not timed out afterwards, one that was timed out is not completed by *)
(* a late or duplicated reply, and a failed send leaves nothing behind.    *)
ResolvedOnce ==
  [][\A r \in Request :
       status[r] \notin {"idle", "pending"} => status'[r] = status[r]]_vars

(* A request is timed out only when its transaction_timeout has passed, on *)
(* both paths: the eager sweep and the reuse of the head by a new request. *)
NoEarlyTimeout ==
  [][\A t \in Slot :
       IsSent(t) /\ status'[context[t]] = "timeout" => ExpireTime(t) <= now]_vars

(* A reply completes the request it answers: after a Tx was reused, a late *)
(* reply to its former request finds another suffix.  The only exception   *)
(* is rand() giving one Tx the same suffix twice.                          *)
OwnReply ==
  \A r \in Request :
    \/ answer[r] \in {r, NoRequest}
    \/ \E m, n \in wire :
         /\ m.request = r /\ n.request = answer[r]
         /\ m.slot = n.slot /\ m.suffix = n.suffix

(* Every request is eventually answered or timed out, also when no reply   *)
(* comes and no later request needs its Tx.                                *)
EveryRequestResolved ==
  \A r \in Request : (status[r] = "pending") ~> (status[r] # "pending")

-----------------------------------------------------------------------------
(* What the table promises to the owners of requests, without the list,    *)
(* the ids or the network: see PendingRequests.                            *)
SlotOf(r) == CHOOSE t \in Slot : IsSent(t) /\ context[t] = r

Promise == INSTANCE PendingRequests WITH
  since <- [r \in Request |-> IF status[r] = "pending" THEN sent[SlotOf(r)] ELSE 0]

(* The table implements PendingRequests, fairness included: in particular  *)
(* a request is refused only when Capacity others are waiting and none is  *)
(* overdue, and what a new request displaces is the oldest overdue one.    *)
ImplementsPromise == Promise!FairSpec
=============================================================================
