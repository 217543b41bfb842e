---------------------------- MODULE TimeoutList ----------------------------
(***************************************************************************)
(* The list of routing table contacts by which the daemon decides whom to  *)
(* query next (src/src/timeout.cpp, src/src/timeout_impl.h) and the two    *)
(* callbacks that sweep it, on_awake_ping and on_awake_find_nodes          *)
(* (src/src/dht_interface.cpp).                                            *)
(*                                                                         *)
(* A sweep takes contacts from the head for as long as the head's req_sent *)
(* is more than refresh_interval ago, queries each and appends it; it ends *)
(* when a query cannot be sent.  Only differences to the clock matter, so  *)
(* the model keeps the age of req_sent, which saturates once the contact   *)
(* is due.                                                                 *)
(*                                                                         *)
(* The list is circular in the program; here it is the sequence from       *)
(* Timeout::timeout_node.  The names of the specification are its own, so  *)
(* that LoopProofs can extend this module beside EventLoop.                *)
(***************************************************************************)
EXTENDS Config, SequencesExt

CONSTANTS
  Node,       \* the contacts
  MaxInserts  \* bound on the contacts that enter the routing table

ASSUME TimeoutListAssumption ==
  RefreshInterval \in Nat /\ MaxInserts \in Nat

(* The age at which a contact is due: req_sent + refresh_interval < now. *)
Due == RefreshInterval + 1

VARIABLES
  table,   \* the contacts in the buckets of the routing table
  list,    \* the contacts, from the head
  age,     \* now - req_sent, at most Due
  inserts  \* how many contacts entered

listVars == <<table, list, age, inserts>>

IsDue(n) == age[n] = Due

(* A sweep can reach the contact at position i: take_node looks at the     *)
(* head alone, so it ends at the first contact that is not due.            *)
Reached(i) == \A j \in 1..i : IsDue(list[j])

-----------------------------------------------------------------------------
ListInit == table = {} /\ list = <<>> /\ age = [n \in Node |-> 0] /\ inserts = 0

(* insert_new: a contact that is new in the table, heard from just now,    *)
(* goes to the head.                                                       *)
Insert(n) ==
  /\ n \notin table
  /\ inserts < MaxInserts
  /\ table' = table \cup {n}
  /\ list' = <<n>> \o list
  /\ age' = [age EXCEPT ![n] = 0]
  /\ inserts' = inserts + 1

(* unlink: the contact is replaced or evicted from the routing table. *)
Unlink(n) ==
  /\ n \in table
  /\ table' = table \ {n}
  /\ \E i \in DOMAIN list : list[i] = n /\ list' = RemoveAt(list, i)
  /\ UNCHANGED <<age, inserts>>

Tick ==
  /\ age' = [n \in Node |-> IF age[n] < Due THEN age[n] + 1 ELSE Due]
  /\ UNCHANGED <<table, list, inserts>>

(* Mistakes: the contact that was taken and could not be queried is not    *)
(* put back; it is appended as the others are; queried ones go back to the *)
(* head.                                                                   *)
SweepAge(sent) ==
  /\ Reached(sent)
  /\ age' = [n \in Node |-> IF \E i \in 1..sent : list[i] = n THEN 0 ELSE age[n]]
  /\ UNCHANGED <<table, inserts>>
Taken(sent) == IF sent < Len(list) /\ Reached(sent + 1) THEN sent + 1 ELSE sent
SweepForgets(sent) ==
  /\ SweepAge(sent)
  /\ list' = SubSeq(list, Taken(sent) + 1, Len(list)) \o SubSeq(list, 1, sent)
SweepRotates(sent) ==
  /\ SweepAge(sent)
  /\ list' = SubSeq(list, Taken(sent) + 1, Len(list)) \o SubSeq(list, 1, Taken(sent))
SweepStays(sent) == SweepAge(sent) /\ UNCHANGED list

(* for_all_node when exactly sent queries go out: that many contacts move  *)
(* to the tail with req_sent = now.  With fewer than the due ones the next *)
(* one was taken, could not be queried and was put back at the head.       *)
Sweep(sent) ==
  /\ Reached(sent)
  /\ list' = SubSeq(list, sent + 1, Len(list)) \o SubSeq(list, 1, sent)
  /\ age' = [n \in Node |-> IF \E i \in 1..sent : list[i] = n THEN 0 ELSE age[n]]
  /\ UNCHANGED <<table, inserts>>

SweepAny == \E sent \in 1..Len(list) : Sweep(sent)

ListNext == (\E n \in Node : Insert(n) \/ Unlink(n)) \/ Tick \/ SweepAny

ListSpec == ListInit /\ [][ListNext]_listVars

(* The clock advances; the main loop runs both sweeps in every turn, and   *)
(* transactions become free again, so that sweeps with work to do keep     *)
(* sending at least one query.                                             *)
FairListSpec == ListSpec /\ WF_listVars(Tick) /\ WF_listVars(SweepAny)

-----------------------------------------------------------------------------
(* The contacts of the routing table are in the list, each of them once,   *)
(* and no others: whatever is taken from the head, queried or not, is put  *)
(* back at one of the ends, and what leaves the table leaves the list      *)
(* (unlink asserts that it shortens the list by one).                      *)
ListTypeOK ==
  /\ list \in Seq(Node) /\ IsInjective(list) /\ Range(list) = table
  /\ age \in [Node -> 0..Due]
  /\ inserts \in 0..MaxInserts

(* The sweep looks at the head only, so a due contact can hide behind one  *)
(* that is not due.  Only newcomers hide others: no contact in the middle  *)
(* of the list was queried later than some contact before it and some      *)
(* contact behind it, whatever was taken, put back, appended or unlinked.  *)
OnlyNewcomersHide ==
  \A i, j, k \in DOMAIN list :
    i < j /\ j < k => ~(age[list[j]] < age[list[i]] /\ age[list[j]] < age[list[k]])

(* A due contact is queried again or leaves the table, once contacts stop  *)
(* arriving: the ones in front of it become due themselves.                *)
DueIsQueried ==
  \A n \in Node : (n \in table /\ IsDue(n)) ~> (n \notin table \/ ~IsDue(n))
=============================================================================
