-------------------------- MODULE PendingRequests --------------------------
(***************************************************************************)
(* What the transaction table promises to the code that sends requests:    *)
(* at most Capacity requests wait at a time, each is told exactly one      *)
(* outcome, and one that has waited for TransactionTimeout gives way.      *)
(* Transactions.tla is the table of the program and implements this.       *)
(***************************************************************************)
EXTENDS Integers, FiniteSets

CONSTANTS Capacity, TransactionTimeout, Horizon, Request

VARIABLES
  now,     \* the clock
  status,  \* what the owner of each request has been told
  since    \* when a waiting request was sent, 0 for the others

vars == <<now, status, since>>

Pending == {r \in Request : status[r] = "pending"}

IsOverdue(r) == since[r] + TransactionTimeout <= now

Oldest(r) == \A p \in Pending : since[r] <= since[p]

(* The requests that give way to a new one: none as long as there is room, *)
(* then the oldest if it is overdue.                                       *)
MakeRoom ==
  IF Cardinality(Pending) < Capacity
    THEN {{}}
    ELSE {{r} : r \in {p \in Pending : Oldest(p) /\ IsOverdue(p)}}

-----------------------------------------------------------------------------
Init ==
  /\ now = 1
  /\ status = [r \in Request |-> "idle"]
  /\ since = [r \in Request |-> 0]

Tick == now < Horizon /\ now' = now + 1 /\ UNCHANGED <<status, since>>

(* A call that gets a transaction: the request waits, or fails at once. *)
Issue(r, outcome, time) ==
  /\ status[r] = "idle"
  /\ \E old \in MakeRoom :
       /\ status' = [p \in Request |->
            IF p = r THEN outcome ELSE IF p \in old THEN "timeout" ELSE status[p]]
       /\ since' = [p \in Request |->
            IF p = r THEN time ELSE IF p \in old THEN 0 ELSE since[p]]
  /\ UNCHANGED now

Open(r) == now + TransactionTimeout <= Horizon /\ Issue(r, "pending", now)
Fail(r) == Issue(r, "failed", 0)

Refuse(r) ==
  /\ status[r] = "idle"
  /\ Cardinality(Pending) = Capacity
  /\ \A p \in Pending : ~IsOverdue(p)
  /\ status' = [status EXCEPT ![r] = "refused"]
  /\ UNCHANGED <<now, since>>

Settle(r) ==
  /\ status[r] = "pending"
  /\ \E outcome \in {"response", "error"} :
       status' = [status EXCEPT ![r] = outcome]
  /\ since' = [since EXCEPT ![r] = 0]
  /\ UNCHANGED now

Sweep ==
  LET late == {r \in Pending : IsOverdue(r)}
  IN  /\ late # {}
      /\ status' = [r \in Request |-> IF r \in late THEN "timeout" ELSE status[r]]
      /\ since' = [r \in Request |-> IF r \in late THEN 0 ELSE since[r]]
      /\ UNCHANGED now

Next ==
  \/ Tick
  \/ \E r \in Request : Open(r) \/ Fail(r) \/ Refuse(r) \/ Settle(r)
  \/ Sweep

Spec == Init /\ [][Next]_vars

FairSpec == Spec /\ WF_vars(Tick) /\ WF_vars(Sweep)
=============================================================================
