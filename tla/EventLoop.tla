----------------------------- MODULE EventLoop -----------------------------
(***************************************************************************)
(* The main loop of the daemon (main_loop and on_awake of                  *)
(* src/dht-server.cpp, core_tick of src/src/core.cpp) and what its use of  *)
(* the clock means for requests that wait for a reply.                     *)
(*                                                                         *)
(* A turn reads the clock into DHT::now, sleeps in epoll_wait until a      *)
(* datagram arrives or the timeout of the previous turn has passed, and    *)
(* then runs the on_awake callbacks, in an order shuffled in every turn.   *)
(* DHT::now is not read again after the sleep: what the turn sends is      *)
(* stamped, and what it times out is measured, by the time before it.      *)
(*                                                                         *)
(* Three callbacks stand for all: the one that times out requests, one     *)
(* that sends and may ask to be called at any later time (pings, lookups,  *)
(* the peer database and the scrape), and scheduled_search.  The table of  *)
(* transactions is in Transactions.tla; here there is always a free one.   *)
(***************************************************************************)
EXTENDS Config, FiniteSetsExt

CONSTANTS
  TransactionTimeout,  \* Config::transaction_timeout
  SetBack,             \* bound on how far the system clock is set back
  Horizon,             \* bound on the real time
  Request              \* the requests the daemon sends

ASSUME EventLoopAssumption ==
  /\ TransactionTimeout \in Nat \ {0}
  /\ RefreshInterval \in Nat /\ RefreshInterval >= TransactionTimeout
  /\ Horizon \in Nat /\ SetBack \in 0..Horizon

Callback == {"eager_tx_timeout", "other", "scheduled_search"}

Phase == {"read clock", "epoll_wait", "on_awake"}

VARIABLES
  time,     \* real time
  behind,   \* how far the system clock has been set back
  phase,    \* where the main loop is
  now,      \* DHT::now
  timeout,  \* main_loop's timeout, for the next epoll_wait
  until,    \* when epoll_wait gives up
  todo,     \* the callbacks this turn has still to run
  next,     \* on_awake's next: the earliest time a callback asked for
  status,   \* what became of each request
  stamp,    \* Tx::sent of each request
  left      \* history: the real time at which each request was sent

clock == <<time, behind>>
requests == <<status, stamp, left>>
vars == <<clock, phase, now, timeout, until, todo, next, requests>>

Pending == {r \in Request : status[r] = "pending"}

Expires(r) == stamp[r] + TransactionTimeout

-----------------------------------------------------------------------------
Init ==
  /\ time = SetBack /\ behind = 0
  /\ phase = "read clock"
  /\ now = 0 /\ timeout = 0 /\ until = 0
  /\ todo = {} /\ next = 0
  /\ status = [r \in Request |-> "idle"]
  /\ stamp = [r \in Request |-> 0]
  /\ left = [r \in Request |-> 0]

(* Mistake: the earlier of the two times. *)
ReadClockEarlier ==
  /\ phase = "read clock"
  /\ now' = Min({time - behind, now})
  /\ until' = time + timeout
  /\ phase' = "epoll_wait"
  /\ UNCHANGED <<clock, timeout, todo, next, requests>>

(* "always increasing clock", then core_tick. *)
ReadClock ==
  /\ phase = "read clock"
  /\ now' = Max({time - behind, now})
  /\ until' = time + timeout
  /\ phase' = "epoll_wait"
  /\ UNCHANGED <<clock, timeout, todo, next, requests>>

(* Only the sleep takes time. *)
Pass ==
  /\ phase = "epoll_wait"
  /\ time < until
  /\ time < Horizon
  /\ time' = time + 1
  /\ UNCHANGED <<behind, phase, now, timeout, until, todo, next, requests>>

(* The system clock is set back. *)
ClockSetBack ==
  /\ phase = "epoll_wait"
  /\ behind < SetBack
  /\ behind' = behind + 1
  /\ UNCHANGED <<time, phase, now, timeout, until, todo, next, requests>>

(* epoll_wait returns after its time or before, with replies to some       *)
(* requests, with other events, with a signal or with nothing: the         *)
(* handlers run and on_awake begins with the refresh interval.             *)
Wake(answered) ==
  /\ phase = "epoll_wait"
  /\ status' = [r \in Request |-> IF r \in answered THEN "answered" ELSE status[r]]
  /\ phase' = "on_awake"
  /\ todo' = Callback
  /\ next' = now + RefreshInterval
  /\ UNCHANGED <<clock, now, timeout, until, stamp, left>>

WakeAny == \E answered \in SUBSET Pending : Wake(answered)

(* Mistake: the last callback decides. *)
AskedLast(callback, again) ==
  /\ phase = "on_awake"
  /\ callback \in todo
  /\ todo' = todo \ {callback}
  /\ next' = again

(* on_awake's reduce: one callback ran and asked to be called again. *)
Asked(callback, again) ==
  /\ phase = "on_awake"
  /\ callback \in todo
  /\ todo' = todo \ {callback}
  /\ next' = Min({next, again})

(* on_awake_eager_tx_timeout: next_timeout is the oldest request that is   *)
(* left after eager_tx_timeout.                                            *)
EagerTxTimeout ==
  LET late == {r \in Pending : Expires(r) <= now}
      kept == Pending \ late
  IN  /\ Asked("eager_tx_timeout",
               IF kept = {} THEN now + RefreshInterval ELSE Min({Expires(r) : r \in kept}))
      /\ status' = [r \in Request |-> IF r \in late THEN "timed out" ELSE status[r]]
      /\ UNCHANGED <<clock, phase, now, timeout, until, stamp, left>>

(* client::send, for each of a set of requests. *)
Send(some) ==
  /\ \A r \in some :
       status[r] = "idle" /\ time + 3 * TransactionTimeout + SetBack <= Horizon
  /\ status' = [r \in Request |-> IF r \in some THEN "pending" ELSE status[r]]
  /\ stamp' = [r \in Request |-> IF r \in some THEN now ELSE stamp[r]]
  /\ left' = [r \in Request |-> IF r \in some THEN time ELSE left[r]]

(* Every callback that is not one of the other two. *)
OtherCallback ==
  \E some \in SUBSET Request, delay \in 1..RefreshInterval :
    /\ Asked("other", now + delay)
    /\ Send(some)
    /\ UNCHANGED <<clock, phase, now, timeout, until>>

(* Mistake: as late as the other callbacks. *)
ScheduledSearchAsksLate == now + RefreshInterval

(* scheduled_search reduces the timeouts of the searches starting from     *)
(* now, so that what it finds is never later, and it asks for              *)
(* transaction_timeout from now.                                           *)
ScheduledSearchAsks == now + TransactionTimeout

ScheduledSearch ==
  \E some \in SUBSET Request :
    /\ Asked("scheduled_search", ScheduledSearchAsks)
    /\ Send(some)
    /\ UNCHANGED <<clock, phase, now, timeout, until>>

(* on_awake returns the time to sleep. *)
EndTurn ==
  /\ phase = "on_awake"
  /\ todo = {}
  /\ timeout' = next - now
  /\ phase' = "read clock"
  /\ UNCHANGED <<clock, now, until, todo, next, requests>>

OnAwake == EagerTxTimeout \/ OtherCallback \/ ScheduledSearch \/ EndTurn

Next == ReadClock \/ Pass \/ ClockSetBack \/ WakeAny \/ OnAwake

Spec == Init /\ [][Next]_vars

(* The loop keeps turning, and real time passes in spite of any number of  *)
(* events: each of them leads back to the sleep.                           *)
FairSpec ==
  /\ Spec
  /\ WF_vars(ReadClock) /\ WF_vars(WakeAny) /\ WF_vars(OnAwake)
  /\ SF_vars(Pass)

-----------------------------------------------------------------------------
(* Every variable holds a value of its kind; while callbacks run, and when *)
(* they are done, what they have asked for is later than now (on_awake     *)
(* asserts it of every callback), so that the loop never spins.            *)
TypeOK ==
  /\ time \in 0..Horizon /\ behind \in 0..SetBack
  /\ phase \in Phase /\ todo \subseteq Callback
  /\ now \in 0..time
  /\ timeout \in 0..RefreshInterval /\ until \in Nat
  /\ phase = "on_awake" => next > now
  /\ status \in [Request -> {"idle", "pending", "answered", "timed out"}]
  /\ stamp \in [Request -> 0..now]
  /\ left \in [Request -> 0..time]

(* How far DHT::now is behind. *)
Lag == time - now

(* No lost wake-up.  When the timeouts were swept before another callback  *)
(* sent requests in the same turn, the sweep has asked for nothing on      *)
(* their behalf; still the next sleep, which ends at time + timeout, is    *)
(* past the expiry of the first of them by no more than DHT::now lags      *)
(* behind.  It lags because the sleep is measured from the time before the *)
(* last one, so the loop may oversleep by as much as that one took:        *)
(* another transaction_timeout, and what the clock was set back.           *)
WakesForFirstExpiry ==
  phase = "read clock" =>
    \A r \in Pending :
      /\ time + timeout <= Expires(r) + Lag
      /\ Lag <= TransactionTimeout + behind

(* A request that gets no reply is given up within twice its timeout of    *)
(* real time, plus what the clock was set back, although DHT::now lags by  *)
(* a whole sleep.                                                          *)
GivenUpInTime ==
  \A r \in Pending : time - left[r] <= 2 * TransactionTimeout + behind

(* Every request is answered or given up, under any stream of events. *)
EveryRequestEnds == \A r \in Request : (status[r] = "pending") ~> (status[r] # "pending")
=============================================================================
