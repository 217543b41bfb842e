----------------------------- MODULE LoopProofs -----------------------------
(***************************************************************************)
(* Theorems about the main loop and about the list of contacts that two of *)
(* its callbacks sweep: EventLoop, for any timeouts, any set of requests   *)
(* and any bounds, and TimeoutList, for any contacts, interval and number  *)
(* of arrivals.                                                            *)
(***************************************************************************)
EXTENDS EventLoop, TimeoutList, TLAPS, WellFoundedInduction

(***************************************************************************)
(* EventLoop: the loop wakes for the first request that expires, and gives *)
(* it up within twice its timeout.                                         *)
(***************************************************************************)

LEMMA MinOfTwo ==
  ASSUME NEW a \in Int, NEW b \in Int
  PROVE  /\ Min({a, b}) \in {a, b}
         /\ Min({a, b}) <= a /\ Min({a, b}) <= b
<1>1. \E x \in {a, b} : \A y \in {a, b} : x <= y
  <2>1. CASE a <= b
    BY <2>1
  <2>2. CASE ~ (a <= b)
    BY <2>2
  <2> QED
    BY <2>1, <2>2
<1> QED
  BY <1>1 DEF Min

LEMMA MaxOfTwo ==
  ASSUME NEW a \in Int, NEW b \in Int
  PROVE  /\ Max({a, b}) \in {a, b}
         /\ a <= Max({a, b}) /\ b <= Max({a, b})
<1>1. \E x \in {a, b} : \A y \in {a, b} : x >= y
  <2>1. CASE a <= b
    BY <2>1
  <2>2. CASE ~ (a <= b)
    BY <2>2
  <2> QED
    BY <2>1, <2>2
<1> QED
  BY <1>1 DEF Max

(* A set of naturals has a smallest element. *)
LEMMA MinOfNaturals ==
  ASSUME NEW S \in SUBSET Nat, S # {}
  PROVE  Min(S) \in S /\ \A y \in S : Min(S) <= y
<1> DEFINE R == OpToRel(<, Nat)
<1>1. IsWellFoundedOn(R, Nat)
  BY NatLessThanWellFounded
<1>2. \E x \in S : \A y \in S : ~ (<<y, x>> \in R)
  <2> HIDE DEF R
  <2> QED
    BY <1>1, WFMin
<1>3. \A x, y \in S : <<y, x>> \in R <=> y < x
  BY DEF OpToRel
<1> HIDE DEF R
<1>4. \E x \in S : \A y \in S : x <= y
  <2>1. PICK x \in S : \A y \in S : ~ (y < x)
    BY <1>2, <1>3
  <2>2. \A y \in S : x \in Int /\ y \in Int
    OBVIOUS
  <2> QED
    BY <2>1, <2>2
<1> QED
  BY <1>4 DEF Min

(* The sleep that is asked for, counted from the clock of the turn. *)
AsksForFirstExpiry ==
  phase = "read clock" => \A r \in Pending : now + timeout <= Expires(r)

(* How the clock of the turn and the sleep bound each other, and what the  *)
(* callbacks that already ran have asked for.                              *)
LoopInv ==
  /\ TypeOK
  /\ next \in Int
  /\ timeout <= TransactionTimeout
  /\ phase \in {"epoll_wait", "on_awake"} =>
       time <= until /\ until <= now + TransactionTimeout + behind
  /\ phase = "read clock" => \A r \in Pending : time <= now + TransactionTimeout + behind
  /\ \A r \in Pending : stamp[r] <= left[r]
  /\ phase = "on_awake" /\ "eager_tx_timeout" \notin todo =>
       \A r \in Pending : next <= Expires(r) \/ stamp[r] = now
  /\ phase = "on_awake" /\ "scheduled_search" \notin todo =>
       next <= now + TransactionTimeout
  /\ AsksForFirstExpiry
  /\ phase = "epoll_wait" =>
       \A r \in Pending : until <= left[r] + 2 * TransactionTimeout + behind
  /\ GivenUpInTime

LEMMA Constants ==
  /\ TransactionTimeout \in Nat \ {0} /\ RefreshInterval \in Nat
  /\ TransactionTimeout <= RefreshInterval
  /\ SetBack \in Nat /\ Horizon \in Nat /\ SetBack <= Horizon
BY EventLoopAssumption

LEMMA InInterval ==
  ASSUME NEW m \in Nat, NEW n \in 0..m
  PROVE  n \in Nat /\ n <= m
OBVIOUS

LEMMA IntervalWidens ==
  ASSUME NEW m \in Nat, NEW n \in Nat, m <= n
  PROVE  0..m \subseteq 0..n
OBVIOUS

(* A sleep that begins at t, with the clock of the turn at n. *)
LEMMA SleepEnds ==
  ASSUME NEW t \in Nat, NEW n \in Nat, NEW late \in Nat, NEW sleep \in Nat, NEW most \in Nat,
         t - late <= n, sleep <= most
  PROVE  t <= t + sleep /\ t + sleep <= n + most + late
OBVIOUS

(* A sleep asked for with the clock at n that begins at t. *)
LEMMA Oversleeps ==
  ASSUME NEW t \in Nat, NEW n \in Nat, NEW late \in Nat, NEW sleep \in Nat, NEW most \in Nat,
         NEW e \in Nat, n + sleep <= e, t <= n + most + late
  PROVE  t + sleep <= e + (t - n) /\ t - n <= most + late
OBVIOUS

LEMMA Scalars ==
  ASSUME TypeOK
  PROVE  /\ time \in Nat /\ behind \in Nat /\ now \in Nat /\ timeout \in Nat /\ until \in Nat
         /\ now <= time /\ time <= Horizon /\ behind <= SetBack
<1>1. /\ time \in 0..Horizon /\ behind \in 0..SetBack /\ now \in 0..time
      /\ timeout \in 0..RefreshInterval /\ until \in Nat
  BY DEF TypeOK
<1> QED
  BY <1>1, Constants

LEMMA Types ==
  ASSUME TypeOK
  PROVE  /\ time \in Nat /\ behind \in Nat /\ now \in Nat /\ now <= time /\ time <= Horizon
         /\ timeout \in Nat /\ until \in Nat
         /\ \A r \in Request : stamp[r] \in Nat /\ left[r] \in Nat
                               /\ stamp[r] <= now /\ left[r] <= time
         /\ \A r \in Request : Expires(r) = stamp[r] + TransactionTimeout /\ Expires(r) \in Nat
         /\ Pending \subseteq Request
<1>1. /\ time \in 0..Horizon /\ behind \in 0..SetBack /\ now \in 0..time
      /\ timeout \in 0..RefreshInterval /\ until \in Nat
      /\ stamp \in [Request -> 0..now] /\ left \in [Request -> 0..time]
  BY DEF TypeOK
<1>2. /\ time \in Nat /\ behind \in Nat /\ now \in Nat /\ now <= time /\ time <= Horizon
      /\ timeout \in Nat
  BY <1>1, Constants
<1>3. ASSUME NEW r \in Request
      PROVE  stamp[r] \in Nat /\ left[r] \in Nat /\ stamp[r] <= now /\ left[r] <= time
  <2>1. stamp[r] \in 0..now /\ left[r] \in 0..time
    BY <1>1
  <2> QED
    BY <1>2, <2>1
<1>4. \A r \in Request : Expires(r) = stamp[r] + TransactionTimeout /\ Expires(r) \in Nat
  BY <1>3, Constants DEF Expires
<1> QED
  BY <1>1, <1>2, <1>3, <1>4 DEF Pending

(* TypeOK after a step that leaves the requests alone. *)
LEMMA TypesKept ==
  ASSUME TypeOK, time' \in 0..Horizon, time <= time', behind' \in 0..SetBack, phase' \in Phase,
         todo' \subseteq Callback, now' \in 0..time', now <= now',
         timeout' \in 0..RefreshInterval, until' \in Nat,
         phase' = "on_awake" => next' > now',
         status' \in [Request -> {"idle", "pending", "answered", "timed out"}],
         stamp' = stamp, left' = left
  PROVE  TypeOK'
<1>1. stamp \in [Request -> 0..now] /\ left \in [Request -> 0..time]
  BY DEF TypeOK
<1>2. now \in Nat /\ time \in Nat
  BY Scalars
<1>3. time' \in Nat
  BY Constants, InInterval
<1>4. now' \in Nat
  BY <1>3, InInterval
<1>5. 0..now \subseteq 0..now' /\ 0..time \subseteq 0..time'
  BY <1>2, <1>3, <1>4, IntervalWidens
<1>6. stamp \in [Request -> 0..now'] /\ left \in [Request -> 0..time']
  BY <1>1, <1>5
<1> QED
  BY <1>6 DEF TypeOK

LEMMA InitLoop == Init => LoopInv
<1> SUFFICES ASSUME Init PROVE LoopInv
  OBVIOUS
<1>1. TypeOK
  <2>1. 0 \in 0..0 /\ SetBack \in 0..Horizon /\ 0 \in 0..SetBack /\ 0 \in 0..RefreshInterval
    BY Constants
  <2> QED
    BY <2>1 DEF Init, TypeOK, Phase, Callback
<1>2. Pending = {}
  BY DEF Init, Pending
<1>3. next = 0 /\ timeout = 0 /\ phase = "read clock"
  BY DEF Init
<1>4. next \in Int /\ timeout <= TransactionTimeout
  <2>1. 0 \in Int /\ 0 <= TransactionTimeout
    BY Constants
  <2> QED
    BY <1>3, <2>1
<1> QED
  BY <1>1, <1>2, <1>3, <1>4 DEF LoopInv, AsksForFirstExpiry, GivenUpInTime

(* What a callback asked for only brings the next turn forward. *)
LEMMA AskedIs ==
  ASSUME LoopInv, NEW c \in Callback, NEW again \in Int, Asked(c, again), again > now
  PROVE  /\ phase = "on_awake" /\ todo' = todo \ {c} /\ todo' \subseteq Callback
         /\ next \in Int /\ next > now /\ next' \in Int /\ next' > now
         /\ next' <= next /\ next' <= again
<1>1. phase = "on_awake" /\ todo' = todo \ {c} /\ next' = Min({next, again})
  BY DEF Asked
<1>2. next \in Int /\ next > now /\ todo \subseteq Callback
  BY <1>1 DEF LoopInv, TypeOK
<1> QED
  BY <1>1, <1>2, MinOfTwo

(* A callback that sends. *)
LEMMA SenderKeeps ==
  ASSUME LoopInv, NEW c \in {"other", "scheduled_search"}, NEW again \in Int, Asked(c, again),
         again > now, again <= now + TransactionTimeout \/ c = "other",
         NEW some \in SUBSET Request, Send(some),
         UNCHANGED <<clock, phase, now, timeout, until>>
  PROVE  LoopInv'
<1> USE Constants
<1>1. /\ phase = "on_awake" /\ phase' = "on_awake" /\ todo' = todo \ {c} /\ todo' \subseteq Callback
      /\ next \in Int /\ next' \in Int /\ next' > now /\ next' <= next /\ next' <= again
  BY AskedIs DEF Callback
<1>2. /\ time' = time /\ behind' = behind /\ now' = now /\ timeout' = timeout /\ until' = until
  BY DEF clock
<1>3. TypeOK
  BY DEF LoopInv
<1>4. /\ status' = [r \in Request |-> IF r \in some THEN "pending" ELSE status[r]]
      /\ stamp' = [r \in Request |-> IF r \in some THEN now ELSE stamp[r]]
      /\ left' = [r \in Request |-> IF r \in some THEN time ELSE left[r]]
  BY DEF Send
<1>5. TypeOK'
  <2>1. /\ status' \in [Request -> {"idle", "pending", "answered", "timed out"}]
        /\ stamp' \in [Request -> 0..now] /\ left' \in [Request -> 0..time]
    <3>1. now \in 0..now /\ time \in 0..time
      BY <1>3, Types
    <3>2. /\ status \in [Request -> {"idle", "pending", "answered", "timed out"}]
          /\ stamp \in [Request -> 0..now] /\ left \in [Request -> 0..time]
      BY <1>3 DEF TypeOK
    <3> QED
      BY <1>4, <3>1, <3>2
  <2> QED
    BY <1>1, <1>2, <1>3, <2>1 DEF TypeOK
<1>6. ASSUME NEW r \in Pending'
      PROVE  /\ r \in Request
             /\ Expires(r)' = stamp'[r] + TransactionTimeout
             /\ \/ r \in Pending /\ stamp'[r] = stamp[r] /\ left'[r] = left[r]
                \/ stamp'[r] = now /\ left'[r] = time
  BY <1>4 DEF Pending, Expires
<1>7. /\ time <= until /\ until <= now + TransactionTimeout + behind
      /\ timeout <= TransactionTimeout
      /\ \A r \in Pending : stamp[r] <= left[r] /\ time - left[r] <= 2 * TransactionTimeout + behind
      /\ "eager_tx_timeout" \notin todo =>
           \A r \in Pending : next <= Expires(r) \/ stamp[r] = now
      /\ "scheduled_search" \notin todo => next <= now + TransactionTimeout
  BY <1>1 DEF LoopInv, GivenUpInTime
<1>8. \A r \in Pending' : stamp'[r] <= left'[r]
                          /\ time - left'[r] <= 2 * TransactionTimeout + behind
  BY <1>3, <1>6, <1>7, Types
<1>9. "eager_tx_timeout" \notin todo' =>
        \A r \in Pending' : next' <= Expires(r)' \/ stamp'[r] = now
  <2> SUFFICES ASSUME "eager_tx_timeout" \notin todo', NEW r \in Pending', stamp'[r] # now
               PROVE  next' <= Expires(r)'
    OBVIOUS
  <2>1. r \in Pending /\ stamp'[r] = stamp[r] /\ Expires(r)' = stamp'[r] + TransactionTimeout
    BY <1>6
  <2>2. next <= Expires(r) /\ Expires(r) = stamp[r] + TransactionTimeout /\ Expires(r) \in Nat
    BY <1>1, <1>3, <1>7, <2>1, Types
  <2> QED
    BY <1>1, <2>1, <2>2
<1>10. "scheduled_search" \notin todo' => next' <= now + TransactionTimeout
  <2>1. CASE c = "scheduled_search"
    BY <1>1, <1>3, <2>1, Types
  <2>2. CASE c = "other"
    BY <1>1, <1>3, <1>7, <2>2, Types
  <2> QED
    BY <2>1, <2>2
<1>11. GivenUpInTime' /\ AsksForFirstExpiry'
  BY <1>1, <1>2, <1>8 DEF GivenUpInTime, AsksForFirstExpiry
<1> QED
  BY <1>1, <1>2, <1>5, <1>7, <1>8, <1>9, <1>10, <1>11 DEF LoopInv

LEMMA StepLoop == LoopInv /\ [Next]_vars => LoopInv'
<1> SUFFICES ASSUME LoopInv, [Next]_vars PROVE LoopInv'
  OBVIOUS
<1> USE Constants
<1>1. TypeOK /\ next \in Int /\ timeout <= TransactionTimeout
  BY DEF LoopInv
<1>11. /\ time \in Nat /\ behind \in Nat /\ now \in Nat /\ timeout \in Nat /\ until \in Nat
       /\ now <= time /\ time <= Horizon /\ behind <= SetBack
  BY <1>1, Scalars
<1>2. CASE ReadClock
  <2>1. /\ phase = "read clock" /\ phase' = "epoll_wait" /\ now' = Max({time - behind, now})
        /\ until' = time + timeout /\ time' = time /\ behind' = behind /\ timeout' = timeout
        /\ todo' = todo /\ next' = next /\ status' = status /\ stamp' = stamp /\ left' = left
    BY <1>2 DEF ReadClock, clock, requests
  <2>2. now' \in Nat /\ now <= now' /\ time - behind <= now' /\ now' <= time
    <3>1. time - behind \in Int /\ time - behind <= time
      BY <1>11
    <3>2. /\ Max({time - behind, now}) \in {time - behind, now}
          /\ time - behind <= Max({time - behind, now}) /\ now <= Max({time - behind, now})
      BY <1>11, <3>1, MaxOfTwo
    <3>3. now' = Max({time - behind, now})
      BY <2>1
    <3> QED
      BY <1>11, <3>1, <3>2, <3>3
  <2>3. Pending' = Pending /\ \A r \in Request : Expires(r)' = Expires(r)
    BY <2>1 DEF Pending, Expires
  <2>4. TypeOK'
    <3>4. until' = time + timeout
      BY <2>1
    <3>1. now' \in 0..time /\ until' \in Nat
      BY <1>11, <2>2, <3>4
    <3>2. /\ time \in 0..Horizon /\ behind \in 0..SetBack /\ todo \subseteq Callback
          /\ timeout \in 0..RefreshInterval
          /\ status \in [Request -> {"idle", "pending", "answered", "timed out"}]
      BY <1>1 DEF TypeOK
    <3>3. time <= time
      BY <1>11
    <3> QED
      BY <1>1, <2>1, <2>2, <3>1, <3>2, <3>3, TypesKept DEF Phase
  <2>5. \A r \in Pending : time <= now + TransactionTimeout + behind
                           /\ now + timeout <= Expires(r) /\ stamp[r] <= left[r]
    BY <2>1 DEF LoopInv, AsksForFirstExpiry
  <2>6. \A r \in Pending : until' <= left[r] + 2 * TransactionTimeout + behind
    <3>1. \A r \in Pending : stamp[r] \in Nat /\ left[r] \in Nat
                              /\ Expires(r) = stamp[r] + TransactionTimeout
      BY <1>1, Types
    <3>2. until' = time + timeout
      BY <2>1
    <3> QED
      BY <1>11, <2>5, <3>1, <3>2
  <2>7. time <= until' /\ until' <= now' + TransactionTimeout + behind
    <3>1. until' = time + timeout
      BY <2>1
    <3> QED
      <4>1. time <= time + timeout /\ time + timeout <= now' + TransactionTimeout + behind
        BY <1>1, <1>11, <2>2, SleepEnds
      <4> QED
        BY <3>1, <4>1
  <2>8. GivenUpInTime'
    BY <2>1, <2>3 DEF LoopInv, GivenUpInTime
  <2> QED
    BY <1>1, <2>1, <2>3, <2>4, <2>5, <2>6, <2>7, <2>8 DEF LoopInv, AsksForFirstExpiry
<1>3. CASE Pass
  <2>1. /\ phase = "epoll_wait" /\ time < until /\ time < Horizon /\ time' = time + 1
        /\ behind' = behind /\ phase' = phase /\ now' = now /\ timeout' = timeout /\ until' = until
        /\ todo' = todo /\ next' = next /\ status' = status /\ stamp' = stamp /\ left' = left
    BY <1>3 DEF Pass, requests
  <2>2. Pending' = Pending
    BY <2>1 DEF Pending
  <2>3. TypeOK'
    <3>1. time' \in 0..Horizon /\ time <= time' /\ behind' \in 0..SetBack
      BY <1>11, <2>1
    <3>2. now' \in 0..time' /\ now <= now'
      BY <1>11, <2>1
    <3> QED
      BY <1>1, <2>1, <3>1, <3>2, TypesKept DEF TypeOK
  <2>4. /\ \A r \in Pending : until <= left[r] + 2 * TransactionTimeout + behind
        /\ \A r \in Pending : stamp[r] <= left[r]
        /\ until <= now + TransactionTimeout + behind
    BY <2>1 DEF LoopInv
  <2>5. GivenUpInTime'
    BY <1>1, <2>1, <2>2, <2>4, Types DEF GivenUpInTime
  <2>6. time' <= until'
    BY <1>1, <2>1, Types
  <2> QED
    BY <1>1, <2>1, <2>2, <2>3, <2>4, <2>5, <2>6 DEF LoopInv, AsksForFirstExpiry
<1>4. CASE ClockSetBack
  <2>1. /\ phase = "epoll_wait" /\ behind < SetBack /\ behind' = behind + 1
        /\ time' = time /\ phase' = phase /\ now' = now /\ timeout' = timeout /\ until' = until
        /\ todo' = todo /\ next' = next /\ status' = status /\ stamp' = stamp /\ left' = left
    BY <1>4 DEF ClockSetBack, requests
  <2>2. Pending' = Pending
    BY <2>1 DEF Pending
  <2>3. TypeOK'
    <3>1. time' \in 0..Horizon /\ time <= time' /\ behind' \in 0..SetBack
      BY <1>11, <2>1
    <3>2. now' \in 0..time' /\ now <= now'
      BY <1>11, <2>1
    <3> QED
      BY <1>1, <2>1, <3>1, <3>2, TypesKept DEF TypeOK
  <2>4. /\ \A r \in Pending : until <= left[r] + 2 * TransactionTimeout + behind
        /\ \A r \in Pending : stamp[r] <= left[r]
        /\ time <= until /\ until <= now + TransactionTimeout + behind
        /\ \A r \in Pending : time - left[r] <= 2 * TransactionTimeout + behind
    BY <2>1 DEF LoopInv, GivenUpInTime
  <2>5. /\ \A r \in Pending : until <= left[r] + 2 * TransactionTimeout + behind'
        /\ until <= now + TransactionTimeout + behind'
        /\ \A r \in Pending : time - left[r] <= 2 * TransactionTimeout + behind'
    BY <1>1, <2>1, <2>4, Types
  <2> QED
    BY <1>1, <2>1, <2>2, <2>3, <2>4, <2>5 DEF LoopInv, AsksForFirstExpiry, GivenUpInTime
<1>5. ASSUME NEW answered \in SUBSET Pending, Wake(answered)
      PROVE  LoopInv'
  <2>1. /\ phase = "epoll_wait" /\ phase' = "on_awake" /\ todo' = Callback
        /\ next' = now + RefreshInterval /\ time' = time /\ behind' = behind /\ now' = now
        /\ timeout' = timeout /\ until' = until /\ stamp' = stamp /\ left' = left
        /\ status' = [r \in Request |-> IF r \in answered THEN "answered" ELSE status[r]]
    BY <1>5 DEF Wake, clock
  <2>2. Pending' \subseteq Pending
    BY <2>1 DEF Pending
  <2>3. TypeOK'
    <3>1. status' \in [Request -> {"idle", "pending", "answered", "timed out"}]
      BY <1>1, <2>1 DEF TypeOK
    <3> QED
      <4>1. time <= time' /\ now <= now' /\ next' > now'
        BY <1>1, <2>1, Types
      <4> QED
        BY <1>1, <2>1, <3>1, <4>1, TypesKept DEF TypeOK, Phase
  <2>4. /\ \A r \in Pending : stamp[r] <= left[r]
        /\ time <= until /\ until <= now + TransactionTimeout + behind
        /\ \A r \in Pending : time - left[r] <= 2 * TransactionTimeout + behind
    BY <2>1 DEF LoopInv, GivenUpInTime
  <2>5. next' \in Int /\ "eager_tx_timeout" \in todo' /\ "scheduled_search" \in todo'
    BY <1>1, <2>1, Types DEF Callback
  <2> QED
    BY <1>1, <2>1, <2>2, <2>3, <2>4, <2>5 DEF LoopInv, AsksForFirstExpiry, GivenUpInTime
<1>6. CASE EagerTxTimeout
  <2> DEFINE late == {r \in Pending : Expires(r) <= now}
  <2> DEFINE kept == Pending \ late
  <2> DEFINE again == IF kept = {} THEN now + RefreshInterval
                      ELSE Min({Expires(r) : r \in kept})
  <2>1. /\ Asked("eager_tx_timeout", again)
        /\ status' = [r \in Request |-> IF r \in late THEN "timed out" ELSE status[r]]
        /\ time' = time /\ behind' = behind /\ phase' = phase /\ now' = now /\ timeout' = timeout
        /\ until' = until /\ stamp' = stamp /\ left' = left
    BY <1>6 DEF EagerTxTimeout, clock
  <2>2. again \in Int /\ again > now /\ \A r \in kept : again <= Expires(r)
    <3>1. CASE kept = {}
      BY <1>1, <3>1, Types
    <3>2. CASE kept # {}
      <4> DEFINE S == {Expires(r) : r \in kept}
      <4>1. \A r \in kept : Expires(r) \in Nat /\ Expires(r) > now
        BY <1>1, Types
      <4>2. S \in SUBSET Nat /\ S # {} /\ \A y \in S : y > now
        BY <3>2, <4>1
      <4>3. again = Min(S)
        BY <3>2
      <4> HIDE DEF S, again
      <4>4. Min(S) \in S /\ \A y \in S : Min(S) <= y
        BY <4>2, MinOfNaturals
      <4> QED
        BY <4>2, <4>3, <4>4 DEF S
    <3> QED
      BY <3>1, <3>2
  <2> HIDE DEF again
  <2>3. /\ phase = "on_awake" /\ todo' = todo \ {"eager_tx_timeout"} /\ todo' \subseteq Callback
        /\ next' \in Int /\ next' > now /\ next' <= next /\ next' <= again
    BY <2>1, <2>2, AskedIs DEF Callback
  <2>4. Pending' = kept /\ \A r \in Request : Expires(r)' = Expires(r)
    BY <2>1 DEF Pending, Expires
  <2>5. TypeOK'
    <3>1. status' \in [Request -> {"idle", "pending", "answered", "timed out"}]
      BY <1>1, <2>1 DEF TypeOK
    <3> QED
      <4>2. time' = time /\ now' = now
        BY <2>1
      <4>1. time <= time' /\ now <= now'
        BY <1>11, <4>2
      <4> QED
        BY <1>1, <2>1, <2>3, <3>1, <4>1, TypesKept DEF TypeOK
  <2>6. /\ \A r \in Pending : stamp[r] <= left[r]
        /\ time <= until /\ until <= now + TransactionTimeout + behind
        /\ \A r \in Pending : time - left[r] <= 2 * TransactionTimeout + behind
        /\ "scheduled_search" \notin todo => next <= now + TransactionTimeout
    BY <2>3 DEF LoopInv, GivenUpInTime
  <2>7. \A r \in kept : r \in Pending /\ r \in Request /\ next' <= Expires(r)'
    BY <1>1, <2>2, <2>3, <2>4, Types
  <2>8. "scheduled_search" \notin todo' => next' <= now + TransactionTimeout
    BY <1>1, <2>3, <2>6, Types
  <2> HIDE DEF kept
  <2> QED
    BY <1>1, <2>1, <2>3, <2>4, <2>5, <2>6, <2>7, <2>8
       DEF LoopInv, AsksForFirstExpiry, GivenUpInTime
<1>7. CASE OtherCallback
  <2>1. PICK some \in SUBSET Request, delay \in 1..RefreshInterval :
          /\ Asked("other", now + delay) /\ Send(some)
          /\ UNCHANGED <<clock, phase, now, timeout, until>>
    BY <1>7 DEF OtherCallback
  <2>2. now + delay \in Int /\ now + delay > now
    BY <1>1, Types
  <2> QED
    BY <2>1, <2>2, SenderKeeps
<1>8. CASE ScheduledSearch
  <2>1. PICK some \in SUBSET Request :
          /\ Asked("scheduled_search", now + TransactionTimeout) /\ Send(some)
          /\ UNCHANGED <<clock, phase, now, timeout, until>>
    BY <1>8 DEF ScheduledSearch, ScheduledSearchAsks
  <2> DEFINE again == now + TransactionTimeout
  <2>2. again \in Int /\ again > now /\ again <= now + TransactionTimeout
    BY <1>1, Types
  <2>3. Asked("scheduled_search", again)
    BY <2>1
  <2> HIDE DEF again
  <2> QED
    BY <2>1, <2>2, <2>3, SenderKeeps
<1>9. CASE EndTurn
  <2>1. /\ phase = "on_awake" /\ todo = {} /\ timeout' = next - now /\ phase' = "read clock"
        /\ time' = time /\ behind' = behind /\ now' = now /\ until' = until /\ todo' = todo
        /\ next' = next /\ status' = status /\ stamp' = stamp /\ left' = left
    BY <1>9 DEF EndTurn, clock, requests
  <2>2. Pending' = Pending /\ \A r \in Request : Expires(r)' = Expires(r)
    BY <2>1 DEF Pending, Expires
  <2>3. /\ next > now /\ next <= now + TransactionTimeout
        /\ time <= until /\ until <= now + TransactionTimeout + behind
        /\ \A r \in Pending : stamp[r] <= left[r]
        /\ \A r \in Pending : next <= Expires(r) \/ stamp[r] = now
    BY <1>1, <2>1 DEF LoopInv, TypeOK
  <2>4. timeout' \in 0..RefreshInterval /\ timeout' <= TransactionTimeout
        /\ now + timeout' = next
    <3>1. timeout' = next - now
      BY <2>1
    <3> QED
      BY <1>1, <1>11, <2>3, <3>1
  <2>5. TypeOK'
    BY <1>1, <2>1, <2>4 DEF TypeOK, Phase
  <2>6. \A r \in Pending : r \in Request /\ now + timeout' <= Expires(r)
    BY <1>1, <2>3, <2>4, Types
  <2>7. time <= now + TransactionTimeout + behind
    BY <1>1, <2>3, Types
  <2>8. GivenUpInTime'
    BY <2>1, <2>2 DEF LoopInv, GivenUpInTime
  <2>9. AsksForFirstExpiry'
    BY <2>1, <2>2, <2>6 DEF AsksForFirstExpiry
  <2> QED
    BY <1>1, <2>1, <2>2, <2>3, <2>4, <2>5, <2>7, <2>8, <2>9 DEF LoopInv
<1>10. CASE UNCHANGED vars
  <2>1. /\ time' = time /\ behind' = behind /\ phase' = phase /\ now' = now
        /\ timeout' = timeout /\ until' = until /\ todo' = todo /\ next' = next
        /\ status' = status /\ stamp' = stamp /\ left' = left
    BY <1>10 DEF vars, clock, requests
  <2>2. Pending' = Pending /\ \A r \in Pending : Expires(r)' = Expires(r)
    BY <2>1 DEF Pending, Expires
  <2>3. TypeOK'
    BY <1>1, <2>1 DEF TypeOK
  <2> QED
    BY <2>1, <2>2, <2>3 DEF LoopInv, AsksForFirstExpiry, GivenUpInTime
<1> QED
  BY <1>2, <1>3, <1>4, <1>5, <1>6, <1>7, <1>8, <1>9, <1>10 DEF Next, WakeAny, OnAwake

LEMMA LoopInvariant == Spec => []LoopInv
BY InitLoop, StepLoop, PTL DEF Spec

(* Every variable keeps its type; in particular no callback asks for a     *)
(* turn that is not later than this one, as on_awake asserts               *)
(* (dht-server.cpp:601).                                                   *)
THEOREM TypeCorrect == Spec => []TypeOK
<1>1. LoopInv => TypeOK
  BY DEF LoopInv
<1> QED
  BY <1>1, LoopInvariant, PTL

(* However the callbacks are shuffled, the loop asks for a sleep that ends *)
(* when the first request expires, and so oversleeps by no more than the   *)
(* clock of the turn lags: by one transaction_timeout and what the system  *)
(* clock was set back (dht-server.cpp:446-468, 601).                       *)
THEOREM WakesForFirstExpiryHolds == Spec => []WakesForFirstExpiry
<1>1. LoopInv => WakesForFirstExpiry
  <2> SUFFICES ASSUME LoopInv, phase = "read clock", NEW r \in Pending
               PROVE  time + timeout <= Expires(r) + Lag /\ Lag <= TransactionTimeout + behind
    BY DEF WakesForFirstExpiry
  <2>1. /\ time \in Nat /\ now \in Nat /\ timeout \in Nat /\ behind \in Nat /\ Expires(r) \in Nat
    BY Types DEF LoopInv
  <2>2. now + timeout <= Expires(r) /\ time <= now + TransactionTimeout + behind
    BY DEF LoopInv, AsksForFirstExpiry
  <2>3. TransactionTimeout \in Nat
    BY Constants
  <2> QED
    BY <2>1, <2>2, <2>3, Oversleeps DEF Lag
<1> QED
  BY <1>1, LoopInvariant, PTL

(* A request waits for at most twice its timeout of real time and what the *)
(* clock was set back, although DHT::now is as old as the last sleep       *)
(* (dht-server.cpp:458).                                                   *)
THEOREM GivenUpInTimeHolds == Spec => []GivenUpInTime
<1>1. LoopInv => GivenUpInTime
  BY DEF LoopInv
<1> QED
  BY <1>1, LoopInvariant, PTL

-----------------------------------------------------------------------------
(***************************************************************************)
(* TimeoutList: the list never loses or repeats a contact that is in it,   *)
(* and only newcomers hide others.  Each operation maps the positions of   *)
(* the new list to those of the old one; the lemmas say how.               *)
(***************************************************************************)

(* The contacts of a list and those of another, by their positions. *)
LEMMA SameRange ==
  ASSUME NEW s, NEW l,
         \A i \in DOMAIN l : \E j \in DOMAIN s : l[i] = s[j],
         \A j \in DOMAIN s : \E i \in DOMAIN l : l[i] = s[j]
  PROVE  Range(l) = Range(s)
BY DEF Range

(* What is prepended to a list of distinct contacts. *)
LEMMA PrependIs ==
  ASSUME NEW s \in Seq(Node), NEW n \in Node, IsInjective(s), n \notin Range(s)
  PROVE  /\ <<n>> \o s \in Seq(Node) /\ Len(<<n>> \o s) = Len(s) + 1
         /\ \A i \in 1..Len(s) + 1 :
              (<<n>> \o s)[i] = IF i = 1 THEN n ELSE s[i - 1]
         /\ IsInjective(<<n>> \o s)
         /\ Range(<<n>> \o s) = Range(s) \cup {n}
<1>1. /\ <<n>> \o s \in Seq(Node) /\ Len(<<n>> \o s) = Len(s) + 1
      /\ \A i \in 1..Len(s) + 1 : (<<n>> \o s)[i] = IF i = 1 THEN n ELSE s[i - 1]
  OBVIOUS
<1>2. \A i \in 1..Len(s) : s[i] # n
  BY DEF Range
<1>3. \A i, j \in 1..Len(s) : s[i] = s[j] => i = j
  BY DEF IsInjective
<1> DEFINE l == <<n>> \o s
<1>4. /\ DOMAIN l = 1..Len(s) + 1
      /\ \A i \in 1..Len(s) + 1 : l[i] = IF i = 1 THEN n ELSE s[i - 1]
  BY <1>1
<1> HIDE DEF l
<1>5. ASSUME NEW i \in 1..Len(s) + 1, NEW j \in 1..Len(s) + 1, l[i] = l[j]
      PROVE  i = j
  <2>1. Len(s) \in Nat
    OBVIOUS
  <2>2. CASE i = 1 \/ j = 1
    BY <2>1, <2>2, <1>2, <1>4, <1>5
  <2>3. CASE i # 1 /\ j # 1
    BY <2>1, <2>3, <1>3, <1>4, <1>5
  <2> QED
    BY <2>2, <2>3
<1>6. IsInjective(l)
  BY <1>4, <1>5 DEF IsInjective
<1>7. Range(l) = Range(s) \cup {n}
  <2>1. Len(s) \in Nat /\ DOMAIN s = 1..Len(s)
    OBVIOUS
  <2>2. ASSUME NEW i \in 1..Len(s) + 1
        PROVE  l[i] = n \/ (i - 1 \in 1..Len(s) /\ l[i] = s[i - 1])
    BY <1>4, <2>1
  <2>3. ASSUME NEW i \in 1..Len(s)
        PROVE  i + 1 \in 1..Len(s) + 1 /\ l[i + 1] = s[i]
    BY <1>4, <2>1
  <2>4. 1 \in 1..Len(s) + 1 /\ l[1] = n
    BY <1>4, <2>1
  <2>5. Range(l) = {l[i] : i \in 1..Len(s) + 1} /\ Range(s) = {s[i] : i \in 1..Len(s)}
    BY <1>4, <2>1 DEF Range
  <2>6. Range(l) \subseteq Range(s) \cup {n}
    BY <2>2, <2>5
  <2>7. Range(s) \subseteq Range(l) /\ n \in Range(l)
    BY <2>3, <2>4, <2>5
  <2> QED
    BY <2>6, <2>7
<1> QED
  BY <1>1, <1>6, <1>7 DEF l

(* What is left when the contact at one position is taken out. *)
LEMMA RemovedIs ==
  ASSUME NEW s \in Seq(Node), NEW p \in 1..Len(s), IsInjective(s)
  PROVE  LET l == RemoveAt(s, p)
         IN  /\ l \in Seq(Node) /\ Len(l) = Len(s) - 1
             /\ \A i \in 1..Len(s) - 1 : l[i] = IF i < p THEN s[i] ELSE s[i + 1]
             /\ IsInjective(l)
             /\ Range(l) = Range(s) \ {s[p]}
<1> DEFINE l == RemoveAt(s, p)
<1>1. Len(s) \in Nat /\ p \in Nat
  OBVIOUS
<1> DEFINE a == SubSeq(s, 1, p - 1)
<1> DEFINE b == SubSeq(s, p + 1, Len(s))
<1>2. /\ a \in Seq(Node) /\ Len(a) = p - 1
      /\ \A i \in 1..p - 1 : a[i] = s[i]
  BY <1>1
<1>3. /\ b \in Seq(Node) /\ Len(b) = Len(s) - p
      /\ \A i \in 1..Len(s) - p : b[i] = s[i + p]
  BY <1>1
<1>4. l = a \o b
  BY DEF RemoveAt
<1> HIDE DEF a, b, l
<1>5. /\ l \in Seq(Node) /\ Len(l) = Len(a) + Len(b) /\ DOMAIN l = 1..Len(a) + Len(b)
      /\ \A i \in 1..Len(a) + Len(b) : l[i] = IF i <= Len(a) THEN a[i] ELSE b[i - Len(a)]
  <2>1. a \in Seq(Node) /\ b \in Seq(Node)
    BY <1>2, <1>3
  <2>2. l \in Seq(Node) /\ Len(l) = Len(a) + Len(b)
    BY <2>1, <1>4
  <2>3. DOMAIN l = 1..Len(l)
    BY <2>2
  <2>4. \A i \in 1..Len(a) + Len(b) : l[i] = IF i <= Len(a) THEN a[i] ELSE b[i - Len(a)]
    BY <2>1, <1>4
  <2> QED
    BY <2>2, <2>3, <2>4
<1>6. Len(a) = p - 1 /\ Len(a) + Len(b) = Len(s) - 1
  BY <1>1, <1>2, <1>3
<1>7. /\ l \in Seq(Node) /\ Len(l) = Len(s) - 1 /\ DOMAIN l = 1..Len(s) - 1
      /\ \A i \in 1..Len(s) - 1 : l[i] = IF i <= p - 1 THEN a[i] ELSE b[i - (p - 1)]
  BY <1>5, <1>6
<1>8. ASSUME NEW i \in 1..Len(s) - 1
      PROVE  l[i] = IF i < p THEN s[i] ELSE s[i + 1]
  <2>1. CASE i < p
    BY <1>1, <1>2, <1>7, <2>1
  <2>2. CASE ~ (i < p)
    <3>1. i - (p - 1) \in 1..Len(s) - p /\ i - (p - 1) + p = i + 1
      BY <1>1, <2>2
    <3> QED
      BY <1>1, <1>3, <1>7, <2>2, <3>1
  <2> QED
    BY <2>1, <2>2
<1>9. /\ l \in Seq(Node) /\ Len(l) = Len(s) - 1 /\ DOMAIN l = 1..Len(s) - 1
      /\ \A i \in 1..Len(s) - 1 : l[i] = IF i < p THEN s[i] ELSE s[i + 1]
  BY <1>7, <1>8
<1>10. \A i, j \in 1..Len(s) : s[i] = s[j] => i = j
  BY DEF IsInjective
<1>11. IsInjective(l)
  BY <1>1, <1>9, <1>10 DEF IsInjective
<1>12. Range(l) = Range(s) \ {s[p]}
  <2>1. DOMAIN s = 1..Len(s)
    OBVIOUS
  <2>2. ASSUME NEW i \in 1..Len(s) - 1
        PROVE  \E j \in 1..Len(s) : j # p /\ l[i] = s[j]
    <3>1. CASE i < p
      BY <1>1, <1>9, <3>1
    <3>2. CASE ~ (i < p)
      <4>1. i + 1 \in 1..Len(s) /\ i + 1 # p
        BY <1>1, <3>2
      <4> QED
        BY <1>9, <3>2, <4>1
    <3> QED
      BY <3>1, <3>2
  <2>3. ASSUME NEW j \in 1..Len(s), j # p
        PROVE  \E i \in 1..Len(s) - 1 : l[i] = s[j]
    <3>1. CASE j < p
      BY <1>1, <1>9, <3>1
    <3>2. CASE ~ (j < p)
      <4>1. j - 1 \in 1..Len(s) - 1 /\ ~ (j - 1 < p) /\ (j - 1) + 1 = j
        BY <1>1, <2>3, <3>2
      <4>2. l[j - 1] = s[(j - 1) + 1]
        BY <1>9, <4>1
      <4> QED
        BY <4>1, <4>2
    <3> QED
      BY <3>1, <3>2
  <2>4. Range(l) = {l[i] : i \in 1..Len(s) - 1} /\ Range(s) = {s[i] : i \in 1..Len(s)}
    BY <1>9, <2>1 DEF Range
  <2>5. \A j \in 1..Len(s) : j # p => s[j] # s[p]
    BY <1>10
  <2>6. Range(l) \subseteq Range(s) \ {s[p]}
    BY <2>2, <2>4, <2>5
  <2>7. Range(s) \ {s[p]} \subseteq Range(l)
    BY <2>3, <2>4
  <2> QED
    BY <2>6, <2>7
<1> QED
  BY <1>9, <1>11, <1>12 DEF l

(* The first k contacts go to the tail. *)
LEMMA RotatedIs ==
  ASSUME NEW s \in Seq(Node), NEW k \in 1..Len(s), IsInjective(s)
  PROVE  LET l == SubSeq(s, k + 1, Len(s)) \o SubSeq(s, 1, k)
         IN  /\ l \in Seq(Node) /\ Len(l) = Len(s)
             /\ \A i \in 1..Len(s) :
                  l[i] = IF i <= Len(s) - k THEN s[i + k] ELSE s[i + k - Len(s)]
             /\ IsInjective(l)
             /\ Range(l) = Range(s)
<1> DEFINE l == SubSeq(s, k + 1, Len(s)) \o SubSeq(s, 1, k)
<1>1. Len(s) \in Nat /\ k \in Nat
  OBVIOUS
<1>2. /\ SubSeq(s, 1, k) \in Seq(Node) /\ Len(SubSeq(s, 1, k)) = k
      /\ \A i \in 1..k : SubSeq(s, 1, k)[i] = s[i]
  BY <1>1
<1>3. /\ SubSeq(s, k + 1, Len(s)) \in Seq(Node) /\ Len(SubSeq(s, k + 1, Len(s))) = Len(s) - k
      /\ \A i \in 1..Len(s) - k : SubSeq(s, k + 1, Len(s))[i] = s[i + k]
  BY <1>1
<1>4. /\ l \in Seq(Node) /\ Len(l) = Len(s) /\ DOMAIN l = 1..Len(s)
      /\ \A i \in 1..Len(s) :
           l[i] = IF i <= Len(s) - k THEN s[i + k] ELSE s[i + k - Len(s)]
  BY <1>1, <1>2, <1>3
<1>5. \A i, j \in 1..Len(s) : s[i] = s[j] => i = j
  BY DEF IsInjective
<1> HIDE DEF l
<1> DEFINE at(i) == IF i <= Len(s) - k THEN i + k ELSE i + k - Len(s)
<1>6. \A i \in 1..Len(s) : at(i) \in 1..Len(s) /\ l[i] = s[at(i)]
  BY <1>1, <1>4
<1>7. \A i, j \in 1..Len(s) : at(i) = at(j) => i = j
  BY <1>1
<1> HIDE DEF at
<1>8. ASSUME NEW i \in 1..Len(s), NEW j \in 1..Len(s), l[i] = l[j]
      PROVE  i = j
  BY <1>5, <1>8, <1>6, <1>7
<1>9. IsInjective(l)
  BY <1>4, <1>8 DEF IsInjective
<1> DEFINE from(j) == IF j <= k THEN j + Len(s) - k ELSE j - k
<1>10. \A j \in 1..Len(s) : from(j) \in 1..Len(s) /\ at(from(j)) = j
  BY <1>1 DEF at
<1> HIDE DEF from
<1>11. Range(l) = Range(s)
  <2>1. DOMAIN s = 1..Len(s)
    OBVIOUS
  <2>2. \A i \in 1..Len(s) : \E j \in 1..Len(s) : l[i] = s[j]
    BY <1>6
  <2>3. \A j \in 1..Len(s) : \E i \in 1..Len(s) : l[i] = s[j]
    BY <1>6, <1>10
  <2>4. DOMAIN l = DOMAIN s
    BY <1>4, <2>1
  <2>5. \A i \in DOMAIN l : \E j \in DOMAIN s : l[i] = s[j]
    BY <2>1, <2>2, <2>4
  <2>6. \A j \in DOMAIN s : \E i \in DOMAIN l : l[i] = s[j]
    BY <2>1, <2>3, <2>4
  <2> HIDE DEF l
  <2> QED
    BY <2>5, <2>6, SameRange
<1> QED
  BY <1>4, <1>9, <1>11 DEF l

(* OnlyNewcomersHide, of a list and of ages. *)
Hides(s, a) ==
  \A i, j, k \in 1..Len(s) :
    i < j /\ j < k => ~ (a[s[j]] < a[s[i]] /\ a[s[j]] < a[s[k]])

LEMMA PrependHides ==
  ASSUME NEW s \in Seq(Node), NEW n \in Node, NEW a \in [Node -> 0..Due],
         IsInjective(s), n \notin Range(s), Hides(s, a)
  PROVE  Hides(<<n>> \o s, [a EXCEPT ![n] = 0])
<1> DEFINE l == <<n>> \o s
<1> DEFINE b == [a EXCEPT ![n] = 0]
<1>1. /\ l \in Seq(Node) /\ Len(l) = Len(s) + 1 /\ Len(s) \in Nat
      /\ \A i \in 1..Len(s) + 1 : l[i] = IF i = 1 THEN n ELSE s[i - 1]
  BY PrependIs
<1>2. b[n] = 0 /\ \A m \in Node : b[m] \in Nat /\ (m # n => b[m] = a[m])
  BY TimeoutListAssumption DEF Due
<1>3. \A i \in 1..Len(s) : s[i] \in Node /\ s[i] # n
  BY DEF Range
<1> HIDE DEF l, b
<1>4. l[1] = n /\ \A i \in 2..Len(s) + 1 : i - 1 \in 1..Len(s) /\ l[i] = s[i - 1]
  BY <1>1
<1>5. b[l[1]] = 0 /\ \A i \in 2..Len(s) + 1 : b[l[i]] \in Nat /\ b[l[i]] = a[s[i - 1]]
  BY <1>2, <1>3, <1>4
<1>6. ASSUME NEW i \in 1..Len(s) + 1, NEW j \in 1..Len(s) + 1, NEW k \in 1..Len(s) + 1,
             i < j, j < k
      PROVE  ~ (b[l[j]] < b[l[i]] /\ b[l[j]] < b[l[k]])
  <2>1. j \in 2..Len(s) + 1 /\ k \in 2..Len(s) + 1
    BY <1>1, <1>6
  <2>2. CASE i = 1
    BY <1>5, <2>1, <2>2
  <2>3. CASE i # 1
    <3>1. i \in 2..Len(s) + 1
      BY <1>1, <2>3
    <3>2. /\ i - 1 \in 1..Len(s) /\ j - 1 \in 1..Len(s) /\ k - 1 \in 1..Len(s)
          /\ i - 1 < j - 1 /\ j - 1 < k - 1
      BY <1>1, <1>6, <2>1, <3>1
    <3>3. ~ (a[s[j - 1]] < a[s[i - 1]] /\ a[s[j - 1]] < a[s[k - 1]])
      BY <3>2 DEF Hides
    <3> QED
      BY <1>5, <2>1, <3>1, <3>3
  <2> QED
    BY <2>2, <2>3
<1>7. Hides(l, b)
  BY <1>1, <1>6 DEF Hides
<1> QED
  BY <1>7 DEF l, b

LEMMA RemovedHides ==
  ASSUME NEW s \in Seq(Node), NEW p \in 1..Len(s), NEW a, IsInjective(s), Hides(s, a)
  PROVE  Hides(RemoveAt(s, p), a)
<1> DEFINE l == RemoveAt(s, p)
<1> DEFINE at(i) == IF i < p THEN i ELSE i + 1
<1>1. /\ Len(l) = Len(s) - 1 /\ Len(s) \in Nat
      /\ \A i \in 1..Len(s) - 1 : l[i] = IF i < p THEN s[i] ELSE s[i + 1]
  BY RemovedIs
<1> HIDE DEF l
<1>2. \A i \in 1..Len(l) : at(i) \in 1..Len(s) /\ l[i] = s[at(i)]
  BY <1>1
<1>3. \A i, j \in 1..Len(l) : i < j => at(i) < at(j)
  BY <1>1
<1> HIDE DEF at
<1>4. ASSUME NEW i \in 1..Len(l), NEW j \in 1..Len(l), NEW k \in 1..Len(l), i < j, j < k
      PROVE  ~ (a[l[j]] < a[l[i]] /\ a[l[j]] < a[l[k]])
  <2>1. /\ at(i) \in 1..Len(s) /\ at(j) \in 1..Len(s) /\ at(k) \in 1..Len(s)
        /\ at(i) < at(j) /\ at(j) < at(k)
        /\ l[i] = s[at(i)] /\ l[j] = s[at(j)] /\ l[k] = s[at(k)]
    BY <1>2, <1>3, <1>4
  <2>2. ~ (a[s[at(j)]] < a[s[at(i)]] /\ a[s[at(j)]] < a[s[at(k)]])
    BY <2>1 DEF Hides
  <2> QED
    BY <2>1, <2>2
<1>5. Hides(l, a)
  BY <1>4 DEF Hides
<1> QED
  BY <1>5 DEF l

LEMMA Shifted ==
  ASSUME NEW n \in Int, NEW k \in Int, NEW i \in Int, NEW j \in Int, NEW m \in Int,
         i < j, j < m, m <= n - k
  PROVE  i <= n - k /\ j <= n - k /\ i + k < j + k /\ j + k < m + k
OBVIOUS

LEMMA RotatedHides ==
  ASSUME NEW s \in Seq(Node), NEW k \in 1..Len(s), NEW a \in [Node -> 0..Due],
         NEW b \in [Node -> 0..Due], IsInjective(s), Hides(s, a),
         b = [n \in Node |-> IF \E i \in 1..k : s[i] = n THEN 0 ELSE a[n]]
  PROVE  Hides(SubSeq(s, k + 1, Len(s)) \o SubSeq(s, 1, k), b)
<1> DEFINE l == SubSeq(s, k + 1, Len(s)) \o SubSeq(s, 1, k)
<1>1. /\ l \in Seq(Node) /\ Len(l) = Len(s) /\ Len(s) \in Nat
      /\ \A i \in 1..Len(s) :
           l[i] = IF i <= Len(s) - k THEN s[i + k] ELSE s[i + k - Len(s)]
  <2>1. Len(s) \in Nat
    OBVIOUS
  <2> HIDE DEF l
  <2> QED
    BY <2>1, RotatedIs DEF l
<1> HIDE DEF l
<1>2. \A i \in 1..Len(s) : s[i] \in Node /\ l[i] \in Node
  BY <1>1
<1>3. ASSUME NEW i \in 1..Len(s), i <= Len(s) - k
      PROVE  i + k \in 1..Len(s) /\ b[l[i]] = a[s[i + k]]
  <2>1. i + k \in 1..Len(s) /\ l[i] = s[i + k]
    <3>1. l[i] = IF i <= Len(s) - k THEN s[i + k] ELSE s[i + k - Len(s)]
      BY <1>1
    <3>2. i + k \in 1..Len(s)
      BY <1>1, <1>3
    <3> QED
      BY <1>3, <3>1, <3>2
  <2>2. \A j \in 1..k : s[j] # s[i + k]
    BY <1>3, <2>1 DEF IsInjective
  <2> QED
    BY <1>2, <2>1, <2>2
<1>4. ASSUME NEW i \in 1..Len(s), ~ (i <= Len(s) - k)
      PROVE  b[l[i]] = 0
  <2>1. i + k - Len(s) \in 1..k /\ l[i] = s[i + k - Len(s)]
    BY <1>1, <1>4
  <2> QED
    BY <1>2, <2>1
<1>5. \A i \in 1..Len(s) : b[l[i]] \in Nat
  BY <1>2, TimeoutListAssumption DEF Due
<1>6. ASSUME NEW i \in 1..Len(s), NEW j \in 1..Len(s), NEW m \in 1..Len(s), i < j, j < m
      PROVE  ~ (b[l[j]] < b[l[i]] /\ b[l[j]] < b[l[m]])
  <2>1. CASE m <= Len(s) - k
    <3> DEFINE n == Len(s)
    <3>a. n \in Int /\ k \in Int /\ i \in Int /\ j \in Int /\ m \in Int
      BY <1>1
    <3>b. m <= n - k
      BY <2>1
    <3> HIDE DEF n
    <3>c. i <= n - k /\ j <= n - k /\ i + k < j + k /\ j + k < m + k
      BY <1>6, <3>a, <3>b, Shifted
    <3>1. i <= Len(s) - k /\ j <= Len(s) - k /\ i + k < j + k /\ j + k < m + k
      BY <3>c DEF n
    <3>2. /\ i + k \in 1..Len(s) /\ b[l[i]] = a[s[i + k]]
          /\ j + k \in 1..Len(s) /\ b[l[j]] = a[s[j + k]]
          /\ m + k \in 1..Len(s) /\ b[l[m]] = a[s[m + k]]
      BY <1>3, <2>1, <3>1
    <3> QED
      BY <3>1, <3>2 DEF Hides
  <2>2. CASE ~ (m <= Len(s) - k)
    <3>1. b[l[m]] = 0
      BY <1>4, <2>2
    <3>2. b[l[j]] \in Nat
      BY <1>5
    <3> DEFINE x == b[l[j]]
               y == b[l[m]]
    <3>3. x \in Nat /\ y = 0
      BY <3>1, <3>2
    <3> HIDE DEF x, y
    <3>4. ~ (x < y)
      BY <3>3
    <3> QED
      BY <3>4 DEF x, y
  <2> QED
    BY <2>1, <2>2
<1>7. Hides(l, b)
  BY <1>1, <1>6 DEF Hides
<1> QED
  BY <1>7 DEF l

ListInv == ListTypeOK /\ OnlyNewcomersHide

LEMMA HidesIs == ListTypeOK => (OnlyNewcomersHide <=> Hides(list, age))
<1> SUFFICES ASSUME ListTypeOK PROVE OnlyNewcomersHide <=> Hides(list, age)
  OBVIOUS
<1>1. DOMAIN list = 1..Len(list)
  BY DEF ListTypeOK
<1> QED
  BY <1>1 DEF OnlyNewcomersHide, Hides

LEMMA InitList == ListInit => ListInv
<1> SUFFICES ASSUME ListInit PROVE ListInv
  OBVIOUS
<1>1. list = <<>> /\ DOMAIN list = {} /\ list \in Seq(Node) /\ table = {}
  BY DEF ListInit
<1>2. Range(list) = {}
  BY <1>1 DEF Range
<1> QED
  BY <1>1, <1>2, TimeoutListAssumption DEF ListInit, ListInv, ListTypeOK, OnlyNewcomersHide, IsInjective, Due

LEMMA StepList == ListInv /\ [ListNext]_listVars => ListInv'
<1> SUFFICES ASSUME ListInv, [ListNext]_listVars PROVE ListInv'
  OBVIOUS
<1>1. /\ list \in Seq(Node) /\ Len(list) \in Nat /\ DOMAIN list = 1..Len(list)
      /\ IsInjective(list) /\ Range(list) = table /\ age \in [Node -> 0..Due] /\ inserts \in 0..MaxInserts
      /\ \A i \in 1..Len(list) : list[i] \in Node
      /\ Due \in Nat \ {0} /\ MaxInserts \in Nat
  BY TimeoutListAssumption DEF ListInv, ListTypeOK, Due
<1>2. Hides(list, age)
  BY HidesIs DEF ListInv
<1> SUFFICES ListTypeOK' /\ Hides(list', age')
  <2>1. (ListTypeOK => (OnlyNewcomersHide <=> Hides(list, age)))'
    BY HidesIs, PTL
  <2> QED
    BY <2>1 DEF ListInv
<1>3. ASSUME NEW n \in Node, Insert(n)
      PROVE  ListTypeOK' /\ Hides(list', age')
  <2>1. /\ n \notin Range(list) /\ list' = <<n>> \o list /\ table' = table \cup {n}
        /\ age' = [age EXCEPT ![n] = 0] /\ inserts' \in 0..MaxInserts
    BY <1>1, <1>3 DEF Insert
  <2>2. list' \in Seq(Node) /\ IsInjective(list') /\ Range(list') = table'
    BY <1>1, <2>1, PrependIs
  <2>3. Hides(list', age')
    BY <1>1, <1>2, <2>1, PrependHides
  <2> QED
    BY <1>1, <2>1, <2>2, <2>3 DEF ListTypeOK
<1>4. ASSUME NEW n \in Node, Unlink(n)
      PROVE  ListTypeOK' /\ Hides(list', age')
  <2>1. PICK p \in 1..Len(list) : list[p] = n /\ list' = RemoveAt(list, p)
    BY <1>1, <1>4 DEF Unlink
  <2>5. /\ RemoveAt(list, p) \in Seq(Node) /\ IsInjective(RemoveAt(list, p))
        /\ Range(RemoveAt(list, p)) = Range(list) \ {list[p]}
    BY <1>1, RemovedIs
  <2>2. list' \in Seq(Node) /\ IsInjective(list') /\ Range(list') = table'
    BY <1>1, <1>4, <2>1, <2>5 DEF Unlink
  <2>3. age' = age /\ inserts' = inserts
    BY <1>4 DEF Unlink
  <2>4. Hides(list', age')
    BY <1>1, <1>2, <2>1, <2>3, RemovedHides
  <2> QED
    BY <1>1, <2>2, <2>3, <2>4 DEF ListTypeOK
<1>5. CASE Tick
  <2>1. /\ list' = list /\ inserts' = inserts /\ table' = table
        /\ age' = [n \in Node |-> IF age[n] < Due THEN age[n] + 1 ELSE Due]
    BY <1>5 DEF Tick
  <2>2. age' \in [Node -> 0..Due] /\ \A n, m \in Node : age'[n] < age'[m] => age[n] < age[m]
    BY <1>1, <2>1
  <2>3. ListTypeOK'
    BY <1>1, <2>1, <2>2 DEF ListTypeOK
  <2>4. Hides(list, age')
    BY <1>1, <1>2, <2>2 DEF Hides
  <2> QED
    BY <2>1, <2>3, <2>4
<1>6. ASSUME NEW sent \in 1..Len(list), Sweep(sent)
      PROVE  ListTypeOK' /\ Hides(list', age')
  <2>1. /\ list' = SubSeq(list, sent + 1, Len(list)) \o SubSeq(list, 1, sent)
        /\ age' = [n \in Node |-> IF \E i \in 1..sent : list[i] = n THEN 0 ELSE age[n]]
        /\ inserts' = inserts /\ table' = table
    BY <1>6 DEF Sweep
  <2>2. list' \in Seq(Node) /\ IsInjective(list') /\ Range(list') = table'
    BY <1>1, <2>1, RotatedIs
  <2>3. age' \in [Node -> 0..Due]
    BY <1>1, <2>1
  <2>4. Hides(list', age')
    BY <1>1, <1>2, <2>1, <2>3, RotatedHides
  <2> QED
    BY <1>1, <2>1, <2>2, <2>3, <2>4 DEF ListTypeOK
<1>7. CASE UNCHANGED listVars
  <2>1. list' = list /\ age' = age /\ inserts' = inserts /\ table' = table
    BY <1>7 DEF listVars
  <2>2. ListTypeOK'
    BY <1>1, <2>1 DEF ListTypeOK
  <2>3. Hides(list', age')
    BY <1>2, <2>1
  <2> QED
    BY <2>2, <2>3
<1> QED
  BY <1>3, <1>4, <1>5, <1>6, <1>7 DEF ListNext, SweepAny

LEMMA ListInvariant == ListSpec => []ListInv
BY InitList, StepList, PTL DEF ListSpec

(* Whatever is inserted, unlinked, taken and put back, in any order, the   *)
(* list holds the contacts of the routing table, each of them once, and no *)
(* others (timeout.cpp, timeout_impl.h).                                   *)
THEOREM ListTypeCorrect == ListSpec => []ListTypeOK
<1>1. ListInv => ListTypeOK
  BY DEF ListInv
<1> QED
  BY <1>1, ListInvariant, PTL

(* No contact that is not due stands between two that have waited longer:  *)
(* what a sweep cannot reach is hidden by contacts that came later         *)
(* (timeout_impl.h:8-74).                                                  *)
THEOREM OnlyNewcomersHideHolds == ListSpec => []OnlyNewcomersHide
<1>1. ListInv => OnlyNewcomersHide
  BY DEF ListInv
<1> QED
  BY <1>1, ListInvariant, PTL
=============================================================================
