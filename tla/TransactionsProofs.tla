------------------------- MODULE TransactionsProofs -------------------------
(***************************************************************************)
(* Proofs about the transaction table, for every Capacity, timeout, set of *)
(* requests and suffixes: its properties, then the refinement of           *)
(* PendingRequests.                                                        *)
(***************************************************************************)
EXTENDS Transactions, FiniteSetTheorems, TLAPS

(* The Tx in use, whose number Client::active keeps. *)
InUse == {t \in Slot : IsSent(t)}

(* No Tx was sent after the present. *)
SentInPast == \A t \in Slot : sent[t] <= now

(* The id of a Tx in use has left the socket. *)
IdOnWire ==
  \A t \in Slot : IsSent(t) =>
    [slot |-> t, suffix |-> suffix[t], request |-> context[t]] \in wire

(* The inductive invariant. *)
IInv ==
  /\ TypeOK
  /\ SentOrder
  /\ ActiveCount
  /\ ContextHeldOnce
  /\ SentInPast
  /\ IdOnWire
  /\ OwnReply

-----------------------------------------------------------------------------
(* The list operations permute the list. *)

(* PositionOf gives the position of a Tx: unlink takes out the right one. *)
LEMMA PositionOfCorrect ==
  ASSUME NEW o, ListsEverySlot(o), NEW t \in Slot
  PROVE  PositionOf(o, t) \in Position /\ o[PositionOf(o, t)] = t
  BY DEF ListsEverySlot, PositionOf

(* What MoveFront puts at each position. *)
LEMMA MoveFrontAt ==
  ASSUME NEW o, ListsEverySlot(o), NEW t \in Slot
  PROVE  /\ MoveFront(o, t)[1] = t
         /\ \A i \in Position : i > 1 /\ i <= PositionOf(o, t) =>
              i - 1 \in Position /\ MoveFront(o, t)[i] = o[i - 1]
         /\ \A i \in Position : i > 1 /\ i > PositionOf(o, t) => MoveFront(o, t)[i] = o[i]
  BY TransactionsAssumption, PositionOfCorrect DEF MoveFront, Position

(* unlink and add_front lose no Tx and list none twice. *)
LEMMA MoveFrontLists ==
  ASSUME NEW o, ListsEverySlot(o), NEW t \in Slot
  PROVE  ListsEverySlot(MoveFront(o, t))
<1> DEFINE p == PositionOf(o, t)
           f == MoveFront(o, t)
<1>1. p \in Position /\ o[p] = t
  BY PositionOfCorrect
<1>2. f \in [Position -> Slot]
  BY <1>1, TransactionsAssumption DEF ListsEverySlot, MoveFront, Position
<1>3. \A i, j \in Position : f[i] = f[j] => i = j
  BY <1>1, TransactionsAssumption, MoveFrontAt DEF ListsEverySlot, Position
<1>4. ASSUME NEW u \in Slot
      PROVE  \E i \in Position : f[i] = u
  <2>1. PICK i \in Position : o[i] = u
    BY DEF ListsEverySlot
  <2>2. CASE i < p
    <3>1. i + 1 \in Position /\ i + 1 <= p /\ i + 1 > 1 /\ (i + 1) - 1 = i
      BY <1>1, <2>2, TransactionsAssumption DEF Position
    <3>2. f[i + 1] = u
      BY <3>1, <2>1, MoveFrontAt
    <3> QED
      BY <3>1, <3>2
  <2>3. CASE i = p
    BY <1>1, <2>1, <2>3, TransactionsAssumption, MoveFrontAt DEF Position
  <2>4. CASE i > p
    BY <1>1, <2>1, <2>4, TransactionsAssumption, MoveFrontAt DEF Position
  <2> QED
    BY <1>1, <2>2, <2>3, <2>4, TransactionsAssumption DEF Position
<1> QED
  BY <1>2, <1>3, <1>4 DEF ListsEverySlot

(* Nor do unlink and add_back of the head. *)
LEMMA MoveBackLists ==
  ASSUME NEW o, ListsEverySlot(o)
  PROVE  ListsEverySlot(MoveBack(o))
<1> DEFINE f == MoveBack(o)
<1>1. f \in [Position -> Slot]
  BY TransactionsAssumption DEF ListsEverySlot, MoveBack, Position
<1>2. \A i, j \in Position : f[i] = f[j] => i = j
  BY TransactionsAssumption DEF ListsEverySlot, MoveBack, Position
<1>3. ASSUME NEW u \in Slot
      PROVE  \E i \in Position : f[i] = u
  <2>1. PICK i \in Position : o[i] = u
    BY DEF ListsEverySlot
  <2>2. CASE i = 1
    BY <2>1, <2>2, TransactionsAssumption DEF MoveBack, Position
  <2>3. CASE i # 1
    <3>1. i - 1 \in Position /\ i - 1 # Capacity /\ (i - 1) + 1 = i
      BY <2>3, TransactionsAssumption DEF Position
    <3> QED
      BY <2>1, <3>1 DEF MoveBack
  <2> QED
    BY <2>2, <2>3
<1> QED
  BY <1>1, <1>2, <1>3 DEF ListsEverySlot

(* Taking the head to the back and then to the front again is no move. *)
LEMMA FailedMintKeepsOrder ==
  ASSUME NEW o, ListsEverySlot(o)
  PROVE  MoveFront(MoveBack(o), o[1]) = o
<1> DEFINE b == MoveBack(o)
<1>0. Capacity \in Nat \ {0} /\ 1 \in Position /\ Capacity \in Position /\ o[1] \in Slot
  BY TransactionsAssumption DEF Position, ListsEverySlot
<1>1. ListsEverySlot(b)
  BY MoveBackLists
<1>2. b[Capacity] = o[1]
  BY <1>0 DEF MoveBack
<1>3. PositionOf(b, o[1]) = Capacity
  <2>1. PositionOf(b, o[1]) \in Position /\ b[PositionOf(b, o[1])] = o[1]
    BY <1>0, <1>1, PositionOfCorrect
  <2>2. \A i, j \in Position : b[i] = b[j] => i = j
    BY <1>1 DEF ListsEverySlot
  <2> QED
    BY <1>0, <1>2, <2>1, <2>2
<1>4. \A i \in Position : i > 1 => i - 1 \in Position /\ b[i - 1] = o[i]
  BY <1>0 DEF MoveBack, Position
<1>5. \A i \in Position : MoveFront(b, o[1])[i] = o[i]
  BY <1>0, <1>3, <1>4 DEF MoveFront, Position
<1> QED
  BY <1>5 DEF MoveFront, ListsEverySlot

-----------------------------------------------------------------------------
(* Facts about one state that several steps use. *)

(* Client::active is the size of a finite set. *)
LEMMA InUseFinite == IsFiniteSet(InUse)
<1>1. IsFiniteSet(Slot)
  BY TransactionsAssumption, FS_Interval DEF Slot
<1> QED
  BY <1>1, FS_Subset DEF InUse

(* Client::timeout_head is a Tx. *)
LEMMA HeadIsSlot ==
  ASSUME ListsEverySlot(order)
  PROVE  Head \in Slot /\ 1 \in Position
  BY TransactionsAssumption DEF ListsEverySlot, Head, Position

(* A free head that is in use is reclaimed. *)
LEMMA ReclaimedCount ==
  ASSUME HasFreeTransaction
  PROVE  Cardinality(Reclaimed) = IF IsSent(Head) THEN 1 ELSE 0
<1>1. CASE IsSent(Head)
  BY <1>1, FS_Singleton DEF Reclaimed, HasFreeTransaction
<1>2. CASE ~IsSent(Head)
  BY <1>2, FS_EmptySet DEF Reclaimed
<1> QED
  BY <1>1, <1>2

(* A request whose owner does not wait is in no Tx in use. *)
LEMMA NotWaitingNotHeld ==
  ASSUME ContextHeldOnce, NEW r \in Request, status[r] # "pending", NEW t \in Slot, IsSent(t)
  PROVE  context[t] # r
  BY DEF ContextHeldOnce

-----------------------------------------------------------------------------
(* One lemma per action. *)

(* Client::Client establishes the invariant. *)
LEMMA InitIInv == Init => IInv
<1> SUFFICES ASSUME Init PROVE IInv
  OBVIOUS
<1>1. ListsEverySlot(order)
  <2>1. order \in [Position -> Slot] /\ \A i, j \in Position : order[i] = order[j] => i = j
    BY TransactionsAssumption DEF Init, Position, Slot
  <2>2. ASSUME NEW t \in Slot
        PROVE  \E i \in Position : order[i] = t
    <3>1. Capacity + 1 - t \in Position /\ order[Capacity + 1 - t] = t
      BY TransactionsAssumption DEF Init, Position, Slot
    <3> QED
      BY <3>1
  <2> QED
    BY <2>1, <2>2 DEF ListsEverySlot
<1>2. TypeOK
  BY <1>1, TransactionsAssumption DEF Init, TypeOK, Status
<1>3. ActiveCount
  <2>1. {t \in Slot : IsSent(t)} = {}
    BY DEF Init, IsSent
  <2> QED
    BY <2>1, FS_EmptySet DEF Init, ActiveCount
<1>4. SentOrder
  BY <1>1 DEF Init, SentOrder, ListsEverySlot
<1>5. ContextHeldOnce /\ IdOnWire
  BY DEF Init, ContextHeldOnce, IdOnWire, IsSent
<1>6. SentInPast /\ OwnReply
  BY DEF Init, SentInPast, OwnReply
<1> QED
  BY <1>2, <1>3, <1>4, <1>5, <1>6 DEF IInv

(* The clock only makes more Tx expire. *)
LEMMA TickStep ==
  ASSUME IInv, Tick
  PROVE  IInv'
<1>1. TypeOK'
  BY TransactionsAssumption DEF IInv, Tick, TypeOK, ListsEverySlot
<1>2. SentOrder' /\ ContextHeldOnce' /\ IdOnWire' /\ OwnReply'
  BY DEF IInv, Tick, SentOrder, ContextHeldOnce, IdOnWire, OwnReply, IsSent
<1>3. ActiveCount'
  BY DEF IInv, Tick, ActiveCount, IsSent
<1>4. SentInPast'
  BY TransactionsAssumption DEF IInv, Tick, SentInPast, TypeOK
<1> QED
  BY <1>1, <1>2, <1>3, <1>4 DEF IInv

(* ERR_TOKEN changes nothing in the table. *)
LEMMA RefusedStep ==
  ASSUME IInv, NEW r \in Request, SendRefused(r)
  PROVE  IInv'
<1>1. TypeOK'
  BY DEF IInv, SendRefused, TypeOK, ListsEverySlot, Status
<1>2. SentOrder' /\ IdOnWire' /\ OwnReply' /\ SentInPast'
  BY DEF IInv, SendRefused, SentOrder, IdOnWire, OwnReply, SentInPast, IsSent
<1>3. ActiveCount'
  BY DEF IInv, SendRefused, ActiveCount, IsSent
<1>4. ContextHeldOnce'
  BY DEF IInv, SendRefused, ContextHeldOnce, IsSent, TypeOK
<1> QED
  BY <1>1, <1>2, <1>3, <1>4 DEF IInv

(* A minted head goes to the back with the latest time of sending. *)
LEMMA SendStep ==
  ASSUME IInv, NEW r \in Request, Send(r)
  PROVE  IInv'
<1> USE DEF IInv
<1>1. Head \in Slot /\ 1 \in Position
  BY HeadIsSlot DEF TypeOK
<1>2. ListsEverySlot(order')
  BY MoveBackLists DEF Send, TypeOK
<1>3. InUse' = InUse \cup {Head}
  BY <1>1, TransactionsAssumption DEF InUse, IsSent, Send, TypeOK
<1>4. active' = Cardinality(InUse \cup {Head})
  <2>1. active = Cardinality(InUse) /\ active \in Nat
    BY DEF ActiveCount, InUse, TypeOK
  <2>2. Head \in InUse <=> IsSent(Head)
    BY <1>1 DEF InUse
  <2>3. Cardinality(Reclaimed) = IF IsSent(Head) THEN 1 ELSE 0
    BY ReclaimedCount DEF Send
  <2>4. Cardinality(InUse \cup {Head}) =
          IF Head \in InUse THEN Cardinality(InUse) ELSE Cardinality(InUse) + 1
    BY InUseFinite, FS_AddElement
  <2>5. active' = active - Cardinality(Reclaimed) + 1
    BY DEF Send
  <2> QED
    BY <2>1, <2>2, <2>3, <2>4, <2>5
<1>5. active' \in Nat
  BY <1>4, InUseFinite, FS_AddElement, FS_CardinalityType
<1>6. PICK s \in Suffix :
        /\ suffix' = [suffix EXCEPT ![Head] = s]
        /\ wire' = wire \cup {[slot |-> Head, suffix |-> s, request |-> r]}
  BY DEF Send
<1>7. status' \in [Request -> Status]
  BY DEF Send, StatusTimedOut, TypeOK, Status
<1>8. TypeOK'
  BY <1>1, <1>2, <1>5, <1>6, <1>7 DEF Send, TypeOK, Message
<1>9. SentOrder'
  <2> SUFFICES ASSUME NEW i \in Position, NEW j \in Position, i <= j
               PROVE  sent'[order'[i]] <= sent'[order'[j]]
    BY DEF SentOrder
  <2>1. \A t \in Slot : sent'[t] \in Nat /\ sent'[t] <= now
    BY <1>1 DEF Send, TypeOK, SentInPast
  <2>2. CASE j = Capacity
    <3>1. order'[j] = Head /\ sent'[Head] = now
      BY <1>1, <2>2 DEF Send, MoveBack, TypeOK, Head
    <3>2. order'[i] \in Slot
      BY <1>2 DEF ListsEverySlot
    <3> QED
      BY <2>1, <3>1, <3>2
  <2>3. CASE j # Capacity
    <3>1. /\ i + 1 \in Position /\ j + 1 \in Position /\ i + 1 <= j + 1
          /\ i + 1 # 1 /\ j + 1 # 1 /\ i # Capacity
      BY <2>3, TransactionsAssumption DEF Position
    <3>2. order'[i] = order[i + 1] /\ order'[j] = order[j + 1]
      BY <2>3, <3>1 DEF Send, MoveBack
    <3>3. order[i + 1] # Head /\ order[j + 1] # Head
      BY <1>1, <3>1 DEF TypeOK, ListsEverySlot, Head
    <3>4. order[i + 1] \in Slot /\ order[j + 1] \in Slot
      BY <3>1 DEF TypeOK, ListsEverySlot
    <3>5. sent[order[i + 1]] <= sent[order[j + 1]]
      BY <3>1 DEF SentOrder
    <3> QED
      BY <1>1, <3>2, <3>3, <3>4, <3>5 DEF Send, TypeOK
  <2> QED
    BY <2>2, <2>3
<1>10. ActiveCount'
  BY <1>3, <1>4 DEF ActiveCount, InUse
<1>11. \A t \in Slot : /\ IsSent(t)' <=> (t = Head \/ IsSent(t))
                       /\ t # Head => context'[t] = context[t]
                       /\ context'[Head] = r
  BY <1>1, TransactionsAssumption DEF Send, TypeOK, IsSent
<1>12. \A t \in Slot : IsSent(t) => context[t] # r
  BY NotWaitingNotHeld DEF Send
<1>13. \A q \in Request : q # r =>
         status'[q] = IF IsSent(Head) /\ context[Head] = q THEN "timeout" ELSE status[q]
  BY DEF Send, StatusTimedOut, Reclaimed, HasFreeTransaction, TypeOK
<1>14. status'[r] = "pending"
  BY DEF Send, StatusTimedOut, TypeOK
<1>15. ContextHeldOnce'
  <2>1. (\A t \in Slot : IsSent(t) => context[t] \in Request)'
    BY <1>11 DEF ContextHeldOnce
  <2>2. (\A t, u \in Slot : IsSent(t) /\ IsSent(u) /\ context[t] = context[u] => t = u)'
    BY <1>11, <1>12 DEF ContextHeldOnce
  <2>3. ASSUME NEW q \in Request
        PROVE  status'[q] = "pending" <=> \E t \in Slot : IsSent(t)' /\ context'[t] = q
    <3>1. CASE q = r
      BY <1>1, <1>11, <1>14, <3>1
    <3>2. CASE q # r
      BY <1>1, <1>11, <1>13, <3>2 DEF ContextHeldOnce
    <3> QED
      BY <3>1, <3>2
  <2> QED
    BY <2>1, <2>2, <2>3 DEF ContextHeldOnce
<1>16. SentInPast'
  BY <1>1, TransactionsAssumption DEF Send, SentInPast, TypeOK
<1>17. IdOnWire'
  BY <1>1, <1>6, <1>11 DEF IdOnWire, TypeOK
<1>18. OwnReply'
  <2>1. answer' = answer /\ wire \subseteq wire'
    BY <1>6 DEF Send
  <2> QED
    BY <2>1 DEF OwnReply
<1> QED
  BY <1>8, <1>9, <1>10, <1>15, <1>16, <1>17, <1>18

(* The three actions that free Tx: those of a set S are cleared, and the   *)
(* requests that stop waiting are exactly the ones they held.              *)
LEMMA ReleaseStep ==
  ASSUME TypeOK, ContextHeldOnce, IdOnWire, SentInPast,
         NEW S \in SUBSET Slot,
         sent' = [t \in Slot |-> IF t \in S THEN 0 ELSE sent[t]],
         suffix' = [t \in Slot |-> IF t \in S THEN NoSuffix ELSE suffix[t]],
         context' = [t \in Slot |-> IF t \in S THEN NoRequest ELSE context[t]],
         now' = now, wire' = wire,
         \A q \in Request : status'[q] = "pending" <=>
           /\ status[q] = "pending"
           /\ \A t \in S : IsSent(t) => context[t] # q
  PROVE  /\ InUse' = InUse \ S
         /\ sent' \in [Slot -> 0..Horizon]
         /\ suffix' \in [Slot -> Suffix \cup {NoSuffix}]
         /\ context' \in [Slot -> Request \cup {NoRequest}]
         /\ ContextHeldOnce'
         /\ IdOnWire'
         /\ SentInPast'
<1>1. \A t \in Slot : /\ IsSent(t)' <=> (t \notin S /\ IsSent(t))
                      /\ t \notin S => context'[t] = context[t] /\ suffix'[t] = suffix[t]
  BY DEF IsSent
<1>2. InUse' = InUse \ S
  BY <1>1 DEF InUse
<1>3. ContextHeldOnce'
  <2>1. (\A t \in Slot : IsSent(t) => context[t] \in Request)'
    BY <1>1 DEF ContextHeldOnce
  <2>2. (\A t, u \in Slot : IsSent(t) /\ IsSent(u) /\ context[t] = context[u] => t = u)'
    BY <1>1 DEF ContextHeldOnce
  <2>3. ASSUME NEW q \in Request
        PROVE  status'[q] = "pending" <=> \E t \in Slot : IsSent(t)' /\ context'[t] = q
    BY <1>1 DEF ContextHeldOnce
  <2> QED
    BY <2>1, <2>2, <2>3 DEF ContextHeldOnce
<1>4. IdOnWire'
  BY <1>1 DEF IdOnWire
<1>5. SentInPast'
  BY TransactionsAssumption DEF SentInPast, TypeOK
<1>6. /\ sent' \in [Slot -> 0..Horizon]
      /\ suffix' \in [Slot -> Suffix \cup {NoSuffix}]
      /\ context' \in [Slot -> Request \cup {NoRequest}]
  BY TransactionsAssumption DEF TypeOK
<1> QED
  BY <1>2, <1>3, <1>4, <1>5, <1>6

(* A failed send frees the minted head and puts it to the front again. *)
LEMMA SendFailsStep ==
  ASSUME IInv, NEW r \in Request, SendFails(r)
  PROVE  IInv'
<1> USE DEF IInv
<1> DEFINE S == {Head}
<1>1. Head \in Slot /\ 1 \in Position
  BY HeadIsSlot DEF TypeOK
<1>2. order' = order
  BY FailedMintKeepsOrder DEF SendFails, Head, TypeOK
<1>3. /\ sent' = [t \in Slot |-> IF t \in S THEN 0 ELSE sent[t]]
      /\ suffix' = [t \in Slot |-> IF t \in S THEN NoSuffix ELSE suffix[t]]
      /\ context' = [t \in Slot |-> IF t \in S THEN NoRequest ELSE context[t]]
      /\ now' = now /\ wire' = wire /\ answer' = answer
  BY DEF SendFails, TypeOK
<1>4. \A t \in Slot : IsSent(t) => context[t] # r
  BY NotWaitingNotHeld DEF SendFails
<1>5. \A q \in Request : status'[q] = "pending" <=>
        /\ status[q] = "pending"
        /\ \A t \in S : IsSent(t) => context[t] # q
  BY <1>1, <1>4 DEF SendFails, StatusTimedOut, Reclaimed, HasFreeTransaction, TypeOK
<1>6. /\ InUse' = InUse \ S
      /\ sent' \in [Slot -> 0..Horizon]
      /\ suffix' \in [Slot -> Suffix \cup {NoSuffix}]
      /\ context' \in [Slot -> Request \cup {NoRequest}]
      /\ ContextHeldOnce' /\ IdOnWire' /\ SentInPast'
  <2>1. S \in SUBSET Slot
    BY <1>1
  <2> HIDE DEF S
  <2> QED
    BY <1>3, <1>5, <2>1, ReleaseStep
<1>7. active' = Cardinality(InUse \ {Head}) /\ active' \in Nat
  <2>1. active = Cardinality(InUse) /\ active \in Nat
    BY DEF ActiveCount, InUse, TypeOK
  <2>2. Head \in InUse <=> IsSent(Head)
    BY <1>1 DEF InUse
  <2>3. Cardinality(Reclaimed) = IF IsSent(Head) THEN 1 ELSE 0
    BY ReclaimedCount DEF SendFails
  <2>4. /\ Cardinality(InUse \ {Head}) =
             IF Head \in InUse THEN Cardinality(InUse) - 1 ELSE Cardinality(InUse)
        /\ Cardinality(InUse \ {Head}) \in Nat
    BY InUseFinite, FS_RemoveElement, FS_CardinalityType
  <2>5. active' = active - Cardinality(Reclaimed)
    BY DEF SendFails
  <2> QED
    BY <2>1, <2>2, <2>3, <2>4, <2>5
<1>8. ActiveCount'
  BY <1>6, <1>7 DEF ActiveCount, InUse
<1>9. status' \in [Request -> Status]
  BY DEF SendFails, StatusTimedOut, TypeOK, Status
<1>10. TypeOK'
  BY <1>2, <1>3, <1>6, <1>7, <1>9 DEF TypeOK, ListsEverySlot
<1>11. SentOrder'
  <2> SUFFICES ASSUME NEW i \in Position, NEW j \in Position, i <= j
               PROVE  sent'[order[i]] <= sent'[order[j]]
    BY <1>2 DEF SentOrder
  <2>1. /\ order[i] \in Slot /\ order[j] \in Slot
        /\ sent[order[i]] <= sent[order[j]]
        /\ sent[order[i]] \in Nat /\ sent[order[j]] \in Nat
    BY DEF SentOrder, TypeOK, ListsEverySlot
  <2>2. order[j] = Head => order[i] = Head
    <3>1. order[j] = Head => j = 1
      BY <1>1 DEF TypeOK, ListsEverySlot, Head
    <3> QED
      BY <3>1 DEF Position
  <2> QED
    BY <1>3, <2>1, <2>2
<1>12. OwnReply'
  BY <1>3 DEF OwnReply
<1> QED
  BY <1>6, <1>8, <1>10, <1>11, <1>12

(* consume_transaction frees one Tx and puts it to the front. *)
LEMMA ReceiveStep ==
  ASSUME IInv, NEW m \in wire, NEW outcome \in {"response", "error"}, Receive(m, outcome)
  PROVE  IInv'
<1> USE DEF IInv
<1> DEFINE x == m.slot
           q == context[x]
           p == PositionOf(order, x)
           S == {x}
<1>1. x \in Slot /\ m.request \in Request /\ IsSent(x) /\ suffix[x] = m.suffix
  BY DEF Receive, Matches, TypeOK, Message
<1>2. q \in Request /\ status[q] = "pending"
  BY <1>1 DEF ContextHeldOnce
<1>3. /\ sent' = [t \in Slot |-> IF t \in S THEN 0 ELSE sent[t]]
      /\ suffix' = [t \in Slot |-> IF t \in S THEN NoSuffix ELSE suffix[t]]
      /\ context' = [t \in Slot |-> IF t \in S THEN NoRequest ELSE context[t]]
      /\ now' = now /\ wire' = wire
  BY DEF Receive, TypeOK
<1>4. \A r \in Request : status'[r] = IF r = q THEN outcome ELSE status[r]
  BY DEF Receive, TypeOK
<1>5. \A r \in Request : status'[r] = "pending" <=>
        /\ status[r] = "pending"
        /\ \A t \in S : IsSent(t) => context[t] # r
  BY <1>1, <1>4
<1>6. /\ InUse' = InUse \ S
      /\ sent' \in [Slot -> 0..Horizon]
      /\ suffix' \in [Slot -> Suffix \cup {NoSuffix}]
      /\ context' \in [Slot -> Request \cup {NoRequest}]
      /\ ContextHeldOnce' /\ IdOnWire' /\ SentInPast'
  <2>1. S \in SUBSET Slot
    BY <1>1
  <2> HIDE DEF S
  <2> QED
    BY <1>3, <1>5, <2>1, ReleaseStep
<1>7. active' = Cardinality(InUse \ {x}) /\ active' \in Nat
  <2>1. active = Cardinality(InUse) /\ active \in Nat
    BY DEF ActiveCount, InUse, TypeOK
  <2>2. x \in InUse
    BY <1>1 DEF InUse
  <2>3. /\ Cardinality(InUse \ {x}) = Cardinality(InUse) - 1
        /\ Cardinality(InUse \ {x}) \in Nat
    BY <2>2, InUseFinite, FS_RemoveElement, FS_CardinalityType
  <2> QED
    BY <2>1, <2>3 DEF Receive
<1>8. ActiveCount'
  BY <1>6, <1>7 DEF ActiveCount, InUse
<1>9. order' = MoveFront(order, x) /\ ListsEverySlot(order')
  BY <1>1, MoveFrontLists DEF Receive, TypeOK
<1>10. TypeOK'
  <2>1. status' \in [Request -> Status] /\ answer' \in [Request -> Request \cup {NoRequest}]
    BY <1>1 DEF Receive, TypeOK, Status
  <2> QED
    BY <1>3, <1>6, <1>7, <1>9, <2>1 DEF TypeOK
<1>11. SentOrder'
  <2> SUFFICES ASSUME NEW i \in Position, NEW j \in Position, i <= j
               PROVE  sent'[order'[i]] <= sent'[order'[j]]
    BY DEF SentOrder
  <2>1. p \in Position /\ order[p] = x
    BY <1>1, PositionOfCorrect DEF TypeOK
  <2>2. order'[i] \in Slot /\ order'[j] \in Slot
    BY <1>9 DEF ListsEverySlot
  <2>3. \A t \in Slot : sent'[t] \in Nat /\ sent[t] \in Nat
    BY <1>6 DEF TypeOK
  <2>4. CASE i = 1
    <3>1. order'[i] = x
      BY <1>1, <1>9, <2>4, MoveFrontAt DEF TypeOK
    <3> QED
      BY <1>3, <2>2, <2>3, <3>1
  <2>5. CASE i # 1
    <3> DEFINE at(k) == IF k <= p THEN k - 1 ELSE k
    <3>1. ASSUME NEW k \in Position, k > 1
          PROVE  at(k) \in Position /\ at(k) # p /\ order'[k] = order[at(k)]
      BY <1>1, <1>9, <2>1, <3>1, TransactionsAssumption, MoveFrontAt DEF TypeOK, Position
    <3>2. i > 1 /\ j > 1 /\ at(i) <= at(j)
      BY <2>1, <2>5, TransactionsAssumption DEF Position
    <3>3. /\ at(i) \in Position /\ at(i) # p /\ order'[i] = order[at(i)]
          /\ at(j) \in Position /\ at(j) # p /\ order'[j] = order[at(j)]
      BY <3>1, <3>2
    <3> HIDE DEF at
    <3>4. order[at(i)] # x /\ order[at(j)] # x
      BY <2>1, <3>3 DEF TypeOK, ListsEverySlot
    <3>5. sent[order[at(i)]] <= sent[order[at(j)]]
      BY <3>2, <3>3 DEF SentOrder
    <3> QED
      BY <1>3, <2>2, <3>3, <3>4, <3>5
  <2> QED
    BY <2>4, <2>5
<1>12. OwnReply'
  <2> SUFFICES ASSUME NEW r \in Request, answer'[r] \notin {r, NoRequest}
               PROVE  \E a, b \in wire :
                        /\ a.request = r /\ b.request = answer'[r]
                        /\ a.slot = b.slot /\ a.suffix = b.suffix
    BY <1>3 DEF OwnReply
  <2>1. CASE r = q
    <3>1. answer'[r] = m.request
      BY <2>1 DEF Receive, TypeOK
    <3>2. [slot |-> x, suffix |-> suffix[x], request |-> q] \in wire
      BY <1>1 DEF IdOnWire
    <3> QED
      BY <1>1, <2>1, <3>1, <3>2
  <2>2. CASE r # q
    <3>1. answer'[r] = answer[r]
      BY <2>2 DEF Receive, TypeOK
    <3> QED
      BY <3>1 DEF OwnReply
  <2> QED
    BY <2>1, <2>2
<1> QED
  BY <1>6, <1>8, <1>10, <1>11, <1>12

(* eager_tx_timeout frees a prefix of the list where it is. *)
LEMMA EagerStep ==
  ASSUME IInv, EagerTxTimeout
  PROVE  IInv'
<1> USE DEF IInv
<1>1. Overdue \subseteq InUse /\ Overdue \subseteq Slot
  BY DEF Overdue, InUse, TypeOK, ListsEverySlot
<1>2. /\ sent' = [t \in Slot |-> IF t \in Overdue THEN 0 ELSE sent[t]]
      /\ suffix' = [t \in Slot |-> IF t \in Overdue THEN NoSuffix ELSE suffix[t]]
      /\ context' = [t \in Slot |-> IF t \in Overdue THEN NoRequest ELSE context[t]]
      /\ now' = now /\ order' = order /\ wire' = wire /\ answer' = answer
  BY DEF EagerTxTimeout
<1>3. \A q \in Request : status'[q] = "pending" <=>
        /\ status[q] = "pending"
        /\ \A t \in Overdue : IsSent(t) => context[t] # q
  BY <1>1 DEF EagerTxTimeout, StatusTimedOut, InUse
<1>4. /\ InUse' = InUse \ Overdue
      /\ sent' \in [Slot -> 0..Horizon]
      /\ suffix' \in [Slot -> Suffix \cup {NoSuffix}]
      /\ context' \in [Slot -> Request \cup {NoRequest}]
      /\ ContextHeldOnce' /\ IdOnWire' /\ SentInPast'
  BY <1>1, <1>2, <1>3, ReleaseStep
<1>5. active' = Cardinality(InUse \ Overdue) /\ active' \in Nat
  <2>1. active = Cardinality(InUse)
    BY DEF ActiveCount, InUse
  <2>2. InUse \cap Overdue = Overdue
    BY <1>1
  <2>3. /\ Cardinality(InUse \ Overdue) = Cardinality(InUse) - Cardinality(Overdue)
        /\ Cardinality(InUse \ Overdue) \in Nat
    BY <2>2, InUseFinite, FS_Difference, FS_CardinalityType
  <2> QED
    BY <2>1, <2>3 DEF EagerTxTimeout
<1>6. ActiveCount'
  BY <1>4, <1>5 DEF ActiveCount, InUse
<1>7. TypeOK'
  <2>1. status' \in [Request -> Status]
    BY DEF EagerTxTimeout, StatusTimedOut, TypeOK, Status
  <2> QED
    BY <1>2, <1>4, <1>5, <2>1 DEF TypeOK, ListsEverySlot
<1>8. SentOrder'
  <2> SUFFICES ASSUME NEW i \in Position, NEW j \in Position, i <= j
               PROVE  sent'[order[i]] <= sent'[order[j]]
    BY <1>2 DEF SentOrder
  <2>1. order[i] \in Slot /\ order[j] \in Slot
    BY DEF TypeOK, ListsEverySlot
  <2>2. sent[order[i]] <= sent[order[j]] /\ sent[order[i]] \in Nat /\ sent[order[j]] \in Nat
    BY <2>1 DEF SentOrder, TypeOK
  <2>3. CASE order[i] \in Overdue
    BY <1>2, <1>4, <2>1, <2>2, <2>3
  <2>4. CASE order[i] \notin Overdue /\ order[j] \notin Overdue
    BY <1>2, <2>1, <2>2, <2>4
  <2>5. CASE order[i] \notin Overdue /\ order[j] \in Overdue
    <3>1. PICK n \in Position :
            /\ order[n] = order[j]
            /\ \A k \in 1..n : IsExpired(order[k])
      BY <2>5 DEF Overdue
    <3>2. n = j
      BY <3>1 DEF TypeOK, ListsEverySlot
    <3>3. \A k \in 1..i : IsExpired(order[k])
      BY <3>1, <3>2 DEF Position
    <3>4. ~IsSent(order[i])
      BY <2>5, <3>3 DEF Overdue
    <3> QED
      BY <1>2, <2>1, <2>2, <2>5, <3>4 DEF IsSent
  <2> QED
    BY <2>3, <2>4, <2>5
<1>9. OwnReply'
  BY <1>2 DEF OwnReply
<1> QED
  BY <1>4, <1>6, <1>7, <1>8, <1>9

(* Every step of the table preserves the invariant. *)
LEMMA NextIInv == IInv /\ [Next]_vars => IInv'
<1> SUFFICES ASSUME IInv, [Next]_vars PROVE IInv'
  OBVIOUS
<1>1. CASE Tick
  BY <1>1, TickStep
<1>2. ASSUME NEW r \in Request, Send(r) PROVE IInv'
  BY <1>2, SendStep
<1>3. ASSUME NEW r \in Request, SendFails(r) PROVE IInv'
  BY <1>3, SendFailsStep
<1>4. ASSUME NEW r \in Request, SendRefused(r) PROVE IInv'
  BY <1>4, RefusedStep
<1>5. CASE ReceiveResponse \/ ReceiveError
  BY <1>5, ReceiveStep DEF ReceiveResponse, ReceiveError
<1>6. CASE EagerTxTimeout
  BY <1>6, EagerStep
<1>7. CASE UNCHANGED vars
  BY <1>7 DEF vars, IInv, TypeOK, ListsEverySlot, SentOrder, ActiveCount, ContextHeldOnce,
              SentInPast, IdOnWire, OwnReply, IsSent
<1> QED
  BY <1>1, <1>2, <1>3, <1>4, <1>5, <1>6, <1>7 DEF Next

(* The inductive invariant holds in every state: types and the list, its   *)
(* order, the counter, the contexts and the ids on the wire at once.       *)
THEOREM Invariance == Spec => []IInv
<1> QED
  BY InitIInv, NextIInv, PTL DEF Spec

-----------------------------------------------------------------------------
(* The values of the variables, and the list links every Tx once, whatever *)
(* sequence of sends, replies and timeouts the program sees.               *)
THEOREM TypeCorrect == Spec => []TypeOK
<1>1. IInv => TypeOK
  BY DEF IInv
<1> QED
  BY <1>1, Invariance, PTL

(* The list stays sorted by the time of sending: debug_is_ordered never    *)
(* fails.                                                                  *)
THEOREM SentOrderHolds == Spec => []SentOrder
<1>1. IInv => SentOrder
  BY DEF IInv
<1> QED
  BY <1>1, Invariance, PTL

(* Client::active is the number of Tx in use. *)
THEOREM ActiveCountHolds == Spec => []ActiveCount
<1>1. IInv => ActiveCount
  BY DEF IInv
<1> QED
  BY <1>1, Invariance, PTL

(* A waiting request is held by exactly one Tx. *)
THEOREM ContextHeldOnceHolds == Spec => []ContextHeldOnce
<1>1. IInv => ContextHeldOnce
  BY DEF IInv
<1> QED
  BY <1>1, Invariance, PTL

(* A reply completes its own request unless rand() repeated a suffix. *)
THEOREM OwnReplyHolds == Spec => []OwnReply
<1>1. IInv => OwnReply
  BY DEF IInv
<1> QED
  BY <1>1, Invariance, PTL

-----------------------------------------------------------------------------
(* In a sorted list everything before an expired Tx is expired. *)
LEMMA ExpiredPrefix ==
  ASSUME IInv, NEW j \in Position, NEW i \in Position, i <= j, IsExpired(order[j])
  PROVE  IsExpired(order[i])
<1>1. order[i] \in Slot /\ order[j] \in Slot
  BY DEF IInv, TypeOK, ListsEverySlot
<1>2. /\ sent[order[i]] <= sent[order[j]]
      /\ sent[order[i]] \in Nat /\ sent[order[j]] \in Nat /\ now \in Nat
  BY <1>1 DEF IInv, TypeOK, SentOrder
<1> QED
  BY <1>2, TransactionsAssumption DEF IsExpired, IsSent, ExpireTime

(* What the walk of eager_tx_timeout reaches is expired. *)
LEMMA OverdueIsExpired ==
  ASSUME IInv, NEW t \in Overdue
  PROVE  t \in Slot /\ IsSent(t) /\ IsExpired(t)
<1>1. PICK j \in Position :
        t = order[j] /\ IsSent(order[j]) /\ \A k \in 1..j : IsExpired(order[k])
  BY DEF Overdue
<1>2. j \in 1..j
  BY DEF Position
<1> QED
  BY <1>1, <1>2 DEF IInv, TypeOK, ListsEverySlot

(* The head tells whether any Tx is free, and the sweep's early stop       *)
(* leaves no expired Tx behind.                                            *)
THEOREM PartialSearchHolds == Spec => []PartialSearchIsComplete
<1>1. IInv => PartialSearchIsComplete
  <2> SUFFICES ASSUME IInv PROVE PartialSearchIsComplete
    OBVIOUS
  <2> USE DEF IInv
  <2>1. ASSUME NEW t \in Slot, IsExpired(t)
        PROVE  HasFreeTransaction
    <3>1. PICK j \in Position : order[j] = t
      BY DEF TypeOK, ListsEverySlot
    <3>2. 1 \in Position /\ 1 <= j
      BY TransactionsAssumption DEF Position
    <3> QED
      BY <2>1, <3>1, <3>2, ExpiredPrefix DEF HasFreeTransaction, Head
  <2>2. ASSUME NEW t \in Slot, IsSent(t), IsExpired(t)
        PROVE  t \in Overdue
    <3>1. PICK j \in Position : order[j] = t
      BY DEF TypeOK, ListsEverySlot
    <3>2. \A k \in 1..j : k \in Position /\ k <= j
      BY TransactionsAssumption DEF Position
    <3>3. \A k \in 1..j : IsExpired(order[k])
      BY <2>2, <3>1, <3>2, ExpiredPrefix
    <3> QED
      BY <2>2, <3>1, <3>3 DEF Overdue
  <2>3. \A t \in Overdue : t \in Slot /\ IsSent(t) /\ IsExpired(t)
    BY OverdueIsExpired
  <2> QED
    BY <2>1, <2>2, <2>3 DEF PartialSearchIsComplete
<1> QED
  BY <1>1, Invariance, PTL

(* The owner of a request is told at most one outcome. *)
THEOREM ResolvedOnceHolds == Spec => ResolvedOnce
<1>1. ASSUME IInv, [Next]_vars, NEW r \in Request, status[r] \notin {"idle", "pending"}
      PROVE  status'[r] = status[r]
  <2> USE DEF IInv
  <2>1. \A t \in Slot : IsSent(t) => context[t] # r
    BY <1>1, NotWaitingNotHeld
  <2>2. ASSUME NEW q \in Request, Send(q) \/ SendFails(q) \/ SendRefused(q)
        PROVE  status'[r] = status[r]
    <3>1. q # r
      BY <1>1, <2>2 DEF Send, SendFails, SendRefused
    <3>2. \A t \in Reclaimed : context[t] # r
      BY <1>1, <2>1, HeadIsSlot DEF Reclaimed, TypeOK
    <3> QED
      BY <1>1, <2>2, <3>1, <3>2 DEF Send, SendFails, SendRefused, StatusTimedOut, TypeOK
  <2>3. ASSUME NEW m \in wire, NEW outcome \in {"response", "error"}, Receive(m, outcome)
        PROVE  status'[r] = status[r]
    <3>1. context[m.slot] # r
      BY <1>1, <2>1, <2>3 DEF Receive, Matches, TypeOK, Message
    <3> QED
      BY <1>1, <2>3, <3>1 DEF Receive, TypeOK
  <2>4. CASE EagerTxTimeout
    <3>1. \A t \in Overdue : context[t] # r
      BY <1>1, <2>1 DEF Overdue, TypeOK, ListsEverySlot
    <3> QED
      BY <2>4, <3>1 DEF EagerTxTimeout, StatusTimedOut
  <2>5. CASE Tick \/ UNCHANGED vars
    BY <2>5 DEF Tick, vars
  <2> QED
    BY <1>1, <2>2, <2>3, <2>4, <2>5 DEF Next, ReceiveResponse, ReceiveError
<1>2. IInv /\ [Next]_vars =>
        [\A r \in Request :
           status[r] \notin {"idle", "pending"} => status'[r] = status[r]]_vars
  BY <1>1
<1> QED
  BY <1>2, Invariance, PTL DEF Spec, ResolvedOnce

(* No request is timed out before its transaction_timeout has passed. *)
THEOREM NoEarlyTimeoutHolds == Spec => NoEarlyTimeout
<1>1. ASSUME IInv, [Next]_vars, NEW t \in Slot, IsSent(t), status'[context[t]] = "timeout"
      PROVE  ExpireTime(t) <= now
  <2> USE DEF IInv
  <2>1. context[t] \in Request /\ status[context[t]] = "pending"
    BY <1>1 DEF ContextHeldOnce
  <2>2. \A u \in Slot : IsSent(u) /\ context[u] = context[t] => u = t
    BY <1>1 DEF ContextHeldOnce
  <2>3. ASSUME NEW q \in Request, Send(q) \/ SendFails(q) \/ SendRefused(q)
        PROVE  ExpireTime(t) <= now
    <3>1. PICK u \in Reclaimed : context[u] = context[t]
      BY <1>1, <2>1, <2>3 DEF Send, SendFails, SendRefused, StatusTimedOut, TypeOK
    <3>2. u = t /\ IsExpired(u)
      BY <1>1, <2>2, <3>1, HeadIsSlot DEF Reclaimed, TypeOK
    <3> QED
      BY <1>1, <3>2 DEF IsExpired
  <2>4. ASSUME NEW m \in wire, NEW outcome \in {"response", "error"}, Receive(m, outcome)
        PROVE  FALSE
    BY <1>1, <2>1, <2>4 DEF Receive, TypeOK
  <2>5. CASE EagerTxTimeout
    <3>1. PICK u \in Overdue : context[u] = context[t]
      BY <1>1, <2>1, <2>5 DEF EagerTxTimeout, StatusTimedOut
    <3>2. u \in Slot /\ IsSent(u) /\ IsExpired(u)
      BY <1>1, <3>1, OverdueIsExpired
    <3>3. u = t
      BY <1>1, <2>2, <3>1, <3>2
    <3> QED
      BY <1>1, <3>2, <3>3 DEF IsExpired
  <2>6. CASE Tick \/ UNCHANGED vars
    BY <1>1, <2>1, <2>6 DEF Tick, vars
  <2> QED
    BY <1>1, <2>3, <2>4, <2>5, <2>6 DEF Next, ReceiveResponse, ReceiveError
<1>2. IInv /\ [Next]_vars =>
        [\A t \in Slot :
           IsSent(t) /\ status'[context[t]] = "timeout" => ExpireTime(t) <= now]_vars
  BY <1>1
<1> QED
  BY <1>2, Invariance, PTL DEF Spec, NoEarlyTimeout

-----------------------------------------------------------------------------
(* The transaction table implements PendingRequests: each of its steps is  *)
(* a step of what it promises, or changes nothing that was promised.       *)

(* The refinement mapping: when a waiting request was sent. *)
Since == [r \in Request |-> IF status[r] = "pending" THEN sent[SlotOf(r)] ELSE 0]

(* The requests whose Tx a new one takes. *)
Displaced == {context[t] : t \in Reclaimed}

-----------------------------------------------------------------------------
(* SlotOf finds the Tx of a waiting request, which is the only one. *)
LEMMA SinceIs ==
  ContextHeldOnce =>
    /\ \A r \in Request : status[r] # "pending" => Since[r] = 0
    /\ \A t \in Slot : IsSent(t) =>
         /\ context[t] \in Request /\ status[context[t]] = "pending"
         /\ Since[context[t]] = sent[t]
<1> SUFFICES ASSUME ContextHeldOnce
             PROVE  /\ \A r \in Request : status[r] # "pending" => Since[r] = 0
                    /\ \A t \in Slot : IsSent(t) =>
                         /\ context[t] \in Request /\ status[context[t]] = "pending"
                         /\ Since[context[t]] = sent[t]
  OBVIOUS
<1>1. ASSUME NEW t \in Slot, IsSent(t)
      PROVE  /\ context[t] \in Request /\ status[context[t]] = "pending"
             /\ Since[context[t]] = sent[t]
  <2>1. context[t] \in Request /\ status[context[t]] = "pending"
    BY <1>1 DEF ContextHeldOnce
  <2>2. \A u \in Slot : IsSent(u) /\ context[u] = context[t] => u = t
    BY <1>1 DEF ContextHeldOnce
  <2>3. SlotOf(context[t]) = t
    BY <1>1, <2>2 DEF SlotOf
  <2> QED
    BY <2>1, <2>3 DEF Since
<1>2. \A r \in Request : status[r] # "pending" => Since[r] = 0
  BY DEF Since
<1> QED
  BY <1>1, <1>2

(* And so it does after a step. *)
LEMMA SinceIsNext ==
  ASSUME IInv'
  PROVE  /\ \A r \in Request : status'[r] # "pending" => Since'[r] = 0
         /\ \A t \in Slot : sent'[t] # 0 => Since'[context'[t]] = sent'[t]
<1>1. (ContextHeldOnce =>
        /\ \A r \in Request : status[r] # "pending" => Since[r] = 0
        /\ \A t \in Slot : IsSent(t) =>
             /\ context[t] \in Request /\ status[context[t]] = "pending"
             /\ Since[context[t]] = sent[t])'
  BY SinceIs, PTL
<1> QED
  BY <1>1 DEF IInv, IsSent

(* A request whose Tx stays as it is was sent when it was before. *)
LEMMA SinceKept ==
  ASSUME IInv, IInv', NEW p \in Request, status'[p] = status[p],
         \A t \in Slot : IsSent(t) /\ context[t] = p => sent'[t] = sent[t] /\ context'[t] = p
  PROVE  Since'[p] = Since[p]
<1>1. ContextHeldOnce
  BY DEF IInv
<1>3. CASE status[p] = "pending"
  <2>1. PICK t \in Slot : IsSent(t) /\ context[t] = p
    BY <1>1, <1>3 DEF ContextHeldOnce
  <2>2. sent'[t] = sent[t] /\ context'[t] = p
    BY <2>1
  <2>3. sent'[t] # 0
    BY <2>1, <2>2 DEF IsSent
  <2>4. Since'[p] = sent'[t]
    BY <2>2, <2>3, SinceIsNext
  <2> QED
    BY <1>1, <2>1, <2>2, <2>4, SinceIs
<1>4. CASE status[p] # "pending"
  BY <1>1, <1>4, SinceIs, SinceIsNext
<1> QED
  BY <1>3, <1>4

(* Nothing has been sent for a request that does not wait afterwards. *)
LEMMA SinceCleared ==
  ASSUME IInv', NEW p \in Request, status'[p] # "pending"
  PROVE  Since'[p] = 0
  BY DEF Since

(* There are as many waiting requests as Tx in use. *)
LEMMA PendingCount ==
  ASSUME IInv
  PROVE  /\ IsFiniteSet(Promise!Pending)
         /\ Cardinality(Promise!Pending) = Cardinality(InUse)
<1> DEFINE f == [t \in InUse |-> context[t]]
<1>1. \A t \in InUse : t \in Slot /\ IsSent(t)
  BY DEF InUse
<1>2. \A t \in InUse : context[t] \in Promise!Pending
  BY <1>1, SinceIs DEF IInv, Promise!Pending
<1>3. \A t, u \in InUse : context[t] = context[u] => t = u
  BY <1>1 DEF IInv, ContextHeldOnce
<1>4. \A r \in Promise!Pending : \E t \in InUse : context[t] = r
  BY DEF IInv, ContextHeldOnce, Promise!Pending, InUse
<1>5. f \in Bijection(InUse, Promise!Pending)
  BY <1>2, <1>3, <1>4 DEF Bijection, Injection, Surjection, IsInjective
<1>6. ExistsBijection(InUse, Promise!Pending)
  BY <1>5 DEF ExistsBijection
<1> QED
  BY <1>6, InUseFinite, FS_Bijection

(* The list is sorted: when its head is in use every Tx is, and none was   *)
(* sent before it.                                                         *)
LEMMA HeadInUse ==
  ASSUME IInv, IsSent(Head)
  PROVE  /\ InUse = Slot
         /\ \A t \in Slot : sent[Head] <= sent[t]
<1>1. ASSUME NEW t \in Slot
      PROVE  sent[Head] <= sent[t] /\ IsSent(t)
  <2>1. PICK i \in Position : order[i] = t
    BY DEF IInv, TypeOK, ListsEverySlot
  <2>2. 1 \in Position /\ 1 <= i /\ Head \in Slot
    BY TransactionsAssumption, HeadIsSlot DEF IInv, TypeOK, Position
  <2>3. sent[order[1]] <= sent[order[i]]
    BY <2>2 DEF IInv, SentOrder
  <2>4. sent[Head] \in Nat /\ sent[t] \in Nat
    BY <2>2, TransactionsAssumption DEF IInv, TypeOK
  <2> QED
    BY <2>1, <2>3, <2>4 DEF Head, IsSent
<1> QED
  BY <1>1 DEF InUse

LEMMA SlotsCount == IsFiniteSet(Slot) /\ Cardinality(Slot) = Capacity
  BY TransactionsAssumption, FS_Interval DEF Slot

(* PendingRequests counts as the table does. *)
LEMMA SameCardinality == \A S : Promise!Cardinality(S) = Cardinality(S)
  BY DEF Promise!Cardinality, Cardinality

(* mint_transaction makes room as promised: what is displaced is nothing   *)
(* while a Tx is free, then the oldest request, which is overdue.          *)
LEMMA MintMakesRoom ==
  ASSUME IInv, HasFreeTransaction
  PROVE  Displaced \in Promise!MakeRoom
<1>1. Head \in Slot /\ ContextHeldOnce
  BY HeadIsSlot DEF IInv, TypeOK
<1>2. CASE ~ IsSent(Head)
  <2>1. Displaced = {}
    BY <1>2 DEF Displaced, Reclaimed
  <2>2. InUse \in SUBSET Slot /\ InUse # Slot
    BY <1>1, <1>2 DEF InUse
  <2>3. /\ Cardinality(InUse) <= Capacity /\ Cardinality(InUse) # Capacity
        /\ Cardinality(InUse) \in Nat
    BY <2>2, SlotsCount, InUseFinite, FS_Subset, FS_CardinalityType
  <2>4. Cardinality(Promise!Pending) < Capacity
    BY <2>3, PendingCount, TransactionsAssumption
  <2>5. Promise!MakeRoom = {{}}
    BY <2>4, SameCardinality DEF Promise!MakeRoom
  <2> QED
    BY <2>1, <2>5
<1>3. CASE IsSent(Head)
  <2> DEFINE h == context[Head]
  <2>1. Displaced = {h}
    BY <1>3 DEF Displaced, Reclaimed, HasFreeTransaction
  <2>2. Cardinality(Promise!Pending) = Capacity
    BY <1>3, HeadInUse, PendingCount, SlotsCount
  <2>3. h \in Request /\ status[h] = "pending" /\ Since[h] = sent[Head]
    BY <1>1, <1>3, SinceIs
  <2>4. ASSUME NEW p \in Promise!Pending
        PROVE  Since[h] <= Since[p]
    <3>1. PICK t \in Slot : IsSent(t) /\ context[t] = p
      BY <1>1 DEF Promise!Pending, ContextHeldOnce
    <3> QED
      BY <1>1, <1>3, <2>3, <3>1, HeadInUse, SinceIs
  <2>5. Since[h] + TransactionTimeout <= now
    BY <1>3, <2>3 DEF HasFreeTransaction, IsExpired, ExpireTime
  <2>6. h \in Promise!Pending /\ Promise!Oldest(h) /\ Promise!IsOverdue(h)
    BY <2>3, <2>4, <2>5 DEF Promise!Pending, Promise!Oldest, Promise!IsOverdue, Since
  <2>7. ~ (Cardinality(Promise!Pending) < Capacity)
    BY <2>2, TransactionsAssumption
  <2>8. Promise!MakeRoom =
          {{r} : r \in {p \in Promise!Pending : Promise!Oldest(p) /\ Promise!IsOverdue(p)}}
    BY <2>7, SameCardinality DEF Promise!MakeRoom
  <2> QED
    BY <2>1, <2>6, <2>8
<1> QED
  BY <1>2, <1>3

-----------------------------------------------------------------------------
(* One lemma per action. *)

(* A call that takes the head: what it displaces is told of the timeout,   *)
(* the others keep their Tx.                                               *)
LEMMA TakesHead ==
  ASSUME IInv, IInv', HasFreeTransaction,
         NEW r \in Request, status[r] = "idle", NEW outcome,
         status' = [StatusTimedOut(Reclaimed) EXCEPT ![r] = outcome],
         \A t \in Slot : t # Head => sent'[t] = sent[t] /\ context'[t] = context[t]
  PROVE  /\ status' = [p \in Request |->
              IF p = r THEN outcome ELSE IF p \in Displaced THEN "timeout" ELSE status[p]]
         /\ Since' = [p \in Request |->
              IF p = r THEN Since'[r] ELSE IF p \in Displaced THEN 0 ELSE Since[p]]
<1>1. status' = [p \in Request |->
        IF p = r THEN outcome ELSE IF p \in Displaced THEN "timeout" ELSE status[p]]
  <2>1. \A p \in Request : (\E t \in Reclaimed : context[t] = p) <=> p \in Displaced
    BY DEF Displaced
  <2> QED
    BY <2>1 DEF StatusTimedOut
<1>2. ASSUME NEW p \in Request, p # r
      PROVE  Since'[p] = IF p \in Displaced THEN 0 ELSE Since[p]
  <2>1. CASE p \in Displaced
    <3>1. status'[p] = "timeout"
      BY <1>1, <1>2, <2>1
    <3> QED
      BY <2>1, <3>1, SinceCleared
  <2>2. CASE p \notin Displaced
    <3>1. status'[p] = status[p]
      BY <1>1, <1>2, <2>2
    <3>2. ASSUME NEW t \in Slot, IsSent(t), context[t] = p
          PROVE  t # Head
      BY <2>2, <3>2 DEF Displaced, Reclaimed, HasFreeTransaction
    <3>3. \A t \in Slot : IsSent(t) /\ context[t] = p => sent'[t] = sent[t] /\ context'[t] = p
      BY <3>2
    <3> QED
      BY <2>2, <3>1, <3>3, SinceKept
  <2> QED
    BY <2>1, <2>2
<1>3. Since' = [p \in Request |-> Since'[p]]
  BY DEF Since
<1> QED
  BY <1>1, <1>2, <1>3

LEMMA SendOpens ==
  ASSUME IInv, IInv', NEW r \in Request, Send(r)
  PROVE  Promise!Open(r)
<1>1. Head \in Slot /\ HasFreeTransaction /\ status[r] = "idle"
  BY HeadIsSlot DEF IInv, TypeOK, Send
<1>2. /\ sent' = [sent EXCEPT ![Head] = now] /\ context' = [context EXCEPT ![Head] = r]
      /\ status' = [StatusTimedOut(Reclaimed) EXCEPT ![r] = "pending"]
      /\ now' = now /\ now + TransactionTimeout <= Horizon
  BY DEF Send
<1>3. /\ sent'[Head] = now /\ context'[Head] = r /\ now # 0
      /\ \A t \in Slot : t # Head => sent'[t] = sent[t] /\ context'[t] = context[t]
  BY <1>1, <1>2 DEF IInv, TypeOK
<1>4. Since'[r] = now
  BY <1>1, <1>3, SinceIsNext
<1>5. /\ status' = [p \in Request |->
           IF p = r THEN "pending" ELSE IF p \in Displaced THEN "timeout" ELSE status[p]]
      /\ Since' = [p \in Request |->
           IF p = r THEN now ELSE IF p \in Displaced THEN 0 ELSE Since[p]]
  <2>1. /\ status' = [p \in Request |->
             IF p = r THEN "pending" ELSE IF p \in Displaced THEN "timeout" ELSE status[p]]
        /\ Since' = [p \in Request |->
             IF p = r THEN Since'[r] ELSE IF p \in Displaced THEN 0 ELSE Since[p]]
    BY <1>1, <1>2, <1>3, TakesHead
  <2> QED
    BY <1>4, <2>1
<1>6. Displaced \in Promise!MakeRoom
  BY <1>1, MintMakesRoom
<1> QED
  BY <1>1, <1>2, <1>5, <1>6 DEF Promise!Open, Promise!Issue, Since

LEMMA SendFailsFails ==
  ASSUME IInv, IInv', NEW r \in Request, SendFails(r)
  PROVE  Promise!Fail(r)
<1>1. Head \in Slot /\ HasFreeTransaction /\ status[r] = "idle"
  BY HeadIsSlot DEF IInv, TypeOK, SendFails
<1>2. /\ sent' = [sent EXCEPT ![Head] = 0] /\ context' = [context EXCEPT ![Head] = NoRequest]
      /\ status' = [StatusTimedOut(Reclaimed) EXCEPT ![r] = "failed"]
      /\ now' = now
  BY DEF SendFails
<1>3. \A t \in Slot : t # Head => sent'[t] = sent[t] /\ context'[t] = context[t]
  BY <1>1, <1>2 DEF IInv, TypeOK
<1>4. Since'[r] = 0
  <2>1. status'[r] = "failed"
    BY <1>2 DEF StatusTimedOut
  <2> QED
    BY <2>1, SinceCleared
<1>5. /\ status' = [p \in Request |->
           IF p = r THEN "failed" ELSE IF p \in Displaced THEN "timeout" ELSE status[p]]
      /\ Since' = [p \in Request |->
           IF p = r THEN 0 ELSE IF p \in Displaced THEN 0 ELSE Since[p]]
  BY <1>1, <1>2, <1>3, <1>4, TakesHead
<1>6. Displaced \in Promise!MakeRoom
  BY <1>1, MintMakesRoom
<1> QED
  BY <1>1, <1>2, <1>5, <1>6 DEF Promise!Fail, Promise!Issue, Since

(* Nothing that was promised depends on what a step leaves alone. *)
LEMMA SinceUnchanged ==
  ASSUME IInv, IInv', NEW S \in SUBSET Request,
         \A p \in Request \ S : status'[p] = status[p],
         \A p \in S : status'[p] # "pending",
         \A t \in Slot : IsSent(t) /\ context[t] \notin S =>
           sent'[t] = sent[t] /\ context'[t] = context[t]
  PROVE  Since' = [p \in Request |-> IF p \in S THEN 0 ELSE Since[p]]
<1>1. ASSUME NEW p \in Request \ S
      PROVE  Since'[p] = Since[p]
  <2>1. \A t \in Slot : IsSent(t) /\ context[t] = p => sent'[t] = sent[t] /\ context'[t] = p
    OBVIOUS
  <2> QED
    BY <2>1, SinceKept
<1>2. ASSUME NEW p \in S
      PROVE  Since'[p] = 0
  BY SinceCleared
<1>3. Since' = [p \in Request |-> Since'[p]]
  BY DEF Since
<1> QED
  BY <1>1, <1>2, <1>3

LEMMA NothingSettled ==
  ASSUME IInv, IInv', status' = status, sent' = sent, context' = context
  PROVE  Since' = Since
<1>1. \A p \in Request : Since'[p] = Since[p]
  BY SinceKept
<1>2. Since' = [p \in Request |-> Since'[p]] /\ Since = [p \in Request |-> Since[p]]
  BY DEF Since
<1> QED
  BY <1>1, <1>2

LEMMA RefusedRefuses ==
  ASSUME IInv, IInv', NEW r \in Request, SendRefused(r)
  PROVE  Promise!Refuse(r)
<1>1. Head \in Slot /\ ContextHeldOnce
  BY HeadIsSlot DEF IInv, TypeOK
<1>2. /\ status[r] = "idle" /\ ~HasFreeTransaction
      /\ status' = [status EXCEPT ![r] = "refused"]
      /\ now' = now /\ sent' = sent /\ context' = context
  BY DEF SendRefused
<1>3. IsSent(Head) /\ ~ (ExpireTime(Head) <= now)
  BY <1>2 DEF HasFreeTransaction, IsExpired
<1>4. Cardinality(Promise!Pending) = Capacity
  BY <1>3, HeadInUse, PendingCount, SlotsCount
<1>5. ASSUME NEW p \in Promise!Pending
      PROVE  ~ (Since[p] + TransactionTimeout <= now)
  <2>1. PICK t \in Slot : IsSent(t) /\ context[t] = p
    BY <1>1 DEF Promise!Pending, ContextHeldOnce
  <2>2. Since[p] = sent[t] /\ sent[Head] <= sent[t]
    BY <1>1, <1>3, <2>1, SinceIs, HeadInUse
  <2>3. sent[t] \in Nat /\ sent[Head] \in Nat /\ now \in Nat
    BY <1>1, TransactionsAssumption DEF IInv, TypeOK
  <2> QED
    BY <1>3, <2>2, <2>3, TransactionsAssumption DEF ExpireTime
<1>6. Since' = Since
  <2>1. \A p \in Request : status'[p] = IF p = r THEN "refused" ELSE status[p]
    BY <1>2 DEF IInv, TypeOK
  <2>2. Since' = [p \in Request |-> IF p \in {r} THEN 0 ELSE Since[p]]
    <3> DEFINE S == {r}
    <3>1. /\ S \in SUBSET Request /\ \A p \in Request \ S : status'[p] = status[p]
          /\ \A p \in S : status'[p] # "pending"
      BY <2>1
    <3> HIDE DEF S
    <3>2. Since' = [p \in Request |-> IF p \in S THEN 0 ELSE Since[p]]
      BY <1>2, <3>1, SinceUnchanged
    <3> QED
      BY <3>2 DEF S
  <2>3. Since[r] = 0
    BY <1>1, <1>2, SinceIs
  <2>4. Since = [p \in Request |-> Since[p]]
    BY DEF Since
  <2> QED
    BY <2>2, <2>3, <2>4
<1>7. \A p \in Promise!Pending : ~Promise!IsOverdue(p)
  BY <1>5 DEF Promise!IsOverdue, Since
<1> QED
  BY <1>2, <1>4, <1>6, <1>7, SameCardinality DEF Promise!Refuse, Since

LEMMA ReceiveSettles ==
  ASSUME IInv, IInv', NEW m \in wire, NEW outcome \in {"response", "error"},
         Receive(m, outcome)
  PROVE  \E r \in Request : Promise!Settle(r)
<1> DEFINE x == m.slot
           r == context[x]
<1>1. x \in Slot /\ IsSent(x) /\ ContextHeldOnce
  BY DEF IInv, TypeOK, Message, Receive, Matches
<1>2. /\ status' = [status EXCEPT ![r] = outcome]
      /\ sent' = [sent EXCEPT ![x] = 0] /\ context' = [context EXCEPT ![x] = NoRequest]
      /\ now' = now
  BY DEF Receive
<1>3. r \in Request /\ status[r] = "pending"
  BY <1>1, SinceIs
<1>4. Since' = [p \in Request |-> IF p \in {r} THEN 0 ELSE Since[p]]
  <2>1. \A p \in Request : status'[p] = IF p = r THEN outcome ELSE status[p]
    BY <1>2 DEF IInv, TypeOK
  <2>2. \A t \in Slot : IsSent(t) /\ context[t] \notin {r} =>
          sent'[t] = sent[t] /\ context'[t] = context[t]
    BY <1>1, <1>2 DEF IInv, TypeOK
  <2>3. {r} \in SUBSET Request
    BY <1>3
  <2> HIDE DEF r, x
  <2> QED
    BY <2>1, <2>2, <2>3, SinceUnchanged
<1>5. Since' = [Since EXCEPT ![r] = 0]
  <2>1. Since = [p \in Request |-> Since[p]]
    BY DEF Since
  <2> HIDE DEF r
  <2> QED
    BY <1>4, <2>1
<1> HIDE DEF r
<1>6. PICK q \in Request : q = r
  BY <1>3
<1>7. Promise!Settle(q)
  BY <1>2, <1>3, <1>5, <1>6 DEF Promise!Settle, Since
<1> QED
  BY <1>7

LEMMA EagerSweeps ==
  ASSUME IInv, IInv', EagerTxTimeout,
         Overdue = {t \in Slot : IsSent(t) /\ IsExpired(t)}
  PROVE  Promise!Sweep
<1> DEFINE S == {context[t] : t \in Overdue}
<1>1. /\ Overdue # {} /\ status' = StatusTimedOut(Overdue) /\ now' = now
      /\ sent' = [t \in Slot |-> IF t \in Overdue THEN 0 ELSE sent[t]]
      /\ context' = [t \in Slot |-> IF t \in Overdue THEN NoRequest ELSE context[t]]
  BY DEF EagerTxTimeout
<1>2. ContextHeldOnce
  BY DEF IInv
<1>3. S \in SUBSET Request /\ S # {}
  BY <1>1, <1>2, SinceIs
<1>4. S = {p \in Promise!Pending : Since[p] + TransactionTimeout <= now}
  <2>1. ASSUME NEW t \in Overdue
        PROVE  /\ context[t] \in Promise!Pending
               /\ Since[context[t]] + TransactionTimeout <= now
    BY <1>2, <2>1, SinceIs DEF Promise!Pending, IsExpired, ExpireTime
  <2>2. ASSUME NEW p \in Promise!Pending, Since[p] + TransactionTimeout <= now
        PROVE  p \in S
    <3>1. PICK t \in Slot : IsSent(t) /\ context[t] = p
      BY <1>2 DEF Promise!Pending, ContextHeldOnce
    <3>2. Since[p] = sent[t]
      BY <1>2, <3>1, SinceIs
    <3>3. t \in Overdue
      BY <2>2, <3>1, <3>2 DEF IsExpired, ExpireTime
    <3> QED
      BY <3>1, <3>3
  <2> QED
    BY <2>1, <2>2
<1>5. status' = [p \in Request |-> IF p \in S THEN "timeout" ELSE status[p]]
  <2>1. \A p \in Request : (\E t \in Overdue : context[t] = p) <=> p \in S
    OBVIOUS
  <2> QED
    BY <1>1, <2>1 DEF StatusTimedOut
<1>6. Since' = [p \in Request |-> IF p \in S THEN 0 ELSE Since[p]]
  <2>1. \A t \in Slot : IsSent(t) /\ context[t] \notin S =>
          sent'[t] = sent[t] /\ context'[t] = context[t]
    BY <1>1
  <2>2. /\ \A p \in Request \ S : status'[p] = status[p]
        /\ \A p \in S : status'[p] # "pending"
    BY <1>3, <1>5
  <2> HIDE DEF S
  <2> QED
    BY <1>3, <2>1, <2>2, SinceUnchanged
<1>7. {p \in Promise!Pending : Promise!IsOverdue(p)} = S
  BY <1>4 DEF Promise!IsOverdue, Since
<1> HIDE DEF S
<1> QED
  BY <1>1, <1>3, <1>5, <1>6, <1>7 DEF Promise!Sweep, Since

LEMMA TickTicks ==
  ASSUME IInv, IInv', Tick
  PROVE  Promise!Tick
<1>1. /\ now < Horizon /\ now' = now + 1 /\ status' = status
      /\ sent' = sent /\ context' = context
  BY DEF Tick
<1>2. Since' = Since
  BY <1>1, NothingSettled
<1> QED
  BY <1>1, <1>2 DEF Promise!Tick, Since

(* Whatever the table does is a step of what it promises: it opens a       *)
(* request or fails it at once, making room as promised, refuses it only   *)
(* when Capacity others wait and none is overdue, settles it once, and     *)
(* gives up what is overdue (mint_transaction, consume_transaction,        *)
(* eager_tx_timeout).                                                      *)
THEOREM ImplementsPromiseSteps == Spec => Promise!Spec
<1>1. Init => Promise!Init
  <2> SUFFICES ASSUME Init PROVE Promise!Init
    OBVIOUS
  <2>1. now = 1 /\ status = [r \in Request |-> "idle"]
    BY DEF Init
  <2>2. Since = [r \in Request |-> 0]
    BY <2>1 DEF Since
  <2> QED
    BY <2>1, <2>2 DEF Promise!Init, Since
<1>2. IInv /\ IInv' /\ (Overdue = {t \in Slot : IsSent(t) /\ IsExpired(t)}) /\ [Next]_vars
        => [Promise!Next]_(Promise!vars)
  <2> SUFFICES ASSUME IInv, IInv', [Next]_vars,
                      Overdue = {t \in Slot : IsSent(t) /\ IsExpired(t)}
               PROVE  [Promise!Next]_(Promise!vars)
    OBVIOUS
  <2>1. CASE Tick
    BY <2>1, TickTicks DEF Promise!Next
  <2>2. ASSUME NEW r \in Request, Send(r) PROVE Promise!Next
    BY <2>2, SendOpens DEF Promise!Next
  <2>3. ASSUME NEW r \in Request, SendFails(r) PROVE Promise!Next
    BY <2>3, SendFailsFails DEF Promise!Next
  <2>4. ASSUME NEW r \in Request, SendRefused(r) PROVE Promise!Next
    BY <2>4, RefusedRefuses DEF Promise!Next
  <2>5. CASE ReceiveResponse \/ ReceiveError
    BY <2>5, ReceiveSettles DEF Promise!Next, ReceiveResponse, ReceiveError
  <2>6. CASE EagerTxTimeout
    BY <2>6, EagerSweeps DEF Promise!Next
  <2>7. CASE UNCHANGED vars
    <3>1. now' = now /\ status' = status /\ sent' = sent /\ context' = context
      BY <2>7 DEF vars
    <3>2. Since' = Since
      BY <3>1, NothingSettled
    <3> QED
      BY <3>1, <3>2 DEF Promise!vars, Since
  <2> QED
    BY <2>1, <2>2, <2>3, <2>4, <2>5, <2>6, <2>7 DEF Next
<1>3. PartialSearchIsComplete => Overdue = {t \in Slot : IsSent(t) /\ IsExpired(t)}
  BY DEF PartialSearchIsComplete
<1> QED
  BY <1>1, <1>2, <1>3, Invariance, PartialSearchHolds, PTL DEF Spec, Promise!Spec
=============================================================================
