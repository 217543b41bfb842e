---------------------------- MODULE Scrape -----------------------------
(***************************************************************************)
(* The crawl for infohashes (scrape.cpp): a number of scrapes, each with a *)
(* random id, a routing table and a heap of candidates.  Nodes are asked   *)
(* for samples of their infohashes, and what is new is looked up with      *)
(* get_peers at the node that named it.                                    *)
(*                                                                         *)
(* A node says for how many hours it does not want to be asked again.  The *)
(* memory of that is a ring of Bloom filters, one for each hour: the node  *)
(* is put into the filter that is cleared after so many hours.             *)
(*                                                                         *)
(* Which scrape fits an id best, which nodes of a table are due (see       *)
(* TimeoutList) and whether a request could be sent are left open.  What a *)
(* get_peers finds goes to the scrape client, so that request is not       *)
(* followed here.  Every node supports sample_infohashes.  The filters are *)
(* exact.                                                                  *)
(***************************************************************************)
EXTENDS Integers, Sequences, FiniteSets, SequencesExt

CONSTANTS
  Nodes,
  Infohashes,
  Scrapes,    \* the places of active_scrapes
  Slots,      \* filters in scrape_hour
  Hour,       \* ticks
  QueueSize,  \* capacity of scrape_get_peers_ih
  Enough,     \* published since the last check, 10 in the code
  MaxTime,    \* bound
  MaxActive   \* bound on scrape_active_sample_infhohash

ASSUME SlotsAssumption == Slots \in Nat \ {0, 1}
ASSUME HourAssumption == Hour \in Nat \ {0}
ASSUME FiniteAssumption == IsFiniteSet(Nodes) /\ IsFiniteSet(Scrapes)

VARIABLES
  now,
  hour,      \* scrape_hour, the nodes in each filter
  hourIdx,   \* scrape_hour_idx
  hourTime,  \* scrape_hour_time
  active,    \* active_scrapes
  queue,     \* scrape_get_peers_ih, infohashes with the node that named them
  retired,   \* scrape_retire_good
  count,     \* scrape_active_sample_infhohash
  backoff,   \* scrape_backoff
  known,     \* the infohashes of the scrape client's cache
  sampling,  \* outstanding sample_infohashes requests to each node
  rest       \* until when a node does not want to be asked, as it said

vars == <<now, hour, hourIdx, hourTime, active, queue, retired, count, backoff,
          known, sampling, rest>>

Ring == 0 .. Slots - 1

----------------------------------------------------------------------------
(* What is remembered of the nodes that were asked.                        *)

(* has_sent_sample_infohash_last_24h *)
Remembered(ring) == UNION { ring[i] : i \in Ring }

(* Mistake: the filter that is cleared up to one hour too early. *)
SlotTooSoon(h) == (hourIdx + Slots + h) % Slots

(* The filter that is cleared when at least h hours have passed. *)
SlotFor(h) == (hourIdx + Slots + h + 1) % Slots

(* The ring is turned by the hours that have passed, and what comes to its *)
(* front is cleared; it is cleared at once when a whole turn has passed.   *)
Expired == hourTime + Hour * Slots <= now

Turns == (now - hourTime) \div Hour

TurnedRing ==
  [i \in Ring |->
     IF Expired \/ \E k \in 1 .. Turns : i = (hourIdx + k) % Slots THEN {} ELSE hour[i]]

TurnedIdx == IF Expired THEN hourIdx ELSE (hourIdx + Turns) % Slots

TurnedTime == IF Expired THEN now ELSE hourTime + Hour * Turns

----------------------------------------------------------------------------
(* Scrapes: publish counts what was published for one, boxed what that was *)
(* at the last check and diff what came between the last two.              *)

NewScrape ==
  [nodes |-> {}, started |-> now, publish |-> 0, boxed |-> 0, checked |-> now, diff |-> 0]

NoScrapes == [s \in {} |-> NewScrape]

(* best_scrape_match: none if no table has room for the id. *)
Matches(scrapes) == { {} } \cup { {s} : s \in DOMAIN scrapes }

(* The scrapes with each node of place put into the table it matches. *)
Placed(scrapes, place) ==
  [s \in DOMAIN scrapes |->
     [scrapes[s] EXCEPT !.nodes = @ \cup { n \in DOMAIN place : s \in place[n] }]]

(* last_10m_average: the sum is divided by at most one. *)
Average(scrapes) == MapThenSumSet(LAMBDA s : scrapes[s].diff, DOMAIN scrapes)

(* The check of one scrape; ten minutes are less than a tick. *)
Checked(scrapes, s) ==
  IF scrapes[s].checked < now
  THEN [scrapes EXCEPT ![s].diff = scrapes[s].publish - scrapes[s].boxed,
                       ![s].boxed = scrapes[s].publish,
                       ![s].checked = now]
  ELSE scrapes

(* Mistake: the check of another time is good enough. *)
PoorUnchecked(before, scrapes, s) ==
  /\ scrapes[s].started + Hour < now
  /\ before[s].diff < Enough
  /\ before[s].diff < Average(scrapes)

(* A scrape of more than an hour is replaced when little was published.    *)
Poor(before, scrapes, s) ==
  /\ before[s].checked < now
  /\ scrapes[s].started + Hour < now
  /\ scrapes[s].diff < Enough
  /\ scrapes[s].diff < Average(scrapes)

(* swap_in_new: the nodes that may be asked move to the scrapes they match. *)
Swapped(scrapes, s, place) == Placed([scrapes EXCEPT ![s] = NewScrape], place)

----------------------------------------------------------------------------
Init ==
  /\ now = 0 /\ hourTime = 0 /\ hourIdx = 0 /\ hour = [i \in Ring |-> {}]
  /\ active = NoScrapes /\ queue = <<>> /\ retired = {} /\ count = 0
  /\ backoff = FALSE /\ known = {} /\ sampling = [n \in Nodes |-> 0]
  /\ rest = [n \in Nodes |-> 0]

(* The queue is served from its end until a get_peers cannot be sent; what *)
(* is known by then is dropped, the last k entries are gone either way.    *)
Serve == \E k \in 0 .. Len(queue) : queue' = SubSeq(queue, 1, Len(queue) - k)

(* on_awake_scrape, while the scrape client is started.  It stops there    *)
(* during a backoff.                                                       *)
AwakeInBackoff ==
  /\ backoff
  /\ Serve
  /\ UNCHANGED <<now, hour, hourIdx, hourTime, active, retired, count, backoff,
                 known, sampling, rest>>

(* Mistake: the requests of the last round are forgotten. *)
CountRound(S) == Cardinality(S)

CountAll(S) == count + Cardinality(S)

(* The requests for samples go to nodes of one table that are due, until   *)
(* one cannot be sent; the number of them is bounded.                      *)
Sample(S) ==
  /\ sampling' = [n \in Nodes |-> IF n \in S THEN sampling[n] + 1 ELSE sampling[n]]
  /\ count' = CountAll(S)
  /\ count' <= MaxActive

Awake ==
  /\ ~ backoff
  /\ Serve
  /\ hour' = TurnedRing /\ hourIdx' = TurnedIdx /\ hourTime' = TurnedTime
  /\ retired' = {}
  /\ \E back \in [retired -> Matches(active)] :
     LET filled == IF active = NoScrapes THEN [s \in Scrapes |-> NewScrape]
                   ELSE Placed(active, back)
     IN \E s, t \in Scrapes :
        LET checked == Checked(filled, s)
            eligible == filled[s].nodes \ Remembered(hour')
        IN /\ \/ Poor(filled, checked, s)
                 /\ \E place \in [eligible -> Matches(checked)] :
                      active' = Swapped(checked, s, place)
              \/ ~ Poor(filled, checked, s) /\ active' = checked
           /\ \E S \in SUBSET (active'[t].nodes \ Remembered(hour')) :
                /\ Len(queue') = QueueSize => S = {}
                /\ Sample(S)
  /\ UNCHANGED <<now, backoff, known, rest>>

(* on_sample_infohashes: the node goes into the filter of the hour it      *)
(* named, and what is new into the queue as long as there is room.         *)
SampleResponse(n) ==
  /\ sampling[n] > 0
  /\ sampling' = [sampling EXCEPT ![n] = @ - 1]
  /\ count' = count - 1
  /\ \E h \in 0 .. Slots, S \in SUBSET Infohashes :
       /\ hour' = [hour EXCEPT ![SlotFor(h)] = @ \cup {n}]
       /\ \E new \in SetToSeqs(S \ known) :
            queue' = SubSeq(queue \o [i \in DOMAIN new |-> <<new[i], n>>], 1,
                            IF Len(queue) + Len(new) <= QueueSize
                            THEN Len(queue) + Len(new) ELSE QueueSize)
       /\ rest' = [rest EXCEPT ![n] = IF h < Slots THEN now + h * Hour ELSE now]
  /\ UNCHANGED <<now, hourIdx, hourTime, active, retired, backoff, known>>

(* No answer, or one that cannot be parsed. *)
SampleFailure(n) ==
  /\ sampling[n] > 0
  /\ sampling' = [sampling EXCEPT ![n] = @ - 1]
  /\ count' = count - 1
  /\ UNCHANGED <<now, hour, hourIdx, hourTime, active, queue, retired, backoff, known,
                 rest>>

(* An error takes the transaction but does not reach the handler. *)
SampleError(n) ==
  /\ sampling[n] > 0
  /\ sampling' = [sampling EXCEPT ![n] = @ - 1]
  /\ UNCHANGED <<now, hour, hourIdx, hourTime, active, queue, retired, count, backoff,
                 known, rest>>

(* The scrape client publishes an infohash: it is new for it. *)
Publish(ih) ==
  /\ ih \notin known
  /\ known' = known \cup {ih}
  /\ \E match \in Matches(active) :
       active' = [s \in DOMAIN active |->
                    IF s \in match THEN [active[s] EXCEPT !.publish = @ + 1] ELSE active[s]]
  /\ UNCHANGED <<now, hour, hourIdx, hourTime, queue, retired, count, backoff,
                 sampling, rest>>

Backoff ==
  /\ backoff' = ~ backoff
  /\ UNCHANGED <<now, hour, hourIdx, hourTime, active, queue, retired, count, known,
                 sampling, rest>>

(* seed_insert: a node that came into the main table. *)
SeedInsert(n) ==
  /\ \E match \in Matches(active) : active' = Placed(active, [m \in {n} |-> match])
  /\ UNCHANGED <<now, hour, hourIdx, hourTime, queue, retired, count, backoff, known,
                 sampling, rest>>

(* scrape_retire_good and main_on_retire_good: a good node that had to     *)
(* leave a table is kept if it may be asked.                               *)
Retire(n) ==
  /\ retired' = IF n \in Remembered(hour) THEN retired ELSE retired \cup {n}
  /\ \/ UNCHANGED active
     \/ \E s \in DOMAIN active :
          /\ n \in active[s].nodes
          /\ active' = [active EXCEPT ![s].nodes = @ \ {n}]
  /\ UNCHANGED <<now, hour, hourIdx, hourTime, queue, count, backoff, known, sampling,
                 rest>>

(* A request is answered or given up within seconds. *)
Tick ==
  /\ now < MaxTime /\ \A n \in Nodes : sampling[n] = 0
  /\ now' = now + 1
  /\ UNCHANGED <<hour, hourIdx, hourTime, active, queue, retired, count, backoff, known,
                 sampling, rest>>

Next ==
  \/ AwakeInBackoff \/ Awake \/ Backoff \/ Tick
  \/ \E n \in Nodes : SampleResponse(n) \/ SampleFailure(n) \/ SampleError(n)
                      \/ SeedInsert(n) \/ Retire(n)
  \/ \E ih \in Infohashes : Publish(ih)

Spec == Init /\ [][Next]_vars

----------------------------------------------------------------------------
TypeOK ==
  /\ now \in Nat /\ hourTime \in 0 .. now /\ hourIdx \in Ring
  /\ hour \in [Ring -> SUBSET Nodes]
  /\ sampling \in [Nodes -> Nat] /\ rest \in [Nodes -> Nat]
  /\ retired \subseteq Nodes /\ known \subseteq Infohashes /\ backoff \in BOOLEAN

(* IntervalHonoured: a node that answered is not asked for samples again   *)
(* before the hours it named have passed, whichever table it is found in   *)
(* and however late the ring is turned, as long as the ring has so many    *)
(* hours (scrape.cpp:29-37, 212-227, 407-418).                             *)
IntervalHonoured ==
  [][\A n \in Nodes : sampling'[n] > sampling[n] => rest[n] <= now]_vars

(* EveryRequestCounted: the counter is not 0 when a request is answered or *)
(* given up, which the handlers assert (dht_interface.cpp:946, 969).       *)
EveryRequestCounted ==
  MapThenSumSet(LAMBDA n : sampling[n], Nodes) <= count

(* ProductiveKept: a scrape is only replaced when less than enough was     *)
(* published for it since its own last check, whenever that was, and       *)
(* something was for another one between the last two checks of that.  The *)
(* other need not have done better: the average is the sum of all, so nine *)
(* do not keep a scrape when another had one (scrape.cpp:38-47, 212-234).  *)
ProductiveKept ==
  [][\A s \in DOMAIN active :
       active'[s].started > active[s].started =>
         /\ active[s].publish - active[s].boxed < Enough
         /\ \E t \in DOMAIN active \ {s} : active[t].diff > 0]_vars
========================================================================
