# A verification of the btdht daemon

btdht (`src/`) is a BitTorrent mainline DHT node: a single threaded daemon that
keeps a Kademlia routing table, answers the KRPC queries of other nodes, sends
queries of its own, stores the peers announced to it, searches for the peers of
infohashes on behalf of local clients and samples the infohashes other nodes
know.  This directory holds TLA+ models of its parts, the TLC runs that check
them on small instances, and proofs, checked by TLAPS, that hold for every
instance.

Run a check with `tlc -config <run>.cfg <module>.tla` (the modules are listed
with the runs below) and the proofs with `tlapm <module>.tla` for
`TransactionsProofs`, `RoutingTableProofs`, `LoopProofs`, `SearchLifecycleProofs`,
`PeerDatabaseProofs`, `ContactCacheProofs`, `ScrapeProofs` and `KrpcProofs`.

## 1. The system

One thread runs `main_loop` (`dht-server.cpp`).  A turn reads the clock into
`DHT::now`, sleeps in `epoll_wait` until a datagram or a local command arrives
or the timeout of the previous turn has passed, runs the handlers of what
arrived, and then runs every `on_awake` callback in a shuffled order.  There are
no locks.  What is concurrent is the outside: the remote nodes, the network,
which loses, delays, repeats and reorders datagrams, the local clients and the
clock.  What is hard is that state lives across turns (requests that wait,
searches that were stopped meanwhile, contacts that were evicted) and that
handlers change shared structures while callers hold pointers into them.

| Component | Source | State | Operations | Correct when |
|---|---|---|---|---|
| transaction table | `transaction.cpp`, `client.cpp` | array of `Tx` with prefix, suffix, context and time sent; tree by prefix; list by time | mint, consume, eager timeout, `client::send` | every request is told exactly one outcome, its own; a request is refused only when all transactions are in use |
| routing table | `routing_table.cpp` | tables linked by `in_tree` and `parallel`, buckets of 32 contacts, counters | insert, replace, evict, lookup, mark good or bad | the links form a list of lists sorted by depth; contacts are where lookups look; the counters count |
| contact timeout list | `timeout.cpp`, `timeout_impl.h` | circular list through all contacts | insert at head, unlink, take due ones from the head, append | every contact is queried again in time |
| main loop | `dht-server.cpp`, `core.cpp` | the clock, the sleep, what the callbacks asked for | a turn | no wake-up is lost; requests are given up in time, and not too early |
| message handlers | `dht_interface.cpp` | none of their own | ping, find_node, get_peers, announce_peer, sample_infohashes; their responses; six `on_awake` callbacks | they keep the invariants of the others |
| searches | `private_interface.cpp`, `search.cpp` | list and tree of `Search`; `SearchContext` shared with requests | start, stop, `scheduled_search`, get_peers callbacks | no context is used after it was deleted, none is leaked; a search ends |
| peer database, tokens | `db.cpp` | tree of infohashes with peers sorted by age; two token keys; a sample | insert, age, mint and check tokens, sample | peers leave when they are old; fresh tokens are accepted; the count equals the tree |
| bootstrap | `bootstrap.cpp` | bounded heap of candidates, generation | push, take, reset | closer candidates first, none dropped while there is room |
| scrape | `scrape.cpp` | active scrapes with a routing table each; hour slots of Bloom filters; a queue of infohashes | start, replace, ask, look up, seed, retire | a node is not asked again before the hours it named have passed; outstanding requests are counted; a scrape is replaced only when little was found since its own last check |
| contact cache | `cache.cpp` | numbered files on disk, one of them open; `seen` | start, write a retired contact, top up the heap from files, drain at the end | no file is overwritten, nor deleted before it was read; what does not fit into the heap is kept; every file is read |
| ip election | `ip_election.cpp` | votes by address | vote, winner | the address with most votes wins |
| codec | `bencode*.h`, `krpc*.cpp`, `priv_krpc.cpp`, `*_decode*`, `*_encode*` | the buffers of a turn | parse, call the handler, print | what is sent is what is read, whatever the order; what is unknown is passed over and never read; nothing behind the message is looked at; a reply is whole or not sent; parsing ends |
| sockets, upnp, dump, logging, options, clients | the rest | handles | system calls | not core logic |

Interactions.  `dht_interface.cpp` calls everything: a message inserts its
sender into the routing table (which links it into the timeout list), a reply
consumes a transaction and runs the handler in its context, the sweeps walk the
timeout list and send through `client::send`, which may time out an older
request and so run *its* handler first.  `PROJECT.json` lists the hazards at
their lines, and the properties aimed at each.

## 2. Modules

| Module | Models | Abstracts |
|---|---|---|
| `PendingRequests` | what the transaction table promises: at most `Capacity` requests wait, one outcome each, the oldest overdue one gives way | list, ids, network |
| `Transactions` | the table and `client::send`; `wire` is every id ever sent, so a reply may come late, twice or never | the id tree (prefixes never change), serialisation, who asked |
| `TransactionsProofs` | theorems about `Transactions`, and that its steps are steps of `PendingRequests` | |
| `RoutingTable` | `insert` with `__make_routing_table`, `alloc_RoutingTable`, `__dequeue_root`; the marks of contacts; the counters.  Pointers are kept as they are, so that links to a table that has been reused mean what they mean in the program | ids to their rank; two facts about a contact's times |
| `RoutingTableProofs` | theorems about `RoutingTable` | |
| `TimeoutList` | the list of contacts and both sweeps | times to ages that saturate |
| `EventLoop` | the turn of the main loop and what reading the clock before the sleep means for requests | callbacks to three kinds; the transaction table |
| `Config` | the refresh interval, which the two before share | |
| `LoopProofs` | theorems about `TimeoutList` and `EventLoop` | |
| `SearchLifecycle` | start, stop, end and restart of searches while requests wait; the reference counts | contacts and peers to their number |
| `SearchLifecycleProofs` | theorems about `SearchLifecycle` | |
| `PeerDatabase` | announced peers, their ageing, the infohashes and their count, token keys; get_peers and announce_peer | keys to their order, times to ages that saturate; seeds, names and the sample |
| `PeerDatabaseProofs` | theorems about `PeerDatabase` | |
| `ContactCache` | the files of cached contacts, the heap they feed, sessions that stop or die, and system calls that fail | the heap to a bounded set, `Cache::seen` to a set without false positives, a file to its entries |
| `ContactCacheProofs` | theorems about `ContactCache` | |
| `Bencode` | the encoders and decoders on a buffer, with what each compares with the end of what may be read | an element to one cell, a string to its length and a name |
| `Krpc` | one message, of any kind of the protocol or of the local commands: the encoder, how another program may write it, the parser, the handler it reaches, and the nested writers of the reply | what handlers do to the rest of the state; the values |
| `KrpcProofs` | theorems about `Krpc` and the decoders of `Bencode` | |
| `Scrape` | the crawl for infohashes: the ring of hour filters, active scrapes, the queue, the outcomes of requests for samples, retired nodes, the scrape client as far as it is seen | filters to sets, matching and due times to choices, the heaps of candidates |
| `ScrapeProofs` | theorems about `Scrape` | |
| `MC...` | an instance of each for TLC | |

Correspondence.  A variable has the name of the field it stands for, and its
comment says so; an action is one handler or one callback with all that it
changes, named after it; `PROJECT.json` maps every definition to its lines.
Some choices need saying:

* `Transactions`: position 1 of `order` is `timeout_head`.  `Send` covers a
  successful `client::send` with the timing out of the head it reuses;
  `SendFails` the two failing paths, which consume what was just minted.  The
  suffix is drawn from a set that is small on purpose: with one or two suffixes
  `rand()` repeats itself, and `OwnReply` says exactly what follows.
* `RoutingTable`: `rt` is the `DHTMetaRoutingTable` with the tables it allocated;
  the operators from `Reset` to `Insert` are the functions of the same purpose and
  take and return such a record.  `aborted` is a failed assertion.
* `TimeoutList`: its specification is `ListSpec`, from `ListInit` and `ListNext`, so that one
  module can prove about it and about `EventLoop`.  `Sweep(sent)` is `for_all_node` when exactly `sent` queries leave.
  `table` is the set of contacts in the buckets, which the list has to agree with.
* `EventLoop`: `time` is real time, `behind` how far the system clock was set
  back; handlers and callbacks take no time, only the sleep does.  `Wake` with no
  answer stands for every other event.  `WakeAny` may come at any moment of the
  sleep, and must when it is over, because `Pass` then is disabled.
* `SearchLifecycle`: the requests of one context are only counted, since which
  one is answered makes no difference.
* `PeerDatabase`: a peer is a host, because `Contact`'s order ignores the port and
  `insert` overwrites it.  `known` is the part of the routing table that `message`
  reads: a token is minted for the address a message came from and checked against
  the address of the contact.  `IsFound` is `lookup`, which does not see an infohash
  without peers; such an infohash is counted again when it is announced again, so
  the count may drift above the tree but not below it.
* `ContactCache`: reading files and draining the tables take one step for each
  contact and file, because the process may die in between (`Crash`); the other
  actions are whole handlers.  The flag `cont` of `on_topup_bootstrap` says that the
  heap is not full, and nothing leaves the heap in between, so `IsFull` stands for it.
  The number of contacts written in a session is not counted: whether the heap is
  drained too is a choice.  `Room` and `MaxEntries` are the heap's capacity and
  `MAX_ENTRIES`; `torn` holds the files whose header `cache_for_each` refuses.  It also returns false
  when a call on opening a file fails, and nobody looks at what it returned (`refused`), so
  the file is deleted all the same (`NextFile`, `Unlink`).  A contact is a host with a port, and
  the filter of the heap is keyed by the host (`Ip`, `bootstrap.cpp:30`): once one contact of a host is
  in it, others of that host are dropped.  It is a Bloom filter, so it may answer for any
  further host (`Marked`).

* `Krpc`: a behaviour is one message, which arrives whole.  `Init` chooses the kind, the socket,
  the order of its attributes and which optional ones it has; `how` says whether it is as an
  encoder of this program wrote it in some order, has an attribute twice, has an unknown one around
  the body or in it (whose value may read like attributes), or has one in a form of its own: a
  `want` that is no list, packed strings that end within a unit.  A parser is a record of what it takes
  (`Parser`, `Ordered`) because the loops in `krpc_parse.cpp` differ in nothing else.
  Every branch of a parser's loop is an action, so the position in the buffer is the state between
  two branches; a decoder that does not compare with the end of what was received
  (`bencode.h`, through `krpc.h:121`) does not do so here.  `value_compact`
  (`decode_bencode.cpp:342`) takes whole units and with a string that ends within one goes on into what
  follows: `TakeRagged` lets the parser go on at any later element of the body.
  A reply is written into a buffer of any size: `todo` are the elements that the handler's nested
  writers have still to write, and each may be the one that does not fit (`DoesNotFit`).
  `frames` holds the positions at which the dictionaries and lists around it began, one for
  each writer that is waiting for the one it called; it puts the position back and gives up in its turn
  (`GiveUp`), but for the dictionary of `sp_dump_db`, which looks at no result of the infohashes
  in it and is closed (`StopListing`).
* `Scrape`: `on_awake_scrape` is one action, with the queue served as far as sending
  succeeds (`Serve`: whether an infohash is known is asked there once more, which the model does not
  follow), the ring turned, one scrape checked, and requests for samples to
  one table.  `rest` is what each node said, apart from what the ring remembers of it.
  A request is answered or given up within the hour it was sent in, because an hour is
  much longer than `transaction_timeout` (`Tick`).

Definitions that begin with a comment "Mistake" are wrong on purpose and used
nowhere: each is the variant of the definition that follows it which a plausible
bug would give.  `PROJECT.json` pairs each property with one, and replacing the
definition by it must break the property, which shows that the property is
about this code and that its run reaches the case.

## 3. Runs

| Run | Instance | Shows |
|---|---|---|
| `Transactions` | 2 transactions, 3 requests, timeout 2, clock to 5, 2 suffixes, fairness | type, order of the list, counts, contexts held once, one outcome, own replies, no early timeout; every request ends; implements `PendingRequests` |
| `RoutingTable` | 3 tables of one slot, 5 contacts on 3 ranks | structure, placement, count of bad contacts, what may be given up |
| `RoutingTable_found` | 2 tables | *violated*: an inserted contact cannot be found |
| `TimeoutList` | 3 contacts, 4 arrivals, interval 2 | the list holds the contacts of the table; only newcomers hide due contacts; due ones are queried |
| `EventLoop` | timeout 2, interval 3, clock set back by 1, 2 requests | oversleeps by no more than its clock lags, gives up in time, every request ends |
| `SearchLifecycle` | 2 infohashes, 2 contexts | no use after free, no leak but one, searches end |
| `PeerDatabase` | 2 infohashes, 2 hosts, one with 2 ports, 1 node; both ages 2; 1 infohash removed at a time | old peers leave, young ones stay, the count covers the tree, fresh tokens are accepted |
| `ContactCache` | 3 contacts, two of them of one host, files of at most 2 entries, a heap of 1, numbers to 3, 1 contact drained, 1 failing system call | whole files are kept, and deleted only when all of them was passed on or a call failed, only the oldest is passed over, what the heap has no room for is written again |
| `ContactCache_unread` | the same | *violated*: when files have run out, none is left |
| `Krpc` | all kinds of message on both sockets, a reply that stops fitting at any element, 2 infohashes in the dump | what is sent is what is read, and only that; nothing behind the message is looked at; no half of a reply; the network cannot command; parsing ends |
| `Krpc_unknown` | 2 kinds | *violated*: an unknown attribute is ignored |
| `Scrape` | 1 node, 3 infohashes, 2 scrapes, 2 filters of 2 ticks each, clock to 4, a queue of 1, 2 published are enough | the named interval is honoured, every request is counted, a scrape is replaced only for its own last check and when another had something |

The bounds.  More requests than transactions (3 on 2) make reuse, refusal and
displacement happen, and a clock to twice the timeout lets a reused transaction
expire again.  Three tables allow a root level of two tables beside a deeper one,
or three levels; five contacts of which three share the shallowest rank fill a
level, evict it and refill it; one slot a bucket makes every insert a decision.
Three contacts are the fewest for which something is *between* others in the
timeout list.  Two requests and four sleeps of real time let one request be sent
by a callback that runs after the sweep and another begin the turn that gives
the first up.  Two contexts let a search be started again while its former
context is held, and two infohashes let one search starve another.  An
`EmptyCapacity` below the number of infohashes leaves an emptied one in the tree, and a
`MaxLength` above it leaves the count room to drift; one node id is enough for
tokens, since nodes do not act on each other, but it needs two addresses of which one
is in the routing table.  A heap smaller than a file makes it fill in the middle of one;
numbers to three let two sessions write, die and leave temporary files, and a third read; one host
with two ports lets a contact meet the filter of another.
A message is parsed alone, so one at a time is enough; two infohashes in the dump let the second fail
to fit after the first.  One node may be in both scrapes' tables, which is what a replacement needs to move
it; four ticks turn a ring of two hours of two ticks once around; three infohashes let
one scrape publish less than the two that are enough and more than another.  Every run but that of
`Scrape` stops at its bounds (a clock that ends, arrivals or contexts that are used up,
a message that is answered), hence `CHECK_DEADLOCK FALSE`; the daemon itself always has
a next turn.  `MaxTime`, `MaxActive` (`Scrape`), `Horizon`, `MaxInserts`, `MaxLength`,
`MaxWaiting`, `MaxLost`, `MaxIndex`, `MaxTable` and `MaxFailures` are such bounds and nothing of the code.

What a contact table looks like is part of the invariants: the types of `RoutingTable` are
a conjunct of `TreeWellFormed`.  The types of the other modules are proved (section 4)
rather than checked once more.

Fairness.  The clock advances (`WF(Tick)`).  `on_awake` runs every callback in
every turn, so an action that stands for a callback with work to do is weakly
fair: `EagerTxTimeout`, `SweepAny`, `ScheduledSearch`.  In `TimeoutList` this also says
that a sweep with work keeps sending at least one query, which rests on
`EveryRequestResolved`: transactions become free again.  In `EventLoop` real time
is strongly fair: datagrams may end any number of sleeps early, but each turn
comes back to the sleep and time does pass.  In `Krpc` the step that is enabled is taken
(`WF(Next)`): parsing is one call and waits for nothing.  Nothing is assumed of remote nodes, the
network or clients: no reply has to come, no search has to be stopped.

## 4. Proofs

`TransactionsProofs` proves, for every capacity, timeout, clock bound, set of
suffixes and set of requests (`TransactionsAssumption`: the numbers are positive
naturals, the null values are not values), that `Spec` implies

* `TypeCorrect`: `[]TypeOK`, in particular the list always holds every
  transaction exactly once;
* `SentOrderHolds`, `PartialSearchHolds`, `ActiveCountHolds`, `ContextHeldOnceHolds`,
  `OwnReplyHolds`: the safety invariants of the run;
* `ResolvedOnceHolds`, `NoEarlyTimeoutHolds`: its action properties.

The argument.  The list operations are permutations (`MoveFront` and `MoveBack`
lemmas: which position each transaction has afterwards).  No invariant is
inductive alone: that the list is sorted after a mint needs that nothing was sent
in the future (`SentInPast`); that one consumed transaction gives back one
unit of `active` needs that the count is exact, by cardinality lemmas; that a
reply finds its own request needs that the id of every transaction in use is on
the wire with the request it was sent for (`IdOnWire`); that nobody is told twice
needs that each waiting request is held by exactly one transaction.  The inductive
invariant is the conjunction of these with the properties; each action has one
step of the proof, and each conjunct it disturbs a step below it.

`SearchLifecycleProofs` proves `HeldIsAliveHolds` and `DeletedWhenUnusedHolds`, for any
infohashes and contexts.  Neither says why a reference is given back exactly once.
The inductive invariant `CountInv` does: a context in memory is counted once for
its search (if that still has it), once for each request that holds it and once for each
bad reply, and its search, when it has one, is the one it was made for.  The one
delicate step is `scheduled_search`, which abandons the searches that are over and
asks for the others in one step; that these are different searches follows from
their timeouts.

`RoutingTableProofs` proves, from `RoutingTableAssumption` and so for every number of
tables and slots and every choice of ids and ranks, `TreeIsWellFormed`, `ContactsAreInPlace`,
`BadIsCounted`, `CloseContactsAreKept` and `TypeCorrect`.  None of the invariants is inductive,
and the walks along pointers that they (and the code) speak of are hard to carry through a step
that changes a pointer.  The inductive invariant `IInv` therefore says that the tables *can be
laid out*: there are a `home`, the first table of the level each table is in, and a `pos` that
grows along each level, for which the state is `Sound`.

* `Layout`: the heads are a chain along `in_tree` on which the depth grows, and the tables of
  each home a chain along `parallel` on which `pos` grows (`Chain`: closed under the link, each
  member the head or linked from another).  Hence a walk visits exactly the members of
  its chain and meets each once (`WalkVisits`, `ChainMembers`), and no list is a cycle.
* `Placed`: contacts in a table that has a home are in the level of their rank, once.
* `Counted`: `bad` counts the bad contacts of *all* tables, those outside the lists too.
* `Unused`: what was not allocated is blank, so that a table taken into use is.

An insertion is followed through its parts, with a lemma for what each leaves: `Reset`, the
unlinking of the root's tables, `alloc_RoutingTable` (what it may take is the emptiest table of
the root level, only for a deeper rank, which is what `CloseContactsAreKept` rests on), and the two
ways to link the new table.  The defect of section 5 shows in the statement: the table
may be linked to the one that was just taken out, so the invariant allows tables that hold
contacts and have no home, and claims nothing about where those contacts are.

`PeerDatabaseProofs` proves, from `PeerDatabaseAssumption`, `FreshTokenHolds`,
`LengthCoversTableHolds`, `OldPeersLeaveHolds`, `YoungPeersStayHolds` and `TypeCorrect`.  A fresh
token is accepted because its key was not dropped: the
invariant `TokensInv` says that a token made with the previous key is at least as old as
the current one (`KeysInOrder`), so that when the current key is worn and gives way, the
tokens whose key is dropped with it are older than `token_key_refresh`.  For the
count the invariant `LengthInv` adds only that the tree is finite: `insert` counts at
least the infohash it adds, and a run discounts as many as it removes, by cardinality.  The
ageing of peers stops at the first young one, so it leaves no old one only because every list is
in the order of the announcements (`ListsInv`); an announcement takes the peer out from
where it was and puts it at the other end, which keeps that order (`AnnouncedIs`), and `ListStep` says
what any step makes of a list.

`ContactCacheProofs` proves, from `ContactCacheAssumption`, `FilesKeptHolds`,
`OnlyOldestUnreadHolds`, `ContactsKeptHolds` and `TypeCorrect`.  The invariant `CacheInv` says that
the numbers of a session are in order (`NumbersInOrder`: what was found, what it wrote, what is
free), which the
first step of each session establishes from whatever is on disk, and that the number
being written is free; it claims nothing while no process runs.  That a set of
file numbers has a largest one is itself proved, from the library's well-foundedness of
finite subsets.  `KeptInv` adds that files hold sequences of contacts and that contacts wait in
`todo` only while a file is read or the table is drained: a step that starts to write or
to read another file then has nothing to lose.  That a file is deleted only when all of it was passed
on is `ReadInv`: while a file is read that was not refused, what was passed on and what is
still to be read are together the file, and one is refused only when a system call has
failed before.  There are finitely many contacts
because an id and an address have a fixed size.

`TransactionsProofs` also proves `ImplementsPromiseSteps`: `Spec => Promise!Spec`.  `Since`
maps a waiting request to the time its transaction was sent, `SinceIs` says that the
transaction is the only one.  The step that matters is `MintMakesRoom`: what a new request
displaces is allowed by `PendingRequests`.  While the head of the list is not in use,
fewer requests wait than there are transactions, by a bijection between the waiting requests
and the transactions in use (`PendingCount`); when it is in use every transaction is, since
the list is sorted, and the head holds the oldest request (`HeadInUse`).  That the sweep gives
up all that is overdue is `PartialSearchIsComplete`.

`LoopProofs` proves two components that share the refresh interval.  Of `TimeoutList`:
`ListTypeCorrect` (the contacts of the table are in the list, each once, and no others) and
`OnlyNewcomersHideHolds`.  Each operation maps the positions of the new list to those of the
old one (`PrependIs`, `RemovedIs`, `RotatedIs`), and each keeps the order that
`Hides` states, the sweep because what it appends is younger than all others.

Of `EventLoop`, from `EventLoopAssumption`: `TypeCorrect`, `WakesForFirstExpiryHolds`
and `GivenUpInTimeHolds`.  The invariant `LoopInv` has the argument: the sleep is never longer
than `transaction_timeout`, because one callback always asks for that, so the clock of the turn
lags by at most that and by what the system clock was set back (`until`, `now`, `behind`); a
request is stamped with that clock, so it is given up within twice its timeout of
being sent; the sweep and the sender between them have asked for the earliest expiry in
whatever order they ran, measured on that clock, so that the sleep ends after it by at most the lag, which needs a least element of a set of times (`MinOfNaturals`).

`ScrapeProofs` proves, from `SlotsAssumption`, `HourAssumption` and `FiniteAssumption` (ids have
20 bytes, and `active_scrapes` is an array), `TypeCorrect`, `IntervalHonouredHolds`,
`EveryRequestCountedHolds` and `ProductiveKeptHolds`.  The invariant
`RingInv` says that a node that is to rest is in the
filter that is `k` hours from being cleared, for some `k` of at least the hours that are left
(`Covered`).  Turning the ring moves its index and its time by the same number of hours, so a
filter further away comes that much closer and is not cleared (`FilterKept`): two positions
whose distance is less than the whole turn have different remainders (`ModDiffer`).  The
lemmas about remainders by an unknown number are proved from the bounds of `%` alone.  `IInv` adds
the ranges of the scrapes' counters (`ScrapesOK`) and `Counted`, which is inductive since every step
adds to the counter what it adds to one node (`SumRaised`).  A scrape that is replaced was checked in
the same step, so what was published for it since its check before was too little, and it got less
than the average of all; that average is their sum (`TotalIs`), so some other scrape got something
(`AverageOfOne`).

`KrpcProofs` proves, from `KrpcAssumption` and so for any set of kinds and any length of the dump,
`WithinMessageHolds`, `ArgumentsAreSentHolds`, `PublicCannotCommandHolds` and `ReplyWholeHolds`.  The
first three rest on where the parser stands, cell by cell in a message that an encoder flattened.

* Every delivery is composed of attributes, a key and a value (`Composed`), around a body that is
  composed of attributes in its turn (`Belongs`), whichever of the ways of `how` it differs in:
  shuffling, repeating and inserting keep that (`ShuffledAttrs`, `ExtendedAttrs`).
* A parser always stands where one of the attributes begins or behind the last (`Stands`), because
  from there each decoder takes exactly the value that lies there, or nothing, and passes what
  is unknown as a whole (`Begins`, `PartBegins`).  A position inside a value, where
  something reads like an attribute, is never reached.
* The wildcard that looks for the end of the body returns to depth nothing exactly at the
  end of the dictionary it began with (`WildcardRead`): inside it, the openings outnumber the closings,
  by cardinality (`Depth`, `Encloses`).  That is where the body ends, so `mark` holds its bounds.
* A body with a `want` that is no list, or with ragged strings (`Loose`), puts the parser out of step.  Its
  values are single cells, so any position in it still lies before its end, which is all that
  `WithinMessage` says of it.
* The network cannot command because a public socket has no such module, so that a query taken
  from a message has to be the name of a public one, and the attribute `q` of a message is the name of its
  kind.

`ReadingInv` is the conjunction, and inductive: the position at the top, the bounds of the body
once it was found, the position in the body, and what was taken so far.

For the reply the invariant is `WritersInv`.  While it is written, what is written and what is still
to be written make up one whole reply (`Divided`), and as many writers are open as its elements
have opened dictionaries so far (`Writing`).  Since every reply encloses what it opens
(`RepliesEnclosed`), the outermost writer began at nothing (`Framing`), and a chain of writers that give up
ends there.  Only the one of `sp_dump_db` stops the chain: just three are open in
front of one of its infohashes and nowhere else (`DumpDepth`, from the elements of that reply,
`DumpIs`), so where the position is put back to, the reply begins like the reply with the
infohashes written so far (`Holds`, `DumpsBegin`), and closing it makes it that one (`StopListingStep`).

Two kinds of argument recur.  A cardinality or a largest element comes from the library's
theorems on finite sets.  A sum over a set, or a walk, is a recursive definition, and what it
computes is shown by its least counterexample: were the claim false, there would be a smallest
set (or first position) at which it fails, and one step of the recursion refutes that.

What only TLC checks.  The liveness properties and the fairness of the refinement
(`EveryRequestResolved`, `ImplementsPromise` as a whole, `DueIsQueried`, `EveryRequestEnds`,
`OverIsRemoved`, `EveryMessageSettles`), because the prover knows neither `ENABLED` nor fairness.
Of `Krpc`, `ReadsAsSent`: a proof would follow the parser through every message in every
order, which is what the run does; no constant but `Kinds` changes it, and the run takes all kinds.

## 5. Where the code and what is said of it differ

Shown by a run:

1. `__make_routing_table` chooses the table to link to before `alloc_RoutingTable`
   may empty and return that very table (`:1019`, `:1038`); the inserted contact is
   then not reachable from the root, against `test_find_node`, and once the tree is
   empty the next insert fails an assertion (`RoutingTable_found`).
2. `take_next_read_cache` never returns the file numbered `read_min_idx`
   (`cache.cpp:392`): a single cache file is not read at all, and the oldest one is
   kept for ever, against the comment at `:518` (`ContactCache_unread`).
3. An attribute of a message that `krpc()` does not know is passed over only when it is a
   short string; a number, a list, a dictionary or a longer string makes it refuse the
   message, against the comment at `krpc.h:205` (`Krpc_unknown`).

Read while modelling, and not properties.

Requests and time: what a turn sends is stamped with the time
before its sleep (`dht-server.cpp:458`), so a request may be given up in the very next turn,
long before `transaction_timeout`, and `GivenUpInTime` bounds the lag the other way.  The
timeout list is not sorted as `dht_interface.cpp:118` says, new contacts go to its head, and
`OnlyNewcomersHide` says what holds instead; a contact whose `req_sent` is exactly
`refresh_interval` old is not yet due, so a wake-up at that instant does nothing and
the next comes `min_timeout_interval` later; it is `scheduled_search`, which always
asks for `transaction_timeout`, that keeps the sleeps short.  The sleep is measured from the time before
the last one, so the loop does sleep past the first expiry, by as much as `WakesForFirstExpiry`
allows: its clock lags by up to one timeout.

Contacts: `total_nodes` is decremented for a contact that is replaced and not incremented for
its successor (`routing_table.cpp:366`, `:1090`), so that `nodes_good` may wrap, against the
assertion at `:331`.  A cache file whose last flush failed, or that
cannot be opened when its turn comes, is deleted unread, because nobody looks at the result of
`cache_for_each` (`cache.cpp:493`; `FilesKept` says that nothing else is).  Of several contacts of one host
only the first gets into the heap, the others are dropped with their file (`bootstrap.cpp:30`;
`ContactsKept`).  Temporary
files of dead sessions stay.  After `on_interrupt` has called `deinit_cache`, the rest of the
batch and every `on_awake` still run (`cache.cpp:383`).

Searches and peers: `announce_peer` checks the token against the address the routing table has
for the node (`dht_interface.cpp:824`), `get_peers` mints it for the address the message
came from (`:616`), so a node whose address has changed is told "Announce_peer with
wrong token" (`:837`) about the token it was just given.  A reply that is an error or cannot be
parsed leaves its reference to the search context behind (`dht-server.cpp:163`,
`dht_interface.cpp:767`), against `search.h:15`; the same reply loses a `ScrapeContext`.
Searches at the end of the list may starve (a TODO at `private_interface.cpp:196`), and one
client's stop ends the search of another.  `found` writes to the socket the daemon listens on
(`client.cpp:142`), so that no event reaches a client.

Messages: the parser does not compare with the end of what was received (`krpc.h:121`, and the
TODO at `:120`), which is harmless for a message that is whole (`WithinMessage`) and not followed here for one
that is not.  The parser of the reply to sample_infohashes does not ask for whole units
(`decode_bencode.cpp:349`) and reads on behind a string that ends within one; such a message is refused,
or its later attributes are missed.  `sp_search` and `sp_search_stop` act before
they look for the end of their arguments (`private_interface.cpp:361`, `:376`).  The reply to
get_peers with Bloom filters, which this program writes, is refused by its own parser.  The
handlers of the public queries ignore whether the reply fitted.  `dump_db` lists dictionaries
where keys are due, which is not bencode.  `on_dht_protocol_handle` returns at the first
datagram that fails and leaves the others for the next turn.

Scrape: `last_10m_average` divides by the smaller of one and the number of scrapes, so it is
their sum (`scrape.cpp:45`), and a scrape with nine is replaced when another had one (`ProductiveKept`).  What is named `last_24h` remembers as many hours as there are
filters; a longer interval wraps around, and `IntervalHonoured` leaves it out.
`scrape_active_sample_infhohash` is not decremented for an error reply
(`dht-server.cpp:160`), so it only ever covers the requests that are outstanding.  A
candidate is dropped when its request cannot be sent (`scrape.cpp:287`), and `swap_in_new`
offers candidates, all matched by the id of the old scrape, to a filter they are already in.

Our own address: the winner of the votes has no caller, and the vote of a message is lost when
the context of its body is copied (`shared.cpp:38`).

## 6. Not modelled, and the plan

Sockets, upnp, dump, logging, options and the client programs are wrappers of system calls
or output (`PROJECT.json` says which).  The ip election has no effect on the rest: nothing
reads its winner.

Of modelled parts: the closest-nodes query of the routing table; the choice of the next contact
of a search; the sample of infohashes, seeds and names of the peer database; of the codec, the
printing for logs, the writers by offset, and datagrams that were cut short.  What becomes of these is
decided by bytes: the loop over the digits of a number looks at the end from where the number began
(`bencode.cpp:268`) and completes it from what an earlier message left in the buffer, and the length that
is left is unsigned and wraps behind the end (`bencode.cpp:437`, `bencode_offset.cpp:25`), so that a
parser that has come there goes on.  A model by elements would refuse what the code takes; of the contact cache, `faccessat` failing on a file that exists; of the scrape, the heaps of candidates
with their filters, the requests for the peers of an infohash, the statistics of get_peers, the counters of upcoming requests, the
capacity of the array of retired nodes, false positives of the filters and the connection of
the scrape client.

Next, in this order:

1. The last turn of the main loop, in which the cache is deleted while the routing table
   still holds it (`cache.cpp:383`).
2. The heaps of candidates of bootstrap, searches and scrapes as one component; then
   the sample of infohashes.
3. A fairness property for the searches that share the transactions.
