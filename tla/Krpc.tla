----------------------------- MODULE Krpc ------------------------------
(***************************************************************************)
(* One message of the Mainline DHT protocol or of the daemon's own         *)
(* commands, from the encoder that writes it (krpc.cpp, priv_krpc.cpp) to  *)
(* the parser that takes it apart (krpc.h, krpc_parse.cpp), the handler it *)
(* reaches and the reply that the handler writes.                          *)
(*                                                                         *)
(* A sender of another make puts attributes in another order, repeats      *)
(* some, adds some that this program does not know, and packs strings of   *)
(* its own; how says which.  Messages arrive whole: what the decoders make *)
(* of one that was cut short is decided by bytes, not by elements.         *)
(*                                                                         *)
(* A reply is written into a buffer of any size, element by element; each  *)
(* of the nested writers puts the position back when it gives up.          *)
(***************************************************************************)
EXTENDS Bencode

CONSTANTS
  Kinds,     \* the messages that arrive
  DbEntries  \* infohashes in the database that sp_dump_db lists

VARIABLES
  kind,   \* what the sender sends
  domain, \* the socket it arrives at
  how,    \* how it differs from ours
  sent,   \* the attributes of its body
  buf,    \* the memory of the receiver's buffer
  len,    \* the end of what was received
  pos,
  phase,
  top,    \* the attributes of the message that were taken: t, y, q, ip, v
  mark,   \* where its body starts, where that ends, and where the message ends
  args,   \* the attributes of the body that were taken, in that order
  acted,  \* the handler that was run
  todo,   \* what it has still to write
  frames, \* where each dictionary and list that is being written began
  out     \* what it has written

received == <<kind, domain, how, sent, buf, len>>
reply == <<todo, frames, out>>
vars == <<kind, domain, how, sent, buf, len, pos, phase, top, mark, args, acted, reply>>

----------------------------------------------------------------------------
(* What the encoders write: the body of each kind of message.              *)

Id == PairOf("id", <<Str(20, "self")>>)
Token == PairOf("token", <<Str(8, "token")>>)
Target == PairOf("target", <<Str(20, "target")>>)
InfoHash == PairOf("info_hash", <<Str(20, "infohash")>>)
Want == PairOf("want", Texts(<<"n4">>))
Nodes == PairOf("nodes", CompactNodes(<<"near", "far">>))
Samples == PairOf("samples", CompactHashes(<<"x", "y">>))

PingRequest == <<Id>>
FindNodeRequest == <<Id, Target, Want>>
GetPeersRequest == <<Id, InfoHash, Want>>
GetPeersScrapeRequest == <<Id, InfoHash, Want, PairOf("scrape", Flag(TRUE))>>
AnnouncePeerRequest ==
  <<Id, PairOf("implied_port", Flag(TRUE)), InfoHash, PairOf("port", <<Integer(6881)>>), Token>>
SampleInfohashesRequest == <<Id, Target, Want>>

PingResponse == <<Id>>
FindNodeResponse == <<Id, Nodes>>
GetPeersResponse == <<Id, Token, Nodes>>
GetPeersPeersResponse == <<Id, Token, PairOf("values", Contacts(<<"a", "b">>))>>
GetPeersScrapeResponse ==
  <<Id, Token, PairOf("BFsd", <<Str(256, "seeds")>>), PairOf("BFpe", <<Str(256, "peers")>>)>>
AnnouncePeerResponse == <<Id>>
SampleInfohashesResponse ==
  <<Id, PairOf("interval", <<Integer(60)>>), Nodes, PairOf("num", <<Integer(2)>>),
    Samples>>

SearchRequest == <<PairOf("search", <<Str(20, "infohash")>>), PairOf("timeout", <<Integer(60)>>)>>
StopSearchRequest == <<PairOf("search", <<Str(20, "infohash")>>)>>
NoArguments == <<>>
Found ==
  <<PairOf("id", <<Str(20, "infohash")>>),
    PairOf("contacts", ListOf(<<ContactDict(1), ContactDict(2)>>))>>

(* The numbers that a reply of the local socket lists, one after another. *)
Counts(keys) == [i \in DOMAIN keys |-> PairOf(keys[i], <<Integer(0)>>)]

(* The root of the routing table, with the contacts in its bucket. *)
NodeDict == DictOf(<<Id, PairOf("good", Flag(TRUE)), PairOf("outstanding", <<Integer(0)>>)>>)

Bucket == ListOf(<<NodeDict>>)

Table == DictOf(<<PairOf("bucket", Bucket)>>)

DumpResponse ==
  <<Id>> \o Counts(<<"pid", "bind_port">>)
  \o << PairOf("cache", DictOf(Counts(<<"min_read_idx", "max_read_idx", "write_idx">>))),
        PairOf("bootstrap", DictOf(Counts(<<"unique_inserts", "candidates">>))),
        PairOf("spbt", DictOf(Counts(<<"stored">>))),
        PairOf("ip_election", DictOf(Counts(<<"an address">>))),
        PairOf("root", Table) >>
  \o Counts(<<"last_activity", "routing_table_nodes", "bad_nodes">>)

(* Of the scrapes and of the hours one of each. *)
DumpScrapeResponse ==
  <<PairOf("scrape", DictOf(Counts(
      <<"active_scrapes", "active_sample_infohashes_requests", "queue_get_peers_ih",
        "info_hash0", "routing_table_nodes0", "candidates0", "stat.publish0",
        "bootstrap_unique_inserts", "scrape_hour_current_idx", "scrape_hour0">>)))>>

DebugScrapeResponse == Counts(<<"theoretical_max_capacity_bloomfilter", "length_bloomfilter">>)

(* The counters of one kind of message, and of one direction: only what is *)
(* received can have timed out.                                            *)
Traffic(t) ==
  Counts([i \in 1 .. 6 |-> t \o <<"-ping", "-find_node", "-get_peers", "-announce_peer",
                                   "-sample_infohashes", "-error">>[i]])

Direction(d, transmitted) ==
  Traffic(d \o "-request")
  \o (IF transmitted THEN <<>> ELSE Traffic(d \o "-response_timeout"))
  \o Traffic(d \o "-response") \o Counts(<<d \o "-parse_error">>)

StatisticsResponse ==
  Direction("transmit", TRUE) \o Direction("received", FALSE)
  \o Counts(<<"known_tx", "unknown_tx", "scrape_swapped_ih">>)

(* An infohash as sp_dump_db lists it, without a key of its own. *)
DbEntry == DictOf(<<PairOf("infohash", <<Text("hex")>>), PairOf("entries", <<Integer(1)>>)>>)

DumpDbResponse(n) ==
  <<PairOf("db", DictOf([i \in 1 .. n |-> DbEntry]))>>

----------------------------------------------------------------------------
(* Requests and replies around their body: krpc_shared.h.                  *)

(* The letter of the type reads like the key of a body.                    *)
Message(body, q, y) ==
  body \o q \o <<PairOf("t", <<Str(4, "tx")>>), PairOf("v", <<Str(4, "sp02")>>),
                 PairOf("y", <<Key(y)>>)>>

Request(q, body) == Message(<<PairOf("a", DictOf(body))>>, <<PairOf("q", <<Text(q)>>)>>, "q")

Response(body) == Message(<<PairOf("r", DictOf(body))>>, <<>>, "r")

ErrorMessage ==
  Message(<<PairOf("e", ListOf(<< <<Integer(204)>>, <<Text("unknown method")>> >>))>>, <<>>, "e")

PublicQueries ==
  {"ping", "find_node", "get_peers", "announce_peer", "sample_infohashes"}

PrivateQueries ==
  {"sp_dump", "sp_dump_scrape", "sp_debug_scrape", "sp_dump_db", "sp_statistics",
   "sp_search", "sp_search_stop"}

(* Mistake: one list of modules for every socket. *)
ModulesOfAll(d) == PublicQueries \cup PrivateQueries

(* The modules of each socket: interface_dht::setup, interface_priv::setup. *)
Modules(d) == PublicQueries \cup (IF d = "private" THEN PrivateQueries ELSE {})

(* The bodies of the messages that are sent to us, and what queries ask. *)
Bodies ==
  [ping |-> PingRequest, find_node |-> FindNodeRequest, get_peers |-> GetPeersRequest,
   get_peers_scrape |-> GetPeersScrapeRequest, announce_peer |-> AnnouncePeerRequest,
   sample_infohashes |-> SampleInfohashesRequest, unheard_of |-> NoArguments,
   sp_dump |-> NoArguments, sp_dump_scrape |-> NoArguments, sp_debug_scrape |-> NoArguments,
   sp_dump_db |-> NoArguments, sp_statistics |-> NoArguments,
   sp_search |-> SearchRequest, sp_search_stop |-> StopSearchRequest, sp_found |-> Found,
   r_ping |-> PingResponse, r_find_node |-> FindNodeResponse, r_get_peers |-> GetPeersResponse,
   r_get_peers_peers |-> GetPeersPeersResponse, r_get_peers_scrape |-> GetPeersScrapeResponse,
   r_announce_peer |-> AnnouncePeerResponse,
   r_sample_infohashes |-> SampleInfohashesResponse, error |-> NoArguments]

ASSUME KrpcAssumption ==
  Kinds \subseteq DOMAIN Bodies /\ DbEntries \in Nat

Replies ==
  {"r_ping", "r_find_node", "r_get_peers", "r_get_peers_peers", "r_get_peers_scrape",
   "r_announce_peer", "r_sample_infohashes"}

Query(k) == IF k = "get_peers_scrape" THEN "get_peers" ELSE k

Framed(k, body) == CASE k \in Replies -> Response(body)
                     [] k = "error"   -> ErrorMessage
                     [] OTHER         -> Request(Query(k), body)

(* What each handler may reply, as the pairs of a message. *)
ReplyTo(k) ==
  CASE k = "ping"              -> {Response(PingResponse)}
    [] k = "find_node"         -> {Response(FindNodeResponse)}
    [] k = "get_peers"         -> {Response(GetPeersResponse), Response(GetPeersPeersResponse)}
    [] k = "get_peers_scrape"  -> {Response(GetPeersResponse), Response(GetPeersScrapeResponse)}
    [] k = "announce_peer"     -> {Response(AnnouncePeerResponse), ErrorMessage}
    [] k = "sample_infohashes" -> {Response(SampleInfohashesResponse)}
    [] k = "sp_dump"           -> {Response(DumpResponse)}
    [] k = "sp_dump_scrape"    -> {Response(DumpScrapeResponse)}
    [] k = "sp_debug_scrape"   -> {Response(DebugScrapeResponse)}
    [] k = "sp_statistics"     -> {Response(StatisticsResponse)}
    [] OTHER                   -> {Response(NoArguments)}

----------------------------------------------------------------------------
(* The parsers of a body: the attributes each takes and their types, those *)
(* it takes again, those it cannot go on without, and the sets of          *)
(* attributes one of which has to be there.  A parser with an order takes  *)
(* nothing else.                                                           *)

Parser(types, needs) ==
  [types |-> types, needs |-> needs, again |-> {}, strict |-> {}, order |-> <<>>]

Ordered(types, order) ==
  [types |-> types, needs |-> {{order[i] : i \in DOMAIN order}}, again |-> {},
   strict |-> {}, order |-> order]

ParsePingRequest == Parser([id |-> "id", ip |-> "contact"], {{"id"}})
ParsePingResponse == Parser([id |-> "id", ip |-> "contact", p |-> "number"], {{"id"}})
ParseFindNodeRequest ==
  Parser([id |-> "id", target |-> "id", want |-> "want"], {{"id", "target"}})
ParseFindNodeResponse ==
  Parser([id |-> "id", nodes |-> "nodes", token |-> "id", p |-> "number", ip |-> "contact"],
         {{"id"}})
ParseGetPeersRequest ==
  Parser([id |-> "id", info_hash |-> "id", noseed |-> "number", scrape |-> "number",
          want |-> "want", bs |-> "number"], {{"id", "info_hash"}})
(* Mistake: a reply has to have both nodes and peers. *)
ParseGetPeersResponseBoth ==
  Parser([id |-> "id", token |-> "id", p |-> "number", nodes |-> "nodes", values |-> "peers"],
         {{"id", "nodes", "values"}})

ParseGetPeersResponse ==
  Parser([id |-> "id", token |-> "id", p |-> "number", nodes |-> "nodes", values |-> "peers"],
         {{"id", "nodes"}, {"id", "values"}})

ParseAnnouncePeerRequest ==
  Parser([id |-> "id", implied_port |-> "number", info_hash |-> "id", port |-> "u16",
          token |-> "id", seed |-> "number", name |-> "ref"], {{"id", "info_hash", "token"}})
ParseAnnouncePeerResponse == [Parser([id |-> "id"], {{"id"}}) EXCEPT !.again = {"id"}]
ParseSampleInfohashesRequest ==
  Parser([id |-> "id", target |-> "id", want |-> "want"], {{"id"}})
ParseSampleInfohashesResponse ==
  [Parser([id |-> "id", interval |-> "number", nodes |-> "nodes", num |-> "number",
           p |-> "number", ip |-> "contact", samples |-> "hashes"], {{}})
   EXCEPT !.strict = {"nodes", "samples"}]
ParseSearch == Ordered([search |-> "id", timeout |-> "number"], <<"search", "timeout">>)
ParseStopSearch == Ordered([search |-> "id"], <<"search">>)
ParseFound == Ordered([id |-> "id", contacts |-> "contacts"], <<"id", "contacts">>)

(* The commands without arguments do not look at their body. *)
Unread == {"sp_dump", "sp_dump_scrape", "sp_debug_scrape", "sp_dump_db", "sp_statistics"}

ParserOf(k) ==
  CASE k = "ping"                -> ParsePingRequest
    [] k = "find_node"           -> ParseFindNodeRequest
    [] k \in {"get_peers", "get_peers_scrape"} -> ParseGetPeersRequest
    [] k = "announce_peer"       -> ParseAnnouncePeerRequest
    [] k = "sample_infohashes"   -> ParseSampleInfohashesRequest
    [] k = "r_ping"              -> ParsePingResponse
    [] k = "r_find_node"         -> ParseFindNodeResponse
    [] k \in {"r_get_peers", "r_get_peers_peers", "r_get_peers_scrape"} -> ParseGetPeersResponse
    [] k = "r_announce_peer"     -> ParseAnnouncePeerResponse
    [] k = "r_sample_infohashes" -> ParseSampleInfohashesResponse
    [] k = "sp_search"           -> ParseSearch
    [] k = "sp_search_stop"      -> ParseStopSearch
    [] k = "sp_found"            -> ParseFound

----------------------------------------------------------------------------
(* What arrives.                                                           *)

Shuffled(s) ==
  { [i \in DOMAIN s |-> s[p[i]]] : p \in SetToSeqs(DOMAIN s) }

Extended(s, x) == { InsertAt(s, i, x) : i \in 1 .. Len(s) + 1 }

(* An attribute that this program does not know, and whose value may read  *)
(* like attributes that it does know.                                      *)
OtherId == <<Str(20, "other")>>

Unheard ==
  { PairOf("x", value) : value \in
      {<<Text("?")>>, <<Str(200, "?")>>, <<Integer(1)>>, <<Key("id")>>, <<Key("q")>>,
       ListOf(<< <<Key("id")>>, OtherId >>), DictOf(<<PairOf("id", OtherId)>>)} }

Sample(t) ==
  CASE t \in {"id", "ref"}       -> <<Str(4, "optional")>>
    [] t \in {"u16", "number"}   -> <<Integer(1)>>
    [] t = "contact"             -> <<Str(6, "address")>>
    [] t = "nodes"               -> CompactNodes(<<"near">>)
    [] t = "peers"               -> Contacts(<<"a">>)
    [] t = "want"                -> Texts(<<"n4", "n6">>)

(* The bodies whose attributes may come in any order. *)
InAnyOrder(k) == k \notin {"sp_search", "sp_search_stop", "sp_found"}

(* The attributes a parser takes that our encoders do not write. *)
Optional(k) ==
  IF k \in Unread \cup {"error", "unheard_of"} \/ ~ InAnyOrder(k) THEN {}
  ELSE { PairOf(a, Sample(ParserOf(k).types[a])) :
           a \in { x \in DOMAIN ParserOf(k).types :
                     \A i \in DOMAIN Bodies[k] : Bodies[k][i][1] # Key(x) } }

Delivery(h, body, pairs) ==
  [how |-> h, sent |-> body, buf |-> DictOf(pairs), len |-> Len(DictOf(pairs))]

(* The whole message: its attributes in any order, and those of its body   *)
(* unless its parser asks for one, and with one of the optional ones.      *)
WholeDeliveries(k) ==
  LET body == Bodies[k]
  IN  { Delivery("whole", b, Framed(k, b)) :
          b \in IF InAnyOrder(k) THEN Shuffled(body) ELSE {body} }
      \cup { Delivery("whole", body, pairs) : pairs \in Shuffled(Framed(k, body)) }
      \cup { Delivery("whole", body, pairs) :
               pairs \in UNION { Extended(Framed(k, body), x) :
                   x \in {PairOf("ip", <<Str(6, "address")>>), PairOf("ro", <<Integer(1)>>)} } }
      \cup { Delivery("whole", b, Framed(k, b)) :
               b \in UNION { Extended(body, x) : x \in Optional(k) } }

RepeatedDeliveries(k) ==
  LET Again(s) == { Append(s, s[i]) : i \in DOMAIN s }
  IN  { Delivery("repeated", Bodies[k], pairs) : pairs \in Again(Framed(k, Bodies[k])) }
      \cup { Delivery("repeated", b, Framed(k, b)) : b \in Again(Bodies[k]) }

(* With an attribute more, around the body or in it. *)
UnknownDeliveries(k) ==
  { Delivery("unknown", Bodies[k], pairs) :
      pairs \in UNION { Extended(Framed(k, Bodies[k]), x) : x \in Unheard } }

ForeignDeliveries(k) ==
  { Delivery("foreign", b, Framed(k, b)) :
      b \in UNION { Extended(Bodies[k], x) : x \in Unheard } }

(* With one of the attributes in another form, in any order: a 'want' that *)
(* is no list, or packed strings that end within a unit.                   *)
Reformed(k, x) ==
  Shuffled([i \in DOMAIN Bodies[k] |-> IF Bodies[k][i][1] = x[1] THEN x ELSE Bodies[k][i]])

Has(k, x) == \E i \in DOMAIN Bodies[k] : Bodies[k][i][1] = x[1]

OtherWant == PairOf("want", <<Text("n4")>>)

UnlistedDeliveries(k) ==
  { Delivery("unlisted", b, Framed(k, b)) :
      b \in IF Has(k, OtherWant) THEN Reformed(k, OtherWant) ELSE {} }

Ragged == { PairOf("nodes", <<Str(53, "?")>>), PairOf("samples", <<Str(30, "?")>>) }

RaggedDeliveries(k) ==
  { Delivery("ragged", b, Framed(k, b)) :
      b \in UNION { Reformed(k, x) : x \in { y \in Ragged : Has(k, y) } } }

Deliveries(k) ==
  WholeDeliveries(k) \cup RepeatedDeliveries(k) \cup UnknownDeliveries(k)
  \cup ForeignDeliveries(k) \cup UnlistedDeliveries(k) \cup RaggedDeliveries(k)

(* Replies come from the network and results of a search go to the client; *)
(* of the queries that both sockets serve alike one comes to both.         *)
Domains(k) == CASE k \in PrivateQueries \cup {"ping", "unheard_of"} -> {"public", "private"}
                [] k = "sp_found" -> {"client"}
                [] OTHER -> {"public"}

----------------------------------------------------------------------------
(* The parser of the message: krpc::d::krpc.                               *)

Received == [raw |-> buf, length |-> len]

Init ==
  /\ kind \in Kinds
  /\ domain \in Domains(kind)
  /\ \E d \in Deliveries(kind) :
       how = d.how /\ sent = Range(d.sent) /\ buf = d.buf /\ len = d.len
  /\ pos = 2 /\ phase = "top"  \* every delivery opens a dictionary
  /\ top = [t |-> "", y |-> "", q |-> "", ip |-> "", v |-> ""]
  /\ mark = <<0, 0, 0>> /\ args = <<>> /\ acted = ""
  /\ todo = <<>> /\ frames = <<>> /\ out = <<>>

Attributes == [t |-> "tx", y |-> "msg_type", q |-> "query", ip |-> "contact", v |-> "version"]

(* Can the attribute at pos be taken as k? *)
Takes(k) == top[k] = "" /\ PairAt(Received, pos, k, Attributes[k]) # 0

ReadOnlyAt == PairAt(Received, pos, "ro", "number")

TakeAttribute ==
  /\ phase = "top"
  /\ \E k \in DOMAIN Attributes :
       /\ Takes(k)
       /\ pos' = PairAt(Received, pos, k, Attributes[k])
       /\ top' = [top EXCEPT ![k] = buf[pos + 1][3]]
  /\ UNCHANGED <<received, phase, mark, args, acted, reply>>

TakeReadOnly ==
  /\ phase = "top" /\ ReadOnlyAt # 0
  /\ pos' = ReadOnlyAt
  /\ UNCHANGED <<received, phase, top, mark, args, acted, reply>>

(* The body: where it ends, as far as its openings and closings tell. *)
BodyAt == \E k \in {"a", "r", "e"} : KeyAt(Received, pos, k)

BodyEnd ==
  WildcardAt(Received, pos + 1, IF KeyAt(Received, pos, "e") THEN List ELSE Dict)

(* It is left for later, because 'q' and 'y' may come behind it. *)
TakeBody ==
  /\ phase = "top" /\ BodyAt /\ BodyEnd # 0
  /\ mark' = <<pos + 1, BodyEnd, 0>>
  /\ pos' = BodyEnd
  /\ UNCHANGED <<received, phase, top, args, acted, reply>>

Other ==
  /\ phase = "top" /\ ~ BodyAt /\ ReadOnlyAt = 0
  /\ \A k \in DOMAIN Attributes : ~ Takes(k)

SkipUnknown ==
  /\ Other /\ PairAnyAt(Received, pos) # 0
  /\ pos' = PairAnyAt(Received, pos)
  /\ UNCHANGED <<received, phase, top, mark, args, acted, reply>>

RefuseAttribute ==
  /\ \/ phase = "top" /\ BodyAt /\ BodyEnd = 0
     \/ Other /\ PairAnyAt(Received, pos) = 0 /\ At(Received, pos) # End
  /\ phase' = "refused"
  /\ UNCHANGED <<received, pos, top, mark, args, acted, reply>>

----------------------------------------------------------------------------
(* The handlers, and the reply that one writes.                            *)

(* A sender that is this node itself or is blacklisted gets no reply.      *)
PublicReply == {<<>>} \cup { DictOf(r) : r \in ReplyTo(kind) }

PrivateReply ==
  IF kind = "sp_dump_db" THEN {DictOf(Response(DumpDbResponse(DbEntries)))}
  ELSE { DictOf(r) : r \in ReplyTo(kind) }

Write(cells) ==
  /\ phase' = "writing"
  /\ todo' = cells /\ frames' = <<>> /\ out' = <<>>

(* The handler of kind runs. *)
Handle ==
  /\ acted' = kind
  /\ \E cells \in CASE kind \in PrivateQueries -> PrivateReply
                    [] kind \in Replies \cup {"sp_found"} -> {<<>>}
                    [] OTHER -> PublicReply :
       Write(cells)

(* Mistake: a writer that gives up leaves behind what it has written. *)
LeftBehind(cells, n) == cells

(* The position is put back to n. *)
PutBack(cells, n) == SubSeq(cells, 1, n)

(* The next cell fits. *)
WriteCell ==
  /\ phase = "writing" /\ todo # <<>>
  /\ out' = Append(out, Head(todo)) /\ todo' = Tail(todo)
  /\ frames' = IF Opens(Head(todo)) THEN Append(frames, Len(out))
               ELSE IF Head(todo) = End THEN Front(frames) ELSE frames
  /\ UNCHANGED <<received, pos, phase, top, mark, args, acted>>

(* It does not; a dictionary that cannot be closed gives up itself.        *)
DoesNotFit ==
  /\ phase = "writing" /\ todo # <<>>
  /\ phase' = "giving up"
  /\ IF Head(todo) = End
     THEN out' = PutBack(out, Last(frames)) /\ frames' = Front(frames)
     ELSE UNCHANGED <<out, frames>>
  /\ UNCHANGED <<received, pos, top, mark, args, acted, todo>>

(* In the dictionary of sp_dump_db: nobody looks whether an infohash fits. *)
Listing == acted = "sp_dump_db" /\ Len(frames) = 3

(* The writer around the one that gave up does so too. *)
GiveUp ==
  /\ phase = "giving up" /\ frames # <<>> /\ ~ Listing
  /\ out' = PutBack(out, Last(frames)) /\ frames' = Front(frames)
  /\ UNCHANGED <<received, pos, phase, top, mark, args, acted, todo>>

(* No further infohash is written, and the dictionary is closed. *)
StopListing ==
  /\ phase = "giving up" /\ Listing
  /\ phase' = "writing"
  /\ todo' = LET cells == DictOf(Response(DumpDbResponse(0)))
             IN  SubSeq(cells, 6, Len(cells))
  /\ UNCHANGED <<received, pos, top, mark, args, acted, out, frames>>

(* What a message has to have, by its type. *)
Required ==
  CASE top.y = "e" -> top.t # ""
    [] top.y = "q" -> top.t # "" /\ top.q # ""
    [] top.y = "r" -> top.t # ""
    [] OTHER       -> FALSE

(* At the closing byte, which is read without looking where the received   *)
(* bytes end, the handler is called for the query, or for the request that *)
(* the reply is to.                                                        *)
AtEnd == phase = "top" /\ At(Received, pos) = End

Incomplete ==
  /\ AtEnd /\ (~ Required \/ mark[1] = 0 \/ top.y = "e")
  /\ phase' = "refused"
  /\ UNCHANGED <<received, pos, top, mark, args, acted, reply>>

Ready == AtEnd /\ Required /\ mark[1] # 0 /\ top.y # "e"

Served == top.y = "r" \/ domain = "client" \/ top.q \in Modules(domain)

UnknownQuery ==
  /\ Ready /\ ~ Served
  /\ acted' = "error" /\ Write(DictOf(ErrorMessage))
  /\ mark' = [mark EXCEPT ![3] = pos]
  /\ UNCHANGED <<received, pos, top, args>>

Command ==
  /\ Ready /\ Served /\ kind \in Unread
  /\ Handle
  /\ mark' = [mark EXCEPT ![3] = pos]
  /\ UNCHANGED <<received, pos, top, args>>

----------------------------------------------------------------------------
(* The parsers of the body: the message ends where the body does.          *)

Body == [raw |-> buf, length |-> mark[2] - 1]

OpenBody ==
  /\ Ready /\ Served /\ kind \notin Unread
  /\ phase' = IF Is(Body, mark[1], Dict) THEN "body" ELSE "refused"
  /\ pos' = mark[1] + 1
  /\ mark' = [mark EXCEPT ![3] = pos]
  /\ UNCHANGED <<received, top, args, acted, reply>>

P == ParserOf(kind)

Taken == { args[i][1] : i \in DOMAIN args }

(* May the attribute k come now? *)
Fits(k) ==
  IF P.order = <<>> THEN k \notin Taken \/ k \in P.again
  ELSE Len(args) < Len(P.order) /\ k = P.order[Len(args) + 1]

ArgumentAt(k) == IF Fits(k) THEN PairAt(Body, pos, k, P.types[k]) ELSE 0

TakeArgument ==
  /\ phase = "body"
  /\ \E k \in DOMAIN P.types :
       /\ ArgumentAt(k) # 0
       /\ pos' = ArgumentAt(k)
       /\ args' = Append(args, <<k, SubSeq(buf, pos + 1, pos' - 1)>>)
  /\ UNCHANGED <<received, phase, top, mark, acted, reply>>

NoArgument == phase = "body" /\ \A k \in DOMAIN P.types : ArgumentAt(k) = 0

(* An attribute that has to be right if it is there. *)
Wrong == \E k \in P.strict : Fits(k) /\ KeyAt(Body, pos, k)

(* A 'want' that is no list leaves its key behind. *)
Rest ==
  IF "want" \in DOMAIN P.types /\ Fits("want") /\ KeyAt(Body, pos, "want") THEN pos + 1
  ELSE pos

Skippable == P.order = <<>> /\ ~ Wrong /\ AnyAt(Body, Rest) # 0

(* Mistake: the attribute is looked at and not passed. *)
SkipInPlace ==
  /\ NoArgument /\ Skippable
  /\ pos' = Rest
  /\ UNCHANGED <<received, phase, top, mark, args, acted, reply>>

(* A packed string that ends within a unit: the rest of the unit is taken  *)
(* from what follows, and the parser goes on behind it, or within an       *)
(* element, where it finds nothing, or an 'e' and with it the end.         *)
TakeRagged ==
  /\ phase = "body"
  /\ \E k \in P.strict :
       /\ Fits(k) /\ KeyAt(Body, pos, k)
       /\ StringAt(Body, pos + 1) /\ ArgumentAt(k) = 0
       /\ pos' \in pos + 3 .. mark[2] - 1
       /\ args' = Append(args, <<k, SubSeq(buf, pos + 1, pos' - 1)>>)
  /\ UNCHANGED <<received, phase, top, mark, acted, reply>>

(* Mistake: only the key of an unknown attribute is passed over. *)
SkipKeyAlone ==
  /\ NoArgument /\ Skippable
  /\ pos' = Rest + 1
  /\ UNCHANGED <<received, phase, top, mark, args, acted, reply>>

SkipArgument ==
  /\ NoArgument /\ Skippable
  /\ pos' = AnyAt(Body, Rest)
  /\ UNCHANGED <<received, phase, top, mark, args, acted, reply>>

Enough == ~ Wrong /\ \E needed \in P.needs : needed \subseteq Taken

RefuseBody ==
  /\ NoArgument /\ ~ Skippable
  /\ ~ Enough \/ (P.order = <<>> /\ ~ Is(Body, Rest, End))
  /\ phase' = "refused"
  /\ UNCHANGED <<received, pos, top, mark, args, acted, reply>>

(* The commands with arguments act before they look for the end of them.   *)
Act ==
  /\ NoArgument /\ ~ Skippable /\ Enough
  /\ P.order = <<>> => Is(Body, Rest, End)
  /\ Handle
  /\ UNCHANGED <<received, pos, top, mark, args>>

(* Has everything been taken that the handler was called for? *)
ToTheEnd == acted = "error" \/ kind \in Unread \/ Is(Body, Rest, End)

(* A command whose reply did not fit is refused. *)
Written ==
  /\ \/ phase = "writing" /\ todo = <<>>
     \/ phase = "giving up" /\ frames = <<>>
  /\ phase' = IF ToTheEnd /\ (acted \in PrivateQueries => out # <<>>)
              THEN "close" ELSE "refused"
  /\ UNCHANGED <<received, pos, top, mark, args, acted, reply>>

Close ==
  /\ phase = "close"
  /\ phase' = IF Is(Received, mark[3], End) THEN "answered" ELSE "refused"
  /\ UNCHANGED <<received, pos, top, mark, args, acted, reply>>

Next ==
  \/ TakeAttribute \/ TakeReadOnly \/ TakeBody \/ SkipUnknown \/ RefuseAttribute
  \/ Incomplete \/ UnknownQuery \/ Command
  \/ OpenBody \/ TakeArgument \/ TakeRagged \/ SkipArgument \/ RefuseBody \/ Act
  \/ WriteCell \/ DoesNotFit \/ GiveUp \/ StopListing \/ Written \/ Close

(* A message is parsed by one call that does not wait for anything. *)
Spec == Init /\ [][Next]_vars /\ WF_vars(Next)

----------------------------------------------------------------------------
Settled == phase \in {"answered", "refused"}

(* Only what the parser has no name for can keep it from a whole message:  *)
(* a query nobody serves, an error, and the reply with Bloom filters,      *)
(* which this program writes and does not read.                            *)
Understood ==
  kind \notin {"error", "unheard_of", "r_get_peers_scrape"} /\ Served

(* ReadsAsSent: a message that this program or another one wrote is        *)
(* understood whatever the order of its attributes is, with each of the    *)
(* optional ones and with any of them twice, and whoever is answered was   *)
(* heard in full: the parser took every attribute that was sent.  Only the *)
(* parsers that ask for an order refuse a repetition, after the handler    *)
(* has run (krpc.h:101-261, krpc_parse.cpp, private_interface.cpp:364).    *)
ReadsAsSent ==
  /\ phase = "refused" /\ how \in {"whole", "repeated"} =>
       \/ ~ Understood
       \/ kind \in PrivateQueries /\ acted = kind /\ out = <<>>
       \/ how = "repeated" /\ ~ InAnyOrder(kind) /\ acted = kind
  /\ phase = "answered" /\ how \in {"whole", "repeated"} /\ acted = kind
     /\ kind \notin Unread =>
       \A pair \in sent :
         pair[1][3] \in DOMAIN P.types =>
           <<pair[1][3], SubSeq(pair, 2, Len(pair))>> \in Range(args)

(* ArgumentsAreSent: what the parser of the body takes is an attribute     *)
(* that was sent there, and never what reads like one within the value of  *)
(* another: where the body begins and ends was found by counting alone,    *)
(* and what is unknown is passed over by its shape (krpc.h:195,            *)
(* bencode_offset.cpp:31-85).  Only packed strings that end within a unit, *)
(* and a 'want' that is no list, put the parser out of step.               *)
ArgumentsAreSent ==
  how \notin {"ragged", "unlisted"} =>
    \A i \in DOMAIN args : PairOf(args[i][1], args[i][2]) \in sent

(* WithinMessage: of a message that is whole the parsers look at nothing   *)
(* behind what was received, and those of the body at nothing behind the   *)
(* body, although the loop over the attributes and what skips a body never *)
(* compare the position with the end (krpc.h:121, bencode_offset.cpp:31).  *)
WithinMessage ==
  /\ phase = "top" => pos <= len
  /\ phase = "body" => pos < mark[2]
  /\ mark[2] <= len

(* PublicCannotCommand: what comes from the network never reaches the      *)
(* daemon's own commands (dht-server.cpp:131, private_interface.cpp:152).  *)
PublicCannotCommand == domain = "public" => acted \notin PrivateQueries

(* What may be sent. *)
WholeReplies ==
  CASE acted = "error"      -> {DictOf(ErrorMessage)}
    [] acted = "sp_dump_db" -> { DictOf(Response(DumpDbResponse(n))) : n \in 0 .. DbEntries }
    [] OTHER                -> { DictOf(r) : r \in ReplyTo(kind) }

(* ReplyWhole: what is sent is a whole message or nothing, whichever of    *)
(* the nested writers the buffer is too short for; of the infohashes that  *)
(* sp_dump_db lists some may be missing (krpc_shared.h:8-71, bencode.h:36, *)
(* priv_krpc.cpp:348-397).                                                 *)
ReplyWhole ==
  phase \notin {"writing", "giving up"} => out = <<>> \/ out \in WholeReplies

(* EveryMessageSettles: the parser comes to an end with everything that    *)
(* can be in its buffer (krpc.h:115, krpc_parse.cpp:119).                  *)
EveryMessageSettles == <>Settled

(* UnknownIgnored: a message with an attribute that this program does not  *)
(* know is read without it (krpc.h:205).                                   *)
UnknownIgnored == phase = "refused" /\ how = "unknown" => ~ Understood
========================================================================
