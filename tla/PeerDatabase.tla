---------------------------- MODULE PeerDatabase ----------------------------
(***************************************************************************)
(* The peers that were announced to us and the tokens that an announcement *)
(* has to bring (src/src/db.cpp), with the handlers of get_peers and       *)
(* announce_peer (src/src/dht_interface.cpp).                              *)
(*                                                                         *)
(* Each infohash keeps its peers in a list by their last announcement.     *)
(* on_awake_peer_db takes the old ones from the head of each list and then *)
(* removes the infohashes left without peers, EmptyCapacity of them at a   *)
(* time; one that stays is not seen by lookup.  A token is a hash of an    *)
(* address and of one of two keys; the newer key gives way to another when *)
(* a token is asked for and it is old.                                     *)
(*                                                                         *)
(* Only differences to the clock matter, so the model keeps ages, which    *)
(* saturate where the code stops telling them apart.  Random keys do not   *)
(* repeat.  Peers are told apart by host: Contact's order ignores the port *)
(* and insert overwrites it.                                               *)
(***************************************************************************)
EXTENDS Integers, SequencesExt

CONSTANTS
  Infohash,
  Peer,           \* the hosts that can be announced
  Address,        \* the hosts with ports that messages come from
  HostOf,         \* the host of each address
  NoAddress,      \* a sender that is not in the routing table
  NoToken,        \* an address that keeps no token
  Sender,         \* node ids
  PeerAge,        \* Config::peer_age_refresh, 45 minutes in the code
  KeyRefresh,     \* Config::token_key_refresh, 15 minutes in the code
  EmptyCapacity,  \* infohashes removed in one run, 16 in the code
  MaxLength       \* bound on length_lookup_table

ASSUME PeerDatabaseAssumption ==
  /\ IsFiniteSet(Infohash)
  /\ NoAddress \notin Address
  /\ HostOf \in [Address -> Peer]
  /\ PeerAge \in Nat \ {0} /\ KeyRefresh \in Nat /\ EmptyCapacity \in Nat \ {0}

(* A peer in a list, with now - activity. *)
Entry == [peer : Peer, age : 0..PeerAge]

(* The keys of a token: TokenKey key[1], key[0], and all that were dropped. *)
Key == {"current", "previous", "dropped"}

(* The age of a key that gives way: now > created + token_key_refresh. *)
Worn == KeyRefresh + 1

Token == [address : Address, key : Key, age : 0..Worn]

VARIABLES
  table,   \* the infohashes in lookup_table
  peers,   \* KeyValue::peers in the order of timeout_peer, from the head
  length,  \* length_lookup_table
  keyAge,  \* now - key[1].created
  held,    \* a token each address was given, with the time since
  known    \* the address the routing table has for each node id

tokens == <<keyAge, held, known>>
stored == <<table, peers, length>>
vars == <<tokens, stored>>

-----------------------------------------------------------------------------
Init ==
  /\ table = {} /\ length = 0
  /\ peers = [ih \in Infohash |-> <<>>]
  /\ keyAge = Worn
  /\ held = [a \in Address |-> NoToken]
  /\ known = [s \in Sender |-> NoAddress]

Older(age, limit) == IF age < limit THEN age + 1 ELSE limit

Tick ==
  /\ peers' = [ih \in Infohash |->
       [i \in DOMAIN peers[ih] |-> [peers[ih][i] EXCEPT !.age = Older(@, PeerAge)]]]
  /\ keyAge' = Older(keyAge, Worn)
  /\ held' = [a \in Address |->
       IF held[a] = NoToken THEN NoToken
       ELSE [held[a] EXCEPT !.age = Older(@, Worn)]]
  /\ UNCHANGED <<table, length, known>>

(* message: the table keeps the address it has for a known sender, and     *)
(* takes an unknown one in if there is room and it is not read only.       *)
(* Senders with an invalid id are left out: they have no address, so that  *)
(* no token is accepted from them.                                         *)
Message(s, address) ==
  known' \in {[known EXCEPT ![s] = IF @ = NoAddress THEN kept ELSE @] :
                kept \in {address, NoAddress}}

(* The routing table gives up a contact. *)
Forget(s) ==
  /\ known[s] # NoAddress
  /\ known' = [known EXCEPT ![s] = NoAddress]
  /\ UNCHANGED <<keyAge, held, stored>>

-----------------------------------------------------------------------------
(* get_token_key: whether both keys move on. *)
KeyGivesWay == keyAge = Worn

(* Mistake: the key that gives way is overwritten. *)
MovedOut(token) ==
  IF token = NoToken THEN NoToken ELSE [token EXCEPT !.key = "dropped"]

Moved(token) ==
  IF token = NoToken THEN NoToken
  ELSE [token EXCEPT !.key = IF @ = "current" THEN "previous" ELSE "dropped"]

(* get_peers: the reply brings a token, which the asker keeps or does not  *)
(* get.                                                                    *)
GetPeers(s, address) ==
  /\ Message(s, address)
  /\ keyAge' = IF KeyGivesWay THEN 0 ELSE keyAge
  /\ LET kept == [a \in Address |-> IF KeyGivesWay THEN Moved(held[a]) ELSE held[a]]
     IN  \/ held' = kept
         \/ held' = [kept EXCEPT ![address] =
                       [address |-> address, key |-> "current", age |-> 0]]
  /\ UNCHANGED stored

(* is_valid_token *)
IsValidToken(address, token) ==
  token.address = address /\ token.key \in {"current", "previous"}

-----------------------------------------------------------------------------
(* Mistake: a peer that announces itself again stays where it is. *)
AnnouncedInPlace(list, p) ==
  IF \E i \in DOMAIN list : list[i].peer = p
    THEN [i \in DOMAIN list |-> IF list[i].peer = p THEN [list[i] EXCEPT !.age = 0] ELSE list[i]]
    ELSE Append(list, [peer |-> p, age |-> 0])

(* db::insert on the list: the peer, known or new, goes to the tail. *)
Announced(list, p) ==
  Append(RemoveFirstMatch(list, LAMBDA e : e.peer = p), [peer |-> p, age |-> 0])

(* lookup: an infohash without peers is not found. *)
IsFound(ih) == ih \in table /\ peers[ih] # <<>>

(* db::insert counts an infohash it does not find, also when the tree has  *)
(* it.                                                                     *)
LengthAfter(ih) == IF IsFound(ih) THEN length ELSE length + 1

(* The address of the contact that message hands to its caller, when the   *)
(* routing table is this one.                                              *)
AddressOf(contacts, s, address) ==
  IF contacts[s] = NoAddress THEN address ELSE contacts[s]

(* announce_peer: the token is checked against the address of the contact, *)
(* not the one the message came from, whose host is the peer.              *)
AnnouncePeer(s, address) ==
  /\ held[address] # NoToken
  /\ Message(s, address)
  /\ IF IsValidToken(AddressOf(known', s, address), held[address])
       THEN \E ih \in Infohash :
              /\ LengthAfter(ih) <= MaxLength
              /\ length' = LengthAfter(ih)
              /\ table' = table \cup {ih}
              /\ peers' = [peers EXCEPT ![ih] = Announced(@, HostOf[address])]
       ELSE UNCHANGED stored
  /\ UNCHANGED <<keyAge, held>>

(* Mistake: one more than the peers that are old. *)
YoungFromNext(list) ==
  LET first == SelectInSeq(list, LAMBDA e : e.age < PeerAge)
  IN  IF first = 0 THEN <<>> ELSE SubSeq(list, first + 1, Len(list))

(* take_peer until the head is not old. *)
YoungFrom(list) ==
  LET first == SelectInSeq(list, LAMBDA e : e.age < PeerAge)
  IN  IF first = 0 THEN <<>> ELSE SubSeq(list, first, Len(list))

(* for_each(empty): the first EmptyCapacity of them by id, here any.       *)
Removed(empty) ==
  {gone \in SUBSET empty :
     Cardinality(gone) = Min({Cardinality(empty), EmptyCapacity})}

(* Mistake: every infohash left without peers is discounted. *)
LengthWithoutEmpty(gone, empty) == length - Cardinality(empty)

LengthWithout(gone, empty) == length - Cardinality(gone)

(* on_awake_peer_db *)
OnAwakePeerDb ==
  LET left == [ih \in Infohash |-> YoungFrom(peers[ih])]
      empty == {ih \in table : left[ih] = <<>>}
  IN  /\ peers' = left
      /\ \E gone \in Removed(empty) :
           /\ table' = table \ gone
           /\ length' = LengthWithout(gone, empty)
      /\ UNCHANGED tokens

Next ==
  \/ Tick
  \/ \E s \in Sender :
       Forget(s) \/ \E a \in Address : GetPeers(s, a) \/ AnnouncePeer(s, a)
  \/ OnAwakePeerDb

Spec == Init /\ [][Next]_vars

-----------------------------------------------------------------------------
(* The tree, the lists, the count, the keys, the tokens and the addresses  *)
(* hold values of their kind.                                              *)
TypeOK ==
  /\ table \subseteq Infohash /\ length \in Nat
  /\ peers \in [Infohash -> Seq(Entry)]
  /\ keyAge \in 0..Worn
  /\ held \in [Address -> Token \cup {NoToken}]
  /\ known \in [Sender -> Address \cup {NoAddress}]

(* A run leaves no old peer behind, although it looks at the head of each  *)
(* list only and peers announce themselves again in any order.             *)
OldPeersLeave ==
  [][OnAwakePeerDb =>
       \A ih \in Infohash : \A e \in Range(peers'[ih]) : e.age < PeerAge]_vars

(* No peer leaves before it is old, whatever is aged or removed with it. *)
YoungPeersStay ==
  [][\A ih \in Infohash : \A e \in Range(peers[ih]) :
       e.age < PeerAge => \E f \in Range(peers'[ih]) : f.peer = e.peer]_vars

(* length_lookup_table never falls below the number of infohashes: it is   *)
(* not wrapped by a removal, and randomize_samples, which draws an index   *)
(* modulo it while the tree is not empty, does not divide by zero.  It may *)
(* be above: an infohash that was emptied and not removed is counted again *)
(* by the next announcement.                                               *)
LengthCoversTable == length >= Cardinality(table)

(* A token is accepted for token_key_refresh after it was handed out, in   *)
(* spite of the keys that have been dropped since, unless the routing      *)
(* table has another address for the node.                                 *)
FreshTokenAccepted ==
  \A s \in Sender, a \in Address :
    held[a] # NoToken /\ held[a].age <= KeyRefresh /\ known[s] \in {a, NoAddress} =>
      IsValidToken(a, held[a])
=============================================================================
