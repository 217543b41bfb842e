---------------------------- MODULE Bencode ----------------------------
(***************************************************************************)
(* The encoders and decoders of bencode (bencode.h, bencode_offset.h,      *)
(* encode_bencode.h, decode_bencode.h).                                    *)
(*                                                                         *)
(* A buffer is a sequence of cells and every element takes one cell: the   *)
(* opening of a dictionary or of a list, their closing 'e', an integer, a  *)
(* string.  A string keeps its length, because the decoders look at it.    *)
(* Any other byte, such as the zeros of a buffer nobody wrote to, is       *)
(* Garbage.                                                                *)
(*                                                                         *)
(* A decoder gets a buffer b with b.raw, the memory, and b.length, the end *)
(* of what it may read: the memory goes on behind it.  It answers with the *)
(* position behind what it took, or with 0 when it took nothing; the       *)
(* position is then what it was before.                                    *)
(*                                                                         *)
(* Nobody cuts an element in two: a number whose digits go on behind the   *)
(* end would be completed there, because the loop over them looks at the   *)
(* end from where the number began.  And no decoder begins more than one   *)
(* position behind the end, where the length that is left would wrap.      *)
(***************************************************************************)
EXTENDS Integers, Sequences, FiniteSets, SequencesExt

Dict     == <<"d">>
List     == <<"l">>
End      == <<"e">>
Garbage  == <<"?">>
Integer(n)   == <<"i", n>>
Str(n, v) == <<"s", n, v>>

\* Keys are short; their lengths are not told apart.
Key(k) == Str(1, k)
Text(v) == Str(2, v)

----------------------------------------------------------------------------
\* Encoders: an element as the cells it is written to.

ListOf(values) == <<List>> \o FlattenSeq(values) \o <<End>>

DictOf(pairs) == <<Dict>> \o FlattenSeq(pairs) \o <<End>>

PairOf(k, value) == <<Key(k)>> \o value

\* The writers of encode_bencode: a list of texts, a flag, contacts one by
\* one, ids with their contacts and infohashes packed into one string.
Texts(vs) == ListOf([i \in DOMAIN vs |-> <<Text(vs[i])>>])

Flag(on) == <<Integer(IF on THEN 1 ELSE 0)>>

Contacts(cs) == ListOf([i \in DOMAIN cs |-> <<Str(6, cs[i])>>])

CompactNodes(ns) == <<Str(26 * Len(ns), ns)>>

CompactHashes(hs) == <<Str(20 * Len(hs), hs)>>

\* A contact as the local protocol writes it.
ContactDict(c) == DictOf(<<PairOf("ipv4", <<Integer(c)>>), PairOf("port", <<Integer(c)>>)>>)

----------------------------------------------------------------------------
\* Decoders.

\* Is there anything left to read at p (remaining_read)?
Within(b, p) == p <= b.length

\* The byte at p, received or not.
At(b, p) == IF p \in 1 .. Len(b.raw) THEN b.raw[p] ELSE Garbage

StringAt(b, p) == Within(b, p) /\ At(b, p)[1] = "s"

IntAt(b, p) == Within(b, p) /\ At(b, p)[1] = "i"

\* internal::is.
Is(b, p, c) == Within(b, p) /\ At(b, p) = c

\* parse_key, peek, value(key).
KeyAt(b, p, k) == Within(b, p) /\ At(b, p) = Key(k)

\* A string of at most n bytes; a shorter one is taken as well.
BytesAt(b, p, n) ==
  IF StringAt(b, p) /\ At(b, p)[2] <= n THEN p + 1 ELSE 0

\* An integer, bounded by the width it is stored in.
NumberAt(b, p, most) ==
  IF IntAt(b, p) /\ At(b, p)[2] <= most THEN p + 1 ELSE 0

\* An address: the length tells IPv4 from IPv6, and with a port from without.
IsContact(b, p) == StringAt(b, p) /\ At(b, p)[2] \in {4, 6, 16, 18}

ContactAt(b, p) == IF IsContact(b, p) THEN p + 1 ELSE 0

\* A packed string of whole units: of ids with their contacts, or of infohashes.
PackedAt(b, p, unit) ==
  IF StringAt(b, p) /\ At(b, p)[2] % unit = 0 THEN p + 1 ELSE 0

Least(S) == CHOOSE q \in S : \A r \in S : q <= r

\* The end of a list that opens at p and whose items all start in items.
ListAt(b, p, items) ==
  LET ends == { q \in p + 1 .. b.length :
                  At(b, q) = End /\ p + 1 .. q - 1 \subseteq items }
  IN  IF Is(b, p, List) /\ ends # {}
      THEN Least(ends) + 1
      ELSE 0

PeersAt(b, p) == ListAt(b, p, { q \in 1 .. b.length : IsContact(b, q) })

TextsAt(b, p) == ListAt(b, p, { q \in 1 .. b.length : StringAt(b, q) })

\* A list of contacts of the local protocol, each a dictionary of a fixed
\* order.
ContactDictsAt(b, p) ==
  LET IsContactDict(q) ==
        /\ Is(b, q, Dict) /\ KeyAt(b, q + 1, "ipv4") /\ IntAt(b, q + 2)
        /\ KeyAt(b, q + 3, "port") /\ IntAt(b, q + 4) /\ Is(b, q + 5, End)
      counts == { n \in 0 .. b.length \div 6 :
                    /\ \A i \in 0 .. n - 1 : IsContactDict(p + 1 + 6 * i)
                    /\ Is(b, p + 1 + 6 * n, End) }
  IN  IF Is(b, p, List) /\ counts # {}
      THEN p + 2 + 6 * (CHOOSE n \in counts : TRUE)
      ELSE 0

\* list_wildcard and dict_wildcard skip what c opens at p.  They read the
\* opening and the closing byte without looking at b.length, do not care which
\* of the two kinds an 'e' closes, and do not pair keys with values.
Opens(c) == c \in {Dict, List}

\* Mistake: on to the last closing byte.
WildcardToLast(b, p, c) ==
  LET closing == { q \in p .. Len(b.raw) : b.raw[q] = End }
  IN  IF At(b, p) = c /\ closing # {}
      THEN (CHOOSE q \in closing : \A r \in closing : r <= q) + 1
      ELSE 0

WildcardAt(b, p, c) ==
  LET Depth(q) == Cardinality({ i \in p .. q : Opens(b.raw[i]) })
                - Cardinality({ i \in p .. q : b.raw[i] = End })
      closing == { q \in p .. Len(b.raw) : b.raw[q] = End /\ Depth(q) = 0 }
      last == Least(closing)
  IN  IF /\ At(b, p) = c /\ closing # {}
         /\ \A q \in p .. last :
               StringAt(b, q) \/ IntAt(b, q) \/ Opens(At(b, q)) \/ At(b, q) = End
      THEN last + 1
      ELSE 0

\* pair_any: two strings, each of which fits the 128 bytes it is copied to.
PairAnyAt(b, p) ==
  IF BytesAt(b, p, 127) # 0 /\ BytesAt(b, p + 1, 127) # 0 THEN p + 2 ELSE 0

\* bencode_any: a key with a string, an integer, or a list of those.
AnyAt(b, p) ==
  LET scalars == { q \in 1 .. b.length : StringAt(b, q) \/ IntAt(b, q) }
  IN  IF ~ StringAt(b, p) THEN 0
      ELSE IF p + 1 \in scalars THEN p + 2
      ELSE ListAt(b, p + 1, scalars)

\* The value at p as a parser of type t takes it: the position behind it.
\* The numbers of the model fit the 32 and 64 bits that "number" stands for.
ValueAt(b, p, t) ==
  CASE t = "id"       -> BytesAt(b, p, 20)
    [] t = "tx"       -> BytesAt(b, p, 32)
    [] t = "msg_type" -> BytesAt(b, p, 16)
    [] t = "query"    -> BytesAt(b, p, 64)
    [] t = "version"  -> BytesAt(b, p, 5)
    [] t = "ref"      -> IF StringAt(b, p) THEN p + 1 ELSE 0
    [] t = "u16"      -> NumberAt(b, p, 2^16 - 1)
    [] t = "number"   -> IF IntAt(b, p) THEN p + 1 ELSE 0
    [] t = "contact"  -> ContactAt(b, p)
    [] t = "nodes"    -> PackedAt(b, p, 26)
    [] t = "hashes"   -> PackedAt(b, p, 20)
    [] t = "peers"    -> PeersAt(b, p)
    [] t = "want"     -> TextsAt(b, p)
    [] t = "contacts" -> ContactDictsAt(b, p)

PairAt(b, p, k, t) == IF KeyAt(b, p, k) THEN ValueAt(b, p + 1, t) ELSE 0
========================================================================
