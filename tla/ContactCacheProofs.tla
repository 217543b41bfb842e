------------------------- MODULE ContactCacheProofs -------------------------
(***************************************************************************)
(* Proofs about the files of the contact cache, for all contacts, sizes    *)
(* and bounds: complete files survive crashes, failures and the numbering  *)
(* of later sessions, only the oldest one is passed over, and no contact   *)
(* is lost on its way from one file to another.                            *)
(***************************************************************************)
EXTENDS ContactCache, FiniteSetTheorems, SequenceTheorems, TLAPS

(* The numbers of a session are in order: what was there when it began,    *)
(* what it wrote, and what is free.                                        *)
NumbersInOrder ==
  /\ readMin \in Nat /\ readMax \in Nat /\ base \in Nat /\ writeIdx \in Nat
  /\ readMin < base /\ readMax < base /\ base <= writeIdx
  /\ cur # NoFile => writeIdx \in Index
  /\ \A i \in Index : db[i] # NoFile => i < writeIdx

(* The inductive invariant. *)
CacheInv ==
  /\ DOMAIN db = Index /\ tmp \subseteq Index
  /\ phase # "down" => NumbersInOrder
  /\ OnlyOldestUnread

-----------------------------------------------------------------------------
(* A bounded set of naturals has a largest element, because the intervals  *)
(* above its elements have a smallest one.                                 *)
LEMMA MaxIs ==
  ASSUME NEW b \in Nat, NEW S \in SUBSET (0..b), S # {}
  PROVE  Max(S) \in S /\ \A y \in S : y <= Max(S)
<1> DEFINE U == 0..b
<1> DEFINE T == {x..b : x \in S}
<1>1. T \subseteq FiniteSubsetsOf(U) /\ T # {}
  <2>1. ASSUME NEW x \in S
        PROVE  x..b \in FiniteSubsetsOf(U)
    <3>1. x..b \subseteq U /\ x \in Int /\ b \in Int
      OBVIOUS
    <3>2. IsFiniteSet(x..b)
      BY <3>1, FS_Interval
    <3> QED
      BY <3>1, <3>2 DEF FiniteSubsetsOf
  <2> QED
    BY <2>1
<1>2. IsWellFoundedOn(StrictSubsetOrdering(U), FiniteSubsetsOf(U))
  BY FS_StrictSubsetOrderingWellFounded
<1> DEFINE R == StrictSubsetOrdering(U)
<1> HIDE DEF T, R
<1>3. \E t \in T : \A u \in T : <<u, t>> \notin R
  <2> DEFINE F == FiniteSubsetsOf(U)
  <2>1. IsWellFoundedOn(R, F) /\ T \subseteq F /\ T # {}
    BY <1>1, <1>2 DEF R
  <2> HIDE DEF F
  <2> QED
    BY <2>1, WFMin
<1>4. PICK x \in S : \A y \in S : <<y..b, x..b>> \notin R
  BY <1>3 DEF T
<1>5. ASSUME NEW y \in S, ~(x >= y)
      PROVE  FALSE
  <2>1. y..b \subseteq x..b /\ x \in x..b /\ x \notin y..b /\ x..b \subseteq U
    BY <1>5
  <2>2. <<y..b, x..b>> \in (SUBSET U) \X (SUBSET U) /\ y..b # x..b
    BY <2>1
  <2>3. <<y..b, x..b>> \in R
    BY <2>1, <2>2 DEF R, StrictSubsetOrdering
  <2> QED
    BY <1>4, <2>3
<1>6. /\ (CHOOSE z \in S : \A y \in S : z >= y) \in S
      /\ \A y \in S : (CHOOSE z \in S : \A u \in S : z >= u) >= y
  BY <1>5
<1> QED
  BY <1>6 DEF Max

(* And a smallest one, which is the largest of the distances from b. *)
LEMMA MinIs ==
  ASSUME NEW b \in Nat, NEW S \in SUBSET (0..b), S # {}
  PROVE  Min(S) \in S
<1> DEFINE T == {b - x : x \in S}
<1>1. T \subseteq 0..b /\ T # {}
  <2>1. \A x \in S : b - x \in 0..b
    OBVIOUS
  <2> QED
    BY <2>1
<1> HIDE DEF T
<1>2. Max(T) \in T /\ \A m \in T : m <= Max(T)
  BY <1>1, MaxIs
<1>3. PICK x \in S : Max(T) = b - x
  BY <1>2 DEF T
<1>4. \A y \in S : x =< y
  BY <1>2, <1>3 DEF T
<1>5. (CHOOSE z \in S : \A y \in S : z =< y) \in S
  BY <1>4
<1> QED
  BY <1>5 DEF Min

(* Where a session begins: its first file is beyond all that were found. *)
LEMMA NumbersFound ==
  ASSUME NEW S \in SUBSET Index
  PROVE  /\ Newest(S) \in Nat /\ Oldest(S) \in Nat
         /\ Oldest(S) <= Newest(S) /\ FirstFree(S) = Newest(S) + 1
         /\ \A i \in S : i <= Newest(S)
<1>1. /\ MaxIndex \in Nat
      /\ S \cup {0} \in SUBSET (0..MaxIndex) /\ S \cup {0} # {}
  BY ContactCacheAssumption DEF Index
<1>2. /\ Newest(S) \in S \cup {0}
      /\ \A i \in S \cup {0} : i <= Newest(S)
  BY <1>1, MaxIs DEF Newest
<1>3. CASE S = {}
  BY <1>1, <1>2, <1>3 DEF Oldest, FirstFree
<1>4. CASE S # {}
  <2>1. Min(S) \in S
    BY <1>1, <1>4, MinIs
  <2> QED
    BY <1>1, <1>2, <1>4, <2>1 DEF Oldest, FirstFree
<1> QED
  BY <1>3, <1>4

-----------------------------------------------------------------------------
(* What a write leaves behind: at most the next file is new, and then the  *)
(* number is used up.                                                      *)
Written ==
  /\ DOMAIN db' = Index /\ tmp' \subseteq Index
  /\ \A i \in Index : db'[i] = db[i] \/ (i = writeIdx /\ writeIdx' = writeIdx + 1)
  /\ writeIdx' \in {writeIdx, writeIdx + 1}
  /\ cur' # NoFile => writeIdx' \in Index

LEMMA FinalizeWrites ==
  ASSUME CacheInv, phase # "down", writeIdx \in Index, NEW entries, Finalize(entries)
  PROVE  Written
<1>1. DOMAIN db' = Index
  BY DEF Finalize, CacheInv
<1>2. tmp' \subseteq Index
  BY DEF Finalize, CacheInv
<1>3. \A i \in Index : db'[i] = db[i] \/ (i = writeIdx /\ writeIdx' = writeIdx + 1)
  BY DEF Finalize, CacheInv
<1> QED
  BY <1>1, <1>2, <1>3 DEF Finalize, Written

LEMMA WriteContactWrites ==
  ASSUME CacheInv, phase # "down", NEW c, WriteContact(c)
  PROVE  Written
<1>1. writeIdx \in Index
  BY DEF WriteContact, CacheInv, NumbersInOrder, Index
<1>2. CASE Finalize(Append(Entries, c))
  BY <1>1, <1>2, FinalizeWrites
<1>3. CASE /\ UNCHANGED <<db, writeIdx>>
           /\ tmp' \subseteq tmp \cup {writeIdx}
  BY <1>1, <1>3 DEF Written, CacheInv
<1> QED
  BY <1>2, <1>3 DEF WriteContact, disk

(* A write keeps the invariant, as long as the same file is being read. *)
LEMMA WrittenKeepsInv ==
  ASSUME CacheInv, phase # "down", phase' # "down", Written, UNCHANGED indices,
         phase = "reading" => phase' = "reading" /\ file' = file
  PROVE  CacheInv'
<1> USE DEF CacheInv, indices
<1>1. NumbersInOrder'
  <2>1. /\ readMin' = readMin /\ readMax' = readMax /\ base' = base
        /\ writeIdx' \in Nat /\ writeIdx <= writeIdx'
    BY DEF Written, NumbersInOrder
  <2>2. \A i \in Index : db'[i] # NoFile => i < writeIdx'
    BY <2>1 DEF Written, NumbersInOrder, Index
  <2> QED
    BY <2>1, <2>2 DEF Written, NumbersInOrder
<1>2. OnlyOldestUnread'
  BY DEF Written, NumbersInOrder, OnlyOldestUnread, Index
<1> QED
  BY <1>1, <1>2 DEF Written

(* So does everything that writes nothing and reads no other file. *)
LEMMA UnchangedKeepsInv ==
  ASSUME CacheInv, phase # "down", phase' # "down", UNCHANGED <<output, indices>>,
         phase = "reading" => phase' = "reading" /\ file' = file
  PROVE  CacheInv'
<1>1. Written
  BY DEF Written, CacheInv, output, disk, NumbersInOrder
<1> QED
  BY <1>1, WrittenKeepsInv

-----------------------------------------------------------------------------
LEMMA InitCacheKeepsInv ==
  ASSUME CacheInv, InitCache
  PROVE  CacheInv'
<1> USE DEF InitCache, disk
<1>1. Found \in SUBSET Index
  BY DEF Found, CacheInv
<1>2. /\ Newest(Found) \in Nat /\ Oldest(Found) \in Nat
      /\ Oldest(Found) <= Newest(Found) /\ FirstFree(Found) = Newest(Found) + 1
      /\ \A i \in Found : i <= Newest(Found)
  BY <1>1, NumbersFound
<1>3. \A i \in Index : db'[i] # NoFile => i <= Newest(Found) /\ i \in Nat
  BY <1>2 DEF Found, Index
<1>4. NumbersInOrder'
  BY <1>2, <1>3 DEF NumbersInOrder
<1>5. OnlyOldestUnread'
  BY <1>2, <1>3 DEF OnlyOldestUnread
<1> QED
  BY <1>4, <1>5 DEF CacheInv

(* The newest unread file becomes the one that is read. *)
LEMMA NextFileKeepsInv ==
  ASSUME CacheInv, NextFile
  PROVE  CacheInv'
<1> USE DEF CacheInv, output, disk
<1>1. NumbersInOrder /\ MaxIndex \in Nat
  BY ContactCacheAssumption DEF NextFile
<1>2. /\ NextRead \in Unread
      /\ \A i \in Unread : i <= NextRead
  BY <1>1, MaxIs DEF NextFile, NextRead, Unread, Index
<1>3. /\ file' = NextRead /\ readMax' = NextRead - 1
      /\ NextRead \in Nat /\ readMin < NextRead /\ NextRead <= readMax
  BY <1>1, <1>2 DEF NextFile, Unread, Index
<1>4. NumbersInOrder'
  BY <1>1, <1>3 DEF NumbersInOrder, NextFile
<1>5. ASSUME NEW i \in Index, db[i] # NoFile, readMin < i, i < base
      PROVE  i <= NextRead - 1 \/ i = NextRead
  <2>1. i <= readMax
    BY <1>5 DEF OnlyOldestUnread, NextFile
  <2>2. i \in Unread
    BY <1>5, <2>1 DEF Unread
  <2> QED
    BY <1>2, <1>3, <2>2 DEF Index
<1>6. OnlyOldestUnread'
  BY <1>3, <1>5 DEF OnlyOldestUnread, NextFile
<1> QED
  BY <1>4, <1>6 DEF NextFile

LEMMA UnlinkKeepsInv ==
  ASSUME CacheInv, Unlink
  PROVE  CacheInv'
<1> USE DEF CacheInv, Unlink, indices
<1>1. DOMAIN db' = Index /\ tmp' \subseteq Index
  OBVIOUS
<1>2. \A i \in Index : db'[i] # NoFile => db[i] # NoFile /\ i # file
  OBVIOUS
<1>3. NumbersInOrder'
  BY <1>2 DEF NumbersInOrder
<1>4. OnlyOldestUnread'
  BY <1>2 DEF OnlyOldestUnread
<1> QED
  BY <1>1, <1>3, <1>4

(* When no file can be returned any more, none is below read_max_idx. *)
LEMMA EndTopUpKeepsInv ==
  ASSUME CacheInv, EndTopUp
  PROVE  CacheInv'
<1> USE DEF CacheInv, EndTopUp, output, disk
<1>1. CASE IsFull
  BY <1>1, UnchangedKeepsInv DEF indices
<1>2. CASE ~IsFull
  <2>1. Unread = {} /\ readMax' = readMin
    BY <1>2
  <2>2. NumbersInOrder'
    BY <2>1 DEF NumbersInOrder
  <2>3. OnlyOldestUnread'
    BY <2>1 DEF OnlyOldestUnread, Unread
  <2> QED
    BY <2>2, <2>3
<1> QED
  BY <1>1, <1>2

-----------------------------------------------------------------------------
LEMMA InitCacheInv == Init => CacheInv
  BY DEF Init, CacheInv, OnlyOldestUnread

LEMMA NextCacheInv == CacheInv /\ [Next]_vars => CacheInv'
<1> SUFFICES ASSUME CacheInv, [Next]_vars
             PROVE  CacheInv'
  OBVIOUS
<1>1. CASE InitCache
  BY <1>1, InitCacheKeepsInv
<1>2. CASE Crash
  BY <1>2 DEF Crash, CacheInv, OnlyOldestUnread, disk
<1>3. ASSUME NEW c \in Contact, OnRetireGood(c)
      PROVE  CacheInv'
  BY <1>3, WriteContactWrites, WrittenKeepsInv DEF OnRetireGood
<1>4. ASSUME NEW c \in Contact, Candidate(c)
      PROVE  CacheInv'
  BY <1>4, UnchangedKeepsInv DEF Candidate
<1>5. CASE TakeHead
  BY <1>5, UnchangedKeepsInv DEF TakeHead
<1>6. CASE TopUp
  BY <1>6, UnchangedKeepsInv DEF TopUp
<1>7. CASE NextFile
  BY <1>7, NextFileKeepsInv
<1>8. CASE ReadContact
  <2>1. CASE IsFull
    BY <1>8, <2>1, WriteContactWrites, WrittenKeepsInv DEF ReadContact, PassOn
  <2>2. CASE ~IsFull
    BY <1>8, <2>2, UnchangedKeepsInv DEF ReadContact, PassOn
  <2> QED
    BY <2>1, <2>2
<1>9. CASE Unlink
  BY <1>9, UnlinkKeepsInv
<1>10. CASE EndTopUp
  BY <1>10, EndTopUpKeepsInv
<1>11. CASE Drain
  BY <1>11, UnchangedKeepsInv DEF Drain
<1>12. CASE DrainContact
  BY <1>12, WriteContactWrites, WrittenKeepsInv DEF DrainContact
<1>13. CASE EndDrain
  <2>1. CASE cur = NoFile
    BY <1>13, <2>1, UnchangedKeepsInv DEF EndDrain
  <2>2. CASE cur # NoFile
    <3>1. writeIdx \in Index
      BY <1>13, <2>2 DEF EndDrain, CacheInv, NumbersInOrder
    <3> QED
      BY <1>13, <2>2, <3>1, FinalizeWrites, WrittenKeepsInv DEF EndDrain
  <2> QED
    BY <2>1, <2>2
<1>14. CASE UNCHANGED vars
  BY <1>14 DEF vars, output, disk, indices, input, CacheInv, NumbersInOrder, OnlyOldestUnread
<1> QED
  BY <1>1, <1>2, <1>3, <1>4, <1>5, <1>6, <1>7, <1>8, <1>9, <1>10, <1>11, <1>12, <1>13, <1>14
  DEF Next

(* Of the files of former sessions only the oldest is passed over          *)
(* (take_next_read_cache), whatever crashed or failed before.              *)
THEOREM OnlyOldestUnreadHolds == Spec => []OnlyOldestUnread
<1>1. CacheInv => OnlyOldestUnread
  BY DEF CacheInv
<1> QED
  BY <1>1, InitCacheInv, NextCacheInv, PTL DEF Spec

-----------------------------------------------------------------------------
(* The contacts. *)

LEMMA RangeOfAppend ==
  ASSUME NEW S, NEW s \in Seq(S), NEW c \in S
  PROVE  Append(s, c) \in Seq(S) /\ Range(Append(s, c)) = Range(s) \cup {c}
<1>1. /\ Append(s, c) \in Seq(S) /\ Len(Append(s, c)) = Len(s) + 1 /\ Len(s) \in Nat
      /\ Append(s, c)[Len(s) + 1] = c /\ \A i \in 1..Len(s) : Append(s, c)[i] = s[i]
  OBVIOUS
<1> DEFINE t == Append(s, c)
<1>2. DOMAIN s = 1..Len(s) /\ DOMAIN t = 1..Len(s) + 1
  BY <1>1
<1> HIDE DEF t
<1> QED
  BY <1>1, <1>2 DEF Range, t

LEMMA RangeOfTail ==
  ASSUME NEW S, NEW s \in Seq(S), s # <<>>
  PROVE  /\ Head(s) \in S /\ Tail(s) \in Seq(S)
         /\ Range(s) = {Head(s)} \cup Range(Tail(s))
<1> DEFINE t == Tail(s)
<1>1. /\ Head(s) \in S /\ t \in Seq(S) /\ Len(s) \in Nat /\ Len(s) > 0
      /\ Len(t) = Len(s) - 1 /\ s[1] = Head(s) /\ \A i \in 1..Len(s) - 1 : t[i] = s[i + 1]
  OBVIOUS
<1>2. DOMAIN s = 1..Len(s) /\ DOMAIN t = 1..Len(s) - 1
  BY <1>1
<1> HIDE DEF t
<1>3. ASSUME NEW i \in 1..Len(s)
      PROVE  s[i] = Head(s) \/ \E j \in DOMAIN t : s[i] = t[j]
  <2>1. CASE i = 1
    BY <1>1, <2>1
  <2>2. CASE i > 1
    <3>1. i - 1 \in 1..Len(s) - 1 /\ (i - 1) + 1 = i
      BY <1>1, <2>2
    <3>2. t[i - 1] = s[i]
      BY <1>1, <3>1
    <3> QED
      BY <1>2, <3>1, <3>2
  <2> QED
    BY <2>1, <2>2
<1>4. ASSUME NEW j \in DOMAIN t
      PROVE  j + 1 \in DOMAIN s /\ t[j] = s[j + 1]
  BY <1>1, <1>2
<1>5. 1 \in DOMAIN s
  BY <1>1, <1>2
<1> QED
  BY <1>1, <1>2, <1>3, <1>4, <1>5 DEF Range, t

(* What is on disk and on its way there. *)
Stored == (UNION {Range(db[i]) : i \in Whole}) \cup Range(Entries)

LEMMA StoredIs ==
  /\ \A d : d \in Stored <=> d \in Range(Entries) \/ \E i \in Whole : d \in Range(db[i])
  /\ \A d : d \in Stored' <=> d \in Range(Entries') \/ \E i \in Whole' : d \in Range(db'[i])
<1>1. ASSUME NEW d
      PROVE  d \in Stored <=> d \in Range(Entries) \/ \E i \in Whole : d \in Range(db[i])
  <2>1. d \in UNION {Range(db[i]) : i \in Whole} <=> \E i \in Whole : d \in Range(db[i])
    BY Zenon
  <2> QED
    BY <2>1 DEF Stored
<1>2. ASSUME NEW d
      PROVE  d \in Stored' <=> d \in Range(Entries') \/ \E i \in Whole' : d \in Range(db'[i])
  <2>1. d \in UNION {Range(db'[i]) : i \in Whole'} <=> \E i \in Whole' : d \in Range(db'[i])
    BY Zenon
  <2> QED
    BY <2>1 DEF Stored
<1> QED
  BY <1>1, <1>2, Zenon

FilesTyped ==
  /\ db \in [Index -> Seq(Contact) \cup {NoFile}]
  /\ cur \in Seq(Contact) \cup {NoFile}
  /\ failures \in Nat
  /\ phase = "reading" => file \in Index /\ db[file] # NoFile

(* Contacts wait in todo only while a file is read or the table drained. *)
WaitingTyped ==
  /\ todo \in Seq(Contact)
  /\ phase \in {"up", "picking", "leaving"} => todo = <<>>
  /\ bootstrap \subseteq Contact

KeptInv == CacheInv /\ FilesTyped /\ WaitingTyped

(* The next step reads no other file. *)
SameFile == phase' = "reading" => phase = "reading" /\ file' = file

LEMMA EntriesTyped ==
  ASSUME FilesTyped
  PROVE  Entries \in Seq(Contact)
BY DEF FilesTyped, Entries

LEMMA FinalizeStores ==
  ASSUME CacheInv, FilesTyped, phase # "down", SameFile, writeIdx \in Index,
         NEW entries \in Seq(Contact), Finalize(entries)
  PROVE  /\ FilesTyped'
         /\ failures' = failures =>
              \A d : d \in Range(entries) \/ (\E i \in Whole : d \in Range(db[i])) => d \in Stored'
<1>1. NumbersInOrder /\ DOMAIN db = Index /\ writeIdx \in Nat /\ Index \subseteq Nat
  BY DEF CacheInv, NumbersInOrder, Index
<1>2. db[writeIdx] = NoFile /\ \A i \in Index : db[i] # NoFile => i # writeIdx
  BY <1>1 DEF NumbersInOrder
<1>3. cur' = NoFile /\ failures' \in {failures, failures + 1}
  BY DEF Finalize, Fails
<1>4. \A i \in Index : db'[i] = IF i = writeIdx /\ db' # db THEN entries ELSE db[i]
  BY <1>1 DEF Finalize
<1>5. FilesTyped'
  <2>1. db' \in [Index -> Seq(Contact) \cup {NoFile}]
    BY DEF FilesTyped, Finalize
  <2>2. phase' = "reading" => file' \in Index /\ db'[file'] # NoFile
    BY <1>2, <1>4 DEF FilesTyped, SameFile
  <2> QED
    BY <1>3, <2>1, <2>2 DEF FilesTyped
<1>6. ASSUME failures' = failures, NEW d,
             d \in Range(entries) \/ (\E i \in Whole : d \in Range(db[i]))
      PROVE  d \in Stored'
  <2>1. db' = [db EXCEPT ![writeIdx] = entries] /\ torn' = torn \ {writeIdx}
    BY <1>6 DEF Finalize, Fails, FilesTyped
  <2>2. entries # NoFile
    BY ContactCacheAssumption
  <2>3. CASE d \in Range(entries)
    <3>1. db'[writeIdx] = entries /\ writeIdx \notin torn'
      BY <1>1, <2>1
    <3>2. phase' # "reading" \/ writeIdx # file'
      BY <1>2 DEF FilesTyped, SameFile
    <3>3. writeIdx \in Whole'
      BY <2>2, <3>1, <3>2 DEF Whole
    <3> QED
      BY <2>3, <3>1, <3>3 DEF Stored
  <2>4. ASSUME NEW i \in Whole, d \in Range(db[i])
        PROVE  d \in Stored'
    <3>1. i \in Index /\ db[i] # NoFile /\ i \notin torn /\ (phase # "reading" \/ i # file)
      BY DEF Whole
    <3>2. db'[i] = db[i] /\ i \notin torn'
      BY <1>1, <1>2, <2>1, <3>1
    <3>3. i \in Whole'
      BY <3>1, <3>2 DEF Whole, SameFile
    <3> QED
      BY <2>4, <3>2, <3>3 DEF Stored
  <2> QED
    BY <1>6, <2>3, <2>4
<1> QED
  BY <1>5, <1>6

LEMMA WriteStores ==
  ASSUME CacheInv, FilesTyped, phase # "down", SameFile, NEW c \in Contact, WriteContact(c)
  PROVE  /\ FilesTyped'
         /\ failures' = failures => \A d : d \in Stored \cup {c} => d \in Stored'
<1>1. Entries \in Seq(Contact)
  BY EntriesTyped
<1>0. /\ \A d : d \in Stored <=> d \in Range(Entries) \/ \E i \in Whole : d \in Range(db[i])
      /\ \A d : d \in Stored' <=> d \in Range(Entries') \/ \E i \in Whole' : d \in Range(db'[i])
  BY StoredIs
<1> DEFINE more == Append(Entries, c)
<1>2. more \in Seq(Contact) /\ Range(more) = Range(Entries) \cup {c}
  BY <1>1, RangeOfAppend
<1> HIDE DEF more
<1>3. CASE Finalize(more)
  <2>1. writeIdx \in Index
    BY DEF WriteContact, CacheInv, NumbersInOrder, Index
  <2>2. /\ FilesTyped'
        /\ failures' = failures =>
             \A d : d \in Range(more) \/ (\E i \in Whole : d \in Range(db[i])) => d \in Stored'
    BY <1>2, <1>3, <2>1, FinalizeStores
  <2> QED
    BY <1>0, <1>2, <2>2
<1>4. CASE cur' = more /\ UNCHANGED <<db, torn, writeIdx, failures>>
  <2>1. FilesTyped'
    BY <1>2, <1>4 DEF FilesTyped, SameFile
  <2>2. Entries' = more
    BY <1>2, <1>4, ContactCacheAssumption DEF Entries
  <2>3. \A i \in Whole : i \in Whole' /\ db'[i] = db[i]
    BY <1>4 DEF Whole, SameFile
  <2>4. \A d : d \in Stored \cup {c} => d \in Stored'
    BY <1>0, <1>2, <2>2, <2>3
  <2> QED
    BY <2>1, <2>4
<1>5. CASE Fails /\ UNCHANGED <<disk, writeIdx, cur>>
  BY <1>5 DEF Fails, FilesTyped, SameFile, disk
<1> QED
  BY <1>3, <1>4, <1>5 DEF WriteContact, more

(* Nothing written, nothing read. *)
LEMMA OutputStores ==
  ASSUME FilesTyped, SameFile, UNCHANGED output
  PROVE  FilesTyped' /\ \A d : d \in Stored => d \in Stored'
<1>1. db' = db /\ torn' = torn /\ cur' = cur /\ failures' = failures
  BY DEF output, disk
<1>2. FilesTyped'
  BY <1>1 DEF FilesTyped, SameFile
<1>3. \A i \in Whole : i \in Whole' /\ db'[i] = db[i]
  BY <1>1 DEF Whole, SameFile
<1>4. Entries' = Entries
  BY <1>1 DEF Entries
<1> QED
  BY <1>2, <1>3, <1>4 DEF Stored

LEMMA DrainedTyped ==
  ASSUME NEW T \in SUBSET Contact, NEW s \in SetToSeqs(T)
  PROVE  s \in Seq(Contact)
<1>1. Cardinality(T) \in Nat
  BY ContactCacheAssumption, FS_Subset, FS_CardinalityType
<1>2. s \in [1..Cardinality(T) -> T]
  BY DEF SetToSeqs
<1> QED
  BY <1>1, <1>2

(* What becomes of the contacts in one step while the process runs. *)
Kept ==
  /\ FilesTyped' /\ WaitingTyped'
  /\ failures' = failures => \A c \in Cached : c \in Cached' \/ Ip(c) \in filter'

LEMMA CachedIs ==
  /\ \A d : d \in Cached <=> d \in Stored \/ d \in Range(todo)
  /\ \A d : d \in Cached' <=> d \in Stored' \/ d \in Range(todo')
<1>1. Cached = Stored \cup Range(todo) /\ Cached' = Stored' \cup Range(todo')
  BY SMT DEF Cached, Stored
<1> QED
  BY <1>1, Zenon

(* A write of one contact, of the waiting ones if any. *)
LEMMA WritingKeeps ==
  ASSUME KeptInv, phase # "down", SameFile, NEW c \in Contact, WriteContact(c), WaitingTyped',
         \A d \in Range(todo) : d = c \/ d \in Range(todo')
  PROVE  Kept
<1>1. /\ FilesTyped'
      /\ failures' = failures => \A d : d \in Stored \cup {c} => d \in Stored'
  BY WriteStores DEF KeptInv
<1> QED
  BY <1>1, CachedIs DEF Kept

(* A step that writes nothing, and hands on a waiting contact at most. *)
LEMMA PassingKeeps ==
  ASSUME KeptInv, SameFile, UNCHANGED output, WaitingTyped',
         \A d \in Range(todo) : Ip(d) \in filter' \/ d \in Range(todo')
  PROVE  Kept
<1>1. FilesTyped' /\ \A d : d \in Stored => d \in Stored'
  BY OutputStores DEF KeptInv
<1> QED
  BY <1>1, CachedIs DEF Kept

LEMMA ReadContactKeeps ==
  ASSUME KeptInv, ReadContact
  PROVE  Kept
<1> DEFINE c == Head(todo)
<1>1. /\ phase = "reading" /\ phase' = "reading" /\ file' = file
      /\ todo # <<>> /\ todo' = Tail(todo) /\ PassOn(c)
  BY DEF ReadContact
<1>2. c \in Contact /\ todo' \in Seq(Contact) /\ Range(todo) = {c} \cup Range(todo')
  BY <1>1, RangeOfTail DEF KeptInv, WaitingTyped
<1> HIDE DEF c
<1>3. SameFile
  BY <1>1 DEF SameFile
<1>4. CASE IsFull
  <2>1. WriteContact(c) /\ bootstrap' = bootstrap
    BY <1>1, <1>4 DEF PassOn, heap
  <2>2. WaitingTyped'
    BY <1>1, <1>2, <2>1 DEF KeptInv, WaitingTyped
  <2> QED
    BY <1>1, <1>2, <1>3, <2>1, <2>2, WritingKeeps
<1>5. CASE ~ IsFull
  <2>1. BootstrapInsert(c) /\ UNCHANGED output
    BY <1>1, <1>5 DEF PassOn
  <2>2. Ip(c) \in filter' /\ bootstrap' \subseteq bootstrap \cup {c}
    BY <2>1 DEF BootstrapInsert, Marked, heap
  <2>3. WaitingTyped'
    BY <1>1, <1>2, <2>2 DEF KeptInv, WaitingTyped
  <2> QED
    BY <1>2, <1>3, <2>1, <2>2, <2>3, PassingKeeps
<1> QED
  BY <1>4, <1>5

LEMMA DrainContactKeeps ==
  ASSUME KeptInv, DrainContact
  PROVE  Kept
<1> DEFINE c == Head(todo)
<1>1. /\ phase = "draining" /\ phase' = "draining" /\ bootstrap' = bootstrap
      /\ todo # <<>> /\ todo' = Tail(todo) /\ WriteContact(c)
  BY DEF DrainContact, heap
<1>2. c \in Contact /\ todo' \in Seq(Contact) /\ Range(todo) = {c} \cup Range(todo')
  BY <1>1, RangeOfTail DEF KeptInv, WaitingTyped
<1> HIDE DEF c
<1>3. SameFile /\ WaitingTyped'
  BY <1>1, <1>2 DEF SameFile, KeptInv, WaitingTyped
<1> QED
  BY <1>1, <1>2, <1>3, WritingKeeps

(* The contacts of a file wait to be read, unless it is torn. *)
LEMMA NextFileKeeps ==
  ASSUME KeptInv, NextFile
  PROVE  Kept
<1>1. /\ phase = "picking" /\ phase' = "reading" /\ file' = NextRead
      /\ db' = db /\ torn' = torn /\ cur' = cur
      /\ bootstrap' = bootstrap /\ Unread # {}
  BY DEF NextFile, disk, heap
<1>9. \/ failures' = failures /\ todo' = IF file' \in torn THEN <<>> ELSE db[file']
      \/ failures' = failures + 1 /\ todo' = <<>>
  BY DEF NextFile, Fails
<1>2. NextRead \in Unread
  <2>1. MaxIndex \in Nat /\ Unread \in SUBSET (0..MaxIndex)
    BY ContactCacheAssumption DEF Unread, Index
  <2> QED
    BY <1>1, <2>1, MaxIs DEF NextRead
<1>3. file' \in Index /\ db[file'] # NoFile /\ db[file'] \in Seq(Contact)
  BY <1>1, <1>2 DEF Unread, KeptInv, FilesTyped
<1>4. FilesTyped'
  BY <1>1, <1>3, <1>9 DEF KeptInv, FilesTyped
<1>5. WaitingTyped'
  BY <1>1, <1>3, <1>9 DEF KeptInv, WaitingTyped
<1>6. Range(todo) = {}
  <2>1. todo = <<>>
    BY <1>1 DEF KeptInv, WaitingTyped
  <2> QED
    BY <2>1 DEF Range
<1>7. Entries' = Entries
  BY <1>1 DEF Entries
<1>8. ASSUME failures' = failures, NEW d \in Cached
      PROVE  d \in Cached'
  <2>1. CASE d \in Range(Entries)
    BY <1>7, <2>1, CachedIs, StoredIs
  <2>2. ASSUME NEW i \in Whole, d \in Range(db[i])
        PROVE  d \in Cached'
    <3>1. i \in Index /\ db[i] # NoFile /\ i \notin torn
      BY DEF Whole
    <3>2. CASE i = file'
      <4>1. todo' = db[i]
        <5>1. failures' # failures + 1
          BY <1>8 DEF KeptInv, FilesTyped
        <5> QED
          BY <1>9, <3>1, <3>2, <5>1
      <4>2. d \in Range(todo')
        BY <2>2, <4>1
      <4> QED
        BY <4>2, CachedIs
    <3>3. CASE i # file'
      <4>1. i \in Whole' /\ db'[i] = db[i]
        BY <1>1, <3>1, <3>3 DEF Whole
      <4>2. d \in Stored'
        BY <2>2, <4>1, StoredIs
      <4> QED
        BY <4>2, CachedIs
    <3> QED
      BY <3>2, <3>3
  <2> QED
    BY <1>6, <1>8, <2>1, <2>2, CachedIs, StoredIs
<1> QED
  BY <1>4, <1>5, <1>8 DEF Kept

(* A file is deleted when nothing of it waits any more. *)
LEMMA UnlinkKeeps ==
  ASSUME KeptInv, Unlink
  PROVE  Kept
<1>1. /\ phase = "reading" /\ phase' = "picking" /\ todo = <<>> /\ todo' = todo
      /\ db' = [db EXCEPT ![file] = NoFile] /\ torn' = torn \ {file}
      /\ cur' = cur /\ failures' = failures /\ bootstrap' = bootstrap /\ DOMAIN db = Index
  BY DEF Unlink, heap, KeptInv, CacheInv
<1>2. \A i \in Index : db'[i] = IF i = file THEN NoFile ELSE db[i]
  BY <1>1
<1>3. FilesTyped' /\ WaitingTyped'
  BY <1>1, <1>2 DEF KeptInv, FilesTyped, WaitingTyped
<1>4. \A i \in Whole : i \in Whole' /\ db'[i] = db[i]
  BY <1>1, <1>2 DEF Whole
<1>5. Entries' = Entries
  BY <1>1 DEF Entries
<1>6. \A d : d \in Stored => d \in Stored'
  BY <1>4, <1>5, StoredIs
<1> QED
  BY <1>1, <1>3, <1>6, CachedIs DEF Kept

LEMMA EndDrainKeeps ==
  ASSUME KeptInv, EndDrain
  PROVE  Kept
<1>1. /\ phase = "draining" /\ phase' = "leaving" /\ todo = <<>> /\ todo' = todo
      /\ bootstrap' = bootstrap
  BY DEF EndDrain, heap, input
<1>2. SameFile /\ WaitingTyped'
  BY <1>1 DEF SameFile, KeptInv, WaitingTyped
<1>3. CASE cur = NoFile
  BY <1>1, <1>2, <1>3, PassingKeeps DEF EndDrain
<1>4. CASE cur # NoFile
  <2>1. /\ Finalize(cur) /\ writeIdx \in Index /\ cur \in Seq(Contact) /\ Entries = cur
        /\ CacheInv /\ FilesTyped /\ phase # "down"
    BY <1>1, <1>4 DEF EndDrain, KeptInv, CacheInv, NumbersInOrder, FilesTyped, Entries
  <2>2. /\ FilesTyped'
        /\ failures' = failures =>
             \A d : d \in Range(cur) \/ (\E i \in Whole : d \in Range(db[i])) => d \in Stored'
    BY <1>2, <2>1, FinalizeStores
  <2>3. \A d : d \in Stored => d \in Range(cur) \/ \E i \in Whole : d \in Range(db[i])
    BY <2>1, StoredIs
  <2> QED
    BY <1>1, <1>2, <2>2, <2>3, CachedIs DEF Kept
<1> QED
  BY <1>3, <1>4

(* The heap and the table only take contacts. *)
LEMMA RunningKeeps ==
  ASSUME KeptInv, [Next]_vars, phase # "down", phase' # "down"
  PROVE  Kept
<1>1. CASE ReadContact
  BY <1>1, ReadContactKeeps
<1>2. CASE DrainContact
  BY <1>2, DrainContactKeeps
<1>3. CASE NextFile
  BY <1>3, NextFileKeeps
<1>4. CASE Unlink
  BY <1>4, UnlinkKeeps
<1>5. CASE EndDrain
  BY <1>5, EndDrainKeeps
<1>6. ASSUME NEW c \in Contact, OnRetireGood(c)
      PROVE  Kept
  <2>1. /\ phase = "up" /\ phase' = "up" /\ todo' = todo /\ bootstrap' = bootstrap
        /\ WriteContact(c)
    BY <1>6 DEF OnRetireGood, heap, input
  <2>2. SameFile /\ WaitingTyped'
    BY <2>1 DEF SameFile, KeptInv, WaitingTyped
  <2> QED
    BY <2>1, <2>2, WritingKeeps
<1>7. ASSUME phase \in {"up", "picking"}, phase' # "reading", UNCHANGED output,
             todo' = todo, phase' # "draining", bootstrap' \subseteq Contact
      PROVE  Kept
  <2>1. SameFile /\ WaitingTyped'
    BY <1>7 DEF SameFile, KeptInv, WaitingTyped
  <2> QED
    BY <1>7, <2>1, PassingKeeps
<1>8. ASSUME NEW c \in Contact, Candidate(c)
      PROVE  Kept
  <2>1. bootstrap' \subseteq Contact
    BY <1>8 DEF Candidate, BootstrapInsert, KeptInv, WaitingTyped
  <2> QED
    BY <1>7, <1>8, <2>1 DEF Candidate, input
<1>9. CASE TakeHead
  <2>1. bootstrap' \subseteq Contact
    BY <1>9 DEF TakeHead, KeptInv, WaitingTyped
  <2> QED
    BY <1>7, <1>9, <2>1 DEF TakeHead, input
<1>10. CASE TopUp
  <2>1. bootstrap' \subseteq Contact
    BY <1>10 DEF TopUp, heap, KeptInv, WaitingTyped
  <2> QED
    BY <1>7, <1>10, <2>1 DEF TopUp, input
<1>11. CASE EndTopUp
  <2>1. bootstrap' \subseteq Contact
    <3>1. PICK static \in SUBSET Contact :
            bootstrap' \subseteq bootstrap \cup static
      BY <1>11 DEF EndTopUp, OneOfEachHost
    <3> QED
      BY <3>1 DEF KeptInv, WaitingTyped
  <2> QED
    BY <1>7, <1>11, <2>1 DEF EndTopUp, input
<1>12. CASE Drain
  <2>1. /\ phase = "up" /\ phase' = "draining" /\ UNCHANGED output /\ bootstrap' = bootstrap
    BY <1>12 DEF Drain, heap
  <2>2. PICK table \in {t \in SUBSET Contact : Cardinality(t) <= MaxTable}, rest \in {{}, bootstrap} :
          \E first \in SetToSeqs(table), second \in SetToSeqs(rest) : todo' = first \o second
    BY <1>12 DEF Drain
  <2>3. rest \in SUBSET Contact
    BY DEF KeptInv, WaitingTyped
  <2>4. PICK first \in SetToSeqs(table), second \in SetToSeqs(rest) : todo' = first \o second
    BY <2>2
  <2>5. first \in Seq(Contact) /\ second \in Seq(Contact)
    BY <2>3, DrainedTyped
  <2>6. todo' \in Seq(Contact)
    BY <2>4, <2>5
  <2>7. SameFile /\ WaitingTyped'
    BY <2>1, <2>6 DEF SameFile, KeptInv, WaitingTyped
  <2>8. Range(todo) = {}
    <3>1. todo = <<>>
      BY <2>1 DEF KeptInv, WaitingTyped
    <3> QED
      BY <3>1 DEF Range
  <2> QED
    BY <2>1, <2>7, <2>8, PassingKeeps
<1>13. CASE UNCHANGED vars
  <2>1. UNCHANGED output /\ phase' = phase /\ file' = file /\ todo' = todo /\ bootstrap' = bootstrap
    BY <1>13 DEF vars, heap, input
  <2>2. SameFile /\ WaitingTyped'
    BY <2>1 DEF SameFile, KeptInv, WaitingTyped
  <2> QED
    BY <2>1, <2>2, PassingKeeps
<1>14. ~ InitCache /\ ~ Crash
  BY DEF InitCache, Crash
<1> QED
  BY <1>1, <1>2, <1>3, <1>4, <1>5, <1>6, <1>8, <1>9, <1>10, <1>11, <1>12, <1>13, <1>14 DEF Next

LEMMA KeptInvHolds == Spec => []KeptInv
<1>1. Init => KeptInv
  <2> SUFFICES ASSUME Init PROVE KeptInv
    OBVIOUS
  <2>1. CacheInv
    BY InitCacheInv
  <2>2. FilesTyped /\ WaitingTyped
    BY DEF Init, FilesTyped, WaitingTyped
  <2> QED
    BY <2>1, <2>2 DEF KeptInv
<1>2. KeptInv /\ [Next]_vars => KeptInv'
  <2> SUFFICES ASSUME KeptInv, [Next]_vars PROVE KeptInv'
    OBVIOUS
  <2>1. CacheInv'
    BY NextCacheInv DEF KeptInv
  <2>2. CASE phase # "down" /\ phase' # "down"
    BY <2>1, <2>2, RunningKeeps DEF Kept, KeptInv
  <2>3. CASE InitCache
    <3>1. /\ db' = db /\ failures' = failures /\ cur' = NoFile /\ todo' = <<>>
          /\ phase' = "up" /\ bootstrap' \subseteq Contact
      BY <2>3 DEF InitCache, OneOfEachHost, disk
    <3>2. FilesTyped' /\ WaitingTyped'
      BY <3>1 DEF KeptInv, FilesTyped, WaitingTyped
    <3> QED
      BY <2>1, <3>2 DEF KeptInv
  <2>4. CASE Crash
    <3>1. /\ db' = db /\ failures' = failures /\ cur' = NoFile /\ todo' = <<>>
          /\ phase' = "down" /\ bootstrap' = {}
      BY <2>4 DEF Crash, disk
    <3>2. FilesTyped' /\ WaitingTyped'
      BY <3>1 DEF KeptInv, FilesTyped, WaitingTyped
    <3> QED
      BY <2>1, <3>2 DEF KeptInv
  <2>5. CASE UNCHANGED vars
    BY <2>1, <2>5 DEF vars, output, disk, heap, input, KeptInv, FilesTyped, WaitingTyped
  <2>6. Next => InitCache \/ Crash \/ (phase # "down" /\ phase' # "down")
    BY DEF Next, OnRetireGood, Candidate, TakeHead, TopUp, NextFile, ReadContact, Unlink,
       EndTopUp, Drain, DrainContact, EndDrain
  <2> QED
    BY <2>2, <2>3, <2>4, <2>5, <2>6
<1> QED
  BY <1>1, <1>2, PTL DEF Spec

-----------------------------------------------------------------------------
(* What was passed on of the file that is being read, and what waits, is   *)
(* the file, unless it was refused; a refusal follows a failure.           *)
ReadInv ==
  /\ torn # {} => failures > 0
  /\ refused => failures > 0
  /\ passed \in Seq(Contact)
  /\ phase = "reading" /\ ~refused => passed \o todo = db[file]

LEMMA AppendHeadTail ==
  ASSUME NEW S, NEW s \in Seq(S), NEW t \in Seq(S), t # <<>>
  PROVE  Append(s, Head(t)) \in Seq(S) /\ Append(s, Head(t)) \o Tail(t) = s \o t
<1>1. Head(t) \in S /\ Tail(t) \in Seq(S) /\ t = <<Head(t)>> \o Tail(t)
  BY HeadTailAppend, HeadTailProperties
<1>2. Append(s, Head(t)) \in Seq(S) /\ Append(s, Head(t)) = s \o <<Head(t)>> /\ <<Head(t)>> \in Seq(S)
  BY <1>1, AppendIsConcat, AppendProperties
<1> QED
  BY <1>1, <1>2, ConcatAssociative

(* Failures are counted where a file is torn, and never forgotten. *)
LEMMA FailuresGrow ==
  ASSUME KeptInv, ReadInv, [Next]_vars
  PROVE  /\ failures' >= failures
         /\ torn' # {} => failures' > 0
<1>1. failures \in Nat
  BY DEF KeptInv, FilesTyped
<1>2. CASE UNCHANGED <<torn, failures>>
  BY <1>1, <1>2 DEF ReadInv
<1>3. ASSUME NEW entries, Finalize(entries)
      PROVE  /\ failures' >= failures
             /\ torn' # {} => failures' > 0
  BY <1>1, <1>3 DEF Finalize, Fails, ReadInv
<1>4. ASSUME NEW c, WriteContact(c)
      PROVE  /\ failures' >= failures
             /\ torn' # {} => failures' > 0
  BY <1>1, <1>2, <1>3, <1>4 DEF WriteContact, Fails, ReadInv, disk
<1>5. CASE NextFile
  BY <1>1, <1>5 DEF NextFile, Fails, ReadInv, disk
<1>6. CASE Unlink
  BY <1>1, <1>6 DEF Unlink, ReadInv
<1>7. CASE ReadContact
  BY <1>2, <1>4, <1>7 DEF ReadContact, PassOn, output, disk
<1>8. CASE EndDrain
  BY <1>2, <1>3, <1>8 DEF EndDrain, output, disk
<1>9. ASSUME NEW c \in Contact, OnRetireGood(c)
      PROVE  /\ failures' >= failures
             /\ torn' # {} => failures' > 0
  BY <1>4, <1>9 DEF OnRetireGood
<1>10. CASE DrainContact
  BY <1>4, <1>10 DEF DrainContact
<1> QED
  BY <1>2, <1>5, <1>6, <1>7, <1>8, <1>9, <1>10
  DEF Next, vars, output, disk, InitCache, Crash, Candidate, TakeHead, TopUp, EndTopUp, Drain

(* A complete file is not written: its number has been used. *)
LEMMA WrittenKeepsFiles ==
  ASSUME CacheInv, phase # "down", Written, NEW i \in Index, db[i] # NoFile
  PROVE  db'[i] = db[i]
BY DEF Written, CacheInv, NumbersInOrder, Index

LEMMA ReadContactKeepsRead ==
  ASSUME KeptInv, ReadInv, ReadContact
  PROVE  ReadInv'
<1>1. /\ phase = "reading" /\ file' = file /\ refused' = refused
      /\ todo # <<>> /\ todo' = Tail(todo) /\ passed' = Append(passed, Head(todo))
      /\ todo \in Seq(Contact) /\ passed \in Seq(Contact) /\ failures \in Nat
      /\ file \in Index /\ db[file] # NoFile
  BY DEF ReadContact, KeptInv, FilesTyped, WaitingTyped, ReadInv
<1>2. db'[file] = db[file]
  <2>1. CASE IsFull
    <3>1. Written
      BY <1>1, <2>1, WriteContactWrites DEF ReadContact, PassOn, KeptInv
    <3> QED
      BY <1>1, <3>1, WrittenKeepsFiles DEF KeptInv
  <2>2. CASE ~IsFull
    BY <2>2 DEF ReadContact, PassOn, output, disk
  <2> QED
    BY <2>1, <2>2
<1>3. passed' \in Seq(Contact) /\ passed' \o todo' = passed \o todo
  BY <1>1, AppendHeadTail
<1>4. failures' >= failures /\ (torn' # {} => failures' > 0) /\ failures' \in Int
  <2>1. failures' \in Nat
    BY ReadContactKeeps DEF Kept, FilesTyped
  <2> QED
    BY <2>1, FailuresGrow DEF Next
<1>5. ASSUME refused'
      PROVE  failures' > 0
  <2>1. failures > 0
    BY <1>1, <1>5 DEF ReadInv
  <2> QED
    BY <1>1, <1>4, <2>1
<1>6. ASSUME ~refused'
      PROVE  passed' \o todo' = db'[file']
  <2>1. passed \o todo = db[file]
    BY <1>1, <1>6 DEF ReadInv
  <2> QED
    BY <1>1, <1>2, <1>3, <2>1
<1> QED
  BY <1>3, <1>4, <1>5, <1>6 DEF ReadInv

LEMMA NextFileKeepsRead ==
  ASSUME KeptInv, ReadInv, NextFile
  PROVE  ReadInv'
<1>1. /\ passed' = <<>> /\ db' = db /\ torn' = torn
      /\ \/ /\ refused' = (file' \in torn) /\ failures' = failures
            /\ todo' = IF refused' THEN <<>> ELSE db[file']
         \/ refused' = TRUE /\ failures' = failures + 1
      /\ failures \in Nat
  BY DEF NextFile, Fails, disk, KeptInv, FilesTyped
<1>2. ASSUME refused'
      PROVE  failures' > 0
  <2>1. (file' \in torn /\ failures' = failures) \/ failures' = failures + 1
    BY <1>1, <1>2, Zenon
  <2> QED
    BY <1>1, <2>1 DEF ReadInv
<1>3. ASSUME ~refused'
      PROVE  passed' \o todo' = db'[file']
  <2>1. todo' = db'[file'] /\ todo' \in Seq(Contact)
    BY <1>1, <1>3, NextFileKeeps DEF Kept, WaitingTyped
  <2> QED
    BY <1>1, <2>1, ConcatEmptySeq
<1>4. torn' # {} => failures' > 0
  BY <1>1 DEF ReadInv
<1> QED
  BY <1>1, <1>2, <1>3, <1>4 DEF ReadInv

LEMMA ReadInvHolds == Spec => []ReadInv
<1>1. Init => ReadInv
  BY DEF Init, ReadInv
<1>2. KeptInv /\ ReadInv /\ KeptInv' /\ [Next]_vars => ReadInv'
  <2> SUFFICES ASSUME KeptInv, ReadInv, KeptInv', [Next]_vars PROVE ReadInv'
    OBVIOUS
  <2>1. /\ failures' >= failures /\ (torn' # {} => failures' > 0)
        /\ failures \in Nat /\ failures' \in Nat
    BY FailuresGrow DEF KeptInv, FilesTyped
  <2>2. CASE ReadContact
    BY <2>2, ReadContactKeepsRead
  <2>3. CASE NextFile
    BY <2>3, NextFileKeepsRead
  <2>4. CASE refused' = FALSE /\ passed' = <<>> /\ phase' # "reading"
    BY <2>1, <2>4 DEF ReadInv
  <2>5. CASE UNCHANGED <<refused, passed>> /\ phase' # "reading"
    BY <2>1, <2>5 DEF ReadInv
  <2>6. CASE UNCHANGED vars
    BY <2>1, <2>6 DEF ReadInv, vars, input, output, disk
  <2> QED
    BY <2>2, <2>3, <2>4, <2>5, <2>6
    DEF Next, input, InitCache, Crash, OnRetireGood, Candidate, TakeHead, TopUp, Unlink,
        EndTopUp, Drain, DrainContact, EndDrain
<1> QED
  BY <1>1, <1>2, KeptInvHolds, PTL DEF Spec

(* A complete file is never written again, whatever numbers crashes and    *)
(* sessions leave (cache_finalize), and it is deleted only when all of it  *)
(* was passed on, or cache_for_each refused it after a call had failed     *)
(* (on_topup_bootstrap).                                                   *)
THEOREM FilesKeptHolds == Spec => FilesKept
<1> DEFINE Stay(i) == \/ db'[i] = db[i]
                      \/ /\ db'[i] = NoFile /\ phase = "reading" /\ file = i
                         /\ passed = db[i] \/ (refused /\ failures > 0)
<1>1. ASSUME KeptInv, ReadInv, [Next]_vars, NEW i \in Index, db[i] # NoFile
      PROVE  Stay(i)
  <2>1. ASSUME Written, phase # "down"
        PROVE  db'[i] = db[i]
    BY <1>1, <2>1, WrittenKeepsFiles DEF KeptInv
  <2>2. CASE UNCHANGED db
    BY <2>2
  <2>3. ASSUME NEW c \in Contact, OnRetireGood(c)
        PROVE  db'[i] = db[i]
    BY <1>1, <2>1, <2>3, WriteContactWrites DEF OnRetireGood, KeptInv
  <2>4. CASE ReadContact
    <3>1. CASE IsFull
      BY <1>1, <2>1, <2>4, <3>1, WriteContactWrites DEF ReadContact, PassOn, KeptInv
    <3>2. CASE ~IsFull
      BY <2>4, <3>2 DEF ReadContact, PassOn, output, disk
    <3> QED
      BY <3>1, <3>2
  <2>5. CASE Unlink
    <3>1. /\ phase = "reading" /\ todo = <<>> /\ DOMAIN db = Index
          /\ db' = [db EXCEPT ![file] = NoFile]
      BY <1>1, <2>5 DEF Unlink, KeptInv, CacheInv
    <3>2. CASE i # file
      BY <3>1, <3>2
    <3>3. CASE i = file /\ refused
      BY <1>1, <3>1, <3>3 DEF ReadInv
    <3>4. CASE i = file /\ ~refused
      <4>1. passed \o <<>> = db[i] /\ passed \in Seq(Contact)
        BY <1>1, <3>1, <3>4 DEF ReadInv
      <4> QED
        BY <3>1, <3>4, <4>1, ConcatEmptySeq
    <3> QED
      BY <3>2, <3>3, <3>4
  <2>6. CASE DrainContact
    BY <1>1, <2>1, <2>6, WriteContactWrites DEF DrainContact, KeptInv
  <2>7. CASE EndDrain
    <3>1. CASE cur = NoFile
      BY <2>7, <3>1 DEF EndDrain, output, disk
    <3>2. CASE cur # NoFile
      <4>1. writeIdx \in Index /\ phase # "down"
        BY <1>1, <2>7, <3>2 DEF EndDrain, KeptInv, CacheInv, NumbersInOrder
      <4> QED
        BY <1>1, <2>1, <2>7, <3>2, <4>1, FinalizeWrites DEF EndDrain, KeptInv
    <3> QED
      BY <3>1, <3>2
  <2> QED
    BY <1>1, <2>2, <2>3, <2>4, <2>5, <2>6, <2>7
    DEF Next, vars, output, disk, InitCache, Crash, Candidate, TakeHead, TopUp, NextFile, EndTopUp, Drain
<1>2. ASSUME KeptInv, ReadInv, [Next]_vars
      PROVE  [\A i \in Index : db[i] # NoFile => Stay(i)]_vars
  BY <1>1, <1>2
<1> QED
  BY <1>2, KeptInvHolds, ReadInvHolds, PTL DEF Spec, FilesKept

LEMMA PhaseHolds == Spec => [](phase \in Phase)
<1>1. Init => phase \in Phase
  BY DEF Init, Phase
<1>2. phase \in Phase /\ [Next]_vars => (phase \in Phase)'
  BY DEF Next, Phase, vars, InitCache, Crash, OnRetireGood, Candidate, TakeHead, TopUp,
     NextFile, ReadContact, Unlink, EndTopUp, Drain, DrainContact, EndDrain
<1> QED
  BY <1>1, <1>2, PTL DEF Spec

(* The files hold contacts and have the numbers a disk has room for, and   *)
(* so has the file that is being written, whatever numbers former sessions *)
(* left.                                                                   *)
THEOREM TypeCorrect == Spec => []TypeOK
<1>1. KeptInv /\ phase \in Phase => TypeOK
  BY DEF KeptInv, CacheInv, NumbersInOrder, FilesTyped, WaitingTyped, TypeOK
<1> QED
  BY <1>1, KeptInvHolds, PhaseHolds, PTL

(* While the process runs and no system call fails, a contact leaves the   *)
(* cache only when the filter of the heap answers for its host: what a     *)
(* full heap turns away is in another file before its own is deleted, and  *)
(* a number is never used for two files.                                   *)
THEOREM ContactsKeptHolds == Spec => ContactsKept
<1> DEFINE Stay == phase' # "down" /\ phase # "down" /\ failures' = failures =>
                     \A c \in Cached : c \in Cached' \/ Ip(c) \in filter'
<1>1. KeptInv /\ [Next]_vars => [Stay]_vars
  BY RunningKeeps DEF Kept
<1> QED
  BY <1>1, KeptInvHolds, PTL DEF Spec, ContactsKept
=============================================================================
