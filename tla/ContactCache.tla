---------------------------- MODULE ContactCache ----------------------------
(***************************************************************************)
(* The cache of contacts on disk (src/src/cache.cpp) and the bootstrap     *)
(* heap it feeds (src/src/bootstrap.cpp), across stops and crashes.        *)
(*                                                                         *)
(* Good contacts that leave the routing table are appended to a temporary  *)
(* file, which is renamed to cache<i>_ipv4.db when it is full or the       *)
(* daemon stops.  When the heap is empty the files of former sessions are  *)
(* read, the newest first, and deleted; what does not fit into the heap is *)
(* written again.  Nothing is read back in the session that wrote it.      *)
(*                                                                         *)
(* One action is one handler, except that reading files and draining the   *)
(* routing table take a step for each contact and each file, because the   *)
(* process may die between any two of them.                                *)
(***************************************************************************)
EXTENDS Integers, SequencesExt

CONSTANTS
  Host, Port,   \* addresses and ports
  Contact,      \* the contacts: pairs of them
  NoFile,
  MaxEntries,   \* MAX_ENTRIES, 256 in the code
  Room,         \* the capacity of DHT::bootstrap, 128 in the code
  MaxIndex,     \* bound on the numbers of files
  MaxTable,     \* bound on the contacts of the routing table at the end
  MaxFailures   \* bound on the system calls that fail

ASSUME ContactCacheAssumption ==
  /\ Contact \subseteq Host \X Port /\ IsFiniteSet(Contact) /\ NoFile \notin Seq(Contact)
  /\ MaxEntries \in Nat \ {0} /\ Room \in Nat \ {0}
  /\ MaxIndex \in Nat \ {0} /\ MaxTable \in Nat /\ MaxFailures \in Nat

Index == 0..MaxIndex

Ip(c) == c[1]

VARIABLES
  \* on disk
  db,        \* the entries of each cache<i>_ipv4.db
  torn,      \* the ones whose header counts entries that were not written
  tmp,       \* the numbers of the .tmp files
  \* in memory
  phase,     \* what the process is doing
  readMin,   \* Cache::read_min_idx
  readMax,   \* Cache::read_max_idx
  writeIdx,  \* Cache::write_idx
  cur,       \* the entries written to the open .tmp file
  seen,      \* Cache::seen
  bootstrap, \* DHT::bootstrap
  filter,    \* the hosts DHT::bootstrap_meta.bootstrap_filter answers for
  file,      \* the file that is being read
  todo,      \* the contacts still to be read from it, or to be drained
  refused,   \* that cache_for_each returned false for it; nobody looks at it
  \* history
  passed,    \* the contacts of the file that were passed on
  base,      \* write_idx when the session began
  failures   \* system calls that failed

disk == <<db, torn, tmp>>
indices == <<readMin, readMax, base>>
output == <<disk, writeIdx, cur, failures>>
heap == <<bootstrap, filter>>
input == <<file, todo, refused, passed>>
vars == <<output, indices, heap, phase, seen, input>>

Phase == {"down", "up", "picking", "reading", "draining", "leaving"}

-----------------------------------------------------------------------------
Init ==
  /\ db = [i \in Index |-> NoFile] /\ torn = {} /\ tmp = {}
  /\ phase = "down"
  /\ readMin = 0 /\ readMax = 0 /\ writeIdx = 1 /\ base = 1
  /\ cur = NoFile /\ seen = {}
  /\ bootstrap = {} /\ filter = {}
  /\ file = 0 /\ todo = <<>> /\ refused = FALSE /\ passed = <<>>
  /\ failures = 0

(* The numbers init_cache reads from the directory: its pattern matches    *)
(* the names of temporary files as well.                                   *)
Found == {i \in Index : db[i] # NoFile} \cup tmp

Oldest(found) == IF found = {} THEN 0 ELSE Min(found)

Newest(found) == Max(found \cup {0})

(* Mistake: the number of the newest file. *)
FirstFreeTaken(found) == Newest(found)

FirstFree(found) == Newest(found) + 1

(* A Bloom filter after the insertion of hosts into one that answers for   *)
(* known: it may answer for others too.                                    *)
Marked(known, hosts) == {f \in SUBSET Host : known \cup hosts \subseteq f}

(* What a run of insertions through an empty filter leaves of any contacts *)
(* is one of each host.                                                    *)
OneOfEachHost == {cs \in SUBSET Contact : \A c, d \in cs : Ip(c) = Ip(d) => c = d}

(* init_cache, after dht::init has put the contacts of the command line    *)
(* into the heap.                                                          *)
InitCache ==
  /\ phase = "down"
  /\ phase' = "up"
  /\ readMin' = Oldest(Found) /\ readMax' = Newest(Found)
  /\ writeIdx' = FirstFree(Found) /\ base' = FirstFree(Found)
  /\ bootstrap' \in {b \in OneOfEachHost : Cardinality(b) <= Room}
  /\ filter' \in Marked({}, {Ip(c) : c \in bootstrap'})
  /\ cur' = NoFile /\ seen' = {}
  /\ file' = 0 /\ todo' = <<>> /\ refused' = FALSE /\ passed' = <<>>
  /\ UNCHANGED <<disk, failures>>

(* The process dies, or exits in phase leaving: what is on disk is left. *)
Crash ==
  /\ phase # "down"
  /\ phase' = "down"
  /\ cur' = NoFile /\ seen' = {} /\ bootstrap' = {} /\ filter' = {}
  /\ file' = 0 /\ todo' = <<>> /\ refused' = FALSE /\ passed' = <<>>
  /\ UNCHANGED <<disk, indices, writeIdx, failures>>

-----------------------------------------------------------------------------
(* Writing. *)

Fails == failures < MaxFailures /\ failures' = failures + 1

(* cache_finalize: flush, whose result is ignored, close, and rename. The  *)
(* number is used up also when the file keeps its temporary name.          *)
Finalize(entries) ==
  /\ cur' = NoFile
  /\ writeIdx' = writeIdx + 1
  /\ \/ /\ db' = [db EXCEPT ![writeIdx] = entries]
        /\ tmp' = tmp \ {writeIdx}
        /\ \/ torn' = torn \ {writeIdx} /\ UNCHANGED failures
           \/ torn' = torn \cup {writeIdx} /\ Fails
     \/ /\ tmp' = tmp \cup {writeIdx} /\ Fails
        /\ UNCHANGED <<db, torn>>

Entries == IF cur = NoFile THEN <<>> ELSE cur

(* cache_write_contact *)
WriteContact(c) ==
  /\ writeIdx <= MaxIndex
  /\ \/ /\ Len(Entries) + 1 = MaxEntries
        /\ Finalize(Append(Entries, c))
     \/ /\ Len(Entries) + 1 < MaxEntries
        /\ cur' = Append(Entries, c)
        /\ tmp' = tmp \cup {writeIdx}
        /\ UNCHANGED <<db, torn, writeIdx, failures>>
     \/ /\ cur = NoFile /\ Fails      \* the file cannot be opened
        /\ UNCHANGED <<disk, writeIdx, cur>>

(* on_retire_good: the routing table gives up a good contact. *)
OnRetireGood(c) ==
  /\ phase = "up"
  /\ c \notin seen
  /\ seen' = seen \cup {c}
  /\ WriteContact(c)
  /\ UNCHANGED <<indices, heap, phase, input>>

-----------------------------------------------------------------------------
(* The heap. *)

(* maybe_bootstrap_reset: the filter before an insertion, old or full ones *)
(* are cleared.                                                            *)
Filters == {filter, {}}

IsFull == Cardinality(bootstrap) >= Room

(* __bootstrap_insert on a heap with room: the filter is keyed by the      *)
(* host, so that one contact of a host keeps out the others.               *)
BootstrapInsert(c) ==
  \E known \in Filters :
    IF Ip(c) \in known
      THEN filter' = known /\ UNCHANGED bootstrap
      ELSE filter' \in Marked(known, {Ip(c)}) /\ bootstrap' = bootstrap \cup {c}

(* __bootstrap_insert for a contact that a message brings: a full heap     *)
(* keeps the closer ones.                                                  *)
Candidate(c) ==
  /\ phase = "up"
  /\ \/ ~IsFull /\ BootstrapInsert(c)
     \/ /\ IsFull
        /\ \E known \in Filters, d \in bootstrap :
             /\ Ip(c) \notin known
             /\ filter' \in Marked(known, {Ip(c)})
             /\ bootstrap' = (bootstrap \ {d}) \cup {c}
  /\ UNCHANGED <<output, indices, phase, seen, input>>

(* bootstrap_take_head, when there is one. *)
TakeHead ==
  /\ phase = "up"
  /\ \E c \in bootstrap : bootstrap' = bootstrap \ {c}
  /\ UNCHANGED <<output, indices, filter, phase, seen, input>>

-----------------------------------------------------------------------------
(* on_topup_bootstrap, called by bootstrap_take_head for an empty heap.    *)
(* Its flag cont says that the heap is not full.                           *)

TopUp ==
  /\ phase = "up" /\ bootstrap = {}
  /\ phase' = "picking"
  /\ UNCHANGED <<output, indices, heap, seen, input>>

(* The files that take_next_read_cache can still return. *)
Unread == {i \in Index : readMin < i /\ i <= readMax /\ db[i] # NoFile}

(* Mistake: the oldest. *)
NextReadOldest == Min(Unread)

(* take_next_read_cache: the newest. *)
NextRead == Max(Unread)

(* cache_for_each opens the file.  It returns false and calls back for no  *)
(* contact of a torn file, nor when it cannot open the file or ask for its *)
(* size; a mapping that fails (MAP_FAILED is not null) is Crash.           *)
NextFile ==
  /\ phase = "picking" /\ ~IsFull /\ Unread # {}
  /\ phase' = "reading"
  /\ file' = NextRead
  /\ readMax' = file' - 1
  /\ passed' = <<>>
  /\ \/ /\ refused' = (file' \in torn)
        /\ todo' = IF refused' THEN <<>> ELSE db[file']
        /\ UNCHANGED failures
     \/ refused' = TRUE /\ todo' = <<>> /\ Fails
  /\ UNCHANGED <<disk, writeIdx, cur, readMin, base, heap, seen>>

(* Mistake: what does not fit is not written. *)
PassOnDropped(c) ==
  IF IsFull THEN UNCHANGED <<output, heap>>
  ELSE BootstrapInsert(c) /\ UNCHANGED output

(* The callback of cache_for_each. *)
PassOn(c) ==
  IF IsFull THEN WriteContact(c) /\ UNCHANGED heap
  ELSE BootstrapInsert(c) /\ UNCHANGED output

ReadContact ==
  /\ phase = "reading" /\ todo # <<>>
  /\ PassOn(Head(todo))
  /\ todo' = Tail(todo)
  /\ passed' = Append(passed, Head(todo))
  /\ UNCHANGED <<indices, phase, seen, file, refused>>

(* unlinkat; the process exits if it fails. *)
Unlink ==
  /\ phase = "reading" /\ todo = <<>>
  /\ db' = [db EXCEPT ![file] = NoFile]
  /\ torn' = torn \ {file}
  /\ phase' = "picking"
  /\ file' = 0 /\ refused' = FALSE /\ passed' = <<>>
  /\ UNCHANGED <<tmp, writeIdx, cur, failures, indices, heap, seen, todo>>

(* The end: when files have run out Cache::seen is cleared, and when the   *)
(* heap is still empty well-known hosts are looked up.  Then the head is   *)
(* taken.                                                                  *)
EndTopUp ==
  /\ phase = "picking" /\ (IsFull \/ Unread = {})
  /\ phase' = "up"
  /\ readMax' = IF IsFull THEN readMax ELSE readMin
  /\ seen' = IF IsFull THEN seen ELSE {}
  /\ \E static \in OneOfEachHost, known \in Filters :
       /\ Cardinality(static) <= Room /\ \A c \in static : Ip(c) \notin known
       /\ bootstrap # {} => static = {} /\ known = filter
       /\ IF static = {} THEN filter' = known
          ELSE filter' \in Marked(known, {Ip(c) : c \in static})
       /\ LET full == bootstrap \cup static
          IN  \/ full = {} /\ bootstrap' = {}
              \/ \E c \in full : bootstrap' = full \ {c}
  /\ UNCHANGED <<output, readMin, base, input>>

-----------------------------------------------------------------------------
(* deinit_cache: the contacts of the routing table, in any order, and then *)
(* those of the heap if few contacts were written.                         *)
Drain ==
  /\ phase = "up"
  /\ phase' = "draining"
  /\ \E table \in {t \in SUBSET Contact : Cardinality(t) <= MaxTable},
        rest \in {{}, bootstrap} :
       \E first \in SetToSeqs(table), second \in SetToSeqs(rest) :
         todo' = first \o second
  /\ UNCHANGED <<output, indices, heap, seen, file, refused, passed>>

DrainContact ==
  /\ phase = "draining" /\ todo # <<>>
  /\ WriteContact(Head(todo))
  /\ todo' = Tail(todo)
  /\ UNCHANGED <<indices, heap, phase, seen, file, refused, passed>>

EndDrain ==
  /\ phase = "draining" /\ todo = <<>>
  /\ phase' = "leaving"
  /\ IF cur = NoFile THEN UNCHANGED output ELSE Finalize(cur)
  /\ UNCHANGED <<indices, heap, seen, input>>

Next ==
  \/ InitCache \/ Crash
  \/ \E c \in Contact : OnRetireGood(c) \/ Candidate(c)
  \/ TakeHead
  \/ TopUp \/ NextFile \/ ReadContact \/ Unlink \/ EndTopUp
  \/ Drain \/ DrainContact \/ EndDrain

Spec == Init /\ [][Next]_vars

-----------------------------------------------------------------------------
(* The files hold contacts and have numbers a disk has room for; while the *)
(* daemon runs so has a file that is open, which is the next one to be     *)
(* written.                                                                *)
TypeOK ==
  /\ db \in [Index -> Seq(Contact) \cup {NoFile}] /\ tmp \subseteq Index
  /\ phase \in Phase /\ failures \in Nat
  /\ cur \in Seq(Contact) \cup {NoFile} /\ todo \in Seq(Contact)
  /\ bootstrap \subseteq Contact
  /\ phase # "down" =>
       /\ readMin \in Nat /\ readMax \in Nat /\ base \in Nat /\ writeIdx \in Nat
       /\ cur # NoFile => writeIdx \in Index

(* A complete file is never written again, whatever numbers crashes and    *)
(* sessions leave behind, and it is deleted only after every contact of it *)
(* was passed on to the heap or to another file, in this order and in this *)
(* session, unless cache_for_each refused it: that is a file whose last    *)
(* flush failed (its result is ignored, cache.cpp:269), or a call that     *)
(* failed on opening it (ignored as well, :493).                           *)
FilesKept ==
  [][\A i \in Index : db[i] # NoFile =>
       \/ db'[i] = db[i]
       \/ /\ db'[i] = NoFile /\ phase = "reading" /\ file = i
          /\ passed = db[i] \/ (refused /\ failures > 0)]_vars

(* The contacts in whole files and on their way out of and into files; of  *)
(* a file that is being read, the rest.                                    *)
Whole == {i \in Index : db[i] # NoFile /\ i \notin torn /\ (phase # "reading" \/ i # file)}
Cached == (UNION {Range(db[i]) : i \in Whole}) \cup Range(Entries) \cup Range(todo)

(* While the process runs and no system call fails, a contact leaves the   *)
(* cache only when the filter of the heap answers for its host: because it *)
(* has just been put into the heap, or because another contact of the host *)
(* was before it (bootstrap.cpp:30), and then it is dropped although its   *)
(* file is deleted.                                                        *)
ContactsKept ==
  [][phase' # "down" /\ phase # "down" /\ failures' = failures =>
       \A c \in Cached : c \in Cached' \/ Ip(c) \in filter']_vars

(* Of the files of former sessions only the oldest is passed over. *)
OnlyOldestUnread ==
  phase # "down" =>
    \A i \in Index : db[i] # NoFile /\ readMin < i /\ i < base =>
      i <= readMax \/ (phase = "reading" /\ i = file)

(* "bootstrap want more but there is no more cache files"                  *)
(* (cache.cpp:518): when a run ends like this, no file of a former session *)
(* is left.                                                                *)
NothingLeftUnread ==
  [][EndTopUp /\ ~IsFull => \A i \in Index : i < base => db[i] = NoFile]_vars
=============================================================================
