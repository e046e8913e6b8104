-------------------------- MODULE CacheProperties --------------------------
(***************************************************************************)
(* Correctness properties of the cache: how its table, its pages and its   *)
(* list agree with each other, what its callers can rely on, and the two   *)
(* specifications it implements, the map it means to be (LruCache) and the *)
(* protocol of the book it allocates pages from (BookAllocator).           *)
(***************************************************************************)
EXTENDS Cache, FiniteSetsExt

Intact == pc \notin {"undefined", "destroyed"}

(* The cache never reads or writes memory it does not own.                 *)
NoUndefinedBehaviour == pc # "undefined"

\* An update evicts the page it is about to write its value into.
OwnEviction == Evict /\ pc = "update" /\ list.head = at

\* Neither of the two steps the cache is known to be broken after: the
\* update that evicts the entry it is replacing, and grow_cache_size.
Harmless == ~GrowArena /\ ~OwnEviction

\* The runs of the cache up to the first such step: what the theorems about
\* this module are about.
HarmlessSpec == Init /\ [][Next /\ Harmless]_vars

(* No order of the calls leads to either step, although the entries force  *)
(* evictions and deleted slots count towards the load.                     *)
StaysHarmless == [][Harmless]_vars

\* A set claims a deleted slot for a key that has an entry further on.
Duplicate ==
  \E k \in Key : \E v \in ValuesOf[k] :
    SetNew(k, v) /\ \E i \in LiveSlots : KeyAt(i) = k

\* None of the three steps after which the cache breaks its promise.
DefectFree == Harmless /\ ~Duplicate

\* The runs of the cache up to the first such step.
DefectFreeSpec == Init /\ [][Next /\ DefectFree]_vars

(* Keys that do not meet each other's tombstones, with values of one size, *)
(* lead to none of the three.                                              *)
StaysDefectFree == [][DefectFree]_vars

-----------------------------------------------------------------------------
(* The parts of the cache agree.                                           *)

(* Between calls and while a call evicts, live slots and pages in use are  *)
(* in one-to-one correspondence: a slot's bookmark leads to a page whose   *)
(* cur_i leads back, and holds a key of the hash the slot is marked with.  *)
(* remove_entry(cache, entry->cur_i) relies on it.                         *)
SlotsMatchPages ==
  pc \in {"idle", "update", "insert"} =>
    \A i \in LiveSlots :
      /\ Removable(i)
      /\ book.link[bookmarks[i]] = i
      /\ KeyAt(i) \in Key /\ KeyHash(KeyAt(i)) = key_hashes[i]

(* The items met from the head, one per page in use.                       *)
ListOrder ==
  LET n == Cardinality(LivePages)
      walk[j \in 1 .. n] == IF j = 1 THEN list.head ELSE list.next[walk[j - 1]]
  IN walk

(* The LRU list is one circle through exactly the pages in use, linked     *)
(* consistently in both directions, although eviction removes each item    *)
(* twice (get_evict_item, then remove_entry) and never clears its links.   *)
ListMatchesTable ==
  Intact =>
    /\ (list.head = INVALID_NODE) = (LivePages = {})
    /\ LET n == Cardinality(LivePages) IN
         /\ {ListOrder[j] : j \in 1 .. n} = LivePages
         /\ n > 0 => list.next[ListOrder[n]] = list.head
    /\ \A p \in LivePages : list.pre[list.next[p]] = p

(* mem_total is the size of the entries in the table, plus what a set in   *)
(* progress will add: no unsigned subtraction or addition ever wraps.      *)
Accounting ==
  pc \in {"idle", "update", "insert"} =>
    mem_total =
      MapThenSumSet(LAMBDA i : EntrySize(KeyAt(i), entries[bookmarks[i]].value), LiveSlots)
      + CASE pc = "insert" -> EntrySize(arg.key, arg.val)
          [] pc = "update" -> ValSize[arg.val] - entries[at].value_size
          [] OTHER -> 0

(* entry_total and dead_total count the live and the deleted slots, except *)
(* that a set which claimed a deleted slot has already uncounted it.       *)
CountsMatchTable ==
  pc \in {"idle", "update", "insert"} =>
    /\ entry_total = Cardinality(LiveSlots)
    /\ dead_total = Cardinality({i \in Slots : key_hashes[i] = DELETED})
                    - IF pc = "insert" /\ key_hashes[at] = DELETED THEN 1 ELSE 0

(* A lookup never walks over the whole table, the case that find_entry     *)
(* reports as an error: tombstones are counted towards the load limit, so  *)
(* some slot of every probe sequence is empty.                             *)
NoFullTraversal ==
  pc = "idle" => \A k \in Key : FindStops(k) # {}

-----------------------------------------------------------------------------
(* What callers rely on.                                                   *)

(* A set that reports no error has stored its value: a lookup of the key   *)
(* made next finds it.                                                     *)
SetThenFound ==
  pc = "idle" /\ ret.op = "set" /\ ret.code >= 0 =>
    Found(ret.key) /\ entries[bookmarks[FindSlot(ret.key)]].value = ret.val

(* After a delete, successful or not, a lookup of the key finds nothing.   *)
DeleteThenGone ==
  pc = "idle" /\ ret.op = "delete" => ~Found(ret.key)

(* The key of every entry in the table is found by a lookup: tombstones    *)
(* keep the probe sequences that lead to it intact, whatever was deleted   *)
(* or evicted on the way.                                                  *)
LiveKeysFound ==
  pc = "idle" => \A i \in LiveSlots : Removable(i) /\ Found(KeyAt(i))

(* destroy_cache leaves no copy of a key or of a value allocated.          *)
DestroyFreesAll ==
  pc = "destroyed" =>
    \A p \in Pages : entries[p].key \in {NULL, JUNK} /\ entries[p].value \in {NULL, JUNK}

(* Every set that has to make room returns: the loop of update_mem_size    *)
(* ends, which it does only if each eviction takes off what was counted.   *)
CallsReturn == pc \in {"update", "insert"} ~> pc = "idle"

-----------------------------------------------------------------------------
(* Refinement.                                                             *)

StoredValue(k) ==
  LET pages == {p \in LivePages : entries[p].key = k}
  IN IF pages = {} THEN NULL ELSE entries[CHOOSE p \in pages : TRUE].value

StoredMap == [k \in Key |-> IF pc = "destroyed" THEN NULL ELSE StoredValue(k)]

UseOrder ==
  IF pc = "destroyed" THEN <<>>
  ELSE [j \in 1 .. Cardinality(LivePages) |-> entries[ListOrder[j]].key]

\* A set that makes the table grow has stored its value before.
Growing == pc \in {"grow", "rehash"}

\* What a set is making room for, and what the caller was last told.
Waiting == IF Growing THEN NULL ELSE arg
Answer  == IF Growing THEN Returned("set", arg.key, arg.val, 0) ELSE ret

Promise == INSTANCE LruCache WITH
  store   <- StoredMap,
  order   <- UseOrder,
  pending <- Waiting,
  ret     <- Answer,
  mem_capacity <- MEM_CAPACITY,
  Capacities   <- {MEM_CAPACITY}

(* The cache keeps the promise of LruCache, step by step: it stores what   *)
(* it is given, evicts in the order of last use and only for want of room, *)
(* answers as it should, and every set returns.                            *)
KeepsPromise == Promise!Spec

Allocator == INSTANCE BookAllocator WITH
  PageCount <- INIT_ENTRY_CAPACITY,
  Slot      <- 0 .. GetHashTableCapacity(INIT_ENTRY_CAPACITY) - 1,
  held      <- LivePages

(* The cache uses its book as the book requires: it returns only pages     *)
(* that are in use, each once, and never needs more than the array holds.  *)
UsesBookCorrectly == Allocator!Spec

(* What remove_entry gives back stays on one free list, whose links lie in *)
(* the words that are cur_i while the pages hold entries: no page is lost  *)
(* or listed twice, however entries are evicted, deleted and moved.        *)
BookFreeListExact == Allocator!FreeListExact

(* A set that inserts is handed a page that holds no entry of the table    *)
(* and lies within the arena, after any evictions and deletions.           *)
BookPagesAreSafe == Allocator!PagesAreSafe

(***************************************************************************)
(* What cache.h says the calls answer: cache_space_used the size of all    *)
(* values, not of the keys (tests.cc expects it too), and cache_set 0 if   *)
(* no error occurred, which includes a value that overwrites another.      *)
(***************************************************************************)
AnswersAsDocumented ==
  pc = "idle" =>
    /\ ret.op = "space" =>
         ret.code = MapThenSumSet(LAMBDA i : entries[bookmarks[i]].value_size, LiveSlots)
    /\ ret.op = "set" =>
         (ret.code # 0 => EntrySize(ret.key, ret.val) > MEM_CAPACITY)

=============================================================================
