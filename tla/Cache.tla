------------------------------- MODULE Cache -------------------------------
(***************************************************************************)
(* The cache of cache.cc, as server.cc and the tests use it: one thread,   *)
(* one call at a time, eviction policy LRU.                                *)
(*                                                                         *)
(* A cache holds a hash table (key_hashes and bookmarks, two arrays over   *)
(* the same slots), a book of pages with one entry each, and the LRU list  *)
(* threaded through the pages.  Calls whose work is a bounded lookup are   *)
(* one action.  cache_set contains loops that change state (it evicts      *)
(* until the new value fits, and it rehashes the table): each iteration is *)
(* an action, and pc says where in the call the thread is.                 *)
(*                                                                         *)
(* Undefined behaviour: an access outside the arrays or through a null or  *)
(* never written pointer ends the model in pc = "undefined", after which   *)
(* the program promises nothing.                                           *)
(***************************************************************************)
EXTENDS FiniteSets, Hashing, Book, EvictionList

CONSTANTS
  Key, Value,          \* the keys and values callers use
  ValuesOf,            \* [Key -> SUBSET Value]: the values they store under a key
  KeySize, ValSize,    \* sizes in bytes; a key's includes its terminator
  Hash,                \* [Key -> Index]: the hash function given to create_cache
  MEM_CAPACITY,        \* max_mem
  INIT_ENTRY_CAPACITY, \* 64 in the code: a power of two
  MAX_ENTRY_CAPACITY,  \* bound of the model: it does not grow the table beyond
  NULL

ASSUME CacheAssumption ==
  /\ NULL \notin Key \cup Value \cup {JUNK}
  /\ JUNK \notin Key \cup Value
  /\ ValuesOf \in [Key -> SUBSET Value]
  /\ KeySize \in [Key -> Nat \ {0}]
  /\ ValSize \in [Value -> Nat]
  /\ Hash \in [Key -> Index]
  /\ INIT_ENTRY_CAPACITY \in Nat \ {0}
  /\ PowerOfTwo(INIT_ENTRY_CAPACITY)
  /\ 2 * INIT_ENTRY_CAPACITY \in Index
  /\ MAX_ENTRY_CAPACITY \in Nat

\* The largest memory the server accepts is ~HIGH_BIT (server.cc,
\* MAX_MAX_MEMORY): a capacity plus the size of one entry still is an Index.
ASSUME MemoryAssumption ==
  /\ MEM_CAPACITY \in 1 .. HIGH_BIT - 1
  /\ \A k \in Key : \A v \in Value : KeySize[k] + ValSize[v] \in Index

\* No call in progress is a value of its own.
ASSUME CallAssumption == NULL \notin [key : Key, val : Value]

VARIABLES
  mem_total, entry_capacity, entry_total, dead_total, \* fields of cache_obj
  key_hashes, bookmarks, \* the hash table
  entries,               \* the Entry in each page, without its links
  book,                  \* entry_book, with the link word of each page
  list,                  \* the evictor's list, with the node of each page
  pc,                    \* where the running call is; "idle" between calls
  arg,                   \* key and value of the running cache_set, or NULL
  at,                    \* its slot (inserting) or page (updating)
  old,                   \* the table being rehashed and the loop's counters
  ret                    \* the last call that returned, and what it returned

memory == <<key_hashes, bookmarks, entries, book, list>>
counts == <<mem_total, entry_capacity, entry_total, dead_total>>
vars == <<mem_total, entry_capacity, entry_total, dead_total, key_hashes,
          bookmarks, entries, book, list, pc, arg, at, old, ret>>

Pages == 0 .. entry_capacity - 1
Capacity == GetHashTableCapacity(entry_capacity)
Slots == 0 .. Capacity - 1

JunkEntry == [key |-> JUNK, key_size |-> JUNK, value |-> JUNK, value_size |-> JUNK]

\* An entry was put into page p at some time, so its fields are initialised.
Written(p) == entries[p].key # JUNK

Returned(op, k, v, code) == [op |-> op, key |-> k, val |-> v, code |-> code]

EntrySize(k, v) == ValSize[v] + KeySize[k]

-----------------------------------------------------------------------------
(* Probing.  Both loops look at the slots ProbeSlot(h, 0), ProbeSlot(h, 1) *)
(* ... of the table and stop at the first at which they have an answer.    *)

KeyHash(k) == GetHash(Hash[k])

SlotAt(k, c) == ProbeSlot(KeyHash(k), c, Capacity)

\* are_keys_equal would follow a null or a never written pointer.
Unreadable(i) ==
  \/ bookmarks[i] = JUNK
  \/ entries[bookmarks[i]].key \in {NULL, JUNK}

KeyAt(i) == entries[bookmarks[i]].key

\* (a variant: equal hashes are taken for equal keys)
ExaminedByHash(k, i) == key_hashes[i] = KeyHash(k)

\* The slots in which the loop looks into the entry and stops there.
Examined(k, i) ==
  /\ key_hashes[i] = KeyHash(k)
  /\ Unreadable(i) \/ KeyAt(i) = k

IsHit(k, i) == Examined(k, i) /\ ~Unreadable(i)

\* (a variant: a lookup ends at a deleted slot)
FindStopsAtDeleted(k) == {c \in 0 .. Capacity - 1 :
  ~IsLive(key_hashes[SlotAt(k, c)]) \/ Examined(k, SlotAt(k, c))}

\* find_entry skips deleted slots; cache_set takes the first it meets.
FindStops(k) == {c \in 0 .. Capacity - 1 :
  key_hashes[SlotAt(k, c)] = EMPTY \/ Examined(k, SlotAt(k, c))}

SetStops(k) == {c \in 0 .. Capacity - 1 :
  ~IsLive(key_hashes[SlotAt(k, c)]) \/ Examined(k, SlotAt(k, c))}

First(stops) == CHOOSE c \in stops : \A d \in stops : c <= d

\* After a walk over the whole table expected_i is back at the first slot.
StopSlot(k, stops) == SlotAt(k, IF stops = {} THEN 0 ELSE First(stops))

FindSlot(k) == StopSlot(k, FindStops(k))
SetSlot(k)  == StopSlot(k, SetStops(k))

Found(k) == FindStops(k) # {} /\ IsHit(k, FindSlot(k))

Faults(k, slot) == Examined(k, slot) /\ Unreadable(slot)

FindFaults(k) == FindStops(k) # {} /\ Faults(k, FindSlot(k))
SetFaults(k)  == SetStops(k) # {} /\ Faults(k, SetSlot(k))

-----------------------------------------------------------------------------
Init ==
  /\ mem_total = 0
  /\ entry_capacity = INIT_ENTRY_CAPACITY
  /\ entry_total = 0
  /\ dead_total = 0
  /\ key_hashes = [i \in Slots |-> EMPTY]
  /\ bookmarks = [i \in Slots |-> JUNK]
  /\ entries = [p \in Pages |-> JunkEntry]
  /\ book = CreateBook(Pages)
  /\ list = EmptyList(Pages)
  /\ pc = "idle"
  /\ arg = NULL
  /\ at = 0
  /\ old = NULL
  /\ ret = Returned("none", NULL, NULL, 0)

(***************************************************************************)
(* remove_entry(i), when the caller has already left the list as l.        *)
(***************************************************************************)
Removable(i) ==
  /\ i \in Slots
  /\ bookmarks[i] # JUNK
  /\ Written(bookmarks[i])

\* What remove_entry subtracts from mem_total.
\* (a variant: the key is not counted)
EntryMemoryNoKey(p) == entries[p].value_size

EntryMemory(p) == Wrap(entries[p].value_size + entries[p].key_size)

\* (a variant: the page is given back twice)
RemoveEntryTwice(i, l) ==
  LET p == bookmarks[i] IN
  /\ entries' = [entries EXCEPT ![p] = [@ EXCEPT !.key = NULL, !.value = NULL]]
  /\ key_hashes' = [key_hashes EXCEPT ![i] = DELETED]
  /\ entry_total' = Minus(entry_total, 1)
  /\ dead_total' = Wrap(dead_total + 1)
  /\ mem_total' = Minus(mem_total, EntryMemory(p))
  /\ list' = RemoveItem(l, p)
  /\ book' = FreeBookPage(FreeBookPage(book, p), p)
  /\ UNCHANGED <<entry_capacity, bookmarks>>

RemoveEntry(i, l) ==
  LET p == bookmarks[i] IN
  /\ entries' = [entries EXCEPT ![p] = [@ EXCEPT !.key = NULL, !.value = NULL]]
  /\ key_hashes' = [key_hashes EXCEPT ![i] = DELETED]
  /\ entry_total' = Minus(entry_total, 1)
  /\ dead_total' = Wrap(dead_total + 1)
  /\ mem_total' = Minus(mem_total, EntryMemory(p))
  /\ list' = RemoveItem(l, p)
  /\ book' = FreeBookPage(book, p)
  /\ UNCHANGED <<entry_capacity, bookmarks>>

-----------------------------------------------------------------------------
(* cache_set(k, v)                                                         *)

SetTooLarge(k, v) ==
  /\ pc = "idle"
  /\ EntrySize(k, v) > MEM_CAPACITY
  /\ ret' = Returned("set", k, v, -1)
  /\ UNCHANGED <<counts, memory, pc, arg, at, old>>

\* (a variant: the size of the old value is not taken off)
SetExistingCountsBoth(k, v) ==
  /\ pc = "idle"
  /\ EntrySize(k, v) <= MEM_CAPACITY
  /\ SetStops(k) # {} /\ IsHit(k, SetSlot(k))
  /\ at' = bookmarks[SetSlot(k)]
  /\ mem_total' = Wrap(mem_total + ValSize[v])
  /\ pc' = "update"
  /\ arg' = [key |-> k, val |-> v]
  /\ UNCHANGED <<entry_capacity, entry_total, dead_total, memory, old, ret>>

\* The key is in the table: account for the new size, evict, then replace.
SetExisting(k, v) ==
  /\ pc = "idle"
  /\ EntrySize(k, v) <= MEM_CAPACITY
  /\ SetStops(k) # {} /\ IsHit(k, SetSlot(k))
  /\ at' = bookmarks[SetSlot(k)]
  /\ mem_total' = Wrap(mem_total + Minus(ValSize[v], entries[at'].value_size))
  /\ pc' = "update"
  /\ arg' = [key |-> k, val |-> v]
  /\ UNCHANGED <<entry_capacity, entry_total, dead_total, memory, old, ret>>

\* (a variant: a resurrected slot stays counted as deleted)
SetNewCountsDead(k, v) ==
  /\ pc = "idle"
  /\ EntrySize(k, v) <= MEM_CAPACITY
  /\ SetStops(k) # {} => ~Examined(k, SetSlot(k))
  /\ at' = SetSlot(k)
  /\ mem_total' = Wrap(mem_total + EntrySize(k, v))
  /\ pc' = "insert"
  /\ arg' = [key |-> k, val |-> v]
  /\ UNCHANGED <<entry_capacity, entry_total, dead_total, memory, old, ret>>

\* The key was not met: claim the slot, resurrecting it if it is deleted.
SetNew(k, v) ==
  /\ pc = "idle"
  /\ EntrySize(k, v) <= MEM_CAPACITY
  /\ SetStops(k) # {} => ~Examined(k, SetSlot(k))
  /\ at' = SetSlot(k)
  /\ mem_total' = Wrap(mem_total + EntrySize(k, v))
  /\ dead_total' = IF key_hashes[at'] = DELETED
                   THEN Minus(dead_total, 1) ELSE dead_total
  /\ pc' = "insert"
  /\ arg' = [key |-> k, val |-> v]
  /\ UNCHANGED <<entry_capacity, entry_total, memory, old, ret>>

Evicting == pc \in {"update", "insert"} /\ mem_total > MEM_CAPACITY

CanEvict == list.head # INVALID_NODE /\ Removable(book.link[list.head])

\* One iteration of the loop in update_mem_size.  get_evict_item takes the
\* head off the list; remove_entry then removes it from the list again.
Evict ==
  /\ Evicting
  /\ CanEvict
  /\ RemoveEntry(book.link[list.head], RemoveItem(list, list.head))
  /\ UNCHANGED <<pc, arg, at, old, ret>>

FinishUpdate ==
  /\ pc = "update"
  /\ mem_total <= MEM_CAPACITY
  /\ list.head # INVALID_NODE
  /\ entries' = [entries EXCEPT ![at] = [@ EXCEPT !.value = arg.val,
                                                  !.value_size = ValSize[arg.val]]]
  /\ list' = SetLast(list, at)
  /\ ret' = Returned("set", arg.key, arg.val, 1)
  /\ pc' = "idle"
  /\ arg' = NULL
  /\ at' = 0
  /\ UNCHANGED <<counts, key_hashes, bookmarks, book, old>>

FinishInsert ==
  LET p == NextPage(book) IN
  /\ pc = "insert"
  /\ mem_total <= MEM_CAPACITY
  /\ p \in Pages
  /\ entry_total' = Wrap(entry_total + 1)
  /\ book' = WriteCurI(AllocBookPage(book), p, at)
  /\ entries' = [entries EXCEPT ![p] =
       [key |-> arg.key, key_size |-> KeySize[arg.key],
        value |-> arg.val, value_size |-> ValSize[arg.val]]]
  /\ list' = AppendItem(list, p)
  /\ key_hashes' = [key_hashes EXCEPT ![at] = KeyHash(arg.key)]
  /\ bookmarks' = [bookmarks EXCEPT ![at] = p]
  /\ at' = 0
  /\ IF IsExceedingLoad(entry_total', dead_total, entry_capacity)
     THEN pc' = "grow" /\ UNCHANGED <<arg, ret>>
     ELSE pc' = "idle" /\ arg' = NULL
          /\ ret' = Returned("set", arg.key, arg.val, 0)
  /\ UNCHANGED <<mem_total, entry_capacity, dead_total, old>>

-----------------------------------------------------------------------------
(* grow_cache_size, called at the end of an insertion                      *)

\* Allocate an arena of twice the capacity.  The pages are copied into it,
\* the marks cleared, everything else in it is junk.
GrowArena ==
  LET new_capacity == 2 * entry_capacity
      NewPages == 0 .. new_capacity - 1
      NewSlots == 0 .. GetHashTableCapacity(new_capacity) - 1
      Copied(f, fresh) == [p \in NewPages |-> IF p \in Pages THEN f[p] ELSE fresh]
  IN
  /\ pc = "grow"
  /\ new_capacity <= MAX_ENTRY_CAPACITY
  /\ entry_capacity' = new_capacity
  /\ old' = [key_hashes |-> key_hashes, bookmarks |-> bookmarks,
             i |-> 0, entries_left |-> entry_total]
  /\ key_hashes' = [i \in NewSlots |-> EMPTY]
  /\ bookmarks' = [i \in NewSlots |-> JUNK]
  /\ entries' = Copied(entries, JunkEntry)
  /\ book' = [book EXCEPT !.link = Copied(book.link, JUNK)]
  /\ list' = [list EXCEPT !.next = Copied(list.next, JUNK),
                          !.pre  = Copied(list.pre, JUNK)]
  /\ pc' = "rehash"
  /\ UNCHANGED <<mem_total, entry_total, dead_total, arg, at, ret>>

Rehashing == pc = "rehash" /\ old.entries_left > 0 /\ old.i \in DOMAIN old.key_hashes

RehashSkip ==
  /\ Rehashing
  /\ ~IsLive(old.key_hashes[old.i])
  /\ old' = [old EXCEPT !.i = old.i + 1]
  /\ UNCHANGED <<counts, memory, pc, arg, at, ret>>

\* The new slot of a hash: the first empty one, probing modulo new_capacity.
NewSlotAt(key_hash, c) == ProbeSlot(key_hash, c, entry_capacity)

NewSlotsFree(key_hash) ==
  {c \in 0 .. entry_capacity - 1 : key_hashes[NewSlotAt(key_hash, c)] = EMPTY}

NewSlot(key_hash) == NewSlotAt(key_hash, First(NewSlotsFree(key_hash)))

\* The bookmark is read from the old table at the new slot.  A word of it
\* that was never written may hold anything, the number of a page included.
RehashEntry ==
  LET key_hash == old.key_hashes[old.i]
      new_i    == NewSlot(key_hash)
  IN
  /\ Rehashing
  /\ IsLive(key_hash)
  /\ NewSlotsFree(key_hash) # {} \* the inner loop has no other end
  /\ \E p \in IF old.bookmarks[new_i] = JUNK THEN Pages ELSE {old.bookmarks[new_i]} :
       /\ book' = WriteCurI(book, p, new_i)
       /\ bookmarks' = [bookmarks EXCEPT ![new_i] = p]
  /\ key_hashes' = [key_hashes EXCEPT ![new_i] = key_hash]
  /\ old' = [old EXCEPT !.i = old.i + 1, !.entries_left = old.entries_left - 1]
  /\ UNCHANGED <<counts, entries, list, pc, arg, at, ret>>

RehashDone ==
  /\ pc = "rehash"
  /\ old.entries_left = 0
  /\ dead_total' = 0
  /\ old' = NULL
  /\ pc' = "idle"
  /\ ret' = Returned("set", arg.key, arg.val, 0)
  /\ arg' = NULL
  /\ UNCHANGED <<mem_total, entry_capacity, entry_total, memory, at>>

-----------------------------------------------------------------------------
(* cache_get, cache_delete, cache_space_used, destroy_cache                *)

GetHit(k) ==
  LET p == bookmarks[FindSlot(k)] IN
  /\ pc = "idle"
  /\ Found(k)
  /\ list.head # INVALID_NODE
  /\ list' = SetLast(list, p)
  /\ ret' = Returned("get", k, entries[p].value, 0)
  /\ UNCHANGED <<counts, key_hashes, bookmarks, entries, book, pc, arg, at, old>>

GetMiss(k) ==
  /\ pc = "idle"
  /\ ~Found(k) /\ ~FindFaults(k)
  /\ ret' = Returned("get", k, NULL, 0)
  /\ UNCHANGED <<counts, memory, pc, arg, at, old>>

DeleteHit(k) ==
  /\ pc = "idle"
  /\ Found(k)
  /\ RemoveEntry(FindSlot(k), list)
  /\ ret' = Returned("delete", k, NULL, 0)
  /\ UNCHANGED <<pc, arg, at, old>>

DeleteMiss(k) ==
  /\ pc = "idle"
  /\ ~Found(k) /\ ~FindFaults(k)
  /\ ret' = Returned("delete", k, NULL, -1)
  /\ UNCHANGED <<counts, memory, pc, arg, at, old>>

SpaceUsed ==
  /\ pc = "idle"
  /\ ret' = Returned("space", NULL, NULL, mem_total)
  /\ UNCHANGED <<counts, memory, pc, arg, at, old>>

LiveSlots == {i \in Slots : IsLive(key_hashes[i])}

LivePages == {bookmarks[i] : i \in LiveSlots}

\* (a variant: the values are not freed)
DestroyKeys ==
  /\ pc = "idle"
  /\ \A i \in LiveSlots : Removable(i)
  /\ entries' = [p \in Pages |->
       IF p \in LivePages THEN [entries[p] EXCEPT !.key = NULL] ELSE entries[p]]
  /\ pc' = "destroyed"
  /\ UNCHANGED <<counts, key_hashes, bookmarks, book, list, arg, at, old, ret>>

\* The key and the value of the entry of every live slot are freed.
Destroy ==
  /\ pc = "idle"
  /\ \A i \in LiveSlots : Removable(i)
  /\ entries' = [p \in Pages |->
       IF p \in LivePages THEN [entries[p] EXCEPT !.key = NULL, !.value = NULL]
                          ELSE entries[p]]
  /\ pc' = "destroyed"
  /\ UNCHANGED <<counts, key_hashes, bookmarks, book, list, arg, at, old, ret>>

-----------------------------------------------------------------------------
\* The next thing the thread does, or may do, is undefined behaviour.
Faulty ==
  \/ pc = "idle" /\ \E i \in LiveSlots : ~Removable(i)
  \/ pc = "idle" /\ \E k \in Key : FindFaults(k)
  \/ pc = "idle" /\ \E k \in Key : Found(k) /\ list.head = INVALID_NODE
  \/ pc = "idle" /\ \E k \in Key : SetFaults(k)
       /\ \E v \in ValuesOf[k] : EntrySize(k, v) <= MEM_CAPACITY
  \/ Evicting /\ ~CanEvict
  \/ pc = "update" /\ mem_total <= MEM_CAPACITY /\ list.head = INVALID_NODE
  \/ pc = "insert" /\ mem_total <= MEM_CAPACITY /\ NextPage(book) \notin Pages
  \/ pc = "rehash" /\ old.entries_left > 0 /\ old.i \notin DOMAIN old.key_hashes
  \/ /\ Rehashing /\ IsLive(old.key_hashes[old.i])
     /\ NewSlotsFree(old.key_hashes[old.i]) # {}
     /\ old.bookmarks[NewSlot(old.key_hashes[old.i])] = JUNK

Undefined ==
  /\ Faulty
  /\ pc' = "undefined"
  /\ UNCHANGED <<counts, memory, arg, at, old, ret>>

-----------------------------------------------------------------------------
Set(k, v) == SetTooLarge(k, v) \/ SetExisting(k, v) \/ SetNew(k, v)

Get(k) == GetHit(k) \/ GetMiss(k)

Delete(k) == DeleteHit(k) \/ DeleteMiss(k)

Grow == GrowArena \/ RehashSkip \/ RehashEntry \/ RehashDone

\* What the thread does by itself once a cache_set has begun.
Continue == Evict \/ FinishUpdate \/ FinishInsert \/ Grow

Next ==
  \/ \E k \in Key : \/ \E v \in ValuesOf[k] : Set(k, v)
                    \/ Get(k)
                    \/ Delete(k)
  \/ SpaceUsed
  \/ Destroy
  \/ Continue
  \/ Undefined

\* A thread inside a call keeps running; nobody has to make another call.
Spec == Init /\ [][Next]_vars /\ WF_vars(Continue)

-----------------------------------------------------------------------------
EntryType == [key : Key \cup {NULL}, key_size : Nat,
              value : Value \cup {NULL}, value_size : Nat]

CallType == [key : Key, val : Value]

\* The table that was replaced had as many slots as there are pages now.
OldType == [key_hashes : [0 .. entry_capacity - 1 -> Index],
            bookmarks : [0 .. entry_capacity - 1 -> Pages \cup {JUNK}],
            i : Nat, entries_left : Nat]

CountsOK ==
  /\ mem_total \in Index
  /\ entry_capacity \in Nat \ {0}
  /\ entry_total \in Index
  /\ dead_total \in Index

TableOK ==
  /\ key_hashes \in [Slots -> Index]
  /\ bookmarks \in [Slots -> Pages \cup {JUNK}]

PagesOK ==
  /\ entries \in [Pages -> EntryType \cup {JunkEntry}]
  /\ book \in [first_unused : Word, end : Nat, link : [Pages -> Word]]
  /\ list \in [head : Pages \cup {INVALID_NODE},
              next : [Pages -> Pages \cup {JUNK}],
              pre : [Pages -> Pages \cup {JUNK}]]

CallOK ==
  /\ pc \in {"idle", "update", "insert", "grow", "rehash", "destroyed", "undefined"}
  /\ arg \in CallType \cup {NULL}
  /\ at \in Nat
  /\ old \in OldType \cup {NULL}
  /\ ret \in [op : {"none", "set", "get", "delete", "space"},
             key : Key \cup {NULL}, val : Value \cup {NULL}, code : Int]

(* Every variable has the type its declaration in types.h gives it, and    *)
(* what was never written is confined: no count, hash or list head is ever *)
(* computed from it, in spite of evictions, growth and lost entries.       *)
TypeOK == CountsOK /\ TableOK /\ PagesOK /\ CallOK

(* A get answers with a value that some caller stored under that very key, *)
(* or with nothing: whatever evictions, collisions, reuse of pages and     *)
(* growth of the table lie between (find_entry compares the key in the     *)
(* page it was led to, and a page's key and value are written together).   *)
OwnValues ==
  ret.op = "get" => ret.val \in ValuesOf[ret.key] \cup {NULL}

=============================================================================
