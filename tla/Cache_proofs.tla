---------------------------- MODULE Cache_proofs ----------------------------
(***************************************************************************)
(* The cache keeps its data typed and its answers honest, for any keys,    *)
(* hashes, sizes and capacities: also where the table grows, where keys    *)
(* collide and where eviction hits the entry that is being replaced.       *)
(***************************************************************************)
EXTENDS Cache, Operators_proofs

\* Pages whose entry, and with it the node of the list, was initialised.
WrittenPages == {p \in Pages : Written(p)}

ListClosed == ClosedList(list, Pages, WrittenPages)

\* The running call has its arguments, and the page it will write to still
\* belongs to its key or to none.
CallInv ==
  /\ pc \in {"update", "insert", "grow", "rehash"} =>
       arg \in CallType /\ arg.val \in ValuesOf[arg.key]
  /\ pc = "update" =>
       at \in WrittenPages /\ entries[at].key \in {arg.key, NULL}
  /\ pc = "rehash" => old \in OldType

\* A page that holds a key holds a value stored under it.
PagesOwnValues ==
  \A p \in Pages : entries[p].key \in Key => entries[p].value \in ValuesOf[entries[p].key]

DataInv == CountsOK /\ TableOK /\ PagesOK /\ ListClosed /\ PagesOwnValues

(* The inductive invariant.                                                *)
IInv == DataInv /\ CallOK /\ CallInv /\ OwnValues

-----------------------------------------------------------------------------
(* Constants and probing.                                                  *)

LEMMA ConstantTypes ==
  /\ \A k \in Key : /\ KeyHash(k) \in Index
                    /\ ValuesOf[k] \subseteq Value
                    /\ KeySize[k] \in Nat
  /\ \A v \in Value : ValSize[v] \in Nat
  /\ \A k \in Key, v \in Value : EntrySize(k, v) \in Nat
  /\ \A n \in Index : n \in Nat
  /\ 0 \in Index /\ EMPTY \in Index /\ DELETED \in Index
<1>1. \A k \in Key : KeyHash(k) \in Index
  BY GetHashIsLive, CacheAssumption DEF KeyHash
<1>2. 0 \in Index /\ EMPTY \in Index /\ DELETED \in Index /\ \A n \in Index : n \in Nat
  BY IndexAssumption DEF Index, INDEX_RANGE, EMPTY, DELETED
<1> QED BY <1>1, <1>2, CacheAssumption DEF EntrySize

LEMMA EntryTypes ==
  /\ JunkEntry.key = JUNK /\ JunkEntry.key \notin Key \cup {NULL}
  /\ \A e \in EntryType : e.key # JUNK
BY CacheAssumption DEF JunkEntry, EntryType

LEMMA FirstType ==
  ASSUME NEW stops \in SUBSET Nat, stops # {}
  PROVE  First(stops) \in stops
BY LeastElement DEF First

LEMMA SlotAtType ==
  ASSUME CountsOK, NEW k \in Key, NEW c \in Nat
  PROVE  SlotAt(k, c) \in Slots
<1>1. Capacity \in Nat \ {0}
  BY DEF CountsOK, Capacity, GetHashTableCapacity
<1>2. ProbeSlot(KeyHash(k), c, Capacity) \in 0 .. Capacity - 1
  BY <1>1, ConstantTypes, ProbeSlotType
<1> QED BY <1>2 DEF SlotAt, Slots

LEMMA FindSlotType ==
  ASSUME CountsOK, NEW k \in Key
  PROVE  FindSlot(k) \in Slots /\ SetSlot(k) \in Slots
<1>1. FindStops(k) \subseteq Nat /\ SetStops(k) \subseteq Nat
  BY DEF CountsOK, Capacity, GetHashTableCapacity, FindStops, SetStops
<1>2. FindStops(k) # {} => First(FindStops(k)) \in Nat
  BY <1>1, FirstType
<1>3. SetStops(k) # {} => First(SetStops(k)) \in Nat
  BY <1>1, FirstType
<1> QED BY <1>2, <1>3, SlotAtType DEF FindSlot, SetSlot, StopSlot

(* A slot at which a key is hit leads to an initialised page with the key. *)
LEMMA HitType ==
  ASSUME CountsOK, TableOK, PagesOK, NEW k \in Key, NEW i \in Slots, IsHit(k, i)
  PROVE  /\ bookmarks[i] \in WrittenPages
         /\ entries[bookmarks[i]] \in EntryType
         /\ entries[bookmarks[i]].key = k
<1>1. bookmarks[i] \in Pages /\ entries[bookmarks[i]].key = k
  BY DEF IsHit, Examined, Unreadable, KeyAt, TableOK
<1>2. entries[bookmarks[i]] \in EntryType
  BY <1>1, EntryTypes DEF PagesOK
<1> QED BY <1>1, <1>2, EntryTypes DEF WrittenPages, Written

LEMMA WrittenType ==
  ASSUME PagesOK, NEW p \in WrittenPages
  PROVE  p \in Pages /\ entries[p] \in EntryType
BY EntryTypes DEF WrittenPages, Written, PagesOK

-----------------------------------------------------------------------------
(* Changes of one page.                                                    *)

(* Replacing the entry of an initialised page keeps the pages typed and    *)
(* the set of initialised pages the same.                                  *)
LEMMA EntryReplaced ==
  ASSUME PagesOK, NEW p \in WrittenPages, NEW e \in EntryType,
         entries' = [entries EXCEPT ![p] = e], entry_capacity' = entry_capacity
  PROVE  /\ entries' \in [Pages -> EntryType \cup {JunkEntry}]
         /\ Pages' = Pages /\ WrittenPages' = WrittenPages
         /\ entries'[p] = e /\ \A q \in Pages \ {p} : entries'[q] = entries[q]
<1>1. p \in Pages /\ entries[p].key # JUNK /\ e.key # JUNK
  BY EntryTypes DEF WrittenPages, Written
<1>2. Pages' = Pages
  BY DEF Pages
<1>3. entries \in [Pages -> EntryType \cup {JunkEntry}]
  BY DEF PagesOK
<1>4. /\ entries' \in [Pages -> EntryType \cup {JunkEntry}]
      /\ entries'[p] = e /\ \A q \in Pages \ {p} : entries'[q] = entries[q]
  BY <1>1, <1>3
<1>5. WrittenPages' = WrittenPages
  BY <1>1, <1>2, <1>4 DEF WrittenPages, Written
<1> QED BY <1>2, <1>4, <1>5

(* An entry that lost its key and its value.                               *)
LEMMA ClearedEntry ==
  ASSUME NEW e \in EntryType
  PROVE  LET cleared == [e EXCEPT !.key = NULL, !.value = NULL]
         IN  cleared \in EntryType /\ cleared.key = NULL
BY DEF EntryType

LEMMA BookTyped ==
  ASSUME PagesOK, NEW p \in Pages
  PROVE  /\ FreeBookPage(book, p) \in [first_unused : Word, end : Nat, link : [Pages -> Word]]
         /\ \A slot \in Nat : WriteCurI(book, p, slot)
                             \in [first_unused : Word, end : Nat, link : [Pages -> Word]]
<1>1. book \in [first_unused : Word, end : Nat, link : [Pages -> Word]]
  BY DEF PagesOK
<1>2. p \in Word /\ \A slot \in Nat : slot \in Word
  BY DEF Pages, Word
<1>3. [book.link EXCEPT ![p] = book.first_unused] \in [Pages -> Word]
  BY <1>1
<1>4. \A slot \in Nat : [book.link EXCEPT ![p] = slot] \in [Pages -> Word]
  BY <1>1, <1>2
<1>5. FreeBookPage(book, p) \in [first_unused : Word, end : Nat, link : [Pages -> Word]]
  BY <1>1, <1>2, <1>3 DEF FreeBookPage
<1>6. \A slot \in Nat : WriteCurI(book, p, slot)
                       \in [first_unused : Word, end : Nat, link : [Pages -> Word]]
  BY <1>1, <1>4 DEF WriteCurI
<1> QED BY <1>5, <1>6

(* remove_entry, called with the list l.                                   *)
LEMMA RemoveEntryStep ==
  ASSUME CountsOK, TableOK, PagesOK, NEW i, Removable(i),
         NEW l, ClosedList(l, Pages, WrittenPages), RemoveEntry(i, l)
  PROVE  /\ CountsOK' /\ TableOK' /\ PagesOK' /\ ListClosed'
         /\ Pages' = Pages /\ WrittenPages' = WrittenPages
         /\ entry_capacity' = entry_capacity
         /\ \A q \in Pages : \/ entries'[q] = entries[q]
                            \/ entries'[q].key = NULL
<1> DEFINE p == bookmarks[i]
           cleared == [entries[p] EXCEPT !.key = NULL, !.value = NULL]
<1>1. i \in Slots /\ p \in Pages /\ p \in WrittenPages
  BY DEF Removable, TableOK, WrittenPages
<1>2. entries[p] \in EntryType
  BY <1>1, WrittenType
<1>3. cleared \in EntryType /\ cleared.key = NULL
  BY <1>2, ClearedEntry
<1>4. entries' = [entries EXCEPT ![p] = cleared] /\ entry_capacity' = entry_capacity
  BY DEF RemoveEntry
<1> HIDE DEF cleared
<1>5. /\ entries' \in [Pages -> EntryType \cup {JunkEntry}]
      /\ Pages' = Pages /\ WrittenPages' = WrittenPages
      /\ entries'[p] = cleared /\ \A q \in Pages \ {p} : entries'[q] = entries[q]
  BY <1>1, <1>3, <1>4, EntryReplaced
<1>6. CountsOK'
  <2>1. entries[p].value_size + entries[p].key_size \in Int
    BY <1>2 DEF EntryType
  <2>2. EntryMemory(p) \in Index
    BY <2>1, WrapType DEF EntryMemory
  <2>3. /\ mem_total \in Int /\ entry_total \in Int /\ dead_total + 1 \in Int
        /\ EntryMemory(p) \in Int
    BY <2>2, ConstantTypes DEF CountsOK
  <2>4. Minus(mem_total, EntryMemory(p)) \in Index
    BY <2>3, MinusType
  <2>5. Minus(entry_total, 1) \in Index
    BY <2>3, MinusType
  <2>6. Wrap(dead_total + 1) \in Index
    BY <2>3, WrapType
  <2> QED BY <2>4, <2>5, <2>6 DEF RemoveEntry, CountsOK
<1>7. TableOK'
  <2>1. Slots' = Slots
    BY <1>4 DEF Slots, Capacity, GetHashTableCapacity
  <2>2. key_hashes' \in [Slots -> Index]
    BY ConstantTypes DEF RemoveEntry, TableOK
  <2> QED BY <1>5, <2>1, <2>2 DEF RemoveEntry, TableOK
<1>8. ClosedList(list', Pages, WrittenPages)
  BY <1>1, RemoveItemClosed DEF RemoveEntry
<1>9. ListClosed'
  BY <1>5, <1>8 DEF ListClosed
<1>10. PagesOK'
  <2>1. book' \in [first_unused : Word, end : Nat, link : [Pages -> Word]]
    BY <1>1, BookTyped DEF RemoveEntry
  <2>2. list' \in [head : Pages \cup {INVALID_NODE},
                  next : [Pages -> Pages \cup {JUNK}],
                  pre : [Pages -> Pages \cup {JUNK}]]
    BY <1>8 DEF ClosedList
  <2> QED BY <1>5, <2>1, <2>2 DEF PagesOK
<1> QED BY <1>3, <1>4, <1>5, <1>6, <1>7, <1>9, <1>10

-----------------------------------------------------------------------------
(* Steps that change counts only, or nothing but the state of the call.    *)

LEMMA MemoryUnchanged ==
  ASSUME DataInv, UNCHANGED memory, entry_capacity' = entry_capacity,
         mem_total' \in Index, entry_total' \in Index, dead_total' \in Index
  PROVE  /\ DataInv' /\ Pages' = Pages /\ WrittenPages' = WrittenPages
         /\ OldType' = OldType
<1>1. /\ key_hashes' = key_hashes /\ bookmarks' = bookmarks
      /\ entries' = entries /\ book' = book /\ list' = list
  BY DEF memory
<1>2. Pages' = Pages /\ Slots' = Slots
  BY DEF Pages, Slots, Capacity, GetHashTableCapacity
<1>3. WrittenPages' = WrittenPages
  BY <1>1, <1>2 DEF WrittenPages, Written
<1>4. OldType' = OldType
  BY <1>2 DEF OldType
<1>5. CountsOK'
  BY DEF DataInv, CountsOK
<1>6. TableOK' /\ PagesOK'
  BY <1>1, <1>2 DEF DataInv, TableOK, PagesOK
<1>7. ListClosed'
  BY <1>1, <1>2, <1>3 DEF DataInv, ListClosed
<1>8. PagesOwnValues'
  BY <1>1, <1>2 DEF DataInv, PagesOwnValues
<1> QED BY <1>2, <1>3, <1>4, <1>5, <1>6, <1>7, <1>8 DEF DataInv

LEMMA CountsUnchanged ==
  ASSUME DataInv, UNCHANGED counts
  PROVE  /\ mem_total' \in Index /\ entry_total' \in Index /\ dead_total' \in Index
         /\ entry_capacity' = entry_capacity
BY DEF DataInv, CountsOK, counts

\* What a call may report.
RetType == [op : {"none", "set", "get", "delete", "space"},
            key : Key \cup {NULL}, val : Value \cup {NULL}, code : Int]

LEMMA ReturnedType ==
  ASSUME NEW op \in {"none", "set", "get", "delete", "space"},
         NEW k \in Key \cup {NULL}, NEW v \in Value \cup {NULL}, NEW code \in Int
  PROVE  /\ Returned(op, k, v, code) \in RetType
         /\ Returned(op, k, v, code).op = op
         /\ Returned(op, k, v, code).key = k
         /\ Returned(op, k, v, code).val = v
BY DEF Returned, RetType

(* A call that reports and leaves the cache as it is.                      *)
LEMMA ReportStep ==
  ASSUME IInv, UNCHANGED <<counts, memory, pc, arg, at, old>>,
         ret' \in RetType, OwnValues'
  PROVE  IInv'
<1>1. DataInv' /\ WrittenPages' = WrittenPages /\ OldType' = OldType
  BY CountsUnchanged, MemoryUnchanged DEF IInv
<1>2. CallOK'
  BY <1>1 DEF IInv, CallOK, RetType
<1>3. entries' = entries
  BY DEF memory
<1>4. CallInv'
  BY <1>1, <1>3 DEF IInv, CallInv
<1> QED BY <1>1, <1>2, <1>4 DEF IInv

LEMMA SetTooLargeStep ==
  ASSUME IInv, NEW k \in Key, NEW v \in ValuesOf[k], SetTooLarge(k, v)
  PROVE  IInv'
<1>1. v \in Value
  BY ConstantTypes
<1>2. ret' = Returned("set", k, v, -1)
  BY DEF SetTooLarge
<1>3. ret' \in RetType /\ ret'.op = "set"
  BY <1>1, <1>2, ReturnedType
<1> QED BY <1>3, ReportStep DEF SetTooLarge, OwnValues

LEMMA GetMissStep ==
  ASSUME IInv, NEW k \in Key, GetMiss(k)
  PROVE  IInv'
<1>1. ret' = Returned("get", k, NULL, 0)
  BY DEF GetMiss
<1>2. ret' \in RetType /\ ret'.val = NULL
  BY <1>1, ReturnedType
<1> QED BY <1>2, ReportStep DEF GetMiss, OwnValues

LEMMA DeleteMissStep ==
  ASSUME IInv, NEW k \in Key, DeleteMiss(k)
  PROVE  IInv'
<1>1. ret' = Returned("delete", k, NULL, -1)
  BY DEF DeleteMiss
<1>2. ret' \in RetType /\ ret'.op = "delete"
  BY <1>1, ReturnedType
<1> QED BY <1>2, ReportStep DEF DeleteMiss, OwnValues

LEMMA SpaceUsedStep ==
  ASSUME IInv, SpaceUsed
  PROVE  IInv'
<1>1. ret' = Returned("space", NULL, NULL, mem_total) /\ mem_total \in Int
  BY ConstantTypes DEF SpaceUsed, IInv, DataInv, CountsOK
<1>2. ret' \in RetType /\ ret'.op = "space"
  BY <1>1 DEF Returned, RetType
<1> QED BY <1>2, ReportStep DEF SpaceUsed, OwnValues

LEMMA UndefinedStep ==
  ASSUME IInv, Undefined
  PROVE  IInv'
<1>1. /\ UNCHANGED <<counts, memory, arg, at, old, ret>> /\ pc' = "undefined"
  BY DEF Undefined
<1>2. DataInv' /\ OldType' = OldType
  BY <1>1, CountsUnchanged, MemoryUnchanged DEF IInv
<1>3. CallOK'
  BY <1>1, <1>2 DEF IInv, CallOK
<1>4. CallInv' /\ OwnValues'
  BY <1>1 DEF IInv, CallInv, OwnValues
<1> QED BY <1>2, <1>3, <1>4 DEF IInv

-----------------------------------------------------------------------------
(* Steps of cache_set.                                                     *)

LEMMA SetExistingStep ==
  ASSUME IInv, NEW k \in Key, NEW v \in ValuesOf[k], SetExisting(k, v)
  PROVE  IInv'
<1> DEFINE p == bookmarks[SetSlot(k)]
<1>1. /\ UNCHANGED <<entry_capacity, entry_total, dead_total, memory, old, ret>>
      /\ at' = p /\ pc' = "update" /\ arg' = [key |-> k, val |-> v]
      /\ mem_total' = Wrap(mem_total + Minus(ValSize[v], entries[p].value_size))
  BY DEF SetExisting
<1>2. p \in WrittenPages /\ entries[p] \in EntryType /\ entries[p].key = k
  BY FindSlotType, HitType DEF SetExisting, IInv, DataInv
<1>3. v \in Value
  BY ConstantTypes
<1>4. mem_total' \in Index
  <2>1. ValSize[v] \in Int /\ entries[p].value_size \in Int
    BY <1>2, <1>3, ConstantTypes DEF EntryType
  <2>2. Minus(ValSize[v], entries[p].value_size) \in Index
    BY <2>1, MinusType
  <2>3. mem_total \in Int
    BY ConstantTypes DEF IInv, DataInv, CountsOK
  <2>4. mem_total + Minus(ValSize[v], entries[p].value_size) \in Int
    BY <2>2, <2>3, ConstantTypes
  <2> QED BY <1>1, <2>4, WrapType
<1>5. entry_total' \in Index /\ dead_total' \in Index
  BY <1>1 DEF IInv, DataInv, CountsOK
<1>6. DataInv' /\ Pages' = Pages /\ WrittenPages' = WrittenPages /\ OldType' = OldType
  BY <1>1, <1>4, <1>5, MemoryUnchanged DEF IInv
<1>7. entries' = entries
  BY <1>1 DEF memory
<1>8. arg' \in CallType /\ arg'.val \in ValuesOf[arg'.key] /\ arg'.key = k
  BY <1>1, <1>3 DEF CallType
<1>9. CallOK'
  BY <1>1, <1>2, <1>6, <1>8 DEF IInv, CallOK, WrittenPages, Pages
<1>10. CallInv'
  BY <1>1, <1>2, <1>6, <1>7, <1>8 DEF CallInv
<1>11. OwnValues'
  BY <1>1 DEF IInv, OwnValues
<1> QED BY <1>6, <1>9, <1>10, <1>11 DEF IInv

LEMMA SetNewStep ==
  ASSUME IInv, NEW k \in Key, NEW v \in ValuesOf[k], SetNew(k, v)
  PROVE  IInv'
<1>1. /\ UNCHANGED <<entry_capacity, entry_total, memory, old, ret>>
      /\ at' = SetSlot(k) /\ pc' = "insert" /\ arg' = [key |-> k, val |-> v]
      /\ mem_total' = Wrap(mem_total + EntrySize(k, v))
      /\ dead_total' \in {Minus(dead_total, 1), dead_total}
  BY DEF SetNew
<1>2. at' \in Nat
  BY <1>1, FindSlotType DEF IInv, DataInv, Slots
<1>3. v \in Value
  BY ConstantTypes
<1>4. mem_total \in Int /\ dead_total \in Int /\ dead_total \in Index /\ entry_total \in Index
  BY ConstantTypes DEF IInv, DataInv, CountsOK
<1>5. mem_total' \in Index
  <2>1. mem_total + EntrySize(k, v) \in Int
    BY <1>3, <1>4, ConstantTypes
  <2> QED BY <1>1, <2>1, WrapType
<1>6. dead_total' \in Index /\ entry_total' \in Index
  BY <1>1, <1>4, MinusType
<1>7. DataInv' /\ OldType' = OldType
  BY <1>1, <1>5, <1>6, MemoryUnchanged DEF IInv
<1>8. arg' \in CallType /\ arg'.val \in ValuesOf[arg'.key]
  BY <1>1, <1>3 DEF CallType
<1>9. CallOK'
  BY <1>1, <1>2, <1>7, <1>8 DEF IInv, CallOK
<1>10. CallInv' /\ OwnValues'
  BY <1>1, <1>8 DEF IInv, CallInv, OwnValues
<1> QED BY <1>7, <1>9, <1>10 DEF IInv

\* After remove_entry every page holds its own value or no key.
LEMMA OwnAfterRemoval ==
  ASSUME PagesOwnValues, Pages' = Pages,
         \A q \in Pages : entries'[q] = entries[q] \/ entries'[q].key = NULL
  PROVE  PagesOwnValues'
BY CacheAssumption DEF PagesOwnValues

LEMMA EvictStep ==
  ASSUME IInv, Evict
  PROVE  IInv'
<1>1. PICK l : l = RemoveItem(list, list.head)
  OBVIOUS
<1>2. PICK i : i = book.link[list.head]
  OBVIOUS
<1>3. list.head \in WrittenPages
  BY DEF Evict, CanEvict, IInv, DataInv, ListClosed, ClosedList
<1>4. ClosedList(l, Pages, WrittenPages)
  BY <1>1, <1>3, RemoveItemClosed DEF IInv, DataInv, ListClosed
<1>5. /\ Removable(i) /\ RemoveEntry(i, l) /\ UNCHANGED <<pc, arg, at, old, ret>>
      /\ pc \in {"update", "insert"}
  BY <1>1, <1>2 DEF Evict, CanEvict, Evicting
<1>6. /\ CountsOK' /\ TableOK' /\ PagesOK' /\ ListClosed'
      /\ Pages' = Pages /\ WrittenPages' = WrittenPages /\ entry_capacity' = entry_capacity
      /\ \A q \in Pages : entries'[q] = entries[q] \/ entries'[q].key = NULL
  BY <1>4, <1>5, RemoveEntryStep DEF IInv, DataInv
<1>7. DataInv'
  BY <1>6, OwnAfterRemoval DEF IInv, DataInv
<1>8. CallOK'
  BY <1>5, <1>6 DEF IInv, CallOK, OldType
<1>9. CallInv'
  BY <1>5, <1>6 DEF IInv, CallInv, WrittenPages
<1>10. OwnValues'
  BY <1>5 DEF IInv, OwnValues
<1> QED BY <1>7, <1>8, <1>9, <1>10 DEF IInv

LEMMA DeleteHitStep ==
  ASSUME IInv, NEW k \in Key, DeleteHit(k)
  PROVE  IInv'
<1>1. PICK i : i = FindSlot(k)
  OBVIOUS
<1>2. PICK l : l = list
  OBVIOUS
<1>3. ClosedList(l, Pages, WrittenPages)
  BY <1>2 DEF IInv, DataInv, ListClosed
<1>4. /\ RemoveEntry(i, l) /\ UNCHANGED <<pc, arg, at, old>> /\ pc = "idle"
      /\ ret' = Returned("delete", k, NULL, 0) /\ IsHit(k, i)
  BY <1>1, <1>2 DEF DeleteHit, Found
<1>5. i \in Slots /\ bookmarks[i] \in WrittenPages
  BY <1>1, <1>4, FindSlotType, HitType DEF IInv, DataInv
<1>6. Removable(i)
  BY <1>4, <1>5 DEF Removable, WrittenPages, IsHit, Unreadable
<1>7. /\ CountsOK' /\ TableOK' /\ PagesOK' /\ ListClosed'
      /\ Pages' = Pages /\ WrittenPages' = WrittenPages /\ entry_capacity' = entry_capacity
      /\ \A q \in Pages : entries'[q] = entries[q] \/ entries'[q].key = NULL
  BY <1>3, <1>4, <1>6, RemoveEntryStep DEF IInv, DataInv
<1>8. DataInv'
  BY <1>7, OwnAfterRemoval DEF IInv, DataInv
<1>9. ret' \in RetType /\ ret'.op = "delete"
  BY <1>4, ReturnedType
<1>10. CallOK'
  BY <1>4, <1>7, <1>9 DEF IInv, CallOK, OldType, RetType
<1>11. CallInv' /\ OwnValues'
  BY <1>4, <1>9 DEF IInv, CallInv, OwnValues
<1> QED BY <1>8, <1>10, <1>11 DEF IInv

LEMMA FinishUpdateStep ==
  ASSUME IInv, FinishUpdate
  PROVE  IInv'
<1> DEFINE e == [entries[at] EXCEPT !.value = arg.val, !.value_size = ValSize[arg.val]]
<1>1. /\ pc = "update" /\ list.head # INVALID_NODE
      /\ entries' = [entries EXCEPT ![at] = e] /\ list' = SetLast(list, at)
      /\ UNCHANGED <<counts, key_hashes, bookmarks, book, old>>
      /\ pc' = "idle" /\ arg' = NULL /\ at' = 0
      /\ ret' = Returned("set", arg.key, arg.val, 1)
  BY DEF FinishUpdate
<1>2. /\ arg \in CallType /\ arg.val \in ValuesOf[arg.key]
      /\ at \in WrittenPages /\ entries[at].key \in {arg.key, NULL}
  BY <1>1 DEF IInv, CallInv
<1>3. entries[at] \in EntryType /\ at \in Pages
  BY <1>2, WrittenType DEF IInv, DataInv
<1>4. ValSize[arg.val] \in Nat
  BY <1>2, ConstantTypes DEF CallType
<1>5. e \in EntryType /\ e.key \in {arg.key, NULL} /\ e.value = arg.val
  BY <1>2, <1>3, <1>4 DEF EntryType, CallType
<1> HIDE DEF e
<1>6. entry_capacity' = entry_capacity /\ CountsOK'
  BY <1>1 DEF counts, IInv, DataInv, CountsOK
<1>7. /\ entries' \in [Pages -> EntryType \cup {JunkEntry}]
      /\ Pages' = Pages /\ WrittenPages' = WrittenPages
      /\ entries'[at] = e /\ \A q \in Pages \ {at} : entries'[q] = entries[q]
  BY <1>1, <1>2, <1>5, <1>6, EntryReplaced DEF IInv, DataInv
<1>8. ClosedList(list', Pages, WrittenPages)
  BY <1>1, <1>2, SetLastClosed DEF IInv, DataInv, ListClosed
<1>9. ListClosed'
  BY <1>7, <1>8 DEF ListClosed
<1>10. TableOK'
  BY <1>1, <1>6, <1>7 DEF IInv, DataInv, TableOK, Slots, Capacity
<1>11. PagesOK'
  BY <1>1, <1>7, <1>8 DEF IInv, DataInv, PagesOK, ClosedList
<1>12. PagesOwnValues'
  BY <1>2, <1>5, <1>7, CacheAssumption DEF IInv, DataInv, PagesOwnValues
<1>13. ret' \in RetType /\ ret'.op = "set"
  BY <1>1, <1>2 DEF Returned, RetType, CallType
<1>14. CallOK'
  BY <1>1, <1>7, <1>6, <1>13 DEF IInv, CallOK, OldType, RetType
<1>15. CallInv' /\ OwnValues'
  BY <1>1, <1>13 DEF CallInv, OwnValues
<1> QED BY <1>6, <1>9, <1>10, <1>11, <1>12, <1>14, <1>15 DEF IInv, DataInv

LEMMA FinishInsertStep ==
  ASSUME IInv, FinishInsert
  PROVE  IInv'
<1> DEFINE p == NextPage(book)
           e == [key |-> arg.key, key_size |-> KeySize[arg.key],
                 value |-> arg.val, value_size |-> ValSize[arg.val]]
           after == AllocBookPage(book)
<1>1. /\ pc = "insert" /\ p \in Pages
      /\ entry_total' = Wrap(entry_total + 1)
      /\ book' = WriteCurI(after, p, at)
      /\ entries' = [entries EXCEPT ![p] = e]
      /\ list' = AppendItem(list, p)
      /\ key_hashes' = [key_hashes EXCEPT ![at] = KeyHash(arg.key)]
      /\ bookmarks' = [bookmarks EXCEPT ![at] = p]
      /\ at' = 0
      /\ \/ pc' = "grow" /\ UNCHANGED <<arg, ret>>
         \/ /\ pc' = "idle" /\ arg' = NULL
            /\ ret' = Returned("set", arg.key, arg.val, 0)
      /\ UNCHANGED <<mem_total, entry_capacity, dead_total, old>>
  BY DEF FinishInsert
<1>2. arg \in CallType /\ arg.val \in ValuesOf[arg.key] /\ at \in Nat
  BY <1>1 DEF IInv, CallInv, CallOK
<1>3. Pages' = Pages /\ Slots' = Slots /\ OldType' = OldType
  BY <1>1 DEF Pages, Slots, Capacity, OldType
<1>4. CountsOK'
  <2>1. entry_total + 1 \in Int
    BY ConstantTypes DEF IInv, DataInv, CountsOK
  <2> QED BY <1>1, <2>1, WrapType DEF IInv, DataInv, CountsOK
<1>5. TableOK'
  <2>1. KeyHash(arg.key) \in Index
    BY <1>2, ConstantTypes DEF CallType
  <2> QED BY <1>1, <1>3, <2>1 DEF IInv, DataInv, TableOK
<1>6. e \in EntryType /\ e.key = arg.key /\ e.value = arg.val
  BY <1>2, ConstantTypes DEF EntryType, CallType
<1>7. book' \in [first_unused : Word, end : Nat, link : [Pages -> Word]]
  <2>1. book \in [first_unused : Word, end : Nat, link : [Pages -> Word]]
    BY DEF IInv, DataInv, PagesOK
  <2>2. after \in [first_unused : Word, end : Nat, link : [Pages -> Word]]
    <3>1. CASE book.first_unused = INVALID_PAGE
      <4>1. after = [book EXCEPT !.end = book.end + 1]
        BY <3>1 DEF AllocBookPage
      <4> QED BY <2>1, <4>1
    <3>2. CASE book.first_unused # INVALID_PAGE
      <4>1. book.first_unused \in Pages
        BY <1>1, <3>2 DEF NextPage
      <4>2. after = [book EXCEPT !.first_unused = book.link[book.first_unused]]
        BY <3>2 DEF AllocBookPage
      <4> QED BY <2>1, <4>1, <4>2
    <3> QED BY <3>1, <3>2
  <2> HIDE DEF after
  <2>3. at \in Word
    BY <1>2 DEF Word
  <2>4. [after.link EXCEPT ![p] = at] \in [Pages -> Word]
    BY <2>2, <2>3
  <2> QED BY <1>1, <2>2, <2>4 DEF WriteCurI
<1> HIDE DEF e, p, after
<1>8. entries' \in [Pages -> EntryType \cup {JunkEntry}]
  BY <1>1, <1>6 DEF IInv, DataInv, PagesOK
<1>9. entries'[p] = e /\ \A q \in Pages \ {p} : entries'[q] = entries[q]
  BY <1>1 DEF IInv, DataInv, PagesOK
<1>10. WrittenPages' = WrittenPages \cup {p}
  BY <1>1, <1>3, <1>6, <1>9, EntryTypes DEF WrittenPages, Written
<1>11. ClosedList(list', Pages, WrittenPages \cup {p})
  BY <1>1, AppendItemClosed DEF IInv, DataInv, ListClosed
<1>12. ListClosed'
  BY <1>3, <1>10, <1>11 DEF ListClosed
<1>13. PagesOK'
  BY <1>3, <1>7, <1>8, <1>11 DEF PagesOK, ClosedList
<1>14. PagesOwnValues'
  BY <1>2, <1>3, <1>6, <1>9 DEF IInv, DataInv, PagesOwnValues
<1>15. Returned("set", arg.key, arg.val, 0) \in RetType
       /\ Returned("set", arg.key, arg.val, 0).op = "set"
  BY <1>2 DEF Returned, RetType, CallType
<1>16. CallOK'
  BY <1>1, <1>2, <1>3, <1>15 DEF IInv, CallOK, RetType
<1>17. CallInv' /\ OwnValues'
  BY <1>1, <1>2, <1>15 DEF IInv, CallInv, OwnValues
<1> QED BY <1>4, <1>5, <1>12, <1>13, <1>14, <1>16, <1>17 DEF IInv, DataInv

-----------------------------------------------------------------------------
(* Steps of grow_cache_size.                                               *)

\* A function on pages copied into a larger array.
Copied(f, pages, fresh) == [p \in pages |-> IF p \in Pages THEN f[p] ELSE fresh]

LEMMA GrowArenaStep ==
  ASSUME IInv, GrowArena
  PROVE  IInv'
<1> DEFINE NewPages == 0 .. entry_capacity' - 1
           NewSlots == 0 .. GetHashTableCapacity(entry_capacity') - 1
<1>1. /\ pc = "grow" /\ entry_capacity' = 2 * entry_capacity
      /\ old' = [key_hashes |-> key_hashes, bookmarks |-> bookmarks,
                 i |-> 0, entries_left |-> entry_total]
      /\ key_hashes' = [i \in NewSlots |-> EMPTY]
      /\ bookmarks' = [i \in NewSlots |-> JUNK]
      /\ entries' = Copied(entries, NewPages, JunkEntry)
      /\ book' = [book EXCEPT !.link = Copied(book.link, NewPages, JUNK)]
      /\ list' = [list EXCEPT !.next = Copied(list.next, NewPages, JUNK),
                              !.pre  = Copied(list.pre, NewPages, JUNK)]
      /\ pc' = "rehash"
      /\ UNCHANGED <<mem_total, entry_total, dead_total, arg, at, ret>>
  BY DEF GrowArena, Copied
<1>2. entry_capacity \in Nat \ {0} /\ entry_capacity' \in Nat \ {0}
  BY <1>1 DEF IInv, DataInv, CountsOK
<1>3. Pages' = NewPages /\ Slots' = NewSlots /\ Slots = 0 .. entry_capacity' - 1
  BY <1>1 DEF Pages, Slots, Capacity, GetHashTableCapacity
<1>4. Pages \subseteq NewPages
  BY <1>1, <1>2 DEF Pages
<1> HIDE DEF NewPages, NewSlots
<1>5. CountsOK'
  BY <1>1, <1>2 DEF IInv, DataInv, CountsOK
<1>6. TableOK'
  BY <1>1, <1>3, ConstantTypes DEF TableOK
<1>7. /\ entries' \in [NewPages -> EntryType \cup {JunkEntry}]
      /\ \A p \in NewPages : entries'[p] = IF p \in Pages THEN entries[p] ELSE JunkEntry
  BY <1>1 DEF IInv, DataInv, PagesOK, Copied
<1>8. WrittenPages' = WrittenPages
  BY <1>3, <1>4, <1>7, EntryTypes DEF WrittenPages, Written
<1>9. book' \in [first_unused : Word, end : Nat, link : [NewPages -> Word]]
  <2>1. book \in [first_unused : Word, end : Nat, link : [Pages -> Word]]
    BY DEF IInv, DataInv, PagesOK
  <2>2. JUNK \in Word
    BY DEF Word
  <2>3. Copied(book.link, NewPages, JUNK) \in [NewPages -> Word]
    BY <2>1, <2>2 DEF Copied
  <2> QED BY <1>1, <2>1, <2>3
<1>10. ClosedList(list', NewPages, WrittenPages)
  <2>1. ClosedList(list, Pages, WrittenPages)
    BY DEF IInv, DataInv, ListClosed
  <2>2. /\ Copied(list.next, NewPages, JUNK) \in [NewPages -> NewPages \cup {JUNK}]
        /\ Copied(list.pre, NewPages, JUNK) \in [NewPages -> NewPages \cup {JUNK}]
        /\ \A p \in Pages : /\ Copied(list.next, NewPages, JUNK)[p] = list.next[p]
                            /\ Copied(list.pre, NewPages, JUNK)[p] = list.pre[p]
    BY <1>4, <2>1 DEF Copied, ClosedList
  <2>3. WrittenPages \subseteq Pages
    BY DEF WrittenPages
  <2> HIDE DEF Copied
  <2> QED BY <1>1, <1>4, <2>1, <2>2, <2>3 DEF ClosedList
<1>11. ListClosed'
  BY <1>3, <1>8, <1>10 DEF ListClosed
<1>12. PagesOK'
  BY <1>3, <1>7, <1>9, <1>10 DEF PagesOK, ClosedList
<1>13. PagesOwnValues'
  BY <1>3, <1>7, EntryTypes DEF IInv, DataInv, PagesOwnValues
<1>14. old' \in OldType'
  <2>1. /\ key_hashes \in [0 .. entry_capacity' - 1 -> Index]
        /\ bookmarks \in [0 .. entry_capacity' - 1 -> Pages' \cup {JUNK}]
    BY <1>3, <1>4 DEF IInv, DataInv, TableOK
  <2>2. entry_total \in Nat
    BY ConstantTypes DEF IInv, DataInv, CountsOK
  <2> QED BY <1>1, <2>1, <2>2 DEF OldType
<1>15. CallOK'
  BY <1>1, <1>14 DEF IInv, CallOK
<1>16. CallInv' /\ OwnValues'
  BY <1>1, <1>14 DEF IInv, CallInv, OwnValues
<1> QED BY <1>5, <1>6, <1>11, <1>12, <1>13, <1>15, <1>16 DEF IInv, DataInv

LEMMA RehashSkipStep ==
  ASSUME IInv, RehashSkip
  PROVE  IInv'
<1>1. /\ pc = "rehash" /\ old' = [old EXCEPT !.i = old.i + 1]
      /\ UNCHANGED <<counts, memory, pc, arg, at, ret>>
  BY DEF RehashSkip, Rehashing
<1>2. DataInv' /\ WrittenPages' = WrittenPages /\ OldType' = OldType
  BY <1>1, CountsUnchanged, MemoryUnchanged DEF IInv
<1>3. old' \in OldType
  BY <1>1 DEF IInv, CallInv, OldType
<1>4. CallOK'
  BY <1>1, <1>2, <1>3 DEF IInv, CallOK
<1>5. CallInv' /\ OwnValues'
  BY <1>1, <1>2, <1>3 DEF IInv, CallInv, OwnValues
<1> QED BY <1>2, <1>4, <1>5 DEF IInv

LEMMA NewSlotType ==
  ASSUME CountsOK, NEW h \in Index, NewSlotsFree(h) # {}
  PROVE  NewSlot(h) \in 0 .. entry_capacity - 1 /\ NewSlot(h) \in Slots
<1>1. entry_capacity \in Nat \ {0}
  BY DEF CountsOK
<1>2. NewSlotsFree(h) \subseteq Nat
  BY <1>1 DEF NewSlotsFree
<1>3. First(NewSlotsFree(h)) \in Nat
  BY <1>2, FirstType
<1>4. NewSlot(h) \in 0 .. entry_capacity - 1
  BY <1>1, <1>3, ProbeSlotType DEF NewSlot, NewSlotAt
<1> QED BY <1>1, <1>4 DEF Slots, Capacity, GetHashTableCapacity

LEMMA RehashEntryStep ==
  ASSUME IInv, RehashEntry
  PROVE  IInv'
<1>1. PICK h : h = old.key_hashes[old.i]
  OBVIOUS
<1>2. PICK s : s = NewSlot(h)
  OBVIOUS
<1>3. /\ pc = "rehash" /\ old.entries_left > 0 /\ old.i \in DOMAIN old.key_hashes
      /\ NewSlotsFree(h) # {}
      /\ \E p \in IF old.bookmarks[s] = JUNK THEN Pages ELSE {old.bookmarks[s]} :
           /\ book' = WriteCurI(book, p, s)
           /\ bookmarks' = [bookmarks EXCEPT ![s] = p]
      /\ key_hashes' = [key_hashes EXCEPT ![s] = h]
      /\ old' = [old EXCEPT !.i = old.i + 1, !.entries_left = old.entries_left - 1]
      /\ UNCHANGED <<counts, entries, list, pc, arg, at, ret>>
  BY <1>1, <1>2 DEF RehashEntry, Rehashing
<1>4. old \in OldType
  BY <1>3 DEF IInv, CallInv
<1>5. h \in Index
  BY <1>1, <1>3, <1>4 DEF OldType
<1>6. s \in 0 .. entry_capacity - 1 /\ s \in Slots
  BY <1>2, <1>3, <1>5, NewSlotType DEF IInv, DataInv
<1>7. PICK p \in Pages : /\ book' = WriteCurI(book, p, s)
                         /\ bookmarks' = [bookmarks EXCEPT ![s] = p]
  BY <1>3, <1>4, <1>6 DEF OldType
<1>8. entry_capacity' = entry_capacity /\ CountsOK'
  BY <1>3 DEF counts, IInv, DataInv, CountsOK
<1>9. Pages' = Pages /\ Slots' = Slots /\ OldType' = OldType
  BY <1>8 DEF Pages, Slots, Capacity, OldType
<1>10. WrittenPages' = WrittenPages
  BY <1>3, <1>9 DEF WrittenPages, Written
<1>11. TableOK'
  BY <1>3, <1>5, <1>6, <1>7, <1>9 DEF IInv, DataInv, TableOK
<1>12. s \in Nat
  BY <1>6 DEF IInv, DataInv, CountsOK
<1>13. book' \in [first_unused : Word, end : Nat, link : [Pages -> Word]]
  BY <1>7, <1>12, BookTyped DEF IInv, DataInv
<1>14. PagesOK' /\ ListClosed' /\ PagesOwnValues'
  BY <1>3, <1>9, <1>10, <1>13
     DEF IInv, DataInv, PagesOK, ListClosed, PagesOwnValues
<1>15. old' \in OldType
  <2>1. old.i + 1 \in Nat /\ old.entries_left - 1 \in Nat
    BY <1>3, <1>4 DEF OldType
  <2>2. old' = [old EXCEPT !.i = old.i + 1, !.entries_left = old.entries_left - 1]
    BY <1>3
  <2> QED BY <1>4, <2>1, <2>2 DEF OldType
<1>16. CallOK'
  BY <1>3, <1>9, <1>15 DEF IInv, CallOK
<1>17. CallInv' /\ OwnValues'
  BY <1>3, <1>9, <1>15 DEF IInv, CallInv, OwnValues
<1> QED BY <1>8, <1>11, <1>14, <1>16, <1>17 DEF IInv, DataInv

LEMMA RehashDoneStep ==
  ASSUME IInv, RehashDone
  PROVE  IInv'
<1>1. /\ pc = "rehash" /\ dead_total' = 0 /\ old' = NULL /\ pc' = "idle"
      /\ ret' = Returned("set", arg.key, arg.val, 0) /\ arg' = NULL
      /\ UNCHANGED <<mem_total, entry_capacity, entry_total, memory, at>>
  BY DEF RehashDone
<1>2. mem_total' \in Index /\ entry_total' \in Index /\ dead_total' \in Index
  BY <1>1, ConstantTypes DEF IInv, DataInv, CountsOK
<1>3. DataInv'
  BY <1>1, <1>2, MemoryUnchanged DEF IInv
<1>4. ret' \in RetType /\ ret'.op = "set"
  BY <1>1 DEF IInv, CallInv, CallType, Returned, RetType
<1>5. CallOK'
  BY <1>1, <1>4 DEF IInv, CallOK, RetType
<1>6. CallInv' /\ OwnValues'
  BY <1>1, <1>4 DEF CallInv, OwnValues
<1> QED BY <1>3, <1>5, <1>6 DEF IInv

-----------------------------------------------------------------------------
(* Steps of cache_get and destroy_cache.                                   *)

LEMMA GetHitStep ==
  ASSUME IInv, NEW k \in Key, GetHit(k)
  PROVE  IInv'
<1>1. PICK p : p = bookmarks[FindSlot(k)]
  OBVIOUS
<1>2. /\ pc = "idle" /\ Found(k) /\ list.head # INVALID_NODE
      /\ list' = SetLast(list, p)
      /\ ret' = Returned("get", k, entries[p].value, 0)
      /\ UNCHANGED <<counts, key_hashes, bookmarks, entries, book, pc, arg, at, old>>
  BY <1>1 DEF GetHit
<1>3. p \in WrittenPages /\ entries[p] \in EntryType /\ entries[p].key = k
  BY <1>1, <1>2, FindSlotType, HitType DEF Found, IInv, DataInv
<1>4. p \in Pages
  BY <1>3 DEF WrittenPages
<1>5. entries[p].value \in ValuesOf[k]
  BY <1>3, <1>4 DEF IInv, DataInv, PagesOwnValues
<1>6. entry_capacity' = entry_capacity /\ CountsOK'
  BY <1>2 DEF counts, IInv, DataInv, CountsOK
<1>7. Pages' = Pages /\ Slots' = Slots /\ OldType' = OldType
  BY <1>6 DEF Pages, Slots, Capacity, OldType
<1>8. WrittenPages' = WrittenPages
  BY <1>2, <1>7 DEF WrittenPages, Written
<1>9. ClosedList(list', Pages, WrittenPages)
  BY <1>2, <1>3, SetLastClosed DEF IInv, DataInv, ListClosed
<1>10. ListClosed'
  BY <1>7, <1>8, <1>9 DEF ListClosed
<1>11. PagesOK' /\ TableOK' /\ PagesOwnValues'
  BY <1>2, <1>7, <1>9 DEF IInv, DataInv, PagesOK, TableOK, PagesOwnValues, ClosedList
<1>12. entries[p].value \in Value
  BY <1>5, ConstantTypes
<1>13. ret' \in RetType /\ ret'.op = "get" /\ ret'.key = k /\ ret'.val = entries[p].value
  BY <1>2, <1>12, ReturnedType
<1>14. CallOK'
  BY <1>2, <1>7, <1>13 DEF IInv, CallOK, RetType
<1>15. CallInv' /\ OwnValues'
  BY <1>2, <1>5, <1>13 DEF IInv, CallInv, OwnValues
<1> QED BY <1>6, <1>10, <1>11, <1>14, <1>15 DEF IInv, DataInv

LEMMA DestroyStep ==
  ASSUME IInv, Destroy
  PROVE  IInv'
<1> DEFINE cleared(p) == [entries[p] EXCEPT !.key = NULL, !.value = NULL]
<1>1. /\ pc = "idle" /\ \A i \in LiveSlots : Removable(i)
      /\ entries' = [p \in Pages |-> IF p \in LivePages THEN cleared(p) ELSE entries[p]]
      /\ pc' = "destroyed"
      /\ UNCHANGED <<counts, key_hashes, bookmarks, book, list, arg, at, old, ret>>
  BY DEF Destroy
<1>2. LivePages \subseteq WrittenPages
  BY <1>1 DEF LivePages, LiveSlots, Removable, IInv, DataInv, TableOK, WrittenPages
<1>3. \A p \in LivePages : cleared(p) \in EntryType /\ cleared(p).key = NULL
  <2> SUFFICES ASSUME NEW p \in LivePages
               PROVE  cleared(p) \in EntryType /\ cleared(p).key = NULL
    OBVIOUS
  <2>1. entries[p] \in EntryType
    BY <1>2, WrittenType DEF IInv, DataInv
  <2> QED BY <2>1, ClearedEntry
<1> HIDE DEF cleared
<1>4. entry_capacity' = entry_capacity /\ CountsOK'
  BY <1>1 DEF counts, IInv, DataInv, CountsOK
<1>5. Pages' = Pages /\ Slots' = Slots /\ OldType' = OldType
  BY <1>4 DEF Pages, Slots, Capacity, OldType
<1>6. \A p \in Pages : \/ p \in LivePages /\ entries'[p] = cleared(p)
                       \/ entries'[p] = entries[p]
  BY <1>1
<1>7. entries' \in [Pages -> EntryType \cup {JunkEntry}]
  BY <1>1, <1>3 DEF IInv, DataInv, PagesOK
<1>8. WrittenPages' = WrittenPages
  BY <1>2, <1>3, <1>5, <1>6, EntryTypes DEF WrittenPages, Written
<1>9. TableOK' /\ PagesOK' /\ ListClosed'
  BY <1>1, <1>5, <1>7, <1>8 DEF IInv, DataInv, TableOK, PagesOK, ListClosed
<1>10. PagesOwnValues'
  BY <1>3, <1>5, <1>6, CacheAssumption DEF IInv, DataInv, PagesOwnValues
<1>11. CallOK' /\ CallInv' /\ OwnValues'
  BY <1>1, <1>5 DEF IInv, CallOK, CallInv, OwnValues
<1> QED BY <1>4, <1>9, <1>10, <1>11 DEF IInv, DataInv

-----------------------------------------------------------------------------
(* The invariant holds initially and is preserved.                         *)

LEMMA InitIInv == Init => IInv
<1> SUFFICES ASSUME Init PROVE IInv
  OBVIOUS
<1>1. CountsOK
  BY ConstantTypes, CacheAssumption DEF Init, CountsOK
<1>2. TableOK
  BY ConstantTypes DEF Init, TableOK
<1>3. entries \in [Pages -> EntryType \cup {JunkEntry}] /\ WrittenPages = {}
  BY EntryTypes DEF Init, WrittenPages, Written
<1>4. book \in [first_unused : Word, end : Nat, link : [Pages -> Word]]
  <2>1. INVALID_PAGE \in Word /\ JUNK \in Word
    BY IndexAssumption DEF Word, INVALID_PAGE, INDEX_RANGE
  <2> QED BY <2>1 DEF Init, CreateBook
<1>5. ClosedList(list, Pages, WrittenPages)
  BY <1>3 DEF Init, EmptyList, ClosedList
<1>6. PagesOK /\ ListClosed
  BY <1>3, <1>4, <1>5 DEF PagesOK, ListClosed, ClosedList
<1>7. PagesOwnValues
  BY EntryTypes DEF Init, PagesOwnValues
<1>8. ret \in RetType /\ ret.op = "none"
  BY DEF Init, Returned, RetType
<1>9. CallOK /\ CallInv /\ OwnValues
  BY <1>8 DEF Init, CallOK, CallInv, OwnValues, RetType
<1> QED BY <1>1, <1>2, <1>6, <1>7, <1>9 DEF IInv, DataInv

LEMMA StutterIInv == IInv /\ UNCHANGED vars => IInv'
BY DEF vars, IInv, DataInv, CountsOK, TableOK, PagesOK, ListClosed, PagesOwnValues,
       CallOK, CallInv, OwnValues, Pages, Slots, Capacity, WrittenPages, Written, OldType

LEMMA NextIInv == IInv /\ [Next]_vars => IInv'
<1> SUFFICES ASSUME IInv, [Next]_vars PROVE IInv'
  OBVIOUS
<1>1. CASE \E k \in Key : \E v \in ValuesOf[k] : Set(k, v)
  BY <1>1, SetTooLargeStep, SetExistingStep, SetNewStep DEF Set
<1>2. CASE \E k \in Key : Get(k)
  BY <1>2, GetHitStep, GetMissStep DEF Get
<1>3. CASE \E k \in Key : Delete(k)
  BY <1>3, DeleteHitStep, DeleteMissStep DEF Delete
<1>4. CASE SpaceUsed
  BY <1>4, SpaceUsedStep
<1>5. CASE Destroy
  BY <1>5, DestroyStep
<1>6. CASE Continue
  BY <1>6, EvictStep, FinishUpdateStep, FinishInsertStep, GrowArenaStep,
     RehashSkipStep, RehashEntryStep, RehashDoneStep DEF Continue, Grow
<1>7. CASE Undefined
  BY <1>7, UndefinedStep
<1>8. CASE UNCHANGED vars
  BY <1>8, StutterIInv
<1> QED BY <1>1, <1>2, <1>3, <1>4, <1>5, <1>6, <1>7, <1>8 DEF Next

LEMMA SpecIInv == Spec => []IInv
BY InitIInv, NextIInv, PTL DEF Spec

(* Whatever the keys, their hashes, the sizes and the capacities: every    *)
(* field of the cache keeps its type, and no bookmark, link or count is    *)
(* ever computed from memory that cache.cc has not written, also when the  *)
(* update path evicts its own entry and when growth scrambles the table.   *)
THEOREM CacheTypeOK == Spec => []TypeOK
<1>1. IInv => TypeOK
  BY DEF IInv, DataInv, TypeOK
<1> QED BY <1>1, SpecIInv, PTL

(* cache_get never answers with a value stored under another key: not when *)
(* keys collide, when pages are reused, or after a faulty growth.          *)
THEOREM CacheOwnValues == Spec => []OwnValues
<1>1. IInv => OwnValues
  BY DEF IInv
<1> QED BY <1>1, SpecIInv, PTL

=============================================================================
