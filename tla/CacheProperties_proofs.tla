----------------------- MODULE CacheProperties_proofs -----------------------
(***************************************************************************)
(* The parts of the cache agree, for any keys, hashes, sizes and capacity: *)
(* in every run without the two steps that break it (Harmless), table,     *)
(* pages, list, book and counters match each other at every step, and no   *)
(* access is undefined.  In every run without the third step as well, the  *)
(* one that enters a key twice (DefectFree), the cache keeps its promise.  *)
(***************************************************************************)
EXTENDS CacheProperties, Cache_proofs

SlotCount  == 2 * INIT_ENTRY_CAPACITY
TableSlots == 0 .. SlotCount - 1
TablePages == 0 .. INIT_ENTRY_CAPACITY - 1

AllocP == INSTANCE BookAllocator_proofs WITH
  PageCount <- INIT_ENTRY_CAPACITY,
  Slot      <- TableSlots,
  held      <- LivePages

LEMMA BookAssumptions == AllocP!PageCountAssumption /\ AllocP!IndexAssumption
BY CacheAssumption, IndexAssumption
   DEF AllocP!PageCountAssumption, AllocP!IndexAssumption, AllocP!PowerOfTwo, PowerOfTwo,
       AllocP!INVALID_PAGE, AllocP!INDEX_RANGE, Index, INDEX_RANGE, TableSlots, SlotCount

(* FiniteSets and IndexType mean the same in the book's module.            *)
LEMMA SameCardinality == ASSUME NEW S PROVE AllocP!Cardinality(S) = Cardinality(S)
BY DEF AllocP!Cardinality, Cardinality

LEMMA SameInvalidPage == AllocP!INVALID_PAGE = INVALID_PAGE
BY DEF AllocP!INVALID_PAGE, INVALID_PAGE, AllocP!INDEX_RANGE, INDEX_RANGE

LEMMA TableSize ==
  /\ INIT_ENTRY_CAPACITY \in Nat \ {0} /\ SlotCount \in Nat \ {0}
  /\ PowerOfTwo(SlotCount)
  /\ INIT_ENTRY_CAPACITY < INVALID_PAGE
  /\ INVALID_NODE \notin TablePages /\ INVALID_NODE \in Index
  /\ TableSlots \subseteq Index /\ TablePages \subseteq Index
  /\ IsFiniteSet(TableSlots) /\ Cardinality(TableSlots) = SlotCount
  /\ IsFiniteSet(TablePages) /\ Cardinality(TablePages) = INIT_ENTRY_CAPACITY
<1>1. /\ INIT_ENTRY_CAPACITY \in Nat \ {0} /\ SlotCount \in Nat \ {0}
      /\ SlotCount \in Index /\ HIGH_BIT \in Nat /\ HIGH_BIT >= 4
  BY CacheAssumption, IndexAssumption DEF SlotCount
<1>2. PowerOfTwo(SlotCount)
  BY <1>1, CacheAssumption, PowerDoubled DEF SlotCount
<1>3. /\ INIT_ENTRY_CAPACITY < INVALID_PAGE
      /\ INVALID_NODE \notin TablePages /\ INVALID_NODE \in Index
      /\ TableSlots \subseteq Index /\ TablePages \subseteq Index
  BY <1>1 DEF SlotCount, TableSlots, TablePages, Index, INDEX_RANGE, INVALID_PAGE,
              INVALID_NODE
<1>4. IsFiniteSet(TableSlots) /\ Cardinality(TableSlots) = SlotCount
  BY <1>1, FS_Interval, 0 \in Int, SlotCount - 1 \in Int DEF TableSlots
<1>5. IsFiniteSet(TablePages) /\ Cardinality(TablePages) = INIT_ENTRY_CAPACITY
  BY <1>1, FS_Interval, 0 \in Int, INIT_ENTRY_CAPACITY - 1 \in Int DEF TablePages
<1> QED BY <1>1, <1>2, <1>3, <1>4, <1>5

-----------------------------------------------------------------------------
(* The hash table, as a function kh from slots to hashes and marks.        *)

LiveIn(kh) == {i \in TableSlots : IsLive(kh[i])}
DeadIn(kh) == {i \in TableSlots : kh[i] = DELETED}

\* Every live slot leads to a page of its own, which leads back.
Linked(kh, bm, link) ==
  \A i \in LiveIn(kh) : bm[i] \in TablePages /\ link[bm[i]] = i

PagesOf(kh, bm) == {bm[i] : i \in LiveIn(kh)}

Probed(h, c) == ProbeSlot(h, c, SlotCount)

\* A probe that starts with hash h comes to slot i before it meets an empty
\* slot, and before it meets another slot in H.
Leads(kh, H, h, i) ==
  \E c \in 0 .. SlotCount - 1 :
    /\ Probed(h, c) = i
    /\ \A d \in 0 .. c - 1 : kh[Probed(h, d)] # EMPTY /\ Probed(h, d) \notin H \ {i}

\* Every live slot is met by the probe for its own hash.
Reached(kh) == \A i \in LiveIn(kh) : Leads(kh, {}, kh[i], i)

\* No slot becomes empty when the table changes from kh to new.
NoneEmptied(kh, new) == \A j \in TableSlots : new[j] = EMPTY => kh[j] = EMPTY

LEMMA ProbedType ==
  ASSUME NEW h \in Index, NEW c \in Int
  PROVE  Probed(h, c) \in TableSlots
BY ProbeSlotType, TableSize DEF Probed, TableSlots

(* A path remains one while no slot on it becomes empty.                   *)
LEMMA LeadsKept ==
  ASSUME NEW kh, NEW new, NEW h \in Index, NEW i, NEW G, NEW H, Leads(kh, G, h, i),
         NoneEmptied(kh, new),
         H \subseteq G \cup {i}
  PROVE  Leads(new, H, h, i)
<1>1. PICK c \in 0 .. SlotCount - 1 :
        /\ Probed(h, c) = i
        /\ \A d \in 0 .. c - 1 : kh[Probed(h, d)] # EMPTY /\ Probed(h, d) \notin G \ {i}
  BY DEF Leads
<1>2. \A d \in 0 .. c - 1 : Probed(h, d) \in TableSlots
  BY ProbedType
<1>3. \A d \in 0 .. c - 1 : new[Probed(h, d)] # EMPTY /\ Probed(h, d) \notin H \ {i}
  BY <1>1, <1>2 DEF NoneEmptied
<1> QED BY <1>1, <1>3 DEF Leads

LEMMA LinkedOnce ==
  ASSUME NEW kh, NEW bm, NEW link, Linked(kh, bm, link),
         NEW i \in LiveIn(kh), NEW j \in LiveIn(kh), bm[i] = bm[j]
  PROVE  i = j
BY DEF Linked

(* Deleting the mark of a live slot.                                       *)
LEMMA SlotDeleted ==
  ASSUME NEW kh \in [TableSlots -> Index], NEW bm, NEW link, Linked(kh, bm, link),
         Reached(kh), NEW i \in LiveIn(kh)
  PROVE  LET new == [kh EXCEPT ![i] = DELETED] IN
         /\ LiveIn(new) = LiveIn(kh) \ {i}
         /\ DeadIn(new) = DeadIn(kh) \cup {i} /\ i \notin DeadIn(kh)
         /\ PagesOf(new, bm) = PagesOf(kh, bm) \ {bm[i]}
         /\ Reached(new)
         /\ NoneEmptied(kh, new)
<1> DEFINE new == [kh EXCEPT ![i] = DELETED]
<1>1. \A j \in TableSlots : new[j] = IF j = i THEN DELETED ELSE kh[j]
  OBVIOUS
<1> HIDE DEF new
<1>2. i \in TableSlots /\ IsLive(kh[i])
  BY DEF LiveIn
<1>3. LiveIn(new) = LiveIn(kh) \ {i}
  BY <1>1 DEF LiveIn, IsLive
<1>4. DeadIn(new) = DeadIn(kh) \cup {i} /\ i \notin DeadIn(kh)
  BY <1>1, <1>2 DEF DeadIn, IsLive
<1>5. PagesOf(new, bm) = PagesOf(kh, bm) \ {bm[i]}
  BY <1>3, LinkedOnce DEF PagesOf
<1>6. NoneEmptied(kh, new)
  BY <1>1 DEF NoneEmptied, EMPTY, DELETED
<1>7. ASSUME NEW j \in LiveIn(new)
      PROVE  Leads(new, {}, new[j], j)
  <2>1. j \in LiveIn(kh) /\ new[j] = kh[j] /\ kh[j] \in Index
    BY <1>1, <1>3, <1>7 DEF LiveIn
  <2>2. Leads(kh, {}, kh[j], j)
    BY <2>1 DEF Reached
  <2> QED BY <1>6, <2>1, <2>2, LeadsKept
<1> QED BY <1>3, <1>4, <1>5, <1>6, <1>7 DEF Reached, new

(* Marking a slot that is not live with a hash that leads to it.           *)
LEMMA SlotFilled ==
  ASSUME NEW kh \in [TableSlots -> Index], NEW bm \in [TableSlots -> TablePages \cup {JUNK}],
         NEW link \in [TablePages -> Word], Linked(kh, bm, link), Reached(kh),
         NEW i \in TableSlots \ LiveIn(kh),
         NEW h \in Index, IsLive(h), NEW H, Leads(kh, H, h, i),
         NEW p \in TablePages \ PagesOf(kh, bm)
  PROVE  LET kh1   == [kh EXCEPT ![i] = h]
             bm1   == [bm EXCEPT ![i] = p]
             link1 == [link EXCEPT ![p] = i]
         IN /\ LiveIn(kh1) = LiveIn(kh) \cup {i}
            /\ DeadIn(kh1) = DeadIn(kh) \ {i}
            /\ PagesOf(kh1, bm1) = PagesOf(kh, bm) \cup {p}
            /\ Linked(kh1, bm1, link1) /\ Reached(kh1)
            /\ NoneEmptied(kh, kh1)
<1> DEFINE kh1   == [kh EXCEPT ![i] = h]
           bm1   == [bm EXCEPT ![i] = p]
           link1 == [link EXCEPT ![p] = i]
<1>1. /\ \A j \in TableSlots : kh1[j] = IF j = i THEN h ELSE kh[j]
      /\ \A j \in TableSlots : bm1[j] = IF j = i THEN p ELSE bm[j]
      /\ \A q \in TablePages : link1[q] = IF q = p THEN i ELSE link[q]
  OBVIOUS
<1> HIDE DEF kh1, bm1, link1
<1>2. LiveIn(kh1) = LiveIn(kh) \cup {i}
  BY <1>1 DEF LiveIn
<1>3. DeadIn(kh1) = DeadIn(kh) \ {i}
  BY <1>1 DEF DeadIn, IsLive
<1>4. \A j \in LiveIn(kh) : j # i /\ j \in TableSlots /\ bm1[j] = bm[j] /\ bm[j] # p
  BY <1>1 DEF LiveIn, PagesOf
<1>5. PagesOf(kh1, bm1) = PagesOf(kh, bm) \cup {p}
  <2>1. \A q : q \in PagesOf(kh1, bm1) <=> (\E j \in LiveIn(kh) : bm1[j] = q) \/ bm1[i] = q
    BY <1>2 DEF PagesOf
  <2>2. \A q : q \in PagesOf(kh, bm) <=> \E j \in LiveIn(kh) : bm1[j] = q
    BY <1>4 DEF PagesOf
  <2>3. bm1[i] = p
    BY <1>1
  <2>4. \A q : q \in PagesOf(kh1, bm1) <=> q \in PagesOf(kh, bm) \/ q = p
    BY <2>1, <2>2, <2>3
  <2> QED BY ONLY <2>4
<1>6. Linked(kh1, bm1, link1)
  BY <1>1, <1>2, <1>4 DEF Linked
<1>7. NoneEmptied(kh, kh1)
  BY <1>1 DEF NoneEmptied, IsLive
<1>8. ASSUME NEW j \in LiveIn(kh1)
      PROVE  Leads(kh1, {}, kh1[j], j)
  <2>1. CASE j = i
    BY <1>1, <1>7, <2>1, LeadsKept
  <2>2. CASE j # i
    <3>1. j \in LiveIn(kh) /\ kh1[j] = kh[j] /\ kh[j] \in Index
      BY <1>1, <1>2, <1>8, <2>2 DEF LiveIn
    <3>2. Leads(kh, {}, kh[j], j)
      BY <3>1 DEF Reached
    <3> QED BY <1>7, <3>1, <3>2, LeadsKept
  <2> QED BY <2>1, <2>2
<1> QED BY <1>2, <1>3, <1>5, <1>6, <1>7, <1>8 DEF Reached, kh1, bm1, link1

(* While live and deleted slots are no more than half of the table, every  *)
(* probe comes to an empty slot.                                           *)
LEMMA EmptySlotMet ==
  ASSUME NEW kh \in [TableSlots -> Index], NEW h \in Index,
         Cardinality(LiveIn(kh)) + Cardinality(DeadIn(kh)) <= INIT_ENTRY_CAPACITY
  PROVE  \E c \in 0 .. SlotCount - 1 : kh[Probed(h, c)] = EMPTY
<1>1. IsFiniteSet(LiveIn(kh)) /\ IsFiniteSet(DeadIn(kh))
  BY TableSize, FS_Subset DEF LiveIn, DeadIn
<1>2. LiveIn(kh) \cap DeadIn(kh) = {}
  BY DEF LiveIn, DeadIn, IsLive
<1>3. Cardinality(LiveIn(kh) \cup DeadIn(kh)) = Cardinality(LiveIn(kh)) + Cardinality(DeadIn(kh))
  <2>1. Cardinality(LiveIn(kh) \cup DeadIn(kh))
        = Cardinality(LiveIn(kh)) + Cardinality(DeadIn(kh))
          - Cardinality(LiveIn(kh) \cap DeadIn(kh))
    BY <1>1, FS_Union
  <2>2. Cardinality(LiveIn(kh) \cap DeadIn(kh)) = 0
    BY <1>2, FS_EmptySet
  <2>3. Cardinality(LiveIn(kh)) \in Nat /\ Cardinality(DeadIn(kh)) \in Nat
    BY <1>1, FS_CardinalityType
  <2> QED BY <2>1, <2>2, <2>3
<1>4. LiveIn(kh) \cup DeadIn(kh) # TableSlots
  BY <1>3, TableSize DEF SlotCount
<1>5. PICK i \in TableSlots : kh[i] = EMPTY
  BY <1>4 DEF LiveIn, DeadIn, IsLive
<1>6. \E c \in 0 .. SlotCount - 1 : Probed(h, c) = i
  BY TableSize, ProbesReachAll DEF Probed, TableSlots
<1> QED BY <1>5, <1>6

-----------------------------------------------------------------------------
(* The inductive invariant: what agrees at every step, also of a call.     *)

\* The table has the size it was created with: it is never grown.
Sized == entry_capacity = INIT_ENTRY_CAPACITY /\ pc # "rehash"

TableInv == Linked(key_hashes, bookmarks, book.link) /\ Reached(key_hashes)

BookInv == AllocP!IInv

ListInv == Circle(list, TablePages, LivePages)

Shape == Sized /\ TableInv /\ BookInv /\ ListInv

\* The variables have the sizes of the tables above.
Frame ==
  /\ Slots = TableSlots /\ Pages = TablePages /\ Capacity = SlotCount
  /\ LiveSlots = LiveIn(key_hashes) /\ LivePages = PagesOf(key_hashes, bookmarks)
  /\ key_hashes \in [TableSlots -> Index]
  /\ bookmarks \in [TableSlots -> TablePages \cup {JUNK}]
  /\ entries \in [TablePages -> EntryType \cup {JunkEntry}]
  /\ book \in [first_unused : Word, end : Nat, link : [TablePages -> Word]]

\* An entry in use: a key and a value, their sizes, and the hash h of the key.
EntryExact(e, h) ==
  /\ e.key \in Key /\ e.value \in Value
  /\ e.key_size = KeySize[e.key] /\ e.value_size = ValSize[e.value]
  /\ KeyHash(e.key) = h

\* An entry without anything allocated.
Gone(e) == e.key \in {NULL, JUNK} /\ e.value \in {NULL, JUNK}

ContentsInv ==
  /\ pc # "destroyed" =>
       \A i \in LiveSlots : EntryExact(entries[bookmarks[i]], key_hashes[i])
  /\ \A p \in Pages \ LivePages : Gone(entries[p])

\* The slots whose entry has key k.
Holders(k) == {i \in LiveSlots : KeyAt(i) = k}

Busy == pc \in {"idle", "update", "insert"}

\* A deleted slot that a set has claimed is not counted as deleted any more.
Claimed == IF pc = "insert" /\ key_hashes[at] = DELETED THEN 1 ELSE 0

CountsInv ==
  Busy =>
    /\ entry_total = Cardinality(LiveSlots) /\ entry_total < INIT_ENTRY_CAPACITY
    /\ dead_total = Cardinality(DeadIn(key_hashes)) - Claimed
    /\ entry_total + Cardinality(DeadIn(key_hashes)) <= INIT_ENTRY_CAPACITY

\* The probe for the key being set leads to the slot it is, or will be, in.
ClaimInv ==
  /\ pc = "update" =>
       /\ at \in LivePages /\ entries[at].key = arg.key
       /\ Leads(key_hashes, Holders(arg.key), KeyHash(arg.key), book.link[at])
  /\ pc = "insert" =>
       /\ at \in TableSlots \ LiveSlots
       /\ Leads(key_hashes, Holders(arg.key), KeyHash(arg.key), at)

\* The value a set reported as stored is where the probe for its key leads.
FoundInv ==
  pc = "idle" /\ ret.op = "set" /\ ret.code >= 0 =>
    \E i \in Holders(ret.key) :
      /\ Leads(key_hashes, Holders(ret.key), KeyHash(ret.key), i)
      /\ entries[bookmarks[i]].value = ret.val

(* The inductive invariant.                                                *)
SInv ==
  /\ IInv /\ Shape /\ ContentsInv /\ CountsInv /\ ClaimInv
  /\ FoundInv /\ DestroyFreesAll

LEMMA FrameHolds ==
  ASSUME IInv, Sized
  PROVE  Frame
<1>1. Slots = TableSlots /\ Pages = TablePages /\ Capacity = SlotCount
  BY DEF Sized, Slots, Pages, Capacity, GetHashTableCapacity, TableSlots, TablePages, SlotCount
<1>2. LiveSlots = LiveIn(key_hashes) /\ LivePages = PagesOf(key_hashes, bookmarks)
  BY <1>1 DEF LiveSlots, LivePages, LiveIn, PagesOf
<1> QED BY <1>1, <1>2 DEF Frame, IInv, DataInv, TableOK, PagesOK

LEMMA FrameNext ==
  ASSUME IInv', Sized'
  PROVE  Frame'
<1>1. Slots' = TableSlots /\ Pages' = TablePages /\ Capacity' = SlotCount
  BY DEF Sized, Slots, Pages, Capacity, GetHashTableCapacity, TableSlots, TablePages, SlotCount
<1>2. LiveSlots' = LiveIn(key_hashes') /\ LivePages' = PagesOf(key_hashes', bookmarks')
  BY <1>1 DEF LiveSlots, LivePages, LiveIn, PagesOf
<1> QED BY <1>1, <1>2 DEF Frame, IInv, DataInv, TableOK, PagesOK, LiveIn, PagesOf

LEMMA LiveSlotTypes ==
  ASSUME IInv, Shape, NEW i \in LiveSlots
  PROVE  /\ i \in TableSlots /\ key_hashes[i] \in Index /\ IsLive(key_hashes[i])
         /\ bookmarks[i] \in TablePages /\ bookmarks[i] \in LivePages
         /\ book.link[bookmarks[i]] = i /\ bookmarks[i] # JUNK
BY FrameHolds, CacheAssumption, IndexAssumption
   DEF Shape, TableInv, Frame, LiveIn, Linked, LivePages, TablePages

-----------------------------------------------------------------------------
(* What the steps do to the table, the book and the list.                  *)

LEMMA RemoveShape ==
  ASSUME IInv, Shape, IInv', pc' # "rehash", NEW i \in LiveSlots, NEW l,
         Circle(RemoveItem(l, bookmarks[i]), TablePages, LivePages \ {bookmarks[i]}),
         RemoveEntry(i, l)
  PROVE  /\ Shape'
         /\ LiveSlots' = LiveSlots \ {i}
         /\ LivePages' = LivePages \ {bookmarks[i]}
         /\ DeadIn(key_hashes') = DeadIn(key_hashes) \cup {i} /\ i \notin DeadIn(key_hashes)
         /\ NoneEmptied(key_hashes, key_hashes')
<1> DEFINE p == bookmarks[i]
<1>1. Frame
  BY FrameHolds DEF Shape
<1>2. Sized'
  BY DEF Shape, Sized, RemoveEntry
<1>3. Frame'
  BY <1>2, FrameNext
<1>4. /\ i \in TableSlots /\ p \in TablePages /\ p \in LivePages
  BY LiveSlotTypes
<1>5. /\ LiveIn(key_hashes') = LiveIn(key_hashes) \ {i}
      /\ DeadIn(key_hashes') = DeadIn(key_hashes) \cup {i} /\ i \notin DeadIn(key_hashes)
      /\ PagesOf(key_hashes', bookmarks) = PagesOf(key_hashes, bookmarks) \ {p}
      /\ Reached(key_hashes')
      /\ NoneEmptied(key_hashes, key_hashes')
  <2>1. i \in LiveIn(key_hashes) /\ key_hashes' = [key_hashes EXCEPT ![i] = DELETED]
    BY <1>1 DEF Frame, RemoveEntry
  <2>2. Linked(key_hashes, bookmarks, book.link) /\ Reached(key_hashes)
    BY DEF Shape, TableInv
  <2>3. key_hashes \in [TableSlots -> Index]
    BY <1>1 DEF Frame
  <2>4. PICK kh, bm, link : kh = key_hashes /\ bm = bookmarks /\ link = book.link
    OBVIOUS
  <2> DEFINE new == [kh EXCEPT ![i] = DELETED]
  <2>5. /\ LiveIn(new) = LiveIn(kh) \ {i}
        /\ DeadIn(new) = DeadIn(kh) \cup {i} /\ i \notin DeadIn(kh)
        /\ PagesOf(new, bm) = PagesOf(kh, bm) \ {bm[i]}
        /\ Reached(new) /\ NoneEmptied(kh, new)
    <3>1. i \in LiveIn(kh) /\ Linked(kh, bm, link) /\ Reached(kh) /\ kh \in [TableSlots -> Index]
      BY <2>1, <2>2, <2>3, <2>4
    <3> QED BY ONLY <3>1, SlotDeleted
  <2>6. key_hashes' = new
    BY <2>1, <2>4
  <2> HIDE DEF new
  <2> QED BY <2>4, <2>5, <2>6
<1>6. LiveSlots' = LiveSlots \ {i} /\ LivePages' = LivePages \ {p}
  BY <1>1, <1>3, <1>5 DEF Frame, RemoveEntry
<1>7. TableInv'
  <2>1. \A q \in TablePages \ {p} : book'.link[q] = book.link[q]
    BY <1>1 DEF Frame, RemoveEntry, FreeBookPage
  <2>2. \A j \in LiveIn(key_hashes') : bookmarks[j] # p
    BY <1>1, <1>5, LinkedOnce DEF Frame, Shape, TableInv
  <2> QED BY <1>5, <2>1, <2>2 DEF Shape, TableInv, Linked, RemoveEntry
<1>8. BookInv'
  <2>1. AllocP!Free(p)
    BY <1>4, <1>6 DEF AllocP!Free, RemoveEntry, FreeBookPage, AllocP!FreeBookPage
  <2> QED BY <1>4, <2>1, BookAssumptions, AllocP!FreeKeepsIInv DEF Shape, BookInv
<1>9. ListInv'
  BY <1>6 DEF ListInv, RemoveEntry
<1> QED BY <1>2, <1>5, <1>6, <1>7, <1>8, <1>9 DEF Shape

LEMMA RemoveContents ==
  ASSUME IInv, Shape, ContentsInv, Shape', IInv', pc # "destroyed",
         NEW i \in LiveSlots, NEW l, RemoveEntry(i, l),
         LiveSlots' = LiveSlots \ {i}, LivePages' = LivePages \ {bookmarks[i]}
  PROVE  /\ ContentsInv'
         /\ \A q \in TablePages \ {bookmarks[i]} : entries'[q] = entries[q]
         /\ \A j \in LiveSlots' : bookmarks'[j] = bookmarks[j] /\ bookmarks[j] # bookmarks[i]
         /\ \A k \in Key : Holders(k)' = Holders(k) \ {i}
<1> DEFINE p == bookmarks[i]
           cleared == [entries[p] EXCEPT !.key = NULL, !.value = NULL]
<1>1. Frame /\ Frame'
  BY FrameHolds, FrameNext DEF Shape
<1>2. i \in TableSlots /\ p \in TablePages /\ EntryExact(entries[p], key_hashes[i])
  BY LiveSlotTypes DEF ContentsInv
<1>3. entries[p] \in EntryType
  <2>1. entries[p] \in EntryType \cup {JunkEntry} /\ entries[p].key \in Key
    BY <1>1, <1>2 DEF Frame, EntryExact
  <2> QED BY <2>1, EntryTypes
<1>4. cleared.key = NULL /\ cleared.value = NULL
  BY <1>3 DEF EntryType
<1>5. /\ entries' = [entries EXCEPT ![p] = cleared]
      /\ key_hashes' = [key_hashes EXCEPT ![i] = DELETED]
      /\ bookmarks' = bookmarks
  BY DEF RemoveEntry
<1> HIDE DEF cleared
<1>6. entries'[p] = cleared /\ \A q \in TablePages \ {p} : entries'[q] = entries[q]
  BY <1>1, <1>2, <1>5 DEF Frame
<1>7. \A j \in LiveSlots' : /\ j \in LiveSlots /\ j # i /\ bookmarks[j] \in TablePages
                            /\ bookmarks[j] # p /\ key_hashes'[j] = key_hashes[j]
  <2> SUFFICES ASSUME NEW j \in LiveSlots'
               PROVE  /\ j \in LiveSlots /\ j # i /\ bookmarks[j] \in TablePages
                      /\ bookmarks[j] # p /\ key_hashes'[j] = key_hashes[j]
    OBVIOUS
  <2>1. j \in LiveSlots /\ j # i
    OBVIOUS
  <2>2. bookmarks[j] \in TablePages /\ book.link[bookmarks[j]] = j /\ book.link[p] = i
    BY <2>1, LiveSlotTypes
  <2>3. key_hashes'[j] = key_hashes[j]
    BY <1>1, <1>5, <2>1 DEF Frame
  <2> QED BY <2>1, <2>2, <2>3
<1>8. ContentsInv'
  <2>1. \A j \in LiveSlots' : EntryExact(entries'[bookmarks'[j]], key_hashes'[j])
    <3> SUFFICES ASSUME NEW j \in LiveSlots'
                 PROVE  EntryExact(entries'[bookmarks'[j]], key_hashes'[j])
      OBVIOUS
    <3>1. /\ entries'[bookmarks'[j]] = entries[bookmarks[j]]
          /\ key_hashes'[j] = key_hashes[j] /\ j \in LiveSlots
      BY <1>5, <1>6, <1>7
    <3>2. EntryExact(entries[bookmarks[j]], key_hashes[j])
      BY <3>1 DEF ContentsInv
    <3> QED BY <3>1, <3>2
  <2>2. \A q \in Pages' \ LivePages' : Gone(entries'[q])
    <3> SUFFICES ASSUME NEW q \in TablePages, q \notin LivePages'
                 PROVE  Gone(entries'[q])
      BY <1>1 DEF Frame
    <3>1. CASE q = p
      BY <1>4, <1>6, <3>1 DEF Gone
    <3>2. CASE q # p
      <4>1. q \in Pages \ LivePages /\ entries'[q] = entries[q]
        BY <1>1, <1>6, <3>2 DEF Frame
      <4> QED BY <4>1 DEF ContentsInv
    <3> QED BY <3>1, <3>2
  <2> QED BY <2>1, <2>2 DEF ContentsInv
<1>9. \A k \in Key : Holders(k)' = Holders(k) \ {i}
  <2>1. \A j \in LiveSlots' : KeyAt(j)' = KeyAt(j)
    BY <1>5, <1>6, <1>7 DEF KeyAt
  <2> QED BY <2>1 DEF Holders
<1> QED BY <1>5, <1>6, <1>7, <1>8, <1>9

LEMMA WrapExact ==
  ASSUME NEW n \in Index
  PROVE  n \in Nat /\ Wrap(n) = n
BY IndexAssumption DEF Wrap, Index, INDEX_RANGE

LEMMA MinusExact ==
  ASSUME NEW m \in Index, NEW n \in 0 .. m
  PROVE  Minus(m, n) = m - n
<1>1. /\ HIGH_BIT \in Nat \ {0} /\ INDEX_RANGE \in Nat \ {0}
      /\ m - n \in 0 .. INDEX_RANGE - 1 /\ m + (INDEX_RANGE - n) = (m - n) + INDEX_RANGE
  BY IndexAssumption DEF Index, INDEX_RANGE
<1>2. ASSUME NEW d \in 0 .. INDEX_RANGE - 1
      PROVE  (d + INDEX_RANGE) % INDEX_RANGE = d
  <2> HIDE DEF INDEX_RANGE
  <2> QED BY <1>1
<1> QED BY <1>1, <1>2 DEF Minus, Wrap

LEMMA RemoveCounts ==
  ASSUME IInv, Shape, CountsInv, ClaimInv, Busy, IInv', pc' = pc, at' = at,
         NEW i \in LiveSlots, NEW l, RemoveEntry(i, l),
         LiveSlots' = LiveSlots \ {i},
         DeadIn(key_hashes') = DeadIn(key_hashes) \cup {i}, i \notin DeadIn(key_hashes)
  PROVE  CountsInv'
<1>1. Frame
  BY FrameHolds DEF Shape
<1>2. IsFiniteSet(LiveSlots) /\ IsFiniteSet(DeadIn(key_hashes))
  BY <1>1, TableSize, FS_Subset DEF Frame, LiveIn, DeadIn
<1>3. /\ Cardinality(LiveSlots') = Cardinality(LiveSlots) - 1
      /\ Cardinality(DeadIn(key_hashes')) = Cardinality(DeadIn(key_hashes)) + 1
      /\ Cardinality(LiveSlots) \in Nat /\ Cardinality(LiveSlots') \in Nat
      /\ Cardinality(DeadIn(key_hashes)) \in Nat
  <2>1. Cardinality(LiveSlots \ {i}) = Cardinality(LiveSlots) - 1
    BY <1>2, FS_RemoveElement
  <2>2. Cardinality(DeadIn(key_hashes) \cup {i}) = Cardinality(DeadIn(key_hashes)) + 1
    BY <1>2, FS_AddElement
  <2>3. Cardinality(LiveSlots) \in Nat /\ Cardinality(DeadIn(key_hashes)) \in Nat
    BY <1>2, FS_CardinalityType
  <2>4. IsFiniteSet(LiveSlots \ {i})
    BY <1>2, FS_RemoveElement
  <2>5. Cardinality(LiveSlots \ {i}) \in Nat
    BY <2>4, FS_CardinalityType
  <2> QED BY <2>1, <2>2, <2>3, <2>5
<1>4. entry_total' = entry_total - 1
  BY <1>3, MinusExact DEF CountsInv, RemoveEntry, IInv, DataInv, CountsOK
<1>5. Claimed' = Claimed
  <2>1. pc = "insert" => key_hashes'[at] = key_hashes[at]
    BY <1>1 DEF ClaimInv, RemoveEntry, Frame
  <2> QED BY <2>1 DEF Claimed
<1>6. Claimed \in {0, 1}
  BY DEF Claimed
<1>7. dead_total' = dead_total + 1
  <2>1. dead_total \in 0 .. INIT_ENTRY_CAPACITY
    BY <1>3, <1>6, ConstantTypes, TableSize DEF CountsInv, IInv, DataInv, CountsOK
  <2>2. dead_total + 1 \in Index
    BY <2>1, CacheAssumption, IndexAssumption DEF Index, INDEX_RANGE
  <2> QED BY <2>2, WrapExact DEF RemoveEntry
<1> QED BY <1>3, <1>4, <1>5, <1>6, <1>7, TableSize DEF CountsInv

-----------------------------------------------------------------------------
(* Lookups, while live slots are exact.                                    *)

(* Where the loops look into an entry they find the key, or go on.         *)
LEMMA ExaminedExact ==
  ASSUME IInv, Shape, ContentsInv, pc # "destroyed", NEW k \in Key, NEW i \in Slots
  PROVE  /\ Examined(k, i) <=> i \in Holders(k)
         /\ i \in Holders(k) => IsHit(k, i)
         /\ ~ Faults(k, i)
<1>1. IsLive(KeyHash(k))
  BY GetHashIsLive, CacheAssumption DEF KeyHash
<1>2. key_hashes[i] = KeyHash(k) => i \in LiveSlots
  BY <1>1 DEF LiveSlots
<1>3. ASSUME i \in LiveSlots
      PROVE  /\ ~ Unreadable(i) /\ KeyAt(i) \in Key /\ KeyHash(KeyAt(i)) = key_hashes[i]
             /\ Removable(i)
  <2>1. EntryExact(entries[bookmarks[i]], key_hashes[i])
    BY <1>3 DEF ContentsInv
  <2>2. bookmarks[i] # JUNK
    BY <1>3, LiveSlotTypes
  <2>3. \A e \in Key : e # NULL /\ e # JUNK
    BY CacheAssumption
  <2> QED BY <2>1, <2>2, <2>3 DEF EntryExact, Unreadable, KeyAt, Removable, Written
<1> QED BY <1>2, <1>3 DEF Examined, Holders, IsHit, Faults

LEMMA LiveRemovable ==
  ASSUME IInv, Shape, ContentsInv, pc # "destroyed", NEW i \in LiveSlots
  PROVE  Removable(i) /\ KeyAt(i) \in Key /\ KeyHash(KeyAt(i)) = key_hashes[i]
<1>1. EntryExact(entries[bookmarks[i]], key_hashes[i])
  BY DEF ContentsInv
<1>2. bookmarks[i] # JUNK /\ i \in Slots
  BY LiveSlotTypes DEF LiveSlots
<1> QED BY <1>1, <1>2, CacheAssumption DEF EntryExact, KeyAt, Removable, Written

LEMMA FindStopsExact ==
  ASSUME IInv, Shape, ContentsInv, pc # "destroyed", NEW k \in Key
  PROVE  /\ FindStops(k) = {c \in 0 .. SlotCount - 1 :
              \/ key_hashes[Probed(KeyHash(k), c)] = EMPTY
              \/ Probed(KeyHash(k), c) \in Holders(k)}
         /\ SetStops(k) = {c \in 0 .. SlotCount - 1 :
              \/ ~ IsLive(key_hashes[Probed(KeyHash(k), c)])
              \/ Probed(KeyHash(k), c) \in Holders(k)}
<1>1. Frame
  BY FrameHolds DEF Shape
<1>2. \A c \in 0 .. SlotCount - 1 :
        /\ SlotAt(k, c) = Probed(KeyHash(k), c) /\ SlotAt(k, c) \in Slots
  BY <1>1, ConstantTypes, ProbedType DEF Frame, SlotAt, Probed
<1>3. \A c \in 0 .. SlotCount - 1 : Examined(k, SlotAt(k, c)) <=> SlotAt(k, c) \in Holders(k)
  BY <1>2, ExaminedExact
<1>4. FindStops(k) = {c \in 0 .. SlotCount - 1 :
              \/ key_hashes[Probed(KeyHash(k), c)] = EMPTY
              \/ Probed(KeyHash(k), c) \in Holders(k)}
  BY <1>1, <1>2, <1>3 DEF FindStops, Frame
<1>5. SetStops(k) = {c \in 0 .. SlotCount - 1 :
              \/ ~ IsLive(key_hashes[Probed(KeyHash(k), c)])
              \/ Probed(KeyHash(k), c) \in Holders(k)}
  BY <1>1, <1>2, <1>3 DEF SetStops, Frame
<1> QED BY <1>4, <1>5

(* The first stop of a probe.                                              *)
LEMMA FirstStop ==
  ASSUME NEW stops \in SUBSET Nat, stops # {}
  PROVE  First(stops) \in stops /\ \A d \in stops : First(stops) <= d
BY LeastElement DEF First

(* A path to a slot with the key is the path the lookup takes.             *)
LEMMA LeadsToFound ==
  ASSUME IInv, Shape, ContentsInv, pc # "destroyed", NEW k \in Key,
         NEW i \in Holders(k), NEW H, Leads(key_hashes, H, KeyHash(k), i)
  PROVE  /\ Found(k) /\ FindSlot(k) \in Holders(k)
         /\ Holders(k) \subseteq H \cup {i} => FindSlot(k) = i
<1> DEFINE P(c) == Probed(KeyHash(k), c)
           f == First(FindStops(k))
<1>1. PICK c \in 0 .. SlotCount - 1 :
        /\ P(c) = i
        /\ \A d \in 0 .. c - 1 : key_hashes[P(d)] # EMPTY /\ P(d) \notin H \ {i}
  BY DEF Leads
<1>2. SlotCount \in Nat
  BY TableSize
<1> HIDE DEF P
<1>3. FindStops(k) = {d \in 0 .. SlotCount - 1 : key_hashes[P(d)] = EMPTY \/ P(d) \in Holders(k)}
  BY FindStopsExact DEF P
<1>4. c \in FindStops(k) /\ FindStops(k) \in SUBSET Nat
  BY <1>1, <1>2, <1>3
<1>5. f \in FindStops(k) /\ f <= c /\ f \in Nat
  BY <1>4, FirstStop
<1> HIDE DEF f
<1>6. P(f) \in Holders(k)
  <2>1. CASE f = c
    BY <1>1, <2>1
  <2>2. CASE f # c
    <3>1. f \in 0 .. c - 1
      BY <1>1, <1>2, <1>5, <2>2
    <3> QED BY <1>1, <1>3, <1>5, <3>1
  <2> QED BY <2>1, <2>2
<1>7. FindSlot(k) = P(f)
  <2>1. FindSlot(k) = SlotAt(k, f)
    BY <1>4 DEF FindSlot, StopSlot, f
  <2>2. Capacity = SlotCount
    BY FrameHolds DEF Frame, Shape
  <2> QED BY <2>1, <2>2 DEF SlotAt, P, Probed
<1>8. Found(k)
  <2>1. P(f) \in Slots
    BY <1>6 DEF Holders, LiveSlots
  <2> QED BY <1>4, <1>6, <1>7, <2>1, ExaminedExact DEF Found
<1>9. Holders(k) \subseteq H \cup {i} => P(f) = i
  <2>1. CASE f = c
    BY <1>1, <2>1
  <2>2. CASE f # c
    <3>1. f \in 0 .. c - 1
      BY <1>1, <1>2, <1>5, <2>2
    <3> QED BY <1>1, <1>6, <3>1
  <2> QED BY <2>1, <2>2
<1> QED BY <1>6, <1>7, <1>8, <1>9

LEMMA FoundIsLive ==
  ASSUME IInv, Shape, ContentsInv, pc # "destroyed", NEW k \in Key, Found(k)
  PROVE  FindSlot(k) \in Holders(k) /\ FindSlot(k) \in LiveSlots
<1>1. FindSlot(k) \in Slots
  BY FindSlotType DEF IInv, DataInv
<1> QED BY <1>1, ExaminedExact DEF Found, IsHit, Holders

-----------------------------------------------------------------------------
(* Steps that remove an entry.                                             *)

LEMMA DeleteHitKeeps ==
  ASSUME SInv, NEW k \in Key, DeleteHit(k)
  PROVE  SInv'
<1>1. /\ pc = "idle" /\ pc' = "idle" /\ at' = at /\ Found(k)
      /\ RemoveEntry(FindSlot(k), list) /\ ret'.op = "delete"
  BY DEF DeleteHit, Returned
<1>2. IInv'
  BY DeleteHitStep DEF SInv
<1>3. PICK i \in LiveSlots : i = FindSlot(k)
  BY <1>1, FoundIsLive DEF SInv
<1>4. bookmarks[i] \in LivePages
  BY LiveSlotTypes DEF SInv
<1>5. Circle(RemoveItem(list, bookmarks[i]), TablePages, LivePages \ {bookmarks[i]})
  BY <1>4, RemoveCircle DEF SInv, Shape, ListInv
<1>6. /\ Shape'
      /\ LiveSlots' = LiveSlots \ {i}
      /\ LivePages' = LivePages \ {bookmarks[i]}
      /\ DeadIn(key_hashes') = DeadIn(key_hashes) \cup {i} /\ i \notin DeadIn(key_hashes)
  BY <1>1, <1>2, <1>3, <1>5, RemoveShape DEF SInv
<1>7. ContentsInv'
  BY <1>1, <1>2, <1>3, <1>6, RemoveContents DEF SInv
<1>8. CountsInv'
  BY <1>1, <1>2, <1>3, <1>6, RemoveCounts DEF SInv, Busy
<1>9. ClaimInv' /\ FoundInv' /\ DestroyFreesAll'
  BY <1>1 DEF ClaimInv, FoundInv, DestroyFreesAll
<1> QED BY <1>2, <1>6, <1>7, <1>8, <1>9 DEF SInv

(* The entry at the head of the list, which is in use.                     *)
LEMMA HeadIsLive ==
  ASSUME SInv, list.head # INVALID_NODE
  PROVE  /\ list.head \in LivePages /\ book.link[list.head] \in LiveSlots
         /\ bookmarks[book.link[list.head]] = list.head
<1>1. list.head \in LivePages
  BY CircleHead DEF SInv, Shape, ListInv
<1>2. PICK i \in LiveSlots : list.head = bookmarks[i]
  BY <1>1 DEF LivePages
<1>3. book.link[list.head] = i
  BY <1>2, LiveSlotTypes DEF SInv
<1> QED BY <1>1, <1>2, <1>3

LEMMA EvictKeeps ==
  ASSUME SInv, Evict, ~ OwnEviction
  PROVE  SInv'
<1> DEFINE p == list.head
           i == book.link[p]
<1>1. /\ pc \in {"update", "insert"} /\ pc' = pc /\ at' = at /\ arg' = arg
      /\ p # INVALID_NODE /\ RemoveEntry(i, RemoveItem(list, p))
      /\ pc = "update" => p # at
  BY DEF Evict, Evicting, CanEvict, OwnEviction
<1>2. IInv'
  BY EvictStep DEF SInv
<1>3. p \in LivePages /\ i \in LiveSlots /\ bookmarks[i] = p
  BY <1>1, HeadIsLive
<1>4. Circle(RemoveItem(RemoveItem(list, p), p), TablePages, LivePages \ {p})
  BY <1>1, <1>3, RemoveCircle, RemoveHeadTwice DEF SInv, Shape, ListInv
<1> HIDE DEF p, i
<1>5. /\ Shape'
      /\ LiveSlots' = LiveSlots \ {i}
      /\ LivePages' = LivePages \ {p}
      /\ DeadIn(key_hashes') = DeadIn(key_hashes) \cup {i} /\ i \notin DeadIn(key_hashes)
      /\ NoneEmptied(key_hashes, key_hashes')
  BY <1>1, <1>2, <1>3, <1>4, RemoveShape DEF SInv
<1>6. /\ ContentsInv'
      /\ \A q \in TablePages \ {p} : entries'[q] = entries[q]
      /\ \A k \in Key : Holders(k)' = Holders(k) \ {i}
  BY <1>1, <1>2, <1>3, <1>5, RemoveContents DEF SInv
<1>7. CountsInv'
  BY <1>1, <1>2, <1>3, <1>5, RemoveCounts DEF SInv, Busy
<1>8. ClaimInv'
  <2>1. arg.key \in Key /\ KeyHash(arg.key) \in Index
    BY <1>1, ConstantTypes DEF SInv, IInv, CallInv, CallType
  <2>2. Holders(arg.key)' = Holders(arg.key) \ {i}
    <3>1. \A k \in Key : k = arg.key => Holders(k)' = Holders(k) \ {i}
      BY <1>6
    <3> QED BY <1>1, <2>1, <3>1 DEF Holders
  <2>3. CASE pc = "update"
    <3>1. PICK j : j = book.link[at]
      OBVIOUS
    <3>2. /\ at \in LivePages /\ entries[at].key = arg.key
          /\ Leads(key_hashes, Holders(arg.key), KeyHash(arg.key), j)
      BY <2>3, <3>1 DEF SInv, ClaimInv
    <3>3. at # p /\ at \in TablePages
      <4>1. Frame
        BY FrameHolds DEF SInv, Shape
      <4>2. at \in PagesOf(key_hashes, bookmarks)
        BY <3>2, <4>1 DEF Frame
      <4> QED BY <1>1, <2>3, <4>2 DEF PagesOf, SInv, Shape, TableInv, Linked
    <3>4. book'.link[at] = j /\ at' \in LivePages' /\ entries'[at].key = arg.key
      <4>1. book.link \in [TablePages -> Word]
        BY FrameHolds DEF SInv, Shape, Frame
      <4> QED BY <1>1, <1>3, <1>5, <1>6, <3>1, <3>2, <3>3, <4>1 DEF RemoveEntry, FreeBookPage
    <3>5. Leads(key_hashes', Holders(arg.key)', KeyHash(arg.key), j)
      <4>1. Holders(arg.key)' \subseteq Holders(arg.key) \cup {j}
        BY <2>2
      <4> QED BY <1>5, <2>1, <3>2, <4>1, LeadsKept DEF NoneEmptied
    <3> QED BY <1>1, <2>3, <3>4, <3>5 DEF ClaimInv, KeyHash
  <2>4. CASE pc = "insert"
    <3>1. /\ at \in TableSlots \ LiveSlots
          /\ Leads(key_hashes, Holders(arg.key), KeyHash(arg.key), at)
      BY <2>4 DEF SInv, ClaimInv
    <3>2. Leads(key_hashes', Holders(arg.key)', KeyHash(arg.key), at)
      <4>1. Holders(arg.key)' \subseteq Holders(arg.key) \cup {at}
        BY <2>2
      <4> QED BY <1>5, <2>1, <3>1, <4>1, LeadsKept DEF NoneEmptied
    <3> QED BY <1>1, <1>5, <2>4, <3>1, <3>2 DEF ClaimInv, KeyHash
  <2> QED BY <1>1, <2>3, <2>4
<1>9. FoundInv' /\ DestroyFreesAll'
  BY <1>1 DEF FoundInv, DestroyFreesAll
<1> QED BY <1>2, <1>5, <1>6, <1>7, <1>8, <1>9 DEF SInv

-----------------------------------------------------------------------------
(* Steps that leave the memory of the cache alone.                         *)

LEMMA MemoryKept ==
  ASSUME SInv, UNCHANGED memory, entry_capacity' = entry_capacity, pc' # "rehash",
         IInv', pc # "destroyed"
  PROVE  /\ Shape' /\ ContentsInv'
         /\ LiveSlots' = LiveSlots /\ LivePages' = LivePages
         /\ key_hashes' = key_hashes /\ book' = book /\ entries' = entries
         /\ bookmarks' = bookmarks
         /\ \A k \in Key : Holders(k)' = Holders(k)
<1>1. /\ key_hashes' = key_hashes /\ bookmarks' = bookmarks
      /\ entries' = entries /\ book' = book /\ list' = list
  BY DEF memory
<1>2. Slots' = Slots /\ Pages' = Pages
  BY DEF Slots, Capacity, Pages
<1>3. LiveSlots' = LiveSlots /\ LivePages' = LivePages
  BY <1>1, <1>2 DEF LiveSlots, LivePages
<1>4. Sized' /\ TableInv' /\ ListInv'
  BY <1>1, <1>3 DEF SInv, Shape, Sized, TableInv, ListInv
<1>5. BookInv'
  BY <1>1, <1>3, AllocP!NextIInv, BookAssumptions DEF SInv, Shape, BookInv, AllocP!vars
<1>6. ContentsInv'
  BY <1>1, <1>2, <1>3 DEF SInv, ContentsInv
<1>7. \A k \in Key : Holders(k)' = Holders(k)
  BY <1>1, <1>3 DEF Holders, KeyAt
<1> QED BY <1>1, <1>3, <1>4, <1>5, <1>6, <1>7 DEF Shape

(* A call that reports, changes nothing and finds no fault.                *)
LEMMA ReportKeeps ==
  ASSUME SInv, UNCHANGED <<counts, memory, pc, arg, at, old>>, IInv',
         pc = "idle", FoundInv'
  PROVE  SInv'
<1>1. /\ Shape' /\ ContentsInv'
      /\ LiveSlots' = LiveSlots /\ key_hashes' = key_hashes
  BY MemoryKept DEF counts
<1>2. CountsInv'
  BY <1>1 DEF SInv, CountsInv, Busy, Claimed, counts
<1>3. ClaimInv' /\ DestroyFreesAll'
  BY DEF ClaimInv, DestroyFreesAll
<1> QED BY <1>1, <1>2, <1>3 DEF SInv

LEMMA ReportsKeep ==
  ASSUME SInv
  PROVE  /\ \A k \in Key : \A v \in ValuesOf[k] : SetTooLarge(k, v) => SInv'
         /\ \A k \in Key : GetMiss(k) => SInv'
         /\ \A k \in Key : DeleteMiss(k) => SInv'
         /\ SpaceUsed => SInv'
<1>1. ASSUME NEW k \in Key, NEW v \in ValuesOf[k], SetTooLarge(k, v)
      PROVE  SInv'
  <2>1. IInv'
    BY <1>1, SetTooLargeStep DEF SInv
  <2>2. FoundInv'
    BY <1>1 DEF SetTooLarge, FoundInv, Returned
  <2> QED BY <1>1, <2>1, <2>2, ReportKeeps DEF SetTooLarge
<1>2. ASSUME NEW k \in Key, GetMiss(k)
      PROVE  SInv'
  <2>1. IInv'
    BY <1>2, GetMissStep DEF SInv
  <2>2. FoundInv'
    BY <1>2 DEF GetMiss, FoundInv, Returned
  <2> QED BY <1>2, <2>1, <2>2, ReportKeeps DEF GetMiss
<1>3. ASSUME NEW k \in Key, DeleteMiss(k)
      PROVE  SInv'
  <2>1. IInv'
    BY <1>3, DeleteMissStep DEF SInv
  <2>2. FoundInv'
    BY <1>3 DEF DeleteMiss, FoundInv, Returned
  <2> QED BY <1>3, <2>1, <2>2, ReportKeeps DEF DeleteMiss
<1>4. ASSUME SpaceUsed
      PROVE  SInv'
  <2>1. IInv'
    BY <1>4, SpaceUsedStep DEF SInv
  <2>2. FoundInv'
    BY <1>4 DEF SpaceUsed, FoundInv, Returned
  <2> QED BY <1>4, <2>1, <2>2, ReportKeeps DEF SpaceUsed
<1> QED BY <1>1, <1>2, <1>3, <1>4

LEMMA UndefinedKeeps ==
  ASSUME SInv, Undefined
  PROVE  SInv'
<1>1. /\ UNCHANGED <<counts, memory, arg, at, old, ret>> /\ pc' = "undefined"
      /\ pc # "destroyed"
  BY DEF Undefined, Faulty, Evicting, Rehashing
<1>2. IInv'
  BY UndefinedStep DEF SInv
<1>3. Shape' /\ ContentsInv'
  BY <1>1, <1>2, MemoryKept DEF counts
<1>4. CountsInv' /\ ClaimInv' /\ FoundInv' /\ DestroyFreesAll'
  BY <1>1 DEF CountsInv, Busy, ClaimInv, FoundInv, DestroyFreesAll
<1> QED BY <1>2, <1>3, <1>4 DEF SInv

(* The walk of cache_set ends at its key, or at a slot to claim.           *)
LEMMA SetWalk ==
  ASSUME SInv, pc = "idle", NEW k \in Key
  PROVE  /\ SetStops(k) # {} /\ SetSlot(k) \in TableSlots
         /\ Leads(key_hashes, Holders(k), KeyHash(k), SetSlot(k))
         /\ SetSlot(k) \in Holders(k) \/ ~ IsLive(key_hashes[SetSlot(k)])
<1> DEFINE P(c) == Probed(KeyHash(k), c)
           f == First(SetStops(k))
<1>1. Frame /\ SlotCount \in Nat
  BY FrameHolds, TableSize DEF SInv, Shape
<1>2. KeyHash(k) \in Index
  BY ConstantTypes
<1>3. SetStops(k) = {c \in 0 .. SlotCount - 1 : \/ ~ IsLive(key_hashes[P(c)])
                                              \/ P(c) \in Holders(k)}
  BY FindStopsExact DEF SInv
<1>4. SetStops(k) # {}
  <2>1. Cardinality(LiveIn(key_hashes)) + Cardinality(DeadIn(key_hashes)) <= INIT_ENTRY_CAPACITY
    BY <1>1 DEF SInv, CountsInv, Busy, Frame
  <2>2. key_hashes \in [TableSlots -> Index]
    BY <1>1 DEF Frame
  <2>3. PICK c \in 0 .. SlotCount - 1 : key_hashes[P(c)] = EMPTY
    BY <1>2, <2>1, <2>2, EmptySlotMet
  <2> HIDE DEF P
  <2> QED BY <1>3, <2>3 DEF IsLive
<1> HIDE DEF P
<1>5. SetStops(k) \in SUBSET Nat
  BY <1>1, <1>3
<1>6. f \in SetStops(k) /\ \A d \in SetStops(k) : f <= d
  BY <1>4, <1>5, FirstStop
<1>7. SetSlot(k) = P(f)
  BY <1>1, <1>4 DEF SetSlot, StopSlot, SlotAt, P, Probed, Frame
<1> HIDE DEF f
<1>8. P(f) \in TableSlots /\ f \in 0 .. SlotCount - 1
  BY <1>2, <1>3, <1>6, ProbedType DEF P
<1>9. ASSUME NEW d \in 0 .. f - 1
      PROVE  key_hashes[P(d)] # EMPTY /\ P(d) \notin Holders(k)
  <2>1. d \notin SetStops(k)
    BY <1>6, <1>8
  <2>2. d \in 0 .. SlotCount - 1
    BY <1>1, <1>8
  <2> QED BY <1>3, <2>1, <2>2 DEF IsLive
<1>10. Leads(key_hashes, Holders(k), KeyHash(k), P(f))
  BY <1>8, <1>9 DEF Leads, P
<1> QED BY <1>3, <1>4, <1>6, <1>7, <1>8, <1>10

LEMMA SetExistingKeeps ==
  ASSUME SInv, NEW k \in Key, NEW v \in ValuesOf[k], SetExisting(k, v)
  PROVE  SInv'
<1>1. /\ pc = "idle" /\ pc' = "update" /\ arg' = [key |-> k, val |-> v]
      /\ at' = bookmarks[SetSlot(k)] /\ IsHit(k, SetSlot(k))
      /\ UNCHANGED <<entry_capacity, entry_total, dead_total, memory, old, ret>>
  BY DEF SetExisting
<1>2. IInv'
  BY SetExistingStep DEF SInv
<1>3. /\ Shape' /\ ContentsInv'
      /\ LiveSlots' = LiveSlots /\ LivePages' = LivePages
      /\ key_hashes' = key_hashes /\ book' = book /\ entries' = entries
      /\ Holders(k)' = Holders(k)
  BY <1>1, <1>2, MemoryKept
<1>4. SetSlot(k) \in Holders(k)
  <2>1. SetSlot(k) \in Slots
    BY FindSlotType DEF SInv, IInv, DataInv
  <2> QED BY <1>1, <2>1, ExaminedExact DEF SInv, IsHit
<1>5. CountsInv'
  BY <1>1, <1>3 DEF SInv, CountsInv, Busy, Claimed
<1>6. ClaimInv'
  <2>1. PICK i \in LiveSlots : i = SetSlot(k) /\ KeyAt(i) = k
    BY <1>4 DEF Holders
  <2>2. at' = bookmarks[i] /\ at' \in LivePages /\ book.link[at'] = i
    BY <1>1, <2>1, LiveSlotTypes DEF SInv
  <2>3. Leads(key_hashes, Holders(k), KeyHash(k), i)
    BY <1>1, <2>1, SetWalk
  <2>4. arg'.key = k
    BY <1>1
  <2>5. entries[at'].key = k
    BY <2>1, <2>2 DEF KeyAt
  <2>6. Holders(arg.key)' = Holders(k)'
    BY <2>4 DEF Holders
  <2> QED BY <1>1, <1>3, <2>2, <2>3, <2>4, <2>5, <2>6 DEF ClaimInv, KeyHash
<1>7. FoundInv' /\ DestroyFreesAll'
  BY <1>1 DEF FoundInv, DestroyFreesAll
<1> QED BY <1>2, <1>3, <1>5, <1>6, <1>7 DEF SInv

LEMMA SetNewKeeps ==
  ASSUME SInv, NEW k \in Key, NEW v \in ValuesOf[k], SetNew(k, v)
  PROVE  SInv'
<1>1. /\ pc = "idle" /\ pc' = "insert" /\ arg' = [key |-> k, val |-> v]
      /\ at' = SetSlot(k) /\ (SetStops(k) # {} => ~ Examined(k, SetSlot(k)))
      /\ dead_total' = IF key_hashes[at'] = DELETED THEN Minus(dead_total, 1) ELSE dead_total
      /\ UNCHANGED <<entry_capacity, entry_total, memory, old, ret>>
  BY DEF SetNew
<1>2. IInv'
  BY SetNewStep DEF SInv
<1>3. /\ Shape' /\ ContentsInv'
      /\ LiveSlots' = LiveSlots /\ LivePages' = LivePages
      /\ key_hashes' = key_hashes /\ book' = book /\ entries' = entries
      /\ Holders(k)' = Holders(k)
  BY <1>1, <1>2, MemoryKept
<1>4. /\ SetSlot(k) \in TableSlots /\ ~ IsLive(key_hashes[SetSlot(k)])
      /\ SetSlot(k) \notin LiveSlots
      /\ Leads(key_hashes, Holders(k), KeyHash(k), SetSlot(k))
  <2>1. SetSlot(k) \in Slots
    BY FindSlotType DEF SInv, IInv, DataInv
  <2>2. SetSlot(k) \notin Holders(k)
    BY <1>1, <2>1, SetWalk, ExaminedExact DEF SInv
  <2> QED BY <1>1, <2>2, SetWalk DEF LiveSlots
<1>5. CountsInv'
  <2>1. IsFiniteSet(DeadIn(key_hashes))
    BY TableSize, FS_Subset DEF DeadIn
  <2>2. Cardinality(DeadIn(key_hashes)) \in Nat
    BY <2>1, FS_CardinalityType
  <2>3. dead_total = Cardinality(DeadIn(key_hashes))
    BY <1>1, <2>2 DEF SInv, CountsInv, Busy, Claimed
  <2>4. CASE key_hashes[at'] = DELETED
    <3>1. at' \in DeadIn(key_hashes)
      BY <1>1, <1>4, <2>4 DEF DeadIn
    <3>2. Cardinality(DeadIn(key_hashes)) # 0
      BY <2>1, <3>1, FS_EmptySet
    <3>3. dead_total' = Cardinality(DeadIn(key_hashes)) - 1
      BY <1>1, <2>2, <2>3, <2>4, <3>2, MinusExact DEF SInv, IInv, DataInv, CountsOK
    <3>4. Claimed' = 1
      BY <1>1, <1>3, <2>4 DEF Claimed
    <3> QED BY <1>1, <1>3, <3>3, <3>4 DEF SInv, CountsInv, Busy
  <2>5. CASE key_hashes[at'] # DELETED
    <3>1. Claimed' = 0
      BY <1>1, <1>3, <2>5 DEF Claimed
    <3> QED BY <1>1, <1>3, <2>2, <2>3, <2>5, <3>1 DEF SInv, CountsInv, Busy
  <2> QED BY <2>4, <2>5
<1>6. ClaimInv'
  <2>1. arg'.key = k
    BY <1>1
  <2>2. Holders(arg.key)' = Holders(k)'
    BY <2>1 DEF Holders
  <2> QED BY <1>1, <1>3, <1>4, <2>1, <2>2 DEF ClaimInv, KeyHash
<1>7. FoundInv' /\ DestroyFreesAll'
  BY <1>1 DEF FoundInv, DestroyFreesAll
<1> QED BY <1>2, <1>3, <1>5, <1>6, <1>7 DEF SInv

(* Moving a page in use within the list.                                   *)
LEMMA MoveShape ==
  ASSUME SInv, IInv', pc' # "rehash", NEW p \in LivePages,
         list' = SetLast(list, p),
         UNCHANGED <<entry_capacity, key_hashes, bookmarks, book>>
  PROVE  Shape' /\ LiveSlots' = LiveSlots /\ LivePages' = LivePages
<1>1. Slots' = Slots
  BY DEF Slots, Capacity
<1>2. LiveSlots' = LiveSlots /\ LivePages' = LivePages
  BY <1>1 DEF LiveSlots, LivePages
<1>3. Sized' /\ TableInv'
  BY DEF SInv, Shape, Sized, TableInv
<1>4. ListInv'
  BY <1>2, SetLastCircle DEF SInv, Shape, ListInv
<1>5. BookInv'
  BY <1>2, AllocP!NextIInv, BookAssumptions DEF SInv, Shape, BookInv, AllocP!vars
<1> QED BY <1>2, <1>3, <1>4, <1>5 DEF Shape

LEMMA GetHitKeeps ==
  ASSUME SInv, NEW k \in Key, GetHit(k)
  PROVE  SInv'
<1>1. /\ pc = "idle" /\ pc' = pc /\ Found(k) /\ ret'.op = "get"
      /\ list' = SetLast(list, bookmarks[FindSlot(k)])
      /\ UNCHANGED <<entry_capacity, entry_total, dead_total, key_hashes, bookmarks,
                     entries, book, at>>
  BY DEF GetHit, Returned, counts
<1>2. IInv'
  BY GetHitStep DEF SInv
<1>3. PICK i \in LiveSlots : i = FindSlot(k)
  BY <1>1, FoundIsLive DEF SInv
<1>4. bookmarks[i] \in LivePages
  BY LiveSlotTypes DEF SInv
<1>5. Shape' /\ LiveSlots' = LiveSlots /\ LivePages' = LivePages
  BY <1>1, <1>2, <1>3, <1>4, MoveShape
<1>6. Pages' = Pages
  BY <1>1 DEF Pages
<1>7. ContentsInv' /\ CountsInv'
  BY <1>1, <1>5, <1>6 DEF SInv, ContentsInv, CountsInv, Busy, Claimed
<1>8. ClaimInv' /\ FoundInv' /\ DestroyFreesAll'
  BY <1>1 DEF ClaimInv, FoundInv, DestroyFreesAll
<1> QED BY <1>2, <1>5, <1>7, <1>8 DEF SInv

LEMMA FinishUpdateKeeps ==
  ASSUME SInv, FinishUpdate
  PROVE  SInv'
<1> DEFINE e == [entries[at] EXCEPT !.value = arg.val, !.value_size = ValSize[arg.val]]
<1>1. /\ pc = "update" /\ pc' = "idle" /\ list' = SetLast(list, at)
      /\ entries' = [entries EXCEPT ![at] = e]
      /\ UNCHANGED <<entry_capacity, entry_total, dead_total, key_hashes, bookmarks, book>>
      /\ ret'.op = "set" /\ ret'.key = arg.key /\ ret'.val = arg.val
  BY DEF FinishUpdate, Returned, counts
<1>2. IInv'
  BY FinishUpdateStep DEF SInv
<1>3. /\ at \in LivePages /\ entries[at].key = arg.key
      /\ Leads(key_hashes, Holders(arg.key), KeyHash(arg.key), book.link[at])
  BY <1>1 DEF SInv, ClaimInv
<1>4. PICK i \in LiveSlots : bookmarks[i] = at
  BY <1>3 DEF LivePages
<1>5. book.link[at] = i /\ at \in TablePages
  BY <1>4, LiveSlotTypes DEF SInv
<1>6. Shape' /\ LiveSlots' = LiveSlots /\ LivePages' = LivePages
  BY <1>1, <1>2, <1>3, MoveShape
<1>7. Frame
  BY FrameHolds DEF SInv, Shape
<1>8. EntryExact(entries[at], key_hashes[i])
  BY <1>1, <1>4 DEF SInv, ContentsInv
<1>9. arg.val \in Value
  BY <1>1 DEF SInv, IInv, CallInv, CallType
<1>10. entries[at] \in EntryType
  <2>1. entries[at] \in EntryType \cup {JunkEntry} /\ entries[at].key \in Key
    BY <1>5, <1>7, <1>8 DEF Frame, EntryExact
  <2> QED BY <2>1, EntryTypes
<1>11. /\ e.key = entries[at].key /\ e.key_size = entries[at].key_size
       /\ e.value = arg.val /\ e.value_size = ValSize[arg.val]
  BY <1>10 DEF EntryType
<1> HIDE DEF e
<1>12. entries'[at] = e /\ \A q \in TablePages \ {at} : entries'[q] = entries[q]
  BY <1>1, <1>5, <1>7 DEF Frame
<1>13. EntryExact(entries'[at], key_hashes[i])
  BY <1>8, <1>9, <1>11, <1>12 DEF EntryExact
<1>14. ASSUME NEW j \in LiveSlots, j # i
       PROVE  entries'[bookmarks[j]] = entries[bookmarks[j]]
  <2>1. bookmarks[j] \in TablePages /\ bookmarks[j] # at
    BY <1>4, <1>5, <1>14, LiveSlotTypes DEF SInv
  <2> QED BY <1>12, <2>1
<1>15. ContentsInv'
  <2>1. \A j \in LiveSlots' : EntryExact(entries'[bookmarks'[j]], key_hashes'[j])
    <3> SUFFICES ASSUME NEW j \in LiveSlots
                 PROVE  EntryExact(entries'[bookmarks[j]], key_hashes[j])
      BY <1>1, <1>6
    <3>1. CASE j = i
      BY <1>4, <1>13, <3>1
    <3>2. CASE j # i
      <4>1. EntryExact(entries[bookmarks[j]], key_hashes[j])
        BY <1>1 DEF SInv, ContentsInv
      <4> QED BY <1>14, <3>2, <4>1
    <3> QED BY <3>1, <3>2
  <2>2. \A q \in Pages' \ LivePages' : Gone(entries'[q])
    <3> SUFFICES ASSUME NEW q \in Pages', q \notin LivePages'
                 PROVE  Gone(entries'[q])
      OBVIOUS
    <3>1. q \in Pages /\ q \notin LivePages /\ q \in TablePages /\ q # at
      BY <1>1, <1>3, <1>6, <1>7 DEF Pages, Frame
    <3> QED BY <1>12, <3>1 DEF SInv, ContentsInv
  <2> QED BY <2>1, <2>2 DEF ContentsInv
<1>16. CountsInv'
  BY <1>1, <1>6 DEF SInv, CountsInv, Busy, Claimed
<1>17. FoundInv'
  <2>1. PICK k : k = arg.key
    OBVIOUS
  <2>2. KeyAt(i)' = k
    BY <1>1, <1>3, <1>4, <1>11, <1>12, <2>1 DEF KeyAt
  <2>3. ASSUME NEW j \in LiveSlots, j # i
        PROVE  KeyAt(j)' = KeyAt(j)
    BY <1>1, <1>14, <2>3 DEF KeyAt
  <2>4. KeyAt(i) = k
    BY <1>3, <1>4, <2>1 DEF KeyAt
  <2>5. \A j \in LiveSlots : KeyAt(j)' = KeyAt(j)
    BY <2>2, <2>3, <2>4
  <2>6. {j \in LiveSlots' : KeyAt(j)' = k} = {j \in LiveSlots : KeyAt(j) = k}
    BY <1>6, <2>5
  <2>7. Holders(ret.key)' = Holders(arg.key)
    BY <1>1, <2>1, <2>6 DEF Holders
  <2>8. i \in Holders(arg.key)
    BY <2>1, <2>4 DEF Holders
  <2>9. entries'[bookmarks'[i]].value = ret'.val
    BY <1>1, <1>4, <1>11, <1>12
  <2> QED BY <1>1, <1>3, <1>5, <2>7, <2>8, <2>9 DEF FoundInv, KeyHash
<1>18. ClaimInv' /\ DestroyFreesAll'
  BY <1>1 DEF ClaimInv, DestroyFreesAll
<1> QED BY <1>2, <1>6, <1>15, <1>16, <1>17, <1>18 DEF SInv

LEMMA DestroyKeeps ==
  ASSUME SInv, Destroy
  PROVE  SInv'
<1>1. /\ pc = "idle" /\ pc' = "destroyed"
      /\ entries' = [p \in Pages |->
           IF p \in LivePages THEN [entries[p] EXCEPT !.key = NULL, !.value = NULL]
                              ELSE entries[p]]
      /\ UNCHANGED <<entry_capacity, key_hashes, bookmarks, book, list, ret>>
  BY DEF Destroy, counts
<1>2. IInv'
  BY DestroyStep DEF SInv
<1>3. Pages' = Pages /\ Slots' = Slots /\ LiveSlots' = LiveSlots /\ LivePages' = LivePages
  BY <1>1 DEF Pages, Slots, Capacity, LiveSlots, LivePages
<1>4. Shape'
  <2>1. Sized' /\ TableInv' /\ ListInv'
    BY <1>1, <1>3 DEF SInv, Shape, Sized, TableInv, ListInv
  <2>2. BookInv'
    BY <1>1, <1>3, AllocP!NextIInv, BookAssumptions DEF SInv, Shape, BookInv, AllocP!vars
  <2> QED BY <2>1, <2>2 DEF Shape
<1>5. \A p \in Pages : Gone(entries'[p])
  <2> SUFFICES ASSUME NEW p \in Pages
               PROVE  Gone(entries'[p])
    OBVIOUS
  <2>1. CASE p \notin LivePages
    BY <1>1, <2>1 DEF SInv, ContentsInv
  <2>2. CASE p \in LivePages
    <3>1. PICK i \in LiveSlots : bookmarks[i] = p
      BY <2>2 DEF LivePages
    <3>2. EntryExact(entries[p], key_hashes[i])
      BY <1>1, <3>1 DEF SInv, ContentsInv
    <3>3. entries[p] \in EntryType
      <4>1. entries[p] \in EntryType \cup {JunkEntry} /\ entries[p].key \in Key
        BY <3>2, FrameHolds DEF SInv, Shape, Frame, EntryExact
      <4> QED BY <4>1, EntryTypes
    <3>4. entries'[p] = [entries[p] EXCEPT !.key = NULL, !.value = NULL]
      BY <1>1, <2>2
    <3> QED BY <3>3, <3>4 DEF EntryType, Gone
  <2> QED BY <2>1, <2>2
<1>6. ContentsInv' /\ DestroyFreesAll'
  BY <1>1, <1>3, <1>5 DEF ContentsInv, DestroyFreesAll, Gone
<1>7. CountsInv' /\ ClaimInv' /\ FoundInv'
  BY <1>1 DEF CountsInv, Busy, ClaimInv, FoundInv
<1> QED BY <1>2, <1>4, <1>6, <1>7 DEF SInv

(* There is one page in use for every live slot.                           *)
LEMMA OnePageEach ==
  ASSUME IInv, Shape
  PROVE  /\ IsFiniteSet(LiveSlots) /\ IsFiniteSet(LivePages)
         /\ Cardinality(LivePages) = Cardinality(LiveSlots)
         /\ LivePages \subseteq TablePages
<1> DEFINE f == [i \in LiveSlots |-> bookmarks[i]]
<1>1. LiveSlots \subseteq TableSlots
  BY LiveSlotTypes
<1>2. IsFiniteSet(LiveSlots)
  BY <1>1, TableSize, FS_Subset
<1>3. f \in Surjection(LiveSlots, LivePages)
  BY DEF Surjection, LivePages
<1>4. \A i, j \in LiveSlots : bookmarks[i] = bookmarks[j] => i = j
  BY LiveSlotTypes
<1>5. IsInjective(f)
  BY <1>4 DEF IsInjective
<1>6. f \in Bijection(LiveSlots, LivePages)
  BY <1>3, <1>5 DEF Bijection, Injection, Surjection
<1>7. IsFiniteSet(LivePages) /\ Cardinality(LivePages) = Cardinality(LiveSlots)
  BY <1>2, <1>6, FS_Bijection DEF ExistsBijection
<1>8. LivePages \subseteq TablePages
  BY LiveSlotTypes DEF LivePages
<1> QED BY <1>2, <1>7, <1>8

(* The page handed to an insertion is free.                                *)
LEMMA NextPageIsFree ==
  ASSUME SInv, pc = "insert"
  PROVE  NextPage(book) \in TablePages \ LivePages
<1>1. Cardinality(LivePages) < INIT_ENTRY_CAPACITY
  BY OnePageEach DEF SInv, CountsInv, Busy
<1>2. AllocP!NextPage(book) \in AllocP!Page \ LivePages
  BY <1>1, SameCardinality, AllocP!HandedOutPage, BookAssumptions DEF SInv, Shape, BookInv, AllocP!Page
<1> QED BY <1>2, SameInvalidPage DEF AllocP!NextPage, NextPage, AllocP!Page, TablePages

LEMMA FilledShape ==
  ASSUME SInv, IInv', FinishInsert
  PROVE  /\ Shape'
         /\ LiveSlots' = LiveSlots \cup {at}
         /\ LivePages' = LivePages \cup {NextPage(book)}
         /\ DeadIn(key_hashes') = DeadIn(key_hashes) \ {at}
         /\ NoneEmptied(key_hashes, key_hashes')
<1> DEFINE p == NextPage(book)
           h == KeyHash(arg.key)
<1>1. /\ pc = "insert" /\ pc' # "rehash"
      /\ book' = WriteCurI(AllocBookPage(book), p, at)
      /\ list' = AppendItem(list, p)
      /\ key_hashes' = [key_hashes EXCEPT ![at] = h]
      /\ bookmarks' = [bookmarks EXCEPT ![at] = p]
      /\ entry_capacity' = entry_capacity
  BY DEF FinishInsert
<1>2. Frame
  BY FrameHolds DEF SInv, Shape
<1>3. Sized'
  BY <1>1 DEF SInv, Shape, Sized
<1>4. Frame'
  BY <1>3, FrameNext
<1>5. /\ at \in TableSlots \ LiveSlots
      /\ Leads(key_hashes, Holders(arg.key), h, at)
  BY <1>1 DEF SInv, ClaimInv
<1>6. p \in TablePages \ LivePages
  BY <1>1, NextPageIsFree
<1>7. h \in Index /\ IsLive(h)
  <2>1. arg.key \in Key
    BY <1>1 DEF SInv, IInv, CallInv, CallType
  <2> QED BY <2>1, ConstantTypes, GetHashIsLive, CacheAssumption DEF KeyHash
<1>8. book'.link = [book.link EXCEPT ![p] = at]
  BY <1>1 DEF WriteCurI, AllocBookPage
<1>9. /\ LiveIn(key_hashes') = LiveIn(key_hashes) \cup {at}
      /\ DeadIn(key_hashes') = DeadIn(key_hashes) \ {at}
      /\ PagesOf(key_hashes', bookmarks') = PagesOf(key_hashes, bookmarks) \cup {p}
      /\ Linked(key_hashes', bookmarks', book'.link) /\ Reached(key_hashes')
      /\ NoneEmptied(key_hashes, key_hashes')
  <2>1. PICK kh, bm, link : kh = key_hashes /\ bm = bookmarks /\ link = book.link
    OBVIOUS
  <2>2. PICK i, q, g, H : i = at /\ q = p /\ g = h /\ H = Holders(arg.key)
    OBVIOUS
  <2> DEFINE kh1   == [kh EXCEPT ![i] = g]
             bm1   == [bm EXCEPT ![i] = q]
             link1 == [link EXCEPT ![q] = i]
  <2>4. /\ kh \in [TableSlots -> Index] /\ bm \in [TableSlots -> TablePages \cup {JUNK}]
        /\ link \in [TablePages -> Word] /\ Linked(kh, bm, link) /\ Reached(kh)
    BY <1>2, <2>1 DEF Frame, SInv, Shape, TableInv
  <2>5. /\ i \in TableSlots \ LiveIn(kh) /\ g \in Index /\ IsLive(g)
        /\ Leads(kh, H, g, i) /\ q \in TablePages \ PagesOf(kh, bm)
    BY <1>2, <1>5, <1>6, <1>7, <2>1, <2>2 DEF Frame
  <2>6. key_hashes' = kh1 /\ bookmarks' = bm1 /\ book'.link = link1
    BY <1>1, <1>8, <2>1, <2>2
  <2>7. /\ LiveIn(kh1) = LiveIn(kh) \cup {i}
        /\ DeadIn(kh1) = DeadIn(kh) \ {i}
        /\ PagesOf(kh1, bm1) = PagesOf(kh, bm) \cup {q}
        /\ Linked(kh1, bm1, link1) /\ Reached(kh1)
        /\ NoneEmptied(kh, kh1)
    BY ONLY <2>4, <2>5, SlotFilled
  <2> HIDE DEF p, kh1, bm1, link1
  <2> QED BY <2>1, <2>2, <2>6, <2>7
<1>10. LiveSlots' = LiveSlots \cup {at} /\ LivePages' = LivePages \cup {p}
  BY <1>2, <1>4, <1>9 DEF Frame
<1>11. TableInv'
  BY <1>9 DEF TableInv
<1>12. ListInv'
  BY <1>1, <1>6, <1>10, AppendCircle DEF SInv, Shape, ListInv
<1>13. BookInv'
  <2>1. Cardinality(LivePages) < INIT_ENTRY_CAPACITY
    BY <1>1, OnePageEach DEF SInv, CountsInv, Busy
  <2>2. AllocP!Alloc(at)
    BY <1>1, <1>10, <2>1, SameCardinality, SameInvalidPage
       DEF AllocP!Alloc, AllocP!WriteCurI, AllocP!AllocBookPage, AllocP!NextPage,
           WriteCurI, AllocBookPage, NextPage
  <2> QED BY <1>5, <2>2, AllocP!AllocFromTheEnd, AllocP!AllocFromTheList, BookAssumptions
          DEF SInv, Shape, BookInv
<1> QED BY <1>3, <1>9, <1>10, <1>11, <1>12, <1>13 DEF Shape

LEMMA FinishInsertKeeps ==
  ASSUME SInv, FinishInsert
  PROVE  SInv'
<1> DEFINE p == NextPage(book)
           e == [key |-> arg.key, key_size |-> KeySize[arg.key],
                 value |-> arg.val, value_size |-> ValSize[arg.val]]
           k == arg.key
<1>1. /\ pc = "insert"
      /\ entry_total' = Wrap(entry_total + 1)
      /\ entries' = [entries EXCEPT ![p] = e]
      /\ key_hashes' = [key_hashes EXCEPT ![at] = KeyHash(k)]
      /\ bookmarks' = [bookmarks EXCEPT ![at] = p]
      /\ UNCHANGED <<entry_capacity, dead_total>>
      /\ \/ pc' = "grow"
         \/ /\ pc' = "idle" /\ ~ IsExceedingLoad(entry_total', dead_total, entry_capacity)
            /\ ret' = Returned("set", k, arg.val, 0)
  BY DEF FinishInsert
<1>2. IInv'
  BY FinishInsertStep DEF SInv
<1>3. /\ Shape'
      /\ LiveSlots' = LiveSlots \cup {at}
      /\ LivePages' = LivePages \cup {p}
      /\ DeadIn(key_hashes') = DeadIn(key_hashes) \ {at}
      /\ NoneEmptied(key_hashes, key_hashes')
  BY <1>2, FilledShape
<1>4. p \in TablePages \ LivePages
  BY <1>1, NextPageIsFree
<1>5. /\ at \in TableSlots /\ at \notin LiveSlots
      /\ Leads(key_hashes, Holders(k), KeyHash(k), at)
  BY <1>1 DEF SInv, ClaimInv
<1>6. Frame /\ Frame'
  BY <1>2, <1>3, FrameHolds, FrameNext DEF SInv, Shape
<1>7. k \in Key /\ arg.val \in Value
  BY <1>1 DEF SInv, IInv, CallInv, CallType
<1>8. /\ e.key = k /\ e.value = arg.val
      /\ EntryExact(e, KeyHash(k))
  BY <1>7 DEF EntryExact
<1> HIDE DEF p, e, k
<1>9. /\ entries'[p] = e /\ bookmarks'[at] = p /\ key_hashes'[at] = KeyHash(k)
      /\ \A q \in TablePages \ {p} : entries'[q] = entries[q]
      /\ \A j \in TableSlots \ {at} : /\ bookmarks'[j] = bookmarks[j]
                                      /\ key_hashes'[j] = key_hashes[j]
  BY <1>1, <1>4, <1>5, <1>6 DEF Frame
<1>10. ASSUME NEW j \in LiveSlots
       PROVE  /\ j # at /\ bookmarks'[j] = bookmarks[j] /\ key_hashes'[j] = key_hashes[j]
              /\ entries'[bookmarks'[j]] = entries[bookmarks[j]]
  <2>1. j \in TableSlots /\ bookmarks[j] \in TablePages /\ bookmarks[j] \in LivePages
    BY LiveSlotTypes DEF SInv
  <2>2. bookmarks[j] # p /\ j # at
    BY <1>4, <1>5, <2>1
  <2> QED BY <1>9, <2>1, <2>2
<1>11. ContentsInv'
  <2>1. \A j \in LiveSlots' : EntryExact(entries'[bookmarks'[j]], key_hashes'[j])
    <3> SUFFICES ASSUME NEW j \in LiveSlots'
                 PROVE  EntryExact(entries'[bookmarks'[j]], key_hashes'[j])
      OBVIOUS
    <3>1. CASE j = at
      BY <1>8, <1>9, <3>1
    <3>2. CASE j # at
      <4>1. j \in LiveSlots
        BY <1>3, <3>2
      <4>2. EntryExact(entries[bookmarks[j]], key_hashes[j])
        BY <1>1, <4>1 DEF SInv, ContentsInv
      <4> QED BY <1>10, <4>1, <4>2
    <3> QED BY <3>1, <3>2
  <2>2. \A q \in Pages' \ LivePages' : Gone(entries'[q])
    <3> SUFFICES ASSUME NEW q \in TablePages, q \notin LivePages'
                 PROVE  Gone(entries'[q])
      BY <1>6 DEF Frame
    <3>1. q # p /\ q \in Pages \ LivePages
      BY <1>3, <1>6 DEF Frame
    <3> QED BY <1>9, <3>1 DEF SInv, ContentsInv
  <2> QED BY <2>1, <2>2 DEF ContentsInv
<1>12. CountsInv'
  <2>1. IsFiniteSet(LiveSlots) /\ IsFiniteSet(DeadIn(key_hashes))
    BY <1>6, TableSize, FS_Subset DEF Frame, LiveIn, DeadIn
  <2>2. /\ Cardinality(LiveSlots') = Cardinality(LiveSlots) + 1
        /\ Cardinality(LiveSlots) \in Nat /\ Cardinality(DeadIn(key_hashes)) \in Nat
    BY <1>3, <1>5, <2>1, FS_AddElement, FS_CardinalityType
  <2>3. Cardinality(DeadIn(key_hashes')) = Cardinality(DeadIn(key_hashes)) - Claimed
    <3>1. CASE key_hashes[at] = DELETED
      <4>1. at \in DeadIn(key_hashes)
        BY <1>5, <3>1 DEF DeadIn
      <4>2. Claimed = 1
        BY <1>1, <3>1 DEF Claimed
      <4> QED BY <1>3, <2>1, <4>1, <4>2, FS_RemoveElement
    <3>2. CASE key_hashes[at] # DELETED
      <4>1. DeadIn(key_hashes') = DeadIn(key_hashes)
        BY <1>3, <3>2 DEF DeadIn
      <4>2. Claimed = 0
        BY <3>2 DEF Claimed
      <4> QED BY <2>2, <4>1, <4>2
    <3> QED BY <3>1, <3>2
  <2>4. Claimed' = 0
    BY <1>1 DEF Claimed
  <2>5. entry_total' = entry_total + 1
    <3>1. entry_total \in Nat /\ entry_total < INIT_ENTRY_CAPACITY
      BY <1>1, <2>2 DEF SInv, CountsInv, Busy
    <3>2. entry_total + 1 \in Index
      BY <3>1, CacheAssumption, IndexAssumption DEF Index, INDEX_RANGE
    <3> QED BY <1>1, <3>2, WrapExact
  <2>6. dead_total' = Cardinality(DeadIn(key_hashes'))
    BY <1>1, <2>3 DEF SInv, CountsInv, Busy
  <2>7. Cardinality(DeadIn(key_hashes')) \in Int /\ entry_total' \in Int
    BY <1>1, <2>2, <2>3, <2>5 DEF Claimed, SInv, CountsInv, Busy
  <2>8. CASE pc' = "idle"
    <3>1. ~ IsExceedingLoad(entry_total', dead_total', INIT_ENTRY_CAPACITY)
      BY <1>1, <2>8 DEF SInv, Shape, Sized
    <3>2. /\ entry_total' < INIT_ENTRY_CAPACITY
          /\ entry_total' + dead_total' <= INIT_ENTRY_CAPACITY
      BY <2>6, <2>7, <3>1, TableSize DEF IsExceedingLoad, GetHashTableCapacity
    <3> QED BY <1>1, <2>2, <2>4, <2>5, <2>6, <2>7, <3>2 DEF SInv, CountsInv, Busy
  <2>9. CASE pc' # "idle"
    BY <1>1, <2>9 DEF CountsInv, Busy
  <2> QED BY <2>8, <2>9
<1>13. FoundInv'
  <2> SUFFICES ASSUME pc' = "idle"
               PROVE  \E i \in Holders(ret.key)' :
                        /\ Leads(key_hashes', Holders(ret.key)', KeyHash(ret.key)', i)
                        /\ entries'[bookmarks'[i]].value = ret'.val
    BY DEF FoundInv
  <2>1. ret'.key = k /\ ret'.val = arg.val
    BY <1>1 DEF Returned
  <2>2. PICK s : s = at
    OBVIOUS
  <2>3. KeyAt(s)' = k
    BY <1>8, <1>9, <2>2 DEF KeyAt
  <2>4. \A j \in LiveSlots : KeyAt(j)' = KeyAt(j)
    BY <1>10 DEF KeyAt
  <2>5. {j \in LiveSlots' : KeyAt(j)' = k} = {j \in LiveSlots : KeyAt(j) = k} \cup {s}
    BY <1>3, <2>2, <2>3, <2>4
  <2>6. Holders(ret.key)' = Holders(k) \cup {s}
    BY <2>1, <2>5 DEF Holders
  <2>7. KeyHash(k) \in Index
    BY <1>7, ConstantTypes
  <2>8. Leads(key_hashes', Holders(ret.key)', KeyHash(k), s)
    <3>1. Holders(ret.key)' \subseteq Holders(k) \cup {s}
      BY <2>6
    <3> QED BY <1>3, <1>5, <2>2, <2>7, <3>1, LeadsKept
  <2> QED BY <1>8, <1>9, <2>1, <2>2, <2>6, <2>8 DEF KeyHash
<1>14. ClaimInv' /\ DestroyFreesAll'
  BY <1>1 DEF ClaimInv, DestroyFreesAll
<1> QED BY <1>2, <1>3, <1>11, <1>12, <1>13, <1>14 DEF SInv

LEMMA InitSInv == Init => SInv
<1> SUFFICES ASSUME Init PROVE SInv
  OBVIOUS
<1>1. IInv
  BY InitIInv
<1>2. Sized
  BY DEF Init, Sized
<1>3. Frame
  BY <1>1, <1>2, FrameHolds
<1>4. \A i \in TableSlots : key_hashes[i] = EMPTY
  BY <1>3 DEF Init, Frame
<1>5. LiveIn(key_hashes) = {} /\ DeadIn(key_hashes) = {} /\ Claimed = 0
  BY <1>4 DEF LiveIn, DeadIn, IsLive, EMPTY, DELETED, Claimed, Init
<1>6. LiveSlots = {} /\ LivePages = {}
  BY <1>3, <1>5 DEF Frame, PagesOf
<1>7. TableInv
  BY <1>5 DEF TableInv, Linked, Reached
<1>8. BookInv
  <2>1. AllocP!Init
    BY <1>3, <1>6, SameInvalidPage
       DEF Init, AllocP!Init, Frame, CreateBook, AllocP!CreateBook, AllocP!Page, TablePages
  <2> QED BY <2>1, AllocP!InitIInv, BookAssumptions DEF BookInv
<1>9. ListInv
  BY <1>3, <1>6, CircleEmpty, TableSize DEF Init, Frame, ListInv
<1>10. ContentsInv
  BY <1>6, CacheAssumption DEF Init, ContentsInv, Gone, JunkEntry
<1>11. CountsInv
  <2>1. Cardinality({}) = 0
    BY FS_EmptySet
  <2> QED BY <1>5, <1>6, <2>1, TableSize DEF Init, CountsInv
<1>12. ClaimInv /\ FoundInv /\ DestroyFreesAll
  BY DEF Init, Returned, ClaimInv, FoundInv, DestroyFreesAll
<1> QED BY <1>1, <1>2, <1>7, <1>8, <1>9, <1>10, <1>11, <1>12 DEF SInv, Shape

LEMMA StutterKeeps ==
  ASSUME SInv, UNCHANGED vars
  PROVE  SInv'
<1>1. IInv'
  BY NextIInv DEF SInv
<1>2. /\ mem_total' = mem_total /\ entry_capacity' = entry_capacity
      /\ entry_total' = entry_total /\ dead_total' = dead_total
      /\ key_hashes' = key_hashes /\ bookmarks' = bookmarks /\ entries' = entries
      /\ book' = book /\ list' = list /\ pc' = pc /\ arg' = arg /\ at' = at /\ ret' = ret
  BY DEF vars
<1>3. /\ Pages' = Pages /\ Slots' = Slots /\ LiveSlots' = LiveSlots /\ LivePages' = LivePages
      /\ Claimed' = Claimed
  BY <1>2 DEF Pages, Slots, Capacity, LiveSlots, LivePages, Claimed
<1>4. Shape'
  <2>1. Sized' /\ TableInv' /\ ListInv'
    BY <1>2, <1>3 DEF SInv, Shape, Sized, TableInv, ListInv
  <2>2. BookInv'
    BY <1>2, <1>3, AllocP!NextIInv, BookAssumptions DEF SInv, Shape, BookInv, AllocP!vars
  <2> QED BY <2>1, <2>2 DEF Shape
<1>5. Holders(arg.key)' = Holders(arg.key) /\ Holders(ret.key)' = Holders(ret.key)
  BY <1>2, <1>3 DEF Holders, KeyAt
<1>6. ContentsInv' /\ CountsInv' /\ DestroyFreesAll'
  BY <1>2, <1>3 DEF SInv, ContentsInv, CountsInv, Busy, DestroyFreesAll
<1>7. ClaimInv' /\ FoundInv'
  BY <1>2, <1>3, <1>5 DEF SInv, ClaimInv, FoundInv, KeyHash
<1> QED BY <1>1, <1>4, <1>6, <1>7 DEF SInv

LEMMA NextSInv == SInv /\ [Next]_vars /\ [Harmless]_vars => SInv'
<1> SUFFICES ASSUME SInv, [Next]_vars, [Harmless]_vars
             PROVE  SInv'
  OBVIOUS
<1>1. CASE UNCHANGED vars
  BY <1>1, StutterKeeps
<1>2. CASE Next /\ Harmless
  <2>1. ~ GrowArena /\ (Evict => ~ OwnEviction)
    BY <1>2 DEF Harmless
  <2>2. ~ RehashSkip /\ ~ RehashEntry /\ ~ RehashDone
    BY DEF SInv, Shape, Sized, RehashSkip, RehashEntry, RehashDone, Rehashing
  <2>3. ASSUME NEW k \in Key, NEW v \in ValuesOf[k], Set(k, v)
        PROVE  SInv'
    BY <2>3, ReportsKeep, SetExistingKeeps, SetNewKeeps DEF Set
  <2>4. ASSUME NEW k \in Key, Get(k) \/ Delete(k)
        PROVE  SInv'
    BY <2>4, ReportsKeep, GetHitKeeps, DeleteHitKeeps DEF Get, Delete
  <2>5. CASE SpaceUsed \/ Destroy \/ Undefined
    BY <2>5, ReportsKeep, DestroyKeeps, UndefinedKeeps
  <2>6. CASE Continue
    BY <2>1, <2>2, <2>6, EvictKeeps, FinishUpdateKeeps, FinishInsertKeeps DEF Continue, Grow
  <2> QED BY <1>2, <2>3, <2>4, <2>5, <2>6 DEF Next
<1> QED BY <1>1, <1>2

LEMMA SpecSInv == HarmlessSpec => []SInv
<1>1. SInv /\ [Next /\ Harmless]_vars => SInv'
  BY NextSInv
<1> QED BY <1>1, InitSInv, PTL DEF HarmlessSpec

-----------------------------------------------------------------------------
(* What follows from the invariant.                                        *)

LEMMA PagesMatch == SInv => SlotsMatchPages
BY LiveRemovable, LiveSlotTypes DEF SInv, SlotsMatchPages

LEMMA CountsMatch == SInv => CountsMatchTable
BY FrameHolds DEF SInv, Shape, Frame, CountsInv, Busy, Claimed, DeadIn, CountsMatchTable

LEMMA EveryProbeStops == SInv => NoFullTraversal
<1> SUFFICES ASSUME SInv, pc = "idle", NEW k \in Key
             PROVE  FindStops(k) # {}
  BY DEF NoFullTraversal
<1>1. Frame
  BY FrameHolds DEF SInv, Shape
<1>2. Cardinality(LiveIn(key_hashes)) + Cardinality(DeadIn(key_hashes)) <= INIT_ENTRY_CAPACITY
  BY <1>1 DEF SInv, CountsInv, Busy, Frame
<1>3. key_hashes \in [TableSlots -> Index] /\ KeyHash(k) \in Index
  BY <1>1, ConstantTypes DEF Frame
<1>4. PICK c \in 0 .. SlotCount - 1 : key_hashes[Probed(KeyHash(k), c)] = EMPTY
  BY <1>2, <1>3, EmptySlotMet
<1>5. c \in FindStops(k)
  BY <1>4, FindStopsExact DEF SInv
<1> QED BY <1>5

LEMMA LiveFound == SInv => LiveKeysFound
<1> SUFFICES ASSUME SInv, pc = "idle", NEW i \in LiveSlots
             PROVE  Removable(i) /\ Found(KeyAt(i))
  BY DEF LiveKeysFound
<1>1. Removable(i) /\ KeyAt(i) \in Key /\ KeyHash(KeyAt(i)) = key_hashes[i]
  BY LiveRemovable DEF SInv
<1>2. i \in LiveIn(key_hashes)
  BY FrameHolds DEF SInv, Shape, Frame
<1>3. Leads(key_hashes, {}, KeyHash(KeyAt(i)), i)
  BY <1>1, <1>2 DEF SInv, Shape, TableInv, Reached
<1>4. i \in Holders(KeyAt(i))
  BY DEF Holders
<1> QED BY <1>1, <1>3, <1>4, LeadsToFound DEF SInv

LEMMA StoredFound == SInv => SetThenFound
<1> SUFFICES ASSUME SInv, pc = "idle", ret.op = "set", ret.code >= 0
             PROVE  /\ Found(ret.key)
                    /\ entries[bookmarks[FindSlot(ret.key)]].value = ret.val
  BY DEF SetThenFound
<1>1. PICK i \in Holders(ret.key) :
        /\ Leads(key_hashes, Holders(ret.key), KeyHash(ret.key), i)
        /\ entries[bookmarks[i]].value = ret.val
  BY DEF SInv, FoundInv
<1>2. ret.key \in Key
  <2>1. i \in LiveSlots /\ KeyAt(i) = ret.key
    BY DEF Holders
  <2> QED BY <2>1, LiveRemovable DEF SInv
<1>3. Found(ret.key) /\ FindSlot(ret.key) = i
  BY <1>1, <1>2, LeadsToFound DEF SInv
<1> QED BY <1>1, <1>3

LEMMA ListMatches == SInv => ListMatchesTable
<1> SUFFICES ASSUME SInv PROVE ListMatchesTable
  OBVIOUS
<1> DEFINE S == LivePages
           n == Cardinality(S)
<1>1. Circle(list, TablePages, S)
  BY DEF SInv, Shape, ListInv
<1>2. PICK m \in Nat : \E s : Order(list, S, s, m)
  BY <1>1, CircleHasOrder
<1>3. PICK s : Order(list, S, s, m)
  BY <1>2
<1>4. m = n /\ Walks(s, list, n)
  BY <1>3, OrderIsWalk
<1> HIDE DEF n, S
<1>5. /\ s \in [1 .. n -> S]
      /\ \A p \in S : \E i \in 1 .. n : s[i] = p
      /\ list.head = IF n = 0 THEN INVALID_NODE ELSE s[1]
      /\ \A i \in 1 .. n : list.next[s[i]] = s[After(i, n)]
  BY <1>3, <1>4 DEF Order, IsCircle
<1>6. ListOrder = s
  <2>1. ListOrder = CHOOSE t : Walks(t, list, n)
    BY DEF ListOrder, Walks, n, S
  <2> QED BY <1>4, <2>1, WalkIsUnique
<1>7. {ListOrder[j] : j \in 1 .. n} = S
  BY <1>5, <1>6
<1>8. n > 0 => list.next[ListOrder[n]] = list.head
  BY <1>4, <1>5, <1>6 DEF After
<1>9. \A p \in S : list.pre[list.next[p]] = p
  BY <1>1, CircleLinks
<1>10. (list.head = INVALID_NODE) = (S = {})
  BY <1>1, CircleHead
<1> QED BY <1>7, <1>8, <1>9, <1>10 DEF ListMatchesTable, n, S

-----------------------------------------------------------------------------
(* The book is used as its own specification asks.                         *)

LEMMA SameAllocator ==
  /\ \A S : Allocator!Cardinality(S) = Cardinality(S)
  /\ Allocator!INVALID_PAGE = INVALID_PAGE
  /\ 0 .. GetHashTableCapacity(INIT_ENTRY_CAPACITY) - 1 = TableSlots
BY DEF Allocator!Cardinality, Cardinality, Allocator!INVALID_PAGE, INVALID_PAGE,
       Allocator!INDEX_RANGE, INDEX_RANGE, GetHashTableCapacity, TableSlots, SlotCount

LEMMA RemovalFrees ==
  ASSUME SInv, NEW i \in LiveSlots, NEW l, RemoveEntry(i, l)
  PROVE  Allocator!Next
<1> DEFINE p == bookmarks[i]
<1>1. /\ key_hashes' = [key_hashes EXCEPT ![i] = DELETED] /\ bookmarks' = bookmarks
      /\ book' = FreeBookPage(book, p) /\ entry_capacity' = entry_capacity
  BY DEF RemoveEntry
<1>2. Slots' = Slots /\ i \in Slots /\ key_hashes \in [Slots -> Index]
  BY <1>1, LiveSlotTypes, FrameHolds DEF Slots, Capacity, SInv, Shape, Frame, LiveSlots
<1>3. LiveSlots' = LiveSlots \ {i}
  BY <1>1, <1>2 DEF LiveSlots, IsLive
<1>4. \A j \in LiveSlots : bookmarks[j] = p => j = i
  BY LiveSlotTypes DEF SInv
<1>5. LivePages' = LivePages \ {p}
  BY <1>1, <1>3, <1>4 DEF LivePages
<1>6. p \in LivePages
  BY DEF LivePages
<1>7. Allocator!Free(p)
  BY <1>1, <1>5, <1>6 DEF Allocator!Free, FreeBookPage, Allocator!FreeBookPage
<1> QED BY <1>6, <1>7 DEF Allocator!Next

LEMMA InsertionAllocates ==
  ASSUME SInv, FinishInsert
  PROVE  Allocator!Next
<1>1. /\ pc = "insert" /\ at \in TableSlots
      /\ book' = WriteCurI(AllocBookPage(book), NextPage(book), at)
  BY DEF FinishInsert, SInv, ClaimInv
<1>2. IInv'
  BY NextIInv DEF SInv, Next, Continue
<1>3. LivePages' = LivePages \cup {NextPage(book)}
  BY <1>2, FilledShape
<1>4. Cardinality(LivePages) < INIT_ENTRY_CAPACITY
  BY <1>1, OnePageEach DEF SInv, CountsInv, Busy
<1>5. Allocator!Alloc(at)
  BY <1>1, <1>3, <1>4, SameAllocator
     DEF Allocator!Alloc, Allocator!WriteCurI, Allocator!AllocBookPage, Allocator!NextPage,
         WriteCurI, AllocBookPage, NextPage
<1> QED BY <1>1, <1>5, SameAllocator DEF Allocator!Next

LEMMA BookKept ==
  ASSUME UNCHANGED <<entry_capacity, key_hashes, bookmarks, book>>
  PROVE  UNCHANGED Allocator!vars
BY DEF LivePages, LiveSlots, Slots, Capacity, Allocator!vars

LEMMA BookSteps == SInv /\ [Next]_vars /\ [Harmless]_vars => [Allocator!Next]_(Allocator!vars)
<1> SUFFICES ASSUME SInv, [Next]_vars, [Harmless]_vars
             PROVE  Allocator!Next \/ UNCHANGED Allocator!vars
  OBVIOUS
<1>1. CASE UNCHANGED vars
  BY <1>1, BookKept DEF vars
<1>2. CASE Next /\ Harmless
  <2>1. ASSUME NEW k \in Key, NEW v \in ValuesOf[k], Set(k, v)
        PROVE  UNCHANGED Allocator!vars
    BY <2>1, BookKept DEF Set, SetTooLarge, SetExisting, SetNew, memory, counts
  <2>2. ASSUME NEW k \in Key, GetHit(k) \/ GetMiss(k) \/ DeleteMiss(k)
        PROVE  UNCHANGED Allocator!vars
    BY <2>2, BookKept DEF GetHit, GetMiss, DeleteMiss, memory, counts
  <2>3. ASSUME NEW k \in Key, DeleteHit(k)
        PROVE  Allocator!Next
    BY <2>3, FoundIsLive, RemovalFrees DEF DeleteHit, SInv
  <2>4. CASE SpaceUsed \/ Destroy \/ Undefined \/ FinishUpdate
    BY <2>4, BookKept DEF SpaceUsed, Destroy, Undefined, FinishUpdate, memory, counts
  <2>5. CASE Evict
    BY <2>5, HeadIsLive, RemovalFrees DEF Evict, CanEvict
  <2>6. CASE FinishInsert
    BY <2>6, InsertionAllocates
  <2>7. ~ Grow
    BY <1>2 DEF Harmless, Grow, SInv, Shape, Sized, RehashSkip, RehashEntry, RehashDone,
                Rehashing
  <2> QED BY <1>2, <2>1, <2>2, <2>3, <2>4, <2>5, <2>6, <2>7 DEF Next, Get, Delete, Continue
<1> QED BY <1>1, <1>2

LEMMA BookStarts == Init => Allocator!Init
<1> SUFFICES ASSUME Init PROVE Allocator!Init
  OBVIOUS
<1>1. Pages = 0 .. INIT_ENTRY_CAPACITY - 1
  BY DEF Init, Pages
<1>2. LivePages = {}
  BY DEF Init, LivePages, LiveSlots, IsLive
<1> QED BY <1>1, <1>2, SameAllocator
        DEF Init, Allocator!Init, CreateBook, Allocator!CreateBook, Allocator!Page

(* The cache uses its book as BookAllocator asks: it returns only pages in *)
(* use, each once, and never asks for more pages than the array holds.     *)
THEOREM CacheUsesBook == HarmlessSpec => UsesBookCorrectly
<1>1. SInv /\ [Next /\ Harmless]_vars => [Allocator!Next]_(Allocator!vars)
  BY BookSteps
<1> QED BY <1>1, BookStarts, SpecSInv, PTL
        DEF HarmlessSpec, UsesBookCorrectly, Allocator!Spec

-----------------------------------------------------------------------------
(* Memory is accounted for, and no access is undefined.                    *)

PromiseP == INSTANCE LruCache_proofs WITH
  store   <- StoredMap,
  order   <- UseOrder,
  pending <- Waiting,
  ret     <- Answer,
  mem_capacity <- MEM_CAPACITY,
  Capacities   <- {MEM_CAPACITY}

\* The memory the entry of each live slot takes, and all of them together.
SizeAt == [i \in LiveSlots |-> EntrySize(KeyAt(i), entries[bookmarks[i]].value)]

TotalSize == PromiseP!Sum(SizeAt, LiveSlots)

\* What a set in progress will add to it.
Pending ==
  CASE pc = "insert" -> EntrySize(arg.key, arg.val)
    [] pc = "update" -> ValSize[arg.val] - entries[at].value_size
    [] OTHER -> 0

(* The second part of the inductive invariant.                             *)
MInv ==
  /\ pc # "undefined"
  /\ Busy => mem_total = TotalSize + Pending
  /\ pc = "idle" => mem_total <= MEM_CAPACITY
  /\ pc \in {"update", "insert"} => EntrySize(arg.key, arg.val) <= MEM_CAPACITY

LEMMA SameFinite == ASSUME NEW S PROVE PromiseP!IsFiniteSet(S) <=> IsFiniteSet(S)
BY DEF PromiseP!IsFiniteSet, IsFiniteSet

(* Sums are those of the community modules.                                *)
LEMMA TotalIsSum ==
  ASSUME IsFiniteSet(LiveSlots)
  PROVE  MapThenSumSet(LAMBDA i : EntrySize(KeyAt(i), entries[bookmarks[i]].value), LiveSlots)
         = TotalSize
<1> DEFINE S == LiveSlots
           Chosen(s) == CHOOSE x \in s : TRUE
           F(g) == g = [s \in SUBSET S |->
                          IF s = {} THEN 0
                          ELSE EntrySize(KeyAt(Chosen(s)), entries[bookmarks[Chosen(s)]].value)
                               + g[s \ {Chosen(s)}]]
           f == CHOOSE g : F(g)
<1>1. MapThenSumSet(LAMBDA i : EntrySize(KeyAt(i), entries[bookmarks[i]].value), LiveSlots)
      = f[S]
  BY DEF MapThenSumSet, MapThenFoldSet
<1>2. \A s \in SUBSET S : s # {} =>
        SizeAt[Chosen(s)] = EntrySize(KeyAt(Chosen(s)), entries[bookmarks[Chosen(s)]].value)
  BY DEF SizeAt
<1>3. \A g : F(g) <=> PromiseP!Folds(g, SizeAt, SUBSET S)
  BY <1>2 DEF PromiseP!Folds, PromiseP!Chosen
<1>4. \E g : F(g)
  <2>1. \E g : PromiseP!Folds(g, SizeAt, SUBSET S)
    BY SameFinite, PromiseP!FoldExists
  <2> HIDE DEF F
  <2> QED BY <1>3, <2>1
<1>5. F(f)
  BY <1>4
<1>6. PromiseP!Folds(f, SizeAt, SUBSET S)
  BY <1>3, <1>5
<1>7. PICK g : PromiseP!Folds(g, SizeAt, SUBSET S) /\ TotalSize = g[S]
  BY SameFinite, PromiseP!SumFolds DEF TotalSize
<1> HIDE DEF f, S
<1>8. PromiseP!FoldsOver(f, SizeAt, S, S) /\ PromiseP!FoldsOver(g, SizeAt, S, S)
  BY <1>6, <1>7 DEF PromiseP!FoldsOver
<1>9. f[S] = g[S]
  BY <1>8, SameFinite, PromiseP!FoldEqual DEF PromiseP!Agree, S
<1> QED BY <1>1, <1>7, <1>9

(* What remove_entry takes off is what the entry was counted with.         *)
LEMMA LiveSize ==
  ASSUME SInv, pc # "destroyed", NEW i \in LiveSlots
  PROVE  /\ SizeAt[i] \in Index /\ SizeAt[i] \in Nat
         /\ EntryMemory(bookmarks[i]) = SizeAt[i]
         /\ entries[bookmarks[i]].value_size \in 0 .. SizeAt[i]
         /\ entries[bookmarks[i]].value \in Value
<1>1. EntryExact(entries[bookmarks[i]], key_hashes[i])
  BY DEF SInv, ContentsInv
<1>2. PICK k \in Key, v \in Value :
        /\ entries[bookmarks[i]].key = k /\ entries[bookmarks[i]].value = v
        /\ entries[bookmarks[i]].key_size = KeySize[k]
        /\ entries[bookmarks[i]].value_size = ValSize[v]
  BY <1>1 DEF EntryExact
<1>3. SizeAt[i] = ValSize[v] + KeySize[k]
  BY <1>2 DEF SizeAt, KeyAt, EntrySize
<1>4. ValSize[v] \in Nat /\ KeySize[k] \in Nat /\ KeySize[k] + ValSize[v] \in Index
  BY MemoryAssumption, ConstantTypes
<1>5. Wrap(ValSize[v] + KeySize[k]) = ValSize[v] + KeySize[k]
  BY <1>4, WrapExact
<1> QED BY <1>2, <1>3, <1>4, <1>5 DEF EntryMemory

LEMMA TotalWithout ==
  ASSUME SInv, pc # "destroyed"
  PROVE  /\ TotalSize \in Nat
         /\ \A i \in LiveSlots :
              /\ PromiseP!Sum(SizeAt, LiveSlots \ {i}) \in Nat
              /\ TotalSize = SizeAt[i] + PromiseP!Sum(SizeAt, LiveSlots \ {i})
              /\ SizeAt[i] \in 0 .. TotalSize
         /\ \A i, j \in LiveSlots : i # j => SizeAt[i] + SizeAt[j] <= TotalSize
<1>1. \A i \in LiveSlots : SizeAt[i] \in Nat
  BY LiveSize
<1>2. IsFiniteSet(LiveSlots)
  BY OnePageEach DEF SInv
<1>3. \A S \in SUBSET LiveSlots : PromiseP!IsFiniteSet(S) /\ PromiseP!Sum(SizeAt, S) \in Nat
  <2> SUFFICES ASSUME NEW S \in SUBSET LiveSlots
               PROVE  PromiseP!IsFiniteSet(S) /\ PromiseP!Sum(SizeAt, S) \in Nat
    OBVIOUS
  <2>1. PromiseP!IsFiniteSet(S)
    BY <1>2, FS_Subset, SameFinite
  <2>2. \A x \in S : SizeAt[x] \in Nat
    BY <1>1
  <2> QED BY <2>1, <2>2, PromiseP!SumNat
<1>4. ASSUME NEW S \in SUBSET LiveSlots, NEW i \in S
      PROVE  PromiseP!Sum(SizeAt, S) = SizeAt[i] + PromiseP!Sum(SizeAt, S \ {i})
  <2>1. PromiseP!IsFiniteSet(S) /\ \A x \in S : SizeAt[x] \in Int
    BY <1>1, <1>3
  <2> QED BY <2>1, PromiseP!SumRemove
<1>5. \A i \in LiveSlots : TotalSize = SizeAt[i] + PromiseP!Sum(SizeAt, LiveSlots \ {i})
  BY <1>4 DEF TotalSize
<1>6. ASSUME NEW i \in LiveSlots, NEW j \in LiveSlots, i # j
      PROVE  SizeAt[i] + SizeAt[j] <= TotalSize
  <2>1. j \in LiveSlots \ {i} /\ LiveSlots \ {i} \in SUBSET LiveSlots
    BY <1>6
  <2>2. PromiseP!Sum(SizeAt, LiveSlots \ {i})
        = SizeAt[j] + PromiseP!Sum(SizeAt, (LiveSlots \ {i}) \ {j})
    BY <1>4, <2>1
  <2>3. PromiseP!Sum(SizeAt, (LiveSlots \ {i}) \ {j}) \in Nat
    BY <1>3
  <2> QED BY <1>1, <1>5, <2>2, <2>3
<1>7. \A i \in LiveSlots : PromiseP!Sum(SizeAt, LiveSlots \ {i}) \in Nat
  BY <1>3
<1>8. ASSUME NEW i \in LiveSlots
      PROVE  SizeAt[i] \in 0 .. TotalSize
  <2>1. PICK n \in Nat : TotalSize = SizeAt[i] + n
    BY <1>5, <1>7
  <2>2. SizeAt[i] \in Nat
    BY <1>1
  <2> QED BY <2>1, <2>2
<1> QED BY <1>3, <1>5, <1>6, <1>7, <1>8 DEF TotalSize

LEMMA RemovedTotal ==
  ASSUME SInv, pc # "destroyed", NEW i \in LiveSlots, NEW l, RemoveEntry(i, l)
  PROVE  /\ TotalSize' = TotalSize - SizeAt[i]
         /\ \A q \in TablePages \ {bookmarks[i]} : entries'[q] = entries[q]
<1> DEFINE p == bookmarks[i]
           e == [entries[p] EXCEPT !.key = NULL, !.value = NULL]
<1>1. /\ key_hashes' = [key_hashes EXCEPT ![i] = DELETED] /\ bookmarks' = bookmarks
      /\ entries' = [entries EXCEPT ![p] = e] /\ entry_capacity' = entry_capacity
  BY DEF RemoveEntry
<1> HIDE DEF e
<1>2. Frame
  BY FrameHolds DEF SInv, Shape
<1>3. Slots' = Slots /\ i \in Slots /\ key_hashes \in [Slots -> Index]
  BY <1>1, <1>2, LiveSlotTypes DEF Slots, Capacity, SInv, Frame, LiveSlots
<1>4. LiveSlots' = LiveSlots \ {i}
  BY <1>1, <1>3 DEF LiveSlots, IsLive
<1>5. \A q \in TablePages \ {p} : entries'[q] = entries[q]
  BY <1>1, <1>2 DEF Frame
<1>6. \A j \in LiveSlots' : j \in LiveSlots /\ entries'[bookmarks'[j]] = entries[bookmarks[j]]
  <2> SUFFICES ASSUME NEW j \in LiveSlots, j # i
               PROVE  entries'[bookmarks'[j]] = entries[bookmarks[j]]
    BY <1>4
  <2>1. bookmarks[j] \in TablePages /\ bookmarks[j] # p
    BY LiveSlotTypes DEF SInv
  <2> QED BY <1>1, <1>5, <2>1
<1>7. \A j \in LiveSlots' : SizeAt'[j] = SizeAt[j]
  BY <1>6 DEF SizeAt, KeyAt
<1>8. PromiseP!IsFiniteSet(LiveSlots')
  BY <1>4, OnePageEach, FS_Subset, SameFinite DEF SInv
<1>9. TotalSize' = PromiseP!Sum(SizeAt, LiveSlots')
  BY <1>7, <1>8, PromiseP!SumEqual DEF TotalSize
<1>10. TotalSize = SizeAt[i] + PromiseP!Sum(SizeAt, LiveSlots')
  BY <1>4, TotalWithout
<1> QED BY <1>4, <1>5, <1>9, <1>10, TotalWithout, LiveSize

LEMMA DeleteAccounts ==
  ASSUME SInv, MInv, NEW k \in Key, DeleteHit(k)
  PROVE  MInv'
<1>1. /\ pc = "idle" /\ pc' = "idle" /\ Found(k) /\ RemoveEntry(FindSlot(k), list)
  BY DEF DeleteHit
<1>2. PICK i \in LiveSlots : i = FindSlot(k)
  BY <1>1, FoundIsLive DEF SInv
<1>3. TotalSize' = TotalSize - SizeAt[i]
  BY <1>1, <1>2, RemovedTotal
<1>4. mem_total = TotalSize /\ mem_total \in Index /\ mem_total <= MEM_CAPACITY
  BY <1>1, TotalWithout DEF MInv, Busy, Pending, SInv, IInv, DataInv, CountsOK
<1>5. SizeAt[i] \in Nat /\ SizeAt[i] \in 0 .. TotalSize
  BY <1>1, TotalWithout, LiveSize
<1>6. mem_total' = mem_total - SizeAt[i]
  BY <1>1, <1>2, <1>4, <1>5, LiveSize, MinusExact DEF RemoveEntry
<1>7. Pending' = 0
  BY <1>1 DEF Pending
<1> QED BY <1>1, <1>3, <1>4, <1>5, <1>6, <1>7, MemoryAssumption, IndexAssumption, TotalWithout
        DEF MInv, Busy

(* What a running set will add, and that it fits with what is left.        *)
LEMMA PendingSize ==
  ASSUME SInv, MInv, pc \in {"update", "insert"}
  PROVE  /\ arg.key \in Key /\ arg.val \in Value /\ ValSize[arg.val] \in Nat
         /\ EntrySize(arg.key, arg.val) \in Nat
         /\ pc = "insert" => Pending = EntrySize(arg.key, arg.val)
         /\ pc = "update" =>
              /\ book.link[at] \in LiveSlots /\ bookmarks[book.link[at]] = at
              /\ entries[at].value_size \in 0 .. SizeAt[book.link[at]]
              /\ Pending = ValSize[arg.val] - entries[at].value_size
<1>1. arg.key \in Key /\ arg.val \in Value
  BY DEF SInv, IInv, CallInv, CallType
<1>2. EntrySize(arg.key, arg.val) \in Nat /\ ValSize[arg.val] \in Nat
  BY <1>1, ConstantTypes
<1>3. ASSUME pc = "update"
      PROVE  /\ book.link[at] \in LiveSlots /\ bookmarks[book.link[at]] = at
             /\ entries[at].value_size \in 0 .. SizeAt[book.link[at]]
             /\ Pending = ValSize[arg.val] - entries[at].value_size
  <2>1. PICK i \in LiveSlots : bookmarks[i] = at
    BY <1>3 DEF SInv, ClaimInv, LivePages
  <2>2. book.link[at] = i
    BY <2>1, LiveSlotTypes DEF SInv
  <2> QED BY <1>3, <2>1, <2>2, LiveSize DEF Pending
<1> QED BY <1>1, <1>2, <1>3 DEF Pending

LEMMA EvictAccounts ==
  ASSUME SInv, MInv, Evict, ~ OwnEviction
  PROVE  MInv'
<1> DEFINE p == list.head
           i == book.link[p]
<1>1. /\ pc \in {"update", "insert"} /\ pc' = pc /\ at' = at /\ arg' = arg
      /\ p # INVALID_NODE /\ RemoveEntry(i, RemoveItem(list, p))
      /\ pc = "update" => p # at
  BY DEF Evict, Evicting, CanEvict, OwnEviction
<1>2. i \in LiveSlots /\ bookmarks[i] = p
  BY <1>1, HeadIsLive
<1> HIDE DEF i, p
<1>3. /\ TotalSize' = TotalSize - SizeAt[i]
      /\ \A q \in TablePages \ {p} : entries'[q] = entries[q]
  BY <1>1, <1>2, RemovedTotal
<1>4. mem_total = TotalSize + Pending /\ mem_total \in Index
  BY <1>1 DEF MInv, Busy, SInv, IInv, DataInv, CountsOK
<1>5. SizeAt[i] \in Nat /\ TotalSize \in Nat /\ SizeAt[i] <= TotalSize
  <2>1. SizeAt[i] \in Nat /\ SizeAt[i] \in 0 .. TotalSize /\ TotalSize \in Nat
    BY <1>1, <1>2, TotalWithout, LiveSize
  <2> QED BY <2>1
<1>6. Pending' = Pending /\ Pending \in Int /\ SizeAt[i] <= TotalSize + Pending
  <2>1. CASE pc = "insert"
    <3>1. Pending' = Pending
      BY <1>1, <2>1 DEF Pending
    <3> QED BY <1>5, <2>1, <3>1, PendingSize
  <2>2. CASE pc = "update"
    <3> DEFINE j == book.link[at]
    <3>1. /\ j \in LiveSlots /\ bookmarks[j] = at
          /\ entries[at].value_size \in 0 .. SizeAt[j]
          /\ Pending = ValSize[arg.val] - entries[at].value_size
          /\ ValSize[arg.val] \in Nat
      BY <2>2, PendingSize
    <3> HIDE DEF j
    <3>2. i # j /\ at # p /\ at \in TablePages
      BY <1>1, <1>2, <2>2, <3>1, LiveSlotTypes DEF SInv
    <3>3. SizeAt[i] + SizeAt[j] <= TotalSize /\ SizeAt[j] \in Nat
      BY <1>1, <1>2, <3>1, <3>2, TotalWithout, LiveSize
    <3>4. entries'[at] = entries[at]
      BY <1>3, <3>2
    <3>5. Pending' = Pending
      BY <1>1, <2>2, <3>4 DEF Pending
    <3> QED BY <1>5, <3>1, <3>3, <3>5
  <2> QED BY <1>1, <2>1, <2>2
<1>7. mem_total' = mem_total - SizeAt[i]
  <2>1. SizeAt[i] \in 0 .. mem_total /\ EntryMemory(p) = SizeAt[i]
    BY <1>1, <1>2, <1>4, <1>5, <1>6, LiveSize
  <2> QED BY <1>1, <1>2, <1>4, <2>1, MinusExact DEF RemoveEntry
<1>8. EntrySize(arg.key, arg.val)' = EntrySize(arg.key, arg.val)
  BY <1>1 DEF EntrySize
<1> QED BY <1>1, <1>3, <1>4, <1>5, <1>6, <1>7, <1>8 DEF MInv, Busy

(* The same entries take the same memory.                                  *)
LEMMA SameTotal ==
  ASSUME SInv, LiveSlots' = LiveSlots,
         \A i \in LiveSlots : entries'[bookmarks'[i]].key = entries[bookmarks[i]].key
                              /\ entries'[bookmarks'[i]].value = entries[bookmarks[i]].value
  PROVE  TotalSize' = TotalSize
<1>1. \A i \in LiveSlots' : SizeAt'[i] = SizeAt[i]
  BY DEF SizeAt, KeyAt
<1>2. PromiseP!IsFiniteSet(LiveSlots')
  BY OnePageEach, SameFinite DEF SInv
<1> QED BY <1>1, <1>2, PromiseP!SumEqual DEF TotalSize

LEMMA KeptTotal ==
  ASSUME SInv, UNCHANGED <<entry_capacity, key_hashes, bookmarks, entries>>
  PROVE  TotalSize' = TotalSize
<1>1. LiveSlots' = LiveSlots
  BY DEF LiveSlots, Slots, Capacity
<1> QED BY <1>1, SameTotal

LEMMA SetExistingAccounts ==
  ASSUME SInv, MInv, NEW k \in Key, NEW v \in ValuesOf[k], SetExisting(k, v)
  PROVE  MInv'
<1> DEFINE old_size == entries[at'].value_size
<1>1. /\ pc = "idle" /\ pc' = "update" /\ arg' = [key |-> k, val |-> v]
      /\ EntrySize(k, v) <= MEM_CAPACITY
      /\ at' = bookmarks[SetSlot(k)] /\ IsHit(k, SetSlot(k))
      /\ mem_total' = Wrap(mem_total + Minus(ValSize[v], old_size))
      /\ UNCHANGED <<entry_capacity, memory>>
  BY DEF SetExisting
<1>2. TotalSize' = TotalSize /\ entries' = entries
  BY <1>1, KeptTotal DEF memory
<1>3. PICK i \in LiveSlots : i = SetSlot(k)
  <2>1. SetSlot(k) \in Slots
    BY FindSlotType DEF SInv, IInv, DataInv
  <2> QED BY <1>1, <2>1, ExaminedExact DEF SInv, IsHit, Holders
<1>4. old_size \in 0 .. SizeAt[i] /\ SizeAt[i] <= TotalSize /\ SizeAt[i] \in Nat
      /\ TotalSize \in Nat
  <2>1. SizeAt[i] \in Nat /\ SizeAt[i] \in 0 .. TotalSize /\ TotalSize \in Nat
    BY <1>1, <1>3, TotalWithout, LiveSize
  <2> QED BY <1>1, <1>3, <2>1, LiveSize
<1>5. mem_total = TotalSize /\ mem_total \in Nat /\ mem_total <= MEM_CAPACITY
  BY <1>1, <1>4 DEF MInv, Busy, Pending
<1>6. /\ MEM_CAPACITY \in Nat /\ MEM_CAPACITY < HIGH_BIT /\ HIGH_BIT \in Nat
      /\ INDEX_RANGE = 2 * HIGH_BIT
  BY MemoryAssumption, IndexAssumption DEF INDEX_RANGE
<1>7. v \in Value /\ ValSize[v] \in Nat /\ KeySize[k] \in Nat /\ ValSize[v] <= MEM_CAPACITY
  BY <1>1, <1>6, ConstantTypes DEF EntrySize
<1> HIDE DEF old_size
<1>8. mem_total' = TotalSize + (ValSize[v] - old_size)
  <2>1. old_size \in Nat /\ old_size <= TotalSize
    BY <1>4
  <2>2. CASE old_size <= ValSize[v]
    <3>1. Minus(ValSize[v], old_size) = ValSize[v] - old_size
      BY <1>6, <1>7, <2>1, <2>2, MinusExact DEF Index
    <3>2. mem_total + (ValSize[v] - old_size) \in Index
      BY <1>5, <1>6, <1>7, <2>1, <2>2 DEF Index
    <3> QED BY <1>1, <1>5, <3>1, <3>2, WrapExact
  <2>3. CASE ValSize[v] < old_size
    <3>1. ValSize[v] + (INDEX_RANGE - old_size) \in Index
      BY <1>5, <1>6, <1>7, <2>1, <2>3 DEF Index
    <3>2. Minus(ValSize[v], old_size) = ValSize[v] + (INDEX_RANGE - old_size)
      BY <3>1, WrapExact DEF Minus
    <3>3. old_size - ValSize[v] \in 0 .. mem_total /\ mem_total \in Index
      BY <1>5, <1>6, <1>7, <2>1, <2>3 DEF Index
    <3>4. Minus(mem_total, old_size - ValSize[v]) = mem_total - (old_size - ValSize[v])
      BY <3>3, MinusExact
    <3>5. mem_total + Minus(ValSize[v], old_size)
          = mem_total + (INDEX_RANGE - (old_size - ValSize[v]))
      BY <1>5, <1>6, <1>7, <2>1, <3>2
    <3>6. mem_total' = mem_total - (old_size - ValSize[v])
      BY <1>1, <3>4, <3>5 DEF Minus
    <3> QED BY <1>5, <1>7, <2>1, <3>6
  <2> QED BY <1>7, <2>1, <2>2, <2>3
<1>9. Pending' = ValSize[v] - old_size
  BY <1>1, <1>2 DEF Pending, old_size
<1> QED BY <1>1, <1>2, <1>8, <1>9 DEF MInv, Busy, EntrySize

LEMMA SetNewAccounts ==
  ASSUME SInv, MInv, NEW k \in Key, NEW v \in ValuesOf[k], SetNew(k, v)
  PROVE  MInv'
<1>1. /\ pc = "idle" /\ pc' = "insert" /\ arg' = [key |-> k, val |-> v]
      /\ EntrySize(k, v) <= MEM_CAPACITY
      /\ mem_total' = Wrap(mem_total + EntrySize(k, v))
      /\ UNCHANGED <<entry_capacity, memory>>
  BY DEF SetNew
<1>2. TotalSize' = TotalSize
  BY <1>1, KeptTotal DEF memory
<1>3. mem_total = TotalSize /\ TotalSize \in Nat /\ mem_total <= MEM_CAPACITY
  BY <1>1, TotalWithout DEF MInv, Busy, Pending
<1>4. EntrySize(k, v) \in Nat
  BY ConstantTypes
<1>5. mem_total + EntrySize(k, v) \in Index
  BY <1>1, <1>3, <1>4, MemoryAssumption, IndexAssumption DEF Index, INDEX_RANGE
<1>6. mem_total' = TotalSize + EntrySize(k, v)
  BY <1>1, <1>3, <1>5, WrapExact
<1>7. Pending' = EntrySize(k, v)
  BY <1>1 DEF Pending, EntrySize
<1> QED BY <1>1, <1>2, <1>6, <1>7 DEF MInv, Busy, EntrySize

LEMMA FinishUpdateAccounts ==
  ASSUME SInv, MInv, FinishUpdate
  PROVE  MInv'
<1> DEFINE e == [entries[at] EXCEPT !.value = arg.val, !.value_size = ValSize[arg.val]]
           i == book.link[at]
           rest == LiveSlots \ {i}
<1>1. /\ pc = "update" /\ pc' = "idle" /\ mem_total <= MEM_CAPACITY
      /\ entries' = [entries EXCEPT ![at] = e]
      /\ UNCHANGED <<mem_total, entry_capacity, key_hashes, bookmarks>>
  BY DEF FinishUpdate, counts
<1>2. /\ i \in LiveSlots /\ bookmarks[i] = at
      /\ Pending = ValSize[arg.val] - entries[at].value_size
      /\ ValSize[arg.val] \in Nat
  BY <1>1, PendingSize
<1>3. LiveSlots' = LiveSlots
  BY <1>1 DEF LiveSlots, Slots, Capacity
<1>4. PICK k \in Key, v \in Value :
        /\ entries[at].key = k /\ entries[at].value = v
        /\ entries[at].value_size = ValSize[v]
  BY <1>1, <1>2 DEF SInv, ContentsInv, EntryExact
<1>5. at \in TablePages /\ entries[at] \in EntryType
  <2>1. at \in TablePages
    BY <1>2, LiveSlotTypes DEF SInv
  <2>2. entries[at] \in EntryType \cup {JunkEntry}
    BY <2>1, FrameHolds DEF SInv, Shape, Frame
  <2> QED BY <1>4, <2>1, <2>2, EntryTypes
<1>6. e.key = k /\ e.value = arg.val
  BY <1>4, <1>5 DEF EntryType
<1> HIDE DEF e, i
<1>7. entries'[at] = e /\ \A q \in TablePages \ {at} : entries'[q] = entries[q]
  BY <1>1, <1>5, FrameHolds DEF SInv, Shape, Frame
<1>8. SizeAt'[i] = ValSize[arg.val] + KeySize[k] /\ SizeAt[i] = ValSize[v] + KeySize[k]
  BY <1>1, <1>2, <1>3, <1>4, <1>6, <1>7 DEF SizeAt, KeyAt, EntrySize
<1>9. \A j \in rest : SizeAt'[j] = SizeAt[j]
  <2> SUFFICES ASSUME NEW j \in LiveSlots, j # i
               PROVE  SizeAt'[j] = SizeAt[j]
    OBVIOUS
  <2>1. bookmarks[j] \in TablePages /\ bookmarks[j] # at
    BY <1>2, LiveSlotTypes DEF SInv
  <2>2. entries'[bookmarks'[j]] = entries[bookmarks[j]]
    BY <1>1, <1>7, <2>1
  <2> QED BY <1>3, <2>2 DEF SizeAt, KeyAt
<1>10. PromiseP!IsFiniteSet(LiveSlots) /\ PromiseP!IsFiniteSet(rest)
  BY OnePageEach, FS_RemoveElement, SameFinite DEF SInv
<1>11. \A j \in LiveSlots : SizeAt'[j] \in Int
  <2>1. \A j \in LiveSlots : SizeAt[j] \in Int
    BY <1>1, LiveSize
  <2>2. SizeAt'[i] \in Int
    BY <1>2, <1>8, ConstantTypes
  <2> QED BY <1>9, <2>1, <2>2
<1>12. TotalSize' = SizeAt'[i] + PromiseP!Sum(SizeAt', rest)
  <2>1. PICK w : w = SizeAt'
    OBVIOUS
  <2>2. PromiseP!Sum(w, LiveSlots) = w[i] + PromiseP!Sum(w, rest)
    BY <1>2, <1>10, <1>11, <2>1, PromiseP!SumRemove
  <2> QED BY <1>3, <2>1, <2>2 DEF TotalSize
<1>13. PromiseP!Sum(SizeAt', rest) = PromiseP!Sum(SizeAt, rest)
  <2>1. PICK w : w = SizeAt'
    OBVIOUS
  <2>2. PromiseP!Sum(w, rest) = PromiseP!Sum(SizeAt, rest)
    BY <1>9, <1>10, <2>1, PromiseP!SumEqual
  <2> QED BY <2>1, <2>2
<1>14. TotalSize = SizeAt[i] + PromiseP!Sum(SizeAt, rest) /\ PromiseP!Sum(SizeAt, rest) \in Nat
  BY <1>1, <1>2, TotalWithout
<1>15. TotalSize' = TotalSize + Pending
  <2>1. ValSize[v] \in Nat /\ KeySize[k] \in Nat
    BY ConstantTypes
  <2> HIDE DEF rest
  <2> QED BY <1>2, <1>4, <1>8, <1>12, <1>13, <1>14, <2>1
<1>16. Pending' = 0
  BY <1>1 DEF Pending
<1>17. TotalSize' \in Nat
  <2>1. mem_total = TotalSize' /\ mem_total \in Nat
    BY <1>1, <1>15, ConstantTypes DEF MInv, Busy, SInv, IInv, DataInv, CountsOK
  <2> QED BY <2>1
<1> QED BY <1>1, <1>15, <1>16, <1>17 DEF MInv, Busy

LEMMA FinishInsertAccounts ==
  ASSUME SInv, MInv, FinishInsert
  PROVE  MInv'
<1> DEFINE p == NextPage(book)
           e == [key |-> arg.key, key_size |-> KeySize[arg.key],
                 value |-> arg.val, value_size |-> ValSize[arg.val]]
<1>1. /\ pc = "insert" /\ pc' \in {"idle", "grow"} /\ mem_total <= MEM_CAPACITY
      /\ entries' = [entries EXCEPT ![p] = e]
      /\ bookmarks' = [bookmarks EXCEPT ![at] = p]
      /\ UNCHANGED <<mem_total, entry_capacity>>
  BY DEF FinishInsert
<1>2. IInv'
  BY FinishInsertStep DEF SInv
<1>3. LiveSlots' = LiveSlots \cup {at}
  BY <1>2, FilledShape
<1>4. p \in TablePages \ LivePages
  BY <1>1, NextPageIsFree
<1>5. at \in TableSlots /\ at \notin LiveSlots
  BY <1>1 DEF SInv, ClaimInv
<1>6. Frame
  BY FrameHolds DEF SInv, Shape
<1>7. e.key = arg.key /\ e.value = arg.val
  OBVIOUS
<1> HIDE DEF p, e
<1>8. PICK s, w : s = at /\ w = SizeAt'
  OBVIOUS
<1>9. w[s] = EntrySize(arg.key, arg.val)
  <2>1. entries'[bookmarks'[s]] = e
    BY <1>1, <1>4, <1>5, <1>6, <1>8 DEF Frame
  <2> QED BY <1>3, <1>7, <1>8, <2>1 DEF SizeAt, KeyAt
<1>10. \A j \in LiveSlots : w[j] = SizeAt[j]
  <2> SUFFICES ASSUME NEW j \in LiveSlots
               PROVE  w[j] = SizeAt[j]
    OBVIOUS
  <2>1. j \in TableSlots /\ bookmarks[j] \in TablePages /\ bookmarks[j] \in LivePages
    BY LiveSlotTypes DEF SInv
  <2>2. j # at /\ bookmarks[j] # p
    BY <1>4, <1>5, <2>1
  <2>3. entries'[bookmarks'[j]] = entries[bookmarks[j]]
    BY <1>1, <1>6, <2>1, <2>2 DEF Frame
  <2> QED BY <1>3, <1>8, <2>3 DEF SizeAt, KeyAt
<1>11. EntrySize(arg.key, arg.val) \in Nat /\ Pending = EntrySize(arg.key, arg.val)
  BY <1>1, PendingSize
<1>12. PromiseP!IsFiniteSet(LiveSlots)
  BY OnePageEach, SameFinite DEF SInv
<1>13. \A j \in LiveSlots \cup {s} : w[j] \in Int
  BY <1>1, <1>9, <1>10, <1>11, LiveSize
<1>14. PromiseP!Sum(w, LiveSlots \cup {s}) = w[s] + PromiseP!Sum(w, LiveSlots)
  BY <1>5, <1>8, <1>12, <1>13, PromiseP!SumAdd
<1>15. PromiseP!Sum(w, LiveSlots) = TotalSize
  BY <1>10, <1>12, PromiseP!SumEqual DEF TotalSize
<1>16. TotalSize' = TotalSize + Pending
  <2>1. TotalSize' = PromiseP!Sum(w, LiveSlots \cup {s})
    BY <1>3, <1>8 DEF TotalSize
  <2> QED BY <1>1, <1>9, <1>11, <1>14, <1>15, <2>1, TotalWithout
<1>17. TotalSize' \in Nat
  BY <1>1, <1>11, <1>16, TotalWithout
<1> QED BY <1>1, <1>16, <1>17 DEF MInv, Busy, Pending

(* Whatever a call is about to do is defined.                              *)
LEMMA NothingFaulty ==
  ASSUME SInv, MInv
  PROVE  ~ Faulty
<1>1. ASSUME pc = "idle"
      PROVE  \A k \in Key : /\ ~ FindFaults(k) /\ ~ SetFaults(k)
                            /\ Found(k) => list.head # INVALID_NODE
  <2> SUFFICES ASSUME NEW k \in Key
               PROVE  /\ ~ FindFaults(k) /\ ~ SetFaults(k)
                      /\ Found(k) => list.head # INVALID_NODE
    OBVIOUS
  <2>1. FindSlot(k) \in Slots /\ SetSlot(k) \in Slots
    BY FindSlotType DEF SInv, IInv, DataInv
  <2>2. ~ FindFaults(k) /\ ~ SetFaults(k)
    BY <1>1, <2>1, ExaminedExact DEF SInv, FindFaults, SetFaults
  <2>3. Found(k) => LivePages # {}
    BY <1>1, FoundIsLive DEF SInv, LivePages
  <2> QED BY <2>2, <2>3, CircleHead DEF SInv, Shape, ListInv
<1>2. pc = "idle" => \A i \in LiveSlots : Removable(i)
  BY LiveRemovable DEF SInv
<1>3. ASSUME pc = "update"
      PROVE  list.head # INVALID_NODE
  BY <1>3, CircleHead DEF SInv, ClaimInv, Shape, ListInv
<1>4. ASSUME Evicting
      PROVE  CanEvict
  <2>1. list.head # INVALID_NODE
    <3>1. CASE pc = "update"
      BY <1>3, <3>1
    <3>2. CASE pc = "insert"
      <4> SUFFICES ASSUME LivePages = {} PROVE FALSE
        BY CircleHead DEF SInv, Shape, ListInv
      <4>1. LiveSlots = {}
        BY DEF LivePages
      <4>2. TotalSize = 0
        BY <4>1, PromiseP!SumEmpty DEF TotalSize
      <4>3. mem_total = EntrySize(arg.key, arg.val)
        BY <3>2, <4>2, PendingSize DEF MInv, Busy
      <4> QED BY <1>4, <3>2, <4>3, PendingSize, MemoryAssumption, IndexAssumption
              DEF MInv, Evicting
    <3> QED BY <1>4, <3>1, <3>2 DEF Evicting
  <2>2. Removable(book.link[list.head])
    BY <1>4, <2>1, HeadIsLive, LiveRemovable DEF SInv, Evicting
  <2> QED BY <2>1, <2>2 DEF CanEvict
<1>5. pc = "insert" => NextPage(book) \in Pages
  BY NextPageIsFree, FrameHolds DEF SInv, Shape, Frame
<1>6. pc # "rehash" /\ ~ Rehashing
  BY DEF SInv, Shape, Sized, Rehashing
<1> QED BY <1>1, <1>2, <1>3, <1>4, <1>5, <1>6 DEF Faulty

LEMMA InitMInv == Init => MInv
<1> SUFFICES ASSUME Init PROVE MInv
  OBVIOUS
<1>1. LiveSlots = {}
  BY DEF Init, LiveSlots, IsLive
<1>2. TotalSize = 0
  BY <1>1, PromiseP!SumEmpty DEF TotalSize
<1> QED BY <1>2, MemoryAssumption, IndexAssumption DEF Init, MInv, Busy, Pending

(* A call that changes neither memory nor counts.                          *)
LEMMA ReportAccounts ==
  ASSUME SInv, MInv, UNCHANGED <<counts, key_hashes, bookmarks, entries, pc, arg, at>>
  PROVE  MInv'
<1>1. TotalSize' = TotalSize
  BY KeptTotal DEF counts
<1>2. Pending' = Pending /\ EntrySize(arg.key, arg.val)' = EntrySize(arg.key, arg.val)
  BY DEF Pending, EntrySize
<1> QED BY <1>1, <1>2 DEF MInv, Busy, counts

LEMMA NextMInv == SInv /\ MInv /\ [Next]_vars /\ [Harmless]_vars => MInv'
<1> SUFFICES ASSUME SInv, MInv, [Next]_vars, [Harmless]_vars
             PROVE  MInv'
  OBVIOUS
<1>1. CASE UNCHANGED vars
  BY <1>1, ReportAccounts DEF vars, counts
<1>2. CASE Next /\ Harmless
  <2>1. ~ GrowArena /\ (Evict => ~ OwnEviction)
    BY <1>2 DEF Harmless
  <2>2. ~ RehashSkip /\ ~ RehashEntry /\ ~ RehashDone
    BY DEF SInv, Shape, Sized, RehashSkip, RehashEntry, RehashDone, Rehashing
  <2>3. ASSUME NEW k \in Key, NEW v \in ValuesOf[k], Set(k, v)
        PROVE  MInv'
    <3>1. CASE SetTooLarge(k, v)
      BY <3>1, ReportAccounts DEF SetTooLarge, memory
    <3> QED BY <2>3, <3>1, SetExistingAccounts, SetNewAccounts DEF Set
  <2>4. ASSUME NEW k \in Key, GetHit(k) \/ GetMiss(k) \/ DeleteMiss(k)
        PROVE  MInv'
    BY <2>4, ReportAccounts DEF GetHit, GetMiss, DeleteMiss, memory
  <2>5. CASE SpaceUsed
    BY <2>5, ReportAccounts DEF SpaceUsed, memory
  <2>6. CASE Destroy
    BY <2>6 DEF Destroy, MInv, Busy
  <2>7. ~ Undefined
    BY NothingFaulty DEF Undefined
  <2>8. CASE Continue
    BY <2>1, <2>2, <2>8, EvictAccounts, FinishUpdateAccounts, FinishInsertAccounts
       DEF Continue, Grow
  <2> QED BY <1>2, <2>3, <2>4, <2>5, <2>6, <2>7, <2>8, DeleteAccounts DEF Next, Get, Delete
<1> QED BY <1>1, <1>2

LEMMA SpecMInv == HarmlessSpec => []MInv
<1>1. SInv /\ MInv /\ [Next /\ Harmless]_vars => MInv'
  BY NextMInv
<1> QED BY <1>1, InitMInv, SpecSInv, PTL DEF HarmlessSpec

LEMMA SizesAccounted == SInv /\ MInv => Accounting
<1> SUFFICES ASSUME SInv, MInv, Busy PROVE Accounting
  BY DEF Accounting, Busy
<1>1. mem_total = TotalSize + Pending
  BY DEF MInv
<1>2. TotalSize = MapThenSumSet(LAMBDA i : EntrySize(KeyAt(i), entries[bookmarks[i]].value),
                                LiveSlots)
  BY TotalIsSum, OnePageEach DEF SInv
<1> QED BY <1>1, <1>2 DEF Accounting, Pending

-----------------------------------------------------------------------------
(* The theorems: of every run, up to the first step that grows the table   *)
(* or evicts the entry it is replacing.                                    *)

(* A run without such steps is one of these.                               *)
LEMMA HarmlessRuns == Spec /\ StaysHarmless => HarmlessSpec
<1>1. [Next]_vars /\ [Harmless]_vars => [Next /\ Harmless]_vars
  OBVIOUS
<1> QED BY <1>1, PTL DEF Spec, StaysHarmless, HarmlessSpec

(* Live slots and pages in use lead to each other, also while evicting.    *)
THEOREM CacheSlotsMatchPages == HarmlessSpec => []SlotsMatchPages
BY PagesMatch, SpecSInv, PTL

(* The LRU list is one circle through exactly the pages in use.            *)
THEOREM CacheListMatchesTable == HarmlessSpec => []ListMatchesTable
BY ListMatches, SpecSInv, PTL

(* entry_total and dead_total count the live and the deleted slots.        *)
THEOREM CacheCountsMatchTable == HarmlessSpec => []CountsMatchTable
BY CountsMatch, SpecSInv, PTL

(* Every probe meets an empty slot.                                        *)
THEOREM CacheNoFullTraversal == HarmlessSpec => []NoFullTraversal
BY EveryProbeStops, SpecSInv, PTL

(* No entry in the table is lost to a lookup of its key.                   *)
THEOREM CacheLiveKeysFound == HarmlessSpec => []LiveKeysFound
BY LiveFound, SpecSInv, PTL

(* A set that reports success is found by the next lookup.                 *)
THEOREM CacheSetThenFound == HarmlessSpec => []SetThenFound
BY StoredFound, SpecSInv, PTL

(* destroy_cache leaves no key and no value allocated.                     *)
THEOREM CacheDestroyFreesAll == HarmlessSpec => []DestroyFreesAll
<1>1. SInv => DestroyFreesAll
  BY DEF SInv
<1> QED BY <1>1, SpecSInv, PTL

(* mem_total is the size of what is stored and of what is being stored.    *)
THEOREM CacheAccounting == HarmlessSpec => []Accounting
BY SizesAccounted, SpecSInv, SpecMInv, PTL

(* The pages that were given back are one list, each of them once.         *)
THEOREM CacheBookFreeListExact == HarmlessSpec => []BookFreeListExact
<1>1. SInv => BookFreeListExact
  <2> SUFFICES ASSUME SInv PROVE BookFreeListExact
    OBVIOUS
  <2>1. AllocP!FreeListExact
    BY BookAssumptions, AllocP!FreeListFits DEF SInv, Shape, BookInv
  <2> QED
    BY <2>1, SameInvalidPage, SameAllocator
    DEF BookFreeListExact, AllocP!FreeListExact, Allocator!FreeListExact,
        AllocP!IsFreeList, Allocator!IsFreeList, AllocP!FreePages, Allocator!FreePages
<1> QED BY <1>1, SpecSInv, PTL

(* A page that is handed out holds no entry and lies within the arena.     *)
THEOREM CacheBookPagesAreSafe == HarmlessSpec => []BookPagesAreSafe
<1>1. SInv => BookPagesAreSafe
  <2> SUFFICES ASSUME SInv PROVE BookPagesAreSafe
    OBVIOUS
  <2>1. AllocP!PagesAreSafe
    BY BookAssumptions, AllocP!HandedOutPage DEF SInv, Shape, BookInv, AllocP!PagesAreSafe
  <2> QED
    BY <2>1, SameInvalidPage, SameAllocator, SameCardinality
    DEF BookPagesAreSafe, AllocP!PagesAreSafe, Allocator!PagesAreSafe,
        AllocP!NextPage, Allocator!NextPage, AllocP!Page, Allocator!Page
<1> QED BY <1>1, SpecSInv, PTL

(* No access is undefined: eviction always finds an entry to remove, an    *)
(* insertion a page, a lookup only pointers that were written.             *)
THEOREM CacheNoUndefinedBehaviour == HarmlessSpec => []NoUndefinedBehaviour
<1>1. MInv => NoUndefinedBehaviour
  BY DEF MInv, NoUndefinedBehaviour
<1> QED BY <1>1, SpecMInv, PTL

-----------------------------------------------------------------------------
(* The cache keeps the promise of LruCache in every run in which, besides, *)
(* no key is entered twice (DefectFree).                                   *)

(* The promise's operators are the same in the module of its proofs.       *)
LEMMA SamePromise ==
  /\ \A s, e : Promise!Without(s, e) = PromiseP!Without(s, e)
  /\ \A map : Promise!Used(map) = PromiseP!Used(map)
  /\ \A k \in Key, v \in Value : /\ Promise!Size(k, v) = EntrySize(k, v)
                                /\ PromiseP!Size(k, v) = EntrySize(k, v)
<1>1. \A s, e : Promise!Without(s, e) = PromiseP!Without(s, e)
  BY DEF Promise!Without, Promise!RemoveFirst, Promise!RemoveAt, Promise!SelectInSeq, Promise!Min,
         PromiseP!Without, PromiseP!RemoveFirst, PromiseP!RemoveAt, PromiseP!SelectInSeq, PromiseP!Min
<1>2. \A map : Promise!Used(map) = PromiseP!Used(map)
  BY DEF Promise!Used, Promise!MapThenSumSet, Promise!MapThenFoldSet, Promise!Size,
         PromiseP!Used, PromiseP!MapThenSumSet, PromiseP!MapThenFoldSet, PromiseP!Size
<1>3. \A k \in Key, v \in Value : /\ Promise!Size(k, v) = EntrySize(k, v)
                                 /\ PromiseP!Size(k, v) = EntrySize(k, v)
  BY ConstantTypes DEF Promise!Size, PromiseP!Size, EntrySize
<1> QED BY <1>1, <1>2, <1>3

\* The value that the entries e of the pages P hold for k.
ValueIn(P, e, k) ==
  LET pages == {p \in P : e[p].key = k}
  IN IF pages = {} THEN NULL ELSE e[CHOOSE p \in pages : TRUE].value

\* No two of them hold the same key.
KeysOnce(P, e) == \A p, q \in P : e[p].key = e[q].key => p = q

LEMMA ValueHeld ==
  ASSUME NEW P, NEW e, KeysOnce(P, e), NEW p \in P
  PROVE  ValueIn(P, e, e[p].key) = e[p].value
<1> DEFINE pages == {q \in P : e[q].key = e[p].key}
<1>1. pages = {p}
  BY DEF KeysOnce
<1>2. (CHOOSE q \in pages : TRUE) = p
  BY <1>1
<1> QED BY <1>1, <1>2 DEF ValueIn

LEMMA ValueNone ==
  ASSUME NEW P, NEW e, NEW k, \A p \in P : e[p].key # k
  PROVE  ValueIn(P, e, k) = NULL
<1>1. {p \in P : e[p].key = k} = {}
  OBVIOUS
<1> QED BY <1>1 DEF ValueIn

(* The values of two sets of entries that agree on what they say of k.     *)
LEMMA SameValue ==
  ASSUME NEW P, NEW e, KeysOnce(P, e), NEW Q, NEW f, KeysOnce(Q, f), NEW k,
         \A p \in P : e[p].key = k => p \in Q /\ f[p] = e[p],
         \A p \in Q : f[p].key = k => p \in P /\ f[p] = e[p]
  PROVE  ValueIn(Q, f, k) = ValueIn(P, e, k)
<1>1. CASE \E p \in P : e[p].key = k
  <2>1. PICK p \in P : e[p].key = k
    BY <1>1
  <2>2. p \in Q /\ f[p] = e[p]
    BY <2>1
  <2>3. ValueIn(Q, f, f[p].key) = f[p].value /\ ValueIn(P, e, e[p].key) = e[p].value
    BY <2>2, ValueHeld
  <2> QED BY <2>1, <2>2, <2>3
<1>2. CASE \A p \in P : e[p].key # k
  <2>1. \A p \in Q : f[p].key # k
    BY <1>2
  <2> QED BY <1>2, <2>1, ValueNone
<1> QED BY <1>1, <1>2

LEMMA ViewRemoved ==
  ASSUME NEW P, NEW e, KeysOnce(P, e), NEW p \in P, NEW f, \A q \in P \ {p} : f[q] = e[q]
  PROVE  /\ KeysOnce(P \ {p}, f)
         /\ \A k : ValueIn(P \ {p}, f, k) = IF k = e[p].key THEN NULL ELSE ValueIn(P, e, k)
<1>1. KeysOnce(P \ {p}, f)
  BY DEF KeysOnce
<1>2. ASSUME NEW k
      PROVE  ValueIn(P \ {p}, f, k) = IF k = e[p].key THEN NULL ELSE ValueIn(P, e, k)
  <2>1. CASE k = e[p].key
    <3>1. \A q \in P \ {p} : f[q].key # k
      BY <2>1 DEF KeysOnce
    <3> QED BY <2>1, <3>1, ValueNone
  <2>2. CASE k # e[p].key
    BY <1>1, <2>2, SameValue
  <2> QED BY <2>1, <2>2
<1> QED BY <1>1, <1>2

LEMMA ViewAdded ==
  ASSUME NEW P, NEW e, KeysOnce(P, e), NEW p, p \notin P, NEW f,
         \A q \in P : f[q] = e[q] /\ e[q].key # f[p].key
  PROVE  /\ KeysOnce(P \cup {p}, f)
         /\ \A k : ValueIn(P \cup {p}, f, k) = IF k = f[p].key THEN f[p].value ELSE ValueIn(P, e, k)
<1>1. KeysOnce(P \cup {p}, f)
  BY DEF KeysOnce
<1>2. ASSUME NEW k
      PROVE  ValueIn(P \cup {p}, f, k) = IF k = f[p].key THEN f[p].value ELSE ValueIn(P, e, k)
  <2>1. CASE k = f[p].key
    BY <1>1, <2>1, ValueHeld
  <2>2. CASE k # f[p].key
    BY <1>1, <2>2, SameValue
  <2> QED BY <2>1, <2>2
<1> QED BY <1>1, <1>2

LEMMA ViewReplaced ==
  ASSUME NEW P, NEW e, KeysOnce(P, e), NEW p \in P, NEW f, \A q \in P \ {p} : f[q] = e[q],
         f[p].key = e[p].key
  PROVE  /\ KeysOnce(P, f)
         /\ \A k : ValueIn(P, f, k) = IF k = e[p].key THEN f[p].value ELSE ValueIn(P, e, k)
<1>1. KeysOnce(P, f)
  BY DEF KeysOnce
<1>2. ASSUME NEW k
      PROVE  ValueIn(P, f, k) = IF k = e[p].key THEN f[p].value ELSE ValueIn(P, e, k)
  <2>1. CASE k = e[p].key
    BY <1>1, <2>1, ValueHeld
  <2>2. CASE k # e[p].key
    BY <1>1, <2>2, SameValue
  <2> QED BY <2>1, <2>2
<1> QED BY <1>1, <1>2

-----------------------------------------------------------------------------
(* The keys of the pages of a list, in the order of the list.              *)

KeysAlong(e, s, n) == [j \in 1 .. n |-> e[s[j]].key]

LEMMA KeysDropped ==
  ASSUME NEW P, NEW e, KeysOnce(P, e), NEW n \in Nat, NEW s \in [1 .. n -> P],
         \A i, j \in 1 .. n : s[i] = s[j] => i = j,
         NEW j \in 1 .. n, NEW f, \A q \in P \ {s[j]} : f[q] = e[q]
  PROVE  PromiseP!Without(KeysAlong(e, s, n), e[s[j]].key) = KeysAlong(f, Dropped(s, j, n), n - 1)
<1> DEFINE K == {e[p].key : p \in P}
           a == KeysAlong(e, s, n)
           b == KeysAlong(f, Dropped(s, j, n), n - 1)
           t == PromiseP!Without(a, a[j])
<1>1. a \in [1 .. n -> K] /\ a[j] = e[s[j]].key
  BY DEF KeysAlong
<1>2. \A i \in 1 .. n : a[i] = a[j] => i = j
  BY DEF KeysAlong, KeysOnce
<1>3. \A i \in 1 .. n - 1 :
        b[i] = IF i < j THEN a[i] ELSE a[i + 1]
  <2> SUFFICES ASSUME NEW i \in 1 .. n - 1
               PROVE  b[i] = IF i < j THEN a[i] ELSE a[i + 1]
    OBVIOUS
  <2> DEFINE m == IF i < j THEN i ELSE i + 1
  <2>1. m \in 1 .. n /\ m # j
    OBVIOUS
  <2>2. b[i] = f[s[m]].key
    BY DEF KeysAlong, Dropped
  <2>3. s[m] \in P \ {s[j]}
    BY <2>1
  <2>4. a[m] = e[s[m]].key
    BY <2>1 DEF KeysAlong
  <2> QED BY <2>2, <2>3, <2>4
<1>4. b = [i \in 1 .. n - 1 |-> b[i]]
  BY DEF KeysAlong
<1> HIDE DEF a, b, K
<1>5. a \in Seq(K) /\ Len(a) = n
  BY <1>1, OrderIsSequence
<1>6. t \in Seq(K) /\ Len(t) = n - 1 /\ \A i \in 1 .. n - 1 : t[i] = IF i < j THEN a[i] ELSE a[i + 1]
  <2>1. n \in Nat /\ j \in 1 .. n
    OBVIOUS
  <2> QED BY ONLY <1>2, <1>5, <2>1, PromiseP!WithoutAt
<1> HIDE DEF t
<1>7. n - 1 \in Nat /\ \A i \in 1 .. n - 1 : t[i] = b[i]
  BY <1>3, <1>6
<1>8. t = b
  BY <1>4, <1>6, <1>7, SequenceIs
<1> QED BY <1>1, <1>8 DEF t, a, b

LEMMA KeysAppended ==
  ASSUME NEW P, NEW n \in Nat, NEW s \in [1 .. n -> P], NEW e, NEW k
  PROVE  Append(KeysAlong(e, s, n), k) = Added(KeysAlong(e, s, n), k, n)
<1> DEFINE a == KeysAlong(e, s, n)
           K == {e[q].key : q \in P}
<1>1. a \in [1 .. n -> K]
  BY DEF KeysAlong
<1> HIDE DEF a, K
<1> QED BY <1>1, AddedIsAppend DEF a

LEMMA KeysAdded ==
  ASSUME NEW P, NEW n \in Nat, NEW s \in [1 .. n -> P], NEW e, NEW f, NEW p,
         PromiseP!Agree(e, f, P), NEW m, m = n + 1
  PROVE  KeysAlong(f, Added(s, p, n), m) = Added(KeysAlong(e, s, n), f[p].key, n)
<1> DEFINE a == KeysAlong(e, s, n)
           b == KeysAlong(f, Added(s, p, n), m)
<1>1. \A i \in 1 .. n + 1 : b[i] = IF i = n + 1 THEN f[p].key ELSE a[i]
  BY DEF KeysAlong, Added, PromiseP!Agree
<1>2. b = [i \in 1 .. n + 1 |-> b[i]]
  BY DEF KeysAlong
<1> HIDE DEF a, b
<1> QED BY <1>1, <1>2 DEF Added, a, b

LEMMA KeysWithoutNone ==
  ASSUME NEW P, NEW e, NEW n \in Nat, NEW s \in [1 .. n -> P], NEW k,
         \A p \in P : e[p].key # k
  PROVE  PromiseP!Without(KeysAlong(e, s, n), k) = KeysAlong(e, s, n)
<1> DEFINE K == {e[q].key : q \in P}
           a == KeysAlong(e, s, n)
<1>1. a \in [1 .. n -> K] /\ \A i \in 1 .. n : a[i] # k
  BY DEF KeysAlong
<1> HIDE DEF a, K
<1>2. Len(a) = n
  BY <1>1, OrderIsSequence
<1> QED BY <1>1, <1>2, PromiseP!WithoutNone DEF a

-----------------------------------------------------------------------------
(* What the cache's memory stands for.                                     *)

LEMMA ListOrderIs ==
  ASSUME NEW n \in Nat, NEW s
  PROVE  /\ Order(list, LivePages, s, n) => ListOrder = s /\ n = Cardinality(LivePages)
         /\ Order(list', LivePages', s, n) => ListOrder' = s /\ n = Cardinality(LivePages')
<1>1. ASSUME NEW l, NEW S, Order(l, S, s, n)
      PROVE  (CHOOSE t : Walks(t, l, Cardinality(S))) = s /\ n = Cardinality(S)
  <2>1. n = Cardinality(S) /\ Walks(s, l, n)
    BY <1>1, OrderIsWalk
  <2> DEFINE t == CHOOSE t : Walks(t, l, n)
  <2>2. Walks(t, l, n)
    BY <2>1
  <2> HIDE DEF t
  <2>3. t = s
    BY <2>1, <2>2, WalkIsUnique
  <2> QED BY <2>1, <2>3 DEF t
<1>2. ListOrder = CHOOSE t : Walks(t, list, Cardinality(LivePages))
  BY DEF ListOrder, Walks
<1>3. ListOrder' = CHOOSE t : Walks(t, list', Cardinality(LivePages'))
  BY DEF ListOrder, Walks
<1> QED BY <1>1, <1>2, <1>3

LEMMA UseOrderIs ==
  ASSUME NEW n \in Nat, NEW s
  PROVE  /\ pc # "destroyed" /\ Order(list, LivePages, s, n) => UseOrder = KeysAlong(entries, s, n)
         /\ pc' # "destroyed" /\ Order(list', LivePages', s, n)
              => UseOrder' = KeysAlong(entries', s, n)
BY ListOrderIs DEF UseOrder, KeysAlong

LEMMA StoredMapIs ==
  /\ pc # "destroyed" => StoredMap = [k \in Key |-> ValueIn(LivePages, entries, k)]
  /\ pc' # "destroyed" => StoredMap' = [k \in Key |-> ValueIn(LivePages', entries', k)]
BY DEF StoredMap, StoredValue, ValueIn

LEMMA ListHasOrder ==
  ASSUME SInv
  PROVE  \E n \in Nat : \E s : Order(list, LivePages, s, n)
BY CircleHasOrder DEF SInv, Shape, ListInv

\* No entry has key k.
Absent(k) == \A p \in LivePages : entries[p].key # k

(* The third part of the inductive invariant: what is true besides as long *)
(* as no key is entered twice.                                             *)
OInv ==
  /\ pc # "destroyed" => KeysOnce(LivePages, entries)
  /\ pc = "insert" => Absent(arg.key)
  /\ pc \in {"idle", "destroyed"} => arg = NULL
  /\ pc = "idle" /\ ret.op = "delete" => ret.key \in Key /\ Absent(ret.key)

(* Removing an entry.                                                      *)
LEMMA RemovalForgets ==
  ASSUME SInv, OInv, pc \notin {"destroyed", "rehash"}, pc' = pc, IInv',
         NEW i \in LiveSlots, NEW l, RemoveEntry(i, l),
         list' = RemoveItem(list, bookmarks[i])
  PROVE  /\ StoredMap' = [StoredMap EXCEPT ![KeyAt(i)] = NULL]
         /\ UseOrder' = PromiseP!Without(UseOrder, KeyAt(i))
         /\ KeysOnce(LivePages', entries')
         /\ LivePages' = LivePages \ {bookmarks[i]}
         /\ \A q \in LivePages' : entries'[q] = entries[q]
         /\ KeyAt(i) \in Key
<1> DEFINE p == bookmarks[i]
<1>1. p \in LivePages /\ list' = RemoveItem(l, p) /\ p \in TablePages
  BY LiveSlotTypes DEF SInv, RemoveEntry
<1>2. Circle(list, TablePages, LivePages)
  BY DEF SInv, Shape, ListInv
<1>3. Circle(RemoveItem(l, p), TablePages, LivePages \ {p})
  BY <1>1, <1>2, RemoveCircle
<1>4. LivePages' = LivePages \ {p}
  BY <1>3, RemoveShape DEF SInv
<1>5. \A q \in LivePages \ {p} : entries'[q] = entries[q]
  <2>1. entries \in [TablePages -> EntryType \cup {JunkEntry}] /\ LivePages \subseteq TablePages
    BY FrameHolds, OnePageEach DEF SInv, Shape, Frame
  <2> QED BY <2>1 DEF RemoveEntry
<1>6. KeyAt(i) = entries[p].key /\ KeyAt(i) \in Key
  BY LiveRemovable DEF SInv, KeyAt
<1>7. KeysOnce(LivePages, entries)
  BY DEF OInv
<1> HIDE DEF p
<1>8. /\ KeysOnce(LivePages', entries')
      /\ \A k : ValueIn(LivePages', entries', k)
                = IF k = entries[p].key THEN NULL ELSE ValueIn(LivePages, entries, k)
  <2> DEFINE P == LivePages
             e == entries
             f == entries'
  <2>1. KeysOnce(P, e) /\ p \in P /\ \A q \in P \ {p} : f[q] = e[q]
    BY <1>1, <1>5, <1>7
  <2> HIDE DEF P, e, f
  <2>2. /\ KeysOnce(P \ {p}, f)
        /\ \A k : ValueIn(P \ {p}, f, k) = IF k = e[p].key THEN NULL ELSE ValueIn(P, e, k)
    BY <2>1, ViewRemoved
  <2> QED BY <1>4, <2>2 DEF P, e, f
<1>9. StoredMap' = [StoredMap EXCEPT ![KeyAt(i)] = NULL]
  BY <1>6, <1>8, StoredMapIs
<1>10. PICK n \in Nat : \E s : Order(list, LivePages, s, n)
  BY ListHasOrder
<1>11. PICK s : Order(list, LivePages, s, n)
  BY <1>10
<1>12. /\ s \in [1 .. n -> LivePages]
       /\ \A a, b \in 1 .. n : s[a] = s[b] => a = b
       /\ \E j \in 1 .. n : s[j] = p
  BY <1>1, <1>11 DEF Order, IsCircle
<1>13. PICK j \in 1 .. n : s[j] = p
  BY <1>12
<1>14. Order(list', LivePages', Dropped(s, j, n), n - 1) /\ n - 1 \in Nat
  <2>1. Order(RemoveItem(list, p), LivePages \ {p}, Dropped(s, j, n), n - 1)
    BY <1>1, <1>2, <1>11, <1>13, RemoveOrder
  <2>2. list' = RemoveItem(list, p)
    BY DEF p
  <2> QED BY <1>4, <1>13, <2>1, <2>2
<1>15. PromiseP!Without(KeysAlong(entries, s, n), entries[s[j]].key)
       = KeysAlong(entries', Dropped(s, j, n), n - 1)
  <2> DEFINE P == LivePages
             e == entries
             f == entries'
  <2>1. KeysOnce(P, e) /\ s \in [1 .. n -> P] /\ \A q \in P \ {s[j]} : f[q] = e[q]
    BY <1>5, <1>7, <1>12, <1>13
  <2> HIDE DEF P, e, f
  <2>2. PromiseP!Without(KeysAlong(e, s, n), e[s[j]].key) = KeysAlong(f, Dropped(s, j, n), n - 1)
    BY <1>12, <2>1, KeysDropped
  <2> QED BY <2>2 DEF P, e, f
<1>16. UseOrder = KeysAlong(entries, s, n)
       /\ UseOrder' = KeysAlong(entries', Dropped(s, j, n), n - 1)
  BY <1>11, <1>14, UseOrderIs
<1> QED BY <1>4, <1>5, <1>6, <1>8, <1>9, <1>13, <1>15, <1>16 DEF p

(* Entering a key that has no entry.                                       *)
LEMMA InsertionRemembers ==
  ASSUME SInv, OInv, FinishInsert
  PROVE  /\ StoredMap' = [StoredMap EXCEPT ![arg.key] = arg.val]
         /\ UseOrder' = Append(PromiseP!Without(UseOrder, arg.key), arg.key)
         /\ StoredMap[arg.key] = NULL
         /\ KeysOnce(LivePages', entries')
<1> DEFINE p == NextPage(book)
           k == arg.key
<1>1. /\ pc = "insert" /\ pc' # "destroyed" /\ list' = AppendItem(list, p)
      /\ entries' = [entries EXCEPT ![p] =
           [key |-> k, key_size |-> KeySize[k], value |-> arg.val, value_size |-> ValSize[arg.val]]]
  BY DEF FinishInsert
<1>2. IInv'
  BY FinishInsertStep DEF SInv
<1>3. LivePages' = LivePages \cup {p} /\ p \in TablePages \ LivePages
  BY <1>1, <1>2, FilledShape, NextPageIsFree
<1>4. entries'[p].key = k /\ entries'[p].value = arg.val /\ \A q \in LivePages : entries'[q] = entries[q]
  <2>1. entries \in [TablePages -> EntryType \cup {JunkEntry}] /\ LivePages \subseteq TablePages
    BY FrameHolds, OnePageEach DEF SInv, Shape, Frame
  <2> QED BY <1>1, <1>3, <2>1
<1>5. k \in Key
  BY <1>1 DEF SInv, IInv, CallInv, CallType
<1>6. KeysOnce(LivePages, entries) /\ \A q \in LivePages : entries[q].key # k
  BY <1>1 DEF OInv, Absent
<1> HIDE DEF p, k
<1>7. /\ KeysOnce(LivePages', entries')
      /\ \A m : ValueIn(LivePages', entries', m)
                = IF m = k THEN arg.val ELSE ValueIn(LivePages, entries, m)
  <2> DEFINE P == LivePages
             e == entries
             f == entries'
  <2>1. KeysOnce(P, e) /\ p \notin P /\ \A q \in P : f[q] = e[q] /\ e[q].key # f[p].key
    BY <1>3, <1>4, <1>6
  <2>2. f[p].key = k /\ f[p].value = arg.val
    BY <1>4
  <2> HIDE DEF P, e, f
  <2>3. /\ KeysOnce(P \cup {p}, f)
        /\ \A m : ValueIn(P \cup {p}, f, m) = IF m = f[p].key THEN f[p].value ELSE ValueIn(P, e, m)
    BY ONLY <2>1, ViewAdded
  <2> QED BY <1>3, <2>2, <2>3 DEF P, e, f
<1>8. StoredMap' = [StoredMap EXCEPT ![k] = arg.val]
  <2>1. StoredMap' = [m \in Key |-> ValueIn(LivePages', entries', m)]
    BY ONLY <1>1, StoredMapIs
  <2>2. StoredMap = [m \in Key |-> ValueIn(LivePages, entries, m)]
    BY ONLY <1>1, StoredMapIs
  <2> QED BY ONLY <1>7, <2>1, <2>2
<1>9. StoredMap[k] = NULL
  <2>1. ValueIn(LivePages, entries, k) = NULL
    BY <1>6, ValueNone
  <2> QED BY <1>1, <1>5, <2>1, StoredMapIs
<1>10. PICK n \in Nat : \E s : Order(list, LivePages, s, n)
  BY ListHasOrder
<1>11. PICK s : Order(list, LivePages, s, n)
  BY <1>10
<1>12. s \in [1 .. n -> LivePages]
  BY <1>11 DEF Order
<1>13. Order(list', LivePages', Added(s, p, n), n + 1)
  <2>1. Circle(list, TablePages, LivePages)
    BY DEF SInv, Shape, ListInv
  <2>2. Order(AppendItem(list, p), LivePages \cup {p}, Added(s, p, n), n + 1)
    BY <1>3, <1>11, <2>1, AppendOrder
  <2> QED BY <1>1, <1>3, <2>2
<1>14. KeysAlong(entries', Added(s, p, n), n + 1) = Append(KeysAlong(entries, s, n), k)
  <2>1. PICK P, e, f, m, q : /\ P = LivePages /\ e = entries /\ f = entries' /\ m = n + 1
                            /\ q = p
    OBVIOUS
  <2>2. s \in [1 .. n -> P] /\ PromiseP!Agree(e, f, P) /\ m = n + 1 /\ n \in Nat
    BY <1>4, <1>12, <2>1 DEF PromiseP!Agree
  <2>3. KeysAlong(f, Added(s, q, n), m) = Added(KeysAlong(e, s, n), f[q].key, n)
    BY ONLY <2>2, KeysAdded
  <2>4. Append(KeysAlong(e, s, n), k) = Added(KeysAlong(e, s, n), k, n)
    BY <2>2, KeysAppended
  <2> QED BY <1>4, <2>1, <2>3, <2>4
<1>15. PromiseP!Without(KeysAlong(entries, s, n), k) = KeysAlong(entries, s, n)
  BY <1>6, <1>12, KeysWithoutNone
<1>16. UseOrder = KeysAlong(entries, s, n)
       /\ UseOrder' = KeysAlong(entries', Added(s, p, n), n + 1)
  BY <1>1, <1>11, <1>13, UseOrderIs, n + 1 \in Nat
<1> QED BY <1>7, <1>8, <1>9, <1>14, <1>15, <1>16 DEF k

(* Using an entry, and perhaps replacing its value.                        *)
LEMMA UseRenews ==
  ASSUME SInv, OInv, pc # "destroyed", pc' # "destroyed", NEW p \in LivePages,
         list' = SetLast(list, p), LivePages' = LivePages,
         \A q \in LivePages \ {p} : entries'[q] = entries[q],
         entries'[p].key = entries[p].key
  PROVE  /\ StoredMap' = [StoredMap EXCEPT ![entries[p].key] = entries'[p].value]
         /\ UseOrder' = Append(PromiseP!Without(UseOrder, entries[p].key), entries[p].key)
         /\ KeysOnce(LivePages', entries')
         /\ StoredMap[entries[p].key] = entries[p].value /\ entries[p].key \in Key
<1> DEFINE k == entries[p].key
<1>1. KeysOnce(LivePages, entries)
  BY DEF OInv
<1>2. k \in Key
  <2>1. PICK i \in LiveSlots : bookmarks[i] = p
    BY DEF LivePages
  <2> QED BY <2>1, LiveRemovable DEF SInv, KeyAt
<1>3. /\ KeysOnce(LivePages', entries')
      /\ \A m : ValueIn(LivePages', entries', m)
                = IF m = k THEN entries'[p].value ELSE ValueIn(LivePages, entries, m)
      /\ ValueIn(LivePages, entries, k) = entries[p].value
  <2> DEFINE P == LivePages
             e == entries
             f == entries'
  <2>1. /\ KeysOnce(P, e) /\ p \in P /\ (\A q \in P \ {p} : f[q] = e[q])
        /\ f[p].key = e[p].key
    BY <1>1
  <2> HIDE DEF P, e, f
  <2>2. /\ KeysOnce(P, f) /\ ValueIn(P, e, e[p].key) = e[p].value
        /\ \A m : ValueIn(P, f, m) = IF m = e[p].key THEN f[p].value ELSE ValueIn(P, e, m)
    BY <2>1, ViewReplaced, ValueHeld
  <2> QED BY <2>2 DEF P, e, f
<1>4. /\ StoredMap' = [StoredMap EXCEPT ![k] = entries'[p].value]
      /\ StoredMap[k] = entries[p].value
  BY <1>2, <1>3, StoredMapIs
<1>5. PICK n \in Nat : \E s : Order(list, LivePages, s, n)
  BY ListHasOrder
<1>6. PICK s : Order(list, LivePages, s, n)
  BY <1>5
<1>7. /\ s \in [1 .. n -> LivePages]
      /\ \A a, b \in 1 .. n : s[a] = s[b] => a = b
      /\ \E j \in 1 .. n : s[j] = p
  BY <1>6 DEF Order, IsCircle
<1>8. PICK j \in 1 .. n : s[j] = p
  BY <1>7
<1> DEFINE t == Dropped(s, j, n)
           m == n - 1
           T == LivePages \ {p}
           l == RemoveItem(list, p)
<1>9. Circle(l, TablePages, T) /\ Order(l, T, t, m) /\ m \in Nat
      /\ list' = AppendItem(l, p) /\ p \in TablePages \ T /\ T \cup {p} = LivePages
  <2>1. Circle(list, TablePages, LivePages)
    BY DEF SInv, Shape, ListInv
  <2>2. Circle(l, TablePages, T) /\ Order(l, T, t, m)
    BY <1>6, <1>8, <2>1, RemoveOrder
  <2>3. list' = AppendItem(l, p)
    BY <2>1, SetLastIsMove
  <2>4. p \in TablePages
    BY OnePageEach DEF SInv
  <2> QED BY <1>8, <2>2, <2>3, <2>4
<1>10. PromiseP!Without(KeysAlong(entries, s, n), k) = KeysAlong(entries, t, m)
  <2> DEFINE P == LivePages
             e == entries
  <2>1. KeysOnce(P, e) /\ s \in [1 .. n -> P] /\ \A q \in P \ {s[j]} : e[q] = e[q]
    BY <1>1, <1>7
  <2> HIDE DEF P, e
  <2>2. PromiseP!Without(KeysAlong(e, s, n), e[s[j]].key) = KeysAlong(e, Dropped(s, j, n), n - 1)
    BY <1>7, <2>1, KeysDropped
  <2> QED BY <1>8, <2>2 DEF P, e
<1> HIDE DEF t, m, T, l
<1>11. KeysAlong(entries', Added(t, p, m), m + 1) = Append(KeysAlong(entries, t, m), k)
  <2>1. \A q \in T : entries'[q] = entries[q]
    BY DEF T
  <2>2. PICK e, f, o : e = entries /\ f = entries' /\ o = m + 1
    OBVIOUS
  <2>3. /\ t \in [1 .. m -> T] /\ PromiseP!Agree(e, f, T) /\ o = m + 1
        /\ m \in Nat
    BY <1>9, <2>1, <2>2 DEF Order, PromiseP!Agree
  <2> HIDE DEF k
  <2>4. KeysAlong(f, Added(t, p, m), o) = Added(KeysAlong(e, t, m), f[p].key, m)
    BY ONLY <2>3, KeysAdded
  <2>5. Append(KeysAlong(e, t, m), k) = Added(KeysAlong(e, t, m), k, m)
    BY <2>3, KeysAppended
  <2> QED BY <2>2, <2>4, <2>5 DEF k
<1>12. Order(list', LivePages', Added(t, p, m), m + 1)
  <2>1. Order(AppendItem(l, p), T \cup {p}, Added(t, p, m), m + 1)
    BY <1>9, AppendOrder
  <2> QED BY <1>9, <2>1
<1>13. UseOrder = KeysAlong(entries, s, n)
       /\ UseOrder' = KeysAlong(entries', Added(t, p, m), m + 1)
  BY <1>6, <1>9, <1>12, UseOrderIs, m + 1 \in Nat
<1> QED BY <1>2, <1>3, <1>4, <1>10, <1>11, <1>13

(* Memory that stands for the same.                                        *)
LEMMA MemoryStands ==
  ASSUME UNCHANGED <<entry_capacity, key_hashes, bookmarks, entries, list>>,
         pc # "destroyed", pc' # "destroyed"
  PROVE  /\ StoredMap' = StoredMap /\ UseOrder' = UseOrder
         /\ LivePages' = LivePages /\ LiveSlots' = LiveSlots
         /\ \A k : Absent(k)' <=> Absent(k)
         /\ KeysOnce(LivePages', entries') <=> KeysOnce(LivePages, entries)
<1>1. LiveSlots' = LiveSlots /\ LivePages' = LivePages
  BY DEF LiveSlots, LivePages, Slots, Capacity
<1>2. StoredMap' = StoredMap
  BY <1>1, StoredMapIs
<1>3. ListOrder' = ListOrder
  BY <1>1 DEF ListOrder
<1>4. UseOrder' = UseOrder
  BY <1>1, <1>3 DEF UseOrder
<1> QED BY <1>1, <1>2, <1>4 DEF Absent

-----------------------------------------------------------------------------
(* Memory in use and memory needed.                                        *)

LEMMA PromiseSizes == PromiseP!SizesAssumption
BY CacheAssumption, MemoryAssumption, IndexAssumption DEF PromiseP!SizesAssumption

LEMMA StoredMapType ==
  ASSUME SInv, OInv, pc # "destroyed"
  PROVE  /\ StoredMap \in [Key -> Value \cup {NULL}]
         /\ \A i \in LiveSlots : /\ KeyAt(i) \in Key /\ entries[bookmarks[i]].value \in Value
                                 /\ StoredMap[KeyAt(i)] = entries[bookmarks[i]].value
         /\ \A k \in Key : StoredMap[k] # NULL => \E i \in LiveSlots : KeyAt(i) = k
<1>1. ASSUME NEW i \in LiveSlots
      PROVE  /\ KeyAt(i) \in Key /\ entries[bookmarks[i]].value \in Value
             /\ StoredMap[KeyAt(i)] = entries[bookmarks[i]].value
  <2>1. EntryExact(entries[bookmarks[i]], key_hashes[i])
    BY DEF SInv, ContentsInv
  <2>2. ValueIn(LivePages, entries, entries[bookmarks[i]].key) = entries[bookmarks[i]].value
    <3> DEFINE P == LivePages
               p == bookmarks[i]
    <3>1. KeysOnce(P, entries) /\ p \in P
      BY DEF OInv, LivePages
    <3> HIDE DEF P, p
    <3>2. ValueIn(P, entries, entries[p].key) = entries[p].value
      BY <3>1, ValueHeld
    <3> QED BY <3>2 DEF P, p
  <2> QED BY <2>1, <2>2, StoredMapIs DEF EntryExact, KeyAt
<1>2. ASSUME NEW k \in Key
      PROVE  \/ StoredMap[k] = NULL
             \/ StoredMap[k] \in Value /\ \E i \in LiveSlots : KeyAt(i) = k
  <2>1. CASE Absent(k)
    <3>1. ValueIn(LivePages, entries, k) = NULL
      BY <2>1, ValueNone DEF Absent
    <3> QED BY <3>1, StoredMapIs
  <2>2. CASE ~ Absent(k)
    <3>1. PICK i \in LiveSlots : KeyAt(i) = k
      BY <2>2 DEF Absent, LivePages, KeyAt
    <3> QED BY <1>1, <3>1
  <2> QED BY <2>1, <2>2
<1>3. StoredMap = [k \in Key |-> StoredMap[k]]
  BY StoredMapIs
<1> QED BY <1>1, <1>2, <1>3

LEMMA UsedIsTotal ==
  ASSUME SInv, OInv, pc # "destroyed"
  PROVE  /\ PromiseP!Used(StoredMap) = TotalSize
         /\ PromiseP!Kept(StoredMap) = {KeyAt(i) : i \in LiveSlots}
         /\ IsFiniteSet(PromiseP!Kept(StoredMap))
<1> DEFINE S == LiveSlots
           b == [i \in S |-> KeyAt(i)]
           v == PromiseP!SizesIn(StoredMap)
           K == PromiseP!Kept(StoredMap)
<1>1. K = {KeyAt(i) : i \in S} /\ K = {b[i] : i \in S}
  BY StoredMapType, CacheAssumption DEF PromiseP!Kept
<1>2. \A i \in S : SizeAt[i] \in Nat /\ SizeAt[i] \in Int /\ v[b[i]] = SizeAt[i]
  BY LiveSize, StoredMapType, SamePromise DEF SizeAt, PromiseP!SizesIn
<1>3. \A i, j \in S : b[i] = b[j] => i = j
  BY LiveSlotTypes DEF SInv, OInv, KeysOnce, KeyAt
<1>4. IsFiniteSet(S) /\ PromiseP!IsFiniteSet(S)
  BY OnePageEach, SameFinite DEF SInv
<1>5. IsFiniteSet(K)
  <2>1. b \in Surjection(S, K)
    BY <1>1 DEF Surjection
  <2> QED BY <1>4, <2>1, FS_Surjection
<1> HIDE DEF S, b, v, K
<1>6. PromiseP!Sum(v, {b[i] : i \in S}) = PromiseP!Sum(SizeAt, S)
  BY <1>2, <1>3, <1>4, PromiseP!SumMapped
<1>7. PromiseP!Used(StoredMap) = PromiseP!Sum(v, K)
  BY <1>5, SameFinite, PromiseP!UsedIsSum DEF v, K
<1> QED BY <1>1, <1>5, <1>6, <1>7 DEF TotalSize, S, K

(* What a set needs in the end is what mem_total already says.             *)
LEMMA NeededIsCounted ==
  ASSUME SInv, MInv, OInv, pc \in {"update", "insert"}
  PROVE  PromiseP!Used([StoredMap EXCEPT ![arg.key] = arg.val]) = mem_total
<1> DEFINE k == arg.key
           v == arg.val
           w == PromiseP!SizesIn(StoredMap)
           K == PromiseP!Kept(StoredMap)
           needed == PromiseP!Used([StoredMap EXCEPT ![k] = v])
           rest == PromiseP!Sum(w, K \ {k})
<1>1. k \in Key /\ v \in Value /\ EntrySize(k, v) \in Nat /\ ValSize[v] \in Nat /\ KeySize[k] \in Nat
  BY PendingSize, ConstantTypes
<1>2. /\ PromiseP!Used(StoredMap) = TotalSize /\ PromiseP!Used(StoredMap) = PromiseP!Sum(w, K)
      /\ PromiseP!IsFiniteSet(K)
  BY UsedIsTotal, SameFinite, PromiseP!UsedIsSum
<1>3. needed = EntrySize(k, v) + rest
  BY <1>1, <1>2, PromiseSizes, StoredMapType, PromiseP!UsedSet, SamePromise
<1>4. mem_total = TotalSize + Pending /\ TotalSize \in Nat
  BY TotalWithout DEF MInv, Busy
<1> HIDE DEF needed
<1>5. ASSUME pc = "insert"
      PROVE  needed = mem_total
  <2>1. k \notin K
    <3>1. Absent(k)
      BY <1>5 DEF OInv
    <3> QED BY <3>1, UsedIsTotal DEF Absent, LivePages, KeyAt
  <2>2. K \ {k} = K
    BY <2>1
  <2>3. Pending = EntrySize(k, v)
    BY <1>5, PendingSize
  <2>4. rest = TotalSize
    BY <1>2, <2>2
  <2> HIDE DEF w, K, rest
  <2> QED BY <1>1, <1>3, <1>4, <2>3, <2>4
<1>6. ASSUME pc = "update"
      PROVE  needed = mem_total
  <2> DEFINE i == book.link[at]
             old_v == entries[at].value
  <2>1. i \in LiveSlots /\ bookmarks[i] = at /\ KeyAt(i) = k /\ Pending = ValSize[v] - entries[at].value_size
    BY <1>6, PendingSize DEF SInv, ClaimInv, KeyAt
  <2>2. EntryExact(entries[at], key_hashes[i])
    BY <1>6, <2>1 DEF SInv, ContentsInv
  <2>3. StoredMap[k] = old_v /\ old_v \in Value /\ entries[at].value_size = ValSize[old_v]
    BY <1>6, <2>1, <2>2, StoredMapType DEF EntryExact
  <2>4. ValSize[old_v] \in Nat /\ EntrySize(k, old_v) = ValSize[old_v] + KeySize[k]
        /\ EntrySize(k, v) = ValSize[v] + KeySize[k]
    BY <2>3, ConstantTypes DEF EntrySize
  <2>5. k \in K /\ w[k] = EntrySize(k, old_v)
    BY <1>1, <2>3, CacheAssumption, SamePromise DEF PromiseP!Kept, PromiseP!SizesIn
  <2>6. \A x \in K : w[x] \in Int
    <3> SUFFICES ASSUME NEW x \in K PROVE w[x] \in Int
      OBVIOUS
    <3>1. x \in Key /\ StoredMap[x] \in Value
      BY StoredMapType DEF PromiseP!Kept
    <3>2. EntrySize(x, StoredMap[x]) \in Nat
      BY <3>1, ConstantTypes
    <3> QED BY <3>1, <3>2, SamePromise DEF PromiseP!SizesIn
  <2> HIDE DEF w, K
  <2>7. TotalSize = w[k] + rest /\ rest \in Int
    BY <1>2, <2>5, <2>6, PromiseP!SumRemove
  <2> HIDE DEF i, old_v, rest
  <2>8. mem_total = TotalSize + (ValSize[v] - ValSize[old_v])
    BY <1>4, <2>1, <2>3
  <2>9. TotalSize = ValSize[old_v] + KeySize[k] + rest
    BY <2>4, <2>5, <2>7
  <2>10. needed = ValSize[v] + KeySize[k] + rest
    BY <1>3, <2>4
  <2> HIDE DEF k, v
  <2> QED BY <1>1, <2>4, <2>7, <2>8, <2>9, <2>10
<1>7. needed = mem_total
  BY <1>5, <1>6
<1> QED BY <1>7 DEF needed

-----------------------------------------------------------------------------
(* Every step is one of the promise, or leaves all of it as it is.         *)

LEMMA PromiseReturns ==
  \A op, k, v, code : Promise!Returned(op, k, v, code) = Returned(op, k, v, code)
BY DEF Promise!Returned, Returned

(* A call that reads the memory and reports.                               *)
LEMMA ReportStands ==
  ASSUME SInv, OInv, pc = "idle",
         UNCHANGED <<entry_capacity, key_hashes, bookmarks, entries, list, pc, arg>>,
         ret'.op = "delete" => ret'.key \in Key /\ Absent(ret'.key)
  PROVE  /\ OInv'
         /\ StoredMap' = StoredMap /\ UseOrder' = UseOrder
         /\ Waiting = NULL /\ Waiting' = NULL /\ Answer' = ret'
<1>1. /\ StoredMap' = StoredMap /\ UseOrder' = UseOrder
      /\ \A k : Absent(k)' <=> Absent(k)
      /\ KeysOnce(LivePages', entries')
  BY MemoryStands DEF OInv
<1>2. arg = NULL
  BY DEF OInv
<1>3. Absent(ret.key)' <=> Absent(ret'.key)
  BY <1>1 DEF Absent
<1>4. OInv'
  BY <1>1, <1>2, <1>3 DEF OInv
<1> QED BY <1>1, <1>2, <1>4 DEF Waiting, Answer, Growing

\* A step of the promise, in these terms.
LEMMA PromiseVars ==
  UNCHANGED <<StoredMap, UseOrder, Waiting, Answer>> => UNCHANGED Promise!vars
BY DEF Promise!vars, Waiting, Answer

LEMMA RefusePromised ==
  ASSUME SInv, OInv, NEW k \in Key, NEW v \in ValuesOf[k], SetTooLarge(k, v)
  PROVE  OInv' /\ Promise!Next
<1>1. /\ pc = "idle" /\ EntrySize(k, v) > MEM_CAPACITY
      /\ ret' = Returned("set", k, v, -1)
      /\ UNCHANGED <<entry_capacity, key_hashes, bookmarks, entries, list, pc, arg>>
  BY DEF SetTooLarge, counts, memory
<1>2. ret'.op = "set"
  BY <1>1 DEF Returned
<1>3. /\ OInv'
      /\ StoredMap' = StoredMap /\ UseOrder' = UseOrder
      /\ Waiting = NULL /\ Waiting' = NULL /\ Answer' = ret'
  BY <1>1, <1>2, ReportStands
<1>4. Promise!Size(k, v) = EntrySize(k, v)
  BY ConstantTypes, SamePromise
<1>5. Promise!Refuse(k, v)
  BY <1>1, <1>3, <1>4, PromiseReturns DEF Promise!Refuse, Waiting, Answer
<1> QED BY <1>3, <1>5 DEF Promise!Next

LEMMA NotFoundAbsent ==
  ASSUME SInv, OInv, NEW k \in Key, pc = "idle", ~ Found(k)
  PROVE  Absent(k) /\ StoredMap[k] = NULL
<1>1. Absent(k)
  <2> SUFFICES ASSUME NEW p \in LivePages, entries[p].key = k PROVE FALSE
    BY DEF Absent
  <2>1. PICK i \in LiveSlots : bookmarks[i] = p
    BY DEF LivePages
  <2> QED BY <2>1, LiveFound DEF LiveKeysFound, KeyAt
<1>2. ValueIn(LivePages, entries, k) = NULL
  BY <1>1, ValueNone DEF Absent
<1> QED BY <1>1, <1>2, StoredMapIs

LEMMA MissPromised ==
  ASSUME SInv, OInv, NEW k \in Key, GetMiss(k) \/ DeleteMiss(k)
  PROVE  OInv' /\ Promise!Next
<1>1. /\ pc = "idle" /\ ~ Found(k)
      /\ UNCHANGED <<entry_capacity, key_hashes, bookmarks, entries, list, pc, arg>>
  BY DEF GetMiss, DeleteMiss, counts, memory
<1>2. Absent(k) /\ StoredMap[k] = NULL
  BY <1>1, NotFoundAbsent
<1>3. ret'.op = "delete" => ret'.key = k
  BY DEF GetMiss, DeleteMiss, Returned
<1>4. /\ OInv'
      /\ StoredMap' = StoredMap /\ UseOrder' = UseOrder
      /\ Waiting = NULL /\ Waiting' = NULL /\ Answer' = ret'
  BY <1>1, <1>2, <1>3, ReportStands
<1>5. CASE GetMiss(k)
  <2>1. ret' = Returned("get", k, NULL, 0)
    BY <1>5 DEF GetMiss
  <2>2. Promise!Get(k)
    BY <1>2, <1>4, <2>1, PromiseReturns DEF Promise!Get, Waiting, Answer
  <2> QED BY <1>4, <2>2 DEF Promise!Next
<1>6. CASE DeleteMiss(k)
  <2>1. ret' = Returned("delete", k, NULL, -1)
    BY <1>6 DEF DeleteMiss
  <2>2. StoredMap' = [StoredMap EXCEPT ![k] = NULL]
    BY <1>1, <1>2, <1>4, StoredMapIs
  <2>3. Promise!Without(UseOrder, k) = UseOrder
    <3>1. PICK n \in Nat : \E s : Order(list, LivePages, s, n)
      BY ListHasOrder
    <3>2. PICK s : Order(list, LivePages, s, n)
      BY <3>1
    <3>3. UseOrder = KeysAlong(entries, s, n)
      BY <1>1, <3>2, UseOrderIs
    <3>4. s \in [1 .. n -> LivePages]
      BY <3>2 DEF Order
    <3>5. PromiseP!Without(KeysAlong(entries, s, n), k) = KeysAlong(entries, s, n)
      BY <1>2, <3>4, KeysWithoutNone DEF Absent
    <3> QED BY <3>3, <3>5, SamePromise
  <2>4. Promise!Delete(k)
    BY <1>2, <1>4, <2>1, <2>2, <2>3, PromiseReturns DEF Promise!Delete, Waiting, Answer
  <2> QED BY <1>4, <2>4 DEF Promise!Next
<1> QED BY <1>5, <1>6

LEMMA SpacePromised ==
  ASSUME SInv, MInv, OInv, SpaceUsed
  PROVE  OInv' /\ Promise!Next
<1>1. /\ pc = "idle" /\ ret' = Returned("space", NULL, NULL, mem_total)
      /\ UNCHANGED <<entry_capacity, key_hashes, bookmarks, entries, list, pc, arg>>
  BY DEF SpaceUsed, counts, memory
<1>2. ret'.op = "space"
  BY <1>1 DEF Returned
<1>3. /\ OInv'
      /\ StoredMap' = StoredMap /\ UseOrder' = UseOrder
      /\ Waiting = NULL /\ Waiting' = NULL /\ Answer' = ret'
  BY <1>1, <1>2, ReportStands
<1>4. Promise!Used(StoredMap) = mem_total
  <2>1. mem_total = TotalSize + 0 /\ TotalSize \in Nat
    BY <1>1, TotalWithout DEF MInv, Busy, Pending
  <2> QED BY <1>1, <2>1, UsedIsTotal, SamePromise
<1>5. Promise!SpaceUsed
  BY <1>1, <1>3, <1>4, PromiseReturns DEF Promise!SpaceUsed, Waiting, Answer
<1> QED BY <1>3, <1>5 DEF Promise!Next

LEMMA BeginPromised ==
  ASSUME SInv, OInv, NEW k \in Key, NEW v \in ValuesOf[k],
         SetExisting(k, v) \/ SetNew(k, v), ~ Duplicate
  PROVE  OInv' /\ Promise!Next
<1>1. /\ pc = "idle" /\ pc' \in {"update", "insert"} /\ arg' = [key |-> k, val |-> v]
      /\ EntrySize(k, v) <= MEM_CAPACITY /\ ret' = ret
      /\ UNCHANGED <<entry_capacity, key_hashes, bookmarks, entries, list>>
  BY DEF SetExisting, SetNew, memory
<1>2. /\ StoredMap' = StoredMap /\ UseOrder' = UseOrder
      /\ \A m : Absent(m)' <=> Absent(m)
      /\ KeysOnce(LivePages', entries')
  BY <1>1, MemoryStands DEF OInv
<1>3. pc' = "insert" => Absent(k)
  <2> SUFFICES ASSUME SetNew(k, v) PROVE Absent(k)
    BY DEF SetExisting
  <2>1. \A i \in LiveSlots : KeyAt(i) # k
    BY DEF Duplicate
  <2> QED BY <2>1 DEF Absent, LivePages, KeyAt
<1>4. OInv'
  <2>1. arg'.key = k
    BY <1>1
  <2>2. Absent(arg.key)' <=> Absent(k)'
    BY <2>1 DEF Absent
  <2> QED BY <1>1, <1>2, <1>3, <2>2 DEF OInv
<1>5. Waiting = NULL /\ Waiting' = [key |-> k, val |-> v] /\ Answer' = Answer
  BY <1>1 DEF Waiting, Answer, Growing, OInv
<1>6. Promise!Size(k, v) = EntrySize(k, v)
  BY ConstantTypes, SamePromise
<1>7. Promise!BeginSet(k, v)
  BY <1>1, <1>2, <1>5, <1>6 DEF Promise!BeginSet, Waiting, Answer
<1> QED BY <1>4, <1>7 DEF Promise!Next

LEMMA DestroyPromised ==
  ASSUME SInv, OInv, Destroy
  PROVE  OInv' /\ Promise!Next
<1>1. pc = "idle" /\ pc' = "destroyed" /\ UNCHANGED <<arg, ret>>
  BY DEF Destroy
<1>2. arg = NULL
  BY <1>1 DEF OInv
<1>3. OInv'
  BY <1>1, <1>2 DEF OInv
<1>4. StoredMap' = [k \in Key |-> NULL] /\ UseOrder' = <<>>
  BY <1>1 DEF StoredMap, UseOrder
<1>5. Waiting = NULL /\ Waiting' = NULL /\ Answer' = Answer
  BY <1>1, <1>2 DEF Waiting, Answer, Growing
<1>6. Promise!Destroy
  BY <1>4, <1>5 DEF Promise!Destroy, Waiting, Answer
<1> QED BY <1>3, <1>6 DEF Promise!Next

LEMMA DeletePromised ==
  ASSUME SInv, OInv, NEW k \in Key, DeleteHit(k)
  PROVE  OInv' /\ Promise!Next
<1>1. /\ pc = "idle" /\ pc' = pc /\ arg' = arg /\ Found(k)
      /\ RemoveEntry(FindSlot(k), list) /\ ret' = Returned("delete", k, NULL, 0)
  BY DEF DeleteHit
<1>2. IInv'
  BY DeleteHitStep DEF SInv
<1>3. PICK i \in LiveSlots : i = FindSlot(k) /\ KeyAt(i) = k
  BY <1>1, FoundIsLive DEF SInv, Holders
<1>4. list' = RemoveItem(list, bookmarks[i])
  BY <1>1, <1>3 DEF RemoveEntry
<1>5. /\ StoredMap' = [StoredMap EXCEPT ![k] = NULL]
      /\ UseOrder' = PromiseP!Without(UseOrder, k)
      /\ KeysOnce(LivePages', entries')
      /\ LivePages' = LivePages \ {bookmarks[i]}
      /\ \A q \in LivePages' : entries'[q] = entries[q]
  BY <1>1, <1>2, <1>3, <1>4, RemovalForgets
<1>6. StoredMap[k] # NULL
  BY <1>1, <1>3, StoredMapType, CacheAssumption
<1>7. ret'.key \in Key /\ Absent(ret.key)'
  <2>1. ret'.key = k
    BY <1>1 DEF Returned
  <2>2. bookmarks[i] \in LivePages /\ entries[bookmarks[i]].key = k
    BY <1>3 DEF LivePages, KeyAt
  <2>3. \A q \in LivePages \ {bookmarks[i]} : entries[q].key # k
    BY <1>1, <2>2 DEF OInv, KeysOnce
  <2> QED BY <1>5, <2>1, <2>3 DEF Absent
<1>8. arg = NULL
  BY <1>1 DEF OInv
<1>9. OInv'
  BY <1>1, <1>5, <1>7, <1>8 DEF OInv
<1>10. Waiting = NULL /\ Waiting' = NULL /\ Answer' = ret'
  BY <1>1, <1>8 DEF Waiting, Answer, Growing
<1>11. Promise!Delete(k)
  BY <1>1, <1>5, <1>6, <1>10, SamePromise, PromiseReturns
     DEF Promise!Delete, Waiting, Answer
<1> QED BY <1>9, <1>11 DEF Promise!Next

LEMMA GetPromised ==
  ASSUME SInv, OInv, NEW k \in Key, GetHit(k)
  PROVE  OInv' /\ Promise!Next
<1>1. /\ pc = "idle" /\ pc' = pc /\ arg' = arg /\ Found(k)
      /\ list' = SetLast(list, bookmarks[FindSlot(k)])
      /\ ret' = Returned("get", k, entries[bookmarks[FindSlot(k)]].value, 0)
      /\ UNCHANGED <<entry_capacity, key_hashes, bookmarks, entries, book>>
  BY DEF GetHit, counts
<1>2. IInv'
  BY GetHitStep DEF SInv
<1>3. PICK i \in LiveSlots : i = FindSlot(k) /\ KeyAt(i) = k
  BY <1>1, FoundIsLive DEF SInv, Holders
<1>4. PICK p \in LivePages : p = bookmarks[i]
  BY LiveSlotTypes DEF SInv
<1>5. entries[p].key = k
  BY <1>3, <1>4 DEF KeyAt
<1>6. LivePages' = LivePages
  BY <1>1, <1>2, <1>3, <1>4, MoveShape
<1>7. /\ StoredMap' = [StoredMap EXCEPT ![k] = entries[p].value]
      /\ UseOrder' = Append(PromiseP!Without(UseOrder, k), k)
      /\ KeysOnce(LivePages', entries')
      /\ StoredMap[k] = entries[p].value
  BY <1>1, <1>3, <1>4, <1>5, <1>6, UseRenews
<1>8. StoredMap' = StoredMap /\ StoredMap[k] # NULL
  <2>1. StoredMap \in [Key -> Value \cup {NULL}] /\ entries[p].value \in Value
    BY <1>1, <1>4, StoredMapType
  <2> QED BY <1>7, <2>1, CacheAssumption
<1>9. arg = NULL
  BY <1>1 DEF OInv
<1>10. ret'.op = "get"
  BY <1>1 DEF Returned
<1>11. OInv'
  BY <1>1, <1>7, <1>9, <1>10 DEF OInv
<1>12. Waiting = NULL /\ Waiting' = NULL /\ Answer' = ret'
  BY <1>1, <1>9 DEF Waiting, Answer, Growing
<1>13. Promise!Get(k)
  BY <1>1, <1>3, <1>4, <1>7, <1>8, <1>12, SamePromise, PromiseReturns
     DEF Promise!Get, Waiting, Answer
<1> QED BY <1>11, <1>13 DEF Promise!Next

LEMMA UpdatePromised ==
  ASSUME SInv, MInv, OInv, FinishUpdate
  PROVE  OInv' /\ Promise!Next
<1> DEFINE e == [entries[at] EXCEPT !.value = arg.val, !.value_size = ValSize[arg.val]]
<1>1. /\ pc = "update" /\ pc' = "idle" /\ mem_total <= MEM_CAPACITY
      /\ list' = SetLast(list, at)
      /\ entries' = [entries EXCEPT ![at] = e]
      /\ ret' = Returned("set", arg.key, arg.val, 1) /\ arg' = NULL
      /\ UNCHANGED <<entry_capacity, key_hashes, bookmarks, book>>
  BY DEF FinishUpdate, counts
<1>2. IInv'
  BY FinishUpdateStep DEF SInv
<1>3. PICK p \in LivePages : p = at /\ entries[p].key = arg.key
  BY <1>1 DEF SInv, ClaimInv
<1>4. PICK i \in LiveSlots : bookmarks[i] = p
  BY DEF LivePages
<1>5. EntryExact(entries[p], key_hashes[i]) /\ p \in TablePages
  BY <1>1, <1>4, LiveSlotTypes DEF SInv, ContentsInv
<1>6. Frame
  BY FrameHolds DEF SInv, Shape
<1>7. entries[at] \in EntryType
  <2>1. entries[at] \in EntryType \cup {JunkEntry} /\ entries[at].key \in Key
    BY <1>3, <1>5, <1>6 DEF Frame, EntryExact
  <2> QED BY <2>1, EntryTypes
<1>8. e.key = arg.key /\ e.value = arg.val
  BY <1>3, <1>7 DEF EntryType
<1> HIDE DEF e
<1>9. /\ entries'[p].key = arg.key /\ entries'[p].value = arg.val
      /\ \A q \in LivePages \ {p} : entries'[q] = entries[q]
  <2>1. \A q \in TablePages : entries'[q] = IF q = p THEN e ELSE entries[q]
    BY <1>1, <1>3, <1>6 DEF Frame
  <2>2. LivePages \subseteq TablePages
    BY OnePageEach DEF SInv
  <2> QED BY <1>5, <1>8, <2>1, <2>2
<1>10. LivePages' = LivePages
  BY <1>1, <1>2, <1>3, MoveShape
<1>11. /\ StoredMap' = [StoredMap EXCEPT ![arg.key] = arg.val]
       /\ UseOrder' = Append(PromiseP!Without(UseOrder, arg.key), arg.key)
       /\ KeysOnce(LivePages', entries')
       /\ StoredMap[arg.key] = entries[p].value
  BY <1>1, <1>3, <1>9, <1>10, UseRenews
<1>12. StoredMap[arg.key] # NULL
  BY <1>5, <1>11, CacheAssumption DEF EntryExact
<1>13. OInv'
  <2>1. ret'.op = "set"
    BY <1>1 DEF Returned
  <2> QED BY <1>1, <1>11, <2>1 DEF OInv
<1>14. Waiting = arg /\ arg # NULL /\ Waiting' = NULL /\ Answer' = ret'
  BY <1>1, CallAssumption DEF Waiting, Answer, Growing, SInv, IInv, CallInv, CallType
<1>15. Promise!Used([StoredMap EXCEPT ![arg.key] = arg.val]) <= MEM_CAPACITY
  BY <1>1, NeededIsCounted, SamePromise
<1>16. Promise!EndSet
  BY <1>1, <1>11, <1>12, <1>14, <1>15, SamePromise, PromiseReturns
     DEF Promise!EndSet, Promise!Needed, Waiting, Answer
<1> QED BY <1>13, <1>16 DEF Promise!Next

LEMMA InsertPromised ==
  ASSUME SInv, MInv, OInv, FinishInsert
  PROVE  OInv' /\ Promise!Next
<1>1. /\ pc = "insert" /\ mem_total <= MEM_CAPACITY
      /\ \/ pc' = "grow" /\ arg' = arg /\ ret' = ret
         \/ pc' = "idle" /\ arg' = NULL /\ ret' = Returned("set", arg.key, arg.val, 0)
  BY DEF FinishInsert
<1>2. /\ StoredMap' = [StoredMap EXCEPT ![arg.key] = arg.val]
      /\ UseOrder' = Append(PromiseP!Without(UseOrder, arg.key), arg.key)
      /\ StoredMap[arg.key] = NULL
      /\ KeysOnce(LivePages', entries')
  BY InsertionRemembers
<1>3. OInv'
  <2>1. pc' = "idle" => ret'.op = "set"
    BY <1>1 DEF Returned
  <2> QED BY <1>1, <1>2, <2>1 DEF OInv
<1>4. Waiting = arg /\ arg # NULL
  BY <1>1, CallAssumption DEF Waiting, Growing, SInv, IInv, CallInv, CallType
<1>5. Waiting' = NULL /\ Answer' = Returned("set", arg.key, arg.val, 0)
  BY <1>1 DEF Waiting, Answer, Growing, Returned
<1>6. Promise!Used([StoredMap EXCEPT ![arg.key] = arg.val]) <= MEM_CAPACITY
  BY <1>1, NeededIsCounted, SamePromise
<1>7. Promise!EndSet
  BY <1>1, <1>2, <1>4, <1>5, <1>6, SamePromise, PromiseReturns
     DEF Promise!EndSet, Promise!Needed, Waiting, Answer
<1> QED BY <1>3, <1>7 DEF Promise!Next

(* The key evicted is the first in the order of use but the one being set. *)
LEMMA HeadAlong ==
  ASSUME NEW P, NEW n \in Nat, n > 0, NEW s \in [1 .. n -> P], NEW e
  PROVE  Head(KeysAlong(e, s, n)) = e[s[1]].key
<1> DEFINE K == {e[q].key : q \in P}
           a == KeysAlong(e, s, n)
<1>1. a \in [1 .. n -> K] /\ a[1] = e[s[1]].key
  BY DEF KeysAlong
<1> HIDE DEF a, K
<1>2. a \in Seq(K) /\ Len(a) = n
  BY <1>1, OrderIsSequence
<1>3. Head(a) = a[1]
  BY <1>2
<1> QED BY <1>1, <1>3 DEF a

LEMMA VictimIsHead ==
  ASSUME SInv, OInv, pc \in {"update", "insert"}, list.head # INVALID_NODE,
         pc = "update" => list.head # at
  PROVE  Head(PromiseP!Without(UseOrder, arg.key)) = entries[list.head].key
<1>1. list.head \in LivePages
  BY HeadIsLive
<1>2. PICK n \in Nat : \E s : Order(list, LivePages, s, n)
  BY ListHasOrder
<1>3. PICK s : Order(list, LivePages, s, n)
  BY <1>2
<1>4. PICK P, e, k : P = LivePages /\ e = entries /\ k = arg.key
  OBVIOUS
<1>5. /\ s \in [1 .. n -> P]
      /\ \A i, j \in 1 .. n : s[i] = s[j] => i = j
      /\ \A p \in P : \E i \in 1 .. n : s[i] = p
      /\ list.head = IF n = 0 THEN INVALID_NODE ELSE s[1]
  BY <1>3, <1>4 DEF Order, IsCircle
<1>6. UseOrder = KeysAlong(e, s, n)
  BY <1>3, <1>4, UseOrderIs
<1>7. n \in Nat /\ n > 0 /\ s \in [1 .. n -> P] /\ s[1] = list.head
  BY <1>5
<1>8. CASE pc = "insert"
  <2>1. \A p \in P : e[p].key # k
    BY <1>4, <1>8 DEF OInv, Absent
  <2>2. PromiseP!Without(KeysAlong(e, s, n), k) = KeysAlong(e, s, n)
    BY ONLY <1>7, <2>1, KeysWithoutNone
  <2>3. Head(KeysAlong(e, s, n)) = e[s[1]].key
    BY ONLY <1>7, HeadAlong
  <2> QED BY <1>4, <1>6, <1>7, <2>2, <2>3
<1>9. CASE pc = "update"
  <2>1. at \in P /\ e[at].key = k
    BY <1>4, <1>9 DEF SInv, ClaimInv
  <2>2. PICK j \in 1 .. n : s[j] = at
    BY <1>5, <2>1
  <2>3. PICK m, t : m = n - 1 /\ t = Dropped(s, j, n)
    OBVIOUS
  <2>4. j # 1 /\ m \in Nat /\ m > 0
    BY <1>7, <1>9, <2>2, <2>3
  <2>5. KeysOnce(P, e) /\ \A q \in P \ {s[j]} : e[q] = e[q]
    BY <1>4, <1>9 DEF OInv
  <2>6. PromiseP!Without(KeysAlong(e, s, n), e[s[j]].key) = KeysAlong(e, t, m)
    <3>1. /\ n \in Nat /\ s \in [1 .. n -> P] /\ j \in 1 .. n
          /\ \A h, i \in 1 .. n : s[h] = s[i] => h = i
      BY <1>5, <1>7, <2>2
    <3>2. PromiseP!Without(KeysAlong(e, s, n), e[s[j]].key) = KeysAlong(e, Dropped(s, j, n), n - 1)
      BY ONLY <2>5, <3>1, KeysDropped
    <3> QED BY ONLY <2>3, <3>2
  <2>7. t \in [1 .. m -> P] /\ t[1] = s[1]
    BY <1>5, <2>3, <2>4 DEF Dropped
  <2>8. Head(KeysAlong(e, t, m)) = e[t[1]].key
    BY ONLY <2>4, <2>7, HeadAlong
  <2> QED BY <1>4, <1>6, <1>7, <2>1, <2>2, <2>6, <2>7, <2>8
<1> QED BY <1>8, <1>9

LEMMA EvictPromised ==
  ASSUME SInv, MInv, OInv, Evict, ~ OwnEviction
  PROVE  OInv' /\ Promise!Next
<1>1. /\ pc \in {"update", "insert"} /\ pc' = pc /\ UNCHANGED <<arg, ret>>
      /\ mem_total > MEM_CAPACITY /\ list.head # INVALID_NODE
      /\ RemoveEntry(book.link[list.head], RemoveItem(list, list.head))
      /\ pc = "update" => list.head # at
  BY DEF Evict, Evicting, CanEvict, OwnEviction
<1>2. IInv'
  BY EvictStep DEF SInv
<1>3. PICK i \in LiveSlots : i = book.link[list.head] /\ bookmarks[i] = list.head
  BY <1>1, HeadIsLive
<1>4. KeyAt(i) = entries[list.head].key
  BY <1>3 DEF KeyAt
<1>5. list' = RemoveItem(list, bookmarks[i])
  <2>1. Circle(list, TablePages, LivePages)
    BY DEF SInv, Shape, ListInv
  <2>2. list' = RemoveItem(RemoveItem(list, list.head), list.head)
    BY <1>1, <1>3 DEF RemoveEntry
  <2> QED BY <1>1, <1>3, <2>1, <2>2, RemoveHeadTwice
<1>6. /\ StoredMap' = [StoredMap EXCEPT ![KeyAt(i)] = NULL]
      /\ UseOrder' = PromiseP!Without(UseOrder, KeyAt(i))
      /\ KeysOnce(LivePages', entries')
      /\ LivePages' = LivePages \ {bookmarks[i]}
      /\ \A q \in LivePages' : entries'[q] = entries[q]
  BY <1>1, <1>2, <1>3, <1>5, RemovalForgets
<1>7. OInv'
  <2>1. pc = "insert" => Absent(arg.key)'
    BY <1>1, <1>6 DEF OInv, Absent
  <2> QED BY <1>1, <1>6, <2>1 DEF OInv
<1>8. Waiting = arg /\ arg # NULL /\ Waiting' = Waiting /\ Answer' = Answer
  BY <1>1, CallAssumption DEF Waiting, Answer, Growing, SInv, IInv, CallInv, CallType
<1>9. Promise!Used([StoredMap EXCEPT ![arg.key] = arg.val]) > MEM_CAPACITY
  BY <1>1, NeededIsCounted, SamePromise
<1>10. Head(Promise!Without(UseOrder, arg.key)) = KeyAt(i)
  <2>1. Head(PromiseP!Without(UseOrder, arg.key)) = KeyAt(i)
    BY <1>1, <1>4, VictimIsHead
  <2> QED BY <2>1, SamePromise
<1>11. Promise!Evict
  BY <1>1, <1>6, <1>8, <1>9, <1>10, SamePromise
     DEF Promise!Evict, Promise!Needed, Waiting, Answer
<1> QED BY <1>7, <1>11 DEF Promise!Next

LEMMA InitPromised == Init => OInv /\ Promise!Init
<1> SUFFICES ASSUME Init PROVE OInv /\ Promise!Init
  OBVIOUS
<1>1. LivePages = {}
  BY DEF Init, LivePages, LiveSlots, IsLive
<1>2. OInv
  BY <1>1 DEF Init, OInv, KeysOnce, Returned
<1>3. StoredMap = [k \in Key |-> NULL]
  BY <1>1 DEF StoredMap, StoredValue
<1>4. UseOrder = <<>>
  <2>1. Cardinality(LivePages) = 0
    BY <1>1, FS_EmptySet
  <2> QED BY <2>1 DEF UseOrder
<1>5. Waiting = NULL /\ Answer = Returned("none", NULL, NULL, 0)
  BY DEF Init, Waiting, Answer, Growing
<1>6. Promise!Init
  BY <1>3, <1>4, <1>5, PromiseReturns DEF Promise!Init, Waiting, Answer
<1> QED BY <1>2, <1>6

LEMMA StutterPromised ==
  ASSUME SInv, OInv, UNCHANGED vars
  PROVE  OInv' /\ UNCHANGED Promise!vars
<1>1. UNCHANGED <<entry_capacity, key_hashes, bookmarks, entries, list, pc, arg, ret>>
  BY DEF vars
<1>2. LivePages' = LivePages /\ ListOrder' = ListOrder
  BY <1>1 DEF LivePages, LiveSlots, Slots, Capacity, ListOrder
<1>3. StoredMap' = StoredMap /\ UseOrder' = UseOrder
  BY <1>1, <1>2 DEF StoredMap, StoredValue, UseOrder
<1>4. OInv'
  BY <1>1, <1>2 DEF OInv, KeysOnce, Absent
<1>5. Waiting' = Waiting /\ Answer' = Answer
  BY <1>1 DEF Waiting, Answer, Growing
<1> QED BY <1>3, <1>4, <1>5, PromiseVars

(* Every step that is none of the three defects keeps the promise.         *)
LEMMA NextPromised ==
  SInv /\ MInv /\ OInv /\ [Next /\ DefectFree]_vars => OInv' /\ [Promise!Next]_(Promise!vars)
<1> SUFFICES ASSUME SInv, MInv, OInv, [Next /\ DefectFree]_vars
             PROVE  OInv' /\ (Promise!Next \/ UNCHANGED Promise!vars)
  OBVIOUS
<1>1. CASE UNCHANGED vars
  BY <1>1, StutterPromised
<1>2. CASE Next /\ DefectFree
  <2>1. ~ GrowArena /\ (Evict => ~ OwnEviction) /\ ~ Duplicate
    BY <1>2 DEF DefectFree, Harmless
  <2>2. ~ RehashSkip /\ ~ RehashEntry /\ ~ RehashDone
    BY DEF SInv, Shape, Sized, RehashSkip, RehashEntry, RehashDone, Rehashing
  <2>3. ASSUME NEW k \in Key, NEW v \in ValuesOf[k], Set(k, v)
        PROVE  OInv' /\ Promise!Next
    BY <2>1, <2>3, RefusePromised, BeginPromised DEF Set
  <2>4. ASSUME NEW k \in Key, Get(k) \/ Delete(k)
        PROVE  OInv' /\ Promise!Next
    BY <2>4, GetPromised, DeletePromised, MissPromised DEF Get, Delete
  <2>5. CASE SpaceUsed \/ Destroy
    BY <2>5, SpacePromised, DestroyPromised
  <2>6. CASE Continue
    BY <2>1, <2>2, <2>6, EvictPromised, UpdatePromised, InsertPromised DEF Continue, Grow
  <2>7. ~ Undefined
    BY NothingFaulty DEF Undefined
  <2> QED BY <1>2, <2>3, <2>4, <2>5, <2>6, <2>7 DEF Next
<1> QED BY <1>1, <1>2

LEMMA DefectFreeIsHarmless == DefectFreeSpec => HarmlessSpec
<1>1. [Next /\ DefectFree]_vars => [Next /\ Harmless]_vars
  BY DEF DefectFree
<1> QED BY <1>1, PTL DEF DefectFreeSpec, HarmlessSpec

LEMMA SpecOInv == DefectFreeSpec => []OInv
<1>1. SInv /\ MInv /\ OInv /\ [Next /\ DefectFree]_vars => OInv'
  BY NextPromised
<1>2. Init => OInv
  BY InitPromised
<1> QED BY <1>1, <1>2, DefectFreeIsHarmless, SpecSInv, SpecMInv, PTL DEF DefectFreeSpec

LEMMA DeletedGone == SInv /\ OInv => DeleteThenGone
<1> SUFFICES ASSUME SInv, OInv, pc = "idle", ret.op = "delete", Found(ret.key)
             PROVE  FALSE
  BY DEF DeleteThenGone
<1>1. ret.key \in Key /\ Absent(ret.key)
  BY DEF OInv
<1>2. FindSlot(ret.key) \in Holders(ret.key)
  BY <1>1, FoundIsLive DEF SInv
<1> QED BY <1>1, <1>2 DEF Absent, Holders, LivePages, KeyAt

(* A run without any of the three steps is one of these.                   *)
LEMMA DefectFreeRuns == Spec /\ StaysDefectFree => DefectFreeSpec
<1>1. [Next]_vars /\ [DefectFree]_vars => [Next /\ DefectFree]_vars
  OBVIOUS
<1> QED BY <1>1, PTL DEF Spec, StaysDefectFree, DefectFreeSpec

(* The cache keeps the promise of LruCache, step by step: what it stores,  *)
(* what it answers, whom it evicts, and that it does so only for room.     *)
THEOREM CacheKeepsPromise ==
  DefectFreeSpec => Promise!Init /\ [][Promise!Next]_(Promise!vars)
<1>1. SInv /\ MInv /\ OInv /\ [Next /\ DefectFree]_vars => [Promise!Next]_(Promise!vars)
  BY NextPromised
<1>2. Init => Promise!Init
  BY InitPromised
<1> QED BY <1>1, <1>2, SpecOInv, DefectFreeIsHarmless, SpecSInv, SpecMInv, PTL
        DEF DefectFreeSpec

(* A key that was deleted is not found.                                    *)
THEOREM CacheDeleteThenGone == DefectFreeSpec => []DeleteThenGone
BY DeletedGone, SpecOInv, DefectFreeIsHarmless, SpecSInv, PTL

=============================================================================
