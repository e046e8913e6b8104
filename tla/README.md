# A TLA+ model of the key-value cache

The repository is a key-value cache with a C interface (`cache.h`), implemented
twice: as a library (`cache.cc`, with `book.h` and `eviction.cc`) and as a client
(`client.cc`) of a server (`server.cc`) that keeps one such cache. This directory
models both, checks them with TLC and proves part of it with TLAPS.

## 1. Inventory

| component | state | operations | modelled by |
|---|---|---|---|
| cache (`cache.cc`) | `cache_obj`: byte and entry counts, arena with hash table and pages | `create_cache`, `cache_set`, `cache_get`, `cache_delete`, `cache_space_used`, `destroy_cache` | `Cache`, `CacheProperties`, `LruCache`, `Sizes` |
| hashing and probing (`cache.cc`) | none | `get_hash`, `get_step_size`, load limit, probe loop | `IndexType`, `Hashing`, `ProbeWalk` |
| book (`book.h`) | end, first unused page, links in the pages | `create_book`, `alloc_book_page`, `free_book_page`, `read_book` | `Book`, `BookAllocator` |
| evictor (`eviction.cc`) | list heads or a random array; a node in each page | add, remove, touch, get an item to evict; seven policies | `EvictionList`, `Evictor` |
| server (`server.cc`) | one `cache_obj` of the library, `is_unset`, two sockets | GET, PUT, DELETE, HEAD, POST; one thread | `Server`, `Wire`, `Sockets` |
| client (`client.cc`) | port and address | the functions of `cache.h`, one connection each | `Client`, `Wire`, `Sockets` |
| the two together | | | `Service`, `SharedCache` |
| `tests.cc`, `performance_eval.cc`, build files, `Questions` | none that outlives a call | drive the interface, measure | no |

How they interact. The cache calls the book and the evictor by function calls, in
one thread. They share memory more tightly than the calls show: a page holds the
entry, the evictor's node of the entry, and, overlaying the entry's first word
`cur_i`, the book's free-list link `next`. The hash table leads to pages
(`bookmarks`) and pages lead back (`cur_i`); eviction goes from the list to a page
to its slot. The server calls the cache for one request at a time; clients meet
only at the server's socket.

What is hard here. Nothing runs concurrently inside the library, so the hazards are
long sequences of legal calls: tombstones and re-insertion, eviction in the middle
of a set, growth of the table, pages that are freed and reused while links to them
remain, unsigned counters, and loops that end only if the bookkeeping is exact. In
the server and the client they are ordering and delivery: one thread, blocking
reads, short reads, requests and replies split over segments. `PROJECT.json`
lists them one by one.

What makes each component correct:
 * cache: what was set is found until it is deleted, overwritten or, for want of
   room only, evicted in the order of last use; the table, the pages, the list and
   the counts agree; calls return; everything is freed in the end.
 * probing: a walk visits each slot once before it gives up, and never has to.
 * book: a page handed out is in the array and in nobody's hands.
 * evictor: the items it can evict are the ones in use, in the policy's order.
 * server: every connection is served once and answered once, a memory limit is
   changed only while the cache has never held an entry, nobody's traffic keeps
   another client waiting for ever.
 * client: a call over the server answers like the same call on one cache that all
   clients share, and returns.

## 2. The modules

`IndexType` is `index_type`, 32 bits wide in the code, with width `2 * HIGH_BIT`
here: arithmetic wraps. `JUNK` is what a word of a fresh `new byte[]` block holds;
the model never computes with it, except where the code would copy it.

`Hashing` has the marks, the hash and step functions and the load limit.
`ProbeSlot(h, c, n)` is the slot of iteration `c` in closed form. `ProbeWalk` runs
the loop as written, by repeated wrapping addition, and shows that it visits those
slots.

`Book` and `EvictionList` are the operations of `book.h` and of the circular list,
as functions on records. `BookAllocator` is a book in the hands of a caller that returns
only pages it holds and never asks for more than there are; `Cache` is shown to be one.

`Cache` is `cache.cc` with policy LRU. The variables are the fields of `cache_obj`
with the arrays of its arena; `pc` tells where in a call the thread is. Lookups
change nothing and are operators: `FindStops(k)` are the iterations in which
`find_entry` would stop, `SetStops(k)` those of the loop in `cache_set`, which also
stops at deleted slots. Calls that do bounded work are one action. The loops that
change state are not: each round of `update_mem_size` is an `Evict`, each round of
the rehashing loop a `RehashSkip` or a `RehashEntry`.

| code | action |
|---|---|
| `cache_set`, value too large | `SetTooLarge` |
| `cache_set`, key met: up to `update_mem_size` / after it | `SetExisting` / `FinishUpdate` |
| `cache_set`, key not met: up to `update_mem_size` / after it | `SetNew` / `FinishInsert` |
| `update_mem_size`, one round, with `get_evict_item` and `remove_entry` | `Evict` |
| `grow_cache_size` | `GrowArena`, `RehashSkip`, `RehashEntry`, `RehashDone` |
| `cache_get`, `cache_delete` | `GetHit`, `GetMiss`, `DeleteHit`, `DeleteMiss` |
| `cache_space_used`, `destroy_cache` | `SpaceUsed`, `Destroy` |
| an access through a junk, null or out-of-range index | `Undefined` |

What was never written is `JUNK` and a table word that is read while it is junk may
be any page number (`RehashEntry`) or fault (`Undefined`).

`LruCache` is the abstract specification, the map that `cache.cc` means to be: of bounded
size, with the order of last use. A set begins, evicts other keys one at a time while the
value does not fit, and ends. That a set never evicts its own key is a part of it that the
code breaks (finding 2). It differs from `cache.h` in two answers, where it follows the
code: the space used counts keys, and a set that overwrites answers 1. What the header says
there is `AnswersAsDocumented`, which fails (finding 6).

`CacheProperties` holds the properties of `Cache` and two refinement mappings: to
`LruCache` (the list walked from the head is the order) and to `BookAllocator` (the pages
of live slots are the pages held), whose invariants are thereby properties of the cache
(`BookFreeListExact`, `BookPagesAreSafe`). It also names the two steps after which
`cache.cc` is known to be broken, `GrowArena` and an `Evict` of the entry being replaced
(`OwnEviction`); a step that is neither is `Harmless`, and `HarmlessSpec` are the runs of
`Cache` made of such steps. `Duplicate` is the third step that makes it another map, though
it does not harm the data structures: a set claims a deleted slot for a key that has an
entry further on. `DefectFreeSpec` are the runs without any of the three.

`Evictor` is `eviction.cc` under each of its seven policies, driven by the calls the
cache makes. An eviction is one action, as the cache makes it: `get_evict_item`,
then `remove_evict_item` on the same item. `Fault` ends a behaviour in which a list
is empty that must not be, or a page is evicted that holds no entry.

`Wire` holds the messages: what `makeHttpRequest` builds of a call (the value printed
as a string, `Printed`, and how the end of the request shifts, and the buffer overruns,
when it is one character too long, `Ending` and `Overruns`), what the dispatch of the server takes a request for (`Parse`), and
what a client makes of a reply (`AnswerTo`). A request is its verb, its resource and the
characters after them, so that a request cut off anywhere in its key or value is a
request too; a key that ends the message lets the value be whatever the server's buffer
held (`PutValues`). `Sockets` is one connection per client, with the backlog of the
listening socket and, if `ShortReads`, reads that return a part of a message.

`Server` is the loop of `main`. It serves a request from the library it is linked with: its
variables contain those of `Cache`, and its actions call the actions of `Cache` through the
instance `Lib`, created with the limit in force. All defects of `cache.cc` are therefore
behind the server too. A step of the library that is undefined behaviour is not taken; the
thread then stays where it is.

| code (`server.cc`) | action |
|---|---|
| poll, TCP socket ready, `accept` | `Accept` |
| poll, only the UDP socket ready; the failing `accept`, `read`, `send` | `PollUdp`, `ServeUdp` |
| GET of a key, of the memory in use | `ServeGet`, `ServeSpace` |
| PUT: refused / begun / a further step of `cache_set`, the reply after the last | `RefusePut`, `BeginPut`, `ContinuePut` |
| DELETE | `ServeDelete` |
| POST `/memsize/` (`destroy_cache`, `create_cache`) | `ServeMemsize`, with `Recreate` |
| POST `/shutdown` | `Shutdown` |
| HEAD, a request that is bad or too long | `ServeOther` |

`Client` is `client.cc`: `Connect`, `Send` and `Receive` are the three parts every call
has; a call to `destroy_cache` ends with `Send`. `ConnectRefused` and `Reset` are the
assertions that end a client's program when the server is gone, `Crash` is what writing a
byte past the request's buffer may come to (it may also come to nothing). `Service` composes
server and clients, adds the datagrams, and holds the properties. `SharedCache` is the
abstract specification: one cache on which every call takes effect at one moment between
its begin and its return (it is linearizable), which forgets a value only for want of
room, and whose callers fail only after somebody destroyed it, or in a call that overruns
its own buffer. Its `Forget` is what `cache.h` allows a set to do; `cache_set` does more
(finding 2), and where it does the service is not this cache.

Definitions marked "(a variant: ...)" stand in front of the definition they vary and
are used by no specification: they are plausible mistakes, kept so that it can be
shown that the properties notice them.

## 3. What the runs check

| run | configuration | shows |
|---|---|---|
| `probe_walk` | `ProbeWalk.cfg` | closed form of the probe walk, no slot twice, for every hash |
| `spread` | `CacheSpread.cfg` | `Cache` implements `LruCache`; no order of calls leads to one of the three steps that break it |
| `collide` | `CacheCollide.cfg` | agreement of table, pages, free list, LRU list and counts; a set is found; nothing leaks; calls return; `Cache` obeys `BookAllocator`; no order of calls grows the table or makes a set evict its own entry |
| `grow` | `CacheGrow.cfg` | types, own values and short lookups through two growths, up to undefined behaviour |
| `evictor` | `Evictor.cfg` | exact lists under FIFO, LIFO, LRU; order of FIFO and LRU; RR evicts only items in use |
| `service` | `Service.cfg` | clients and server, over `Cache`, implement `SharedCache`; connections exact; calls return; the server ends after `destroy_cache`; a change of the limit loses nothing |
| `delete_after_reinsert` | `CacheReinsert.cfg` | violated: after a delete the key is gone |
| `replace_by_larger` | `CacheResize.cfg` | violated: what a set stored is found |
| `rehash_loses` | `CacheRehash.cfg` | violated: what a set stored is found |
| `short_read` | `ServiceShortReads.cfg` | violated: what is stored under a key was set under it (a part of it is) |
| `blob_sent_longer` | `ServiceBlob.cfg` | violated: what is stored under a key was set under it (more is) |
| `header_answers` | `CacheHeader.cfg` | violated: the calls answer what `cache.h` says |

Bounds, and why they are enough.
 * `HIGH_BIT` 16 gives a 5-bit Index, `HASH_MULTIPLIER` 25 is the low five bits of
   2654435769. The step is computed from the hash, which has its high bit set, and
   tables have at most 16 slots, so four bits of the step matter.
 * Three keys: in `collide` two have the same hash and the third starts where their
   second probe goes, so there are sequences through live, deleted and empty slots,
   chains over a tombstone, duplicates of a key and both orders of eviction. In
   `spread` each key starts at a slot of its own.
 * Sizes are a few bytes. In `spread` one set has to evict two entries and one value
   never fits; in `collide` any two entries fit and three do not; in `grow` the
   entries of `k3` and `k4` fit together, those of `k1` and `k2` only by themselves.
 * `INIT_ENTRY_CAPACITY` is 2 or 4 instead of 64, and `MAX_ENTRY_CAPACITY` is where growth
   ends: at twice the initial capacity (`spread`, `collide`, `rehash_loses`), so that the
   table may grow once, or at four times (`grow`). In `spread` and `collide` it never grows
   although it may, and although tombstones count towards the load: `StaysDefectFree` and
   `StaysHarmless` hold there, so all these runs show is about whole behaviours and not about
   what comes before a bound. Two growths matter: the first one reads bookmarks
   only at slots of the old table that were written, the second one reads junk, so
   `grow` also covers what undefined behaviour does.
 * `grow` has four keys that between them reach every slot of the first table, the
   smallest number for which tombstones could fill it. They have one value each, so no
   entry there pushes itself out; that case is `replace_by_larger`, and the proofs of
   section 5 include it.
 * The evictor has three pages, so that an item is head, last and neither.
 * `service` has two clients, so that one waits in the backlog while the other is served.
   Between them they set two values of one key and one of another, get, delete, read the
   memory in use, ask for another limit, set a value that is too long for a message (and
   overruns its buffer while it is printed), and shut the server down. The keys, one a
   prefix of the other, have home slots of their own and do not both fit under either
   limit; under the smaller one the second never fits. The workload stays clear of the
   defects of `cache.cc`, or `ServesAsOneCache` would fail: the values of a key that are
   stored have one size (finding 2), the keys do not collide (1), and what is stored is
   terminated in its caller's memory (5). At most one entry and one tombstone are in the
   table at a time, so it never grows there, although it may (3). Each of these findings
   has its own run. `MAX_MESSAGE_SIZE` is 19, one
   more than the longest request that must pass. Messages are whole in this run, as a
   send of less than 1024 bytes delivers them as a rule; `short_read` lets
   them come in pieces.
 * The backlog of 3 that `listen` asks for is never reached with two clients; the
   kernel, not the server, deals with what is beyond it.

`CHECK_DEADLOCK FALSE` where the program really stops: after `destroy_cache`, after a shutdown, after
undefined behaviour, at the growth bound, and when a probe walk has ended. The
rehashing loop has no other end than an empty slot; should there be none, the model
stops where the code would spin.

Fairness. `Cache` assumes `WF_vars(Continue)`: a thread that is inside `cache_set`
goes on. Nothing is assumed about anybody making a call. `CallsReturn` says that the
eviction loop then ends; it rests on `mem_total` being exact, which is why one lost
byte per eviction breaks it. `LruCache` makes the same assumption of a set that has
begun, and `KeepsPromise` includes it. `Service` assumes that the server's thread goes
on while it has something to do, and that a client that has connected goes on to send
and to read, as every function of `client.cc` does without a condition in between. It
assumes nothing of the order in which the thread finds its sockets ready beyond what
the code tests: datagrams, of which the first one is never consumed and makes the loop
spin, may come at any time. That the server tests its TCP socket first is what
`EveryCallReturns` rests on. A foreign client that connects and stays silent stops the
server for everybody; the fairness of `Proceed` excludes it, because the code has no
answer to it.

When the cache is the map it means to be. `KeepsPromise` holds for `spread` and not in
general. It needs that keys do not meet each other's tombstones (`delete_after_reinsert`
shows what happens otherwise), that a key's values have one size (`replace_by_larger`)
and that the table does not grow (`rehash_loses`). That these three are all it needs is
proved in section 5: the safety part holds of every run of every instance up to the first
of the three steps. `StaysDefectFree` says that no run of `spread` takes one, all three by
its keys and sizes: no bound excludes any of them. These are the first three defects
below; `collide` shows what is left standing with the first of them present, `grow` with
the third; the second is only met by the proofs of `TypeOK` and `OwnValues`.

## 4. Findings

 1. `cache_set` inserts at the first deleted slot of the walk without looking whether
    the key follows (cache.cc:352). The key then has two entries; a delete removes one
    and a get finds the other, older value. `tests.cc:110` expects a null pointer.
 2. `cache_set` on a present key evicts after it has found the entry (cache.cc:359) and
    may evict just that one. It returns 1, the key has no value, the copy of the value
    is not freed by `destroy_cache`, and `mem_total` stays too high for good; later
    evictions can run into an empty list, which is undefined behaviour.
 3. `grow_cache_size` places entries modulo the new entry capacity instead of the table
    capacity (cache.cc:257) and reads the bookmark at the new slot, because the inner
    `i` shadows the loop's (cache.cc:267). Entries are lost, or get another's page, or a
    word nobody wrote.
 4. The server takes one read for one request (server.cc:237). A PUT that arrives in two
    pieces is stored cut off and answered 201; if the piece ends with the key, the value
    is whatever the buffer held before (server.cc:303).
 5. The client prints a value with a precision of its size plus one (client.cc:32 and 47).
    A value that no zero byte follows is sent, and stored, with the character that follows
    it, although cache.h:3 says "Data is given as blobs (void *) of a given size"; and
    sprintf then writes its terminator one byte past the buffer sized at client.cc:34.
 6. `cache_space_used` counts keys (cache.cc:429): cache.h:42 says it does not, and
    tests.cc:145 expects it. `AnswersAsDocumented` also states cache.h:29, which reserves
    nonzero for errors, while `cache_set` returns 1 for an overwrite (cache.cc:366); the
    run stops at the first of the two.

Noted while modelling, without a run of their own: a `cache_get` that finds nothing
leaves `val_size` alone, in the library and in the client, which also reads it before
(cache.h:35, client.cc:176). A value is cut at its first zero byte (client.cc:47). A
datagram is never read and makes the poll loop spin (server.cc:230). In `eviction.cc` an
eviction under CLOCK that meets a reference bit removes the wrong node and empties the list
while entries are in use (eviction.cc:243-248), RR and SLRU count an evicted item as removed
twice, `prepend` and `set_first` link behind the old head, and SLRU demotes without clearing
the bit. None of these last ones can happen in a cache built from this `cache.cc`, whose
policy is the constant LRU; `Evictor` has them.

## 5. What is proved

The proofs hold for every value of the constants that satisfies the assumptions next
to their declarations: `HIGH_BIT` a power of two, at least 4; `JUNK` no integer; keys
of at least one byte, as their terminator is counted, and sizes whose sum is an Index;
a memory capacity no larger than the server accepts; an initial entry capacity that is
a power of two and whose table size is an Index (64 and 128 in the code). For the
cache's promise, that `NULL` is not a key with a value. For the
service, the same of the cache of every limit, that requests name known keys and values, and that
`NULL` is no client, value or request. The theorems of `BookAllocator_proofs` state their own assumption.

`Operators_proofs`: what the operators of `Hashing` and `EvictionList` do. A stored
hash is an Index and never a mark (`GetHashIsLive`); the step is odd (`StepIsOdd`),
which is the coprimality the comment of `get_step_size` asks for; and therefore a probe
sequence reaches every slot of a table whose capacity is a power of two
(`ProbesReachAll`). That an odd step is coprime with a power of two is proved by halving
the smallest counterexample (`OddFactor`), as induction is out of reach. Of the lists:
every operation keeps links inside any set of initialised nodes that is closed under
them, however damaged the list (the `...Closed` lemmas); and on an intact list, one
circle through exactly the items of a set, given as the sequence of its items from the
head on (`Order`), appending adds an item at the end (`AppendOrder`), removing takes it
out of its place (`RemoveOrder`), `SetLast` is removing and appending (`SetLastIsMove`),
and removing the head twice is removing it once (`RemoveHeadTwice`). Prepending keeps the
circle too (`PrependCircle`), but puts the item into the circle turned by one place: as
its set of items is all that is claimed there, the third item being out of order does not
matter.

`ProbeWalk_proofs`: both invariants of the probe loop, for every hash, capacity and
width. The loop's slot is the hash plus `count` steps modulo the capacity because the
capacity divides the width of Index, so wrapping first does no harm.

`BookAllocator_proofs`: the three invariants of the book for any number of pages, on the
assumption that the free list's end mark is none of them (`PageCountAssumption`). The
inductive invariant gives the free list as a sequence without duplicates, of exactly
the pages below `end` that are not held, whose links follow it; allocation takes its
head, release puts a page in front. Without the sequence nothing says that the next
first unused page is free.

`Cache_proofs`: `CacheTypeOK` and `CacheOwnValues`. The inductive invariant `IInv`
adds to the types that list links never leave the pages whose entry was initialised
(`ListClosed`), that every page holding a key holds a value of that key
(`PagesOwnValues`), and what a call in progress may rely on (`CallInv`): its page
still belongs to its key or to none, its arguments are typed, the old table is
there while it is rehashed. `ListClosed` is needed because eviction writes through
links of nodes that are in no list any more, `CallInv` because an update writes into
a page that its own eviction may have released. There is one lemma per action.
Notably the proof goes through with all three defects in the code: the cache may
lose values, but never hands out another key's.

`CacheProperties_proofs`: the other invariants of `CacheProperties` that hold, and that
`Cache` implements `BookAllocator`, whose invariants are thus the cache's
(`CacheBookFreeListExact`, `CacheBookPagesAreSafe`). They cannot hold of `Spec`: after a growth or after
an eviction of the entry being replaced (findings 2 and 3) table, pages, list and counts
no longer agree. The theorems are about `HarmlessSpec`, the runs in which neither of the
two steps occurs; every other step is there, the first defect, tombstones and duplicate
entries included. Since a run of `Spec` is one of `HarmlessSpec` up to the first such
step, what they say holds up to it. That the hypothesis is no way of excluding what
matters is shown by `collide`: `StaysHarmless` holds there of all runs, evictions and
re-insertions included, and `HarmlessRuns` then gives the theorems for `Spec`.
The inductive invariant is `SInv`, and `MInv` on top of it:
 * `Shape`: table and pages point at each other and the probe sequence of each stored
   hash reaches its slot before an empty one (`TableInv`), the invariant of
   `BookAllocator_proofs` holds of the book (`BookInv`), the list is a circle through the
   live pages (`ListInv`). `TableInv` is what makes `remove_entry(cache, entry->cur_i)`
   delete the right slot, and `BookInv` what makes a new page nobody's.
 * `ContentsInv`: entries in use are whole, the other pages own nothing.
 * `CountsInv`: the two counters, and that the tombstones a set may claim are counted
   against the load. From it follows that there is an empty slot, hence, by
   `ProbesReachAll`, one on every probe sequence.
 * `ClaimInv`, `FoundInv`: the slot a set in progress has chosen is still the first that
   a lookup of its key will meet, however many entries are evicted in between. This is
   the reason why `SetThenFound` holds in spite of duplicates: the newest entry of a
   key is in front.
 * `MInv`: `mem_total` is the sum of the sizes in the table plus what the set in progress
   adds. From it follows that no eviction is asked of an empty list, which together
   with `SInv` excludes every disjunct of `Undefined` (`NothingFaulty`).

On top of these, `CacheKeepsPromise`: the safety part of `KeepsPromise`, for
`DefectFreeSpec`; and `CacheDeleteThenGone`, which holds of the same runs only (finding
1). `StaysDefectFree` is checked on `spread`, and with `DefectFreeRuns` the theorems say
what `KeepsPromise` says there. The invariant is `OInv`: a key has one entry, a key that
is being inserted has none, a deleted key has none, and no call is pending between calls.
One lemma per action maps it to a step of `LruCache` or to a stutter:
 * The map of the promise (`StoredMap`) is a function of the pages in use and of their
   entries. Adding, removing and replacing a page are adding, removing and replacing a
   pair of it (`ViewAdded`, `ViewRemoved`, `ViewReplaced`), which needs that no key is on
   two pages.
 * The order of use (`UseOrder`) is the keys of the list's `Order`, so the lemmas about
   lists apply (`RemovalForgets`, `InsertionRemembers`, `UseRenews`); the head is the
   promise's victim (`VictimIsHead`).
 * `mem_total` during a set is what the promise compares with the capacity
   (`UsedIsTotal`, `NeededIsCounted`). An eviction in the code is thus one the promise
   asks for, and a set ends only when the promise lets it.

`LruCache_proofs`: `LruSafe`, three properties of the map that `CacheKeepsPromise` speaks
of, for any keys, sizes, capacities and callers; they hold of `cache.cc` where that theorem
does. `Used` is a fold over a set; what it does when one
element is added or removed is proved from the recursive function underneath it by a
least counterexample over cardinalities, since the library's induction rules cannot be
used (`FoldExists`, `FoldEqual`, `FoldRemove`, then the lemmas about `Sum`).

`Service_proofs`: `ServiceConnectionsExact` for any number of clients, any calls and
with short reads. The inductive invariant adds to the property the types of the
backlog and of the records (`Shape`, `ServerTypes`), and how far a call is that has a
message under way (`Progress`): a request is there only after its client has sent it, and
the server is inside `cache_set` only for a request it holds. `ServiceUnsetIsEmpty` is
about the library's cache as it is, defects included. Its invariant `UInv` says that while
`is_unset` is set the table holds no entry, except while a set that has inserted one makes
it grow: nothing but `FinishInsert` and a rehash puts an entry into the table, and both end
in a result of 0, which is the one that clears the flag.

`Evictor_proofs`: the four properties of `Evictor`, for any number of pages. The inductive
invariant `EInv` says of each policy what it can rely on. Under every policy with lists
the heads and links never leave the nodes that were once linked (`ClosedData`): this is
what `EvictorTypeOK` needs, and it has to be proved for lists that are no circles any
more, as MRU, CLOCK and SLRU damage theirs (section 4). Under FIFO, LIFO
and LRU the list is a circle through the pages in use (`Circle`), which gives
`EvictorCircleExact`, and under FIFO and LRU each call does to the sequence of that circle
what a queue of pages does (`AddOrder`, `RemoveInOrder`, `TouchInOrder`, `EvictInOrder`,
hence `EvictorEvictsOldest`). Under RR the array holds pages in use at the places they
note (`RandomExact`); that it never overflows follows by the pigeonhole principle, and
dropping an evicted item twice keeps it true whichever item is dropped the second time
(`DropKeeps`).

Only model-checked:
 * liveness (`CallsReturn`, `EveryCallReturns`, `DestroyEndsServer`, and the liveness part
   of `KeepsPromise` and `ServesAsOneCache`), which TLAPS cannot prove under fairness;
 * the safety part of the refinement to `SharedCache`, which needs the round trip of each
   call through `Wire`;
 * `StaysHarmless` and `StaysDefectFree`, which depend on the keys, on their sizes and on
   the sequence of calls: they are facts about an instance, not about the code;
 * what is left of table, pages and list after one of the two harmful steps, except
   `TypeOK` and `OwnValues`.
## 6. Not modelled

 * `default_key_hasher` is the constant `Hash`: no property depends on its values. In
   `Cache` keys and values are model values with sizes; copying and comparing bytes is `=`.
 * Freed memory is `NULL`: `delete[]` of a value is not told from setting the pointer.
   Two live copies of a pointer do not occur.
 * Exhausted memory (`new` throws).
 * `create_socket` keeps a pointer to its own local address (server.cc:105-107), which `accept`
   writes the peer's address to (server.cc:230): what that overwrites depends on the frames the
   compiler lays out, and `Accept` takes it to be nothing that is used.
 * Server: the options of `main` beyond the memory limit, failures of the socket calls
   and of `poll`, which end the program, and a request that follows `GET ` by another
   command, which is then served as that command (server.cc:294); no client sends one.
   Replies to datagrams do not exist: `accept` fails first. HEAD is asked for by no client of `service`;
   the instance of `short_read` has it.
 * Client: `val_size`, the buffers' sizes, keys that are empty or hold a slash or a
   newline. A client whose connection was reset may notice at its `send` or at its
   `read`; both end it, and the model has one `Reset`.
 * The 413 of a GET whose key and value would not fit a reply is in `ServeGet`; the comment
   at server.cc:263 is right that it cannot happen to what a whole PUT has stored, since
   the PUT was longer.
 * `tests.cc` and `performance_eval.cc` are drivers of the interface and keep no state.

## 7. Plan

The safety part of `ServesAsOneCache`, for which `IInv` of `Service_proofs` is the start;
it needs the round trip of `Wire` for each call as a lemma, `Parse(MakeHttpRequest(call))`.
