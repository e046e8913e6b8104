------------------------------ MODULE Evictor ------------------------------
(***************************************************************************)
(* The evictor of eviction.cc under each of its policies, as the cache     *)
(* drives it: an item is added when its entry is created, touched when the *)
(* entry is read or replaced, removed when it is deleted.  To evict, the   *)
(* cache asks for an item, which get_evict_item takes out, and then calls  *)
(* remove_entry on it, which removes it a second time.                     *)
(*                                                                         *)
(* An access outside the arrays, or a modulo by zero, ends the model.      *)
(***************************************************************************)
EXTENDS EvictionList, Sequences, FiniteSets

Seqs == INSTANCE SequencesExt

CONSTANTS
  PageCount, \* number of pages, and of words of the random policy's array
  Policies   \* the policies create_evictor may be called with

AllPolicies == {"FIFO", "LIFO", "LRU", "MRU", "CLOCK", "SLRU", "RR"}

ASSUME EvictorAssumption ==
  /\ PageCount \in 1 .. INVALID_NODE - 1
  /\ Policies \subseteq AllPolicies

VARIABLES
  policy,
  data,  \* the Evictor's data and the Evict_item of each page
  held,  \* the pages in use by entries of the cache
  call,  \* the last call of the cache, and the item it was about
  faulty \* the program did something undefined

vars == <<policy, data, held, call, faulty>>

Page == 0 .. PageCount - 1

\* The policies that keep one list.
ListPolicies == {"FIFO", "LIFO", "LRU", "MRU", "CLOCK"}

Init ==
  /\ policy \in Policies
  /\ data = [list |-> INVALID_NODE, protect |-> INVALID_NODE,
             prohibate |-> INVALID_NODE, pp_delta |-> 0, total_items |-> 0,
             next |-> [p \in Page |-> JUNK], pre |-> [p \in Page |-> JUNK],
             rf_bit |-> [p \in Page |-> FALSE],
             rand_i |-> [p \in Page |-> JUNK], rand_items |-> [j \in Page |-> JUNK]]
  /\ held = {}
  /\ call = [op |-> "create", item |-> INVALID_NODE]
  /\ faulty = FALSE

-----------------------------------------------------------------------------
(* The lists share the nodes of the pages; each has a head of its own.     *)

ListOf(d, head) == [head |-> d[head], next |-> d.next, pre |-> d.pre]

WithList(d, head, l) == [d EXCEPT ![head] = l.head, !.next = l.next, !.pre = l.pre]

AppendTo(d, head, item) == WithList(d, head, AppendItem(ListOf(d, head), item))

RemoveFrom(d, head, item) == WithList(d, head, RemoveItem(ListOf(d, head), item))

\* Keep pp_delta from falling below zero when prohibate loses an item.
CanDemote(d) == d.pp_delta # 0 \/ d.protect # INVALID_NODE

Demote(d) == AppendTo(RemoveFrom(d, "protect", d.protect), "prohibate", d.protect)

Rebalance(d) ==
  IF d.pp_delta = 0 THEN [Demote(d) EXCEPT !.pp_delta = Wrap(d.pp_delta + 1)]
                    ELSE [d EXCEPT !.pp_delta = Minus(d.pp_delta, 1)]

\* (a variant: the item that moves is not told its new place)
DropRandomSilently(d, rand_i0) ==
  LET rand_i1 == d.total_items - 1 IN
  [d EXCEPT !.total_items = rand_i1, !.rand_items[rand_i0] = d.rand_items[rand_i1]]

\* The last item of the array takes the place of the one that leaves.
DropRandom(d, rand_i0) ==
  LET rand_i1 == d.total_items - 1
      item_i1 == d.rand_items[rand_i1]
  IN [d EXCEPT !.total_items = rand_i1,
               !.rand_items[rand_i0] = item_i1,
               !.rand_i[item_i1] = rand_i0]

-----------------------------------------------------------------------------
AddEvictItem(d, i) ==
  CASE policy \in {"FIFO", "LRU"} -> AppendTo(d, "list", i)
    [] policy \in {"LIFO", "MRU"} ->
         WithList(d, "list", PrependItem(ListOf(d, "list"), i))
    [] policy = "CLOCK" -> AppendTo([d EXCEPT !.rf_bit[i] = FALSE], "list", i)
    [] policy = "SLRU" ->
         AppendTo([d EXCEPT !.rf_bit[i] = FALSE, !.pp_delta = Wrap(d.pp_delta + 1)],
                  "prohibate", i)
    [] policy = "RR" ->
         [d EXCEPT !.rand_i[i] = d.total_items, !.rand_items[d.total_items] = i,
                   !.total_items = d.total_items + 1]

CanRemove(d, i) ==
  CASE policy = "SLRU" -> d.rf_bit[i] \/ CanDemote(d)
    [] policy = "RR" -> d.total_items > 0
    [] OTHER -> TRUE

RemoveEvictItem(d, i) ==
  CASE policy \in ListPolicies -> RemoveFrom(d, "list", i)
    [] policy = "SLRU" /\ d.rf_bit[i] ->
         RemoveFrom([d EXCEPT !.pp_delta = Wrap(d.pp_delta + 1)], "protect", i)
    [] policy = "SLRU" /\ ~d.rf_bit[i] -> RemoveFrom(Rebalance(d), "prohibate", i)
    [] policy = "RR" -> DropRandom(d, d.rand_i[i])

\* set_last and set_first read the node of the head.
CanTouch(d, i) ==
  CASE policy \in {"LRU", "MRU", "CLOCK"} -> d.list # INVALID_NODE
    [] policy = "SLRU" -> ~d.rf_bit[i] \/ d.protect # INVALID_NODE
    [] OTHER -> TRUE

\* The item a touch moves to protect: the head of protect makes room for it
\* unless prohibate is longer by two.
Promote(d, i) ==
  LET promoted == AppendTo(RemoveFrom([d EXCEPT !.rf_bit[i] = TRUE], "prohibate", i),
                           "protect", i)
  IN IF d.pp_delta <= 1 THEN Demote(promoted)
                        ELSE [promoted EXCEPT !.pp_delta = Minus(d.pp_delta, 2)]

TouchEvictItem(d, i) ==
  CASE policy \in {"FIFO", "LIFO", "RR"} -> d
    [] policy = "LRU" -> WithList(d, "list", SetLast(ListOf(d, "list"), i))
    [] policy = "MRU" -> WithList(d, "list", SetFirst(ListOf(d, "list"), i))
    [] policy = "CLOCK" ->
         WithList([d EXCEPT !.rf_bit[i] = TRUE], "list", SetLast(ListOf(d, "list"), i))
    [] policy = "SLRU" /\ d.rf_bit[i] ->
         WithList(d, "protect", SetLast(ListOf(d, "protect"), i))
    [] policy = "SLRU" /\ ~d.rf_bit[i] -> Promote(d, i)

\* The loop of CLOCK tests and clears the bit of one node only, the head's,
\* and the next item is then removed by way of that node.
TurnClock(d) ==
  LET node   == d.list
      item_i == d.next[node]
  IN [item |-> item_i,
      data |-> WithList([d EXCEPT !.rf_bit[node] = FALSE], "list",
                        RemoveNode([ListOf(d, "list") EXCEPT !.head = item_i],
                                   item_i, node))]

CanGetEvictItem(d) ==
  CASE policy \in ListPolicies -> d.list # INVALID_NODE
    [] policy = "SLRU" -> d.prohibate # INVALID_NODE /\ CanDemote(d)
    [] policy = "RR" -> d.total_items > 0

\* What get_evict_item may return, with the data it leaves.
GetEvictItem(d) ==
  CASE policy = "CLOCK" /\ d.rf_bit[d.list] -> {TurnClock(d)}
    [] policy \in ListPolicies /\ ~(policy = "CLOCK" /\ d.rf_bit[d.list]) ->
         {[item |-> d.list, data |-> RemoveFrom(d, "list", d.list)]}
    [] policy = "SLRU" ->
         {[item |-> d.prohibate,
           data |-> RemoveFrom(Rebalance(d), "prohibate", d.prohibate)]}
    [] policy = "RR" ->
         {[item |-> d.rand_items[r], data |-> DropRandom(d, r)] :
            r \in 0 .. d.total_items - 1}

-----------------------------------------------------------------------------
Called(op, i) == call' = [op |-> op, item |-> i]

Add(i) ==
  /\ i \notin held
  /\ data' = AddEvictItem(data, i)
  /\ held' = held \cup {i}
  /\ Called("add", i)
  /\ UNCHANGED <<policy, faulty>>

Touch(i) ==
  /\ i \in held
  /\ CanTouch(data, i)
  /\ data' = TouchEvictItem(data, i)
  /\ Called("touch", i)
  /\ UNCHANGED <<policy, held, faulty>>

Remove(i) ==
  /\ i \in held
  /\ CanRemove(data, i)
  /\ data' = RemoveEvictItem(data, i)
  /\ held' = held \ {i}
  /\ Called("remove", i)
  /\ UNCHANGED <<policy, faulty>>

\* update_mem_size evicts only while there is an entry to give up.
Evict ==
  /\ held # {}
  /\ CanGetEvictItem(data)
  /\ \E v \in GetEvictItem(data) :
       /\ v.item \in held
       /\ CanRemove(v.data, v.item)
       /\ data' = RemoveEvictItem(v.data, v.item)
       /\ held' = held \ {v.item}
       /\ Called("evict", v.item)
  /\ UNCHANGED <<policy, faulty>>

\* Memory outside the arrays is read, or a page that holds no entry evicted.
Fault ==
  /\ \/ \E i \in held : ~CanTouch(data, i) \/ ~CanRemove(data, i)
     \/ held # {} /\ ~CanGetEvictItem(data)
     \/ /\ held # {} /\ CanGetEvictItem(data)
        /\ \E v \in GetEvictItem(data) : v.item \notin held \/ ~CanRemove(v.data, v.item)
  /\ faulty' = TRUE
  /\ UNCHANGED <<policy, data, held, call>>

Next ==
  /\ ~faulty
  /\ \/ \E i \in Page : Add(i) \/ Touch(i) \/ Remove(i)
     \/ Evict
     \/ Fault

Spec == Init /\ [][Next]_vars

-----------------------------------------------------------------------------
Heads == {"list", "protect", "prohibate"}

(* Every link of a page in use leads to a page, under every policy: what   *)
(* goes wrong in the lists never makes them run into unwritten memory.     *)
TypeOK ==
  /\ \A h \in Heads : data[h] \in Page \cup {INVALID_NODE}
  /\ \A p \in held : policy # "RR" => data.next[p] \in Page /\ data.pre[p] \in Page
  /\ data.pp_delta \in Index /\ data.total_items \in 0 .. PageCount
  /\ held \subseteq Page

\* The items met from the head of the list, one per page in use.
CircleOrder ==
  LET n == Cardinality(held)
      walk[j \in 1 .. n] == IF j = 1 THEN data.list ELSE data.next[walk[j - 1]]
  IN [j \in 1 .. n |-> walk[j]]

(* Under the policies whose touch does not move items to the front, the    *)
(* list is one circle through exactly the pages in use, linked the same    *)
(* way in both directions, though evicted items are removed twice.         *)
CircleExact ==
  policy \in {"FIFO", "LIFO", "LRU"} =>
    /\ ~faulty
    /\ (data.list = INVALID_NODE) = (held = {})
    /\ {CircleOrder[j] : j \in DOMAIN CircleOrder} = held
    /\ \A p \in held : data.pre[data.next[p]] = p

\* The order of eviction after a call, from the order before.
OrderAfter(order, c) ==
  LET others == Seqs!RemoveFirst(order, c.item) IN
  CASE c.op = "add" -> Append(order, c.item)
    [] c.op = "touch" /\ policy = "LRU" -> Append(others, c.item)
    [] c.op = "touch" /\ policy = "FIFO" -> order
    [] c.op = "remove" -> others
    [] c.op = "evict" -> Tail(order)

(* FIFO evicts the item added longest ago and LRU the one used longest     *)
(* ago: the circle is at all times in that order, from the head on.        *)
EvictsOldest ==
  [][(policy \in {"FIFO", "LRU"}) =>
       /\ CircleOrder' = OrderAfter(CircleOrder, call')
       /\ call'.op = "evict" => call'.item = Head(CircleOrder)]_vars

(* Under RR the array holds pages in use only, each once and with its own  *)
(* place noted.  Removing an evicted item twice drops others from the      *)
(* array, but it never puts a page there that holds no entry.              *)
RandomItemsHeld ==
  policy = "RR" =>
    \A j \in 0 .. data.total_items - 1 :
      data.rand_items[j] \in held /\ data.rand_i[data.rand_items[j]] = j

=============================================================================
