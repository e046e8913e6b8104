--------------------------- MODULE Evictor_proofs ---------------------------
(***************************************************************************)
(* Proofs about the evictor, for any number of pages: its types under      *)
(* every policy, the exactness of its lists under FIFO, LIFO and LRU, the  *)
(* order of eviction under FIFO and LRU, and the array of RR.              *)
(***************************************************************************)
EXTENDS Evictor, Operators_proofs

Link == Page \cup {JUNK}

DataType ==
  [list : Page \cup {INVALID_NODE}, protect : Page \cup {INVALID_NODE},
   prohibate : Page \cup {INVALID_NODE},
   pp_delta : Index, total_items : 0 .. PageCount,
   next : [Page -> Link], pre : [Page -> Link], rf_bit : [Page -> BOOLEAN],
   rand_i : [Page -> Link], rand_items : [Page -> Link]]

(* The links and the heads of the lists never lead out of nodes.           *)
ClosedData(d, nodes) ==
  /\ d \in DataType
  /\ \A h \in Heads : ClosedList(ListOf(d, h), Page, nodes)

LEMMA PagesAreNodes ==
  /\ INVALID_NODE \notin Page /\ INVALID_NODE \in Nat /\ 0 \in Index
  /\ PageCount \in Nat /\ Page \subseteq Nat
BY EvictorAssumption, IndexAssumption DEF Page, INVALID_NODE, INDEX_RANGE, Index

LEMMA WithListClosed ==
  ASSUME NEW d, NEW nodes, ClosedData(d, nodes), NEW h \in Heads,
         NEW l, NEW more, nodes \subseteq more, ClosedList(l, Page, more)
  PROVE  ClosedData(WithList(d, h, l), more)
<1>1. /\ l.head \in Page \cup {INVALID_NODE} /\ l.head \in more \cup {INVALID_NODE}
      /\ l.next \in [Page -> Link] /\ l.pre \in [Page -> Link]
      /\ \A p \in more : l.next[p] \in more /\ l.pre[p] \in more
      /\ more \subseteq Page
  BY DEF ClosedList, Link
<1>2. \A g \in Heads : d[g] \in nodes \cup {INVALID_NODE}
  BY DEF ClosedData, ClosedList, ListOf
<1>3. WithList(d, h, l) \in DataType
  BY <1>1 DEF WithList, ClosedData, DataType, Heads
<1>4. ASSUME NEW g \in Heads
      PROVE  /\ WithList(d, h, l)[g] \in more \cup {INVALID_NODE}
             /\ WithList(d, h, l).next = l.next /\ WithList(d, h, l).pre = l.pre
  BY <1>1, <1>2 DEF WithList, Heads, ClosedData, DataType
<1> SUFFICES ASSUME NEW g \in Heads
             PROVE  ClosedList(ListOf(WithList(d, h, l), g), Page, more)
  BY <1>3 DEF ClosedData
<1>5. ListOf(WithList(d, h, l), g) =
        [head |-> WithList(d, h, l)[g], next |-> l.next, pre |-> l.pre]
  BY <1>4 DEF ListOf
<1>6. more \in SUBSET Page
  BY <1>1
<1>7. ClosedList([head |-> WithList(d, h, l)[g], next |-> l.next, pre |-> l.pre], Page, more)
  <2> DEFINE head == WithList(d, h, l)[g]
  <2>1. head \in more \cup {INVALID_NODE}
    BY <1>4
  <2> HIDE DEF head
  <2>2. l.next \in [Page -> Page \cup {JUNK}] /\ l.pre \in [Page -> Page \cup {JUNK}]
    BY <1>1 DEF Link
  <2>3. ClosedList([head |-> head, next |-> l.next, pre |-> l.pre], Page, more)
    BY <1>1, <1>6, <2>1, <2>2, Relinked
  <2> QED BY <2>3 DEF head
<1> QED BY <1>5, <1>7

LEMMA AppendToClosed ==
  ASSUME NEW d, NEW nodes, ClosedData(d, nodes), NEW h \in Heads, NEW i \in Page
  PROVE  ClosedData(AppendTo(d, h, i), nodes \cup {i})
<1>1. ClosedList(AppendItem(ListOf(d, h), i), Page, nodes \cup {i})
  BY AppendItemClosed DEF ClosedData
<1> QED BY <1>1, WithListClosed DEF AppendTo

LEMMA RemoveFromClosed ==
  ASSUME NEW d, NEW nodes, ClosedData(d, nodes), NEW h \in Heads, NEW i \in nodes
  PROVE  ClosedData(RemoveFrom(d, h, i), nodes)
<1>1. ClosedList(RemoveItem(ListOf(d, h), i), Page, nodes)
  BY RemoveItemClosed DEF ClosedData
<1> QED BY <1>1, WithListClosed DEF RemoveFrom

(* The reference bits and the counters are no part of the lists.           *)
LEMMA SameListsClosed ==
  ASSUME NEW d, NEW nodes, ClosedData(d, nodes), NEW e \in DataType,
         \A h \in Heads : e[h] = d[h], e.next = d.next, e.pre = d.pre
  PROVE  ClosedData(e, nodes)
BY DEF ClosedData, ListOf

LEMMA BitClosed ==
  ASSUME NEW d, NEW nodes, ClosedData(d, nodes), NEW i \in Page, NEW b \in BOOLEAN
  PROVE  ClosedData([d EXCEPT !.rf_bit[i] = b], nodes)
<1> DEFINE e == [d EXCEPT !.rf_bit[i] = b]
<1>1. e \in DataType /\ \A h \in Heads : e[h] = d[h] /\ e.next = d.next /\ e.pre = d.pre
  BY DEF ClosedData, DataType, Heads
<1> QED BY <1>1, SameListsClosed DEF Heads

LEMMA DeltaClosed ==
  ASSUME NEW d, NEW nodes, ClosedData(d, nodes), NEW delta \in Index
  PROVE  ClosedData([d EXCEPT !.pp_delta = delta], nodes)
<1> DEFINE e == [d EXCEPT !.pp_delta = delta]
<1>1. e \in DataType /\ \A h \in Heads : e[h] = d[h] /\ e.next = d.next /\ e.pre = d.pre
  BY DEF ClosedData, DataType, Heads
<1> QED BY <1>1, SameListsClosed DEF Heads

LEMMA HeadClosed ==
  ASSUME NEW d, NEW nodes, ClosedData(d, nodes), NEW h \in Heads, d[h] # INVALID_NODE
  PROVE  d[h] \in nodes /\ nodes \subseteq Page
BY DEF ClosedData, ClosedList, ListOf

-----------------------------------------------------------------------------
(* Every function of the evictor that changes the lists keeps them closed. *)

LEMMA DemoteClosed ==
  ASSUME NEW d, NEW nodes, ClosedData(d, nodes), d.protect # INVALID_NODE
  PROVE  ClosedData(Demote(d), nodes)
<1> DEFINE i == d.protect
           e == RemoveFrom(d, "protect", i)
<1>1. i \in nodes /\ nodes \subseteq Page
  BY HeadClosed, "protect" \in Heads DEF Heads
<1>2. ClosedData(e, nodes)
  BY <1>1, RemoveFromClosed DEF Heads
<1> HIDE DEF e, i
<1>3. ClosedData(AppendTo(e, "prohibate", i), nodes \cup {i})
  BY <1>1, <1>2, AppendToClosed DEF Heads
<1>4. nodes \cup {i} = nodes
  BY <1>1
<1> QED BY <1>3, <1>4 DEF Demote, e, i

LEMMA RebalanceClosed ==
  ASSUME NEW d, NEW nodes, ClosedData(d, nodes), CanDemote(d)
  PROVE  ClosedData(Rebalance(d), nodes)
<1>1. d.pp_delta \in Index
  BY DEF ClosedData, DataType
<1>2. CASE d.pp_delta = 0
  <2>1. ClosedData(Demote(d), nodes)
    BY <1>2, DemoteClosed DEF CanDemote
  <2>2. Wrap(d.pp_delta + 1) \in Index
    BY <1>1, WrapType DEF Index
  <2> QED BY <1>2, <2>1, <2>2, DeltaClosed DEF Rebalance
<1>3. CASE d.pp_delta # 0
  <2>1. Minus(d.pp_delta, 1) \in Index
    <3>1. d.pp_delta \in Int
      BY <1>1 DEF Index
    <3> QED BY <3>1, MinusType, 1 \in Int
  <2> QED BY <1>3, <2>1, DeltaClosed DEF Rebalance
<1> QED BY <1>2, <1>3

LEMMA AddClosed ==
  ASSUME NEW d, NEW nodes, ClosedData(d, nodes), policy \in AllPolicies \ {"RR"},
         NEW i \in Page
  PROVE  ClosedData(AddEvictItem(d, i), nodes \cup {i})
<1> DEFINE cleared == [d EXCEPT !.rf_bit[i] = FALSE]
           longer  == [cleared EXCEPT !.pp_delta = Wrap(d.pp_delta + 1)]
<1>1. ClosedData(cleared, nodes)
  BY BitClosed
<1>2. ClosedData(longer, nodes)
  <2>1. Wrap(d.pp_delta + 1) \in Index
    BY WrapType DEF Index, ClosedData, DataType
  <2> HIDE DEF cleared
  <2> QED BY <1>1, <2>1, DeltaClosed
<1>3. [d EXCEPT !.rf_bit[i] = FALSE, !.pp_delta = Wrap(d.pp_delta + 1)] = longer
  BY DEF ClosedData, DataType
<1>4. CASE policy \in {"FIFO", "LRU"}
  BY <1>4, AppendToClosed DEF AddEvictItem, Heads
<1>5. CASE policy \in {"LIFO", "MRU"}
  <2>1. ClosedList(PrependItem(ListOf(d, "list"), i), Page, nodes \cup {i})
    BY PrependItemClosed DEF ClosedData, Heads
  <2> QED BY <1>5, <2>1, WithListClosed DEF AddEvictItem, Heads
<1> HIDE DEF cleared, longer
<1>6. CASE policy = "CLOCK"
  BY <1>1, <1>6, AppendToClosed DEF AddEvictItem, Heads, cleared
<1>7. CASE policy = "SLRU"
  BY <1>2, <1>3, <1>7, AppendToClosed DEF AddEvictItem, Heads
<1> QED BY <1>4, <1>5, <1>6, <1>7 DEF AllPolicies

LEMMA RemoveClosed ==
  ASSUME NEW d, NEW nodes, ClosedData(d, nodes), policy \in AllPolicies \ {"RR"},
         NEW i \in nodes, CanRemove(d, i)
  PROVE  ClosedData(RemoveEvictItem(d, i), nodes)
<1>1. CASE policy \in ListPolicies
  <2>1. RemoveEvictItem(d, i) = RemoveFrom(d, "list", i)
    BY <1>1 DEF RemoveEvictItem, ListPolicies
  <2> QED BY <2>1, RemoveFromClosed DEF Heads
<1>2. CASE policy = "SLRU" /\ d.rf_bit[i]
  <2>1. Wrap(d.pp_delta + 1) \in Index
    BY WrapType DEF Index, ClosedData, DataType
  <2>2. ClosedData([d EXCEPT !.pp_delta = Wrap(d.pp_delta + 1)], nodes)
    BY <2>1, DeltaClosed
  <2> QED BY <1>2, <2>2, RemoveFromClosed DEF RemoveEvictItem, Heads, ListPolicies
<1>3. CASE policy = "SLRU" /\ ~d.rf_bit[i]
  <2>1. ClosedData(Rebalance(d), nodes)
    BY <1>3, RebalanceClosed DEF CanRemove
  <2> QED BY <1>3, <2>1, RemoveFromClosed DEF RemoveEvictItem, Heads, ListPolicies
<1> QED BY <1>1, <1>2, <1>3 DEF AllPolicies, ListPolicies

LEMMA PromoteClosed ==
  ASSUME NEW d, NEW nodes, ClosedData(d, nodes), NEW i \in nodes
  PROVE  ClosedData(Promote(d, i), nodes)
<1> DEFINE marked   == [d EXCEPT !.rf_bit[i] = TRUE]
           removed  == RemoveFrom(marked, "prohibate", i)
           promoted == AppendTo(removed, "protect", i)
<1>1. i \in Page /\ nodes \cup {i} = nodes
  BY DEF ClosedData, ClosedList, Heads
<1>2. ClosedData(marked, nodes)
  BY <1>1, BitClosed
<1> HIDE DEF marked
<1>3. ClosedData(removed, nodes)
  BY <1>2, RemoveFromClosed DEF Heads
<1> HIDE DEF removed
<1>4. ClosedData(promoted, nodes)
  <2>1. ClosedData(promoted, nodes \cup {i})
    BY <1>1, <1>3, AppendToClosed DEF Heads
  <2> QED BY <1>1, <2>1
<1>5. promoted.protect # INVALID_NODE
  <2>1. removed \in DataType
    BY <1>3 DEF ClosedData
  <2>2. AppendItem(ListOf(removed, "protect"), i).head # INVALID_NODE
    BY <1>1, PagesAreNodes DEF AppendItem, ListOf
  <2>3. promoted.protect = AppendItem(ListOf(removed, "protect"), i).head
    BY <2>1 DEF AppendTo, WithList, DataType
  <2> QED BY <2>2, <2>3
<1>6. d.pp_delta \in Index
  BY DEF ClosedData, DataType
<1>7. Promote(d, i) = IF d.pp_delta <= 1 THEN Demote(promoted)
                      ELSE [promoted EXCEPT !.pp_delta = Minus(d.pp_delta, 2)]
  BY DEF Promote, promoted, removed, marked
<1> HIDE DEF promoted
<1>8. CASE d.pp_delta <= 1
  BY <1>4, <1>5, <1>7, <1>8, DemoteClosed
<1>9. CASE ~ (d.pp_delta <= 1)
  <2>1. Minus(d.pp_delta, 2) \in Index
    <3>1. d.pp_delta \in Int
      BY <1>6 DEF Index
    <3> QED BY <3>1, MinusType, 2 \in Int
  <2> QED BY <1>4, <1>7, <1>9, <2>1, DeltaClosed
<1> QED BY <1>8, <1>9

LEMMA TouchClosed ==
  ASSUME NEW d, NEW nodes, ClosedData(d, nodes), policy \in AllPolicies \ {"RR"},
         NEW i \in nodes, CanTouch(d, i)
  PROVE  ClosedData(TouchEvictItem(d, i), nodes)
<1> DEFINE marked == [d EXCEPT !.rf_bit[i] = TRUE]
<1>1. i \in Page /\ \A h \in Heads : ClosedList(ListOf(d, h), Page, nodes)
  BY DEF ClosedData, ClosedList, Heads
<1>2. ClosedData(marked, nodes)
  BY <1>1, BitClosed
<1>3. ASSUME NEW h \in Heads, d[h] # INVALID_NODE
      PROVE  ClosedList(SetLast(ListOf(d, h), i), Page, nodes)
  <2>1. ListOf(d, h).head # INVALID_NODE
    BY <1>3 DEF ListOf
  <2> QED BY <1>1, <2>1, SetLastClosed
<1>4. CASE policy \in {"FIFO", "LIFO"}
  BY <1>4 DEF TouchEvictItem
<1>5. CASE policy = "LRU"
  BY <1>3, <1>5, WithListClosed DEF TouchEvictItem, CanTouch, Heads
<1>6. CASE policy = "MRU"
  <2>1. ListOf(d, "list").head # INVALID_NODE
    BY <1>6 DEF ListOf, CanTouch
  <2>2. ClosedList(SetFirst(ListOf(d, "list"), i), Page, nodes)
    BY <1>1, <2>1, SetFirstClosed DEF Heads
  <2> QED BY <1>6, <2>2, WithListClosed DEF TouchEvictItem, Heads
<1> HIDE DEF marked
<1>7. CASE policy = "CLOCK"
  BY <1>2, <1>3, <1>7, WithListClosed DEF TouchEvictItem, CanTouch, Heads, marked
<1>8. CASE policy = "SLRU" /\ d.rf_bit[i]
  BY <1>3, <1>8, WithListClosed DEF TouchEvictItem, CanTouch, Heads
<1>9. CASE policy = "SLRU" /\ ~d.rf_bit[i]
  BY <1>9, PromoteClosed DEF TouchEvictItem
<1> QED BY <1>4, <1>5, <1>6, <1>7, <1>8, <1>9 DEF AllPolicies

LEMMA TurnClosed ==
  ASSUME NEW d, NEW nodes, ClosedData(d, nodes), d.list # INVALID_NODE
  PROVE  ClosedData(TurnClock(d).data, nodes) /\ TurnClock(d).item \in nodes
<1> DEFINE node   == d.list
           item_i == d.next[node]
           l      == ListOf(d, "list")
           m      == [l EXCEPT !.head = item_i]
           e      == [d EXCEPT !.rf_bit[node] = FALSE]
<1>1. node \in nodes /\ nodes \subseteq Page
  BY HeadClosed, "list" \in Heads DEF Heads
<1>2. ClosedList(l, Page, nodes) /\ l.next = d.next
  BY DEF ClosedData, Heads, ListOf
<1>3. item_i \in nodes
  BY <1>1, <1>2 DEF ClosedList
<1>4. ClosedList(m, Page, nodes)
  BY <1>2, <1>3 DEF ClosedList
<1>5. ClosedData(e, nodes)
  BY <1>1, BitClosed
<1>6. TurnClock(d) = [item |-> item_i,
                      data |-> WithList(e, "list", RemoveNode(m, item_i, node))]
  BY DEF TurnClock
<1> HIDE DEF node, item_i, m, e
<1>7. ClosedList(RemoveNode(m, item_i, node), Page, nodes)
  BY <1>1, <1>3, <1>4, RemoveNodeClosed
<1> QED BY <1>3, <1>5, <1>6, <1>7, WithListClosed DEF Heads

LEMMA GetClosed ==
  ASSUME NEW d, NEW nodes, ClosedData(d, nodes), policy \in AllPolicies \ {"RR"},
         CanGetEvictItem(d), NEW v \in GetEvictItem(d)
  PROVE  ClosedData(v.data, nodes) /\ v.item \in nodes
<1>1. CASE policy = "CLOCK" /\ d.rf_bit[d.list]
  <2>1. v = TurnClock(d) /\ d.list # INVALID_NODE
    BY <1>1 DEF GetEvictItem, CanGetEvictItem, ListPolicies
  <2> QED BY <2>1, TurnClosed
<1>2. CASE policy \in ListPolicies /\ ~ (policy = "CLOCK" /\ d.rf_bit[d.list])
  <2>1. v = [item |-> d.list, data |-> RemoveFrom(d, "list", d.list)]
        /\ d.list # INVALID_NODE
    <3>1. d.list # INVALID_NODE
      BY <1>2 DEF CanGetEvictItem, ListPolicies
    <3>2. GetEvictItem(d) = {[item |-> d.list, data |-> RemoveFrom(d, "list", d.list)]}
      <4> DEFINE turns == policy = "CLOCK" /\ d.rf_bit[d.list]
                 others == policy \in ListPolicies /\ ~turns
      <4>1. ~turns /\ others /\ policy # "SLRU" /\ policy # "RR"
        BY <1>2 DEF ListPolicies
      <4> QED BY <4>1 DEF GetEvictItem
    <3> QED BY <3>1, <3>2
  <2>2. d.list \in nodes
    BY <2>1, HeadClosed, "list" \in Heads DEF Heads
  <2> QED BY <2>1, <2>2, RemoveFromClosed DEF Heads
<1>3. CASE policy = "SLRU"
  <2>1. /\ v = [item |-> d.prohibate,
                data |-> RemoveFrom(Rebalance(d), "prohibate", d.prohibate)]
        /\ d.prohibate # INVALID_NODE /\ CanDemote(d)
    BY <1>3 DEF GetEvictItem, CanGetEvictItem, ListPolicies
  <2>2. d.prohibate \in nodes
    BY <2>1, HeadClosed, "prohibate" \in Heads DEF Heads
  <2>3. ClosedData(Rebalance(d), nodes)
    BY <2>1, RebalanceClosed
  <2> QED BY <2>1, <2>2, <2>3, RemoveFromClosed DEF Heads
<1> QED BY <1>1, <1>2, <1>3 DEF AllPolicies, ListPolicies

-----------------------------------------------------------------------------
(* FIFO, LIFO and LRU: the list is exact.                                  *)

ExactPolicies == {"FIFO", "LIFO", "LRU"}

TheList(d) == ListOf(d, "list")

LEMMA ListReplaced ==
  ASSUME NEW d \in DataType,
         NEW l \in [head : Page \cup {INVALID_NODE}, next : [Page -> Link], pre : [Page -> Link]]
  PROVE  TheList(WithList(d, "list", l)) = l
BY DEF TheList, ListOf, WithList, DataType

LEMMA ListAfter ==
  ASSUME NEW d \in DataType, NEW S, NEW l, Circle(l, Page, S)
  PROVE  TheList(WithList(d, "list", l)) = l
BY ListReplaced DEF Circle, Link

LEMMA AddIntact ==
  ASSUME NEW d \in DataType, NEW S, Circle(TheList(d), Page, S),
         policy \in ExactPolicies, NEW i \in Page \ S
  PROVE  /\ Circle(TheList(AddEvictItem(d, i)), Page, S \cup {i})
         /\ policy # "LIFO" => TheList(AddEvictItem(d, i)) = AppendItem(TheList(d), i)
<1>1. CASE policy \in {"FIFO", "LRU"}
  <2>1. Circle(AppendItem(TheList(d), i), Page, S \cup {i})
    BY AppendCircle
  <2>2. AddEvictItem(d, i) = WithList(d, "list", AppendItem(TheList(d), i))
    BY <1>1 DEF AddEvictItem, AppendTo, TheList
  <2> QED BY <2>1, <2>2, ListAfter
<1>2. CASE policy = "LIFO"
  <2>1. Circle(PrependItem(TheList(d), i), Page, S \cup {i})
    BY PrependCircle
  <2>2. AddEvictItem(d, i) = WithList(d, "list", PrependItem(TheList(d), i))
    BY <1>2 DEF AddEvictItem, TheList
  <2> QED BY <1>2, <2>1, <2>2, ListAfter
<1> QED BY <1>1, <1>2 DEF ExactPolicies

LEMMA RemoveIntact ==
  ASSUME NEW d \in DataType, NEW S, Circle(TheList(d), Page, S),
         policy \in ExactPolicies, NEW i \in S
  PROVE  /\ Circle(TheList(RemoveEvictItem(d, i)), Page, S \ {i})
         /\ TheList(RemoveEvictItem(d, i)) = RemoveItem(TheList(d), i)
<1>1. Circle(RemoveItem(TheList(d), i), Page, S \ {i})
  BY RemoveCircle
<1>2. RemoveEvictItem(d, i) = WithList(d, "list", RemoveItem(TheList(d), i))
  BY DEF RemoveEvictItem, RemoveFrom, TheList, ExactPolicies, ListPolicies
<1> QED BY <1>1, <1>2, ListAfter

LEMMA TouchIntact ==
  ASSUME NEW d \in DataType, NEW S, Circle(TheList(d), Page, S),
         policy \in ExactPolicies, NEW i \in S
  PROVE  /\ Circle(TheList(TouchEvictItem(d, i)), Page, S)
         /\ TheList(TouchEvictItem(d, i)) =
              IF policy = "LRU" THEN SetLast(TheList(d), i) ELSE TheList(d)
         /\ CanTouch(d, i)
<1>1. d.list # INVALID_NODE
  BY CircleHead DEF TheList, ListOf
<1>2. CASE policy \in {"FIFO", "LIFO"}
  BY <1>2 DEF TouchEvictItem, CanTouch
<1>3. CASE policy = "LRU"
  <2>1. Circle(SetLast(TheList(d), i), Page, S)
    BY SetLastCircle
  <2>2. TouchEvictItem(d, i) = WithList(d, "list", SetLast(TheList(d), i))
    BY <1>3 DEF TouchEvictItem, TheList
  <2> QED BY <1>1, <1>3, <2>1, <2>2, ListAfter DEF CanTouch
<1> QED BY <1>2, <1>3 DEF ExactPolicies

(* The second removal of the evicted item leaves the list alone.           *)
LEMMA EvictIntact ==
  ASSUME NEW d \in DataType, NEW S, Circle(TheList(d), Page, S),
         policy \in ExactPolicies, S # {}
  PROVE  /\ CanGetEvictItem(d) /\ d.list \in S
         /\ \A v \in GetEvictItem(d) :
              /\ v.item = d.list
              /\ TheList(RemoveEvictItem(v.data, v.item)) = RemoveItem(TheList(d), d.list)
              /\ Circle(TheList(RemoveEvictItem(v.data, v.item)), Page, S \ {d.list})
<1> DEFINE i == d.list
           l == RemoveItem(TheList(d), i)
           e == WithList(d, "list", l)
<1>1. i \in S /\ i # INVALID_NODE /\ TheList(d).head = i
  BY CircleHead DEF TheList, ListOf
<1>2. CanGetEvictItem(d) /\ GetEvictItem(d) = {[item |-> i, data |-> e]}
  BY <1>1 DEF CanGetEvictItem, GetEvictItem, RemoveFrom, TheList, ExactPolicies, ListPolicies
<1>3. Circle(l, Page, S \ {i})
  BY <1>1, RemoveCircle
<1>4. TheList(e) = l
  BY <1>3, ListAfter
<1>5. e \in DataType
  <2>1. l \in [head : Page \cup {INVALID_NODE}, next : [Page -> Link], pre : [Page -> Link]]
    BY <1>3 DEF Circle, Link
  <2> HIDE DEF l
  <2> QED BY <2>1 DEF WithList, DataType
<1>6. RemoveEvictItem(e, i) = WithList(e, "list", RemoveItem(TheList(e), i))
  <2> HIDE DEF e
  <2> QED BY DEF RemoveEvictItem, RemoveFrom, TheList, ExactPolicies, ListPolicies
<1>7. RemoveItem(l, i) = l
  BY <1>1, RemoveHeadTwice
<1>8. TheList(RemoveEvictItem(e, i)) = l
  <2> HIDE DEF e, l
  <2> QED BY <1>3, <1>4, <1>5, <1>6, <1>7, ListAfter
<1> HIDE DEF e, l
<1> QED BY <1>1, <1>2, <1>3, <1>8 DEF l

-----------------------------------------------------------------------------
(* RR: the array.                                                          *)

RandomExact(d, S) ==
  /\ \A j \in 0 .. d.total_items - 1 :
       d.rand_items[j] \in S /\ d.rand_i[d.rand_items[j]] = j
  /\ \A p \in S : d.rand_i[p] \in Page

LEMMA RandomRoom ==
  ASSUME NEW d \in DataType, NEW S \in SUBSET Page, S # Page, RandomExact(d, S)
  PROVE  d.total_items < PageCount
<1> SUFFICES ASSUME d.total_items = PageCount PROVE FALSE
  BY PagesAreNodes DEF DataType
<1>1. d.rand_items \in [Page -> S]
  BY DEF RandomExact, DataType, Page
<1>2. IsFiniteSet(Page)
  BY FS_Interval, PagesAreNodes DEF Page
<1>3. Cardinality(S) < Cardinality(Page)
  BY <1>2, FS_Subset, FS_CardinalityType
<1>4. \E a, b \in Page : a # b /\ d.rand_items[a] = d.rand_items[b]
  BY <1>1, <1>2, <1>3, FS_Subset, FS_PigeonHole
<1> QED BY <1>4 DEF RandomExact, Page

LEMMA AddRandom ==
  ASSUME NEW d \in DataType, NEW S \in SUBSET Page, RandomExact(d, S),
         policy = "RR", NEW i \in Page \ S
  PROVE  AddEvictItem(d, i) \in DataType /\ RandomExact(AddEvictItem(d, i), S \cup {i})
<1> DEFINE n == d.total_items
           e == AddEvictItem(d, i)
<1>1. n \in Nat /\ n < PageCount /\ n \in Page /\ n + 1 \in 0 .. PageCount
  <2>1. d.total_items < PageCount
    BY RandomRoom
  <2>2. d.total_items \in Nat
    BY PagesAreNodes DEF DataType
  <2> QED BY <2>1, <2>2, PagesAreNodes DEF Page
<1>2. e = [d EXCEPT !.rand_i[i] = n, !.rand_items[n] = i, !.total_items = n + 1]
  BY DEF AddEvictItem
<1>3. /\ e.total_items = n + 1
      /\ e.rand_i = [d.rand_i EXCEPT ![i] = n]
      /\ e.rand_items = [d.rand_items EXCEPT ![n] = i]
      /\ e \in DataType
  <2> HIDE DEF e, n
  <2> QED BY <1>1, <1>2 DEF DataType, Link
<1> HIDE DEF e, n
<1>4. d.rand_i \in [Page -> Link] /\ d.rand_items \in [Page -> Link] /\ n = d.total_items
  BY DEF DataType, n
<1>5. ASSUME NEW j \in 0 .. n
      PROVE  e.rand_items[j] \in S \cup {i} /\ e.rand_i[e.rand_items[j]] = j
  <2>1. CASE j = n
    BY <1>1, <1>3, <1>4, <2>1
  <2>2. CASE j # n
    <3>1. j \in 0 .. n - 1 /\ j \in Page
      BY <1>1, <2>2, PagesAreNodes DEF Page
    <3>2. d.rand_items[j] \in S /\ d.rand_i[d.rand_items[j]] = j
      BY <1>4, <3>1 DEF RandomExact
    <3> QED BY <1>1, <1>3, <1>4, <2>2, <3>1, <3>2
  <2> QED BY <2>1, <2>2
<1>6. \A p \in S \cup {i} : e.rand_i[p] \in Page
  <2> SUFFICES ASSUME NEW p \in S \cup {i} PROVE e.rand_i[p] \in Page
    OBVIOUS
  <2>1. e.rand_i[p] = IF p = i THEN n ELSE d.rand_i[p]
    BY <1>3, <1>4
  <2> QED BY <1>1, <2>1 DEF RandomExact
<1> QED BY <1>1, <1>3, <1>5, <1>6 DEF RandomExact, e

(* Dropping through the place r takes an item of that place out, and keeps *)
(* the array exact whatever r is: another item may be dropped.             *)
LEMMA DropKeeps ==
  ASSUME NEW d \in DataType, NEW S \in SUBSET Page, RandomExact(d, S),
         d.total_items > 0, NEW r \in Page, NEW T \in SUBSET S,
         \A p \in S \ T : d.rand_i[p] = r
  PROVE  /\ DropRandom(d, r) \in DataType
         /\ RandomExact(DropRandom(d, r), T)
         /\ \A p \in S \ T : DropRandom(d, r).rand_i[p] = r
<1> DEFINE n == d.total_items - 1
           y == d.rand_items[n]
           e == DropRandom(d, r)
<1>1. n \in Nat /\ n < PageCount /\ n \in Page /\ n \in 0 .. PageCount
  BY PagesAreNodes DEF DataType, Page
<1>2. y \in S /\ d.rand_i[y] = n
  BY <1>1 DEF RandomExact
<1>3. e = [d EXCEPT !.total_items = n, !.rand_items[r] = y, !.rand_i[y] = r]
  BY DEF DropRandom
<1> HIDE DEF n, y, e
<1>4. /\ e.total_items = n
      /\ e.rand_i = [d.rand_i EXCEPT ![y] = r]
      /\ e.rand_items = [d.rand_items EXCEPT ![r] = y]
      /\ e \in DataType
  BY <1>1, <1>2, <1>3 DEF DataType, Link
<1>5. /\ d.rand_i \in [Page -> Link] /\ d.rand_items \in [Page -> Link]
      /\ n = d.total_items - 1
  BY DEF DataType, n
<1>6. ASSUME NEW j \in 0 .. n - 1
      PROVE  e.rand_items[j] \in T /\ e.rand_i[e.rand_items[j]] = j
  <2>1. j \in Page /\ j # n /\ j \in 0 .. d.total_items - 1
    BY <1>1, <1>5, PagesAreNodes DEF Page
  <2>2. d.rand_items[j] \in S /\ d.rand_i[d.rand_items[j]] = j
    BY <2>1 DEF RandomExact
  <2>3. CASE j = r
    <3>1. y \in T
      BY <1>2, <2>1, <2>3
    <3> QED BY <1>2, <1>4, <1>5, <2>3, <3>1
  <2>4. CASE j # r
    <3>1. d.rand_items[j] \in T /\ d.rand_items[j] # y
      BY <1>2, <2>1, <2>2, <2>4
    <3> QED BY <1>2, <1>4, <1>5, <2>1, <2>2, <2>4, <3>1
  <2> QED BY <2>3, <2>4
<1>7. \A p \in T : e.rand_i[p] \in Page
  BY <1>4, <1>5 DEF RandomExact
<1>8. \A p \in S \ T : e.rand_i[p] = r
  BY <1>4, <1>5
<1> QED BY <1>4, <1>5, <1>6, <1>7, <1>8 DEF RandomExact, e

-----------------------------------------------------------------------------
(* The inductive invariant.  What is closed, exact or an array depends on  *)
(* the policy, which never changes.                                        *)

Closed(d, S) == \E nodes : S \subseteq nodes /\ ClosedData(d, nodes)

PolicyInv(d, S) ==
  /\ policy # "RR" => Closed(d, S)
  /\ policy = "RR" => RandomExact(d, S)
  /\ policy \in ExactPolicies => Circle(TheList(d), Page, S)

EInv ==
  /\ policy \in AllPolicies
  /\ held \in SUBSET Page
  /\ data \in DataType
  /\ PolicyInv(data, held)
  /\ policy \in ExactPolicies => ~faulty

LEMMA InitEInv == Init => EInv
<1> SUFFICES ASSUME Init PROVE EInv
  OBVIOUS
<1>1. policy \in AllPolicies /\ held = {} /\ ~faulty
  BY EvictorAssumption DEF Init
<1>2. /\ data \in DataType /\ data.total_items = 0
      /\ \A h \in Heads : data[h] = INVALID_NODE
      /\ data.next = [p \in Page |-> JUNK] /\ data.pre = [p \in Page |-> JUNK]
  BY PagesAreNodes DEF Init, DataType, Link, Heads
<1>3. ClosedData(data, {})
  BY <1>2 DEF ClosedData, ClosedList, ListOf
<1>4. RandomExact(data, {})
  BY <1>2 DEF RandomExact
<1>5. Circle(TheList(data), Page, {})
  <2>1. TheList(data) = EmptyList(Page)
    BY <1>2 DEF TheList, ListOf, EmptyList, Heads
  <2> QED BY <2>1, PagesAreNodes, CircleEmpty
<1> QED BY <1>1, <1>2, <1>3, <1>4, <1>5 DEF EInv, PolicyInv, Closed

LEMMA AddKeeps ==
  ASSUME EInv, NEW i \in Page, Add(i)
  PROVE  EInv'
<1>1. /\ i \in Page \ held /\ data' = AddEvictItem(data, i) /\ held' = held \cup {i}
      /\ policy' = policy /\ faulty' = faulty
  BY DEF Add
<1>2. ASSUME policy # "RR"
      PROVE  data' \in DataType /\ Closed(data', held')
  <2>1. PICK nodes : held \subseteq nodes /\ ClosedData(data, nodes)
    BY <1>2 DEF EInv, PolicyInv, Closed
  <2>2. ClosedData(data', nodes \cup {i})
    BY <1>1, <1>2, <2>1, AddClosed DEF EInv
  <2> QED BY <1>1, <2>1, <2>2 DEF ClosedData, Closed
<1>3. ASSUME policy = "RR"
      PROVE  data' \in DataType /\ RandomExact(data', held')
  BY <1>1, <1>3, AddRandom DEF EInv, PolicyInv
<1>4. ASSUME policy \in ExactPolicies
      PROVE  Circle(TheList(data'), Page, held')
  BY <1>1, <1>4, AddIntact DEF EInv, PolicyInv
<1> QED BY <1>1, <1>2, <1>3, <1>4 DEF EInv, PolicyInv, Closed, TheList, ListOf, RandomExact

LEMMA TouchKeeps ==
  ASSUME EInv, NEW i \in Page, Touch(i)
  PROVE  EInv'
<1>1. /\ i \in held /\ data' = TouchEvictItem(data, i) /\ held' = held
      /\ policy' = policy /\ faulty' = faulty /\ CanTouch(data, i)
  BY DEF Touch
<1>2. ASSUME policy # "RR"
      PROVE  data' \in DataType /\ Closed(data', held')
  <2>1. PICK nodes : held \subseteq nodes /\ ClosedData(data, nodes)
    BY <1>2 DEF EInv, PolicyInv, Closed
  <2>2. ClosedData(data', nodes)
    BY <1>1, <1>2, <2>1, TouchClosed DEF EInv
  <2> QED BY <1>1, <2>1, <2>2 DEF ClosedData, Closed
<1>3. ASSUME policy = "RR"
      PROVE  data' \in DataType /\ RandomExact(data', held')
  BY <1>1, <1>3 DEF EInv, PolicyInv, TouchEvictItem
<1>4. ASSUME policy \in ExactPolicies
      PROVE  Circle(TheList(data'), Page, held')
  BY <1>1, <1>4, TouchIntact DEF EInv, PolicyInv
<1> QED BY <1>1, <1>2, <1>3, <1>4 DEF EInv, PolicyInv, Closed, TheList, ListOf, RandomExact

LEMMA RemoveKeeps ==
  ASSUME EInv, NEW i \in Page, Remove(i)
  PROVE  EInv'
<1>1. /\ i \in held /\ data' = RemoveEvictItem(data, i) /\ held' = held \ {i}
      /\ policy' = policy /\ faulty' = faulty /\ CanRemove(data, i)
  BY DEF Remove
<1>2. ASSUME policy # "RR"
      PROVE  data' \in DataType /\ Closed(data', held')
  <2>1. PICK nodes : held \subseteq nodes /\ ClosedData(data, nodes)
    BY <1>2 DEF EInv, PolicyInv, Closed
  <2>2. ClosedData(data', nodes)
    BY <1>1, <1>2, <2>1, RemoveClosed DEF EInv
  <2> QED BY <1>1, <2>1, <2>2 DEF ClosedData, Closed
<1>3. ASSUME policy = "RR"
      PROVE  data' \in DataType /\ RandomExact(data', held')
  <2> DEFINE r == data.rand_i[i]
  <2>1. data' = DropRandom(data, r) /\ data.total_items > 0
    BY <1>1, <1>3 DEF RemoveEvictItem, CanRemove, ListPolicies
  <2>2. r \in Page /\ held' \in SUBSET held /\ \A p \in held \ held' : data.rand_i[p] = r
    BY <1>1, <1>3 DEF EInv, PolicyInv, RandomExact
  <2> HIDE DEF r
  <2> QED BY <1>3, <2>1, <2>2, DropKeeps DEF EInv, PolicyInv
<1>4. ASSUME policy \in ExactPolicies
      PROVE  Circle(TheList(data'), Page, held')
  BY <1>1, <1>4, RemoveIntact DEF EInv, PolicyInv
<1> QED BY <1>1, <1>2, <1>3, <1>4 DEF EInv, PolicyInv, Closed, TheList, ListOf, RandomExact

LEMMA EvictKeeps ==
  ASSUME EInv, Evict
  PROVE  EInv'
<1>1. PICK v \in GetEvictItem(data) :
        /\ v.item \in held /\ CanRemove(v.data, v.item)
        /\ data' = RemoveEvictItem(v.data, v.item) /\ held' = held \ {v.item}
  BY DEF Evict
<1>2. held # {} /\ CanGetEvictItem(data) /\ policy' = policy /\ faulty' = faulty
  BY DEF Evict
<1>3. ASSUME policy # "RR"
      PROVE  data' \in DataType /\ Closed(data', held')
  <2>1. PICK nodes : held \subseteq nodes /\ ClosedData(data, nodes)
    BY <1>3 DEF EInv, PolicyInv, Closed
  <2>2. ClosedData(v.data, nodes) /\ v.item \in nodes
    BY <1>1, <1>2, <1>3, <2>1, GetClosed DEF EInv
  <2>3. ClosedData(data', nodes)
    BY <1>1, <1>3, <2>2, RemoveClosed DEF EInv
  <2> QED BY <1>1, <2>1, <2>3 DEF ClosedData, Closed
<1>4. ASSUME policy = "RR"
      PROVE  data' \in DataType /\ RandomExact(data', held')
  <2>1. PICK r \in 0 .. data.total_items - 1 :
          v = [item |-> data.rand_items[r], data |-> DropRandom(data, r)]
    BY <1>4 DEF GetEvictItem, ListPolicies
  <2> DEFINE x == data.rand_items[r]
             d == DropRandom(data, r)
  <2>2. v.item = x /\ v.data = d
    BY <2>1
  <2>3. r \in Page /\ data.total_items > 0
    BY PagesAreNodes DEF EInv, DataType, Page
  <2>4. x \in held /\ data.rand_i[x] = r /\ RandomExact(data, held)
    BY <1>4 DEF EInv, PolicyInv, RandomExact
  <2>5. held' \in SUBSET held /\ held \ held' = {x} /\ held' \in SUBSET Page
    BY <1>1, <2>2, <2>4 DEF EInv
  <2>6. d \in DataType /\ RandomExact(d, held') /\ d.rand_i[x] = r
    <3> HIDE DEF x
    <3> QED BY <2>3, <2>4, <2>5, DropKeeps DEF EInv
  <2> HIDE DEF x, d
  <2>7. data' = DropRandom(d, r) /\ d.total_items > 0
    BY <1>1, <1>4, <2>2, <2>6 DEF RemoveEvictItem, CanRemove, ListPolicies
  <2> QED BY <2>3, <2>5, <2>6, <2>7, DropKeeps
<1>5. ASSUME policy \in ExactPolicies
      PROVE  Circle(TheList(data'), Page, held')
  BY <1>1, <1>2, <1>5, EvictIntact DEF EInv, PolicyInv
<1> QED BY <1>1, <1>2, <1>3, <1>4, <1>5 DEF EInv, PolicyInv, Closed, TheList, ListOf, RandomExact

(* Under FIFO, LIFO and LRU no access leaves the arrays.                   *)
LEMMA NothingFaulty ==
  ASSUME EInv, policy \in ExactPolicies
  PROVE  ~Fault
<1>1. Circle(TheList(data), Page, held) /\ data \in DataType
  BY DEF EInv, PolicyInv
<1>2. \A i \in held : CanTouch(data, i)
  BY <1>1, TouchIntact
<1>3. \A d, i : CanRemove(d, i)
  BY DEF CanRemove, ExactPolicies
<1>4. held # {} => /\ CanGetEvictItem(data)
                   /\ \A v \in GetEvictItem(data) : v.item \in held
  BY <1>1, EvictIntact
<1> QED BY <1>2, <1>3, <1>4 DEF Fault

LEMMA NextEInv == EInv /\ [Next]_vars => EInv'
<1> SUFFICES ASSUME EInv, [Next]_vars PROVE EInv'
  OBVIOUS
<1>1. CASE \E i \in Page : Add(i) \/ Touch(i) \/ Remove(i)
  BY <1>1, AddKeeps, TouchKeeps, RemoveKeeps
<1>2. CASE Evict
  BY <1>2, EvictKeeps
<1>3. CASE Fault
  BY <1>3, NothingFaulty
     DEF Fault, EInv, PolicyInv, Closed, TheList, ListOf, RandomExact
<1>4. CASE UNCHANGED vars
  BY <1>4 DEF vars, EInv, PolicyInv, Closed, TheList, ListOf, RandomExact
<1> QED BY <1>1, <1>2, <1>3, <1>4 DEF Next

LEMMA SpecEInv == Spec => []EInv
BY InitEInv, NextEInv, PTL DEF Spec

(* Under every policy, the links of pages in use lead to pages and the     *)
(* counters stay in range, for any number of pages.                        *)
THEOREM EvictorTypeOK == Spec => []TypeOK
<1>1. EInv => TypeOK
  <2> SUFFICES ASSUME EInv PROVE TypeOK
    OBVIOUS
  <2>1. /\ \A h \in Heads : data[h] \in Page \cup {INVALID_NODE}
        /\ data.pp_delta \in Index /\ data.total_items \in 0 .. PageCount
        /\ held \subseteq Page
    BY DEF EInv, DataType, Heads
  <2>2. ASSUME policy # "RR", NEW p \in held
        PROVE  data.next[p] \in Page /\ data.pre[p] \in Page
    <3>1. PICK nodes : held \subseteq nodes /\ ClosedData(data, nodes)
      BY <2>2 DEF EInv, PolicyInv, Closed
    <3>2. ClosedList(ListOf(data, "list"), Page, nodes)
      BY <3>1 DEF ClosedData, Heads
    <3> QED BY <3>1, <3>2 DEF ClosedList, ListOf
  <2> QED BY <2>1, <2>2 DEF TypeOK
<1> QED BY <1>1, SpecEInv, PTL

(* Under RR the array holds pages in use only, each with its own place,    *)
(* although every eviction drops a second item.                            *)
THEOREM EvictorRandomItemsHeld == Spec => []RandomItemsHeld
<1>1. EInv => RandomItemsHeld
  BY DEF EInv, PolicyInv, RandomExact, RandomItemsHeld
<1> QED BY <1>1, SpecEInv, PTL

-----------------------------------------------------------------------------
(* The order of the list as a sequence.                                    *)
LEMMA DroppedIsRemoval ==
  ASSUME NEW S, NEW n \in Nat, NEW s \in [1 .. n -> S], NEW i \in 1 .. n,
         \A k \in 1 .. n : s[k] = s[i] => k = i
  PROVE  Seqs!RemoveFirst(s, s[i]) = Dropped(s, i, n)
<1> DEFINE e == s[i]
           a == SubSeq(s, 1, i - 1)
           b == SubSeq(s, i + 1, n)
<1>1. s \in Seq(S) /\ Len(s) = n
  BY OrderIsSequence
<1>2. {j \in 1 .. Len(s) : s[j] = e} = {i}
  BY <1>1
<1>3. Seqs!SelectInSeq(s, LAMBDA v : v = e) = i
  BY <1>1, <1>2 DEF Seqs!SelectInSeq, Seqs!Min
<1>4. Seqs!RemoveFirst(s, e) = a \o b
  BY <1>1, <1>3 DEF Seqs!RemoveFirst, Seqs!RemoveAt
<1>5. a \in Seq(S) /\ Len(a) = i - 1 /\ \A j \in 1 .. i - 1 : a[j] = s[j]
  BY <1>1
<1>6. b \in Seq(S) /\ Len(b) = n - i /\ \A j \in 1 .. n - i : b[j] = s[i + j]
  BY <1>1
<1> HIDE DEF a, b
<1>7. a \o b \in Seq(S) /\ Len(a \o b) = n - 1
  <2>1. Len(a \o b) = Len(a) + Len(b)
    <3>1. a \in Seq(S) /\ b \in Seq(S)
      BY <1>5, <1>6
    <3> QED BY ONLY <3>1
  <2> QED BY <1>5, <1>6, <2>1
<1>8. ASSUME NEW j \in 1 .. n - 1
      PROVE  (a \o b)[j] = s[IF j < i THEN j ELSE j + 1]
  <2>1. CASE j < i
    BY <1>5, <1>6, <2>1
  <2>2. CASE ~ (j < i)
    <3>1. j - (i - 1) \in 1 .. n - i /\ i + (j - (i - 1)) = j + 1
      BY <2>2
    <3>2. (a \o b)[j] = b[j - Len(a)]
      BY <1>5, <1>6, <2>2
    <3>3. b[j - (i - 1)] = s[j + 1]
      BY <1>6, <3>1
    <3> QED BY <1>5, <2>2, <3>2, <3>3
  <2> QED BY <2>1, <2>2
<1> DEFINE q == a \o b
<1>9. q \in Seq(S) /\ Len(q) = n - 1 /\ n - 1 \in Nat
  BY <1>7
<1>10. Dropped(s, i, n) = [j \in 1 .. n - 1 |-> Dropped(s, i, n)[j]]
       /\ \A j \in 1 .. n - 1 : q[j] = Dropped(s, i, n)[j]
  BY <1>8 DEF Dropped
<1> HIDE DEF q
<1>11. q = Dropped(s, i, n)
  BY <1>9, <1>10, SequenceIs
<1> QED BY <1>4, <1>11 DEF q

\* The items of a list met from the head, one per item of S.
OrderOf(l, S) ==
  LET n == Cardinality(S)
      walk[j \in 1 .. n] == IF j = 1 THEN l.head ELSE l.next[walk[j - 1]]
  IN [j \in 1 .. n |-> walk[j]]

LEMMA OrderIsOrder ==
  ASSUME NEW l, NEW S, NEW n \in Nat, NEW s, Order(l, S, s, n)
  PROVE  OrderOf(l, S) = s
<1>1. n = Cardinality(S) /\ Walks(s, l, n)
  BY OrderIsWalk
<1> DEFINE t == CHOOSE t : Walks(t, l, n)
<1>2. Walks(t, l, n)
  BY <1>1
<1> HIDE DEF t
<1>3. t = s
  BY <1>1, <1>2, WalkIsUnique
<1>4. OrderOf(l, S) = [j \in 1 .. n |-> t[j]]
  BY <1>1 DEF OrderOf, Walks, t
<1> QED BY <1>3, <1>4 DEF Order

LEMMA CircleOrderIs ==
  /\ CircleOrder = OrderOf(TheList(data), held)
  /\ CircleOrder' = OrderOf(TheList(data'), held')
BY DEF CircleOrder, OrderOf, TheList, ListOf

(* The lists of FIFO, LIFO and LRU are exact, for any number of pages,     *)
(* although every evicted item is removed twice.                           *)
THEOREM EvictorCircleExact == Spec => []CircleExact
<1>1. EInv => CircleExact
  <2> SUFFICES ASSUME EInv, policy \in ExactPolicies
               PROVE  /\ ~faulty
                      /\ (data.list = INVALID_NODE) = (held = {})
                      /\ {CircleOrder[j] : j \in DOMAIN CircleOrder} = held
                      /\ \A p \in held : data.pre[data.next[p]] = p
    BY DEF CircleExact, ExactPolicies
  <2>1. Circle(TheList(data), Page, held) /\ ~faulty
    BY DEF EInv, PolicyInv
  <2>2. PICK n \in Nat : \E s : Order(TheList(data), held, s, n)
    BY <2>1, CircleHasOrder
  <2>3. PICK s : Order(TheList(data), held, s, n)
    BY <2>2
  <2>4. CircleOrder = s
    BY <2>3, OrderIsOrder, CircleOrderIs
  <2>5. {s[j] : j \in DOMAIN s} = held
    BY <2>3 DEF Order, IsCircle
  <2>6. TheList(data).head = data.list /\ TheList(data).next = data.next
        /\ TheList(data).pre = data.pre
    BY DEF TheList, ListOf
  <2> QED BY <2>1, <2>4, <2>5, <2>6, CircleHead, CircleLinks
<1> QED BY <1>1, SpecEInv, PTL

(* What each call makes of the order, under FIFO and LRU.                  *)

InOrderPolicy == policy \in {"FIFO", "LRU"}

LEMMA AddOrder ==
  ASSUME EInv, InOrderPolicy, NEW i \in Page, Add(i)
  PROVE  CircleOrder' = Append(CircleOrder, i)
<1>1. Circle(TheList(data), Page, held) /\ data \in DataType /\ policy \in ExactPolicies
  BY DEF EInv, PolicyInv, InOrderPolicy, ExactPolicies
<1>2. PICK n \in Nat : \E s : Order(TheList(data), held, s, n)
  BY <1>1, CircleHasOrder
<1>3. PICK s : Order(TheList(data), held, s, n)
  BY <1>2
<1>4. i \in Page \ held /\ held' = held \cup {i} /\ data' = AddEvictItem(data, i)
  BY DEF Add
<1>5. TheList(data') = AppendItem(TheList(data), i)
  BY <1>1, <1>4, AddIntact DEF InOrderPolicy
<1>6. Order(TheList(data'), held', Added(s, i, n), n + 1)
  BY <1>1, <1>3, <1>4, <1>5, AppendOrder
<1>7. CircleOrder = s /\ CircleOrder' = Added(s, i, n)
  BY <1>3, <1>6, OrderIsOrder, CircleOrderIs, n + 1 \in Nat
<1> QED BY <1>3, <1>7, AddedIsAppend DEF Order

LEMMA RemovedOrder ==
  ASSUME EInv, policy \in ExactPolicies, NEW i \in held, NEW n \in Nat, NEW s,
         Order(TheList(data), held, s, n)
  PROVE  \E j \in 1 .. n :
           /\ s[j] = i
           /\ Circle(RemoveItem(TheList(data), i), Page, held \ {i})
           /\ Order(RemoveItem(TheList(data), i), held \ {i}, Dropped(s, j, n), n - 1)
           /\ Seqs!RemoveFirst(s, i) = Dropped(s, j, n)
<1>1. Circle(TheList(data), Page, held)
  BY DEF EInv, PolicyInv
<1>2. /\ s \in [1 .. n -> held]
      /\ \A j, k \in 1 .. n : s[j] = s[k] => j = k
      /\ \E j \in 1 .. n : s[j] = i
  BY DEF Order, IsCircle
<1>3. PICK j \in 1 .. n : s[j] = i
  BY <1>2
<1>4. /\ Circle(RemoveItem(TheList(data), i), Page, held \ {i})
      /\ Order(RemoveItem(TheList(data), i), held \ {i}, Dropped(s, j, n), n - 1)
  BY <1>1, <1>3, RemoveOrder
<1>5. Seqs!RemoveFirst(s, i) = Dropped(s, j, n)
  <2>1. \A k \in 1 .. n : s[k] = s[j] => k = j
    BY <1>2
  <2> QED BY <1>2, <1>3, <2>1, DroppedIsRemoval
<1> QED BY <1>3, <1>4, <1>5

LEMMA RemoveInOrder ==
  ASSUME EInv, InOrderPolicy, NEW i \in Page, Remove(i)
  PROVE  CircleOrder' = Seqs!RemoveFirst(CircleOrder, i)
<1>1. Circle(TheList(data), Page, held) /\ data \in DataType /\ policy \in ExactPolicies
  BY DEF EInv, PolicyInv, InOrderPolicy, ExactPolicies
<1>2. PICK n \in Nat : \E s : Order(TheList(data), held, s, n)
  BY <1>1, CircleHasOrder
<1>3. PICK s : Order(TheList(data), held, s, n)
  BY <1>2
<1>4. i \in held /\ held' = held \ {i} /\ data' = RemoveEvictItem(data, i)
  BY DEF Remove
<1>5. TheList(data') = RemoveItem(TheList(data), i)
  BY <1>1, <1>4, RemoveIntact
<1>6. PICK j \in 1 .. n :
        /\ Order(TheList(data'), held', Dropped(s, j, n), n - 1)
        /\ Seqs!RemoveFirst(s, i) = Dropped(s, j, n)
  BY <1>1, <1>3, <1>4, <1>5, RemovedOrder
<1>7. CircleOrder = s /\ CircleOrder' = Dropped(s, j, n)
  BY <1>3, <1>6, OrderIsOrder, CircleOrderIs, n - 1 \in Nat
<1> QED BY <1>6, <1>7

LEMMA TouchInOrder ==
  ASSUME EInv, InOrderPolicy, NEW i \in Page, Touch(i)
  PROVE  CircleOrder' = IF policy = "LRU" THEN Append(Seqs!RemoveFirst(CircleOrder, i), i)
                        ELSE CircleOrder
<1>1. Circle(TheList(data), Page, held) /\ data \in DataType /\ policy \in ExactPolicies
  BY DEF EInv, PolicyInv, InOrderPolicy, ExactPolicies
<1>2. PICK n \in Nat : \E s : Order(TheList(data), held, s, n)
  BY <1>1, CircleHasOrder
<1>3. PICK s : Order(TheList(data), held, s, n)
  BY <1>2
<1>4. i \in held /\ held' = held /\ data' = TouchEvictItem(data, i)
  BY DEF Touch
<1>5. TheList(data') = IF policy = "LRU" THEN SetLast(TheList(data), i) ELSE TheList(data)
  BY <1>1, <1>4, TouchIntact
<1>6. CASE policy # "LRU"
  BY <1>4, <1>5, <1>6, CircleOrderIs
<1>7. CASE policy = "LRU"
  <2> DEFINE l == RemoveItem(TheList(data), i)
             T == held \ {i}
  <2>1. PICK j \in 1 .. n :
          /\ Circle(l, Page, T)
          /\ Order(l, T, Dropped(s, j, n), n - 1)
          /\ Seqs!RemoveFirst(s, i) = Dropped(s, j, n)
    BY <1>1, <1>3, <1>4, RemovedOrder
  <2> DEFINE t == Dropped(s, j, n)
  <2>2. TheList(data') = AppendItem(l, i)
    BY <1>1, <1>4, <1>5, <1>7, SetLastIsMove
  <2>3. i \in Page \ T /\ T \cup {i} = held'
    BY <1>4
  <2> HIDE DEF l, T, t
  <2>4. n - 1 \in Nat /\ Order(l, T, t, n - 1)
    BY <2>1 DEF t
  <2>5. Order(TheList(data'), held', Added(t, i, n - 1), (n - 1) + 1)
    <3> DEFINE m == n - 1
    <3>1. Circle(l, Page, T) /\ m \in Nat /\ Order(l, T, t, m)
      BY <2>1, <2>4
    <3> HIDE DEF m
    <3>2. Order(AppendItem(l, i), T \cup {i}, Added(t, i, m), m + 1)
      BY <2>3, <3>1, AppendOrder
    <3> QED BY <2>2, <2>3, <3>2 DEF m
  <2>6. CircleOrder = s /\ CircleOrder' = Added(t, i, n - 1)
    BY <1>3, <2>5, OrderIsOrder, CircleOrderIs, (n - 1) + 1 \in Nat
  <2>7. Append(t, i) = Added(t, i, n - 1)
    BY <2>4, AddedIsAppend DEF Order
  <2> QED BY <1>7, <2>1, <2>6, <2>7 DEF t
<1> QED BY <1>6, <1>7

LEMMA EvictInOrder ==
  ASSUME EInv, InOrderPolicy, Evict
  PROVE  /\ CircleOrder' = Tail(CircleOrder)
         /\ call'.op = "evict" /\ call'.item = Head(CircleOrder)
<1>1. Circle(TheList(data), Page, held) /\ data \in DataType /\ policy \in ExactPolicies
  BY DEF EInv, PolicyInv, InOrderPolicy, ExactPolicies
<1>2. PICK n \in Nat : \E s : Order(TheList(data), held, s, n)
  BY <1>1, CircleHasOrder
<1>3. PICK s : Order(TheList(data), held, s, n)
  BY <1>2
<1> DEFINE i == data.list
<1>4. /\ i \in held /\ held' = held \ {i} /\ call' = [op |-> "evict", item |-> i]
      /\ TheList(data') = RemoveItem(TheList(data), i)
  BY <1>1, EvictIntact DEF Evict, Called
<1>5. 1 \in 1 .. n /\ n \in Nat \ {0} /\ s[1] = i /\ s \in [1 .. n -> held]
  <2>1. s \in [1 .. n -> held] /\ i = IF n = 0 THEN INVALID_NODE ELSE s[1]
    BY <1>3 DEF Order, IsCircle, TheList, ListOf
  <2>2. \E j \in 1 .. n : s[j] = i
    BY <1>3, <1>4 DEF Order, IsCircle
  <2>3. n # 0
    BY <2>2
  <2> QED BY <2>1, <2>3
<1> HIDE DEF i
<1>6. Order(TheList(data'), held', Dropped(s, 1, n), n - 1)
  <2> DEFINE l == TheList(data)
  <2>1. Circle(l, Page, held) /\ Order(l, held, s, n)
    BY <1>1, <1>3
  <2> HIDE DEF l
  <2>2. Order(RemoveItem(l, i), held \ {i}, Dropped(s, 1, n), n - 1)
    BY <1>4, <1>5, <2>1, RemoveOrder
  <2> QED BY <1>4, <2>2 DEF l
<1>7. CircleOrder = s /\ CircleOrder' = Dropped(s, 1, n)
  BY <1>3, <1>5, <1>6, OrderIsOrder, CircleOrderIs, n - 1 \in Nat
<1>8. Tail(s) = Dropped(s, 1, n) /\ Head(s) = s[1]
  BY <1>5, DroppedIsTail
<1> QED BY <1>4, <1>5, <1>7, <1>8

LEMMA CallsInOrder ==
  ASSUME EInv, InOrderPolicy, Next
  PROVE  /\ CircleOrder' = OrderAfter(CircleOrder, call')
         /\ call'.op = "evict" => call'.item = Head(CircleOrder)
<1>1. ASSUME NEW i \in Page, Add(i)
      PROVE  /\ CircleOrder' = OrderAfter(CircleOrder, call')
             /\ call'.op # "evict"
  <2>1. call' = [op |-> "add", item |-> i]
    BY <1>1 DEF Add, Called
  <2> QED BY <1>1, <2>1, AddOrder DEF OrderAfter
<1>2. ASSUME NEW i \in Page, Touch(i)
      PROVE  /\ CircleOrder' = OrderAfter(CircleOrder, call')
             /\ call'.op # "evict"
  <2>1. call' = [op |-> "touch", item |-> i]
    BY <1>2 DEF Touch, Called
  <2> QED BY <1>2, <2>1, TouchInOrder DEF OrderAfter, InOrderPolicy
<1>3. ASSUME NEW i \in Page, Remove(i)
      PROVE  /\ CircleOrder' = OrderAfter(CircleOrder, call')
             /\ call'.op # "evict"
  <2>1. call' = [op |-> "remove", item |-> i]
    BY <1>3 DEF Remove, Called
  <2> QED BY <1>3, <2>1, RemoveInOrder DEF OrderAfter
<1>4. CASE Evict
  <2>1. call'.op = "evict" /\ call'.item = Head(CircleOrder) /\ CircleOrder' = Tail(CircleOrder)
    BY <1>4, EvictInOrder
  <2> QED BY <2>1 DEF OrderAfter
<1>5. ~Fault
  BY NothingFaulty DEF InOrderPolicy, ExactPolicies
<1> QED BY <1>1, <1>2, <1>3, <1>4, <1>5 DEF Next

(* FIFO evicts the item added longest ago and LRU the one used longest     *)
(* ago, for any number of pages and calls.                                 *)
THEOREM EvictorEvictsOldest == Spec => EvictsOldest
<1>1. EInv /\ [Next]_vars =>
        [InOrderPolicy => /\ CircleOrder' = OrderAfter(CircleOrder, call')
                          /\ call'.op = "evict" => call'.item = Head(CircleOrder)]_vars
  BY CallsInOrder
<1> QED BY <1>1, SpecEInv, PTL DEF Spec, EvictsOldest, InOrderPolicy

=============================================================================
