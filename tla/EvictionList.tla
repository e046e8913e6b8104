---------------------------- MODULE EvictionList ----------------------------
(***************************************************************************)
(* The circular doubly linked list of eviction.cc (DLL): the head lives in *)
(* the evictor, the next and pre links of an item in its page.  A list is  *)
(* a record of the head and of the two functions from pages to links.      *)
(***************************************************************************)
EXTENDS IndexType

EmptyList(pages) ==
  [head |-> INVALID_NODE,
   next |-> [p \in pages |-> JUNK],
   pre  |-> [p \in pages |-> JUNK]]

\* remove(list, item_i, node, book), where node is the one of page at;
\* nothing of the node itself is reset.
RemoveNode(list, item, at) ==
  LET next_i == list.next[at]
      pre_i  == list.pre[at]
  IN IF list.head = item /\ next_i = item
     THEN [list EXCEPT !.head = INVALID_NODE]
     ELSE [head |-> IF list.head = item THEN next_i ELSE list.head,
           next |-> [list.next EXCEPT ![pre_i] = next_i],
           pre  |-> [list.pre EXCEPT ![next_i] = pre_i]]

\* (a variant: the next item keeps its link back to the removed one)
RemoveItemOneWay(list, item) ==
  [RemoveNode(list, item, item) EXCEPT !.pre = list.pre]

RemoveItem(list, item) == RemoveNode(list, item, item)

\* (a variant: the only item of a list is not linked to itself)
AppendItemUnlinked(list, item) ==
  IF list.head = INVALID_NODE THEN [list EXCEPT !.head = item]
  ELSE LET last == list.pre[list.head] IN
       [head |-> list.head,
        next |-> [list.next EXCEPT ![last] = item, ![item] = list.head],
        pre  |-> [list.pre EXCEPT ![list.head] = item, ![item] = last]]

\* append: the item becomes the last of the circle, just before the head.
AppendItem(list, item) ==
  IF list.head = INVALID_NODE
  THEN [head |-> item,
        next |-> [list.next EXCEPT ![item] = item],
        pre  |-> [list.pre EXCEPT ![item] = item]]
  ELSE LET last == list.pre[list.head] IN
       [head |-> list.head,
        next |-> [list.next EXCEPT ![last] = item, ![item] = list.head],
        pre  |-> [list.pre EXCEPT ![list.head] = item, ![item] = last]]

\* prepend: the item becomes the head, but is linked between the old head
\* and the item after that.
PrependItem(list, item) ==
  IF list.head = INVALID_NODE
  THEN [head |-> item,
        next |-> [list.next EXCEPT ![item] = item],
        pre  |-> [list.pre EXCEPT ![item] = item]]
  ELSE LET first == list.next[list.head] IN
       [head |-> item,
        next |-> [list.next EXCEPT ![list.head] = item, ![item] = first],
        pre  |-> [list.pre EXCEPT ![first] = item, ![item] = list.head]]

\* (a variant: an access does not move the item)
SetLastNever(list, item) == list

\* set_last: move an item of the list to the end.  When the item is the
\* head it is enough to turn the circle by one.
SetLast(list, item) ==
  LET head   == list.head
      last   == list.pre[head]
      next_i == list.next[item]
      pre_i  == list.pre[item]
  IN IF item = head THEN [list EXCEPT !.head = list.next[head]]
     ELSE IF item = last THEN list
     ELSE [head |-> head,
           next |-> [list.next EXCEPT ![last] = item, ![item] = head,
                                      ![pre_i] = next_i],
           pre  |-> [list.pre EXCEPT ![head] = item, ![item] = last,
                                     ![next_i] = pre_i]]

\* set_first: likewise, an item of the list becomes the head.  When it is
\* the item after the head, its links are overwritten with themselves.
SetFirst(list, item) ==
  LET head   == list.head
      first  == list.next[head]
      next_i == list.next[item]
      pre_i  == list.pre[item]
  IN IF item = head THEN list
     ELSE [head |-> item,
           next |-> [list.next EXCEPT ![head] = item, ![item] = first,
                                      ![pre_i] = next_i],
           pre  |-> [list.pre EXCEPT ![first] = item, ![item] = head,
                                     ![next_i] = pre_i]]

=============================================================================
