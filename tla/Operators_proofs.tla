-------------------------- MODULE Operators_proofs --------------------------
(***************************************************************************)
(* Facts about the operators the modules with state are built from: the    *)
(* hash of a key and its probe slots, and the list operations of           *)
(* eviction.cc, for every width of index_type, every hash multiplier,      *)
(* every capacity and every set of pages.                                  *)
(***************************************************************************)
EXTENDS Hashing, EvictionList, Sequences, WellFoundedInduction, FiniteSetTheorems, TLAPS

(* A nonempty set of naturals has a least element.                         *)
LEMMA LeastElement ==
  ASSUME NEW S \in SUBSET Nat, S # {}
  PROVE  \E c \in S : \A d \in S : c <= d
<1> DEFINE R == OpToRel(<, Nat)
<1>1. IsWellFoundedOn(R, Nat)
  BY NatLessThanWellFounded
<1> HIDE DEF R
<1>2. PICK c \in S : \A d \in S : ~ (<<d, c>> \in R)
  BY <1>1, WFMin
<1>3. ASSUME NEW d \in S
      PROVE  c <= d
  <2>1. <<d, c>> \notin R
    BY <1>2
  <2>2. c \in Nat /\ d \in Nat
    OBVIOUS
  <2>3. ~ (d < c)
    BY <2>1, <2>2 DEF R, OpToRel
  <2> QED BY <2>2, <2>3
<1> QED BY <1>3

(* Wrapped arithmetic stays within the range of index_type.                *)
LEMMA WrapType ==
  ASSUME NEW n \in Int
  PROVE  Wrap(n) \in Index
BY IndexAssumption DEF Wrap, Index, INDEX_RANGE

LEMMA MinusType ==
  ASSUME NEW m \in Int, NEW n \in Int
  PROVE  Minus(m, n) \in Index
BY IndexAssumption, WrapType DEF Minus, INDEX_RANGE

(* get_hash never returns one of the two marks of a slot without an entry: *)
(* "modify the hash so that it can't equal EMPTY or DELETED".              *)
THEOREM GetHashIsLive ==
  ASSUME NEW hash \in Index
  PROVE  GetHash(hash) \in Index /\ IsLive(GetHash(hash))
BY IndexAssumption DEF GetHash, IsLive, EMPTY, DELETED, Index, INDEX_RANGE

(* get_step_size is odd, so it is coprime with the capacity of the table.  *)
THEOREM StepIsOdd ==
  ASSUME NEW key_hash \in Index
  PROVE  GetStepSize(key_hash) \in Index /\ GetStepSize(key_hash) % 2 = 1
<1> DEFINE product == Wrap(key_hash * HASH_MULTIPLIER)
<1>1. key_hash * HASH_MULTIPLIER \in Int
  BY HashingAssumption, IndexAssumption DEF Index, INDEX_RANGE
<1>2. product \in Nat
  BY <1>1, WrapType, IndexAssumption DEF Index, INDEX_RANGE
<1> HIDE DEF product
<1>3. GetStepSize(key_hash) = (2 * product + 1) % (2 * HIGH_BIT)
  BY DEF GetStepSize, Wrap, INDEX_RANGE, product
<1>4. HIGH_BIT \in Nat \ {0}
  BY IndexAssumption
<1> DEFINE rest == (2 * product + 1) % (2 * HIGH_BIT)
           quotient == (2 * product + 1) \div (2 * HIGH_BIT)
           half == HIGH_BIT * quotient
<1>5. /\ rest \in 0 .. 2 * HIGH_BIT - 1
      /\ quotient \in Int
      /\ 2 * product + 1 = (2 * HIGH_BIT) * quotient + rest
  BY <1>2, <1>4
<1> HIDE DEF rest, quotient
<1>6. half \in Int /\ (2 * HIGH_BIT) * quotient = 2 * half
  BY <1>4, <1>5
<1> HIDE DEF half
<1>7. rest = 2 * (product - half) + 1
  BY <1>2, <1>4, <1>5, <1>6
<1>8. rest % 2 = 1
  BY <1>2, <1>6, <1>7
<1> QED BY <1>3, <1>5, <1>8 DEF Index, INDEX_RANGE, rest

(* A probe stays within the table.                                         *)
LEMMA ProbeSlotType ==
  ASSUME NEW key_hash \in Index, NEW count \in Int, NEW capacity \in Nat \ {0}
  PROVE  ProbeSlot(key_hash, count, capacity) \in 0 .. capacity - 1
<1> DEFINE sum == key_hash + count * GetStepSize(key_hash)
<1>1. sum \in Int
  BY StepIsOdd, IndexAssumption DEF Index, INDEX_RANGE
<1>2. sum % capacity \in 0 .. capacity - 1
  BY <1>1
<1> QED BY <1>2 DEF ProbeSlot

-----------------------------------------------------------------------------
(* Divisibility.                                                           *)

Multiple(n, d) == \E q \in Int : n = q * d

LEMMA Division ==
  ASSUME NEW n \in Int, NEW d \in Nat \ {0}
  PROVE  n % d \in 0 .. d - 1 /\ \E q \in Int : n = q * d + (n % d)
<1>1. /\ n % d \in 0 .. d - 1 /\ n \div d \in Int
      /\ n = (n \div d) * d + (n % d)
  OBVIOUS
<1> QED BY <1>1

LEMMA ModIsZero ==
  ASSUME NEW n \in Int, NEW d \in Nat \ {0}
  PROVE  n % d = 0 <=> Multiple(n, d)
<1>1. /\ n % d \in 0 .. d - 1 /\ n \div d \in Int
      /\ n = (n \div d) * d + (n % d)
  OBVIOUS
<1>2. ASSUME n % d = 0 PROVE Multiple(n, d)
  <2>1. n = (n \div d) * d
    BY <1>1, <1>2
  <2> QED BY <1>1, <2>1 DEF Multiple
<1>3. ASSUME NEW q \in Int, n = q * d PROVE n % d = 0
  BY <1>3
<1> QED BY <1>2, <1>3 DEF Multiple

LEMMA SameRest ==
  ASSUME NEW m \in Int, NEW n \in Int, NEW d \in Nat \ {0}
  PROVE  m % d = n % d <=> Multiple(m - n, d)
<1> DEFINE a == m \div d
           b == n \div d
           r == m % d
           t == n % d
<1>1. /\ r \in 0 .. d - 1 /\ a \in Int /\ m = a * d + r
      /\ t \in 0 .. d - 1 /\ b \in Int /\ n = b * d + t
  OBVIOUS
<1> HIDE DEF a, b, r, t
<1>2. ASSUME r = t PROVE Multiple(m - n, d)
  <2>1. PICK c \in Int : c = a - b
    BY <1>1
  <2>2. m - n = c * d
    BY <1>1, <1>2, <2>1
  <2> QED BY <2>2 DEF Multiple
<1>3. ASSUME NEW q \in Int, m - n = q * d PROVE r = t
  <2> DEFINE e == q - a + b
  <2>1. r - t = e * d /\ e \in Int
    BY <1>1, <1>3
  <2> HIDE DEF e
  <2>2. r - t < d /\ t - r < d
    BY <1>1
  <2>3. ~(e >= 1)
    <3> SUFFICES ASSUME e >= 1 PROVE FALSE
      OBVIOUS
    <3>1. e * d >= d
      BY <2>1
    <3> QED BY <1>1, <2>1, <2>2, <3>1
  <2>4. ~(e <= -1)
    <3> SUFFICES ASSUME e <= -1 PROVE FALSE
      OBVIOUS
    <3>1. e * d <= -d
      BY <2>1
    <3> QED BY <1>1, <2>1, <2>2, <3>1
  <2>5. e = 0
    BY <2>1, <2>3, <2>4
  <2> QED BY <1>1, <2>1, <2>5
<1> QED BY <1>2, <1>3 DEF Multiple, r, t

LEMMA MultipleTransitive ==
  ASSUME NEW l \in Int, NEW m \in Int, NEW n \in Int, Multiple(l, m), Multiple(m, n)
  PROVE  Multiple(l, n)
<1>1. PICK a \in Int : l = a * m
  BY DEF Multiple
<1>2. PICK b \in Int : m = b * n
  BY DEF Multiple
<1>3. l = (a * b) * n /\ a * b \in Int
  BY <1>1, <1>2
<1> QED BY <1>3 DEF Multiple

(* A divisor of a power of two is one.                                     *)
LEMMA DivisorOfPower ==
  ASSUME NEW m \in Nat, NEW n \in Nat, PowerOfTwo(m), n > 0, Multiple(m, n)
  PROVE  PowerOfTwo(n)
<1> SUFFICES ASSUME NEW d \in 2 .. n, n % d = 0
             PROVE  d % 2 = 0
  BY DEF PowerOfTwo
<1>1. Multiple(n, d)
  BY ModIsZero
<1>2. Multiple(m, d)
  BY <1>1, MultipleTransitive
<1>3. m % d = 0
  BY <1>2, ModIsZero
<1>4. PICK q \in Int : m = q * d
  BY <1>2 DEF Multiple
<1>5. q >= 1
  <2> SUFFICES ASSUME q <= 0 PROVE FALSE
    BY <1>4
  <2>1. q * d <= 0
    OBVIOUS
  <2> QED BY <1>4, <2>1 DEF PowerOfTwo
<1>6. q * d >= d
  BY <1>5
<1>7. d \in 2 .. m
  BY <1>4, <1>6
<1> QED BY <1>3, <1>7 DEF PowerOfTwo

LEMMA PowerDoubled ==
  ASSUME NEW n \in Nat, PowerOfTwo(n)
  PROVE  PowerOfTwo(2 * n)
<1> SUFFICES ASSUME NEW d \in 2 .. 2 * n, (2 * n) % d = 0, d % 2 # 0
             PROVE  FALSE
  BY DEF PowerOfTwo
<1>1. PICK q \in Int : 2 * n = q * d
  BY ModIsZero DEF Multiple
<1>2. PICK e \in Int : d = 2 * e + 1
  BY DEF PowerOfTwo
<1>3. PICK h \in Int : h = n - q * e
  OBVIOUS
<1>4. q = 2 * h
  <2>1. q * d = 2 * (q * e) + q
    BY <1>2
  <2>2. q * e \in Int
    BY <1>2
  <2> QED BY <1>1, <1>3, <2>1, <2>2
<1>5. n = h * d
  <2>1. (2 * h) * d = 2 * (h * d) /\ h * d \in Int
    OBVIOUS
  <2> QED BY <1>1, <1>4, <2>1
<1>6. n % d = 0
  <2>1. Multiple(n, d) /\ d \in Nat \ {0}
    BY <1>5 DEF Multiple
  <2> QED BY <2>1, ModIsZero
<1>7. h >= 1
  <2> SUFFICES ASSUME h <= 0 PROVE FALSE
    OBVIOUS
  <2>1. h * d <= 0
    OBVIOUS
  <2> QED BY <1>5, <2>1 DEF PowerOfTwo
<1>8. h * d >= d
  BY <1>7
<1> QED BY <1>5, <1>6, <1>8 DEF PowerOfTwo

(* An odd factor does not help a product to become a multiple of a power   *)
(* of two.  By halving the smallest counterexample.                        *)
LEMMA OddFactor ==
  ASSUME NEW s \in Int, s % 2 = 1, NEW n \in Nat, PowerOfTwo(n),
         NEW d \in Int, Multiple(s * d, n)
  PROVE  Multiple(d, n)
<1> DEFINE Bad == {m \in Nat : /\ PowerOfTwo(m)
                               /\ \E x \in Int : Multiple(s * x, m) /\ ~Multiple(x, m)}
<1> SUFFICES ASSUME Bad # {} PROVE FALSE
  OBVIOUS
<1>1. PICK m \in Bad : \A l \in Bad : m <= l
  BY LeastElement
<1>2. PICK x \in Int : Multiple(s * x, m) /\ ~Multiple(x, m)
  BY <1>1
<1>3. m \in Nat /\ m > 0 /\ PowerOfTwo(m)
  BY <1>1 DEF PowerOfTwo
<1>4. m # 1
  <2>1. x = x * 1
    OBVIOUS
  <2> QED BY <1>2, <2>1 DEF Multiple
<1>5. m % m = 0 /\ m \in 2 .. m
  BY <1>3, <1>4
<1>6. m % 2 = 0
  BY <1>3, <1>5 DEF PowerOfTwo
<1>7. PICK h \in Nat : m = 2 * h /\ h > 0 /\ h < m
  BY <1>3, <1>6
<1>8. PowerOfTwo(h)
  <2>1. m = 2 * h /\ 2 \in Int
    BY <1>7
  <2>2. Multiple(m, h)
    BY <2>1 DEF Multiple
  <2> QED BY <1>3, <1>7, <2>2, DivisorOfPower
<1>9. PICK e \in Int : s = 2 * e + 1
  OBVIOUS
<1>10. PICK q \in Int : s * x = q * m
  BY <1>2 DEF Multiple
<1>11. PICK y \in Int : y = q * h - e * x
  BY <1>7, <1>9
<1>12. x = 2 * y
  <2>1. s * x = 2 * (e * x) + x /\ e * x \in Int
    BY <1>9
  <2>2. q * m = 2 * (q * h) /\ q * h \in Int
    BY <1>7
  <2> QED BY <1>10, <1>11, <2>1, <2>2
<1>13. s * y = q * h
  <2>1. s * x = 2 * (s * y) /\ s * y \in Int
    BY <1>12
  <2>2. q * m = 2 * (q * h) /\ q * h \in Int
    BY <1>7
  <2> QED BY <1>10, <2>1, <2>2
<1>14. Multiple(s * y, h)
  BY <1>13 DEF Multiple
<1>15. Multiple(y, h)
  BY <1>1, <1>7, <1>8, <1>14
<1>16. PICK r \in Int : y = r * h
  BY <1>15 DEF Multiple
<1>17. x = r * m
  BY <1>7, <1>12, <1>16
<1> QED BY <1>2, <1>17 DEF Multiple

-----------------------------------------------------------------------------
(* The walk over a table whose capacity is a power of two.                 *)

(* Two probes of a walk over capacity slots never meet.                    *)
LEMMA ProbesDistinct ==
  ASSUME NEW key_hash \in Index, NEW capacity \in Nat, PowerOfTwo(capacity),
         NEW b \in 0 .. capacity - 1, NEW c \in 0 .. capacity - 1,
         ProbeSlot(key_hash, b, capacity) = ProbeSlot(key_hash, c, capacity)
  PROVE  b = c
<1> DEFINE s == GetStepSize(key_hash)
<1>1. s \in Nat /\ s % 2 = 1 /\ key_hash \in Int /\ capacity \in Nat \ {0}
  BY StepIsOdd, IndexAssumption DEF Index, INDEX_RANGE, PowerOfTwo
<1> DEFINE m == key_hash + b * s
           n == key_hash + c * s
<1>2. m \in Int /\ n \in Int /\ m % capacity = n % capacity
  BY <1>1 DEF ProbeSlot
<1> HIDE DEF s
<1>3. m - n = s * (b - c)
  <2>1. b * s \in Int /\ c * s \in Int /\ s * (b - c) = b * s - c * s
    BY <1>1
  <2> QED BY <1>1, <2>1
<1> HIDE DEF m, n
<1>4. Multiple(s * (b - c), capacity)
  BY <1>1, <1>2, <1>3, SameRest
<1>5. b - c \in Int
  OBVIOUS
<1>6. Multiple(b - c, capacity)
  BY <1>1, <1>4, <1>5, OddFactor
<1>7. PICK q \in Int : b - c = q * capacity
  BY <1>6 DEF Multiple
<1>8. ~(q >= 1)
  <2> SUFFICES ASSUME q >= 1 PROVE FALSE
    OBVIOUS
  <2>1. q * capacity >= capacity
    BY <1>1
  <2> QED BY <1>7, <2>1
<1>9. ~(q <= -1)
  <2> SUFFICES ASSUME q <= -1 PROVE FALSE
    OBVIOUS
  <2>1. q * capacity <= -capacity
    BY <1>1
  <2> QED BY <1>7, <2>1
<1>10. q = 0
  BY <1>8, <1>9
<1> QED BY <1>1, <1>7, <1>10

(* A walk over capacity slots reaches every slot of the table: a lookup    *)
(* that ends without an answer has seen all entries.                       *)
THEOREM ProbesReachAll ==
  ASSUME NEW key_hash \in Index, NEW capacity \in Nat, PowerOfTwo(capacity),
         NEW i \in 0 .. capacity - 1
  PROVE  \E c \in 0 .. capacity - 1 : ProbeSlot(key_hash, c, capacity) = i
<1> DEFINE S == 0 .. capacity - 1
           T == S \ {i}
           f == [c \in S |-> ProbeSlot(key_hash, c, capacity)]
<1> SUFFICES ASSUME \A c \in S : f[c] # i PROVE FALSE
  OBVIOUS
<1>1. capacity \in Nat \ {0}
  BY DEF PowerOfTwo
<1>2. \A c \in S : ProbeSlot(key_hash, c, capacity) \in S
  BY <1>1, ProbeSlotType
<1>3. f \in [S -> T]
  BY <1>2
<1>4. \A b, c \in S : f[b] = f[c] => b = c
  BY ProbesDistinct
<1>5. IsFiniteSet(S) /\ Cardinality(S) \in Nat
  <2>1. 0 \in Int /\ capacity - 1 \in Int
    BY <1>1
  <2> QED BY <2>1, FS_Interval, FS_CardinalityType
<1>6. IsFiniteSet(T) /\ Cardinality(T) = Cardinality(S) - 1
  BY <1>5, FS_RemoveElement
<1> HIDE DEF S, T, f
<1>7. Cardinality(T) < Cardinality(S)
  BY <1>5, <1>6
<1>8. \E b, c \in S : b # c /\ f[b] = f[c]
  BY <1>3, <1>5, <1>6, <1>7, FS_PigeonHole
<1> QED BY <1>4, <1>8

(* One iteration of the loop: the sum wraps around at the range of Index,  *)
(* of which the capacity is a divisor, so nothing is lost.                 *)
LEMMA ProbeNext ==
  ASSUME NEW key_hash \in Index, NEW count \in Nat,
         NEW capacity \in Nat \ {0}, Multiple(INDEX_RANGE, capacity)
  PROVE  Wrap(ProbeSlot(key_hash, count, capacity) + GetStepSize(key_hash)) % capacity
         = ProbeSlot(key_hash, count + 1, capacity)
<1> DEFINE s == GetStepSize(key_hash)
           m == key_hash + count * s
           e == m % capacity
           w == (e + s) % INDEX_RANGE
           n == key_hash + (count + 1) * s
<1>1. s \in Nat /\ key_hash \in Int /\ INDEX_RANGE \in Nat \ {0}
  BY StepIsOdd, IndexAssumption DEF Index, INDEX_RANGE
<1> HIDE DEF s
<1>2. m \in Int /\ n = m + s /\ n \in Int
  <2>1. count * s \in Int /\ (count + 1) * s = count * s + s
    BY <1>1
  <2> QED BY <1>1, <2>1
<1> HIDE DEF m, n
<1>3. PICK a \in Int : m = a * capacity + e
  BY <1>2, Division
<1>4. e \in Int
  BY <1>2
<1> HIDE DEF e
<1>5. e + s \in Int
  BY <1>1, <1>4
<1>6. w \in Int /\ \E b \in Int : e + s = b * INDEX_RANGE + w
  <2> DEFINE x == e + s
  <2>1. x \in Int
    BY <1>5
  <2> HIDE DEF x
  <2>2. x % INDEX_RANGE \in 0 .. INDEX_RANGE - 1
        /\ \E b \in Int : x = b * INDEX_RANGE + (x % INDEX_RANGE)
    BY <1>1, <2>1, Division
  <2>3. w = x % INDEX_RANGE
    BY DEF x
  <2>4. x % INDEX_RANGE \in Int
    BY <1>1, <2>2
  <2>5. \E b \in Int : x = b * INDEX_RANGE + w
    BY <2>2, <2>3
  <2> QED BY <2>3, <2>4, <2>5 DEF x
<1>7. PICK b \in Int : e + s = b * INDEX_RANGE + w
  BY <1>6
<1> HIDE DEF w
<1>8. PICK r \in Int : INDEX_RANGE = r * capacity
  BY DEF Multiple
<1>9. PICK t \in Int : t = a + b * r
  OBVIOUS
<1>10. n - w = t * capacity
  <2>1. b * INDEX_RANGE = (b * r) * capacity
    BY <1>8
  <2>2. t * capacity = a * capacity + (b * r) * capacity /\ b * r \in Int
    BY <1>9
  <2>3. (b * r) * capacity \in Int /\ a * capacity \in Int
    OBVIOUS
  <2> HIDE <1>8, <1>9
  <2> QED BY <1>1, <1>2, <1>3, <1>4, <1>6, <1>7, <2>1, <2>2, <2>3
<1>11. n % capacity = w % capacity
  <2>1. Multiple(n - w, capacity)
    BY <1>10 DEF Multiple
  <2>2. capacity \in Nat \ {0}
    OBVIOUS
  <2>3. n \in Int /\ w \in Int
    BY <1>2, <1>6
  <2>4. n % capacity = w % capacity <=> Multiple(n - w, capacity)
    BY ONLY <2>2, <2>3, SameRest
  <2> QED BY ONLY <2>1, <2>4
<1> QED BY <1>11 DEF Wrap, ProbeSlot, s, m, n, e, w

-----------------------------------------------------------------------------
(* What the list operations preserve for every list, however damaged:      *)
(* links never lead out of the set of initialised nodes.                   *)

(* list is a list over the given pages, of which those in nodes have been  *)
(* initialised by append, and no link of an initialised node leaves nodes. *)
ClosedList(list, pages, nodes) ==
  /\ list \in [head : nodes \cup {INVALID_NODE},
               next : [pages -> pages \cup {JUNK}],
               pre : [pages -> pages \cup {JUNK}]]
  /\ nodes \subseteq pages
  /\ \A p \in nodes : list.next[p] \in nodes /\ list.pre[p] \in nodes

(* A list that results from overwriting links with initialised nodes.      *)
LEMMA Relinked ==
  ASSUME NEW pages, NEW nodes \in SUBSET pages,
         NEW head \in nodes \cup {INVALID_NODE},
         NEW next \in [pages -> pages \cup {JUNK}],
         NEW pre \in [pages -> pages \cup {JUNK}],
         \A p \in nodes : next[p] \in nodes /\ pre[p] \in nodes
  PROVE  ClosedList([head |-> head, next |-> next, pre |-> pre], pages, nodes)
BY DEF ClosedList

LEMMA RemoveNodeClosed ==
  ASSUME NEW pages, NEW nodes, NEW list, ClosedList(list, pages, nodes),
         NEW item \in nodes, NEW at \in nodes
  PROVE  ClosedList(RemoveNode(list, item, at), pages, nodes)
<1> DEFINE next_i == list.next[at]
           pre_i  == list.pre[at]
           head   == IF list.head = item THEN next_i ELSE list.head
           next   == [list.next EXCEPT ![pre_i] = next_i]
           pre    == [list.pre EXCEPT ![next_i] = pre_i]
<1>1. /\ nodes \subseteq pages /\ next_i \in nodes /\ pre_i \in nodes
      /\ list.head \in nodes \cup {INVALID_NODE}
      /\ list.next \in [pages -> pages \cup {JUNK}]
      /\ list.pre \in [pages -> pages \cup {JUNK}]
      /\ \A p \in nodes : list.next[p] \in nodes /\ list.pre[p] \in nodes
  BY DEF ClosedList
<1>2. CASE list.head = item /\ next_i = item
  <2>1. RemoveNode(list, item, at) = [list EXCEPT !.head = INVALID_NODE]
    BY <1>2 DEF RemoveNode
  <2> QED BY <2>1 DEF ClosedList
<1>3. CASE ~ (list.head = item /\ next_i = item)
  <2>1. RemoveNode(list, item, at) = [head |-> head, next |-> next, pre |-> pre]
    BY <1>3 DEF RemoveNode
  <2>2. head \in nodes \cup {INVALID_NODE}
    BY <1>1
  <2> HIDE DEF next_i, pre_i, head
  <2>3. next \in [pages -> pages \cup {JUNK}] /\ \A p \in nodes : next[p] \in nodes
    BY <1>1
  <2>4. pre \in [pages -> pages \cup {JUNK}] /\ \A p \in nodes : pre[p] \in nodes
    BY <1>1
  <2> HIDE DEF next, pre
  <2>5. ClosedList([head |-> head, next |-> next, pre |-> pre], pages, nodes)
    BY <1>1, <2>2, <2>3, <2>4, Relinked
  <2> QED BY <2>1, <2>5
<1> QED BY <1>2, <1>3

LEMMA RemoveItemClosed ==
  ASSUME NEW pages, NEW nodes, NEW list, ClosedList(list, pages, nodes),
         NEW item \in nodes
  PROVE  ClosedList(RemoveItem(list, item), pages, nodes)
BY RemoveNodeClosed DEF RemoveItem

(* Appending initialises the node of the item.                             *)
LEMMA AppendItemClosed ==
  ASSUME NEW pages, NEW nodes, NEW list, ClosedList(list, pages, nodes),
         NEW item \in pages
  PROVE  ClosedList(AppendItem(list, item), pages, nodes \cup {item})
<1> DEFINE all  == nodes \cup {item}
           head == list.head
           last == list.pre[head]
<1>1. /\ nodes \subseteq pages /\ all \subseteq pages
      /\ head \in nodes \cup {INVALID_NODE}
      /\ list.next \in [pages -> pages \cup {JUNK}]
      /\ list.pre \in [pages -> pages \cup {JUNK}]
      /\ \A p \in nodes : list.next[p] \in nodes /\ list.pre[p] \in nodes
  BY DEF ClosedList
<1>2. CASE head = INVALID_NODE
  <2> DEFINE next == [list.next EXCEPT ![item] = item]
             pre  == [list.pre EXCEPT ![item] = item]
  <2>1. AppendItem(list, item) = [head |-> item, next |-> next, pre |-> pre]
    BY <1>2 DEF AppendItem
  <2>2. /\ \A p \in all \ {item} : list.next[p] \in all /\ list.pre[p] \in all
        /\ item \in all
    BY <1>1
  <2>3. next \in [pages -> pages \cup {JUNK}] /\ \A p \in all : next[p] \in all
    BY <1>1, <2>2
  <2>4. pre \in [pages -> pages \cup {JUNK}] /\ \A p \in all : pre[p] \in all
    BY <1>1, <2>2
  <2> HIDE DEF next, pre
  <2>5. item \in all \cup {INVALID_NODE}
    OBVIOUS
  <2> HIDE DEF all
  <2>6. ClosedList([head |-> item, next |-> next, pre |-> pre], pages, all)
    BY <1>1, <2>3, <2>4, <2>5, Relinked
  <2> QED BY <2>1, <2>6 DEF all
<1>3. CASE head # INVALID_NODE
  <2> DEFINE next == [list.next EXCEPT ![last] = item, ![item] = head]
             pre  == [list.pre EXCEPT ![head] = item, ![item] = last]
  <2>1. AppendItem(list, item) = [head |-> head, next |-> next, pre |-> pre]
    BY <1>3 DEF AppendItem
  <2>2. head \in nodes /\ last \in nodes
    BY <1>1, <1>3
  <2>3. next \in [pages -> pages \cup {JUNK}] /\ \A p \in all : next[p] \in all
    BY <1>1, <2>2
  <2>4. pre \in [pages -> pages \cup {JUNK}] /\ \A p \in all : pre[p] \in all
    BY <1>1, <2>2
  <2>5. head \in all \cup {INVALID_NODE}
    BY <1>1
  <2> HIDE DEF next, pre, head, last
  <2> HIDE DEF all
  <2>6. ClosedList([head |-> head, next |-> next, pre |-> pre], pages, all)
    BY <1>1, <2>3, <2>4, <2>5, Relinked
  <2> QED BY <2>1, <2>6 DEF all
<1> QED BY <1>2, <1>3

LEMMA SetLastClosed ==
  ASSUME NEW pages, NEW nodes, NEW list, ClosedList(list, pages, nodes),
         NEW item \in nodes, list.head # INVALID_NODE
  PROVE  ClosedList(SetLast(list, item), pages, nodes)
<1> DEFINE head   == list.head
           last   == list.pre[head]
           next_i == list.next[item]
           pre_i  == list.pre[item]
           next   == [list.next EXCEPT ![last] = item, ![item] = head, ![pre_i] = next_i]
           pre    == [list.pre EXCEPT ![head] = item, ![item] = last, ![next_i] = pre_i]
<1>1. /\ nodes \subseteq pages
      /\ head \in nodes /\ last \in nodes /\ next_i \in nodes /\ pre_i \in nodes
      /\ list.next \in [pages -> pages \cup {JUNK}]
      /\ list.pre \in [pages -> pages \cup {JUNK}]
      /\ \A p \in nodes : list.next[p] \in nodes /\ list.pre[p] \in nodes
  BY DEF ClosedList
<1>2. CASE item = head
  <2>1. SetLast(list, item) = [list EXCEPT !.head = list.next[head]]
    BY <1>2 DEF SetLast
  <2> QED BY <1>1, <2>1 DEF ClosedList
<1>3. CASE item # head /\ item = last
  BY <1>3 DEF SetLast
<1>4. CASE item # head /\ item # last
  <2>1. SetLast(list, item) = [head |-> head, next |-> next, pre |-> pre]
    BY <1>4 DEF SetLast
  <2> HIDE DEF head, last, next_i, pre_i
  <2>2. next \in [pages -> pages \cup {JUNK}] /\ \A p \in nodes : next[p] \in nodes
    BY <1>1
  <2>3. pre \in [pages -> pages \cup {JUNK}] /\ \A p \in nodes : pre[p] \in nodes
    BY <1>1
  <2>4. head \in nodes \cup {INVALID_NODE}
    BY <1>1 DEF head
  <2> HIDE DEF next, pre
  <2>5. ClosedList([head |-> head, next |-> next, pre |-> pre], pages, nodes)
    BY <1>1, <2>2, <2>3, <2>4, Relinked
  <2> QED BY <2>1, <2>5
<1> QED BY <1>2, <1>3, <1>4

LEMMA PrependItemClosed ==
  ASSUME NEW pages, NEW nodes, NEW list, ClosedList(list, pages, nodes),
         NEW item \in pages
  PROVE  ClosedList(PrependItem(list, item), pages, nodes \cup {item})
<1> DEFINE all   == nodes \cup {item}
           head  == list.head
           first == list.next[head]
<1>1. /\ nodes \subseteq pages /\ all \subseteq pages
      /\ head \in nodes \cup {INVALID_NODE}
      /\ list.next \in [pages -> pages \cup {JUNK}]
      /\ list.pre \in [pages -> pages \cup {JUNK}]
      /\ \A p \in nodes : list.next[p] \in nodes /\ list.pre[p] \in nodes
  BY DEF ClosedList
<1>2. CASE head = INVALID_NODE
  <2>1. PrependItem(list, item) = AppendItem(list, item)
    BY <1>2 DEF AppendItem, PrependItem
  <2> QED BY <2>1, AppendItemClosed
<1>3. CASE head # INVALID_NODE
  <2> DEFINE next == [list.next EXCEPT ![head] = item, ![item] = first]
             pre  == [list.pre EXCEPT ![first] = item, ![item] = head]
  <2>1. PrependItem(list, item) = [head |-> item, next |-> next, pre |-> pre]
    BY <1>3 DEF PrependItem
  <2>2. head \in nodes /\ first \in nodes
    BY <1>1, <1>3
  <2>3. next \in [pages -> pages \cup {JUNK}] /\ \A p \in all : next[p] \in all
    BY <1>1, <2>2
  <2>4. pre \in [pages -> pages \cup {JUNK}] /\ \A p \in all : pre[p] \in all
    BY <1>1, <2>2
  <2>5. item \in all \cup {INVALID_NODE}
    OBVIOUS
  <2> HIDE DEF next, pre, head, first
  <2> HIDE DEF all
  <2>6. ClosedList([head |-> item, next |-> next, pre |-> pre], pages, all)
    BY <1>1, <2>3, <2>4, <2>5, Relinked
  <2> QED BY <2>1, <2>6 DEF all
<1> QED BY <1>2, <1>3

LEMMA SetFirstClosed ==
  ASSUME NEW pages, NEW nodes, NEW list, ClosedList(list, pages, nodes),
         NEW item \in nodes, list.head # INVALID_NODE
  PROVE  ClosedList(SetFirst(list, item), pages, nodes)
<1> DEFINE head   == list.head
           first  == list.next[head]
           next_i == list.next[item]
           pre_i  == list.pre[item]
           next   == [list.next EXCEPT ![head] = item, ![item] = first, ![pre_i] = next_i]
           pre    == [list.pre EXCEPT ![first] = item, ![item] = head, ![next_i] = pre_i]
<1>1. /\ nodes \subseteq pages
      /\ head \in nodes /\ first \in nodes /\ next_i \in nodes /\ pre_i \in nodes
      /\ list.next \in [pages -> pages \cup {JUNK}]
      /\ list.pre \in [pages -> pages \cup {JUNK}]
      /\ \A p \in nodes : list.next[p] \in nodes /\ list.pre[p] \in nodes
  BY DEF ClosedList
<1>2. CASE item = head
  BY <1>2 DEF SetFirst
<1>3. CASE item # head
  <2>1. SetFirst(list, item) = [head |-> item, next |-> next, pre |-> pre]
    BY <1>3 DEF SetFirst
  <2> HIDE DEF head, first, next_i, pre_i
  <2>2. next \in [pages -> pages \cup {JUNK}] /\ \A p \in nodes : next[p] \in nodes
    BY <1>1
  <2>3. pre \in [pages -> pages \cup {JUNK}] /\ \A p \in nodes : pre[p] \in nodes
    BY <1>1
  <2> HIDE DEF next, pre
  <2>4. ClosedList([head |-> item, next |-> next, pre |-> pre], pages, nodes)
    BY <1>1, <2>2, <2>3, Relinked
  <2> QED BY <2>1, <2>4
<1> QED BY <1>2, <1>3

-----------------------------------------------------------------------------
(* What the operations make of a list that is intact: one circle.          *)

\* The n places of a circle, and the places before and after one of them.
After(i, n)  == IF i = n THEN 1 ELSE i + 1
Before(i, n) == IF i = 1 THEN n ELSE i - 1

\* s gives the items in S in the order of their links, the head first.
IsCircle(list, S, s, n) ==
  /\ \A i, j \in 1 .. n : s[i] = s[j] => i = j
  /\ \A p \in S : \E i \in 1 .. n : s[i] = p
  /\ list.head = IF n = 0 THEN INVALID_NODE ELSE s[1]
  /\ \A i \in 1 .. n : /\ list.next[s[i]] = s[After(i, n)]
                       /\ list.pre[s[i]] = s[Before(i, n)]

\* list is one circle through exactly the items in S.
Circle(list, pages, S) ==
  /\ S \subseteq pages /\ INVALID_NODE \notin pages
  /\ list \in [head : pages \cup {INVALID_NODE},
               next : [pages -> pages \cup {JUNK}],
               pre : [pages -> pages \cup {JUNK}]]
  /\ \E n \in Nat : \E s \in [1 .. n -> S] : IsCircle(list, S, s, n)

\* s gives the order of that circle.
Order(list, S, s, n) == n \in Nat /\ s \in [1 .. n -> S] /\ IsCircle(list, S, s, n)

LEMMA CircleHasOrder ==
  ASSUME NEW pages, NEW S, NEW list, Circle(list, pages, S)
  PROVE  \E n \in Nat : \E s : Order(list, S, s, n)
<1>1. PICK n \in Nat : \E s \in [1 .. n -> S] : IsCircle(list, S, s, n)
  BY DEF Circle
<1>2. PICK s \in [1 .. n -> S] : IsCircle(list, S, s, n)
  BY <1>1
<1> QED BY <1>2 DEF Order

LEMMA CircleEmpty ==
  ASSUME NEW pages, INVALID_NODE \notin pages
  PROVE  Circle(EmptyList(pages), pages, {})
<1>1. PICK s : s \in [1 .. 0 -> {}]
  BY [i \in 1 .. 0 |-> i] \in [1 .. 0 -> {}]
<1>2. IsCircle(EmptyList(pages), {}, s, 0)
  BY DEF IsCircle, EmptyList
<1> QED BY <1>1, <1>2 DEF Circle, EmptyList

LEMMA CircleHead ==
  ASSUME NEW pages, NEW S, NEW list, Circle(list, pages, S)
  PROVE  /\ list.head = INVALID_NODE <=> S = {}
         /\ list.head # INVALID_NODE => list.head \in S
<1>1. PICK n \in Nat : \E s \in [1 .. n -> S] : IsCircle(list, S, s, n)
  BY DEF Circle
<1>2. PICK s \in [1 .. n -> S] : IsCircle(list, S, s, n)
  BY <1>1
<1>3. CASE n = 0
  BY <1>2, <1>3 DEF IsCircle
<1>4. CASE n # 0
  <2>1. 1 \in 1 .. n /\ list.head = s[1]
    BY <1>2, <1>4 DEF IsCircle
  <2> QED BY <1>2, <2>1 DEF Circle
<1> QED BY <1>3, <1>4

(* Removing any item of the circle leaves the circle of the others.        *)
Dropped(s, j, n) == [i \in 1 .. n - 1 |-> s[IF i < j THEN i ELSE i + 1]]

LEMMA RemoveOrder ==
  ASSUME NEW pages, NEW S, NEW list, Circle(list, pages, S), NEW x \in S,
         NEW n \in Nat, NEW s, Order(list, S, s, n), NEW j \in 1 .. n, s[j] = x
  PROVE  /\ Circle(RemoveItem(list, x), pages, S \ {x})
         /\ Order(RemoveItem(list, x), S \ {x}, Dropped(s, j, n), n - 1)
<1>2. n \in Nat /\ s \in [1 .. n -> S] /\ IsCircle(list, S, s, n)
  BY DEF Order
<1>3. j \in 1 .. n /\ s[j] = x
  OBVIOUS
<1> DEFINE l == RemoveItem(list, x)
           m == n - 1
           place == [i \in 1 .. m |-> IF i < j THEN i ELSE i + 1]
           t == [i \in 1 .. m |-> s[IF i < j THEN i ELSE i + 1]]
           a == s[Before(j, n)]
           b == s[After(j, n)]
<1>4. /\ m \in Nat /\ Before(j, n) \in 1 .. n /\ After(j, n) \in 1 .. n
      /\ list.next[x] = b /\ list.pre[x] = a
  BY <1>2, <1>3 DEF IsCircle, Before, After
<1>5. \A i \in 1 .. m : place[i] \in 1 .. n /\ place[i] # j
  BY <1>3
<1> t = Dropped(s, j, n) /\ \A i \in 1 .. m : t[i] = s[place[i]]
  BY DEF Dropped
<1>6. t \in [1 .. m -> S \ {x}]
  BY <1>2, <1>3, <1>5 DEF IsCircle
<1>7. \A i, k \in 1 .. m : t[i] = t[k] => i = k
  <2> SUFFICES ASSUME NEW i \in 1 .. m, NEW k \in 1 .. m, t[i] = t[k] PROVE i = k
    OBVIOUS
  <2>1. place[i] = place[k]
    BY <1>2, <1>5 DEF IsCircle
  <2> QED BY <1>3, <2>1
<1>8. \A p \in S \ {x} : \E i \in 1 .. m : t[i] = p
  <2> SUFFICES ASSUME NEW p \in S \ {x} PROVE \E i \in 1 .. m : t[i] = p
    OBVIOUS
  <2>1. PICK i \in 1 .. n : s[i] = p /\ i # j
    BY <1>2, <1>3 DEF IsCircle
  <2>2. CASE i < j
    <3>1. i \in 1 .. m /\ place[i] = i
      BY <1>3, <2>2
    <3> QED BY <2>1, <3>1
  <2>3. CASE i > j
    <3>1. i - 1 \in 1 .. m /\ place[i - 1] = i
      BY <1>3, <2>3
    <3> QED BY <2>1, <3>1
  <2> QED BY <1>3, <2>1, <2>2, <2>3
<1>9. CASE n = 1
  <2>1. list.head = x /\ b = x /\ m = 0
    BY <1>2, <1>3, <1>9 DEF IsCircle, After
  <2>2. l = [list EXCEPT !.head = INVALID_NODE]
    BY <1>4, <2>1 DEF RemoveItem, RemoveNode
  <2>3. IsCircle(l, S \ {x}, t, m)
    <3>1. l.head = INVALID_NODE
      BY <2>2 DEF Circle
    <3> HIDE DEF l, t, m
    <3> QED BY <1>7, <1>8, <2>1, <3>1 DEF IsCircle
  <2>4. l \in [head : pages \cup {INVALID_NODE},
              next : [pages -> pages \cup {JUNK}], pre : [pages -> pages \cup {JUNK}]]
    BY <2>2 DEF Circle
  <2> HIDE DEF l, t, m
  <2> QED BY <1>4, <1>6, <2>3, <2>4 DEF Circle, Order, l, t, m
<1>10. CASE n # 1
  <2>1. n > 1 /\ b # x /\ a # x /\ a \in pages /\ b \in pages
    <3>1. n > 1
      BY <1>3, <1>10
    <3>2. After(j, n) # j /\ Before(j, n) # j
      BY <1>3, <3>1 DEF After, Before
    <3>3. b # x /\ a # x
      BY <1>2, <1>3, <1>4, <3>2 DEF IsCircle
    <3> QED BY <1>2, <1>4, <3>1, <3>3 DEF Circle
  <2>2. l = [head |-> IF list.head = x THEN b ELSE list.head,
             next |-> [list.next EXCEPT ![a] = b],
             pre  |-> [list.pre EXCEPT ![b] = a]]
    BY <1>4, <2>1 DEF RemoveItem, RemoveNode
  <2>3. l \in [head : pages \cup {INVALID_NODE},
              next : [pages -> pages \cup {JUNK}], pre : [pages -> pages \cup {JUNK}]]
    BY <2>1, <2>2 DEF Circle
  <2>4. /\ \A q \in pages : l.next[q] = IF q = a THEN b ELSE list.next[q]
        /\ \A q \in pages : l.pre[q] = IF q = b THEN a ELSE list.pre[q]
        /\ l.head = IF list.head = x THEN b ELSE list.head
    BY <2>2 DEF Circle
  <2>5. \A i \in 1 .. n : s[i] \in pages
    BY <1>2 DEF Circle
  <2> HIDE DEF l
  <2>6. l.head = IF m = 0 THEN INVALID_NODE ELSE t[1]
    <3>1. list.head = s[1] /\ 1 \in 1 .. m /\ (list.head = x <=> j = 1)
      BY <1>2, <1>3, <2>1 DEF IsCircle
    <3> QED BY <1>3, <2>1, <2>4, <3>1 DEF After
  <2>7. ASSUME NEW i \in 1 .. m
        PROVE  l.next[t[i]] = t[After(i, m)]
    <3>1. After(i, m) \in 1 .. m
      BY <1>4 DEF After
    <3>2. l.next[s[place[i]]] = IF place[i] = Before(j, n) THEN b
                                ELSE s[After(place[i], n)]
      BY <1>2, <1>4, <1>5, <2>4, <2>5 DEF IsCircle
    <3>3. place[i] = Before(j, n) => place[After(i, m)] = After(j, n)
      BY <1>3, <2>1, <3>1 DEF After, Before
    <3>4. place[i] # Before(j, n) => place[After(i, m)] = After(place[i], n)
      BY <1>3, <2>1, <3>1 DEF After, Before
    <3> HIDE DEF place
    <3> QED BY <3>1, <3>2, <3>3, <3>4
  <2>8. ASSUME NEW i \in 1 .. m
        PROVE  l.pre[t[i]] = t[Before(i, m)]
    <3>1. Before(i, m) \in 1 .. m
      BY <1>4 DEF Before
    <3>2. l.pre[s[place[i]]] = IF place[i] = After(j, n) THEN a
                               ELSE s[Before(place[i], n)]
      BY <1>2, <1>4, <1>5, <2>4, <2>5 DEF IsCircle
    <3>3. place[i] = After(j, n) => place[Before(i, m)] = Before(j, n)
      BY <1>3, <2>1, <3>1 DEF After, Before
    <3>4. place[i] # After(j, n) => place[Before(i, m)] = Before(place[i], n)
      BY <1>3, <2>1, <3>1 DEF After, Before
    <3> HIDE DEF place
    <3> QED BY <3>1, <3>2, <3>3, <3>4
  <2> HIDE DEF t, m
  <2>9. IsCircle(l, S \ {x}, t, m)
    BY <1>7, <1>8, <2>6, <2>7, <2>8 DEF IsCircle
  <2> QED BY <1>4, <1>6, <2>3, <2>9 DEF Circle, Order, l, t, m
<1> QED BY <1>9, <1>10

LEMMA RemoveCircle ==
  ASSUME NEW pages, NEW S, NEW list, Circle(list, pages, S), NEW x \in S
  PROVE  Circle(RemoveItem(list, x), pages, S \ {x})
<1>1. PICK n \in Nat : \E s : Order(list, S, s, n)
  BY CircleHasOrder
<1>2. PICK s : Order(list, S, s, n)
  BY <1>1
<1>3. PICK j \in 1 .. n : s[j] = x
  BY <1>2 DEF Order, IsCircle
<1> QED BY <1>2, <1>3, RemoveOrder

(* get_evict_item takes the head off and remove_entry removes it again: as *)
(* nothing of its node is reset, the second removal changes nothing.       *)
LEMMA RemoveHeadTwice ==
  ASSUME NEW pages, NEW S, NEW list, Circle(list, pages, S), list.head # INVALID_NODE
  PROVE  RemoveItem(RemoveItem(list, list.head), list.head) = RemoveItem(list, list.head)
<1>1. PICK n \in Nat : \E s \in [1 .. n -> S] : IsCircle(list, S, s, n)
  BY DEF Circle
<1>2. PICK s \in [1 .. n -> S] : IsCircle(list, S, s, n)
  BY <1>1
<1> DEFINE x == list.head
           l == RemoveItem(list, x)
           a == list.pre[x]
           b == list.next[x]
<1>3. /\ 1 \in 1 .. n /\ s[1] = x /\ Before(1, n) \in 1 .. n /\ After(1, n) \in 1 .. n
      /\ b = s[After(1, n)] /\ a = s[Before(1, n)]
  BY <1>2 DEF IsCircle, Before, After
<1>4. x \in pages /\ a \in pages /\ b \in pages /\ INVALID_NODE # x
  BY <1>2, <1>3 DEF Circle
<1>5. /\ list.next \in [pages -> pages \cup {JUNK}]
      /\ list.pre \in [pages -> pages \cup {JUNK}]
      /\ list = [head |-> list.head, next |-> list.next, pre |-> list.pre]
  BY DEF Circle
<1>6. CASE b = x
  <2>1. a = x
    BY <1>2, <1>3, <1>6 DEF IsCircle, Before, After
  <2>2. l = [head |-> INVALID_NODE, next |-> list.next, pre |-> list.pre]
    BY <1>5, <1>6 DEF RemoveItem, RemoveNode
  <2>3. l.head # x /\ l.next[x] = x /\ l.pre[x] = x
    BY <1>4, <1>6, <2>1, <2>2
  <2>4. RemoveItem(l, x) = [head |-> l.head, next |-> [l.next EXCEPT ![x] = x],
                            pre |-> [l.pre EXCEPT ![x] = x]]
    BY <2>3 DEF RemoveItem, RemoveNode
  <2>5. [l.next EXCEPT ![x] = x] = l.next /\ [l.pre EXCEPT ![x] = x] = l.pre
    BY <1>4, <1>5, <2>2, <2>3
  <2> QED BY <2>2, <2>4, <2>5
<1>7. CASE b # x
  <2>1. a # x
    <3>1. After(1, n) # 1
      BY <1>3, <1>7
    <3>2. Before(1, n) # 1
      BY <1>3, <3>1 DEF After, Before
    <3> QED BY <1>2, <1>3, <3>2 DEF IsCircle
  <2>2. l = [head |-> b, next |-> [list.next EXCEPT ![a] = b],
             pre |-> [list.pre EXCEPT ![b] = a]]
    BY <1>7 DEF RemoveItem, RemoveNode
  <2>3. /\ l.head # x /\ l.next[x] = b /\ l.pre[x] = a
        /\ l.next[a] = b /\ l.pre[b] = a
        /\ l.next \in [pages -> pages \cup {JUNK}]
        /\ l.pre \in [pages -> pages \cup {JUNK}]
    BY <1>4, <1>5, <1>7, <2>1, <2>2
  <2>4. RemoveItem(l, x) = [head |-> l.head, next |-> [l.next EXCEPT ![a] = b],
                            pre |-> [l.pre EXCEPT ![b] = a]]
    BY <2>3 DEF RemoveItem, RemoveNode
  <2>5. [l.next EXCEPT ![a] = b] = l.next /\ [l.pre EXCEPT ![b] = a] = l.pre
    BY <1>4, <2>3
  <2> QED BY <2>2, <2>4, <2>5
<1> QED BY <1>6, <1>7

(* Appending a new item puts it into the circle.                           *)
Added(s, x, n) == [i \in 1 .. n + 1 |-> IF i = n + 1 THEN x ELSE s[i]]

LEMMA AppendOrder ==
  ASSUME NEW pages, NEW S, NEW list, Circle(list, pages, S), NEW x \in pages \ S,
         NEW n \in Nat, NEW s, Order(list, S, s, n)
  PROVE  /\ Circle(AppendItem(list, x), pages, S \cup {x})
         /\ Order(AppendItem(list, x), S \cup {x}, Added(s, x, n), n + 1)
<1>2. n \in Nat /\ s \in [1 .. n -> S] /\ IsCircle(list, S, s, n)
  BY DEF Order
<1> DEFINE l == AppendItem(list, x)
           m == n + 1
           t == [i \in 1 .. m |-> IF i = m THEN x ELSE s[i]]
<1> t = Added(s, x, n)
  BY DEF Added
<1>3. m \in Nat /\ t \in [1 .. m -> S \cup {x}]
  BY <1>2
<1>4. /\ t[m] = x /\ m \in 1 .. m
      /\ \A i \in 1 .. n : i \in 1 .. m /\ t[i] = s[i] /\ t[i] # x
      /\ \A i \in 1 .. m : i = m \/ i \in 1 .. n
  BY <1>2
<1>5. \A i, k \in 1 .. m : t[i] = t[k] => i = k
  BY <1>2, <1>4 DEF IsCircle
<1>6. \A p \in S \cup {x} : \E i \in 1 .. m : t[i] = p
  BY <1>2, <1>4 DEF IsCircle
<1>7. /\ list.next \in [pages -> pages \cup {JUNK}]
      /\ list.pre \in [pages -> pages \cup {JUNK}]
      /\ S \subseteq pages /\ INVALID_NODE \notin pages
  BY DEF Circle
<1>8. CASE n = 0
  <2>1. l = [head |-> x, next |-> [list.next EXCEPT ![x] = x],
             pre |-> [list.pre EXCEPT ![x] = x]]
    BY <1>2, <1>8 DEF IsCircle, AppendItem
  <2>2. l.head = x /\ l.next[x] = x /\ l.pre[x] = x
    BY <1>7, <2>1
  <2>3. l \in [head : pages \cup {INVALID_NODE},
              next : [pages -> pages \cup {JUNK}], pre : [pages -> pages \cup {JUNK}]]
    BY <1>7, <2>1
  <2>4. m = 1
    BY <1>8
  <2> HIDE DEF l, t, m
  <2>5. IsCircle(l, S \cup {x}, t, m)
    BY <1>4, <1>5, <1>6, <2>2, <2>4 DEF IsCircle, After, Before
  <2> QED BY <1>3, <1>7, <2>3, <2>5 DEF Circle, Order, l, t, m
<1>9. CASE n # 0
  <2> DEFINE h == s[1]
             z == s[n]
  <2>1. /\ 1 \in 1 .. n /\ n \in 1 .. n /\ list.head = h /\ list.pre[h] = z
        /\ h \in S /\ z \in S /\ h # INVALID_NODE
    BY <1>2, <1>7, <1>9 DEF IsCircle, Before
  <2>2. l = [head |-> h, next |-> [list.next EXCEPT ![z] = x, ![x] = h],
             pre |-> [list.pre EXCEPT ![h] = x, ![x] = z]]
    BY <2>1 DEF AppendItem
  <2>3. /\ \A q \in pages : l.next[q] = IF q = x THEN h ELSE IF q = z THEN x ELSE list.next[q]
        /\ \A q \in pages : l.pre[q] = IF q = x THEN z ELSE IF q = h THEN x ELSE list.pre[q]
        /\ l.head = h
    BY <1>7, <2>1, <2>2
  <2>4. l \in [head : pages \cup {INVALID_NODE},
              next : [pages -> pages \cup {JUNK}], pre : [pages -> pages \cup {JUNK}]]
    <3>1. h \in pages /\ z \in pages /\ x \in pages
      BY <1>7, <2>1
    <3>2. [list.next EXCEPT ![z] = x, ![x] = h] \in [pages -> pages \cup {JUNK}]
      BY ONLY <1>7, <3>1
    <3>3. [list.pre EXCEPT ![h] = x, ![x] = z] \in [pages -> pages \cup {JUNK}]
      BY ONLY <1>7, <3>1
    <3> HIDE DEF h, z
    <3> QED BY <2>2, <3>1, <3>2, <3>3
  <2> HIDE DEF l
  <2>5. ASSUME NEW i \in 1 .. m
        PROVE  /\ l.next[t[i]] = t[After(i, m)]
               /\ l.pre[t[i]] = t[Before(i, m)]
    <3>1. 1 \in 1 .. m /\ t[1] = h /\ t[n] = z /\ m # 1
      BY <1>4, <1>9, <2>1
    <3>2. CASE i = m
      <4>1. After(i, m) = 1 /\ Before(i, m) = n
        BY <3>1, <3>2 DEF After, Before
      <4> QED BY <1>4, <2>3, <3>1, <3>2, <4>1
    <3>3. CASE i # m
      <4>1. i \in 1 .. n /\ t[i] = s[i] /\ s[i] # x /\ s[i] \in pages
        BY <1>2, <1>4, <1>7, <3>3
      <4>2. (s[i] = z <=> i = n) /\ (s[i] = h <=> i = 1)
        BY <1>2, <2>1, <4>1 DEF IsCircle
      <4>3. list.next[s[i]] = s[After(i, n)] /\ list.pre[s[i]] = s[Before(i, n)]
        BY <1>2, <4>1 DEF IsCircle
      <4>4. l.next[t[i]] = t[After(i, m)]
        <5>1. CASE i = n
          BY <1>4, <2>3, <4>1, <4>2, <5>1 DEF After
        <5>2. CASE i # n
          <6>1. After(i, m) = i + 1 /\ After(i, n) = i + 1 /\ i + 1 \in 1 .. n
            BY <4>1, <5>2 DEF After
          <6> HIDE DEF t
          <6> QED BY <1>4, <2>3, <4>1, <4>2, <4>3, <5>2, <6>1
        <5> QED BY <5>1, <5>2
      <4>5. l.pre[t[i]] = t[Before(i, m)]
        <5>1. CASE i = 1
          BY <1>4, <2>3, <4>1, <4>2, <5>1 DEF Before
        <5>2. CASE i # 1
          <6>1. Before(i, m) = i - 1 /\ Before(i, n) = i - 1 /\ i - 1 \in 1 .. n
            BY <4>1, <5>2 DEF Before
          <6> HIDE DEF t
          <6> QED BY <1>4, <2>3, <4>1, <4>2, <4>3, <5>2, <6>1
        <5> QED BY <5>1, <5>2
      <4> QED BY <4>4, <4>5
    <3> QED BY <3>2, <3>3
  <2>6. l.head = t[1] /\ m # 0
    BY <1>4, <2>1, <2>3
  <2> HIDE DEF t, m
  <2>7. IsCircle(l, S \cup {x}, t, m)
    BY <1>5, <1>6, <2>5, <2>6 DEF IsCircle
  <2> QED BY <1>3, <1>7, <2>4, <2>7 DEF Circle, Order, l, t, m
<1> QED BY <1>8, <1>9

LEMMA AppendCircle ==
  ASSUME NEW pages, NEW S, NEW list, Circle(list, pages, S), NEW x \in pages \ S
  PROVE  Circle(AppendItem(list, x), pages, S \cup {x})
<1>1. PICK n \in Nat : \E s : Order(list, S, s, n)
  BY CircleHasOrder
<1>2. PICK s : Order(list, S, s, n)
  BY <1>1
<1> QED BY <1>2, AppendOrder

(* Moving an item of the circle to the end is removing and appending it.   *)
LEMMA SetLastIsMove ==
  ASSUME NEW pages, NEW S, NEW list, Circle(list, pages, S), NEW x \in S
  PROVE  SetLast(list, x) = AppendItem(RemoveItem(list, x), x)
<1>1. PICK n \in Nat : \E s \in [1 .. n -> S] : IsCircle(list, S, s, n)
  BY DEF Circle
<1>2. PICK s \in [1 .. n -> S] : IsCircle(list, S, s, n)
  BY <1>1
<1>3. PICK j \in 1 .. n : s[j] = x
  BY <1>2 DEF IsCircle
<1> DEFINE l == RemoveItem(list, x)
           h == list.head
           z == list.pre[h]
           a == list.pre[x]
           b == list.next[x]
<1>4. /\ 1 \in 1 .. n /\ n \in 1 .. n /\ h = s[1] /\ z = s[n]
      /\ Before(j, n) \in 1 .. n /\ After(j, n) \in 1 .. n
      /\ b = s[After(j, n)] /\ a = s[Before(j, n)]
  <2>1. 1 \in 1 .. n /\ n \in 1 .. n /\ n # 0 /\ Before(1, n) = n
    BY <1>3 DEF Before
  <2>2. h = s[1]
    BY <1>2, <2>1 DEF IsCircle
  <2>3. z = s[n]
    BY <1>2, <2>1, <2>2 DEF IsCircle
  <2>4. Before(j, n) \in 1 .. n /\ After(j, n) \in 1 .. n
    BY <1>3 DEF Before, After
  <2>5. b = s[After(j, n)] /\ a = s[Before(j, n)]
    BY <1>2, <1>3 DEF IsCircle
  <2> QED BY <2>1, <2>2, <2>3, <2>4, <2>5
<1>5. /\ x \in pages /\ a \in pages /\ b \in pages /\ h \in pages /\ z \in pages
      /\ INVALID_NODE \notin pages
      /\ list.next \in [pages -> pages \cup {JUNK}]
      /\ list.pre \in [pages -> pages \cup {JUNK}]
      /\ list = [head |-> h, next |-> list.next, pre |-> list.pre]
  BY <1>2, <1>3, <1>4 DEF Circle
<1>6. /\ x = h <=> j = 1
      /\ x = z <=> j = n
      /\ b = x <=> n = 1
      /\ a = x <=> n = 1
      /\ b = h <=> j = n
      /\ a = z <=> j = 1
      /\ a = b <=> n \in {1, 2}
      /\ b = z <=> (j = n - 1 \/ n = 1)
      /\ a = h <=> (j = 2 \/ n = 1)
      /\ z = h <=> n = 1
  <2>1. \A i, k \in 1 .. n : s[i] = s[k] <=> i = k
    BY <1>2 DEF IsCircle
  <2> HIDE DEF h, z, a, b
  <2>2. /\ x = h <=> j = 1
        /\ x = z <=> j = n
        /\ b = x <=> After(j, n) = j
        /\ a = x <=> Before(j, n) = j
        /\ b = h <=> After(j, n) = 1
        /\ a = z <=> Before(j, n) = n
        /\ a = b <=> Before(j, n) = After(j, n)
        /\ b = z <=> After(j, n) = n
        /\ a = h <=> Before(j, n) = 1
        /\ z = h <=> n = 1
    BY <1>3, <1>4, <2>1
  <2> QED BY <1>3, <2>2 DEF After, Before
<1>7. list.next[a] = x /\ list.pre[b] = x /\ list.next[z] = h
  <2>1. /\ After(Before(j, n), n) = j /\ Before(After(j, n), n) = j
        /\ After(n, n) = 1
    BY <1>3 DEF Before, After
  <2>2. \A i \in 1 .. n : list.next[s[i]] = s[After(i, n)] /\ list.pre[s[i]] = s[Before(i, n)]
    BY <1>2 DEF IsCircle
  <2> QED BY <1>3, <1>4, <2>1, <2>2
<1>8. CASE n = 1
  <2>1. l = [head |-> INVALID_NODE, next |-> list.next, pre |-> list.pre]
    BY <1>5, <1>6, <1>8 DEF RemoveItem, RemoveNode
  <2>2. AppendItem(l, x) = [head |-> x, next |-> [list.next EXCEPT ![x] = x],
                            pre |-> [list.pre EXCEPT ![x] = x]]
    BY <2>1 DEF AppendItem
  <2>3. [list.next EXCEPT ![x] = x] = list.next /\ [list.pre EXCEPT ![x] = x] = list.pre
    BY <1>5, <1>6, <1>8
  <2>4. SetLast(list, x) = [head |-> b, next |-> list.next, pre |-> list.pre]
    BY <1>3, <1>5, <1>6, <1>8 DEF SetLast
  <2> QED BY <1>6, <1>8, <2>2, <2>3, <2>4
<1>9. CASE n # 1
  <2> DEFINE next == [list.next EXCEPT ![a] = b]
             pre == [list.pre EXCEPT ![b] = a]
             head == IF j = 1 THEN b ELSE h
             last == pre[head]
  <2>1. l = [head |-> head, next |-> next, pre |-> pre]
    BY <1>6, <1>9 DEF RemoveItem, RemoveNode
  <2>2. head \in pages /\ head # x /\ head # INVALID_NODE
    BY <1>5, <1>6, <1>9
  <2>3. AppendItem(l, x) = [head |-> head,
                            next |-> [next EXCEPT ![last] = x, ![x] = head],
                            pre |-> [pre EXCEPT ![head] = x, ![x] = last]]
    <3> HIDE DEF head, next, pre
    <3> QED BY <2>1, <2>2 DEF AppendItem
  <2>4. last = IF j = 1 \/ j = n THEN a ELSE z
    BY <1>3, <1>5, <1>6, <1>9
  <2>5. CASE j = 1
    <3>1. SetLast(list, x) = [head |-> b, next |-> list.next, pre |-> list.pre]
      BY <1>5, <1>6, <2>5 DEF SetLast
    <3>2. [next EXCEPT ![a] = x, ![x] = b] = list.next
      BY <1>5, <1>6, <1>7, <1>9
    <3>3. [pre EXCEPT ![b] = x, ![x] = a] = list.pre
      BY <1>5, <1>6, <1>7, <1>9
    <3>4. head = b /\ last = a
      BY <2>4, <2>5
    <3> HIDE DEF next, pre, head, last
    <3> QED BY <2>3, <3>1, <3>2, <3>3, <3>4
  <2>6. CASE j = n
    <3>1. SetLast(list, x) = list
      BY <1>6, <1>9, <2>6 DEF SetLast
    <3>2. [next EXCEPT ![a] = x, ![x] = h] = list.next
      BY <1>5, <1>6, <1>7, <1>9, <2>6
    <3>3. [pre EXCEPT ![h] = x, ![x] = a] = list.pre
      BY <1>5, <1>6, <1>7, <1>9, <2>6
    <3>4. head = h /\ last = a
      BY <1>9, <2>4, <2>6
    <3> HIDE DEF next, pre, head, last
    <3> QED BY <1>5, <2>3, <3>1, <3>2, <3>3, <3>4
  <2>7. CASE j # 1 /\ j # n
    <3>1. SetLast(list, x) =
            [head |-> h,
             next |-> [list.next EXCEPT ![z] = x, ![x] = h, ![a] = b],
             pre |-> [list.pre EXCEPT ![h] = x, ![x] = z, ![b] = a]]
      BY <1>6, <2>7 DEF SetLast
    <3>2. [list.next EXCEPT ![z] = x, ![x] = h, ![a] = b]
          = [next EXCEPT ![z] = x, ![x] = h]
      BY <1>5, <1>6, <1>9, <2>7
    <3>3. [list.pre EXCEPT ![h] = x, ![x] = z, ![b] = a]
          = [pre EXCEPT ![h] = x, ![x] = z]
      BY <1>5, <1>6, <1>9, <2>7
    <3>4. head = h /\ last = z
      BY <2>4, <2>7
    <3> HIDE DEF next, pre, head, last
    <3> QED BY <2>3, <3>1, <3>2, <3>3, <3>4
  <2> QED BY <2>5, <2>6, <2>7
<1> QED BY <1>8, <1>9

LEMMA SetLastCircle ==
  ASSUME NEW pages, NEW S, NEW list, Circle(list, pages, S), NEW x \in S
  PROVE  Circle(SetLast(list, x), pages, S)
<1> DEFINE T == S \ {x}
<1>1. Circle(RemoveItem(list, x), pages, T)
  BY RemoveCircle
<1>2. x \in pages \ T /\ T \cup {x} = S
  BY DEF Circle
<1> HIDE DEF T
<1>3. Circle(AppendItem(RemoveItem(list, x), x), pages, S)
  BY <1>1, <1>2, AppendCircle
<1> QED BY <1>3, SetLastIsMove

-----------------------------------------------------------------------------
(* The order of a circle is the walk along its links.                      *)

\* s is a walk of n steps along the links of l, from its head.
Walks(s, l, n) == s = [j \in 1 .. n |-> IF j = 1 THEN l.head ELSE l.next[s[j - 1]]]

LEMMA WalkIsUnique ==
  ASSUME NEW n \in Nat, NEW l, NEW s, Walks(s, l, n), NEW t, Walks(t, l, n)
  PROVE  s = t
<1>1. \A j \in 1 .. n : /\ s[j] = IF j = 1 THEN l.head ELSE l.next[s[j - 1]]
                        /\ t[j] = IF j = 1 THEN l.head ELSE l.next[t[j - 1]]
  BY DEF Walks
<1>2. \A j \in 1 .. n : s[j] = t[j]
  <2> DEFINE differ == {j \in 1 .. n : s[j] # t[j]}
  <2> SUFFICES ASSUME differ # {} PROVE FALSE
    OBVIOUS
  <2>1. PICK j \in differ : \A i \in differ : j <= i
    BY LeastElement, differ \in SUBSET Nat
  <2>2. j # 1
    BY <1>1, <2>1
  <2>3. j - 1 \in 1 .. n /\ j - 1 \notin differ
    BY <2>1, <2>2
  <2> QED BY <1>1, <2>1, <2>2, <2>3
<1> QED BY <1>2 DEF Walks

LEMMA OrderIsWalk ==
  ASSUME NEW list, NEW S, NEW n \in Nat, NEW s, Order(list, S, s, n)
  PROVE  n = Cardinality(S) /\ Walks(s, list, n)
<1>1. /\ s \in [1 .. n -> S]
      /\ \A i, j \in 1 .. n : s[i] = s[j] => i = j
      /\ \A p \in S : \E i \in 1 .. n : s[i] = p
      /\ list.head = IF n = 0 THEN INVALID_NODE ELSE s[1]
      /\ \A i \in 1 .. n : list.next[s[i]] = s[After(i, n)]
  BY DEF Order, IsCircle
<1>2. n = Cardinality(S)
  <2>1. s \in Bijection(1 .. n, S)
    BY <1>1 DEF Bijection, Injection, Surjection, IsInjective
  <2>2. IsFiniteSet(1 .. n) /\ Cardinality(1 .. n) = n
    BY FS_Interval, 1 \in Int
  <2> QED BY <2>1, <2>2, FS_Bijection DEF ExistsBijection
<1>3. \A j \in 1 .. n : s[j] = IF j = 1 THEN list.head ELSE list.next[s[j - 1]]
  <2> SUFFICES ASSUME NEW j \in 1 .. n
               PROVE  s[j] = IF j = 1 THEN list.head ELSE list.next[s[j - 1]]
    OBVIOUS
  <2>1. CASE j = 1
    BY <1>1, <2>1
  <2>2. CASE j # 1
    <3>1. j - 1 \in 1 .. n /\ After(j - 1, n) = j
      BY <2>2 DEF After
    <3> QED BY <1>1, <2>2, <3>1
  <2> QED BY <2>1, <2>2
<1>4. s = [j \in 1 .. n |-> s[j]]
  BY <1>1
<1> QED BY <1>2, <1>3, <1>4 DEF Walks

(* An order is a sequence.                                                 *)
LEMMA OrderIsSequence ==
  ASSUME NEW S, NEW n \in Nat, NEW s \in [1 .. n -> S]
  PROVE  s \in Seq(S) /\ Len(s) = n
OBVIOUS

LEMMA SequenceIs ==
  ASSUME NEW S, NEW q \in Seq(S), NEW m \in Nat, Len(q) = m,
         NEW f, f = [j \in 1 .. m |-> f[j]], \A j \in 1 .. m : q[j] = f[j]
  PROVE  q = f
<1>1. q = [j \in 1 .. m |-> q[j]]
  OBVIOUS
<1> QED BY <1>1

LEMMA AddedIsAppend ==
  ASSUME NEW S, NEW n \in Nat, NEW s \in [1 .. n -> S], NEW x
  PROVE  Append(s, x) = Added(s, x, n)
<1>1. s \in Seq(S) /\ Len(s) = n
  BY OrderIsSequence
<1> DEFINE q == Append(s, x)
           T == S \cup {x}
<1>2. q \in Seq(T) /\ Len(q) = n + 1
  <2>1. s \in Seq(T) /\ x \in T
    OBVIOUS
  <2> HIDE DEF T
  <2> QED BY <1>1, <2>1
<1>3. \A i \in 1 .. n + 1 : q[i] = IF i = n + 1 THEN x ELSE s[i]
  BY <1>1
<1> HIDE DEF q, T
<1>4. Added(s, x, n) = [i \in 1 .. n + 1 |-> Added(s, x, n)[i]]
      /\ \A i \in 1 .. n + 1 : q[i] = Added(s, x, n)[i]
  BY <1>3 DEF Added
<1>5. q = Added(s, x, n)
  BY <1>2, <1>4, SequenceIs, n + 1 \in Nat
<1> QED BY <1>5 DEF q

LEMMA DroppedIsTail ==
  ASSUME NEW S, NEW n \in Nat \ {0}, NEW s \in [1 .. n -> S]
  PROVE  Tail(s) = Dropped(s, 1, n) /\ Head(s) = s[1]
<1>1. s \in Seq(S) /\ Len(s) = n /\ s # <<>>
  BY OrderIsSequence
<1> DEFINE q == Tail(s)
<1>2. q \in Seq(S) /\ Len(q) = n - 1 /\ \A i \in 1 .. n - 1 : q[i] = s[i + 1]
  BY <1>1
<1> HIDE DEF q
<1>3. Dropped(s, 1, n) = [i \in 1 .. n - 1 |-> Dropped(s, 1, n)[i]]
      /\ \A i \in 1 .. n - 1 : q[i] = Dropped(s, 1, n)[i]
  BY <1>2 DEF Dropped
<1>4. q = Dropped(s, 1, n)
  BY <1>2, <1>3, SequenceIs, n - 1 \in Nat
<1> QED BY <1>1, <1>4 DEF q

LEMMA CircleLinks ==
  ASSUME NEW pages, NEW S, NEW list, Circle(list, pages, S)
  PROVE  \A p \in S : list.next[p] \in S /\ list.pre[p] \in S /\ list.pre[list.next[p]] = p
<1>1. PICK n \in Nat : \E s : Order(list, S, s, n)
  BY CircleHasOrder
<1>2. PICK s : Order(list, S, s, n)
  BY <1>1
<1>3. /\ s \in [1 .. n -> S]
      /\ \A p \in S : \E i \in 1 .. n : s[i] = p
      /\ \A i \in 1 .. n : /\ list.next[s[i]] = s[After(i, n)]
                           /\ list.pre[s[i]] = s[Before(i, n)]
  BY <1>2 DEF Order, IsCircle
<1> SUFFICES ASSUME NEW p \in S
             PROVE  list.next[p] \in S /\ list.pre[p] \in S /\ list.pre[list.next[p]] = p
  OBVIOUS
<1>4. PICK i \in 1 .. n : s[i] = p
  BY <1>3
<1>5. /\ After(i, n) \in 1 .. n /\ Before(i, n) \in 1 .. n
      /\ Before(After(i, n), n) = i
  BY DEF After, Before
<1> QED BY <1>3, <1>4, <1>5

-----------------------------------------------------------------------------
(* A circle may be entered at any of its items, and that is how prepend    *)
(* puts an item into it.                                                   *)

LEMMA TurnCircle ==
  ASSUME NEW pages, NEW S, NEW list, Circle(list, pages, S), NEW x \in S
  PROVE  Circle([list EXCEPT !.head = x], pages, S)
<1>1. PICK n \in Nat : \E s : Order(list, S, s, n)
  BY CircleHasOrder
<1>2. PICK s : Order(list, S, s, n)
  BY <1>1
<1>3. s \in [1 .. n -> S] /\ IsCircle(list, S, s, n)
  BY <1>2 DEF Order
<1>4. PICK j \in 1 .. n : s[j] = x
  BY <1>3 DEF IsCircle
<1> DEFINE place == [i \in 1 .. n |-> IF i + j - 1 <= n THEN i + j - 1 ELSE i + j - 1 - n]
           t == [i \in 1 .. n |-> s[place[i]]]
           l == [list EXCEPT !.head = x]
<1>5. place \in [1 .. n -> 1 .. n] /\ n # 0 /\ 1 \in 1 .. n /\ place[1] = j
  OBVIOUS
<1>6. \A i, k \in 1 .. n : place[i] = place[k] => i = k
  OBVIOUS
<1>7. \A k \in 1 .. n : \E i \in 1 .. n : place[i] = k
  <2> SUFFICES ASSUME NEW k \in 1 .. n PROVE \E i \in 1 .. n : place[i] = k
    OBVIOUS
  <2>1. CASE k >= j
    <3>1. k - j + 1 \in 1 .. n /\ place[k - j + 1] = k
      BY <2>1
    <3> QED BY <3>1
  <2>2. CASE k < j
    <3>1. k - j + 1 + n \in 1 .. n /\ place[k - j + 1 + n] = k
      BY <2>2
    <3> QED BY <3>1
  <2> QED BY <2>1, <2>2
<1>8. \A i \in 1 .. n : /\ After(i, n) \in 1 .. n /\ Before(i, n) \in 1 .. n
                        /\ place[After(i, n)] = After(place[i], n)
                        /\ place[Before(i, n)] = Before(place[i], n)
  BY DEF After, Before
<1> HIDE DEF place
<1>9. t \in [1 .. n -> S] /\ \A i \in 1 .. n : t[i] = s[place[i]]
  BY <1>3, <1>5
<1> HIDE DEF t
<1>10. l = [head |-> x, next |-> list.next, pre |-> list.pre]
  BY DEF Circle
<1>11. IsCircle(l, S, t, n)
  <2>1. \A i, k \in 1 .. n : t[i] = t[k] => i = k
    <3>1. \A i, k \in 1 .. n : s[i] = s[k] => i = k
      BY <1>3 DEF IsCircle
    <3> SUFFICES ASSUME NEW i \in 1 .. n, NEW k \in 1 .. n, t[i] = t[k]
                 PROVE  i = k
      OBVIOUS
    <3>2. PICK y, z : y = place[i] /\ z = place[k]
      OBVIOUS
    <3>3. y \in 1 .. n /\ z \in 1 .. n /\ s[y] = s[z]
      BY <1>5, <1>9, <3>2
    <3>4. y = z
      BY ONLY <3>1, <3>3
    <3> QED BY <1>6, <3>2, <3>4
  <2>2. \A p \in S : \E i \in 1 .. n : t[i] = p
    <3> SUFFICES ASSUME NEW p \in S PROVE \E i \in 1 .. n : t[i] = p
      OBVIOUS
    <3>1. PICK k \in 1 .. n : s[k] = p
      BY <1>3 DEF IsCircle
    <3>2. PICK i \in 1 .. n : place[i] = k
      BY <1>7
    <3> QED BY <1>9, <3>1, <3>2
  <2>3. l.head = t[1] /\ n # 0
    BY <1>4, <1>5, <1>9, <1>10
  <2>4. \A i \in 1 .. n : /\ list.next[s[place[i]]] = s[After(place[i], n)]
                          /\ list.pre[s[place[i]]] = s[Before(place[i], n)]
    BY <1>3, <1>5 DEF IsCircle
  <2>5. \A i \in 1 .. n : /\ l.next[t[i]] = t[After(i, n)]
                          /\ l.pre[t[i]] = t[Before(i, n)]
    BY <1>8, <1>9, <1>10, <2>4
  <2> QED BY <2>1, <2>2, <2>3, <2>5 DEF IsCircle
<1>12. x \in pages
  BY DEF Circle
<1> QED BY <1>9, <1>10, <1>11, <1>12 DEF Circle

LEMMA PrependCircle ==
  ASSUME NEW pages, NEW S, NEW list, Circle(list, pages, S), NEW x \in pages \ S
  PROVE  Circle(PrependItem(list, x), pages, S \cup {x})
<1> DEFINE head == list.head
           first == list.next[head]
           turned == [list EXCEPT !.head = first]
<1>1. CASE head = INVALID_NODE
  <2>1. PrependItem(list, x) = AppendItem(list, x)
    BY <1>1 DEF PrependItem, AppendItem
  <2> QED BY <2>1, AppendCircle
<1>2. CASE head # INVALID_NODE
  <2>1. head \in S /\ first \in S /\ list.pre[first] = head /\ S \subseteq pages
        /\ INVALID_NODE \notin pages
    <3>1. head \in S
      BY <1>2, CircleHead
    <3>2. first \in S /\ list.pre[first] = head
      BY <3>1, CircleLinks
    <3> QED BY <3>1, <3>2 DEF Circle
  <2>2. turned = [head |-> first, next |-> list.next, pre |-> list.pre]
    BY DEF Circle
  <2>3. Circle(turned, pages, S)
    BY <2>1, TurnCircle
  <2>4. Circle(AppendItem(turned, x), pages, S \cup {x})
    BY <2>3, AppendCircle
  <2>5. Circle([AppendItem(turned, x) EXCEPT !.head = x], pages, S \cup {x})
    BY <2>4, TurnCircle
  <2> HIDE DEF turned
  <2>6. AppendItem(turned, x) =
          [head |-> first,
           next |-> [list.next EXCEPT ![head] = x, ![x] = first],
           pre |-> [list.pre EXCEPT ![first] = x, ![x] = head]]
    BY <2>1, <2>2 DEF AppendItem
  <2>7. PrependItem(list, x) =
          [head |-> x,
           next |-> [list.next EXCEPT ![head] = x, ![x] = first],
           pre |-> [list.pre EXCEPT ![first] = x, ![x] = head]]
    BY <1>2 DEF PrependItem
  <2>8. PrependItem(list, x) = [AppendItem(turned, x) EXCEPT !.head = x]
    BY <2>6, <2>7
  <2> QED BY <2>5, <2>8
<1> QED BY <1>1, <1>2

=============================================================================
