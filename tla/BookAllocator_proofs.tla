------------------------ MODULE BookAllocator_proofs ------------------------
(***************************************************************************)
(* The book keeps its obligations whatever the length of the page array    *)
(* and however long its caller allocates, frees and writes pages.          *)
(***************************************************************************)
EXTENDS BookAllocator, FiniteSetTheorems, TLAPS

(* The free pages are threaded on one list of some length.                 *)
Threaded == \E n \in Nat : \E s \in [1 .. n -> FreePages] : IsFreeList(s, n)

(* The inductive invariant: the free list is exact, and the caller holds   *)
(* only pages that were taken from the array.                              *)
IInv ==
  /\ TypeOK
  /\ held \subseteq 0 .. book.end - 1
  /\ Threaded

USE DEF Page

(* While the list is empty all pages taken from the array are held, so a   *)
(* caller who holds fewer than PageCount pages left one at its end.        *)
LEMMA EmptyListLeavesPages ==
  ASSUME PageCountAssumption, IInv, Cardinality(held) < PageCount, book.first_unused = INVALID_PAGE
  PROVE  FreePages = {} /\ book.end < PageCount
<1> USE IndexAssumption DEF PageCountAssumption, IInv, TypeOK, INVALID_PAGE, INDEX_RANGE
<1>1. PICK n \in Nat : \E s \in [1 .. n -> FreePages] : IsFreeList(s, n)
  BY DEF Threaded
<1>2. PICK s \in [1 .. n -> FreePages] : IsFreeList(s, n)
  BY <1>1
<1>3. n = 0
  <2> SUFFICES ASSUME n # 0 PROVE FALSE
    OBVIOUS
  <2>1. s[1] \in FreePages /\ s[1] = INVALID_PAGE
    BY <1>2 DEF IsFreeList
  <2> QED BY <2>1 DEF FreePages
<1>4. FreePages = {}
  BY <1>2, <1>3 DEF IsFreeList
<1>5. held = 0 .. book.end - 1
  BY <1>4 DEF FreePages
<1>6. Cardinality(0 .. book.end - 1) = IF 0 > book.end - 1 THEN 0 ELSE book.end - 1 - 0 + 1
  BY FS_Interval, 0 \in Int, book.end - 1 \in Int
<1> QED BY <1>4, <1>5, <1>6

(* When the list is not empty its first page is the one handed out, and it *)
(* is a free page of the array.                                            *)
LEMMA FirstUnusedIsFree ==
  ASSUME PageCountAssumption, IInv, book.first_unused # INVALID_PAGE
  PROVE  book.first_unused \in FreePages
<1>1. PICK n \in Nat : \E s \in [1 .. n -> FreePages] : IsFreeList(s, n)
  BY DEF IInv, Threaded
<1>2. PICK s \in [1 .. n -> FreePages] : IsFreeList(s, n)
  BY <1>1
<1>3. n # 0
  BY <1>2 DEF IsFreeList
<1>4. book.first_unused = s[1]
  BY <1>2, <1>3 DEF IsFreeList
<1> QED BY <1>2, <1>3, <1>4

LEMMA HandedOutPage ==
  ASSUME PageCountAssumption, IInv, Cardinality(held) < PageCount
  PROVE  NextPage(book) \in Page \ held
<1> USE DEF PageCountAssumption, IInv, TypeOK, NextPage
<1>1. CASE book.first_unused = INVALID_PAGE
  BY <1>1, EmptyListLeavesPages
<1>2. CASE book.first_unused # INVALID_PAGE
  BY <1>2, FirstUnusedIsFree DEF FreePages
<1> QED BY <1>1, <1>2

LEMMA InitIInv ==
  ASSUME PageCountAssumption, Init PROVE IInv
<1> USE IndexAssumption DEF PageCountAssumption, Init, CreateBook
<1>1. TypeOK /\ held \subseteq 0 .. book.end - 1
  BY DEF TypeOK, Word
<1>2. FreePages = {}
  BY DEF FreePages
<1>3. PICK s : s \in [1 .. 0 -> FreePages]
  BY <1>2, [i \in 1 .. 0 |-> i] \in [1 .. 0 -> FreePages]
<1>4. IsFreeList(s, 0)
  BY <1>2, <1>3 DEF IsFreeList
<1>5. Threaded
  BY <1>3, <1>4 DEF Threaded
<1> QED BY <1>1, <1>5 DEF IInv

(* Allocation from the end of the array leaves the empty list empty.       *)
LEMMA AllocFromTheEnd ==
  ASSUME PageCountAssumption, IInv, NEW slot \in Slot, Alloc(slot), book.first_unused = INVALID_PAGE
  PROVE  IInv'
<1> USE IndexAssumption DEF PageCountAssumption, IInv, TypeOK
<1>1. FreePages = {} /\ book.end < PageCount
  BY EmptyListLeavesPages DEF Alloc
<1>2. /\ book' = [book EXCEPT !.end = book.end + 1,
                               !.link = [book.link EXCEPT ![book.end] = slot]]
      /\ held' = held \cup {book.end}
  BY DEF Alloc, NextPage, AllocBookPage, WriteCurI
<1>3. book.end \in Page /\ slot \in Word
  BY <1>1 DEF Word
<1>4. TypeOK'
  <2>1. [book.link EXCEPT ![book.end] = slot] \in [Page -> Word]
    BY <1>3
  <2>2. book.end + 1 \in 0 .. PageCount
    BY <1>1
  <2>3. /\ book'.first_unused = book.first_unused
        /\ book'.end = book.end + 1
        /\ book'.link = [book.link EXCEPT ![book.end] = slot]
        /\ book' = [first_unused |-> book'.first_unused,
                    end |-> book'.end, link |-> book'.link]
    BY <1>2
  <2>4. held' \subseteq Page
    BY <1>2, <1>3
  <2> QED BY <2>1, <2>2, <2>3, <2>4
<1>5. (held \subseteq 0 .. book.end - 1)'
  BY <1>2, <1>3
<1>6. FreePages' = {}
  BY <1>1, <1>2, <1>3 DEF FreePages
<1>7. book'.first_unused = INVALID_PAGE
  BY <1>2
<1>8. PICK s : s \in [1 .. 0 -> FreePages']
  BY <1>6, [i \in 1 .. 0 |-> i] \in [1 .. 0 -> FreePages']
<1>9. IsFreeList(s, 0)'
  BY <1>6, <1>7, <1>8 DEF IsFreeList
<1>10. Threaded'
  BY <1>8, <1>9 DEF Threaded
<1> QED BY <1>4, <1>5, <1>10

(* Allocation from the list takes its first page and leaves the rest of it *)
(* linked: the slot is written into a word that is no link any more.       *)
LEMMA AllocFromTheList ==
  ASSUME PageCountAssumption, IInv, NEW slot \in Slot, Alloc(slot), book.first_unused # INVALID_PAGE
  PROVE  IInv'
<1> USE IndexAssumption DEF PageCountAssumption, IInv, TypeOK
<1>1. PICK n \in Nat : \E s \in [1 .. n -> FreePages] : IsFreeList(s, n)
  BY DEF Threaded
<1>2. PICK s \in [1 .. n -> FreePages] : IsFreeList(s, n)
  BY <1>1
<1> DEFINE p == s[1]
           t == [i \in 1 .. n - 1 |-> s[i + 1]]
<1>3. n # 0 /\ book.first_unused = p
  BY <1>2 DEF IsFreeList
<1>4. p \in FreePages /\ p \in Page /\ slot \in Word
  BY <1>2, <1>3 DEF FreePages, Word
<1>5. book.link[p] = IF n = 1 THEN INVALID_PAGE ELSE s[2]
  BY <1>2, <1>3 DEF IsFreeList
<1>6. /\ book' = [book EXCEPT !.first_unused = book.link[p],
                               !.link = [book.link EXCEPT ![p] = slot]]
      /\ held' = held \cup {p}
  BY <1>3 DEF Alloc, NextPage, AllocBookPage, WriteCurI
<1>7. book.link[p] \in Page \cup {INVALID_PAGE}
  BY <1>2, <1>3, <1>5 DEF FreePages
<1>8. TypeOK'
  <2>1. [book.link EXCEPT ![p] = slot] \in [Page -> Word]
    BY <1>4
  <2> QED BY <1>4, <1>6, <1>7, <2>1
<1>9. (held \subseteq 0 .. book.end - 1)'
  BY <1>4, <1>6 DEF FreePages
<1>10. FreePages' = FreePages \ {p}
  BY <1>6 DEF FreePages
<1>11. \A i \in 1 .. n : s[i] \in FreePages /\ (s[i] = p => i = 1)
  BY <1>2, <1>3 DEF IsFreeList
<1>12. t \in [1 .. n - 1 -> FreePages']
  BY <1>10, <1>11
<1>13. IsFreeList(t, n - 1)'
  <2>1. \A i, j \in 1 .. n - 1 : t[i] = t[j] => i = j
    BY <1>2 DEF IsFreeList
  <2>2. \A q \in FreePages' : \E i \in 1 .. n - 1 : t[i] = q
    <3> SUFFICES ASSUME NEW q \in FreePages' PROVE \E i \in 1 .. n - 1 : t[i] = q
      OBVIOUS
    <3>1. PICK i \in 1 .. n : s[i] = q
      BY <1>2, <1>10 DEF IsFreeList
    <3>2. i # 1
      BY <3>1, <1>10
    <3>3. i - 1 \in 1 .. n - 1 /\ t[i - 1] = q
      BY <3>1, <3>2
    <3> QED BY <3>3
  <2>3. book'.first_unused = IF n - 1 = 0 THEN INVALID_PAGE ELSE t[1]
    BY <1>3, <1>5, <1>6
  <2>4. \A i \in 1 .. n - 1 :
          book'.link[t[i]] = IF i = n - 1 THEN INVALID_PAGE ELSE t[i + 1]
    <3> SUFFICES ASSUME NEW i \in 1 .. n - 1
                 PROVE  book'.link[t[i]] = IF i = n - 1 THEN INVALID_PAGE ELSE t[i + 1]
      OBVIOUS
    <3>1. t[i] = s[i + 1] /\ t[i] # p /\ t[i] \in Page
      BY <1>11 DEF FreePages
    <3>2. book'.link[t[i]] = book.link[s[i + 1]]
      BY <1>6, <3>1
    <3>3. book.link[s[i + 1]] = IF i + 1 = n THEN INVALID_PAGE ELSE s[i + 2]
      BY <1>2 DEF IsFreeList
    <3> QED BY <3>2, <3>3
  <2> QED BY <2>1, <2>2, <2>3, <2>4 DEF IsFreeList
<1>14. Threaded'
  <2> HIDE DEF t
  <2>1. n - 1 \in Nat
    BY <1>3
  <2> QED BY <1>12, <1>13, <2>1 DEF Threaded
<1> QED BY <1>8, <1>9, <1>14

(* A page that is returned becomes the first of the list.                  *)
LEMMA FreeKeepsIInv ==
  ASSUME PageCountAssumption, IInv, NEW p \in held, Free(p)
  PROVE  IInv'
<1> USE IndexAssumption DEF PageCountAssumption, IInv, TypeOK
<1>1. PICK n \in Nat : \E s \in [1 .. n -> FreePages] : IsFreeList(s, n)
  BY DEF Threaded
<1>2. PICK s \in [1 .. n -> FreePages] : IsFreeList(s, n)
  BY <1>1
<1> DEFINE t == [i \in 1 .. n + 1 |-> IF i = 1 THEN p ELSE s[i - 1]]
<1>3. /\ book' = [book EXCEPT !.first_unused = p,
                               !.link = [book.link EXCEPT ![p] = book.first_unused]]
      /\ held' = held \ {p}
  BY DEF Free, FreeBookPage
<1>4. p \in Page /\ p \in 0 .. book.end - 1 /\ p \notin FreePages
  BY DEF FreePages
<1>5. TypeOK'
  <2>1. book.first_unused \in Word
    BY DEF INVALID_PAGE, INDEX_RANGE, Word
  <2>2. [book.link EXCEPT ![p] = book.first_unused] \in [Page -> Word]
    BY <1>4, <2>1
  <2> QED BY <1>3, <1>4, <2>2
<1>6. (held \subseteq 0 .. book.end - 1)'
  BY <1>3
<1>7. FreePages' = FreePages \cup {p}
  BY <1>3, <1>4 DEF FreePages
<1>8. \A i \in 1 .. n : s[i] \in FreePages /\ s[i] # p /\ s[i] \in Page
  BY <1>2, <1>4 DEF FreePages
<1>9. t \in [1 .. n + 1 -> FreePages']
  BY <1>7, <1>8
<1>10. IsFreeList(t, n + 1)'
  <2>1. \A i, j \in 1 .. n + 1 : t[i] = t[j] => i = j
    BY <1>2, <1>8 DEF IsFreeList
  <2>2. \A q \in FreePages' : \E i \in 1 .. n + 1 : t[i] = q
    <3> SUFFICES ASSUME NEW q \in FreePages' PROVE \E i \in 1 .. n + 1 : t[i] = q
      OBVIOUS
    <3>1. CASE q = p
      BY <3>1, 1 \in 1 .. n + 1, t[1] = p
    <3>2. CASE q # p
      <4>1. PICK i \in 1 .. n : s[i] = q
        BY <1>2, <1>7, <3>2 DEF IsFreeList
      <4>2. i + 1 \in 1 .. n + 1 /\ t[i + 1] = q
        BY <4>1
      <4> QED BY <4>2
    <3> QED BY <3>1, <3>2
  <2>3. book'.first_unused = IF n + 1 = 0 THEN INVALID_PAGE ELSE t[1]
    BY <1>3
  <2>4. \A i \in 1 .. n + 1 :
          book'.link[t[i]] = IF i = n + 1 THEN INVALID_PAGE ELSE t[i + 1]
    <3> SUFFICES ASSUME NEW i \in 1 .. n + 1
                 PROVE  book'.link[t[i]] = IF i = n + 1 THEN INVALID_PAGE ELSE t[i + 1]
      OBVIOUS
    <3>1. CASE i = 1
      BY <1>2, <1>3, <1>4, <3>1 DEF IsFreeList
    <3>2. CASE i # 1
      <4>1. i - 1 \in 1 .. n /\ t[i] = s[i - 1]
        BY <3>2
      <4>2. book'.link[t[i]] = book.link[s[i - 1]]
        BY <1>3, <1>8, <4>1
      <4>3. book.link[s[i - 1]] = IF i - 1 = n THEN INVALID_PAGE ELSE s[i]
        BY <1>2, <4>1 DEF IsFreeList
      <4> QED BY <4>1, <4>2, <4>3
    <3> QED BY <3>1, <3>2
  <2> QED BY <2>1, <2>2, <2>3, <2>4 DEF IsFreeList
<1>11. Threaded'
  <2> HIDE DEF t
  <2>1. n + 1 \in Nat
    OBVIOUS
  <2> QED BY <1>9, <1>10, <2>1 DEF Threaded
<1> QED BY <1>5, <1>6, <1>11

(* The caller writes its slots into pages that are on no list.             *)
LEMMA MoveKeepsIInv ==
  ASSUME PageCountAssumption, IInv, NEW p \in held, NEW slot \in Slot, Move(p, slot)
  PROVE  IInv'
<1> USE IndexAssumption DEF PageCountAssumption, IInv, TypeOK
<1>1. PICK n \in Nat : \E s \in [1 .. n -> FreePages] : IsFreeList(s, n)
  BY DEF Threaded
<1>2. PICK s \in [1 .. n -> FreePages] : IsFreeList(s, n)
  BY <1>1
<1>3. /\ book' = [book EXCEPT !.link = [book.link EXCEPT ![p] = slot]]
      /\ held' = held
  BY DEF Move, WriteCurI
<1>4. TypeOK' /\ (held \subseteq 0 .. book.end - 1)' /\ FreePages' = FreePages
  <2>1. slot \in Word
    BY DEF Word
  <2>2. [book.link EXCEPT ![p] = slot] \in [Page -> Word]
    BY <2>1
  <2> QED BY <1>3, <2>2 DEF FreePages
<1>5. \A i \in 1 .. n : s[i] \in Page /\ s[i] # p
  BY <1>2 DEF FreePages
<1>6. \A i \in 1 .. n : book'.link[s[i]] = book.link[s[i]]
  BY <1>3, <1>5
<1>7. IsFreeList(s, n)'
  BY <1>2, <1>3, <1>4, <1>6 DEF IsFreeList
<1>8. Threaded'
  BY <1>2, <1>4, <1>7 DEF Threaded
<1> QED BY <1>4, <1>8

LEMMA NextIInv ==
  ASSUME PageCountAssumption, IInv, [Next]_vars PROVE IInv'
<1>1. CASE \E slot \in Slot : Alloc(slot)
  BY <1>1, AllocFromTheEnd, AllocFromTheList
<1>2. CASE \E p \in held : Free(p)
  BY <1>2, FreeKeepsIInv
<1>3. CASE \E p \in held, slot \in Slot : Move(p, slot)
  BY <1>3, MoveKeepsIInv
<1>4. CASE UNCHANGED vars
  <2>1. book' = book /\ held' = held
    BY <1>4 DEF vars
  <2>2. TypeOK' /\ (held \subseteq 0 .. book.end - 1)'
    BY <2>1 DEF IInv, TypeOK
  <2>3. Threaded'
    <3>1. PICK n \in Nat : \E s \in [1 .. n -> FreePages] : IsFreeList(s, n)
      BY DEF IInv, Threaded
    <3>2. PICK s \in [1 .. n -> FreePages] : IsFreeList(s, n)
      BY <3>1
    <3>3. FreePages' = FreePages
      BY <2>1 DEF FreePages
    <3>4. IsFreeList(s, n)'
      BY <2>1, <3>2, <3>3 DEF IsFreeList
    <3> QED BY <3>2, <3>3, <3>4 DEF Threaded
  <2> QED BY <2>2, <2>3 DEF IInv
<1> QED BY <1>1, <1>2, <1>3, <1>4 DEF Next

(* A list of distinct free pages is no longer than the array.              *)
LEMMA FreeListFits ==
  ASSUME PageCountAssumption, IInv PROVE FreeListExact
<1> USE DEF PageCountAssumption, IInv, TypeOK
<1>1. PICK n \in Nat : \E s \in [1 .. n -> FreePages] : IsFreeList(s, n)
  BY DEF Threaded
<1>2. PICK s \in [1 .. n -> FreePages] : IsFreeList(s, n)
  BY <1>1
<1>3. s \in [1 .. n -> Page]
  BY <1>2 DEF FreePages
<1>4. s \in Injection(1 .. n, Page)
  BY <1>2, <1>3 DEF IsFreeList, Injection, IsInjective
<1>5. IsFiniteSet(Page) /\ Cardinality(Page) = PageCount
  BY FS_Interval, 0 \in Int, PageCount - 1 \in Int
<1>6. Cardinality(1 .. n) <= Cardinality(Page)
  BY <1>4, <1>5, FS_Injection
<1>7. Cardinality(1 .. n) = n
  BY FS_Interval, 1 \in Int, n \in Int
<1>8. n \in 0 .. PageCount
  BY <1>5, <1>6, <1>7
<1> QED BY <1>2, <1>8 DEF FreeListExact

-----------------------------------------------------------------------------
LEMMA SpecIInv == ASSUME PageCountAssumption PROVE Spec => []IInv
<1>1. Init => IInv
  BY InitIInv
<1>2. IInv /\ [Next]_vars => IInv'
  BY NextIInv
<1> QED BY <1>1, <1>2, PTL DEF Spec

(* The end of the used part never passes the end of the page array.        *)
THEOREM BookTypeOK == ASSUME PageCountAssumption PROVE Spec => []TypeOK
<1>1. IInv => TypeOK
  BY DEF IInv
<1> QED BY <1>1, SpecIInv, PTL

(* The free pages are always one list, in which each of them occurs once.  *)
THEOREM BookFreeListExact == ASSUME PageCountAssumption PROVE Spec => []FreeListExact
<1>1. IInv => FreeListExact
  BY FreeListFits
<1> QED BY <1>1, SpecIInv, PTL

(* alloc_book_page never hands out a page in use, nor one past the array.  *)
THEOREM BookPagesAreSafe == ASSUME PageCountAssumption PROVE Spec => []PagesAreSafe
<1>1. IInv => PagesAreSafe
  BY HandedOutPage DEF PagesAreSafe
<1> QED BY <1>1, SpecIInv, PTL

=============================================================================
