---------------------------- MODULE BookAllocator ----------------------------
(***************************************************************************)
(* A book in the hands of its one caller, who returns only pages it holds  *)
(* and never asks for a page when it holds PageCount of them: what the     *)
(* book owes such a caller, who has allocated PageCount pages of memory.   *)
(***************************************************************************)
EXTENDS Book, FiniteSets

CONSTANTS
  PageCount, \* length of the page array: entry_capacity
  Slot       \* what the caller writes into the first word of a page: cur_i

\* What the theorems about this module assume of its constants.
PageCountAssumption ==
  /\ PageCount \in Nat \ {0}
  /\ PageCount < INVALID_PAGE
  /\ Slot \subseteq Nat

VARIABLES
  book,
  held \* the pages the caller has been given and has not returned

vars == <<book, held>>

Page == 0 .. PageCount - 1

Init ==
  /\ book = CreateBook(Page)
  /\ held = {}

\* alloc_book_page; the caller fills the page before it does anything else.
Alloc(slot) ==
  /\ Cardinality(held) < PageCount
  /\ book' = WriteCurI(AllocBookPage(book), NextPage(book), slot)
  /\ held' = held \cup {NextPage(book)}

Free(p) ==
  /\ p \in held
  /\ book' = FreeBookPage(book, p)
  /\ held' = held \ {p}

\* The caller moves the entry of a page it holds to another slot.
Move(p, slot) ==
  /\ p \in held
  /\ book' = WriteCurI(book, p, slot)
  /\ UNCHANGED held

Next ==
  \/ \E slot \in Slot : Alloc(slot)
  \/ \E p \in held : Free(p)
  \/ \E p \in held, slot \in Slot : Move(p, slot)

Spec == Init /\ [][Next]_vars

-----------------------------------------------------------------------------
(* The book's fields are typed, and the end of the used part of the array  *)
(* never passes the end of the array.                                      *)
TypeOK ==
  /\ book \in [first_unused : Page \cup {INVALID_PAGE},
              end : 0 .. PageCount,
              link : [Page -> Word]]
  /\ held \subseteq Page

\* The pages that were used once and are free now.
FreePages == (0 .. book.end - 1) \ held

(* s lists the free pages in the order of the list threaded through them.  *)
IsFreeList(s, n) ==
  /\ \A i, j \in 1 .. n : s[i] = s[j] => i = j
  /\ \A p \in FreePages : \E i \in 1 .. n : s[i] = p
  /\ book.first_unused = IF n = 0 THEN INVALID_PAGE ELSE s[1]
  /\ \A i \in 1 .. n : book.link[s[i]] = IF i = n THEN INVALID_PAGE ELSE s[i + 1]

(* The links of the free pages make one list that starts at first_unused   *)
(* and holds each of them once, although the same words hold the slot      *)
(* numbers of entries whenever the pages are in use.                       *)
FreeListExact ==
  \E n \in 0 .. PageCount : \E s \in [1 .. n -> FreePages] : IsFreeList(s, n)

(* alloc_book_page never hands out a page the caller still holds, and as   *)
(* long as the caller holds fewer than PageCount pages the page it hands   *)
(* out lies within the array, however many were taken and returned before. *)
PagesAreSafe ==
  Cardinality(held) < PageCount => NextPage(book) \in Page \ held

=============================================================================
