-------------------------------- MODULE Book --------------------------------
(***************************************************************************)
(* book.h: constant-time allocation of pages from one array.  Pages that   *)
(* were given back form a linked list threaded through the pages           *)
(* themselves; only when it is empty is a page taken from the unused end   *)
(* of the array.                                                           *)
(*                                                                         *)
(* A page is a union of the bookmark "next" and of an entry whose first    *)
(* field is "cur_i": they are one word of memory, the link of the page.    *)
(* It is cur_i while the page holds an entry, next while it is free.       *)
(***************************************************************************)
EXTENDS IndexType

\* create_book, over an array of the given pages that nobody has written yet.
CreateBook(pages) ==
  [first_unused |-> INVALID_PAGE, end |-> 0, link |-> [p \in pages |-> JUNK]]

\* The bookmark the next alloc_book_page returns ...
NextPage(book) ==
  IF book.first_unused = INVALID_PAGE THEN book.end ELSE book.first_unused

\* (a variant: the list never advances)
AllocKeepsFirst(book) ==
  IF book.first_unused = INVALID_PAGE THEN [book EXCEPT !.end = book.end + 1] ELSE book

\* ... and the book it leaves behind.
AllocBookPage(book) ==
  IF book.first_unused = INVALID_PAGE
  THEN [book EXCEPT !.end = book.end + 1]
  ELSE [book EXCEPT !.first_unused = book.link[book.first_unused]]

\* (a variant: the page is not linked to the other free pages)
FreeUnlinked(book, p) == [book EXCEPT !.first_unused = p]

FreeBookPage(book, p) ==
  [book EXCEPT !.link = [book.link EXCEPT ![p] = book.first_unused],
               !.first_unused = p]

\* (a variant: the entry is not told its slot)
ForgetCurI(book, p, slot) == book

\* read_book(book, p)->cur_i = slot
WriteCurI(book, p, slot) ==
  [book EXCEPT !.link = [book.link EXCEPT ![p] = slot]]

=============================================================================
