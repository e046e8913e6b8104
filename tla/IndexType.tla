----------------------------- MODULE IndexType -----------------------------
(***************************************************************************)
(* The unsigned integer type index_type (cache.h) that every size, hash,   *)
(* slot number and page number of the cache is stored in, and the two      *)
(* values of it with a meaning of their own.  In the code the type has 32  *)
(* bits; here its width is given by HIGH_BIT, the value of the top bit.    *)
(***************************************************************************)
EXTENDS Integers

CONSTANTS
  HIGH_BIT, \* value of the most significant bit: 2^31 in the code
  JUNK      \* what a word of a fresh "new byte[]" block holds before it is written

\* Every divisor of n but 1 is even.
PowerOfTwo(n) == n > 0 /\ \A d \in 2 .. n : n % d = 0 => d % 2 = 0

ASSUME IndexAssumption ==
  /\ HIGH_BIT \in Nat
  /\ HIGH_BIT >= 4
  /\ PowerOfTwo(HIGH_BIT)
  /\ JUNK \notin Int

INDEX_RANGE == 2 * HIGH_BIT

Index == 0 .. INDEX_RANGE - 1

\* What a word of a memory block may hold.
Word == Int \cup {JUNK}

\* Arithmetic on index_type wraps around.
Wrap(n) == n % INDEX_RANGE

\* The difference of two Index values, as unsigned arithmetic computes it.
Minus(m, n) == Wrap(m + (INDEX_RANGE - n))

\* INVALID_PAGE and INVALID_NODE are both the constant -1 of an unsigned type.
INVALID_PAGE == INDEX_RANGE - 1
INVALID_NODE == INDEX_RANGE - 1

=============================================================================
