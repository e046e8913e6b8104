------------------------------- MODULE Sizes -------------------------------
(***************************************************************************)
(* Memory as the cache counts it: the bytes of the keys, terminators       *)
(* included, and of the values.                                            *)
(***************************************************************************)
EXTENDS Integers, FiniteSetsExt

CONSTANTS Key, KeySize, ValSize, NULL

Size(k, v) == KeySize[k] + ValSize[v]

\* Memory taken by a map from keys to values.
Used(map) == MapThenSumSet(LAMBDA k : Size(k, map[k]), {k \in Key : map[k] # NULL})

=============================================================================
