------------------------------ MODULE MCCache ------------------------------
(***************************************************************************)
(* Small caches for TLC: few keys, and sizes that force evictions.         *)
(***************************************************************************)
EXTENDS CacheProperties, TLC

CONSTANTS k1, k2, k3, k4, a1, a2, b1, b2, c1, c2, d1

MCKey == {k1, k2, k3}
MCValue == {a1, a2, b1, b2, c1, c2}
MCValuesOf == k1 :> {a1, a2} @@ k2 :> {b1, b2} @@ k3 :> {c1, c2}
MCFewValuesOf == k1 :> {a1, a2} @@ k2 :> {b1} @@ k3 :> {c1}

-----------------------------------------------------------------------------
\* Setting k1 evicts both others; c2 is larger than the cache.
SpreadKeySize == k1 :> 2 @@ k2 :> 1 @@ k3 :> 1
SpreadValSize == a1 :> 2 @@ a2 :> 2 @@ b1 :> 1 @@ b2 :> 1 @@ c1 :> 1 @@ c2 :> 9
SpreadHash == k1 :> 0 @@ k2 :> 1 @@ k3 :> 18

\* The same, but k1 has a second value that needs more room than the first.
ResizeValSize == a1 :> 1 @@ a2 :> 3 @@ b1 :> 1 @@ b2 :> 1 @@ c1 :> 1 @@ c2 :> 9

\* Any two entries fit and three do not, so only insertions evict.  k1 and
\* k2 have the same hash, k3 starts where their second probe goes.
PairKeySize == k1 :> 2 @@ k2 :> 2 @@ k3 :> 2
PairValSize == a1 :> 3 @@ a2 :> 2 @@ b1 :> 3 @@ b2 :> 3 @@ c1 :> 3 @@ c2 :> 3
CollidingHash == k1 :> 0 @@ k2 :> 0 @@ k3 :> 1

\* Two entries fit.  k1 and k2 start at the same slot of the initial table
\* of four slots; k3 starts elsewhere in a table of eight than in one of four.
UnitKeySize == [k \in Key |-> 1]
UnitValSize == [v \in Value |-> 1]
GrowHash == k1 :> 0 @@ k2 :> 4 @@ k3 :> 7

\* Four keys that between them reach every slot of a table of four slots; k1
\* and k4 have the same hash.  k3 and k4 fit together, k1 and k2 fit alone.
FourKeys == {k1, k2, k3, k4}
FourValues == {a2, b1, c1, d1}
OneValueOf == k1 :> {a2} @@ k2 :> {b1} @@ k3 :> {c1} @@ k4 :> {d1}
FourValSize == a2 :> 2 @@ b1 :> 2 @@ c1 :> 1 @@ d1 :> 1
FourHash == k1 :> 0 @@ k2 :> 2 @@ k3 :> 3 @@ k4 :> 0

=============================================================================
