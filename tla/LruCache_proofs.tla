--------------------------- MODULE LruCache_proofs ---------------------------
(***************************************************************************)
(* The map of LruCache keeps its own conditions, for any keys, sizes       *)
(* and capacities: the order of use is exact, the memory limit holds, and  *)
(* a set that lacks room always has a victim.                              *)
(***************************************************************************)
EXTENDS LruCache, WellFoundedInduction, FiniteSetTheorems, TLAPS

-----------------------------------------------------------------------------
(* Sums over finite sets, as MapThenSumSet computes them.                  *)

(* A nonempty set of naturals has a least element.                         *)
LEMMA LeastElement ==
  ASSUME NEW S \in SUBSET Nat, S # {}
  PROVE  \E c \in S : \A d \in S : c <= d
<1> DEFINE R == OpToRel(<, Nat)
<1>1. IsWellFoundedOn(R, Nat)
  BY NatLessThanWellFounded
<1> HIDE DEF R
<1>2. PICK c \in S : \A d \in S : ~ (<<d, c>> \in R)
  BY <1>1, WFMin
<1>3. ASSUME NEW d \in S
      PROVE  c <= d
  <2>1. <<d, c>> \notin R
    BY <1>2
  <2>2. c \in Nat /\ d \in Nat
    OBVIOUS
  <2>3. ~ (d < c)
    BY <2>1, <2>2 DEF R, OpToRel
  <2> QED BY <2>2, <2>3
<1> QED BY <1>3

Chosen(s) == CHOOSE x \in s : TRUE

\* g adds up the weights w of the elements of each subset of S in D.
Folds(g, w, D) ==
  g = [s \in D |-> IF s = {} THEN 0 ELSE w[Chosen(s)] + g[s \ {Chosen(s)}]]

\* The subsets of S with at most n elements.
Small(S, n) == {s \in SUBSET S : Cardinality(s) <= n}

LEMMA SmallFolds ==
  ASSUME NEW S, IsFiniteSet(S), NEW w, NEW n \in Nat
  PROVE  \E g : Folds(g, w, Small(S, n))
<1> DEFINE Bad == {m \in Nat : ~ \E g : Folds(g, w, Small(S, m))}
<1> SUFFICES ASSUME n \in Bad PROVE FALSE
  OBVIOUS
<1>1. PICK m \in Bad : \A d \in Bad : m <= d
  BY LeastElement
<1>2. \A s \in SUBSET S : IsFiniteSet(s) /\ Cardinality(s) \in Nat
  BY FS_Subset, FS_CardinalityType
<1>3. CASE m = 0
  <2>1. Small(S, 0) = {{}}
    BY <1>2, FS_EmptySet DEF Small
  <2>2. Folds([s \in {{}} |-> 0], w, {{}})
    BY DEF Folds
  <2> QED BY <1>1, <1>3, <2>1, <2>2
<1>4. CASE m # 0
  <2>1. m - 1 \in Nat /\ m - 1 \notin Bad
    BY <1>1, <1>4
  <2>2. PICK g : Folds(g, w, Small(S, m - 1))
    BY <2>1
  <2> DEFINE h == [s \in Small(S, m) |->
                     IF s = {} THEN 0 ELSE w[Chosen(s)] + g[s \ {Chosen(s)}]]
  <2>3. \A t \in Small(S, m - 1) : t \in Small(S, m) /\ h[t] = g[t]
    <3>1. \A t \in Small(S, m - 1) : t \in Small(S, m)
      BY <1>2, <2>1 DEF Small
    <3>2. \A t \in Small(S, m - 1) :
            g[t] = IF t = {} THEN 0 ELSE w[Chosen(t)] + g[t \ {Chosen(t)}]
      BY <2>2 DEF Folds
    <3> QED BY <3>1, <3>2
  <2>4. \A s \in Small(S, m) : s # {} => s \ {Chosen(s)} \in Small(S, m - 1)
    <3> SUFFICES ASSUME NEW s \in Small(S, m), s # {}
                 PROVE  s \ {Chosen(s)} \in Small(S, m - 1)
      OBVIOUS
    <3>1. Chosen(s) \in s
      BY DEF Chosen
    <3>2. Cardinality(s \ {Chosen(s)}) = Cardinality(s) - 1
      BY <1>2, <3>1, FS_RemoveElement DEF Small
    <3> QED BY <1>2, <2>1, <3>2 DEF Small
  <2>5. \A s \in Small(S, m) :
          h[s] = IF s = {} THEN 0 ELSE w[Chosen(s)] + h[s \ {Chosen(s)}]
    BY <2>3, <2>4
  <2>6. Folds(h, w, Small(S, m))
    <3>1. h = [s \in Small(S, m) |-> h[s]]
      OBVIOUS
    <3> HIDE DEF h
    <3> QED BY <2>5, <3>1 DEF Folds
  <2> QED BY <1>1, <2>6
<1> QED BY <1>3, <1>4

LEMMA FoldExists ==
  ASSUME NEW S, IsFiniteSet(S), NEW w
  PROVE  \E g : Folds(g, w, SUBSET S)
<1>1. PICK n \in Nat : n = Cardinality(S)
  BY FS_CardinalityType
<1>2. Small(S, n) = SUBSET S
  BY <1>1, FS_Subset DEF Small
<1>3. \E g : Folds(g, w, Small(S, n))
  BY SmallFolds
<1> QED BY <1>2, <1>3

\* g adds up the weights of R, a subset of S.
FoldsOver(g, w, S, R) == Folds(g, w, SUBSET S) /\ R \subseteq S

Agree(v, w, R) == \A x \in R : v[x] = w[x]

\* What a sum is depends on the weights of its elements only.
LEMMA FoldEqual ==
  ASSUME NEW R, IsFiniteSet(R), NEW v, NEW w, Agree(v, w, R),
         NEW f, NEW S, FoldsOver(f, v, S, R), NEW g, NEW T, FoldsOver(g, w, T, R)
  PROVE  f[R] = g[R]
<1> DEFINE Bad == {m \in Nat : \E s \in SUBSET R : Cardinality(s) = m /\ f[s] # g[s]}
<1> SUFFICES ASSUME f[R] # g[R] PROVE FALSE
  OBVIOUS
<1>1. \A s \in SUBSET R : IsFiniteSet(s) /\ Cardinality(s) \in Nat
  BY FS_Subset, FS_CardinalityType
<1>2. PICK m \in Bad : \A d \in Bad : m <= d
  <2>1. Cardinality(R) \in Bad
    BY <1>1
  <2> QED BY <2>1, LeastElement
<1>3. PICK s \in SUBSET R : Cardinality(s) = m /\ f[s] # g[s]
  OBVIOUS
<1>4. /\ f[s] = IF s = {} THEN 0 ELSE v[Chosen(s)] + f[s \ {Chosen(s)}]
      /\ g[s] = IF s = {} THEN 0 ELSE w[Chosen(s)] + g[s \ {Chosen(s)}]
  <2>1. s \in SUBSET S /\ s \in SUBSET T
    BY DEF FoldsOver
  <2> QED BY <2>1 DEF FoldsOver, Folds
<1>5. s # {}
  BY <1>3, <1>4
<1>6. Chosen(s) \in s
  BY <1>5 DEF Chosen
<1> DEFINE t == s \ {Chosen(s)}
<1>7. t \in SUBSET R /\ Cardinality(t) = m - 1 /\ Cardinality(t) \in Nat
  BY <1>1, <1>3, <1>6, FS_RemoveElement
<1>8. f[t] = g[t]
  BY <1>2, <1>7
<1>9. v[Chosen(s)] = w[Chosen(s)]
  BY <1>6 DEF Agree
<1> QED BY <1>3, <1>4, <1>5, <1>8, <1>9

\* Any element may be taken out of a sum first.
LEMMA FoldRemove ==
  ASSUME NEW S, IsFiniteSet(S), NEW w, \A x \in S : w[x] \in Int,
         NEW g, Folds(g, w, SUBSET S), NEW s \in SUBSET S
  PROVE  g[s] \in Int /\ \A x \in s : g[s] = w[x] + g[s \ {x}]
<1> DEFINE Good(t) == g[t] \in Int /\ \A x \in t : g[t] = w[x] + g[t \ {x}]
           Bad == {m \in Nat : \E t \in SUBSET S : Cardinality(t) = m /\ ~ Good(t)}
<1> SUFFICES ASSUME ~ Good(s) PROVE FALSE
  OBVIOUS
<1>1. \A t \in SUBSET S : IsFiniteSet(t) /\ Cardinality(t) \in Nat
  BY FS_Subset, FS_CardinalityType
<1>2. PICK m \in Bad : \A d \in Bad : m <= d
  <2>1. Cardinality(s) \in Bad
    BY <1>1
  <2> QED BY <2>1, LeastElement
<1>3. PICK t \in SUBSET S : Cardinality(t) = m /\ ~ Good(t)
  OBVIOUS
<1>4. \A u \in SUBSET S : Cardinality(u) < m => Good(u)
  <2> HIDE DEF Good
  <2> QED BY <1>1, <1>2
<1> DEFINE c == Chosen(t)
<1>5. g[t] = IF t = {} THEN 0 ELSE w[c] + g[t \ {c}]
  BY DEF Folds
<1>6. t # {}
  BY <1>3, <1>5
<1>7. c \in t
  BY <1>6 DEF Chosen
<1> HIDE DEF c
<1>8. \A x \in t : t \ {x} \in SUBSET S /\ Good(t \ {x})
  <2> SUFFICES ASSUME NEW x \in t PROVE t \ {x} \in SUBSET S /\ Good(t \ {x})
    OBVIOUS
  <2>1. Cardinality(t \ {x}) = m - 1 /\ t \ {x} \in SUBSET S
    BY <1>1, <1>3, FS_RemoveElement
  <2> HIDE DEF Good
  <2> QED BY <1>4, <2>1
<1>9. g[t] \in Int
  <2>1. w[c] \in Int /\ g[t \ {c}] \in Int
    BY <1>7, <1>8
  <2> QED BY <1>5, <1>6, <2>1
<1>10. ASSUME NEW x \in t, x # c
       PROVE  g[t] = w[x] + g[t \ {x}]
  <2>1. g[t \ {c}] = w[x] + g[(t \ {c}) \ {x}]
    BY <1>7, <1>8, <1>10
  <2>2. g[t \ {x}] = w[c] + g[(t \ {x}) \ {c}]
    BY <1>7, <1>8, <1>10
  <2>3. g[(t \ {c}) \ {x}] = g[(t \ {x}) \ {c}]
    <3>1. (t \ {c}) \ {x} = (t \ {x}) \ {c}
      OBVIOUS
    <3> QED BY <3>1
  <2>4. g[(t \ {x}) \ {c}] \in Int
    <3>1. Cardinality(t \ {x}) = m - 1 /\ c \in t \ {x}
      BY <1>1, <1>3, <1>7, <1>10, FS_RemoveElement
    <3>2. t \ {x} \in SUBSET S /\ (t \ {x}) \ {c} \in SUBSET S
      OBVIOUS
    <3>3. Cardinality((t \ {x}) \ {c}) < m
      <4>1. PICK u : u = t \ {x}
        OBVIOUS
      <4>2. IsFiniteSet(u) /\ c \in u /\ Cardinality(u) = m - 1
        BY <1>1, <3>1, <3>2, <4>1
      <4>3. Cardinality(u \ {c}) = Cardinality(u) - 1
        BY <4>2, FS_RemoveElement
      <4> QED BY <4>1, <4>2, <4>3
    <3> HIDE DEF Good
    <3>4. Good((t \ {x}) \ {c})
      BY <1>4, <3>2, <3>3
    <3> QED BY <3>4 DEF Good
  <2>5. w[x] \in Int /\ w[c] \in Int
    BY <1>7
  <2>6. g[t] = w[c] + g[t \ {c}]
    BY <1>5, <1>6
  <2> HIDE DEF Good
  <2> QED BY <2>1, <2>2, <2>3, <2>4, <2>5, <2>6
<1> QED BY <1>3, <1>5, <1>6, <1>9, <1>10

Sum(w, S) == MapThenSumSet(LAMBDA x : w[x], S)

LEMMA SumFolds ==
  ASSUME NEW S, IsFiniteSet(S), NEW w
  PROVE  \E g : Folds(g, w, SUBSET S) /\ Sum(w, S) = g[S]
<1> DEFINE g == CHOOSE g : Folds(g, w, SUBSET S)
<1>1. Folds(g, w, SUBSET S)
  BY FoldExists
<1>2. Sum(w, S) = g[S]
  BY DEF Sum, MapThenSumSet, MapThenFoldSet, Folds, Chosen
<1> QED BY <1>1, <1>2

(* What the proofs use of a sum.                                           *)
LEMMA SumEmpty ==
  ASSUME NEW w
  PROVE  Sum(w, {}) = 0
<1>1. PICK g : Folds(g, w, SUBSET {}) /\ Sum(w, {}) = g[{}]
  BY SumFolds, FS_EmptySet
<1> QED BY <1>1 DEF Folds

LEMMA SumEqual ==
  ASSUME NEW S, IsFiniteSet(S), NEW v, NEW w, \A x \in S : v[x] = w[x]
  PROVE  Sum(v, S) = Sum(w, S)
<1>1. PICK f : Folds(f, v, SUBSET S) /\ Sum(v, S) = f[S]
  BY SumFolds
<1>2. PICK g : Folds(g, w, SUBSET S) /\ Sum(w, S) = g[S]
  BY SumFolds
<1>3. FoldsOver(f, v, S, S) /\ FoldsOver(g, w, S, S) /\ Agree(v, w, S)
  BY <1>1, <1>2 DEF FoldsOver, Agree
<1>4. f[S] = g[S]
  BY ONLY IsFiniteSet(S), <1>3, FoldEqual
<1> QED BY <1>1, <1>2, <1>4

LEMMA SumRemove ==
  ASSUME NEW S, IsFiniteSet(S), NEW w, \A x \in S : w[x] \in Int, NEW x \in S
  PROVE  /\ Sum(w, S) \in Int /\ Sum(w, S \ {x}) \in Int
         /\ Sum(w, S) = w[x] + Sum(w, S \ {x})
<1> DEFINE T == S \ {x}
<1>1. IsFiniteSet(T) /\ T \in SUBSET S /\ S \in SUBSET S
  BY FS_RemoveElement
<1>2. PICK f : Folds(f, w, SUBSET S) /\ Sum(w, S) = f[S]
  BY SumFolds
<1>3. PICK g : Folds(g, w, SUBSET T) /\ Sum(w, T) = g[T]
  BY <1>1, SumFolds
<1>4. f[S] \in Int /\ f[T] \in Int /\ f[S] = w[x] + f[T]
  <2>1. f[S] \in Int /\ f[S] = w[x] + f[S \ {x}]
    BY <1>1, <1>2, FoldRemove
  <2>2. f[T] \in Int
    <3> HIDE DEF T
    <3> QED BY <1>1, <1>2, FoldRemove
  <2> QED BY <2>1, <2>2
<1>5. f[T] = g[T]
  <2> HIDE DEF T
  <2>1. FoldsOver(f, w, S, T) /\ FoldsOver(g, w, T, T) /\ Agree(w, w, T)
    BY <1>1, <1>2, <1>3 DEF FoldsOver, Agree
  <2> QED BY ONLY <1>1, <2>1, FoldEqual
<1> QED BY <1>2, <1>3, <1>4, <1>5

LEMMA SumAdd ==
  ASSUME NEW S, IsFiniteSet(S), NEW x, x \notin S, NEW w, \A y \in S \cup {x} : w[y] \in Int
  PROVE  Sum(w, S \cup {x}) \in Int /\ Sum(w, S \cup {x}) = w[x] + Sum(w, S)
<1> DEFINE T == S \cup {x}
<1>1. IsFiniteSet(T) /\ x \in T /\ T \ {x} = S
  BY FS_AddElement
<1> HIDE DEF T
<1>2. \A y \in T : w[y] \in Int
  BY DEF T
<1>3. Sum(w, T) \in Int /\ Sum(w, T) = w[x] + Sum(w, T \ {x})
  BY <1>1, <1>2, SumRemove
<1> QED BY <1>1, <1>3 DEF T

(* A sum may be taken over other names of the same elements.               *)
LEMMA SumMapped ==
  ASSUME NEW S, IsFiniteSet(S), NEW w, \A x \in S : w[x] \in Int,
         NEW b, \A x, y \in S : b[x] = b[y] => x = y,
         NEW v, \A x \in S : v[b[x]] = w[x]
  PROVE  Sum(v, {b[x] : x \in S}) = Sum(w, S)
<1> DEFINE Named(R) == {b[x] : x \in R}
           Differ(R) == Sum(v, Named(R)) # Sum(w, R)
           sizes == {Cardinality(R) : R \in {R \in SUBSET S : Differ(R)}}
<1> SUFFICES ASSUME Differ(S) PROVE FALSE
  OBVIOUS
<1>1. ASSUME NEW R \in SUBSET S
      PROVE  IsFiniteSet(R) /\ Cardinality(R) \in Nat /\ IsFiniteSet(Named(R))
  <2>1. IsFiniteSet(R) /\ Cardinality(R) \in Nat
    BY FS_Subset, FS_CardinalityType
  <2>2. [x \in R |-> b[x]] \in Surjection(R, Named(R))
    BY DEF Surjection
  <2> QED BY <2>1, <2>2, FS_Surjection
<1> HIDE DEF Differ
<1>2. sizes \in SUBSET Nat /\ sizes # {}
  BY <1>1
<1>3. PICK c \in sizes : \A d \in sizes : c <= d
  BY <1>2, LeastElement
<1>4. PICK R \in SUBSET S : Differ(R) /\ Cardinality(R) = c
  BY <1>3
<1>5. R # {}
  <2> SUFFICES ASSUME R = {} PROVE FALSE
    OBVIOUS
  <2>1. Named(R) = {}
    OBVIOUS
  <2> QED BY <1>4, <2>1, SumEmpty DEF Differ
<1>6. PICK x \in R : TRUE
  BY <1>5
<1> DEFINE Q == R \ {x}
<1>7. Cardinality(Q) < c /\ Cardinality(Q) \in Nat
  <2>1. Cardinality(Q) = Cardinality(R) - 1
    BY <1>1, <1>6, FS_RemoveElement
  <2>2. Q \in SUBSET S /\ c \in Nat
    BY <1>2
  <2>3. Cardinality(Q) \in Nat
    BY <1>1, <2>2
  <2> QED BY <1>4, <2>1, <2>2, <2>3
<1>8. Sum(v, Named(Q)) = Sum(w, Q)
  <2>1. ~ Differ(Q)
    BY <1>2, <1>3, <1>7
  <2> QED BY <2>1 DEF Differ
<1>9. b[x] \notin Named(Q) /\ Named(R) = Named(Q) \cup {b[x]}
  BY <1>6
<1>10. \A y \in Named(Q) \cup {b[x]} : v[y] \in Int
  BY <1>6
<1>11. Sum(v, Named(R)) = v[b[x]] + Sum(v, Named(Q))
  <2> HIDE DEF Named
  <2> QED BY <1>1, <1>9, <1>10, SumAdd
<1>12. Sum(w, R) = w[x] + Sum(w, Q)
  BY <1>1, <1>6, SumRemove
<1> QED BY <1>4, <1>6, <1>8, <1>11, <1>12 DEF Differ

LEMMA SumNat ==
  ASSUME NEW S, IsFiniteSet(S), NEW w, \A x \in S : w[x] \in Nat
  PROVE  Sum(w, S) \in Nat
<1> DEFINE Bad == {m \in Nat : \E t \in SUBSET S : Cardinality(t) = m /\ Sum(w, t) \notin Nat}
<1> SUFFICES ASSUME Sum(w, S) \notin Nat PROVE FALSE
  OBVIOUS
<1>1. \A t \in SUBSET S : IsFiniteSet(t) /\ Cardinality(t) \in Nat
  BY FS_Subset, FS_CardinalityType
<1>2. PICK m \in Bad : \A d \in Bad : m <= d
  <2>1. Cardinality(S) \in Bad
    BY <1>1
  <2> QED BY <2>1, LeastElement
<1>3. PICK t \in SUBSET S : Cardinality(t) = m /\ Sum(w, t) \notin Nat
  OBVIOUS
<1>4. PICK x : x \in t
  BY <1>3, SumEmpty
<1>5. t \ {x} \in SUBSET S /\ Cardinality(t \ {x}) = m - 1 /\ Cardinality(t \ {x}) \in Nat
  BY <1>1, <1>3, <1>4, FS_RemoveElement
<1>6. Sum(w, t \ {x}) \in Nat
  BY <1>2, <1>5
<1>7. Sum(w, t) = w[x] + Sum(w, t \ {x})
  <2>1. \A y \in t : w[y] \in Int
    OBVIOUS
  <2> QED BY <1>1, <1>4, <2>1, SumRemove
<1> QED BY <1>3, <1>4, <1>6, <1>7

-----------------------------------------------------------------------------
(* Memory taken.                                                           *)

\* What the theorems assume of the constants: the sizes are numbers of bytes,
\* and no stored value is taken for an empty place.
SizesAssumption ==
  /\ KeySize \in [Key -> Nat]
  /\ ValSize \in [Value -> Nat]
  /\ NULL \notin Value
  /\ Capacities \subseteq Nat

Kept(map) == {k \in Key : map[k] # NULL}

SizesIn(map) == [k \in Key |-> Size(k, map[k])]

LEMMA UsedIsSum ==
  ASSUME NEW map, IsFiniteSet(Kept(map))
  PROVE  Used(map) = Sum(SizesIn(map), Kept(map))
<1> DEFINE w == SizesIn(map)
           S == Kept(map)
           F(g) == g = [s \in SUBSET S |->
                          IF s = {} THEN 0
                          ELSE Size(Chosen(s), map[Chosen(s)]) + g[s \ {Chosen(s)}]]
           f == CHOOSE g : F(g)
<1>1. \A g : F(g) <=> Folds(g, w, SUBSET S)
  <2>1. \A s \in SUBSET S : s # {} => w[Chosen(s)] = Size(Chosen(s), map[Chosen(s)])
    BY DEF Kept, SizesIn, Chosen
  <2> HIDE DEF S, w
  <2> QED BY <2>1 DEF Folds
<1>2. \E g : F(g)
  BY <1>1, FoldExists
<1>3. F(f)
  BY <1>2
<1>4. Used(map) = f[S]
  BY DEF Used, MapThenSumSet, MapThenFoldSet, Chosen, Kept
<1>5. PICK g : Folds(g, w, SUBSET S) /\ Sum(w, S) = g[S]
  BY SumFolds
<1>6. Folds(f, w, SUBSET S)
  BY <1>1, <1>3
<1> HIDE DEF f, w, S
<1>7. IsFiniteSet(S)
  BY DEF S
<1>8. FoldsOver(f, w, S, S) /\ FoldsOver(g, w, S, S) /\ Agree(w, w, S)
  BY <1>5, <1>6 DEF FoldsOver, Agree
<1>9. f[S] = g[S]
  BY ONLY <1>7, <1>8, FoldEqual
<1> QED BY <1>4, <1>5, <1>9 DEF S, w

Stored == Kept(store)

\* Storing a value: its size, and what the others take.
LEMMA UsedSet ==
  ASSUME SizesAssumption, NEW map \in [Key -> Value \cup {NULL}], IsFiniteSet(Kept(map)),
         NEW k \in Key, NEW v \in Value
  PROVE  Used([map EXCEPT ![k] = v]) = Size(k, v) + Sum(SizesIn(map), Kept(map) \ {k})
<1> DEFINE new == [map EXCEPT ![k] = v]
           S == Kept(map) \ {k}
<1>1. Kept(new) = S \cup {k}
  BY DEF Kept, SizesAssumption
<1>2. IsFiniteSet(S) /\ k \notin S /\ IsFiniteSet(S \cup {k})
  BY FS_RemoveElement, FS_AddElement
<1>3. \A x \in S \cup {k} : SizesIn(new)[x] \in Int
  BY DEF Kept, SizesIn, SizesAssumption, Size
<1>4. \A x \in S : SizesIn(new)[x] = SizesIn(map)[x]
  BY DEF Kept, SizesIn
<1>5. SizesIn(new)[k] = Size(k, v)
  BY DEF SizesIn
<1>6. Used(new) = Sum(SizesIn(new), Kept(new))
  BY <1>1, <1>2, UsedIsSum
<1> HIDE DEF S, new
<1>7. Sum(SizesIn(new), S \cup {k}) = SizesIn(new)[k] + Sum(SizesIn(new), S)
  BY <1>2, <1>3, SumAdd
<1>8. Sum(SizesIn(new), S) = Sum(SizesIn(map), S)
  BY <1>2, <1>4, SumEqual
<1> QED BY <1>1, <1>5, <1>6, <1>7, <1>8 DEF S, new

\* Forgetting a key: what the others take, which is no more than before.
LEMMA UsedForget ==
  ASSUME SizesAssumption, NEW map \in [Key -> Value \cup {NULL}], IsFiniteSet(Kept(map)),
         NEW k \in Key
  PROVE  /\ Used(map) \in Nat /\ Used([map EXCEPT ![k] = NULL]) \in Nat
         /\ Used([map EXCEPT ![k] = NULL]) <= Used(map)
<1> DEFINE new == [map EXCEPT ![k] = NULL]
           S == Kept(map)
           T == S \ {k}
<1>1. Kept(new) = T
  BY DEF Kept
<1>2. IsFiniteSet(T)
  BY FS_RemoveElement
<1>3. \A x \in S : SizesIn(map)[x] \in Nat
  BY DEF Kept, SizesIn, SizesAssumption, Size
<1>4. \A x \in T : SizesIn(new)[x] = SizesIn(map)[x]
  BY DEF Kept, SizesIn
<1>5. Used(map) = Sum(SizesIn(map), S) /\ Used(new) = Sum(SizesIn(new), T)
  BY <1>1, <1>2, UsedIsSum
<1>6. \A x \in T : SizesIn(map)[x] \in Nat
  BY <1>3
<1>7. k \notin S => T = S
  OBVIOUS
<1>8. IsFiniteSet(S)
  OBVIOUS
<1> HIDE DEF T, new, S
<1>9. Sum(SizesIn(new), T) = Sum(SizesIn(map), T)
  BY <1>2, <1>4, SumEqual
<1>10. Sum(SizesIn(map), T) \in Nat
  BY <1>2, <1>6, SumNat
<1>11. CASE k \in S
  <2>1. Sum(SizesIn(map), S) = SizesIn(map)[k] + Sum(SizesIn(map), S \ {k})
    <3>1. \A x \in S : SizesIn(map)[x] \in Int
      BY <1>3
    <3> QED BY <1>8, <1>11, <3>1, SumRemove
  <2>2. SizesIn(map)[k] \in Nat
    BY <1>3, <1>11
  <2> QED BY <1>5, <1>9, <1>10, <2>1, <2>2 DEF T, new
<1>12. CASE k \notin S
  BY <1>5, <1>7, <1>9, <1>10, <1>12 DEF new
<1> QED BY <1>11, <1>12

LEMMA UsedNone == Used([k \in Key |-> NULL]) = 0
<1>1. Kept([k \in Key |-> NULL]) = {}
  BY DEF Kept
<1> QED BY <1>1, UsedIsSum, SumEmpty, FS_EmptySet

-----------------------------------------------------------------------------
(* The order of use.                                                       *)

InOrder(s) == {s[j] : j \in 1 .. Len(s)}

Once(s) == \A i, j \in 1 .. Len(s) : s[i] = s[j] => i = j

(* Taking out an element that occurs once closes the gap it leaves.        *)
LEMMA WithoutAt ==
  ASSUME NEW S, NEW s \in Seq(S), NEW i \in 1 .. Len(s),
         \A j \in 1 .. Len(s) : s[j] = s[i] => j = i
  PROVE  LET t == Without(s, s[i]) IN
         /\ Len(s) \in Nat /\ t \in Seq(S) /\ Len(t) = Len(s) - 1
         /\ \A j \in 1 .. Len(s) - 1 : t[j] = IF j < i THEN s[j] ELSE s[j + 1]
<1> DEFINE a == SubSeq(s, 1, i - 1)
           b == SubSeq(s, i + 1, Len(s))
           t == a \o b
<1>1. {j \in 1 .. Len(s) : s[j] = s[i]} = {i}
  OBVIOUS
<1>2. SelectInSeq(s, LAMBDA v : v = s[i]) = i
  BY <1>1 DEF SelectInSeq, Min
<1>3. Without(s, s[i]) = t
  BY <1>2 DEF Without, RemoveFirst, RemoveAt
<1>4. a \in Seq(S) /\ Len(a) = i - 1 /\ \A j \in 1 .. i - 1 : a[j] = s[j]
  OBVIOUS
<1>5. b \in Seq(S) /\ Len(b) = Len(s) - i /\ \A j \in 1 .. Len(s) - i : b[j] = s[i + j]
  OBVIOUS
<1> HIDE DEF a, b
<1>6. t \in Seq(S) /\ Len(s) \in Nat /\ Len(t) = Len(s) - 1
  <2>1. Len(a \o b) = Len(a) + Len(b)
    <3>1. a \in Seq(S) /\ b \in Seq(S)
      BY <1>4, <1>5
    <3> QED BY ONLY <3>1
  <2>2. Len(s) \in Nat /\ i \in Int
    OBVIOUS
  <2>3. a \o b \in Seq(S)
    BY <1>4, <1>5
  <2> QED BY <1>4, <1>5, <2>1, <2>2, <2>3
<1>7. ASSUME NEW j \in 1 .. Len(s) - 1
      PROVE  t[j] = IF j < i THEN s[j] ELSE s[j + 1]
  <2>1. CASE j < i
    BY <1>4, <1>5, <2>1
  <2>2. CASE ~ (j < i)
    <3>1. j - (i - 1) \in 1 .. Len(s) - i /\ i + (j - (i - 1)) = j + 1
      BY <2>2
    <3>2. t[j] = b[j - Len(a)]
      BY <1>4, <1>5, <2>2
    <3>3. b[j - (i - 1)] = s[j + 1]
      BY <1>5, <3>1
    <3> QED BY <1>4, <2>2, <3>2, <3>3
  <2> QED BY <2>1, <2>2
<1> HIDE DEF t
<1> QED BY <1>3, <1>6, <1>7

LEMMA WithoutNone ==
  ASSUME NEW s, NEW e, \A j \in 1 .. Len(s) : s[j] # e
  PROVE  Without(s, e) = s
BY DEF Without, RemoveFirst

LEMMA WithoutExact ==
  ASSUME NEW S, NEW s \in Seq(S), Once(s), NEW e
  PROVE  /\ Without(s, e) \in Seq(S)
         /\ Once(Without(s, e))
         /\ InOrder(Without(s, e)) = InOrder(s) \ {e}
<1>1. CASE e \notin InOrder(s)
  <2>1. Without(s, e) = s
    BY <1>1, WithoutNone DEF InOrder
  <2> QED BY <1>1, <2>1
<1>2. CASE e \in InOrder(s)
  <2>1. PICK i \in 1 .. Len(s) : s[i] = e
    BY <1>2 DEF InOrder
  <2> DEFINE t == Without(s, e)
  <2>2. /\ Len(s) \in Nat /\ t \in Seq(S) /\ Len(t) = Len(s) - 1
        /\ \A j \in 1 .. Len(s) - 1 : t[j] = IF j < i THEN s[j] ELSE s[j + 1]
    BY <2>1, WithoutAt DEF Once
  <2> HIDE DEF t
  <2>3. Once(t)
    <3> SUFFICES ASSUME NEW j \in 1 .. Len(t), NEW m \in 1 .. Len(t), t[j] = t[m]
                 PROVE  j = m
      BY DEF Once
    <3> DEFINE At(x) == IF x < i THEN x ELSE x + 1
    <3>1. At(j) \in 1 .. Len(s) /\ At(m) \in 1 .. Len(s)
      BY <2>1, <2>2
    <3>2. t[j] = s[At(j)] /\ t[m] = s[At(m)]
      BY <2>1, <2>2
    <3>3. At(j) = At(m)
      BY <3>1, <3>2 DEF Once
    <3> QED BY <2>1, <3>3
  <2>4. InOrder(t) \subseteq InOrder(s) \ {e}
    BY <2>1, <2>2 DEF Once, InOrder
  <2>5. ASSUME NEW j \in 1 .. Len(s), j # i
        PROVE  s[j] \in InOrder(t)
    <3>1. CASE j < i
      BY <2>1, <2>2, <3>1 DEF InOrder
    <3>2. CASE j > i
      <4>1. j - 1 \in 1 .. Len(t) /\ t[j - 1] = s[j]
        BY <2>1, <2>2, <3>2
      <4> QED BY <4>1 DEF InOrder
    <3> QED BY <2>1, <2>5, <3>1, <3>2
  <2>6. InOrder(s) \ {e} \subseteq InOrder(t)
    BY <2>1, <2>5 DEF InOrder
  <2> QED BY <2>2, <2>3, <2>4, <2>6 DEF t
<1> QED BY <1>1, <1>2

LEMMA AppendOnce ==
  ASSUME NEW S, NEW s \in Seq(S), Once(s), NEW e \in S, e \notin InOrder(s)
  PROVE  /\ Append(s, e) \in Seq(S)
         /\ Once(Append(s, e))
         /\ InOrder(Append(s, e)) = InOrder(s) \cup {e}
<1>1. /\ Len(s) \in Nat /\ Append(s, e) \in Seq(S) /\ Len(Append(s, e)) = Len(s) + 1
      /\ \A j \in 1 .. Len(s) + 1 : Append(s, e)[j] = IF j = Len(s) + 1 THEN e ELSE s[j]
  OBVIOUS
<1>2. Once(Append(s, e))
  BY <1>1 DEF Once, InOrder
<1>3. InOrder(Append(s, e)) = InOrder(s) \cup {e}
  BY <1>1 DEF InOrder
<1> QED BY <1>1, <1>2, <1>3

\* A key that is used again is moved to the end.
LEMMA RenewExact ==
  ASSUME NEW S, NEW s \in Seq(S), Once(s), NEW e \in S
  PROVE  /\ Append(Without(s, e), e) \in Seq(S)
         /\ Once(Append(Without(s, e), e))
         /\ InOrder(Append(Without(s, e), e)) = InOrder(s) \cup {e}
<1> DEFINE t == Without(s, e)
<1>1. t \in Seq(S) /\ Once(t) /\ InOrder(t) = InOrder(s) \ {e}
  BY WithoutExact
<1> HIDE DEF t
<1>2. /\ Append(t, e) \in Seq(S) /\ Once(Append(t, e))
      /\ InOrder(Append(t, e)) = InOrder(t) \cup {e}
  BY <1>1, AppendOnce
<1> QED BY <1>1, <1>2 DEF t

-----------------------------------------------------------------------------
(* The inductive invariant.  A set in progress fits into an empty cache:   *)
(* that is why making room for it must succeed.                            *)

PendingFits ==
  pending # NULL =>
    /\ pending.key \in Key /\ pending.val \in Value
    /\ Size(pending.key, pending.val) <= mem_capacity

LruInv ==
  /\ store \in [Key -> Value \cup {NULL}]
  /\ order \in Seq(Key)
  /\ mem_capacity \in Nat
  /\ IsFiniteSet(Stored)
  /\ OrderExact
  /\ PendingFits
  /\ WithinCapacity

LEMMA OrderInOrder ==
  OrderExact <=> InOrder(order) = Stored /\ Once(order)
BY DEF OrderExact, InOrder, Once, Stored, Kept

LEMMA LruInvVictim ==
  ASSUME SizesAssumption, LruInv
  PROVE  VictimExists
<1> SUFFICES ASSUME pending # NULL, Needed > mem_capacity, Without(order, pending.key) = <<>>
             PROVE  FALSE
  BY DEF VictimExists
<1>1. pending.key \in Key /\ pending.val \in Value /\ Size(pending.key, pending.val) <= mem_capacity
  BY DEF LruInv, PendingFits
<1>2. InOrder(Without(order, pending.key)) = Stored \ {pending.key}
  BY OrderInOrder, WithoutExact DEF LruInv
<1>3. Stored \ {pending.key} = {}
  BY <1>2 DEF InOrder
<1>4. Needed = Size(pending.key, pending.val) + Sum(SizesIn(store), {})
  BY <1>1, <1>3, UsedSet DEF LruInv, Needed, Stored
<1>5. Needed = Size(pending.key, pending.val) /\ Size(pending.key, pending.val) \in Nat
  BY <1>1, <1>4, SumEmpty DEF Size, SizesAssumption
<1> QED BY <1>1, <1>5 DEF LruInv

\* The key that is evicted has a value, and is not the one being set.
LEMMA VictimStored ==
  ASSUME SizesAssumption, LruInv, pending # NULL, Needed > mem_capacity
  PROVE  Head(Without(order, pending.key)) \in Stored \ {pending.key}
<1> DEFINE t == Without(order, pending.key)
<1>1. t # <<>>
  BY LruInvVictim DEF VictimExists
<1>2. t \in Seq(Key) /\ InOrder(t) = Stored \ {pending.key}
  BY OrderInOrder, WithoutExact DEF LruInv
<1> HIDE DEF t
<1>3. Head(t) = t[1] /\ 1 \in 1 .. Len(t)
  BY <1>1, <1>2
<1>4. Head(t) \in InOrder(t)
  BY <1>3 DEF InOrder
<1> QED BY <1>2, <1>4 DEF t

LEMMA LruInvInit ==
  ASSUME SizesAssumption, Init PROVE LruInv
<1>1. Stored = {} /\ IsFiniteSet(Stored)
  BY FS_EmptySet DEF Init, Stored, Kept
<1>2. OrderExact
  BY <1>1, OrderInOrder DEF Init, InOrder, Once
<1>3. mem_capacity \in Nat /\ WithinCapacity
  BY UsedNone DEF Init, SizesAssumption, WithinCapacity
<1> QED BY <1>1, <1>2, <1>3 DEF Init, LruInv, PendingFits

\* One key loses its value, and its place in the order.
LEMMA ForgetKeeps ==
  ASSUME SizesAssumption, LruInv, NEW k \in Key,
         store' = [store EXCEPT ![k] = NULL], order' = Without(order, k),
         UNCHANGED <<pending, mem_capacity>>
  PROVE  LruInv'
<1>1. store' \in [Key -> Value \cup {NULL}] /\ Stored' = Stored \ {k}
  BY DEF LruInv, Stored, Kept
<1>2. IsFiniteSet(Stored')
  BY <1>1, FS_RemoveElement DEF LruInv
<1>3. order' \in Seq(Key) /\ Once(order') /\ InOrder(order') = InOrder(order) \ {k}
  BY OrderInOrder, WithoutExact DEF LruInv
<1>4. OrderExact'
  <2>1. InOrder(order') = Stored'
    BY <1>1, <1>3, OrderInOrder DEF LruInv
  <2> QED BY <1>3, <2>1 DEF OrderExact, InOrder, Once, Stored, Kept
<1>5. WithinCapacity'
  <2>1. Used(store) \in Nat /\ Used(store') \in Nat /\ Used(store') <= Used(store)
    BY UsedForget DEF LruInv, Stored
  <2> QED BY <2>1 DEF LruInv, WithinCapacity
<1> QED BY <1>1, <1>2, <1>3, <1>4, <1>5 DEF LruInv, PendingFits

\* The cache is emptied.
LEMMA EmptyKeeps ==
  ASSUME SizesAssumption, LruInv, store' = [k \in Key |-> NULL], order' = <<>>,
         mem_capacity' \in Nat, pending = NULL, pending' = NULL
  PROVE  LruInv'
<1>1. Stored' = {} /\ IsFiniteSet(Stored')
  BY FS_EmptySet DEF Stored, Kept
<1>2. OrderExact'
  BY <1>1 DEF OrderExact, Stored, Kept
<1>3. WithinCapacity'
  BY UsedNone DEF WithinCapacity
<1> QED BY <1>1, <1>2, <1>3 DEF LruInv, PendingFits

\* A key becomes the one used last.
LEMMA RenewKeeps ==
  ASSUME LruInv, NEW k \in Key, order' = Append(Without(order, k), k),
         Stored' = Stored \cup {k}
  PROVE  order' \in Seq(Key) /\ OrderExact' /\ IsFiniteSet(Stored')
<1>1. order' \in Seq(Key) /\ Once(order') /\ InOrder(order') = Stored \cup {k}
  BY OrderInOrder, RenewExact DEF LruInv
<1>2. OrderExact'
  BY <1>1 DEF OrderExact, InOrder, Once, Stored, Kept
<1> QED BY <1>1, <1>2, FS_AddElement DEF LruInv

LEMMA EndSetKeeps ==
  ASSUME SizesAssumption, LruInv, EndSet PROVE LruInv'
<1> DEFINE k == pending.key
           v == pending.val
<1>1. k \in Key /\ v \in Value
  BY DEF LruInv, PendingFits, EndSet
<1>2. store' \in [Key -> Value \cup {NULL}] /\ Stored' = Stored \cup {k}
  BY <1>1 DEF EndSet, LruInv, Stored, Kept, SizesAssumption
<1>3. order' \in Seq(Key) /\ OrderExact' /\ IsFiniteSet(Stored')
  BY <1>1, <1>2, RenewKeeps DEF EndSet
<1>4. WithinCapacity'
  BY DEF EndSet, Needed, WithinCapacity
<1>5. PendingFits' /\ mem_capacity' \in Nat
  BY DEF EndSet, PendingFits, LruInv
<1> QED BY <1>2, <1>3, <1>4, <1>5 DEF LruInv

LEMMA GetKeeps ==
  ASSUME LruInv, NEW k \in Key, Get(k) PROVE LruInv'
<1>1. store' = store /\ pending' = pending /\ mem_capacity' = mem_capacity /\ Stored' = Stored
  BY DEF Get, Stored, Kept
<1>2. order' \in Seq(Key) /\ OrderExact' /\ IsFiniteSet(Stored')
  <2>1. CASE store[k] = NULL
    BY <1>1, <2>1 DEF Get, LruInv, OrderExact
  <2>2. CASE store[k] # NULL
    <3>1. Stored' = Stored \cup {k}
      BY <1>1, <2>2 DEF Stored, Kept
    <3> QED BY <2>2, <3>1, RenewKeeps DEF Get
  <2> QED BY <2>1, <2>2
<1> QED BY <1>1, <1>2 DEF LruInv, PendingFits, WithinCapacity

LEMMA SameKeeps ==
  ASSUME LruInv, UNCHANGED <<store, order, mem_capacity>>, PendingFits'
  PROVE  LruInv'
BY DEF LruInv, OrderExact, WithinCapacity, Stored, Kept

LEMMA LruInvNext ==
  ASSUME SizesAssumption, \A k \in Key : ValuesOf[k] \subseteq Value, LruInv, [Next]_vars
  PROVE  LruInv'
<1>1. ASSUME NEW k \in Key, NEW v \in ValuesOf[k], Refuse(k, v)
      PROVE  LruInv'
  BY <1>1, SameKeeps DEF Refuse, LruInv, PendingFits
<1>2. ASSUME NEW k \in Key, NEW v \in ValuesOf[k], BeginSet(k, v)
      PROVE  LruInv'
  <2>1. PendingFits'
    BY <1>2 DEF BeginSet, PendingFits
  <2> QED BY <1>2, <2>1, SameKeeps DEF BeginSet
<1>3. ASSUME NEW k \in Key, Get(k)
      PROVE  LruInv'
  BY <1>3, GetKeeps
<1>4. ASSUME NEW k \in Key, Delete(k)
      PROVE  LruInv'
  BY <1>4, ForgetKeeps DEF Delete
<1>5. CASE Evict
  <2>1. Head(Without(order, pending.key)) \in Key
    BY <1>5, VictimStored DEF Evict, Stored, Kept
  <2> QED BY <1>5, <2>1, ForgetKeeps DEF Evict
<1>6. CASE EndSet
  BY <1>6, EndSetKeeps
<1>7. CASE SpaceUsed
  BY <1>7, SameKeeps DEF SpaceUsed, LruInv, PendingFits
<1>8. CASE Destroy
  BY <1>8, EmptyKeeps DEF Destroy, LruInv
<1>9. CASE UNCHANGED vars
  BY <1>9, SameKeeps DEF vars, LruInv, PendingFits
<1> QED
  BY <1>1, <1>2, <1>3, <1>4, <1>5, <1>6, <1>7, <1>8, <1>9 DEF Next

(* The map that cache.cc means to be is one whose order of use, room and   *)
(* victims are exact in every state: KeepsPromise carries this over to the *)
(* cache, for the runs in which it holds.                                  *)
THEOREM LruSafe ==
  ASSUME SizesAssumption, \A k \in Key : ValuesOf[k] \subseteq Value
  PROVE  Spec => [](OrderExact /\ WithinCapacity /\ VictimExists)
<1>1. Init => LruInv
  BY LruInvInit
<1>2. LruInv /\ [Next]_vars => LruInv'
  BY LruInvNext
<1>3. LruInv => OrderExact /\ WithinCapacity /\ VictimExists
  BY LruInvVictim DEF LruInv
<1> QED BY <1>1, <1>2, <1>3, PTL DEF Spec

=============================================================================
