------------------------------ MODULE LruCache ------------------------------
(***************************************************************************)
(* The map that cache.cc means to be: of bounded total size, it forgets    *)
(* the least recently used keys (POLICY = LRU), and only when the value of *)
(* another key needs their room.  That much cache.h promises too; where    *)
(* the two differ this is cache.cc: the space used counts the keys, not    *)
(* the values alone (cache.h, line 42), and a set that overwrites a value  *)
(* answers 1, not 0 (line 29).                                             *)
(***************************************************************************)
EXTENDS Integers, SequencesExt, Sizes

CONSTANTS
  Value,
  ValuesOf,  \* [Key -> SUBSET Value]: the values callers store under a key
  Capacities \* the values of max_mem a cache is created with

VARIABLES
  store,       \* the value of each key, NULL when it has none
  order,       \* the keys that have a value, least recently used first
  pending,     \* key and value of a cache_set that is making room, or NULL
  ret,         \* what the last call returned
  mem_capacity \* max_mem of the cache

vars == <<store, order, pending, ret, mem_capacity>>

Returned(op, k, v, code) == [op |-> op, key |-> k, val |-> v, code |-> code]

\* Memory the cache must have once the pending value is stored.
Needed == Used([store EXCEPT ![pending.key] = pending.val])

Without(seq, key) == RemoveFirst(seq, key)

Init ==
  /\ store = [k \in Key |-> NULL]
  /\ order = <<>>
  /\ pending = NULL
  /\ ret = Returned("none", NULL, NULL, 0)
  /\ mem_capacity \in Capacities

Refuse(k, v) ==
  /\ pending = NULL
  /\ Size(k, v) > mem_capacity
  /\ ret' = Returned("set", k, v, -1)
  /\ UNCHANGED <<store, order, pending, mem_capacity>>

BeginSet(k, v) ==
  /\ pending = NULL
  /\ Size(k, v) <= mem_capacity
  /\ pending' = [key |-> k, val |-> v]
  /\ UNCHANGED <<store, order, ret, mem_capacity>>

\* A set of another key takes the room of the least recently used one.  (The
\* code may take the key that is being set: then it is not this map.)
Evict ==
  /\ pending # NULL
  /\ Needed > mem_capacity
  /\ LET victim == Head(Without(order, pending.key)) IN
       /\ store' = [store EXCEPT ![victim] = NULL]
       /\ order' = Without(order, victim)
  /\ UNCHANGED <<pending, ret, mem_capacity>>

EndSet ==
  /\ pending # NULL
  /\ Needed <= mem_capacity
  /\ store' = [store EXCEPT ![pending.key] = pending.val]
  /\ order' = Append(Without(order, pending.key), pending.key)
  /\ ret' = Returned("set", pending.key, pending.val,
                     IF store[pending.key] = NULL THEN 0 ELSE 1)
  /\ pending' = NULL
  /\ UNCHANGED mem_capacity

Get(k) ==
  /\ pending = NULL
  /\ order' = IF store[k] = NULL THEN order ELSE Append(Without(order, k), k)
  /\ ret' = Returned("get", k, store[k], 0)
  /\ UNCHANGED <<store, pending, mem_capacity>>

Delete(k) ==
  /\ pending = NULL
  /\ store' = [store EXCEPT ![k] = NULL]
  /\ order' = Without(order, k)
  /\ ret' = Returned("delete", k, NULL, IF store[k] = NULL THEN -1 ELSE 0)
  /\ UNCHANGED <<pending, mem_capacity>>

\* (unlike cache.h, line 42: the keys count too)
SpaceUsed ==
  /\ pending = NULL
  /\ ret' = Returned("space", NULL, NULL, Used(store))
  /\ UNCHANGED <<store, order, pending, mem_capacity>>

Destroy ==
  /\ pending = NULL
  /\ store' = [k \in Key |-> NULL]
  /\ order' = <<>>
  /\ UNCHANGED <<pending, ret, mem_capacity>>

Next ==
  \/ \E k \in Key : \/ \E v \in ValuesOf[k] : Refuse(k, v) \/ BeginSet(k, v)
                    \/ Get(k)
                    \/ Delete(k)
  \/ Evict
  \/ EndSet
  \/ SpaceUsed
  \/ Destroy

\* A cache_set that has begun returns.
Spec == Init /\ [][Next]_vars /\ WF_vars(Evict \/ EndSet)

-----------------------------------------------------------------------------
(* The order of use names every key that has a value, each exactly once,   *)
(* so that eviction reaches all of them and none that is gone.             *)
OrderExact ==
  /\ {order[j] : j \in 1 .. Len(order)} = {k \in Key : store[k] # NULL}
  /\ \A i, j \in 1 .. Len(order) : order[i] = order[j] => i = j

(* The stored keys and values never exceed the capacity, not even while a  *)
(* set replaces a value by a larger one.                                   *)
WithinCapacity == Used(store) <= mem_capacity

(* Whenever a set still needs room, some other key has a value to give up: *)
(* the loop of update_mem_size never empties the cache without success.    *)
VictimExists ==
  pending # NULL /\ Needed > mem_capacity => Without(order, pending.key) # <<>>

=============================================================================
