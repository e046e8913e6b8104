----------------------------- MODULE ProbeWalk -----------------------------
(***************************************************************************)
(* The probe loop shared by find_entry, cache_set and grow_cache_size,     *)
(* step by step as the code runs it, for a key hash that never matches:    *)
(* the longest walk the loop can make.  The other modules use the closed   *)
(* form Hashing!ProbeSlot; this one shows it is the walk of the code.      *)
(***************************************************************************)
EXTENDS Hashing

CONSTANT Capacities \* table capacities to walk: powers of two

ASSUME CapacitiesAssumption ==
  \A n \in Capacities : n \in Nat \ {0} /\ INDEX_RANGE % n = 0

VARIABLES
  key_hash,
  capacity,   \* hash_table_capacity, or new_capacity while rehashing
  expected_i, \* the slot the loop looks at next
  count,      \* iterations made
  visited     \* slots looked at so far

vars == <<key_hash, capacity, expected_i, count, visited>>

Init ==
  /\ \E hash \in Index : key_hash = GetHash(hash)
  /\ capacity \in Capacities
  /\ expected_i = key_hash % capacity
  /\ count = 0
  /\ visited = {}

\* (a variant: the new slot is not reduced to the table)
ProbeUnreduced ==
  /\ count < capacity
  /\ visited' = visited \cup {expected_i}
  /\ expected_i' = Wrap(expected_i + GetStepSize(key_hash))
  /\ count' = count + 1
  /\ UNCHANGED <<key_hash, capacity>>

Probe ==
  /\ count < capacity
  /\ visited' = visited \cup {expected_i}
  /\ expected_i' = Wrap(expected_i + GetStepSize(key_hash)) % capacity
  /\ count' = count + 1
  /\ UNCHANGED <<key_hash, capacity>>

Next == Probe

Spec == Init /\ [][Next]_vars

-----------------------------------------------------------------------------
(* The slot the loop has computed by repeated wrapping addition is the one *)
(* ProbeSlot names, in every iteration and after the last.                 *)
WalkIsProbeSlot == expected_i = ProbeSlot(key_hash, count, capacity)

(* No slot is looked at twice before all have been: the step is coprime    *)
(* with the capacity, as the comment of get_step_size demands.  A walk     *)
(* that gives up has therefore seen the whole table.                       *)
NoSlotProbedTwice == count < capacity => expected_i \notin visited

=============================================================================
