------------------------------ MODULE Hashing ------------------------------
(***************************************************************************)
(* How the cache turns the hash of a key into the sequence of hash table   *)
(* slots it probes: the marks of an empty and of a deleted slot, the       *)
(* double hashing of get_hash and get_step_size, and the load limit.       *)
(***************************************************************************)
EXTENDS IndexType

CONSTANT
  HASH_MULTIPLIER \* Knuth's 2654435769, or its low-order bits when Index is narrower

ASSUME HashingAssumption == HASH_MULTIPLIER \in Nat

\* Marks kept in key_hashes in place of the hash of a live entry.
EMPTY   == 0
DELETED == 1

IsLive(mark) == mark \notin {EMPTY, DELETED}

\* key_hash | HIGH_BIT
GetHash(hash) == IF hash < HIGH_BIT THEN hash + HIGH_BIT ELSE hash

\* (a variant: without the addition that makes the step odd)
GetStepSizeEven(key_hash) == Wrap(2 * Wrap(key_hash * HASH_MULTIPLIER))

GetStepSize(key_hash) == Wrap(2 * Wrap(key_hash * HASH_MULTIPLIER) + 1)

\* LOAD_FACTOR is one half: the table has two slots per entry of capacity.
GetHashTableCapacity(entry_capacity) == 2 * entry_capacity

\* (a variant: only live entries count towards the load)
IsExceedingLoadLive(entry_total, dead_total, entry_capacity) ==
  \/ entry_total >= entry_capacity
  \/ 2 * entry_total > GetHashTableCapacity(entry_capacity)

IsExceedingLoad(entry_total, dead_total, entry_capacity) ==
  \/ entry_total >= entry_capacity
  \/ 2 * (entry_total + dead_total) > GetHashTableCapacity(entry_capacity)

(***************************************************************************)
(* The slot looked at in iteration count of a probe loop over the first    *)
(* capacity slots.  The loops keep a running slot,                         *)
(*   expected_i = (expected_i + step_size) % capacity,                     *)
(* whose closed form this is because capacity is a power of two and so     *)
(* divides the range of Index; module ProbeWalk checks that it is.         *)
(***************************************************************************)
ProbeSlot(key_hash, count, capacity) ==
  (key_hash + count * GetStepSize(key_hash)) % capacity

=============================================================================
