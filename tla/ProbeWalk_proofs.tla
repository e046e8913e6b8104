-------------------------- MODULE ProbeWalk_proofs --------------------------
(***************************************************************************)
(* The probe loop of the code, for every width of index_type and every     *)
(* table capacity: the running slot it computes with wrapping additions    *)
(* and remainders is ProbeSlot, and no slot is looked at twice.            *)
(***************************************************************************)
EXTENDS ProbeWalk, Operators_proofs

(***************************************************************************)
(* Between iterations the slots seen are those of the iterations made.     *)
(* Neither property is inductive without it: the next slot is a new one    *)
(* because of where all the earlier ones were.                             *)
(***************************************************************************)
WalkInv ==
  /\ key_hash \in Index
  /\ capacity \in Capacities
  /\ count \in 0 .. capacity
  /\ WalkIsProbeSlot
  /\ visited = {ProbeSlot(key_hash, c, capacity) : c \in 0 .. count - 1}

LEMMA CapacityIsPower ==
  ASSUME NEW n \in Capacities
  PROVE  n \in Nat \ {0} /\ Multiple(INDEX_RANGE, n) /\ PowerOfTwo(n)
<1>1. n \in Nat \ {0} /\ INDEX_RANGE % n = 0
  BY CapacitiesAssumption
<1>2. INDEX_RANGE \in Nat /\ INDEX_RANGE \in Int
  BY IndexAssumption DEF INDEX_RANGE
<1>3. PowerOfTwo(INDEX_RANGE)
  BY IndexAssumption, PowerDoubled DEF INDEX_RANGE
<1>4. Multiple(INDEX_RANGE, n)
  BY <1>1, <1>2, ModIsZero
<1> QED BY <1>1, <1>2, <1>3, <1>4, DivisorOfPower

LEMMA WalkInvInit == Init => WalkInv
<1> SUFFICES ASSUME Init PROVE WalkInv
  OBVIOUS
<1>1. key_hash \in Index
  BY GetHashIsLive DEF Init
<1>2. capacity \in Capacities /\ capacity \in Nat \ {0} /\ count = 0 /\ visited = {}
  BY CapacityIsPower DEF Init
<1>3. WalkIsProbeSlot
  <2>1. key_hash \in Int /\ GetStepSize(key_hash) \in Int
    BY <1>1, StepIsOdd, IndexAssumption DEF Index, INDEX_RANGE
  <2>2. key_hash + 0 * GetStepSize(key_hash) = key_hash
    BY <2>1
  <2> QED BY <1>2, <2>2 DEF Init, WalkIsProbeSlot, ProbeSlot
<1>4. 0 .. count - 1 = {}
  BY <1>2
<1> QED BY <1>1, <1>2, <1>3, <1>4 DEF WalkInv

LEMMA WalkInvNext == WalkInv /\ [Next]_vars => WalkInv'
<1> SUFFICES ASSUME WalkInv, [Next]_vars PROVE WalkInv'
  OBVIOUS
<1>1. CASE Probe
  <2>1. /\ count < capacity /\ count' = count + 1
        /\ key_hash' = key_hash /\ capacity' = capacity
        /\ visited' = visited \cup {expected_i}
        /\ expected_i' = Wrap(expected_i + GetStepSize(key_hash)) % capacity
    BY <1>1 DEF Probe
  <2>2. capacity \in Nat \ {0} /\ Multiple(INDEX_RANGE, capacity) /\ count \in Nat
    BY CapacityIsPower DEF WalkInv
  <2>3. WalkIsProbeSlot'
    <3>1. expected_i = ProbeSlot(key_hash, count, capacity) /\ key_hash \in Index
      BY DEF WalkInv, WalkIsProbeSlot
    <3>2. expected_i' = ProbeSlot(key_hash, count + 1, capacity)
      BY <2>1, <2>2, <3>1, ProbeNext
    <3> QED BY <2>1, <3>2 DEF WalkIsProbeSlot
  <2>4. 0 .. count' - 1 = (0 .. count - 1) \cup {count}
    BY <2>1, <2>2
  <2>5. visited' = {ProbeSlot(key_hash, c, capacity) : c \in 0 .. count' - 1}
    BY <2>1, <2>4 DEF WalkInv, WalkIsProbeSlot
  <2>6. count' \in 0 .. capacity'
    BY <2>1, <2>2
  <2> QED BY <2>1, <2>3, <2>5, <2>6 DEF WalkInv
<1>2. CASE UNCHANGED vars
  BY <1>2 DEF vars, WalkInv, WalkIsProbeSlot
<1> QED BY <1>1, <1>2 DEF Next

LEMMA WalkInvAlways == Spec => []WalkInv
BY WalkInvInit, WalkInvNext, PTL DEF Spec

(* expected_i of the loops in find_entry, cache_set and grow_cache_size is *)
(* the slot the closed form names, although every addition may overflow.   *)
THEOREM WalkIsClosedForm == Spec => []WalkIsProbeSlot
<1>1. WalkInv => WalkIsProbeSlot
  BY DEF WalkInv
<1> QED BY <1>1, WalkInvAlways, PTL

(* The loops never come back to a slot before they have seen the whole     *)
(* table: the step size is odd and the capacity a power of two.            *)
THEOREM WalkNeverReturns == Spec => []NoSlotProbedTwice
<1>1. WalkInv => NoSlotProbedTwice
  <2> SUFFICES ASSUME WalkInv, count < capacity, expected_i \in visited
               PROVE  FALSE
    BY DEF NoSlotProbedTwice
  <2>1. capacity \in Nat \ {0} /\ PowerOfTwo(capacity) /\ key_hash \in Index
    BY CapacityIsPower DEF WalkInv
  <2>2. PICK c \in 0 .. count - 1 : expected_i = ProbeSlot(key_hash, c, capacity)
    BY DEF WalkInv
  <2>3. count \in Nat /\ count \in 0 .. capacity - 1 /\ c \in 0 .. capacity - 1 /\ c # count
    BY <2>1 DEF WalkInv
  <2>4. ProbeSlot(key_hash, count, capacity) = ProbeSlot(key_hash, c, capacity)
    BY <2>2 DEF WalkInv, WalkIsProbeSlot
  <2> QED BY <2>1, <2>3, <2>4, ProbesDistinct
<1> QED BY <1>1, WalkInvAlways, PTL

=============================================================================
