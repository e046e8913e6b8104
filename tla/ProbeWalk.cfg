CONSTANTS
  HIGH_BIT = 16
  HASH_MULTIPLIER = 25
  JUNK = JUNK
  Capacities = {2, 4, 8, 16}
SPECIFICATION Spec
INVARIANTS
  WalkIsProbeSlot
  NoSlotProbedTwice
CHECK_DEADLOCK FALSE
