CONSTANTS
  HIGH_BIT = 8
  JUNK = JUNK
  PageCount = 3
  Policies = {"FIFO", "LIFO", "LRU", "MRU", "CLOCK", "SLRU", "RR"}
SPECIFICATION Spec
INVARIANTS
  TypeOK
  CircleExact
  RandomItemsHeld
PROPERTIES
  EvictsOldest
CHECK_DEADLOCK FALSE
