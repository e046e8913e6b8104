CONSTANTS
  k1 = k1
  k2 = k2
  k3 = k3
  k4 = k4
  a1 = a1
  a2 = a2
  b1 = b1
  b2 = b2
  c1 = c1
  c2 = c2
  d1 = d1
  HIGH_BIT = 16
  HASH_MULTIPLIER = 25
  JUNK = JUNK
  NULL = NULL
  Key <- FourKeys
  Value <- FourValues
  ValuesOf <- OneValueOf
  KeySize <- UnitKeySize
  ValSize <- FourValSize
  Hash <- FourHash
  MEM_CAPACITY = 4
  INIT_ENTRY_CAPACITY = 2
  MAX_ENTRY_CAPACITY = 8
SPECIFICATION Spec
INVARIANTS
  TypeOK
  OwnValues
  NoFullTraversal
CHECK_DEADLOCK FALSE
