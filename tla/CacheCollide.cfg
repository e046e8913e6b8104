CONSTANTS
  k1 = k1
  k2 = k2
  k3 = k3
  k4 = k4
  a1 = a1
  a2 = a2
  b1 = b1
  b2 = b2
  c1 = c1
  c2 = c2
  d1 = d1
  HIGH_BIT = 16
  HASH_MULTIPLIER = 25
  JUNK = JUNK
  NULL = NULL
  Key <- MCKey
  Value <- MCValue
  ValuesOf <- MCFewValuesOf
  KeySize <- PairKeySize
  ValSize <- PairValSize
  Hash <- CollidingHash
  MEM_CAPACITY = 10
  INIT_ENTRY_CAPACITY = 4
  MAX_ENTRY_CAPACITY = 8
SPECIFICATION Spec
INVARIANTS
  NoUndefinedBehaviour
  SlotsMatchPages
  ListMatchesTable
  Accounting
  CountsMatchTable
  SetThenFound
  LiveKeysFound
  DestroyFreesAll
  BookFreeListExact
  BookPagesAreSafe
PROPERTIES
  StaysHarmless
  UsesBookCorrectly
  CallsReturn
CHECK_DEADLOCK FALSE
