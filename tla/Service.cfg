CONSTANTS
  alice = alice
  bob = bob
  NULL = NULL
  JUNK = JUNK
  Client <- MCClient
  Key <- MCKey
  KeySize <- MCKeySize
  Hash <- MCHash
  Value <- MCValue
  ValSize <- MCValSize
  NextChar <- MCNextChar
  CallsOf <- MCCallsOf
  Capacities = {4, 7}
  MAX_MESSAGE_SIZE = 19
  ShortReads = FALSE
  HIGH_BIT = 16
  HASH_MULTIPLIER = 25
  INIT_ENTRY_CAPACITY = 2
  MAX_ENTRY_CAPACITY = 4
SPECIFICATION Spec
INVARIANTS
  ConnectionsExact
  UnsetIsEmpty
PROPERTIES
  ServesAsOneCache
  EveryCallReturns
  DestroyEndsServer
CHECK_DEADLOCK FALSE
