CONSTANTS
  alice = alice
  bob = bob
  NULL = NULL
  JUNK = JUNK
  Client <- MCClient
  Key <- MCKey
  KeySize <- MCKeySize
  Hash <- MCHash
  Value <- BlobValue
  ValSize <- BlobValSize
  NextChar <- BlobNextChar
  CallsOf <- BlobCallsOf
  Capacities = {9}
  MAX_MESSAGE_SIZE = 19
  ShortReads = FALSE
  HIGH_BIT = 16
  HASH_MULTIPLIER = 25
  INIT_ENTRY_CAPACITY = 4
  MAX_ENTRY_CAPACITY = 8
SPECIFICATION Spec
INVARIANT StoresWhatWasSet
CHECK_DEADLOCK FALSE
