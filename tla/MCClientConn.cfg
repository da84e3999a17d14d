SPECIFICATION Spec
CONSTANTS
  MAX_ARGS = 3
  MAX_STR_LEN = 11
  MIN_BUFFER_SIZE = 4
  MAX_DIGITS = 3
  NullString = NullString
  Bytes <- MCBytes
  Traffic <- MCTraffic
  BUFFER_SIZE = 26
  MAX_COMMAND_SIZE = 30
  MemMayFail = TRUE
INVARIANT TypeOK
INVARIANT InOrderUntilError
INVARIANT NothingLeftWaiting
INVARIANT VerdictIsFinal
INVARIANT NothingGluedTogether
PROPERTY FirstErrorAtElementBoundary
