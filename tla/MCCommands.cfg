SPECIFICATION CommandsSpec
CONSTANTS
  k1 = k1  k2 = k2  k3 = k3  txt = txt
  NULL = NULL
  Torn = Torn
  Freed = Freed
  Keys = {k1, k2, k3}
  Empty = Empty
  Values <- MCValues
  ClientValues <- MCClientValues
  Partitions = {0, 1}
  PartOf <- MCPartOf
  SizeOf <- MCSizeOf
  Capacity = 3
  InitialCapacity = 1
  Levels = 1
  Threads = {t1}
  Operations = {"put", "get", "evict"}
  CommandNames = {"SET", "GET", "DEL", "INCR", "PING", "CLIENT", "QUIT"}
  LONG_MAX = 1
  ReplyLimit = 1
  MemMayFail = FALSE
  IoMayFail = FALSE
SYMMETRY KeyNames
INVARIANT CommandsTypeOK
INVARIANT RegistryInBounds
PROPERTY GetAnswersItsKey
PROPERTY IncrCountsItsKey
PROPERTY IncrStoresOrKeeps
PROPERTY RefusedSetChangesNothing
PROPERTY LossOnlyByDelOrFailedPromotion
