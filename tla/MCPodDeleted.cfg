SPECIFICATION LifeSpec
CONSTANTS
  k1 = k1  k2 = k2  vSmall = vSmall  vBig = vBig
  NULL = NULL
  Torn = Torn
  Freed = Freed
  Keys = {k1, k2}
  Values = {vSmall, vBig}
  Partitions = {0}
  PartOf <- MCPartOf
  SizeOf <- MCSizeOf
  Capacity = 3
  InitialCapacity = 100
  Levels = 4
  Threads = {t1}
  Operations = {"put", "get", "evict"}
  MemMayFail = FALSE
  IoMayFail = FALSE
INVARIANT DeletedStaysDeleted
