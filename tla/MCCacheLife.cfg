SPECIFICATION LifeSpec
CONSTANTS
  k1 = k1  k2 = k2  vSmall = vSmall  vBig = vBig
  NULL = NULL
  Torn = Torn
  Freed = Freed
  Keys = {k1, k2}
  Values = {vSmall, vBig}
  Partitions = {0, 1}
  PartOf <- MCPartOf
  SizeOf <- MCSizeOf
  Capacity = 3
  InitialCapacity = 2
  Levels = 2
  Threads = {t1}
  Operations = {"put", "get", "evict"}
  MemMayFail = TRUE
  IoMayFail = TRUE
SYMMETRY KeyNames
INVARIANT LifeTypeOK
INVARIANT RegistryIntact
INVARIANT DropsWhatItSpilled
INVARIANT ReadersSeeLastWrite
INVARIANT OnlyPathStringsLeak
INVARIANT FailuresKeepOnlyTheirOwn
PROPERTY NonInterference
