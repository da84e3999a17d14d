SPECIFICATION Spec
CONSTANTS
  k1 = k1  k2 = k2  k3 = k3  vSmall = vSmall  vBig = vBig
  NULL = NULL
  Torn = Torn
  Keys = {k1, k2, k3}
  Values = {vSmall, vBig}
  Nodes = {n1, n2, n3}
  NumBuckets = 2
  Hash <- MCHash
  SizeOf <- MCSizeOf
  Capacity = 6
  MemMayFail = TRUE
  IoMayFail = FALSE
SYMMETRY Addresses
INVARIANT TypeOK
INVARIANT ListWellFormed
INVARIANT TableMatchesList
INVARIANT ExactAccounting
INVARIANT NothingLeaks
PROPERTY ImplementsLru
