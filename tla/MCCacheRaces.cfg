SPECIFICATION Spec
CONSTANTS
  Keys = {k1, k2, k3}
  Threads = {t1, t2}
  NULL = NULL
  Nothing = Nothing
  Blank = Blank
  Operations <- AllOperations
  Overlapping <- Mutexed
  InitialCapacity = 2
INVARIANT TypeOK
INVARIANT ListSurvivesThreads
