SPECIFICATION Spec
CONSTANTS
  Keys = {k1, k2, k3}
  Threads = {t1, t2}
  NULL = NULL
  Nothing = Nothing
  Blank = Blank
  Operations <- PutsAndGets
  Overlapping <- PutsAndGets
  InitialCapacity = 2
INVARIANT ListSurvivesThreads
