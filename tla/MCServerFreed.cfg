SPECIFICATION Spec
CONSTANTS
  Clients <- MCClients1
  MaxSignals = 1
  MaxRequests = 1
  MaxReports = 0
  MaxFaults = 0
  SignalThreads <- MainOnly
  SignalInLog = FALSE
INVARIANT NoUseAfterFree
