SPECIFICATION Spec
CONSTANTS
  Clients <- MCClients2
  MaxSignals = 1
  MaxRequests = 1
  MaxReports = 1
  MaxFaults = 1
  SignalThreads <- MainOrClient
  SignalInLog = FALSE
INVARIANT TypeOK
INVARIANT EndsOnlyWhenTold
INVARIANT ConnectionsClosedOnce
PROPERTY ClientsAccepted
PROPERTY ShutdownCompletes
