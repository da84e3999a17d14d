SPECIFICATION Spec
CONSTANTS
  Clients <- MCClients1
  MaxSignals = 1
  MaxRequests = 0
  MaxReports = 0
  MaxFaults = 0
  SignalThreads <- MainOnly
  SignalInLog = TRUE
PROPERTY ShutdownCompletes
CHECK_DEADLOCK FALSE
