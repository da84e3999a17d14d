SPECIFICATION Spec
CONSTANTS
  PortStrings <- MCPorts
  SizeStrings <- MCSizes
  PartitionStrings <- MCPartitions
INVARIANT EveryCommandFits
INVARIANT LoadFactorIsKept
