SPECIFICATION FairSpec
CONSTANTS
  None = None
  a1 = a1
  a2 = a2
  Settings <- TwoSettings
  Hosts <- MCHosts
  OffSubnet <- MCOffSubnet
  Addresses <- MCAddresses
  Commands <- AllCommands
  FaultKinds <- AllFaults
  MaxCommands = 2
  MaxJoins = 2
  MaxFaults = 1
INVARIANT UnbrokenRunsAsSaved
PROPERTIES IdentityKept AgentComesBack
CHECK_DEADLOCK FALSE
