SPECIFICATION FairSpec
CONSTANTS
  MemberCount = 3
  Commands <- BothCommands
  Hosts <- AllHosts
  MaxFaults = 4
INVARIANTS TypeOK ResumesUnlessForgotten NoManufacturedCluster
PROPERTIES RewritesAtRest RerunsReopen
CHECK_DEADLOCK FALSE
