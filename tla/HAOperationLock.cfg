SPECIFICATION FairSpec
CONSTANTS
  o1 = o1
  o2 = o2
  Operators <- MCOperators
  Inodes <- MCInodes
  Interval = 4
  Patience = 3
  MemberTimeout = 2
  MaxCommands = 2
  MaxOverruns = 1
  MaxDeaths = 1
PROPERTIES Exclusive OperatorAdmitted NobodyStarves
CHECK_DEADLOCK FALSE
