SPECIFICATION FairSpec
CONSTANTS
  Outputs <- TwoOutputs
  Supervised = TRUE
  MaxFaults = 4
INVARIANTS OutputKept MountedOnce
PROPERTIES ReportsLeftovers SourceComesBack
CHECK_DEADLOCK FALSE
