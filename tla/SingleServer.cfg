SPECIFICATION FairSpec
CONSTANTS
  Settings <- MCSettings
  FirstSettings <- OldSettings
  Commands <- EveryCommand
  FaultKinds <- EveryFault
  MaxCommands = 2
  MaxRaced = 1
  MaxWrites = 1
  MaxFaults = 1
INVARIANTS DataSurvives ReadAtRest ReportsHold
PROPERTIES KeptRunning
CHECK_DEADLOCK FALSE
