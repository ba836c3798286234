SPECIFICATION FairSpec
CONSTANTS
  None = None
  c1 = c1
  c2 = c2
  oldPlist = oldPlist
  newPlist = newPlist
  otherPath = otherPath
  Definitions <- MCDefinitions
  Args <- MCArgs
  ArgsOf <- MCArgsOf
  Clients <- TwoClients
  Wanted <- OneWanted
  Practices <- MCPractices
  MaxDisturbances = 1
INVARIANTS NeverBothKinds ReportsHold
PROPERTY RepeatsSucceed
CHECK_DEADLOCK FALSE
