SPECIFICATION LiveSpec
CONSTANTS
  None = None
  m1 = m1
  m2 = m2
  m3 = m3
  s1 = s1
  s2 = s2
  s3 = s3
  a = a
  b = b
  Members <- ThreeMembers
  Stable <- MCStable
  Others <- MCOthers
  Legacy = TRUE
  MaxFaults = 2
INVARIANT ServersApart
PROPERTIES OnlyConflictsRemoved AllServe
CHECK_DEADLOCK FALSE
