SPECIFICATION Spec
CONSTANTS
  a = a
  b = b
  c = c
  d = d
  x = x
  y = y
  z = z
  None = None
  Members = {1, 2, 3}
  Servers <- MCServers
  Cluster <- MCCluster
  Homes <- MCHomes
  MaxChanges = 1
INVARIANTS OneCluster MajorityProven
PROPERTY FitIsGranted
CHECK_DEADLOCK FALSE
