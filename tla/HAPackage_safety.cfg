SPECIFICATION Spec
CONSTANTS
  None = None
  i1 = i1
  i2 = i2
  i3 = i3
  i4 = i4
  i5 = i5
  Versions <- TwoVersions
  Current = "v1"
  Identities <- FiveFiles
  Commands <- Both
  MaxChanges = 3
  MaxFaults = 1
SYMMETRY Symmetries
INVARIANT PackageHolds
CHECK_DEADLOCK FALSE
