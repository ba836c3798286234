SPECIFICATION Spec
CONSTANTS
  MemberCount = 3
  Commands <- OnlyRestore
  Hosts <- IntactHost
  MaxFaults = 2
INVARIANT ResumesOnlySafe
CHECK_DEADLOCK FALSE
