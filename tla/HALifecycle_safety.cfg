SPECIFICATION FairSpec
CONSTANTS
  MemberCount = 3
  Commands <- AllCommands
  LegacyMembers <- OneLegacy
  MaxCommands = 2
  MaxFaults = 1
INVARIANTS TypeOK OneMemberOut NeverReplacesRunningVM StillDeletable
PROPERTIES DataWhole HonoursIntent Converges
CHECK_DEADLOCK FALSE
