SPECIFICATION FairSpec
CONSTANTS
  c1 = c1
  MemberCount = 2
  Clients <- OneClient
  MaxClients = 1
  MaxRetry = 1
  FirstDown <- TheSecond
  MaxArrivals = 1
  MaxChanges = 1
INVARIANT NothingLeaks
PROPERTIES FindsTheReady PoolFollows LoopLives
CHECK_DEADLOCK FALSE
