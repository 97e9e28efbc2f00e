CONSTANTS
  t1 = t1
  t2 = t2
  t3 = t3
  c1 = c1
  None = None
  Threads <- MCThreads
  Conns <- MCConns
  MaxTries = 2
  Faults <- FaultKinds
SPECIFICATION FairPoolSpec
INVARIANTS
  PoolTypeOK
  ExclusiveConnection
  ReleaseNeverRefused
  NoConnectionLost
  BodyHasLiveConnection
PROPERTIES
  ImplementsResourcePool
  OpenReturns
  ConnectionReturns
