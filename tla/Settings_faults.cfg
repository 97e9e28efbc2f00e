CONSTANTS
  t1 = t1
  t2 = t2
  c1 = c1
  c2 = c2
  a = a
  b = b
  None = None
  NoRow = NoRow
  NoCall = NoCall
  Threads <- MCThreads1
  Conns <- MCConns1
  Ids <- MCIds3
  Fields <- MCFields1
  Values <- MCValues
  InitRows <- MCInitRows
  Operations <- StructureOperations
  Faults <- AllFaults
  RowLocks = FALSE
  BodyCommits = TRUE
  MaxTasks = 2
  MaxTries = 2
SPECIFICATION FairSpec
INVARIANT MemoryFollowsDb
PROPERTY LockReleased
