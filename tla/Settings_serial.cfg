CONSTANTS
  t1 = t1
  t2 = t2
  c1 = c1
  c2 = c2
  a = a
  b = b
  None = None
  NoRow = NoRow
  NoCall = NoCall
  Threads <- MCThreads1
  Conns <- MCConns2
  Ids <- MCIds4
  Fields <- MCFields2
  Values <- MCValues
  InitRows <- MCInitRows
  Operations <- SerialOperations
  Faults <- SerialFaults
  RowLocks = FALSE
  BodyCommits = FALSE
  MaxTasks = 2
  MaxTries = 1
SPECIFICATION Spec
INVARIANTS
  SettingTypeOK
  MemoryFollowsDb
PROPERTY ImplementsContract
