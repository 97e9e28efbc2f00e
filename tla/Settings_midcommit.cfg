CONSTANTS
  t1 = t1
  t2 = t2
  c1 = c1
  c2 = c2
  a = a
  b = b
  None = None
  NoRow = NoRow
  NoCall = NoCall
  Threads <- MCThreads1
  Conns <- MCConns1
  Ids <- MCIds2
  Fields <- MCFields1
  Values <- MCValues
  InitRows <- MCInitRows
  Operations <- UpdateOperations
  Faults <- ServiceFaults
  RowLocks = FALSE
  BodyCommits = TRUE
  MaxTasks = 2
  MaxTries = 1
SPECIFICATION Spec
PROPERTY CommittedNotDropped
