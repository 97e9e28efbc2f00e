CONSTANTS
  t1 = t1
  t2 = t2
  None = None
  Threads <- MCThreads
  Ids <- MCIds
  InitIds <- MCInitIds
  Ops <- AnyOps
  Faults <- SomeFaults
  MaxDate = 1
  MaxGen = 2
  MaxCalls = 3
  MaxCrashes = 1
SPECIFICATION FairIndexSpec
INVARIANTS
  IndexTypeOK
  WriterUsable
  IndexFollowsRows
PROPERTY RecordsReappear
CHECK_DEADLOCK FALSE
