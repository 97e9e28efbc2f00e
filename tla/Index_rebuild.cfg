CONSTANTS
  t1 = t1
  t2 = t2
  None = None
  Threads <- MCThreads
  Ids <- MCIds
  InitIds <- MCInitIds
  Ops <- SomeOps
  Faults <- NoFaults
  MaxDate = 1
  MaxGen = 2
  MaxCalls = 2
  MaxCrashes = 0
SPECIFICATION IndexSpec
INVARIANT RebuildAlone
CHECK_DEADLOCK FALSE
