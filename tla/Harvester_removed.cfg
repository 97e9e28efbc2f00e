CONSTANTS
  r1 = r1
  r2 = r2
  e1 = e1
  e2 = e2
  e3 = e3
  m1 = m1
  None = None
  Requests <- MCRequests1
  Executors <- MCExecutors2
  Records <- MCRecords
  Gens <- MCGens
  OneRunOnly = FALSE
  Ops <- Operations
  Faults <- NoFaults
  MaxCalls = 2
SPECIFICATION HarvesterSpec
INVARIANT RemovedLeavesNothing
CHECK_DEADLOCK FALSE
