CONSTANTS
  r1 = r1
  r2 = r2
  e1 = e1
  e2 = e2
  e3 = e3
  m1 = m1
  None = None
  Requests <- MCRequests2
  Executors <- MCExecutors3
  Records <- MCRecords
  Gens <- MCGens
  OneRunOnly = TRUE
  Ops <- Operations
  Faults <- AllFaults
  MaxCalls = 3
SPECIFICATION HarvesterSpec
SYMMETRY Symmetry
INVARIANTS
  HarvesterTypeOK
  OneLiveExecutor
  ActiveHasExecutor
  StatusSaved
  InvokeAlone
CHECK_DEADLOCK FALSE
