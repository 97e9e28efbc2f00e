CONSTANTS
  r1 = r1
  r2 = r2
  e1 = e1
  e2 = e2
  e3 = e3
  m1 = m1
  None = None
  Requests <- MCRequests1
  Executors <- MCExecutors2
  Records <- MCRecords
  Gens <- MCGens
  OneRunOnly = TRUE
  Ops <- Operations
  Faults <- AllFaults
  MaxCalls = 3
SPECIFICATION FairHarvesterSpec
PROPERTIES
  TerminatedEnds
  RunHarvests
CHECK_DEADLOCK FALSE
