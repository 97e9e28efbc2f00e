------------------------------ MODULE MCHarvester ------------------------------
(* Model checking of a harvesting node: two requests, and threads enough   *)
(* for a restart while the first one harvests.                             *)
EXTENDS Harvester

CONSTANTS r1, r2, e1, e2, e3, m1
MCRequests1  == {r1}
MCRequests2  == {r1, r2}
MCExecutors2 == {e1, e2}
MCExecutors3 == {e1, e2, e3}
MCRecords == {m1}
MCGens    == 1 .. 3
AllFaults == {"harvest", "destroy", "commit"}
NoFaults  == {}
Symmetry  == Permutations(Requests) \cup Permutations(Executors)
===============================================================================
