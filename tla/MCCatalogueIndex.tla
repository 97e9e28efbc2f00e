--------------------------- MODULE MCCatalogueIndex ---------------------------
(* Model checking of the index: record 1 is there at first, 2 can be made. *)
EXTENDS CatalogueIndex

CONSTANTS t1, t2
MCThreads == {t1, t2}
MCIds     == {1, 2}
MCInitIds == {1}
AnyOps    == Operations
SomeOps   == {"save", "rebuild"}
NoFaults  == {}
SomeFaults == {"close", "optimize", "request"}
===============================================================================
