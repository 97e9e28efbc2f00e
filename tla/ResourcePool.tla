----------------------------- MODULE ResourcePool -----------------------------
(***************************************************************************)
(* What a resource pool promises to its clients: the interface             *)
(* jeeves.server.resources.ResourceProvider seen from outside.  A client   *)
(* obtains a resource that nobody else owns, keeps it to itself, and gives *)
(* it back.  DbmsPool together with ResourceManager implements this.       *)
(***************************************************************************)
CONSTANTS Threads,   \* the threads that open resources
          Conns      \* the pooled resources

VARIABLE owns        \* the set of pairs <<thread, resource>> now in use

InitPool == owns = {}

Acquire(t, c) ==
  /\ \A u \in Threads : <<u, c>> \notin owns
  /\ \A d \in Conns : <<t, d>> \notin owns
  /\ owns' = owns \cup {<<t, c>>}

Release(t, c) ==
  /\ <<t, c>> \in owns
  /\ owns' = owns \ {<<t, c>>}

NextPool == \E t \in Threads, c \in Conns : Acquire(t, c) \/ Release(t, c)

PoolSpec == InitPool /\ [][NextPool]_owns
===============================================================================
