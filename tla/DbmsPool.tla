------------------------------- MODULE DbmsPool -------------------------------
(***************************************************************************)
(* The pool of database connections of jeeves (DbmsPool), the per-request  *)
(* resource table in front of it (ResourceManager) and the code that ends  *)
(* a request (ServiceInfo.execService).  A thread stands for one user of   *)
(* the pool: a service request, a scheduled job or a harvester; all of     *)
(* them run the same sequence open .. close, and abort when the body or    *)
(* the close throws.                                                       *)
(*                                                                         *)
(* The steps of open() run under the monitor of the pool, those of close() *)
(* and abort() do not: that is why every step of them is an action.        *)
(***************************************************************************)
EXTENDS Naturals

CONSTANTS Threads,   \* the threads that use the pool
          Conns,     \* the Dbms objects in htDbms
          None,      \* no thread, no connection
          MaxTries,  \* maxTries of the pool configuration
          Faults     \* what may fail: members of FaultKinds

FaultKinds == {"service",    \* the body of the request throws
               "break",      \* the driver finds the connection broken, and closes it
               "reconnect",  \* DriverManager.getConnection throws
               "commit",     \* Connection.commit throws
               "rollback"}   \* Connection.rollback throws

ASSUME PoolAssumption ==
  /\ None \notin Threads
  /\ None \notin Conns
  /\ MaxTries \in Nat \ {0}
  /\ Faults \subseteq FaultKinds

VARIABLES locked,       \* htDbms: is the connection marked as in use?
          closed,       \* Dbms.isClosed()
          reconnecting, \* reconnectTime > 0
          monitor,      \* the thread inside the synchronized open()
          scan,         \* the connections the current enumeration has still to visit
          found,        \* the free connection the enumeration has stopped at
          tries,        \* nTries
          res,          \* htResources of the thread's ResourceManager
          pc            \* where the thread is

poolVars == <<locked, closed, reconnecting, monitor, scan, found, tries, res, pc>>

(* "idle": between requests       "body": inside Service.exec              *)
(* "opening": at the monitor      "scan", "found": inside DbmsPool.open    *)
(* "close", "free", "notify": the three parts of DbmsPool.close            *)
(* "abort", "freeAbort", "notifyAbort": the same parts of DbmsPool.abort   *)
(* "freeFailed": the finally block after a commit that threw               *)
Places == {"idle", "body", "opening", "scan", "found", "close", "free", "freeFailed",
           "notify", "abort", "freeAbort", "notifyAbort"}

Goto(t, place) == pc' = [pc EXCEPT ![t] = place]

PoolInit ==
  /\ locked = [c \in Conns |-> FALSE]
  /\ closed = [c \in Conns |-> FALSE]
  /\ reconnecting \in BOOLEAN
  /\ monitor = None
  /\ scan = [t \in Threads |-> {}]
  /\ found = [t \in Threads |-> None]
  /\ tries = [t \in Threads |-> 0]
  /\ res = [t \in Threads |-> None]
  /\ pc = [t \in Threads |-> "idle"]
-------------------------------------------------------------------------------
(* The operators whose names end in "Bug" are not part of the model.  Each *)
(* is the definition after it with a plausible mistake in it, and shows    *)
(* that some property of the runs would notice the mistake.                *)

(* ResourceManager.open: a resource opened before in the same request is   *)
(* returned as it is, so only the first open reaches the pool.             *)

BeginRequest(t) ==
  /\ pc[t] = "idle"
  /\ Goto(t, "body")
  /\ UNCHANGED <<locked, closed, reconnecting, monitor, scan, found, tries, res>>

CallOpen(t) ==
  /\ pc[t] = "body"
  /\ res[t] = None
  /\ Goto(t, "opening")
  /\ UNCHANGED <<locked, closed, reconnecting, monitor, scan, found, tries, res>>

NotSynchronizedBug(t) ==
  /\ pc[t] = "opening"
  /\ monitor' = t
  /\ scan' = [scan EXCEPT ![t] = Conns]
  /\ tries' = [tries EXCEPT ![t] = 0]
  /\ Goto(t, "scan")
  /\ UNCHANGED <<locked, closed, reconnecting, found, res>>

EnterOpen(t) ==
  /\ pc[t] = "opening"
  /\ monitor = None
  /\ monitor' = t
  /\ scan' = [scan EXCEPT ![t] = Conns]
  /\ tries' = [tries EXCEPT ![t] = 0]
  /\ Goto(t, "scan")
  /\ UNCHANGED <<locked, closed, reconnecting, found, res>>

(* The enumeration meets a connection that is in use. *)
SkipLocked(t, c) ==
  /\ pc[t] = "scan"
  /\ c \in scan[t]
  /\ locked[c]
  /\ scan' = [scan EXCEPT ![t] = @ \ {c}]
  /\ UNCHANGED <<locked, closed, reconnecting, monitor, found, tries, res, pc>>

(* A free connection; a closed one switches reconnection on for the pool.  *)
FindFree(t, c) ==
  /\ pc[t] = "scan"
  /\ c \in scan[t]
  /\ ~locked[c]
  /\ found' = [found EXCEPT ![t] = c]
  /\ reconnecting' = (reconnecting \/ closed[c])
  /\ Goto(t, "found")
  /\ UNCHANGED <<locked, closed, monitor, scan, tries, res>>

NeverReconnectBug(t, reconnect) ==
  /\ pc[t] = "found"
  /\ ~reconnect
  /\ locked' = [locked EXCEPT ![found[t]] = TRUE]
  /\ res' = [res EXCEPT ![t] = found[t]]
  /\ monitor' = None
  /\ scan' = [scan EXCEPT ![t] = {}]
  /\ found' = [found EXCEPT ![t] = None]
  /\ Goto(t, "body")
  /\ UNCHANGED <<closed, reconnecting, tries>>

(* A reconnection is due when the connection is old enough, always so when *)
(* it is closed: reconnectTime is then 1 ms.                               *)
TakeFree(t, reconnect) ==
  LET c == found[t]
  IN  /\ pc[t] = "found"
      /\ closed[c] => reconnect
      /\ reconnect => reconnecting
      /\ closed' = [closed EXCEPT ![c] = FALSE]
      /\ locked' = [locked EXCEPT ![c] = TRUE]
      /\ res' = [res EXCEPT ![t] = c]
      /\ monitor' = None
      /\ scan' = [scan EXCEPT ![t] = {}]
      /\ found' = [found EXCEPT ![t] = None]
      /\ Goto(t, "body")
      /\ UNCHANGED <<reconnecting, tries>>

(* disconnect() has closed it, connect() throws: the enumeration goes on   *)
(* and the connection stays in the pool, closed and free.                  *)
ReconnectFails(t) ==
  LET c == found[t]
  IN  /\ "reconnect" \in Faults
      /\ pc[t] = "found"
      /\ reconnecting
      /\ closed' = [closed EXCEPT ![c] = TRUE]
      /\ scan' = [scan EXCEPT ![t] = @ \ {c}]
      /\ found' = [found EXCEPT ![t] = None]
      /\ Goto(t, "scan")
      /\ UNCHANGED <<locked, reconnecting, monitor, tries, res>>

TriesNotCountedBug(t) ==
  /\ pc[t] = "scan"
  /\ scan[t] = {}
  /\ scan' = [scan EXCEPT ![t] = Conns]
  /\ UNCHANGED <<locked, closed, reconnecting, monitor, found, tries, res, pc>>

OneTryTooManyBug(t) ==
  /\ pc[t] = "scan"
  /\ scan[t] = {}
  /\ tries[t] < MaxTries
  /\ tries' = [tries EXCEPT ![t] = @ + 1]
  /\ scan' = [scan EXCEPT ![t] = Conns]
  /\ UNCHANGED <<locked, closed, reconnecting, monitor, found, res, pc>>

(* Nothing free: sleep, still inside the monitor, and enumerate again.     *)
Retry(t) ==
  /\ pc[t] = "scan"
  /\ scan[t] = {}
  /\ tries[t] + 1 < MaxTries
  /\ tries' = [tries EXCEPT ![t] = @ + 1]
  /\ scan' = [scan EXCEPT ![t] = Conns]
  /\ UNCHANGED <<locked, closed, reconnecting, monitor, found, res, pc>>

GiveUp(t) ==
  /\ pc[t] = "scan"
  /\ scan[t] = {}
  /\ tries[t] + 1 = MaxTries
  /\ monitor' = None
  /\ Goto(t, "abort")
  /\ UNCHANGED <<locked, closed, reconnecting, scan, found, tries, res>>
-------------------------------------------------------------------------------
(* The end of Service.exec, normal or not.                                 *)

Return(t) ==
  /\ pc[t] = "body"
  /\ Goto(t, "close")
  /\ UNCHANGED <<locked, closed, reconnecting, monitor, scan, found, tries, res>>

BodyThrows(t) ==
  /\ pc[t] = "body"
  /\ Goto(t, "abort")
  /\ UNCHANGED <<locked, closed, reconnecting, monitor, scan, found, tries, res>>
Throw(t) == "service" \in Faults /\ BodyThrows(t)

(* A statement fails because the connection is gone; the service lets the  *)
(* exception through, or catches it and returns.                           *)
Break(t) ==
  /\ "break" \in Faults
  /\ pc[t] = "body"
  /\ res[t] # None
  /\ closed' = [closed EXCEPT ![res[t]] = TRUE]
  /\ \E place \in {"abort", "close"} : Goto(t, place)
  /\ UNCHANGED <<locked, reconnecting, monitor, scan, found, tries, res>>
-------------------------------------------------------------------------------
(* ResourceManager.release(true): checkResource, commit, free, notify.     *)
(* checkResource would throw on a connection that is not marked as in use; *)
(* ReleaseNeverRefused below says that it never does.                      *)

CloseNothing(t) ==
  /\ pc[t] = "close"
  /\ res[t] = None
  /\ Goto(t, "idle")
  /\ UNCHANGED <<locked, closed, reconnecting, monitor, scan, found, tries, res>>

FreedBeforeCommitBug(t) ==
  /\ pc[t] = "close"
  /\ res[t] # None
  /\ locked' = [locked EXCEPT ![res[t]] = FALSE]
  /\ Goto(t, "free")
  /\ UNCHANGED <<closed, reconnecting, monitor, scan, found, tries, res>>

CommitOk(t) ==
  /\ pc[t] = "close"
  /\ res[t] # None
  /\ locked[res[t]]
  /\ ~closed[res[t]]
  /\ Goto(t, "free")
  /\ UNCHANGED <<locked, closed, reconnecting, monitor, scan, found, tries, res>>

(* The database decides when a commit throws: a client of this module      *)
(* that knows more about it conjoins its own reasons to CommitThrows.      *)
CommitThrows(t) ==
  /\ pc[t] = "close"
  /\ res[t] # None
  /\ locked[res[t]]
  /\ Goto(t, "freeFailed")
  /\ UNCHANGED <<locked, closed, reconnecting, monitor, scan, found, tries, res>>

ListenersForgottenBug(t) ==
  /\ pc[t] \in {"free", "freeAbort"}
  /\ locked' = [locked EXCEPT ![res[t]] = FALSE]
  /\ res' = [res EXCEPT ![t] = None]
  /\ Goto(t, "idle")
  /\ UNCHANGED <<closed, reconnecting, monitor, scan, found, tries>>

Free(t) ==
  /\ pc[t] \in {"free", "freeAbort"}
  /\ locked' = [locked EXCEPT ![res[t]] = FALSE]
  /\ Goto(t, IF pc[t] = "free" THEN "notify" ELSE "notifyAbort")
  /\ UNCHANGED <<closed, reconnecting, monitor, scan, found, tries, res>>

ConnectionFails(t) == "commit" \in Faults \/ closed[res[t]]
CommitFails(t) == CommitThrows(t) /\ ConnectionFails(t)

NoFinallyBug(t) ==
  /\ pc[t] = "freeFailed"
  /\ res' = [res EXCEPT ![t] = None]
  /\ Goto(t, "abort")
  /\ UNCHANGED <<locked, closed, reconnecting, monitor, scan, found, tries>>

TableNotEmptiedBug(t) ==
  /\ pc[t] = "freeFailed"
  /\ locked' = [locked EXCEPT ![res[t]] = FALSE]
  /\ Goto(t, "abort")
  /\ UNCHANGED <<closed, reconnecting, monitor, scan, found, tries, res>>

(* The finally block frees the connection, the listeners are not called,   *)
(* release() empties htResources and rethrows: execService then aborts an  *)
(* empty table.                                                            *)
FreeFailed(t) ==
  /\ pc[t] = "freeFailed"
  /\ locked' = [locked EXCEPT ![res[t]] = FALSE]
  /\ res' = [res EXCEPT ![t] = None]
  /\ Goto(t, "abort")
  /\ UNCHANGED <<closed, reconnecting, monitor, scan, found, tries>>

(* The listeners are told, only then the table of the request is emptied.  *)
Notify(t) ==
  /\ pc[t] \in {"notify", "notifyAbort"}
  /\ res' = [res EXCEPT ![t] = None]
  /\ Goto(t, "idle")
  /\ UNCHANGED <<locked, closed, reconnecting, monitor, scan, found, tries>>
-------------------------------------------------------------------------------
(* ResourceManager.release(false).  Dbms.abort swallows a failed rollback. *)

AbortNothing(t) ==
  /\ pc[t] = "abort"
  /\ res[t] = None
  /\ Goto(t, "idle")
  /\ UNCHANGED <<locked, closed, reconnecting, monitor, scan, found, tries, res>>

RollbackOk(t) ==
  /\ pc[t] = "abort"
  /\ res[t] # None
  /\ locked[res[t]]
  /\ ~closed[res[t]]
  /\ Goto(t, "freeAbort")
  /\ UNCHANGED <<locked, closed, reconnecting, monitor, scan, found, tries, res>>

RollbackFails(t) ==
  /\ pc[t] = "abort"
  /\ res[t] # None
  /\ locked[res[t]]
  /\ "rollback" \in Faults \/ closed[res[t]]
  /\ Goto(t, "freeAbort")
  /\ UNCHANGED <<locked, closed, reconnecting, monitor, scan, found, tries, res>>
-------------------------------------------------------------------------------
ServiceStep(t) ==
  \/ BeginRequest(t) \/ CallOpen(t) \/ EnterOpen(t)
  \/ \E c \in Conns : SkipLocked(t, c) \/ FindFree(t, c)
  \/ \E reconnect \in BOOLEAN : TakeFree(t, reconnect)
  \/ ReconnectFails(t) \/ Retry(t) \/ GiveUp(t)
  \/ Return(t) \/ Throw(t) \/ Break(t)
  \/ CloseNothing(t) \/ CommitOk(t) \/ CommitFails(t)
  \/ Free(t) \/ FreeFailed(t) \/ Notify(t)
  \/ AbortNothing(t) \/ RollbackOk(t) \/ RollbackFails(t)

PoolNext == \E t \in Threads : ServiceStep(t)

PoolSpec == PoolInit /\ [][PoolNext]_poolVars

(* A thread inside open(), or past the body of its request, is a running   *)
(* Java thread and goes on; so does the body of a request, which ends.     *)
(* Nothing is assumed of "idle" (no request need arrive) or of "opening":  *)
(* a Java monitor gives no guarantee to the threads that wait for it.      *)
Running(t) ==
  /\ pc[t] \notin {"idle", "opening"}
  /\ ServiceStep(t)
  /\ ~CallOpen(t)

PoolFairness == \A t \in Threads : WF_poolVars(Running(t))

FairPoolSpec == PoolSpec /\ PoolFairness
-------------------------------------------------------------------------------
(* Every variable ranges over what the fields of the code can hold.        *)
PoolTypeOK ==
  /\ locked \in [Conns -> BOOLEAN]
  /\ closed \in [Conns -> BOOLEAN]
  /\ reconnecting \in BOOLEAN
  /\ monitor \in Threads \cup {None}
  /\ scan \in [Threads -> SUBSET Conns]
  /\ found \in [Threads -> Conns \cup {None}]
  /\ tries \in [Threads -> 0 .. MaxTries - 1]
  /\ res \in [Threads -> Conns \cup {None}]
  /\ pc \in [Threads -> Places]

(* A thread uses the connection in its table until the pool marks it free; *)
(* while its listeners run the entry is there, but is not its own any more.*)
Notifying(t) == pc[t] \in {"notify", "notifyAbort"}
Uses(t, c) == res[t] = c /\ ~Notifying(t)

(* No two requests ever work on the same connection, whatever fails and    *)
(* however close(), which takes no lock, interleaves with open().          *)
ExclusiveConnection ==
  \A t, u \in Threads, c \in Conns : Uses(t, c) /\ Uses(u, c) => t = u

(* checkResource (DbmsPool.java:253) never throws: what a request gives    *)
(* back is always marked as in use, on every path that leads to a release. *)
ReleaseNeverRefused ==
  \A t \in Threads, c \in Conns : Uses(t, c) => locked[c]

(* No connection is lost to the pool: one that is marked as in use has a   *)
(* request that will give it back, also after a commit that threw and the  *)
(* abort of the emptied table that follows it (ResourceManager.java:136).  *)
NoConnectionLost ==
  \A c \in Conns : locked[c] => \E t \in Threads : Uses(t, c)

(* The FIXME of DbmsPool.java:157 answered: a connection that could not be *)
(* opened again goes back to the pool, but no request body ever works on   *)
(* it, because it is free and the next open() tries again.                 *)
BodyHasLiveConnection ==
  \A t \in Threads : pc[t] = "body" /\ res[t] # None => ~closed[res[t]]

(* open() returns or throws: it cannot sleep in the monitor for ever.      *)
OpenReturns ==
  \A t \in Threads : monitor = t ~> pc[t] \in {"body", "abort"}

(* Every connection handed out is free again at some time.                 *)
ConnectionReturns == \A c \in Conns : locked[c] ~> ~locked[c]

(* The pool implements the abstract one, a pair being in use from the      *)
(* moment open() marks the connection to the moment release frees it.      *)
Owns == {p \in Threads \X Conns : Uses(p[1], p[2])}
Abstract == INSTANCE ResourcePool WITH owns <- Owns
ImplementsResourcePool == Abstract!PoolSpec
===============================================================================
