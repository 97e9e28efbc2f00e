---------------------------- MODULE Harvester_proofs ----------------------------
(***************************************************************************)
(* Theorems about the life cycle of a harvesting node, for any number of   *)
(* requests, threads, records and calls, every set of faults, with and     *)
(* without oneRunOnly.  Neither property is inductive alone: what an       *)
(* action may assume of status and executor comes from the monitor, and    *)
(* from the places of the requests that hold it.                           *)
(***************************************************************************)
EXTENDS Harvester, WellFoundedInduction, TLAPS

Holders == {"interrupt", "invoke", "destroy"}
Gone == {"none", "dead"}

ThreadPlaces == {"none", "asleep", "test", "call", "harvest", "stop", "close", "dead"}
RequestPlaces == {"idle", "lookup", "manager", "monitor", "interrupt", "invoke", "destroy",
                  "unlist", "commit", "flush"}

ThreadTypes ==
  /\ place \in [Executors -> ThreadPlaces]
  /\ terminate \in [Executors -> BOOLEAN]
  /\ executor \in Executors \cup {None}
  /\ status \in {"active", "inactive"}
  /\ pc \in [Requests -> RequestPlaces]
  /\ destroyed \in BOOLEAN

MonitorHeld == \A r \in Requests : (monitor = r) = (pc[r] \in Holders)

(* A thread that has not been started has not been told to end, and the    *)
(* executor of the node is one that has been started and goes on.          *)
ThreadsFresh == \A e \in Executors : place[e] = "none" => ~terminate[e]
ExecutorLives == executor # None => ~terminate[executor] /\ place[executor] \notin Gone

InactiveHasNone == status = "inactive" => executor = None
InvokeHasNone ==
  \A r \in Requests : pc[r] = "invoke" => status = "active" /\ executor = None
OnlyInvokeHasNone ==
  status = "active" /\ executor = None /\ ~destroyed => \E r \in Requests : pc[r] = "invoke"

LifeInv ==
  /\ ThreadTypes /\ MonitorHeld /\ ThreadsFresh /\ ExecutorLives /\ OneLiveExecutor
  /\ InactiveHasNone /\ InvokeHasNone /\ OnlyInvokeHasNone
-------------------------------------------------------------------------------
(* The initial state: an inactive node without threads.                    *)
LEMMA LifeInit == HarvesterInit => LifeInv
<1> SUFFICES ASSUME HarvesterInit PROVE LifeInv
  OBVIOUS
<1>1. ThreadTypes
  BY DEF HarvesterInit, ThreadTypes, ThreadPlaces, RequestPlaces
<1>2. MonitorHeld
  BY HarvesterAssumption DEF HarvesterInit, MonitorHeld, Holders, Actors
<1>3. ThreadsFresh /\ ExecutorLives /\ OneLiveExecutor
  BY DEF HarvesterInit, ThreadsFresh, ExecutorLives, OneLiveExecutor
<1>4. InactiveHasNone /\ InvokeHasNone /\ OnlyInvokeHasNone
  BY DEF HarvesterInit, InactiveHasNone, InvokeHasNone, OnlyInvokeHasNone
<1> QED
  BY <1>1, <1>2, <1>3, <1>4 DEF LifeInv

(* What the invariant depends on, and what most steps leave alone.         *)
lifeVars == <<place, terminate, executor, status, pc, monitor, destroyed>>

LEMMA LifeStutter == LifeInv /\ UNCHANGED lifeVars => LifeInv'
BY DEF lifeVars, LifeInv, ThreadTypes, MonitorHeld, ThreadsFresh, ExecutorLives,
       OneLiveExecutor, InactiveHasNone, InvokeHasNone, OnlyInvokeHasNone

(* A request that moves between places where it does not hold the monitor. *)
LEMMA RequestMoves ==
  ASSUME LifeInv, NEW r \in Requests, NEW p \in RequestPlaces \ Holders,
         pc[r] \notin Holders, pc' = [pc EXCEPT ![r] = p],
         UNCHANGED <<place, terminate, executor, status, monitor, destroyed>>
  PROVE  LifeInv'
BY DEF LifeInv, ThreadTypes, MonitorHeld, ThreadsFresh, ExecutorLives, OneLiveExecutor,
       InactiveHasNone, InvokeHasNone, OnlyInvokeHasNone, Holders

(* A thread that moves within its loop, or out of it once it is told to.   *)
LEMMA ThreadMoves ==
  ASSUME LifeInv, NEW e \in Executors, NEW p \in ThreadPlaces,
         place[e] \notin Gone, p # "none", p = "dead" => terminate[e],
         place' = [place EXCEPT ![e] = p],
         UNCHANGED <<terminate, executor, status, pc, monitor, destroyed>>
  PROVE  LifeInv'
BY HarvesterAssumption
DEF LifeInv, ThreadTypes, MonitorHeld, ThreadsFresh, ExecutorLives, OneLiveExecutor,
    InactiveHasNone, InvokeHasNone, OnlyInvokeHasNone, Gone

(* With the monitor free nobody is in invoke, and the node is active       *)
(* exactly when it has an executor, unless it has been destroyed.          *)
LEMMA MonitorFree ==
  ASSUME LifeInv, monitor = None
  PROVE  /\ \A r \in Requests : pc[r] \notin Holders
         /\ ~destroyed => (status = "active") = (executor # None)
BY HarvesterAssumption
DEF LifeInv, ThreadTypes, MonitorHeld, InactiveHasNone, OnlyInvokeHasNone, Holders, Actors

(* start, with the monitor free, from start or from run.                   *)
LEMMA StartedLife ==
  ASSUME LifeInv, monitor = None, status = "inactive",
         NEW r \in Requests, NEW p \in RequestPlaces, Started(r),
         pc' = [pc EXCEPT ![r] = p],
         \/ p \notin Holders /\ monitor' = None
         \/ p = "interrupt" /\ monitor' = r,
         UNCHANGED <<terminate, destroyed>>
  PROVE  LifeInv'
<1>1. PICK e \in Executors :
        place[e] = "none" /\ place' = [place EXCEPT ![e] = "asleep"] /\ executor' = e
  BY DEF Started, NewExecutor
<1>2. executor = None /\ status' = "active"
  BY DEF Started, LifeInv, InactiveHasNone
<1>3. \A s \in Requests : pc[s] \notin Holders
  BY MonitorFree
<1>4. ThreadTypes' /\ MonitorHeld'
  BY <1>1, <1>2, <1>3, HarvesterAssumption
  DEF LifeInv, ThreadTypes, MonitorHeld, Holders, ThreadPlaces, RequestPlaces, Actors
<1>5. ThreadsFresh' /\ ExecutorLives' /\ OneLiveExecutor'
  BY <1>1, <1>2, HarvesterAssumption
  DEF LifeInv, ThreadTypes, ThreadsFresh, ExecutorLives, OneLiveExecutor, Gone, Actors
<1>6. InactiveHasNone' /\ InvokeHasNone' /\ OnlyInvokeHasNone'
  BY <1>1, <1>2, <1>3, HarvesterAssumption
  DEF LifeInv, ThreadTypes, InactiveHasNone, InvokeHasNone, OnlyInvokeHasNone, Holders, Actors
<1> QED
  BY <1>4, <1>5, <1>6 DEF LifeInv
-------------------------------------------------------------------------------
(* One step per action of a request.                                       *)
LEMMA RequestStepLife ==
  ASSUME LifeInv, NEW r \in Requests, RequestStep(r)
  PROVE  LifeInv'
<1> USE DEF Goto, Leave, Enter
<1>1. CASE Lookup(r) \/ EnterManager(r) \/ Refuse(r) \/ NoExecutor(r) \/ Unlist(r)
             \/ Commit(r) \/ CommitRefused(r) \/ Flush(r)
  <2>1. /\ pc[r] \notin Holders
        /\ \E p \in RequestPlaces \ Holders : pc' = [pc EXCEPT ![r] = p]
        /\ UNCHANGED <<place, terminate, executor, status, monitor, destroyed>>
    BY <1>1 DEF Lookup, EnterManager, Refuse, NoExecutor, Unlist, Commit, CommitRefused, Flush,
                threadVars, fieldVars, Holders, RequestPlaces
  <2> QED
    BY <2>1, RequestMoves
<1>2. CASE InvokeRecord(r) \/ DeleteRecord(r)
  BY <1>2, LifeStutter DEF InvokeRecord, DeleteRecord, requestVars, threadVars, fieldVars, lifeVars
<1>3. CASE Start(r)
  BY <1>3, StartedLife DEF Start, storedVars, Holders, RequestPlaces
<1>4. CASE Stop(r)
  BY <1>4, MonitorFree, HarvesterAssumption
  DEF Stop, Terminated,
      LifeInv, ThreadTypes, MonitorHeld, ThreadsFresh, ExecutorLives, OneLiveExecutor,
      InactiveHasNone, InvokeHasNone, OnlyInvokeHasNone, Holders, Gone, ThreadPlaces,
      RequestPlaces
<1>5. CASE RunInactive(r)
  BY <1>5, StartedLife DEF RunInactive, storedVars, Holders, RequestPlaces
<1>6. CASE RunActive(r)
  BY <1>6, MonitorFree, HarvesterAssumption
  DEF RunActive, threadVars, fieldVars,
      LifeInv, ThreadTypes, MonitorHeld, ThreadsFresh, ExecutorLives, OneLiveExecutor,
      InactiveHasNone, InvokeHasNone, OnlyInvokeHasNone, Holders, Gone, ThreadPlaces,
      RequestPlaces
<1>7. CASE Interrupt(r)
  <2>1. /\ pc[r] = "interrupt" /\ monitor' = None /\ pc' = [pc EXCEPT ![r] = "commit"]
        /\ UNCHANGED <<place, terminate, executor, status, destroyed>>
    BY <1>7 DEF Interrupt, fieldVars
  <2>2. monitor = r
    BY <2>1 DEF LifeInv, MonitorHeld, Holders
  <2> QED
    BY <2>1, <2>2, HarvesterAssumption DEF LifeInv, ThreadTypes, MonitorHeld, ThreadsFresh, ExecutorLives,
       OneLiveExecutor, InactiveHasNone, InvokeHasNone, OnlyInvokeHasNone, Holders, Gone,
       ThreadPlaces, RequestPlaces, Actors
<1>8. CASE Update(r)
  <2>1. /\ monitor = None /\ pc' = [pc EXCEPT ![r] = "commit"]
        /\ UNCHANGED <<monitor, status, destroyed>>
    BY <1>8 DEF Update
  <2>2. \A s \in Requests : pc[s] \notin Holders
    BY <2>1, MonitorFree
  <2>3. CASE status = "inactive"
    <3>1. UNCHANGED <<place, terminate, executor>>
      BY <1>8, <2>3 DEF Update, threadVars
    <3> QED
      BY <2>1, <2>2, <3>1, RequestMoves, HarvesterAssumption DEF RequestPlaces, Holders
  <2>4. CASE status = "active"
    <3>1. executor \in Executors /\ terminate' = [terminate EXCEPT ![executor] = TRUE]
      BY <1>8, <2>4 DEF Update, Terminated, LifeInv, ThreadTypes
    <3>2. PICK e \in Executors : place[e] = "none" /\ place' = [place EXCEPT ![e] = "asleep"] /\ executor' = e
      BY <1>8, <2>4 DEF Update, NewExecutor
    <3>3. e # executor
      BY <3>1, <3>2, HarvesterAssumption DEF LifeInv, ExecutorLives, Gone, Actors
    <3>4. ThreadTypes' /\ MonitorHeld'
      BY <2>1, <2>2, <3>1, <3>2, HarvesterAssumption
      DEF LifeInv, ThreadTypes, MonitorHeld, Holders, ThreadPlaces, RequestPlaces, Actors
    <3>5. ThreadsFresh' /\ ExecutorLives' /\ OneLiveExecutor'
      BY <3>1, <3>2, <3>3, HarvesterAssumption
      DEF LifeInv, ThreadTypes, ThreadsFresh, ExecutorLives, OneLiveExecutor, Gone, Actors
    <3>6. InactiveHasNone' /\ InvokeHasNone' /\ OnlyInvokeHasNone'
      BY <2>1, <2>2, <2>4, <3>2, HarvesterAssumption
      DEF LifeInv, ThreadTypes, InactiveHasNone, InvokeHasNone, OnlyInvokeHasNone, Holders, Actors
    <3> QED
      BY <3>4, <3>5, <3>6 DEF LifeInv
  <2> QED
    BY <2>3, <2>4 DEF LifeInv, ThreadTypes
<1>9. CASE Invoke(r)
  BY <1>9, MonitorFree, HarvesterAssumption
  DEF Invoke, threadVars,
      LifeInv, ThreadTypes, MonitorHeld, ThreadsFresh, ExecutorLives, OneLiveExecutor,
      InactiveHasNone, InvokeHasNone, OnlyInvokeHasNone, Holders, Gone, ThreadPlaces,
      RequestPlaces
<1>10. CASE InvokeEnds(r)
  <2>1. /\ pc[r] = "invoke" /\ monitor' = None /\ pc' = [pc EXCEPT ![r] = "idle"]
        /\ status' = "inactive" /\ UNCHANGED <<place, terminate, executor, destroyed>>
    BY <1>10 DEF InvokeEnds, threadVars
  <2>2. monitor = r /\ executor = None
    BY <2>1 DEF LifeInv, MonitorHeld, InvokeHasNone, Holders
  <2> QED
    BY <2>1, <2>2, HarvesterAssumption DEF LifeInv, ThreadTypes, MonitorHeld, ThreadsFresh, ExecutorLives,
       OneLiveExecutor, InactiveHasNone, InvokeHasNone, OnlyInvokeHasNone, Holders, Gone,
       ThreadPlaces, RequestPlaces, Actors
<1>11. CASE Destroy(r)
  BY <1>11, MonitorFree, HarvesterAssumption
  DEF Destroy, Terminated,
      LifeInv, ThreadTypes, MonitorHeld, ThreadsFresh, ExecutorLives, OneLiveExecutor,
      InactiveHasNone, InvokeHasNone, OnlyInvokeHasNone, Holders, Gone, ThreadPlaces,
      RequestPlaces
<1>12. CASE DestroyFails(r) \/ DestroyDone(r)
  <2>1. /\ pc[r] = "destroy" /\ monitor' = None
        /\ pc' = [pc EXCEPT ![r] = "idle"] \/ pc' = [pc EXCEPT ![r] = "unlist"]
        /\ UNCHANGED <<place, terminate, executor, status, destroyed>>
    BY <1>12 DEF DestroyFails, DestroyDone, threadVars, fieldVars
  <2>2. monitor = r
    BY <2>1 DEF LifeInv, MonitorHeld, Holders
  <2> QED
    BY <2>1, <2>2, HarvesterAssumption DEF LifeInv, ThreadTypes, MonitorHeld, ThreadsFresh, ExecutorLives,
       OneLiveExecutor, InactiveHasNone, InvokeHasNone, OnlyInvokeHasNone, Holders, Gone,
       ThreadPlaces, RequestPlaces, Actors
<1> QED
  BY <1>1, <1>2, <1>3, <1>4, <1>5, <1>6, <1>7, <1>8, <1>9, <1>10, <1>11, <1>12 DEF RequestStep

(* One step per action of a thread.                                        *)
LEMMA ExecutorStepLife ==
  ASSUME LifeInv, NEW e \in Executors, ExecutorStep(e)
  PROVE  LifeInv'
<1>1. CASE HarvestRecord(e)
  BY <1>1, LifeStutter DEF HarvestRecord, requestVars, threadVars, fieldVars, lifeVars
<1>2. CASE StopSelf(e)
  BY <1>2, MonitorFree, HarvesterAssumption
  DEF StopSelf, Terminated, Move, requestVars,
      LifeInv, ThreadTypes, MonitorHeld, ThreadsFresh, ExecutorLives, OneLiveExecutor,
      InactiveHasNone, InvokeHasNone, OnlyInvokeHasNone, Holders, Gone, ThreadPlaces,
      RequestPlaces
<1>3. CASE ~HarvestRecord(e) /\ ~StopSelf(e)
  <2>1. /\ place[e] \notin Gone
        /\ \E p \in ThreadPlaces : /\ p # "none"
                                   /\ p = "dead" => terminate[e]
                                   /\ place' = [place EXCEPT ![e] = p]
        /\ UNCHANGED <<terminate, executor, status, pc, monitor, destroyed>>
    BY <1>3 DEF ExecutorStep, Wake, Quit, SetRunning, HarvesterGone, Harvest, HarvestDone,
       HarvestThrows, StopNothing, StopThrows, Close, CloseRefused, GiveUp, Move,
       requestVars, fieldVars, Gone, ThreadPlaces
  <2> QED
    BY <2>1, ThreadMoves
<1> QED
  BY <1>1, <1>2, <1>3
-------------------------------------------------------------------------------
(* The invariant holds in every reachable state.                           *)
THEOREM LifeInvariant == HarvesterSpec => []LifeInv
<1>1. LifeInv /\ [HarvesterNext]_vars => LifeInv'
  <2> SUFFICES ASSUME LifeInv, [HarvesterNext]_vars PROVE LifeInv'
    OBVIOUS
  <2>1. ASSUME NEW r \in Requests, RequestStep(r) PROVE LifeInv'
    BY <2>1, RequestStepLife
  <2>2. ASSUME NEW r \in Requests, NEW o \in Ops, Call(r, o) PROVE LifeInv'
    <3>1. \E p \in RequestPlaces \ Holders : pc' = [pc EXCEPT ![r] = p]
      BY <2>2 DEF Call, Goto, RequestPlaces, Holders
    <3> QED
      BY <2>2, <3>1, RequestMoves DEF Call, threadVars, fieldVars, Holders
  <2>3. ASSUME NEW e \in Executors, ExecutorStep(e) PROVE LifeInv'
    BY <2>3, ExecutorStepLife
  <2>4. CASE UNCHANGED vars
    BY <2>4, LifeStutter DEF vars, requestVars, threadVars, fieldVars, lifeVars
  <2> QED
    BY <2>1, <2>2, <2>3, <2>4 DEF HarvesterNext
<1> QED
  BY LifeInit, <1>1, PTL DEF HarvesterSpec

(* However start, stop, run, update, remove and a harvest that stops       *)
(* itself interleave, a node never has two threads that go on              *)
(* (AbstractHarvester.java:211-320, Executor.java:74-92).                  *)
THEOREM OneThread == HarvesterSpec => []OneLiveExecutor
BY LifeInvariant, PTL DEF LifeInv

(* Between the synchronized methods an active node that has not been       *)
(* destroyed has a thread, and only an active one has.                     *)
THEOREM ActiveThread == HarvesterSpec => []ActiveHasExecutor
<1>1. LifeInv => ActiveHasExecutor
  BY MonitorFree DEF LifeInv, ExecutorLives, ActiveHasExecutor
<1> QED
  BY LifeInvariant, <1>1, PTL

(* While a request harvests by invoke, no thread is going to begin a       *)
(* harvest (AbstractHarvester.java:261).                                   *)
THEOREM Alone == HarvesterSpec => []InvokeAlone
<1>1. LifeInv => InvokeAlone
  BY HarvesterAssumption
  DEF LifeInv, InvokeHasNone, OneLiveExecutor, InvokeAlone, Actors
<1> QED
  BY LifeInvariant, <1>1, PTL

-------------------------------------------------------------------------------
(***************************************************************************)
(* The status of a harvesting node in memory and in table Settings, for    *)
(* every number of requests, threads, generations of rows and calls and    *)
(* every set of faults.                                                    *)
(*                                                                         *)
(* Memory is ahead of the table from the statement until the commit.  As   *)
(* long as no statement has got lost, either exactly one transaction is    *)
(* going to write the status that stands, or the table has it; or some     *)
(* transaction is bound to lose its statement already.  That the table     *)
(* has one generation of rows, and which of them the tree still resolves   *)
(* paths to, is part of the argument.                                      *)
(***************************************************************************)

(* The status that the rows are meant to have: invoke saves none.          *)
Standing == IF \E r \in Requests : pc[r] = "invoke" THEN "inactive" ELSE status

StatusWrites(a) == {w \in pend[a] : w.kind = "status"}

LedgerTypes ==
  /\ saved \in [Gens -> {"active", "inactive", None}]
  /\ pend \in [Actors -> SUBSET Write]
  /\ stale \in [Actors -> BOOLEAN]
  /\ flushing \in [Requests -> SUBSET Write]
  /\ \A a \in Actors : \A w, v \in AboutStatus(a) : w = v
  /\ \A r \in Requests : \A w \in flushing[r] : w.kind \in Structural /\ flushing[r] = {w}

(* Where a request and a thread have open statements, and which.           *)
RequestShape ==
  \A r \in Requests :
    /\ pend[r] # {} => pc[r] \in {"interrupt", "commit"}
    /\ (flushing[r] = {}) = (pc[r] # "flush")
ThreadShape ==
  \A e \in Executors : \A w \in pend[e] :
    w.kind = "lastRun" \/ (w.kind = "status" /\ place[e] = "close")

(* One generation of rows, which the tree has or is about to have, or none *)
(* any more.                                                               *)
NothingFlushing == \A r \in Requests : flushing[r] = {}
TreeCurrent == NothingFlushing /\ \E g \in Gens : tree = <<g>> /\ Saved = {g}
TreeBehind ==
  \E r \in Requests, g \in Gens : \E w \in flushing[r] :
    /\ w.kind = "replace"
    /\ tree = <<g>> /\ g \in w.gens /\ g # w.new /\ Saved = {w.new}
    /\ \A s \in Requests \ {r} : flushing[s] = {}
Removed ==
  /\ Saved = {}
  /\ \A r \in Requests : \A w \in flushing[r] : w.kind = "remove"
  /\ tree = <<>> \/ (~NothingFlushing /\ \E g \in Gens : tree = <<g>>)
OneGeneration == TreeCurrent \/ TreeBehind \/ Removed

(* The rows that an update is going to add are new to everybody.           *)
FreshRows ==
  \A a \in Actors : \A w \in pend[a] :
    /\ w.kind = "replace" =>
         /\ w.new \notin Saved \cup ToSet(tree)
         /\ \A b \in Actors : \A v \in pend[b] :
              /\ w.new \notin v.gens
              /\ b # a /\ v.kind = "replace" => v.new # w.new
    /\ \A r \in Requests : \A v \in flushing[r] :
         v.kind = "replace" =>
           /\ v.new \notin w.gens
           /\ w.kind = "replace" => v.new # w.new

(* A status statement that is going to be refused, or to miss its rows.    *)
Doomed(a) == \E w \in StatusWrites(a) : stale[a] \/ w.gens \cap Saved = {}
GoingToDiverge ==
  \/ \E a \in Actors : Doomed(a)
  \/ \E a, b \in Actors : a # b /\ WroteStatus(a) /\ WroteStatus(b)

(* One statement with the status that stands, or rows that have it and get *)
(* no other one from an update.                                            *)
Settled ==
  /\ \A a \in Actors : \A w \in StatusWrites(a) : w.value = Standing
  /\ (\A a \in Actors : ~WroteStatus(a)) =>
       /\ \A g \in Saved : saved[g] = Standing
       /\ \A a \in Actors : \A w \in pend[a] :
            w.kind = "replace" /\ ~stale[a] /\ Saved # {} /\ Saved \subseteq w.gens
              => w.value = Standing

ShapeInv == RequestShape /\ ThreadShape
LedgerSound == LedgerTypes /\ OneGeneration /\ FreshRows /\ (GoingToDiverge \/ Settled)
SavedInv == ~diverged => LedgerSound /\ ShapeInv
-------------------------------------------------------------------------------
(* What the fields of a statement are.                                     *)
LEMMA WriteFields ==
  ASSUME NEW w \in Write
  PROVE  /\ w.kind \in {"status", "lastRun", "remove", "replace"}
         /\ w.gens \subseteq Gens
         /\ w.kind = "status" => w.value \in {"active", "inactive"}
         /\ w.kind = "replace" => w.new \in Gens /\ w.value \in {"active", "inactive"}
BY DEF Write

LEMMA StandingType ==
  ASSUME LifeInv
  PROVE  Standing \in {"active", "inactive"}
BY DEF LifeInv, ThreadTypes, Standing

(* What one statement does to the rows.                                    *)
LEMMA Applied ==
  ASSUME LedgerTypes, NEW w \in Write, saved' = ApplyWrite(saved, w)
  PROVE  /\ saved' \in [Gens -> {"active", "inactive", None}]
         /\ w.kind = "status" =>
              /\ Saved' = Saved
              /\ \A g \in Saved : saved'[g] = IF g \in w.gens THEN w.value ELSE saved[g]
         /\ w.kind = "remove" => Saved' = Saved \ w.gens
         /\ w.kind = "replace" =>
              /\ Saved' = (Saved \ w.gens) \cup {w.new}
              /\ saved'[w.new] = w.value
<1>1. saved \in [Gens -> {"active", "inactive", None}]
  BY DEF LedgerTypes
<1>2. None \notin {"active", "inactive"}
  BY HarvesterAssumption
<1>3. saved' = [g \in Gens |->
         IF w.kind = "replace" /\ g = w.new THEN w.value
         ELSE IF g \notin w.gens \/ saved[g] = None \/ w.kind = "lastRun" THEN saved[g]
         ELSE IF w.kind = "status" THEN w.value ELSE None]
  BY DEF ApplyWrite
<1>4. CASE w.kind = "status"
  <2>1. \A g \in Gens : saved'[g] = IF g \in w.gens /\ saved[g] # None THEN w.value ELSE saved[g]
    BY <1>3, <1>4
  <2>2. saved' \in [Gens -> {"active", "inactive", None}]
    BY <1>1, <1>3, <2>1, <1>4, WriteFields
  <2> QED
    BY <2>1, <2>2, <1>1, <1>2, <1>4, WriteFields DEF Saved
<1>5. CASE w.kind = "remove"
  <2>1. \A g \in Gens : saved'[g] = IF g \in w.gens THEN None ELSE saved[g]
    BY <1>3, <1>5
  <2>2. saved' \in [Gens -> {"active", "inactive", None}]
    BY <1>1, <1>3, <2>1
  <2> QED
    BY <2>1, <2>2, <1>5 DEF Saved
<1>6. CASE w.kind = "replace"
  <2>1. \A g \in Gens : saved'[g] = IF g = w.new THEN w.value
                                    ELSE IF g \in w.gens THEN None ELSE saved[g]
    BY <1>3, <1>6
  <2>2. saved' \in [Gens -> {"active", "inactive", None}]
    BY <1>1, <1>3, <2>1, <1>6, WriteFields
  <2> QED
    BY <2>1, <2>2, <1>2, <1>6, WriteFields DEF Saved
<1>7. CASE w.kind = "lastRun"
  <2>1. \A g \in Gens : saved'[g] = saved[g]
    BY <1>3, <1>7
  <2> QED
    BY <2>1, <1>1, <1>3, <1>7
<1> QED
  BY <1>4, <1>5, <1>6, <1>7, WriteFields

(* A transaction changes the rows by its statement about the status.       *)
LEMMA AfterTransaction ==
  ASSUME LedgerTypes, NEW a \in Actors
  PROVE  /\ AboutStatus(a) = {} => After(a) = saved
         /\ \A w \in AboutStatus(a) : After(a) = ApplyWrite(saved, w)
<1>1. ASSUME NEW w \in AboutStatus(a) PROVE After(a) = ApplyWrite(saved, w)
  <2>1. (CHOOSE v \in AboutStatus(a) : TRUE) \in AboutStatus(a)
    BY <1>1
  <2>2. (CHOOSE v \in AboutStatus(a) : TRUE) = w
    BY <1>1, <2>1 DEF LedgerTypes
  <2> QED
    BY <1>1, <2>2 DEF After
<1> QED
  BY <1>1 DEF After
-------------------------------------------------------------------------------
(* The initial state: one generation, inactive.                            *)
LEMMA SavedInit == HarvesterInit => SavedInv
<1> SUFFICES ASSUME HarvesterInit PROVE SavedInv
  OBVIOUS
<1> USE DEF HarvesterInit
<1>1. LedgerTypes
  BY HarvesterAssumption DEF LedgerTypes, AboutStatus
<1>2. Saved = {1} /\ saved[1] = "inactive" /\ 1 \in Gens
  BY HarvesterAssumption DEF Saved
<1>3. OneGeneration
  BY <1>2 DEF OneGeneration, TreeCurrent, NothingFlushing
<1>4. FreshRows
  BY DEF FreshRows
<1>5. Settled
  BY <1>2 DEF Settled, StatusWrites, Standing
<1>6. ShapeInv
  BY DEF ShapeInv, RequestShape, ThreadShape, Actors
<1> QED
  BY <1>1, <1>3, <1>4, <1>5, <1>6 DEF SavedInv, LedgerSound

(* What the ledger invariant depends on, besides the status that stands.   *)
ledgerVars == <<saved, tree, pend, stale, flushing>>

LEMMA LedgerStutter ==
  ASSUME LedgerSound, UNCHANGED ledgerVars, Standing' = Standing
  PROVE  LedgerSound'
<1> USE DEF ledgerVars
<1>1. LedgerTypes'
  BY DEF LedgerSound, LedgerTypes, AboutStatus
<1>2. OneGeneration' = OneGeneration
  BY DEF OneGeneration, TreeCurrent, TreeBehind, Removed, NothingFlushing, Saved
<1>3. FreshRows' = FreshRows
  BY DEF FreshRows, Saved
<1>4. GoingToDiverge' = GoingToDiverge
  BY DEF GoingToDiverge, Doomed, WroteStatus, StatusWrites, Saved
<1>5. Settled' = Settled
  BY DEF Settled, WroteStatus, StatusWrites, Saved
<1> QED
  BY <1>1, <1>2, <1>3, <1>4, <1>5 DEF LedgerSound
-------------------------------------------------------------------------------
(* A statement joins a transaction that has none about the status yet.     *)
LEMMA ExecuteTypes ==
  ASSUME LedgerTypes, NEW a \in Actors, NEW w \in Write, Execute(a, w),
         w.kind = "lastRun" \/ AboutStatus(a) = {},
         UNCHANGED <<saved, stale, flushing>>
  PROVE  /\ LedgerTypes'
         /\ pend'[a] = pend[a] \cup {w}
         /\ \A b \in Actors : b # a => pend'[b] = pend[b]
<1>1. /\ pend'[a] = pend[a] \cup {w}
      /\ \A b \in Actors : b # a => pend'[b] = pend[b]
      /\ pend' \in [Actors -> SUBSET Write]
  BY DEF LedgerTypes, Execute
<1>2. ASSUME NEW b \in Actors, NEW v \in AboutStatus(b)', NEW u \in AboutStatus(b)'
      PROVE  v = u
  <2>1. CASE b # a
    BY <1>1, <1>2, <2>1 DEF LedgerTypes, AboutStatus
  <2>2. CASE b = a
    BY <1>1, <1>2, <2>2 DEF LedgerTypes, AboutStatus
  <2> QED
    BY <2>1, <2>2
<1> QED
  BY <1>1, <1>2 DEF LedgerTypes

(* The rows that a committed update has added are not in the tree before   *)
(* its flush.                                                              *)
LEMMA FlushingUnseen ==
  ASSUME LedgerTypes, OneGeneration, NEW r \in Requests, NEW v \in flushing[r],
         v.kind = "replace"
  PROVE  v.new \notin ToSet(tree)
<1>1. ~TreeCurrent /\ ~Removed
  BY DEF TreeCurrent, Removed, NothingFlushing
<1>2. PICK s \in Requests, g \in Gens : \E w \in flushing[s] :
        tree = <<g>> /\ g # w.new /\ \A q \in Requests \ {s} : flushing[q] = {}
  BY <1>1 DEF OneGeneration, TreeBehind
<1>3. flushing[r] = {v} /\ r = s /\ tree = <<g>> /\ g # v.new
  BY <1>2 DEF LedgerTypes
<1>4. ToSet(tree) = {g}
  BY <1>3 DEF ToSet
<1> QED
  BY <1>3, <1>4

(* A statement about rows that the tree has leaves the new ones new.       *)
LEMMA ExecuteFresh ==
  ASSUME LedgerTypes, OneGeneration, FreshRows,
         NEW a \in Actors, NEW w \in Write,
         pend'[a] = pend[a] \cup {w}, \A b \in Actors : b # a => pend'[b] = pend[b],
         w.gens \subseteq ToSet(tree), w.kind # "replace",
         UNCHANGED <<saved, tree, flushing>>
  PROVE  FreshRows'
<1>1. \A b \in Actors : \A v \in pend'[b] : v \in pend[b] \/ (b = a /\ v = w)
  OBVIOUS
<1>2. ASSUME NEW b \in Actors, NEW v \in pend'[b], v.kind = "replace"
      PROVE  /\ v.new \notin Saved \cup ToSet(tree)
             /\ \A c \in Actors : \A u \in pend'[c] :
                  /\ v.new \notin u.gens
                  /\ c # b /\ u.kind = "replace" => u.new # v.new
  <2>1. v \in pend[b]
    BY <1>1, <1>2
  <2>2. v.new \notin w.gens
    BY <1>2, <2>1 DEF FreshRows
  <2> QED
    BY <1>1, <1>2, <2>1, <2>2 DEF FreshRows
<1>3. ASSUME NEW b \in Actors, NEW v \in pend'[b], NEW r \in Requests, NEW u \in flushing[r],
             u.kind = "replace"
      PROVE  u.new \notin v.gens /\ (v.kind = "replace" => u.new # v.new)
  <2>1. u.new \notin w.gens
    BY <1>3, FlushingUnseen
  <2> QED
    BY <1>1, <1>3, <2>1 DEF FreshRows
<1> QED
  BY <1>2, <1>3 DEF FreshRows, Saved

LEMMA ExecuteGeneration ==
  ASSUME OneGeneration, UNCHANGED <<saved, tree, flushing>>
  PROVE  OneGeneration'
BY DEF OneGeneration, TreeCurrent, TreeBehind, Removed, NothingFlushing, Saved

(* What is bound to diverge stays so when statements are added.            *)
LEMMA ExecuteDoomed ==
  ASSUME GoingToDiverge, \A a \in Actors : pend[a] \subseteq pend'[a], UNCHANGED <<saved, stale>>
  PROVE  GoingToDiverge'
<1>1. \A a \in Actors : StatusWrites(a) \subseteq StatusWrites(a)'
  BY DEF StatusWrites
<1>2. \A a \in Actors : WroteStatus(a) => WroteStatus(a)'
  BY DEF WroteStatus
<1> QED
  BY <1>1, <1>2 DEF GoingToDiverge, Doomed, Saved

LEMMA TreeInGens ==
  ASSUME OneGeneration
  PROVE  tree = <<>> \/ \E g \in Gens : tree = <<g>>
BY DEF OneGeneration, TreeCurrent, TreeBehind, Removed

(* start and stop, of a request or of a thread.                            *)
LEMMA ExecuteStatus ==
  ASSUME LedgerSound, NEW a \in Actors, NEW s \in {"active", "inactive"},
         Execute(a, SetStatus(s)), AboutStatus(a) = {}, Standing' = s,
         UNCHANGED <<saved, tree, stale, flushing>>
  PROVE  LedgerSound'
<1> DEFINE w == SetStatus(s)
<1>1. w \in Write /\ w.kind = "status" /\ w.value = s /\ w.gens = Resolved
  BY TreeInGens DEF LedgerSound, SetStatus, Write, Resolved
<1>2. /\ LedgerTypes'
      /\ pend'[a] = pend[a] \cup {w}
      /\ \A b \in Actors : b # a => pend'[b] = pend[b]
  BY <1>1, ExecuteTypes DEF LedgerSound
<1> HIDE DEF w
<1>3. w.gens \subseteq ToSet(tree)
  BY <1>1, TreeInGens DEF LedgerSound, Resolved, ToSet
<1>4. OneGeneration' /\ FreshRows'
  BY <1>1, <1>2, <1>3, ExecuteFresh, ExecuteGeneration DEF LedgerSound
<1>5. CASE GoingToDiverge
  <2>1. \A b \in Actors : pend[b] \subseteq pend'[b]
    BY <1>2
  <2> QED
    BY <1>2, <1>4, <1>5, <2>1, ExecuteDoomed DEF LedgerSound
<1>6. CASE \E b \in Actors : WroteStatus(b)
  <2>1. PICK b \in Actors : WroteStatus(b)
    BY <1>6
  <2>2. b # a
    BY <2>1 DEF WroteStatus, AboutStatus
  <2>3. WroteStatus(a)' /\ WroteStatus(b)'
    BY <1>1, <1>2, <2>1, <2>2 DEF WroteStatus
  <2>4. GoingToDiverge'
    BY <2>2, <2>3 DEF GoingToDiverge
  <2> QED
    BY <1>2, <1>4, <2>4 DEF LedgerSound
<1>7. CASE \A b \in Actors : ~WroteStatus(b)
  <2>1. \A b \in Actors : \A v \in StatusWrites(b)' : v = w
    BY <1>2, <1>7 DEF WroteStatus, StatusWrites
  <2>2. WroteStatus(a)'
    BY <1>1, <1>2 DEF WroteStatus
  <2>3. Settled'
    BY <1>1, <2>1, <2>2 DEF Settled
  <2> QED
    BY <1>2, <1>4, <2>3 DEF LedgerSound
<1> QED
  BY <1>6, <1>7
-------------------------------------------------------------------------------
(* The date of a run, or the removal of the node.                          *)
LEMMA ExecuteOther ==
  ASSUME LedgerSound, NEW a \in Actors, NEW w \in Write, Execute(a, w),
         w.kind \in {"lastRun", "remove"}, w.gens \subseteq ToSet(tree),
         w.kind = "lastRun" \/ AboutStatus(a) = {}, Standing' = Standing,
         UNCHANGED <<saved, tree, stale, flushing>>
  PROVE  LedgerSound'
<1>1. /\ LedgerTypes'
      /\ pend'[a] = pend[a] \cup {w}
      /\ \A b \in Actors : b # a => pend'[b] = pend[b]
  BY ExecuteTypes DEF LedgerSound
<1>2. OneGeneration' /\ FreshRows'
  BY <1>1, ExecuteFresh, ExecuteGeneration DEF LedgerSound
<1>3. CASE GoingToDiverge
  <2>1. \A b \in Actors : pend[b] \subseteq pend'[b]
    BY <1>1
  <2> QED
    BY <1>1, <1>2, <1>3, <2>1, ExecuteDoomed DEF LedgerSound
<1>4. CASE Settled
  <2>1. \A b \in Actors : StatusWrites(b)' = StatusWrites(b)
    BY <1>1 DEF StatusWrites
  <2>2. \A b \in Actors : WroteStatus(b)' = WroteStatus(b)
    BY <1>1 DEF WroteStatus
  <2>3. \A b \in Actors : \A v \in pend'[b] : v.kind = "replace" => v \in pend[b]
    BY <1>1
  <2>4. Settled'
    BY <1>4, <2>1, <2>2, <2>3 DEF Settled, Saved
  <2> QED
    BY <1>1, <1>2, <2>4 DEF LedgerSound
<1> QED
  BY <1>3, <1>4 DEF LedgerSound

(* update: the rows it adds are new, and have the status that stands.      *)
LEMMA ExecuteUpdate ==
  ASSUME LedgerSound, NEW a \in Actors, NEW w \in Write, Execute(a, w),
         w.kind = "replace", w.gens = ToSet(tree), w.new \in Unused, w.value = Standing,
         AboutStatus(a) = {}, Standing' = Standing,
         UNCHANGED <<saved, tree, stale, flushing>>
  PROVE  LedgerSound'
<1>1. /\ LedgerTypes'
      /\ pend'[a] = pend[a] \cup {w}
      /\ \A b \in Actors : b # a => pend'[b] = pend[b]
  BY ExecuteTypes DEF LedgerSound
<1>2. \A b \in Actors : \A v \in pend'[b] : v \in pend[b] \/ (b = a /\ v = w)
  BY <1>1
<1>3. w.new \notin Saved \cup ToSet(tree) \cup Mentioned
  BY DEF Unused
<1>4. /\ \A b \in Actors : \A v \in pend[b] :
           w.new \notin v.gens /\ (v.kind = "replace" => v.new # w.new)
      /\ \A r \in Requests : \A v \in flushing[r] : v.kind = "replace" => v.new # w.new
  BY <1>3 DEF Mentioned
<1>5. OneGeneration'
  BY ExecuteGeneration DEF LedgerSound
<1>6. FreshRows'
  <2>1. ASSUME NEW b \in Actors, NEW v \in pend'[b], v.kind = "replace"
        PROVE  /\ v.new \notin Saved \cup ToSet(tree)
               /\ \A c \in Actors : \A u \in pend'[c] :
                    /\ v.new \notin u.gens
                    /\ c # b /\ u.kind = "replace" => u.new # v.new
    <3>1. CASE v \in pend[b]
      BY <1>2, <1>4, <2>1, <3>1 DEF LedgerSound, FreshRows
    <3>2. CASE b = a /\ v = w
      BY <1>2, <1>3, <1>4, <2>1, <3>2
    <3> QED
      BY <1>2, <3>1, <3>2
  <2>2. ASSUME NEW b \in Actors, NEW v \in pend'[b], NEW r \in Requests, NEW u \in flushing[r],
               u.kind = "replace"
        PROVE  u.new \notin v.gens /\ (v.kind = "replace" => u.new # v.new)
    <3>1. u.new \notin w.gens
      BY <2>2, FlushingUnseen DEF LedgerSound
    <3> QED
      BY <1>2, <1>4, <2>2, <3>1 DEF LedgerSound, FreshRows
  <2> QED
    BY <2>1, <2>2 DEF FreshRows, Saved
<1>7. CASE GoingToDiverge
  <2>1. \A b \in Actors : pend[b] \subseteq pend'[b]
    BY <1>1
  <2> QED
    BY <1>1, <1>5, <1>6, <1>7, <2>1, ExecuteDoomed DEF LedgerSound
<1>8. CASE Settled
  <2>1. \A b \in Actors : StatusWrites(b)' = StatusWrites(b)
    BY <1>1 DEF StatusWrites
  <2>2. \A b \in Actors : WroteStatus(b)' = WroteStatus(b)
    BY <1>1 DEF WroteStatus
  <2>3. Settled'
    BY <1>2, <1>8, <2>1, <2>2 DEF Settled, Saved
  <2> QED
    BY <1>1, <1>5, <1>6, <2>3 DEF LedgerSound
<1> QED
  BY <1>7, <1>8 DEF LedgerSound
-------------------------------------------------------------------------------
(* The end of a transaction that is dropped.                               *)
LEMMA Dropped ==
  ASSUME LedgerSound, NEW a \in Actors, DropPending(a), ~WroteStatus(a), Standing' = Standing,
         UNCHANGED <<saved, tree, flushing>>
  PROVE  LedgerSound'
<1>1. /\ pend'[a] = {} /\ \A b \in Actors : b # a => pend'[b] = pend[b] /\ stale'[b] = stale[b]
      /\ pend' \in [Actors -> SUBSET Write] /\ stale' \in [Actors -> BOOLEAN]
  BY DEF LedgerSound, LedgerTypes, DropPending
<1>2. LedgerTypes'
  BY <1>1 DEF LedgerSound, LedgerTypes, AboutStatus
<1>3. OneGeneration'
  BY ExecuteGeneration DEF LedgerSound
<1>4. FreshRows'
  BY <1>1 DEF LedgerSound, FreshRows, Saved
<1>5. \A b \in Actors : WroteStatus(b)' = WroteStatus(b) /\ StatusWrites(b)' = StatusWrites(b)
  BY <1>1 DEF WroteStatus, StatusWrites
<1>6. GoingToDiverge => GoingToDiverge'
  <2>1. \A b \in Actors : Doomed(b) => Doomed(b)'
    BY <1>1, <1>5 DEF Doomed, StatusWrites, WroteStatus, Saved
  <2> QED
    BY <1>5, <2>1 DEF GoingToDiverge
<1>7. Settled => Settled'
  BY <1>1, <1>5 DEF Settled, Saved
<1> QED
  BY <1>2, <1>3, <1>4, <1>6, <1>7 DEF LedgerSound
-------------------------------------------------------------------------------
(* A commit: the facts that every case of it uses.                         *)
Tasks(a) == {w \in pend[a] : w.kind \in Structural}

LEMMA CommitFacts ==
  ASSUME LedgerSound, NEW a \in Actors, CommitPending(a), ~diverged'
  PROVE  /\ pend'[a] = {} /\ pend' \in [Actors -> SUBSET Write]
         /\ \A b \in Actors : b # a => pend'[b] = pend[b]
         /\ ~stale[a] /\ ~Misses(a) /\ KeysOk(a)
         /\ stale' \in [Actors -> BOOLEAN]
         /\ \A b \in Actors : b # a =>
              stale'[b] = (stale[b] \/ \E w \in pend[a], v \in pend[b] : Conflict(w, v))
         /\ AboutStatus(a) = {} => saved' = saved
         /\ \A w \in AboutStatus(a) : saved' = ApplyWrite(saved, w)
         /\ saved' \in [Gens -> {"active", "inactive", None}]
<1>1. /\ pend'[a] = {} /\ pend' \in [Actors -> SUBSET Write]
      /\ \A b \in Actors : b # a => pend'[b] = pend[b]
  BY DEF LedgerSound, LedgerTypes, CommitPending
<1>2. ~stale[a] /\ ~Misses(a) /\ KeysOk(a)
  BY DEF CommitPending, Committable
<1>3. /\ stale' \in [Actors -> BOOLEAN]
      /\ \A b \in Actors : b # a =>
           stale'[b] = (stale[b] \/ \E w \in pend[a], v \in pend[b] : Conflict(w, v))
  <2>1. stale' = [b \in Actors |->
                    b # a /\ (stale[b] \/ \E w \in pend[a], v \in pend[b] : Conflict(w, v))]
    BY DEF CommitPending
  <2>2. \A b \in Actors :
          (b # a /\ (stale[b] \/ \E w \in pend[a], v \in pend[b] : Conflict(w, v))) \in BOOLEAN
    OBVIOUS
  <2>3. stale' \in [Actors -> BOOLEAN]
    BY <2>1, <2>2
  <2>4. \A b \in Actors : b # a =>
           stale'[b] = (stale[b] \/ \E w \in pend[a], v \in pend[b] : Conflict(w, v))
    BY <2>1
  <2> QED
    BY <2>3, <2>4
<1>4. /\ AboutStatus(a) = {} => saved' = saved
      /\ \A w \in AboutStatus(a) : saved' = ApplyWrite(saved, w)
  BY AfterTransaction DEF LedgerSound, CommitPending
<1>5. saved' \in [Gens -> {"active", "inactive", None}]
  <2>1. CASE AboutStatus(a) = {}
    BY <1>4, <2>1 DEF LedgerSound, LedgerTypes
  <2>2. CASE AboutStatus(a) # {}
    <3>1. PICK w \in AboutStatus(a) : TRUE
      BY <2>2
    <3>2. w \in Write
      BY <3>1 DEF AboutStatus, LedgerSound, LedgerTypes
    <3> QED
      BY <1>4, <3>1, <3>2, Applied DEF LedgerSound
  <2> QED
    BY <2>1, <2>2
<1> QED
  BY <1>1, <1>2, <1>3, <1>4, <1>5

(* What a commit makes of the rows, by the statement it has.               *)
LEMMA CommitRows ==
  ASSUME LedgerSound, NEW a \in Actors, CommitPending(a), ~diverged'
  PROVE  /\ (AboutStatus(a) = {} \/ WroteStatus(a)) => Saved' = Saved
         /\ \A w \in pend[a] : w.kind = "remove" => Saved' = {}
         /\ \A w \in pend[a] : w.kind = "replace" =>
              /\ Saved # {} /\ Saved \subseteq w.gens
              /\ Saved' = {w.new} /\ saved'[w.new] = w.value
         /\ \A w \in StatusWrites(a) :
              /\ w.gens \cap Saved # {}
              /\ \A g \in Saved : saved'[g] = IF g \in w.gens THEN w.value ELSE saved[g]
<1> USE CommitFacts
<1>1. CASE AboutStatus(a) = {}
  <2>1. Saved' = Saved
    BY <1>1 DEF Saved
  <2> QED
    BY <1>1, <2>1 DEF AboutStatus, StatusWrites
<1>2. CASE AboutStatus(a) # {}
  <2>1. PICK w \in AboutStatus(a) : TRUE
    BY <1>2
  <2>2. /\ w \in pend[a] /\ w \in Write /\ w.kind # "lastRun"
        /\ \A v \in pend[a] : v.kind # "lastRun" => v = w
    BY <2>1 DEF AboutStatus, LedgerSound, LedgerTypes
  <2>3. w.kind \in {"status", "remove", "replace"}
    BY <2>2, WriteFields
  <2>4. /\ w.kind = "status" =>
              /\ Saved' = Saved
              /\ \A g \in Saved : saved'[g] = IF g \in w.gens THEN w.value ELSE saved[g]
        /\ w.kind = "remove" => Saved' = Saved \ w.gens
        /\ w.kind = "replace" => Saved' = (Saved \ w.gens) \cup {w.new} /\ saved'[w.new] = w.value
    BY <2>1, <2>2, Applied DEF LedgerSound
  <2>5. CASE w.kind = "status"
    <3>1. w.gens \cap Saved # {}
      BY <2>2, <2>5 DEF Misses
    <3> QED
      BY <1>2, <2>2, <2>4, <2>5, <3>1 DEF StatusWrites
  <2>6. CASE w.kind = "remove"
    <3>1. Saved \subseteq w.gens
      BY <2>2, <2>6 DEF KeysOk
    <3>2. Saved' = {}
      BY <2>4, <2>6, <3>1
    <3> QED
      BY <1>2, <2>2, <2>6, <3>2 DEF StatusWrites, WroteStatus
  <2>7. CASE w.kind = "replace"
    <3>1. Saved # {} /\ Saved \subseteq w.gens
      BY <2>2, <2>7 DEF KeysOk, Misses
    <3>2. Saved' = {w.new} /\ saved'[w.new] = w.value
      BY <2>4, <2>7, <3>1
    <3> QED
      BY <1>2, <2>2, <2>7, <3>1, <3>2 DEF StatusWrites, WroteStatus
  <2> QED
    BY <2>3, <2>5, <2>6, <2>7
<1> QED
  BY <1>1, <1>2

(* The three kinds of transactions.                                        *)
LEMMA CommitKinds ==
  ASSUME LedgerSound, NEW a \in Actors
  PROVE  \/ (AboutStatus(a) = {} \/ WroteStatus(a)) /\ Tasks(a) = {}
         \/ \E w \in pend[a] :
              w.kind \in {"remove", "replace"} /\ Tasks(a) = {w} /\ ~WroteStatus(a)
<1>1. \A w, v \in pend[a] : w.kind # "lastRun" /\ v.kind # "lastRun" => w = v
  BY DEF LedgerSound, LedgerTypes, AboutStatus
<1>2. CASE Tasks(a) = {}
  <2>1. \A w \in pend[a] : w.kind \in {"status", "lastRun"}
    BY <1>2, WriteFields DEF Tasks, Structural, LedgerSound, LedgerTypes
  <2> QED
    BY <1>2, <2>1 DEF AboutStatus, WroteStatus
<1>3. CASE Tasks(a) # {}
  <2>1. PICK w \in pend[a] : w.kind \in {"remove", "replace"}
    BY <1>3 DEF Tasks, Structural
  <2>2. Tasks(a) = {w}
    BY <1>1, <2>1 DEF Tasks, Structural
  <2> QED
    BY <1>1, <2>1, <2>2 DEF WroteStatus
<1> QED
  BY <1>2, <1>3

LEMMA OneRow ==
  ASSUME OneGeneration, NEW g \in Saved, NEW h \in Saved
  PROVE  g = h
BY DEF OneGeneration, TreeCurrent, TreeBehind, Removed
-------------------------------------------------------------------------------
(* A commit hands its changes of the tree to the flush of the request.     *)
Handed(a) ==
  /\ flushing' = [r \in Requests |-> IF r = a THEN Tasks(a) ELSE flushing[r]]
  /\ a \in Requests => flushing[a] = {}
  /\ a \notin Requests => Tasks(a) = {}

LEMMA CommitTypes ==
  ASSUME LedgerSound, NEW a \in Actors, CommitPending(a), ~diverged', Handed(a)
  PROVE  LedgerTypes'
<1>1. \A b \in Actors : \A w, v \in AboutStatus(b)' : w = v
  BY CommitFacts DEF LedgerSound, LedgerTypes, AboutStatus
<1>2. Tasks(a) = {} \/ \E w \in pend[a] : Tasks(a) = {w}
  BY CommitKinds
<1>3. flushing' \in [Requests -> SUBSET Write]
  BY <1>2 DEF Handed, LedgerSound, LedgerTypes, Tasks
<1>4. \A r \in Requests : \A w \in flushing'[r] : w.kind \in Structural /\ flushing'[r] = {w}
  BY <1>2 DEF Handed, LedgerSound, LedgerTypes, Tasks
<1> QED
  BY <1>1, <1>3, <1>4, CommitFacts DEF LedgerTypes

LEMMA CommitFresh ==
  ASSUME LedgerSound, NEW a \in Actors, CommitPending(a), ~diverged', Handed(a), tree' = tree
  PROVE  FreshRows'
<1>1. \A b \in Actors : \A v \in pend'[b] : v \in pend[b] /\ b # a
  BY CommitFacts
<1>2. \A h \in Saved' : h \in Saved \/ \E w \in pend[a] : w.kind = "replace" /\ h = w.new
  BY CommitKinds, CommitRows
<1>3. ASSUME NEW b \in Actors, NEW v \in pend'[b], v.kind = "replace"
      PROVE  /\ v.new \notin Saved' \cup ToSet(tree')
             /\ \A c \in Actors : \A u \in pend'[c] :
                  /\ v.new \notin u.gens
                  /\ c # b /\ u.kind = "replace" => u.new # v.new
  <2>1. v.new \notin Saved'
    BY <1>1, <1>2, <1>3 DEF LedgerSound, FreshRows
  <2> QED
    BY <1>1, <1>3, <2>1 DEF LedgerSound, FreshRows
<1>4. ASSUME NEW b \in Actors, NEW v \in pend'[b], NEW r \in Requests, NEW u \in flushing'[r],
             u.kind = "replace"
      PROVE  u.new \notin v.gens /\ (v.kind = "replace" => u.new # v.new)
  <2>1. v \in pend[b] /\ b # a
    BY <1>1
  <2>2. CASE r = a
    <3>1. u \in pend[a]
      BY <1>4, <2>2 DEF Handed, Tasks
    <3> QED
      BY <1>4, <2>1, <3>1 DEF LedgerSound, FreshRows
  <2>3. CASE r # a
    <3>1. u \in flushing[r]
      BY <1>4, <2>3 DEF Handed
    <3> QED
      BY <1>4, <2>1, <3>1 DEF LedgerSound, FreshRows
  <2> QED
    BY <2>2, <2>3
<1> QED
  BY <1>3, <1>4 DEF FreshRows

LEMMA CommitGeneration ==
  ASSUME LedgerSound, NEW a \in Actors, CommitPending(a), ~diverged', Handed(a), tree' = tree
  PROVE  OneGeneration'
<1>1. CASE (AboutStatus(a) = {} \/ WroteStatus(a)) /\ Tasks(a) = {}
  <2>1. Saved' = Saved
    BY <1>1, CommitRows
  <2>2. flushing' = flushing
    BY <1>1 DEF Handed, LedgerSound, LedgerTypes
  <2> QED
    BY <2>1, <2>2 DEF LedgerSound, OneGeneration, TreeCurrent, TreeBehind, Removed, NothingFlushing
<1>2. ASSUME NEW w \in pend[a], w.kind \in {"remove", "replace"}, Tasks(a) = {w}
      PROVE  OneGeneration'
  <2>1. a \in Requests /\ flushing[a] = {} /\ flushing'[a] = {w}
    BY <1>2 DEF Handed
  <2>2. \A r \in Requests \ {a} : flushing'[r] = flushing[r]
    BY DEF Handed
  <2>3. ~NothingFlushing'
    BY <2>1 DEF NothingFlushing
  <2>4. ~TreeBehind \/ ~(Saved \subseteq w.gens)
    BY DEF TreeBehind, LedgerSound, FreshRows
  <2>5. CASE w.kind = "remove"
    <3>1. Saved' = {} /\ Saved \subseteq w.gens
      BY <1>2, <2>5, CommitRows, CommitFacts DEF KeysOk
    <3>2. TreeCurrent \/ Removed
      BY <2>4, <3>1 DEF LedgerSound, OneGeneration
    <3>3. \A r \in Requests : \A v \in flushing'[r] : v.kind = "remove"
      BY <2>1, <2>2, <2>5, <3>2 DEF TreeCurrent, Removed, NothingFlushing
    <3>4. tree = <<>> \/ \E g \in Gens : tree = <<g>>
      BY TreeInGens DEF LedgerSound
    <3>5. Removed'
      BY <2>3, <3>1, <3>3, <3>4 DEF Removed
    <3> QED
      BY <3>5 DEF OneGeneration
  <2>6. CASE w.kind = "replace"
    <3>1. Saved # {} /\ Saved \subseteq w.gens /\ Saved' = {w.new}
      BY <1>2, <2>6, CommitRows
    <3>2. TreeCurrent
      BY <2>4, <3>1 DEF LedgerSound, OneGeneration, Removed
    <3>3. PICK g \in Gens : tree = <<g>> /\ Saved = {g}
      BY <3>2 DEF TreeCurrent
    <3>4. g \in w.gens /\ g # w.new
      BY <1>2, <2>6, <3>1, <3>3 DEF LedgerSound, FreshRows
    <3>5. \A s \in Requests \ {a} : flushing'[s] = {}
      BY <2>2, <3>2 DEF TreeCurrent, NothingFlushing
    <3>6. w \in flushing'[a]
      BY <2>1
    <3>7. TreeBehind'
      BY <2>1, <2>6, <3>1, <3>3, <3>4, <3>5, <3>6 DEF TreeBehind
    <3> QED
      BY <3>7 DEF OneGeneration
  <2> QED
    BY <1>2, <2>5, <2>6
<1> QED
  BY <1>1, <1>2, CommitKinds

(* A statement that is bound to be refused or to miss its rows stays so.   *)
LEMMA CommitDoomed ==
  ASSUME LedgerSound, NEW a \in Actors, CommitPending(a), ~diverged', GoingToDiverge
  PROVE  GoingToDiverge'
<1>1. \A b \in Actors \ {a} : StatusWrites(b)' = StatusWrites(b) /\ WroteStatus(b)' = WroteStatus(b)
  BY CommitFacts DEF StatusWrites, WroteStatus
<1>2. \A h \in Saved' : h \in Saved \/ \E w \in pend[a] : w.kind = "replace" /\ h = w.new
  BY CommitKinds, CommitRows
<1>3. \A b \in Actors : Doomed(b) => b # a
  BY CommitFacts, CommitRows DEF Doomed
<1>4. ASSUME NEW b \in Actors, Doomed(b) PROVE GoingToDiverge'
  <2>1. b # a
    BY <1>3, <1>4
  <2>2. PICK v \in StatusWrites(b) : stale[b] \/ v.gens \cap Saved = {}
    BY <1>4 DEF Doomed
  <2>3. v \in pend[b]
    BY <2>2 DEF StatusWrites
  <2>4. stale[b] => stale'[b]
    BY <2>1, CommitFacts
  <2>5. v.gens \cap Saved = {} => v.gens \cap Saved' = {}
    BY <1>2, <2>3 DEF LedgerSound, FreshRows
  <2>6. Doomed(b)'
    BY <1>1, <2>1, <2>2, <2>4, <2>5 DEF Doomed
  <2> QED
    BY <2>6 DEF GoingToDiverge
<1>5. ASSUME NEW b \in Actors, WroteStatus(a), b # a, WroteStatus(b) PROVE GoingToDiverge'
  <2>1. PICK w \in StatusWrites(a), v \in StatusWrites(b) : TRUE
    BY <1>5 DEF WroteStatus, StatusWrites
  <2>2. w.gens \cap Saved # {} /\ Saved' = Saved
    BY <1>5, <2>1, CommitRows
  <2>3. CASE v.gens \cap Saved = {}
    <3>1. Doomed(b)'
      BY <1>1, <1>5, <2>1, <2>2, <2>3 DEF Doomed
    <3> QED
      BY <3>1 DEF GoingToDiverge
  <2>4. CASE v.gens \cap Saved # {}
    <3>1. w.gens \cap v.gens # {}
      BY <2>2, <2>4, OneRow DEF LedgerSound
    <3>2. w \in pend[a] /\ v \in pend[b] /\ Conflict(w, v)
      BY <2>1, <3>1 DEF StatusWrites, Conflict
    <3>3. stale'[b]
      BY <1>5, <3>2, CommitFacts
    <3>4. Doomed(b)'
      BY <1>1, <1>5, <2>1, <3>3 DEF Doomed
    <3> QED
      BY <3>4 DEF GoingToDiverge
  <2> QED
    BY <2>3, <2>4
<1>6. ASSUME NEW b \in Actors, NEW c \in Actors, b # c, WroteStatus(b), WroteStatus(c)
      PROVE  GoingToDiverge'
  <2>1. CASE b = a \/ c = a
    BY <1>5, <1>6, <2>1
  <2>2. CASE b # a /\ c # a
    BY <1>1, <1>6, <2>2 DEF GoingToDiverge
  <2> QED
    BY <2>1, <2>2
<1> QED
  BY <1>4, <1>6 DEF GoingToDiverge
-------------------------------------------------------------------------------
(* A commit that settles: the rows have the status that stands, or one     *)
(* transaction is still going to write it.                                 *)
LEMMA CommitSettled ==
  ASSUME LedgerSound, NEW a \in Actors, CommitPending(a), ~diverged', Standing' = Standing,
         Settled
  PROVE  Settled'
<1>1. \A b \in Actors : StatusWrites(b)' \subseteq StatusWrites(b)
  BY CommitFacts DEF StatusWrites
<1>2. \A b \in Actors : \A v \in StatusWrites(b)' : v.value = Standing'
  BY <1>1 DEF Settled
<1>3. SUFFICES ASSUME \A b \in Actors : ~WroteStatus(b)'
               PROVE  /\ \A g \in Saved' : saved'[g] = Standing
                      /\ \A b \in Actors : \A v \in pend'[b] :
                           v.kind = "replace" /\ ~stale'[b] /\ Saved' # {} /\ Saved' \subseteq v.gens
                             => v.value = Standing
  BY <1>2 DEF Settled
<1>4. \A b \in Actors \ {a} : ~WroteStatus(b)
  BY <1>3, CommitFacts DEF WroteStatus
<1>5. \A b \in Actors : \A v \in pend'[b] : b # a /\ v \in pend[b] /\ (stale[b] => stale'[b])
  BY CommitFacts
<1>6. CASE WroteStatus(a)
  <2>1. PICK w \in StatusWrites(a) : TRUE
    BY <1>6 DEF WroteStatus, StatusWrites
  <2>2. /\ w.value = Standing /\ w.gens \cap Saved # {} /\ Saved' = Saved
        /\ \A g \in Saved : saved'[g] = IF g \in w.gens THEN w.value ELSE saved[g]
    BY <1>6, <2>1, CommitRows DEF Settled
  <2>3. \A g \in Saved' : saved'[g] = Standing
    BY <2>2, OneRow DEF LedgerSound
  <2>4. ASSUME NEW b \in Actors, NEW v \in pend'[b], v.kind = "replace", Saved' \subseteq v.gens
        PROVE  stale'[b]
    <3>1. w \in pend[a] /\ v \in pend[b] /\ b # a /\ Conflict(w, v)
      BY <1>5, <2>1, <2>2, <2>4 DEF StatusWrites, Conflict, Structural
    <3> QED
      BY <3>1, CommitFacts
  <2> QED
    BY <2>3, <2>4
<1>7. CASE ~WroteStatus(a) /\ AboutStatus(a) = {}
  <2>1. saved' = saved /\ Saved' = Saved
    BY <1>7, CommitFacts DEF Saved
  <2>2. \A b \in Actors : ~WroteStatus(b)
    BY <1>4, <1>7
  <2> QED
    BY <1>5, <2>1, <2>2 DEF Settled
<1>8. ASSUME ~WroteStatus(a), NEW w \in pend[a], w.kind = "remove"
      PROVE  Saved' = {}
  BY <1>8, CommitRows
<1>9. ASSUME ~WroteStatus(a), NEW w \in pend[a], w.kind = "replace"
      PROVE  /\ \A g \in Saved' : saved'[g] = Standing
             /\ \A b \in Actors : \A v \in pend'[b] : ~(Saved' \subseteq v.gens)
  <2>1. /\ Saved # {} /\ Saved \subseteq w.gens
        /\ Saved' = {w.new} /\ saved'[w.new] = w.value
    BY <1>9, CommitRows
  <2>2. \A b \in Actors : ~WroteStatus(b)
    BY <1>4, <1>9
  <2>3. w.value = Standing
    BY <1>9, <2>1, <2>2, CommitFacts DEF Settled
  <2> QED
    BY <1>5, <1>9, <2>1, <2>3 DEF LedgerSound, FreshRows
<1> QED
  BY <1>6, <1>7, <1>8, <1>9, CommitKinds

LEMMA Committed ==
  ASSUME LedgerSound, NEW a \in Actors, CommitPending(a), ~diverged', Handed(a),
         Standing' = Standing, tree' = tree
  PROVE  LedgerSound'
<1>1. LedgerTypes' /\ OneGeneration' /\ FreshRows'
  BY CommitTypes, CommitGeneration, CommitFresh
<1>2. GoingToDiverge' \/ Settled'
  BY CommitDoomed, CommitSettled DEF LedgerSound
<1> QED
  BY <1>1, <1>2 DEF LedgerSound

(* A flush leaves the new rows new as long as it adds none of them.        *)
LEMMA FlushFresh ==
  ASSUME LedgerSound, NEW r \in Requests, flushing' = [flushing EXCEPT ![r] = {}],
         UNCHANGED <<saved, pend, stale>>,
         \A a \in Actors : \A w \in pend[a] : w.kind = "replace" => w.new \notin ToSet(tree)'
  PROVE  FreshRows'
<1>1. \A s \in Requests : flushing'[s] \subseteq flushing[s]
  BY DEF LedgerSound, LedgerTypes
<1>2. ASSUME NEW a \in Actors, NEW w \in pend'[a], w.kind = "replace"
      PROVE  /\ w.new \notin (Saved \cup ToSet(tree))'
             /\ \A b \in Actors : \A v \in pend'[b] :
                  /\ w.new \notin v.gens
                  /\ b # a /\ v.kind = "replace" => v.new # w.new
  BY <1>2 DEF LedgerSound, FreshRows, Saved
<1>3. ASSUME NEW a \in Actors, NEW w \in pend'[a], NEW s \in Requests, NEW v \in flushing'[s],
             v.kind = "replace"
      PROVE  v.new \notin w.gens /\ (w.kind = "replace" => v.new # w.new)
  BY <1>1, <1>3 DEF LedgerSound, FreshRows
<1> QED
  BY <1>2, <1>3 DEF FreshRows

(* A flush: the tree has the rows of the table again, or none.             *)
LEMMA Flushed ==
  ASSUME LedgerSound, NEW r \in Requests, NEW w \in flushing[r],
         tree' = ApplyTask(tree, w), flushing' = [flushing EXCEPT ![r] = {}],
         Standing' = Standing, UNCHANGED <<saved, pend, stale>>
  PROVE  LedgerSound'
<1>1. /\ flushing' \in [Requests -> SUBSET Write]
      /\ flushing'[r] = {} /\ \A s \in Requests \ {r} : flushing'[s] = flushing[s]
  BY DEF LedgerSound, LedgerTypes
<1>2. LedgerTypes'
  BY <1>1 DEF LedgerSound, LedgerTypes, AboutStatus
<1>3. Saved' = Saved /\ flushing[r] = {w} /\ ~TreeCurrent
  BY DEF Saved, LedgerSound, LedgerTypes, TreeCurrent, NothingFlushing
<1>4. ASSUME Removed PROVE OneGeneration' /\ FreshRows'
  <2>1. tree' = <<>>
    BY <1>4 DEF Removed, ApplyTask
  <2>2. Removed'
    BY <1>1, <1>3, <1>4, <2>1 DEF Removed
  <2>3. ToSet(tree') = {}
    BY <2>1 DEF ToSet
  <2>4. FreshRows'
    BY <1>2, <2>3, FlushFresh
  <2> QED
    BY <2>2, <2>4 DEF OneGeneration
<1>5. ASSUME TreeBehind PROVE OneGeneration' /\ FreshRows'
  <2>1. PICK s \in Requests, g \in Gens : \E v \in flushing[s] :
          /\ v.kind = "replace"
          /\ tree = <<g>> /\ g \in v.gens /\ g # v.new /\ Saved = {v.new}
          /\ \A q \in Requests \ {s} : flushing[q] = {}
    BY <1>5 DEF TreeBehind
  <2>2. s = r /\ w.kind = "replace" /\ tree = <<g>> /\ g \in w.gens /\ Saved = {w.new}
    BY <1>3, <2>1
  <2>3. ToSet(tree) \subseteq w.gens /\ tree # <<>>
    BY <2>2 DEF ToSet
  <2>4. tree' = <<w.new>>
    BY <2>2, <2>3 DEF ApplyTask
  <2>5. w.new \in Gens
    BY <2>2, WriteFields DEF LedgerSound, LedgerTypes
  <2>6. NothingFlushing'
    BY <1>1, <2>1, <2>2 DEF NothingFlushing
  <2>7. TreeCurrent'
    BY <1>3, <2>2, <2>4, <2>5, <2>6 DEF TreeCurrent
  <2>8. ToSet(tree') = {w.new}
    BY <2>4 DEF ToSet
  <2>9. \A b \in Actors : \A v \in pend[b] : v.kind = "replace" => v.new # w.new
    BY <2>2 DEF LedgerSound, FreshRows
  <2>10. FreshRows'
    BY <1>2, <2>8, <2>9, FlushFresh
  <2> QED
    BY <2>7, <2>10 DEF OneGeneration
<1>6. GoingToDiverge' = GoingToDiverge
  BY <1>3 DEF GoingToDiverge, Doomed, WroteStatus, StatusWrites
<1>7. Settled' = Settled
  BY <1>3 DEF Settled, WroteStatus, StatusWrites
<1>8. OneGeneration' /\ FreshRows'
  BY <1>3, <1>4, <1>5 DEF LedgerSound, OneGeneration
<1> QED
  BY <1>2, <1>6, <1>7, <1>8 DEF LedgerSound
-------------------------------------------------------------------------------
(* The status that stands: what changes it, and what does not.             *)
LEMMA StandingKept ==
  ASSUME UNCHANGED status, \A r \in Requests : (pc'[r] = "invoke") = (pc[r] = "invoke")
  PROVE  Standing' = Standing
BY DEF Standing

LEMMA StandingIsStatus ==
  ASSUME LifeInv, monitor = None
  PROVE  /\ \A r \in Requests : pc[r] # "invoke"
         /\ Standing = status
BY MonitorFree DEF Standing, Holders

(* The place of a request or of a thread, and its open statements.         *)
LEMMA RequestShaped ==
  ASSUME ShapeInv, LifeInv, NEW r \in Requests, NEW p \in RequestPlaces,
         pc' = [pc EXCEPT ![r] = p],
         \A a \in Actors \ {r} : pend'[a] = pend[a],
         \A s \in Requests \ {r} : flushing'[s] = flushing[s],
         pend'[r] # {} => p \in {"interrupt", "commit"},
         (flushing'[r] = {}) = (p # "flush"),
         \A e \in Executors : place[e] = "close" => place'[e] = "close"
  PROVE  ShapeInv'
<1>1. pc'[r] = p /\ \A s \in Requests \ {r} : pc'[s] = pc[s]
  BY DEF LifeInv, ThreadTypes
<1>2. RequestShape'
  BY <1>1 DEF ShapeInv, RequestShape, Actors
<1>3. \A e \in Executors : e # r
  BY HarvesterAssumption
<1>4. ThreadShape'
  BY <1>3 DEF ShapeInv, ThreadShape, Actors
<1> QED
  BY <1>2, <1>4 DEF ShapeInv

LEMMA ThreadShaped ==
  ASSUME ShapeInv, LifeInv, NEW e \in Executors, NEW p \in ThreadPlaces,
         place' = [place EXCEPT ![e] = p],
         \A a \in Actors \ {e} : pend'[a] = pend[a],
         \A w \in pend'[e] : w.kind = "lastRun" \/ (w.kind = "status" /\ p = "close"),
         UNCHANGED <<pc, flushing>>
  PROVE  ShapeInv'
<1>1. place'[e] = p /\ \A d \in Executors \ {e} : place'[d] = place[d]
  BY DEF LifeInv, ThreadTypes
<1>2. ThreadShape'
  BY <1>1 DEF ShapeInv, ThreadShape, Actors
<1>3. \A s \in Requests : s # e
  BY HarvesterAssumption
<1>4. RequestShape'
  BY <1>3 DEF ShapeInv, RequestShape, Actors
<1> QED
  BY <1>2, <1>4 DEF ShapeInv

(* What an actor has executed before its next statement.                   *)
LEMMA NothingOpen ==
  ASSUME ShapeInv, NEW r \in Requests, pc[r] \notin {"interrupt", "commit"}
  PROVE  pend[r] = {} /\ AboutStatus(r) = {}
BY DEF ShapeInv, RequestShape, AboutStatus

LEMMA OnlyDate ==
  ASSUME ShapeInv, NEW e \in Executors
  PROVE  /\ Tasks(e) = {}
         /\ place[e] # "close" => /\ \A w \in pend[e] : w.kind = "lastRun"
                                  /\ AboutStatus(e) = {} /\ ~WroteStatus(e)
BY DEF ShapeInv, ThreadShape, Tasks, Structural, AboutStatus, WroteStatus

LEMMA Executed ==
  ASSUME LedgerSound, NEW a \in Actors, NEW w, Execute(a, w)
  PROVE  pend'[a] = pend[a] \cup {w} /\ \A b \in Actors \ {a} : pend'[b] = pend[b]
BY DEF LedgerSound, LedgerTypes, Execute

LEMMA RemovedStatements ==
  ASSUME LedgerSound, NEW a \in Actors, DropPending(a)
  PROVE  pend'[a] = {} /\ \A b \in Actors \ {a} : pend'[b] = pend[b]
BY DEF LedgerSound, LedgerTypes, DropPending
-------------------------------------------------------------------------------
(* A request that moves on without a statement.                            *)
LEMMA RequestQuiet ==
  ASSUME LedgerSound, ShapeInv, LifeInv, NEW r \in Requests, NEW p \in RequestPlaces \ {"flush"},
         pc[r] # "flush", pc' = [pc EXCEPT ![r] = p],
         p = "commit" \/ pc[r] \notin {"interrupt", "commit"},
         Standing' = Standing, UNCHANGED <<ledgerVars, place>>
  PROVE  LedgerSound' /\ ShapeInv'
<1>1. LedgerSound'
  BY LedgerStutter
<1>2. pend[r] # {} => p = "commit"
  BY NothingOpen
<1>3. flushing[r] = {}
  BY DEF ShapeInv, RequestShape
<1>4. ShapeInv'
  BY <1>2, <1>3, RequestShaped DEF ledgerVars
<1> QED
  BY <1>1, <1>4

LEMMA SavedMoves ==
  ASSUME LedgerSound, ShapeInv, LifeInv, NEW r \in Requests,
         \/ Lookup(r) \/ EnterManager(r) \/ Refuse(r) \/ NoExecutor(r) \/ RunActive(r)
         \/ Interrupt(r) \/ Destroy(r) \/ DestroyFails(r) \/ DestroyDone(r)
         \/ \E o \in Ops : Call(r, o)
  PROVE  LedgerSound' /\ ShapeInv'
<1>1. \E p \in RequestPlaces \ {"flush", "invoke"} :
        /\ pc' = [pc EXCEPT ![r] = p]
        /\ p = "commit" \/ pc[r] \notin {"interrupt", "commit"}
  BY DEF Lookup, EnterManager, Refuse, NoExecutor, RunActive, Interrupt, Destroy, DestroyFails,
         DestroyDone, Call, Goto, Leave, Enter, RequestPlaces
<1>2. pc[r] \notin {"flush", "invoke"} /\ UNCHANGED <<ledgerVars, place, status>>
  BY DEF Lookup, EnterManager, Refuse, NoExecutor, RunActive, Interrupt, Destroy, DestroyFails,
         DestroyDone, Call, Goto, Leave, Enter, threadVars, fieldVars, dbVars, storedVars,
         ledgerVars
<1>3. Standing' = Standing
  BY <1>1, <1>2, StandingKept DEF LifeInv, ThreadTypes
<1> QED
  BY <1>1, <1>2, <1>3, RequestQuiet

(* invoke makes the node active, and saves nothing of it.                  *)
LEMMA SavedInvoke ==
  ASSUME LedgerSound, ShapeInv, LifeInv, NEW r \in Requests, Invoke(r) \/ InvokeEnds(r)
  PROVE  LedgerSound' /\ ShapeInv'
<1>1. CASE Invoke(r)
  <2>1. /\ pc[r] = "monitor" /\ monitor = None /\ status = "inactive"
        /\ pc' = [pc EXCEPT ![r] = "invoke"] /\ UNCHANGED <<ledgerVars, place>>
    BY <1>1 DEF Invoke, Enter, Goto, threadVars, dbVars, storedVars, ledgerVars
  <2>2. Standing = "inactive"
    BY <2>1, StandingIsStatus
  <2>3. Standing' = "inactive"
    BY <2>1 DEF Standing, LifeInv, ThreadTypes
  <2> QED
    BY <2>1, <2>2, <2>3, RequestQuiet DEF RequestPlaces
<1>2. CASE InvokeEnds(r)
  <2>1. /\ pc[r] = "invoke" /\ status' = "inactive"
        /\ pc' = [pc EXCEPT ![r] = "idle"] /\ UNCHANGED <<ledgerVars, place>>
    BY <1>2 DEF InvokeEnds, Leave, Goto, threadVars, dbVars, storedVars, ledgerVars
  <2>2. Standing = "inactive" /\ Standing' = "inactive"
    BY <2>1 DEF Standing
  <2> QED
    BY <2>1, <2>2, RequestQuiet DEF RequestPlaces
<1> QED
  BY <1>1, <1>2

(* start and stop of a request.                                            *)
LEMMA SavedStartStop ==
  ASSUME LedgerSound, ShapeInv, LifeInv, NEW r \in Requests,
         Start(r) \/ RunInactive(r) \/ Stop(r)
  PROVE  LedgerSound' /\ ShapeInv'
<1>1. /\ pc[r] = "monitor" /\ monitor = None
      /\ \E p \in {"interrupt", "commit"} : pc' = [pc EXCEPT ![r] = p]
      /\ UNCHANGED <<saved, tree, stale, flushing>>
  BY DEF Start, RunInactive, Stop, Enter, Goto, storedVars
<1>2. \E s \in {"active", "inactive"} : status' = s /\ Execute(r, SetStatus(s))
  BY DEF Start, RunInactive, Stop, Started
<1>3. \A e \in Executors : place[e] = "close" => place'[e] = "close"
  <2>1. CASE UNCHANGED place
    BY <2>1
  <2>2. CASE NewExecutor
    BY <2>2 DEF NewExecutor, LifeInv, ThreadTypes
  <2> QED
    BY <2>1, <2>2 DEF Start, RunInactive, Stop, Started
<1>4. Standing' = status'
  BY <1>1, StandingIsStatus DEF Standing, LifeInv, ThreadTypes
<1>5. pend[r] = {} /\ AboutStatus(r) = {} /\ r \in Actors
  BY <1>1, NothingOpen DEF Actors
<1>6. LedgerSound'
  BY <1>1, <1>2, <1>4, <1>5, ExecuteStatus
<1>7. \A a \in Actors \ {r} : pend'[a] = pend[a]
  BY <1>2, <1>5, Executed
<1>8. flushing[r] = {}
  BY <1>1 DEF ShapeInv, RequestShape
<1>9. ShapeInv'
  BY <1>1, <1>3, <1>7, <1>8, RequestShaped DEF RequestPlaces
<1> QED
  BY <1>6, <1>9

(* update replaces the rows.                                               *)
LEMMA SavedUpdate ==
  ASSUME LedgerSound, ShapeInv, LifeInv, NEW r \in Requests, Update(r)
  PROVE  LedgerSound' /\ ShapeInv'
<1> DEFINE new == CHOOSE g \in Unused : TRUE
           w == [kind |-> "replace", gens |-> ToSet(tree), new |-> new, value |-> status]
<1>1. /\ pc[r] = "monitor" /\ monitor = None /\ pc' = [pc EXCEPT ![r] = "commit"]
      /\ Execute(r, w) /\ UNCHANGED <<status, saved, tree, stale, flushing>>
  BY DEF Update, Enter, Goto, storedVars
<1>2. new \in Unused
  BY DEF Update
<1>3. ToSet(tree) \subseteq Gens
  BY TreeInGens DEF LedgerSound, ToSet
<1>4. /\ w \in Write /\ w.kind = "replace" /\ w.gens = ToSet(tree) /\ w.new = new
      /\ w.value = status
  BY <1>2, <1>3 DEF Write, Unused, LifeInv, ThreadTypes
<1> HIDE DEF new, w
<1>5. Standing = status /\ Standing' = Standing
  BY <1>1, StandingIsStatus DEF Standing, LifeInv, ThreadTypes
<1>6. pend[r] = {} /\ AboutStatus(r) = {} /\ r \in Actors
  BY <1>1, NothingOpen DEF Actors
<1>7. LedgerSound'
  BY <1>1, <1>2, <1>4, <1>5, <1>6, ExecuteUpdate
<1>8. \A e \in Executors : place[e] = "close" => place'[e] = "close"
  <2>1. CASE UNCHANGED place
    BY <2>1
  <2>2. CASE NewExecutor
    BY <2>2 DEF NewExecutor, LifeInv, ThreadTypes
  <2> QED
    BY <2>1, <2>2 DEF Update, threadVars
<1>9. \A a \in Actors \ {r} : pend'[a] = pend[a]
  BY <1>1, <1>6, Executed
<1>10. flushing[r] = {}
  BY <1>1 DEF ShapeInv, RequestShape
<1>11. ShapeInv'
  BY <1>1, <1>8, <1>9, <1>10, RequestShaped DEF RequestPlaces
<1> QED
  BY <1>7, <1>11

(* remove takes the rows out.                                              *)
LEMMA SavedUnlist ==
  ASSUME LedgerSound, ShapeInv, LifeInv, NEW r \in Requests, Unlist(r)
  PROVE  LedgerSound' /\ ShapeInv'
<1> DEFINE w == [kind |-> "remove", gens |-> ToSet(tree)]
<1>1. /\ pc[r] = "unlist" /\ pc' = [pc EXCEPT ![r] = "commit"]
      /\ Execute(r, w) /\ UNCHANGED <<status, place, saved, tree, stale, flushing>>
  BY DEF Unlist, Goto, storedVars, threadVars, fieldVars
<1>2. ToSet(tree) \subseteq Gens
  BY TreeInGens DEF LedgerSound, ToSet
<1>3. w \in Write /\ w.kind = "remove" /\ w.gens \subseteq ToSet(tree)
  BY <1>2 DEF Write
<1> HIDE DEF w
<1>4. Standing' = Standing
  BY <1>1, StandingKept DEF LifeInv, ThreadTypes
<1>5. pend[r] = {} /\ AboutStatus(r) = {} /\ r \in Actors
  BY <1>1, NothingOpen DEF Actors
<1>6. LedgerSound'
  BY <1>1, <1>3, <1>4, <1>5, ExecuteOther
<1>7. \A a \in Actors \ {r} : pend'[a] = pend[a]
  BY <1>1, <1>5, Executed
<1>8. flushing[r] = {}
  BY <1>1 DEF ShapeInv, RequestShape
<1>9. ShapeInv'
  BY <1>1, <1>7, <1>8, RequestShaped DEF RequestPlaces
<1> QED
  BY <1>6, <1>9
-------------------------------------------------------------------------------
(* The end of a request.                                                   *)
LEMMA SavedEnds ==
  ASSUME LedgerSound, ShapeInv, LifeInv, ~diverged', NEW r \in Requests,
         Commit(r) \/ CommitRefused(r) \/ Flush(r)
  PROVE  LedgerSound' /\ ShapeInv'
<1>1. r \in Actors /\ r \notin Executors
  BY HarvesterAssumption DEF Actors
<1>2. CASE Commit(r)
  <2>1. /\ pc[r] = "commit" /\ CommitPending(r)
        /\ flushing' = [flushing EXCEPT ![r] = Tasks(r)]
        /\ UNCHANGED <<status, place, tree>>
    BY <1>2 DEF Commit, Tasks, threadVars, fieldVars
  <2>2. flushing[r] = {}
    BY <2>1 DEF ShapeInv, RequestShape
  <2>3. Handed(r)
    BY <2>1, <2>2 DEF Handed, LedgerSound, LedgerTypes
  <2>4. PICK p \in {"idle", "flush"} : /\ pc' = [pc EXCEPT ![r] = p]
                                      /\ (flushing'[r] = {}) = (p # "flush")
    BY <1>2 DEF Commit, Leave, Goto
  <2>5. Standing' = Standing
    BY <2>1, <2>4, StandingKept DEF LifeInv, ThreadTypes
  <2>6. LedgerSound'
    BY <1>1, <2>1, <2>3, <2>5, Committed
  <2>7. /\ pend'[r] = {} /\ \A a \in Actors \ {r} : pend'[a] = pend[a]
        /\ \A s \in Requests \ {r} : flushing'[s] = flushing[s]
    BY <1>1, <2>1, <2>3, CommitFacts DEF Handed
  <2>8. ShapeInv'
    BY <2>1, <2>4, <2>7, RequestShaped DEF RequestPlaces
  <2> QED
    BY <2>6, <2>8
<1>3. CASE CommitRefused(r)
  <2>1. /\ pc[r] = "commit" /\ DropPending(r) /\ pc' = [pc EXCEPT ![r] = "idle"]
        /\ ~WroteStatus(r) /\ UNCHANGED <<status, place, saved, tree, flushing>>
    BY <1>3 DEF CommitRefused, Leave, Goto, threadVars, fieldVars
  <2>2. Standing' = Standing
    BY <2>1, StandingKept DEF LifeInv, ThreadTypes
  <2>3. LedgerSound'
    BY <1>1, <2>1, <2>2, Dropped
  <2>4. pend'[r] = {} /\ \A a \in Actors \ {r} : pend'[a] = pend[a]
    BY <1>1, <2>1, RemovedStatements
  <2>5. flushing[r] = {}
    BY <2>1 DEF ShapeInv, RequestShape
  <2>6. ShapeInv'
    BY <2>1, <2>4, <2>5, RequestShaped DEF RequestPlaces
  <2> QED
    BY <2>3, <2>6
<1>4. CASE Flush(r)
  <2>1. /\ pc[r] = "flush" /\ pc' = [pc EXCEPT ![r] = "idle"]
        /\ flushing' = [flushing EXCEPT ![r] = {}]
        /\ UNCHANGED <<status, place, saved, pend, stale>>
    BY <1>4 DEF Flush, Leave, Goto, threadVars, fieldVars
  <2>2. PICK w \in flushing[r] : tree' = ApplyTask(tree, w)
    BY <1>4 DEF Flush
  <2>3. Standing' = Standing
    BY <2>1, StandingKept DEF LifeInv, ThreadTypes
  <2>4. LedgerSound'
    BY <2>1, <2>2, <2>3, Flushed
  <2>5. pend[r] = {}
    BY <2>1, NothingOpen
  <2>6. flushing'[r] = {} /\ \A s \in Requests \ {r} : flushing'[s] = flushing[s]
    BY <2>1 DEF LedgerSound, LedgerTypes
  <2>7. ShapeInv'
    BY <2>1, <2>5, <2>6, RequestShaped DEF RequestPlaces
  <2> QED
    BY <2>4, <2>7
<1> QED
  BY <1>2, <1>3, <1>4

(* The steps of a thread without a statement.                              *)
LEMMA SavedThreadMoves ==
  ASSUME LedgerSound, ShapeInv, LifeInv, NEW e \in Executors,
         \/ Wake(e) \/ Quit(e) \/ SetRunning(e) \/ HarvesterGone(e) \/ HarvestDone(e)
         \/ StopNothing(e)
  PROVE  LedgerSound' /\ ShapeInv'
<1>1. /\ place[e] # "close"
      /\ \E p \in ThreadPlaces : place' = [place EXCEPT ![e] = p]
      /\ UNCHANGED <<ledgerVars, pc, status>>
  BY DEF Wake, Quit, SetRunning, HarvesterGone, HarvestDone, StopNothing, Move, ThreadPlaces,
         requestVars, fieldVars, dbVars, storedVars, ledgerVars
<1>2. LedgerSound'
  BY <1>1, StandingKept, LedgerStutter
<1>3. \A w \in pend[e] : w.kind = "lastRun"
  BY <1>1, OnlyDate
<1>4. ShapeInv'
  BY <1>1, <1>3, ThreadShaped DEF ledgerVars
<1> QED
  BY <1>2, <1>4

(* The date of the run, and the stop of a thread by itself.                *)
LEMMA SavedThreadStatements ==
  ASSUME LedgerSound, ShapeInv, LifeInv, NEW e \in Executors, Harvest(e) \/ StopSelf(e)
  PROVE  LedgerSound' /\ ShapeInv'
<1>1. e \in Actors
  BY DEF Actors
<1>2. CASE Harvest(e)
  <2> DEFINE w == [kind |-> "lastRun", gens |-> Resolved]
  <2>1. /\ place[e] = "call" /\ place' = [place EXCEPT ![e] = "harvest"]
        /\ Execute(e, w) /\ UNCHANGED <<pc, status, saved, tree, stale, flushing>>
    BY <1>2 DEF Harvest, Move, requestVars, fieldVars, storedVars
  <2>2. Resolved \subseteq ToSet(tree) /\ Resolved \subseteq Gens
    BY TreeInGens DEF LedgerSound, Resolved, ToSet
  <2>3. w \in Write /\ w.kind = "lastRun" /\ w.gens \subseteq ToSet(tree)
    BY <2>2 DEF Write
  <2> HIDE DEF w
  <2>4. LedgerSound'
    BY <1>1, <2>1, <2>3, StandingKept, ExecuteOther
  <2>5. pend'[e] = pend[e] \cup {w} /\ \A a \in Actors \ {e} : pend'[a] = pend[a]
    BY <1>1, <2>1, Executed
  <2>6. \A v \in pend'[e] : v.kind = "lastRun"
    BY <2>1, <2>3, <2>5, OnlyDate
  <2>7. ShapeInv'
    BY <2>1, <2>5, <2>6, ThreadShaped DEF ThreadPlaces
  <2> QED
    BY <2>4, <2>7
<1>3. CASE StopSelf(e)
  <2> DEFINE w == SetStatus("inactive")
  <2>1. /\ place[e] = "stop" /\ place' = [place EXCEPT ![e] = "close"] /\ monitor = None
        /\ Execute(e, w) /\ status' = "inactive"
        /\ UNCHANGED <<pc, saved, tree, stale, flushing>>
    BY <1>3 DEF StopSelf, Move, requestVars, storedVars
  <2>2. Standing' = "inactive"
    BY <2>1 DEF Standing
  <2>3. AboutStatus(e) = {} /\ \A v \in pend[e] : v.kind = "lastRun"
    BY <2>1, OnlyDate
  <2>4. LedgerSound'
    BY <1>1, <2>1, <2>2, <2>3, ExecuteStatus
  <2>5. w.kind = "status"
    BY DEF SetStatus
  <2> HIDE DEF w
  <2>6. pend'[e] = pend[e] \cup {w} /\ \A a \in Actors \ {e} : pend'[a] = pend[a]
    BY <1>1, <2>1, Executed
  <2>7. ShapeInv'
    BY <2>1, <2>3, <2>5, <2>6, ThreadShaped DEF ThreadPlaces
  <2> QED
    BY <2>4, <2>7
<1> QED
  BY <1>2, <1>3

(* The commits of a thread, and its aborts.                                *)
LEMMA SavedThreadEnds ==
  ASSUME LedgerSound, ShapeInv, LifeInv, ~diverged', NEW e \in Executors,
         HarvestRecord(e) \/ Close(e) \/ HarvestThrows(e) \/ StopThrows(e) \/ CloseRefused(e)
  PROVE  LedgerSound' /\ ShapeInv'
<1>1. e \in Actors /\ e \notin Requests
  BY HarvesterAssumption DEF Actors
<1>2. place[e] \in ThreadPlaces /\ place = [place EXCEPT ![e] = place[e]]
  BY DEF LifeInv, ThreadTypes
<1>3. \E p \in ThreadPlaces : place' = [place EXCEPT ![e] = p]
  BY <1>2 DEF HarvestRecord, Close, HarvestThrows, StopThrows, CloseRefused, GiveUp, Move,
              threadVars, ThreadPlaces
<1>4. UNCHANGED <<pc, status, tree, flushing>>
  BY DEF HarvestRecord, Close, HarvestThrows, StopThrows, CloseRefused, requestVars, fieldVars
<1>5. Standing' = Standing
  BY <1>4, StandingKept
<1>6. CASE HarvestRecord(e) \/ Close(e)
  <2>1. CommitPending(e)
    BY <1>6 DEF HarvestRecord, Close
  <2>2. Tasks(e) = {}
    BY OnlyDate
  <2>3. Handed(e)
    BY <1>1, <1>4, <2>2 DEF Handed, LedgerSound, LedgerTypes
  <2>4. LedgerSound'
    BY <1>1, <1>4, <1>5, <2>1, <2>3, Committed
  <2>5. pend'[e] = {} /\ \A a \in Actors \ {e} : pend'[a] = pend[a]
    BY <1>1, <2>1, CommitFacts
  <2>6. ShapeInv'
    BY <1>3, <1>4, <2>5, ThreadShaped
  <2> QED
    BY <2>4, <2>6
<1>7. CASE HarvestThrows(e) \/ StopThrows(e) \/ CloseRefused(e)
  <2>1. DropPending(e) /\ UNCHANGED saved
    BY <1>7 DEF HarvestThrows, StopThrows, CloseRefused, GiveUp
  <2>2. ~WroteStatus(e)
    <3>1. CASE CloseRefused(e)
      BY <3>1 DEF CloseRefused
    <3>2. CASE HarvestThrows(e) \/ StopThrows(e)
      BY <3>2, OnlyDate DEF HarvestThrows, StopThrows
    <3> QED
      BY <1>7, <3>1, <3>2
  <2>3. LedgerSound'
    BY <1>1, <1>4, <1>5, <2>1, <2>2, Dropped
  <2>4. pend'[e] = {} /\ \A a \in Actors \ {e} : pend'[a] = pend[a]
    BY <1>1, <2>1, RemovedStatements
  <2>5. ShapeInv'
    BY <1>3, <1>4, <2>4, ThreadShaped
  <2> QED
    BY <2>3, <2>5
<1> QED
  BY <1>6, <1>7
-------------------------------------------------------------------------------
(* A statement that has got lost stays lost.                               *)
LEMMA DivergedStays == [HarvesterNext]_vars => (diverged => diverged')
<1> SUFFICES ASSUME [HarvesterNext]_vars, diverged PROVE diverged'
  OBVIOUS
<1> USE DEF dbVars, storedVars
<1>1. ASSUME NEW r \in Requests, RequestStep(r) PROVE diverged'
  BY <1>1
  DEF RequestStep, Lookup, EnterManager, Refuse, Start, Stop, NoExecutor, RunInactive, RunActive,
      Interrupt, Update, Invoke, InvokeRecord, InvokeEnds, Destroy, DeleteRecord, DestroyFails,
      DestroyDone, Unlist, Commit, CommitPending, CommitRefused, Flush
<1>2. ASSUME NEW r \in Requests, NEW o \in Ops, Call(r, o) PROVE diverged'
  BY <1>2 DEF Call
<1>3. ASSUME NEW e \in Executors, ExecutorStep(e) PROVE diverged'
  BY <1>3
  DEF ExecutorStep, Wake, Quit, SetRunning, HarvesterGone, Harvest, HarvestRecord, CommitPending,
      HarvestDone, HarvestThrows, StopNothing, StopSelf, StopThrows, Close, CloseRefused
<1>4. CASE UNCHANGED vars
  BY <1>4 DEF vars
<1> QED
  BY <1>1, <1>2, <1>3, <1>4 DEF HarvesterNext

LEMMA SavedStutter ==
  ASSUME LedgerSound, ShapeInv, UNCHANGED <<ledgerVars, pc, place, status>>
  PROVE  LedgerSound' /\ ShapeInv'
<1>1. LedgerSound'
  BY StandingKept, LedgerStutter
<1>2. ShapeInv'
  BY DEF ShapeInv, RequestShape, ThreadShape, ledgerVars
<1> QED
  BY <1>1, <1>2

(* The strengthened invariant holds in every reachable state.              *)
THEOREM SavedInvariant == HarvesterSpec => []SavedInv
<1>1. LifeInv /\ SavedInv /\ [HarvesterNext]_vars => SavedInv'
  <2> SUFFICES ASSUME LifeInv, SavedInv, [HarvesterNext]_vars, ~diverged'
               PROVE  LedgerSound' /\ ShapeInv'
    BY DEF SavedInv
  <2>1. LedgerSound /\ ShapeInv
    BY DivergedStays DEF SavedInv
  <2>2. ASSUME NEW r \in Requests, RequestStep(r) PROVE LedgerSound' /\ ShapeInv'
    <3>1. CASE InvokeRecord(r) \/ DeleteRecord(r)
      <4>1. UNCHANGED <<ledgerVars, pc, place, status>>
        BY <3>1 DEF InvokeRecord, DeleteRecord, requestVars, threadVars, fieldVars, ledgerVars
      <4> QED
        BY <2>1, <4>1, SavedStutter
    <3> QED
      BY <2>1, <2>2, <3>1, SavedMoves, SavedInvoke, SavedStartStop, SavedUpdate, SavedUnlist,
         SavedEnds DEF RequestStep
  <2>3. ASSUME NEW r \in Requests, NEW o \in Ops, Call(r, o) PROVE LedgerSound' /\ ShapeInv'
    BY <2>1, <2>3, SavedMoves
  <2>4. ASSUME NEW e \in Executors, ExecutorStep(e) PROVE LedgerSound' /\ ShapeInv'
    BY <2>1, <2>4, SavedThreadMoves, SavedThreadStatements, SavedThreadEnds DEF ExecutorStep
  <2>5. CASE UNCHANGED vars
    <3>1. UNCHANGED <<ledgerVars, pc, place, status>>
      BY <2>5 DEF vars, requestVars, threadVars, fieldVars, dbVars, storedVars, ledgerVars
    <3> QED
      BY <2>1, <3>1, SavedStutter
  <2> QED
    BY <2>2, <2>3, <2>4, <2>5 DEF HarvesterNext
<1> QED
  BY SavedInit, LifeInvariant, <1>1, PTL DEF HarvesterSpec

(* When nothing is under way, a restart finds the status of memory in the  *)
(* table (AbstractHarvester.java:211-240, 290-311, SettingManager.java),   *)
(* unless a commit was refused, or a statement was resolved before an      *)
(* update was flushed.                                                     *)
THEOREM RestartFindsStatus == HarvesterSpec => []StatusSaved
<1>1. SavedInv => StatusSaved
  <2> SUFFICES ASSUME SavedInv, ~diverged, \A r \in Requests : pc[r] = "idle",
                      \A e \in Executors : ~WroteStatus(e), tree # <<>>
               PROVE  saved[Head(tree)] = status
    BY DEF StatusSaved
  <2>1. \A a \in Actors : ~WroteStatus(a)
    BY DEF SavedInv, ShapeInv, RequestShape, WroteStatus, Actors
  <2>2. NothingFlushing
    BY DEF SavedInv, ShapeInv, RequestShape, NothingFlushing
  <2>3. ~GoingToDiverge
    BY <2>1 DEF GoingToDiverge, Doomed, StatusWrites, WroteStatus
  <2>4. \A g \in Saved : saved[g] = Standing
    BY <2>1, <2>3 DEF SavedInv, LedgerSound, Settled
  <2>5. Standing = status
    BY DEF Standing
  <2>6. TreeCurrent
    BY <2>2 DEF SavedInv, LedgerSound, OneGeneration, TreeBehind, Removed, NothingFlushing
  <2>7. PICK g \in Gens : tree = <<g>> /\ Saved = {g}
    BY <2>6 DEF TreeCurrent
  <2> QED
    BY <2>4, <2>5, <2>7
<1> QED
  BY SavedInvariant, <1>1, PTL
-------------------------------------------------------------------------------
(***************************************************************************)
(* Type correctness, also after the status has diverged.  What a commit    *)
(* may assume of a transaction, one statement at most about the status,    *)
(* comes from the place of its request or thread (ShapeInv), whatever has  *)
(* happened to the rows; the order of the generations in the tree is that  *)
(* of a sequence filtered by a recursive function, which must first be     *)
(* shown to exist.                                                         *)
(***************************************************************************)

LEMMA LeastOne ==
  ASSUME NEW S \in SUBSET Nat, S # {}
  PROVE  \E k \in S : \A j \in S : ~(j < k)
<1>1. \E k \in S : \A j \in S : <<j, k>> \notin OpToRel(<, Nat)
  BY WFMin, NatLessThanWellFounded, Zenon
<1>2. \A j, k \in Nat : j < k => <<j, k>> \in OpToRel(<, Nat)
  BY DEF OpToRel
<1> QED
  BY <1>1, <1>2

KeptNext(nodes, gens, f, n) ==
  IF n = 0 THEN <<>>
  ELSE IF nodes[n] \in gens THEN f[n - 1] ELSE Append(f[n - 1], nodes[n])

LEMMA KeptExists ==
  ASSUME NEW nodes, NEW gens, NEW m \in Nat
  PROVE  \E f : f = [n \in 0 .. m |-> KeptNext(nodes, gens, f, n)]
<1> DEFINE Has(k) == \E f : f = [n \in 0 .. k |-> KeptNext(nodes, gens, f, n)]
           Missing == {k \in Nat : ~Has(k)}
<1> SUFFICES ASSUME Missing # {} PROVE FALSE
  OBVIOUS
<1>1. PICK k \in Missing : \A j \in Missing : ~(j < k)
  <2> HIDE DEF Has
  <2> QED
    BY LeastOne
<1>2. k \in Nat /\ ~Has(k)
  OBVIOUS
<1>3. CASE k = 0
  <2> DEFINE f == [n \in 0 .. 0 |-> <<>>]
  <2>1. f = [n \in 0 .. 0 |-> KeptNext(nodes, gens, f, n)]
    BY DEF KeptNext
  <2> HIDE DEF f
  <2> QED
    BY <1>2, <1>3, <2>1
<1>4. CASE k # 0
  <2>1. k - 1 \in Nat /\ k - 1 < k
    BY <1>2, <1>4
  <2>2. Has(k - 1)
    BY <1>1, <2>1
  <2>3. PICK f : f = [n \in 0 .. (k - 1) |-> KeptNext(nodes, gens, f, n)]
    BY <2>2
  <2>4. \A n \in 0 .. (k - 1) : f[n] = KeptNext(nodes, gens, f, n)
    BY <2>3
  <2> DEFINE h == [n \in 0 .. k |-> IF n = k THEN KeptNext(nodes, gens, f, k) ELSE f[n]]
  <2>5. ASSUME NEW n \in 0 .. k PROVE h[n] = KeptNext(nodes, gens, h, n)
    <3>1. n # 0 => n - 1 \in 0 .. (k - 1) /\ h[n - 1] = f[n - 1]
      BY <1>2, <1>4
    <3>2. KeptNext(nodes, gens, h, n) = KeptNext(nodes, gens, f, n)
      BY <3>1 DEF KeptNext
    <3>3. h[n] = KeptNext(nodes, gens, f, n)
      BY <1>2, <2>4
    <3> QED
      BY <3>2, <3>3
  <2>6. h = [n \in 0 .. k |-> h[n]]
    OBVIOUS
  <2> HIDE DEF h
  <2>7. h = [n \in 0 .. k |-> KeptNext(nodes, gens, h, n)]
    BY <2>5, <2>6
  <2> QED
    BY <1>2, <2>7
<1> QED
  BY <1>3, <1>4

LEMMA WithoutTyped ==
  ASSUME NEW nodes \in Seq(Gens), NEW gens
  PROVE  Without(nodes, gens) \in Seq(Gens)
<1> DEFINE m == Len(nodes)
           f == CHOOSE f : f = [n \in 0 .. m |-> KeptNext(nodes, gens, f, n)]
<1>1. m \in Nat /\ \A n \in 1 .. m : nodes[n] \in Gens
  OBVIOUS
<1>2. Without(nodes, gens) = f[m]
  BY DEF Without, KeptNext
<1> HIDE DEF m
<1>3. f = [n \in 0 .. m |-> KeptNext(nodes, gens, f, n)]
  BY <1>1, KeptExists
<1> HIDE DEF f
<1> DEFINE Wrong == {n \in Nat : n <= m /\ f[n] \notin Seq(Gens)}
<1>4. Wrong = {}
  <2> SUFFICES ASSUME Wrong # {} PROVE FALSE
    OBVIOUS
  <2>1. PICK n \in Wrong : \A j \in Wrong : ~(j < n)
    BY LeastOne
  <2>2. n \in 0 .. m /\ f[n] = KeptNext(nodes, gens, f, n)
    <3>1. n \in Nat /\ n <= m
      OBVIOUS
    <3>2. n \in 0 .. m
      BY <1>1, <3>1
    <3> HIDE DEF Wrong
    <3> QED
      BY <1>3, <3>2
  <2>3. n # 0 => f[n - 1] \in Seq(Gens) /\ nodes[n] \in Gens
    BY <1>1, <2>1, <2>2
  <2>4. f[n] \in Seq(Gens)
    BY <2>2, <2>3 DEF KeptNext
  <2> QED
    BY <2>4
<1> QED
  BY <1>1, <1>2, <1>4

(* What a flush makes of the tree, and what a path is resolved to.         *)
LEMMA TaskTyped ==
  ASSUME tree \in Seq(Gens), NEW w \in Write, w.kind \in Structural
  PROVE  ApplyTask(tree, w) \in Seq(Gens)
<1>1. w.kind = "replace" => w.new \in Gens
  BY WriteFields
<1>2. Without(tree, w.gens) \in Seq(Gens)
  BY WithoutTyped
<1>3. w.kind # "remove" => w.new \in Gens
  BY <1>1 DEF Structural
<1> QED
  BY <1>2, <1>3 DEF ApplyTask

LEMMA TreeTyped ==
  ASSUME tree \in Seq(Gens)
  PROVE  Resolved \subseteq Gens /\ ToSet(tree) \subseteq Gens
BY DEF Resolved, ToSet
-------------------------------------------------------------------------------
(* The variables that the invariants above do not speak of.                *)
RequestBook ==
  /\ op \in [Requests -> Operations \cup {None}]
  /\ \A r \in Requests : (op[r] = None) = (pc[r] = "idle")
HeldTypes == {manager, monitor} \subseteq Requests \cup {None}
BookTypes ==
  /\ listed \in BOOLEAN /\ calls \in 0 .. MaxCalls /\ diverged \in BOOLEAN
  /\ interrupted \in [Executors -> BOOLEAN]
  /\ doomed \subseteq Records /\ records \subseteq Records
  /\ tree \in Seq(Gens)

TypesInv == LedgerTypes /\ ShapeInv /\ RequestBook /\ HeldTypes /\ BookTypes

LEMMA TypesInit == HarvesterInit => TypesInv
<1> SUFFICES ASSUME HarvesterInit PROVE TypesInv
  OBVIOUS
<1> USE DEF HarvesterInit
<1>1. LedgerTypes
  BY HarvesterAssumption DEF LedgerTypes, AboutStatus
<1>2. ShapeInv
  BY HarvesterAssumption DEF ShapeInv, RequestShape, ThreadShape, Actors
<1>3. RequestBook /\ HeldTypes
  BY DEF RequestBook, HeldTypes
<1>4. calls \in 0 .. MaxCalls /\ tree \in Seq(Gens)
  BY HarvesterAssumption
<1>5. BookTypes
  BY <1>4 DEF BookTypes
<1> QED
  BY <1>1, <1>2, <1>3, <1>5 DEF TypesInv

(* A transaction that commits, is dropped, or gets one more statement.     *)
LEMMA CommitTyped ==
  ASSUME LedgerTypes, NEW a \in Actors, CommitPending(a)
  PROVE  /\ pend' \in [Actors -> SUBSET Write] /\ pend'[a] = {}
         /\ \A b \in Actors \ {a} : pend'[b] = pend[b]
         /\ stale' \in [Actors -> BOOLEAN]
         /\ saved' \in [Gens -> {"active", "inactive", None}]
<1>1. /\ pend' \in [Actors -> SUBSET Write] /\ pend'[a] = {}
      /\ \A b \in Actors \ {a} : pend'[b] = pend[b]
  BY DEF LedgerTypes, CommitPending
<1>2. stale' \in [Actors -> BOOLEAN]
  <2>1. stale' = [b \in Actors |->
                    b # a /\ (stale[b] \/ \E w \in pend[a], v \in pend[b] : Conflict(w, v))]
    BY DEF CommitPending
  <2>2. \A b \in Actors :
          (b # a /\ (stale[b] \/ \E w \in pend[a], v \in pend[b] : Conflict(w, v))) \in BOOLEAN
    OBVIOUS
  <2> QED
    BY <2>1, <2>2
<1>3. saved' = After(a)
  BY DEF CommitPending
<1>4. CASE AboutStatus(a) = {}
  BY <1>1, <1>2, <1>3, <1>4, AfterTransaction DEF LedgerTypes
<1>5. CASE AboutStatus(a) # {}
  <2>1. PICK w \in AboutStatus(a) : TRUE
    BY <1>5
  <2>2. w \in Write
    BY <2>1 DEF AboutStatus, LedgerTypes
  <2>3. saved' = ApplyWrite(saved, w)
    BY <1>3, <2>1, AfterTransaction
  <2> QED
    BY <1>1, <1>2, <2>2, <2>3, Applied
<1> QED
  BY <1>4, <1>5

LEMMA CommitLedger ==
  ASSUME LedgerTypes, NEW a \in Actors, CommitPending(a), flushing' = flushing
  PROVE  LedgerTypes'
<1>1. \A b \in Actors : \A w, v \in AboutStatus(b)' : w = v
  BY CommitTyped DEF LedgerTypes, AboutStatus
<1> QED
  BY <1>1, CommitTyped DEF LedgerTypes

LEMMA HandedLedger ==
  ASSUME LedgerTypes, NEW r \in Requests, CommitPending(r),
         flushing' = [flushing EXCEPT ![r] = {w \in pend[r] : w.kind \in Structural}]
  PROVE  LedgerTypes'
<1>0. r \in Actors
  BY DEF Actors
<1>1. \A b \in Actors : \A w, v \in AboutStatus(b)' : w = v
  BY <1>0, CommitTyped DEF LedgerTypes, AboutStatus
<1>2. \A w, v \in Tasks(r) : w = v /\ w \in Write /\ w.kind \in Structural
  BY <1>0 DEF Tasks, LedgerTypes, AboutStatus, Structural
<1>3. flushing' = [flushing EXCEPT ![r] = Tasks(r)]
  BY DEF Tasks
<1>4. flushing' \in [Requests -> SUBSET Write]
  BY <1>2, <1>3 DEF LedgerTypes
<1>5. \A w \in Tasks(r) : Tasks(r) = {w}
  BY <1>2
<1>6. \A s \in Requests : \A w \in flushing'[s] : w.kind \in Structural /\ flushing'[s] = {w}
  BY <1>2, <1>3, <1>5 DEF LedgerTypes
<1> QED
  BY <1>0, <1>1, <1>4, <1>6, CommitTyped DEF LedgerTypes

LEMMA DropLedger ==
  ASSUME LedgerTypes, NEW a \in Actors, DropPending(a), UNCHANGED <<saved, flushing>>
  PROVE  /\ LedgerTypes' /\ pend'[a] = {}
         /\ \A b \in Actors \ {a} : pend'[b] = pend[b]
<1>1. /\ pend' \in [Actors -> SUBSET Write] /\ pend'[a] = {}
      /\ \A b \in Actors \ {a} : pend'[b] = pend[b]
      /\ stale' \in [Actors -> BOOLEAN]
  BY DEF LedgerTypes, DropPending
<1>2. \A b \in Actors : \A w, v \in AboutStatus(b)' : w = v
  BY <1>1 DEF LedgerTypes, AboutStatus
<1> QED
  BY <1>1, <1>2 DEF LedgerTypes

LEMMA LedgerKept ==
  ASSUME LedgerTypes, UNCHANGED <<saved, pend, stale, flushing>>
  PROVE  LedgerTypes'
BY DEF LedgerTypes, AboutStatus
-------------------------------------------------------------------------------
(* The place of a request and its operation.                               *)
LEMMA BookMoves ==
  ASSUME RequestBook, LifeInv, NEW r \in Requests, NEW p \in RequestPlaces,
         pc' = [pc EXCEPT ![r] = p],
         \/ p = "idle" /\ op' = [op EXCEPT ![r] = None]
         \/ p # "idle" /\ pc[r] # "idle" /\ op' = op
         \/ p # "idle" /\ \E o \in Operations : op' = [op EXCEPT ![r] = o]
  PROVE  RequestBook'
<1>1. pc'[r] = p /\ \A s \in Requests \ {r} : pc'[s] = pc[s]
  BY DEF LifeInv, ThreadTypes
<1>2. CASE p = "idle" /\ op' = [op EXCEPT ![r] = None]
  BY <1>1, <1>2 DEF RequestBook
<1>3. CASE p # "idle" /\ pc[r] # "idle" /\ op' = op
  BY <1>1, <1>3 DEF RequestBook
<1>4. ASSUME p # "idle", NEW o \in Operations, op' = [op EXCEPT ![r] = o]
      PROVE  RequestBook'
  BY <1>1, <1>4, HarvesterAssumption DEF RequestBook
<1> QED
  BY <1>2, <1>3, <1>4

(* A request that moves on without a statement.                            *)
LEMMA TypesQuiet ==
  ASSUME LifeInv, TypesInv, NEW r \in Requests,
         \/ Lookup(r) \/ EnterManager(r) \/ Refuse(r) \/ NoExecutor(r) \/ RunActive(r)
         \/ Interrupt(r) \/ Invoke(r) \/ InvokeEnds(r) \/ Destroy(r) \/ DestroyFails(r)
         \/ DestroyDone(r) \/ \E o \in Ops : Call(r, o)
  PROVE  TypesInv'
<1> USE DEF TypesInv, Goto, Leave, Enter, dbVars, storedVars
<1>1. /\ UNCHANGED <<saved, pend, stale, flushing, tree, records, diverged>>
      /\ UNCHANGED place
  BY DEF Lookup, EnterManager, Refuse, NoExecutor, RunActive, Interrupt, Invoke, InvokeEnds,
     Destroy, DestroyFails, DestroyDone, Call, threadVars
<1>2. \E p \in RequestPlaces \ {"flush"} :
        /\ pc' = [pc EXCEPT ![r] = p]
        /\ p = "commit" \/ pc[r] \notin {"interrupt", "commit"}
        /\ pc[r] # "flush"
        /\ \/ p = "idle" /\ op' = [op EXCEPT ![r] = None]
           \/ p # "idle" /\ pc[r] # "idle" /\ op' = op
           \/ p # "idle" /\ \E o \in Operations : op' = [op EXCEPT ![r] = o]
  <2>1. CASE Lookup(r)
    BY <2>1 DEF Lookup, RequestPlaces
  <2>2. CASE EnterManager(r)
    BY <2>2 DEF EnterManager, RequestPlaces
  <2>3. CASE Refuse(r) \/ NoExecutor(r) \/ RunActive(r)
    BY <2>3 DEF Refuse, NoExecutor, RunActive, RequestPlaces
  <2>4. CASE Interrupt(r) \/ Invoke(r) \/ InvokeEnds(r)
    BY <2>4 DEF Interrupt, Invoke, InvokeEnds, RequestPlaces
  <2>5. CASE Destroy(r) \/ DestroyFails(r) \/ DestroyDone(r)
    BY <2>5 DEF Destroy, DestroyFails, DestroyDone, RequestPlaces
  <2>6. ASSUME NEW o \in Ops, Call(r, o)
        PROVE  \E p \in {"manager", "lookup"} :
                 /\ pc' = [pc EXCEPT ![r] = p] /\ pc[r] = "idle"
                 /\ op' = [op EXCEPT ![r] = o] /\ o \in Operations
    BY <2>6, HarvesterAssumption DEF Call
  <2>7. CASE \E o \in Ops : Call(r, o)
    BY <2>6, <2>7 DEF RequestPlaces
  <2> QED
    BY <2>1, <2>2, <2>3, <2>4, <2>5, <2>7
<1>3. PICK p \in RequestPlaces \ {"flush"} :
        /\ pc' = [pc EXCEPT ![r] = p]
        /\ p = "commit" \/ pc[r] \notin {"interrupt", "commit"}
        /\ pc[r] # "flush"
        /\ \/ p = "idle" /\ op' = [op EXCEPT ![r] = None]
           \/ p # "idle" /\ pc[r] # "idle" /\ op' = op
           \/ p # "idle" /\ \E o \in Operations : op' = [op EXCEPT ![r] = o]
  BY <1>2
<1>4. RequestBook'
  BY <1>3, BookMoves
<1>5. pend[r] # {} => p \in {"interrupt", "commit"}
  BY <1>3, NothingOpen
<1>6. flushing[r] = {}
  BY <1>3 DEF ShapeInv, RequestShape
<1>7. ShapeInv'
  BY <1>1, <1>3, <1>5, <1>6, RequestShaped
<1>8. LedgerTypes'
  BY <1>1, LedgerKept
<1>9. HeldTypes'
  BY DEF HeldTypes, Lookup, EnterManager, Refuse, NoExecutor, RunActive, Interrupt, Invoke,
     InvokeEnds, Destroy, DestroyFails, DestroyDone, Call
<1>10. interrupted' \in [Executors -> BOOLEAN]
  BY DEF BookTypes, Lookup, EnterManager, Refuse, NoExecutor, RunActive, Interrupt, Invoke,
     InvokeEnds, Destroy, Terminated, DestroyFails, DestroyDone, Call, threadVars
<1>11. listed' = listed /\ doomed' \subseteq Records
  BY DEF BookTypes, Lookup, EnterManager, Refuse, NoExecutor, RunActive, Interrupt, Invoke,
     InvokeEnds, Destroy, DestroyFails, DestroyDone, Call
<1>12. calls' \in 0 .. MaxCalls
  <2>1. CASE \E o \in Ops : Call(r, o)
    <3>1. calls' = calls + 1 /\ calls < MaxCalls
      BY <2>1 DEF Call
    <3> QED
      BY <3>1, HarvesterAssumption DEF BookTypes
  <2>2. CASE ~\E o \in Ops : Call(r, o)
    <3>1. calls' = calls
      BY <2>2 DEF Lookup, EnterManager, Refuse, NoExecutor, RunActive, Interrupt, Invoke,
         InvokeEnds, Destroy, DestroyFails, DestroyDone
    <3> QED
      BY <3>1 DEF BookTypes
  <2> QED
    BY <2>1, <2>2
<1>13. BookTypes'
  BY <1>1, <1>10, <1>11, <1>12 DEF BookTypes
<1> QED
  BY <1>4, <1>7, <1>8, <1>9, <1>13

(* A request that executes its statement.                                  *)
LEMMA TypesStatements ==
  ASSUME LifeInv, TypesInv, NEW r \in Requests,
         Start(r) \/ Stop(r) \/ RunInactive(r) \/ Update(r) \/ Unlist(r)
  PROVE  TypesInv'
<1> USE DEF TypesInv, Goto, Enter
<1>0. r \in Actors /\ \A e \in Executors : e # r
  BY HarvesterAssumption DEF Actors
<1>1. /\ pc[r] \in {"monitor", "unlist"}
      /\ \E p \in {"commit", "interrupt"} : pc' = [pc EXCEPT ![r] = p]
      /\ op' = op
  BY DEF Start, Stop, RunInactive, Update, Unlist
<1>2. pend[r] = {} /\ AboutStatus(r) = {} /\ flushing[r] = {}
  BY <1>1, NothingOpen DEF ShapeInv, RequestShape
<1>3. /\ UNCHANGED <<saved, tree, stale, flushing, records, diverged, doomed, calls>>
      /\ listed' \in BOOLEAN
  BY DEF Start, Stop, RunInactive, Update, Unlist, storedVars, BookTypes
<1>4. Resolved \subseteq Gens /\ ToSet(tree) \subseteq Gens
  BY TreeTyped DEF BookTypes
<1>5. \E w \in Write : Execute(r, w)
  <2>1. \A s \in {"active", "inactive"} : SetStatus(s) \in Write
    BY <1>4 DEF SetStatus, Write
  <2>2. CASE Start(r) \/ Stop(r) \/ RunInactive(r)
    BY <2>1, <2>2 DEF Start, Stop, RunInactive, Started
  <2>3. CASE Update(r)
    <3> DEFINE new == CHOOSE g \in Unused : TRUE
               w == [kind |-> "replace", gens |-> ToSet(tree), new |-> new, value |-> status]
    <3>1. new \in Gens
      <4>1. Unused # {}
        BY <2>3 DEF Update
      <4>2. new \in Unused
        BY <4>1
      <4> QED
        BY <4>2 DEF Unused
    <3>2. status \in {"active", "inactive"}
      BY DEF LifeInv, ThreadTypes
    <3>3. Execute(r, w)
      BY <2>3 DEF Update
    <3> HIDE DEF new
    <3>4. w \in Write
      BY <1>4, <3>1, <3>2 DEF Write
    <3> QED
      BY <3>3, <3>4
  <2>4. CASE Unlist(r)
    <3>1. [kind |-> "remove", gens |-> ToSet(tree)] \in Write
      BY <1>4 DEF Write
    <3> QED
      BY <2>4, <3>1 DEF Unlist
  <2> QED
    BY <2>2, <2>3, <2>4
<1>6. PICK w \in Write : Execute(r, w)
  BY <1>5
<1>7. /\ LedgerTypes' /\ pend'[r] = pend[r] \cup {w}
      /\ \A b \in Actors \ {r} : pend'[b] = pend[b]
  BY <1>0, <1>2, <1>3, <1>6, ExecuteTypes
<1>8. \A e \in Executors : place[e] = "close" => place'[e] = "close"
  <2>1. place' = place \/ NewExecutor
    BY DEF Start, Stop, RunInactive, Update, Unlist, Started, threadVars
  <2> QED
    BY <2>1 DEF NewExecutor, LifeInv, ThreadTypes
<1>9. ShapeInv'
  BY <1>0, <1>1, <1>2, <1>3, <1>7, <1>8, RequestShaped DEF RequestPlaces
<1>10. RequestBook'
  BY <1>1, BookMoves DEF RequestPlaces
<1>11. HeldTypes'
  BY DEF HeldTypes, Start, Stop, RunInactive, Update, Unlist
<1>12. interrupted' \in [Executors -> BOOLEAN]
  BY DEF BookTypes, Start, Stop, RunInactive, Update, Unlist, Terminated, threadVars
<1>13. BookTypes'
  BY <1>3, <1>12 DEF BookTypes
<1> QED
  BY <1>7, <1>9, <1>10, <1>11, <1>13

(* The end of a request.                                                   *)
LEMMA TypesEnds ==
  ASSUME LifeInv, TypesInv, NEW r \in Requests, Commit(r) \/ CommitRefused(r) \/ Flush(r)
  PROVE  TypesInv'
<1> USE DEF TypesInv, Goto, Leave
<1>0. r \in Actors /\ \A e \in Executors : e # r
  BY HarvesterAssumption DEF Actors
<1>1. UNCHANGED <<listed, manager, monitor, doomed, calls, place, interrupted, records>>
  BY DEF Commit, CommitRefused, Flush, threadVars
<1>2. HeldTypes'
  BY <1>1 DEF HeldTypes
<1>3. diverged' \in BOOLEAN
  BY DEF Commit, CommitPending, CommitRefused, Flush, BookTypes
<1>4. CASE Commit(r)
  <2>1. /\ pc[r] = "commit" /\ CommitPending(r) /\ tree' = tree
        /\ flushing' = [flushing EXCEPT ![r] = {w \in pend[r] : w.kind \in Structural}]
    BY <1>4 DEF Commit
  <2>2. LedgerTypes'
    BY <2>1, HandedLedger
  <2>3. pend'[r] = {} /\ \A b \in Actors \ {r} : pend'[b] = pend[b]
    BY <1>0, <2>1, CommitTyped
  <2>4. \A s \in Requests \ {r} : flushing'[s] = flushing[s]
    BY <2>1 DEF LedgerTypes
  <2>5. PICK p \in {"idle", "flush"} :
          /\ pc' = [pc EXCEPT ![r] = p]
          /\ (flushing'[r] = {}) = (p # "flush")
          /\ p = "idle" => op' = [op EXCEPT ![r] = None]
          /\ p # "idle" => op' = op
    BY <1>4 DEF Commit
  <2>6. RequestBook'
    BY <2>1, <2>5, BookMoves DEF RequestPlaces
  <2>7. ShapeInv'
    BY <1>1, <2>3, <2>4, <2>5, RequestShaped DEF RequestPlaces
  <2>8. BookTypes'
    BY <1>1, <1>3, <2>1 DEF BookTypes
  <2> QED
    BY <1>2, <2>2, <2>6, <2>7, <2>8
<1>5. CASE CommitRefused(r)
  <2>1. /\ pc[r] = "commit" /\ DropPending(r) /\ UNCHANGED <<saved, tree, flushing>>
        /\ pc' = [pc EXCEPT ![r] = "idle"] /\ op' = [op EXCEPT ![r] = None]
    BY <1>5 DEF CommitRefused
  <2>2. LedgerTypes' /\ pend'[r] = {} /\ \A b \in Actors \ {r} : pend'[b] = pend[b]
    BY <1>0, <2>1, DropLedger
  <2>3. flushing[r] = {}
    BY <2>1 DEF ShapeInv, RequestShape
  <2>4. RequestBook'
    BY <2>1, BookMoves DEF RequestPlaces
  <2>5. ShapeInv'
    BY <1>1, <2>1, <2>2, <2>3, RequestShaped DEF RequestPlaces
  <2>6. BookTypes'
    BY <1>1, <1>3, <2>1 DEF BookTypes
  <2> QED
    BY <1>2, <2>2, <2>4, <2>5, <2>6
<1>6. CASE Flush(r)
  <2>1. /\ pc[r] = "flush" /\ flushing' = [flushing EXCEPT ![r] = {}]
        /\ UNCHANGED <<saved, pend, stale>>
        /\ pc' = [pc EXCEPT ![r] = "idle"] /\ op' = [op EXCEPT ![r] = None]
    BY <1>6 DEF Flush
  <2>2. PICK w \in flushing[r] : tree' = ApplyTask(tree, w)
    BY <1>6 DEF Flush
  <2>3. tree' \in Seq(Gens)
    BY <2>2, TaskTyped DEF LedgerTypes, BookTypes
  <2>4. flushing'[r] = {} /\ \A s \in Requests \ {r} : flushing'[s] = flushing[s]
    BY <2>1 DEF LedgerTypes
  <2>5. LedgerTypes'
    BY <2>1, <2>4 DEF LedgerTypes, AboutStatus
  <2>6. pend[r] = {}
    BY <2>1, NothingOpen
  <2>7. RequestBook'
    BY <2>1, BookMoves DEF RequestPlaces
  <2>8. ShapeInv'
    BY <1>1, <2>1, <2>4, <2>6, RequestShaped DEF RequestPlaces
  <2>9. BookTypes'
    BY <1>1, <1>3, <2>3 DEF BookTypes
  <2> QED
    BY <1>2, <2>5, <2>7, <2>8, <2>9
<1> QED
  BY <1>4, <1>5, <1>6
-------------------------------------------------------------------------------
(* Every step of a thread.                                                 *)
LEMMA TypesThread ==
  ASSUME LifeInv, TypesInv, NEW e \in Executors, ExecutorStep(e)
  PROVE  TypesInv'
<1> USE DEF TypesInv, Move, GiveUp
<1>0. e \in Actors
  BY DEF Actors
<1>1. UNCHANGED <<listed, manager, monitor, op, pc, doomed, calls, tree, flushing>>
  BY DEF ExecutorStep, Wake, Quit, SetRunning, HarvesterGone, Harvest, HarvestRecord, HarvestDone,
     HarvestThrows, StopNothing, StopSelf, StopThrows, Close, CloseRefused, requestVars, dbVars,
     storedVars
<1>2. RequestBook' /\ HeldTypes'
  BY <1>1 DEF RequestBook, HeldTypes
<1>3. interrupted' \in [Executors -> BOOLEAN]
  BY DEF ExecutorStep, Wake, Quit, SetRunning, HarvesterGone, Harvest, HarvestRecord, HarvestDone,
     HarvestThrows, StopNothing, StopSelf, StopThrows, Close, CloseRefused, threadVars, Terminated,
     BookTypes
<1>4. diverged' \in BOOLEAN
  BY DEF ExecutorStep, Wake, Quit, SetRunning, HarvesterGone, Harvest, HarvestRecord, HarvestDone,
     HarvestThrows, StopNothing, StopSelf, StopThrows, Close, CloseRefused, dbVars, storedVars,
     CommitPending, BookTypes
<1>5. records' \subseteq Records
  BY DEF ExecutorStep, Wake, Quit, SetRunning, HarvesterGone, Harvest, HarvestRecord, HarvestDone,
     HarvestThrows, StopNothing, StopSelf, StopThrows, Close, CloseRefused, dbVars, storedVars,
     BookTypes
<1>6. BookTypes'
  BY <1>1, <1>3, <1>4, <1>5 DEF BookTypes
<1>7. CASE \/ Wake(e) \/ Quit(e) \/ SetRunning(e) \/ HarvesterGone(e) \/ HarvestDone(e)
           \/ StopNothing(e)
  <2>1. /\ place[e] # "close" /\ UNCHANGED <<saved, pend, stale, flushing, pc>>
        /\ \E p \in ThreadPlaces : place' = [place EXCEPT ![e] = p]
    BY <1>7 DEF Wake, Quit, SetRunning, HarvesterGone, HarvestDone, StopNothing, dbVars,
       storedVars, requestVars, ThreadPlaces
  <2>2. \A w \in pend[e] : w.kind = "lastRun"
    BY <2>1, OnlyDate
  <2>3. ShapeInv'
    BY <2>1, <2>2, ThreadShaped
  <2>4. LedgerTypes'
    BY <2>1, LedgerKept
  <2> QED
    BY <1>2, <1>6, <2>3, <2>4
<1>8. CASE Harvest(e) \/ StopSelf(e)
  <2>1. /\ place[e] # "close" /\ UNCHANGED <<saved, stale, flushing, pc>>
    BY <1>8 DEF Harvest, StopSelf, storedVars, requestVars
  <2>2. \A w \in pend[e] : w.kind = "lastRun" /\ AboutStatus(e) = {}
    BY <2>1, OnlyDate
  <2>3. AboutStatus(e) = {}
    BY <2>1, OnlyDate
  <2>4. Resolved \subseteq Gens
    BY TreeTyped DEF BookTypes
  <2>5. \E w \in Write, p \in ThreadPlaces :
          /\ Execute(e, w) /\ place' = [place EXCEPT ![e] = p]
          /\ w.kind = "lastRun" \/ (w.kind = "status" /\ p = "close")
    <3>1. CASE Harvest(e)
      <4> DEFINE w == [kind |-> "lastRun", gens |-> Resolved]
      <4>1. w \in Write /\ w.kind = "lastRun"
        BY <2>4 DEF Write
      <4>2. Execute(e, w) /\ place' = [place EXCEPT ![e] = "harvest"]
        BY <3>1 DEF Harvest
      <4> QED
        BY <4>1, <4>2 DEF ThreadPlaces
    <3>2. CASE StopSelf(e)
      <4>1. SetStatus("inactive") \in Write /\ SetStatus("inactive").kind = "status"
        BY <2>4 DEF SetStatus, Write
      <4>2. Execute(e, SetStatus("inactive")) /\ place' = [place EXCEPT ![e] = "close"]
        BY <3>2 DEF StopSelf
      <4> QED
        BY <4>1, <4>2 DEF ThreadPlaces
    <3> QED
      BY <1>8, <3>1, <3>2
  <2>6. PICK w \in Write, p \in ThreadPlaces :
          /\ Execute(e, w) /\ place' = [place EXCEPT ![e] = p]
          /\ w.kind = "lastRun" \/ (w.kind = "status" /\ p = "close")
    BY <2>5
  <2>7. /\ LedgerTypes' /\ pend'[e] = pend[e] \cup {w}
        /\ \A b \in Actors \ {e} : pend'[b] = pend[b]
    BY <1>0, <2>1, <2>3, <2>6, ExecuteTypes
  <2>8. ShapeInv'
    BY <2>1, <2>2, <2>6, <2>7, ThreadShaped
  <2> QED
    BY <1>2, <1>6, <2>7, <2>8
<1>9. CASE HarvestRecord(e) \/ Close(e)
  <2>1. CommitPending(e) /\ UNCHANGED <<flushing, pc>>
    BY <1>1, <1>9 DEF HarvestRecord, Close
  <2>2. LedgerTypes'
    BY <1>0, <2>1, CommitLedger
  <2>3. pend'[e] = {} /\ \A b \in Actors \ {e} : pend'[b] = pend[b]
    BY <1>0, <2>1, CommitTyped
  <2>4. \E p \in ThreadPlaces : place' = [place EXCEPT ![e] = p]
    BY <1>9 DEF HarvestRecord, Close, threadVars, ThreadPlaces, LifeInv, ThreadTypes
  <2>5. ShapeInv'
    BY <2>1, <2>3, <2>4, ThreadShaped
  <2> QED
    BY <1>2, <1>6, <2>2, <2>5
<1>10. CASE HarvestThrows(e) \/ StopThrows(e) \/ CloseRefused(e)
  <2>1. /\ DropPending(e) /\ UNCHANGED <<saved, flushing, pc>>
        /\ place' = [place EXCEPT ![e] = "asleep"]
    BY <1>1, <1>10 DEF HarvestThrows, StopThrows, CloseRefused
  <2>2. LedgerTypes' /\ pend'[e] = {} /\ \A b \in Actors \ {e} : pend'[b] = pend[b]
    BY <1>0, <2>1, DropLedger
  <2>3. ShapeInv'
    BY <2>1, <2>2, ThreadShaped DEF ThreadPlaces
  <2> QED
    BY <1>2, <1>6, <2>2, <2>3
<1> QED
  BY <1>7, <1>8, <1>9, <1>10 DEF ExecutorStep

THEOREM TypesInvariant == HarvesterSpec => []TypesInv
<1>1. LifeInv /\ TypesInv /\ [HarvesterNext]_vars => TypesInv'
  <2> SUFFICES ASSUME LifeInv, TypesInv, [HarvesterNext]_vars PROVE TypesInv'
    OBVIOUS
  <2>1. ASSUME NEW r \in Requests, InvokeRecord(r) \/ DeleteRecord(r) PROVE TypesInv'
    <3>1. /\ UNCHANGED <<saved, pend, stale, flushing, pc, place, op, manager, monitor, listed,
                         calls, diverged, interrupted, tree>>
          /\ doomed' \subseteq Records /\ records' \subseteq Records
      BY <2>1 DEF InvokeRecord, DeleteRecord, requestVars, threadVars, TypesInv, BookTypes
    <3>2. LedgerTypes' /\ ShapeInv'
      BY <3>1, LedgerKept DEF TypesInv, ShapeInv, RequestShape, ThreadShape
    <3>3. RequestBook' /\ HeldTypes' /\ BookTypes'
      BY <3>1 DEF TypesInv, RequestBook, HeldTypes, BookTypes
    <3> QED
      BY <3>2, <3>3 DEF TypesInv
  <2>2. ASSUME NEW r \in Requests, RequestStep(r) PROVE TypesInv'
    BY <2>1, <2>2, TypesQuiet, TypesStatements, TypesEnds DEF RequestStep
  <2>3. ASSUME NEW r \in Requests, NEW o \in Ops, Call(r, o) PROVE TypesInv'
    BY <2>3, TypesQuiet
  <2>4. ASSUME NEW e \in Executors, ExecutorStep(e) PROVE TypesInv'
    BY <2>4, TypesThread
  <2>5. CASE UNCHANGED vars
    <3>1. LedgerTypes' /\ ShapeInv'
      BY <2>5, LedgerKept DEF vars, requestVars, threadVars, dbVars, storedVars, TypesInv,
         ShapeInv, RequestShape, ThreadShape
    <3>2. RequestBook' /\ HeldTypes' /\ BookTypes'
      BY <2>5 DEF vars, requestVars, threadVars, dbVars, storedVars, TypesInv, RequestBook,
         HeldTypes, BookTypes
    <3> QED
      BY <3>1, <3>2 DEF TypesInv
  <2> QED
    BY <2>2, <2>3, <2>4, <2>5 DEF HarvesterNext
<1> QED
  BY <1>1, TypesInit, LifeInvariant, PTL DEF HarvesterSpec

(* Type correctness of the node, whatever is refused, interrupted or lost. *)
THEOREM HarvesterTypes == HarvesterSpec => []HarvesterTypeOK
<1>1. LifeInv /\ TypesInv => HarvesterTypeOK
  <2> SUFFICES ASSUME LifeInv, TypesInv PROVE HarvesterTypeOK
    OBVIOUS
  <2> USE DEF LifeInv, TypesInv
  <2>1. listed \in BOOLEAN /\ calls \in 0 .. MaxCalls /\ diverged \in BOOLEAN
        /\ doomed \subseteq Records /\ records \subseteq Records /\ tree \in Seq(Gens)
    BY DEF BookTypes
  <2>2. /\ status \in {"active", "inactive"} /\ executor \in Executors \cup {None}
        /\ destroyed \in BOOLEAN
        /\ pc \in [Requests -> {"idle", "lookup", "manager", "monitor", "interrupt", "invoke",
                                "destroy", "unlist", "commit", "flush"}]
    BY DEF ThreadTypes, RequestPlaces
  <2>3. {manager, monitor} \subseteq Requests \cup {None}
    BY DEF HeldTypes
  <2>4. \A e \in Executors :
          /\ place[e] \in {"none", "asleep", "test", "call", "harvest", "stop", "close", "dead"}
          /\ {terminate[e], interrupted[e]} \subseteq BOOLEAN
    BY DEF ThreadTypes, ThreadPlaces, BookTypes
  <2>5. /\ op \in [Requests -> Operations \cup {None}]
        /\ \A r \in Requests : (op[r] = None) = (pc[r] = "idle")
    BY DEF RequestBook
  <2>6. \A r \in Requests : (monitor = r) = (pc[r] \in {"interrupt", "invoke", "destroy"})
    BY DEF MonitorHeld, Holders
  <2>7. /\ saved \in [Gens -> {"active", "inactive", None}]
        /\ \A a \in Actors : pend[a] \subseteq Write /\ stale[a] \in BOOLEAN
        /\ \A a \in Actors : \A w, v \in AboutStatus(a) : w = v
    BY DEF LedgerTypes
  <2>8. \A r \in Requests :
          flushing[r] \subseteq Write /\ (flushing[r] = {}) = (pc[r] # "flush")
    BY DEF LedgerTypes, ShapeInv, RequestShape
  <2> QED
    BY <2>1, <2>2, <2>3, <2>4, <2>5, <2>6, <2>7, <2>8 DEF HarvesterTypeOK
<1> QED
  BY <1>1, LifeInvariant, TypesInvariant, PTL
===============================================================================
