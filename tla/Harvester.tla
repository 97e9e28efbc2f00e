------------------------------- MODULE Harvester -------------------------------
(***************************************************************************)
(* One harvesting node: its entry in the tables of HarvestManager, its     *)
(* AbstractHarvester with the two monitors that requests take, the         *)
(* Executor threads that harvest for it, and its rows in table Settings.   *)
(*                                                                         *)
(* Requests call start, stop, run, update, remove and invoke; they commit  *)
(* after they have left both monitors.  The settings are taken from        *)
(* SettingManager as far as this node needs them: its rows are replaced as *)
(* a whole by update, a generation at a time, and the tree that paths are  *)
(* resolved in follows the table with the flush.  The database is the one  *)
(* of the distribution, which finds conflicts when a transaction commits.  *)
(***************************************************************************)
EXTENDS Naturals, FiniteSets, SequencesExt

CONSTANTS Requests,   \* the threads of the harvesting services
          Executors,  \* the Executor threads that can be created
          Records,    \* the metadata of the remote site
          Gens,       \* the generations of settings rows, numbered from 1
          None,       \* no thread, no row
          OneRunOnly, \* getParams().oneRunOnly
          Ops,        \* the operations requested
          Faults,     \* what may fail: "harvest", "destroy", "commit"
          MaxCalls    \* bound on the requests of a behaviour

Operations == {"start", "stop", "run", "update", "remove", "invoke"}
Actors == Requests \cup Executors

ASSUME HarvesterAssumption ==
  /\ Requests \cap Executors = {}
  /\ None \notin Actors \cup Operations \cup {"active", "inactive"}
  /\ 1 \in Gens /\ Gens \subseteq Nat
  /\ OneRunOnly \in BOOLEAN
  /\ Ops \subseteq Operations
  /\ Faults \subseteq {"harvest", "destroy", "commit"}
  /\ MaxCalls \in Nat

VARIABLES listed,      \* is the node in hmHarvesters?
          status,      \* AbstractHarvester.status
          executor,    \* AbstractHarvester.executor
          manager,     \* the owner of the monitor of HarvestManager
          monitor,     \* the owner of the monitor of AbstractHarvester
          place,       \* where an Executor thread is
          terminate,   \* Executor.terminate, and harvester = null
          interrupted, \* the interrupt flag of the thread
          op, pc,      \* the operation of a request, and where it is
          doomed,      \* the records that destroy has still to delete
          records,     \* the harvested metadata in the database
          saved,       \* the committed options/status of each generation of rows
          tree,        \* the generations that paths are resolved in, in their order
          pend,        \* the statements of the open transactions
          stale,       \* has a conflicting transaction committed since?
          flushing,    \* committed statements whose tasks are not applied
          calls,       \* how many requests there have been, up to MaxCalls
          destroyed,   \* history: destroy has been called
          diverged     \* history: a change of the status has not reached the table

requestVars == <<listed, manager, monitor, op, pc, doomed, calls>>
threadVars == <<place, terminate, interrupted>>
fieldVars == <<status, executor, destroyed>>
storedVars == <<records, saved, tree, stale, flushing, diverged>>
dbVars == <<storedVars, pend>>
vars == <<requestVars, threadVars, fieldVars, dbVars>>

HarvesterInit ==
  /\ listed = TRUE
  /\ status = "inactive" /\ executor = None
  /\ manager = None /\ monitor = None
  /\ place = [e \in Executors |-> "none"]
  /\ terminate = [e \in Executors |-> FALSE]
  /\ interrupted = [e \in Executors |-> FALSE]
  /\ op = [r \in Requests |-> None]
  /\ pc = [r \in Requests |-> "idle"]
  /\ doomed = {}
  /\ records = {}
  /\ saved = [g \in Gens |-> IF g = 1 THEN "inactive" ELSE None]
  /\ tree = <<1>>
  /\ pend = [a \in Actors |-> {}]
  /\ stale = [a \in Actors |-> FALSE]
  /\ flushing = [r \in Requests |-> {}]
  /\ calls = 0
  /\ destroyed = FALSE
  /\ diverged = FALSE
-------------------------------------------------------------------------------
(* Transactions on the rows of the node.  A statement is about the rows of *)
(* the generations that its path was resolved to.                          *)

Write == [kind : {"status"}, gens : SUBSET Gens, value : {"active", "inactive"}]
           \cup [kind : {"lastRun", "remove"}, gens : SUBSET Gens]
           \cup [kind : {"replace"}, gens : SUBSET Gens, new : Gens,
                 value : {"active", "inactive"}]

Saved == {g \in Gens : saved[g] # None}

(* setValue: resolve finds the first options child, or nothing.            *)
Resolved == IF tree = <<>> THEN {} ELSE {Head(tree)}
SetStatus(s) == [kind |-> "status", gens |-> Resolved, value |-> s]

(* UPDATE and DELETE of rows that are not there any more do nothing.       *)
ApplyWrite(rows, w) ==
  [g \in Gens |-> IF w.kind = "replace" /\ g = w.new THEN w.value
                  ELSE IF g \notin w.gens \/ rows[g] = None \/ w.kind = "lastRun" THEN rows[g]
                  ELSE IF w.kind = "status" THEN w.value ELSE None]

(* A transaction has one statement at most that is about the status.       *)
AboutStatus(a) == {w \in pend[a] : w.kind # "lastRun"}
After(a) ==
  IF AboutStatus(a) = {} THEN saved
                         ELSE ApplyWrite(saved, CHOOSE w \in AboutStatus(a) : TRUE)

Structural == {"replace", "remove"}
Conflict(w, v) ==
  /\ w.gens \cap v.gens # {}
  /\ w.kind = v.kind \/ w.kind \in Structural \/ v.kind \in Structural

(* The foreign key: the node goes with all its rows or not at all, and     *)
(* rows are not added below a node that has gone.                          *)
KeysOk(a) ==
  \A w \in pend[a] :
    /\ w.kind = "remove" => Saved \subseteq w.gens
    /\ w.kind = "replace" => Saved # {}

(* A statement that was resolved before an update was flushed: the status  *)
(* goes to rows which are not there any more, or one update leaves the     *)
(* rows of another one in the table.                                       *)
Misses(a) ==
  \E w \in pend[a] :
    \/ w.kind = "status" /\ w.gens \cap Saved = {}
    \/ w.kind = "replace" /\ ~(Saved \subseteq w.gens)

Committable(a) == ~stale[a] /\ KeysOk(a)

CommitPending(a) ==
  /\ Committable(a)
  /\ saved' = After(a)
  /\ pend' = [pend EXCEPT ![a] = {}]
  /\ stale' = [b \in Actors |->
                 /\ b # a
                 /\ \/ stale[b]
                    \/ \E w \in pend[a], v \in pend[b] : Conflict(w, v)]
  /\ diverged' = (diverged \/ Misses(a))

DropPending(a) ==
  /\ pend' = [pend EXCEPT ![a] = {}]
  /\ stale' = [stale EXCEPT ![a] = FALSE]

Execute(a, w) == pend' = [pend EXCEPT ![a] = @ \cup {w}]

(* The numbers that the next update may give to its rows.                  *)
Mentioned ==
  LET executed == UNION {pend[a] : a \in Actors}
      committed == UNION {flushing[r] : r \in Requests}
  IN  UNION {w.gens \cup (IF w.kind = "replace" THEN {w.new} ELSE {}) :
               w \in executed \cup committed}
Unused == Gens \ (Saved \cup ToSet(tree) \cup Mentioned)
-------------------------------------------------------------------------------
(* Executors.  A new one is the replacement of the old one, if any.        *)

NotInterruptedBug(e) ==
  /\ terminate' = IF e = None THEN terminate ELSE [terminate EXCEPT ![e] = TRUE]
  /\ UNCHANGED interrupted

Terminated(e) ==
  /\ terminate' = IF e = None THEN terminate ELSE [terminate EXCEPT ![e] = TRUE]
  /\ interrupted' = IF e = None THEN interrupted ELSE [interrupted EXCEPT ![e] = TRUE]

IsRunning(e) == place[e] \in {"call", "harvest", "stop", "close"}

NewExecutor ==
  \E e \in Executors :
    /\ place[e] = "none"
    /\ place' = [place EXCEPT ![e] = "asleep"]
    /\ executor' = e

(* start, its status test left to its callers.                             *)
StatusNotSavedBug(r) ==
  /\ status' = "active"
  /\ NewExecutor
  /\ UNCHANGED pend

Started(r) ==
  /\ Execute(r, SetStatus("active"))
  /\ status' = "active"
  /\ NewExecutor
-------------------------------------------------------------------------------
(* Requests: the lookup, then the wait for the monitor of the harvester.   *)
(* update and remove hold the monitor of the manager until they return.    *)

Goto(r, place_) == pc' = [pc EXCEPT ![r] = place_]
Leave(r) == Goto(r, "idle") /\ op' = [op EXCEPT ![r] = None]

(* The bounds: MaxCalls requests in all, an Executor for every request     *)
(* that may need one, and a generation of rows for every update.           *)
Restarts == {"start", "run", "update"}
Underway(ops) == Cardinality({s \in Requests : op[s] \in ops})

Call(r, o) ==
  /\ pc[r] = "idle"
  /\ calls < MaxCalls
  /\ o \in Restarts =>
       Cardinality({e \in Executors : place[e] = "none"}) > Underway(Restarts)
  /\ o = "update" => Cardinality(Unused) > Underway({"update"})
  /\ op' = [op EXCEPT ![r] = o]
  /\ calls' = calls + 1
  /\ Goto(r, IF o \in {"update", "remove"} THEN "manager" ELSE "lookup")
  /\ UNCHANGED <<listed, manager, monitor, doomed, threadVars, fieldVars, dbVars>>

Lookup(r) ==
  /\ pc[r] = "lookup"
  /\ IF listed THEN Goto(r, "monitor") /\ UNCHANGED op ELSE Leave(r)
  /\ UNCHANGED <<listed, manager, monitor, doomed, calls, threadVars, fieldVars,
                 dbVars>>

EnterManager(r) ==
  /\ pc[r] = "manager"
  /\ manager = None
  /\ IF ~listed
     THEN Leave(r) /\ UNCHANGED manager
     ELSE /\ Goto(r, "monitor")
          /\ manager' = r
          /\ UNCHANGED op
  /\ UNCHANGED <<listed, monitor, doomed, calls, threadVars, fieldVars, dbVars>>

Enter(r, o) == pc[r] = "monitor" /\ monitor = None /\ op[r] = o

(* ALREADY_ACTIVE, ALREADY_INACTIVE and ALREADY_RUNNING.                   *)
Refuse(r) ==
  /\ \/ Enter(r, "start") /\ status = "active"
     \/ Enter(r, "stop") /\ status = "inactive"
     \/ Enter(r, "invoke") /\ status = "active"
     \/ Enter(r, "run") /\ status = "active" /\ executor # None /\ IsRunning(executor)
  /\ Leave(r)
  /\ UNCHANGED <<listed, manager, monitor, doomed, calls, threadVars, fieldVars,
                 dbVars>>

Start(r) ==
  /\ Enter(r, "start")
  /\ status = "inactive"
  /\ Started(r)
  /\ Goto(r, "commit")
  /\ UNCHANGED <<listed, manager, monitor, op, doomed, calls, terminate, interrupted,
                 destroyed, storedVars>>

Stop(r) ==
  /\ Enter(r, "stop")
  /\ status = "active"
  /\ executor # None
  /\ Execute(r, SetStatus("inactive"))
  /\ Terminated(executor)
  /\ status' = "inactive"
  /\ executor' = None
  /\ Goto(r, "commit")
  /\ UNCHANGED <<listed, manager, monitor, op, doomed, calls, place, destroyed,
                 storedVars>>

(* An active node without an executor, after a destroy that failed: a      *)
(* NullPointerException, and the request is rolled back.                   *)
NoExecutor(r) ==
  /\ Enter(r, "stop") \/ Enter(r, "run") \/ Enter(r, "update")
  /\ status = "active"
  /\ executor = None
  /\ manager' = IF manager = r THEN None ELSE manager
  /\ Leave(r)
  /\ UNCHANGED <<listed, monitor, doomed, calls, threadVars, fieldVars, dbVars>>

(* run: start, when it is inactive, and the test of isRunning; interrupt() *)
(* comes later, and the thread may have begun to harvest by then.          *)
RunInactive(r) ==
  /\ Enter(r, "run")
  /\ status = "inactive"
  /\ Started(r)
  /\ Goto(r, "interrupt")
  /\ monitor' = r
  /\ UNCHANGED <<listed, manager, op, doomed, calls, terminate, interrupted,
                 destroyed, storedVars>>

RunNotSynchronizedBug(r) ==
  /\ Enter(r, "run")
  /\ status = "active"
  /\ executor # None
  /\ ~IsRunning(executor)
  /\ Goto(r, "interrupt")
  /\ UNCHANGED <<listed, manager, monitor, op, doomed, calls, threadVars, fieldVars, dbVars>>

RunActive(r) ==
  /\ Enter(r, "run")
  /\ status = "active"
  /\ executor # None
  /\ ~IsRunning(executor)
  /\ Goto(r, "interrupt")
  /\ monitor' = r
  /\ UNCHANGED <<listed, manager, op, doomed, calls, threadVars, fieldVars, dbVars>>

InterruptForgottenBug(r) ==
  /\ pc[r] = "interrupt"
  /\ monitor' = None
  /\ Goto(r, "commit")
  /\ UNCHANGED <<listed, manager, op, doomed, calls, threadVars, fieldVars, dbVars>>

Interrupt(r) ==
  /\ pc[r] = "interrupt"
  /\ interrupted' = [interrupted EXCEPT ![executor] = TRUE]
  /\ monitor' = None
  /\ Goto(r, "commit")
  /\ UNCHANGED <<listed, manager, op, doomed, calls, place, terminate, fieldVars,
                 dbVars>>

(* doUpdate replaces the rows of the node, the status among them.  The     *)
(* monitor of the manager is free again before the transaction commits.    *)
OldExecutorKeptBug(r) ==
  /\ Enter(r, "update")
  /\ status = "active" => executor # None
  /\ Unused # {}
  /\ LET new == CHOOSE g \in Unused : TRUE
     IN  Execute(r, [kind |-> "replace", gens |-> ToSet(tree), new |-> new, value |-> status])
  /\ manager' = None
  /\ Goto(r, "commit")
  /\ IF status = "active" THEN NewExecutor ELSE UNCHANGED <<place, executor>>
  /\ UNCHANGED <<terminate, interrupted, listed, monitor, op, doomed, calls, status, destroyed, storedVars>>

Update(r) ==
  /\ Enter(r, "update")
  /\ status = "active" => executor # None
  /\ Unused # {}
  /\ LET new == CHOOSE g \in Unused : TRUE
     IN  Execute(r, [kind |-> "replace", gens |-> ToSet(tree), new |-> new, value |-> status])
  /\ manager' = None
  /\ Goto(r, "commit")
  /\ IF status = "active" THEN Terminated(executor) /\ NewExecutor
                          ELSE UNCHANGED <<threadVars, executor>>
  /\ UNCHANGED <<listed, monitor, op, doomed, calls, status, destroyed, storedVars>>

(* invoke harvests in the thread of the request, under the monitor.        *)
InvokeActiveBug(r) ==
  /\ Enter(r, "invoke")
  /\ status' = "active"
  /\ monitor' = r
  /\ Goto(r, "invoke")
  /\ UNCHANGED <<listed, manager, op, doomed, calls, threadVars, executor, destroyed,
                 dbVars>>

Invoke(r) ==
  /\ Enter(r, "invoke")
  /\ status = "inactive"
  /\ status' = "active"
  /\ monitor' = r
  /\ Goto(r, "invoke")
  /\ UNCHANGED <<listed, manager, op, doomed, calls, threadVars, executor, destroyed,
                 dbVars>>

InvokeRecord(r) ==
  /\ pc[r] = "invoke"
  /\ \E m \in Records \ records : records' = records \cup {m}
  /\ UNCHANGED <<requestVars, threadVars, fieldVars, saved, tree, pend, stale,
                 flushing, diverged>>

InvokeEnds(r) ==
  /\ pc[r] = "invoke"
  /\ status' = "inactive"
  /\ monitor' = None
  /\ Leave(r)
  /\ UNCHANGED <<listed, manager, doomed, calls, threadVars, executor, destroyed,
                 dbVars>>
-------------------------------------------------------------------------------
(* remove: HarvestManager.remove calls destroy, then takes the node out of *)
(* the table and removes its settings.                                     *)
Destroy(r) ==
  /\ Enter(r, "remove")
  /\ Terminated(executor)
  /\ executor' = None
  /\ destroyed' = TRUE
  /\ doomed' = records
  /\ monitor' = r
  /\ Goto(r, "destroy")
  /\ UNCHANGED <<listed, manager, op, calls, place, status, dbVars>>

DeleteRecord(r) ==
  /\ pc[r] = "destroy"
  /\ \E m \in doomed : doomed' = doomed \ {m} /\ records' = records \ {m}
  /\ UNCHANGED <<listed, manager, monitor, op, pc, calls, threadVars, fieldVars,
                 saved, tree, pend, stale, flushing, diverged>>

DestroyFails(r) ==
  /\ pc[r] = "destroy"
  /\ "destroy" \in Faults
  /\ doomed' = {}
  /\ monitor' = None
  /\ manager' = None
  /\ Leave(r)
  /\ UNCHANGED <<listed, calls, threadVars, fieldVars, dbVars>>

DestroyDone(r) ==
  /\ pc[r] = "destroy"
  /\ doomed = {}
  /\ monitor' = None
  /\ Goto(r, "unlist")
  /\ UNCHANGED <<listed, manager, op, doomed, calls, threadVars, fieldVars, dbVars>>

Unlist(r) ==
  /\ pc[r] = "unlist"
  /\ listed' = FALSE
  /\ Execute(r, [kind |-> "remove", gens |-> ToSet(tree)])
  /\ manager' = None
  /\ Goto(r, "commit")
  /\ UNCHANGED <<monitor, op, doomed, calls, threadVars, fieldVars, storedVars>>
-------------------------------------------------------------------------------
(* The end of a request: commit or abort, and the flush of its settings.   *)

Refused(a) == ~Committable(a) \/ ("commit" \in Faults /\ pend[a] # {})
WroteStatus(a) == \E w \in pend[a] : w.kind = "status"

Commit(r) ==
  /\ pc[r] = "commit"
  /\ CommitPending(r)
  /\ flushing' = [flushing EXCEPT ![r] = {w \in pend[r] : w.kind \in Structural}]
  /\ IF flushing'[r] = {} THEN Leave(r) ELSE Goto(r, "flush") /\ UNCHANGED op
  /\ UNCHANGED <<listed, manager, monitor, doomed, calls, threadVars, fieldVars,
                 records, tree>>

CommitRefused(r) ==
  /\ pc[r] = "commit"
  /\ Refused(r)
  /\ DropPending(r)
  /\ diverged' = (diverged \/ WroteStatus(r))
  /\ Leave(r)
  /\ UNCHANGED <<listed, manager, monitor, doomed, calls, threadVars, fieldVars,
                 records, saved, tree, flushing>>

(* The nodes that stay, in their order.                                    *)
Without(nodes, gens) ==
  LET Kept[n \in 0 .. Len(nodes)] ==
        IF n = 0 THEN <<>>
        ELSE IF nodes[n] \in gens THEN Kept[n - 1] ELSE Append(Kept[n - 1], nodes[n])
  IN  Kept[Len(nodes)]

(* Rows added below a node that has left the tree are below nothing.       *)
ApplyTask(nodes, w) ==
  IF nodes = <<>> \/ w.kind = "remove" THEN <<>>
  ELSE IF ToSet(nodes) \subseteq w.gens THEN <<w.new>>
  ELSE Append(Without(nodes, w.gens), w.new)

Flush(r) ==
  /\ pc[r] = "flush"
  /\ \E w \in flushing[r] : tree' = ApplyTask(tree, w)
  /\ flushing' = [flushing EXCEPT ![r] = {}]
  /\ Leave(r)
  /\ UNCHANGED <<listed, manager, monitor, doomed, calls, threadVars, fieldVars,
                 records, saved, pend, stale, diverged>>
-------------------------------------------------------------------------------
(* The loop of an Executor.  The test of terminate before the sleep is not *)
(* a step: terminate() interrupts a sleep that begins after it.            *)

Move(e, place_) == place' = [place EXCEPT ![e] = place_]

(* The time has come, or an interrupt, which may be one from long before.  *)
Wake(e) ==
  /\ place[e] = "asleep"
  /\ Move(e, "test")
  /\ interrupted' = [interrupted EXCEPT ![e] = FALSE]
  /\ UNCHANGED <<requestVars, terminate, fieldVars, dbVars>>

Quit(e) ==
  /\ place[e] = "test"
  /\ terminate[e]
  /\ Move(e, "dead")
  /\ UNCHANGED <<requestVars, terminate, interrupted, fieldVars, dbVars>>

SetRunning(e) ==
  /\ place[e] = "test"
  /\ ~terminate[e]
  /\ Move(e, "call")
  /\ UNCHANGED <<requestVars, terminate, interrupted, fieldVars, dbVars>>

(* terminate() has set harvester to null since the test: the thread ends   *)
(* with a NullPointerException.                                            *)
HarvesterGone(e) ==
  /\ place[e] = "call"
  /\ terminate[e]
  /\ Move(e, "dead")
  /\ UNCHANGED <<requestVars, terminate, interrupted, fieldVars, dbVars>>

(* harvest: the date of the run, the records, with a commit between them,  *)
(* and, with oneRunOnly, stop of the harvester, whatever its executor is.  *)
Harvest(e) ==
  /\ place[e] = "call"
  /\ ~terminate[e]
  /\ Move(e, "harvest")
  /\ Execute(e, [kind |-> "lastRun", gens |-> Resolved])
  /\ UNCHANGED <<requestVars, terminate, interrupted, fieldVars, storedVars>>

HarvestRecord(e) ==
  /\ place[e] = "harvest"
  /\ \E m \in Records \ records : records' = records \cup {m}
  /\ CommitPending(e)
  /\ UNCHANGED <<requestVars, threadVars, fieldVars, tree, flushing>>

HarvestDone(e) ==
  /\ place[e] = "harvest"
  /\ Move(e, IF OneRunOnly THEN "stop" ELSE "close")
  /\ UNCHANGED <<requestVars, terminate, interrupted, fieldVars, dbVars>>

(* The catch of harvest: abort, and back to the loop.                      *)
GiveUp(e) == DropPending(e) /\ Move(e, "asleep")

HarvestThrows(e) ==
  /\ place[e] = "harvest"
  /\ "harvest" \in Faults \/ (Records # records /\ ~Committable(e))
  /\ GiveUp(e)
  /\ UNCHANGED <<requestVars, terminate, interrupted, fieldVars, records, saved,
                 tree, flushing, diverged>>

StopNothing(e) ==
  /\ place[e] = "stop"
  /\ monitor = None
  /\ status = "inactive"
  /\ Move(e, "close")
  /\ UNCHANGED <<requestVars, terminate, interrupted, fieldVars, dbVars>>

StatusForgottenBug(e) ==
  /\ place[e] = "stop"
  /\ monitor = None
  /\ status = "active"
  /\ executor # None
  /\ Execute(e, SetStatus("inactive"))
  /\ executor' = None
  /\ Terminated(executor)
  /\ Move(e, "close")
  /\ UNCHANGED <<requestVars, status, destroyed, storedVars>>

StopSelf(e) ==
  /\ place[e] = "stop"
  /\ monitor = None
  /\ status = "active"
  /\ executor # None
  /\ Execute(e, SetStatus("inactive"))
  /\ status' = "inactive"
  /\ executor' = None
  /\ Terminated(executor)
  /\ Move(e, "close")
  /\ UNCHANGED <<requestVars, destroyed, storedVars>>

StopThrows(e) ==
  /\ place[e] = "stop"
  /\ monitor = None
  /\ status = "active"
  /\ executor = None
  /\ GiveUp(e)
  /\ UNCHANGED <<requestVars, terminate, interrupted, fieldVars, records, saved,
                 tree, flushing, diverged>>

Close(e) ==
  /\ place[e] = "close"
  /\ CommitPending(e)
  /\ Move(e, "asleep")
  /\ UNCHANGED <<requestVars, terminate, interrupted, fieldVars, records, tree,
                 flushing>>

CloseRefused(e) ==
  /\ place[e] = "close"
  /\ Refused(e)
  /\ GiveUp(e)
  /\ diverged' = (diverged \/ WroteStatus(e))
  /\ UNCHANGED <<requestVars, terminate, interrupted, fieldVars, records, saved,
                 tree, flushing>>
-------------------------------------------------------------------------------
RequestStep(r) ==
  \/ Lookup(r) \/ EnterManager(r) \/ Refuse(r) \/ Start(r) \/ Stop(r) \/ NoExecutor(r)
  \/ RunInactive(r) \/ RunActive(r) \/ Interrupt(r) \/ Update(r)
  \/ Invoke(r) \/ InvokeRecord(r) \/ InvokeEnds(r)
  \/ Destroy(r) \/ DeleteRecord(r) \/ DestroyFails(r) \/ DestroyDone(r) \/ Unlist(r)
  \/ Commit(r) \/ CommitRefused(r) \/ Flush(r)

ExecutorStep(e) ==
  \/ Wake(e) \/ Quit(e) \/ SetRunning(e) \/ HarvesterGone(e)
  \/ Harvest(e) \/ HarvestRecord(e) \/ HarvestDone(e) \/ HarvestThrows(e)
  \/ StopNothing(e) \/ StopSelf(e) \/ StopThrows(e) \/ Close(e) \/ CloseRefused(e)

HarvesterNext ==
  \/ \E r \in Requests : RequestStep(r) \/ \E o \in Ops : Call(r, o)
  \/ \E e \in Executors : ExecutorStep(e)

HarvesterSpec == HarvesterInit /\ [][HarvesterNext]_vars

(* A thread that runs goes on, and a remote site answers or fails; a sleep *)
(* of hours is only known to end when it is interrupted.  Weak fairness    *)
(* promises a thread nothing as long as others keep taking the monitor     *)
(* that it waits for.                                                      *)
FairHarvesterSpec ==
  HarvesterSpec
    /\ \A r \in Requests : WF_vars(RequestStep(r))
    /\ \A e \in Executors :
         WF_vars(ExecutorStep(e) /\ (place[e] = "asleep" => interrupted[e]))
-------------------------------------------------------------------------------
(* Every variable ranges over what the fields of the code can hold.        *)
HarvesterTypeOK ==
  /\ listed \in BOOLEAN /\ calls \in 0 .. MaxCalls
  /\ status \in {"active", "inactive"}
  /\ executor \in Executors \cup {None}
  /\ {manager, monitor} \subseteq Requests \cup {None}
  /\ destroyed \in BOOLEAN /\ diverged \in BOOLEAN
  /\ \A e \in Executors :
       /\ place[e] \in {"none", "asleep", "test", "call", "harvest", "stop", "close", "dead"}
       /\ {terminate[e], interrupted[e]} \subseteq BOOLEAN
  /\ op \in [Requests -> Operations \cup {None}]
  /\ \A r \in Requests : (op[r] = None) = (pc[r] = "idle")
  /\ \A r \in Requests : (monitor = r) = (pc[r] \in {"interrupt", "invoke", "destroy"})
  /\ pc \in [Requests -> {"idle", "lookup", "manager", "monitor", "interrupt", "invoke",
                          "destroy", "unlist", "commit", "flush"}]
  /\ doomed \subseteq Records /\ records \subseteq Records
  /\ saved \in [Gens -> {"active", "inactive", None}]
  /\ tree \in Seq(Gens)
  /\ \A a \in Actors : pend[a] \subseteq Write /\ stale[a] \in BOOLEAN
  /\ \A a \in Actors : \A w, v \in AboutStatus(a) : w = v
  /\ \A r \in Requests : flushing[r] \subseteq Write /\ (flushing[r] = {}) = (pc[r] # "flush")

(* Two threads never harvest on the orders of one node: whichever way      *)
(* start, stop, run, update and remove interleave with the harvests, a     *)
(* thread that has not been told to terminate is the executor of the node. *)
OneLiveExecutor ==
  \A e \in Executors :
    place[e] \notin {"none", "dead"} /\ ~terminate[e] => e = executor

(* Between the synchronized methods a node is active exactly when it has a *)
(* thread, and one that has not been told to end; run and stop rely on it  *)
(* (AbstractHarvester.java:235, 249).  destroy alone breaks it.            *)
ActiveHasExecutor ==
  monitor = None /\ ~destroyed =>
    (status = "active") = (executor # None /\ ~terminate[executor])

(* When nothing is under way the status that a restart would find in the   *)
(* table is the one in memory, unless a commit was refused or a statement  *)
(* was resolved before an update was flushed (Misses).                     *)
StatusSaved ==
  /\ ~diverged
  /\ \A r \in Requests : pc[r] = "idle"
  /\ \A e \in Executors : ~WroteStatus(e)
  /\ tree # <<>>
  => saved[Head(tree)] = status

(* "Cannot do invoke if this harvester was started"                        *)
(* (AbstractHarvester.java:261): no other thread is going to begin a       *)
(* harvest while a request harvests itself.                                *)
InvokeAlone ==
  \A r \in Requests : pc[r] = "invoke" =>
    \A e \in Executors : place[e] \in {"asleep", "test"} => terminate[e]

(* A thread told to terminate does, unless it waits for the monitor of its *)
(* harvester to stop it (oneRunOnly).                                      *)
TerminatedEnds ==
  \A e \in Executors : terminate[e] ~> place[e] \in {"dead", "stop"}

(* run answers OK only if a harvest of this thread follows, or is just now *)
(* under way because it had left its sleep by itself before run could      *)
(* interrupt it (AbstractHarvester.java:249-252), unless the thread has    *)
(* been replaced by then.                                                  *)
RunHarvests ==
  \A r \in Requests, e \in Executors :
    pc[r] = "interrupt" /\ executor = e ~> place[e] = "harvest" \/ terminate[e]

(* "It is used to remove harvested metadata" (AbstractHarvester.java:183): *)
(* when a node has been removed, none of its metadata is left.             *)
RemovedLeavesNothing ==
  ~listed /\ (\A r \in Requests : pc[r] = "idle") => records = {}
===============================================================================
