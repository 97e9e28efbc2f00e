---------------------------- MODULE SettingManager ----------------------------
(***************************************************************************)
(* The application settings: a table of the database, kept in memory as a  *)
(* tree by SettingManager.  A change is an SQL statement on the connection *)
(* of the request and a Task that repeats it on the tree once the pool     *)
(* tells its listeners that the connection has been closed.                *)
(*                                                                         *)
(* The module composes the pool of DbmsPool with the settings manager and  *)
(* with the table, whose transactions are the database's (external): with  *)
(* RowLocks, a statement waits for the rows of other open transactions;    *)
(* without, as in the McKoi database of the distribution, a transaction    *)
(* that lost a conflict is told so, and rolled back, when it commits.      *)
(***************************************************************************)
EXTENDS DbmsPool, SequencesExt

CONSTANTS Ids,        \* setting ids; the root, 0, is not one of them
          Fields,     \* the columns a setting has: "name", "value"
          Values,     \* what a column may hold
          NoRow,      \* no such row, or no such child
          InitRows,   \* the rows found at startup
          RowLocks,   \* TRUE: the database locks rows, FALSE: it validates at commit
          NoCall,     \* the thread is in no operation of the settings manager
          Operations, \* the calls a request may make
          BodyCommits,\* TRUE: services call Dbms.commit before they return
          MaxTasks    \* bound on the task list and on an open transaction

Root == 0
Texts == [Fields -> Values]
Row == [parent : Ids \cup {Root}, text : Texts]

ASSUME SettingAssumption ==
  /\ Ids \subseteq Nat \ {Root} /\ IsFiniteSet(Ids)
  /\ NoRow \notin Row
  /\ InitRows \in [Ids -> Row \cup {NoRow}]
  /\ RowLocks \in BOOLEAN
  /\ BodyCommits \in BOOLEAN
  /\ MaxTasks \in Nat
  /\ NoCall \notin Operations

VARIABLES db,        \* the committed rows of table Settings
          written,   \* the statements of the open transaction of a connection
          lost,      \* the ids committed by others since that transaction began
          tree,      \* the Setting objects, by id: a child of its parent, or NoRow
          tasks,     \* the task list, split by the connection of the tasks
          fates,     \* history: what became of the transactions of those tasks
          maxSerial, \* maxSerial
          writer,    \* the thread that holds lock.writeLock()
          call,      \* the operation a thread is in
          todo,      \* the statements it has still to execute
          raced      \* history: has one of the races of section Races happened?

settingVars == <<db, written, lost, tree, tasks, fates, maxSerial, writer,
                 call, todo, raced>>
vars == <<poolVars, settingVars>>
-------------------------------------------------------------------------------
(* Statements.  The same record is executed on the table and, as the body  *)
(* of a Task, on the tree.  UPDATE and DELETE of a missing row do nothing. *)

Statement ==
  [kind : {"set"}, id : Ids, field : Fields, value : Values]
    \cup [kind : {"add"}, id : Ids, parent : Ids \cup {Root}, text : Texts]
    \cup [kind : {"remove"}, id : Ids]

Apply(rows, s) ==
  CASE s.kind = "set" /\ rows[s.id] # NoRow
         -> [rows EXCEPT ![s.id].text[s.field] = s.value]
    [] s.kind = "set" /\ rows[s.id] = NoRow -> rows
    [] s.kind = "add" -> [rows EXCEPT ![s.id] = [parent |-> s.parent, text |-> s.text]]
    [] s.kind = "remove" -> [rows EXCEPT ![s.id] = NoRow]

ApplyAll(rows, stmts) == IF stmts = <<>> THEN rows ELSE FoldLeft(Apply, rows, stmts)

(* The rows a statement depends on: its own, and the parent that the       *)
(* foreign key of an inserted row refers to.                               *)
Touched(s) == {s.id} \cup (IF s.kind = "add" THEN {s.parent} \ {Root} ELSE {})
TouchedBy(c) == UNION {Touched(s) : s \in ToSet(written[c])}
WrittenBy(c) == {s.id : s \in ToSet(written[c])}

ForeignKeysOk(rows) ==
  \A i \in Ids : rows[i] # NoRow =>
    rows[i].parent \in {Root} \cup {j \in Ids : rows[j] # NoRow}

(* The primary key: no INSERT meets a row.                                 *)
PrimaryKeyOk(rows, stmts) ==
  \A k \in DOMAIN stmts :
    stmts[k].kind = "add" => ApplyAll(rows, SubSeq(stmts, 1, k - 1))[stmts[k].id] = NoRow

Consistent(rows, stmts) ==
  PrimaryKeyOk(rows, stmts) /\ ForeignKeysOk(ApplyAll(rows, stmts))
-------------------------------------------------------------------------------
(* A Task repeats a statement on the tree.  It knows its connection, not    *)
(* its transaction; what became of that one is a history.                  *)

Fate == {"open", "committed", "rolledback"}
Settle(c, fate) ==
  fates' = [fates EXCEPT ![c] = IF "open" \in @ THEN (@ \ {"open"}) \cup {fate} ELSE @]

(* The nodes at or below those of a set, and those a path can lead to.      *)
Under(start) ==
  LET Below[d \in 0 .. Cardinality(Ids)] ==
        IF d = 0 THEN start
        ELSE Below[d - 1] \cup {i \in Ids : tree[i] # NoRow /\ tree[i].parent \in Below[d - 1]}
  IN  Ids \cap Below[Cardinality(Ids)]
Visible == Under({Root})

(* findAmongAdded: an id that this connection's tasks are about to add.    *)
AmongAdded(c, i) == \E s \in ToSet(tasks[c]) : s.kind = "add" /\ s.id = i

(* getNextSerial: MAX(id) the first time, then a counter in memory.        *)
MaxId(rows) == Max({i \in Ids : rows[i] # NoRow} \cup {Root})
SerialNotCachedBug(c) == 1 + MaxId(ApplyAll(db, written[c]))
NextSerial(c) ==
  1 + (IF maxSerial = 0 THEN MaxId(ApplyAll(db, written[c])) ELSE maxSerial)

(* The recursive remove deletes every node after its descendants.          *)
Deletions(ids) ==
  {[n \in DOMAIN q |-> [kind |-> "remove", id |-> q[n]]] :
     q \in {p \in SetToSeqs(ids) :
              \A m, n \in DOMAIN p : tree[p[m]].parent = p[n] => m < n}}

(* The operations, and the statements each of them is about to execute:    *)
(* setValues takes its map in any order and skips the paths it cannot      *)
(* resolve, the others do nothing when they cannot resolve theirs.         *)
Operation ==
  [op : {"setValues"}, values : UNION {[ids -> Values] : ids \in SUBSET Ids}]
    \cup [op : {"setName"}, id : Ids, name : Values]
    \cup [op : {"add"}, id : Ids \cup {Root}, text : Texts]
    \cup [op : {"remove", "removeChildren"}, id : Ids]

ASSUME OperationAssumption ==
  /\ Operations \subseteq Operation
  /\ \A o \in Operations : /\ o.op = "setName" => "name" \in Fields
                           /\ o.op = "setValues" => "value" \in Fields

Plans(c, o) ==
  CASE o.op = "setValues" ->
         {[n \in DOMAIN q |-> [kind |-> "set", id |-> q[n], field |-> "value",
                               value |-> o.values[q[n]]]] :
            q \in SetToSeqs(DOMAIN o.values \cap Visible)}
    [] o.op = "setName" /\ o.id \in Visible ->
         {<<[kind |-> "set", id |-> o.id, field |-> "name", value |-> o.name]>>}
    [] o.op = "add" /\ (o.id = Root \/ AmongAdded(c, o.id) \/ o.id \in Visible) ->
         {<<[kind |-> "add", id |-> NextSerial(c), parent |-> o.id, text |-> o.text]>>}
    [] o.op = "remove" /\ o.id \in Visible -> Deletions(Under({o.id}))
    [] o.op = "removeChildren" /\ o.id \in Visible -> Deletions(Under({o.id}) \ {o.id})
    [] OTHER -> {<<>>}
-------------------------------------------------------------------------------
SettingInit ==
  /\ PoolInit
  /\ db = InitRows
  /\ written = [c \in Conns |-> <<>>]
  /\ lost = [c \in Conns |-> {}]
  /\ tree = InitRows
  /\ tasks = [c \in Conns |-> <<>>]
  /\ fates = [c \in Conns |-> {}]
  /\ maxSerial = 0
  /\ writer = None
  /\ call = [t \in Threads |-> NoCall]
  /\ todo = [t \in Threads |-> <<>>]
  /\ raced = FALSE

(* The bounds of a run: the task list, an open transaction, and the ids    *)
(* that add may give out.                                                  *)
Room(o) ==
  /\ \A c \in Conns : Len(tasks[c]) < MaxTasks /\ Len(written[c]) < MaxTasks
  /\ o.op = "add" =>
       \A c \in Conns : NextSerial(c) + Cardinality({u \in Threads : call[u] # NoCall}) \in Ids

CallSettings(t, o) ==
  /\ pc[t] = "body"
  /\ res[t] # None
  /\ call[t] = NoCall
  /\ Room(o)
  /\ call' = [call EXCEPT ![t] = o]
  /\ UNCHANGED <<poolVars, db, written, lost, tree, tasks, fates, maxSerial, writer, todo, raced>>

(* writeLock().lock(), then resolve and getNextSerial.  The test of the id *)
(* is the bound again: Room has left one for every thread inside a call.   *)
LockSettings(t) ==
  /\ call[t] # NoCall
  /\ writer = None
  /\ call[t].op = "add" => NextSerial(res[t]) \in Ids
  /\ \E plan \in Plans(res[t], call[t]) :
       IF plan = <<>>
       THEN call' = [call EXCEPT ![t] = NoCall] /\ UNCHANGED <<writer, todo, maxSerial>>
       ELSE /\ writer' = t
            /\ todo' = [todo EXCEPT ![t] = plan]
            /\ maxSerial' = IF call[t].op = "add" THEN plan[1].id ELSE maxSerial
            /\ UNCHANGED call
  /\ UNCHANGED <<poolVars, db, written, lost, tree, tasks, fates, raced>>

Unlock(t) ==
  /\ writer' = None
  /\ call' = [call EXCEPT ![t] = NoCall]

RowsFree(c, s) ==
  RowLocks => \A d \in Conns \ {c} : Touched(s) \cap TouchedBy(d) = {}

Accepted(c, s) ==
  RowLocks => Consistent(db, Append(written[c], s))

NeverUnlockedBug(t) ==
  /\ writer = t
  /\ todo[t] # <<>>
  /\ written' = [written EXCEPT ![res[t]] = Append(@, Head(todo[t]))]
  /\ tasks' = [tasks EXCEPT ![res[t]] = Append(@, Head(todo[t]))]
  /\ fates' = [fates EXCEPT ![res[t]] = @ \cup {"open"}]
  /\ todo' = [todo EXCEPT ![t] = Tail(@)]
  /\ UNCHANGED <<poolVars, db, lost, tree, maxSerial, writer, call, raced>>

VisibleAtOnceBug(t) ==
  LET c == res[t]
      s == Head(todo[t])
  IN  /\ writer = t
      /\ written' = [written EXCEPT ![c] = Append(@, s)]
      /\ tree' = Apply(tree, s)
      /\ todo' = [todo EXCEPT ![t] = Tail(@)]
      /\ IF Tail(todo[t]) = <<>> THEN Unlock(t) ELSE UNCHANGED <<writer, call>>
      /\ UNCHANGED <<poolVars, db, lost, tasks, fates, maxSerial, raced>>

(* dbms.execute(...) and tasks.add(...), the write lock held.              *)
Execute(t) ==
  LET c == res[t]
      s == Head(todo[t])
  IN  /\ writer = t /\ todo[t] # <<>>
      /\ ~closed[c]
      /\ RowsFree(c, s)
      /\ Accepted(c, s)
      /\ written' = [written EXCEPT ![c] = Append(@, s)]
      /\ tasks' = [tasks EXCEPT ![c] = Append(@, s)]
      /\ fates' = [fates EXCEPT ![c] = @ \cup {"open"}]
      /\ todo' = [todo EXCEPT ![t] = Tail(@)]
      /\ IF Tail(todo[t]) = <<>> THEN Unlock(t) ELSE UNCHANGED <<writer, call>>
      /\ UNCHANGED <<poolVars, db, lost, tree, maxSerial, raced>>

NoUnlockOnErrorBug(t) ==
  /\ writer = t
  /\ "service" \in Faults
  /\ todo' = [todo EXCEPT ![t] = <<>>]
  /\ BodyThrows(t)
  /\ UNCHANGED <<db, written, lost, tree, tasks, fates, maxSerial, writer, call, raced>>

(* The statement throws; the finally block unlocks and the request aborts. *)
ExecuteFails(t) ==
  LET c == res[t]
      s == Head(todo[t])
  IN  /\ writer = t /\ todo[t] # <<>>
      /\ "service" \in Faults \/ closed[c] \/ (RowsFree(c, s) /\ ~Accepted(c, s))
      /\ Unlock(t)
      /\ todo' = [todo EXCEPT ![t] = <<>>]
      /\ BodyThrows(t)
      /\ UNCHANGED <<db, written, lost, tree, tasks, fates, maxSerial, raced>>
-------------------------------------------------------------------------------
(* The pool's steps, with what they do to transactions and to the tree.    *)

Quiet(step) == step /\ UNCHANGED settingVars
OfBody(t, step) == call[t] = NoCall /\ Quiet(step)

Discard(c) ==
  /\ written' = [written EXCEPT ![c] = <<>>]
  /\ lost' = [lost EXCEPT ![c] = {}]

(* A connection that is opened again starts without a transaction.         *)
Take(t, reconnect) ==
  /\ TakeFree(t, reconnect)
  /\ IF reconnect THEN Discard(found[t]) ELSE UNCHANGED <<written, lost>>
  /\ raced' = (raced \/ \E u \in Threads : Notifying(u) /\ res[u] = found[t])
  /\ UNCHANGED <<db, tree, tasks, fates, maxSerial, writer, call, todo>>

FailToReconnect(t) ==
  /\ ReconnectFails(t)
  /\ Discard(found[t])
  /\ UNCHANGED <<db, tree, tasks, fates, maxSerial, writer, call, todo, raced>>

BreakConnection(t) ==
  /\ call[t] = NoCall
  /\ Break(t)
  /\ Discard(res[t])
  /\ UNCHANGED <<db, tree, tasks, fates, maxSerial, writer, call, todo, raced>>

Committable(c) ==
  /\ Consistent(db, written[c])
  /\ RowLocks \/ lost[c] \cap TouchedBy(c) = {}

(* A thread whose transaction is committed and whose tasks are not applied.*)
Behind(t) == pc[t] \in {"free", "notify"} /\ tasks[res[t]] # <<>>

(* The transaction becomes part of the table.                              *)
CommitWritten(c) ==
  /\ Committable(c)
  /\ db' = ApplyAll(db, written[c])
  /\ written' = [written EXCEPT ![c] = <<>>]
  /\ lost' = [d \in Conns |-> IF d = c \/ written[d] = <<>> THEN {}
                              ELSE lost[d] \cup WrittenBy(c)]
  /\ Settle(c, "committed")

Commit(t) ==
  LET c == res[t]
  IN  /\ CommitOk(t)
      /\ CommitWritten(c)
      /\ raced' = (raced \/ (written[c] # <<>> /\ \E u \in Threads : Behind(u)))
      /\ UNCHANGED <<tree, tasks, maxSerial, writer, call, todo>>

(* A conflict found at commit, or a failure: the database rolls back.      *)
CommitRejected(t) ==
  LET c == res[t]
  IN  /\ CommitThrows(t)
      /\ ConnectionFails(t) \/ ~Committable(c)
      /\ Discard(c)
      /\ Settle(c, "rolledback")
      /\ raced' = (raced \/ tasks[c] # <<>>)
      /\ UNCHANGED <<db, tree, tasks, maxSerial, writer, call, todo>>

(* Many services, and every harvester, call Dbms.commit between their      *)
(* changes (AbstractHarvester.java:203): no listener is told of it.        *)
CommitInBody(t) ==
  LET c == res[t]
  IN  /\ BodyCommits
      /\ pc[t] = "body"
      /\ call[t] = NoCall
      /\ c # None
      /\ written[c] # <<>>
      /\ CommitWritten(c)
      /\ raced' = TRUE
      /\ UNCHANGED <<poolVars, tree, tasks, maxSerial, writer, call, todo>>

CommitInBodyRejected(t) ==
  LET c == res[t]
  IN  /\ BodyCommits
      /\ BodyThrows(t)
      /\ call[t] = NoCall
      /\ c # None
      /\ ConnectionFails(t) \/ ~Committable(c)
      /\ Discard(c)
      /\ Settle(c, "rolledback")
      /\ UNCHANGED <<db, tree, tasks, maxSerial, writer, call, todo, raced>>

Rollback(t) ==
  /\ RollbackOk(t)
  /\ Discard(res[t])
  /\ Settle(res[t], "rolledback")
  /\ UNCHANGED <<db, tree, tasks, maxSerial, writer, call, todo, raced>>

(* A rollback that fails on a live connection leaves its transaction open. *)
RollbackSwallowed(t) ==
  LET c == res[t]
  IN  /\ RollbackFails(t)
      /\ IF closed[c] THEN Discard(c) ELSE UNCHANGED <<written, lost>>
      /\ Settle(c, "rolledback")
      /\ raced' = (raced \/ (~closed[c] /\ written[c] # <<>>))
      /\ UNCHANGED <<db, tree, tasks, maxSerial, writer, call, todo>>

(* flush(resource, commit), from the listener of the settings manager: the *)
(* tasks of the connection leave the list and, on commit, are applied.     *)
AppliedOnAbortBug(t) ==
  LET c == res[t]
  IN  /\ writer = None
      /\ Notify(t)
      /\ tasks' = [tasks EXCEPT ![c] = <<>>]
      /\ fates' = [fates EXCEPT ![c] = {}]
      /\ tree' = ApplyAll(tree, tasks[c])
      /\ UNCHANGED <<db, written, lost, maxSerial, writer, call, todo, raced>>

Flush(t) ==
  LET c == res[t]
  IN  /\ writer = None
      /\ Notify(t)
      /\ tasks' = [tasks EXCEPT ![c] = <<>>]
      /\ fates' = [fates EXCEPT ![c] = {}]
      /\ tree' = IF pc[t] = "notify" THEN ApplyAll(tree, tasks[c]) ELSE tree
      /\ UNCHANGED <<db, written, lost, maxSerial, writer, call, todo, raced>>
-------------------------------------------------------------------------------
ThreadStep(t) ==
  \/ Quiet(BeginRequest(t)) \/ Quiet(EnterOpen(t))
  \/ OfBody(t, CallOpen(t)) \/ OfBody(t, Return(t)) \/ OfBody(t, Throw(t))
  \/ \E c \in Conns : Quiet(SkipLocked(t, c)) \/ Quiet(FindFree(t, c))
  \/ \E reconnect \in BOOLEAN : Take(t, reconnect)
  \/ FailToReconnect(t) \/ Quiet(Retry(t)) \/ Quiet(GiveUp(t))
  \/ \E o \in Operations : CallSettings(t, o)
  \/ LockSettings(t) \/ Execute(t) \/ ExecuteFails(t)
  \/ BreakConnection(t) \/ CommitInBody(t) \/ CommitInBodyRejected(t)
  \/ Quiet(CloseNothing(t)) \/ Commit(t) \/ CommitRejected(t)
  \/ Quiet(Free(t)) \/ Quiet(FreeFailed(t)) \/ Flush(t)
  \/ Quiet(AbortNothing(t)) \/ Rollback(t) \/ RollbackSwallowed(t)

Next == \E t \in Threads : ThreadStep(t)

Spec == SettingInit /\ [][Next]_vars

(* As in DbmsPool, running threads go on.  A thread that waits for the     *)
(* settings lock is not assumed to get it in its turn: the lock is not a   *)
(* fair one (SettingManager.java:658).                                     *)
Proceeding(t) ==
  /\ pc[t] \notin {"idle", "opening"}
  /\ ThreadStep(t)
  /\ ~CallOpen(t)
  /\ \A o \in Operations : ~CallSettings(t, o)

FairSpec == Spec /\ \A t \in Threads : WF_vars(Proceeding(t))
-------------------------------------------------------------------------------
(* Every variable ranges over what the fields of the code can hold.        *)
SettingTypeOK ==
  /\ PoolTypeOK
  /\ \A i \in Ids : db[i] \in Row \cup {NoRow} /\ tree[i] \in Row \cup {NoRow}
  /\ \A c \in Conns : /\ written[c] \in Seq(Statement)
                      /\ lost[c] \subseteq Ids
                      /\ tasks[c] \in Seq(Statement)
                      /\ fates[c] \subseteq Fate
  /\ maxSerial \in Ids \cup {0}
  /\ writer \in Threads \cup {None}
  /\ \A t \in Threads : call[t] \in Operations \cup {NoCall} /\ todo[t] \in Seq(Statement)
  /\ \A t \in Threads : (todo[t] # <<>>) = (writer = t)

(* A task whose transaction has not been rolled back is always going to be *)
(* looked at: its connection is in the table of a request that will still  *)
(* close it, abort it or notify the settings manager about it.  When the   *)
(* service has committed some changes itself and the last commit throws,   *)
(* the tasks of the first ones are left behind.                            *)
TasksHaveOwner ==
  \A c \in Conns :
    "open" \in fates[c] \/ ("committed" \in fates[c] /\ ~BodyCommits) =>
      \E t \in Threads : res[t] = c

(* Two open transactions never add a setting with the same id, though the  *)
(* serial is read from the table by whichever adds first.                  *)
Added(c) == {k \in DOMAIN written[c] : written[c][k].kind = "add"}
AddedIdsDistinct ==
  \A c, d \in Conns : \A k \in Added(c), l \in Added(d) :
    written[c][k].id = written[d][l].id => c = d /\ k = l

(* The tree is the table, or one transaction behind it whose tasks lead    *)
(* there, as long as none of these has happened: a connection taken again  *)
(* before its listeners were told (Take), a commit between another's       *)
(* commit and its flush (Commit), a commit that threw (CommitRejected), a  *)
(* commit by the service itself (CommitInBody), a rollback that failed     *)
(* (RollbackSwallowed).  So there is no sixth way for memory and database  *)
(* to diverge.                                                             *)
MemoryFollowsDb ==
  ~raced => /\ \A t \in Threads : Behind(t) => db = ApplyAll(tree, tasks[res[t]])
            /\ (\A t \in Threads : ~Behind(t)) => db = tree

(* "changes follow the rules of transactions" (SettingManager.java:49): no *)
(* change that the database has committed is thrown away by an abort.      *)
CommittedNotDropped ==
  [][\A t \in Threads : pc[t] = "notifyAbort" /\ pc'[t] = "idle" =>
        "committed" \notin fates[res[t]]]_vars

(* "concurrent: many thread can access the settings API at the same time"  *)
(* (SettingManager.java:55): the write lock is not held for ever.          *)
LockReleased == \A t \in Threads : writer = t ~> writer # t

(* One request at a time, the settings keep their contract.                *)
Contract == INSTANCE TransactionalSettings
  WITH Versions <- [Ids -> Row \cup {NoRow}], committed <- db, visible <- tree
ImplementsContract == Contract!SettingsContract
===============================================================================
