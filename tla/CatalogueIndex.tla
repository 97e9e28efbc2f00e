----------------------------- MODULE CatalogueIndex -----------------------------
(***************************************************************************)
(* The Lucene index of the catalogue: the reference-counted IndexWriter of *)
(* LuceneIndexWriterFactory, the indexing, rebuilding and optimising of    *)
(* SearchManager, and the callers in DataManager that keep one document    *)
(* for every row of table Metadata.                                        *)
(*                                                                         *)
(* A thread changes rows, indexes them, and commits last.  What Lucene     *)
(* does is external: a writer holds the lock of the directory, and its     *)
(* changes reach the index when it commits or closes.  A transaction sees  *)
(* the committed rows and its own changes, and is told of a conflict when  *)
(* it commits, as with the database of the distribution.                   *)
(***************************************************************************)
EXTENDS Integers, FiniteSets, SequencesExt

CONSTANTS Threads,  \* the threads of requests and timers
          Ids,      \* the ids that a metadata record may get
          InitIds,  \* the records there are at first
          None,     \* no row, no thread, no writer, no change
          Ops,      \* the operations that are requested
          Faults,   \* what may fail: "open", "build", "close", "optimize", "request"
          MaxDate,  \* bound on the change dates
          MaxGen,   \* bound on the writer factories
          MaxCalls, \* bound on the requests of a behaviour
          MaxCrashes

Single == {"save", "grant", "create", "remove"}
Operations == Single \cup {"massive", "rebuild", "optimize", "timer"}
FaultKinds == {"open", "build", "close", "optimize", "request"}
Gens == 1 .. MaxGen

(* The columns that tell rows apart: changeDate, and the privileges, which *)
(* change without it.                                                      *)
Row == [date : 0 .. MaxDate, rights : {0, 1}]
NewRow == [date |-> 0, rights |-> 0]

(* A request makes one kind of change, to some records.                    *)
Change == [kind : Single, ids : SUBSET Ids, value : 0 .. MaxDate + 1]

ASSUME IndexAssumption ==
  /\ IsFiniteSet(Threads)
  /\ Ids \subseteq Nat /\ IsFiniteSet(Ids)
  /\ InitIds \subseteq Ids
  /\ None \notin Threads \cup Gens \cup Row /\ None \notin Change
  /\ Ops \subseteq Operations
  /\ Faults \subseteq FaultKinds
  /\ {MaxDate, MaxGen, MaxCalls, MaxCrashes} \subseteq Nat
  /\ MaxGen > 0

VARIABLES rows,     \* the committed rows of table Metadata
          given,    \* the ids that SerialFactory does not give out; none before it is used
          docs,     \* the documents of the index, a sequence for each _id
          view,     \* the index with what the open writer has not committed
          lock,     \* the factory whose writer holds write.lock
          current,  \* SearchManager._indexWriter
          count,    \* LuceneIndexWriterFactory._count
          writer,   \* LuceneIndexWriterFactory._writer
          monitor,  \* the owner of the monitor of DataManager
          jobs,     \* the IndexMetadataTasks that have been scheduled
          pc, op,   \* where a thread is, in which operation
          todo,     \* the ids it has still to index or to remove from the index
          doc,      \* the row that it is indexing
          change,   \* the changes of its transaction
          stale,    \* has a conflicting transaction been committed?
          opened,   \* history: the factory it has opened and not closed
          calls, crashes, \* bounds
          raced     \* history: has one of the events of IndexFollowsRows happened?

rowVars == <<rows, given, change, stale>>
luceneVars == <<docs, view, lock, current, count, writer>>
localVars == <<pc, op, todo, doc, opened>>
boundVars == <<calls, crashes>>
vars == <<rowVars, luceneVars, localVars, boundVars, monitor, jobs, raced>>

IndexInit ==
  /\ rows = [i \in Ids |-> IF i \in InitIds THEN NewRow ELSE None]
  /\ given = {}
  /\ docs = [i \in Ids |-> IF i \in InitIds THEN <<NewRow>> ELSE <<>>]
  /\ view = docs
  /\ lock = None
  /\ current = 1
  /\ count = [g \in Gens |-> 0]
  /\ writer = [g \in Gens |-> "none"]
  /\ monitor = None
  /\ jobs = <<>>
  /\ pc = [t \in Threads |-> "idle"]
  /\ op = [t \in Threads |-> None]
  /\ todo = [t \in Threads |-> <<>>]
  /\ doc = [t \in Threads |-> None]
  /\ change = [t \in Threads |-> None]
  /\ stale = [t \in Threads |-> FALSE]
  /\ opened = [t \in Threads |-> None]
  /\ calls = 0 /\ crashes = 0
  /\ raced = FALSE
-------------------------------------------------------------------------------
(* Transactions.                                                           *)

(* UPDATE of a row that is not there does nothing.                         *)
Changed(row, c) ==
  IF c.kind = "create" THEN NewRow
  ELSE IF c.kind = "remove" \/ row = None THEN None
  ELSE IF c.kind = "save" THEN [row EXCEPT !.date = c.value]
  ELSE [row EXCEPT !.rights = c.value]

After(c) == [i \in Ids |-> IF c # None /\ i \in c.ids THEN Changed(rows[i], c) ELSE rows[i]]
Seen(t) == After(change[t])
Changes(t, i) == change[t] # None /\ i \in change[t].ids

(* Rights are rows of their own (OperationAllowed), and refer to the row   *)
(* of the record.                                                          *)
Conflict(c, d) ==
  /\ c # None /\ d # None
  /\ c.ids \cap d.ids # {}
  /\ c.kind = d.kind \/ "remove" \in {c.kind, d.kind}

Drop(t) ==
  /\ change' = [change EXCEPT ![t] = None]
  /\ stale' = [stale EXCEPT ![t] = FALSE]
-------------------------------------------------------------------------------
(* Control of a thread.                                                    *)

Goto(t, place) == pc' = [pc EXCEPT ![t] = place]
Leave(t) ==
  /\ pc' = [pc EXCEPT ![t] = "idle"]
  /\ op' = [op EXCEPT ![t] = None]
  /\ todo' = [todo EXCEPT ![t] = <<>>]
  /\ doc' = [doc EXCEPT ![t] = None]
ReleaseMonitor(t) == monitor' = IF monitor = t THEN None ELSE monitor

(* The operations between startIndexGroup and endIndexGroup, and those     *)
(* that only take documents out of the index.                              *)
Group(t) == op[t] \in {"massive", "job"}
Removes(t) == op[t] \in {"remove", "rebuild"}
Optimizes(t) == op[t] \in {"optimize", "timer"}

(* Where an operation that holds the writer goes on to.                    *)
AfterOpen(t) ==
  CASE Group(t) -> "read"
    [] Optimizes(t) -> "optimize"
    [] OTHER -> "delete"

(* The end of a request: a transaction that has changed something, or      *)
(* nothing to commit.                                                      *)
Finish(t) ==
  /\ ReleaseMonitor(t)
  /\ IF change[t] = None THEN Leave(t) ELSE Goto(t, "commit") /\ UNCHANGED <<op, todo, doc>>

(* The next record of a group; with the last one endIndexGroup.            *)
NextRecord(t) ==
  /\ todo' = [todo EXCEPT ![t] = Tail(@)]
  /\ Goto(t, IF Group(t) /\ Len(todo[t]) > 1 THEN "read" ELSE "close")
-------------------------------------------------------------------------------
(* Requests.  DataManager holds its monitor while it saves or removes a    *)
(* record, index included, but not while it does the rest.  A request that *)
(* waits for the monitor has not begun.                                    *)

(* The order of the records of a selection or of a table is not defined.   *)
InOrder(ids) == SetToSeq(ids)

Existing == {i \in Ids : rows[i] # None}

Begin(t, o) ==
  /\ pc[t] = "idle"
  /\ o \in Ops
  /\ calls < MaxCalls
  /\ calls' = calls + 1
  /\ op' = [op EXCEPT ![t] = o]

(* The statements come first, the index next, the commit last.             *)
Execute(t, kind, ids, value) ==
  /\ change' = [change EXCEPT ![t] = [kind |-> kind, ids |-> ids, value |-> value]]
  /\ todo' = [todo EXCEPT ![t] = InOrder(ids)]
  /\ UNCHANGED <<rows, stale, luceneVars, doc, opened, crashes, jobs, raced>>

Save(t) ==
  /\ Begin(t, "save")
  /\ monitor = None /\ monitor' = t
  /\ \E i \in Existing : rows[i].date < MaxDate /\ Execute(t, "save", {i}, rows[i].date + 1)
  /\ Goto(t, "read")
  /\ UNCHANGED given

RemoveRecord(t) ==
  /\ Begin(t, "remove")
  /\ monitor = None /\ monitor' = t
  /\ \E i \in Existing : Execute(t, "remove", {i}, 0)
  /\ Goto(t, "open")
  /\ UNCHANGED given

Grant(t) ==
  /\ Begin(t, "grant")
  /\ \E i \in Existing : Execute(t, "grant", {i}, 1 - rows[i].rights)
  /\ Goto(t, "read")
  /\ UNCHANGED <<given, monitor>>

Massive(t) ==
  /\ Begin(t, "massive")
  /\ \E ids \in (SUBSET Existing) \ {{}} : Execute(t, "grant", ids, 1)
  /\ Goto(t, "open")
  /\ UNCHANGED <<given, monitor>>

(* SerialFactory counts on from the greatest id of the table, which it     *)
(* reads when it is used for the first time after a start.                 *)
Taken == IF given = {} THEN {i \in Ids : \E j \in Existing : i <= j} ELSE given

Create(t) ==
  /\ Begin(t, "create")
  /\ \E i \in Ids \ Taken :
       /\ \A j \in Ids \ Taken : i <= j
       /\ Execute(t, "create", {i}, 0)
       /\ given' = Taken \cup {i}
  /\ Goto(t, "read")
  /\ UNCHANGED monitor

(* The service that optimizes the index, and the timer.                    *)
CallOptimize(t) ==
  /\ \E o \in {"optimize", "timer"} : Begin(t, o)
  /\ Goto(t, "open")
  /\ UNCHANGED <<rowVars, luceneVars, todo, doc, opened, crashes, monitor, jobs, raced>>
-------------------------------------------------------------------------------
(* The writer.  Each step looks up SearchManager._indexWriter again.       *)

WriterOpen == writer[current] = "open"

(* openWriter: the first user creates the IndexWriter, for which the       *)
(* directory must not be locked.                                           *)
CanOpen == count[current] > 0 \/ lock = None

Open(t) ==
  /\ pc[t] = "open"
  /\ CanOpen
  /\ count' = [count EXCEPT ![current] = @ + 1]
  /\ IF count[current] = 0
     THEN /\ writer' = [writer EXCEPT ![current] = "open"]
          /\ lock' = current
          /\ view' = docs
     ELSE UNCHANGED <<writer, lock, view>>
  /\ opened' = [opened EXCEPT ![t] = current]
  /\ Goto(t, AfterOpen(t))
  /\ UNCHANGED <<rowVars, docs, current, op, todo, doc, boundVars, monitor, jobs, raced>>

(* Whoever indexes single records goes on without (DataManager:303);       *)
(* others are rolled back.  The timer goes on to optimize, and to close.   *)
OpenFails(t) ==
  /\ pc[t] = "open"
  /\ count[current] = 0
  /\ lock # None \/ "open" \in Faults
  /\ raced' = TRUE
  /\ CASE op[t] = "timer" -> Goto(t, "optimize") /\ UNCHANGED <<monitor, op, todo, doc, change, stale>>
       [] op[t] \in {"save", "grant", "create"} -> Finish(t) /\ UNCHANGED <<change, stale>>
       [] OTHER -> ReleaseMonitor(t) /\ Leave(t) /\ Drop(t)
  /\ UNCHANGED <<rows, given, luceneVars, opened, boundVars, jobs>>

(* closeWriter.                                                            *)
CloseOnZeroBug ==
  /\ count' = [count EXCEPT ![current] = @ - 1]
  /\ IF count[current] = 1
     THEN writer' = [writer EXCEPT ![current] = "closed"] /\ lock' = None
     ELSE UNCHANGED <<writer, lock>>
  /\ docs' = view

CloseNotCountedBug ==
  IF count[current] > 0
  THEN /\ count' = [count EXCEPT ![current] = @ - 1]
       /\ writer' = [writer EXCEPT ![current] = "closed"]
       /\ lock' = None
       /\ docs' = view
  ELSE UNCHANGED <<count, writer, lock, docs>>

CloseWriter ==
  IF count[current] > 0
  THEN /\ count' = [count EXCEPT ![current] = @ - 1]
       /\ IF count[current] = 1
          THEN writer' = [writer EXCEPT ![current] = "closed"] /\ lock' = None
          ELSE UNCHANGED <<writer, lock>>
       /\ docs' = view
  ELSE UNCHANGED <<count, writer, lock, docs>>

(* The record after this one, for those that take several out of the index *)
(* one by one, or the end.                                                 *)
AfterClose(t) ==
  IF Removes(t) /\ todo[t] # <<>>
  THEN Goto(t, "open") /\ UNCHANGED <<op, todo, doc, monitor>>
  ELSE Finish(t)

Close(t) ==
  /\ pc[t] = "close"
  /\ CloseWriter
  /\ opened' = [opened EXCEPT ![t] = None]
  /\ AfterClose(t)
  /\ UNCHANGED <<rowVars, view, current, boundVars, jobs, raced>>

(* The user is gone, but nothing is committed and the writer keeps its     *)
(* lock; the exception goes the way of one in openWriter.                  *)
CloseFails(t) ==
  /\ pc[t] = "close"
  /\ "close" \in Faults
  /\ count[current] > 0
  /\ count' = [count EXCEPT ![current] = @ - 1]
  /\ opened' = [opened EXCEPT ![t] = None]
  /\ raced' = TRUE
  /\ IF op[t] \in {"save", "grant", "create"}
     THEN Finish(t) /\ UNCHANGED <<change, stale>>
     ELSE ReleaseMonitor(t) /\ Leave(t) /\ Drop(t)
  /\ UNCHANGED <<rows, given, docs, view, lock, current, writer, boundVars, jobs>>
-------------------------------------------------------------------------------
(* Indexing: the row is read, its old document removed, its new one built  *)
(* and added.                                                              *)

(* indexMetadataI; a row that has gone is an exception, and is skipped.    *)
Read(t) ==
  /\ pc[t] = "read"
  /\ LET row == Seen(t)[Head(todo[t])]
     IN  IF row # None
         THEN /\ doc' = [doc EXCEPT ![t] = row]
              /\ Goto(t, IF Group(t) THEN "delete" ELSE "open")
              /\ UNCHANGED <<op, todo, monitor>>
         ELSE IF Group(t)
         THEN NextRecord(t) /\ UNCHANGED <<op, doc, monitor>>
         ELSE Finish(t)
  /\ UNCHANGED <<rowVars, luceneVars, opened, boundVars, jobs, raced>>

(* delete() opens and closes the writer by itself, and so commits.         *)
Delete(t) ==
  /\ pc[t] = "delete"
  /\ WriterOpen
  /\ view' = [view EXCEPT ![Head(todo[t])] = <<>>]
  /\ docs' = IF Group(t) \/ Removes(t) THEN docs ELSE view'
  /\ IF Removes(t)
     THEN NextRecord(t)
     ELSE Goto(t, "add") /\ UNCHANGED todo
  /\ UNCHANGED <<rowVars, lock, current, count, writer, op, doc, opened, boundVars,
                 monitor, jobs, raced>>

(* A document that is out of date already, or that may be soon, or that    *)
(* joins another of the same record.                                       *)
LateFor(t, i) ==
  \/ doc[t] # Seen(t)[i]
  \/ view[i] # <<>>
  \/ \E u \in Threads \ {t} : Changes(u, i)

Add(t) ==
  /\ pc[t] = "add"
  /\ WriterOpen
  /\ LET i == Head(todo[t])
     IN  /\ view' = [view EXCEPT ![i] = Append(@, doc[t])]
         /\ raced' = (raced \/ LateFor(t, i))
  /\ NextRecord(t)
  /\ UNCHANGED <<rowVars, docs, lock, current, count, writer, op, doc, opened,
                 boundVars, monitor, jobs>>

(* The document cannot be built, or the writer is not there any more:      *)
(* "corrupt/invalid - ignoring it" (DataManager:303).  A removal throws,   *)
(* and is rolled back.                                                     *)
NotIndexed(t) ==
  /\ \/ pc[t] \in {"delete", "add"} /\ ~WriterOpen
     \/ pc[t] = "add" /\ "build" \in Faults
  /\ raced' = TRUE
  /\ IF Removes(t)
     THEN /\ Goto(t, "close")
          /\ todo' = [todo EXCEPT ![t] = <<>>]
          /\ Drop(t)
     ELSE NextRecord(t) /\ UNCHANGED <<change, stale>>
  /\ UNCHANGED <<rows, given, luceneVars, op, doc, opened, boundVars, monitor, jobs>>

Optimize(t) ==
  /\ pc[t] = "optimize"
  /\ WriterOpen
  /\ Goto(t, "close")
  /\ UNCHANGED <<rowVars, luceneVars, op, todo, doc, opened, boundVars, monitor, jobs, raced>>

(* The service does not close the writer then; the timer does.             *)
OptimizeFails(t) ==
  /\ pc[t] = "optimize"
  /\ ~WriterOpen \/ "optimize" \in Faults
  /\ IF op[t] = "timer"
     THEN Goto(t, "close") /\ UNCHANGED <<op, todo, doc, opened>>
     ELSE Leave(t) /\ opened' = [opened EXCEPT ![t] = None]
  /\ UNCHANGED <<rowVars, luceneVars, boundVars, monitor, jobs, raced>>
-------------------------------------------------------------------------------
(* rebuildIndex: the test of isOpen, a new index in the directory, a new   *)
(* factory, and DataManager.init, which schedules a task for all rows and  *)
(* removes the documents without one.                                      *)
(* With the writer open the answer is no, and that is all.                 *)
Rebuilding == {t \in Threads : pc[t] \in {"erase", "swap"}}

CheckOpen(t) ==
  /\ Begin(t, "rebuild")
  /\ current + Cardinality(Rebuilding) < MaxGen
  /\ count[current] = 0
  /\ Goto(t, "erase")
  /\ UNCHANGED <<rowVars, luceneVars, todo, doc, opened, crashes, monitor, jobs, raced>>

Erase(t) ==
  /\ pc[t] = "erase"
  /\ lock = None
  /\ docs' = [i \in Ids |-> <<>>]
  /\ view' = docs'
  /\ Goto(t, "swap")
  /\ UNCHANGED <<rowVars, lock, current, count, writer, op, todo, doc, opened,
                 boundVars, monitor, jobs, raced>>

(* The directory is locked.                                                *)
EraseFails(t) ==
  /\ pc[t] = "erase"
  /\ lock # None
  /\ Leave(t)
  /\ UNCHANGED <<rowVars, luceneVars, opened, boundVars, monitor, jobs, raced>>

Swap(t) ==
  /\ pc[t] = "swap"
  /\ current' = current + 1
  /\ raced' = (raced \/ \E u \in Threads : opened[u] # None)
  /\ Goto(t, "init")
  /\ UNCHANGED <<rowVars, docs, view, lock, count, writer, op, todo, doc, opened,
                 boundVars, monitor, jobs>>

Scheduled(ids) == IF ids = {} THEN jobs ELSE Append(jobs, InOrder(ids))

(* The reader that init uses was opened with the new index, or has been    *)
(* refreshed since (LuceneIndexReaderFactory.java:34).                     *)
InitOnlyNewBug(t) ==
  /\ pc[t] = "init"
  /\ monitor = None
  /\ \E indexed \in {{}, {i \in Ids : docs[i] # <<>>}} :
       LET leftover == indexed \ Existing
       IN  /\ jobs' = Scheduled({i \in Existing \ indexed : rows[i].date = 0})
           /\ todo' = [todo EXCEPT ![t] = InOrder(leftover)]
           /\ IF leftover = {}
              THEN /\ Goto(t, "idle") /\ op' = [op EXCEPT ![t] = None]
                   /\ UNCHANGED monitor
              ELSE Goto(t, "open") /\ monitor' = t /\ UNCHANGED op
  /\ raced' = (raced \/ \E u \in Threads : change[u] # None)
  /\ UNCHANGED <<rowVars, luceneVars, doc, opened, boundVars>>

Init(t) ==
  /\ pc[t] = "init"
  /\ monitor = None
  /\ jobs' = Scheduled(Existing)
  /\ \E indexed \in {{}, {i \in Ids : docs[i] # <<>>}} :
       LET leftover == indexed \ Existing
       IN  /\ todo' = [todo EXCEPT ![t] = InOrder(leftover)]
           /\ IF leftover = {}
              THEN /\ Goto(t, "idle") /\ op' = [op EXCEPT ![t] = None]
                   /\ UNCHANGED monitor
              ELSE Goto(t, "open") /\ monitor' = t /\ UNCHANGED op
  /\ raced' = (raced \/ \E u \in Threads : change[u] # None)
  /\ UNCHANGED <<rowVars, luceneVars, doc, opened, boundVars>>

(* The timer runs an IndexMetadataTask.                                    *)
StartJob(t) ==
  /\ pc[t] = "idle"
  /\ jobs # <<>>
  /\ jobs' = Tail(jobs)
  /\ todo' = [todo EXCEPT ![t] = Head(jobs)]
  /\ op' = [op EXCEPT ![t] = "job"]
  /\ Goto(t, "open")
  /\ UNCHANGED <<rowVars, luceneVars, doc, opened, boundVars, monitor, raced>>
-------------------------------------------------------------------------------
(* The end of a request, and of the program.                               *)

Commit(t) ==
  /\ pc[t] = "commit"
  /\ ~stale[t]
  /\ rows' = Seen(t)
  /\ change' = [change EXCEPT ![t] = None]
  /\ stale' = [u \in Threads |-> u # t /\ (stale[u] \/ Conflict(change[t], change[u]))]
  /\ Leave(t)
  /\ UNCHANGED <<given, luceneVars, opened, boundVars, monitor, jobs, raced>>

(* The index has been changed already: the commit is refused, or something *)
(* after indexMetadata throws, as the validation in updateMetadata.        *)
Abort(t) ==
  /\ pc[t] = "commit"
  /\ stale[t] \/ "request" \in Faults
  /\ Drop(t)
  /\ raced' = TRUE
  /\ Leave(t)
  /\ UNCHANGED <<rows, given, luceneVars, opened, boundVars, monitor, jobs>>

(* A crash, and DataManager.init when the application starts again: a row  *)
(* is indexed when the date of its document, the last one if there are     *)
(* several, is not its own.                                                *)
UpToDate(i) == docs[i] # <<>> /\ Last(docs[i]).date = rows[i].date

RestartKeepsAllBug ==
  /\ crashes < MaxCrashes
  /\ crashes' = crashes + 1
  /\ docs' = docs
  /\ jobs' = LET ids == {i \in Existing : ~UpToDate(i)}
             IN  IF ids = {} THEN <<>> ELSE <<InOrder(ids)>>
  /\ raced' = (raced \/ \E i \in Existing : UpToDate(i) /\ docs[i] # <<rows[i]>>)
  /\ change' = [t \in Threads |-> None] /\ stale' = [t \in Threads |-> FALSE]
  /\ view' = docs' /\ lock' = None
  /\ current' = 1 /\ count' = [g \in Gens |-> 0] /\ writer' = [g \in Gens |-> "none"]
  /\ monitor' = None
  /\ pc' = [t \in Threads |-> "idle"] /\ op' = [t \in Threads |-> None]
  /\ todo' = [t \in Threads |-> <<>>] /\ doc' = [t \in Threads |-> None]
  /\ opened' = [t \in Threads |-> None]
  /\ given' = {}
  /\ UNCHANGED <<rows, calls>>

Restart ==
  /\ crashes < MaxCrashes
  /\ crashes' = crashes + 1
  /\ docs' = [i \in Ids |-> IF i \in Existing THEN docs[i] ELSE <<>>]
  /\ jobs' = LET ids == {i \in Existing : ~UpToDate(i)}
             IN  IF ids = {} THEN <<>> ELSE <<InOrder(ids)>>
  /\ raced' = (raced \/ \E i \in Existing : UpToDate(i) /\ docs[i] # <<rows[i]>>)
  /\ change' = [t \in Threads |-> None] /\ stale' = [t \in Threads |-> FALSE]
  /\ view' = docs' /\ lock' = None
  /\ current' = 1 /\ count' = [g \in Gens |-> 0] /\ writer' = [g \in Gens |-> "none"]
  /\ monitor' = None
  /\ pc' = [t \in Threads |-> "idle"] /\ op' = [t \in Threads |-> None]
  /\ todo' = [t \in Threads |-> <<>>] /\ doc' = [t \in Threads |-> None]
  /\ opened' = [t \in Threads |-> None]
  /\ given' = {}
  /\ UNCHANGED <<rows, calls>>
-------------------------------------------------------------------------------
Request(t) ==
  \/ Save(t) \/ Grant(t) \/ Massive(t) \/ RemoveRecord(t) \/ Create(t)
  \/ CheckOpen(t) \/ CallOptimize(t)

Proceed(t) ==
  \/ Open(t) \/ OpenFails(t) \/ Close(t) \/ CloseFails(t)
  \/ Read(t) \/ Delete(t) \/ Add(t) \/ NotIndexed(t) \/ Optimize(t) \/ OptimizeFails(t)
  \/ Erase(t) \/ EraseFails(t) \/ Swap(t) \/ Init(t)
  \/ StartJob(t) \/ Commit(t) \/ Abort(t)

IndexNext ==
  \/ \E t \in Threads : Request(t) \/ Proceed(t)
  \/ Restart

IndexSpec == IndexInit /\ [][IndexNext]_vars

(* A thread that works goes on, and timers fire.                           *)
FairIndexSpec == IndexSpec /\ \A t \in Threads : WF_vars(Proceed(t))
-------------------------------------------------------------------------------
(* Every variable ranges over what the fields of the code can hold; the    *)
(* reference count of a writer is never negative, however many close it.   *)
IndexTypeOK ==
  /\ rows \in [Ids -> Row \cup {None}]
  /\ given \subseteq Ids
  /\ \A i \in Ids : docs[i] \in Seq(Row) /\ view[i] \in Seq(Row)
  /\ lock \in Gens \cup {None}
  /\ current \in Gens
  /\ count \in [Gens -> Nat]
  /\ writer \in [Gens -> {"none", "open", "closed"}]
  /\ monitor \in Threads \cup {None}
  /\ jobs \in Seq(Seq(Ids))
  /\ pc \in [Threads -> {"idle", "read", "open", "delete", "add", "optimize",
                          "close", "erase", "swap", "init", "commit"}]
  /\ op \in [Threads -> Operations \cup {"job", None}]
  /\ \A t \in Threads : /\ todo[t] \in Seq(Ids)
                        /\ doc[t] \in Row \cup {None}
                        /\ change[t] \in Change \cup {None}
                        /\ stale[t] \in BOOLEAN
                        /\ opened[t] \in Gens \cup {None}
  /\ calls \in 0 .. MaxCalls /\ crashes \in 0 .. MaxCrashes
  /\ raced \in BOOLEAN

(* A thread that has opened the writer and not closed it finds it open,    *)
(* whoever closes it meanwhile (LuceneIndexWriterFactory.java:52), unless  *)
(* a rebuild has put another factory in its place.                         *)
WriterUsable == \A t \in Threads : opened[t] = current => WriterOpen

(* When nothing is under way there is one document for every row and none  *)
(* without, and it shows what is committed, unless one of these events has *)
(* happened: a record was indexed by two threads at once, or changed by    *)
(* another before that one committed (Add); a request that had indexed its *)
(* changes was rolled back (Abort); the index was rebuilt while a thread   *)
(* had the writer (Swap) or had uncommitted changes (Init); a record could *)
(* not be indexed (OpenFails, CloseFails, NotIndexed); a crash lost        *)
(* documents of which the date says that they are up to date (Restart).    *)
AtRest == jobs = <<>> /\ \A t \in Threads : pc[t] = "idle"
IndexFollowsRows ==
  AtRest /\ ~raced =>
    \A i \in Ids : docs[i] = IF rows[i] = None THEN <<>> ELSE <<rows[i]>>

(* A record that searches do not find will be found again: after a save    *)
(* has removed its document, a rebuild has erased them all, or a crash.    *)
RecordsReappear ==
  \A i \in Ids : rows[i] # None /\ docs[i] = <<>> ~> rows[i] = None \/ docs[i] # <<>> \/ raced

(* "Cannot rebuild index while it is being updated"                        *)
(* (SearchManager.java:999): nobody has the writer of a factory that a     *)
(* rebuild has replaced.                                                   *)
RebuildAlone == \A t \in Threads : opened[t] \in {None, current}
===============================================================================
