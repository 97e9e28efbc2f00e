# GeoNetwork: TLA+ models, model checking and proofs

GeoNetwork is a catalogue of geographic metadata: a Java web application
(`web/`) on top of a small service framework (`jeeves/`), a relational
database, a Lucene index and a spatial index. Nearly all of its logic runs in
concurrent threads: one per HTTP request, one per scheduled job, one per
harvester, plus timers and index threads. They share the connection pool, the
trees and caches kept in memory, and the indexes. This directory holds models
of those shared parts, what TLC checks of them on small instances, and what
TLAPS proves of them for instances of any size.

Paths below are relative to the repository; `K/` stands for
`web/src/main/java/org/fao/geonet/kernel/` and `J/` for
`jeeves/src/main/java/jeeves/`.

## 1. Inventory

| Part | State it keeps | Operations | Interacts with | What is hard |
|---|---|---|---|---|
| Connection pool, `J/resources/dbms/DbmsPool.java`, `Dbms.java` | `htDbms`: connection -> in use; `reconnectTime` | open (synchronized, waits inside the monitor), close, abort, listeners | every thread; tells `SettingManager` about commits and aborts | releases run outside the monitor; commit, rollback, reconnect can each fail; listeners run after the connection is free |
| Resource table of a request, `J/server/resources/ResourceManager.java`, end of a request, `J/server/dispatchers/ServiceInfo.java` | `htResources` | open, close, abort; exec then close, abort when either throws | pool | abort follows a close that failed half way |
| Settings, `K/setting/` | tree of `Setting`, task list, serial, read/write lock; table Settings | setName, setValue(s), add, remove, removeChildren, flush | pool (listener), database | two stores updated at different times, by connection rather than by transaction |
| Harvesters, `K/harvest/` | one object per harvesting node: status, executor thread, last error; node settings; two hash maps of the manager | add, update, remove, start, stop, run, invoke; the executor's loop | settings, pool, index, DataManager | a thread that runs for hours while users start, stop and delete it |
| Lucene writer and reader, `K/search/LuceneIndex*Factory.java`, `SearchManager.java` | reference-counted writer, current reader; optimiser timer | open/close writer, add, delete, commit, optimise, rebuild | DataManager, harvesters, timers | nested and concurrent openings; a rebuild that races with updates; failures between open and close |
| Spatial index, `SearchManager.Spatial`, `K/search/spatial/SpatialIndexWriter.java` | buffered writes, committer timer, quad tree | index, delete, commit, close, reset | SearchManager | a timer commits what request threads write |
| Metadata edits, `K/DataManager.java`, `K/EditLib.java`, `services/metadata/`, `services/thumbnail/` | row of Metadata, per-metadata edit version in memory, copy in the session | edit, update, delete, embedded updates, change detection, thumbnails | database, index, session | optimistic versions kept in memory, committed later; writers that take no version |
| Page of the editor, `webapp/scripts/editor/metadata-editor.js` | the nodes of the page, their controls, the overlay, the listener that is to ask before the page is left | controls + x ^ v, save, reset, finish, cancel; one handler per answer | the embedded updates, by references into the copy of the session | answers out of order, lost or failed; page and session change one after the other |
| Index of the catalogue, `DataManager.init`, `indexMetadata` | index documents against rows | start-up reconciliation, re-index, XLink re-index | Lucene, database | index updated before the row is committed |
| Access control, `K/AccessManager.java` | none; reads OperationAllowed, UserGroups, Metadata | getOperations, canEdit, isOwner, isVisibleToAll | database, session | who may see or edit what: combination of owner, group, profile, network |
| Selections, `K/SelectionManager.java` | sets of ids in the session | add, remove, all, none, close | search | shared by concurrent requests of one session |
| Notifier, `K/notifier/` | table of pending notifications | update, delete, retry job | pool, timers | a timer uses a connection after its request has ended |
| OAI-PMH resumption tokens, `K/oaipmh/ResumptionTokenCache.java` | map token -> results with expiry | store, get, expiry thread | OAI server | size and age limits, a thread that expires entries |
| CSW transaction, `K/csw/services/Transaction.java` | none | insert, update, delete in one request | DataManager | several operations of which one fails |
| Scheduler, `J/server/ScheduleManager.java` | counter per schedule | one loop per second | pool | a job that throws must give its connections back |
| Serial numbers, `J/utils/SerialFactory.java` | next id per table, in memory | getSerial | database | read once and cached |
| Service dispatch, `J/server/dispatchers/ServiceManager.java`, `JeevesEngine.java` | service tables | dispatch, error pages, start, stop | all services | error handling |
| Thesauri, XLink cache, MEF import/export, CSW harvest aligners, Z39.50, GUI services, `cachingxslt`, `oaipmh` XML classes, the rest of the JavaScript client | - | - | - | see "What is not modelled" |

What makes each part correct:

- **Pool and resource table**: a connection has one user; each `open()` ends with
  a live connection or an exception; whatever fails, every connection comes back
  and is released once.
- **Settings**: readers see committed settings, one whole transaction at a time;
  memory and table agree when nothing is under way; ids are unique; the lock is
  released on every path.
- **Harvesters**: one thread per active node, none for an inactive one; the
  status on disk is the one in memory; a terminated thread ends; a removed node
  leaves no records.
- **Lucene writer and catalogue index**: an open writer has a user and a user an
  open writer; at rest the index holds exactly the committed rows, each with its
  latest contents, also after an aborted request, a rebuild or a restart.
- **Spatial index**: what was written is committed some time later, and the tree
  in memory shows it.
- **Metadata edits**: of two editors of one record the second to save is told;
  a save keeps what others have committed.
- **Page of the editor**: it shows the document that the session keeps, its
  controls reach the element they stand at, a save stores what was shown, and
  no mixture of answers takes away the listener that is to ask before work in it
  is left.
- **Access control**: the operations granted are those that owner, groups,
  profile and network call for.
- **Selections**: the selection holds ids of the last search, and no update of a
  concurrent request is lost.
- **Notifier**: each change is notified until it succeeds, and on a connection
  that is still the task's own.
- **Resumption tokens**: the cache stays within its limits; a token that has not
  expired is found.
- **CSW transaction**: all of its operations take effect, or none.
- **Scheduler, serials, dispatch**: a job that throws gives its connections back;
  no id is given out twice between two starts.

The hazards, with the lines where they bite, are in `PROJECT.json`.

## 2. Modules

| Module | Models | Corresponds to |
|---|---|---|
| `ResourcePool` | what a pool of resources promises: a thread obtains a resource nobody owns and gives it back | interface `ResourceProvider` |
| `DbmsPool` | pool, resource table and end of a request; one action per step that another thread can observe | `DbmsPool.open/close/abort`, `ResourceManager`, `ServiceInfo.execService` |
| `DbmsPool_proofs` | theorems about `DbmsPool` | |
| `TransactionalSettings` | the contract of the settings API: readers see committed versions, each as a whole | doc of `SettingManager`, lines 44-61 |
| `SettingManager` | `DbmsPool` composed with the settings: table, open transactions, tree, task list, lock, serial | `SettingManager`, `Setting`, `Task`, `Dbms.commit` |
| `SettingManager_proofs` | theorems about `SettingManager`: its invariants, the ids that `add` gives out, the contract, the types | |
| `Harvester` | one harvesting node: requests, the two monitors, its threads, its settings rows | `HarvestManager`, `AbstractHarvester`, `Executor`, `services/harvesting/Util` |
| `Harvester_proofs` | theorems about `Harvester` | |
| `CatalogueIndex` | the Lucene writer and its reference count, indexing, rebuild, optimization, reconciliation at startup, and the requests and timer tasks that do these | `LuceneIndexWriterFactory`, `SearchManager`, `DataManager.init`, `indexMetadata`, `IndexMetadataTask` |
| `CatalogueIndex_proofs`, `CatalogueIndexRows_proofs` | theorems about `CatalogueIndex` | |
| `EditVersions` | one record and everybody who writes it: pages, their sessions and versions, the thumbnail page, services without a version, removal, restart | `EditLib.getVersion`, `DataManager.getMetadata`, the embedded updates, `updateMetadata(Ext)`, `deleteMetadata`, `manageThumbnail`, `services/metadata/Update`, `services/thumbnail` |
| `EditVersions_proofs` | theorems about `EditVersions` | |
| `EditorSession` | the page of the editor and the document of its session, for one list of elements, with the requests between them | `metadata-editor.js`, the parts of `prototype.js` and `ext-base.js` it rests on, `EditLib`, the embedded updates |
| `EditorSession_proofs`, `EditorPage_proofs` | theorems about `EditorSession`: types and single steps, then what the page shows | |
| `MCDbmsPool`, `MCSettingManager`, `MCHarvester`, `MCCatalogueIndex`, `MCEditVersions`, `MCEditorSession` | instances for TLC | |

Operators whose names end in `Bug` are plausible mistakes in the definition
that follows them. No specification uses them; putting one in the place of its
definition must make a property fail, which shows that the property depends on
that piece of code.

### The pool

A thread is one user of the pool. `pc` says where it is: in the body of a
service, at the monitor of `open()`, inside its enumeration, in one of the
three parts of `close()` (commit, free, tell the listeners) or of `abort()`.
`open()` is cut into one action per connection visited because `close()` and
`abort()` change `htDbms` between two visits: they take no lock. A request whose
commit throws frees the connection, empties its table and then "aborts" the
empty table, as `execService` does.

### The settings

The same record is executed as a statement on the table and applied later as a
task on the tree. `tasks` is the list of the code split by connection: `flush`
and `findAmongAdded` only ever look at the tasks of one connection, and keep
their order. The database is external: a connection has a sequence of
uncommitted statements (`written`), and two kinds of database are covered by
`RowLocks`: one whose statements wait for rows written by other open
transactions, and one that lets them run and rejects a conflicting transaction
when it commits. The second is what the McKoi database of the distribution does
(`WEB-INF/config.xml`) and what the comment of `SettingManager` (lines 58-61)
describes.

With `BodyCommits`, a service may commit its connection itself before it
returns, as the harvesters and a dozen services do (`CommitInBody`). No
listener is told of that commit, so the tasks wait for the end of the request,
and are thrown away if it is an abort.

`fates` and `raced` are history variables: they record what became of the
transactions whose tasks are in the list, and whether one of five named events
has happened. No guard reads them.

### A harvesting node

`pc[r]` is where a request is: at the lookup in `hmHarvesters`, waiting for the
monitor of the manager (`update`, `remove`) or of the harvester, inside one of
the three operations that hold the latter for long (`run` before it interrupts
the thread, `invoke`, `destroy`), or at its commit and flush, which come after
both monitors have been left. Operations that are one critical section and end
at once are one action. `place[e]` is where a thread is in `Executor.run` and
`harvest`: asleep, between waking and the test of `terminate`, between that test
and the call of `harvest` (`terminate()` may set `harvester` to null there),
harvesting, stopping its own harvester (`oneRunOnly`), closing its resources.

What is merged: the test of `terminate` at the top of the loop with the sleep,
because `terminate()` also interrupts a sleep that begins later; an abort with
the step that decides on it; the commits of a harvest with the record stored
before them. The rows of a node in table Settings are one unit, numbered by the
`update` that wrote it (`Gens`), because `update` removes them and adds new
ones, with new ids; `tree` holds the numbers that `resolve` can still find. A
statement resolved before the flush of an update therefore misses, and a second
update in that time leaves two sets of rows, of which a later update can bring
the older one to the front of the tree; `StatusSaved` has to allow for both
(`Misses`, `diverged`). The second needs four requests, more than the run makes:
the proof of the property found it. A transaction is the set of its statements,
at most one of which is about the status; `HarvesterTypeOK` says so. Statements
on other rows are left out. Transactions are those of the distribution's
database; the row locks of other databases are in `SettingManager` only. The
text of the last error, the lookup by uuid, the getters, `add` and the start of
the nodes when the application starts are not modelled.

### The index of the catalogue

A row is what an index document shows of a record: its change date, and its
privileges, which change without it. `docs` is the index on disk, a sequence of
documents for each `_id`, because Lucene does not keep them unique; `view` is
`docs` with what the open writer has not committed. The writer factories are
numbered, as a rebuild replaces the factory; `count` and `writer` are its two
fields, and `lock` is the file `write.lock` of the directory. Every call looks
the factory up again, so each step uses `current`; `opened` is history, and
remembers which factory a thread took the writer from.

A request executes its statements first (`Save`, `Create`, `RemoveRecord`,
`Grant`, `Massive`), reads the rows back through its own transaction (`Read`),
opens the writer, removes the old document, builds and adds the new one, closes
the writer, and commits last (`Commit`, `Abort`). `Delete` commits the removal
at once when the record is indexed by itself, because `SearchManager.delete`
closes the writer that it has opened; inside a group it stays in the writer.
`updateMetadata`, `deleteMetadata` and `init` hold the monitor of `DataManager`,
`createMetadata` and the services for privileges do not. A rebuild is the test of
`isOpen` (`CheckOpen`), the new index (`Erase`), the new factory (`Swap`), and
`Init`, which schedules a task for all rows and removes documents without a row;
`StartJob` is the timer that begins such a task. `Restart` is a crash at any
moment together with the reconciliation that the next start does. `given` is the
count of `SerialFactory`, which `Restart` forgets: the first `Create` after a start
reads the greatest id of the table (`Taken`), so that the id of a record that was
removed, or never committed, is used again. A task or a request that is still
there from before may then come upon another record than it was meant for.

What is merged: the nested opening of `delete` with that of `index` (the count
goes up and down by one in between), the creation of the empty index with its
closing, and the wait for the monitor with a request that has not begun. A
transaction sees committed rows and its own changes. The readers and their
refresh every ten seconds are not modelled, except that `init` may see the index
as it was before the refresh; nor are XLinks, the spatial index, and the
schedule of the optimizer.

### The versions of a record

A document is the set of the changes made to it, so that a save that loses a
change can be seen. `Select` reads the row, `Number` takes the version, `Store`
puts the document into the session and sends the page: three steps, without a
lock. A save is `Check` (in the monitor of `DataManager`: the version, the form
applied to the document of the session, the references removed), `Write` (the
statement, still in the monitor) and one of the `Commit...` actions, after the
monitor has been left. A control of the form is `TakeCopy` and `PutCopy`, the
document out of the session and its clone back, in the monitor. The thumbnail
services check, read and write without it. The database locks a row from its
statement to the end of the transaction.

`hit` is history: it notes for each page which of five events has come over it,
and no guard reads it. The first is the one a reader may not expect.
`overtaken`: one page's save is accepted and not committed; a second page reads
the old row; the first commits; the second takes its version, which makes it the
last one given, and its save, accepted, writes a document without the first
one's change. Of the record's other columns, and of its index, see
`CatalogueIndex`.

### The page of the editor

`doc` and `ref` are the list in the document of the session and the references
of its elements, `page`, `id` and `ctl` the list in the page with the references
and controls it carries. An element has an identity besides its reference, so
that a reference that has been used again can be told. `call[s]` is one request:
sent, answered with success or with an error status, or cut off. `Serve...` is
what the service does, in the monitor of `DataManager`; `...Answered` is the
handler, in one piece, as a browser runs it. The model follows the two libraries
where they differ: Ext, which carries the removals, calls `failure` when the
connection breaks, and Prototype calls `onSuccess` with an empty text (`AddCut`,
`SaveCut`, and `MoveAnswered` and `FinishAnswered`, which do not look at the
text).

One list stands for the record. It is alone in its parent and the last of the
record, which is where the greatest reference plus one is soonest a reference
that was used before; the schema sets its minimum to 0 or 1 and no maximum; its
elements are not an "or" of several names. For five names
`doRemoveElementAction` takes 1 for the minimum whatever the schema says
(`metadata-editor.js:244-248`), and the style sheet offers no `x` to a lone element
of these (`metadata.xsl:589-629`, `917-919`): they are lists with `min` 1. A record
that has such a name in several lists, which the style sheet counts together, and
the controls it withholds from other names are not modelled. The values of the
fields are left out, except that each field of a saved form must find its
element. Choosing another tab, which saves as well, keeps the tab here. When two
nodes of the page have one identifier, after requests that overlap, the first is
found, except by `SetAddControls`.

`hit` notes seven events, again as history: a click while another request is
outstanding (`overlap`), a form sent with answers outstanding (`late`), a
connection that breaks (`lost`), a handler that throws (`thrown`), a reference
that reaches another element (`wrong`), a save that has stripped the session and
then failed (`aborted`), the removal of the last element in the simple tab
(`simple`). Each property says which of them it does not survive, and each of
those exceptions is needed: without it TLC finds the page that differs.

## 3. Runs

All runs are exhaustive for their constants.

| Run | Instance | Shows |
|---|---|---|
| `pool` | 3 threads, 1 connection, 2 tries, every fault, fairness | exclusion, no refused release, no lost connection, live connections, refinement of `ResourcePool`; `open()` ends and every connection comes back |
| `serial` | 1 thread, 2 connections, 4 ids, both columns, all operations | one request at a time the settings keep their contract |
| `optimistic` | 2 threads, 2 connections, 4 ids, conflicts at commit | tasks have an owner, added ids are distinct, memory follows the table |
| `faults` | 1 thread, 1 connection, every fault, commits by the service, fairness | memory follows the table, the write lock is released |
| `harvester` | 2 requests at a time, 3 in all, 3 threads, every fault, `oneRunOnly` | one live thread, status against thread, status against table, `invoke` is alone |
| `harvester_live` | 1 request at a time, 3 in all, 2 threads, every fault, fairness | a terminated thread ends, `run` is followed by a harvest |
| `index` | 2 threads, 2 ids of which 1 has a record, 3 requests, 1 rebuild, 1 crash, failing closings, optimizations and requests, fairness | the writer is open for its users, the index at rest is the table, records reappear |
| `edit_versions` | 2 pages, 2 sessions, 1 writer without a version, 2 changes, versions to 5, every failure, restarts | saves keep changes, one holder of the version, a form is applied to what it shows |
| `editor` | 2 requests under way, 3 elements, 4 clicks, every failure, both tabs, minimum 0 and 1 | the page follows the session, no ghosts, references reach the element clicked, saved as shown, the listener of `beforeunload` is there |
| `settings_midcommit`, `harvester_removed`, `index_rebuild` | small | what a comment says and the code does not do: see below |

Bounds. Three threads and one connection let two threads compete for what a
third gives back; the settings runs use the same pool with two connections,
where `open()` has to walk over a connection in use. `MaxTries` 2 gives `open()`
a first and a last try. `MaxTasks` bounds the statements of a transaction; two
are enough to see a transaction half executed and half applied. Three or four
ids give a setting, a child of it, and one or two that can be added. `MaxCalls`
3 is what it takes for a request to act on the outcome of two others (start, run
or stop, remove), with two of them in progress together; three executors are the
first one, its replacement and the replacement of that. One remote record is
enough, because the properties ask whether a record is there. In `index`, two
threads give every race between two users of the writer, and three requests let
a third one meet what such a race or a failure has left behind. Timer tasks are
not counted as requests. `MaxGen` 2 allows one rebuild, `MaxDate` 1 one save of
each record; a massive change only gives privileges. Two kinds of failure are
left out. A failing `openWriter` (other than for the lock, which the run has)
makes the optimizer's timer close a writer it never opened, so that
`WriterUsable` does not hold: that is listed as a hazard. A document that cannot
be built has the effect of one that the writer refuses, which the run has.

In `edit_versions`, two pages and one more writer are the parties of every event,
and two changes are one that is committed and one that would lose it; versions up
to 5 leave room for both pages to be opened again, and pages are opened up to
version 3, so that a save can always take the versions of its thumbnail page. It
was also run once with three changes (3.7 million states). In `editor`, two
requests are what it takes to overtake, three elements give a first, a middle and
a last one, or one that is removed and made again under the same reference, and
four clicks are two that disturb the page and two that act on what is left.

`CHECK_DEADLOCK FALSE`: the runs of the harvester, the index and the editor stop
when their bounded requests, changes or clicks are used up, with an inactive
node, nothing left to index, or the record removed.

The database of the settings runs has no row locks (`RowLocks` FALSE). With them
and two threads `LockReleased` fails: the settings lock is held across the
statement (`SettingManager.java:220-240`), which can wait for a row of a request
that waits for the lock. Nothing in the repository promises otherwise for such a
database, so it is listed as a hazard and not as a run.

Fairness. A thread inside `open()`, or past the body of its request, is a
running Java thread and goes on (`WF` on its steps), and the body of a request
ends. Nothing is assumed about requests arriving, nor about threads waiting for
the monitor of the pool or for the settings lock, which is not a fair lock. In
`Harvester` requests and threads go on, a remote site answers or fails, and a
sleep is only known to end when it is interrupted: the interval of a node may be
days, and a thread that is terminated must not depend on it. In `CatalogueIndex`
a thread that has begun goes on, and an idle one runs the tasks that are due.
Weak fairness gives a thread that waits for a monitor nothing while others keep
taking it. The two editor modules assume no fairness and claim no liveness: what
happens next is up to users and networks.

### What the violated runs show

- `settings_midcommit`: a service commits the connection itself, then throws.
  Its changes are in the table, and the abort drops their tasks.
- `harvester_removed`: the removal of a node does not wait for a harvest that is
  under way. Records stored after it has listed what to delete stay behind,
  harvested for a node that no longer exists. No fault is needed.
- `index_rebuild`: `rebuildIndex` asks whether the writer is open and replaces
  its factory later. A thread that opens the writer in between closes the new
  factory's, so the old writer keeps the lock of the directory, and nothing can be
  indexed until the application is restarted.

Some divergences have no run of their own. The serial of the settings is read
once, by the first transaction that adds one, and may stay too low for ever if
that transaction had removed the highest ids and is rolled back. For the tree: a
connection is marked free before the listeners are told (`DbmsPool.java:200` and
`203-206`) and tasks are matched by connection, so that the next user's
uncommitted changes can be applied; tasks are left behind by a commit that
throws; and two committed transactions can reach the tree in the opposite order.
`MemoryFollowsDb` says that these three, a commit in the middle of a request and
a rollback that fails are the only ways in which tree and table come to differ;
it holds in every run, and is proved.

In the editor, a `metadata.update.finish` whose connection breaks leaves the page
as if the record had been saved: Prototype calls that a success
(`prototype.js:1278`), and the test that would notice, `html.startsWith("<?xml")
< 0` at `metadata-editor.js:492`, compares a boolean with 0 and is never true. A
save or a move that breaks is repeated in the page in the same way. After a save
that fails on the server the page asks to try again, which cannot succeed,
because the references have been removed from the session (`aborted`).

The listener that the editor registers for `beforeunload` asks only `if (opener)`
(`metadata-editor.js:24`), and the comment at 466-467 says that trunk does not use
the opener. `load()` opens the editor in the window it is called from
(`geonetwork.js:106`), which has an opener only if another page has opened that
window. Otherwise work is left without a question, although there is a message
for it (`loseYourChange`); and an opener without Prototype makes the listener
throw at line 25. `Asks` has this condition, and `LeavingAsksIfOpened` claims no
more: the listener is registered whenever it should be, and it asks where there is
an opener of the application.

`IndexFollowsRows` does the same for the index. It names the events after which
documents and rows may differ, with the action that notes each: two threads index
a record that one of them is changing, a request is rolled back after it has
indexed its changes, a rebuild overlaps with an open writer or an uncommitted
change, a record cannot be indexed, or a crash loses a document whose date does
not show it. Without any one of them the property fails, so each is a way in
which the code as it is lets the index drift from the table; with none of them
index and table agree at rest, across commits, rebuilds and crashes.

## 4. Proofs

For every set of threads and connections, every `maxTries` above zero and every
combination of faults, `DbmsPool_proofs` proves the type invariant, the four
safety properties of the pool and the refinement of `ResourcePool`. The
properties are not inductive on their own. `PlaceOK` adds what the control flow
gives: only the thread in `open()` holds the monitor, the connection its
enumeration has stopped at is free until it takes it, and the resource table is
empty before `open()` returns and filled until `release()` has run. Each action
is one step of `AnyStepInv`, stated for commits and bodies that throw for any
reason so that the composed module can use it too.

`SettingManager_proofs` reuses it: every step of the composed system is a step
of the pool or leaves the pool alone. `FatesOwned`, with `CallsInBody`, makes
`TasksHaveOwner` inductive; the property claims nothing of committed tasks when
services commit by themselves, since a last commit that throws leaves those
behind. `MemoryFollowsDb` needs four more facts that hold as long as none of the
named races has happened: a connection is in one resource table at a time, the
tasks of a live connection are exactly its uncommitted statements, a free
connection has tasks only while its listeners run, and at most one transaction
is committed and not flushed. What a statement does to a row plays no part; the
proof knows of `ApplyAll` only that nothing to apply changes nothing, so it
holds for every operation the API could offer, and for both kinds of database.

It also proves `AddedIdsDistinct`, with no race excluded. An added id has been
the counter once (`SerialsCounted`); the one that is about to be added is the
counter now, its thread has the write lock and its plan has no other statement
(`NextIsFresh`, `OnlyWriterExecutes`). That the first serial is beyond the
counter rests on the greatest id of the table, and so on the finite sets of
numbers having a greatest element, which `GreatestOne` proves.

The refinement of `TransactionalSettings` has two theorems.
`ContractUnlessRaced` is about the system as it is: in a behaviour where none of
the named races happens, readers see one committed version of the table after
another, each as a whole. The commit of the database is `CommitVersion`, the
flush is `Publish`, because the tasks it executes are the statements that were
committed (`MemoryInv`), and everything else is a stutter. `ContractOneAtATime`
discharges `[]~raced` for one request at a time on a database that checks each
statement (`RowLocks`, no commits by services, faults in services and
reconnections only): no commit can fail there (`CommitsOk`). For the
distribution's database, which checks constraints at the commit, the same
depends on the operations that services call, and TLC shows it for those of the
run `serial`. That tree and table hold settings at all (`ContentsInv`), and with
it `SettingTypeOK`, needs the fold that executes a list of statements to be a
function on the table. It is taken over a set of positions, and is shown to
exist by its least counterexample (`LeastOne`, `FoldExists`, `ApplyAllTyped`),
since the library's induction cannot be used. That serials stay within `Ids` is
a bound of the model, which `Room` keeps and `LockSettings` tests where the
serial is given out.

`Harvester_proofs` proves `OneLiveExecutor`, `ActiveHasExecutor` and
`InvokeAlone` for any number of requests, threads, records and calls, with and
without `oneRunOnly`. What `start`, `stop` or `update` may assume of `status` and
`executor` comes from the monitor, which is why `LifeInv` adds `MonitorHeld`
(its owner is the one request inside a long operation), `ExecutorLives` (the
executor in the field has started, and has been told nothing) and three facts
that tie the status to the executor: an inactive node has none, a request in
`invoke` has an active node without one, and nobody else leaves such a node
unless it has been destroyed. Most steps move one request or one thread and
leave the rest alone; `RequestMoves` and `ThreadMoves` deal with all of them.

The second half of the module proves `StatusSaved`, again for every constant.
Memory is ahead of the table from the statement of a `start` or `stop` until its
commit, and several of them may be open at a time. As long as nothing has
diverged, one of two things holds: `Settled`, exactly one open transaction is
going to write the status that stands, or the rows have it already and no update
that can still commit brings another; or `GoingToDiverge`, some open status
statement is stale or misses its rows, or two actors have one each, and whatever
they do next the first of them to commit or to be refused makes the other one
fail. That two status statements conflict rests on `OneGeneration`: the table
has the rows of one update only, and the tree resolves to them or to those of
the update before, whose flush is the only one open. `FreshRows` says that the
rows of an open update are new to everybody. The status that stands is not
always `status`: a request inside `invoke` makes the node active and saves
nothing (`Standing`).

`HarvesterTypes` is `HarvesterTypeOK`, whose one part that says more than types is
that a transaction is a set of statements of which at most one is about the
status. `TypesInv` gives what that rests on: who is where in the code has written
what (`RequestBook`, `BookTypes`), and the books of a request pass to nobody else.
The tree loses rows in `removeFromParent`, and the function that says so
(`Without`) is again shown to exist by the least counterexample (`WithoutTyped`).

`CatalogueIndex_proofs` proves `WriterUsable` for any number of threads, records,
requests, rebuilds and crashes. The invariant counts: the threads that have opened
the current writer are at most as many as its reference count (`UsersCounted`;
fewer, after an optimization that failed), and a positive count means that the
writer is open and has the lock (`CountedIsOpen`). Two kinds of threads close what
they have not opened: those whose factory a rebuild has replaced, and the timer
after a failed `openWriter`. `HoldersOpened` says why they do no harm: the lock has
been left behind by then (`Stuck`), so the count is zero and stays zero. This is
also why the theorem needs `"open" \notin Faults`: an `openWriter` that fails for
another reason lets the timer take the count of somebody else.

`CatalogueIndexRows_proofs` proves `IndexFollowsRows`, with every fault. The
invariant holds as long as nothing has raced, and is one statement for each
record (`RecordInv`). A record nobody has uncommitted changes of is in the index as
committed, or is `Coming`: in the hands of a thread or of a task that will find
its row, being added, or of the task that a rebuild is about to schedule. The document of the only thread that changes
it shows its change or is coming; two threads that do not conflict cannot both
have indexed theirs; a removal is in the committed index when its thread commits.
An id that is created again may still be in a task, and in the changes of a request
that has been told of the removal (`NewIsUnknown`): the task goes past it, or has
raced, and the request will be rolled back.
`Uncommitted` adds that what the writer has not committed one of its users will,
and `WriterInv` of `CatalogueIndex_proofs` that this user still has the same
writer. A second, smaller invariant, `TypeInv`, holds after races too and gives
`IndexTypeOK`: the types, what each step has in hand, and that a rebuild finds a
factory that is left (`RebuildsLeft`).

`EditVersions_proofs` proves all four properties of `EditVersions`, for any
number of pages, sessions and writers and any bounds. The inductive invariant
has five parts. `TypeInv` adds to the types what each step has in hand.
`Versions` says that nobody has a number above the last one given, and that two
numbers differ while no restart has come over the pages. `Locks`: a request
inside a control or a checked save has the monitor, one that has written has the
row. `Forms`: a form with the last number, over which nothing has crossed, shows
what the session keeps. `Keeps`, which is the core of `SavesKeepChanges`: a page
with the last number contains the committed row, and while a save is under way
nobody else has the last number, unless an event says so. Each action is one
step of the proof, under it one step for each part.

The properties of `EditorSession` are proved in two modules, for any number of
elements, requests and clicks. `EditorSession_proofs` begins with what the
operations on lists do to places and to sets of elements (`RemovedAt`,
`InsertedElements`, `Exchanged`, ...), and proves `TypeInv` with them: lists whose
elements differ, references that differ and fit their lists (which is
`RefsApart`), controls of a node, and what each request carries. Its last part
says, once for each kind of step, what becomes of the requests.

`EditorPage_proofs` builds on it. `RequestsInv` says which requests can be under
way together; `ListenerInv` gives
`LeavingAsksIfOpened`. `CalmInv` is the core of
`PageFollowsSession`: while no click has come upon an outstanding request, at
most one request is busy, the page is the layout of the document, and an answer
on its way carries exactly the change that the session has made and the page has
not (`AddDone`, `RemoveDone`, `MoveDone`). `AddArrives`, `RemoveArrives` and
`MoveArrives` then show that each handler, with its special cases for the last
element, the bottom one and the one beside it, arrives at the layout of the new
document. `FormsInv` says the same of a form that was sent when no answer was to
come, and gives `SavedAsShown`; `ReachesClicked` follows from the references
that page and session agree on. `NoGhost` has to hold when requests overlap, and
a ghost, a node whose element has left the document, is no failure as long as an
answer is on its way for it: `GhostInv` therefore counts. There is an injection
of the ghosts into the removals served and not yet handled, and an element that
has been added and not yet shown is pending in one request only.

Assumptions: only those on the constants (`PoolAssumption`, `SettingAssumption`,
`OperationAssumption`, `HarvesterAssumption`, `IndexAssumption`,
`NoOneAssumption`, `ProcsDisjoint`, `BoundsAssumption`, `SlotsAssumption`),
which TLC checks in every run. Three theorems say more in their statements:
`"open" \notin Faults` for `WriterUsable`, which holds in the run; `[]~raced`
for `ContractUnlessRaced`; and `OneAtATime` for `ContractOneAtATime`.

Every safety invariant, action property and refinement of the passing runs is
stated by a theorem. Only model-checked: liveness (`OpenReturns`,
`ConnectionReturns`, `LockReleased`, `TerminatedEnds`, `RunHarvests`,
`RecordsReappear`), which is beyond the prover, and the contract for one request
at a time on the distribution's database, for the reason given above.

## 5. Plan

1. Done: pool, settings, their abstract specifications and proofs.
2. Done: harvester life cycle and its proofs.
3. Index of the catalogue: done for Lucene, with its proofs. Left:
   the readers and their refresh, the XLink re-index.
4. Done: edit versions with their proofs, and the page of the editor. Left: the
   two composed (a page of the editor against a second one), attributes, choices
   and XLinks of the form, creation of records.
5. Spatial committer; resumption tokens; selections; access control against a
   reference definition; notifier, composed with the pool; scheduler; serials;
   CSW transaction; aligners.
6. Proofs: done for every safety property, action property and refinement that
   is checked. Left: those of the modules of step 5.

## 6. What is not modelled

Generated and vendored code (Ext, OpenLayers and the other libraries, which are
most of the JavaScript of the repository), the rest of the JavaScript client
(search forms, maps, dialogs), XSL style sheets, parsing and formatting of
metadata, the Z39.50 server and the GUI services have no state of their own
beyond what the parts above keep. The parts of the plan that are still to come
are listed, with their status, in `PROJECT.json`.
