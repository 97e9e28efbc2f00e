----------------------- MODULE CatalogueIndexRows_proofs -----------------------
(***************************************************************************)
(* The index shows what is committed, for any number of threads, records,  *)
(* requests, rebuilds and crashes and with every fault, as long as none of *)
(* the events that raced records has happened.                             *)
(***************************************************************************)
EXTENDS CatalogueIndex_proofs, SequenceTheorems

(* Who has a record still to index or to remove, and which jobs will.      *)
Due(t, i) == i \in ToSet(todo[t])
Queued(i) == \E n \in DOMAIN jobs : i \in ToSet(jobs[n])

(* A record of which the document will be written again: by a thread or a  *)
(* job, which goes past a record without a row unless it is adding it      *)
(* already, or by the job that a rebuild schedules.                        *)
Adds(t, i) == pc[t] = "add" /\ Head(todo[t]) = i
Coming(i) ==
  \/ rows[i] # None /\ (Queued(i) \/ \E t \in Threads : Due(t, i) /\ ~Removes(t))
  \/ \E t \in Threads : Adds(t, i)
  \/ \E t \in Threads : pc[t] \in {"swap", "init"}

Alone(t, i) == \A u \in Threads \ {t} : ~Changes(u, i)

(* What is true of a record.  A thread that has been told of a conflict is *)
(* only there to be rolled back: when its record has been removed, another *)
(* may be created under the same id after a restart.                       *)
GoneIsGone(i) ==
  rows[i] = None /\ (\A t \in Threads : ~Changes(t, i)) => view[i] = <<>> /\ docs[i] = <<>>
ShownOrComing(i) ==
  rows[i] # None /\ (\A t \in Threads : ~Changes(t, i)) => view[i] = <<rows[i]>> \/ Coming(i)
NewIsUnknown(t, i) ==
  change[t].kind = "create" =>
    rows[i] = None /\ \A u \in Threads \ {t} : Changes(u, i) => stale[u]
ChangedExists(t, i) == change[t].kind # "create" => rows[i] # None
RemovalShown(t, i) ==
  change[t].kind = "remove" /\ ~Due(t, i) =>
    view[i] = <<>> /\ (pc[t] = "commit" => docs[i] = <<>>)
ChangeShown(t, i) ==
  change[t].kind # "remove" /\ ~Due(t, i) /\ Alone(t, i) =>
    view[i] = <<Changed(rows[i], change[t])>> \/ Coming(i)
OthersConflict(t, i) ==
  ~Due(t, i) =>
    \A u \in Threads \ {t} :
      Changes(u, i) /\ ~stale[u] /\ ~Due(u, i) => Conflict(change[t], change[u])

RecordInv(i) ==
  /\ GoneIsGone(i)
  /\ ShownOrComing(i)
  /\ \A t \in Threads :
       Changes(t, i) =>
         /\ NewIsUnknown(t, i)
         /\ ~stale[t] => /\ ChangedExists(t, i)
                         /\ RemovalShown(t, i)
                         /\ ChangeShown(t, i)
                         /\ OthersConflict(t, i)
-------------------------------------------------------------------------------
(* What is true of a thread: where it has something to do, and what it has *)
(* changed.                                                                *)
Indexing == {"save", "grant", "create", "massive", "job"}

Duties(t) ==
  /\ pc[t] \in {"idle", "close", "optimize", "erase", "swap", "init"} => todo[t] = <<>>
  /\ pc[t] = "commit" /\ ~stale[t] => todo[t] = <<>>
  /\ pc[t] \in {"read", "delete", "add"} => todo[t] # <<>>
  /\ pc[t] = "open" => todo[t] # <<>> \/ Optimizes(t)
  /\ Optimizes(t) => todo[t] = <<>>
  /\ Group(t) \/ Len(todo[t]) <= 1

Places(t) ==
  /\ pc[t] \in {"read", "add"} => op[t] \in Indexing
  /\ pc[t] \in {"open", "delete"} => op[t] \in Indexing \cup {"remove", "optimize", "timer"}
  /\ pc[t] = "delete" => ~Optimizes(t)
  /\ pc[t] = "optimize" => Optimizes(t)
  /\ \/ pc[t] = "add"
     \/ pc[t] = "delete" /\ op[t] \in Indexing
     \/ pc[t] = "open" /\ op[t] \in Indexing /\ ~Group(t)
     => doc[t] # None

ChangeMade(t) ==
  /\ change[t] # None =>
       /\ change[t].kind \in Single
       /\ change[t].ids \subseteq Ids
       /\ change[t].kind = "create" => change[t].ids \subseteq given
       /\ change[t].kind = "save" => change[t].value \in 0 .. MaxDate
       /\ change[t].kind = "grant" => change[t].value \in {0, 1}
       /\ op[t] \in Single \cup {"massive"}
       /\ change[t].kind = IF op[t] = "massive" THEN "grant" ELSE op[t]
       /\ ToSet(todo[t]) \subseteq change[t].ids
  /\ pc[t] = "commit" => change[t] # None
  /\ pc[t] \in {"idle", "optimize", "erase", "swap", "init"} => change[t] = None
  /\ change[t] = None =>
       \/ pc[t] \in {"idle", "optimize", "erase", "swap", "init"}
       \/ op[t] \in {"job", "optimize", "timer"}

ThreadInv(t) ==
  /\ Duties(t) /\ Places(t) /\ ChangeMade(t)
  /\ Holds(t) => opened[t] = current

Tables ==
  /\ given \subseteq Ids /\ (given # {} => Existing \subseteq given)
  /\ rows \in [Ids -> Row \cup {None}]
  /\ DOMAIN docs = Ids /\ DOMAIN view = Ids
  /\ jobs \in Seq(Seq(Ids) \ {<<>>})
  /\ todo \in [Threads -> Seq(Ids)] /\ DOMAIN doc = Threads /\ DOMAIN change = Threads
  /\ DOMAIN stale = Threads

(* What the writer has not committed, one of its users will.               *)
Uncommitted == docs = view \/ \E t \in Threads : opened[t] = current /\ ~Optimizes(t)

RowsInv ==
  /\ WriterInv /\ Tables /\ Uncommitted
  /\ \A t \in Threads : ThreadInv(t)
  /\ \A i \in Ids : RecordInv(i)
-------------------------------------------------------------------------------
(* Sequences of ids, and their elements.                                   *)
LEMMA Tails ==
  ASSUME NEW S, NEW s \in Seq(S), s # <<>>
  PROVE  /\ Head(s) \in S /\ Head(s) \in ToSet(s)
         /\ Tail(s) \in Seq(S) /\ Len(Tail(s)) = Len(s) - 1 /\ Len(s) \in Nat
         /\ \A e : e \in ToSet(Tail(s)) => e \in ToSet(s)
         /\ \A e : e \in ToSet(s) => e = Head(s) \/ e \in ToSet(Tail(s))
         /\ Len(s) <= 1 => Tail(s) = <<>>
<1>1. /\ Len(s) \in Nat /\ Len(s) > 0 /\ DOMAIN s = 1 .. Len(s) /\ Head(s) = s[1] /\ s[1] \in S
      /\ Tail(s) \in Seq(S) /\ Len(Tail(s)) = Len(s) - 1 /\ DOMAIN Tail(s) = 1 .. Len(s) - 1
      /\ \A n \in 1 .. Len(s) - 1 : Tail(s)[n] = s[n + 1]
  OBVIOUS
<1>2. Head(s) \in ToSet(s)
  BY <1>1 DEF ToSet
<1>3. ASSUME NEW e, e \in ToSet(Tail(s)) PROVE e \in ToSet(s)
  <2>1. PICK n \in 1 .. Len(s) - 1 : Tail(s)[n] = e
    BY <1>1, <1>3 DEF ToSet
  <2>2. n + 1 \in 1 .. Len(s) /\ s[n + 1] = e
    BY <1>1, <2>1
  <2> QED
    BY <1>1, <2>2 DEF ToSet
<1>4. ASSUME NEW e, e \in ToSet(s), e # Head(s) PROVE e \in ToSet(Tail(s))
  <2>1. PICK n \in 1 .. Len(s) : s[n] = e
    BY <1>1, <1>4 DEF ToSet
  <2>2. n - 1 \in 1 .. Len(s) - 1 /\ Tail(s)[n - 1] = e
    BY <1>1, <1>4, <2>1
  <2> QED
    BY <1>1, <2>2 DEF ToSet
<1>5. Len(s) <= 1 => Tail(s) = <<>>
  BY <1>1
<1> QED
  BY <1>1, <1>2, <1>3, <1>4, <1>5

LEMMA NoElements == ToSet(<<>>) = {}
BY DEF ToSet

(* A set of ids put into a sequence.                                       *)
LEMMA Listing ==
  ASSUME NEW ids \in SUBSET Ids
  PROVE  /\ InOrder(ids) \in Seq(Ids) /\ ToSet(InOrder(ids)) = ids
         /\ ids # {} <=> InOrder(ids) # <<>>
         /\ \A i : ids = {i} => Len(InOrder(ids)) = 1
<1>1. IsFiniteSet(ids)
  BY FS_Subset, IndexAssumption DEF IndexAssumption
<1> DEFINE n == Cardinality(ids)
           s == InOrder(ids)
<1>2. n \in Nat /\ ExistsBijection(1 .. n, ids)
  BY <1>1, FS_CardinalityType
<1>3. s \in [1 .. n -> ids] /\ IsInjective(s)
  BY <1>2 DEF InOrder, SetToSeq, ExistsBijection, Bijection, Injection
<1>4. s \in Injection(1 .. n, ids)
  BY <1>3 DEF Injection
<1>5. Cardinality(1 .. n) = n /\ IsFiniteSet(1 .. n)
  BY <1>2, FS_Interval
<1>6. s \in Surjection(1 .. n, ids)
  BY <1>1, <1>4, <1>5, FS_Injection
<1>7. ToSet(s) = ids
  BY <1>3, <1>6 DEF ToSet, Surjection
<1>8. s \in Seq(Ids) /\ Len(s) = n
  BY <1>2, <1>3
<1>9. ids # {} <=> s # <<>>
  <2>1. ids # {} => s # <<>>
    BY <1>7, NoElements
  <2>2. ids = {} => n = 0
    BY FS_EmptySet
  <2> QED
    BY <1>8, <2>1, <2>2
<1>10. \A i : ids = {i} => n = 1
  BY FS_Singleton
<1> QED
  BY <1>7, <1>8, <1>9, <1>10
-------------------------------------------------------------------------------
(* Where a step leaves the other threads, and a record that it passes by.  *)
Others(t) ==
  \A u \in Threads \ {t} :
    /\ pc'[u] = pc[u] /\ op'[u] = op[u] /\ todo'[u] = todo[u] /\ doc'[u] = doc[u]
    /\ change'[u] = change[u] /\ opened'[u] = opened[u]
    /\ stale[u] => stale'[u]

LEMMA OthersKept ==
  ASSUME RowsInv, NEW t \in Threads, Others(t), current' = current, given \subseteq given',
         ThreadInv(t)'
  PROVE  \A u \in Threads : ThreadInv(u)'
<1> SUFFICES ASSUME NEW u \in Threads \ {t} PROVE ThreadInv(u)'
  OBVIOUS
<1>1. ThreadInv(u)
  BY DEF RowsInv
<1>2. /\ pc'[u] = pc[u] /\ op'[u] = op[u] /\ todo'[u] = todo[u] /\ doc'[u] = doc[u]
      /\ change'[u] = change[u] /\ opened'[u] = opened[u]
      /\ stale[u] => stale'[u]
  BY DEF Others
<1>3. Duties(u)'
  BY <1>1, <1>2 DEF ThreadInv, Duties, Group, Optimizes
<1>4. Places(u)'
  BY <1>1, <1>2 DEF ThreadInv, Places, Group, Optimizes
<1>5. ChangeMade(u)'
  BY <1>1, <1>2 DEF ThreadInv, ChangeMade
<1> QED
  BY <1>1, <1>2, <1>3, <1>4, <1>5 DEF ThreadInv, Holds, Group

LEMMA RecordKept ==
  ASSUME RowsInv, NEW i \in Ids,
         rows'[i] = rows[i], view'[i] = view[i], docs'[i] \in {docs[i], view[i]},
         \A u \in Threads :
           /\ Changes(u, i)' <=> Changes(u, i)
           /\ Changes(u, i) => change'[u] = change[u] /\ (stale[u] => stale'[u])
           /\ Due(u, i) => Due(u, i)'
           /\ pc'[u] = "commit" /\ ~stale[u] => pc[u] = "commit" \/ docs'[i] = view[i],
         Coming(i) => Coming(i)'
  PROVE  RecordInv(i)'
<1>1. RecordInv(i)
  BY DEF RowsInv
<1>2. GoneIsGone(i)' /\ ShownOrComing(i)'
  BY <1>1 DEF RecordInv, GoneIsGone, ShownOrComing
<1>3. ASSUME NEW u \in Threads, Changes(u, i)' PROVE NewIsUnknown(u, i)'
  BY <1>1, <1>3 DEF RecordInv, NewIsUnknown
<1>4. ASSUME NEW u \in Threads, Changes(u, i)', ~stale'[u]
      PROVE  /\ ChangedExists(u, i)' /\ RemovalShown(u, i)' /\ ChangeShown(u, i)'
             /\ OthersConflict(u, i)'
  <2>1. Changes(u, i) /\ ~stale[u] /\ change'[u] = change[u]
    BY <1>4
  <2>2. ChangedExists(u, i)' /\ RemovalShown(u, i)'
    BY <1>1, <2>1 DEF RecordInv, ChangedExists, RemovalShown
  <2>3. ChangeShown(u, i)'
    BY <1>1, <2>1 DEF RecordInv, ChangeShown, Alone
  <2>4. OthersConflict(u, i)'
    BY <1>1, <2>1 DEF RecordInv, OthersConflict
  <2> QED
    BY <2>2, <2>3, <2>4
<1> QED
  BY <1>2, <1>3, <1>4 DEF RecordInv

(* A record stays on its way to the index while nobody drops it.           *)
LEMMA StillComing ==
  ASSUME NEW i \in Ids, rows[i] # None => rows'[i] # None,
         \A u \in Threads : Due(u, i) => Due(u, i)' /\ op'[u] = op[u],
         \A u \in Threads : Adds(u, i) => Adds(u, i)',
         Queued(i) => Queued(i)',
         \A u \in Threads : pc[u] \in {"swap", "init"} => pc'[u] \in {"swap", "init"}
  PROVE  Coming(i) => Coming(i)'
BY DEF Coming, Removes

(* A step that changes neither rows nor documents, and drops no duty.      *)
LEMMA QuietKept ==
  ASSUME RowsInv, WriterInv', NEW t \in Threads,
         UNCHANGED <<rows, given, change, stale, jobs, todo, view>>,
         DOMAIN doc' = Threads, DOMAIN docs' = Ids, \A i \in Ids : docs'[i] \in {docs[i], view[i]},
         Others(t), \A u \in Threads : ThreadInv(u)', Uncommitted',
         todo[t] # <<>> => op'[t] = op[t],
         pc[t] \in {"swap", "init"} => pc'[t] \in {"swap", "init"}, pc[t] # "add",
         pc'[t] = "commit" /\ ~stale[t] => docs' = view
  PROVE  RowsInv'
<1>1. Tables'
  BY DEF RowsInv, Tables, Existing, Queued
<1>2. ASSUME NEW i \in Ids PROVE RecordInv(i)'
  <2>1. Coming(i) => Coming(i)'
    <3>1. \A u \in Threads : /\ Due(u, i) => Due(u, i)' /\ op'[u] = op[u]
                             /\ Adds(u, i) => Adds(u, i)'
      BY NoElements DEF Due, Adds, Others
    <3> QED
      BY <3>1, StillComing DEF Queued, Others
  <2>2. \A u \in Threads :
           /\ Changes(u, i)' <=> Changes(u, i)
           /\ Changes(u, i) => change'[u] = change[u] /\ (stale[u] => stale'[u])
           /\ Due(u, i) => Due(u, i)'
           /\ pc'[u] = "commit" /\ ~stale[u] => pc[u] = "commit" \/ docs'[i] = view[i]
    BY DEF Others, Changes, Due
  <2> QED
    BY <2>1, <2>2, RecordKept
<1> QED
  BY <1>1, <1>2 DEF RowsInv

(* The moves that the actions share.                                       *)
LEMMA Moves ==
  ASSUME RowsInv, NEW t \in Threads
  PROVE  /\ \A place : Goto(t, place) => /\ pc'[t] = place /\ DOMAIN pc' = Threads
                                         /\ \A u \in Threads \ {t} : pc'[u] = pc[u]
         /\ Leave(t) => /\ pc'[t] = "idle" /\ todo'[t] = <<>>
                        /\ \A u \in Threads \ {t} : /\ pc'[u] = pc[u] /\ op'[u] = op[u]
                                                    /\ todo'[u] = todo[u] /\ doc'[u] = doc[u]
                        /\ DOMAIN pc' = Threads /\ DOMAIN op' = Threads
                        /\ DOMAIN todo' = Threads /\ DOMAIN doc' = Threads
         /\ todo[t] = <<>> /\ Leave(t) => todo' = todo
<1>1. /\ DOMAIN pc = Threads /\ DOMAIN op = Threads /\ DOMAIN todo = Threads /\ DOMAIN doc = Threads
  BY DEF RowsInv, WriterInv, WriterTypes, Tables
<1>2. todo[t] = <<>> /\ Leave(t) => todo' = todo
  BY <1>1 DEF Leave, RowsInv, Tables
<1> QED
  BY <1>1, <1>2 DEF Goto, Leave

(* A thread that has nothing to do any more is out of every step but those *)
(* that begin something.                                                   *)
LEMMA Resting ==
  ASSUME NEW t \in Threads, pc[t] = "idle", todo[t] = <<>>, change[t] = None
  PROVE  Duties(t) /\ Places(t) /\ ChangeMade(t) /\ ~Holds(t)
BY EmptySeq, NoElements DEF Duties, Places, ChangeMade, Holds, Optimizes, Group
-------------------------------------------------------------------------------
(* The steps that only open, close, optimize, or end.                      *)
LEMMA NoUserAllCommitted ==
  ASSUME RowsInv
  PROVE  /\ count[current] = 0 => docs = view
         /\ \A t \in Threads : opened[t] = current => count[current] > 0
         /\ (\A t \in Threads : opened[t] = None) => docs = view
         /\ current # None /\ count[current] \in Nat
<1>1. /\ \A t \in Threads : opened[t] = current => count[current] > 0
      /\ current \in Gens /\ count[current] \in Nat
  BY UserCounts DEF RowsInv, WriterInv, WriterTypes
<1>2. current # None
  BY <1>1, IndexAssumption DEF IndexAssumption
<1> QED
  BY <1>1, <1>2 DEF RowsInv, Uncommitted

LEMMA OpenRows ==
  ASSUME RowsInv, NEW t \in Threads, Open(t)
  PROVE  RowsInv'
<1>1. WriterInv'
  BY OpenInv DEF RowsInv
<1>2. /\ pc[t] = "open" /\ ThreadInv(t) /\ opened[t] # current
      /\ UNCHANGED <<rows, given, change, stale, jobs, todo, doc, docs, op, current>>
  BY NoUserAllCommitted DEF Open, RowsInv, WriterInv, HoldersOpened, Holds, rowVars
<1>3. view' = view
  BY NoUserAllCommitted DEF Open
<1>4. /\ pc'[t] = AfterOpen(t) /\ \A u \in Threads \ {t} : pc'[u] = pc[u]
      /\ opened'[t] = current /\ \A u \in Threads \ {t} : opened'[u] = opened[u]
  BY Moves DEF Open, RowsInv, WriterInv, WriterTypes
<1>5. Others(t)
  BY <1>2, <1>4 DEF Others
<1>6. \/ Group(t) /\ pc'[t] = "read"
      \/ Optimizes(t) /\ pc'[t] = "optimize"
      \/ ~Group(t) /\ ~Optimizes(t) /\ pc'[t] = "delete"
  BY <1>4 DEF AfterOpen
<1>7. ThreadInv(t)'
  <2>1. Duties(t)'
    BY <1>2, <1>6 DEF ThreadInv, Duties, Group, Optimizes
  <2>2. Places(t)'
    BY <1>2, <1>6 DEF ThreadInv, Places, Group, Optimizes, Indexing
  <2>3. ChangeMade(t)'
    BY <1>2, <1>6 DEF ThreadInv, ChangeMade, Optimizes, Group, Single
  <2> QED
    BY <1>2, <1>4, <2>1, <2>2, <2>3 DEF ThreadInv
<1>8. \A u \in Threads : ThreadInv(u)'
  BY <1>2, <1>5, <1>7, OthersKept
<1>9. Uncommitted'
  BY <1>2, <1>3, <1>4 DEF RowsInv, Uncommitted, Optimizes
<1> QED
  BY <1>1, <1>2, <1>3, <1>5, <1>6, <1>8, <1>9, QuietKept DEF RowsInv, Tables

LEMMA CloseRows ==
  ASSUME RowsInv, NEW t \in Threads, Close(t)
  PROVE  RowsInv'
<1>1. WriterInv'
  BY CloseInv DEF RowsInv
<1>2. /\ pc[t] = "close" /\ ThreadInv(t) /\ opened[t] = current /\ todo[t] = <<>>
      /\ UNCHANGED <<rows, given, change, stale, jobs, view, current>>
      /\ opened' = [opened EXCEPT ![t] = None] /\ AfterClose(t)
  BY DEF Close, RowsInv, ThreadInv, Holds, Duties, rowVars
<1>3. docs' = view
  BY <1>2, NoUserAllCommitted DEF Close, CloseWriter
<1>4. Finish(t)
  BY <1>2 DEF AfterClose
<1>5. \A u \in Threads \ {t} : opened'[u] = opened[u]
  BY <1>2 DEF RowsInv, WriterInv, WriterTypes
<1>6. /\ Others(t) /\ todo' = todo /\ DOMAIN doc' = Threads /\ ThreadInv(t)'
      /\ pc'[t] \in {"idle", "commit"}
  <2>1. CASE change[t] = None
    <3>1. Leave(t)
      BY <1>4, <2>1 DEF Finish
    <3>2. /\ pc'[t] = "idle" /\ todo' = todo /\ DOMAIN doc' = Threads
          /\ \A u \in Threads \ {t} : /\ pc'[u] = pc[u] /\ op'[u] = op[u] /\ doc'[u] = doc[u]
      BY <1>2, <3>1, Moves
    <3>3. Duties(t)' /\ Places(t)' /\ ChangeMade(t)' /\ ~Holds(t)'
      BY <1>2, <2>1, <3>2, NoElements DEF Duties, Places, ChangeMade, Holds, Optimizes, Group, RowsInv, Tables
    <3> QED
      BY <1>2, <1>5, <3>2, <3>3 DEF Others, ThreadInv
  <2>2. CASE change[t] # None
    <3>1. Goto(t, "commit") /\ UNCHANGED <<op, todo, doc>>
      BY <1>4, <2>2 DEF Finish
    <3>2. pc'[t] = "commit" /\ \A u \in Threads \ {t} : pc'[u] = pc[u]
      BY <3>1, Moves
    <3>3. Duties(t)' /\ Places(t)' /\ ChangeMade(t)' /\ ~Holds(t)'
      BY <1>2, <2>2, <3>1, <3>2
      DEF ThreadInv, Duties, Places, ChangeMade, Holds, Optimizes, Group
    <3> QED
      BY <1>2, <1>5, <3>1, <3>2, <3>3 DEF Others, ThreadInv, RowsInv, Tables
  <2> QED
    BY <2>1, <2>2
<1>7. \A u \in Threads : ThreadInv(u)'
  BY <1>2, <1>6, OthersKept
<1>8. Uncommitted'
  BY <1>2, <1>3 DEF Uncommitted
<1> QED
  BY <1>1, <1>2, <1>3, <1>6, <1>7, <1>8, QuietKept DEF RowsInv, Tables

LEMMA SeenRow ==
  ASSUME RowsInv, NEW t \in Threads, NEW i \in Ids
  PROVE  /\ Seen(t)[i] = IF Changes(t, i) THEN Changed(rows[i], change[t]) ELSE rows[i]
         /\ Seen(t)[i] \in Row \cup {None}
         /\ Changes(t, i) /\ ~stale[t] /\ change[t].kind # "remove" => Seen(t)[i] # None
         /\ Changes(t, i) /\ change[t].kind = "remove" => Seen(t)[i] = None
<1>1. Seen(t)[i] = IF Changes(t, i) THEN Changed(rows[i], change[t]) ELSE rows[i]
  BY DEF Seen, After, Changes
<1>2. rows[i] \in Row \cup {None} /\ None \notin Row /\ NewRow \in Row
  BY IndexAssumption DEF RowsInv, Tables, IndexAssumption, NewRow, Row
<1>3. CASE Changes(t, i)
  <2>1. /\ change[t].kind \in Single
        /\ change[t].kind = "save" => change[t].value \in 0 .. MaxDate
        /\ change[t].kind = "grant" => change[t].value \in {0, 1}
        /\ ~stale[t] => ChangedExists(t, i)
    BY <1>3 DEF RowsInv, ThreadInv, ChangeMade, Changes, RecordInv
  <2>2. ASSUME rows[i] # None, change[t].kind = "save"
        PROVE  [rows[i] EXCEPT !.date = change[t].value] \in Row
    BY <1>2, <2>1, <2>2 DEF Row
  <2>3. ASSUME rows[i] # None, change[t].kind = "grant"
        PROVE  [rows[i] EXCEPT !.rights = change[t].value] \in Row
    BY <1>2, <2>1, <2>3 DEF Row
  <2> QED
    BY <1>1, <1>2, <1>3, <2>1, <2>2, <2>3 DEF Changed, Single, ChangedExists
<1>4. CASE ~Changes(t, i)
  BY <1>1, <1>2, <1>4
<1> QED
  BY <1>1, <1>3, <1>4

(* A record whose row is there is indexed; another one is the end for a    *)
(* request that has been told of a conflict.                               *)
LEMMA ReadRows ==
  ASSUME RowsInv, NEW t \in Threads, Read(t), Seen(t)[Head(todo[t])] # None \/ ~Group(t)
  PROVE  RowsInv'
<1> DEFINE i == Head(todo[t])
<1>1. WriterInv'
  BY ReadInv DEF RowsInv
<1>2. /\ pc[t] = "read" /\ ThreadInv(t) /\ op[t] \in Indexing /\ todo[t] # <<>>
      /\ todo[t] \in Seq(Ids) /\ i \in Ids /\ i \in ToSet(todo[t])
      /\ UNCHANGED <<rows, given, change, stale, jobs, docs, view, current, opened>>
  BY Tails DEF Read, RowsInv, Tables, ThreadInv, Places, Duties, rowVars, luceneVars
<1>3. /\ Others(t) /\ todo' = todo /\ op' = op /\ DOMAIN doc' = Threads /\ ThreadInv(t)'
      /\ pc'[t] = "commit" => stale[t]
  <2>1. CASE Seen(t)[i] # None
    <3>1. /\ doc' = [doc EXCEPT ![t] = Seen(t)[i]] /\ UNCHANGED <<op, todo>>
          /\ Goto(t, IF Group(t) THEN "delete" ELSE "open")
      BY <2>1 DEF Read
    <3>2. /\ pc'[t] = IF Group(t) THEN "delete" ELSE "open"
          /\ \A u \in Threads \ {t} : pc'[u] = pc[u] /\ doc'[u] = doc[u]
          /\ doc'[t] # None /\ DOMAIN doc' = Threads
      BY <2>1, <3>1, Moves DEF RowsInv, Tables
    <3>3. Duties(t)' /\ Places(t)' /\ ChangeMade(t)'
      BY <1>2, <3>1, <3>2
      DEF ThreadInv, Duties, Places, ChangeMade, Optimizes, Group, Indexing
    <3>4. Holds(t)' => opened'[t] = current'
      BY <1>2, <3>1, <3>2 DEF ThreadInv, Holds, Group
    <3> QED
      BY <1>2, <3>1, <3>2, <3>3, <3>4 DEF Others, ThreadInv
  <2>2. CASE Seen(t)[i] = None
    <3>1. ~Group(t) /\ Finish(t)
      BY <2>2 DEF Read
    <3>2. change[t] # None
      BY <1>2, <3>1 DEF ThreadInv, ChangeMade, Group, Indexing
    <3>3. Goto(t, "commit") /\ UNCHANGED <<op, todo, doc>>
      BY <3>1, <3>2 DEF Finish
    <3>4. pc'[t] = "commit" /\ \A u \in Threads \ {t} : pc'[u] = pc[u]
      BY <3>3, Moves
    <3>5. stale[t]
      <4>1. Changes(t, i) /\ change[t].kind # "remove"
        BY <1>2, <3>2 DEF ThreadInv, ChangeMade, Changes, Indexing
      <4> QED
        BY <1>2, <2>2, <4>1, SeenRow
    <3>6. Duties(t)' /\ Places(t)' /\ ChangeMade(t)' /\ ~Holds(t)'
      BY <1>2, <3>2, <3>3, <3>4, <3>5
      DEF ThreadInv, Duties, Places, ChangeMade, Holds, Optimizes, Group
    <3> QED
      BY <1>2, <3>3, <3>4, <3>5, <3>6 DEF Others, ThreadInv, RowsInv, Tables
  <2> QED
    BY <2>1, <2>2
<1>4. \A u \in Threads : ThreadInv(u)'
  BY <1>2, <1>3, OthersKept
<1>5. Uncommitted'
  BY <1>2, <1>3 DEF RowsInv, Uncommitted, Optimizes
<1> QED
  BY <1>1, <1>2, <1>3, <1>4, <1>5, QuietKept DEF RowsInv, Tables

(* The optimizers and the beginning of a rebuild have no record to index.  *)
LEMMA OptimizeRows ==
  ASSUME RowsInv, NEW t \in Threads, Optimize(t) \/ OptimizeFails(t)
  PROVE  RowsInv'
<1>1. WriterInv'
  BY ProceedInv DEF RowsInv, Proceed, Optimize, OptimizeFails, OpenFails
<1>2. /\ pc[t] = "optimize" /\ ThreadInv(t) /\ Optimizes(t) /\ todo[t] = <<>> /\ change[t] = None
      /\ opened[t] = current
      /\ UNCHANGED <<rows, given, change, stale, jobs, docs, view, current>>
  BY DEF Optimize, OptimizeFails, RowsInv, ThreadInv, Places, Duties, ChangeMade, Holds,
         rowVars, luceneVars
<1>3. /\ Others(t) /\ todo' = todo /\ DOMAIN doc' = Threads /\ ThreadInv(t)'
      /\ pc'[t] # "commit"
  <2>1. CASE Goto(t, "close") /\ UNCHANGED <<op, todo, doc, opened>>
    <3>1. pc'[t] = "close" /\ \A u \in Threads \ {t} : pc'[u] = pc[u]
      BY <2>1, Moves
    <3>2. ThreadInv(t)'
      BY <1>2, <2>1, <3>1
      DEF ThreadInv, Duties, Places, ChangeMade, Holds, Optimizes, Group
    <3> QED
      BY <1>2, <2>1, <3>1, <3>2 DEF Others, RowsInv, Tables
  <2>2. CASE Leave(t) /\ opened' = [opened EXCEPT ![t] = None]
    <3>1. /\ pc'[t] = "idle" /\ todo' = todo /\ DOMAIN doc' = Threads
          /\ \A u \in Threads \ {t} : /\ pc'[u] = pc[u] /\ op'[u] = op[u] /\ doc'[u] = doc[u]
                                      /\ opened'[u] = opened[u]
      BY <1>2, <2>2, Moves DEF RowsInv, WriterInv, WriterTypes
    <3>2. Duties(t)' /\ Places(t)' /\ ChangeMade(t)' /\ ~Holds(t)'
      BY <1>2, <3>1, NoElements
      DEF Duties, Places, ChangeMade, Holds, Optimizes, Group
    <3> QED
      BY <1>2, <3>1, <3>2 DEF Others, ThreadInv
  <2> QED
    BY <2>1, <2>2 DEF Optimize, OptimizeFails
<1>4. \A u \in Threads : ThreadInv(u)'
  BY <1>2, <1>3, OthersKept
<1>5. Uncommitted'
  BY <1>2, <1>3 DEF RowsInv, Uncommitted, Optimizes, Others
<1> QED
  BY <1>1, <1>2, <1>3, <1>4, <1>5, QuietKept DEF RowsInv, Tables

LEMMA SwapRows ==
  ASSUME RowsInv, NEW t \in Threads, Swap(t), ~raced'
  PROVE  RowsInv'
<1>1. WriterInv'
  BY SwapInv DEF RowsInv
<1>2. /\ pc[t] = "swap" /\ ThreadInv(t) /\ \A u \in Threads : opened[u] = None
      /\ UNCHANGED <<rows, given, change, stale, jobs, docs, view, op, todo, doc, opened>>
      /\ Goto(t, "init")
  BY DEF Swap, RowsInv, rowVars
<1>3. pc'[t] = "init" /\ \A u \in Threads \ {t} : pc'[u] = pc[u]
  BY <1>2, Moves
<1>4. ASSUME NEW u \in Threads PROVE ThreadInv(u)'
  <2>1. ThreadInv(u) /\ ~Holds(u)
    BY <1>2, NoUserAllCommitted DEF RowsInv, ThreadInv
  <2>2. ~Holds(u)'
    BY <1>2, <1>3, <2>1 DEF Holds, Group
  <2> QED
    BY <1>2, <1>3, <2>1, <2>2 DEF ThreadInv, Duties, Places, ChangeMade, Optimizes, Group
<1>5. Uncommitted'
  BY <1>2, NoUserAllCommitted DEF Uncommitted
<1> QED
  BY <1>1, <1>2, <1>3, <1>4, <1>5, QuietKept DEF RowsInv, Tables, Others

LEMMA IdleRows ==
  ASSUME RowsInv, NEW t \in Threads, CallOptimize(t) \/ CheckOpen(t) \/ EraseFails(t)
  PROVE  RowsInv'
<1>1. WriterInv'
  BY RequestInv, ProceedInv DEF RowsInv, Proceed, Request, EraseFails, OpenFails
<1>2. /\ pc[t] \in {"idle", "erase"} /\ ThreadInv(t) /\ todo[t] = <<>> /\ change[t] = None
      /\ UNCHANGED <<rows, given, change, stale, jobs, docs, view, current, opened>>
  BY DEF CallOptimize, CheckOpen, EraseFails, Begin, RowsInv, ThreadInv, Duties, ChangeMade,
         rowVars, luceneVars
<1>3. /\ Others(t) /\ todo' = todo /\ DOMAIN doc' = Threads
      /\ \/ pc'[t] = "open" /\ op'[t] \in {"optimize", "timer"}
         \/ pc'[t] \in {"erase", "idle"}
  <2>1. CASE CallOptimize(t)
    <3>1. /\ op' = [op EXCEPT ![t] = "optimize"] \/ op' = [op EXCEPT ![t] = "timer"]
          /\ Goto(t, "open") /\ UNCHANGED <<todo, doc>>
      BY <2>1 DEF CallOptimize, Begin
    <3> QED
      BY <1>2, <3>1, Moves DEF Others, RowsInv, Tables, WriterInv, WriterTypes
  <2>2. CASE CheckOpen(t)
    <3>1. op' = [op EXCEPT ![t] = "rebuild"] /\ Goto(t, "erase") /\ UNCHANGED <<todo, doc>>
      BY <2>2 DEF CheckOpen, Begin
    <3> QED
      BY <1>2, <3>1, Moves DEF Others, RowsInv, Tables, WriterInv, WriterTypes
  <2>3. CASE EraseFails(t)
    <3>1. Leave(t)
      BY <2>3 DEF EraseFails
    <3> QED
      BY <1>2, <3>1, Moves DEF Others
  <2> QED
    BY <2>1, <2>2, <2>3
<1>4. ThreadInv(t)'
  <2>1. ~Holds(t)'
    BY <1>3 DEF Holds
  <2> QED
    BY <1>2, <1>3, <2>1, NoElements DEF ThreadInv, Duties, Places, ChangeMade, Optimizes, Group,
       Indexing
<1>5. \A u \in Threads : ThreadInv(u)'
  BY <1>2, <1>3, <1>4, OthersKept
<1>6. Uncommitted'
  <2>1. opened[t] # current
    BY <1>2, NoUserAllCommitted DEF RowsInv, WriterInv, HoldersOpened, Holds
  <2> QED
    BY <1>2, <1>3, <2>1 DEF RowsInv, Uncommitted, Optimizes, Others
<1> QED
  BY <1>1, <1>2, <1>3, <1>5, <1>6, QuietKept DEF RowsInv, Tables
-------------------------------------------------------------------------------
(* The steps that index a record, or take one out of the index.            *)
LEMMA NextRecordKept ==
  ASSUME RowsInv, NEW t \in Threads, NextRecord(t), Holds(t), todo[t] # <<>>, ~Optimizes(t),
         UNCHANGED <<op, doc, change, opened, stale, given, current, rows, jobs>>,
         DOMAIN docs' = Ids, DOMAIN view' = Ids
  PROVE  /\ Tables' /\ Others(t) /\ \A u \in Threads : ThreadInv(u)'
         /\ Head(todo[t]) \in Ids /\ Due(t, Head(todo[t]))
         /\ \A u \in Threads, j \in Ids : Due(u, j)' => Due(u, j)
         /\ \A u \in Threads, j \in Ids : Due(u, j) => Due(u, j)' \/ (u = t /\ j = Head(todo[t]))
         /\ pc'[t] \in {"read", "close"} /\ todo'[t] = Tail(todo[t])
         /\ \A j \in Ids : j # Head(todo[t]) /\ view'[j] = view[j] /\ docs'[j] \in {docs[j], view[j]}
                             => RecordInv(j)'
<1>1. /\ todo' = [todo EXCEPT ![t] = Tail(@)] /\ todo \in [Threads -> Seq(Ids)]
      /\ Goto(t, IF Group(t) /\ Len(todo[t]) > 1 THEN "read" ELSE "close")
      /\ ThreadInv(t) /\ opened[t] = current
  BY DEF NextRecord, RowsInv, Tables, ThreadInv
<1> DEFINE i == Head(todo[t])
<1>2. /\ i \in Ids /\ i \in ToSet(todo[t])
      /\ Tail(todo[t]) \in Seq(Ids) /\ Len(Tail(todo[t])) = Len(todo[t]) - 1 /\ Len(todo[t]) \in Nat
      /\ \A e : e \in ToSet(Tail(todo[t])) => e \in ToSet(todo[t])
      /\ \A e : e \in ToSet(todo[t]) => e = i \/ e \in ToSet(Tail(todo[t]))
      /\ Len(todo[t]) <= 1 => Tail(todo[t]) = <<>>
  BY <1>1, Tails
<1>3. /\ todo'[t] = Tail(todo[t]) /\ \A u \in Threads \ {t} : todo'[u] = todo[u]
      /\ todo' \in [Threads -> Seq(Ids)]
      /\ pc'[t] = (IF Group(t) /\ Len(todo[t]) > 1 THEN "read" ELSE "close")
      /\ \A u \in Threads \ {t} : pc'[u] = pc[u]
  BY <1>1, <1>2, Moves
<1>4. Others(t)
  BY <1>3 DEF Others
<1>5. Duties(t)'
  <2>1. pc'[t] = "read" => todo'[t] # <<>>
    <3>1. pc'[t] = "read" => Len(Tail(todo[t])) > 0
      BY <1>2, <1>3
    <3>2. Len(<<>>) = 0
      OBVIOUS
    <3> QED
      BY <1>3, <3>1, <3>2
  <2>2. pc'[t] = "close" => todo'[t] = <<>>
    BY <1>1, <1>2, <1>3 DEF ThreadInv, Duties
  <2>3. Group(t) \/ Len(todo'[t]) <= 1
    BY <1>1, <1>2, <1>3 DEF ThreadInv, Duties
  <2> QED
    BY <1>3, <2>1, <2>2, <2>3 DEF Duties, Group, Optimizes
<1>6. Places(t)'
  BY <1>3 DEF Places, Group, Indexing
<1>7. ChangeMade(t)'
  <2>1. change[t] # None => ToSet(todo'[t]) \subseteq change[t].ids
    BY <1>1, <1>2, <1>3 DEF ThreadInv, ChangeMade
  <2>2. pc[t] \notin {"idle", "optimize", "erase", "swap", "init"}
    BY <1>1 DEF Holds, ThreadInv, Places, Optimizes
  <2> QED
    BY <1>1, <1>3, <2>1, <2>2 DEF ThreadInv, ChangeMade
<1>8. \A u \in Threads : ThreadInv(u)'
  BY <1>1, <1>4, <1>5, <1>6, <1>7, OthersKept DEF ThreadInv
<1>9. Tables'
  BY <1>3 DEF RowsInv, Tables, Existing, Queued
<1>10. /\ \A u \in Threads, j \in Ids : Due(u, j)' => Due(u, j)
       /\ \A u \in Threads, j \in Ids : Due(u, j) => Due(u, j)' \/ (u = t /\ j = i)
  <2>1. ASSUME NEW u \in Threads, NEW j \in Ids
        PROVE  (Due(u, j)' => Due(u, j)) /\ (Due(u, j) => Due(u, j)' \/ (u = t /\ j = i))
    <3>1. CASE u = t
      BY <1>2, <1>3, <3>1 DEF Due
    <3>2. CASE u # t
      BY <1>3, <3>2 DEF Due
    <3> QED
      BY <3>1, <3>2
  <2> QED
    BY <2>1
<1>11. ASSUME NEW j \in Ids, j # i, view'[j] = view[j], docs'[j] \in {docs[j], view[j]}
       PROVE  RecordInv(j)'
  <2>1. Coming(j) => Coming(j)'
    <3>1. Queued(j) => Queued(j)'
      BY DEF Queued
    <3>2. \A u \in Threads : pc[u] \in {"swap", "init"} => pc'[u] \in {"swap", "init"}
      BY <1>3 DEF Holds
    <3>3. \A u \in Threads : Adds(u, j) => Adds(u, j)'
      BY <1>3, <1>11 DEF Adds
    <3> QED
      BY <1>10, <1>11, <3>1, <3>2, <3>3, StillComing
  <2> QED
    BY <1>3, <1>10, <1>11, <2>1, RecordKept DEF Changes
<1> QED
  BY <1>2, <1>3, <1>4, <1>8, <1>9, <1>10, <1>11 DEF Due

(* A group goes past a row that has been removed.                          *)
LEMMA SkipRows ==
  ASSUME RowsInv, NEW t \in Threads, Read(t), Seen(t)[Head(todo[t])] = None, Group(t)
  PROVE  RowsInv'
<1>1. WriterInv'
  BY ReadInv DEF RowsInv
<1>2. /\ pc[t] = "read" /\ ThreadInv(t) /\ Holds(t) /\ todo[t] # <<>> /\ ~Optimizes(t)
      /\ op[t] \in {"massive", "job"}
      /\ NextRecord(t)
      /\ UNCHANGED <<op, doc, change, opened, stale, given, current, rows, jobs, docs, view>>
  BY DEF Read, RowsInv, ThreadInv, Duties, Places, Holds, Group, Optimizes, rowVars, luceneVars
<1> PICK i \in Ids : i = Head(todo[t])
  BY <1>2, Tails DEF RowsInv, Tables
<1>3. DOMAIN docs' = Ids /\ DOMAIN view' = Ids
  BY <1>2 DEF RowsInv, Tables
<1>4. /\ Tables' /\ Others(t) /\ \A u \in Threads : ThreadInv(u)'
      /\ i \in Ids /\ Due(t, i)
      /\ \A u \in Threads, j \in Ids : Due(u, j)' => Due(u, j)
      /\ \A u \in Threads, j \in Ids : Due(u, j) => Due(u, j)' \/ (u = t /\ j = i)
      /\ pc'[t] \in {"read", "close"}
      /\ \A j \in Ids : j # i => RecordInv(j)'
  BY <1>2, <1>3, NextRecordKept
<1>5. RecordInv(i)'
  <2>1. RecordInv(i)
    BY <1>4 DEF RowsInv
  <2>2. /\ change[t] # None => Changes(t, i) /\ change[t].kind = "grant"
        /\ ~Changes(t, i) => rows[i] = None
    BY <1>2, <1>4, SeenRow DEF ThreadInv, ChangeMade, Changes, Due, Single
  <2>3. ~(Changes(t, i) /\ ~stale[t])
    BY <1>4, <2>2, SeenRow DEF Changes
  <2>4. GoneIsGone(i)' /\ ShownOrComing(i)'
    BY <1>2, <2>1, <2>2 DEF RecordInv, GoneIsGone, ShownOrComing, Changes
  <2>5. ASSUME NEW u \in Threads, Changes(u, i)' PROVE NewIsUnknown(u, i)'
    BY <1>2, <2>1, <2>5 DEF RecordInv, NewIsUnknown, Changes
  <2>6. ASSUME NEW u \in Threads, Changes(u, i)', ~stale'[u]
        PROVE  /\ ChangedExists(u, i)' /\ RemovalShown(u, i)' /\ ChangeShown(u, i)'
               /\ OthersConflict(u, i)'
    <3>1. Changes(u, i) /\ ~stale[u] /\ u # t
      BY <1>2, <2>3, <2>6 DEF Changes
    <3>2. ChangedExists(u, i)' /\ RemovalShown(u, i)'
      BY <1>2, <1>4, <2>1, <3>1 DEF RecordInv, ChangedExists, RemovalShown, Others
    <3>3. ChangeShown(u, i)'
      <4>1. SUFFICES ASSUME change[u].kind # "remove", ~Due(u, i), Alone(u, i)
                     PROVE  view[i] = <<Changed(rows[i], change[u])>> \/ Coming(i)'
        BY <1>2, <1>4, <3>1 DEF ChangeShown, Alone, Changes, Others, Due, Changed
      <4>2. rows[i] = None
        BY <2>2, <3>1, <4>1 DEF Alone
      <4>3. view[i] = <<Changed(rows[i], change[u])>> \/ Coming(i)
        BY <2>1, <3>1, <4>1 DEF RecordInv, ChangeShown
      <4>4. Coming(i) => Coming(i)'
        BY <1>2, <1>4, <4>2 DEF Coming, Adds, Others
      <4> QED
        BY <4>3, <4>4
    <3>4. OthersConflict(u, i)'
      BY <1>2, <1>4, <2>1, <2>3, <3>1 DEF RecordInv, OthersConflict, Changes
    <3> QED
      BY <3>2, <3>3, <3>4
  <2> QED
    BY <2>4, <2>5, <2>6 DEF RecordInv
<1>6. Uncommitted'
  BY <1>2, <1>4 DEF RowsInv, Uncommitted, Optimizes
<1> QED
  BY <1>1, <1>4, <1>5, <1>6 DEF RowsInv

(* The document goes; a record that is to be indexed is still due, and a   *)
(* removal has been shown.                                                 *)
LEMMA DeleteRows ==
  ASSUME RowsInv, NEW t \in Threads, Delete(t)
  PROVE  RowsInv'
<1>1. WriterInv'
  BY ProceedInv DEF RowsInv, Proceed, Delete, OpenFails
<1>2. /\ pc[t] = "delete" /\ ThreadInv(t) /\ Holds(t) /\ todo[t] # <<>> /\ ~Optimizes(t)
      /\ op[t] \in Indexing \cup {"remove"} /\ opened[t] = current
      /\ view' = [view EXCEPT ![Head(todo[t])] = <<>>]
      /\ docs' = docs \/ docs' = view'
      /\ IF op[t] = "remove" THEN NextRecord(t) /\ docs' = docs
         ELSE Goto(t, "add") /\ UNCHANGED todo
      /\ UNCHANGED <<op, doc, change, opened, stale, given, current, rows, jobs>>
  BY DEF Delete, RowsInv, ThreadInv, Duties, Places, Holds, Removes, Optimizes, rowVars,
         Indexing
<1> PICK i \in Ids : i = Head(todo[t]) /\ Due(t, i)
  BY <1>2, Tails DEF RowsInv, Tables, Due
<1>3. /\ DOMAIN docs' = Ids /\ DOMAIN view' = Ids /\ view'[i] = <<>>
      /\ docs'[i] \in {docs[i], <<>>}
      /\ \A j \in Ids : j # i => view'[j] = view[j] /\ docs'[j] \in {docs[j], view[j]}
  BY <1>2 DEF RowsInv, Tables
<1>4. Uncommitted'
  BY <1>2 DEF Uncommitted, Optimizes
<1>5. RecordInv(i)
  BY DEF RowsInv
<1>6. CASE op[t] = "remove"
  <2>1. /\ Tables' /\ Others(t) /\ \A u \in Threads : ThreadInv(u)'
        /\ \A u \in Threads, j \in Ids : Due(u, j)' => Due(u, j)
        /\ \A u \in Threads, j \in Ids : Due(u, j) => Due(u, j)' \/ (u = t /\ j = i)
        /\ pc'[t] \in {"read", "close"}
        /\ \A j \in Ids : j # i => RecordInv(j)'
    BY <1>2, <1>3, <1>6, NextRecordKept
  <2>2. Changes(t, i) /\ change[t].kind = "remove"
    BY <1>2, <1>6 DEF ThreadInv, ChangeMade, Changes, Due, Indexing
  <2>3. GoneIsGone(i)' /\ ShownOrComing(i)'
    BY <1>2, <2>2 DEF GoneIsGone, ShownOrComing, Changes
  <2>4. ASSUME NEW u \in Threads, Changes(u, i)' PROVE NewIsUnknown(u, i)'
    BY <1>2, <1>5, <2>4 DEF RecordInv, NewIsUnknown, Changes
  <2>5. ASSUME NEW u \in Threads, Changes(u, i)', ~stale'[u]
        PROVE  /\ ChangedExists(u, i)' /\ RemovalShown(u, i)' /\ ChangeShown(u, i)'
               /\ OthersConflict(u, i)'
    <3>1. Changes(u, i) /\ ~stale[u]
      BY <1>2, <2>5 DEF Changes
    <3>2. ChangedExists(u, i)'
      BY <1>2, <1>5, <3>1 DEF RecordInv, ChangedExists
    <3>3. RemovalShown(u, i)'
      BY <1>2, <1>3, <1>5, <1>6, <2>1, <3>1 DEF RecordInv, RemovalShown, Others
    <3>4. ChangeShown(u, i)'
      BY <1>2, <2>2 DEF ChangeShown, Alone, Changes
    <3>5. OthersConflict(u, i)'
      <4>1. ASSUME NEW v \in Threads \ {u}, Changes(v, i), ~Due(u, i)', ~Due(v, i)', ~stale[v]
            PROVE  Conflict(change[u], change[v])
        <5>1. CASE u = t \/ v = t
          BY <2>2, <3>1, <4>1, <5>1 DEF Conflict, Changes
        <5>2. CASE u # t /\ v # t
          BY <1>5, <2>1, <3>1, <4>1, <5>2 DEF RecordInv, OthersConflict
        <5> QED
          BY <5>1, <5>2
      <4> QED
        BY <1>2, <4>1 DEF OthersConflict, Changes, Conflict
    <3> QED
      BY <3>2, <3>3, <3>4, <3>5
  <2> QED
    BY <1>1, <1>4, <2>1, <2>3, <2>4, <2>5 DEF RowsInv, RecordInv
<1>7. CASE op[t] # "remove"
  <2>1. pc'[t] = "add" /\ todo' = todo /\ \A u \in Threads \ {t} : pc'[u] = pc[u]
    BY <1>2, <1>7, Moves
  <2>2. Others(t)
    BY <1>2, <2>1 DEF Others
  <2>3. ThreadInv(t)'
    BY <1>2, <1>7, <2>1
    DEF ThreadInv, Duties, Places, ChangeMade, Optimizes, Group, Indexing
  <2>4. \A u \in Threads : ThreadInv(u)'
    BY <1>2, <2>2, <2>3, OthersKept
  <2>5. Tables'
    BY <1>2, <1>3, <2>1 DEF RowsInv, Tables, Existing, Queued
  <2>6. ASSUME NEW j \in Ids PROVE Coming(j) => Coming(j)'
    BY <1>2, <2>1, StillComing DEF Due, Adds, Queued
  <2>7. ASSUME NEW j \in Ids, j # i PROVE RecordInv(j)'
    BY <1>2, <1>3, <2>1, <2>6, <2>7, RecordKept DEF Changes, Due
  <2>8. RecordInv(i)'
    <3>1. Coming(i)'
      BY <2>1 DEF Coming, Adds
    <3>2. GoneIsGone(i)' /\ ShownOrComing(i)'
      BY <1>2, <1>3, <1>5, <3>1 DEF RecordInv, GoneIsGone, ShownOrComing, Changes
    <3>3. ASSUME NEW u \in Threads, Changes(u, i)' PROVE NewIsUnknown(u, i)'
      BY <1>2, <1>5, <3>3 DEF RecordInv, NewIsUnknown, Changes
    <3>4. ASSUME NEW u \in Threads, Changes(u, i)', ~stale'[u]
          PROVE  /\ ChangedExists(u, i)' /\ RemovalShown(u, i)' /\ ChangeShown(u, i)'
                 /\ OthersConflict(u, i)'
      <4>1. Changes(u, i) /\ ~stale[u]
        BY <1>2, <3>4 DEF Changes
      <4>2. ChangedExists(u, i)' /\ ChangeShown(u, i)'
        BY <1>2, <1>5, <3>1, <4>1 DEF RecordInv, ChangedExists, ChangeShown
      <4>3. RemovalShown(u, i)'
        BY <1>2, <1>3, <1>5, <2>1, <4>1 DEF RecordInv, RemovalShown, Due
      <4>4. OthersConflict(u, i)'
        BY <1>2, <1>5, <2>1, <4>1 DEF RecordInv, OthersConflict, Changes, Due
      <4> QED
        BY <4>2, <4>3, <4>4
    <3> QED
      BY <3>2, <3>3, <3>4 DEF RecordInv
  <2> QED
    BY <1>1, <1>4, <2>4, <2>5, <2>7, <2>8 DEF RowsInv
<1> QED
  BY <1>6, <1>7

(* A document that is added without a race shows the row as its thread     *)
(* sees it, and no other thread has changed the row.                       *)
LEMMA AddRows ==
  ASSUME RowsInv, NEW t \in Threads, Add(t), ~raced'
  PROVE  RowsInv'
<1>1. WriterInv'
  BY ProceedInv DEF RowsInv, Proceed, Add, OpenFails
<1>2. /\ pc[t] = "add" /\ ThreadInv(t) /\ Holds(t) /\ todo[t] # <<>> /\ ~Optimizes(t)
      /\ op[t] \in Indexing /\ opened[t] = current /\ doc[t] # None
      /\ NextRecord(t)
      /\ view' = [view EXCEPT ![Head(todo[t])] = Append(@, doc[t])]
      /\ ~LateFor(t, Head(todo[t]))
      /\ UNCHANGED <<docs, op, doc, change, opened, stale, given, current, rows, jobs>>
  BY DEF Add, RowsInv, ThreadInv, Duties, Places, Holds, Optimizes, rowVars, Indexing
<1> PICK i \in Ids : i = Head(todo[t]) /\ Due(t, i)
  BY <1>2, Tails DEF RowsInv, Tables, Due
<1>3. doc[t] = Seen(t)[i] /\ view[i] = <<>> /\ Alone(t, i)
  BY <1>2 DEF LateFor, Alone
<1>4. /\ DOMAIN docs' = Ids /\ DOMAIN view' = Ids /\ view'[i] = <<Seen(t)[i]>>
      /\ \A j \in Ids : j # i => view'[j] = view[j]
  BY <1>2, <1>3 DEF RowsInv, Tables
<1>5. /\ Tables' /\ Others(t) /\ \A u \in Threads : ThreadInv(u)'
      /\ \A u \in Threads, j \in Ids : Due(u, j)' => Due(u, j)
      /\ \A u \in Threads, j \in Ids : Due(u, j) => Due(u, j)' \/ (u = t /\ j = i)
      /\ \A j \in Ids : j # i => RecordInv(j)'
  BY <1>2, <1>4, NextRecordKept
<1>6. Uncommitted'
  BY <1>2 DEF Uncommitted, Optimizes
<1>7. RecordInv(i)'
  <2>1. RecordInv(i) /\ Seen(t)[i] # None
    BY <1>2, <1>3 DEF RowsInv
  <2>2. GoneIsGone(i)' /\ ShownOrComing(i)'
    BY <1>2, <1>4, <2>1, SeenRow DEF GoneIsGone, ShownOrComing, Changes
  <2>3. ASSUME NEW u \in Threads, Changes(u, i)' PROVE NewIsUnknown(u, i)'
    BY <1>2, <2>1, <2>3 DEF RecordInv, NewIsUnknown, Changes
  <2>4. ASSUME NEW u \in Threads, Changes(u, i)', ~stale'[u]
        PROVE  /\ ChangedExists(u, i)' /\ RemovalShown(u, i)' /\ ChangeShown(u, i)'
               /\ OthersConflict(u, i)'
    <3>1. u = t /\ Changes(t, i) /\ ~stale[t] /\ change[t].kind # "remove"
      BY <1>2, <1>3, <2>1, <2>4, SeenRow DEF Changes, Alone
    <3>2. ChangedExists(u, i)' /\ RemovalShown(u, i)'
      BY <1>2, <2>1, <3>1 DEF RecordInv, ChangedExists, RemovalShown
    <3>3. ChangeShown(u, i)'
      BY <1>2, <1>4, <3>1, SeenRow DEF ChangeShown
    <3>4. OthersConflict(u, i)'
      BY <1>2, <1>3, <3>1 DEF OthersConflict, Changes, Alone
    <3> QED
      BY <3>2, <3>3, <3>4
  <2> QED
    BY <2>2, <2>3, <2>4 DEF RecordInv
<1> QED
  BY <1>1, <1>5, <1>6, <1>7 DEF RowsInv
-------------------------------------------------------------------------------
(* A rebuild, and the jobs.                                                *)
LEMMA EraseRows ==
  ASSUME RowsInv, NEW t \in Threads, Erase(t)
  PROVE  RowsInv'
<1>1. WriterInv'
  BY ProceedInv DEF RowsInv, Proceed, Erase, OpenFails
<1>2. /\ pc[t] = "erase" /\ ThreadInv(t) /\ todo[t] = <<>> /\ change[t] = None
      /\ docs' = [i \in Ids |-> <<>>] /\ view' = docs'
      /\ pc'[t] = "swap" /\ \A u \in Threads \ {t} : pc'[u] = pc[u]
      /\ UNCHANGED <<rows, given, change, stale, jobs, todo, current, op, doc, opened>>
  BY Moves DEF Erase, RowsInv, ThreadInv, Duties, ChangeMade, rowVars
<1>3. Others(t)
  BY <1>2 DEF Others
<1>4. ThreadInv(t)'
  BY <1>2 DEF ThreadInv, Duties, Places, ChangeMade, Holds, Optimizes, Group
<1>5. \A u \in Threads : ThreadInv(u)'
  BY <1>2, <1>3, <1>4, OthersKept
<1>6. Tables' /\ Uncommitted'
  BY <1>2 DEF RowsInv, Tables, Existing, Queued, Uncommitted
<1>7. ASSUME NEW i \in Ids PROVE RecordInv(i)'
  <2>1. RecordInv(i) /\ Coming(i)' /\ view'[i] = <<>> /\ docs'[i] = <<>>
    BY <1>2 DEF RowsInv, Coming
  <2>2. GoneIsGone(i)' /\ ShownOrComing(i)'
    BY <2>1 DEF GoneIsGone, ShownOrComing
  <2>3. ASSUME NEW u \in Threads, Changes(u, i)' PROVE NewIsUnknown(u, i)'
    BY <1>2, <2>1, <2>3 DEF RecordInv, NewIsUnknown, Changes
  <2>4. ASSUME NEW u \in Threads, Changes(u, i)', ~stale'[u]
        PROVE  /\ ChangedExists(u, i)' /\ RemovalShown(u, i)' /\ ChangeShown(u, i)'
               /\ OthersConflict(u, i)'
    <3>1. Changes(u, i) /\ ~stale[u]
      BY <1>2, <2>4 DEF Changes
    <3>2. ChangedExists(u, i)' /\ RemovalShown(u, i)' /\ ChangeShown(u, i)'
      BY <1>2, <2>1, <3>1 DEF RecordInv, ChangedExists, RemovalShown, ChangeShown
    <3>3. OthersConflict(u, i)'
      BY <1>2, <2>1, <3>1 DEF RecordInv, OthersConflict, Changes, Due
    <3> QED
      BY <3>2, <3>3
  <2> QED
    BY <2>2, <2>3, <2>4 DEF RecordInv
<1> QED
  BY <1>1, <1>5, <1>6, <1>7 DEF RowsInv

LEMMA Schedules ==
  ASSUME NEW ids \in SUBSET Ids, jobs \in Seq(Seq(Ids) \ {<<>>}), jobs' = Scheduled(ids)
  PROVE  /\ jobs' \in Seq(Seq(Ids) \ {<<>>})
         /\ \A i : Queued(i)' <=> Queued(i) \/ i \in ids
<1>1. CASE ids = {}
  BY <1>1 DEF Scheduled, Queued
<1>2. CASE ids # {}
  <2>1. /\ jobs' = Append(jobs, InOrder(ids)) /\ InOrder(ids) \in Seq(Ids) \ {<<>>}
        /\ ToSet(InOrder(ids)) = ids
    BY <1>2, Listing DEF Scheduled
  <2>2. /\ jobs' \in Seq(Seq(Ids) \ {<<>>}) /\ Len(jobs) \in Nat
        /\ DOMAIN jobs = 1 .. Len(jobs) /\ DOMAIN jobs' = 1 .. Len(jobs) + 1
        /\ \A n \in 1 .. Len(jobs) : jobs'[n] = jobs[n]
        /\ jobs'[Len(jobs) + 1] = InOrder(ids)
    BY <2>1, AppendProperties
  <2>3. ASSUME NEW i, Queued(i)' PROVE Queued(i) \/ i \in ids
    <3>1. PICK n \in 1 .. Len(jobs) + 1 : i \in ToSet(jobs'[n])
      BY <2>2, <2>3 DEF Queued
    <3>2. CASE n = Len(jobs) + 1
      BY <2>1, <2>2, <3>1, <3>2
    <3>3. CASE n \in 1 .. Len(jobs)
      BY <2>2, <3>1, <3>3 DEF Queued
    <3> QED
      BY <2>2, <3>2, <3>3
  <2>4. ASSUME NEW i, Queued(i) PROVE Queued(i)'
    <3>1. PICK n \in 1 .. Len(jobs) : i \in ToSet(jobs[n])
      BY <2>2, <2>4 DEF Queued
    <3>2. n \in DOMAIN jobs' /\ i \in ToSet(jobs'[n])
      BY <2>2, <3>1
    <3> QED
      BY <3>2 DEF Queued
  <2>5. ASSUME NEW i \in ids PROVE Queued(i)'
    <3>1. Len(jobs) + 1 \in DOMAIN jobs' /\ i \in ToSet(jobs'[Len(jobs) + 1])
      BY <2>1, <2>2
    <3> QED
      BY <3>1 DEF Queued
  <2> QED
    BY <2>2, <2>3, <2>4, <2>5
<1> QED
  BY <1>1, <1>2

LEMMA InitRows ==
  ASSUME RowsInv, NEW t \in Threads, Init(t), ~raced'
  PROVE  RowsInv'
<1>1. WriterInv'
  BY ProceedInv DEF RowsInv, Proceed, Init, OpenFails
<1>2. /\ pc[t] = "init" /\ ThreadInv(t) /\ todo[t] = <<>>
      /\ \A u \in Threads : change[u] = None
      /\ jobs' = Scheduled(Existing)
      /\ UNCHANGED <<rows, given, change, stale, docs, view, current, doc, opened>>
  BY DEF Init, RowsInv, ThreadInv, Duties, rowVars, luceneVars
<1>3. pc' = [pc EXCEPT ![t] = "idle"] /\ op' = [op EXCEPT ![t] = None] /\ todo' = todo
  <2>1. PICK indexed \in {{}, {i \in Ids : docs[i] # <<>>}} :
          /\ todo' = [todo EXCEPT ![t] = InOrder(indexed \ Existing)]
          /\ indexed \ Existing = {} =>
               Goto(t, "idle") /\ op' = [op EXCEPT ![t] = None]
    BY DEF Init
  <2>2. \A i \in Ids : docs[i] # <<>> => i \in Existing
    BY <1>2 DEF RowsInv, RecordInv, GoneIsGone, Changes, Existing
  <2>3. indexed \ Existing = {}
    BY <2>1, <2>2
  <2>4. InOrder({}) = <<>>
    BY Listing
  <2> QED
    BY <1>2, <2>1, <2>3, <2>4 DEF Goto, RowsInv, Tables
<1>4. /\ pc'[t] = "idle" /\ \A u \in Threads \ {t} : pc'[u] = pc[u] /\ op'[u] = op[u]
  BY <1>3 DEF RowsInv, WriterInv, WriterTypes
<1>5. Existing \in SUBSET Ids /\ jobs \in Seq(Seq(Ids) \ {<<>>})
  BY DEF Existing, RowsInv, Tables
<1>6. /\ jobs' \in Seq(Seq(Ids) \ {<<>>})
      /\ \A i : Queued(i)' <=> Queued(i) \/ i \in Existing
  BY <1>2, <1>5, Schedules
<1>7. Others(t)
  BY <1>2, <1>3, <1>4 DEF Others
<1>8. ThreadInv(t)'
  <2>1. Duties(t)' /\ Places(t)' /\ ChangeMade(t)' /\ ~Holds(t)'
    BY <1>2, <1>3, <1>4, NoElements DEF Duties, Places, ChangeMade, Holds, Optimizes, Group
  <2> QED
    BY <2>1 DEF ThreadInv
<1>9. \A u \in Threads : ThreadInv(u)'
  BY <1>2, <1>7, <1>8, OthersKept
<1>10. Tables'
  BY <1>2, <1>3, <1>6 DEF RowsInv, Tables, Existing
<1>11. Uncommitted'
  <2>1. opened[t] # current
    BY <1>2, NoUserAllCommitted DEF RowsInv, WriterInv, HoldersOpened, Holds
  <2> QED
    BY <1>2, <1>4, <2>1 DEF RowsInv, Uncommitted, Optimizes
<1>12. ASSUME NEW i \in Ids PROVE RecordInv(i)'
  <2>1. RecordInv(i) /\ \A u \in Threads : ~Changes(u, i) /\ ~Changes(u, i)'
    BY <1>2 DEF RowsInv, Changes
  <2>2. rows[i] # None => Coming(i)'
    BY <1>2, <1>6 DEF Existing, Coming
  <2> QED
    BY <1>2, <2>1, <2>2 DEF RecordInv, GoneIsGone, ShownOrComing
<1> QED
  BY <1>1, <1>9, <1>10, <1>11, <1>12 DEF RowsInv

(* A thread takes over the records of a job.                               *)
LEMMA StartJobRows ==
  ASSUME RowsInv, NEW t \in Threads, StartJob(t)
  PROVE  RowsInv'
<1>1. WriterInv'
  BY ProceedInv DEF RowsInv, Proceed, StartJob, OpenFails
<1>2. /\ pc[t] = "idle" /\ ThreadInv(t) /\ todo[t] = <<>> /\ change[t] = None
      /\ jobs # <<>> /\ jobs' = Tail(jobs) /\ todo' = [todo EXCEPT ![t] = Head(jobs)]
      /\ op' = [op EXCEPT ![t] = "job"]
      /\ pc'[t] = "open" /\ \A u \in Threads \ {t} : pc'[u] = pc[u]
      /\ UNCHANGED <<rows, given, change, stale, docs, view, current, doc, opened>>
      /\ jobs \in Seq(Seq(Ids) \ {<<>>}) /\ todo \in [Threads -> Seq(Ids)]
  BY Moves DEF StartJob, RowsInv, Tables, ThreadInv, Duties, ChangeMade, rowVars, luceneVars
<1>3. /\ Head(jobs) \in Seq(Ids) /\ Head(jobs) # <<>> /\ jobs' \in Seq(Seq(Ids) \ {<<>>})
      /\ todo'[t] = Head(jobs) /\ \A u \in Threads \ {t} : todo'[u] = todo[u] /\ op'[u] = op[u]
      /\ op'[t] = "job" /\ todo' \in [Threads -> Seq(Ids)]
  BY <1>2, HeadTailProperties DEF RowsInv, WriterInv, WriterTypes
<1>4. /\ \A i : Queued(i)' => Queued(i)
      /\ \A i : Queued(i) => Queued(i)' \/ i \in ToSet(Head(jobs))
      /\ \A i : i \in ToSet(Head(jobs)) => Queued(i)
  <2>1. /\ Len(jobs) \in Nat /\ Len(jobs) > 0 /\ DOMAIN jobs = 1 .. Len(jobs) /\ Head(jobs) = jobs[1]
        /\ DOMAIN jobs' = 1 .. Len(jobs) - 1
        /\ \A n \in 1 .. Len(jobs) - 1 : jobs'[n] = jobs[n + 1]
    BY <1>2
  <2>2. ASSUME NEW i, Queued(i)' PROVE Queued(i)
    <3>1. PICK n \in 1 .. Len(jobs) - 1 : i \in ToSet(jobs'[n])
      BY <2>1, <2>2 DEF Queued
    <3>2. n + 1 \in DOMAIN jobs /\ i \in ToSet(jobs[n + 1])
      BY <2>1, <3>1
    <3> QED
      BY <3>2 DEF Queued
  <2>3. ASSUME NEW i, Queued(i), i \notin ToSet(Head(jobs)) PROVE Queued(i)'
    <3>1. PICK n \in 1 .. Len(jobs) : i \in ToSet(jobs[n])
      BY <2>1, <2>3 DEF Queued
    <3>2. n # 1
      BY <2>1, <2>3, <3>1
    <3>3. n - 1 \in DOMAIN jobs' /\ jobs'[n - 1] = jobs[n]
      BY <2>1, <3>2
    <3> QED
      BY <3>1, <3>3 DEF Queued
  <2>4. ASSUME NEW i, i \in ToSet(Head(jobs)) PROVE Queued(i)
    <3>1. 1 \in DOMAIN jobs /\ i \in ToSet(jobs[1])
      BY <2>1, <2>4
    <3> QED
      BY <3>1 DEF Queued
  <2> QED
    BY <2>2, <2>3, <2>4
<1>5. Others(t)
  BY <1>2, <1>3 DEF Others
<1>7. ThreadInv(t)'
  <2>1. Duties(t)' /\ Places(t)' /\ ChangeMade(t)' /\ ~Holds(t)'
    BY <1>2, <1>3
    DEF Duties, Places, ChangeMade, Holds, Optimizes, Group, Indexing
  <2> QED
    BY <2>1 DEF ThreadInv
<1>8. \A u \in Threads : ThreadInv(u)'
  BY <1>2, <1>5, <1>7, OthersKept
<1>9. Tables'
  BY <1>2, <1>3, <1>4 DEF RowsInv, Tables, Existing
<1>10. Uncommitted'
  <2>1. opened[t] # current
    BY <1>2, NoUserAllCommitted DEF RowsInv, WriterInv, HoldersOpened, Holds
  <2> QED
    BY <1>2, <1>3, <2>1 DEF RowsInv, Uncommitted, Optimizes
<1>11. ASSUME NEW i \in Ids PROVE RecordInv(i)'
  <2>1. /\ \A u \in Threads : Due(u, i) => Due(u, i)' /\ u # t
        /\ i \in ToSet(Head(jobs)) => Due(t, i)'
    BY <1>2, <1>3, <1>4, NoElements DEF Due
  <2>2. Coming(i) => Coming(i)'
    BY <1>2, <1>3, <1>4, <2>1 DEF Coming, Adds, Removes
  <2> QED
    BY <1>2, <2>1, <2>2, RecordKept DEF Changes
<1> QED
  BY <1>1, <1>8, <1>9, <1>10, <1>11 DEF RowsInv
-------------------------------------------------------------------------------
(* A request begins: its records are due.  No row and no request that is   *)
(* not to be rolled back has the id of the one that it creates.            *)
LEMMA TakenIds ==
  ASSUME RowsInv
  PROVE  Existing \subseteq Taken /\ given \subseteq Taken /\ Taken \subseteq Ids
<1>1. Existing \subseteq Ids /\ \A i \in Ids : i <= i
  BY IndexAssumption DEF Existing, IndexAssumption
<1> QED
  BY <1>1 DEF Taken, RowsInv, Tables

LEMMA ExecuteRows ==
  ASSUME RowsInv, WriterInv', NEW t \in Threads, NEW kind \in Single, NEW ids \in SUBSET Ids,
         NEW value \in 0 .. MaxDate + 1, NEW o, NEW place,
         pc[t] = "idle", ids # {},
         \/ o = kind /\ \E i : ids = {i}
         \/ o = "massive" /\ kind = "grant",
         \/ place = "read" /\ o \in {"save", "grant", "create"}
         \/ place = "open" /\ o \in {"remove", "massive"},
         IF kind = "create" THEN ids \cap Taken = {} /\ given' = Taken \cup ids
         ELSE ids \subseteq Existing /\ given' = given,
         kind = "save" => value \in 0 .. MaxDate,
         kind = "grant" => value \in {0, 1},
         op' = [op EXCEPT ![t] = o], Goto(t, place), Execute(t, kind, ids, value)
  PROVE  RowsInv'
<1> DEFINE c == [kind |-> kind, ids |-> ids, value |-> value]
<1>1. /\ change' = [change EXCEPT ![t] = c] /\ todo' = [todo EXCEPT ![t] = InOrder(ids)]
      /\ UNCHANGED <<rows, stale, docs, view, current, doc, opened, jobs>>
      /\ ThreadInv(t) /\ todo[t] = <<>> /\ change[t] = None
      /\ pc'[t] = place /\ \A u \in Threads \ {t} : pc'[u] = pc[u]
  BY Moves DEF Execute, RowsInv, ThreadInv, Duties, ChangeMade, luceneVars
<1>2. c \in Change /\ c # None
  BY IndexAssumption DEF Change, IndexAssumption
<1>3. /\ InOrder(ids) \in Seq(Ids) /\ ToSet(InOrder(ids)) = ids /\ InOrder(ids) # <<>>
      /\ \A i : ids = {i} => Len(InOrder(ids)) = 1
  BY Listing
<1>4. /\ change'[t] = c /\ todo'[t] = InOrder(ids) /\ op'[t] = o
      /\ \A u \in Threads \ {t} : change'[u] = change[u] /\ todo'[u] = todo[u] /\ op'[u] = op[u]
      /\ todo' \in [Threads -> Seq(Ids)] /\ DOMAIN change' = Threads
  BY <1>1, <1>3 DEF RowsInv, Tables, WriterInv, WriterTypes
<1>5. Others(t)
  BY <1>1, <1>4 DEF Others
<1>6. /\ given \subseteq given' /\ given' \subseteq Ids
      /\ given' # {} => Existing \subseteq given'
      /\ kind = "create" => ids \subseteq given'
  BY TakenIds DEF RowsInv, Tables
<1>7. ThreadInv(t)'
  <2>1. Duties(t)'
    <3>1. Group(t)' \/ Len(todo'[t]) <= 1
      <4>1. CASE o = "massive"
        BY <1>4, <4>1 DEF Group
      <4>2. CASE \E i : ids = {i}
        <5>1. Len(todo'[t]) = 1
          BY <1>3, <1>4, <4>2
        <5> QED
          BY <5>1
      <4> QED
        BY <4>1, <4>2
    <3>2. ~Optimizes(t)'
      BY <1>4 DEF Optimizes, Single
    <3>3. todo'[t] # <<>> /\ pc'[t] \in {"read", "open"}
      BY <1>1, <1>3, <1>4
    <3> QED
      BY <3>1, <3>2, <3>3 DEF Duties
  <2>2. Places(t)'
    BY <1>1, <1>4 DEF Places, Group, Optimizes, Indexing
  <2>3. ChangeMade(t)'
    BY <1>1, <1>2, <1>3, <1>4, <1>6 DEF ChangeMade, Single
  <2>4. ~Holds(t)'
    BY <1>1, <1>4 DEF Holds, Group
  <2> QED
    BY <2>1, <2>2, <2>3, <2>4 DEF ThreadInv
<1>8. \A u \in Threads : ThreadInv(u)'
  BY <1>1, <1>5, <1>6, <1>7, OthersKept
<1>9. Tables'
  BY <1>1, <1>4, <1>6 DEF RowsInv, Tables, Existing, Queued
<1>10. Uncommitted'
  <2>1. opened[t] # current
    BY <1>1, NoUserAllCommitted DEF RowsInv, WriterInv, HoldersOpened, Holds
  <2> QED
    BY <1>1, <1>4, <2>1 DEF RowsInv, Uncommitted, Optimizes
<1>11. ASSUME NEW i \in Ids PROVE RecordInv(i)'
  <2>1. /\ \A u \in Threads \ {t} : /\ Changes(u, i)' <=> Changes(u, i)
                                    /\ Due(u, i)' <=> Due(u, i)
        /\ Changes(t, i)' <=> i \in ids
        /\ Due(t, i)' <=> i \in ids
        /\ ~Changes(t, i) /\ ~Due(t, i)
    BY <1>1, <1>2, <1>3, <1>4, NoElements DEF Changes, Due
  <2>2. CASE i \notin ids
    <3>1. Coming(i) => Coming(i)'
      BY <1>1, <1>4, <2>1, StillComing DEF Adds, Queued
    <3> QED
      BY <1>1, <1>4, <1>5, <2>1, <2>2, <3>1, RecordKept DEF Others
  <2>3. CASE i \in ids
    <3>1. RecordInv(i)
      BY DEF RowsInv
    <3>2. GoneIsGone(i)' /\ ShownOrComing(i)'
      BY <2>1, <2>3 DEF GoneIsGone, ShownOrComing
    <3>3. ASSUME kind = "create"
          PROVE  rows[i] = None /\ \A u \in Threads : Changes(u, i) => stale[u] /\ change[u].kind # "create"
      <4>1. rows[i] = None /\ i \notin given
        BY <2>3, <3>3, TakenIds DEF Existing
      <4>2. ASSUME NEW u \in Threads, Changes(u, i) PROVE change[u].kind # "create"
        BY <4>1, <4>2 DEF RowsInv, ThreadInv, ChangeMade, Changes
      <4> QED
        BY <3>1, <4>1, <4>2 DEF RecordInv, ChangedExists
    <3>4. kind # "create" => rows[i] # None
      BY <2>3 DEF Existing
    <3>5. ASSUME NEW u \in Threads, Changes(u, i)' PROVE NewIsUnknown(u, i)'
      <4>1. CASE u = t
        BY <1>1, <1>4, <2>1, <3>3, <4>1 DEF NewIsUnknown
      <4>2. CASE u # t
        BY <1>4, <2>1, <3>1, <3>3, <3>4, <3>5, <4>2 DEF RecordInv, NewIsUnknown
      <4> QED
        BY <4>1, <4>2
    <3>6. ASSUME NEW u \in Threads, Changes(u, i)', ~stale'[u]
          PROVE  /\ ChangedExists(u, i)' /\ RemovalShown(u, i)' /\ ChangeShown(u, i)'
                 /\ OthersConflict(u, i)'
      <4>1. CASE u = t
        BY <1>1, <1>4, <2>1, <2>3, <3>4, <4>1
        DEF ChangedExists, RemovalShown, ChangeShown, OthersConflict
      <4>2. CASE u # t
        <5>1. Changes(u, i) /\ ~stale[u] /\ change'[u] = change[u]
          BY <1>1, <1>4, <2>1, <3>6, <4>2
        <5>2. ChangedExists(u, i)' /\ RemovalShown(u, i)'
          BY <1>1, <2>1, <3>1, <4>2, <5>1 DEF RecordInv, ChangedExists, RemovalShown
        <5>3. ChangeShown(u, i)'
          BY <2>1, <2>3, <4>2 DEF ChangeShown, Alone
        <5>4. OthersConflict(u, i)'
          BY <1>1, <1>4, <2>1, <2>3, <3>1, <4>2, <5>1 DEF RecordInv, OthersConflict
        <5> QED
          BY <5>2, <5>3, <5>4
      <4> QED
        BY <4>1, <4>2
    <3> QED
      BY <3>2, <3>5, <3>6 DEF RecordInv
  <2> QED
    BY <2>2, <2>3
<1> QED
  BY <1>8, <1>9, <1>10, <1>11 DEF RowsInv

LEMMA RequestRows ==
  ASSUME RowsInv, NEW t \in Threads, Request(t)
  PROVE  RowsInv'
<1>1. WriterInv'
  BY RequestInv DEF RowsInv
<1>2. /\ Existing \subseteq Ids /\ 0 \in 0 .. MaxDate + 1 /\ 1 \in 0 .. MaxDate + 1
      /\ \A i \in Existing : rows[i].date \in 0 .. MaxDate /\ rows[i].rights \in {0, 1}
  BY IndexAssumption DEF RowsInv, Tables, Existing, Row, IndexAssumption
<1>3. CASE Save(t)
  <2>1. PICK i \in Existing : rows[i].date < MaxDate /\ Execute(t, "save", {i}, rows[i].date + 1)
    BY <1>3 DEF Save
  <2>2. rows[i].date + 1 \in 0 .. MaxDate /\ rows[i].date + 1 \in 0 .. MaxDate + 1
    BY <1>2, <2>1, IndexAssumption DEF IndexAssumption
  <2>3. /\ pc[t] = "idle" /\ op' = [op EXCEPT ![t] = "save"] /\ Goto(t, "read")
        /\ given' = given
    BY <1>3 DEF Save, Begin
  <2> QED
    BY <1>1, <1>2, <2>1, <2>2, <2>3, ExecuteRows DEF Single
<1>4. CASE RemoveRecord(t)
  <2>1. PICK i \in Existing : Execute(t, "remove", {i}, 0)
    BY <1>4 DEF RemoveRecord
  <2>2. /\ pc[t] = "idle" /\ op' = [op EXCEPT ![t] = "remove"] /\ Goto(t, "open")
        /\ given' = given
    BY <1>4 DEF RemoveRecord, Begin
  <2> QED
    BY <1>1, <1>2, <2>1, <2>2, ExecuteRows DEF Single
<1>5. CASE Grant(t)
  <2>1. PICK i \in Existing : Execute(t, "grant", {i}, 1 - rows[i].rights)
    BY <1>5 DEF Grant
  <2>2. 1 - rows[i].rights \in {0, 1} /\ 1 - rows[i].rights \in 0 .. MaxDate + 1
    BY <1>2, IndexAssumption DEF IndexAssumption
  <2>3. /\ pc[t] = "idle" /\ op' = [op EXCEPT ![t] = "grant"] /\ Goto(t, "read")
        /\ given' = given
    BY <1>5 DEF Grant, Begin
  <2> QED
    BY <1>1, <1>2, <2>1, <2>2, <2>3, ExecuteRows DEF Single
<1>6. CASE Massive(t)
  <2>1. PICK ids \in (SUBSET Existing) \ {{}} : Execute(t, "grant", ids, 1)
    BY <1>6 DEF Massive
  <2>2. /\ pc[t] = "idle" /\ op' = [op EXCEPT ![t] = "massive"] /\ Goto(t, "open")
        /\ given' = given
    BY <1>6 DEF Massive, Begin
  <2>3. ids \in SUBSET Ids /\ ids # {} /\ ids \subseteq Existing /\ "grant" \in Single
    BY <1>2 DEF Single
  <2>4. 1 \in {0, 1} /\ 1 \in 0 .. MaxDate + 1
    BY IndexAssumption DEF IndexAssumption
  <2>5. "massive" \in {"remove", "massive"} /\ "grant" # "create" /\ "grant" # "save"
    OBVIOUS
  <2> QED
    BY <1>1, <2>1, <2>2, <2>3, <2>4, <2>5, ExecuteRows
<1>7. CASE Create(t)
  <2>1. PICK i \in Ids \ Taken : Execute(t, "create", {i}, 0) /\ given' = Taken \cup {i}
    BY <1>7 DEF Create
  <2>2. pc[t] = "idle" /\ op' = [op EXCEPT ![t] = "create"] /\ Goto(t, "read")
    BY <1>7 DEF Create, Begin
  <2> QED
    BY <1>1, <1>2, <2>1, <2>2, ExecuteRows DEF Single
<1> QED
  BY <1>3, <1>4, <1>5, <1>6, <1>7, IdleRows DEF Request
-------------------------------------------------------------------------------
(* A commit shows the rows as its thread has indexed them; whoever has     *)
(* changed the same row without a conflict has still to index it.          *)
LEMMA CommitRows ==
  ASSUME RowsInv, NEW t \in Threads, Commit(t)
  PROVE  RowsInv'
<1>1. WriterInv'
  BY ProceedInv DEF RowsInv, Proceed, Commit, OpenFails
<1>2. /\ pc[t] = "commit" /\ ThreadInv(t) /\ ~stale[t] /\ todo[t] = <<>> /\ change[t] # None
      /\ rows' = Seen(t) /\ change' = [change EXCEPT ![t] = None]
      /\ stale' = [u \in Threads |-> u # t /\ (stale[u] \/ Conflict(change[t], change[u]))]
      /\ Leave(t)
      /\ UNCHANGED <<given, docs, view, current, opened, jobs>>
  BY DEF Commit, RowsInv, ThreadInv, Duties, ChangeMade, luceneVars
<1>3. /\ pc'[t] = "idle" /\ todo' = todo /\ DOMAIN doc' = Threads
      /\ \A u \in Threads \ {t} : /\ pc'[u] = pc[u] /\ op'[u] = op[u] /\ doc'[u] = doc[u]
                                  /\ change'[u] = change[u]
                                  /\ stale'[u] <=> stale[u] \/ Conflict(change[t], change[u])
      /\ change'[t] = None /\ DOMAIN change' = Threads /\ DOMAIN stale' = Threads
  BY <1>2, Moves DEF RowsInv, Tables
<1>4. Others(t)
  BY <1>2, <1>3 DEF Others
<1>5. ThreadInv(t)'
  <2>1. Duties(t)' /\ Places(t)' /\ ChangeMade(t)' /\ ~Holds(t)'
    BY <1>2, <1>3, NoElements DEF Duties, Places, ChangeMade, Holds, Optimizes, Group
  <2> QED
    BY <2>1 DEF ThreadInv
<1>6. \A u \in Threads : ThreadInv(u)'
  BY <1>2, <1>4, <1>5, OthersKept
<1>7. Tables'
  <2>1. rows' \in [Ids -> Row \cup {None}]
    BY <1>2, SeenRow DEF Seen, After
  <2>2. given' # {} => Existing' \subseteq given'
    <3>1. ASSUME NEW i \in Ids, Seen(t)[i] # None, given # {} PROVE i \in given
      <4>1. CASE rows[i] # None
        BY <3>1, <4>1 DEF RowsInv, Tables, Existing
      <4>2. CASE rows[i] = None
        <5>1. Changes(t, i) /\ change[t].kind = "create"
          BY <1>2, <3>1, <4>2, SeenRow DEF RowsInv, RecordInv, ChangedExists
        <5> QED
          BY <5>1 DEF RowsInv, ThreadInv, ChangeMade, Changes
      <4> QED
        BY <4>1, <4>2
    <3> QED
      BY <1>2, <3>1 DEF Existing
  <2> QED
    BY <1>2, <1>3, <2>1, <2>2 DEF RowsInv, Tables, Queued
<1>8. Uncommitted'
  <2>1. opened[t] # current
    BY <1>2, NoUserAllCommitted DEF RowsInv, WriterInv, HoldersOpened, Holds
  <2> QED
    BY <1>2, <1>3, <2>1 DEF RowsInv, Uncommitted, Optimizes
<1>9. ASSUME NEW i \in Ids PROVE RecordInv(i)'
  <2>1. /\ ~Changes(t, i)' /\ ~Due(t, i)
        /\ \A u \in Threads \ {t} : Changes(u, i)' <=> Changes(u, i)
        /\ \A u \in Threads : Due(u, i)' <=> Due(u, i)
    BY <1>2, <1>3, NoElements DEF Changes, Due
  <2>2. (rows[i] # None => rows'[i] # None) => (Coming(i) => Coming(i)')
    <3>1. \A u \in Threads : /\ Due(u, i) => Due(u, i)' /\ op'[u] = op[u]
                             /\ Adds(u, i) => Adds(u, i)'
      BY <1>2, <1>3, <2>1 DEF Adds
    <3>2. \A u \in Threads : pc[u] \in {"swap", "init"} => pc'[u] \in {"swap", "init"}
      BY <1>2, <1>3
    <3> QED
      BY <1>2, <3>1, <3>2, StillComing DEF Queued
  <2>3. CASE ~Changes(t, i)
    <3>1. rows'[i] = rows[i]
      BY <1>2, <2>3, SeenRow
    <3>2. \A u \in Threads :
            /\ Changes(u, i)' <=> Changes(u, i)
            /\ Changes(u, i) => change'[u] = change[u] /\ (stale[u] => stale'[u])
            /\ Due(u, i) => Due(u, i)'
            /\ pc'[u] = "commit" /\ ~stale[u] => pc[u] = "commit" \/ docs'[i] = view[i]
      BY <1>3, <2>1, <2>3
    <3> QED
      BY <1>2, <2>2, <3>1, <3>2, RecordKept
  <2>4. CASE Changes(t, i)
    <3>1. /\ RecordInv(i)
          /\ rows'[i] = Changed(rows[i], change[t])
          /\ change[t].kind # "remove" <=> rows'[i] # None
          /\ RemovalShown(t, i) /\ ChangeShown(t, i) /\ OthersConflict(t, i)
      BY <1>2, <2>4, SeenRow DEF RowsInv, RecordInv
    <3>2. GoneIsGone(i)'
      BY <1>2, <2>1, <3>1 DEF GoneIsGone, RemovalShown
    <3>3. ShownOrComing(i)'
      BY <1>2, <2>1, <2>2, <3>1 DEF ShownOrComing, ChangeShown, Alone
    <3>4. ASSUME NEW u \in Threads, Changes(u, i)'
          PROVE  u # t /\ Changes(u, i) /\ change'[u] = change[u]
      BY <1>3, <2>1, <3>4
    <3>5. ASSUME NEW u \in Threads, Changes(u, i)' PROVE NewIsUnknown(u, i)'
      BY <1>2, <2>4, <3>1, <3>4, <3>5 DEF RecordInv, NewIsUnknown
    <3>6. ASSUME NEW u \in Threads, Changes(u, i)', ~stale'[u]
          PROVE  /\ ChangedExists(u, i)' /\ RemovalShown(u, i)' /\ ChangeShown(u, i)'
                 /\ OthersConflict(u, i)'
      <4>1. /\ u # t /\ Changes(u, i) /\ change'[u] = change[u] /\ ~stale[u]
            /\ ~Conflict(change[t], change[u])
        BY <1>3, <3>4, <3>6
      <4>2. change[t].kind # "remove" /\ change[u].kind # "remove"
        BY <2>4, <4>1 DEF Conflict, Changes
      <4>3. ChangedExists(u, i)' /\ RemovalShown(u, i)'
        BY <3>1, <4>1, <4>2 DEF ChangedExists, RemovalShown
      <4>4. Due(u, i)'
        BY <2>1, <3>1, <4>1 DEF OthersConflict
      <4> QED
        BY <4>3, <4>4 DEF ChangeShown, OthersConflict
    <3> QED
      BY <3>2, <3>3, <3>5, <3>6 DEF RecordInv
  <2> QED
    BY <2>3, <2>4
<1> QED
  BY <1>1, <1>6, <1>7, <1>8, <1>9 DEF RowsInv

(* A crash leaves no documents without a row, and schedules those that the *)
(* dates show to be wrong.                                                 *)
LEMMA RestartRows ==
  ASSUME RowsInv, Restart, ~raced'
  PROVE  RowsInv'
<1> DEFINE late == {i \in Existing : ~UpToDate(i)}
<1>1. WriterInv'
  BY RestartInv DEF RowsInv
<1>2. /\ docs' = [i \in Ids |-> IF i \in Existing THEN docs[i] ELSE <<>>] /\ view' = docs'
      /\ jobs' = IF late = {} THEN <<>> ELSE <<InOrder(late)>>
      /\ \A i \in Existing : UpToDate(i) => docs[i] = <<rows[i]>>
      /\ change' = [t \in Threads |-> None] /\ stale' = [t \in Threads |-> FALSE]
      /\ pc' = [t \in Threads |-> "idle"]
      /\ todo' = [t \in Threads |-> <<>>] /\ doc' = [t \in Threads |-> None]
      /\ rows' = rows /\ given' = {}
  BY DEF Restart
<1>3. late \in SUBSET Ids
  BY DEF Existing
<1>4. /\ jobs' \in Seq(Seq(Ids) \ {<<>>}) /\ \A i : Queued(i)' <=> i \in late
  <2>1. CASE late = {}
    BY <1>2, <2>1 DEF Queued
  <2>2. CASE late # {}
    <3>1. /\ jobs' = <<InOrder(late)>> /\ InOrder(late) \in Seq(Ids) \ {<<>>}
          /\ ToSet(InOrder(late)) = late
      BY <1>2, <1>3, <2>2, Listing
    <3>2. DOMAIN jobs' = {1} /\ jobs'[1] = InOrder(late) /\ jobs' \in Seq(Seq(Ids) \ {<<>>})
      BY <3>1
    <3> QED
      BY <3>1, <3>2 DEF Queued
  <2> QED
    BY <2>1, <2>2
<1>5. ASSUME NEW t \in Threads PROVE ThreadInv(t)'
  <2>1. pc'[t] = "idle" /\ todo'[t] = <<>> /\ change'[t] = None
    BY <1>2
  <2>2. Duties(t)' /\ Places(t)' /\ ChangeMade(t)' /\ ~Holds(t)'
    BY <2>1, NoElements DEF Duties, Places, ChangeMade, Holds, Optimizes, Group
  <2> QED
    BY <2>2 DEF ThreadInv
<1>6. Tables'
  BY <1>2, <1>3, <1>4 DEF RowsInv, Tables, Existing
<1>7. Uncommitted'
  BY <1>2 DEF Uncommitted
<1>8. ASSUME NEW i \in Ids PROVE RecordInv(i)'
  <2>1. /\ \A t \in Threads : ~Changes(t, i)'
        /\ rows[i] = None => docs'[i] = <<>> /\ view'[i] = <<>>
        /\ rows[i] # None => view'[i] = docs[i]
    BY <1>2 DEF Changes, Existing
  <2>2. rows[i] # None => view'[i] = <<rows[i]>> \/ Queued(i)'
    BY <1>2, <1>4, <2>1 DEF Existing
  <2> QED
    BY <1>2, <2>1, <2>2 DEF RecordInv, GoneIsGone, ShownOrComing, Coming
<1> QED
  BY <1>1, <1>5, <1>6, <1>7, <1>8 DEF RowsInv
-------------------------------------------------------------------------------
LEMMA RowsInit == IndexInit => RowsInv
<1> SUFFICES ASSUME IndexInit PROVE RowsInv
  OBVIOUS
<1>1. InitIds \subseteq Ids /\ NewRow \in Row /\ None \notin Row
  BY IndexAssumption DEF IndexAssumption, NewRow, Row
<1>2. Tables
  BY <1>1 DEF IndexInit, Tables, Existing, Queued
<1>3. Uncommitted
  BY DEF IndexInit, Uncommitted
<1>4. ASSUME NEW t \in Threads PROVE ThreadInv(t)
  <2>1. pc[t] = "idle" /\ todo[t] = <<>> /\ change[t] = None
    BY DEF IndexInit
  <2>2. Duties(t) /\ Places(t) /\ ChangeMade(t) /\ ~Holds(t)
    BY <2>1, Resting
  <2> QED
    BY <2>2 DEF ThreadInv
<1>5. ASSUME NEW i \in Ids PROVE RecordInv(i)
  <2>1. \A t \in Threads : ~Changes(t, i)
    BY DEF IndexInit, Changes
  <2>2. GoneIsGone(i) /\ ShownOrComing(i)
    BY <1>1 DEF IndexInit, GoneIsGone, ShownOrComing
  <2> QED
    BY <2>1, <2>2 DEF RecordInv
<1> QED
  BY <1>2, <1>3, <1>4, <1>5, WriterInit DEF RowsInv

LEMMA RowsStep ==
  ASSUME RowsInv, IndexNext, ~raced'
  PROVE  RowsInv'
<1>1. CASE Restart
  BY <1>1, RestartRows
<1>2. ASSUME NEW t \in Threads, Request(t) PROVE RowsInv'
  BY <1>2, RequestRows
<1>3. ASSUME NEW t \in Threads, Proceed(t) PROVE RowsInv'
  <2>1. ~(OpenFails(t) \/ CloseFails(t) \/ NotIndexed(t) \/ Abort(t))
    BY DEF OpenFails, CloseFails, NotIndexed, Abort
  <2>2. CASE Open(t) \/ Close(t) \/ Optimize(t) \/ OptimizeFails(t)
    BY <2>2, OpenRows, CloseRows, OptimizeRows
  <2>3. CASE Read(t)
    BY <2>3, ReadRows, SkipRows
  <2>4. CASE Delete(t) \/ Add(t)
    BY <2>4, DeleteRows, AddRows
  <2>5. CASE Erase(t) \/ EraseFails(t) \/ Swap(t) \/ Init(t)
    BY <2>5, EraseRows, IdleRows, SwapRows, InitRows
  <2>6. CASE StartJob(t) \/ Commit(t)
    BY <2>6, StartJobRows, CommitRows
  <2> QED
    BY <1>3, <2>1, <2>2, <2>3, <2>4, <2>5, <2>6 DEF Proceed
<1> QED
  BY <1>1, <1>2, <1>3 DEF IndexNext

(* Nothing takes a race back.                                              *)
LEMMA RacedStays == [IndexNext]_vars /\ raced => raced'
<1>1. ASSUME NEW t \in Threads, Request(t), raced PROVE raced'
  BY <1>1 DEF Request, Save, Grant, Massive, RemoveRecord, Create, CheckOpen, CallOptimize, Execute
<1>2. ASSUME NEW t \in Threads, Proceed(t), raced PROVE raced'
  BY <1>2 DEF Proceed, Open, OpenFails, Close, CloseFails, Read, Delete, Add, NotIndexed, Optimize,
              OptimizeFails, Erase, EraseFails, Swap, Init, StartJob, Commit, Abort
<1> QED
  BY <1>1, <1>2 DEF IndexNext, Restart, vars

(* What is true at rest.                                                   *)
LEMMA RestShowsRows ==
  ASSUME RowsInv, AtRest, NEW i \in Ids
  PROVE  docs[i] = IF rows[i] = None THEN <<>> ELSE <<rows[i]>>
<1>1. \A t \in Threads : todo[t] = <<>> /\ change[t] = None /\ opened[t] = None
  BY DEF AtRest, RowsInv, ThreadInv, Duties, ChangeMade, WriterInv, HoldersOpened, Holds
<1>2. docs = view
  BY <1>1, NoUserAllCommitted
<1>3. ~Coming(i) /\ \A t \in Threads : ~Changes(t, i)
  BY <1>1, NoElements DEF AtRest, Coming, Adds, Due, Queued, Changes
<1> QED
  BY <1>2, <1>3 DEF RowsInv, RecordInv, GoneIsGone, ShownOrComing

(* When nothing is under way there is one document for every row and none  *)
(* without a row, and it shows what is committed, unless one of the events *)
(* of the property has happened (SearchManager.index and rebuildIndex,     *)
(* DataManager.indexMetadataGroup and init).                               *)
THEOREM IndexShowsRows == IndexSpec => []IndexFollowsRows
<1> DEFINE Inv == ~raced => RowsInv
<1>1. IndexInit => Inv
  BY RowsInit
<1>2. Inv /\ [IndexNext]_vars => Inv'
  <2> SUFFICES ASSUME Inv, [IndexNext]_vars, ~raced' PROVE RowsInv'
    OBVIOUS
  <2>1. RowsInv
    BY RacedStays
  <2>2. CASE IndexNext
    BY <2>1, <2>2, RowsStep
  <2>3. CASE UNCHANGED vars
    <3>1. WriterInv'
      BY <2>1, <2>3
      DEF vars, luceneVars, localVars, RowsInv, WriterInv, WriterTypes, Unborn, CountedIsOpen,
          UsersCounted, Users, HoldersOpened, Holds, Group, Stuck, RebuildsLeft, Rebuilding
    <3>2. Tables' /\ Uncommitted'
      BY <2>1, <2>3
      DEF vars, rowVars, luceneVars, localVars, RowsInv, Tables, Existing, Queued, Uncommitted,
          Optimizes
    <3>3. ASSUME NEW t \in Threads PROVE ThreadInv(t)'
      BY <2>1, <2>3
      DEF vars, rowVars, luceneVars, localVars, RowsInv, ThreadInv, Duties, Places, ChangeMade,
          Holds, Group, Optimizes
    <3>4. ASSUME NEW i \in Ids PROVE RecordInv(i)'
      <4>1. Coming(i) => Coming(i)'
        BY <2>3, StillComing DEF vars, rowVars, localVars, Due, Adds, Queued
      <4> QED
        BY <2>1, <2>3, <4>1, RecordKept
        DEF vars, rowVars, luceneVars, localVars, Changes, Due
    <3> QED
      BY <3>1, <3>2, <3>3, <3>4 DEF RowsInv
  <2> QED
    BY <2>2, <2>3
<1>3. Inv => IndexFollowsRows
  BY RestShowsRows DEF IndexFollowsRows
<1> QED
  BY <1>1, <1>2, <1>3, PTL DEF IndexSpec
-------------------------------------------------------------------------------
(* Types, after races too.                                                 *)
PlaceNames == {"idle", "read", "open", "delete", "add", "optimize", "close", "erase", "swap",
               "init", "commit"}

TableTypes ==
  /\ rows \in [Ids -> Row \cup {None}]
  /\ given \subseteq Ids
  /\ monitor \in Threads \cup {None}
  /\ jobs \in Seq(Seq(Ids) \ {<<>>})
  /\ calls \in 0 .. MaxCalls /\ crashes \in 0 .. MaxCrashes
  /\ raced \in BOOLEAN

LuceneTypes ==
  /\ docs \in [Ids -> Seq(Row)] /\ view \in [Ids -> Seq(Row)]
  /\ lock \in Gens \cup {None}
  /\ current \in Gens
  /\ count \in [Gens -> Nat]
  /\ writer \in [Gens -> {"none", "open", "closed"}]

ControlTypes ==
  /\ pc \in [Threads -> PlaceNames]
  /\ op \in [Threads -> Operations \cup {"job", None}]
  /\ todo \in [Threads -> Seq(Ids)]
  /\ doc \in [Threads -> Row \cup {None}]
RequestTypes ==
  /\ change \in [Threads -> Change \cup {None}]
  /\ stale \in [Threads -> BOOLEAN]
  /\ opened \in [Threads -> Gens \cup {None}]

(* What a step finds in the hand of its thread.                            *)
InHand(t) ==
  /\ pc[t] \in {"read", "delete", "add"} => todo[t] # <<>>
  /\ pc[t] = "open" => todo[t] # <<>> \/ Optimizes(t)
  /\ pc[t] \in {"read", "add"} => op[t] \in Indexing
  /\ pc[t] = "delete" => op[t] \in Indexing \cup {"remove", "rebuild"}
  /\ \/ pc[t] = "add"
     \/ pc[t] = "delete" /\ ~Removes(t)
     \/ pc[t] = "open" /\ ~Removes(t) /\ ~Group(t) /\ ~Optimizes(t)
     => doc[t] # None
  /\ pc[t] = "open" => op[t] \in Indexing \cup {"remove", "rebuild", "optimize", "timer"}
  /\ pc[t] \in {"erase", "swap", "init"} => op[t] = "rebuild"
Written(t) ==
  /\ change[t] # None /\ change[t].kind = "save" => change[t].value \in 0 .. MaxDate
  /\ change[t] # None /\ change[t].kind = "grant" => change[t].value \in {0, 1}

TypeInv ==
  /\ TableTypes /\ LuceneTypes /\ ControlTypes /\ RequestTypes
  /\ RebuildsLeft
  /\ \A t \in Threads : InHand(t) /\ Written(t)

LEMMA TypeInvGivesTypes == TypeInv => IndexTypeOK
<1> SUFFICES ASSUME TypeInv PROVE IndexTypeOK
  OBVIOUS
<1>1. jobs \in Seq(Seq(Ids))
  BY SeqMonotonic DEF TypeInv, TableTypes
<1> QED
  BY <1>1 DEF TypeInv, TableTypes, LuceneTypes, ControlTypes, RequestTypes, IndexTypeOK, PlaceNames

(* The moves, and what they leave in the hand of the thread.               *)
OnlyMoves(t) ==
  /\ ControlTypes'
  /\ \A u \in Threads \ {t} :
       pc'[u] = pc[u] /\ op'[u] = op[u] /\ todo'[u] = todo[u] /\ doc'[u] = doc[u]

LEMMA LeaveTypes ==
  ASSUME ControlTypes, NEW t \in Threads, Leave(t)
  PROVE  OnlyMoves(t) /\ pc'[t] = "idle" /\ InHand(t)'
<1>1. OnlyMoves(t) /\ pc'[t] = "idle"
  BY DEF Leave, ControlTypes, OnlyMoves, PlaceNames
<1> QED
  BY <1>1 DEF InHand

LEMMA GotoTypes ==
  ASSUME ControlTypes, NEW t \in Threads, NEW place \in PlaceNames, Goto(t, place)
  PROVE  /\ pc' \in [Threads -> PlaceNames] /\ pc'[t] = place
         /\ \A u \in Threads \ {t} : pc'[u] = pc[u]
BY DEF Goto, ControlTypes

LEMMA FinishTypes ==
  ASSUME ControlTypes, NEW t \in Threads, Finish(t), monitor \in Threads \cup {None}
  PROVE  /\ OnlyMoves(t) /\ pc'[t] \in {"idle", "commit"} /\ InHand(t)'
         /\ monitor' \in Threads \cup {None}
<1>1. CASE change[t] = None
  BY <1>1, LeaveTypes DEF Finish, ReleaseMonitor
<1>2. CASE change[t] # None
  <2>1. Goto(t, "commit") /\ UNCHANGED <<op, todo, doc>> /\ monitor' \in Threads \cup {None}
    BY <1>2 DEF Finish, ReleaseMonitor
  <2>2. OnlyMoves(t) /\ pc'[t] = "commit"
    BY <2>1, GotoTypes DEF OnlyMoves, ControlTypes, PlaceNames
  <2> QED
    BY <2>1, <2>2 DEF InHand
<1> QED
  BY <1>1, <1>2

LEMMA HasElements ==
  ASSUME NEW S, NEW s \in Seq(S), Len(s) > 0
  PROVE  s # <<>>
OBVIOUS

LEMMA NextRecordTypes ==
  ASSUME ControlTypes, NEW t \in Threads, InHand(t),
         pc[t] \in {"read", "delete", "add"}, NextRecord(t), UNCHANGED <<op, doc>>
  PROVE  OnlyMoves(t) /\ pc'[t] \in {"read", "close"} /\ InHand(t)'
<1>1. todo[t] # <<>> /\ todo[t] \in Seq(Ids)
  BY DEF InHand, ControlTypes
<1>2. /\ Tail(todo[t]) \in Seq(Ids) /\ Len(Tail(todo[t])) = Len(todo[t]) - 1 /\ Len(todo[t]) \in Nat
  BY <1>1, Tails
<1>3. /\ todo' = [todo EXCEPT ![t] = Tail(@)]
      /\ Goto(t, IF Group(t) /\ Len(todo[t]) > 1 THEN "read" ELSE "close")
  BY DEF NextRecord
<1>4. /\ pc' \in [Threads -> PlaceNames] /\ \A u \in Threads \ {t} : pc'[u] = pc[u]
      /\ pc'[t] = IF Group(t) /\ Len(todo[t]) > 1 THEN "read" ELSE "close"
  BY <1>3, GotoTypes DEF PlaceNames
<1>5. OnlyMoves(t)
  BY <1>2, <1>3, <1>4 DEF OnlyMoves, ControlTypes
<1>6. pc'[t] = "read" => todo'[t] # <<>>
  <2>1. pc'[t] = "read" => Tail(todo[t]) # <<>>
    <3>1. pc'[t] = "read" => Len(Tail(todo[t])) > 0
      BY <1>2, <1>4
    <3> QED
      BY <1>2, <3>1, HasElements
  <2>2. todo'[t] = Tail(todo[t])
    BY <1>3 DEF ControlTypes
  <2> QED
    BY <2>1, <2>2
<1> QED
  BY <1>4, <1>5, <1>6 DEF InHand, Group, Indexing

(* The rebuilds that are still possible.                                   *)
LEMMA RebuildsMove ==
  ASSUME TypeInv, NEW t \in Threads, \A u \in Threads \ {t} : pc'[u] = pc[u], current' = current,
         \/ pc'[t] \notin {"erase", "swap"}
         \/ pc[t] \in {"erase", "swap"}
         \/ current + Cardinality(Rebuilding) < MaxGen
  PROVE  RebuildsLeft'
<1>1. Rebuilding \in SUBSET Threads /\ Rebuilding' \in SUBSET Threads
      /\ Rebuilding \cup {t} \in SUBSET Threads
  BY DEF Rebuilding
<1>2. /\ Cardinality(Rebuilding) \in Nat /\ Cardinality(Rebuilding') \in Nat
      /\ Cardinality(Rebuilding \cup {t}) \in Nat
      /\ Cardinality(Rebuilding \cup {t}) <= Cardinality(Rebuilding) + 1
  BY <1>1, ThreadSets
<1>3. current \in Int /\ MaxGen \in Int
  BY IndexAssumption DEF TypeInv, LuceneTypes, Gens, IndexAssumption
<1>4. CASE current + Cardinality(Rebuilding) < MaxGen
  <2>1. Rebuilding' \subseteq Rebuilding \cup {t}
    BY DEF Rebuilding
  <2>2. Cardinality(Rebuilding') <= Cardinality(Rebuilding \cup {t})
    BY <1>1, <2>1, ThreadSets
  <2> QED
    BY <1>2, <1>3, <1>4, <2>2 DEF RebuildsLeft
<1>5. CASE pc'[t] \notin {"erase", "swap"} \/ pc[t] \in {"erase", "swap"}
  <2>1. Rebuilding' \subseteq Rebuilding
    BY <1>5 DEF Rebuilding
  <2>2. Cardinality(Rebuilding') <= Cardinality(Rebuilding)
    BY <1>1, <2>1, ThreadSets
  <2> QED
    BY <1>2, <1>3, <2>2 DEF TypeInv, RebuildsLeft
<1> QED
  BY <1>4, <1>5

(* A step of one thread.                                                   *)
LEMMA ThreadTypes ==
  ASSUME TypeInv, NEW t \in Threads, TableTypes', LuceneTypes', RequestTypes', OnlyMoves(t),
         \A u \in Threads \ {t} : change'[u] = change[u],
         InHand(t)', Written(t)', current' = current,
         \/ pc'[t] \notin {"erase", "swap"}
         \/ pc[t] \in {"erase", "swap"}
         \/ current + Cardinality(Rebuilding) < MaxGen
  PROVE  TypeInv'
<1>1. RebuildsLeft'
  BY RebuildsMove DEF OnlyMoves
<1>2. ASSUME NEW u \in Threads \ {t} PROVE InHand(u)' /\ Written(u)'
  <2>1. InHand(u)'
    BY DEF TypeInv, InHand, OnlyMoves, Optimizes, Removes, Group
  <2>2. Written(u)'
    BY DEF TypeInv, Written
  <2> QED
    BY <2>1, <2>2
<1> QED
  BY <1>1, <1>2 DEF TypeInv, OnlyMoves
-------------------------------------------------------------------------------
LEMMA ExecuteTypes ==
  ASSUME TypeInv, NEW t \in Threads, NEW kind \in Single, NEW ids \in SUBSET Ids, ids # {},
         NEW value \in 0 .. MaxDate + 1, NEW o \in Operations, NEW place \in {"read", "open"},
         place = "read" => o \in {"save", "grant", "create"},
         place = "open" => o \in {"remove", "massive"},
         kind = "save" => value \in 0 .. MaxDate,
         kind = "grant" => value \in {0, 1},
         Begin(t, o), Goto(t, place), Execute(t, kind, ids, value),
         given' \in SUBSET Ids, monitor' \in Threads \cup {None}
  PROVE  TypeInv'
<1> DEFINE c == [kind |-> kind, ids |-> ids, value |-> value]
<1>1. /\ change' = [change EXCEPT ![t] = c] /\ todo' = [todo EXCEPT ![t] = InOrder(ids)]
      /\ op' = [op EXCEPT ![t] = o] /\ calls' = calls + 1 /\ calls < MaxCalls
      /\ UNCHANGED <<rows, stale, docs, view, lock, current, count, writer, doc, opened, crashes,
                     jobs, raced>>
  BY DEF Execute, Begin, luceneVars
<1>2. c \in Change /\ c.kind = kind /\ c.value = value
  BY DEF Change
<1>3. InOrder(ids) \in Seq(Ids) /\ InOrder(ids) # <<>>
  BY Listing
<1>4. /\ pc' \in [Threads -> PlaceNames] /\ pc'[t] = place
      /\ \A u \in Threads \ {t} : pc'[u] = pc[u]
  BY GotoTypes DEF TypeInv, PlaceNames
<1>5. OnlyMoves(t) /\ op'[t] = o /\ todo'[t] = InOrder(ids)
  BY <1>1, <1>3, <1>4 DEF TypeInv, ControlTypes, OnlyMoves
<1>6. TableTypes'
  BY <1>1, IndexAssumption DEF TypeInv, TableTypes, IndexAssumption
<1>7. LuceneTypes' /\ RequestTypes'
  BY <1>1, <1>2 DEF TypeInv, LuceneTypes, RequestTypes
<1>8. InHand(t)'
  BY <1>3, <1>4, <1>5 DEF InHand, Indexing, Group, Optimizes, Removes
<1>9. Written(t)' /\ \A u \in Threads \ {t} : change'[u] = change[u]
  BY <1>1, <1>2 DEF TypeInv, RequestTypes, Written
<1> QED
  BY <1>1, <1>4, <1>5, <1>6, <1>7, <1>8, <1>9, ThreadTypes

LEMMA RequestTyped ==
  ASSUME TypeInv, NEW t \in Threads, Request(t)
  PROVE  TypeInv'
<1>1. /\ Existing \subseteq Ids /\ 0 \in 0 .. MaxDate + 1 /\ 1 \in 0 .. MaxDate + 1
      /\ \A i \in Existing : rows[i].date \in 0 .. MaxDate /\ rows[i].rights \in {0, 1}
      /\ given \in SUBSET Ids /\ Taken \in SUBSET Ids /\ monitor \in Threads \cup {None}
  BY IndexAssumption DEF TypeInv, TableTypes, Existing, Taken, Row, IndexAssumption
<1>2. CASE Save(t)
  <2>1. PICK i \in Existing : rows[i].date < MaxDate /\ Execute(t, "save", {i}, rows[i].date + 1)
    BY <1>2 DEF Save
  <2>2. rows[i].date + 1 \in 0 .. MaxDate /\ rows[i].date + 1 \in 0 .. MaxDate + 1
    BY <1>1, <2>1, IndexAssumption DEF IndexAssumption
  <2>3. /\ Begin(t, "save") /\ Goto(t, "read") /\ given' = given /\ monitor' = t
    BY <1>2 DEF Save
  <2> QED
    BY <1>1, <2>1, <2>2, <2>3, ExecuteTypes DEF Single, Operations
<1>3. CASE RemoveRecord(t)
  <2>1. PICK i \in Existing : Execute(t, "remove", {i}, 0)
    BY <1>3 DEF RemoveRecord
  <2>2. Begin(t, "remove") /\ Goto(t, "open") /\ given' = given /\ monitor' = t
    BY <1>3 DEF RemoveRecord
  <2> QED
    BY <1>1, <2>1, <2>2, ExecuteTypes DEF Single, Operations
<1>4. CASE Grant(t)
  <2>1. PICK i \in Existing : Execute(t, "grant", {i}, 1 - rows[i].rights)
    BY <1>4 DEF Grant
  <2>2. 1 - rows[i].rights \in {0, 1} /\ 1 - rows[i].rights \in 0 .. MaxDate + 1
    BY <1>1, IndexAssumption DEF IndexAssumption
  <2>3. Begin(t, "grant") /\ Goto(t, "read") /\ given' = given /\ monitor' = monitor
    BY <1>4 DEF Grant
  <2> QED
    BY <1>1, <2>1, <2>2, <2>3, ExecuteTypes DEF Single, Operations
<1>5. CASE Massive(t)
  <2>1. PICK ids \in (SUBSET Existing) \ {{}} : Execute(t, "grant", ids, 1)
    BY <1>5 DEF Massive
  <2>2. Begin(t, "massive") /\ Goto(t, "open") /\ given' = given /\ monitor' = monitor
    BY <1>5 DEF Massive
  <2>3. ids \in SUBSET Ids /\ ids # {}
    BY <1>1
  <2> QED
    BY <1>1, <2>1, <2>2, <2>3, ExecuteTypes DEF Single, Operations
<1>6. CASE Create(t)
  <2>1. PICK i \in Ids \ Taken : Execute(t, "create", {i}, 0) /\ given' = Taken \cup {i}
    BY <1>6 DEF Create
  <2>2. Begin(t, "create") /\ Goto(t, "read") /\ monitor' = monitor
    BY <1>6 DEF Create
  <2> QED
    BY <1>1, <2>1, <2>2, ExecuteTypes DEF Single, Operations
<1>7. CASE CheckOpen(t) \/ CallOptimize(t)
  <2>1. PICK o \in {"rebuild", "optimize", "timer"}, place \in {"erase", "open"} :
          /\ Begin(t, o) /\ Goto(t, place)
          /\ place = "open" => o # "rebuild"
          /\ place = "erase" => o = "rebuild" /\ current + Cardinality(Rebuilding) < MaxGen
    BY <1>7 DEF CheckOpen, CallOptimize
  <2>2. UNCHANGED <<rows, given, change, stale, docs, view, lock, current, count, writer, todo, doc,
                    opened, crashes, monitor, jobs, raced>>
    BY <1>7 DEF CheckOpen, CallOptimize, rowVars, luceneVars
  <2>3. /\ pc' \in [Threads -> PlaceNames] /\ pc'[t] = place
        /\ \A u \in Threads \ {t} : pc'[u] = pc[u]
    BY <2>1, GotoTypes DEF TypeInv, PlaceNames
  <2>4. op' = [op EXCEPT ![t] = o] /\ calls' = calls + 1 /\ calls < MaxCalls
    BY <2>1 DEF Begin
  <2>5. OnlyMoves(t) /\ op'[t] = o
    BY <2>2, <2>3, <2>4 DEF TypeInv, ControlTypes, OnlyMoves, Operations
  <2>6. TableTypes' /\ LuceneTypes' /\ RequestTypes'
    BY <2>2, <2>4, IndexAssumption
    DEF TypeInv, TableTypes, LuceneTypes, RequestTypes, IndexAssumption
  <2>7. InHand(t)' /\ Written(t)'
    BY <2>1, <2>2, <2>3, <2>5 DEF InHand, Written, TypeInv, Optimizes
  <2> QED
    BY <2>1, <2>2, <2>3, <2>5, <2>6, <2>7, ThreadTypes
<1> QED
  BY <1>2, <1>3, <1>4, <1>5, <1>6, <1>7 DEF Request

(* The writer.                                                             *)
LEMMA WriterTyped ==
  ASSUME TypeInv, NEW t \in Threads,
         Open(t) \/ OpenFails(t) \/ Close(t) \/ CloseFails(t) \/ Optimize(t) \/ OptimizeFails(t)
  PROVE  TypeInv'
<1>1. /\ UNCHANGED <<rows, given, current, calls, crashes, jobs>>
      /\ pc[t] \in {"open", "close", "optimize"}
      /\ raced' \in {TRUE, raced}
  BY DEF Open, OpenFails, Close, CloseFails, Optimize, OptimizeFails, rowVars, luceneVars,
         boundVars
<1>2. /\ current \in Gens /\ count \in [Gens -> Nat] /\ count[current] \in Nat
      /\ monitor \in Threads \cup {None} /\ ControlTypes /\ InHand(t) /\ Written(t)
  BY DEF TypeInv, LuceneTypes, TableTypes
<1>3. LuceneTypes'
  <2>1. docs' \in {docs, view} /\ view' \in {docs, view}
    BY DEF Open, OpenFails, Close, CloseFails, Optimize, OptimizeFails, CloseWriter, luceneVars
  <2>2. lock' \in {lock, current, None}
    BY DEF Open, OpenFails, Close, CloseFails, Optimize, OptimizeFails, CloseWriter, luceneVars
  <2>3. \/ writer' = writer
        \/ writer' = [writer EXCEPT ![current] = "open"]
        \/ writer' = [writer EXCEPT ![current] = "closed"]
    BY DEF Open, OpenFails, Close, CloseFails, Optimize, OptimizeFails, CloseWriter, luceneVars
  <2>4. \/ count' = count
        \/ count' = [count EXCEPT ![current] = @ + 1]
        \/ count' = [count EXCEPT ![current] = @ - 1] /\ count[current] > 0
    BY DEF Open, OpenFails, Close, CloseFails, Optimize, OptimizeFails, CloseWriter, luceneVars
  <2>5. count' \in [Gens -> Nat]
    BY <1>2, <2>4
  <2> QED
    BY <1>1, <1>2, <2>1, <2>2, <2>3, <2>5 DEF TypeInv, LuceneTypes
<1>4. RequestTypes' /\ Written(t)' /\ \A u \in Threads \ {t} : change'[u] = change[u]
  <2>1. opened' \in {opened, [opened EXCEPT ![t] = current], [opened EXCEPT ![t] = None]}
    BY DEF Open, OpenFails, Close, CloseFails, Optimize, OptimizeFails, luceneVars
  <2>2. UNCHANGED <<change, stale>> \/ Drop(t)
    BY DEF Open, OpenFails, Close, CloseFails, Optimize, OptimizeFails, rowVars
  <2> QED
    BY <1>2, <2>1, <2>2 DEF TypeInv, RequestTypes, Drop, Written
<1>5. /\ OnlyMoves(t) /\ InHand(t)' /\ pc'[t] \notin {"erase", "swap"}
      /\ monitor' \in Threads \cup {None}
  <2>1. CASE Finish(t)
    BY <1>2, <2>1, FinishTypes
  <2>2. CASE Leave(t) /\ (ReleaseMonitor(t) \/ UNCHANGED monitor)
    BY <1>2, <2>2, LeaveTypes DEF ReleaseMonitor
  <2>3. CASE \E place \in {"optimize", "close"} : Goto(t, place) /\ UNCHANGED <<op, todo, doc, monitor>>
    <3>1. PICK place \in {"optimize", "close"} : Goto(t, place) /\ UNCHANGED <<op, todo, doc, monitor>>
      BY <2>3
    <3>2. OnlyMoves(t) /\ pc'[t] = place
      BY <1>2, <3>1, GotoTypes DEF OnlyMoves, ControlTypes, PlaceNames
    <3> QED
      BY <1>2, <3>1, <3>2 DEF InHand
  <2>4. CASE Open(t)
    <3>1. Goto(t, AfterOpen(t)) /\ UNCHANGED <<op, todo, doc, monitor>> /\ pc[t] = "open"
      BY <2>4 DEF Open
    <3>2. \/ Group(t) /\ AfterOpen(t) = "read"
          \/ ~Group(t) /\ Optimizes(t) /\ AfterOpen(t) = "optimize"
          \/ ~Group(t) /\ ~Optimizes(t) /\ AfterOpen(t) = "delete"
      <4>1. ~Group(t) \/ ~Optimizes(t)
        BY DEF Group, Optimizes
      <4>2. /\ AfterOpen(t) \in {"read", "optimize", "delete"}
            /\ AfterOpen(t) = "read" => Group(t)
            /\ AfterOpen(t) = "optimize" => Optimizes(t)
            /\ AfterOpen(t) = "delete" => ~Group(t) /\ ~Optimizes(t)
        BY DEF AfterOpen
      <4> QED
        BY <4>1, <4>2
    <3>3. OnlyMoves(t) /\ pc'[t] = AfterOpen(t)
      <4>1. AfterOpen(t) \in PlaceNames
        BY <3>2 DEF PlaceNames
      <4>2. /\ pc' \in [Threads -> PlaceNames] /\ pc'[t] = AfterOpen(t)
            /\ \A u \in Threads \ {t} : pc'[u] = pc[u]
        BY <1>2, <3>1, <4>1, GotoTypes
      <4> QED
        BY <1>2, <3>1, <4>2 DEF OnlyMoves, ControlTypes
    <3>4. InHand(t)'
      BY <1>2, <3>1, <3>2, <3>3 DEF InHand, Group, Optimizes, Removes, Indexing
    <3> QED
      BY <1>2, <3>1, <3>2, <3>3, <3>4
  <2>5. CASE Removes(t) /\ todo[t] # <<>> /\ Goto(t, "open") /\ UNCHANGED <<op, todo, doc, monitor>>
    <3>1. OnlyMoves(t) /\ pc'[t] = "open"
      BY <1>2, <2>5, GotoTypes DEF OnlyMoves, ControlTypes, PlaceNames
    <3> QED
      BY <1>2, <2>5, <3>1 DEF InHand, Removes
  <2>6. CASE OpenFails(t)
    <3>1. \/ Goto(t, "optimize") /\ UNCHANGED <<op, todo, doc, monitor>>
          \/ Finish(t)
          \/ Leave(t) /\ ReleaseMonitor(t)
      BY <2>6 DEF OpenFails
    <3> QED
      BY <2>1, <2>2, <2>3, <3>1
  <2>7. CASE Close(t) \/ CloseFails(t)
    BY <2>1, <2>2, <2>5, <2>7 DEF Close, CloseFails, AfterClose
  <2>8. CASE Optimize(t) \/ OptimizeFails(t)
    BY <2>2, <2>3, <2>8 DEF Optimize, OptimizeFails
  <2> QED
    BY <2>4, <2>6, <2>7, <2>8
<1>6. TableTypes'
  BY <1>1, <1>5 DEF TypeInv, TableTypes
<1> QED
  BY <1>1, <1>3, <1>4, <1>5, <1>6, ThreadTypes

(* The rows that a transaction sees.                                       *)
LEMMA SeenTypes ==
  ASSUME TypeInv, NEW t \in Threads
  PROVE  Seen(t) \in [Ids -> Row \cup {None}]
<1>1. NewRow \in Row
  BY IndexAssumption DEF IndexAssumption, NewRow, Row
<1>2. ASSUME NEW i \in Ids, Changes(t, i) PROVE Changed(rows[i], change[t]) \in Row \cup {None}
  <2>1. change[t] \in Change /\ rows[i] \in Row \cup {None} /\ Written(t) /\ change[t] # None
    BY <1>2 DEF TypeInv, TableTypes, RequestTypes, Changes
  <2>2. change[t].kind \in Single
    BY <2>1 DEF Change
  <2>3. CASE rows[i] # None /\ change[t].kind = "save"
    <3>1. Changed(rows[i], change[t]) = [rows[i] EXCEPT !.date = change[t].value]
      BY <2>3 DEF Changed
    <3> QED
      BY <2>1, <2>3, <3>1 DEF Written, Row
  <2>4. CASE rows[i] # None /\ change[t].kind = "grant"
    <3>1. Changed(rows[i], change[t]) = [rows[i] EXCEPT !.rights = change[t].value]
      BY <2>4 DEF Changed
    <3> QED
      BY <2>1, <2>4, <3>1 DEF Written, Row
  <2>5. CASE rows[i] = None \/ change[t].kind \in {"create", "remove"}
    BY <1>1, <2>5 DEF Changed
  <2> QED
    BY <2>2, <2>3, <2>4, <2>5 DEF Single
<1>3. \A i \in Ids : Seen(t)[i] = IF Changes(t, i) THEN Changed(rows[i], change[t]) ELSE rows[i]
  BY DEF Seen, After, Changes
<1>4. \A i \in Ids : Seen(t)[i] \in Row \cup {None}
  BY <1>2, <1>3 DEF TypeInv, TableTypes
<1> QED
  BY <1>4 DEF Seen, After

(* Indexing.                                                               *)
LEMMA IndexingTyped ==
  ASSUME TypeInv, NEW t \in Threads, Read(t) \/ Delete(t) \/ Add(t) \/ NotIndexed(t)
  PROVE  TypeInv'
<1>1. /\ UNCHANGED <<rows, given, lock, current, count, writer, opened, calls, crashes, jobs>>
      /\ pc[t] \in {"read", "delete", "add"}
  BY DEF Read, Delete, Add, NotIndexed, rowVars, luceneVars, boundVars
<1>2. /\ monitor \in Threads \cup {None} /\ ControlTypes /\ InHand(t) /\ Written(t)
      /\ TableTypes /\ LuceneTypes /\ RequestTypes /\ current \in Gens
  BY DEF TypeInv, LuceneTypes, TableTypes
<1>3. todo[t] # <<>> /\ todo[t] \in Seq(Ids) /\ Head(todo[t]) \in Ids /\ Tail(todo[t]) \in Seq(Ids)
  BY <1>1, <1>2, Tails DEF InHand, ControlTypes
<1> PICK i : i = Head(todo[t])
  OBVIOUS
<1>4. CASE Read(t)
  <2>1. UNCHANGED <<change, stale, docs, view, raced>> /\ pc[t] = "read"
    BY <1>4 DEF Read, rowVars, luceneVars
  <2>2. Seen(t)[i] \in Row \cup {None}
    BY <1>3, SeenTypes
  <2>3. CASE Seen(t)[i] # None
    <3>1. /\ doc' = [doc EXCEPT ![t] = Seen(t)[i]]
          /\ Goto(t, IF Group(t) THEN "delete" ELSE "open") /\ UNCHANGED <<op, todo, monitor>>
      BY <1>4, <2>3 DEF Read
    <3>2. /\ pc' \in [Threads -> PlaceNames] /\ pc'[t] = (IF Group(t) THEN "delete" ELSE "open")
          /\ \A u \in Threads \ {t} : pc'[u] = pc[u]
      BY <1>2, <3>1, GotoTypes DEF PlaceNames
    <3>3. OnlyMoves(t) /\ doc'[t] # None
      BY <1>2, <2>2, <2>3, <3>1, <3>2 DEF OnlyMoves, ControlTypes
    <3>4. InHand(t)'
      BY <1>2, <1>3, <2>1, <3>1, <3>2, <3>3 DEF InHand, Group, Removes, Optimizes, Indexing
    <3> QED
      BY <3>1, <3>2, <3>3, <3>4, <2>1, <1>1, <1>2, ThreadTypes
      DEF TableTypes, LuceneTypes, RequestTypes, Written
  <2>4. CASE Seen(t)[i] = None /\ Group(t)
    <3>1. NextRecord(t) /\ UNCHANGED <<op, doc, monitor>>
      BY <1>4, <2>4 DEF Read
    <3>2. OnlyMoves(t) /\ pc'[t] \in {"read", "close"} /\ InHand(t)'
      BY <1>1, <1>2, <3>1, NextRecordTypes
    <3> QED
      BY <3>1, <3>2, <2>1, <1>1, <1>2, ThreadTypes
      DEF TableTypes, LuceneTypes, RequestTypes, Written
  <2>5. CASE Seen(t)[i] = None /\ ~Group(t)
    <3>1. Finish(t)
      BY <1>4, <2>5 DEF Read
    <3>2. /\ OnlyMoves(t) /\ pc'[t] \in {"idle", "commit"} /\ InHand(t)'
          /\ monitor' \in Threads \cup {None}
      BY <1>2, <3>1, FinishTypes
    <3> QED
      BY <3>2, <2>1, <1>1, <1>2, ThreadTypes
      DEF TableTypes, LuceneTypes, RequestTypes, Written
  <2> QED
    BY <2>3, <2>4, <2>5
<1>5. CASE Delete(t)
  <2>1. /\ UNCHANGED <<change, stale, raced, monitor, op, doc>> /\ pc[t] = "delete"
        /\ view' = [view EXCEPT ![i] = <<>>] /\ docs' \in {docs, view'}
    BY <1>5 DEF Delete, rowVars
  <2>2. LuceneTypes'
    <3>1. <<>> \in Seq(Row)
      OBVIOUS
    <3>2. view' \in [Ids -> Seq(Row)]
      BY <1>2, <2>1, <3>1 DEF LuceneTypes
    <3> QED
      BY <1>1, <1>2, <2>1, <3>2 DEF LuceneTypes
  <2>3. CASE Removes(t)
    <3>1. NextRecord(t)
      BY <1>5, <2>3 DEF Delete
    <3>2. OnlyMoves(t) /\ pc'[t] \in {"read", "close"} /\ InHand(t)'
      BY <1>1, <1>2, <2>1, <3>1, NextRecordTypes
    <3> QED
      BY <3>2, <2>1, <2>2, <1>1, <1>2, ThreadTypes DEF TableTypes, RequestTypes, Written
  <2>4. CASE ~Removes(t)
    <3>1. Goto(t, "add") /\ UNCHANGED todo
      BY <1>5, <2>4 DEF Delete
    <3>2. /\ pc' \in [Threads -> PlaceNames] /\ pc'[t] = "add"
          /\ \A u \in Threads \ {t} : pc'[u] = pc[u]
      BY <1>2, <3>1, GotoTypes DEF PlaceNames
    <3>3. OnlyMoves(t)
      BY <1>2, <2>1, <3>1, <3>2 DEF OnlyMoves, ControlTypes
    <3>4. InHand(t)'
      BY <1>2, <1>3, <2>1, <2>4, <3>1, <3>2 DEF InHand, Removes, Indexing
    <3> QED
      BY <3>2, <3>3, <3>4, <2>1, <2>2, <1>1, <1>2, ThreadTypes DEF TableTypes, RequestTypes, Written
  <2> QED
    BY <2>3, <2>4
<1>6. CASE Add(t)
  <2>1. /\ UNCHANGED <<change, stale, monitor, op, doc, docs>> /\ pc[t] = "add"
        /\ view' = [view EXCEPT ![i] = Append(@, doc[t])] /\ NextRecord(t)
        /\ raced' \in BOOLEAN
    BY <1>2, <1>6 DEF Add, rowVars, TableTypes
  <2>2. doc[t] \in Row
    BY <1>2, <2>1 DEF InHand, ControlTypes
  <2>3. LuceneTypes'
    BY <1>1, <1>2, <1>3, <2>1, <2>2, AppendProperties DEF LuceneTypes
  <2>4. OnlyMoves(t) /\ pc'[t] \in {"read", "close"} /\ InHand(t)'
    BY <1>1, <1>2, <2>1, NextRecordTypes
  <2> QED
    BY <2>1, <2>3, <2>4, <1>1, <1>2, ThreadTypes DEF TableTypes, RequestTypes, Written
<1>7. CASE NotIndexed(t)
  <2>1. UNCHANGED <<docs, view, monitor, op, doc>> /\ raced' = TRUE /\ pc[t] \in {"delete", "add"}
    BY <1>7 DEF NotIndexed, luceneVars
  <2>2. CASE Removes(t)
    <3>1. Goto(t, "close") /\ todo' = [todo EXCEPT ![t] = <<>>] /\ Drop(t)
      BY <1>7, <2>2 DEF NotIndexed
    <3>2. /\ pc' \in [Threads -> PlaceNames] /\ pc'[t] = "close"
          /\ \A u \in Threads \ {t} : pc'[u] = pc[u]
      BY <1>2, <3>1, GotoTypes DEF PlaceNames
    <3>3. OnlyMoves(t)
      <4>1. <<>> \in Seq(Ids)
        OBVIOUS
      <4>2. todo' \in [Threads -> Seq(Ids)]
        BY <1>2, <3>1, <4>1 DEF ControlTypes
      <4> QED
        BY <1>2, <2>1, <3>1, <3>2, <4>2 DEF OnlyMoves, ControlTypes
    <3>4. InHand(t)'
      BY <3>2 DEF InHand
    <3>5. RequestTypes' /\ Written(t)' /\ \A u \in Threads \ {t} : change'[u] = change[u]
      BY <1>1, <1>2, <3>1 DEF Drop, RequestTypes, Written
    <3> QED
      BY <3>2, <3>3, <3>4, <3>5, <2>1, <1>1, <1>2, ThreadTypes DEF TableTypes, LuceneTypes
  <2>3. CASE ~Removes(t)
    <3>1. NextRecord(t) /\ UNCHANGED <<change, stale>>
      BY <1>7, <2>3 DEF NotIndexed
    <3>2. OnlyMoves(t) /\ pc'[t] \in {"read", "close"} /\ InHand(t)'
      BY <1>1, <1>2, <2>1, <3>1, NextRecordTypes
    <3> QED
      BY <3>1, <3>2, <2>1, <1>1, <1>2, ThreadTypes
      DEF TableTypes, LuceneTypes, RequestTypes, Written
  <2> QED
    BY <2>2, <2>3
<1> QED
  BY <1>4, <1>5, <1>6, <1>7

(* A rebuild, and the tasks that it schedules.                             *)
LEMMA RebuildTyped ==
  ASSUME TypeInv, NEW t \in Threads, Erase(t) \/ EraseFails(t) \/ Abort(t)
  PROVE  TypeInv'
<1>1. /\ UNCHANGED <<rows, given, lock, current, count, writer, calls, crashes, jobs, monitor>>
      /\ pc[t] \in {"erase", "commit"}
  BY DEF Erase, EraseFails, Abort, rowVars, luceneVars, boundVars
<1>2. /\ ControlTypes /\ InHand(t) /\ Written(t) /\ TableTypes /\ LuceneTypes /\ RequestTypes
  BY DEF TypeInv
<1>3. CASE Erase(t)
  <2>1. UNCHANGED <<change, stale, opened, raced, op, todo, doc>> /\ Goto(t, "swap")
    BY <1>3 DEF Erase, rowVars
  <2>2. /\ pc' \in [Threads -> PlaceNames] /\ pc'[t] = "swap"
        /\ \A u \in Threads \ {t} : pc'[u] = pc[u]
    BY <1>2, <2>1, GotoTypes DEF PlaceNames
  <2>3. OnlyMoves(t) /\ InHand(t)' /\ pc[t] = "erase"
    BY <1>2, <1>3, <2>1, <2>2 DEF OnlyMoves, ControlTypes, InHand, Erase
  <2>4. LuceneTypes'
    <3>1. docs' = [i \in Ids |-> <<>>] /\ view' = docs' /\ <<>> \in Seq(Row)
      BY <1>3 DEF Erase
    <3>2. docs' \in [Ids -> Seq(Row)]
      BY <3>1
    <3> QED
      BY <1>1, <1>2, <3>1, <3>2 DEF LuceneTypes
  <2> QED
    BY <1>1, <1>2, <2>1, <2>2, <2>3, <2>4, ThreadTypes DEF TableTypes, RequestTypes, Written
<1>4. CASE EraseFails(t) \/ Abort(t)
  <2>1. /\ Leave(t) /\ UNCHANGED <<docs, view>> /\ raced' \in {TRUE, raced}
        /\ UNCHANGED opened
        /\ UNCHANGED <<change, stale>> \/ Drop(t)
    BY <1>4 DEF EraseFails, Abort, rowVars, luceneVars
  <2>2. OnlyMoves(t) /\ pc'[t] = "idle" /\ InHand(t)'
    BY <1>2, <2>1, LeaveTypes
  <2>3. RequestTypes' /\ Written(t)' /\ \A u \in Threads \ {t} : change'[u] = change[u]
    BY <1>2, <2>1 DEF Drop, RequestTypes, Written
  <2> QED
    BY <1>1, <1>2, <2>1, <2>2, <2>3, ThreadTypes DEF TableTypes, LuceneTypes
<1> QED
  BY <1>3, <1>4

LEMMA SwapTyped ==
  ASSUME TypeInv, NEW t \in Threads, Swap(t)
  PROVE  TypeInv'
<1>1. /\ UNCHANGED <<rows, given, change, stale, docs, view, lock, count, writer, op, todo, doc,
                     opened, calls, crashes, monitor, jobs>>
      /\ pc[t] = "swap" /\ current' = current + 1 /\ Goto(t, "init")
  BY DEF Swap, rowVars, boundVars
<1>2. raced' \in BOOLEAN
  BY DEF Swap, TypeInv, TableTypes
<1>3. /\ pc' \in [Threads -> PlaceNames] /\ pc'[t] = "init"
      /\ \A u \in Threads \ {t} : pc'[u] = pc[u]
  BY <1>1, GotoTypes DEF TypeInv, PlaceNames
<1>4. RebuildsLeft' /\ current' \in Gens
  <2>1. Rebuilding \in SUBSET Threads /\ t \in Rebuilding /\ Rebuilding' = Rebuilding \ {t}
    BY <1>1, <1>3 DEF Rebuilding
  <2>2. /\ Cardinality(Rebuilding) \in Nat /\ Cardinality(Rebuilding') = Cardinality(Rebuilding) - 1
        /\ Cardinality(Rebuilding') \in Nat
    BY <2>1, ThreadSets
  <2>3. current \in 1 .. MaxGen /\ MaxGen \in Nat /\ current + Cardinality(Rebuilding) <= MaxGen
    BY IndexAssumption DEF TypeInv, LuceneTypes, RebuildsLeft, Gens, IndexAssumption
  <2> QED
    BY <1>1, <2>2, <2>3 DEF RebuildsLeft, Gens
<1>5. \A u \in Threads : InHand(u)' /\ Written(u)'
  BY <1>1, <1>3 DEF TypeInv, InHand, Written, Optimizes, Removes, Group
<1> QED
  BY <1>1, <1>2, <1>3, <1>4, <1>5
  DEF TypeInv, TableTypes, LuceneTypes, ControlTypes, RequestTypes

LEMMA TasksTyped ==
  ASSUME TypeInv, NEW t \in Threads, Init(t) \/ StartJob(t)
  PROVE  TypeInv'
<1>1. /\ UNCHANGED <<rows, given, change, stale, docs, view, lock, current, count, writer, doc,
                     opened, calls, crashes>>
  BY DEF Init, StartJob, rowVars, luceneVars, boundVars
<1>2. /\ ControlTypes /\ InHand(t) /\ Written(t) /\ TableTypes /\ LuceneTypes /\ RequestTypes
  BY DEF TypeInv
<1>3. CASE Init(t)
  <2>1. PICK indexed \in {{}, {i \in Ids : docs[i] # <<>>}} :
          /\ todo' = [todo EXCEPT ![t] = InOrder(indexed \ Existing)]
          /\ IF indexed \ Existing = {}
             THEN /\ Goto(t, "idle") /\ op' = [op EXCEPT ![t] = None] /\ UNCHANGED monitor
             ELSE Goto(t, "open") /\ monitor' = t /\ UNCHANGED op
    BY <1>3 DEF Init
  <2>2. jobs' = Scheduled(Existing) /\ raced' \in BOOLEAN
    BY <1>2, <1>3 DEF Init, TableTypes
  <2>3. jobs' \in Seq(Seq(Ids) \ {<<>>})
    BY <1>2, <2>2, Schedules DEF TableTypes, Existing
  <2>4. /\ InOrder(indexed \ Existing) \in Seq(Ids)
        /\ indexed \ Existing # {} => InOrder(indexed \ Existing) # <<>>
    <3>1. indexed \ Existing \in SUBSET Ids
      OBVIOUS
    <3> QED
      BY <3>1, Listing
  <2>5. PICK place \in {"idle", "open"} :
          /\ Goto(t, place)
          /\ place = "open" => indexed \ Existing # {} /\ UNCHANGED op
          /\ op' \in {op, [op EXCEPT ![t] = None]} /\ monitor' \in {t, monitor}
    BY <2>1
  <2>6. /\ pc' \in [Threads -> PlaceNames] /\ pc'[t] = place
        /\ \A u \in Threads \ {t} : pc'[u] = pc[u]
    BY <1>2, <2>5, GotoTypes DEF PlaceNames
  <2>7. OnlyMoves(t) /\ todo'[t] = InOrder(indexed \ Existing)
    BY <1>1, <1>2, <2>1, <2>4, <2>5, <2>6 DEF OnlyMoves, ControlTypes
  <2>8. InHand(t)'
    BY <1>1, <1>2, <1>3, <2>4, <2>5, <2>6, <2>7 DEF InHand, Init, Removes
  <2> QED
    BY <1>1, <1>2, <2>2, <2>3, <2>5, <2>6, <2>7, <2>8, ThreadTypes
    DEF TableTypes, LuceneTypes, RequestTypes, Written
<1>4. CASE StartJob(t)
  <2>1. /\ UNCHANGED <<monitor, raced>> /\ jobs # <<>> /\ jobs' = Tail(jobs)
        /\ todo' = [todo EXCEPT ![t] = Head(jobs)] /\ op' = [op EXCEPT ![t] = "job"]
        /\ Goto(t, "open")
    BY <1>4 DEF StartJob
  <2>2. /\ jobs' \in Seq(Seq(Ids) \ {<<>>}) /\ Head(jobs) \in Seq(Ids) \ {<<>>}
    BY <1>2, <2>1, Tails DEF TableTypes
  <2>3. /\ pc' \in [Threads -> PlaceNames] /\ pc'[t] = "open"
        /\ \A u \in Threads \ {t} : pc'[u] = pc[u]
    BY <1>2, <2>1, GotoTypes DEF PlaceNames
  <2>4. OnlyMoves(t) /\ op'[t] = "job" /\ todo'[t] = Head(jobs)
    BY <1>1, <1>2, <2>1, <2>2, <2>3 DEF OnlyMoves, ControlTypes
  <2>5. InHand(t)'
    BY <2>2, <2>3, <2>4 DEF InHand, Removes, Group, Indexing
  <2> QED
    BY <1>1, <1>2, <2>1, <2>2, <2>3, <2>4, <2>5, ThreadTypes
    DEF TableTypes, LuceneTypes, RequestTypes, Written
<1> QED
  BY <1>3, <1>4

(* The end of a request, and of the program.                               *)
LEMMA CommitTyped ==
  ASSUME TypeInv, NEW t \in Threads, Commit(t)
  PROVE  TypeInv'
<1>1. /\ UNCHANGED <<given, docs, view, lock, current, count, writer, opened, calls, crashes,
                     monitor, jobs, raced>>
      /\ rows' = Seen(t) /\ change' = [change EXCEPT ![t] = None] /\ Leave(t)
      /\ stale' = [u \in Threads |-> u # t /\ (stale[u] \/ Conflict(change[t], change[u]))]
  BY DEF Commit, luceneVars, boundVars
<1>2. OnlyMoves(t) /\ pc'[t] = "idle" /\ InHand(t)'
  BY <1>1, LeaveTypes DEF TypeInv
<1>3. rows' \in [Ids -> Row \cup {None}]
  BY <1>1, SeenTypes
<1>4. stale' \in [Threads -> BOOLEAN]
  BY <1>1
<1>5. /\ change' \in [Threads -> Change \cup {None}] /\ change'[t] = None
      /\ \A u \in Threads \ {t} : change'[u] = change[u]
  BY <1>1 DEF TypeInv, RequestTypes
<1>6. TableTypes' /\ LuceneTypes' /\ RequestTypes' /\ Written(t)'
  BY <1>1, <1>3, <1>4, <1>5 DEF TypeInv, TableTypes, LuceneTypes, RequestTypes, Written
<1> QED
  BY <1>1, <1>2, <1>5, <1>6, ThreadTypes

LEMMA RestartTyped ==
  ASSUME TypeInv, Restart
  PROVE  TypeInv'
<1> DEFINE late == {i \in Existing : ~UpToDate(i)}
<1>1. /\ docs' = [i \in Ids |-> IF i \in Existing THEN docs[i] ELSE <<>>] /\ view' = docs'
      /\ jobs' = IF late = {} THEN <<>> ELSE <<InOrder(late)>>
      /\ crashes < MaxCrashes /\ crashes' = crashes + 1
      /\ change' = [t \in Threads |-> None] /\ stale' = [t \in Threads |-> FALSE]
      /\ lock' = None /\ current' = 1
      /\ count' = [g \in Gens |-> 0] /\ writer' = [g \in Gens |-> "none"]
      /\ monitor' = None
      /\ pc' = [t \in Threads |-> "idle"] /\ op' = [t \in Threads |-> None]
      /\ todo' = [t \in Threads |-> <<>>] /\ doc' = [t \in Threads |-> None]
      /\ opened' = [t \in Threads |-> None]
      /\ given' = {} /\ UNCHANGED <<rows, calls>>
  BY DEF Restart
<1>2. jobs' \in Seq(Seq(Ids) \ {<<>>})
  <2>1. late \in SUBSET Ids
    BY DEF Existing
  <2>2. CASE late = {}
    BY <1>1, <2>2
  <2>3. CASE late # {}
    <3>1. jobs' = <<InOrder(late)>> /\ InOrder(late) \in Seq(Ids) \ {<<>>}
      BY <1>1, <2>1, <2>3, Listing
    <3> QED
      BY <3>1
  <2> QED
    BY <2>2, <2>3
<1>3. raced' \in BOOLEAN
  BY DEF Restart, TypeInv, TableTypes
<1>4. TableTypes'
  BY <1>1, <1>2, <1>3, IndexAssumption DEF TypeInv, TableTypes, IndexAssumption
<1>5. LuceneTypes'
  <2>1. docs' \in [Ids -> Seq(Row)] /\ 1 \in Gens
    <3>1. <<>> \in Seq(Row)
      OBVIOUS
    <3>2. docs' \in [Ids -> Seq(Row)]
      BY <1>1, <3>1 DEF TypeInv, LuceneTypes
    <3> QED
      BY <3>2, IndexAssumption DEF IndexAssumption, Gens
  <2> QED
    BY <1>1, <2>1 DEF LuceneTypes
<1>6. ControlTypes' /\ RequestTypes'
  <2>1. <<>> \in Seq(Ids)
    OBVIOUS
  <2> QED
    BY <1>1, <2>1 DEF ControlTypes, RequestTypes, PlaceNames
<1>7. \A t \in Threads : InHand(t)' /\ Written(t)'
  BY <1>1 DEF InHand, Written
<1>8. RebuildsLeft'
  <2>1. Rebuilding' = {}
    BY <1>1 DEF Rebuilding
  <2> QED
    BY <1>1, <2>1, FS_EmptySet, IndexAssumption DEF RebuildsLeft, IndexAssumption
<1> QED
  BY <1>4, <1>5, <1>6, <1>7, <1>8 DEF TypeInv

LEMMA InitTyped == IndexInit => TypeInv
<1> SUFFICES ASSUME IndexInit PROVE TypeInv
  OBVIOUS
<1>1. <<>> \in Seq(Ids) /\ <<>> \in Seq(Row) /\ <<>> \in Seq(Seq(Ids) \ {<<>>})
  OBVIOUS
<1>2. NewRow \in Row /\ 0 \in 0 .. MaxCalls /\ 0 \in 0 .. MaxCrashes /\ 1 \in Gens
  BY IndexAssumption DEF IndexAssumption, NewRow, Row, Gens
<1>3. TableTypes
  BY <1>1, <1>2, IndexAssumption DEF IndexInit, TableTypes, IndexAssumption
<1>4. LuceneTypes
  <2>1. <<NewRow>> \in Seq(Row)
    BY <1>2
  <2>2. docs \in [Ids -> Seq(Row)]
    BY <1>1, <2>1 DEF IndexInit
  <2> QED
    BY <1>2, <2>2 DEF IndexInit, LuceneTypes
<1>5. ControlTypes /\ RequestTypes
  BY <1>1 DEF IndexInit, ControlTypes, RequestTypes, PlaceNames
<1>6. \A t \in Threads : InHand(t) /\ Written(t)
  BY DEF IndexInit, InHand, Written
<1>7. RebuildsLeft
  <2>1. Rebuilding = {}
    BY DEF IndexInit, Rebuilding
  <2> QED
    BY <2>1, FS_EmptySet, IndexAssumption DEF IndexInit, RebuildsLeft, IndexAssumption
<1> QED
  BY <1>3, <1>4, <1>5, <1>6, <1>7 DEF TypeInv

LEMMA StepTyped ==
  ASSUME TypeInv, IndexNext
  PROVE  TypeInv'
<1>1. ASSUME NEW t \in Threads, Request(t) PROVE TypeInv'
  BY <1>1, RequestTyped
<1>2. ASSUME NEW t \in Threads, Proceed(t) PROVE TypeInv'
  BY <1>2, WriterTyped, IndexingTyped, RebuildTyped, SwapTyped, TasksTyped, CommitTyped
  DEF Proceed
<1> QED
  BY <1>1, <1>2, RestartTyped DEF IndexNext

(* Every variable has its type, whatever races there have been; the count  *)
(* of the users of a writer is never negative, and a rebuild finds a       *)
(* factory that has not been used (LuceneIndexWriterFactory.java:52).      *)
THEOREM IndexTyped == IndexSpec => []IndexTypeOK
<1>1. IndexInit => TypeInv
  BY InitTyped
<1>2. TypeInv /\ [IndexNext]_vars => TypeInv'
  <2>1. ASSUME TypeInv, UNCHANGED vars PROVE TypeInv'
    BY <2>1
    DEF TypeInv, TableTypes, LuceneTypes, ControlTypes, RequestTypes, InHand, Written, Group,
        Removes, Optimizes, RebuildsLeft, Rebuilding, vars, rowVars, luceneVars, localVars,
        boundVars
  <2> QED
    BY <2>1, StepTyped
<1>3. TypeInv => IndexTypeOK
  BY TypeInvGivesTypes
<1> QED
  BY <1>1, <1>2, <1>3, PTL DEF IndexSpec
===============================================================================
