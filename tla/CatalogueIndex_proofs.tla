------------------------- MODULE CatalogueIndex_proofs -------------------------
(***************************************************************************)
(* Theorems about the reference count of the Lucene writer, for any number *)
(* of threads, records, requests, rebuilds and crashes, and every fault    *)
(* but a failing openWriter.                                               *)
(***************************************************************************)
EXTENDS CatalogueIndex, FiniteSetTheorems, TLAPS

(* Where a thread has opened the writer, or the optimizer's timer believes *)
(* that it has.                                                            *)
Holds(t) ==
  \/ pc[t] \in {"delete", "add", "optimize", "close"}
  \/ pc[t] = "read" /\ Group(t)
Users == {t \in Threads : opened[t] = current}

(* The lock of the directory has been left behind, and nobody can open.    *)
Stuck == lock # None /\ count[current] = 0

WriterTypes ==
  /\ current \in Gens
  /\ count \in [Gens -> Nat]
  /\ writer \in [Gens -> {"none", "open", "closed"}]
  /\ lock \in Gens \cup {None}
  /\ opened \in [Threads -> Gens \cup {None}]
  /\ DOMAIN pc = Threads /\ DOMAIN op = Threads


(* Nobody has used a factory that is still to come.                        *)
Unborn ==
  \A g \in Gens : g > current => count[g] = 0 /\ \A t \in Threads : opened[t] # g
CountedIsOpen == count[current] > 0 => lock = current /\ writer[current] = "open"
UsersCounted == Cardinality(Users) <= count[current]
HoldersOpened == \A t \in Threads : IF Holds(t) THEN opened[t] = current \/ Stuck ELSE opened[t] = None
RebuildsLeft == current + Cardinality(Rebuilding) <= MaxGen

WriterInv ==
  /\ WriterTypes /\ Unborn /\ CountedIsOpen /\ UsersCounted /\ HoldersOpened /\ RebuildsLeft
-------------------------------------------------------------------------------
(* Sets of threads are finite, and growing one by a thread counts one.     *)
LEMMA ThreadSets ==
  /\ \A S \in SUBSET Threads : IsFiniteSet(S) /\ Cardinality(S) \in Nat
  /\ \A S, T \in SUBSET Threads : S \subseteq T => Cardinality(S) <= Cardinality(T)
  /\ \A S \in SUBSET Threads, t \in Threads :
       Cardinality(S \cup {t}) <= Cardinality(S) + 1
  /\ \A S \in SUBSET Threads : \A t \in S : Cardinality(S \ {t}) = Cardinality(S) - 1
<1>1. \A S \in SUBSET Threads : IsFiniteSet(S) /\ Cardinality(S) \in Nat
  BY FS_Subset, FS_CardinalityType, IndexAssumption DEF IndexAssumption
<1>2. \A S, T \in SUBSET Threads : S \subseteq T => Cardinality(S) <= Cardinality(T)
  BY <1>1, FS_Subset
<1>3. ASSUME NEW S \in SUBSET Threads, NEW t \in Threads
      PROVE  Cardinality(S \cup {t}) <= Cardinality(S) + 1
  BY <1>1, FS_AddElement
<1>4. ASSUME NEW S \in SUBSET Threads, NEW t \in S
      PROVE  Cardinality(S \ {t}) = Cardinality(S) - 1
  BY <1>1, FS_RemoveElement
<1> QED
  BY <1>1, <1>2, <1>3, <1>4

(* A thread that has opened the writer is counted, and so finds it open.   *)
LEMMA UserCounts ==
  ASSUME WriterInv, NEW t \in Threads, opened[t] = current
  PROVE  count[current] > 0
<1>1. Users \in SUBSET Threads /\ t \in Users
  BY DEF Users
<1>2. /\ Cardinality(Users \ {t}) = Cardinality(Users) - 1
      /\ Cardinality(Users \ {t}) \in Nat /\ Cardinality(Users) \in Nat
  BY <1>1, ThreadSets
<1> QED
  BY <1>2 DEF WriterInv, WriterTypes, UsersCounted

LEMMA UsersFindItOpen == WriterInv => WriterUsable
BY UserCounts DEF WriterUsable, WriterInv, CountedIsOpen, WriterOpen

LEMMA WriterInit == IndexInit => WriterInv
<1> SUFFICES ASSUME IndexInit PROVE WriterInv
  OBVIOUS
<1>1. WriterTypes /\ Unborn /\ CountedIsOpen
  BY IndexAssumption DEF IndexInit, IndexAssumption, WriterTypes, Unborn, CountedIsOpen, Gens
<1>2. Users = {} /\ Rebuilding = {}
  BY IndexAssumption DEF IndexInit, IndexAssumption, Users, Rebuilding, Gens
<1>3. UsersCounted /\ RebuildsLeft
  BY <1>2, FS_EmptySet, IndexAssumption
  DEF IndexInit, IndexAssumption, UsersCounted, RebuildsLeft, Gens
<1>4. HoldersOpened
  BY DEF IndexInit, HoldersOpened, Holds
<1> QED
  BY <1>1, <1>3, <1>4 DEF WriterInv
-------------------------------------------------------------------------------
(* A step of one thread that leaves the writer alone.                      *)
Elsewhere(t) ==
  /\ UNCHANGED <<current, count, writer, lock, opened>>
  /\ DOMAIN pc' = Threads /\ DOMAIN op' = Threads
  /\ \A u \in Threads \ {t} : pc'[u] = pc[u] /\ op'[u] = op[u]

LEMMA ThreadMoves ==
  ASSUME WriterInv, NEW t \in Threads, Elsewhere(t),
         IF Holds(t)' THEN Holds(t) \/ Stuck ELSE opened[t] = None,
         \/ pc'[t] \notin {"erase", "swap"}
         \/ pc[t] \in {"erase", "swap"}
         \/ current + Cardinality(Rebuilding) < MaxGen
  PROVE  WriterInv'
<1>1. WriterTypes' /\ Unborn' /\ CountedIsOpen'
  BY DEF WriterInv, WriterTypes, Unborn, CountedIsOpen, Elsewhere
<1>2. UsersCounted'
  BY DEF WriterInv, UsersCounted, Users, Elsewhere
<1>3. HoldersOpened'
  <2>1. \A u \in Threads \ {t} : Holds(u)' <=> Holds(u)
    BY DEF Holds, Group, Elsewhere
  <2>2. Stuck' <=> Stuck
    BY DEF Stuck, Elsewhere
  <2> QED
    BY <2>1, <2>2 DEF WriterInv, HoldersOpened, Elsewhere
<1>4. RebuildsLeft'
  <2>1. Rebuilding \in SUBSET Threads /\ Rebuilding' \in SUBSET Threads
    BY DEF Rebuilding
  <2>2. Cardinality(Rebuilding) \in Nat /\ Cardinality(Rebuilding') \in Nat
    BY <2>1, ThreadSets
  <2>3. CASE pc'[t] \notin {"erase", "swap"} \/ pc[t] \in {"erase", "swap"}
    <3>1. Rebuilding' \subseteq Rebuilding
      BY <2>3 DEF Rebuilding, Elsewhere
    <3>2. Cardinality(Rebuilding') <= Cardinality(Rebuilding)
      BY <2>1, <3>1, ThreadSets
    <3> QED
      BY <2>2, <3>2, IndexAssumption
      DEF WriterInv, WriterTypes, RebuildsLeft, Elsewhere, Gens, IndexAssumption
  <2>4. CASE current + Cardinality(Rebuilding) < MaxGen
    <3>1. Rebuilding' \subseteq Rebuilding \cup {t}
      BY DEF Rebuilding, Elsewhere
    <3>2. Rebuilding \cup {t} \in SUBSET Threads
      BY <2>1
    <3>3. Cardinality(Rebuilding') <= Cardinality(Rebuilding \cup {t})
      BY <2>1, <3>1, <3>2, ThreadSets
    <3>4. Cardinality(Rebuilding \cup {t}) <= Cardinality(Rebuilding) + 1
          /\ Cardinality(Rebuilding \cup {t}) \in Nat
      BY <2>1, <3>2, ThreadSets
    <3> QED
      BY <2>2, <2>4, <3>3, <3>4, IndexAssumption
      DEF WriterInv, WriterTypes, RebuildsLeft, Elsewhere, Gens, IndexAssumption
  <2> QED
    BY <2>3, <2>4
<1> QED
  BY <1>1, <1>2, <1>3, <1>4 DEF WriterInv

(* Where the parts that actions share leave a thread.                      *)
LEMMA Ends ==
  ASSUME WriterInv, NEW t \in Threads
  PROVE  /\ Leave(t) => /\ pc'[t] = "idle" /\ DOMAIN pc' = Threads /\ DOMAIN op' = Threads
                        /\ \A u \in Threads \ {t} : pc'[u] = pc[u] /\ op'[u] = op[u]
         /\ \A place : Goto(t, place) => /\ pc'[t] = place /\ DOMAIN pc' = Threads
                                         /\ \A u \in Threads \ {t} : pc'[u] = pc[u]
<1>1. t \in DOMAIN pc /\ t \in DOMAIN op /\ DOMAIN pc = Threads /\ DOMAIN op = Threads
  BY DEF WriterInv, WriterTypes
<1> QED
  BY <1>1 DEF Leave, Goto

LEMMA FinishEnds ==
  ASSUME WriterInv, NEW t \in Threads, Finish(t)
  PROVE  /\ pc'[t] \in {"idle", "commit"} /\ DOMAIN pc' = Threads /\ DOMAIN op' = Threads
         /\ \A u \in Threads \ {t} : pc'[u] = pc[u] /\ op'[u] = op[u]
<1>1. CASE change[t] = None
  BY <1>1, Ends DEF Finish
<1>2. CASE change[t] # None
  <2>1. Goto(t, "commit") /\ op' = op
    BY <1>2 DEF Finish
  <2> QED
    BY <2>1, Ends DEF WriterInv, WriterTypes
<1> QED
  BY <1>1, <1>2

LEMMA BeginEnds ==
  ASSUME WriterInv, NEW t \in Threads, NEW o, Begin(t, o)
  PROVE  /\ pc[t] = "idle" /\ op'[t] = o /\ DOMAIN op' = Threads /\ opened[t] = None
         /\ \A u \in Threads \ {t} : op'[u] = op[u]
BY DEF Begin, WriterInv, WriterTypes, HoldersOpened, Holds
-------------------------------------------------------------------------------
(* The steps that leave count and factory alone.                           *)
LEMMA RequestInv ==
  ASSUME WriterInv, NEW t \in Threads, Request(t)
  PROVE  WriterInv'
<1>1. CASE Save(t)
  <2>1. Begin(t, "save") /\ Goto(t, "read") /\ UNCHANGED <<current, count, writer, lock, opened>>
    BY <1>1 DEF Save, Execute, luceneVars
  <2> QED
    BY <2>1, Ends, BeginEnds, ThreadMoves DEF Elsewhere, Holds, Group
<1>2. CASE Grant(t)
  <2>1. Begin(t, "grant") /\ Goto(t, "read") /\ UNCHANGED <<current, count, writer, lock, opened>>
    BY <1>2 DEF Grant, Execute, luceneVars
  <2> QED
    BY <2>1, Ends, BeginEnds, ThreadMoves DEF Elsewhere, Holds, Group
<1>3. CASE Massive(t)
  <2>1. Begin(t, "massive") /\ Goto(t, "open") /\ UNCHANGED <<current, count, writer, lock, opened>>
    BY <1>3 DEF Massive, Execute, luceneVars
  <2> QED
    BY <2>1, Ends, BeginEnds, ThreadMoves DEF Elsewhere, Holds
<1>4. CASE RemoveRecord(t)
  <2>1. Begin(t, "remove") /\ Goto(t, "open") /\ UNCHANGED <<current, count, writer, lock, opened>>
    BY <1>4 DEF RemoveRecord, Execute, luceneVars
  <2> QED
    BY <2>1, Ends, BeginEnds, ThreadMoves DEF Elsewhere, Holds
<1>5. CASE Create(t)
  <2>1. Begin(t, "create") /\ Goto(t, "read") /\ UNCHANGED <<current, count, writer, lock, opened>>
    BY <1>5 DEF Create, Execute, luceneVars
  <2> QED
    BY <2>1, Ends, BeginEnds, ThreadMoves DEF Elsewhere, Holds, Group
<1>6. CASE CheckOpen(t)
  <2>1. /\ Begin(t, "rebuild") /\ Goto(t, "erase") /\ UNCHANGED <<current, count, writer, lock, opened>>
        /\ current + Cardinality(Rebuilding) < MaxGen
    BY <1>6 DEF CheckOpen, luceneVars
  <2> QED
    BY <2>1, Ends, BeginEnds, ThreadMoves DEF Elsewhere, Holds
<1>7. CASE CallOptimize(t)
  <2>1. /\ \E o : Begin(t, o)
        /\ Goto(t, "open") /\ UNCHANGED <<current, count, writer, lock, opened>>
    BY <1>7 DEF CallOptimize, luceneVars
  <2> QED
    BY <2>1, Ends, BeginEnds, ThreadMoves DEF Elsewhere, Holds
<1> QED
  BY <1>1, <1>2, <1>3, <1>4, <1>5, <1>6, <1>7 DEF Request

(* The next record of a group is read with the writer still open.          *)
LEMMA NextRecordInv ==
  ASSUME WriterInv, NEW t \in Threads, Holds(t), NextRecord(t), op' = op,
         UNCHANGED <<current, count, writer, lock, opened>>
  PROVE  WriterInv'
<1>1. \E place \in {"read", "close"} : Goto(t, place) /\ (place = "read" => Group(t))
  BY DEF NextRecord
<1>2. Elsewhere(t) /\ Holds(t)' /\ pc'[t] \in {"read", "close"}
  BY <1>1, Ends DEF Elsewhere, Holds, Group, WriterInv, WriterTypes
<1> QED
  BY <1>2, ThreadMoves

(* The end of a request that has closed the writer, or has never opened it. *)
LEMMA FinishInv ==
  ASSUME WriterInv, NEW t \in Threads, ~Holds(t), Finish(t) \/ Leave(t),
         UNCHANGED <<current, count, writer, lock, opened>>
  PROVE  WriterInv'
<1>1. /\ pc'[t] \in {"idle", "commit"} /\ DOMAIN pc' = Threads /\ DOMAIN op' = Threads
      /\ \A u \in Threads \ {t} : pc'[u] = pc[u] /\ op'[u] = op[u]
  BY FinishEnds, Ends
<1>2. Elsewhere(t) /\ ~Holds(t)'
  BY <1>1 DEF Elsewhere, Holds
<1>3. opened[t] = None
  BY DEF WriterInv, HoldersOpened
<1> QED
  BY <1>1, <1>2, <1>3, ThreadMoves
-------------------------------------------------------------------------------
(* The steps that change the count or the factory.                         *)
LEMMA OpenInv ==
  ASSUME WriterInv, NEW t \in Threads, Open(t)
  PROVE  WriterInv'
<1>1. /\ pc[t] = "open" /\ opened[t] = None /\ opened' = [opened EXCEPT ![t] = current]
      /\ count' = [count EXCEPT ![current] = @ + 1] /\ UNCHANGED <<current, op>>
      /\ Goto(t, AfterOpen(t)) /\ AfterOpen(t) \in {"read", "optimize", "delete"}
      /\ count[current] = 0 => /\ lock' = current
                               /\ writer' = [writer EXCEPT ![current] = "open"]
      /\ count[current] # 0 => UNCHANGED <<lock, writer>>
  BY DEF Open, AfterOpen, WriterInv, WriterTypes, HoldersOpened, Holds
<1>2. AfterOpen(t) = "read" => Group(t)
  BY DEF AfterOpen
<1>3. /\ pc'[t] \in {"read", "optimize", "delete"} /\ DOMAIN pc' = Threads /\ Holds(t)'
      /\ \A u \in Threads \ {t} : pc'[u] = pc[u]
  BY <1>1, <1>2, Ends DEF Holds, Group
<1>4. count[current] \in Nat /\ current \in Nat /\ current \in Gens
  BY IndexAssumption DEF WriterInv, WriterTypes, Gens
<1>5. WriterTypes'
  BY <1>1, <1>3, <1>4 DEF WriterInv, WriterTypes
<1>6. Unborn' /\ CountedIsOpen'
  BY <1>1, <1>4, <1>5 DEF WriterInv, WriterTypes, Unborn, CountedIsOpen, Gens
<1>7. UsersCounted'
  <2>1. Users' = Users \cup {t} /\ Users \in SUBSET Threads
    BY <1>1 DEF Users, WriterInv, WriterTypes
  <2>2. Cardinality(Users \cup {t}) <= Cardinality(Users) + 1 /\ Cardinality(Users) \in Nat
        /\ Cardinality(Users \cup {t}) \in Nat
    BY <2>1, ThreadSets
  <2>3. count'[current'] = count[current] + 1
    BY <1>1, <1>4 DEF WriterInv, WriterTypes
  <2> QED
    BY <1>4, <2>1, <2>2, <2>3 DEF WriterInv, UsersCounted
<1>8. HoldersOpened'
  <2>1. opened'[t] = current'
    BY <1>1 DEF WriterInv, WriterTypes
  <2>2. ASSUME NEW u \in Threads \ {t}, Holds(u) PROVE opened[u] = current
    <3>1. ~Stuck
      BY DEF Open, CanOpen, Stuck
    <3> QED
      BY <2>2, <3>1 DEF WriterInv, HoldersOpened
  <2>3. \A u \in Threads \ {t} : (Holds(u)' <=> Holds(u)) /\ opened'[u] = opened[u]
    BY <1>1, <1>3 DEF Holds, Group, WriterInv, WriterTypes
  <2> QED
    BY <1>1, <1>3, <2>1, <2>2, <2>3 DEF HoldersOpened, WriterInv
<1>9. RebuildsLeft'
  <2>1. Rebuilding' = Rebuilding
    BY <1>1, <1>3 DEF Rebuilding
  <2> QED
    BY <1>1, <2>1 DEF RebuildsLeft, WriterInv
<1> QED
  BY <1>5, <1>6, <1>7, <1>8, <1>9 DEF WriterInv

(* A user of the writer goes, and his count with him; the last one closes  *)
(* the writer, unless that fails.  With no count there is nothing to do.   *)
LEMMA UserGoes ==
  ASSUME WriterInv, NEW t \in Threads, Holds(t), UNCHANGED current,
         opened' = [opened EXCEPT ![t] = None],
         \/ /\ count[current] > 0
            /\ count' = [count EXCEPT ![current] = @ - 1]
            /\ IF count[current] = 1
               THEN \/ writer' = [writer EXCEPT ![current] = "closed"] /\ lock' = None
                    \/ UNCHANGED <<writer, lock>>
               ELSE UNCHANGED <<writer, lock>>
         \/ count[current] = 0 /\ UNCHANGED <<count, writer, lock>>
         \/ opened[t] = current /\ UNCHANGED <<count, writer, lock>>,
         pc'[t] \notin {"read", "delete", "add", "optimize", "close", "erase", "swap"},
         DOMAIN pc' = Threads, DOMAIN op' = Threads,
         \A u \in Threads \ {t} : pc'[u] = pc[u] /\ op'[u] = op[u]
  PROVE  WriterInv'
<1>1. /\ count[current] \in Nat /\ current \in Nat /\ current \in Gens
      /\ count \in [Gens -> Nat] /\ opened \in [Threads -> Gens \cup {None}]
  BY IndexAssumption DEF WriterInv, WriterTypes, Gens
<1>2. /\ opened'[t] = None /\ \A u \in Threads \ {t} : opened'[u] = opened[u]
      /\ opened[t] = current \/ Stuck
  BY <1>1 DEF WriterInv, HoldersOpened
<1>3. WriterTypes'
  BY <1>1 DEF WriterInv, WriterTypes
<1>4. Unborn' /\ CountedIsOpen'
  <2>1. \A g \in Gens : g > current => count'[g] = count[g]
    BY <1>1
  <2>2. \A g \in Gens, u \in Threads : opened'[u] = g => opened[u] = g
    BY <1>2, IndexAssumption DEF IndexAssumption
  <2>3. Unborn'
    BY <1>1, <2>1, <2>2 DEF WriterInv, Unborn
  <2>4. CountedIsOpen'
    BY <1>1, <1>3 DEF WriterInv, WriterTypes, CountedIsOpen, Gens
  <2> QED
    BY <2>3, <2>4
<1>5. UsersCounted'
  <2>1. Users \in SUBSET Threads /\ Users' = Users \ {t} /\ Users' \subseteq Users
        /\ Users' \in SUBSET Threads
    BY <1>1, <1>2, IndexAssumption DEF Users, IndexAssumption
  <2>2. Cardinality(Users') <= Cardinality(Users) /\ Cardinality(Users) \in Nat
        /\ Cardinality(Users') \in Nat
    BY <2>1, ThreadSets
  <2>3. CASE opened[t] = current
    <3>1. Cardinality(Users') = Cardinality(Users) - 1
      BY <2>1, <2>3, ThreadSets DEF Users
    <3>2. count'[current'] \in {count[current], count[current] - 1}
      BY <1>1
    <3> QED
      BY <1>1, <2>2, <3>1, <3>2 DEF WriterInv, UsersCounted
  <2>4. CASE opened[t] # current
    <3>1. count' = count
      BY <1>2, <2>4 DEF Stuck
    <3> QED
      BY <1>1, <2>2, <3>1 DEF WriterInv, UsersCounted
  <2> QED
    BY <2>3, <2>4
<1>6. HoldersOpened'
  <2>1. \A u \in Threads \ {t} : (Holds(u)' <=> Holds(u)) /\ opened'[u] = opened[u]
    BY <1>2 DEF Holds, Group
  <2>2. ~Holds(t)' /\ opened'[t] = None
    BY <1>2 DEF Holds
  <2>3. Stuck => Stuck'
    BY <1>1 DEF Stuck
  <2> QED
    BY <2>1, <2>2, <2>3 DEF WriterInv, HoldersOpened
<1>7. RebuildsLeft'
  <2>1. Rebuilding' = Rebuilding
    BY DEF Rebuilding, Holds
  <2> QED
    BY <2>1 DEF RebuildsLeft, WriterInv
<1> QED
  BY <1>3, <1>4, <1>5, <1>6, <1>7 DEF WriterInv
LEMMA CloseInv ==
  ASSUME WriterInv, NEW t \in Threads, Close(t)
  PROVE  WriterInv'
<1>1. /\ Holds(t) /\ CloseWriter /\ UNCHANGED current /\ AfterClose(t)
      /\ opened' = [opened EXCEPT ![t] = None]
  BY DEF Close, Holds
<1>2. \/ Goto(t, "open") /\ op' = op
      \/ Finish(t)
  BY <1>1 DEF AfterClose
<1>3. /\ pc'[t] \in {"open", "idle", "commit"} /\ DOMAIN pc' = Threads /\ DOMAIN op' = Threads
      /\ \A u \in Threads \ {t} : pc'[u] = pc[u] /\ op'[u] = op[u]
  BY <1>2, Ends, FinishEnds DEF WriterInv, WriterTypes
<1>4. count[current] = 0 \/ count[current] > 0
  BY DEF WriterInv, WriterTypes
<1> QED
  BY <1>1, <1>3, <1>4, UserGoes DEF CloseWriter

LEMMA CloseFailsInv ==
  ASSUME WriterInv, NEW t \in Threads, CloseFails(t)
  PROVE  WriterInv'
<1>1. /\ Holds(t)
      /\ Finish(t) \/ Leave(t)
      /\ count[current] > 0 /\ count' = [count EXCEPT ![current] = @ - 1]
      /\ opened' = [opened EXCEPT ![t] = None] /\ UNCHANGED <<current, writer, lock>>
  BY DEF CloseFails, Holds
<1>2. /\ pc'[t] \in {"idle", "commit"} /\ DOMAIN pc' = Threads /\ DOMAIN op' = Threads
      /\ \A u \in Threads \ {t} : pc'[u] = pc[u] /\ op'[u] = op[u]
  BY <1>1, Ends, FinishEnds
<1> QED
  BY <1>1, <1>2, UserGoes

LEMMA OptimizeFailsInv ==
  ASSUME WriterInv, NEW t \in Threads, OptimizeFails(t)
  PROVE  WriterInv'
<1>1. Holds(t) /\ UNCHANGED <<current, count, writer, lock>>
  BY DEF OptimizeFails, Holds, luceneVars
<1>2. CASE op[t] = "timer"
  <2>1. Goto(t, "close") /\ UNCHANGED <<op, opened>>
    BY <1>2 DEF OptimizeFails
  <2> QED
    BY <1>1, <2>1, Ends, ThreadMoves DEF Elsewhere, Holds, WriterInv, WriterTypes
<1>3. CASE op[t] # "timer"
  <2>1. Leave(t) /\ opened' = [opened EXCEPT ![t] = None]
    BY <1>3 DEF OptimizeFails
  <2>2. /\ pc'[t] = "idle" /\ DOMAIN pc' = Threads /\ DOMAIN op' = Threads
        /\ \A u \in Threads \ {t} : pc'[u] = pc[u] /\ op'[u] = op[u]
    BY <2>1, Ends
  <2>3. \/ count[current] = 0
        \/ opened[t] = current
    BY <1>1 DEF WriterInv, HoldersOpened, Stuck
  <2> QED
    BY <1>1, <2>1, <2>2, <2>3, UserGoes
<1> QED
  BY <1>2, <1>3

(* A rebuild leaves the users of the old factory behind, and its lock.     *)
LEMMA SwapInv ==
  ASSUME WriterInv, NEW t \in Threads, Swap(t)
  PROVE  WriterInv'
<1>1. /\ pc[t] = "swap" /\ current' = current + 1 /\ Goto(t, "init")
      /\ UNCHANGED <<count, writer, lock, opened, op>>
  BY DEF Swap
<1>2. /\ pc'[t] = "init" /\ DOMAIN pc' = Threads
      /\ \A u \in Threads \ {t} : pc'[u] = pc[u]
  BY <1>1, Ends
<1>3. Rebuilding \in SUBSET Threads /\ t \in Rebuilding /\ Rebuilding' = Rebuilding \ {t}
      /\ Rebuilding' \in SUBSET Threads
  BY <1>1, <1>2 DEF Rebuilding
<1>4. Cardinality(Rebuilding') = Cardinality(Rebuilding) - 1
      /\ Cardinality(Rebuilding) \in Nat /\ Cardinality(Rebuilding') \in Nat
  BY <1>3, ThreadSets
<1>5. /\ current \in Gens /\ current' \in Gens /\ current \in Nat /\ current' > current
      /\ RebuildsLeft'
  BY <1>1, <1>4, IndexAssumption
  DEF WriterInv, WriterTypes, RebuildsLeft, Gens, IndexAssumption
<1>6. count'[current'] = 0
  BY <1>1, <1>5 DEF WriterInv, Unborn
<1>7. WriterTypes' /\ Unborn' /\ CountedIsOpen'
  BY <1>1, <1>2, <1>5, <1>6 DEF WriterInv, WriterTypes, Unborn, CountedIsOpen, Gens
<1>8. UsersCounted'
  <2>1. Users' = {}
    BY <1>1, <1>5 DEF Users, WriterInv, Unborn
  <2> QED
    BY <1>6, <2>1, FS_EmptySet DEF UsersCounted
<1>9. HoldersOpened'
  <2>1. \A u \in Threads : Holds(u)' => Holds(u)
    BY <1>1, <1>2 DEF Holds, Group
  <2>2. ASSUME NEW u \in Threads, Holds(u) PROVE lock # None
    <3>1. CASE opened[u] = current
      BY <3>1, <1>5, UserCounts, IndexAssumption DEF WriterInv, CountedIsOpen, IndexAssumption
    <3> QED
      BY <2>2, <3>1 DEF WriterInv, HoldersOpened, Stuck
  <2>3. opened[t] = None
    BY <1>1 DEF WriterInv, HoldersOpened, Holds
  <2>4. \A u \in Threads \ {t} : Holds(u)' <=> Holds(u)
    BY <1>1, <1>2 DEF Holds, Group
  <2> QED
    BY <1>1, <1>2, <1>6, <2>1, <2>2, <2>3, <2>4 DEF WriterInv, HoldersOpened, Stuck, Holds
<1> QED
  BY <1>5, <1>7, <1>8, <1>9 DEF WriterInv

(* A crash forgets the factories, the threads and the lock.                *)
LEMMA RestartInv ==
  ASSUME WriterInv, Restart
  PROVE  WriterInv'
<1>1. /\ current' = 1 /\ count' = [g \in Gens |-> 0] /\ writer' = [g \in Gens |-> "none"]
      /\ lock' = None /\ opened' = [t \in Threads |-> None]
      /\ pc' = [t \in Threads |-> "idle"] /\ op' = [t \in Threads |-> None]
  BY DEF Restart
<1>2. WriterTypes' /\ Unborn' /\ CountedIsOpen'
  BY <1>1, IndexAssumption DEF IndexAssumption, WriterTypes, Unborn, CountedIsOpen, Gens
<1>3. Users' = {} /\ Rebuilding' = {}
  BY <1>1, IndexAssumption DEF IndexAssumption, Users, Rebuilding, Gens
<1>4. UsersCounted' /\ RebuildsLeft'
  BY <1>1, <1>3, FS_EmptySet, IndexAssumption
  DEF IndexAssumption, UsersCounted, RebuildsLeft, Gens
<1>5. HoldersOpened'
  BY <1>1 DEF HoldersOpened, Holds
<1> QED
  BY <1>2, <1>4, <1>5 DEF WriterInv
-------------------------------------------------------------------------------
(* Every other step of a thread.  The optimizer's timer goes on when its   *)
(* openWriter has failed, which here means that nobody can open again.     *)
LEMMA OpenFailsInv ==
  ASSUME WriterInv, "open" \notin Faults, NEW t \in Threads, OpenFails(t)
  PROVE  WriterInv'
<1>1. /\ pc[t] = "open" /\ ~Holds(t) /\ Stuck
      /\ UNCHANGED <<current, count, writer, lock, opened>>
  BY DEF OpenFails, Holds, Stuck, luceneVars
<1>2. CASE op[t] = "timer"
  <2>1. Goto(t, "optimize") /\ op' = op
    BY <1>2 DEF OpenFails
  <2> QED
    BY <1>1, <2>1, Ends, ThreadMoves DEF Elsewhere, Holds, WriterInv, WriterTypes
<1>3. CASE op[t] # "timer"
  <2>1. Finish(t) \/ Leave(t)
    BY <1>3 DEF OpenFails
  <2> QED
    BY <1>1, <2>1, FinishInv
<1> QED
  BY <1>2, <1>3

LEMMA ReadInv ==
  ASSUME WriterInv, NEW t \in Threads, Read(t)
  PROVE  WriterInv'
<1>1. pc[t] = "read" /\ UNCHANGED <<current, count, writer, lock, opened>>
  BY DEF Read, luceneVars
<1>2. CASE Goto(t, IF Group(t) THEN "delete" ELSE "open") /\ op' = op
  <2>1. Holds(t)' <=> Holds(t)
    BY <1>1, <1>2, Ends DEF Holds, Group
  <2>2. pc'[t] \in {"delete", "open"} /\ Elsewhere(t)
    BY <1>1, <1>2, Ends DEF Elsewhere, WriterInv, WriterTypes
  <2>3. ~Holds(t) => opened[t] = None
    BY DEF WriterInv, HoldersOpened
  <2> QED
    BY <2>1, <2>2, <2>3, ThreadMoves
<1>3. CASE Group(t) /\ NextRecord(t) /\ op' = op
  BY <1>1, <1>3, NextRecordInv DEF Holds
<1>4. CASE ~Group(t) /\ Finish(t)
  BY <1>1, <1>4, FinishInv DEF Holds
<1> QED
  BY <1>2, <1>3, <1>4 DEF Read

LEMMA ProceedInv ==
  ASSUME WriterInv, NEW t \in Threads, Proceed(t), OpenFails(t) => "open" \notin Faults
  PROVE  WriterInv'
<1>1. CASE Open(t) \/ OpenFails(t) \/ Close(t) \/ CloseFails(t)
  BY <1>1, OpenInv, OpenFailsInv, CloseInv, CloseFailsInv
<1>2. CASE Read(t) \/ OptimizeFails(t) \/ Swap(t)
  BY <1>2, ReadInv, OptimizeFailsInv, SwapInv
<1>3. CASE Delete(t) \/ Add(t) \/ NotIndexed(t)
  <2>1. Holds(t) /\ op' = op /\ UNCHANGED <<current, count, writer, lock, opened>>
    BY <1>3 DEF Delete, Add, NotIndexed, Holds, luceneVars
  <2>2. CASE NextRecord(t)
    BY <2>1, <2>2, NextRecordInv
  <2>3. CASE \E place \in {"add", "close"} : Goto(t, place)
    <3>1. pc'[t] \in {"add", "close"} /\ Elsewhere(t)
      BY <2>1, <2>3, Ends DEF Elsewhere, WriterInv, WriterTypes
    <3> QED
      BY <2>1, <3>1, ThreadMoves DEF Holds
  <2> QED
    BY <1>3, <2>2, <2>3 DEF Delete, Add, NotIndexed
<1>4. CASE Optimize(t)
  <2>1. Holds(t) /\ Goto(t, "close") /\ op' = op
        /\ UNCHANGED <<current, count, writer, lock, opened>>
    BY <1>4 DEF Optimize, Holds, luceneVars
  <2> QED
    BY <2>1, Ends, ThreadMoves DEF Elsewhere, Holds, WriterInv, WriterTypes
<1>5. CASE Erase(t)
  <2>1. pc[t] = "erase" /\ Goto(t, "swap") /\ op' = op
        /\ UNCHANGED <<current, count, writer, lock, opened>>
    BY <1>5 DEF Erase
  <2>2. opened[t] = None
    BY <2>1 DEF WriterInv, HoldersOpened, Holds
  <2> QED
    BY <2>1, <2>2, Ends, ThreadMoves DEF Elsewhere, Holds, WriterInv, WriterTypes
<1>6. CASE EraseFails(t) \/ Commit(t) \/ Abort(t)
  <2>1. Leave(t) /\ ~Holds(t) /\ UNCHANGED <<current, count, writer, lock, opened>>
    BY <1>6 DEF EraseFails, Commit, Abort, Holds, luceneVars
  <2> QED
    BY <2>1, FinishInv
<1>7. CASE Init(t)
  <2>1. pc[t] = "init" /\ UNCHANGED <<current, count, writer, lock, opened>>
    BY <1>7 DEF Init, luceneVars
  <2>2. \/ Goto(t, "open") /\ op' = op
        \/ Goto(t, "idle") /\ op' = [op EXCEPT ![t] = None]
    BY <1>7 DEF Init
  <2>3. pc'[t] \in {"open", "idle"} /\ Elsewhere(t)
    BY <2>1, <2>2, Ends DEF Elsewhere, WriterInv, WriterTypes
  <2>4. opened[t] = None /\ ~Holds(t)'
    BY <2>1, <2>3 DEF WriterInv, HoldersOpened, Holds
  <2> QED
    BY <2>3, <2>4, ThreadMoves
<1>8. CASE StartJob(t)
  <2>1. pc[t] = "idle" /\ Goto(t, "open") /\ op' = [op EXCEPT ![t] = "job"]
        /\ UNCHANGED <<current, count, writer, lock, opened>>
    BY <1>8 DEF StartJob, luceneVars
  <2>2. opened[t] = None
    BY <2>1 DEF WriterInv, HoldersOpened, Holds
  <2> QED
    BY <2>1, <2>2, Ends, ThreadMoves DEF Elsewhere, Holds, WriterInv, WriterTypes
<1> QED
  BY <1>1, <1>2, <1>3, <1>4, <1>5, <1>6, <1>7, <1>8 DEF Proceed
-------------------------------------------------------------------------------
(* A thread that has opened the writer and not closed it finds it open,    *)
(* whoever else opens, closes, rebuilds or crashes, as long as openWriter  *)
(* only fails for the lock of the directory (LuceneIndexWriterFactory).    *)
THEOREM UsableWriter == "open" \notin Faults => (IndexSpec => []WriterUsable)
<1> SUFFICES ASSUME "open" \notin Faults PROVE IndexSpec => []WriterUsable
  OBVIOUS
<1>1. IndexInit => WriterInv
  BY WriterInit
<1>2. WriterInv /\ [IndexNext]_vars => WriterInv'
  <2> SUFFICES ASSUME WriterInv, [IndexNext]_vars PROVE WriterInv'
    OBVIOUS
  <2>1. CASE IndexNext
    BY <2>1, RequestInv, ProceedInv, RestartInv DEF IndexNext
  <2>2. CASE UNCHANGED vars
    BY <2>2 DEF vars, luceneVars, localVars, WriterInv, WriterTypes, Unborn, CountedIsOpen,
                UsersCounted, Users, HoldersOpened, Holds, Group, Stuck, RebuildsLeft, Rebuilding
  <2> QED
    BY <2>1, <2>2
<1>3. WriterInv => WriterUsable
  BY UsersFindItOpen
<1> QED
  BY <1>1, <1>2, <1>3, PTL DEF IndexSpec
===============================================================================
