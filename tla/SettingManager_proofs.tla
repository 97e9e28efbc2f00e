------------------------- MODULE SettingManager_proofs -------------------------
(***************************************************************************)
(* Proofs about the settings composed with the pool, for any threads,      *)
(* connections, settings, operations and faults, and for both kinds of     *)
(* database.  The invariants know of ApplyAll only that it leaves the rows *)
(* as they are when there is no statement; the refinement at the end needs *)
(* that it makes settings of settings, for which the fold is unfolded.     *)
(***************************************************************************)
EXTENDS SettingManager, DbmsPool_proofs, FiniteSetTheorems, WellFoundedInduction

(* The variables indexed by threads or connections are functions of them.  *)
Shape ==
  /\ DOMAIN written = Conns
  /\ DOMAIN tasks = Conns
  /\ fates \in [Conns -> SUBSET Fate]
  /\ DOMAIN call = Threads
  /\ writer \in Threads \cup {None}

(* A call is made by the body of a request that has its connection, and    *)
(* the write lock is held by a thread inside a call.                       *)
CallsInBody ==
  /\ \A t \in Threads : call[t] # NoCall => pc[t] = "body" /\ res[t] # None
  /\ \A t \in Threads : writer = t => call[t] # NoCall

(* The tasks of an open transaction have a request that will end it, those *)
(* of a committed one a request that will flush them.                      *)
FatesOwned ==
  \A c \in Conns :
    /\ "open" \in fates[c] =>
         \E t \in Threads : res[t] = c /\ pc[t] \in {"body", "close", "abort"}
    /\ "committed" \in fates[c] /\ ~BodyCommits =>
         \E t \in Threads : res[t] = c /\ pc[t] \in {"free", "notify"}

OwnerInv == Shape /\ CallsInBody /\ FatesOwned

(* Without a race, a connection is in one table at a time, also while its  *)
(* listeners run ...                                                       *)
OneTable == \A t, u \in Threads : res[t] = res[u] /\ res[t] # None => t = u

(* ... the tasks of a live connection are the statements of its open       *)
(* transaction, and an ended transaction leaves no statement ...           *)
TasksAreWritten ==
  \A t \in Threads : res[t] # None =>
    /\ pc[t] \in {"body", "close"} /\ ~closed[res[t]] =>
         tasks[res[t]] = written[res[t]]
    /\ pc[t] \in {"free", "freeAbort"} => written[res[t]] = <<>>
    /\ pc[t] = "freeFailed" => written[res[t]] = <<>> /\ tasks[res[t]] = <<>>

(* ... a free connection has tasks only while its listeners are told ...   *)
FreeIsClean ==
  \A c \in Conns : ~locked[c] =>
    /\ written[c] = <<>>
    /\ tasks[c] # <<>> => \E t \in Threads : Notifying(t) /\ res[t] = c

(* ... and one transaction at most is committed and not yet flushed.       *)
OneBehind == \A t, u \in Threads : Behind(t) /\ Behind(u) => t = u

Unraced == MemoryFollowsDb /\ OneTable /\ TasksAreWritten /\ FreeIsClean /\ OneBehind

MemoryInv == ~raced => Unraced

SettingInv == PoolInv /\ OwnerInv /\ MemoryInv
-------------------------------------------------------------------------------
LEMMA SettingInitInv == SettingInit => SettingInv
<1> SUFFICES ASSUME SettingInit PROVE SettingInv
  OBVIOUS
<1>1. PoolInv
  BY InitInv DEF SettingInit
<1>2. OwnerInv
  BY PoolAssumption DEF SettingInit, PoolInit, OwnerInv, Shape, CallsInBody, FatesOwned, Fate
<1>3. MemoryInv
  BY DEF SettingInit, PoolInit, MemoryInv, Unraced, MemoryFollowsDb, OneTable, TasksAreWritten,
     FreeIsClean, OneBehind, Behind
<1>4. QED
  BY <1>1, <1>2, <1>3 DEF SettingInv

(* Every step of the settings is a step of the pool, or leaves it alone.   *)
LEMMA ThreadStepOnPool ==
  ASSUME NEW t \in Threads, ThreadStep(t)
  PROVE  AnyStep(t) \/ UNCHANGED poolVars
<1>1. CASE \/ Quiet(BeginRequest(t)) \/ Quiet(EnterOpen(t))
           \/ OfBody(t, CallOpen(t)) \/ OfBody(t, Return(t)) \/ OfBody(t, Throw(t))
  BY <1>1 DEF AnyStep, Quiet, OfBody, Throw
<1>2. CASE \E c \in Conns : Quiet(SkipLocked(t, c)) \/ Quiet(FindFree(t, c))
  BY <1>2 DEF AnyStep, Quiet
<1>3. CASE \E reconnect \in BOOLEAN : Take(t, reconnect)
  BY <1>3 DEF AnyStep, Take
<1>4. CASE FailToReconnect(t) \/ Quiet(Retry(t)) \/ Quiet(GiveUp(t))
  BY <1>4 DEF AnyStep, FailToReconnect, Quiet
<1>5. CASE (\E o \in Operations : CallSettings(t, o)) \/ LockSettings(t) \/ Execute(t)
  BY <1>5 DEF CallSettings, LockSettings, Execute
<1>6. CASE \/ ExecuteFails(t) \/ BreakConnection(t)
           \/ CommitInBody(t) \/ CommitInBodyRejected(t)
  BY <1>6 DEF AnyStep, ExecuteFails, BreakConnection, CommitInBody, CommitInBodyRejected
<1>7. CASE \/ Quiet(CloseNothing(t)) \/ Commit(t) \/ CommitRejected(t)
           \/ Quiet(Free(t)) \/ Quiet(FreeFailed(t)) \/ Flush(t)
  BY <1>7 DEF AnyStep, Quiet, Commit, CommitRejected, Flush
<1>8. CASE Quiet(AbortNothing(t)) \/ Rollback(t) \/ RollbackSwallowed(t)
  BY <1>8 DEF AnyStep, Quiet, Rollback, RollbackSwallowed
<1>9. QED
  BY <1>1, <1>2, <1>3, <1>4, <1>5, <1>6, <1>7, <1>8 DEF ThreadStep

LEMMA NothingToApply == \A rows : ApplyAll(rows, <<>>) = rows
BY DEF ApplyAll
-------------------------------------------------------------------------------
(* Who will look at the tasks of a connection.                             *)

LEMMA SettleFates ==
  ASSUME Shape, NEW c \in Conns, NEW fate \in {"committed", "rolledback"}, Settle(c, fate)
  PROVE  /\ fates' \in [Conns -> SUBSET Fate]
         /\ \A d \in Conns : "open" \in fates'[d] => "open" \in fates[d] /\ d # c
         /\ \A d \in Conns : "committed" \in fates'[d] =>
              "committed" \in fates[d] \/ (d = c /\ fate = "committed")
BY DEF Shape, Settle, Fate

LEMMA OwnerStep ==
  ASSUME PoolInv, OwnerInv, NEW t \in Threads, ThreadStep(t)
  PROVE  OwnerInv'
<1> USE PoolAssumption DEF OwnerInv, Shape, CallsInBody, FatesOwned, PoolInv, PoolTypeOK,
      PlaceOK, Goto, Places
<1>1. CASE Quiet(BeginRequest(t))
  BY <1>1 DEF Quiet, settingVars, BeginRequest
<1>2. CASE Quiet(EnterOpen(t))
  BY <1>2 DEF Quiet, settingVars, EnterOpen
<1>3. CASE OfBody(t, CallOpen(t))
  BY <1>3 DEF OfBody, Quiet, settingVars, CallOpen
<1>4. CASE OfBody(t, Return(t))
  BY <1>4 DEF OfBody, Quiet, settingVars, Return
<1>5. CASE OfBody(t, Throw(t))
  BY <1>5 DEF OfBody, Quiet, settingVars, Throw, BodyThrows
<1>6. ASSUME NEW c \in Conns, Quiet(SkipLocked(t, c)) \/ Quiet(FindFree(t, c))
      PROVE  OwnerInv'
  BY <1>6 DEF Quiet, settingVars, SkipLocked, FindFree
<1>7. ASSUME NEW reconnect \in BOOLEAN, Take(t, reconnect)
      PROVE  OwnerInv'
  BY <1>7 DEF Take, TakeFree, Discard
<1>8. CASE FailToReconnect(t)
  BY <1>8 DEF FailToReconnect, ReconnectFails, Discard
<1>9. CASE Quiet(Retry(t)) \/ Quiet(GiveUp(t))
  BY <1>9 DEF Quiet, settingVars, Retry, GiveUp
<1>10. ASSUME NEW o \in Operations, CallSettings(t, o)
       PROVE  OwnerInv'
  BY <1>10 DEF CallSettings, poolVars
<1>11. CASE LockSettings(t)
  BY <1>11 DEF LockSettings, poolVars
<1>12. CASE Execute(t)
  <2>1. res[t] \in Conns /\ pc[t] = "body"
    BY <1>12 DEF Execute
  <2>2. Shape' /\ CallsInBody'
    BY <1>12, <2>1 DEF Execute, Unlock, poolVars, Fate
  <2>3. FatesOwned'
    BY <1>12, <2>1 DEF Execute, poolVars
  <2>4. QED
    BY <2>2, <2>3
<1>13. CASE ExecuteFails(t)
  <2>1. res[t] \in Conns /\ pc[t] = "body"
    BY <1>13 DEF ExecuteFails
  <2>2. Shape' /\ CallsInBody'
    BY <1>13, <2>1 DEF ExecuteFails, Unlock, BodyThrows
  <2>3. FatesOwned'
    BY <1>13, <2>1 DEF ExecuteFails, BodyThrows
  <2>4. QED
    BY <2>2, <2>3
<1>14. CASE BreakConnection(t)
  BY <1>14 DEF BreakConnection, Break, Discard
<1>15. CASE Quiet(CloseNothing(t)) \/ Quiet(AbortNothing(t))
  BY <1>15 DEF Quiet, settingVars, CloseNothing, AbortNothing
<1>16. CASE Commit(t)
  <2>1. res[t] \in Conns /\ Settle(res[t], "committed") /\ call[t] = NoCall
    BY <1>16 DEF Commit, CommitOk, CommitWritten
  <2>2. Shape' /\ CallsInBody'
    BY <1>16, <2>1, SettleFates DEF Commit, CommitOk, CommitWritten
  <2>3. FatesOwned'
    BY <1>16, <2>1, SettleFates DEF Commit, CommitOk, CommitWritten
  <2>4. QED
    BY <2>2, <2>3
<1>17. CASE CommitRejected(t)
  <2>1. res[t] \in Conns /\ Settle(res[t], "rolledback") /\ call[t] = NoCall
    BY <1>17 DEF CommitRejected, CommitThrows, Discard
  <2>2. Shape' /\ CallsInBody'
    BY <1>17, <2>1, SettleFates DEF CommitRejected, CommitThrows, Discard
  <2>3. pc[t] = "close" /\ res' = res /\ \A u \in Threads \ {t} : pc'[u] = pc[u]
    BY <1>17 DEF CommitRejected, CommitThrows
  <2>4. FatesOwned'
    BY <2>1, <2>3, SettleFates
  <2>5. QED
    BY <2>2, <2>4
<1>18. CASE Quiet(Free(t)) \/ Quiet(FreeFailed(t))
  BY <1>18 DEF Quiet, settingVars, Free, FreeFailed
<1>19. CASE Flush(t)
  BY <1>19 DEF Flush, Notify
<1>20. CASE Rollback(t)
  <2>1. res[t] \in Conns /\ Settle(res[t], "rolledback") /\ call[t] = NoCall
    BY <1>20 DEF Rollback, RollbackOk, Discard
  <2>2. Shape' /\ CallsInBody'
    BY <1>20, <2>1, SettleFates DEF Rollback, RollbackOk, Discard
  <2>3. pc[t] = "abort" /\ res' = res /\ \A u \in Threads \ {t} : pc'[u] = pc[u]
    BY <1>20 DEF Rollback, RollbackOk
  <2>4. FatesOwned'
    BY <2>1, <2>3, SettleFates
  <2>5. QED
    BY <2>2, <2>4
<1>21. CASE RollbackSwallowed(t)
  <2>1. res[t] \in Conns /\ Settle(res[t], "rolledback") /\ call[t] = NoCall
    BY <1>21 DEF RollbackSwallowed, RollbackFails, Discard
  <2>2. Shape' /\ CallsInBody'
    BY <1>21, <2>1, SettleFates DEF RollbackSwallowed, RollbackFails, Discard
  <2>3. FatesOwned'
    BY <1>21, <2>1, SettleFates DEF RollbackSwallowed, RollbackFails, Discard
  <2>4. QED
    BY <2>2, <2>3
<1>22. CASE CommitInBody(t)
  <2>1. res[t] \in Conns /\ Settle(res[t], "committed") /\ BodyCommits
    BY <1>22 DEF CommitInBody, CommitWritten
  <2>2. Shape' /\ CallsInBody'
    BY <1>22, <2>1, SettleFates DEF CommitInBody, CommitWritten, poolVars
  <2>3. FatesOwned'
    BY <1>22, <2>1, SettleFates DEF CommitInBody, poolVars
  <2>4. QED
    BY <2>2, <2>3
<1>23. CASE CommitInBodyRejected(t)
  <2>1. /\ res[t] \in Conns /\ Settle(res[t], "rolledback")
        /\ pc[t] = "body" /\ res' = res /\ \A u \in Threads \ {t} : pc'[u] = pc[u]
    BY <1>23 DEF CommitInBodyRejected, BodyThrows
  <2>2. Shape' /\ CallsInBody'
    BY <1>23, <2>1, SettleFates DEF CommitInBodyRejected, BodyThrows, Discard
  <2>3. FatesOwned'
    BY <2>1, SettleFates
  <2>4. QED
    BY <2>2, <2>3
<1>24. QED
  BY <1>1, <1>2, <1>3, <1>4, <1>5, <1>6, <1>7, <1>8, <1>9, <1>10, <1>11, <1>12, <1>13,
     <1>14, <1>15, <1>16, <1>17, <1>18, <1>19, <1>20, <1>21, <1>22, <1>23
     DEF ThreadStep
-------------------------------------------------------------------------------
(* The tree against the table.                                             *)

LEMMA RacedStays ==
  ASSUME NEW t \in Threads, ThreadStep(t), raced
  PROVE  raced'
<1>1. CASE \/ Quiet(BeginRequest(t)) \/ Quiet(EnterOpen(t))
           \/ OfBody(t, CallOpen(t)) \/ OfBody(t, Return(t)) \/ OfBody(t, Throw(t))
  BY <1>1 DEF Quiet, OfBody, settingVars
<1>2. CASE \E c \in Conns : Quiet(SkipLocked(t, c)) \/ Quiet(FindFree(t, c))
  BY <1>2 DEF Quiet, settingVars
<1>3. CASE \E reconnect \in BOOLEAN : Take(t, reconnect)
  BY <1>3 DEF Take
<1>4. CASE FailToReconnect(t) \/ Quiet(Retry(t)) \/ Quiet(GiveUp(t))
  BY <1>4 DEF FailToReconnect, Quiet, settingVars
<1>5. CASE (\E o \in Operations : CallSettings(t, o)) \/ LockSettings(t) \/ Execute(t)
  BY <1>5 DEF CallSettings, LockSettings, Execute
<1>6. CASE \/ ExecuteFails(t) \/ BreakConnection(t)
           \/ CommitInBody(t) \/ CommitInBodyRejected(t)
  BY <1>6 DEF ExecuteFails, BreakConnection, CommitInBody, CommitInBodyRejected
<1>7. CASE \/ Quiet(CloseNothing(t)) \/ Commit(t) \/ CommitRejected(t)
           \/ Quiet(Free(t)) \/ Quiet(FreeFailed(t)) \/ Flush(t)
  BY <1>7 DEF Quiet, settingVars, Commit, CommitRejected, Flush
<1>8. CASE Quiet(AbortNothing(t)) \/ Rollback(t) \/ RollbackSwallowed(t)
  BY <1>8 DEF Quiet, settingVars, Rollback, RollbackSwallowed
<1>9. QED
  BY <1>1, <1>2, <1>3, <1>4, <1>5, <1>6, <1>7, <1>8 DEF ThreadStep

LEMMA SameBehind ==
  ASSUME MemoryFollowsDb, ~raced, db' = db, tree' = tree,
         \A u \in Threads : Behind(u)' <=> Behind(u),
         \A u \in Threads : Behind(u) => tasks'[res'[u]] = tasks[res[u]]
  PROVE  MemoryFollowsDb'
BY DEF MemoryFollowsDb

LEMMA MemoryStep ==
  ASSUME PoolInv, OwnerInv, MemoryInv, NEW t \in Threads, ThreadStep(t)
  PROVE  MemoryInv'
<1> SUFFICES ASSUME ~raced' PROVE Unraced'
  BY DEF MemoryInv
<1>0. ~raced /\ Unraced
  BY RacedStays DEF MemoryInv
<1> USE <1>0, PoolAssumption DEF Unraced, MemoryFollowsDb, OneTable, TasksAreWritten,
      FreeIsClean, OneBehind, Behind, OwnerInv, Shape, CallsInBody, PoolInv, PoolTypeOK,
      PlaceOK, ExclusiveConnection, ReleaseNeverRefused, NoConnectionLost,
      BodyHasLiveConnection, Uses, Notifying, Goto, Places
<1>1. CASE Quiet(BeginRequest(t))
  BY <1>1 DEF Quiet, settingVars, BeginRequest
<1>2. CASE Quiet(EnterOpen(t))
  BY <1>2 DEF Quiet, settingVars, EnterOpen
<1>3. CASE OfBody(t, CallOpen(t))
  BY <1>3 DEF OfBody, Quiet, settingVars, CallOpen
<1>4. CASE OfBody(t, Return(t))
  BY <1>4 DEF OfBody, Quiet, settingVars, Return
<1>5. CASE OfBody(t, Throw(t))
  BY <1>5 DEF OfBody, Quiet, settingVars, Throw, BodyThrows
<1>6. ASSUME NEW c \in Conns, Quiet(SkipLocked(t, c)) \/ Quiet(FindFree(t, c))
      PROVE  Unraced'
  <2>1. CASE Quiet(SkipLocked(t, c))
    BY <2>1 DEF Quiet, settingVars, SkipLocked
  <2>2. CASE Quiet(FindFree(t, c))
    BY <2>2 DEF Quiet, settingVars, FindFree
  <2>3. QED
    BY <1>6, <2>1, <2>2
<1>7. ASSUME NEW reconnect \in BOOLEAN, Take(t, reconnect)
      PROVE  Unraced'
  <2> DEFINE c == found[t]
  <2>1. /\ c \in Conns /\ ~locked[c] /\ res[t] = None
        /\ \A u \in Threads : ~(Notifying(u) /\ res[u] = c)
    BY <1>7 DEF Take, TakeFree
  <2>2. \A u \in Threads : res[u] # c
    BY <2>1
  <2>3. written[c] = <<>> /\ tasks[c] = <<>> /\ written'[c] = <<>> /\ tasks' = tasks
    BY <1>7, <2>1 DEF Take, Discard
  <2>4. \A d \in Conns \ {c} : written'[d] = written[d]
    BY <1>7, <2>1 DEF Take, Discard
  <2>5. /\ db' = db /\ tree' = tree
        /\ \A u \in Threads \ {t} : pc'[u] = pc[u] /\ res'[u] = res[u]
        /\ pc'[t] = "body" /\ res'[t] = c /\ pc[t] = "found"
        /\ \A d \in Conns \ {c} : locked'[d] = locked[d] /\ closed'[d] = closed[d]
        /\ locked'[c]
    BY <1>7, <2>1 DEF Take, TakeFree
  <2>6. MemoryFollowsDb' /\ OneBehind'
    <3>1. ~Behind(t) /\ ~Behind(t)'
      BY <2>5
    <3>2. \A u \in Threads \ {t} : /\ Behind(u)' <=> Behind(u)
                                   /\ tasks'[res'[u]] = tasks[res[u]]
      BY <2>3, <2>5
    <3>3. MemoryFollowsDb'
      <4>1. \A u \in Threads : /\ Behind(u)' <=> Behind(u)
                               /\ Behind(u) => tasks'[res'[u]] = tasks[res[u]]
        BY <3>1, <3>2
      <4>2. QED
        BY <2>5, <4>1, SameBehind
    <3>4. QED
      BY <3>1, <3>2, <3>3
  <2>7. OneTable'
    BY <2>2, <2>5
  <2>8. TasksAreWritten'
    BY <2>2, <2>3, <2>4, <2>5
  <2>9. FreeIsClean'
    <3>1. SUFFICES ASSUME NEW d \in Conns, ~locked'[d]
                   PROVE  /\ written'[d] = <<>>
                          /\ tasks'[d] # <<>> => \E u \in Threads : Notifying(u)' /\ res'[u] = d
      OBVIOUS
    <3>2. d # c /\ ~locked[d]
      BY <2>5, <3>1
    <3>3. written'[d] = <<>> /\ tasks'[d] = tasks[d]
      BY <2>3, <2>4, <3>2
    <3>4. ASSUME NEW u \in Threads, Notifying(u), res[u] = d
          PROVE  Notifying(u)' /\ res'[u] = d
      BY <2>5, <3>4
    <3>5. QED
      BY <3>2, <3>3, <3>4
  <2>10. QED
    BY <2>6, <2>7, <2>8, <2>9
<1>8. CASE FailToReconnect(t)
  BY <1>8 DEF FailToReconnect, ReconnectFails, Discard
<1>9. CASE Quiet(Retry(t)) \/ Quiet(GiveUp(t))
  <2>1. CASE Quiet(Retry(t))
    BY <2>1 DEF Quiet, settingVars, Retry
  <2>2. CASE Quiet(GiveUp(t))
    BY <2>2 DEF Quiet, settingVars, GiveUp
  <2>3. QED
    BY <1>9, <2>1, <2>2
<1>10. ASSUME NEW o \in Operations, CallSettings(t, o)
       PROVE  Unraced'
  BY <1>10 DEF CallSettings, poolVars
<1>11. CASE LockSettings(t)
  BY <1>11 DEF LockSettings, poolVars
<1>12. CASE Execute(t)
  BY <1>12 DEF Execute, poolVars
<1>13. CASE ExecuteFails(t)
  BY <1>13 DEF ExecuteFails, BodyThrows
<1>14. CASE BreakConnection(t)
  BY <1>14 DEF BreakConnection, Break, Discard
<1>15. CASE Quiet(CloseNothing(t)) \/ Quiet(AbortNothing(t))
  <2>1. CASE Quiet(CloseNothing(t))
    BY <2>1 DEF Quiet, settingVars, CloseNothing
  <2>2. CASE Quiet(AbortNothing(t))
    BY <2>2 DEF Quiet, settingVars, AbortNothing
  <2>3. QED
    BY <1>15, <2>1, <2>2
<1>16. CASE Commit(t)
  BY <1>16, NothingToApply DEF Commit, CommitOk, CommitWritten
<1>17. CASE CommitRejected(t)
  BY <1>17 DEF CommitRejected, CommitThrows, Discard
<1>18. CASE Quiet(Free(t)) \/ Quiet(FreeFailed(t))
  <2>1. CASE Quiet(Free(t))
    BY <2>1 DEF Quiet, settingVars, Free
  <2>2. CASE Quiet(FreeFailed(t))
    <3> DEFINE c == res[t]
    <3>1. /\ c \in Conns /\ written[c] = <<>> /\ tasks[c] = <<>>
          /\ written' = written /\ tasks' = tasks /\ db' = db /\ tree' = tree
          /\ closed' = closed /\ res'[t] = None /\ pc'[t] = "abort" /\ pc[t] = "freeFailed"
          /\ \A u \in Threads \ {t} : pc'[u] = pc[u] /\ res'[u] = res[u]
          /\ \A d \in Conns \ {c} : locked'[d] = locked[d]
      BY <2>2 DEF Quiet, settingVars, FreeFailed
    <3>2. (\A u \in Threads : Behind(u)' <=> Behind(u)) /\ ~Behind(t)
      BY <3>1
    <3>3. MemoryFollowsDb' /\ OneBehind'
      <4>1. \A u \in Threads : Behind(u) => tasks'[res'[u]] = tasks[res[u]]
        BY <3>1, <3>2
      <4>2. QED
        BY <3>1, <3>2, <4>1, SameBehind
    <3>4. OneTable'
      BY <3>1
    <3>5. TasksAreWritten'
      BY <3>1
    <3>6. FreeIsClean'
      <4>1. \A d \in Conns, u \in Threads :
              Notifying(u) /\ res[u] = d => Notifying(u)' /\ res'[u] = d
        BY <3>1
      <4>2. \A d \in Conns : ~locked'[d] => d = c \/ ~locked[d]
        BY <3>1
      <4>3. QED
        BY <3>1, <4>1, <4>2
    <3>7. QED
      BY <3>3, <3>4, <3>5, <3>6
  <2>3. QED
    BY <1>18, <2>1, <2>2
<1>19. CASE Flush(t)
  <2> DEFINE c == res[t]
  <2>1. /\ c \in Conns /\ pc[t] \in {"notify", "notifyAbort"}
        /\ \A u \in Threads \ {t} : res[u] # c
    BY <1>19 DEF Flush, Notify
  <2>2. /\ pc'[t] = "idle" /\ res'[t] = None /\ locked' = locked /\ closed' = closed
        /\ \A u \in Threads \ {t} : pc'[u] = pc[u] /\ res'[u] = res[u]
        /\ db' = db /\ written' = written /\ tasks'[c] = <<>>
        /\ \A d \in Conns \ {c} : tasks'[d] = tasks[d]
    BY <1>19, <2>1 DEF Flush, Notify
  <2>3. ~Behind(t)' /\ \A u \in Threads \ {t} : Behind(u)' <=> Behind(u)
    BY <2>1, <2>2
  <2>4. MemoryFollowsDb'
    <3>1. CASE Behind(t)
      <4>1. tree' = ApplyAll(tree, tasks[c])
        BY <1>19, <2>1, <3>1 DEF Flush
      <4>2. db' = tree' /\ \A u \in Threads : ~Behind(u)'
        BY <2>2, <2>3, <3>1, <4>1
      <4>3. QED
        BY <4>2
    <3>2. CASE ~Behind(t)
      <4>1. tree' = tree
        BY <1>19, <2>1, <3>2, NothingToApply DEF Flush
      <4>2. \A u \in Threads \ {t} : Behind(u) => tasks'[res[u]] = tasks[res[u]]
        BY <2>1, <2>2
      <4>3. \A u \in Threads : /\ Behind(u)' <=> Behind(u)
                               /\ Behind(u) => res'[u] = res[u] /\ u # t
        BY <2>2, <2>3, <3>2
      <4>4. QED
        BY <2>2, <4>1, <4>2, <4>3, <1>0 DEF Unraced, MemoryFollowsDb
    <3>3. QED
      BY <3>1, <3>2
  <2>5. OneBehind'
    BY <2>3
  <2>6. OneTable'
    BY <2>2
  <2>7. TasksAreWritten'
    BY <2>1, <2>2
  <2>8. FreeIsClean'
    <3>1. ASSUME NEW d \in Conns, d # c, NEW u \in Threads, Notifying(u), res[u] = d
          PROVE  Notifying(u)' /\ res'[u] = d
      BY <2>2, <3>1
    <3>2. QED
      BY <2>1, <2>2, <3>1
  <2>9. QED
    BY <2>4, <2>5, <2>6, <2>7, <2>8
<1>20. CASE Rollback(t)
  BY <1>20 DEF Rollback, RollbackOk, Discard
<1>21. CASE RollbackSwallowed(t)
  BY <1>21 DEF RollbackSwallowed, RollbackFails, Discard
<1>22. CASE CommitInBody(t)
  BY <1>22 DEF CommitInBody
<1>23. CASE CommitInBodyRejected(t)
  BY <1>23 DEF CommitInBodyRejected, BodyThrows, Discard
<1> HIDE <1>0 DEF Unraced, Shape, PoolInv, OwnerInv
<1>24. QED
  BY <1>1, <1>2, <1>3, <1>4, <1>5, <1>6, <1>7, <1>8, <1>9, <1>10, <1>11, <1>12, <1>13,
     <1>14, <1>15, <1>16, <1>17, <1>18, <1>19, <1>20, <1>21, <1>22, <1>23
     DEF ThreadStep
-------------------------------------------------------------------------------
LEMMA SettingStutterInv ==
  ASSUME SettingInv, UNCHANGED vars
  PROVE  SettingInv'
<1>1. UNCHANGED poolVars /\ UNCHANGED settingVars
  BY DEF vars
<1>2. PoolInv'
  BY <1>1, StutterInv DEF SettingInv
<1>3. OwnerInv'
  BY <1>1 DEF SettingInv, OwnerInv, Shape, CallsInBody, FatesOwned, poolVars, settingVars
<1>4. MemoryInv'
  BY <1>1 DEF SettingInv, MemoryInv, Unraced, MemoryFollowsDb, OneTable, TasksAreWritten,
     FreeIsClean, OneBehind, Behind, Notifying, poolVars, settingVars
<1>5. QED
  BY <1>2, <1>3, <1>4 DEF SettingInv

(* The inductive invariant of the settings composed with their pool.       *)
THEOREM SettingInvariant == Spec => []SettingInv
<1>1. SettingInv /\ [Next]_vars => SettingInv'
  <2> SUFFICES ASSUME SettingInv, [Next]_vars PROVE SettingInv'
    OBVIOUS
  <2>1. ASSUME NEW t \in Threads, ThreadStep(t) PROVE SettingInv'
    <3>1. PoolInv'
      BY <2>1, ThreadStepOnPool, AnyStepInv, StutterInv DEF SettingInv
    <3>2. OwnerInv'
      BY <2>1, OwnerStep DEF SettingInv
    <3>3. MemoryInv'
      BY <2>1, MemoryStep DEF SettingInv
    <3>4. QED
      BY <3>1, <3>2, <3>3 DEF SettingInv
  <2>2. QED
    BY <2>1, SettingStutterInv DEF Next
<1>2. QED
  BY <1>1, SettingInitInv, PTL DEF Spec

(* What the pool promises holds also with the settings' own reasons to     *)
(* fail: no two requests share a connection, so no two of them add tasks   *)
(* under one connection at a time (SettingManager.java:229, 658).          *)
THEOREM SettingExclusion == Spec => []ExclusiveConnection
BY SettingInvariant, PTL DEF SettingInv, PoolInv

(* A task whose transaction is open or committed has a request that will   *)
(* still end it or flush it (SettingManager.java:625-648).                 *)
THEOREM OwnedTasks == Spec => []TasksHaveOwner
<1>1. SettingInv => TasksHaveOwner
  BY DEF SettingInv, OwnerInv, Shape, FatesOwned, TasksHaveOwner, Fate
<1>2. QED
  BY <1>1, SettingInvariant, PTL

(* Memory and database diverge in five ways only: a connection taken again *)
(* before its listeners were told, two commits flushed in an order of      *)
(* their own, a commit that threw, a commit by the service itself, a       *)
(* rollback that failed.                                                   *)
THEOREM FiveRaces == Spec => []MemoryFollowsDb
<1>1. SettingInv => MemoryFollowsDb
  BY DEF SettingInv, MemoryInv, Unraced, MemoryFollowsDb
<1>2. QED
  BY <1>1, SettingInvariant, PTL

-------------------------------------------------------------------------------
(***************************************************************************)
(* Two open transactions never add a setting with the same id, for any     *)
(* threads, connections, operations and faults, on both kinds of database, *)
(* and also after the events that let memory and table diverge: the id is  *)
(* taken under the write lock from a counter that only grows, and whoever  *)
(* has taken one has executed its statement before the lock is free again. *)
(***************************************************************************)

(* Statements, executed or planned, are well formed.                       *)
StatementsTyped ==
  /\ written \in [Conns -> Seq(Statement)]
  /\ todo \in [Threads -> Seq(Statement)]
  /\ call \in [Threads -> Operations \cup {NoCall}]
  /\ maxSerial \in Nat

OnlyWriterExecutes == \A t \in Threads : todo[t] # <<>> => writer = t

(* An added id has been the counter once ...                               *)
SerialsCounted ==
  \A c \in Conns : \A k \in Added(c) : written[c][k].id \in 1 .. maxSerial

(* ... and the one about to be added is, and nobody has used it.           *)
NextIsFresh ==
  \A t \in Threads : \A k \in DOMAIN todo[t] : todo[t][k].kind = "add" =>
    /\ Len(todo[t]) = 1
    /\ todo[t][k].id = maxSerial /\ maxSerial > 0
    /\ \A c \in Conns : \A l \in Added(c) : written[c][l].id # maxSerial

SerialInv ==
  /\ StatementsTyped /\ OnlyWriterExecutes /\ SerialsCounted /\ NextIsFresh
  /\ AddedIdsDistinct
-------------------------------------------------------------------------------
(* A set of numbers has a least one, which is how the proofs go by         *)
(* induction: the least number for which something fails.                  *)
LEMMA LeastOne ==
  ASSUME NEW S \in SUBSET Nat, S # {}
  PROVE  \E k \in S : \A j \in S : ~(j < k)
<1>1. \E k \in S : \A j \in S : <<j, k>> \notin OpToRel(<, Nat)
  BY WFMin, NatLessThanWellFounded, Zenon
<1>2. \A j, k \in Nat : j < k => <<j, k>> \in OpToRel(<, Nat)
  BY DEF OpToRel
<1>3. QED
  BY <1>1, <1>2

(* A finite set of numbers has a greatest one: take the first prefix of an *)
(* enumeration of it without one.                                          *)
LEMMA GreatestOne ==
  ASSUME NEW S \in SUBSET Nat, IsFiniteSet(S), S # {}
  PROVE  \E x \in S : \A y \in S : x >= y
<1> DEFINE n == Cardinality(S)
<1>0. n \in Nat
  BY FS_CardinalityType
<1>1. PICK f \in [1 .. n -> S] : \A x \in S : \E i \in 1 .. n : f[i] = x
  BY FS_CardinalityType DEF ExistsBijection, Bijection, Surjection
<1> HIDE DEF n
<1> USE <1>0
<1>2. \A j \in 1 .. n : f[j] \in Nat
  OBVIOUS
<1> DEFINE Greatest(k) == \E i \in 1 .. k : \A j \in 1 .. k : f[i] >= f[j]
           Without == {k \in 1 .. n : ~Greatest(k)}
<1>3. n # 0
  <2>1. PICK x \in S : TRUE
    OBVIOUS
  <2>2. PICK i \in 1 .. n : f[i] = x
    BY <1>1, <2>1
  <2>3. QED
    BY <2>2
<1>4. Without = {}
  <2> SUFFICES ASSUME Without # {} PROVE FALSE
    OBVIOUS
  <2>0. Without \subseteq Nat
    OBVIOUS
  <2>1. PICK k \in Without : \A j \in Without : ~(j < k)
    <3> HIDE DEF Without
    <3>1. QED
      BY <2>0, LeastOne
  <2>2. k \in 1 .. n /\ ~Greatest(k)
    OBVIOUS
  <2>3. f[k] \in Nat /\ \A j \in 1 .. (k - 1) : f[j] \in Nat
    <3>1. k \in 1 .. n /\ \A j \in 1 .. (k - 1) : j \in 1 .. n
      BY <2>2
    <3>2. QED
      BY <1>2, <3>1
  <2>4. Greatest(k - 1)
    <3>1. k # 1
      <4>1. k = 1 => 1 \in 1 .. k /\ \A j \in 1 .. k : j = 1
        BY <2>2
      <4>2. k = 1 => \A j \in 1 .. k : f[1] >= f[j]
        BY <2>3, <4>1
      <4>3. QED
        BY <2>2, <4>1, <4>2
    <3>2. k - 1 \in 1 .. n /\ k - 1 < k
      BY <2>2, <3>1
    <3>3. QED
      BY <2>1, <3>2
  <2>5. PICK i \in 1 .. (k - 1) : \A j \in 1 .. (k - 1) : f[i] >= f[j]
    BY <2>4
  <2>6. /\ i \in 1 .. k /\ k \in 1 .. k /\ f[i] \in Nat
        /\ \A j \in 1 .. k : j \in 1 .. (k - 1) \/ j = k
    BY <2>2, <2>3, <2>5
  <2>7. CASE f[i] >= f[k]
    <3>1. \A j \in 1 .. k : f[i] >= f[j]
      BY <2>5, <2>6, <2>7
    <3>2. QED
      BY <2>2, <2>6, <3>1
  <2>8. CASE f[k] >= f[i]
    <3>1. \A j \in 1 .. k : f[k] >= f[j]
      <4>1. \A j \in 1 .. (k - 1) : f[k] >= f[j]
        BY <2>3, <2>5, <2>6, <2>8
      <4>2. f[k] >= f[k]
        BY <2>3
      <4>3. QED
        BY <2>6, <4>1, <4>2
    <3>2. QED
      BY <2>2, <2>6, <3>1
  <2>9. QED
    BY <2>3, <2>6, <2>7, <2>8
<1>5. Greatest(n)
  <2>1. n \in 1 .. n
    BY <1>3
  <2>2. QED
    BY <1>4, <2>1
<1>6. PICK i \in 1 .. n : \A j \in 1 .. n : f[i] >= f[j]
  BY <1>5
<1>7. \A y \in S : f[i] >= y
  BY <1>1, <1>6
<1>8. QED
  BY <1>6, <1>7

(* The serial is beyond the counter.                                       *)
LEMMA SerialGrows ==
  ASSUME maxSerial \in Nat, NEW c
  PROVE  NextSerial(c) \in Nat /\ NextSerial(c) > maxSerial
<1> DEFINE rows == ApplyAll(db, written[c])
           ids == {i \in Ids : rows[i] # NoRow} \cup {Root}
<1>1. IsFiniteSet(ids) /\ ids \subseteq Nat /\ ids # {}
  <2> DEFINE used == {i \in Ids : rows[i] # NoRow}
  <2>1. used \subseteq Ids /\ IsFiniteSet(Ids) /\ Ids \subseteq Nat
    BY SettingAssumption
  <2>2. IsFiniteSet(used)
    <3> HIDE DEF used
    <3>1. QED
      BY <2>1, FS_Subset
  <2>3. ids = used \cup {Root} /\ Root \in Nat
    BY DEF Root
  <2> HIDE DEF used, ids
  <2>4. IsFiniteSet(ids)
    BY <2>2, <2>3, FS_AddElement
  <2>5. QED
    BY <2>1, <2>3, <2>4
<1> HIDE DEF ids
<1>2. Max(ids) \in Nat
  <2>1. \E x \in ids : \A y \in ids : x >= y
    BY <1>1, GreatestOne
  <2>2. Max(ids) \in ids
    BY <2>1 DEF Max
  <2>3. QED
    BY <1>1, <2>2
<1>3. MaxId(rows) = Max(ids)
  BY DEF MaxId, ids
<1>4. QED
  BY <1>2, <1>3 DEF NextSerial
-------------------------------------------------------------------------------
(* The statements of an operation: one that adds, or several that do not.  *)

LEMMA UnderIds == \A start : Under(start) \subseteq Ids
BY DEF Under

(* A permutation of some ids is a sequence of them.                        *)
LEMMA Listed ==
  ASSUME NEW ids \in SUBSET Ids, NEW q \in SetToSeqs(ids)
  PROVE  q \in [1 .. Cardinality(ids) -> ids] /\ Cardinality(ids) \in Nat
<1>1. Cardinality(ids) \in Nat
  BY SettingAssumption, FS_Subset, FS_CardinalityType
<1>2. QED
  BY <1>1 DEF SetToSeqs

NoneAdds(plan) == \A k \in DOMAIN plan : plan[k].kind # "add"

LEMMA PlanShape ==
  ASSUME NEW c, NEW o \in Operations, NEW plan \in Plans(c, o), plan # <<>>,
         o.op = "add" => NextSerial(c) \in Ids
  PROVE  /\ plan \in Seq(Statement)
         /\ o.op = "add" => Len(plan) = 1 /\ plan[1].kind = "add" /\ plan[1].id = NextSerial(c)
         /\ o.op # "add" => NoneAdds(plan)
<1>1. /\ o \in Operation
      /\ o.op = "setName" => "name" \in Fields
      /\ o.op = "setValues" => "value" \in Fields
  <2>1. o \in Operation
    BY OperationAssumption
  <2>2. o.op = "setName" => "name" \in Fields
    BY OperationAssumption, Zenon
  <2>3. o.op = "setValues" => "value" \in Fields
    BY OperationAssumption, Zenon
  <2>4. QED
    BY <2>1, <2>2, <2>3
<1>2. CASE o.op = "setValues"
  <2> DEFINE ids == DOMAIN o.values \cap Visible
  <2>1. PICK q \in SetToSeqs(ids) :
          plan = [n \in DOMAIN q |-> [kind |-> "set", id |-> q[n], field |-> "value",
                                      value |-> o.values[q[n]]]]
    BY <1>2 DEF Plans
  <2>2. ids \subseteq Ids /\ \A i \in ids : o.values[i] \in Values
    BY <1>1, <1>2, UnderIds DEF Operation, Visible
  <2> HIDE DEF ids
  <2>3. q \in [1 .. Cardinality(ids) -> ids] /\ Cardinality(ids) \in Nat
    BY <2>1, <2>2, Listed
  <2>4. \A n \in DOMAIN q : plan[n] \in Statement /\ plan[n].kind = "set"
    BY <1>1, <1>2, <2>1, <2>2, <2>3 DEF Statement
  <2>5. DOMAIN plan = 1 .. Cardinality(ids) /\ DOMAIN plan = DOMAIN q
    BY <2>1, <2>3
  <2>6. plan \in [1 .. Cardinality(ids) -> Statement]
    BY <2>1, <2>4, <2>5
  <2>7. QED
    BY <1>2, <2>3, <2>4, <2>5, <2>6 DEF NoneAdds
<1>3. ASSUME o.op \in {"remove", "removeChildren"}
      PROVE  plan \in Seq(Statement) /\ NoneAdds(plan)
  <2>1. PICK ids \in SUBSET Ids : plan \in Deletions(ids)
    <3>1. CASE o.op = "remove" /\ o.id \in Visible
      BY <3>1, UnderIds DEF Plans
    <3>2. CASE o.op = "removeChildren" /\ o.id \in Visible
      BY <3>2, UnderIds DEF Plans
    <3>3. CASE o.id \notin Visible
      BY <1>3, <3>3 DEF Plans
    <3>4. QED
      BY <1>3, <3>1, <3>2, <3>3
  <2>2. PICK q \in SetToSeqs(ids) : plan = [n \in DOMAIN q |-> [kind |-> "remove", id |-> q[n]]]
    BY <2>1 DEF Deletions
  <2>3. q \in [1 .. Cardinality(ids) -> ids] /\ Cardinality(ids) \in Nat
    BY <2>2, Listed
  <2>4. \A n \in DOMAIN q : plan[n] \in Statement /\ plan[n].kind = "remove"
    BY <2>1, <2>2, <2>3 DEF Statement
  <2>5. DOMAIN plan = 1 .. Cardinality(ids) /\ DOMAIN plan = DOMAIN q
    BY <2>2, <2>3
  <2>6. plan \in [1 .. Cardinality(ids) -> Statement]
    BY <2>2, <2>4, <2>5
  <2>7. QED
    BY <2>3, <2>4, <2>5, <2>6 DEF NoneAdds
<1>4. CASE o.op = "setName"
  <2>1. o.id \in Ids /\ o.name \in Values
    BY <1>1, <1>4 DEF Operation
  <2>2. plan = <<[kind |-> "set", id |-> o.id, field |-> "name", value |-> o.name]>>
    BY <1>4 DEF Plans
  <2>3. QED
    BY <1>1, <1>4, <2>1, <2>2 DEF Statement, NoneAdds
<1>5. CASE o.op = "add"
  <2>1. o.id \in Ids \cup {Root} /\ o.text \in Texts
    BY <1>1, <1>5 DEF Operation
  <2>2. plan = <<[kind |-> "add", id |-> NextSerial(c), parent |-> o.id, text |-> o.text]>>
    BY <1>5 DEF Plans
  <2>3. QED
    BY <1>5, <2>1, <2>2 DEF Statement
<1>6. QED
  BY <1>1, <1>2, <1>3, <1>4, <1>5 DEF Operation
-------------------------------------------------------------------------------
LEMMA SerialInit == SettingInit => SerialInv
BY DEF SettingInit, SerialInv, StatementsTyped, OnlyWriterExecutes, SerialsCounted, NextIsFresh,
   AddedIdsDistinct, Added

(* Transactions end and threads give up: nothing is added.                 *)
LEMMA Shrinks ==
  ASSUME SerialInv, maxSerial' = maxSerial,
         call' \in [Threads -> Operations \cup {NoCall}],
         written' \in [Conns -> Seq(Statement)],
         todo' \in [Threads -> Seq(Statement)],
         \A c \in Conns : written'[c] = written[c] \/ written'[c] = <<>>,
         \A t \in Threads : todo'[t] = todo[t] \/ todo'[t] = <<>>,
         writer' = writer \/ \A t \in Threads : todo'[t] = <<>>
  PROVE  SerialInv'
<1>1. StatementsTyped' /\ OnlyWriterExecutes'
  BY DEF SerialInv, StatementsTyped, OnlyWriterExecutes
<1>2. ASSUME NEW c \in Conns, NEW k \in Added(c)'
      PROVE  k \in Added(c) /\ written'[c][k] = written[c][k]
  <2>1. k \in DOMAIN written'[c] /\ written'[c][k].kind = "add"
    BY <1>2 DEF Added
  <2>2. written'[c] = written[c]
    BY <2>1
  <2>3. QED
    BY <2>1, <2>2 DEF Added
<1>3. SerialsCounted'
  BY <1>2 DEF SerialInv, SerialsCounted
<1>4. AddedIdsDistinct'
  BY <1>2 DEF SerialInv, AddedIdsDistinct
<1>5. NextIsFresh'
  <2>1. SUFFICES ASSUME NEW t \in Threads, NEW k \in DOMAIN todo'[t], todo'[t][k].kind = "add"
                 PROVE  /\ Len(todo'[t]) = 1
                        /\ todo'[t][k].id = maxSerial' /\ maxSerial' > 0
                        /\ \A c \in Conns : \A l \in Added(c)' : written'[c][l].id # maxSerial'
    BY DEF NextIsFresh
  <2>2. todo'[t] = todo[t] /\ k \in DOMAIN todo[t]
    BY <2>1
  <2>3. /\ Len(todo[t]) = 1 /\ todo[t][k].id = maxSerial /\ maxSerial > 0
        /\ \A c \in Conns : \A l \in Added(c) : written[c][l].id # maxSerial
    BY <2>1, <2>2 DEF SerialInv, NextIsFresh
  <2>4. QED
    BY <1>2, <2>2, <2>3
<1>6. QED
  BY <1>1, <1>3, <1>4, <1>5 DEF SerialInv

(* An operation takes the lock, and its serial.                            *)
LEMMA LockStep ==
  ASSUME SerialInv, NEW t \in Threads, LockSettings(t)
  PROVE  SerialInv'
<1>1. /\ call[t] \in Operations /\ writer = None /\ UNCHANGED written
      /\ call[t].op = "add" => NextSerial(res[t]) \in Ids
      /\ \A u \in Threads : todo[u] = <<>>
  BY PoolAssumption DEF LockSettings, SerialInv, StatementsTyped, OnlyWriterExecutes
<1>2. PICK plan \in Plans(res[t], call[t]) :
        IF plan = <<>>
        THEN call' = [call EXCEPT ![t] = NoCall] /\ UNCHANGED <<writer, todo, maxSerial>>
        ELSE /\ writer' = t
             /\ todo' = [todo EXCEPT ![t] = plan]
             /\ maxSerial' = IF call[t].op = "add" THEN plan[1].id ELSE maxSerial
             /\ UNCHANGED call
  BY DEF LockSettings
<1>3. CASE plan = <<>>
  BY <1>1, <1>2, <1>3, Shrinks DEF SerialInv, StatementsTyped
<1>4. CASE plan # <<>>
  <2>1. /\ writer' = t /\ todo' = [todo EXCEPT ![t] = plan] /\ call' = call
        /\ maxSerial' = IF call[t].op = "add" THEN plan[1].id ELSE maxSerial
    BY <1>2, <1>4
  <2>2. /\ plan \in Seq(Statement)
        /\ call[t].op = "add" =>
             Len(plan) = 1 /\ plan[1].kind = "add" /\ plan[1].id = NextSerial(res[t])
        /\ call[t].op # "add" => NoneAdds(plan)
    BY <1>1, <1>4, PlanShape DEF SerialInv, StatementsTyped
  <2>3. /\ maxSerial \in Nat /\ maxSerial' \in Nat
        /\ call[t].op = "add" => maxSerial' > maxSerial
        /\ call[t].op # "add" => maxSerial' = maxSerial
    BY <2>1, <2>2, SerialGrows DEF SerialInv, StatementsTyped
  <2>4. StatementsTyped' /\ OnlyWriterExecutes'
    BY <1>1, <2>1, <2>2, <2>3 DEF SerialInv, StatementsTyped, OnlyWriterExecutes
  <2>5. \A c \in Conns : \A k \in Added(c) :
          written[c][k].id \in 1 .. maxSerial /\ written[c][k].id \in 1 .. maxSerial'
    BY <2>3 DEF SerialInv, SerialsCounted
  <2>6. \A c \in Conns : Added(c)' = Added(c)
    BY <1>1 DEF Added
  <2>7. SerialsCounted' /\ AddedIdsDistinct'
    BY <1>1, <2>5, <2>6 DEF SerialInv, SerialsCounted, AddedIdsDistinct
  <2>8. NextIsFresh'
    <3>1. SUFFICES ASSUME NEW u \in Threads, NEW k \in DOMAIN todo'[u], todo'[u][k].kind = "add"
                   PROVE  /\ Len(todo'[u]) = 1
                          /\ todo'[u][k].id = maxSerial' /\ maxSerial' > 0
                          /\ \A c \in Conns : \A l \in Added(c)' : written'[c][l].id # maxSerial'
      BY DEF NextIsFresh
    <3>2. u = t /\ todo'[u] = plan /\ k \in DOMAIN plan
      BY <1>1, <2>1, <3>1 DEF SerialInv, StatementsTyped
    <3>3. call[t].op = "add"
      BY <2>2, <3>1, <3>2 DEF NoneAdds
    <3>4. Len(plan) = 1 /\ k = 1
      BY <2>2, <3>2, <3>3
    <3>5. maxSerial' = plan[1].id /\ maxSerial' > maxSerial
      BY <2>1, <2>3, <3>3
    <3>6. \A c \in Conns : \A l \in Added(c)' : written'[c][l].id # maxSerial'
      BY <1>1, <2>3, <2>5, <2>6, <3>5
    <3>7. QED
      BY <2>3, <3>2, <3>4, <3>5, <3>6
  <2>9. QED
    BY <2>4, <2>7, <2>8 DEF SerialInv
<1>5. QED
  BY <1>3, <1>4

(* A statement is executed: if it adds, with the number nobody has used.   *)
LEMMA ExecuteStep ==
  ASSUME SerialInv, NEW t \in Threads, res[t] \in Conns, Execute(t)
  PROVE  SerialInv'
<1> DEFINE c == res[t]
           s == Head(todo[t])
<1>1. /\ writer = t /\ todo[t] \in Seq(Statement) /\ todo[t] # <<>>
      /\ written' = [written EXCEPT ![c] = Append(@, s)]
      /\ todo' = [todo EXCEPT ![t] = Tail(@)]
      /\ maxSerial' = maxSerial
      /\ \/ writer' = writer /\ call' = call
         \/ Tail(todo[t]) = <<>> /\ call' = [call EXCEPT ![t] = NoCall]
  BY DEF Execute, Unlock, SerialInv, StatementsTyped
<1>2. /\ s \in Statement /\ s = todo[t][1] /\ Tail(todo[t]) \in Seq(Statement)
      /\ 1 \in DOMAIN todo[t] /\ Len(Tail(todo[t])) = Len(todo[t]) - 1
      /\ \A k \in DOMAIN Tail(todo[t]) : k + 1 \in DOMAIN todo[t] /\ Tail(todo[t])[k] = todo[t][k + 1]
  BY <1>1
<1>3. \A u \in Threads \ {t} : todo[u] = <<>> /\ todo'[u] = <<>>
  BY <1>1 DEF SerialInv, OnlyWriterExecutes, StatementsTyped
<1>4. todo'[t] = Tail(todo[t])
  BY <1>1 DEF SerialInv, StatementsTyped
<1>5. StatementsTyped' /\ OnlyWriterExecutes'
  <2>1. StatementsTyped'
    <3>1. written \in [Conns -> Seq(Statement)] /\ todo \in [Threads -> Seq(Statement)]
      BY DEF SerialInv, StatementsTyped
    <3>2. Append(written[c], s) \in Seq(Statement)
      BY <1>2, <3>1
    <3>3. written' \in [Conns -> Seq(Statement)]
      BY <1>1, <3>1, <3>2
    <3>4. todo' \in [Threads -> Seq(Statement)]
      BY <1>1, <1>2, <3>1
    <3>5. call' \in [Threads -> Operations \cup {NoCall}] /\ maxSerial' \in Nat
      BY <1>1 DEF SerialInv, StatementsTyped
    <3>6. QED
      BY <3>3, <3>4, <3>5 DEF StatementsTyped
  <2>2. writer' = t \/ todo'[t] = <<>>
    <3>1. writer = t /\ (writer' = writer \/ Tail(todo[t]) = <<>>)
      BY <1>1
    <3>2. QED
      BY <1>4, <3>1
  <2>3. OnlyWriterExecutes'
    BY <1>3, <2>2 DEF OnlyWriterExecutes
  <2>4. QED
    BY <2>1, <2>3
<1> DEFINE last == Len(written[c]) + 1
<1>6. /\ written[c] \in Seq(Statement) /\ written'[c] = Append(written[c], s)
      /\ DOMAIN written[c] = 1 .. Len(written[c]) /\ Len(written[c]) \in Nat
      /\ \A d \in Conns \ {c} : written'[d] = written[d]
  BY <1>1 DEF SerialInv, StatementsTyped
<1>7. /\ written'[c][last] = s
      /\ \A k \in DOMAIN written'[c] :
           k = last \/ (k \in DOMAIN written[c] /\ written'[c][k] = written[c][k])
  BY <1>2, <1>6
<1>8. \A d \in Conns : \A k \in Added(d)' :
        \/ k \in Added(d) /\ written'[d][k] = written[d][k]
        \/ d = c /\ k = last /\ s.kind = "add" /\ written'[d][k] = s
  BY <1>6, <1>7 DEF Added
<1>9. s.kind = "add" => /\ Len(todo[t]) = 1 /\ s.id = maxSerial /\ maxSerial > 0
                        /\ \A d \in Conns : \A l \in Added(d) : written[d][l].id # s.id
  BY <1>2 DEF SerialInv, NextIsFresh
<1> HIDE DEF s, last, c
<1>10. SerialsCounted'
  <2>1. SUFFICES ASSUME NEW d \in Conns, NEW k \in Added(d)'
                 PROVE  written'[d][k].id \in 1 .. maxSerial
    BY <1>1 DEF SerialsCounted
  <2>2. CASE k \in Added(d) /\ written'[d][k] = written[d][k]
    BY <2>2 DEF SerialInv, SerialsCounted
  <2>3. CASE s.kind = "add" /\ written'[d][k] = s
    BY <1>9, <2>3 DEF SerialInv, StatementsTyped
  <2>4. QED
    BY <1>8, <2>2, <2>3
<1>11. AddedIdsDistinct'
  BY <1>8, <1>9 DEF SerialInv, AddedIdsDistinct
<1>12. NextIsFresh'
  <2>1. SUFFICES ASSUME NEW u \in Threads, NEW k \in DOMAIN todo'[u], todo'[u][k].kind = "add"
                 PROVE  FALSE
    BY DEF NextIsFresh
  <2>2. u = t /\ k \in DOMAIN Tail(todo[t])
    <3>1. u # t => DOMAIN todo'[u] = {}
      BY <1>3
    <3>2. u = t
      BY <2>1, <3>1
    <3>3. QED
      BY <1>4, <2>1, <3>2
  <2>3. k + 1 \in DOMAIN todo[t] /\ todo[t][k + 1].kind = "add"
    BY <1>2, <1>4, <2>1, <2>2
  <2>4. Len(todo[t]) = 1
    BY <2>3 DEF SerialInv, NextIsFresh
  <2>5. QED
    BY <1>1, <1>2, <2>2, <2>4
<1>13. QED
  BY <1>5, <1>10, <1>11, <1>12 DEF SerialInv
-------------------------------------------------------------------------------
(* All other steps add nothing.                                            *)

LEMMA OtherSteps ==
  ASSUME SerialInv, NEW t \in Threads, ThreadStep(t), ~LockSettings(t), ~Execute(t)
  PROVE  SerialInv'
<1> DEFINE Ends == \/ UNCHANGED written
                   \/ \E c : written' = [written EXCEPT ![c] = <<>>]
<1>1. CASE \E o \in Operations : CallSettings(t, o)
  BY <1>1, Shrinks DEF CallSettings, SerialInv, StatementsTyped
<1>2. CASE ExecuteFails(t)
  <2>1. /\ writer = t /\ UNCHANGED <<written, maxSerial>>
        /\ todo' = [todo EXCEPT ![t] = <<>>] /\ call' = [call EXCEPT ![t] = NoCall]
    BY <1>2 DEF ExecuteFails, Unlock
  <2>2. \A u \in Threads : todo'[u] = <<>>
    BY <2>1 DEF SerialInv, OnlyWriterExecutes, StatementsTyped
  <2>3. QED
    BY <2>1, <2>2, Shrinks DEF SerialInv, StatementsTyped
<1>3. CASE \/ Quiet(BeginRequest(t)) \/ Quiet(EnterOpen(t))
           \/ OfBody(t, CallOpen(t)) \/ OfBody(t, Return(t)) \/ OfBody(t, Throw(t))
           \/ \E c \in Conns : Quiet(SkipLocked(t, c)) \/ Quiet(FindFree(t, c))
           \/ Quiet(Retry(t)) \/ Quiet(GiveUp(t)) \/ Quiet(CloseNothing(t))
           \/ Quiet(Free(t)) \/ Quiet(FreeFailed(t)) \/ Quiet(AbortNothing(t)) \/ Flush(t)
  <2>1. UNCHANGED <<written, maxSerial, writer, call, todo>>
    BY <1>3 DEF Quiet, OfBody, settingVars, Flush
  <2>2. QED
    BY <2>1, Shrinks DEF SerialInv, StatementsTyped
<1>4. CASE \/ \E reconnect \in BOOLEAN : Take(t, reconnect)
           \/ FailToReconnect(t) \/ BreakConnection(t) \/ CommitInBody(t)
           \/ CommitInBodyRejected(t) \/ Commit(t) \/ CommitRejected(t)
           \/ Rollback(t) \/ RollbackSwallowed(t)
  <2>1. UNCHANGED <<maxSerial, writer, call, todo>>
    BY <1>4 DEF Take, FailToReconnect, BreakConnection, CommitInBody, CommitInBodyRejected,
       Commit, CommitRejected, Rollback, RollbackSwallowed
  <2>2. Ends
    BY <1>4 DEF Take, FailToReconnect, BreakConnection, CommitInBody, CommitInBodyRejected,
       Commit, CommitRejected, CommitWritten, Rollback, RollbackSwallowed, Discard
  <2>3. \A c \in Conns : written'[c] = written[c] \/ written'[c] = <<>>
    BY <2>2 DEF SerialInv, StatementsTyped
  <2>4. written' \in [Conns -> Seq(Statement)]
    <3>1. written \in [Conns -> Seq(Statement)] /\ <<>> \in Seq(Statement)
      BY DEF SerialInv, StatementsTyped
    <3>2. CASE UNCHANGED written
      BY <3>1, <3>2
    <3>3. ASSUME NEW c, written' = [written EXCEPT ![c] = <<>>]
          PROVE  written' \in [Conns -> Seq(Statement)]
      BY <3>1, <3>3
    <3>4. QED
      BY <2>2, <3>2, <3>3
  <2>5. QED
    BY <2>1, <2>3, <2>4, Shrinks DEF SerialInv, StatementsTyped
<1>5. QED
  BY <1>1, <1>2, <1>3, <1>4 DEF ThreadStep

(* The inductive invariant of the serials, on top of that of the settings. *)
THEOREM SerialInvariant == Spec => []SerialInv
<1>1. SettingInv /\ SerialInv /\ [Next]_vars => SerialInv'
  <2> SUFFICES ASSUME SettingInv, SerialInv, [Next]_vars PROVE SerialInv'
    OBVIOUS
  <2>1. ASSUME NEW t \in Threads, ThreadStep(t) PROVE SerialInv'
    <3>1. CASE LockSettings(t)
      BY <3>1, LockStep
    <3>2. CASE Execute(t)
      <4>1. res[t] \in Conns
        BY <3>2 DEF SettingInv, PoolInv, PoolTypeOK, OwnerInv, CallsInBody, Execute
      <4>2. QED
        BY <3>2, <4>1, ExecuteStep
    <3>3. QED
      BY <2>1, <3>1, <3>2, OtherSteps
  <2>2. CASE UNCHANGED vars
    <3>1. UNCHANGED <<written, maxSerial, writer, call, todo>>
      BY <2>2 DEF vars, settingVars
    <3>2. QED
      BY <3>1, Shrinks DEF SerialInv, StatementsTyped
  <2>3. QED
    BY <2>1, <2>2 DEF Next
<1>2. QED
  BY <1>1, SerialInit, SettingInvariant, PTL DEF Spec

(* However transactions interleave, are refused or lost, two of them never *)
(* add a setting with the same id (SettingManager.java:586-604).           *)
THEOREM SerialsDistinct == Spec => []AddedIdsDistinct
BY SerialInvariant, PTL DEF SerialInv
-------------------------------------------------------------------------------
(***************************************************************************)
(* What a list of statements does to the rows.  The fold that ApplyAll is  *)
(* made of is a function g of the sets of positions, chosen by its         *)
(* equation: it has to be shown that there is one.                         *)
(***************************************************************************)

Contents == [Ids -> Row \cup {NoRow}]

Folded(rows, stmts, u, g) ==
  IF u = {} THEN rows ELSE Apply(g[u \ {Max(u)}], stmts[Max(u)])

Folds(rows, stmts, S, g) == g = [u \in SUBSET S |-> Folded(rows, stmts, u, g)]

LEMMA GreatestPlace ==
  ASSUME NEW k \in Nat, NEW u \in SUBSET (1 .. k), u # {}
  PROVE  Max(u) \in u /\ \A y \in u : Max(u) >= y
<1>1. IsFiniteSet(u) /\ u \subseteq Nat
  <2>1. IsFiniteSet(1 .. k)
    BY FS_Interval
  <2>2. IsFiniteSet(u)
    BY <2>1, FS_Subset, Zenon
  <2>3. QED
    BY <2>2
<1>2. \E x \in u : \A y \in u : x >= y
  BY <1>1, GreatestOne
<1>3. QED
  BY <1>2 DEF Max

LEMMA FoldExists ==
  ASSUME NEW rows, NEW stmts, NEW n \in Nat
  PROVE  \E g : Folds(rows, stmts, 1 .. n, g)
<1> DEFINE Has(k) == \E g : Folds(rows, stmts, 1 .. k, g)
           Without == {k \in Nat : ~Has(k)}
<1> SUFFICES ASSUME Without # {} PROVE FALSE
  OBVIOUS
<1>1. PICK k \in Without : \A j \in Without : ~(j < k)
  <2> HIDE DEF Has
  <2>1. QED
    BY LeastOne
<1>2. k \in Nat /\ ~Has(k)
  OBVIOUS
<1>3. CASE k = 0
  <2>1. Folds(rows, stmts, 1 .. 0, [u \in SUBSET (1 .. 0) |-> rows])
    BY DEF Folds, Folded
  <2>2. QED
    BY <1>2, <1>3, <2>1
<1>4. CASE k # 0
  <2>1. PICK g : Folds(rows, stmts, 1 .. (k - 1), g)
    <3>1. k - 1 \in Nat /\ k - 1 < k
      BY <1>2, <1>4
    <3>2. Has(k - 1)
      BY <1>1, <3>1
    <3>3. QED
      BY <3>2
  <2> DEFINE h == [u \in SUBSET (1 .. k) |->
                     IF k \in u THEN Apply(g[u \ {k}], stmts[k]) ELSE g[u]]
  <2>2. ASSUME NEW u \in SUBSET (1 .. k)
        PROVE  h[u] = Folded(rows, stmts, u, h)
    <3>1. \A v \in SUBSET (1 .. k) : k \notin v =>
             /\ v \in SUBSET (1 .. (k - 1))
             /\ h[v] = g[v] /\ g[v] = Folded(rows, stmts, v, g)
      BY <1>2, <2>1 DEF Folds
    <3>2. u # {} => Max(u) \in u /\ \A y \in u : Max(u) >= y
      BY <1>2, GreatestPlace
    <3>3. CASE u = {}
      BY <3>1, <3>3 DEF Folded
    <3>4. CASE k \in u
      <4>1. Max(u) = k
        <5>1. Max(u) \in 1 .. k /\ Max(u) >= k
          BY <3>2, <3>4
        <5>2. QED
          BY <1>2, <5>1
      <4>2. h[u] = Apply(g[u \ {k}], stmts[k]) /\ h[u \ {k}] = g[u \ {k}]
        BY <3>1, <3>4
      <4>3. QED
        BY <3>4, <4>1, <4>2 DEF Folded
    <3>5. CASE u # {} /\ k \notin u
      <4>1. h[u] = Apply(g[u \ {Max(u)}], stmts[Max(u)])
        BY <3>1, <3>5 DEF Folded
      <4>2. h[u \ {Max(u)}] = g[u \ {Max(u)}]
        BY <3>1, <3>5
      <4>3. QED
        BY <3>5, <4>1, <4>2 DEF Folded
    <3>6. QED
      BY <3>3, <3>4, <3>5
  <2>3. h = [u \in SUBSET (1 .. k) |-> h[u]]
    OBVIOUS
  <2> HIDE DEF h
  <2>4. Folds(rows, stmts, 1 .. k, h)
    BY <2>2, <2>3 DEF Folds
  <2>5. QED
    BY <1>2, <2>4
<1>5. QED
  BY <1>3, <1>4

(* One statement, and then all of them, make contents of contents.         *)
LEMMA ApplyTyped ==
  ASSUME NEW rows \in Contents, NEW s \in Statement
  PROVE  Apply(rows, s) \in Contents
<1>1. CASE s.kind = "set" /\ rows[s.id] # NoRow
  <2>1. s.id \in Ids /\ s.value \in Values /\ rows[s.id] \in Row
    BY <1>1 DEF Statement, Contents
  <2>2. [rows[s.id] EXCEPT !.text[s.field] = s.value] \in Row
    BY <2>1 DEF Row, Texts
  <2>3. Apply(rows, s) = [rows EXCEPT ![s.id] = [rows[s.id] EXCEPT !.text[s.field] = s.value]]
    BY <1>1 DEF Apply
  <2>4. QED
    BY <2>2, <2>3 DEF Contents
<1>2. CASE s.kind = "set" /\ rows[s.id] = NoRow
  BY <1>2 DEF Apply
<1>3. CASE s.kind = "add"
  <2>1. [parent |-> s.parent, text |-> s.text] \in Row
    BY <1>3 DEF Statement, Row
  <2>2. Apply(rows, s) = [rows EXCEPT ![s.id] = [parent |-> s.parent, text |-> s.text]]
    BY <1>3 DEF Apply
  <2>3. QED
    BY <2>1, <2>2 DEF Contents
<1>4. CASE s.kind = "remove"
  BY <1>4 DEF Apply, Contents
<1>5. QED
  BY <1>1, <1>2, <1>3, <1>4 DEF Statement

LEMMA ApplyAllTyped ==
  ASSUME NEW rows \in Contents, NEW stmts \in Seq(Statement)
  PROVE  ApplyAll(rows, stmts) \in Contents
<1> SUFFICES ASSUME stmts # <<>> PROVE ApplyAll(rows, stmts) \in Contents
  BY NothingToApply
<1> DEFINE n == Len(stmts)
<1>1. n \in Nat /\ DOMAIN stmts = 1 .. n /\ \A k \in 1 .. n : stmts[k] \in Statement
  OBVIOUS
<1> HIDE DEF n
<1> DEFINE g == CHOOSE g : g = [u \in SUBSET (1 .. n) |-> Folded(rows, stmts, u, g)]
<1>2. ApplyAll(rows, stmts) = g[1 .. n]
  BY <1>1 DEF ApplyAll, FoldLeft, MapThenFoldSet, Folded
<1>3. Folds(rows, stmts, 1 .. n, g)
  BY <1>1, FoldExists DEF Folds
<1> HIDE DEF g
<1> DEFINE Wrong == {k \in Nat : k <= n /\ g[1 .. k] \notin Contents}
<1>4. Wrong = {}
  <2> SUFFICES ASSUME Wrong # {} PROVE FALSE
    OBVIOUS
  <2>1. PICK k \in Wrong : \A j \in Wrong : ~(j < k)
    BY LeastOne
  <2>2. k \in Nat /\ k <= n /\ g[1 .. k] \notin Contents
    OBVIOUS
  <2>3. 1 .. k \in SUBSET (1 .. n)
    BY <1>1, <2>2
  <2>4. g[1 .. k] = Folded(rows, stmts, 1 .. k, g)
    BY <1>3, <2>3 DEF Folds
  <2>5. k # 0
    <3>1. k = 0 => 1 .. k = {}
      OBVIOUS
    <3>2. QED
      BY <2>2, <2>4, <3>1 DEF Folded
  <2>6. Max(1 .. k) = k /\ 1 .. k # {}
    <3>1. k \in 1 .. k
      BY <2>2, <2>5
    <3>2. Max(1 .. k) \in 1 .. k /\ Max(1 .. k) >= k
      BY <2>2, <3>1, GreatestPlace
    <3>3. QED
      BY <2>2, <3>1, <3>2
  <2>7. (1 .. k) \ {k} = 1 .. (k - 1)
    BY <2>2, <2>5
  <2>8. g[1 .. k] = Apply(g[1 .. (k - 1)], stmts[k])
    BY <2>4, <2>6, <2>7 DEF Folded
  <2>9. g[1 .. (k - 1)] \in Contents /\ stmts[k] \in Statement
    BY <1>1, <2>1, <2>2, <2>5
  <2>10. QED
    BY <2>2, <2>8, <2>9, ApplyTyped
<1>5. QED
  BY <1>1, <1>2, <1>4
-------------------------------------------------------------------------------
(* The table, the tree and the tasks hold settings.                        *)
ContentsInv ==
  /\ db \in Contents /\ tree \in Contents
  /\ tasks \in [Conns -> Seq(Statement)]

LEMMA ContentsInit == SettingInit => ContentsInv
BY SettingAssumption DEF SettingInit, ContentsInv, Contents

LEMMA CommittedContents ==
  ASSUME StatementsTyped, ContentsInv, NEW c \in Conns, CommitWritten(c)
  PROVE  db' \in Contents
<1>1. written[c] \in Seq(Statement)
  BY DEF StatementsTyped
<1>2. QED
  BY <1>1, ApplyAllTyped DEF CommitWritten, ContentsInv

LEMMA ContentsStep ==
  ASSUME SettingInv, SerialInv, ContentsInv, NEW t \in Threads, ThreadStep(t)
  PROVE  ContentsInv'
<1>0. res[t] \in Conns \cup {None} /\ (pc[t] \in {"notify", "notifyAbort"} => res[t] \in Conns)
  BY DEF SettingInv, PoolInv, PoolTypeOK, PlaceOK
<1>1. CASE Flush(t)
  <2>1. res[t] \in Conns
    BY <1>0, <1>1 DEF Flush, Notify
  <2>2. tasks[res[t]] \in Seq(Statement) /\ <<>> \in Seq(Statement)
    BY <2>1 DEF ContentsInv
  <2>3. tree' \in Contents
    BY <1>1, <2>2, ApplyAllTyped DEF Flush, ContentsInv
  <2>4. tasks' \in [Conns -> Seq(Statement)]
    BY <1>1, <2>2 DEF Flush, ContentsInv
  <2>5. QED
    BY <1>1, <2>3, <2>4 DEF Flush, ContentsInv
<1>2. CASE Execute(t)
  <2>1. res[t] \in Conns
    BY <1>2 DEF Execute, SettingInv, OwnerInv, CallsInBody, PoolInv, PoolTypeOK
  <2>2. Head(todo[t]) \in Statement
    BY <1>2 DEF Execute, SerialInv, StatementsTyped
  <2>3. Append(tasks[res[t]], Head(todo[t])) \in Seq(Statement)
    BY <2>1, <2>2 DEF ContentsInv
  <2>4. QED
    BY <1>2, <2>1, <2>3 DEF Execute, ContentsInv
<1>3. CASE Commit(t) \/ CommitInBody(t)
  <2>1. res[t] \in Conns /\ CommitWritten(res[t]) /\ UNCHANGED <<tree, tasks>>
    BY <1>0, <1>3 DEF Commit, CommitOk, CommitInBody
  <2>2. QED
    BY <2>1, CommittedContents DEF SerialInv, ContentsInv
<1>4. CASE ~Flush(t) /\ ~Execute(t) /\ ~Commit(t) /\ ~CommitInBody(t)
  <2>1. UNCHANGED <<db, tree, tasks>>
    BY <1>4 DEF ThreadStep, Quiet, OfBody, settingVars, Take, FailToReconnect, CallSettings,
       LockSettings, ExecuteFails, BreakConnection, CommitInBodyRejected, CommitRejected,
       Rollback, RollbackSwallowed
  <2>2. QED
    BY <2>1 DEF ContentsInv
<1>5. QED
  BY <1>1, <1>2, <1>3, <1>4

ContractInv == SettingInv /\ SerialInv /\ ContentsInv

LEMMA ContractInvariant == Spec => []ContractInv
<1>1. SettingInv /\ SerialInv /\ ContentsInv /\ [Next]_vars => ContentsInv'
  BY ContentsStep DEF Next, vars, settingVars, ContentsInv
<1>2. QED
  BY <1>1, ContentsInit, SettingInvariant, SerialInvariant, PTL DEF Spec, ContractInv
-------------------------------------------------------------------------------
(***************************************************************************)
(* Type correctness, which needs the invariants above: the table and the   *)
(* tree hold rows because statements are well formed, and these are because*)
(* a plan is made of visible settings, or of a serial.                     *)
(***************************************************************************)

LostIds == lost \in [Conns -> SUBSET Ids]
SerialBounded == maxSerial \in Ids \cup {0}
WriterExecutes == \A t \in Threads : writer = t => todo[t] # <<>>
TypesInv == LostIds /\ SerialBounded /\ WriterExecutes

LEMMA TypesInit == SettingInit => TypesInv
BY PoolAssumption DEF SettingInit, TypesInv, LostIds, SerialBounded, WriterExecutes

(* A commit tells the other transactions ids of settings.                  *)
LEMMA WrittenIds ==
  ASSUME StatementsTyped, NEW c \in Conns
  PROVE  WrittenBy(c) \subseteq Ids
<1>1. written[c] \in Seq(Statement) /\ \A s \in Statement : s.id \in Ids
  BY DEF StatementsTyped, Statement
<1>2. \A s \in ToSet(written[c]) : s \in Statement
  BY <1>1 DEF ToSet
<1>3. QED
  BY <1>1, <1>2 DEF WrittenBy

LEMMA TypesStep ==
  ASSUME ContractInv, TypesInv, NEW t \in Threads, ThreadStep(t)
  PROVE  TypesInv'
<1>0. /\ res[t] \in Conns \cup {None} /\ StatementsTyped /\ OnlyWriterExecutes
      /\ DOMAIN todo = Threads
  BY DEF ContractInv, SettingInv, SerialInv, PoolInv, PoolTypeOK, StatementsTyped
<1>1. CASE LockSettings(t)
  <2>1. PICK plan \in Plans(res[t], call[t]) :
          IF plan = <<>>
          THEN call' = [call EXCEPT ![t] = NoCall] /\ UNCHANGED <<writer, todo, maxSerial>>
          ELSE /\ writer' = t
               /\ todo' = [todo EXCEPT ![t] = plan]
               /\ maxSerial' = IF call[t].op = "add" THEN plan[1].id ELSE maxSerial
               /\ UNCHANGED call
    BY <1>1 DEF LockSettings
  <2>2. UNCHANGED lost
    BY <1>1 DEF LockSettings
  <2>3. CASE plan = <<>>
    BY <2>1, <2>2, <2>3 DEF TypesInv, LostIds, SerialBounded, WriterExecutes
  <2>4. CASE plan # <<>>
    <3>1. call[t] \in Operations /\ (call[t].op = "add" => NextSerial(res[t]) \in Ids)
      BY <1>0, <1>1 DEF LockSettings, StatementsTyped
    <3>2. call[t].op = "add" => plan[1].id = NextSerial(res[t])
      BY <2>1, <2>4, <3>1, PlanShape
    <3>3. SerialBounded'
      BY <2>1, <2>4, <3>1, <3>2 DEF TypesInv, SerialBounded
    <3>4. WriterExecutes'
      BY <1>0, <2>1, <2>4 DEF WriterExecutes
    <3>5. QED
      BY <2>2, <3>3, <3>4 DEF TypesInv, LostIds
  <2>5. QED
    BY <2>3, <2>4
<1>2. CASE Execute(t)
  <2>1. /\ UNCHANGED <<lost, maxSerial>> /\ writer = t
        /\ todo' = [todo EXCEPT ![t] = Tail(@)]
        /\ IF Tail(todo[t]) = <<>> THEN writer' = None ELSE writer' = writer
    BY <1>2 DEF Execute, Unlock
  <2>2. WriterExecutes'
    BY <1>0, <2>1, PoolAssumption DEF WriterExecutes
  <2>3. QED
    BY <2>1, <2>2 DEF TypesInv, LostIds, SerialBounded
<1>3. CASE ExecuteFails(t)
  <2>1. UNCHANGED <<lost, maxSerial>> /\ writer' = None
    BY <1>3 DEF ExecuteFails, Unlock
  <2>2. QED
    BY <2>1, PoolAssumption DEF TypesInv, LostIds, SerialBounded, WriterExecutes
<1>4. CASE \/ \E reconnect \in BOOLEAN : Take(t, reconnect)
           \/ FailToReconnect(t) \/ BreakConnection(t) \/ CommitInBodyRejected(t)
           \/ CommitRejected(t) \/ Rollback(t) \/ RollbackSwallowed(t)
  <2>1. UNCHANGED <<maxSerial, writer, todo>>
    BY <1>4 DEF Take, FailToReconnect, BreakConnection, CommitInBodyRejected, CommitRejected,
       Rollback, RollbackSwallowed
  <2>2. UNCHANGED lost \/ \E c : lost' = [lost EXCEPT ![c] = {}]
    BY <1>4 DEF Take, FailToReconnect, BreakConnection, CommitInBodyRejected, CommitRejected,
       Rollback, RollbackSwallowed, Discard
  <2>3. LostIds'
    BY <2>2 DEF TypesInv, LostIds
  <2>4. QED
    BY <2>1, <2>3 DEF TypesInv, SerialBounded, WriterExecutes
<1>5. CASE Commit(t) \/ CommitInBody(t)
  <2>1. CommitWritten(res[t]) /\ UNCHANGED <<maxSerial, writer, todo>>
    BY <1>5 DEF Commit, CommitInBody
  <2>2. res[t] \in Conns
    BY <1>0, <1>5 DEF Commit, CommitOk, CommitInBody
  <2>3. LostIds'
    BY <1>0, <2>1, <2>2, WrittenIds DEF CommitWritten, TypesInv, LostIds
  <2>4. QED
    BY <2>1, <2>3 DEF TypesInv, SerialBounded, WriterExecutes
<1>6. CASE \/ Quiet(BeginRequest(t)) \/ Quiet(EnterOpen(t))
           \/ OfBody(t, CallOpen(t)) \/ OfBody(t, Return(t)) \/ OfBody(t, Throw(t))
           \/ \E c \in Conns : Quiet(SkipLocked(t, c)) \/ Quiet(FindFree(t, c))
           \/ Quiet(Retry(t)) \/ Quiet(GiveUp(t)) \/ Quiet(CloseNothing(t))
           \/ Quiet(Free(t)) \/ Quiet(FreeFailed(t)) \/ Quiet(AbortNothing(t)) \/ Flush(t)
           \/ \E o \in Operations : CallSettings(t, o)
  <2>1. UNCHANGED <<lost, maxSerial, writer, todo>>
    BY <1>6 DEF Quiet, OfBody, settingVars, Flush, CallSettings
  <2>2. QED
    BY <2>1 DEF TypesInv, LostIds, SerialBounded, WriterExecutes
<1>7. QED
  BY <1>1, <1>2, <1>3, <1>4, <1>5, <1>6 DEF ThreadStep

(* Type correctness of the settings, with their table, the transactions    *)
(* and the tasks, whatever races or fails.                                 *)
THEOREM SettingTypes == Spec => []SettingTypeOK
<1>1. ContractInv /\ TypesInv /\ [Next]_vars => TypesInv'
  BY TypesStep DEF Next, vars, settingVars, TypesInv, LostIds, SerialBounded, WriterExecutes
<1>2. ContractInv /\ TypesInv => SettingTypeOK
  <2> SUFFICES ASSUME ContractInv, TypesInv PROVE SettingTypeOK
    OBVIOUS
  <2> USE DEF ContractInv, SettingInv, SerialInv, TypesInv
  <2>1. PoolTypeOK
    BY DEF PoolInv
  <2>2. \A i \in Ids : db[i] \in Row \cup {NoRow} /\ tree[i] \in Row \cup {NoRow}
    BY DEF ContentsInv, Contents
  <2>3. \A c \in Conns : /\ written[c] \in Seq(Statement) /\ lost[c] \subseteq Ids
                         /\ tasks[c] \in Seq(Statement) /\ fates[c] \subseteq Fate
    BY DEF StatementsTyped, LostIds, ContentsInv, OwnerInv, Shape
  <2>4. maxSerial \in Ids \cup {0} /\ writer \in Threads \cup {None}
    BY DEF SerialBounded, OwnerInv, Shape
  <2>5. \A t \in Threads : call[t] \in Operations \cup {NoCall} /\ todo[t] \in Seq(Statement)
    BY DEF StatementsTyped
  <2>6. \A t \in Threads : (todo[t] # <<>>) = (writer = t)
    BY DEF OnlyWriterExecutes, WriterExecutes
  <2>7. QED
    BY <2>1, <2>2, <2>3, <2>4, <2>5, <2>6 DEF SettingTypeOK
<1>3. QED
  BY <1>1, <1>2, TypesInit, ContractInvariant, PTL DEF Spec
-------------------------------------------------------------------------------
(* The refinement: a commit that wrote something makes a version, the      *)
(* flush of its tasks publishes it, and every other step leaves table and  *)
(* tree as they are.                                                       *)

LEMMA StepOfContract ==
  ASSUME ContractInv, NEW t \in Threads, ThreadStep(t), ~raced'
  PROVE  Contract!CommitVersion \/ Contract!Publish \/ UNCHANGED <<db, tree>>
<1>0. /\ ~raced /\ MemoryFollowsDb
      /\ res[t] \in Conns \cup {None} /\ (pc[t] \in {"notify", "notifyAbort"} => res[t] \in Conns)
  BY RacedStays DEF ContractInv, SettingInv, MemoryInv, Unraced, PoolInv, PoolTypeOK, PlaceOK
<1>1. CASE Flush(t)
  <2>1. CASE Behind(t) /\ pc[t] = "notify"
    <3>1. db = ApplyAll(tree, tasks[res[t]])
      BY <1>0, <2>1 DEF MemoryFollowsDb
    <3>2. QED
      BY <1>1, <2>1, <3>1 DEF Flush, Contract!Publish
  <2>2. CASE ~(Behind(t) /\ pc[t] = "notify")
    <3>1. tree' = tree /\ db' = db
      BY <1>1, <2>2, NothingToApply DEF Flush, Behind
    <3>2. QED
      BY <3>1
  <2>3. QED
    BY <2>1, <2>2
<1>2. CASE Commit(t)
  <2>1. res[t] \in Conns /\ CommitWritten(res[t]) /\ tree' = tree
    BY <1>0, <1>2 DEF Commit, CommitOk
  <2>2. CASE written[res[t]] = <<>>
    BY <2>1, <2>2, NothingToApply DEF CommitWritten
  <2>3. CASE written[res[t]] # <<>>
    <3>1. \A u \in Threads : ~Behind(u)
      BY <1>2, <2>3 DEF Commit
    <3>2. db = tree
      BY <1>0, <3>1 DEF MemoryFollowsDb
    <3>3. db' \in Contents
      BY <2>1, CommittedContents DEF ContractInv, SerialInv
    <3>4. QED
      BY <2>1, <3>2, <3>3 DEF Contract!CommitVersion, Contents
  <2>4. QED
    BY <2>2, <2>3
<1>3. CASE CommitInBody(t)
  BY <1>3 DEF CommitInBody
<1>4. CASE ~Flush(t) /\ ~Commit(t) /\ ~CommitInBody(t)
  BY <1>4 DEF ThreadStep, Quiet, OfBody, settingVars, Take, FailToReconnect, CallSettings,
     LockSettings, Execute, ExecuteFails, BreakConnection, CommitInBodyRejected, CommitRejected,
     Rollback, RollbackSwallowed
<1>5. QED
  BY <1>1, <1>2, <1>3, <1>4

(* Whatever the threads, the operations, the faults and the database: as   *)
(* long as none of the five races happens, the settings keep the contract  *)
(* of SettingManager.java:47-53, and the tree shows one committed version  *)
(* after the other, each as a whole and none left out.                     *)
THEOREM ContractUnlessRaced == Spec /\ []~raced => ImplementsContract
<1>1. SettingInit => Contract!InitSettings
  BY SettingAssumption DEF SettingInit, Contract!InitSettings
<1>2. /\ ContractInv /\ [Next]_vars /\ (~raced)'
      => [Contract!CommitVersion \/ Contract!Publish]_<<db, tree>>
  BY StepOfContract DEF Next, vars, settingVars
<1>3. QED
  BY <1>1, <1>2, ContractInvariant, PTL DEF Spec, ImplementsContract, Contract!SettingsContract
-------------------------------------------------------------------------------
(* One request at a time, on a database that checks a statement when it is *)
(* executed, with services that leave the commit to the end of the request *)
(* and connections that do not break: then no race happens.                *)
OneAtATime ==
  /\ \A t, u \in Threads : t = u
  /\ RowLocks /\ ~BodyCommits
  /\ Faults \subseteq {"service", "reconnect"}

(* What an open transaction has written is found in order by its commit.   *)
CommitsOk ==
  ~raced /\ \A t \in Threads : res[t] # None /\ pc[t] \in {"body", "close", "abort"} =>
    /\ ~closed[res[t]]
    /\ written[res[t]] # <<>> => Consistent(db, written[res[t]])

LEMMA CommitsOkStep ==
  ASSUME OneAtATime, ContractInv, CommitsOk, NEW t \in Threads, ThreadStep(t)
  PROVE  CommitsOk'
<1>0. /\ \A u \in Threads : u = t
      /\ ~raced /\ PoolTypeOK /\ PlaceOK /\ Shape /\ Unraced /\ OwnerInv
      /\ locked' \in [Conns -> BOOLEAN]
  BY AnyStepInv, ThreadStepOnPool, StutterInv DEF OneAtATime, CommitsOk, ContractInv, SettingInv,
     OwnerInv, MemoryInv, PoolInv, PoolTypeOK
<1> USE <1>0 DEF OneAtATime, CommitsOk, PoolTypeOK, PlaceOK, Goto, Places
<1>1. CASE \/ Quiet(BeginRequest(t)) \/ Quiet(EnterOpen(t))
           \/ OfBody(t, CallOpen(t)) \/ OfBody(t, Return(t)) \/ OfBody(t, Throw(t))
           \/ Quiet(Retry(t)) \/ Quiet(GiveUp(t))
           \/ Quiet(CloseNothing(t)) \/ Quiet(AbortNothing(t))
  BY <1>1 DEF Quiet, OfBody, settingVars, BeginRequest, EnterOpen, CallOpen, Return, Throw,
     BodyThrows, Retry, GiveUp, CloseNothing, AbortNothing
<1>2. CASE \E c \in Conns : Quiet(SkipLocked(t, c)) \/ Quiet(FindFree(t, c))
  BY <1>2 DEF Quiet, settingVars, SkipLocked, FindFree
<1>3. ASSUME NEW reconnect \in BOOLEAN, Take(t, reconnect)
      PROVE  CommitsOk'
  <2>1. found[t] \in Conns /\ ~locked[found[t]] /\ pc[t] = "found" /\ res[t] = None
    BY <1>3 DEF Take, TakeFree
  <2>2. written[found[t]] = <<>>
    BY <2>1 DEF Unraced, FreeIsClean
  <2>3. res'[t] = found[t] /\ ~closed'[found[t]] /\ written'[found[t]] = <<>>
    BY <1>3, <2>1, <2>2 DEF Take, TakeFree, Discard, Shape
  <2>4. ~raced'
    BY <1>3, <2>1 DEF Take, Notifying
  <2>5. QED
    BY <2>3, <2>4
<1>4. CASE FailToReconnect(t)
  BY <1>4 DEF FailToReconnect, ReconnectFails
<1>5. CASE (\E o \in Operations : CallSettings(t, o)) \/ LockSettings(t)
  BY <1>5 DEF CallSettings, LockSettings, poolVars
<1>6. CASE Execute(t)
  <2>1. /\ res[t] \in Conns /\ pc[t] = "body" /\ UNCHANGED poolVars /\ ~raced' /\ db' = db
        /\ written'[res[t]] = Append(written[res[t]], Head(todo[t]))
        /\ Consistent(db, written'[res[t]])
    BY <1>6 DEF Execute, OwnerInv, CallsInBody, Shape, Accepted
  <2>2. res'[t] = res[t] /\ Consistent(db', written'[res'[t]])
    BY <2>1 DEF poolVars
  <2>3. QED
    BY <2>1, <2>2 DEF poolVars
<1>7. CASE ExecuteFails(t)
  BY <1>7 DEF ExecuteFails, BodyThrows
<1>8. CASE BreakConnection(t) \/ CommitInBody(t) \/ CommitInBodyRejected(t)
  BY <1>8 DEF BreakConnection, Break, CommitInBody, CommitInBodyRejected
<1>9. CASE Commit(t)
  <2>1. pc[t] = "close" /\ pc'[t] = "free"
    BY <1>9 DEF Commit, CommitOk
  <2>2. ~raced'
    BY <1>9, <2>1 DEF Commit, Behind
  <2>3. QED
    BY <2>1, <2>2
<1>10. CASE CommitRejected(t)
  <2>1. pc[t] = "close" /\ pc'[t] = "freeFailed" /\ res[t] # None /\ ~closed[res[t]]
    BY <1>10 DEF CommitRejected, CommitThrows
  <2>2. tasks[res[t]] = written[res[t]]
    BY <2>1 DEF Unraced, TasksAreWritten
  <2>3. written[res[t]] # <<>> => Consistent(db, written[res[t]])
    BY <2>1
  <2>4. written[res[t]] # <<>> => Committable(res[t])
    BY <2>3 DEF Committable
  <2>5. ~ConnectionFails(t)
    BY <2>1 DEF ConnectionFails
  <2>6. ~raced'
    BY <1>10, <2>2, <2>4, <2>5 DEF CommitRejected
  <2>7. QED
    BY <2>1, <2>6
<1>11. CASE Quiet(Free(t)) \/ Quiet(FreeFailed(t))
  BY <1>11 DEF Quiet, settingVars, Free, FreeFailed
<1>12. CASE Flush(t)
  BY <1>12 DEF Flush, Notify
<1>13. CASE Rollback(t)
  BY <1>13 DEF Rollback, RollbackOk
<1>14. CASE RollbackSwallowed(t)
  BY <1>14 DEF RollbackSwallowed, RollbackFails
<1>15. QED
  BY <1>1, <1>2, <1>3, <1>4, <1>5, <1>6, <1>7, <1>8, <1>9, <1>10, <1>11, <1>12, <1>13, <1>14
     DEF ThreadStep

(* One request at a time, the settings keep their contract, whatever the   *)
(* operations and also when services throw and connections cannot be       *)
(* opened again (SettingManager.java:47-53).                               *)
THEOREM ContractOneAtATime == ASSUME OneAtATime PROVE Spec => ImplementsContract
<1>1. SettingInit => CommitsOk
  BY DEF SettingInit, PoolInit, CommitsOk
<1>2. ContractInv /\ CommitsOk /\ [Next]_vars => CommitsOk'
  <2> SUFFICES ASSUME ContractInv, CommitsOk, [Next]_vars PROVE CommitsOk'
    OBVIOUS
  <2>1. CASE UNCHANGED vars
    BY <2>1 DEF vars, settingVars, poolVars, CommitsOk, Consistent, PrimaryKeyOk, ForeignKeysOk
  <2>2. QED
    BY <2>1, CommitsOkStep DEF Next
<1>3. CommitsOk => ~raced
  BY DEF CommitsOk
<1>4. QED
  BY <1>1, <1>2, <1>3, ContractInvariant, ContractUnlessRaced, PTL DEF Spec
===============================================================================
