---------------------------- MODULE DbmsPool_proofs ----------------------------
(***************************************************************************)
(* Proofs about the connection pool, for any number of threads and         *)
(* connections, any maxTries and any set of faults.                        *)
(***************************************************************************)
EXTENDS DbmsPool, TLAPS

(* What a thread's place says about the rest of its state.  The code keeps *)
(* it by its control flow: only a thread inside open() holds the monitor,  *)
(* the enumeration has stopped at a connection only while it is free, and  *)
(* the table of the request is empty until open() returns and filled until *)
(* release() has run.                                                      *)
PlaceOK ==
  /\ \A t \in Threads : pc[t] \in {"scan", "found"} <=> monitor = t
  /\ \A t \in Threads : pc[t] = "found" => found[t] \in Conns /\ ~locked[found[t]]
  /\ \A t \in Threads : pc[t] \in {"idle", "opening", "scan", "found"} => res[t] = None
  /\ \A t \in Threads :
       pc[t] \in {"free", "freeFailed", "freeAbort", "notify", "notifyAbort"} => res[t] \in Conns

(* The inductive invariant. *)
PoolInv ==
  /\ PoolTypeOK
  /\ PlaceOK
  /\ ExclusiveConnection
  /\ ReleaseNeverRefused
  /\ NoConnectionLost
  /\ BodyHasLiveConnection

LEMMA InitInv == PoolInit => PoolInv
  BY PoolAssumption DEF PoolInit, PoolInv, PoolTypeOK, PlaceOK, ExclusiveConnection,
     ReleaseNeverRefused, NoConnectionLost, BodyHasLiveConnection, Uses, Notifying, Places

(* The steps of ServiceStep, whatever makes a body or a commit throw: the   *)
(* clients of the pool have their own reasons.                             *)
AnyStep(t) ==
  \/ BeginRequest(t) \/ CallOpen(t) \/ EnterOpen(t)
  \/ \E c \in Conns : SkipLocked(t, c) \/ FindFree(t, c)
  \/ \E reconnect \in BOOLEAN : TakeFree(t, reconnect)
  \/ ReconnectFails(t) \/ Retry(t) \/ GiveUp(t)
  \/ Return(t) \/ BodyThrows(t) \/ Break(t)
  \/ CloseNothing(t) \/ CommitOk(t) \/ CommitThrows(t)
  \/ Free(t) \/ FreeFailed(t) \/ Notify(t)
  \/ AbortNothing(t) \/ RollbackOk(t) \/ RollbackFails(t)

LEMMA ServiceStepIsAnyStep ==
  ASSUME NEW t \in Threads, ServiceStep(t)
  PROVE  AnyStep(t)
BY DEF ServiceStep, AnyStep, Throw, CommitFails

LEMMA AnyStepInv ==
  ASSUME PoolInv, NEW t \in Threads, AnyStep(t)
  PROVE  PoolInv'
<1> USE PoolAssumption DEF PoolInv, PoolTypeOK, PlaceOK, ExclusiveConnection,
      ReleaseNeverRefused, NoConnectionLost, BodyHasLiveConnection, Uses, Notifying, Places, Goto
<1>1. CASE BeginRequest(t)  BY <1>1 DEF BeginRequest
<1>2. CASE CallOpen(t)  BY <1>2 DEF CallOpen
<1>3. CASE EnterOpen(t)  BY <1>3 DEF EnterOpen
<1>4. CASE \E c \in Conns : SkipLocked(t, c)  BY <1>4 DEF SkipLocked
<1>5. CASE \E c \in Conns : FindFree(t, c)  BY <1>5 DEF FindFree
<1>6. CASE \E reconnect \in BOOLEAN : TakeFree(t, reconnect)  BY <1>6 DEF TakeFree
<1>7. CASE ReconnectFails(t)  BY <1>7 DEF ReconnectFails
<1>8. CASE Retry(t)  BY <1>8 DEF Retry
<1>9. CASE GiveUp(t)  BY <1>9 DEF GiveUp
<1>10. CASE Return(t)  BY <1>10 DEF Return
<1>11. CASE BodyThrows(t)  BY <1>11 DEF BodyThrows
<1>12. CASE Break(t)  BY <1>12 DEF Break
<1>13. CASE CloseNothing(t)  BY <1>13 DEF CloseNothing
<1>14. CASE CommitOk(t)  BY <1>14 DEF CommitOk
<1>15. CASE CommitThrows(t)  BY <1>15 DEF CommitThrows
<1>16. CASE Free(t)  BY <1>16 DEF Free
<1>17. CASE FreeFailed(t)  BY <1>17 DEF FreeFailed
<1>18. CASE Notify(t)  BY <1>18 DEF Notify
<1>19. CASE AbortNothing(t)  BY <1>19 DEF AbortNothing
<1>20. CASE RollbackOk(t)  BY <1>20 DEF RollbackOk
<1>21. CASE RollbackFails(t)  BY <1>21 DEF RollbackFails
<1>22. QED
  BY <1>1, <1>2, <1>3, <1>4, <1>5, <1>6, <1>7, <1>8, <1>9, <1>10, <1>11, <1>12, <1>13,
     <1>14, <1>15, <1>16, <1>17, <1>18, <1>19, <1>20, <1>21 DEF AnyStep

LEMMA StutterInv ==
  ASSUME PoolInv, UNCHANGED poolVars
  PROVE  PoolInv'
BY DEF PoolInv, PoolTypeOK, PlaceOK, ExclusiveConnection, ReleaseNeverRefused,
   NoConnectionLost, BodyHasLiveConnection, Uses, Notifying, poolVars

(* The invariant holds of the pool as it is used by the requests.          *)
THEOREM PoolInvariant == PoolSpec => []PoolInv
<1>1. PoolInv /\ [PoolNext]_poolVars => PoolInv'
  BY AnyStepInv, ServiceStepIsAnyStep, StutterInv DEF PoolNext
<1>2. QED
  BY <1>1, InitInv, PTL DEF PoolSpec

(* The fields of the pool keep their types; in particular nTries stays     *)
(* below maxTries (DbmsPool.java:126, 174-181).                            *)
THEOREM PoolTypes == PoolSpec => []PoolTypeOK
BY PoolInvariant, PTL DEF PoolInv

(* Two requests never work on one connection, although close() and abort() *)
(* free it outside the monitor of open() (DbmsPool.java:124, 189, 213).    *)
THEOREM Exclusion == PoolSpec => []ExclusiveConnection
BY PoolInvariant, PTL DEF PoolInv

(* checkResource (DbmsPool.java:253) never throws.                         *)
THEOREM Releases == PoolSpec => []ReleaseNeverRefused
BY PoolInvariant, PTL DEF PoolInv

(* No connection stays marked as in use without a request that will free   *)
(* it, whatever combination of commit, rollback and reconnection fails.    *)
THEOREM NoLeak == PoolSpec => []NoConnectionLost
BY PoolInvariant, PTL DEF PoolInv

(* No request body works on a connection that a failed reconnection closed *)
(* (the FIXME of DbmsPool.java:157).                                       *)
THEOREM LiveConnections == PoolSpec => []BodyHasLiveConnection
BY PoolInvariant, PTL DEF PoolInv
-------------------------------------------------------------------------------
(* The refinement: open() acquires when it marks the connection, release   *)
(* frees it; every other step leaves the abstract pool as it is.           *)

LEMMA TakeAcquires ==
  ASSUME PoolInv, NEW t \in Threads, NEW reconnect \in BOOLEAN, TakeFree(t, reconnect)
  PROVE  Abstract!Acquire(t, found[t])
<1> USE DEF PoolInv, PoolTypeOK, PlaceOK, TakeFree, Goto, Uses, Notifying, Places
<1>1. found[t] \in Conns /\ ~locked[found[t]] /\ res[t] = None
  OBVIOUS
<1>2. \A u \in Threads : <<u, found[t]>> \notin Owns
  BY <1>1 DEF Owns, ReleaseNeverRefused
<1>3. \A d \in Conns : <<t, d>> \notin Owns
  BY <1>1, PoolAssumption DEF Owns
<1>4. Owns' = Owns \cup {<<t, found[t]>>}
  <2>1. \A u \in Threads, d \in Conns :
          Uses(u, d)' <=> Uses(u, d) \/ (u = t /\ d = found[t])
    BY <1>1, PoolAssumption
  <2>2. QED
    BY <1>1, <2>1 DEF Owns
<1>5. QED
  BY <1>2, <1>3, <1>4 DEF Abstract!Acquire

LEMMA FreeReleases ==
  ASSUME PoolInv, NEW t \in Threads, Free(t) \/ FreeFailed(t)
  PROVE  Abstract!Release(t, res[t]) /\ res[t] \in Conns
<1> USE DEF PoolInv, PoolTypeOK, PlaceOK, Free, FreeFailed, Goto, Uses, Notifying, Places
<1>1. res[t] \in Conns /\ Uses(t, res[t])
  OBVIOUS
<1>2. \A u \in Threads, d \in Conns :
        Uses(u, d)' <=> Uses(u, d) /\ ~(u = t /\ d = res[t])
  BY <1>1, PoolAssumption
<1>3. QED
  BY <1>1, <1>2 DEF Owns, Abstract!Release

LEMMA OthersStutter ==
  ASSUME PoolInv, NEW t \in Threads, ServiceStep(t),
         \A reconnect \in BOOLEAN : ~TakeFree(t, reconnect),
         ~Free(t), ~FreeFailed(t)
  PROVE  Owns' = Owns
<1>1. \A u \in Threads, d \in Conns : Uses(u, d)' <=> Uses(u, d)
  <2>1. CASE Notify(t)
    BY <2>1, PoolAssumption DEF Notify, Goto, Uses, Notifying, PoolInv, PoolTypeOK
  <2>2. CASE ~Notify(t)
    <3>1. res' = res
      BY <2>2 DEF ServiceStep, BeginRequest, CallOpen, EnterOpen, SkipLocked, FindFree,
         ReconnectFails, Retry, GiveUp, Return, Throw, BodyThrows, Break, CloseNothing,
         CommitOk, CommitFails, CommitThrows, AbortNothing, RollbackOk, RollbackFails
    <3>2. \A u \in Threads : Notifying(u)' <=> Notifying(u)
      BY <2>2 DEF ServiceStep, BeginRequest, CallOpen, EnterOpen, SkipLocked, FindFree,
         ReconnectFails, Retry, GiveUp, Return, Throw, BodyThrows, Break, CloseNothing,
         CommitOk, CommitFails, CommitThrows, AbortNothing, RollbackOk, RollbackFails,
         Goto, Notifying, PoolInv, PoolTypeOK
    <3>3. QED
      BY <3>1, <3>2 DEF Uses
  <2>3. QED
    BY <2>1, <2>2
<1>2. QED
  BY <1>1 DEF Owns

(* The pool and its resource table implement the abstract resource pool.   *)
THEOREM Implementation == PoolSpec => ImplementsResourcePool
<1>1. PoolInit => Abstract!InitPool
  BY PoolAssumption DEF PoolInit, Abstract!InitPool, Owns, Uses
<1>2. PoolInv /\ [PoolNext]_poolVars => [Abstract!NextPool]_Owns
  <2> SUFFICES ASSUME PoolInv, [PoolNext]_poolVars PROVE [Abstract!NextPool]_Owns
    OBVIOUS
  <2>1. CASE UNCHANGED poolVars
    BY <2>1 DEF poolVars, Owns, Uses, Notifying
  <2>2. ASSUME NEW t \in Threads, ServiceStep(t) PROVE [Abstract!NextPool]_Owns
    <3>1. ASSUME NEW reconnect \in BOOLEAN, TakeFree(t, reconnect)
          PROVE  Abstract!NextPool
      <4>1. found[t] \in Conns
        BY <3>1 DEF TakeFree, PoolInv, PlaceOK
      <4>2. QED
        BY <3>1, <4>1, TakeAcquires DEF Abstract!NextPool
    <3>2. CASE Free(t) \/ FreeFailed(t)
      BY <3>2, FreeReleases DEF Abstract!NextPool
    <3>3. QED
      BY <2>2, <3>1, <3>2, OthersStutter
  <2>3. QED
    BY <2>1, <2>2 DEF PoolNext
<1>3. QED
  BY <1>1, <1>2, PoolInvariant, PTL DEF PoolSpec, ImplementsResourcePool, Abstract!PoolSpec
===============================================================================
