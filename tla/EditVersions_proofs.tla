------------------------- MODULE EditVersions_proofs -------------------------
(* Proofs about EditVersions: type correctness, and that the version check *)
(* keeps the changes of the others, for every number of pages, sessions    *)
(* and batches.                                                            *)
EXTENDS EditVersions, TLAPS

(* The documents hold only changes that were made.                         *)
Made == 1..changes

TypeInv ==
  /\ EditTypeOK
  /\ row \subseteq Made
  /\ \A s \in Sessions : copy[s] \subseteq Made
  /\ \A p \in Pages : shown[p] \subseteq Made
  /\ \A q \in Procs : doc[q] \subseteq Made
  /\ \A p \in Pages : step[p] \in {"selected", "numbered"} => op[p] \in Kinds
  /\ \A p \in Pages : op[p] = "setthumb" => shows[p] = "thumb"

(* The versions given out: none is given twice, to a page or to a request  *)
(* that is about to give it to its page, since the last restart.           *)
ClosedHasNone == \A p \in Pages : shows[p] = "closed" => number[p] = 0
TakenGiven    == \A p \in Pages : taken[p] <= version
TakenOnce     == \A p, q \in Pages : p # q /\ taken[p] = taken[q] => taken[p] = 0
NumberGiven   == \A p \in Pages : "restart" \notin hit[p] => number[p] <= version
NumberOrTaken ==
  \A p, q \in Pages :
    p # q /\ "restart" \notin hit[q] /\ number[q] = taken[p] => number[q] = 0
NumberOnce ==
  \A p, q \in Pages :
    /\ p # q /\ number[p] = number[q]
    /\ "restart" \notin hit[p] /\ "restart" \notin hit[q]
    => number[p] = 0

Versions ==
  /\ ClosedHasNone
  /\ TakenGiven
  /\ TakenOnce
  /\ NumberGiven
  /\ NumberOrTaken
  /\ NumberOnce

(* Who holds the monitor and the row.                                      *)
Locks ==
  /\ \A p \in Pages : step[p] = "checked" /\ op[p] \in Saves => monitor = p
  /\ \A p \in Pages : step[p] = "element" => monitor = p
  /\ \A q \in Procs : step[q] = "written" => writer = q
  /\ \A p \in Pages : step[p] = "thumb" => op[p] = "setthumb"
  /\ \A p \in Pages : UnderWay(p) => op[p] \in Saves \cup {"setthumb"}

(* The form that has the last version shows the document of the session.   *)
Uncrossed(p) ==
  /\ shows[p] = "form" /\ number[p] = version
  /\ "crossed" \notin hit[p] /\ "restart" \notin hit[p]

ElementOfForm == \A p \in Pages : step[p] = "element" => shows[p] = "form"
FormInSession ==
  \A p \in Pages :
    Uncrossed(p) /\ step[p] # "element" /\ held[owner[p]] = "live" => copy[owner[p]] = shown[p]
FormInHand == \A p \in Pages : Uncrossed(p) /\ step[p] = "element" => doc[p] = shown[p]

Forms ==
  /\ ElementOfForm
  /\ FormInSession
  /\ FormInHand

(* A page that holds the last version, or is about to.                     *)
Last(p) ==
  \/ shows[p] \in Kinds /\ number[p] = version
  \/ step[p] = "numbered" /\ taken[p] = version

(* The commit of such a writer is an event for all the other pages.        *)
Spreads(p) == "restart" \in hit[p] \/ "unlocked" \in hit[p]

SaveHasRow == \A p \in Pages : UnderWay(p) /\ hit[p] = {} /\ exists => row \subseteq doc[p]
PageHasRow ==
  \A p \in Pages :
    /\ shows[p] \in Kinds /\ number[p] = version /\ hit[p] = {} /\ exists
    /\ step[p] # "forward"
    => row \subseteq shown[p]
OpeningHasRow ==
  \A p \in Pages :
    step[p] = "numbered" /\ taken[p] = version /\ hit[p] = {} /\ exists => row \subseteq doc[p]
LastIsWarned ==
  \A p, q \in Pages : p # q /\ Last(p) /\ hit[p] = {} /\ UnderWay(q) => Spreads(q)
SaveIsWarned ==
  \A p, q \in Pages :
    p # q /\ UnderWay(p) /\ hit[p] = {} /\ UnderWay(q) => Spreads(q) \/ step[p] = "written"
ThumbIsWarned ==
  \A p, q \in Pages :
    /\ p # q /\ Last(p)
    /\ step[q] = "checked" /\ op[q] = "setthumb" /\ hit[q] = {}
    => Spreads(p)

Keeps ==
  /\ SaveHasRow
  /\ PageHasRow
  /\ OpeningHasRow
  /\ LastIsWarned
  /\ SaveIsWarned
  /\ ThumbIsWarned

IInv == TypeInv /\ Versions /\ Locks /\ Forms /\ AppliesToPageShown /\ Keeps
-----------------------------------------------------------------------------
(* Every step keeps the types, and makes a document of changes made.       *)
LEMMA TypeNext ==
  ASSUME TypeInv, [Next]_vars
  PROVE  TypeInv'
<1> USE ProcsDisjoint, NoOneAssumption, BoundsAssumption DEF Procs, store,
   session, page, request, TypeInv, Made, EditTypeOK, Kinds, Saves, Events,
   Docs, Steps, Ops
<1>1. ASSUME NEW p \in Pages, NEW k \in Kinds, NEW s \in Sessions, Select(p, k, s) PROVE TypeInv'
  <2>1. (/\ row \in Docs
         /\ exists \in BOOLEAN
         /\ writer \in Procs \cup {NoOne}
         /\ version \in 1..MaxVersion
         /\ monitor \in Pages \cup {NoOne}
         /\ held \in [Sessions -> {"none", "live", "stripped"}]
         /\ copy \in [Sessions -> Docs]
         /\ owner \in [Pages -> Sessions])'
    BY <1>1 DEF Select, Close
  <2>2. (/\ shows \in [Pages -> Kinds \cup {"closed", "thumb"}]
         /\ shown \in [Pages -> Docs]
         /\ number \in [Pages -> 0..MaxVersion]
         /\ step \in [Procs -> Steps]
         /\ op \in [Procs -> Ops]
         /\ doc \in [Procs -> Docs]
         /\ changes \in 0..MaxChanges
         /\ hit \in [Pages -> SUBSET Events])'
    BY <1>1 DEF Select, Close
  <2>3. (/\ row \subseteq Made
         /\ \A t \in Sessions : copy[t] \subseteq Made
         /\ \A r \in Pages : shown[r] \subseteq Made
         /\ \A r \in Pages : step[r] \in {"selected", "numbered"} => op[r] \in Kinds
         /\ \A r \in Pages : op[r] = "setthumb" => shows[r] = "thumb")'
    BY <1>1 DEF Select, Close
  <2>4. (taken \in [Procs -> 0..MaxVersion])'
    BY <1>1 DEF Select, Close
  <2>5. (\A q \in Procs : doc[q] \subseteq Made)'
    BY <1>1 DEF Select, Close
  <2> QED
    BY <2>1, <2>2, <2>3, <2>4, <2>5 DEF TypeInv, EditTypeOK
<1>2. ASSUME NEW p \in Pages, Number(p) PROVE TypeInv'
  BY <1>2 DEF Number, NewVersion, TakeVersion
<1>3. ASSUME NEW p \in Pages, Store(p) PROVE TypeInv'
  <2>1. (/\ row \in Docs
         /\ exists \in BOOLEAN
         /\ writer \in Procs \cup {NoOne}
         /\ version \in 1..MaxVersion
         /\ monitor \in Pages \cup {NoOne}
         /\ held \in [Sessions -> {"none", "live", "stripped"}]
         /\ copy \in [Sessions -> Docs]
         /\ owner \in [Pages -> Sessions])'
    BY <1>3 DEF Store, Answer, Mark, OnScreen, SameSession
  <2>2. (/\ shows \in [Pages -> Kinds \cup {"closed", "thumb"}]
         /\ shown \in [Pages -> Docs]
         /\ number \in [Pages -> 0..MaxVersion]
         /\ step \in [Procs -> Steps]
         /\ op \in [Procs -> Ops]
         /\ doc \in [Procs -> Docs]
         /\ changes \in 0..MaxChanges
         /\ hit \in [Pages -> SUBSET Events])'
    BY <1>3 DEF Store, Answer, Mark, OnScreen, SameSession
  <2>3. (/\ row \subseteq Made
         /\ \A s \in Sessions : copy[s] \subseteq Made
         /\ \A r \in Pages : shown[r] \subseteq Made
         /\ \A r \in Pages : step[r] \in {"selected", "numbered"} => op[r] \in Kinds
         /\ \A r \in Pages : op[r] = "setthumb" => shows[r] = "thumb")'
    BY <1>3 DEF Store, Answer, Mark, OnScreen, SameSession
  <2>4. (taken \in [Procs -> 0..MaxVersion])'
    BY <1>3 DEF Store, Answer, Mark, OnScreen, SameSession
  <2>5. (\A q \in Procs : doc[q] \subseteq Made)'
    BY <1>3 DEF Store, Answer, Mark, OnScreen, SameSession
  <2> QED
    BY <2>1, <2>2, <2>3, <2>4, <2>5 DEF TypeInv, EditTypeOK
<1>4. ASSUME NEW p \in Pages, TakeCopy(p) PROVE TypeInv'
  BY <1>4 DEF TakeCopy, Change
<1>5. ASSUME NEW p \in Pages, PutCopy(p) PROVE TypeInv'
  BY <1>5 DEF PutCopy, Answer, Mark, OnScreen, SameSession
<1>6. ASSUME NEW p \in Pages, NEW o \in Saves, Check(p, o) PROVE TypeInv'
  BY <1>6, SMTT(30) DEF Check, Accepted, Change
<1>7. ASSUME NEW p \in Pages, Write(p) PROVE TypeInv'
  <2>1. (/\ row \in Docs
         /\ exists \in BOOLEAN
         /\ writer \in Procs \cup {NoOne}
         /\ version \in 1..MaxVersion
         /\ monitor \in Pages \cup {NoOne}
         /\ held \in [Sessions -> {"none", "live", "stripped"}]
         /\ copy \in [Sessions -> Docs]
         /\ owner \in [Pages -> Sessions])'
    BY <1>7 DEF Write, WriteRow, NewVersion, TakeVersion
  <2>2. (/\ shows \in [Pages -> Kinds \cup {"closed", "thumb"}]
         /\ shown \in [Pages -> Docs]
         /\ number \in [Pages -> 0..MaxVersion]
         /\ step \in [Procs -> Steps]
         /\ op \in [Procs -> Ops]
         /\ doc \in [Procs -> Docs]
         /\ changes \in 0..MaxChanges
         /\ hit \in [Pages -> SUBSET Events])'
    BY <1>7 DEF Write, WriteRow, NewVersion, TakeVersion
  <2>3. (/\ row \subseteq Made
         /\ \A s \in Sessions : copy[s] \subseteq Made
         /\ \A r \in Pages : shown[r] \subseteq Made
         /\ \A r \in Pages : step[r] \in {"selected", "numbered"} => op[r] \in Kinds
         /\ \A r \in Pages : op[r] = "setthumb" => shows[r] = "thumb")'
    BY <1>7 DEF Write, WriteRow, NewVersion, TakeVersion
  <2>4. (taken \in [Procs -> 0..MaxVersion])'
    <3>1. CASE op[p] = "thumbnails"
      <4>1. version + 1 \in 0..MaxVersion /\ taken' = [taken EXCEPT ![p] = version + 1]
        BY <1>7, <3>1 DEF Write, NewVersion, TakeVersion
      <4> QED
        BY <4>1
    <3>2. CASE op[p] # "thumbnails"
      BY <1>7, <3>2 DEF Write
    <3> QED
      BY <3>1, <3>2
  <2>5. (\A q \in Procs : doc[q] \subseteq Made)'
    BY <1>7 DEF Write, WriteRow, NewVersion, TakeVersion
  <2> QED
    BY <2>1, <2>2, <2>3, <2>4, <2>5 DEF TypeInv, EditTypeOK
<1>8. ASSUME NEW p \in Pages, WriteFails(p) PROVE TypeInv'
  BY <1>8 DEF WriteFails, Answer
<1>9. ASSUME NEW p \in Pages, CheckThumb(p) PROVE TypeInv'
  BY <1>9 DEF CheckThumb
<1>10. ASSUME NEW p \in Pages, ReadThumb(p) PROVE TypeInv'
  <2>1. (/\ row \in Docs
         /\ exists \in BOOLEAN
         /\ writer \in Procs \cup {NoOne}
         /\ version \in 1..MaxVersion
         /\ monitor \in Pages \cup {NoOne}
         /\ held \in [Sessions -> {"none", "live", "stripped"}]
         /\ copy \in [Sessions -> Docs]
         /\ owner \in [Pages -> Sessions])'
    BY <1>10 DEF ReadThumb, Change
  <2>2. (/\ shows \in [Pages -> Kinds \cup {"closed", "thumb"}]
         /\ shown \in [Pages -> Docs]
         /\ number \in [Pages -> 0..MaxVersion]
         /\ step \in [Procs -> Steps]
         /\ op \in [Procs -> Ops]
         /\ doc \in [Procs -> Docs]
         /\ changes \in 0..MaxChanges
         /\ hit \in [Pages -> SUBSET Events])'
    BY <1>10 DEF ReadThumb, Change
  <2>3. (/\ row \subseteq Made
         /\ \A s \in Sessions : copy[s] \subseteq Made
         /\ \A r \in Pages : shown[r] \subseteq Made
         /\ \A r \in Pages : step[r] \in {"selected", "numbered"} => op[r] \in Kinds
         /\ \A r \in Pages : op[r] = "setthumb" => shows[r] = "thumb")'
    BY <1>10 DEF ReadThumb, Change
  <2>4. (taken \in [Procs -> 0..MaxVersion])'
    BY <1>10 DEF ReadThumb, Change
  <2>5. (\A q \in Procs : doc[q] \subseteq Made)'
    <3>1. Made \subseteq Made' /\ changes + 1 \in Made'
      BY <1>10 DEF ReadThumb, Change
    <3>2. row \cup {changes + 1} \subseteq Made'
      BY <3>1
    <3> HIDE DEF Made
    <3> QED
      BY <1>10, <3>1, <3>2 DEF ReadThumb, Change
  <2> QED
    BY <2>1, <2>2, <2>3, <2>4, <2>5 DEF TypeInv, EditTypeOK
<1>11. ASSUME NEW p \in Pages, WriteThumb(p) PROVE TypeInv'
  BY <1>11 DEF WriteThumb, WriteRow, NewVersion, TakeVersion
<1>12. ASSUME NEW p \in Pages, ThumbGone(p) PROVE TypeInv'
  BY <1>12 DEF ThumbGone, NewVersion, TakeVersion
<1>13. ASSUME NEW p \in Pages, CommitForward(p) PROVE TypeInv'
  BY <1>13 DEF CommitForward, CommitRow, Spread, OnScreen
<1>14. ASSUME NEW p \in Pages, CommitFinish(p) PROVE TypeInv'
  <2>1. (/\ row \in Docs
         /\ exists \in BOOLEAN
         /\ writer \in Procs \cup {NoOne}
         /\ version \in 1..MaxVersion
         /\ monitor \in Pages \cup {NoOne}
         /\ held \in [Sessions -> {"none", "live", "stripped"}]
         /\ copy \in [Sessions -> Docs]
         /\ owner \in [Pages -> Sessions])'
    BY <1>14 DEF CommitFinish, CommitRow, Spread, OnScreen, Answer, Close
  <2>2. (/\ shows \in [Pages -> Kinds \cup {"closed", "thumb"}]
         /\ shown \in [Pages -> Docs]
         /\ number \in [Pages -> 0..MaxVersion]
         /\ step \in [Procs -> Steps]
         /\ op \in [Procs -> Ops]
         /\ doc \in [Procs -> Docs]
         /\ changes \in 0..MaxChanges
         /\ hit \in [Pages -> SUBSET Events])'
    BY <1>14 DEF CommitFinish, CommitRow, Spread, OnScreen, Answer, Close
  <2>3. (/\ row \subseteq Made
         /\ \A s \in Sessions : copy[s] \subseteq Made
         /\ \A r \in Pages : shown[r] \subseteq Made
         /\ \A r \in Pages : step[r] \in {"selected", "numbered"} => op[r] \in Kinds
         /\ \A r \in Pages : op[r] = "setthumb" => shows[r] = "thumb")'
    BY <1>14 DEF CommitFinish, CommitRow, Spread, OnScreen, Answer, Close
  <2>4. (taken \in [Procs -> 0..MaxVersion])'
    BY <1>14 DEF CommitFinish, CommitRow, Spread, OnScreen, Answer, Close
  <2>5. (\A q \in Procs : doc[q] \subseteq Made)'
    BY <1>14 DEF CommitFinish, CommitRow, Spread, OnScreen, Answer, Close
  <2> QED
    BY <2>1, <2>2, <2>3, <2>4, <2>5 DEF TypeInv, EditTypeOK
<1>15. ASSUME NEW p \in Pages, CommitThumbnails(p) PROVE TypeInv'
  <2>1. (/\ row \in Docs
         /\ exists \in BOOLEAN
         /\ writer \in Procs \cup {NoOne}
         /\ version \in 1..MaxVersion
         /\ monitor \in Pages \cup {NoOne}
         /\ held \in [Sessions -> {"none", "live", "stripped"}]
         /\ copy \in [Sessions -> Docs]
         /\ owner \in [Pages -> Sessions])'
    BY <1>15 DEF CommitThumbnails, CommitRow, Spread, OnScreen, Answer
  <2>2. (/\ shows \in [Pages -> Kinds \cup {"closed", "thumb"}]
         /\ shown \in [Pages -> Docs]
         /\ number \in [Pages -> 0..MaxVersion]
         /\ step \in [Procs -> Steps]
         /\ op \in [Procs -> Ops]
         /\ doc \in [Procs -> Docs]
         /\ changes \in 0..MaxChanges
         /\ hit \in [Pages -> SUBSET Events])'
    BY <1>15 DEF CommitThumbnails, CommitRow, Spread, OnScreen, Answer
  <2>3. (/\ row \subseteq Made
         /\ \A s \in Sessions : copy[s] \subseteq Made
         /\ \A r \in Pages : shown[r] \subseteq Made
         /\ \A r \in Pages : step[r] \in {"selected", "numbered"} => op[r] \in Kinds
         /\ \A r \in Pages : op[r] = "setthumb" => shows[r] = "thumb")'
    BY <1>15 DEF CommitThumbnails, CommitRow, Spread, OnScreen, Answer
  <2>4. (taken \in [Procs -> 0..MaxVersion])'
    BY <1>15 DEF CommitThumbnails, CommitRow, Spread, OnScreen, Answer
  <2>5. (\A q \in Procs : doc[q] \subseteq Made)'
    BY <1>15 DEF CommitThumbnails, CommitRow, Spread, OnScreen, Answer
  <2> QED
    BY <2>1, <2>2, <2>3, <2>4, <2>5 DEF TypeInv, EditTypeOK
<1>16. ASSUME NEW p \in Pages, Abort(p) PROVE TypeInv'
  BY <1>16 DEF Abort, Answer
<1>17. ASSUME NEW p \in Pages, ShowThumb(p) PROVE TypeInv'
  BY <1>17 DEF ShowThumb, NewVersion, Answer
<1>18. ASSUME NEW p \in Pages, ForwardFails(p) PROVE TypeInv'
  BY <1>18 DEF ForwardFails, Answer
<1>19. ASSUME NEW p \in Pages, Cancel(p) PROVE TypeInv'
  BY <1>19 DEF Cancel, Close
<1>20. ASSUME NEW b \in Batches, BatchRead(b) PROVE TypeInv'
  <2>1. (/\ row \in Docs
         /\ exists \in BOOLEAN
         /\ writer \in Procs \cup {NoOne}
         /\ version \in 1..MaxVersion
         /\ monitor \in Pages \cup {NoOne}
         /\ held \in [Sessions -> {"none", "live", "stripped"}]
         /\ copy \in [Sessions -> Docs]
         /\ owner \in [Pages -> Sessions])'
    BY <1>20 DEF BatchRead, Change
  <2>2. (/\ shows \in [Pages -> Kinds \cup {"closed", "thumb"}]
         /\ shown \in [Pages -> Docs]
         /\ number \in [Pages -> 0..MaxVersion]
         /\ step \in [Procs -> Steps]
         /\ op \in [Procs -> Ops]
         /\ doc \in [Procs -> Docs]
         /\ changes \in 0..MaxChanges
         /\ hit \in [Pages -> SUBSET Events])'
    BY <1>20 DEF BatchRead, Change
  <2>3. (/\ row \subseteq Made
         /\ \A s \in Sessions : copy[s] \subseteq Made
         /\ \A p \in Pages : shown[p] \subseteq Made
         /\ \A p \in Pages : step[p] \in {"selected", "numbered"} => op[p] \in Kinds
         /\ \A p \in Pages : op[p] = "setthumb" => shows[p] = "thumb")'
    BY <1>20 DEF BatchRead, Change
  <2>4. (taken \in [Procs -> 0..MaxVersion])'
    BY <1>20 DEF BatchRead, Change
  <2>5. (\A q \in Procs : doc[q] \subseteq Made)'
    <3>1. Made \subseteq Made' /\ changes + 1 \in Made'
      BY <1>20 DEF BatchRead, Change
    <3>2. row \cup {changes + 1} \subseteq Made'
      BY <3>1
    <3> HIDE DEF Made
    <3> QED
      BY <1>20, <3>1, <3>2 DEF BatchRead, Change
  <2> QED
    BY <2>1, <2>2, <2>3, <2>4, <2>5 DEF TypeInv, EditTypeOK
<1>21. ASSUME NEW b \in Batches, BatchWrite(b) PROVE TypeInv'
  BY <1>21 DEF BatchWrite, WriteRow
<1>22. ASSUME NEW b \in Batches, BatchCommit(b) PROVE TypeInv'
  <2>1. (/\ row \in Docs
         /\ exists \in BOOLEAN
         /\ writer \in Procs \cup {NoOne}
         /\ version \in 1..MaxVersion
         /\ monitor \in Pages \cup {NoOne}
         /\ held \in [Sessions -> {"none", "live", "stripped"}]
         /\ copy \in [Sessions -> Docs]
         /\ owner \in [Pages -> Sessions])'
    BY <1>22 DEF BatchCommit, CommitRow, Answer, Mark, OnScreen
  <2>2. (/\ shows \in [Pages -> Kinds \cup {"closed", "thumb"}]
         /\ shown \in [Pages -> Docs]
         /\ number \in [Pages -> 0..MaxVersion]
         /\ step \in [Procs -> Steps]
         /\ op \in [Procs -> Ops]
         /\ doc \in [Procs -> Docs]
         /\ changes \in 0..MaxChanges
         /\ hit \in [Pages -> SUBSET Events])'
    BY <1>22 DEF BatchCommit, CommitRow, Answer, Mark, OnScreen
  <2>3. (/\ row \subseteq Made
         /\ \A s \in Sessions : copy[s] \subseteq Made
         /\ \A p \in Pages : shown[p] \subseteq Made
         /\ \A p \in Pages : step[p] \in {"selected", "numbered"} => op[p] \in Kinds
         /\ \A p \in Pages : op[p] = "setthumb" => shows[p] = "thumb")'
    BY <1>22 DEF BatchCommit, CommitRow, Answer, Mark, OnScreen
  <2>4. (taken \in [Procs -> 0..MaxVersion])'
    BY <1>22 DEF BatchCommit, CommitRow, Answer, Mark, OnScreen
  <2>5. (\A q \in Procs : doc[q] \subseteq Made)'
    BY <1>22 DEF BatchCommit, CommitRow, Answer, Mark, OnScreen
  <2> QED
    BY <2>1, <2>2, <2>3, <2>4, <2>5 DEF TypeInv, EditTypeOK
<1>23. ASSUME NEW b \in Batches, Delete(b) PROVE TypeInv'
  BY <1>23 DEF Delete, WriteRow
<1>24. ASSUME NEW b \in Batches, DeleteCommit(b) PROVE TypeInv'
  <2>1. (/\ row \in Docs
         /\ exists \in BOOLEAN
         /\ writer \in Procs \cup {NoOne}
         /\ version \in 1..MaxVersion
         /\ monitor \in Pages \cup {NoOne}
         /\ held \in [Sessions -> {"none", "live", "stripped"}]
         /\ copy \in [Sessions -> Docs]
         /\ owner \in [Pages -> Sessions])'
    BY <1>24 DEF DeleteCommit, Answer
  <2>2. (/\ shows \in [Pages -> Kinds \cup {"closed", "thumb"}]
         /\ shown \in [Pages -> Docs]
         /\ number \in [Pages -> 0..MaxVersion]
         /\ step \in [Procs -> Steps]
         /\ op \in [Procs -> Ops]
         /\ doc \in [Procs -> Docs]
         /\ changes \in 0..MaxChanges
         /\ hit \in [Pages -> SUBSET Events])'
    BY <1>24 DEF DeleteCommit, Answer
  <2>3. (/\ row \subseteq Made
         /\ \A s \in Sessions : copy[s] \subseteq Made
         /\ \A p \in Pages : shown[p] \subseteq Made
         /\ \A p \in Pages : step[p] \in {"selected", "numbered"} => op[p] \in Kinds
         /\ \A p \in Pages : op[p] = "setthumb" => shows[p] = "thumb")'
    BY <1>24 DEF DeleteCommit, Answer
  <2>4. (taken \in [Procs -> 0..MaxVersion])'
    BY <1>24 DEF DeleteCommit, Answer
  <2>5. (\A q \in Procs : doc[q] \subseteq Made)'
    BY <1>24 DEF DeleteCommit, Answer
  <2> QED
    BY <2>1, <2>2, <2>3, <2>4, <2>5 DEF TypeInv, EditTypeOK
<1>25. ASSUME Restart PROVE TypeInv'
  BY <1>25 DEF Restart, Mark, OnScreen
<1>26. ASSUME UNCHANGED vars PROVE TypeInv'
  BY <1>26 DEF vars
<1> HIDE DEF Procs, store, session, page, request, TypeInv, Made, EditTypeOK,
   Kinds, Saves, Events, Docs, Steps, Ops
<1> QED
  BY <1>1, <1>2, <1>3, <1>4, <1>5, <1>6, <1>7, <1>8, <1>9, <1>10, <1>11,
     <1>12, <1>13, <1>14, <1>15, <1>16, <1>17, <1>18, <1>19, <1>20, <1>21,
     <1>22, <1>23, <1>24, <1>25, <1>26 DEF Next, PageNext, BatchNext

(* Every step respects the monitor and the row.                            *)
LEMMA LocksNext ==
  ASSUME TypeInv, Locks, [Next]_vars
  PROVE  Locks'
<1> USE ProcsDisjoint, NoOneAssumption, BoundsAssumption DEF Procs, store,
   session, page, request, Locks, UnderWay, TypeInv, EditTypeOK, Kinds, Saves,
   Events, Docs, Steps, Ops
<1>1. ASSUME NEW p \in Pages, NEW k \in Kinds, NEW s \in Sessions, Select(p, k, s) PROVE Locks'
  BY <1>1 DEF Select, Close
<1>2. ASSUME NEW p \in Pages, Number(p) PROVE Locks'
  BY <1>2 DEF Number, NewVersion, TakeVersion
<1>3. ASSUME NEW p \in Pages, Store(p) PROVE Locks'
  BY <1>3 DEF Store, Answer, Mark, OnScreen, SameSession
<1>4. ASSUME NEW p \in Pages, TakeCopy(p) PROVE Locks'
  BY <1>4 DEF TakeCopy, Change
<1>5. ASSUME NEW p \in Pages, PutCopy(p) PROVE Locks'
  BY <1>5 DEF PutCopy, Answer, Mark, OnScreen, SameSession
<1>6. ASSUME NEW p \in Pages, NEW o \in Saves, Check(p, o) PROVE Locks'
  BY <1>6 DEF Check, Accepted, Change
<1>7. ASSUME NEW p \in Pages, Write(p) PROVE Locks'
  BY <1>7 DEF Write, WriteRow, NewVersion, TakeVersion
<1>8. ASSUME NEW p \in Pages, WriteFails(p) PROVE Locks'
  BY <1>8 DEF WriteFails, Answer
<1>9. ASSUME NEW p \in Pages, CheckThumb(p) PROVE Locks'
  BY <1>9 DEF CheckThumb
<1>10. ASSUME NEW p \in Pages, ReadThumb(p) PROVE Locks'
  BY <1>10 DEF ReadThumb, Change
<1>11. ASSUME NEW p \in Pages, WriteThumb(p) PROVE Locks'
  BY <1>11 DEF WriteThumb, WriteRow, NewVersion, TakeVersion
<1>12. ASSUME NEW p \in Pages, ThumbGone(p) PROVE Locks'
  BY <1>12 DEF ThumbGone, NewVersion, TakeVersion
<1>13. ASSUME NEW p \in Pages, CommitForward(p) PROVE Locks'
  BY <1>13 DEF CommitForward, CommitRow, Spread, OnScreen
<1>14. ASSUME NEW p \in Pages, CommitFinish(p) PROVE Locks'
  BY <1>14 DEF CommitFinish, CommitRow, Spread, OnScreen, Answer, Close
<1>15. ASSUME NEW p \in Pages, CommitThumbnails(p) PROVE Locks'
  BY <1>15 DEF CommitThumbnails, CommitRow, Spread, OnScreen, Answer
<1>16. ASSUME NEW p \in Pages, Abort(p) PROVE Locks'
  BY <1>16 DEF Abort, Answer
<1>17. ASSUME NEW p \in Pages, ShowThumb(p) PROVE Locks'
  BY <1>17 DEF ShowThumb, NewVersion, Answer
<1>18. ASSUME NEW p \in Pages, ForwardFails(p) PROVE Locks'
  BY <1>18 DEF ForwardFails, Answer
<1>19. ASSUME NEW p \in Pages, Cancel(p) PROVE Locks'
  BY <1>19 DEF Cancel, Close
<1>20. ASSUME NEW b \in Batches, BatchRead(b) PROVE Locks'
  BY <1>20 DEF BatchRead, Change
<1>21. ASSUME NEW b \in Batches, BatchWrite(b) PROVE Locks'
  BY <1>21 DEF BatchWrite, WriteRow
<1>22. ASSUME NEW b \in Batches, BatchCommit(b) PROVE Locks'
  BY <1>22 DEF BatchCommit, CommitRow, Answer, Mark, OnScreen
<1>23. ASSUME NEW b \in Batches, Delete(b) PROVE Locks'
  BY <1>23 DEF Delete, WriteRow
<1>24. ASSUME NEW b \in Batches, DeleteCommit(b) PROVE Locks'
  BY <1>24 DEF DeleteCommit, Answer
<1>25. ASSUME Restart PROVE Locks'
  BY <1>25 DEF Restart, Mark, OnScreen
<1>26. ASSUME UNCHANGED vars PROVE Locks'
  BY <1>26 DEF vars
<1> HIDE DEF Procs, store, session, page, request, Locks, UnderWay, TypeInv,
   EditTypeOK, Kinds, Saves, Events, Docs, Steps, Ops
<1> QED
  BY <1>1, <1>2, <1>3, <1>4, <1>5, <1>6, <1>7, <1>8, <1>9, <1>10, <1>11,
     <1>12, <1>13, <1>14, <1>15, <1>16, <1>17, <1>18, <1>19, <1>20, <1>21,
     <1>22, <1>23, <1>24, <1>25, <1>26 DEF Next, PageNext, BatchNext

(* No step gives a version twice.                                          *)
LEMMA VersionsNext ==
  ASSUME TypeInv, Versions, [Next]_vars
  PROVE  Versions'
<1> USE ProcsDisjoint, NoOneAssumption, BoundsAssumption DEF Procs, store,
   session, page, request, Versions, ClosedHasNone, TakenGiven, TakenOnce,
   NumberGiven, NumberOrTaken, NumberOnce, TypeInv, EditTypeOK, Kinds, Saves,
   Events, Docs, Steps, Ops
<1>1. ASSUME NEW p \in Pages, NEW k \in Kinds, NEW s \in Sessions, Select(p, k, s) PROVE Versions'
  BY <1>1 DEF Select, Close
<1>2. ASSUME NEW p \in Pages, Number(p) PROVE Versions'
  BY <1>2 DEF Number, NewVersion, TakeVersion
<1>3. ASSUME NEW p \in Pages, Store(p) PROVE Versions'
  <2>1. ClosedHasNone'
    BY <1>3 DEF Store, Answer, Mark, OnScreen, SameSession
  <2>2. TakenGiven'
    BY <1>3 DEF Store, Answer, Mark, OnScreen, SameSession
  <2>3. TakenOnce'
    BY <1>3 DEF Store, Answer, Mark, OnScreen, SameSession
  <2>4. NumberGiven'
    BY <1>3 DEF Store, Answer, Mark, OnScreen, SameSession
  <2>5. NumberOrTaken'
    BY <1>3 DEF Store, Answer, Mark, OnScreen, SameSession
  <2>6. NumberOnce'
    BY <1>3 DEF Store, Answer, Mark, OnScreen, SameSession
  <2> QED
    BY <2>1, <2>2, <2>3, <2>4, <2>5, <2>6 DEF Versions
<1>4. ASSUME NEW p \in Pages, TakeCopy(p) PROVE Versions'
  BY <1>4 DEF TakeCopy, Change
<1>5. ASSUME NEW p \in Pages, PutCopy(p) PROVE Versions'
  BY <1>5 DEF PutCopy, Answer, Mark, OnScreen, SameSession
<1>6. ASSUME NEW p \in Pages, NEW o \in Saves, Check(p, o) PROVE Versions'
  BY <1>6 DEF Check, Accepted, Change
<1>7. ASSUME NEW p \in Pages, Write(p) PROVE Versions'
  <2>1. ClosedHasNone'
    BY <1>7 DEF Write, WriteRow, NewVersion, TakeVersion
  <2>2. TakenGiven'
    BY <1>7 DEF Write, WriteRow, NewVersion, TakeVersion
  <2>3. TakenOnce'
    BY <1>7 DEF Write, WriteRow, NewVersion, TakeVersion
  <2>4. NumberGiven'
    BY <1>7 DEF Write, WriteRow, NewVersion, TakeVersion
  <2>5. NumberOrTaken'
    BY <1>7 DEF Write, WriteRow, NewVersion, TakeVersion
  <2>6. NumberOnce'
    BY <1>7 DEF Write, WriteRow, NewVersion, TakeVersion
  <2> QED
    BY <2>1, <2>2, <2>3, <2>4, <2>5, <2>6 DEF Versions
<1>8. ASSUME NEW p \in Pages, WriteFails(p) PROVE Versions'
  BY <1>8 DEF WriteFails, Answer
<1>9. ASSUME NEW p \in Pages, CheckThumb(p) PROVE Versions'
  BY <1>9 DEF CheckThumb
<1>10. ASSUME NEW p \in Pages, ReadThumb(p) PROVE Versions'
  BY <1>10 DEF ReadThumb, Change
<1>11. ASSUME NEW p \in Pages, WriteThumb(p) PROVE Versions'
  BY <1>11 DEF WriteThumb, WriteRow, NewVersion, TakeVersion
<1>12. ASSUME NEW p \in Pages, ThumbGone(p) PROVE Versions'
  BY <1>12 DEF ThumbGone, NewVersion, TakeVersion
<1>13. ASSUME NEW p \in Pages, CommitForward(p) PROVE Versions'
  BY <1>13 DEF CommitForward, CommitRow, Spread, OnScreen
<1>14. ASSUME NEW p \in Pages, CommitFinish(p) PROVE Versions'
  BY <1>14 DEF CommitFinish, CommitRow, Spread, OnScreen, Answer, Close
<1>15. ASSUME NEW p \in Pages, CommitThumbnails(p) PROVE Versions'
  BY <1>15 DEF CommitThumbnails, CommitRow, Spread, OnScreen, Answer
<1>16. ASSUME NEW p \in Pages, Abort(p) PROVE Versions'
  BY <1>16 DEF Abort, Answer
<1>17. ASSUME NEW p \in Pages, ShowThumb(p) PROVE Versions'
  <2>1. ClosedHasNone'
    BY <1>17 DEF ShowThumb, NewVersion, Answer
  <2>2. TakenGiven'
    BY <1>17 DEF ShowThumb, NewVersion, Answer
  <2>3. TakenOnce'
    BY <1>17 DEF ShowThumb, NewVersion, Answer
  <2>4. NumberGiven'
    BY <1>17 DEF ShowThumb, NewVersion, Answer
  <2>5. NumberOrTaken'
    BY <1>17 DEF ShowThumb, NewVersion, Answer
  <2>6. NumberOnce'
    BY <1>17 DEF ShowThumb, NewVersion, Answer
  <2> QED
    BY <2>1, <2>2, <2>3, <2>4, <2>5, <2>6 DEF Versions
<1>18. ASSUME NEW p \in Pages, ForwardFails(p) PROVE Versions'
  BY <1>18 DEF ForwardFails, Answer
<1>19. ASSUME NEW p \in Pages, Cancel(p) PROVE Versions'
  BY <1>19 DEF Cancel, Close
<1>20. ASSUME NEW b \in Batches, BatchRead(b) PROVE Versions'
  BY <1>20 DEF BatchRead, Change
<1>21. ASSUME NEW b \in Batches, BatchWrite(b) PROVE Versions'
  BY <1>21 DEF BatchWrite, WriteRow
<1>22. ASSUME NEW b \in Batches, BatchCommit(b) PROVE Versions'
  BY <1>22 DEF BatchCommit, CommitRow, Answer, Mark, OnScreen
<1>23. ASSUME NEW b \in Batches, Delete(b) PROVE Versions'
  BY <1>23 DEF Delete, WriteRow
<1>24. ASSUME NEW b \in Batches, DeleteCommit(b) PROVE Versions'
  BY <1>24 DEF DeleteCommit, Answer
<1>25. ASSUME Restart PROVE Versions'
  BY <1>25 DEF Restart, Mark, OnScreen
<1>26. ASSUME UNCHANGED vars PROVE Versions'
  BY <1>26 DEF vars
<1> HIDE DEF Procs, store, session, page, request, Versions, ClosedHasNone,
   TakenGiven, TakenOnce, NumberGiven, NumberOrTaken, NumberOnce, TypeInv,
   EditTypeOK, Kinds, Saves, Events, Docs, Steps, Ops
<1> QED
  BY <1>1, <1>2, <1>3, <1>4, <1>5, <1>6, <1>7, <1>8, <1>9, <1>10, <1>11,
     <1>12, <1>13, <1>14, <1>15, <1>16, <1>17, <1>18, <1>19, <1>20, <1>21,
     <1>22, <1>23, <1>24, <1>25, <1>26 DEF Next, PageNext, BatchNext

(* The last form keeps its document.                                       *)
LEMMA FormsNext ==
  ASSUME TypeInv, Versions, Locks, Forms, [Next]_vars
  PROVE  Forms'
<1> USE ProcsDisjoint, NoOneAssumption, BoundsAssumption DEF Procs, store,
   session, page, request, Forms, ElementOfForm, FormInSession, FormInHand,
   Uncrossed, Versions, ClosedHasNone, TakenGiven, TakenOnce, NumberGiven,
   NumberOrTaken, NumberOnce, Locks, UnderWay, TypeInv, EditTypeOK, Kinds,
   Saves, Events, Docs, Steps, Ops
<1>1. ASSUME NEW p \in Pages, NEW k \in Kinds, NEW s \in Sessions, Select(p, k, s) PROVE Forms'
  BY <1>1 DEF Select, Close
<1>2. ASSUME NEW p \in Pages, Number(p) PROVE Forms'
  <2>1. ElementOfForm'
    BY <1>2 DEF Number, NewVersion, TakeVersion
  <2>2. FormInSession'
    BY <1>2 DEF Number, NewVersion, TakeVersion
  <2>3. FormInHand'
    BY <1>2 DEF Number, NewVersion, TakeVersion
  <2> QED
    BY <2>1, <2>2, <2>3 DEF Forms
<1>3. ASSUME NEW p \in Pages, Store(p) PROVE Forms'
  <2>1. ElementOfForm'
    BY <1>3 DEF Store, Answer, Mark, OnScreen, SameSession
  <2>2. FormInSession'
    BY <1>3 DEF Store, Answer, Mark, OnScreen, SameSession
  <2>3. FormInHand'
    BY <1>3 DEF Store, Answer, Mark, OnScreen, SameSession
  <2> QED
    BY <2>1, <2>2, <2>3 DEF Forms
<1>4. ASSUME NEW p \in Pages, TakeCopy(p) PROVE Forms'
  <2>1. ElementOfForm'
    BY <1>4 DEF TakeCopy, Change
  <2>2. FormInSession'
    BY <1>4 DEF TakeCopy, Change
  <2>3. FormInHand'
    <3> SUFFICES ASSUME NEW q \in Pages, Uncrossed(q)', (step[q] = "element")'
                 PROVE  (doc[q] = shown[q])'
      OBVIOUS
    <3>1. Uncrossed(q)
      BY <1>4 DEF TakeCopy
    <3>2. CASE q = p
      <4>1. copy[owner[p]] = shown[p]
        BY <1>4, <3>1, <3>2 DEF TakeCopy
      <4> QED
        BY <1>4, <3>2, <4>1 DEF TakeCopy
    <3>3. CASE q # p
      BY <1>4, <3>1, <3>3 DEF TakeCopy
    <3> QED
      BY <3>2, <3>3
  <2> QED
    BY <2>1, <2>2, <2>3 DEF Forms
<1>5. ASSUME NEW p \in Pages, PutCopy(p) PROVE Forms'
  <2>1. ElementOfForm'
    BY <1>5 DEF PutCopy, Answer, Mark, OnScreen, SameSession
  <2>2. FormInSession'
    BY <1>5 DEF PutCopy, Answer, Mark, OnScreen, SameSession
  <2>3. FormInHand'
    BY <1>5 DEF PutCopy, Answer, Mark, OnScreen, SameSession
  <2> QED
    BY <2>1, <2>2, <2>3 DEF Forms
<1>6. ASSUME NEW p \in Pages, NEW o \in Saves, Check(p, o) PROVE Forms'
  BY <1>6 DEF Check, Accepted, Change
<1>7. ASSUME NEW p \in Pages, Write(p) PROVE Forms'
  BY <1>7 DEF Write, WriteRow, NewVersion, TakeVersion
<1>8. ASSUME NEW p \in Pages, WriteFails(p) PROVE Forms'
  BY <1>8 DEF WriteFails, Answer
<1>9. ASSUME NEW p \in Pages, CheckThumb(p) PROVE Forms'
  BY <1>9 DEF CheckThumb
<1>10. ASSUME NEW p \in Pages, ReadThumb(p) PROVE Forms'
  BY <1>10 DEF ReadThumb, Change
<1>11. ASSUME NEW p \in Pages, WriteThumb(p) PROVE Forms'
  BY <1>11 DEF WriteThumb, WriteRow, NewVersion, TakeVersion
<1>12. ASSUME NEW p \in Pages, ThumbGone(p) PROVE Forms'
  <2>1. ElementOfForm'
    BY <1>12 DEF ThumbGone, NewVersion, TakeVersion
  <2>2. FormInSession'
    BY <1>12 DEF ThumbGone, NewVersion, TakeVersion
  <2>3. FormInHand'
    BY <1>12 DEF ThumbGone, NewVersion, TakeVersion
  <2> QED
    BY <2>1, <2>2, <2>3 DEF Forms
<1>13. ASSUME NEW p \in Pages, CommitForward(p) PROVE Forms'
  BY <1>13 DEF CommitForward, CommitRow, Spread, OnScreen
<1>14. ASSUME NEW p \in Pages, CommitFinish(p) PROVE Forms'
  <2>1. ElementOfForm'
    BY <1>14 DEF CommitFinish, CommitRow, Spread, OnScreen, Answer, Close
  <2>2. FormInSession'
    BY <1>14 DEF CommitFinish, CommitRow, Spread, OnScreen, Answer, Close
  <2>3. FormInHand'
    BY <1>14 DEF CommitFinish, CommitRow, Spread, OnScreen, Answer, Close
  <2> QED
    BY <2>1, <2>2, <2>3 DEF Forms
<1>15. ASSUME NEW p \in Pages, CommitThumbnails(p) PROVE Forms'
  <2>1. ElementOfForm'
    BY <1>15 DEF CommitThumbnails, CommitRow, Spread, OnScreen, Answer
  <2>2. FormInSession'
    BY <1>15 DEF CommitThumbnails, CommitRow, Spread, OnScreen, Answer
  <2>3. FormInHand'
    BY <1>15 DEF CommitThumbnails, CommitRow, Spread, OnScreen, Answer
  <2> QED
    BY <2>1, <2>2, <2>3 DEF Forms
<1>16. ASSUME NEW p \in Pages, Abort(p) PROVE Forms'
  BY <1>16 DEF Abort, Answer
<1>17. ASSUME NEW p \in Pages, ShowThumb(p) PROVE Forms'
  BY <1>17 DEF ShowThumb, NewVersion, Answer
<1>18. ASSUME NEW p \in Pages, ForwardFails(p) PROVE Forms'
  BY <1>18 DEF ForwardFails, Answer
<1>19. ASSUME NEW p \in Pages, Cancel(p) PROVE Forms'
  BY <1>19 DEF Cancel, Close
<1>20. ASSUME NEW b \in Batches, BatchRead(b) PROVE Forms'
  BY <1>20 DEF BatchRead, Change
<1>21. ASSUME NEW b \in Batches, BatchWrite(b) PROVE Forms'
  BY <1>21 DEF BatchWrite, WriteRow
<1>22. ASSUME NEW b \in Batches, BatchCommit(b) PROVE Forms'
  BY <1>22 DEF BatchCommit, CommitRow, Answer, Mark, OnScreen
<1>23. ASSUME NEW b \in Batches, Delete(b) PROVE Forms'
  BY <1>23 DEF Delete, WriteRow
<1>24. ASSUME NEW b \in Batches, DeleteCommit(b) PROVE Forms'
  BY <1>24 DEF DeleteCommit, Answer
<1>25. ASSUME Restart PROVE Forms'
  BY <1>25 DEF Restart, Mark, OnScreen
<1>26. ASSUME UNCHANGED vars PROVE Forms'
  BY <1>26 DEF vars
<1> HIDE DEF Procs, store, session, page, request, Forms, ElementOfForm,
   FormInSession, FormInHand, Uncrossed, Versions, ClosedHasNone, TakenGiven,
   TakenOnce, NumberGiven, NumberOrTaken, NumberOnce, Locks, UnderWay, TypeInv,
   EditTypeOK, Kinds, Saves, Events, Docs, Steps, Ops
<1> QED
  BY <1>1, <1>2, <1>3, <1>4, <1>5, <1>6, <1>7, <1>8, <1>9, <1>10, <1>11,
     <1>12, <1>13, <1>14, <1>15, <1>16, <1>17, <1>18, <1>19, <1>20, <1>21,
     <1>22, <1>23, <1>24, <1>25, <1>26 DEF Next, PageNext, BatchNext

(* A save is applied to the document the form shows.                       *)
LEMMA AppliesNext ==
  ASSUME TypeInv, Locks, Forms, AppliesToPageShown, [Next]_vars
  PROVE  AppliesToPageShown'
<1> USE ProcsDisjoint, NoOneAssumption, BoundsAssumption DEF Procs, store,
   session, page, request, AppliesToPageShown, Forms, ElementOfForm,
   FormInSession, FormInHand, Uncrossed, Locks, UnderWay, TypeInv, Made,
   EditTypeOK, Kinds, Saves, Events, Docs, Steps, Ops
<1>1. ASSUME NEW p \in Pages, NEW k \in Kinds, NEW s \in Sessions, Select(p, k, s) PROVE AppliesToPageShown'
  <2> SUFFICES ASSUME NEW q \in Pages, UnderWay(q)', (op[q] \in Saves)', (shows[q] = "form")',
                      ("crossed" \notin hit[q])', ("restart" \notin hit[q])'
               PROVE  (\E c \in 1..changes : c \notin shown[q] /\ doc[q] = shown[q] \cup {c})'
    BY SMTT(30) DEF AppliesToPageShown
  <2>1. CASE q = p
    BY <1>1, <2>1 DEF Select, Close
  <2>2. CASE q # p
    <3>1. UnderWay(q) /\ op[q] \in Saves /\ shows[q] = "form"
      BY <1>1, <2>2 DEF Select, Close
    <3>2. "crossed" \notin hit[q] /\ "restart" \notin hit[q]
      BY <1>1, <2>2 DEF Select, Close
    <3>3. /\ shown'[q] = shown[q] /\ doc'[q] = doc[q]
          /\ changes \in Nat /\ changes' \in Nat /\ changes <= changes'
      BY <1>1, <2>2 DEF Select, Close
    <3> QED
      BY <3>1, <3>2, <3>3
  <2> QED
    BY <2>1, <2>2
<1>2. ASSUME NEW p \in Pages, Number(p) PROVE AppliesToPageShown'
  <2> SUFFICES ASSUME NEW q \in Pages, UnderWay(q)', (op[q] \in Saves)', (shows[q] = "form")',
                      ("crossed" \notin hit[q])', ("restart" \notin hit[q])'
               PROVE  (\E c \in 1..changes : c \notin shown[q] /\ doc[q] = shown[q] \cup {c})'
    BY SMTT(30) DEF AppliesToPageShown
  <2>1. CASE q = p
    BY <1>2, <2>1 DEF Number, NewVersion, TakeVersion
  <2>2. CASE q # p
    <3>1. UnderWay(q) /\ op[q] \in Saves /\ shows[q] = "form"
      BY <1>2, <2>2 DEF Number, NewVersion, TakeVersion
    <3>2. "crossed" \notin hit[q] /\ "restart" \notin hit[q]
      BY <1>2, <2>2 DEF Number, NewVersion, TakeVersion
    <3>3. /\ shown'[q] = shown[q] /\ doc'[q] = doc[q]
          /\ changes \in Nat /\ changes' \in Nat /\ changes <= changes'
      BY <1>2, <2>2 DEF Number, NewVersion, TakeVersion
    <3> QED
      BY <3>1, <3>2, <3>3
  <2> QED
    BY <2>1, <2>2
<1>3. ASSUME NEW p \in Pages, Store(p) PROVE AppliesToPageShown'
  BY <1>3 DEF Store, Answer, Mark, OnScreen, SameSession
<1>4. ASSUME NEW p \in Pages, TakeCopy(p) PROVE AppliesToPageShown'
  <2> SUFFICES ASSUME NEW q \in Pages, UnderWay(q)', (op[q] \in Saves)', (shows[q] = "form")',
                      ("crossed" \notin hit[q])', ("restart" \notin hit[q])'
               PROVE  (\E c \in 1..changes : c \notin shown[q] /\ doc[q] = shown[q] \cup {c})'
    BY SMTT(30) DEF AppliesToPageShown
  <2>1. CASE q = p
    BY <1>4, <2>1 DEF TakeCopy, Change
  <2>2. CASE q # p
    <3>1. UnderWay(q) /\ op[q] \in Saves /\ shows[q] = "form"
      BY <1>4, <2>2 DEF TakeCopy, Change
    <3>2. "crossed" \notin hit[q] /\ "restart" \notin hit[q]
      BY <1>4, <2>2 DEF TakeCopy, Change
    <3>3. /\ shown'[q] = shown[q] /\ doc'[q] = doc[q]
          /\ changes \in Nat /\ changes' \in Nat /\ changes <= changes'
      BY <1>4, <2>2 DEF TakeCopy, Change
    <3> QED
      BY <3>1, <3>2, <3>3
  <2> QED
    BY <2>1, <2>2
<1>5. ASSUME NEW p \in Pages, PutCopy(p) PROVE AppliesToPageShown'
  <2> SUFFICES ASSUME NEW q \in Pages, UnderWay(q)', (op[q] \in Saves)', (shows[q] = "form")',
                      ("crossed" \notin hit[q])', ("restart" \notin hit[q])'
               PROVE  (\E c \in 1..changes : c \notin shown[q] /\ doc[q] = shown[q] \cup {c})'
    BY SMTT(30) DEF AppliesToPageShown
  <2>1. CASE q = p
    BY <1>5, <2>1 DEF PutCopy, Answer, Mark, OnScreen, SameSession
  <2>2. CASE q # p
    <3>1. UnderWay(q) /\ op[q] \in Saves /\ shows[q] = "form"
      BY <1>5, <2>2 DEF PutCopy, Answer, Mark, OnScreen, SameSession
    <3>2. "crossed" \notin hit[q] /\ "restart" \notin hit[q]
      BY <1>5, <2>2 DEF PutCopy, Answer, Mark, OnScreen, SameSession
    <3>3. /\ shown'[q] = shown[q] /\ doc'[q] = doc[q]
          /\ changes \in Nat /\ changes' \in Nat /\ changes <= changes'
      BY <1>5, <2>2 DEF PutCopy, Answer, Mark, OnScreen, SameSession
    <3> QED
      BY <3>1, <3>2, <3>3
  <2> QED
    BY <2>1, <2>2
<1>6. ASSUME NEW p \in Pages, NEW o \in Saves, Check(p, o) PROVE AppliesToPageShown'
  <2> SUFFICES ASSUME NEW q \in Pages, UnderWay(q)', (op[q] \in Saves)', (shows[q] = "form")',
                      ("crossed" \notin hit[q])', ("restart" \notin hit[q])'
               PROVE  (\E c \in 1..changes : c \notin shown[q] /\ doc[q] = shown[q] \cup {c})'
    BY SMTT(30) DEF AppliesToPageShown
  <2>1. CASE q = p
    BY <1>6, <2>1 DEF Check, Accepted, Change
  <2>2. CASE q # p
    <3>1. UnderWay(q) /\ op[q] \in Saves /\ shows[q] = "form"
      BY <1>6, <2>2 DEF Check, Accepted, Change
    <3>2. "crossed" \notin hit[q] /\ "restart" \notin hit[q]
      BY <1>6, <2>2 DEF Check, Accepted, Change
    <3>3. /\ shown'[q] = shown[q] /\ doc'[q] = doc[q]
          /\ changes \in Nat /\ changes' \in Nat /\ changes <= changes'
      BY <1>6, <2>2 DEF Check, Accepted, Change
    <3> QED
      BY <3>1, <3>2, <3>3
  <2> QED
    BY <2>1, <2>2
<1>7. ASSUME NEW p \in Pages, Write(p) PROVE AppliesToPageShown'
  BY <1>7 DEF Write, WriteRow, NewVersion, TakeVersion
<1>8. ASSUME NEW p \in Pages, WriteFails(p) PROVE AppliesToPageShown'
  BY <1>8 DEF WriteFails, Answer
<1>9. ASSUME NEW p \in Pages, CheckThumb(p) PROVE AppliesToPageShown'
  BY <1>9 DEF CheckThumb
<1>10. ASSUME NEW p \in Pages, ReadThumb(p) PROVE AppliesToPageShown'
  BY <1>10 DEF ReadThumb, Change
<1>11. ASSUME NEW p \in Pages, WriteThumb(p) PROVE AppliesToPageShown'
  BY <1>11 DEF WriteThumb, WriteRow, NewVersion, TakeVersion
<1>12. ASSUME NEW p \in Pages, ThumbGone(p) PROVE AppliesToPageShown'
  BY <1>12 DEF ThumbGone, NewVersion, TakeVersion
<1>13. ASSUME NEW p \in Pages, CommitForward(p) PROVE AppliesToPageShown'
  <2> SUFFICES ASSUME NEW q \in Pages, UnderWay(q)', (op[q] \in Saves)', (shows[q] = "form")',
                      ("crossed" \notin hit[q])', ("restart" \notin hit[q])'
               PROVE  (\E c \in 1..changes : c \notin shown[q] /\ doc[q] = shown[q] \cup {c})'
    BY SMTT(30) DEF AppliesToPageShown
  <2>1. CASE q = p
    BY <1>13, <2>1 DEF CommitForward, CommitRow, Spread, OnScreen
  <2>2. CASE q # p
    <3>1. UnderWay(q) /\ op[q] \in Saves /\ shows[q] = "form"
      BY <1>13, <2>2 DEF CommitForward, CommitRow, Spread, OnScreen
    <3>2. "crossed" \notin hit[q] /\ "restart" \notin hit[q]
      BY <1>13, <2>2 DEF CommitForward, CommitRow, Spread, OnScreen
    <3>3. /\ shown'[q] = shown[q] /\ doc'[q] = doc[q]
          /\ changes \in Nat /\ changes' \in Nat /\ changes <= changes'
      BY <1>13, <2>2 DEF CommitForward, CommitRow, Spread, OnScreen
    <3> QED
      BY <3>1, <3>2, <3>3
  <2> QED
    BY <2>1, <2>2
<1>14. ASSUME NEW p \in Pages, CommitFinish(p) PROVE AppliesToPageShown'
  <2> SUFFICES ASSUME NEW q \in Pages, UnderWay(q)', (op[q] \in Saves)', (shows[q] = "form")',
                      ("crossed" \notin hit[q])', ("restart" \notin hit[q])'
               PROVE  (\E c \in 1..changes : c \notin shown[q] /\ doc[q] = shown[q] \cup {c})'
    BY SMTT(30) DEF AppliesToPageShown
  <2>1. CASE q = p
    BY <1>14, <2>1 DEF CommitFinish, CommitRow, Spread, OnScreen, Answer, Close
  <2>2. CASE q # p
    <3>1. UnderWay(q) /\ op[q] \in Saves /\ shows[q] = "form"
      BY <1>14, <2>2 DEF CommitFinish, CommitRow, Spread, OnScreen, Answer, Close
    <3>2. "crossed" \notin hit[q] /\ "restart" \notin hit[q]
      BY <1>14, <2>2 DEF CommitFinish, CommitRow, Spread, OnScreen, Answer, Close
    <3>3. /\ shown'[q] = shown[q] /\ doc'[q] = doc[q]
          /\ changes \in Nat /\ changes' \in Nat /\ changes <= changes'
      BY <1>14, <2>2 DEF CommitFinish, CommitRow, Spread, OnScreen, Answer, Close
    <3> QED
      BY <3>1, <3>2, <3>3
  <2> QED
    BY <2>1, <2>2
<1>15. ASSUME NEW p \in Pages, CommitThumbnails(p) PROVE AppliesToPageShown'
  <2> SUFFICES ASSUME NEW q \in Pages, UnderWay(q)', (op[q] \in Saves)', (shows[q] = "form")',
                      ("crossed" \notin hit[q])', ("restart" \notin hit[q])'
               PROVE  (\E c \in 1..changes : c \notin shown[q] /\ doc[q] = shown[q] \cup {c})'
    BY SMTT(30) DEF AppliesToPageShown
  <2>1. CASE q = p
    BY <1>15, <2>1 DEF CommitThumbnails, CommitRow, Spread, OnScreen, Answer
  <2>2. CASE q # p
    <3>1. UnderWay(q) /\ op[q] \in Saves /\ shows[q] = "form"
      BY <1>15, <2>2 DEF CommitThumbnails, CommitRow, Spread, OnScreen, Answer
    <3>2. "crossed" \notin hit[q] /\ "restart" \notin hit[q]
      BY <1>15, <2>2 DEF CommitThumbnails, CommitRow, Spread, OnScreen, Answer
    <3>3. /\ shown'[q] = shown[q] /\ doc'[q] = doc[q]
          /\ changes \in Nat /\ changes' \in Nat /\ changes <= changes'
      BY <1>15, <2>2 DEF CommitThumbnails, CommitRow, Spread, OnScreen, Answer
    <3> QED
      BY <3>1, <3>2, <3>3
  <2> QED
    BY <2>1, <2>2
<1>16. ASSUME NEW p \in Pages, Abort(p) PROVE AppliesToPageShown'
  BY <1>16 DEF Abort, Answer
<1>17. ASSUME NEW p \in Pages, ShowThumb(p) PROVE AppliesToPageShown'
  BY <1>17 DEF ShowThumb, NewVersion, Answer
<1>18. ASSUME NEW p \in Pages, ForwardFails(p) PROVE AppliesToPageShown'
  BY <1>18 DEF ForwardFails, Answer
<1>19. ASSUME NEW p \in Pages, Cancel(p) PROVE AppliesToPageShown'
  BY <1>19 DEF Cancel, Close
<1>20. ASSUME NEW b \in Batches, BatchRead(b) PROVE AppliesToPageShown'
  BY <1>20 DEF BatchRead, Change
<1>21. ASSUME NEW b \in Batches, BatchWrite(b) PROVE AppliesToPageShown'
  BY <1>21 DEF BatchWrite, WriteRow
<1>22. ASSUME NEW b \in Batches, BatchCommit(b) PROVE AppliesToPageShown'
  BY <1>22 DEF BatchCommit, CommitRow, Answer, Mark, OnScreen
<1>23. ASSUME NEW b \in Batches, Delete(b) PROVE AppliesToPageShown'
  BY <1>23 DEF Delete, WriteRow
<1>24. ASSUME NEW b \in Batches, DeleteCommit(b) PROVE AppliesToPageShown'
  BY <1>24 DEF DeleteCommit, Answer
<1>25. ASSUME Restart PROVE AppliesToPageShown'
  BY <1>25 DEF Restart, Mark, OnScreen
<1>26. ASSUME UNCHANGED vars PROVE AppliesToPageShown'
  BY <1>26 DEF vars
<1> HIDE DEF Procs, store, session, page, request, AppliesToPageShown, Forms,
   ElementOfForm, FormInSession, FormInHand, Uncrossed, Locks, UnderWay,
   TypeInv, Made, EditTypeOK, Kinds, Saves, Events, Docs, Steps, Ops
<1> QED
  BY <1>1, <1>2, <1>3, <1>4, <1>5, <1>6, <1>7, <1>8, <1>9, <1>10, <1>11,
     <1>12, <1>13, <1>14, <1>15, <1>16, <1>17, <1>18, <1>19, <1>20, <1>21,
     <1>22, <1>23, <1>24, <1>25, <1>26 DEF Next, PageNext, BatchNext

(* What is committed is in every document that may still replace it.       *)
LEMMA KeepsNext ==
  ASSUME TypeInv, Versions, Locks, Forms, Keeps, [Next]_vars
  PROVE  Keeps'
<1> USE ProcsDisjoint, NoOneAssumption, BoundsAssumption DEF Procs, store,
   session, page, request, Keeps, SaveHasRow, PageHasRow, OpeningHasRow,
   LastIsWarned, SaveIsWarned, ThumbIsWarned, Last, Spreads, Versions,
   ClosedHasNone, TakenGiven, TakenOnce, NumberGiven, NumberOrTaken, NumberOnce,
   Forms, ElementOfForm, FormInSession, FormInHand, Uncrossed, Locks, UnderWay,
   TypeInv, EditTypeOK, Kinds, Saves, Events, Docs, Steps, Ops
<1>1. ASSUME NEW p \in Pages, NEW k \in Kinds, NEW s \in Sessions, Select(p, k, s) PROVE Keeps'
  <2>1. SaveHasRow'
    BY <1>1, SMTT(30) DEF Select, Close
  <2>2. PageHasRow'
    BY <1>1 DEF Select, Close
  <2>3. OpeningHasRow'
    <3> SUFFICES ASSUME NEW q \in Pages, (step[q] = "numbered")', (taken[q] = version)', (hit[q] = {})', (exists)'
                 PROVE  (row \subseteq doc[q])'
      OBVIOUS
    <3>1. CASE q = p
      BY <1>1, <3>1, SMTT(30) DEF Select, Close
    <3>2. CASE q # p
      <4>1. step[q] = "numbered" /\ taken[q] = version /\ hit[q] = {} /\ exists
        BY <1>1, <3>2 DEF Select, Close
      <4>2. row \subseteq doc[q]
        BY <4>1
      <4> QED
        BY <1>1, <3>2, <4>1, <4>2 DEF Select, Close
    <3> QED
      BY <3>1, <3>2
  <2>4. LastIsWarned'
    BY <1>1 DEF Select, Close
  <2>5. SaveIsWarned'
    BY <1>1 DEF Select, Close
  <2>6. ThumbIsWarned'
    BY <1>1 DEF Select, Close
  <2> QED
    BY <2>1, <2>2, <2>3, <2>4, <2>5, <2>6 DEF Keeps
<1>2. ASSUME NEW p \in Pages, Number(p) PROVE Keeps'
  <2>1. SaveHasRow'
    BY <1>2, SMTT(30) DEF Number, NewVersion, TakeVersion
  <2>2. PageHasRow'
    BY <1>2 DEF Number, NewVersion, TakeVersion
  <2>3. OpeningHasRow'
    <3> SUFFICES ASSUME NEW q \in Pages, (step[q] = "numbered")', (taken[q] = version)', (hit[q] = {})', (exists)'
                 PROVE  (row \subseteq doc[q])'
      OBVIOUS
    <3>1. CASE q = p
      <4>1. row = doc[p]
        BY <1>2, <3>1 DEF Number
      <4> QED
        BY <1>2, <3>1, <4>1 DEF Number
    <3>2. CASE q # p
      <4>1. step[q] = "numbered" /\ taken[q] = version /\ hit[q] = {} /\ exists
        BY <1>2, <3>2 DEF Number, NewVersion, TakeVersion
      <4>2. row \subseteq doc[q]
        BY <4>1
      <4> QED
        BY <1>2, <3>2, <4>1, <4>2 DEF Number, NewVersion, TakeVersion
    <3> QED
      BY <3>1, <3>2
  <2>4. LastIsWarned'
    <3> SUFFICES ASSUME NEW r \in Pages, NEW q \in Pages, r # q,
                        (Last(r))', (hit[r] = {})', (UnderWay(q))'
                 PROVE  (Spreads(q))'
      OBVIOUS
    <3>1. CASE r = p
      BY <1>2, <3>1 DEF Number, NewVersion, TakeVersion
    <3>2. CASE q = p
      BY <1>2, <3>2 DEF Number, NewVersion, TakeVersion
    <3>3. CASE r # p /\ q # p
      BY <1>2, <3>3, SMTT(30) DEF Number, NewVersion, TakeVersion
    <3> QED
      BY <3>1, <3>2, <3>3
  <2>5. SaveIsWarned'
    BY <1>2 DEF Number, NewVersion, TakeVersion
  <2>6. ThumbIsWarned'
    BY <1>2 DEF Number, NewVersion, TakeVersion
  <2> QED
    BY <2>1, <2>2, <2>3, <2>4, <2>5, <2>6 DEF Keeps
<1>3. ASSUME NEW p \in Pages, Store(p) PROVE Keeps'
  <2>1. SaveHasRow'
    BY <1>3 DEF Store, Answer, Mark, OnScreen, SameSession
  <2>2. PageHasRow'
    <3> SUFFICES ASSUME NEW q \in Pages, (shows[q] \in Kinds)', (number[q] = version)', (hit[q] = {})', (exists)', (step[q] # "forward")'
                 PROVE  (row \subseteq shown[q])'
      OBVIOUS
    <3>1. CASE q = p
      BY <1>3, <3>1 DEF Store, Answer, Mark, OnScreen, SameSession
    <3>2. CASE q # p
      <4>1. shows[q] \in Kinds /\ number[q] = version /\ hit[q] = {} /\ exists /\ step[q] # "forward"
        BY <1>3, <3>2 DEF Store, Answer, Mark, OnScreen, SameSession
      <4>2. row \subseteq shown[q]
        BY <4>1
      <4> QED
        BY <1>3, <3>2, <4>1, <4>2 DEF Store, Answer, Mark, OnScreen, SameSession
    <3> QED
      BY <3>1, <3>2
  <2>3. OpeningHasRow'
    BY <1>3 DEF Store, Answer, Mark, OnScreen, SameSession
  <2>4. LastIsWarned'
    BY <1>3 DEF Store, Answer, Mark, OnScreen, SameSession
  <2>5. SaveIsWarned'
    BY <1>3 DEF Store, Answer, Mark, OnScreen, SameSession
  <2>6. ThumbIsWarned'
    BY <1>3 DEF Store, Answer, Mark, OnScreen, SameSession
  <2> QED
    BY <2>1, <2>2, <2>3, <2>4, <2>5, <2>6 DEF Keeps
<1>4. ASSUME NEW p \in Pages, TakeCopy(p) PROVE Keeps'
  <2>1. SaveHasRow'
    BY <1>4, SMTT(30) DEF TakeCopy, Change
  <2>2. PageHasRow'
    BY <1>4 DEF TakeCopy, Change
  <2>3. OpeningHasRow'
    BY <1>4 DEF TakeCopy, Change
  <2>4. LastIsWarned'
    BY <1>4 DEF TakeCopy, Change
  <2>5. SaveIsWarned'
    BY <1>4 DEF TakeCopy, Change
  <2>6. ThumbIsWarned'
    BY <1>4 DEF TakeCopy, Change
  <2> QED
    BY <2>1, <2>2, <2>3, <2>4, <2>5, <2>6 DEF Keeps
<1>5. ASSUME NEW p \in Pages, PutCopy(p) PROVE Keeps'
  <2>1. SaveHasRow'
    BY <1>5, SMTT(30) DEF PutCopy, Answer, Mark, OnScreen, SameSession
  <2>2. PageHasRow'
    BY <1>5 DEF PutCopy, Answer, Mark, OnScreen, SameSession
  <2>3. OpeningHasRow'
    BY <1>5 DEF PutCopy, Answer, Mark, OnScreen, SameSession
  <2>4. LastIsWarned'
    BY <1>5 DEF PutCopy, Answer, Mark, OnScreen, SameSession
  <2>5. SaveIsWarned'
    BY <1>5 DEF PutCopy, Answer, Mark, OnScreen, SameSession
  <2>6. ThumbIsWarned'
    BY <1>5 DEF PutCopy, Answer, Mark, OnScreen, SameSession
  <2> QED
    BY <2>1, <2>2, <2>3, <2>4, <2>5, <2>6 DEF Keeps
<1>6. ASSUME NEW p \in Pages, NEW o \in Saves, Check(p, o) PROVE Keeps'
  <2>1. SaveHasRow'
    <3> SUFFICES ASSUME NEW q \in Pages, UnderWay(q)', (hit[q] = {})', exists'
                 PROVE  (row \subseteq doc[q])'
      OBVIOUS
    <3>1. CASE q = p
      <4>1. /\ hit[p] = {} /\ exists /\ number[p] = version
            /\ shows[p] \in Kinds /\ step[p] = "idle"
            /\ shows[p] = "form" => held[owner[p]] = "live"
        BY <1>6, <3>1 DEF Check, Accepted
      <4>2. row \subseteq shown[p]
        BY <4>1
      <4>3. shows[p] = "form" => copy[owner[p]] = shown[p]
        BY <4>1
      <4>4. doc'[p] = (IF shows[p] = "form" THEN copy[owner[p]] ELSE shown[p]) \cup {changes + 1}
        BY <1>6 DEF Check, Change
      <4> QED
        BY <1>6, <3>1, <4>2, <4>3, <4>4 DEF Check
    <3>2. CASE q # p
      BY <1>6, <3>2 DEF Check, Change
    <3> QED
      BY <3>1, <3>2
  <2>2. PageHasRow'
    BY <1>6 DEF Check, Accepted, Change
  <2>3. OpeningHasRow'
    BY <1>6 DEF Check, Accepted, Change
  <2>4. LastIsWarned'
    BY <1>6 DEF Check, Accepted, Change
  <2>5. SaveIsWarned'
    BY <1>6 DEF Check, Accepted, Change
  <2>6. ThumbIsWarned'
    BY <1>6 DEF Check, Accepted, Change
  <2> QED
    BY <2>1, <2>2, <2>3, <2>4, <2>5, <2>6 DEF Keeps
<1>7. ASSUME NEW p \in Pages, Write(p) PROVE Keeps'
  BY <1>7 DEF Write, WriteRow, NewVersion, TakeVersion
<1>8. ASSUME NEW p \in Pages, WriteFails(p) PROVE Keeps'
  <2>1. SaveHasRow'
    BY <1>8, SMTT(30) DEF WriteFails, Answer
  <2>2. PageHasRow'
    BY <1>8 DEF WriteFails, Answer
  <2>3. OpeningHasRow'
    BY <1>8 DEF WriteFails, Answer
  <2>4. LastIsWarned'
    BY <1>8 DEF WriteFails, Answer
  <2>5. SaveIsWarned'
    BY <1>8 DEF WriteFails, Answer
  <2>6. ThumbIsWarned'
    BY <1>8 DEF WriteFails, Answer
  <2> QED
    BY <2>1, <2>2, <2>3, <2>4, <2>5, <2>6 DEF Keeps
<1>9. ASSUME NEW p \in Pages, CheckThumb(p) PROVE Keeps'
  <2>1. SaveHasRow'
    BY <1>9, SMTT(30) DEF CheckThumb
  <2>2. PageHasRow'
    BY <1>9 DEF CheckThumb
  <2>3. OpeningHasRow'
    BY <1>9 DEF CheckThumb
  <2>4. LastIsWarned'
    BY <1>9 DEF CheckThumb
  <2>5. SaveIsWarned'
    BY <1>9 DEF CheckThumb
  <2>6. ThumbIsWarned'
    BY <1>9 DEF CheckThumb
  <2> QED
    BY <2>1, <2>2, <2>3, <2>4, <2>5, <2>6 DEF Keeps
<1>10. ASSUME NEW p \in Pages, ReadThumb(p) PROVE Keeps'
  <2>1. SaveHasRow'
    BY <1>10, SMTT(30) DEF ReadThumb, Change
  <2>2. PageHasRow'
    BY <1>10 DEF ReadThumb, Change
  <2>3. OpeningHasRow'
    BY <1>10 DEF ReadThumb, Change
  <2>4. LastIsWarned'
    BY <1>10 DEF ReadThumb, Change
  <2>5. SaveIsWarned'
    <3> SUFFICES ASSUME NEW r \in Pages, NEW q \in Pages, r # q,
                        (UnderWay(r))', (hit[r] = {})', (UnderWay(q))'
                 PROVE  (Spreads(q) \/ step[r] = "written")'
      OBVIOUS
    <3>1. CASE r = p
      BY <1>10, <3>1 DEF ReadThumb, Change
    <3>2. CASE q = p
      BY <1>10, <3>2 DEF ReadThumb, Change
    <3>3. CASE r # p /\ q # p
      BY <1>10, <3>3, SMTT(30) DEF ReadThumb, Change
    <3> QED
      BY <3>1, <3>2, <3>3
  <2>6. ThumbIsWarned'
    <3> SUFFICES ASSUME NEW r \in Pages, NEW q \in Pages, r # q,
                        (Last(r))', (step[q] = "checked")', (op[q] = "setthumb")', (hit[q] = {})'
                 PROVE  (Spreads(r))'
      OBVIOUS
    <3>1. CASE r = p
      BY <1>10, <3>1 DEF ReadThumb, Change
    <3>2. CASE q = p
      <4>1. number[p] = version /\ hit[p] = {} /\ hit' = hit
        <5>1. "unlocked" \notin hit'[p]
          BY <3>2
        <5>2. hit' # [hit EXCEPT ![p] = @ \cup {"unlocked"}]
          BY <5>1
        <5>3. number[p] = version /\ hit' = hit
          BY <1>10, <5>2 DEF ReadThumb
        <5> QED
          BY <3>2, <5>3
      <4>2. Last(r)
        BY <1>10, <3>2 DEF ReadThumb
      <4>3. "restart" \in hit[r]
        <5>1. version # 0
          OBVIOUS
        <5> QED
          BY <3>2, <4>1, <4>2, <5>1
      <4> QED
        BY <4>1, <4>3
    <3>3. CASE r # p /\ q # p
      BY <1>10, <3>3, SMTT(30) DEF ReadThumb, Change
    <3> QED
      BY <3>1, <3>2, <3>3
  <2> QED
    BY <2>1, <2>2, <2>3, <2>4, <2>5, <2>6 DEF Keeps
<1>11. ASSUME NEW p \in Pages, WriteThumb(p) PROVE Keeps'
  BY <1>11, SMTT(30) DEF WriteThumb, WriteRow, NewVersion, TakeVersion
<1>12. ASSUME NEW p \in Pages, ThumbGone(p) PROVE Keeps'
  <2>1. SaveHasRow'
    BY <1>12, SMTT(30) DEF ThumbGone, NewVersion, TakeVersion
  <2>2. PageHasRow'
    BY <1>12 DEF ThumbGone, NewVersion, TakeVersion
  <2>3. OpeningHasRow'
    BY <1>12 DEF ThumbGone, NewVersion, TakeVersion
  <2>4. LastIsWarned'
    BY <1>12 DEF ThumbGone, NewVersion, TakeVersion
  <2>5. SaveIsWarned'
    BY <1>12 DEF ThumbGone, NewVersion, TakeVersion
  <2>6. ThumbIsWarned'
    BY <1>12 DEF ThumbGone, NewVersion, TakeVersion
  <2> QED
    BY <2>1, <2>2, <2>3, <2>4, <2>5, <2>6 DEF Keeps
<1>13. ASSUME NEW p \in Pages, CommitForward(p) PROVE Keeps'
  BY <1>13 DEF CommitForward, CommitRow, Spread, OnScreen
<1>14. ASSUME NEW p \in Pages, CommitFinish(p) PROVE Keeps'
  <2>1. SaveHasRow'
    BY <1>14, SMTT(30) DEF CommitFinish, CommitRow, Spread, OnScreen, Answer,
       Close
  <2>2. PageHasRow'
    <3> SUFFICES ASSUME NEW q \in Pages, (shows[q] \in Kinds)', (number[q] = version)', (hit[q] = {})', (exists)', (step[q] # "forward")'
                 PROVE  (row \subseteq shown[q])'
      OBVIOUS
    <3>1. CASE q = p
      BY <1>14, <3>1, SMTT(30) DEF CommitFinish, CommitRow, Spread, OnScreen,
         Answer, Close
    <3>2. CASE q # p
      <4>1. shows[q] \in Kinds /\ number[q] = version /\ hit[q] = {} /\ exists /\ step[q] # "forward"
        BY <1>14, <3>2 DEF CommitFinish, CommitRow, Spread, OnScreen, Answer,
           Close
      <4>2. Last(q) /\ UnderWay(p)
        BY <1>14, <4>1 DEF CommitFinish, CommitRow
      <4>3. Spreads(p)
        BY <3>2, <4>1, <4>2
      <4>4. OnScreen(q)
        BY <4>1 DEF OnScreen
      <4>5. hit'[q] = hit[q] \cup (hit[p] \cap {"restart", "unlocked"})
        BY <1>14, <3>2, <4>4 DEF CommitFinish, Spread
      <4> QED
        BY <4>3, <4>5
    <3> QED
      BY <3>1, <3>2
  <2>3. OpeningHasRow'
    <3> SUFFICES ASSUME NEW q \in Pages, (step[q] = "numbered")', (taken[q] = version)', (hit[q] = {})', (exists)'
                 PROVE  (row \subseteq doc[q])'
      OBVIOUS
    <3>1. CASE q = p
      BY <1>14, <3>1, SMTT(30) DEF CommitFinish, CommitRow, Spread, OnScreen,
         Answer, Close
    <3>2. CASE q # p
      <4>1. step[q] = "numbered" /\ taken[q] = version /\ hit[q] = {} /\ exists
        BY <1>14, <3>2 DEF CommitFinish, CommitRow, Spread, OnScreen, Answer,
           Close
      <4>2. Last(q) /\ UnderWay(p)
        BY <1>14, <4>1 DEF CommitFinish, CommitRow
      <4>3. Spreads(p)
        BY <3>2, <4>1, <4>2
      <4>4. OnScreen(q)
        BY <4>1 DEF OnScreen
      <4>5. hit'[q] = hit[q] \cup (hit[p] \cap {"restart", "unlocked"})
        BY <1>14, <3>2, <4>4 DEF CommitFinish, Spread
      <4> QED
        BY <4>3, <4>5
    <3> QED
      BY <3>1, <3>2
  <2>4. LastIsWarned'
    BY <1>14 DEF CommitFinish, CommitRow, Spread, OnScreen, Answer, Close
  <2>5. SaveIsWarned'
    BY <1>14 DEF CommitFinish, CommitRow, Spread, OnScreen, Answer, Close
  <2>6. ThumbIsWarned'
    BY <1>14 DEF CommitFinish, CommitRow, Spread, OnScreen, Answer, Close
  <2> QED
    BY <2>1, <2>2, <2>3, <2>4, <2>5, <2>6 DEF Keeps
<1>15. ASSUME NEW p \in Pages, CommitThumbnails(p) PROVE Keeps'
  <2>1. SaveHasRow'
    BY <1>15, SMTT(30) DEF CommitThumbnails, CommitRow, Spread, OnScreen, Answer
  <2>2. PageHasRow'
    <3> SUFFICES ASSUME NEW q \in Pages, (shows[q] \in Kinds)', (number[q] = version)', (hit[q] = {})', (exists)', (step[q] # "forward")'
                 PROVE  (row \subseteq shown[q])'
      OBVIOUS
    <3>1. CASE q = p
      BY <1>15, <3>1, SMTT(30) DEF CommitThumbnails, CommitRow, Spread,
         OnScreen, Answer
    <3>2. CASE q # p
      <4>1. shows[q] \in Kinds /\ number[q] = version /\ hit[q] = {} /\ exists /\ step[q] # "forward"
        BY <1>15, <3>2 DEF CommitThumbnails, CommitRow, Spread, OnScreen, Answer
      <4>2. Last(q) /\ UnderWay(p)
        BY <1>15, <4>1 DEF CommitThumbnails, CommitRow
      <4>3. Spreads(p)
        BY <3>2, <4>1, <4>2
      <4>4. OnScreen(q)
        BY <4>1 DEF OnScreen
      <4>5. hit'[q] = hit[q] \cup (hit[p] \cap {"restart", "unlocked"})
        BY <1>15, <3>2, <4>4 DEF CommitThumbnails, Spread
      <4> QED
        BY <4>3, <4>5
    <3> QED
      BY <3>1, <3>2
  <2>3. OpeningHasRow'
    <3> SUFFICES ASSUME NEW q \in Pages, (step[q] = "numbered")', (taken[q] = version)', (hit[q] = {})', (exists)'
                 PROVE  (row \subseteq doc[q])'
      OBVIOUS
    <3>1. CASE q = p
      BY <1>15, <3>1, SMTT(30) DEF CommitThumbnails, CommitRow, Spread,
         OnScreen, Answer
    <3>2. CASE q # p
      <4>1. step[q] = "numbered" /\ taken[q] = version /\ hit[q] = {} /\ exists
        BY <1>15, <3>2 DEF CommitThumbnails, CommitRow, Spread, OnScreen, Answer
      <4>2. Last(q) /\ UnderWay(p)
        BY <1>15, <4>1 DEF CommitThumbnails, CommitRow
      <4>3. Spreads(p)
        BY <3>2, <4>1, <4>2
      <4>4. OnScreen(q)
        BY <4>1 DEF OnScreen
      <4>5. hit'[q] = hit[q] \cup (hit[p] \cap {"restart", "unlocked"})
        BY <1>15, <3>2, <4>4 DEF CommitThumbnails, Spread
      <4> QED
        BY <4>3, <4>5
    <3> QED
      BY <3>1, <3>2
  <2>4. LastIsWarned'
    BY <1>15 DEF CommitThumbnails, CommitRow, Spread, OnScreen, Answer
  <2>5. SaveIsWarned'
    BY <1>15 DEF CommitThumbnails, CommitRow, Spread, OnScreen, Answer
  <2>6. ThumbIsWarned'
    BY <1>15 DEF CommitThumbnails, CommitRow, Spread, OnScreen, Answer
  <2> QED
    BY <2>1, <2>2, <2>3, <2>4, <2>5, <2>6 DEF Keeps
<1>16. ASSUME NEW p \in Pages, Abort(p) PROVE Keeps'
  <2>1. SaveHasRow'
    BY <1>16, SMTT(30) DEF Abort, Answer
  <2>2. PageHasRow'
    BY <1>16 DEF Abort, Answer
  <2>3. OpeningHasRow'
    BY <1>16 DEF Abort, Answer
  <2>4. LastIsWarned'
    BY <1>16 DEF Abort, Answer
  <2>5. SaveIsWarned'
    BY <1>16 DEF Abort, Answer
  <2>6. ThumbIsWarned'
    BY <1>16 DEF Abort, Answer
  <2> QED
    BY <2>1, <2>2, <2>3, <2>4, <2>5, <2>6 DEF Keeps
<1>17. ASSUME NEW p \in Pages, ShowThumb(p) PROVE Keeps'
  <2>1. SaveHasRow'
    BY <1>17, SMTT(30) DEF ShowThumb, NewVersion, Answer
  <2>2. PageHasRow'
    BY <1>17 DEF ShowThumb, NewVersion, Answer
  <2>3. OpeningHasRow'
    BY <1>17 DEF ShowThumb, NewVersion, Answer
  <2>4. LastIsWarned'
    BY <1>17 DEF ShowThumb, NewVersion, Answer
  <2>5. SaveIsWarned'
    BY <1>17 DEF ShowThumb, NewVersion, Answer
  <2>6. ThumbIsWarned'
    BY <1>17 DEF ShowThumb, NewVersion, Answer
  <2> QED
    BY <2>1, <2>2, <2>3, <2>4, <2>5, <2>6 DEF Keeps
<1>18. ASSUME NEW p \in Pages, ForwardFails(p) PROVE Keeps'
  <2>1. SaveHasRow'
    BY <1>18, SMTT(30) DEF ForwardFails, Answer
  <2>2. PageHasRow'
    BY <1>18 DEF ForwardFails, Answer
  <2>3. OpeningHasRow'
    BY <1>18 DEF ForwardFails, Answer
  <2>4. LastIsWarned'
    BY <1>18 DEF ForwardFails, Answer
  <2>5. SaveIsWarned'
    BY <1>18 DEF ForwardFails, Answer
  <2>6. ThumbIsWarned'
    BY <1>18 DEF ForwardFails, Answer
  <2> QED
    BY <2>1, <2>2, <2>3, <2>4, <2>5, <2>6 DEF Keeps
<1>19. ASSUME NEW p \in Pages, Cancel(p) PROVE Keeps'
  <2>1. SaveHasRow'
    BY <1>19, SMTT(30) DEF Cancel, Close
  <2>2. PageHasRow'
    BY <1>19 DEF Cancel, Close
  <2>3. OpeningHasRow'
    BY <1>19 DEF Cancel, Close
  <2>4. LastIsWarned'
    BY <1>19 DEF Cancel, Close
  <2>5. SaveIsWarned'
    BY <1>19 DEF Cancel, Close
  <2>6. ThumbIsWarned'
    BY <1>19 DEF Cancel, Close
  <2> QED
    BY <2>1, <2>2, <2>3, <2>4, <2>5, <2>6 DEF Keeps
<1>20. ASSUME NEW b \in Batches, BatchRead(b) PROVE Keeps'
  <2>1. SaveHasRow'
    BY <1>20, SMTT(30) DEF BatchRead, Change
  <2>2. PageHasRow'
    BY <1>20 DEF BatchRead, Change
  <2>3. OpeningHasRow'
    BY <1>20 DEF BatchRead, Change
  <2>4. LastIsWarned'
    BY <1>20 DEF BatchRead, Change
  <2>5. SaveIsWarned'
    BY <1>20 DEF BatchRead, Change
  <2>6. ThumbIsWarned'
    BY <1>20 DEF BatchRead, Change
  <2> QED
    BY <2>1, <2>2, <2>3, <2>4, <2>5, <2>6 DEF Keeps
<1>21. ASSUME NEW b \in Batches, BatchWrite(b) PROVE Keeps'
  BY <1>21 DEF BatchWrite, WriteRow
<1>22. ASSUME NEW b \in Batches, BatchCommit(b) PROVE Keeps'
  BY <1>22 DEF BatchCommit, CommitRow, Answer, Mark, OnScreen
<1>23. ASSUME NEW b \in Batches, Delete(b) PROVE Keeps'
  <2>1. SaveHasRow'
    BY <1>23, SMTT(30) DEF Delete, WriteRow
  <2>2. PageHasRow'
    BY <1>23 DEF Delete, WriteRow
  <2>3. OpeningHasRow'
    BY <1>23 DEF Delete, WriteRow
  <2>4. LastIsWarned'
    BY <1>23 DEF Delete, WriteRow
  <2>5. SaveIsWarned'
    BY <1>23 DEF Delete, WriteRow
  <2>6. ThumbIsWarned'
    BY <1>23 DEF Delete, WriteRow
  <2> QED
    BY <2>1, <2>2, <2>3, <2>4, <2>5, <2>6 DEF Keeps
<1>24. ASSUME NEW b \in Batches, DeleteCommit(b) PROVE Keeps'
  <2>1. SaveHasRow'
    BY <1>24, SMTT(30) DEF DeleteCommit, Answer
  <2>2. PageHasRow'
    BY <1>24 DEF DeleteCommit, Answer
  <2>3. OpeningHasRow'
    BY <1>24 DEF DeleteCommit, Answer
  <2>4. LastIsWarned'
    BY <1>24 DEF DeleteCommit, Answer
  <2>5. SaveIsWarned'
    BY <1>24 DEF DeleteCommit, Answer
  <2>6. ThumbIsWarned'
    BY <1>24 DEF DeleteCommit, Answer
  <2> QED
    BY <2>1, <2>2, <2>3, <2>4, <2>5, <2>6 DEF Keeps
<1>25. ASSUME Restart PROVE Keeps'
  BY <1>25 DEF Restart, Mark, OnScreen
<1>26. ASSUME UNCHANGED vars PROVE Keeps'
  BY <1>26 DEF vars
<1> HIDE DEF Procs, store, session, page, request, Keeps, SaveHasRow,
   PageHasRow, OpeningHasRow, LastIsWarned, SaveIsWarned, ThumbIsWarned, Last,
   Spreads, Versions, ClosedHasNone, TakenGiven, TakenOnce, NumberGiven,
   NumberOrTaken, NumberOnce, Forms, ElementOfForm, FormInSession, FormInHand,
   Uncrossed, Locks, UnderWay, TypeInv, EditTypeOK, Kinds, Saves, Events, Docs,
   Steps, Ops
<1> QED
  BY <1>1, <1>2, <1>3, <1>4, <1>5, <1>6, <1>7, <1>8, <1>9, <1>10, <1>11,
     <1>12, <1>13, <1>14, <1>15, <1>16, <1>17, <1>18, <1>19, <1>20, <1>21,
     <1>22, <1>23, <1>24, <1>25, <1>26 DEF Next, PageNext, BatchNext

(* The initial state satisfies the invariant.                              *)
LEMMA InitInv == Init => IInv
<1> SUFFICES ASSUME Init PROVE IInv
  OBVIOUS
<1> USE BoundsAssumption DEF Init, Procs
<1>1. TypeInv
  BY DEF TypeInv, Made, EditTypeOK, Kinds, Saves, Events, Docs, Steps, Ops
<1>2. Versions
  BY DEF Versions, ClosedHasNone, TakenGiven, TakenOnce, NumberGiven,
     NumberOrTaken, NumberOnce
<1>3. Locks
  BY DEF Locks, UnderWay
<1>4. Forms
  BY DEF Forms, ElementOfForm, FormInSession, FormInHand, Uncrossed
<1>5. AppliesToPageShown
  BY DEF AppliesToPageShown, UnderWay
<1>6. Keeps
  BY DEF Keeps, SaveHasRow, PageHasRow, OpeningHasRow, LastIsWarned,
     SaveIsWarned, ThumbIsWarned, Last, UnderWay, Kinds
<1> QED
  BY <1>1, <1>2, <1>3, <1>4, <1>5, <1>6 DEF IInv

(* The invariant is inductive.                                             *)
LEMMA NextInv == IInv /\ [Next]_vars => IInv'
<1> SUFFICES ASSUME IInv, [Next]_vars PROVE IInv'
  OBVIOUS
<1>1. TypeInv /\ Versions /\ Locks /\ Forms /\ AppliesToPageShown /\ Keeps
  BY DEF IInv
<1> QED
  BY <1>1, TypeNext, VersionsNext, LocksNext, FormsNext, AppliesNext, KeepsNext
     DEF IInv

(* The invariant holds in every reachable state.                           *)
LEMMA Invariant == Spec => []IInv
  BY InitInv, NextInv, PTL DEF Spec

(* Type correctness of the store, the sessions, the pages and the requests *)
(* of the metadata editor.                                                 *)
THEOREM EditTypeCorrect == Spec => []EditTypeOK
<1>1. IInv => EditTypeOK
  BY DEF IInv, TypeInv
<1> QED
  BY Invariant, <1>1, PTL

(* A version of EditLib is the last one for a single page only, for every  *)
(* number of pages and whatever the order of their requests.               *)
THEOREM OneHolder == Spec => []UniqueHolder
<1>1. IInv => UniqueHolder
  <2> SUFFICES ASSUME IInv, NEW p \in Pages, NEW q \in Pages, p # q,
                      number[p] = version, number[q] = version,
                      "restart" \notin hit[p], "restart" \notin hit[q]
               PROVE  FALSE
    BY DEF UniqueHolder
  <2>1. number[p] = 0
    BY DEF IInv, Versions, NumberOnce
  <2>2. version # 0
    BY BoundsAssumption DEF IInv, TypeInv, EditTypeOK
  <2> QED
    BY <2>1, <2>2
<1> QED
  BY Invariant, <1>1, PTL

(* A save the version check lets through replaces no change it does not    *)
(* contain, but for the events SavesKeepChanges names.                     *)
THEOREM NoLostChange == Spec => []SavesKeepChanges
<1>1. IInv => SavesKeepChanges
  BY DEF IInv, Keeps, SaveHasRow, UnderWay, SavesKeepChanges
<1> QED
  BY Invariant, <1>1, PTL

(* A save of the form is applied to the document the form shows, but for   *)
(* crossing requests of its session and a restart.                         *)
THEOREM AppliedToTheForm == Spec => []AppliesToPageShown
<1>1. IInv => AppliesToPageShown
  BY DEF IInv
<1> QED
  BY Invariant, <1>1, PTL
=============================================================================
