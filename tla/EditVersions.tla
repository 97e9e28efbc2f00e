---------------------------- MODULE EditVersions ----------------------------
(***************************************************************************)
(* One metadata record and everybody who writes it: the pages of the       *)
(* metadata editor, the thumbnail page, the services that write without a  *)
(* version (batch processing, CSW transactions, harvesters) and the        *)
(* removal of the record.                                                  *)
(*                                                                         *)
(* The editor is optimistic.  EditLib keeps in memory a version number     *)
(* of each record; every page that is opened for editing takes a new one,  *)
(* and a save is accepted if the number of its page is still the last one  *)
(* given.  A save writes the whole document, so it must not be built on a  *)
(* copy that lacks a change of somebody else.                              *)
(*                                                                         *)
(* A document is abstracted to the set of the changes it contains.  A page *)
(* shows the "form" (the server keeps the document in the user's session)  *)
(* or the "xml" text (the page carries the document itself), or is the     *)
(* "thumb" page of the thumbnails.                                         *)
(***************************************************************************)
EXTENDS Integers, FiniteSets

CONSTANTS
  Pages,        \* browser pages
  Sessions,     \* user sessions
  Batches,      \* requests that write the record without a version
  NoOne,        \* nobody holds the monitor or the row
  MaxVersion,   \* bound of the version counter
  MaxOpened,    \* bound of the version under which a page is still opened
  MaxChanges    \* bound of the number of changes

ASSUME NoOneAssumption == NoOne \notin Pages \cup Batches
ASSUME ProcsDisjoint == Pages \cap Batches = {}
ASSUME BoundsAssumption == MaxVersion \in Nat \ {0} /\ MaxOpened \in Nat /\ MaxChanges \in Nat

Procs == Pages \cup Batches

VARIABLES
  row,          \* the committed document
  exists,       \* whether the record is in the table
  writer,       \* whose uncommitted write holds the row, or NoOne
  version,      \* EditLib.htVersions of the record
  monitor,      \* who is in a synchronized method of DataManager
  held,         \* held[s]: what the session keeps: "none", "live", "stripped"
  copy,         \* copy[s]: the document the session keeps
  owner,        \* owner[p]: the session in which the page was asked for
  shows,        \* shows[p]: what the page is
  shown,        \* shown[p]: the document the page was built from
  number,       \* number[p]: the version in the hidden field of the page
  step,         \* step[q]: how far the request has come
  op,           \* op[q]: the service that was called
  doc,          \* doc[q]: the document the request has in hand
  taken,        \* taken[q]: the version the request has taken
  changes,      \* how many changes have been made
  hit           \* hit[p]: what has happened to the page (see SavesKeepChanges)

store   == <<row, exists, writer>>
session == <<held, copy>>
page    == <<owner, shows, shown, number>>
request == <<step, op, doc, taken>>
vars    == <<store, version, monitor, session, page, request, changes, hit>>

Kinds    == {"form", "xml"}
Saves    == {"update", "finish", "thumbnails"}
Events   == {"overtaken", "unversioned", "restart", "crossed", "unlocked"}
Docs     == SUBSET (1..MaxChanges)
Steps    == {"idle", "selected", "numbered", "element", "checked", "written", "thumb", "forward"}
Ops      == Kinds \cup Saves \cup {"none", "setthumb", "batch", "delete"}

(***************************************************************************)
(* EditLib.getVersion: a record without an entry has version 1, and every  *)
(* new version is one more.                                                *)
(***************************************************************************)
NewVersion ==
  /\ version < MaxVersion
  /\ version' = version + 1

\* Mutant: the version is read, and not incremented.
TakeVersionBug(p) ==
  /\ taken' = [taken EXCEPT ![p] = version]
  /\ UNCHANGED version

TakeVersion(p) ==
  /\ NewVersion
  /\ taken' = [taken EXCEPT ![p] = version + 1]

\* A save that has been checked and is not committed yet.
UnderWay(q) == step[q] \in {"checked", "written"}

\* A page that is in a browser, or on its way there.
OnScreen(p) == shows[p] # "closed" \/ step[p] # "idle"

\* Mark adds an event to the history of some pages.
Mark(who, event) ==
  hit' = [p \in Pages |-> IF p \in who /\ OnScreen(p) THEN hit[p] \cup {event} ELSE hit[p]]

SameSession(p, q) == owner[p] = owner[q]

\* The request ends, and what it had in hand is gone.
Answer(q) ==
  /\ step' = [step EXCEPT ![q] = "idle"]
  /\ op' = [op EXCEPT ![q] = "none"]
  /\ doc' = [doc EXCEPT ![q] = {}]
  /\ taken' = [taken EXCEPT ![q] = 0]

\* The page is left.
Close(p) ==
  /\ shows' = [shows EXCEPT ![p] = "closed"]
  /\ shown' = [shown EXCEPT ![p] = {}]
  /\ number' = [number EXCEPT ![p] = 0]

Change == changes + 1

-----------------------------------------------------------------------------
Init ==
  /\ row = {}
  /\ exists = TRUE
  /\ writer = NoOne
  /\ version = 1
  /\ monitor = NoOne
  /\ held = [s \in Sessions |-> "none"]
  /\ copy = [s \in Sessions |-> {}]
  /\ owner \in [Pages -> Sessions]
  /\ shows = [p \in Pages |-> "closed"]
  /\ shown = [p \in Pages |-> {}]
  /\ number = [p \in Pages |-> 0]
  /\ step = [q \in Procs |-> "idle"]
  /\ op = [q \in Procs |-> "none"]
  /\ doc = [q \in Procs |-> {}]
  /\ taken = [q \in Procs |-> 0]
  /\ changes = 0
  /\ hit = [p \in Pages |-> {}]

-----------------------------------------------------------------------------
(* Opening a page: the request metadata.edit, called by the user, by the   *)
(* reset button (metadata.update.forget), or by the forward of a save.     *)

\* DataManager.getMetadata reads the record: no lock, no monitor.  The page
\* the browser showed is left; the user may have logged in again.
Select(p, k, s) ==
  /\ \/ step[p] = "idle"
     \/ step[p] = "forward" /\ k = shows[p] /\ s = owner[p]
  /\ exists
  /\ version < MaxOpened
  /\ step' = [step EXCEPT ![p] = "selected"]
  /\ op' = [op EXCEPT ![p] = k]
  /\ doc' = [doc EXCEPT ![p] = row]
  /\ Close(p)
  /\ owner' = [owner EXCEPT ![p] = s]
  /\ hit' = [hit EXCEPT ![p] = {}]
  /\ UNCHANGED <<store, version, monitor, session, taken, changes>>

\* getVersionForEditing gives the page its version.  From here on every
\* other page is out of date.
Number(p) ==
  /\ step[p] = "selected"
  /\ TakeVersion(p)
  /\ step' = [step EXCEPT ![p] = "numbered"]
  /\ hit' = [q \in Pages |->
       IF q = p
         THEN IF row # doc[p] \/ \E r \in Pages : UnderWay(r)
                THEN hit[p] \cup {"overtaken"} ELSE hit[p]
         ELSE IF UnderWay(q) /\ op[q] = "setthumb"
                THEN hit[q] \cup {"unlocked"} ELSE hit[q]]
  /\ UNCHANGED <<store, monitor, session, page, op, doc, changes>>

\* Mutant: a document that the session already keeps stays there.
StoreBug(p) ==
  LET s == owner[p]
      later == {q \in Pages : SameSession(p, q) /\ shows[q] = "form" /\ number[q] > taken[p]}
  IN /\ step[p] = "numbered"
     /\ held' = [held EXCEPT ![s] = "live"]
     /\ copy' = [copy EXCEPT ![s] = IF held[s] = "live" THEN @ ELSE doc[p]]
     /\ shows' = [shows EXCEPT ![p] = op[p]]
     /\ shown' = [shown EXCEPT ![p] = doc[p]]
     /\ number' = [number EXCEPT ![p] = taken[p]]
     /\ Answer(p)
     /\ Mark(later, "crossed")
     /\ UNCHANGED <<store, version, monitor, owner, changes>>

\* getMetadataEmbedded puts the document in the session and the page is
\* sent.  A form of the same session that was numbered later and is already
\* there has lost its document to this page.
Store(p) ==
  LET s == owner[p]
      later == {q \in Pages : SameSession(p, q) /\ shows[q] = "form" /\ number[q] > taken[p]}
  IN /\ step[p] = "numbered"
     /\ held' = [held EXCEPT ![s] = "live"]
     /\ copy' = [copy EXCEPT ![s] = doc[p]]
     /\ shows' = [shows EXCEPT ![p] = op[p]]
     /\ shown' = [shown EXCEPT ![p] = doc[p]]
     /\ number' = [number EXCEPT ![p] = taken[p]]
     /\ Answer(p)
     /\ Mark(later, "crossed")
     /\ UNCHANGED <<store, version, monitor, owner, changes>>

-----------------------------------------------------------------------------
(* Adding, removing and moving an element of the form: the synchronized    *)
(* methods take the document out of the session and put a clone back.      *)

TakeCopy(p) ==
  /\ step[p] = "idle" /\ shows[p] = "form"
  /\ exists
  /\ monitor = NoOne
  /\ held[owner[p]] = "live"
  /\ changes < MaxChanges
  /\ monitor' = p
  /\ step' = [step EXCEPT ![p] = "element"]
  /\ changes' = Change
  /\ doc' = [doc EXCEPT ![p] = copy[owner[p]] \cup {Change}]
  /\ shown' = [shown EXCEPT ![p] = @ \cup {Change}]
  /\ UNCHANGED <<store, version, session, owner, shows, number, op, taken, hit>>

\* What another request has put there in the meantime is replaced, and the
\* other forms of the session do not show the new element.
PutCopy(p) ==
  LET s == owner[p]
      replaced == ~ copy[s] \subseteq doc[p]
  IN /\ step[p] = "element"
     /\ monitor' = NoOne
     /\ held' = [held EXCEPT ![s] = "live"]
     /\ copy' = [copy EXCEPT ![s] = doc[p]]
     /\ Answer(p)
     /\ Mark({q \in Pages : SameSession(p, q) /\ (q # p \/ replaced)}, "crossed")
     /\ UNCHANGED <<store, version, page, changes>>

-----------------------------------------------------------------------------
(* Saving: metadata.update, metadata.update.finish, and the thumbnails     *)
(* button, whose service saves the form first.                             *)

\* Mutant: the version is compared for the form only, not for the text.
AcceptedBug(p) ==
  /\ exists
  /\ shows[p] = "form" => number[p] = version /\ held[owner[p]] = "live"

\* Whether updateMetadata accepts the request.  Without a document in the
\* session, or with one whose references were already removed by a save
\* that failed, the method throws.
Accepted(p) ==
  /\ exists
  /\ number[p] = version
  /\ shows[p] = "form" => held[owner[p]] = "live"

\* updateMetadataEmbedded applies the form to the document of the session,
\* in place, and removes the references; the text of an "xml" page is the
\* document itself.
Check(p, o) ==
  LET s == owner[p]
  IN /\ step[p] = "idle" /\ shows[p] \in Kinds /\ o \in Saves
     /\ o = "thumbnails" => shows[p] = "form"
     /\ monitor = NoOne
     /\ changes < MaxChanges
     /\ Accepted(p)
     /\ monitor' = p
     /\ step' = [step EXCEPT ![p] = "checked"]
     /\ op' = [op EXCEPT ![p] = o]
     /\ changes' = Change
     /\ doc' = [doc EXCEPT ![p] =
          (IF shows[p] = "form" THEN copy[s] ELSE shown[p]) \cup {Change}]
     /\ IF shows[p] = "form"
          THEN /\ held' = [held EXCEPT ![s] = "stripped"]
               /\ copy' = [copy EXCEPT ![s] = @ \cup {Change}]
          ELSE UNCHANGED session
     /\ UNCHANGED <<store, version, page, taken, hit>>

\* The database locks the row until the end of the transaction.
WriteRow(q) ==
  /\ writer = NoOne
  /\ writer' = q
  /\ UNCHANGED <<row, exists>>

\* XmlSerializer.update, still in the monitor; metadata.update.finish then
\* forgets the document of the session, and the thumbnails service takes a
\* version, both before the commit.
Write(p) ==
  /\ step[p] = "checked" /\ op[p] \in Saves
  /\ WriteRow(p)
  /\ monitor' = NoOne
  /\ step' = [step EXCEPT ![p] = "written"]
  /\ IF op[p] = "finish"
       THEN /\ held' = [held EXCEPT ![owner[p]] = "none"]
            /\ copy' = [copy EXCEPT ![owner[p]] = {}]
       ELSE UNCHANGED session
  /\ IF op[p] = "thumbnails" THEN TakeVersion(p) ELSE UNCHANGED <<version, taken>>
  /\ UNCHANGED <<page, op, doc, changes, hit>>

\* The statement, the notifier or the index throws: the request is aborted.
WriteFails(p) ==
  /\ step[p] = "checked" /\ op[p] \in Saves
  /\ monitor' = NoOne
  /\ Answer(p)
  /\ UNCHANGED <<store, version, session, page, changes, hit>>

-----------------------------------------------------------------------------
(* The thumbnail page: metadata.thumbnail.set and unset, which check the   *)
(* version but are not synchronized.                                       *)

CheckThumb(p) ==
  /\ step[p] = "idle" /\ shows[p] = "thumb"
  /\ exists /\ number[p] = version
  /\ step' = [step EXCEPT ![p] = "thumb"]
  /\ op' = [op EXCEPT ![p] = "setthumb"]
  /\ UNCHANGED <<store, version, monitor, session, page, doc, taken, changes, hit>>

\* manageThumbnail reads the record ...
ReadThumb(p) ==
  /\ step[p] = "thumb"
  /\ exists
  /\ changes < MaxChanges
  /\ step' = [step EXCEPT ![p] = "checked"]
  /\ changes' = Change
  /\ doc' = [doc EXCEPT ![p] = row \cup {Change}]
  /\ hit' = IF number[p] # version \/ (\E q \in Pages \ {p} : UnderWay(q))
              THEN [hit EXCEPT ![p] = @ \cup {"unlocked"}] ELSE hit
  /\ UNCHANGED <<store, version, monitor, session, page, op, taken>>

\* ... and writes it; the service takes a version before the commit.
WriteThumb(p) ==
  /\ step[p] = "checked" /\ op[p] = "setthumb"
  /\ WriteRow(p)
  /\ TakeVersion(p)
  /\ step' = [step EXCEPT ![p] = "written"]
  /\ UNCHANGED <<monitor, session, page, op, doc, changes, hit>>

\* The record has been removed: manageThumbnail returns without a word.
ThumbGone(p) ==
  /\ step[p] = "thumb"
  /\ ~ exists
  /\ TakeVersion(p)
  /\ step' = [step EXCEPT ![p] = "forward"]
  /\ UNCHANGED <<store, monitor, session, page, op, doc, changes, hit>>

-----------------------------------------------------------------------------
(* The end of a request: ServiceInfo.execService commits or aborts, and    *)
(* only then forwards.                                                     *)

\* An update of a record that is gone changes no row, and is committed.
CommitRow(q) ==
  /\ step[q] = "written"
  /\ writer' = NoOne
  /\ row' = IF exists THEN doc[q] ELSE row
  /\ UNCHANGED exists

\* What has happened to the writer has happened to the pages it overtakes.
Spread(p, own) ==
  [q \in Pages |->
     IF q = p THEN own
     ELSE IF OnScreen(q) THEN hit[q] \cup (hit[p] \cap {"restart", "unlocked"})
     ELSE hit[q]]

CommitForward(p) ==
  /\ op[p] \in {"update", "setthumb"}
  /\ CommitRow(p)
  /\ step' = [step EXCEPT ![p] = "forward"]
  /\ hit' = Spread(p, hit[p])
  /\ UNCHANGED <<version, monitor, session, page, op, doc, taken, changes>>

CommitFinish(p) ==
  /\ op[p] = "finish"
  /\ CommitRow(p)
  /\ Answer(p)
  /\ Close(p)
  /\ hit' = Spread(p, {})
  /\ UNCHANGED <<version, monitor, session, owner, changes>>

\* The answer of metadata.thumbnail.form is the thumbnail page.
CommitThumbnails(p) ==
  /\ op[p] = "thumbnails"
  /\ CommitRow(p)
  /\ Answer(p)
  /\ shows' = [shows EXCEPT ![p] = "thumb"]
  /\ shown' = [shown EXCEPT ![p] = {}]
  /\ number' = [number EXCEPT ![p] = taken[p]]
  /\ hit' = Spread(p, {})
  /\ UNCHANGED <<version, monitor, session, owner, changes>>

\* The commit is refused: an error answer, and the browser keeps the page.
Abort(p) ==
  /\ step[p] = "written"
  /\ writer' = NoOne
  /\ Answer(p)
  /\ UNCHANGED <<row, exists, version, monitor, session, page, changes, hit>>

\* The forward to metadata.thumbnail.form takes one more for the new page.
ShowThumb(p) ==
  /\ step[p] = "forward" /\ op[p] = "setthumb"
  /\ exists
  /\ NewVersion
  /\ number' = [number EXCEPT ![p] = version + 1]
  /\ Answer(p)
  /\ hit' = [hit EXCEPT ![p] = {}]
  /\ UNCHANGED <<store, monitor, session, owner, shows, shown, changes>>

\* The forwarded service does not find the record.
ForwardFails(p) ==
  /\ step[p] = "forward"
  /\ ~ exists
  /\ Answer(p)
  /\ UNCHANGED <<store, version, monitor, session, page, changes, hit>>

\* metadata.update.forgetandfinish, the cancel button.
Cancel(p) ==
  /\ step[p] = "idle" /\ shows[p] \in Kinds
  /\ exists
  /\ held' = [held EXCEPT ![owner[p]] = "none"]
  /\ copy' = [copy EXCEPT ![owner[p]] = {}]
  /\ Close(p)
  /\ hit' = [hit EXCEPT ![p] = {}]
  /\ UNCHANGED <<store, version, monitor, owner, request, changes>>

-----------------------------------------------------------------------------
(* The writers without a version: updateMetadataExt (harvesters, CSW,      *)
(* children of a record, XSL processing) takes neither the monitor nor a   *)
(* version.  deleteMetadata takes the monitor.                             *)

BatchRead(b) ==
  /\ step[b] = "idle"
  /\ exists
  /\ changes < MaxChanges
  /\ step' = [step EXCEPT ![b] = "checked"]
  /\ op' = [op EXCEPT ![b] = "batch"]
  /\ changes' = Change
  /\ doc' = [doc EXCEPT ![b] = row \cup {Change}]
  /\ UNCHANGED <<store, version, monitor, session, page, taken, hit>>

BatchWrite(b) ==
  /\ step[b] = "checked"
  /\ WriteRow(b)
  /\ step' = [step EXCEPT ![b] = "written"]
  /\ UNCHANGED <<version, monitor, session, page, op, doc, taken, changes, hit>>

\* No page is told.
BatchCommit(b) ==
  /\ op[b] = "batch"
  /\ CommitRow(b)
  /\ Answer(b)
  /\ Mark(Pages, "unversioned")
  /\ UNCHANGED <<version, monitor, session, page, changes>>

Delete(b) ==
  /\ step[b] = "idle"
  /\ exists
  /\ monitor = NoOne
  /\ WriteRow(b)
  /\ step' = [step EXCEPT ![b] = "written"]
  /\ op' = [op EXCEPT ![b] = "delete"]
  /\ UNCHANGED <<version, monitor, session, page, doc, taken, changes, hit>>

DeleteCommit(b) ==
  /\ step[b] = "written" /\ op[b] = "delete"
  /\ writer' = NoOne
  /\ exists' = FALSE
  /\ Answer(b)
  /\ UNCHANGED <<row, version, monitor, session, page, changes, hit>>

-----------------------------------------------------------------------------
(* The server stops and is started again: the versions and the sessions    *)
(* were in memory, the pages are still in the browsers.                    *)

\* Mutant: the first version is 0.
RestartBug ==
  /\ writer' = NoOne
  /\ monitor' = NoOne
  /\ version' = 0
  /\ held' = [s \in Sessions |-> "none"]
  /\ copy' = [s \in Sessions |-> {}]
  /\ step' = [q \in Procs |-> "idle"]
  /\ op' = [q \in Procs |-> "none"]
  /\ doc' = [q \in Procs |-> {}]
  /\ taken' = [q \in Procs |-> 0]
  /\ Mark(Pages, "restart")
  /\ UNCHANGED <<row, exists, page, changes>>

Restart ==
  /\ writer' = NoOne
  /\ monitor' = NoOne
  /\ version' = 1
  /\ held' = [s \in Sessions |-> "none"]
  /\ copy' = [s \in Sessions |-> {}]
  /\ step' = [q \in Procs |-> "idle"]
  /\ op' = [q \in Procs |-> "none"]
  /\ doc' = [q \in Procs |-> {}]
  /\ taken' = [q \in Procs |-> 0]
  /\ Mark(Pages, "restart")
  /\ UNCHANGED <<row, exists, page, changes>>

-----------------------------------------------------------------------------
PageNext(p) ==
  \/ \E k \in Kinds, s \in Sessions : Select(p, k, s)
  \/ Number(p)
  \/ Store(p)
  \/ TakeCopy(p)
  \/ PutCopy(p)
  \/ \E o \in Saves : Check(p, o)
  \/ Write(p)
  \/ WriteFails(p)
  \/ CheckThumb(p)
  \/ ReadThumb(p)
  \/ WriteThumb(p)
  \/ ThumbGone(p)
  \/ CommitForward(p)
  \/ CommitFinish(p)
  \/ CommitThumbnails(p)
  \/ Abort(p)
  \/ ShowThumb(p)
  \/ ForwardFails(p)
  \/ Cancel(p)

BatchNext(b) ==
  \/ BatchRead(b)
  \/ BatchWrite(b)
  \/ BatchCommit(b)
  \/ Delete(b)
  \/ DeleteCommit(b)

Next ==
  \/ \E p \in Pages : PageNext(p)
  \/ \E b \in Batches : BatchNext(b)
  \/ Restart

Spec == Init /\ [][Next]_vars

-----------------------------------------------------------------------------
(* Type correctness of the state that EditLib, DataManager, the sessions,  *)
(* the pages and the requests keep; and the monitor and the row are held   *)
(* by the request that is at the step that holds them.                     *)
EditTypeOK ==
  /\ row \in Docs
  /\ exists \in BOOLEAN
  /\ writer \in Procs \cup {NoOne}
  /\ version \in 1..MaxVersion
  /\ monitor \in Pages \cup {NoOne}
  /\ held \in [Sessions -> {"none", "live", "stripped"}]
  /\ copy \in [Sessions -> Docs]
  /\ owner \in [Pages -> Sessions]
  /\ shows \in [Pages -> Kinds \cup {"closed", "thumb"}]
  /\ shown \in [Pages -> Docs]
  /\ number \in [Pages -> 0..MaxVersion]
  /\ step \in [Procs -> Steps]
  /\ op \in [Procs -> Ops]
  /\ doc \in [Procs -> Docs]
  /\ taken \in [Procs -> 0..MaxVersion]
  /\ changes \in 0..MaxChanges
  /\ hit \in [Pages -> SUBSET Events]

(* The version check does its work: a save that was accepted contains      *)
(* every change that is committed when it replaces the document, unless    *)
(* one of the events of this code came between: the page got its version   *)
(* while another save was between its check and its commit, or after the   *)
(* record had changed under its select ("overtaken"); a service that takes *)
(* no version wrote the record ("unversioned"); the versions were lost     *)
(* ("restart"); another request of the session replaced the document of    *)
(* the form ("crossed"); the thumbnail services, which are not             *)
(* synchronized, wrote the record under a stale check ("unlocked").        *)
SavesKeepChanges ==
  \A p \in Pages : step[p] = "written" /\ hit[p] = {} /\ exists => row \subseteq doc[p]

(* Two pages never both hold the last version, whatever the order in which *)
(* they were opened and sent, as long as the versions were not lost.       *)
UniqueHolder ==
  \A p, q \in Pages :
    /\ number[p] = version /\ number[q] = version
    /\ "restart" \notin hit[p] /\ "restart" \notin hit[q]
    => p = q

(* The references of a form are references into the document of the        *)
(* session, so a save must be applied to the document the page shows; the  *)
(* version protects the form from every other page but those whose         *)
(* requests crossed with its own ("crossed") and a page of before the      *)
(* restart.                                                                *)
AppliesToPageShown ==
  \A p \in Pages :
    /\ UnderWay(p) /\ op[p] \in Saves /\ shows[p] = "form"
    /\ "crossed" \notin hit[p] /\ "restart" \notin hit[p]
    => \E c \in 1..changes : c \notin shown[p] /\ doc[p] = shown[p] \cup {c}
=============================================================================
