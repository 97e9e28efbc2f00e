---------------------------- MODULE EditorSession ----------------------------
(***************************************************************************)
(* The page of the metadata editor (metadata-editor.js) and the document   *)
(* that the server keeps for it in the user's session, for one list of     *)
(* elements of the same name in one parent.                                *)
(*                                                                         *)
(* The controls + x ^ v of an element call a service that changes the      *)
(* document of the session; the handler of the answer repeats the change   *)
(* in the page and moves the controls about.  A click does not wait for    *)
(* the answer of the one before (noDoubleClick only stops clicks within    *)
(* half a second), so requests overtake each other, and so do answers.     *)
(*                                                                         *)
(* The server finds an element by its ref, a number that addElementEmbedded*)
(* makes from the greatest one in the document.  Here every element has an *)
(* identity besides, so that a ref that comes to denote another element    *)
(* can be told.  The list is the last of the record, where refs are used   *)
(* again soonest.                                                          *)
(***************************************************************************)
EXTENDS Integers, FiniteSets, SequencesExt, FiniteSetsExt

CONSTANTS
  Slots,        \* places for requests under way
  MaxElem,      \* bound of the number of elements ever made
  MaxClicks     \* bound of the number of clicks

ASSUME SlotsAssumption == Slots # {}
ASSUME BoundsAssumption == MaxElem \in Nat \ {0, 1} /\ MaxClicks \in Nat

Elems       == 1..MaxElem
Placeholder == 0      \* the geonet:child that stands for an empty list
Nothing     == -1     \* no element; no handler
Detached    == -2     \* a node of a page that has been replaced

Controls == {"+", "x", "^", "v"}
Changes  == {"add", "remove", "up", "down"}
Leaving  == {"finish", "cancel"}
Forms    == {"save", "reset"} \cup Leaving
Events   == {"overlap", "lost", "thrown", "wrong", "late", "aborted", "simple"}

VARIABLES
  doc,          \* the list in the document of the session
  ref,          \* ref[e]: the reference of e there
  sess,         \* "whole", "noinfo" (without geonet:info), "bare" (no refs)
  row,          \* the list in the database
  made,         \* how many elements have been made
  page,         \* the list in the page
  id,           \* id[e]: the reference of e in the page
  ctl,          \* ctl[e]: the controls of e that are visible
  view,         \* "open", "overlay" (disableEditForm), "blank" or "closed"
  listening,    \* whether the listener of beforeunload is there (setBunload)
  simple,       \* whether the current tab is the simple one
  min,          \* how often the element must be there at least
  current,      \* whether the page has the last version of the record
  call,         \* call[s]: the request in slot s
  hit,          \* what has happened to the page
  clicks        \* how many clicks there were

server  == <<doc, ref, sess, row, made, current>>
browser == <<page, id, ctl, view, listening, simple, min>>
vars    == <<server, browser, call, hit, clicks>>

Free == [kind |-> "none", state |-> "free", el |-> Nothing, at |-> Nothing,
         ref |-> 0, next |-> Nothing, prev |-> Nothing, list |-> <<>>,
         ctl |-> {}, alone |-> FALSE, synced |-> FALSE]

Busy   == {s \in Slots : call[s] # Free}
Quiet  == Busy = {} /\ view = "open"
Only(s) == Busy \ {s} = {}
Awaited(s) == call[s].kind \in {"add", "remove"} /\ call[s].at # Nothing

\* The opener of the window: none, as the editor is opened in trunk; a page
\* of this application; or another page, which has no $$, so that the
\* listener throws before it sets a message.
Openers == {"none", "ours", "other"}

\* Checks._onbeforeunload: whether leaving the page asks the user
Asks(opener) == listening /\ opener = "ours"

-----------------------------------------------------------------------------
(* The document of the session.                                            *)

Found(r) == \E e \in ToSet(doc) : ref[e] = r

\* Mutant: the element is found by its place.
DenotedBug(r) == IF r \in DOMAIN doc THEN doc[r] ELSE CHOOSE e \in ToSet(doc) : ref[e] = r

\* EditLib.findElement
Denoted(r) == CHOOSE e \in ToSet(doc) : ref[e] = r
Place(e, list) == CHOOSE i \in DOMAIN list : list[i] = e

\* Mutant: the references are counted.
NewRefBug == Len(doc) + 1

\* Mutant: the new element is numbered one too far.
NewRefSkips == Max({0} \cup {ref[e] : e \in ToSet(doc)}) + 2

\* EditLib.findMaximumRef, plus one
NewRef == Max({0} \cup {ref[e] : e \in ToSet(doc)}) + 1

\* What is said of elements that are no more is forgotten.
Kept(f, list, none) == [e \in DOMAIN f |-> IF e \in ToSet(list) THEN f[e] ELSE none]

\* EditLib.enumerateTree, in the order of the document
Numbered(list) == [e \in Elems |-> IF e \in ToSet(list) THEN Place(e, list) ELSE 0]

\* The controls EditLib.expandTree and the style sheet give the i-th of n.
FirstControls(i, n) ==
  (IF i = n THEN {"+"} ELSE {}) \cup (IF n > min THEN {"x"} ELSE {})
    \cup (IF i > 1 THEN {"^"} ELSE {}) \cup (IF i < n THEN {"v"} ELSE {})

\* How the page of metadata.edit shows a list.
Layout(list) == IF list = <<>> /\ ~simple THEN <<Placeholder>> ELSE list
Dressed(list) ==
  [e \in Elems \cup {Placeholder} |->
     IF e = Placeholder THEN IF list = <<>> /\ ~simple THEN {"+"} ELSE {}
     ELSE IF e \in ToSet(list) THEN FirstControls(Place(e, list), Len(list)) ELSE {}]

\* Exchange of the i-th and the j-th
Exchange(list, i, j) == [list EXCEPT ![i] = list[j], ![j] = list[i]]

-----------------------------------------------------------------------------
Init ==
  /\ \E n \in 1..2 : doc = [i \in 1..n |-> i] /\ made = n
  /\ ref = Numbered(doc)
  /\ sess = "whole"
  /\ row = doc
  /\ simple \in BOOLEAN
  /\ min \in {0, 1}
  /\ page = doc
  /\ id = ref
  /\ ctl = Dressed(doc)
  /\ view = "open"
  /\ listening = TRUE
  /\ current = TRUE
  /\ call = [s \in Slots |-> Free]
  /\ hit = {}
  /\ clicks = 0

-----------------------------------------------------------------------------
(* The nodes of the page.  Identifiers are made from the reference, and    *)
(* $() returns the first node of the page that has it.                     *)

IsOf(e, r) == IF e = Placeholder THEN r = 0 ELSE e \in Elems /\ id[e] = r
RefOf(e) == IF e = Placeholder THEN 0 ELSE id[e]
Node(list, r) ==
  IF \E i \in DOMAIN list : IsOf(list[i], r)
    THEN list[CHOOSE i \in DOMAIN list :
           IsOf(list[i], r) /\ \A j \in 1..(i - 1) : ~ IsOf(list[j], r)]
    ELSE Nothing

\* The nodes that the handlers of other requests hold keep their identifiers.
KeptIds(s, list) ==
  LET held == UNION {{call[o].at, call[o].next, call[o].prev} : o \in Slots \ {s}}
  IN [e \in Elems |-> IF e \in ToSet(list) \cup held THEN id[e] ELSE 0]

\* The node that carries the buttons which getControlsFromElement finds.
Buttons(list, e) == IF e \in {Nothing, Detached} THEN Nothing ELSE Node(list, RefOf(e))

InPage(e) == e \in ToSet(page)
Following(list, e) ==
  IF e \in ToSet(list) /\ Place(e, list) < Len(list) THEN list[Place(e, list) + 1] ELSE Nothing
Previous(list, e) ==
  IF e \in ToSet(list) /\ Place(e, list) > 1 THEN list[Place(e, list) - 1] ELSE Nothing

IsElem(e) == e \in Elems
TopElement(list, e) == ~ IsElem(Previous(list, e))
BottomElement(list, e) == ~ IsElem(Following(list, e))

SwapControls(c, a, b) == [c EXCEPT ![a] = c[b], ![b] = c[a]]

\* Mutant: the smallest number of occurrences is not looked at.
TopControlsBug(c, list, e) ==
  [c EXCEPT ![e] = IF BottomElement(list, e) THEN {"+", "x"} ELSE {"x", "v"}]

\* topControls, on the page that is left.  min is that of the schema, or 1
\* for five names that doRemoveElementAction treats so whatever the schema
\* says; the style sheet offers no x to a lone element of these either.
TopControls(c, list, e) ==
  [c EXCEPT ![e] = IF BottomElement(list, e)
                     THEN {"+"} \cup (IF min = 0 THEN {"x"} ELSE {})
                     ELSE {"x", "v"}]

\* setAddControls: the new element is the last, the one before no more.
SetAddControls(c, list, e) ==
  LET p == Previous(list, e)
  IN [c EXCEPT ![e] = {"+", "x", "^"},
               ![p] = IF TopElement(list, p) THEN {"x", "v"} ELSE {"x", "^", "v"}]

-----------------------------------------------------------------------------
(* Clicks.                                                                 *)

Send(s, c) ==
  /\ call[s] = Free
  /\ clicks < MaxClicks
  /\ clicks' = clicks + 1
  /\ call' = [call EXCEPT ![s] = c]

\* A control of an element: the onclick runs noDoubleClick, which takes
\* the listener away (doMoveElementAction registers it again at once), and
\* finds the node by its identifier.
ClickControl(s, e, kind) ==
  LET node == Node(page, RefOf(e))
      control == CASE kind = "add" -> "+" [] kind = "remove" -> "x"
                   [] kind = "up" -> "^" [] kind = "down" -> "v"
  IN /\ view = "open"
     /\ InPage(e) /\ control \in ctl[e]
     /\ e = Placeholder => kind = "add"
     /\ Send(s, [Free EXCEPT !.kind = kind, !.state = "sent", !.el = e, !.at = node,
                   !.ref = RefOf(e),
                   !.next = IF kind = "remove" THEN Following(page, node) ELSE Nothing,
                   !.prev = IF kind = "remove" THEN Previous(page, node) ELSE Nothing])
     /\ listening' = (kind \in {"up", "down"})
     /\ hit' = IF Busy = {} THEN hit ELSE hit \cup {"overlap"}
     /\ UNCHANGED <<server, page, id, ctl, view, simple, min>>

\* Mutant: the form stays enabled while it is saved.
ClickFormBug(s, kind) ==
  /\ view = "open"
  /\ Send(s, [Free EXCEPT !.kind = kind, !.state = "sent", !.list = page,
                !.alone = (Busy = {}), !.synced = (hit = {})])
  /\ view' = view
  /\ hit' = IF Busy = {} THEN hit ELSE hit \cup {"late"}
  /\ UNCHANGED <<server, page, id, ctl, listening, simple, min>>

\* doSaveAction: the overlay is laid over the form, and the form is sent.
ClickForm(s, kind) ==
  /\ view = "open"
  /\ Send(s, [Free EXCEPT !.kind = kind, !.state = "sent", !.list = page,
                !.alone = (Busy = {}), !.synced = (hit = {})])
  /\ view' = "overlay"
  /\ hit' = IF Busy = {} THEN hit ELSE hit \cup {"late"}
  /\ UNCHANGED <<server, page, id, ctl, listening, simple, min>>

-----------------------------------------------------------------------------
(* The services, in the order in which they get into the monitor of        *)
(* DataManager, which need not be that of the clicks.                      *)

Sent(s, kinds) == call[s].state = "sent" /\ call[s].kind \in kinds

\* Only what the handler of the answer still needs is kept.
Reply(s, list, r, controls) ==
  call' = [call EXCEPT ![s] = [@ EXCEPT !.state = "ok", !.el = Nothing, !.ref = r,
                                        !.list = list, !.ctl = controls]]

Fail(s) ==
  call' = [call EXCEPT ![s] = [Free EXCEPT !.kind = call[s].kind, !.state = "failed", !.at = call[s].at]]

\* The service reaches another element than the one that was clicked.
Reach(s) == hit' = IF Denoted(call[s].ref) = call[s].el THEN hit ELSE hit \cup {"wrong"}

\* addElementEmbedded: at the end of the elements of its name
ServeAdd(s) ==
  /\ Sent(s, {"add"})
  /\ sess = "whole"
  /\ made < MaxElem
  /\ made' = made + 1
  /\ doc' = Append(doc, made')
  /\ ref' = [ref EXCEPT ![made'] = NewRef]
  /\ Reply(s, <<made'>>, NewRef, FirstControls(Len(doc'), Len(doc')))
  /\ UNCHANGED <<sess, row, current, browser, hit, clicks>>

\* deleteElementEmbedded: the answer is blank, or the placeholder when the
\* last one was removed, which the simple tab does not show
ServeRemove(s) ==
  /\ Sent(s, {"remove"})
  /\ sess = "whole"
  /\ Found(call[s].ref)
  /\ doc' = RemoveAt(doc, Place(Denoted(call[s].ref), doc))
  /\ ref' = Kept(ref, doc', 0)
  /\ Reply(s, IF doc' = <<>> /\ ~simple THEN <<Placeholder>> ELSE <<>>, 0, {})
  /\ Reach(s)
  /\ UNCHANGED <<sess, row, made, current, browser, clicks>>

\* swapElementEmbedded
ServeMove(s) ==
  /\ Sent(s, {"up", "down"})
  /\ sess # "bare"
  /\ Found(call[s].ref)
  /\ LET i == Place(Denoted(call[s].ref), doc)
         j == IF call[s].kind = "up" THEN i - 1 ELSE i + 1
     IN j \in DOMAIN doc /\ doc' = Exchange(doc, i, j)
  /\ Reply(s, <<>>, 0, {})
  /\ Reach(s)
  /\ UNCHANGED <<ref, sess, row, made, current, browser, clicks>>

\* Every field of the form has an element to go to.
FieldsFound(list) == \A e \in ToSet(list) \ {Placeholder} : Found(id[e])

\* metadata.update, and the forward to metadata.edit, which reads the row
\* again and numbers it; or metadata.update.finish, which forgets it
ServeSave(s) ==
  /\ Sent(s, {"save", "finish"})
  /\ current
  /\ sess # "bare"
  /\ FieldsFound(call[s].list)
  /\ row' = doc
  /\ IF call[s].kind = "save"
       THEN ref' = Numbered(doc) /\ sess' = "whole"
       ELSE ref' = Numbered(<<>>) /\ sess' = "bare"
  /\ current' = FALSE
  /\ Reply(s, doc, 0, {})
  /\ UNCHANGED <<doc, made, browser, hit, clicks>>

\* The write or the commit fails: the references were removed before.
SaveAborted(s) ==
  /\ Sent(s, {"save", "finish"})
  /\ current
  /\ sess # "bare"
  /\ FieldsFound(call[s].list)
  /\ sess' = "bare"
  /\ ref' = Numbered(<<>>)
  /\ Fail(s)
  /\ hit' = hit \cup {"aborted"}
  /\ UNCHANGED <<doc, row, made, current, browser, clicks>>

\* metadata.update.forget and metadata.update.forgetandfinish
ServeForget(s) ==
  /\ Sent(s, {"reset", "cancel"})
  /\ doc' = row
  /\ IF call[s].kind = "reset"
       THEN ref' = Numbered(row) /\ sess' = "whole"
       ELSE ref' = Numbered(<<>>) /\ sess' = "bare"
  /\ current' = FALSE
  /\ Reply(s, row, 0, {})
  /\ UNCHANGED <<row, made, browser, hit, clicks>>

\* deleteElementEmbedded has removed geonet:info from the document of the
\* session when it finds that there is no such element.
RemoveUnknown(s) ==
  /\ Sent(s, {"remove"})
  /\ sess = "whole"
  /\ ~ Found(call[s].ref)
  /\ sess' = "noinfo"
  /\ Fail(s)
  /\ UNCHANGED <<doc, ref, row, made, current, browser, hit, clicks>>

\* The service throws before it does anything: an answer with an error status.
Refused(s) ==
  /\ call[s].state = "sent"
  /\ Fail(s)
  /\ UNCHANGED <<server, browser, hit, clicks>>

\* The connection breaks, before the service has been called or after it has
\* done its work: the handlers see an answer of status 0.
CutOff(s) ==
  /\ call[s].state \in {"sent", "ok"}
  /\ call' = [call EXCEPT ![s] = [Free EXCEPT !.kind = call[s].kind, !.state = "cut", !.at = call[s].at]]
  /\ hit' = IF Sent(s, {"remove"}) THEN hit ELSE hit \cup {"lost"}
  /\ UNCHANGED <<server, browser, clicks>>

-----------------------------------------------------------------------------
(* The handlers of the answers, each in one piece.  One that throws leaves *)
(* the page as far as it came, and does not come to setBunload(true).      *)

Answered(s, kinds) ==
  call[s].state = "ok" /\ call[s].kind \in kinds /\ call[s].at # Nothing

Done(s) ==
  /\ call' = [call EXCEPT ![s] = Free]
  /\ UNCHANGED <<server, view, simple, min, clicks>>

Shows(list, controls, event) ==
  /\ page' = list
  /\ ctl' = Kept(controls, list, {})
  /\ listening' = TRUE
  /\ hit' = hit \cup event

Throws ==
  /\ hit' = hit \cup {"thrown"}
  /\ UNCHANGED <<ctl, listening>>

\* Status 0 is a success for Prototype, with an empty text, and a failure
\* for Ext, which carries the removals.
Succeeded(s, kinds) ==
  call[s].state \in {"ok", "cut"} /\ call[s].kind \in kinds /\ call[s].at # Nothing

\* doNewElementAjax: the answer goes in behind the element that was
\* clicked, or in the place of the placeholder.
AddAnswered(s) ==
  LET at == call[s].at
      new == call[s].list[1]
  IN /\ Answered(s, {"add"})
     /\ Done(s)
     /\ IF ~ InPage(at)
          THEN Throws /\ UNCHANGED <<page, id>>
          ELSE /\ id' = [id EXCEPT ![new] = call[s].ref]
               /\ IF at = Placeholder
                    THEN Shows(ReplaceAt(page, Place(at, page), new), [ctl EXCEPT ![new] = call[s].ctl], {})
                    ELSE LET list == InsertAt(page, Place(at, page) + 1, new)
                         IN Shows(list, SetAddControls(ctl, list, new), {})

\* The empty text goes in: the placeholder is gone, or the element that comes
\* next is dressed as the new one.
AddCut(s) ==
  LET at == call[s].at
      next == Following(page, at)
  IN /\ call[s].state = "cut" /\ call[s].kind = "add" /\ at # Nothing
     /\ Done(s)
     /\ IF ~ InPage(at) \/ (at # Placeholder /\ next = Nothing)
          THEN Throws /\ UNCHANGED page
          ELSE IF at = Placeholder
                 THEN Shows(RemoveAt(page, Place(at, page)), ctl, {})
                 ELSE Shows(page, SetAddControls(ctl, page, next), {})
     /\ UNCHANGED id

\* Mutant: the node is not removed.
LeftAfterBug(s) == page

\* doRemoveElementAction, more than one was left
LeftAfter(s) == RemoveAt(page, Place(call[s].at, page))

\* ... of which the removed one was the last in the page: its controls go
\* to the element that was before it at the click.
RemovedBottom(s) ==
  LET at == call[s].at
      prev == call[s].prev
  IN IF Buttons(page, at) = Nothing \/ (prev # Nothing /\ Buttons(page, prev) = Nothing) \/ ~ InPage(at)
       THEN Throws /\ UNCHANGED page
       ELSE LET list == LeftAfter(s)
                swapped == IF prev = Nothing THEN ctl
                           ELSE SwapControls(ctl, Buttons(page, at), Buttons(page, prev))
            IN Shows(list, IF prev # Nothing /\ TopElement(list, prev)
                             THEN TopControls(swapped, list, prev) ELSE swapped, {})

\* ... or not, or the tab is the simple one: the element after it may be the
\* first now; the element before it is left as it is.
RemovedOther(s) ==
  LET next == call[s].next
  IN IF ~ InPage(call[s].at)
       THEN Throws /\ UNCHANGED page
       ELSE LET list == LeftAfter(s)
                top == next # Nothing /\ TopElement(list, next)
            IN IF top /\ Buttons(list, next) = Nothing
                 THEN Throws /\ page' = list
                 ELSE Shows(list, IF top THEN TopControls(ctl, list, next) ELSE ctl,
                            IF BottomElement(page, call[s].at) THEN {"simple"} ELSE {})

RemoveAnswered(s) ==
  LET at == call[s].at
  IN /\ Answered(s, {"remove"})
     /\ call[s].list = <<>>
     /\ Done(s)
     /\ IF BottomElement(page, at) /\ ~ simple THEN RemovedBottom(s) ELSE RemovedOther(s)
     /\ id' = KeptIds(s, page')

\* The last one: it is replaced by the placeholder.
LastRemoved(s) ==
  LET at == call[s].at
  IN /\ Answered(s, {"remove"})
     /\ call[s].list # <<>>
     /\ Done(s)
     /\ IF InPage(at)
          THEN Shows(ReplaceAt(page, Place(at, page), Placeholder), [ctl EXCEPT ![Placeholder] = {"+"}], {})
          ELSE Throws /\ UNCHANGED page
     /\ id' = KeptIds(s, page')

\* doMoveElementAction looks for the neighbour when the answer is there, and
\* does not look at the answer.
MoveAnswered(s) ==
  LET at == call[s].at
      other == IF call[s].kind = "up" THEN Previous(page, at) ELSE Following(page, at)
  IN /\ Succeeded(s, {"up", "down"})
     /\ Done(s)
     /\ IF other = Nothing
          THEN Throws /\ UNCHANGED page
          ELSE Shows(Exchange(page, Place(at, page), Place(other, page)),
                     SwapControls(ctl, Buttons(page, at), Buttons(page, other)), {})
     /\ UNCHANGED id

\* The onFailure handlers run.
Failed(s) ==
  /\ call[s].kind \in Changes /\ call[s].at # Nothing
  /\ call[s].state = "failed" \/ (call[s].state = "cut" /\ call[s].kind = "remove")

\* Mutant: the listener stays as the click left it.
ChangeFailedBug(s) ==
  /\ Failed(s)
  /\ Done(s)
  /\ UNCHANGED <<page, id, ctl, listening, hit>>

\* A message, "Try again later", and the listener is registered again.
ChangeFailed(s) ==
  /\ Failed(s)
  /\ Done(s)
  /\ listening' = TRUE
  /\ UNCHANGED <<page, id, ctl, hit>>

\* A page that is replaced leaves the handlers of other requests with nodes
\* that are in no page; one that is left takes the handlers with it.
Without(c, at) == [c EXCEPT !.at = IF @ = Nothing THEN Nothing ELSE at, !.next = Nothing, !.prev = Nothing]
Others(s, at) == [o \in Slots |->
  IF o = s \/ call[o] = Free \/ (at = Nothing /\ call[o].state # "sent")
    THEN Free ELSE Without(call[o], at)]

\* The handler of metadata.update and metadata.update.forget: the answer is
\* the new body of the page.
SaveAnswered(s) ==
  LET list == call[s].list
  IN /\ call[s].state = "ok" /\ call[s].kind \in {"save", "reset"}
     /\ call' = Others(s, Detached)
     /\ page' = Layout(list)
     /\ id' = Numbered(list)
     /\ ctl' = Dressed(list)
     /\ view' = "open"
     /\ listening' = TRUE
     /\ current' = TRUE
     /\ hit' = IF call[s].alone THEN {} ELSE {"late"}
     /\ UNCHANGED <<doc, ref, sess, row, made, simple, min, clicks>>

\* Ajax.Updater puts the empty text in the body of the page.
SaveCut(s) ==
  /\ call[s].state = "cut" /\ call[s].kind \in {"save", "reset"}
  /\ call' = Others(s, Detached)
  /\ page' = <<>>
  /\ id' = Kept(id, <<>>, 0)
  /\ ctl' = Kept(ctl, <<>>, {})
  /\ view' = "blank"
  /\ UNCHANGED <<server, listening, simple, min, hit, clicks>>

\* ... of metadata.update.finish and metadata.update.forgetandfinish: the
\* record is shown, whether it was saved or not.
FinishAnswered(s) ==
  /\ call[s].state \in {"ok", "cut"} /\ call[s].kind \in Leaving
  /\ call' = Others(s, Nothing)
  /\ page' = <<>>
  /\ id' = Kept(id, <<>>, 0)
  /\ ctl' = Kept(ctl, <<>>, {})
  /\ view' = "closed"
  /\ listening' = FALSE
  /\ hit' = IF call[s].alone THEN {} ELSE {"late"}
  /\ UNCHANGED <<server, simple, min, clicks>>

\* The overlay is taken away after a failure, but not that of a finish.
SaveFailed(s) ==
  /\ call[s].state = "failed" /\ call[s].kind \in Forms
  /\ call' = [call EXCEPT ![s] = Free]
  /\ view' = IF call[s].kind \in Leaving THEN "overlay" ELSE "open"
  /\ listening' = TRUE
  /\ UNCHANGED <<server, page, id, ctl, simple, min, hit, clicks>>

\* The answer to a page that was left.
Unheard(s) ==
  /\ call[s].state \in {"ok", "failed", "cut"} /\ call[s].kind \in Changes /\ call[s].at = Nothing
  /\ call' = [call EXCEPT ![s] = Free]
  /\ UNCHANGED <<server, browser, hit, clicks>>

\* metadata.edit in the browser's address bar or from the record's page; a
\* page that nobody can use any more is left.
Open ==
  /\ \/ view = "closed"
     \/ view \in {"overlay", "blank"} /\ \A s \in Slots : call[s].kind \notin Forms
  /\ call' = [s \in Slots |-> IF call[s].state # "sent" THEN Free ELSE Without(call[s], Nothing)]
  /\ doc' = row
  /\ ref' = Numbered(row)
  /\ sess' = "whole"
  /\ page' = Layout(row)
  /\ id' = Numbered(row)
  /\ ctl' = Dressed(row)
  /\ view' = "open"
  /\ listening' = TRUE
  /\ current' = TRUE
  /\ hit' = IF Busy = {} THEN {} ELSE {"late"}
  /\ UNCHANGED <<row, made, simple, min, clicks>>

-----------------------------------------------------------------------------
Click(s) ==
  \/ \E e \in ToSet(page), kind \in Changes : ClickControl(s, e, kind)
  \/ \E kind \in Forms : ClickForm(s, kind)

Serve(s) ==
  \/ ServeAdd(s) \/ ServeRemove(s) \/ ServeMove(s) \/ ServeSave(s) \/ ServeForget(s)
  \/ SaveAborted(s) \/ RemoveUnknown(s) \/ Refused(s) \/ CutOff(s)

Answer(s) ==
  \/ AddAnswered(s) \/ AddCut(s) \/ RemoveAnswered(s) \/ LastRemoved(s) \/ MoveAnswered(s)
  \/ ChangeFailed(s) \/ SaveAnswered(s) \/ SaveCut(s) \/ FinishAnswered(s) \/ SaveFailed(s) \/ Unheard(s)

Next == Open \/ \E s \in Slots : Click(s) \/ Serve(s) \/ Answer(s)

Spec == Init /\ [][Next]_vars

-----------------------------------------------------------------------------
(* Type correctness of the document, the page and the requests.            *)
EditorTypeOK ==
  /\ doc \in Seq(Elems) /\ row \in Seq(Elems)
  /\ ref \in [Elems -> 0..MaxElem]
  /\ sess \in {"whole", "noinfo", "bare"}
  /\ made \in 0..MaxElem
  /\ page \in Seq(Elems \cup {Placeholder})
  /\ id \in [Elems -> 0..MaxElem]
  /\ ctl \in [Elems \cup {Placeholder} -> SUBSET Controls]
  /\ view \in {"open", "overlay", "blank", "closed"}
  /\ {listening, simple, current} \subseteq BOOLEAN
  /\ min \in {0, 1} /\ clicks \in 0..MaxClicks
  /\ \A s \in Slots : /\ call[s].kind \in Changes \cup Forms \cup {"none"}
                      /\ call[s].state \in {"free", "sent", "ok", "failed", "cut"}
                      /\ call[s].at \in Elems \cup {Placeholder, Nothing, Detached}
  /\ hit \subseteq Events

(* findMaximumRef keeps the references of a document apart, whatever was   *)
(* removed and numbered anew in between and however the requests overlap:  *)
(* no request can reach two elements.                                      *)
RefsApart == sess # "bare" => \A d, e \in ToSet(doc) : ref[d] = ref[e] => d = e

(* When nothing is under way, the page shows the document of the session:  *)
(* the same elements in the same order under the same references, + only   *)
(* on the last, ^ on all but the first, v on all but the last, x where the *)
(* schema allows it; and the session can go on.  It is so unless a click   *)
(* was made before the answer to another ("overlap", "late"), a connection *)
(* broke ("lost"), a save was aborted, or the last element of a list was removed *)
(* in the simple tab, whose handler leaves the controls as they were.      *)
PageFollowsSession ==
  Quiet /\ hit = {} =>
    /\ sess = "whole" /\ current
    /\ page = Layout(doc)
    /\ \A e \in ToSet(doc) : id[e] = ref[e] /\ ctl[e] = Dressed(doc)[e]

(* Even when requests and answers overtake each other, the page keeps no   *)
(* element that the document has not: its fields would make every save     *)
(* fail.  What breaks it is a handler that throws halfway, a lost request, *)
(* a form that was sent before all answers were there, and an aborted save.*)
NoGhost ==
  Quiet /\ hit \cap {"lost", "thrown", "late", "aborted"} = {} =>
    \A e \in ToSet(page) \ {Placeholder} : e \in ToSet(doc) /\ id[e] = ref[e]

(* A reference that was used again does not bring a request to an element  *)
(* the user did not click: that takes two requests under way at a time, or *)
(* a page that did not learn of an answer.                                 *)
ReachesClicked == "wrong" \in hit => hit \cap {"overlap", "lost", "late"} # {}

(* The record is saved as the user saw it when the button was pressed: the *)
(* order and the elements of the page, although the form carries only      *)
(* values by reference and the list comes from the session.  It needs the  *)
(* overlay, which keeps the user from changing the list in the meantime.   *)
Saved(s) == Sent(s, {"save", "finish"}) /\ call'[s].state = "ok"
SavedAsShown ==
  [][\A s \in Slots :
       Saved(s) /\ call[s].alone /\ call[s].synced => Layout(row') = call[s].list]_vars

(* Whatever mixture of answers, refusals and broken connections came last, *)
(* an open page has its listener unless the answer to an add or a remove   *)
(* is still to come or a handler threw.  So leaving the page then asks the *)
(* user if the window was opened by a page of the application, and only    *)
(* then: without an opener nobody is asked (metadata-editor.js:24).        *)
LeavingAsksIfOpened ==
  view = "open" /\ "thrown" \notin hit /\ (\A s \in Slots : ~Awaited(s)) =>
    \A opener \in Openers : Asks(opener) <=> opener = "ours"
=============================================================================
