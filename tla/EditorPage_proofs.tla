--------------------------- MODULE EditorPage_proofs ---------------------------
(***************************************************************************)
(* Theorems about the page of the editor while requests and answers are    *)
(* under way: what the page shows when nothing is, which element a request *)
(* reaches, what is saved, and whether the page listens to being left.      *)
(***************************************************************************)
EXTENDS EditorSession_proofs

(* A form is the only one, and the overlay lies over the page as long as   *)
(* it is under way; unless it was sent too early ("late") nothing else is. *)
(* A page that was left, or that an answer of no text has emptied, takes   *)
(* "late" or "lost".                                                       *)
RequestsInv ==
  /\ \A s, t \in Slots : call[s].kind \in Forms /\ call[t].kind \in Forms => s = t
  /\ \A s \in Slots : call[s].kind \in Forms =>
       view = "overlay" /\ (call[s].alone \/ "late" \notin hit => Busy = {s})
  /\ "late" \notin hit =>
       /\ view = "closed" => Busy = {} /\ page = <<>>
       /\ \A s \in Slots : call[s].kind \in Changes => call[s].at \notin {Nothing, Detached}
       /\ "lost" \notin hit => /\ view # "blank"
                               /\ \A s \in Slots : call[s].state = "cut" => call[s].kind = "remove"

LEMMA KindsApart ==
  /\ \A k \in Changes : k \notin Forms /\ k # "none"
  /\ \A k \in Forms : k # "none"
  /\ Free.kind \notin Changes /\ Free.kind \notin Forms /\ Free.state # "cut"
BY FreeFields DEF Changes, Forms, Leaving

(* The requests of a page that is replaced or left.                        *)
LEMMA OthersSent ==
  ASSUME TypeInv, NEW s \in Slots, NEW at \in {Nothing, Detached}, call' = Others(s, at)
  PROVE  /\ call'[s] = Free
         /\ \A o \in Slots : call'[o] = Free \/ (call[o] # Free /\ o # s /\ call'[o].kind = call[o].kind)
         /\ Busy = {s} => Busy' = {}
<1>1. call'[s] = Free /\ \A o \in Slots : call'[o] = Free \/ (call[o] # Free /\ o # s /\ call'[o] = Without(call[o], at))
  BY DEF Others
<1>2. made \in Nat
  BY MadeBound DEF TypeInv
<1>3. \A o \in Slots : call[o] # Free => Without(call[o], at).kind = call[o].kind
  BY <1>2, LeftBehind DEF TypeInv, CallShape
<1>4. Busy = {s} => Busy' = {}
  BY <1>1 DEF Busy
<1>5. QED
  BY <1>1, <1>3, <1>4

LEMMA ClickRequests ==
  ASSUME TypeInv, RequestsInv, NEW s \in Slots, Click(s)
  PROVE  RequestsInv'
<1>0. view = "open" /\ \A o \in Slots : call[o].kind \notin Forms
  BY DEF Click, ClickControl, ClickForm, RequestsInv
<1>1. CASE \E e \in ToSet(page), kind \in Changes : ClickControl(s, e, kind)
  <2>1. PICK e \in ToSet(page), kind \in Changes : ClickControl(s, e, kind)
    BY <1>1
  <2> DEFINE node == Node(page, RefOf(e))
  <2>2. /\ \A o \in Slots : o # s => call'[o] = call[o]
        /\ call'[s].kind = kind /\ call'[s].state = "sent" /\ call'[s].at = node
    BY <2>1, ControlSent
  <2>3. node \notin {Nothing, Detached}
    <3>1. node \in ToSet(page)
      BY PageNodes DEF TypeInv
    <3>2. ToSet(page) \subseteq Nat
      BY DEF TypeInv, PageShape, Made, ToSet, Placeholder
    <3>3. QED
      BY <3>1, <3>2 DEF Nothing, Detached
  <2>4. hit \subseteq hit' /\ view' = "open" /\ ("late" \in hit' => "late" \in hit)
    BY <2>1 DEF ClickControl
  <2>5. \A o \in Slots : call'[o].kind \notin Forms
    BY <1>0, <2>2, KindsApart
  <2> HIDE DEF node
  <2>6. "late" \notin hit' => \A o \in Slots : call'[o].kind \in Changes => call'[o].at \notin {Nothing, Detached}
    BY <2>2, <2>3, <2>4 DEF RequestsInv
  <2>7. "late" \notin hit' /\ "lost" \notin hit' => \A o \in Slots : call'[o].state = "cut" => call'[o].kind = "remove"
    BY <2>2, <2>4 DEF RequestsInv
  <2>8. QED
    BY <2>4, <2>5, <2>6, <2>7 DEF RequestsInv
<1>2. CASE \E kind \in Forms : ClickForm(s, kind)
  <2>1. PICK kind \in Forms : ClickForm(s, kind)
    BY <1>2
  <2>2. /\ call[s] = Free /\ call'[s] # Free /\ \A o \in Slots : o # s => call'[o] = call[o]
        /\ call'[s].kind = kind /\ call'[s].state = "sent" /\ call'[s].alone = (Busy = {})
    BY <2>1, FormSent
  <2>3. hit \subseteq hit' /\ view' = "overlay" /\ ("late" \notin hit' => Busy = {} /\ "late" \notin hit)
    BY <2>1 DEF ClickForm
  <2>4. Busy = {} => Busy' = {s}
    BY <2>2 DEF Busy
  <2>5. \A o \in Slots : call'[o].kind \in Forms => o = s
    BY <1>0, <2>2
  <2>6. "late" \notin hit' => \A o \in Slots : call'[o].kind \in Changes => call'[o].at \notin {Nothing, Detached}
    BY <2>2, <2>3, KindsApart DEF RequestsInv
  <2>7. "late" \notin hit' /\ "lost" \notin hit' => \A o \in Slots : call'[o].state = "cut" => call'[o].kind = "remove"
    BY <2>2, <2>3 DEF RequestsInv
  <2>8. \A o \in Slots : call'[o].kind \in Forms =>
          view' = "overlay" /\ (call'[o].alone \/ "late" \notin hit' => Busy' = {o})
    BY <2>2, <2>3, <2>4, <2>5
  <2>9. \A o, t \in Slots : call'[o].kind \in Forms /\ call'[t].kind \in Forms => o = t
    BY <2>5
  <2>10. QED
    BY <2>3, <2>6, <2>7, <2>8, <2>9 DEF RequestsInv
<1>3. QED
  BY <1>1, <1>2 DEF Click

LEMMA ServeRequests ==
  ASSUME TypeInv, RequestsInv, NEW s \in Slots, Serve(s)
  PROVE  RequestsInv'
<1>1. /\ \A o \in Slots : o # s => call'[o] = call[o]
      /\ call[s] # Free /\ call'[s] # Free
      /\ call'[s].kind = call[s].kind /\ call'[s].at = call[s].at
      /\ call'[s].alone => call[s].alone
      /\ call'[s].state = "cut" => "lost" \in hit' \/ call[s].kind = "remove"
      /\ UNCHANGED <<page, view>> /\ hit \subseteq hit' /\ ("late" \in hit' => "late" \in hit)
  <2>1. CASE Serves(s)
    BY <2>1, ServedRequest DEF browser
  <2>2. CASE Breaks(s)
    BY <2>2, BrokenRequest DEF browser, Sent
  <2>3. QED
    BY <2>1, <2>2 DEF Serve, Serves, Breaks
<1>2. Busy' = Busy
  BY <1>1 DEF Busy
<1>3. \A o \in Slots : call'[o].kind = call[o].kind /\ call'[o].at = call[o].at /\ (call'[o].alone => call[o].alone)
  BY <1>1
<1>4. "late" \notin hit' /\ "lost" \notin hit' => \A o \in Slots : call'[o].state = "cut" => call'[o].kind = "remove"
  BY <1>1, <1>3 DEF RequestsInv
<1>5. QED
  BY <1>1, <1>2, <1>3, <1>4 DEF RequestsInv

LEMMA HandleRequests ==
  ASSUME TypeInv, RequestsInv, NEW s \in Slots, Handles(s)
  PROVE  RequestsInv'
<1>1. /\ \A o \in Slots : o # s => call'[o] = call[o]
      /\ call'[s] = Free /\ call[s] # Free /\ call[s].kind \in Changes
      /\ view' = view /\ hit \subseteq hit' /\ ("late" \in hit' => "late" \in hit)
  BY HandledRequest
<1>2. s \in Busy /\ Busy' \subseteq Busy
  BY <1>1 DEF Busy
<1>3. \A o \in Slots : call'[o] = Free \/ (o # s /\ call'[o] = call[o])
  BY <1>1
<1>4. \A o \in Slots : call'[o].kind \in Forms =>
        call[o].kind \in Forms /\ ~call'[o].alone /\ "late" \in hit' /\ view' = "overlay"
  <2> SUFFICES ASSUME NEW o \in Slots, call'[o].kind \in Forms
               PROVE  call[o].kind \in Forms /\ ~call'[o].alone /\ "late" \in hit' /\ view' = "overlay"
    OBVIOUS
  <2>1. call'[o] = call[o] /\ o # s
    BY <1>3, KindsApart
  <2>2. Busy # {o}
    BY <1>2, <2>1
  <2>3. QED
    BY <1>1, <2>1, <2>2 DEF RequestsInv
<1>5. "late" \notin hit' => \A o \in Slots : call'[o].kind \in Changes => call'[o].at \notin {Nothing, Detached}
  BY <1>1, <1>3, KindsApart DEF RequestsInv
<1>6. "late" \notin hit' /\ "lost" \notin hit' => \A o \in Slots : call'[o].state = "cut" => call'[o].kind = "remove"
  BY <1>1, <1>3, KindsApart DEF RequestsInv
<1>7. "late" \notin hit' => view' # "closed"
  BY <1>1, <1>2 DEF RequestsInv
<1>8. QED
  BY <1>1, <1>4, <1>5, <1>6, <1>7 DEF RequestsInv

LEMMA FormRequests ==
  ASSUME TypeInv, RequestsInv, NEW s \in Slots, SaveAnswered(s) \/ SaveCut(s) \/ FinishAnswered(s) \/ SaveFailed(s)
  PROVE  RequestsInv' /\ \A o \in Slots : call'[o].kind \notin Forms
<1>1. call[s].kind \in Forms /\ \A o \in Slots : call[o].kind \in Forms => o = s
  BY DEF SaveAnswered, SaveCut, FinishAnswered, SaveFailed, Forms, Leaving, RequestsInv
<1>2. CASE SaveAnswered(s) \/ SaveCut(s) \/ FinishAnswered(s)
  <2>1. PICK at \in {Nothing, Detached} : call' = Others(s, at)
    BY <1>2 DEF SaveAnswered, SaveCut, FinishAnswered
  <2>2. /\ call'[s] = Free
        /\ \A o \in Slots : call'[o] = Free \/ (call[o] # Free /\ o # s /\ call'[o].kind = call[o].kind)
        /\ Busy = {s} => Busy' = {}
    BY <2>1, OthersSent
  <2>3. \A o \in Slots : call'[o].kind \notin Forms
    BY <1>1, <2>2, KindsApart
  <2>4. "late" \notin hit' => Busy = {s} /\ (view' = "closed" => page' = <<>>) /\ (view' = "blank" => "lost" \in hit')
    BY <1>1, <1>2 DEF SaveAnswered, SaveCut, FinishAnswered, RequestsInv
  <2>5. "late" \notin hit' => \A o \in Slots : call'[o] = Free
    BY <2>2, <2>4 DEF Busy
  <2>6. "late" \notin hit' => \A o \in Slots : call'[o].kind \notin Changes /\ call'[o].state # "cut"
    BY <2>5, KindsApart
  <2>7. QED
    BY <2>2, <2>3, <2>4, <2>6 DEF RequestsInv
<1>3. CASE SaveFailed(s)
  <2>1. /\ call'[s] = Free /\ \A o \in Slots : o # s => call'[o] = call[o]
        /\ view' \in {"overlay", "open"} /\ hit' = hit
    BY <1>3 DEF SaveFailed, TypeInv, CallShape
  <2>2. \A o \in Slots : call'[o].kind \notin Forms
    BY <1>1, <2>1, KindsApart
  <2>3. "late" \notin hit' => \A o \in Slots : call'[o].kind \in Changes => call'[o].at \notin {Nothing, Detached}
    BY <2>1, KindsApart DEF RequestsInv
  <2>4. "late" \notin hit' /\ "lost" \notin hit' => \A o \in Slots : call'[o].state = "cut" => call'[o].kind = "remove"
    BY <2>1, KindsApart DEF RequestsInv
  <2>5. QED
    BY <2>1, <2>2, <2>3, <2>4 DEF RequestsInv
<1>4. QED
  BY <1>2, <1>3

LEMMA UnheardRequests ==
  ASSUME TypeInv, RequestsInv, NEW s \in Slots, Unheard(s)
  PROVE  RequestsInv' /\ "late" \in hit'
<1>1. /\ call'[s] = Free /\ \A o \in Slots : o # s => call'[o] = call[o]
      /\ call[s].kind \in Changes /\ call[s].at = Nothing /\ view' = view /\ hit' = hit
  BY DEF Unheard, TypeInv, CallShape, browser
<1>2. "late" \in hit'
  BY <1>1 DEF RequestsInv
<1>3. call[s] # Free
  BY <1>1, KindsApart
<1>4. \A o \in Slots : call'[o].kind \in Forms => o # s /\ call[o].kind \in Forms /\ call'[o] = call[o]
  BY <1>1, KindsApart
<1>5. \A o \in Slots : call[o].kind \in Forms => ~call[o].alone
  <2> SUFFICES ASSUME NEW o \in Slots, call[o].kind \in Forms, call[o].alone PROVE FALSE
    OBVIOUS
  <2>1. Busy = {o} /\ o # s
    BY <1>1, KindsApart DEF RequestsInv
  <2>2. QED
    BY <1>3, <2>1 DEF Busy
<1>6. QED
  BY <1>1, <1>2, <1>4, <1>5 DEF RequestsInv

LEMMA OpenRequests ==
  ASSUME TypeInv, RequestsInv, Open
  PROVE  RequestsInv' /\ \A o \in Slots : call'[o].kind \notin Forms
<1>1. /\ call' = [s \in Slots |-> IF call[s].state # "sent" THEN Free ELSE Without(call[s], Nothing)]
      /\ view' = "open" /\ hit' = IF Busy = {} THEN {} ELSE {"late"}
      /\ \A o \in Slots : call[o].kind \notin Forms
  BY DEF Open, RequestsInv
<1>2. made \in Nat
  BY MadeBound DEF TypeInv
<1>3. \A o \in Slots : call'[o] = Free \/ (call[o] # Free /\ call'[o].kind = call[o].kind)
  BY <1>1, <1>2, LeftBehind, FreeFields DEF TypeInv, CallShape
<1>4. \A o \in Slots : call'[o].kind \notin Forms
  BY <1>1, <1>3, KindsApart
<1>5. "late" \notin hit' => \A o \in Slots : call'[o].kind \notin Changes /\ call'[o].state # "cut"
  BY <1>1, <1>3, KindsApart DEF Busy
<1>6. QED
  BY <1>1, <1>4, <1>5 DEF RequestsInv

LEMMA InitRequests == Init => RequestsInv
BY KindsApart DEF Init, RequestsInv

LEMMA NextRequests == TypeInv /\ RequestsInv /\ [Next]_vars => RequestsInv'
<1> SUFFICES ASSUME TypeInv, RequestsInv, [Next]_vars PROVE RequestsInv'
  OBVIOUS
<1>1. CASE Open
  BY <1>1, OpenRequests
<1>2. ASSUME NEW s \in Slots, Click(s) \/ Serve(s) \/ Answer(s) PROVE RequestsInv'
  <2>1. CASE Answer(s)
    BY <2>1, HandleRequests, FormRequests, UnheardRequests DEF Answer, Handles
  <2>2. QED
    BY <1>2, <2>1, ClickRequests, ServeRequests
<1>3. CASE UNCHANGED vars
  BY <1>3 DEF vars, browser, RequestsInv, Busy
<1>4. QED
  BY <1>1, <1>2, <1>3 DEF Next

-------------------------------------------------------------------------------
(* The listener is gone only while an answer is to come that registers it. *)
ListenerInv == view = "open" /\ "thrown" \notin hit /\ ~listening => \E s \in Slots : Awaited(s)

LEMMA NextListener == TypeInv /\ ListenerInv /\ [Next]_vars => ListenerInv'
<1> SUFFICES ASSUME TypeInv, ListenerInv, [Next]_vars, view' = "open", "thrown" \notin hit', ~listening'
             PROVE  \E s \in Slots : Awaited(s)'
  BY DEF ListenerInv
<1>1. ~Open
  BY DEF Open
<1>2. ASSUME NEW s \in Slots, Click(s) PROVE \E o \in Slots : Awaited(o)'
  <2>1. PICK e \in ToSet(page), kind \in {"add", "remove"} : ClickControl(s, e, kind)
    BY <1>2 DEF Click, ClickControl, ClickForm, Changes
  <2>2. call'[s].kind = kind /\ call'[s].at = Node(page, RefOf(e))
    BY <2>1, ControlSent DEF Changes
  <2>3. Node(page, RefOf(e)) # Nothing
    <3>1. Node(page, RefOf(e)) \in ToSet(page)
      BY PageNodes DEF TypeInv
    <3>2. ToSet(page) \subseteq Nat
      BY DEF TypeInv, PageShape, Made, ToSet, Placeholder
    <3>3. QED
      BY <3>1, <3>2 DEF Nothing
  <2>4. QED
    BY <2>2, <2>3 DEF Awaited
<1>3. ASSUME NEW s \in Slots, Serve(s) PROVE \E o \in Slots : Awaited(o)'
  <2>1. /\ \A o \in Slots : call'[o].kind = call[o].kind /\ call'[o].at = call[o].at
        /\ UNCHANGED <<view, listening>> /\ hit \subseteq hit'
    <3>1. CASE Serves(s)
      BY <3>1, ServedRequest DEF browser
    <3>2. CASE Breaks(s)
      BY <3>2, BrokenRequest DEF browser
    <3>3. QED
      BY <1>3, <3>1, <3>2 DEF Serve, Serves, Breaks
  <2>2. PICK o \in Slots : Awaited(o)
    BY <2>1 DEF ListenerInv
  <2>3. QED
    BY <2>1, <2>2 DEF Awaited
<1>4. ASSUME NEW s \in Slots, Answer(s) PROVE \E o \in Slots : Awaited(o)'
  <2>1. ~Handles(s)
    BY HandledRequest
  <2>2. Unheard(s)
    BY <1>4, <2>1 DEF Answer, Handles, SaveAnswered, SaveCut, FinishAnswered, SaveFailed
  <2>3. /\ \A o \in Slots : o # s => call'[o] = call[o]
        /\ call[s].at = Nothing /\ UNCHANGED <<view, listening, hit>>
    BY <2>2 DEF Unheard, TypeInv, CallShape, browser
  <2>4. PICK o \in Slots : Awaited(o)
    BY <2>3 DEF ListenerInv
  <2>5. o # s
    BY <2>3, <2>4 DEF Awaited
  <2>6. QED
    BY <2>3, <2>4, <2>5 DEF Awaited
<1>5. CASE UNCHANGED vars
  BY <1>5 DEF vars, browser, ListenerInv, Awaited
<1>6. QED
  BY <1>1, <1>2, <1>3, <1>4, <1>5 DEF Next

(* An open page has its listener of beforeunload unless an answer to an    *)
(* add or a remove is awaited or a handler threw, whatever mixture of      *)
(* answers and failures came last; so leaving it asks the user exactly in  *)
(* a window that a page of the application has opened.                     *)
THEOREM ListenerStands == Spec => []LeavingAsksIfOpened
<1>1. Spec => []TypeInv
  BY InitTypes, NextTypes, PTL DEF Spec
<1>2. Init => ListenerInv
  BY DEF Init, ListenerInv
<1>3. ListenerInv => LeavingAsksIfOpened
  BY DEF ListenerInv, LeavingAsksIfOpened, Asks
<1>4. QED
  BY <1>1, <1>2, <1>3, NextListener, PTL DEF Spec

-------------------------------------------------------------------------------
(* Places in a list without repetition.                                    *)

LEMMA PlaceOf ==
  ASSUME NEW list, Apart(list), NEW i \in DOMAIN list, list[i] # Placeholder
  PROVE  list[i] \in ToSet(list) /\ Place(list[i], list) = i
BY DEF Apart, Place, ToSet

LEMMA BesideIt ==
  ASSUME NEW S, NEW list \in Seq(S), Apart(list), NEW i \in DOMAIN list, list[i] # Placeholder
  PROVE  /\ Following(list, list[i]) = IF i < Len(list) THEN list[i + 1] ELSE Nothing
         /\ Previous(list, list[i]) = IF i > 1 THEN list[i - 1] ELSE Nothing
BY PlaceOf DEF Following, Previous

LEMMA FirstAndLast ==
  ASSUME DocShape, NEW list \in Seq(Made), Apart(list), NEW i \in DOMAIN list
  PROVE  /\ TopElement(list, list[i]) <=> i = 1
         /\ BottomElement(list, list[i]) <=> i = Len(list)
<1>1. Made \subseteq Elems /\ Placeholder \notin Made /\ Nothing \notin Elems
  BY MadeBound DEF Nothing, Elems
<1>2. list[i] # Placeholder /\ Len(list) \in Nat /\ i \in 1..Len(list) /\ \A j \in 1..Len(list) : list[j] \in Made
  BY <1>1
<1>3. /\ Following(list, list[i]) = IF i < Len(list) THEN list[i + 1] ELSE Nothing
      /\ Previous(list, list[i]) = IF i > 1 THEN list[i - 1] ELSE Nothing
  BY <1>2, BesideIt
<1>4. TopElement(list, list[i]) <=> i = 1
  <2>1. CASE i = 1
    BY <1>1, <1>3, <2>1 DEF TopElement, IsElem
  <2>2. CASE i > 1
    <3>1. i - 1 \in 1..Len(list)
      BY <1>2, <2>2
    <3>2. QED
      BY <1>1, <1>2, <1>3, <2>2, <3>1 DEF TopElement, IsElem
  <2>3. QED
    BY <1>2, <2>1, <2>2
<1>5. BottomElement(list, list[i]) <=> i = Len(list)
  <2>1. CASE i = Len(list)
    BY <1>1, <1>3, <2>1 DEF BottomElement, IsElem
  <2>2. CASE i < Len(list)
    <3>1. i + 1 \in 1..Len(list)
      BY <1>2, <2>2
    <3>2. QED
      BY <1>1, <1>2, <1>3, <2>2, <3>1 DEF BottomElement, IsElem
  <2>3. QED
    BY <1>2, <2>1, <2>2
<1>6. QED
  BY <1>4, <1>5

(* The controls of a list, by place.                                       *)
Fitting(c, list) ==
  /\ c \in ControlsOf
  /\ c[Placeholder] = IF list = <<>> /\ ~simple THEN {"+"} ELSE {}
  /\ \A i \in DOMAIN list : c[list[i]] = FirstControls(i, Len(list))
  /\ \A e \in Elems : e \notin ToSet(list) => c[e] = {}

LEMMA DressedFitting ==
  ASSUME DocShape, NEW list \in Seq(Made), Apart(list), NEW c
  PROVE  c = Dressed(list) <=> Fitting(c, list)
<1>1. Made \subseteq Elems /\ Placeholder \notin Made /\ Placeholder \notin Elems
  BY MadeBound DEF Placeholder, Elems
<1>2. ASSUME NEW i \in DOMAIN list
      PROVE  list[i] \in ToSet(list) /\ list[i] \in Elems /\ list[i] # Placeholder /\ Place(list[i], list) = i
  <2>1. list[i] \in Made
    OBVIOUS
  <2>2. QED
    BY <1>1, <2>1, PlaceOf
<1>3. \A i, n : FirstControls(i, n) \subseteq Controls
  BY DEF FirstControls, Controls
<1>4. /\ Dressed(list) \in ControlsOf
      /\ Dressed(list)[Placeholder] = IF list = <<>> /\ ~simple THEN {"+"} ELSE {}
      /\ \A e \in Elems : Dressed(list)[e] = IF e \in ToSet(list) THEN FirstControls(Place(e, list), Len(list)) ELSE {}
  BY <1>1, <1>3 DEF Dressed, ControlsOf, Controls
<1>5. Fitting(Dressed(list), list)
  BY <1>2, <1>4 DEF Fitting
<1>6. ASSUME Fitting(c, list) PROVE c = Dressed(list)
  <2>1. c \in ControlsOf /\ DOMAIN c = Elems \cup {Placeholder}
    BY <1>6 DEF Fitting, ControlsOf
  <2>2. ASSUME NEW e \in Elems \cup {Placeholder} PROVE c[e] = Dressed(list)[e]
    <3>1. CASE e = Placeholder
      BY <1>4, <1>6, <3>1 DEF Fitting
    <3>2. CASE e \in Elems /\ e \notin ToSet(list)
      BY <1>4, <1>6, <3>2 DEF Fitting
    <3>3. CASE e \in Elems /\ e \in ToSet(list)
      <4>1. PICK i \in DOMAIN list : e = list[i]
        BY <3>3 DEF ToSet
      <4>2. QED
        BY <1>2, <1>4, <1>6, <3>3, <4>1 DEF Fitting
    <3>4. QED
      BY <3>1, <3>2, <3>3
  <2>3. QED
    BY <1>4, <2>1, <2>2 DEF ControlsOf
<1>7. QED
  BY <1>5, <1>6

(* What Shows leaves of the controls.                                      *)
LEMMA KeptFitting ==
  ASSUME DocShape, NEW list \in Seq(Made), Apart(list), list # <<>> \/ simple, NEW c \in ControlsOf,
         \A i \in DOMAIN list : c[list[i]] = FirstControls(i, Len(list))
  PROVE  Kept(c, list, {}) = Dressed(list)
<1>1. Made \subseteq Elems /\ Placeholder \notin Made /\ ToSet(list) \subseteq Made
  BY MadeBound DEF ToSet
<1>2. Kept(c, list, {}) \in ControlsOf /\ \A e \in Elems \cup {Placeholder} : Kept(c, list, {})[e] = IF e \in ToSet(list) THEN c[e] ELSE {}
  BY DEF Kept, ControlsOf
<1>3. \A i \in DOMAIN list : list[i] \in ToSet(list) /\ list[i] \in Elems
  BY <1>1 DEF ToSet
<1>4. Fitting(Kept(c, list, {}), list)
  BY <1>1, <1>2, <1>3 DEF Fitting
<1>5. QED
  BY <1>4, DressedFitting

-------------------------------------------------------------------------------
(* A new element can only be asked for behind the last one.                *)
OnlyLastAdds == \A e \in Elems \cup {Placeholder} : "+" \in ctl[e] => page # <<>> /\ e = page[Len(page)]

(* The page shows a list; the references are right of what is still in the *)
(* document.                                                               *)
Shown(list) ==
  /\ list \in Seq(Made) /\ Apart(list)
  /\ page = Layout(list)
  /\ \A e \in ToSet(list) : e \in ToSet(doc) => id[e] = ref[e]
  /\ \A d, e \in ToSet(list) : id[d] = id[e] => d = e
  /\ OnlyLastAdds
  /\ hit = {} => ctl = Dressed(list)

LEMMA NodeSame ==
  ASSUME TypeInv, NEW list, Shown(list), NEW e \in ToSet(page)
  PROVE  Node(page, RefOf(e)) = e /\ Buttons(page, e) = e
<1>1. Made \subseteq Elems /\ Placeholder \notin Made /\ Nothing \notin Elems /\ Detached \notin Elems
      /\ Nothing # Placeholder /\ Detached # Placeholder
  BY MadeBound DEF TypeInv, Nothing, Detached, Elems, Placeholder
<1>2. Node(page, RefOf(e)) \in ToSet(page) /\ IsOf(Node(page, RefOf(e)), RefOf(e)) /\ e \in Made \cup {Placeholder}
  BY PageNodes DEF TypeInv
<1>3. Node(page, RefOf(e)) = e
  <2>1. CASE list = <<>> /\ ~simple
    <3>1. ToSet(page) = {Placeholder}
      BY <2>1 DEF Shown, Layout, ToSet
    <3>2. QED
      BY <1>2, <3>1
  <2>2. CASE ~(list = <<>> /\ ~simple)
    <3>1. page = list /\ ToSet(list) \subseteq Made
      BY <2>2 DEF Shown, Layout, ToSet
    <3>2. RefOf(e) = id[e] /\ e # Placeholder /\ Node(page, RefOf(e)) # Placeholder
      BY <1>1, <1>2, <3>1 DEF RefOf
    <3>3. id[Node(page, RefOf(e))] = id[e]
      BY <1>2, <3>2 DEF IsOf
    <3>4. QED
      BY <1>2, <3>1, <3>3 DEF Shown
  <2>3. QED
    BY <2>1, <2>2
<1>4. QED
  BY <1>1, <1>2, <1>3 DEF Buttons

(* What is wanted of a page that an answer has changed.                    *)
Arrived ==
  /\ page' = Layout(doc)
  /\ \A e \in ToSet(doc) : id'[e] = ref[e]
  /\ OnlyLastAdds'
  /\ hit' = {} => ctl' = Dressed(doc)

LEMMA LastAdds ==
  ASSUME DocShape, NEW list \in Seq(Made), Apart(list), NEW e \in Elems \cup {Placeholder}, "+" \in Dressed(list)[e]
  PROVE  Layout(list) # <<>> /\ e = Layout(list)[Len(Layout(list))]
<1>1. Fitting(Dressed(list), list)
  BY DressedFitting
<1>2. CASE e = Placeholder
  BY <1>1, <1>2 DEF Fitting, Layout
<1>3. CASE e \in Elems /\ e \notin ToSet(list)
  BY <1>1, <1>3 DEF Fitting
<1>4. CASE e \in ToSet(list)
  <2>1. PICK i \in DOMAIN list : e = list[i]
    BY <1>4 DEF ToSet
  <2>2. i = Len(list) /\ list # <<>>
    BY <1>1, <2>1 DEF Fitting, FirstControls
  <2>3. QED
    BY <2>1, <2>2 DEF Layout
<1>5. QED
  BY <1>2, <1>3, <1>4

LEMMA ArrivedShown ==
  ASSUME TypeInv, Arrived, UNCHANGED server, UNCHANGED <<simple, min>>, sess = "whole"
  PROVE  Shown(doc)'
<1>1. doc' = doc /\ ref' = ref /\ Made' = Made /\ doc \in Seq(Made) /\ Apart(doc)
  BY DEF server, Made, TypeInv, DocShape
<1>2. \A d, e \in ToSet(doc) : id'[d] = id'[e] => d = e
  BY DEF Arrived, TypeInv, DocShape, RefsApart
<1>3. Layout(doc)' = Layout(doc) /\ Dressed(doc)' = Dressed(doc)
  BY <1>1 DEF Layout, Dressed, FirstControls
<1>4. QED
  BY <1>1, <1>2, <1>3 DEF Arrived, Shown

(* The services have done their work, and the answer is to come.           *)
AddDone(s, list) ==
  /\ page # <<>> /\ call[s].at = page[Len(page)]
  /\ \E new \in Made :
       /\ new \notin ToSet(list) /\ call[s].list = <<new>>
       /\ doc = Append(list, new) /\ ref[new] = call[s].ref
  /\ call[s].ctl = FirstControls(Len(doc), Len(doc))

RemoveDone(s, list) ==
  /\ call[s].next = Following(page, call[s].at) /\ call[s].prev = Previous(page, call[s].at)
  /\ \E i \in DOMAIN list : call[s].at = list[i] /\ doc = RemoveAt(list, i)
  /\ call[s].list = IF doc = <<>> /\ ~simple THEN <<Placeholder>> ELSE <<>>

MoveDone(s, list) ==
  \E i, j \in DOMAIN list :
    /\ call[s].at = list[i] /\ doc = Exchange(list, i, j)
    /\ j = IF call[s].kind = "up" THEN i - 1 ELSE i + 1

(* How a page shows a list that has elements, or has none.                 *)
LEMMA ShownPage ==
  ASSUME TypeInv, NEW list, Shown(list)
  PROVE  /\ list \in Seq(Made) /\ Apart(list) /\ Len(list) \in Nat /\ DOMAIN list = 1..Len(list)
         /\ \A i \in DOMAIN list : list[i] \in Made /\ list[i] \in Elems /\ list[i] # Placeholder /\ list[i] # Nothing
         /\ \A i, j \in DOMAIN list : list[i] = list[j] => i = j
         /\ list # <<>> => page = list
         /\ list = <<>> => page = IF simple THEN <<>> ELSE <<Placeholder>>
<1>1. Made \subseteq Elems /\ Placeholder \notin Made /\ Nothing \notin Made
  BY MadeBound DEF TypeInv, Nothing, Elems
<1>2. list \in Seq(Made) /\ Apart(list) /\ page = Layout(list)
  BY DEF Shown
<1>3. \A i \in DOMAIN list : list[i] \in Made
  BY <1>2
<1>4. QED
  BY <1>1, <1>2, <1>3 DEF Layout, Apart

(* The controls of a list of one, and of a longer one.                     *)
LEMMA ControlsByPlace ==
  ASSUME PageShape
  PROVE  /\ FirstControls(1, 1) = {"+"} \cup (IF min = 0 THEN {"x"} ELSE {})
         /\ \A m \in Nat : \A i \in 1..m : m # 1 =>
              FirstControls(i, m) = IF i = m THEN {"+", "x", "^"} ELSE IF i = 1 THEN {"x", "v"} ELSE {"x", "^", "v"}
<1>1. min \in {0, 1}
  BY DEF PageShape
<1>2. FirstControls(1, 1) = {"+"} \cup (IF min = 0 THEN {"x"} ELSE {})
  BY <1>1 DEF FirstControls
<1>3. ASSUME NEW m \in Nat, NEW i \in 1..m, m # 1
      PROVE  FirstControls(i, m) = IF i = m THEN {"+", "x", "^"} ELSE IF i = 1 THEN {"x", "v"} ELSE {"x", "^", "v"}
  <2>1. m > min /\ i \in Nat /\ i <= m /\ 1 <= i
    BY <1>1, <1>3
  <2>2. CASE i = m
    <3>1. i > 1 /\ ~(i < m)
      BY <1>3, <2>1, <2>2
    <3>2. QED
      BY <2>1, <2>2, <3>1 DEF FirstControls
  <2>3. CASE i # m /\ i = 1
    <3>1. ~(i > 1) /\ i < m
      BY <2>1, <2>3
    <3>2. QED
      BY <2>1, <2>3, <3>1 DEF FirstControls
  <2>4. CASE i # m /\ i # 1
    <3>1. i > 1 /\ i < m
      BY <2>1, <2>4
    <3>2. QED
      BY <2>1, <2>4, <3>1 DEF FirstControls
  <2>5. QED
    BY <2>2, <2>3, <2>4
<1>4. QED
  BY <1>2, <1>3

LEMMA InsertedLast ==
  ASSUME NEW S, NEW list \in Seq(S), NEW e \in S
  PROVE  InsertAt(list, Len(list) + 1, e) = Append(list, e)
<1>1. PICK i \in 1..(Len(list) + 1) : i = Len(list) + 1
  OBVIOUS
<1>a. Inserted(S, list, i, e)
  BY InsertedEntries
<1>2. /\ InsertAt(list, i, e) \in Seq(S)
      /\ Len(InsertAt(list, i, e)) = Len(list) + 1
      /\ \A j \in 1..(Len(list) + 1) :
           InsertAt(list, i, e)[j] = IF j < i THEN list[j] ELSE IF j = i THEN e ELSE list[j - 1]
  BY <1>a DEF Inserted
<1>3. /\ Append(list, e) \in Seq(S)
      /\ Len(Append(list, e)) = Len(list) + 1
      /\ \A j \in 1..(Len(list) + 1) : Append(list, e)[j] = IF j = Len(list) + 1 THEN e ELSE list[j]
  BY Appended
<1> DEFINE a == InsertAt(list, i, e)
           b == Append(list, e)
<1> HIDE DEF a, b
<1>4. a \in Seq(S) /\ b \in Seq(S) /\ Len(a) = Len(b) /\ Len(b) = Len(list) + 1
  BY <1>2, <1>3 DEF a, b
<1>5. ASSUME NEW j \in 1..(Len(list) + 1) PROVE a[j] = b[j]
  <2>1. a[j] = IF j < i THEN list[j] ELSE e
    BY <1>1, <1>2 DEF a
  <2>2. b[j] = IF j = Len(list) + 1 THEN e ELSE list[j]
    BY <1>3 DEF b
  <2>3. QED
    BY <1>1, <2>1, <2>2
<1>6. a = b
  BY <1>4, <1>5
<1>7. QED
  BY <1>1, <1>6 DEF a, b

LEMMA OneReplaced == \A a, b : ReplaceAt(<<a>>, 1, b) = <<b>>
BY DEF ReplaceAt

LEMMA AddArrives ==
  ASSUME TypeInv, NEW s \in Slots, AddAnswered(s), NEW list, Shown(list), AddDone(s, list)
  PROVE  Arrived /\ hit' = hit
<1> DEFINE at == call[s].at
           n == Len(list)
<1>0. /\ list \in Seq(Made) /\ Apart(list) /\ n \in Nat /\ DOMAIN list = 1..n /\ n = Len(list)
      /\ \A i \in 1..n : list[i] \in Made /\ list[i] \in Elems /\ list[i] # Placeholder
      /\ \A i, j \in 1..n : list[i] = list[j] => i = j
      /\ list # <<>> => page = list
      /\ list = <<>> => page = IF simple THEN <<>> ELSE <<Placeholder>>
      /\ DocShape /\ ctl \in ControlsOf /\ id \in [Elems -> 0..made]
      /\ Made \subseteq Elems /\ Placeholder \notin Made
  BY ShownPage, MadeBound DEF TypeInv, PageShape, ControlsOf
<1>n. n \in Nat /\ DOMAIN list = 1..n
  BY <1>0
<1> HIDE DEF n
<1>1. PICK new \in Made : /\ new \notin ToSet(list) /\ call[s].list = <<new>>
                          /\ doc = Append(list, new) /\ ref[new] = call[s].ref
  BY DEF AddDone
<1>2. page # <<>> /\ at = page[Len(page)] /\ call[s].list[1] = new /\ call[s].ctl = FirstControls(Len(doc), Len(doc))
  BY <1>1 DEF AddDone
<1>3. InPage(at)
  <2>1. page \in Seq(Made \cup {Placeholder})
    BY DEF TypeInv, PageShape
  <2>2. Len(page) \in DOMAIN page
    BY <1>2, <2>1
  <2>3. QED
    BY <1>2, <2>2 DEF InPage, ToSet
<1>4. id' = [id EXCEPT ![new] = call[s].ref]
  BY <1>2, <1>3 DEF AddAnswered
<1>5. /\ doc \in Seq(Made) /\ Apart(doc) /\ Len(doc) = n + 1 /\ doc # <<>> /\ DOMAIN doc = 1..(n + 1)
      /\ doc[n + 1] = new /\ (\A i \in 1..n : doc[i] = list[i])
      /\ ToSet(doc) = ToSet(list) \cup {new}
  BY <1>0, <1>1, Appended, AppendedElements
<1>6. \A e \in ToSet(doc) : id'[e] = ref[e]
  <2>1. \A e \in ToSet(list) : id[e] = ref[e]
    BY <1>5 DEF Shown
  <2>2. id'[new] = ref[new] /\ \A e \in ToSet(list) : id'[e] = id[e]
    BY <1>0, <1>1, <1>4
  <2>3. QED
    BY <1>5, <2>1, <2>2
<1>7. CASE list = <<>>
  <2>1. page = <<Placeholder>> /\ at = Placeholder /\ doc = <<new>> /\ n = 0
    BY <1>0, <1>1, <1>2, <1>7
  <2> DEFINE c == [ctl EXCEPT ![new] = call[s].ctl]
  <2>2. Shows(ReplaceAt(page, Place(at, page), new), c, {})
    BY <1>2, <1>3, <2>1 DEF AddAnswered
  <2>3. ReplaceAt(page, Place(at, page), new) = doc
    <3>1. Place(at, page) = 1
      BY <2>1 DEF Place
    <3>2. QED
      BY <2>1, <3>1, OneReplaced
  <2>4. c \in ControlsOf /\ \A i \in DOMAIN doc : c[doc[i]] = FirstControls(i, Len(doc))
    <3>1. c \in ControlsOf
      BY <1>0, <1>2, ControlsTyped
    <3>2. c[new] = FirstControls(1, 1)
      BY <1>0, <1>2, <2>1 DEF ControlsOf
    <3>3. QED
      BY <2>1, <3>1, <3>2
  <2> HIDE DEF c
  <2>5. page' = doc /\ ctl' = Kept(c, doc, {}) /\ hit' = hit
    BY <2>2, <2>3 DEF Shows
  <2>6. ctl' = Dressed(doc)
    BY <1>0, <1>5, <2>4, <2>5, KeptFitting
  <2>7. page' = Layout(doc)
    BY <1>5, <2>5 DEF Layout
  <2>8. OnlyLastAdds'
    BY <1>0, <1>5, <2>6, <2>7, LastAdds DEF OnlyLastAdds
  <2>9. QED
    BY <1>6, <2>5, <2>6, <2>7, <2>8 DEF Arrived
<1>8. CASE list # <<>>
  <2>1. page = list /\ n \in 1..n /\ at = list[n] /\ at \in Made /\ at # Placeholder
    BY <1>0, <1>2, <1>8
  <2> DEFINE l == InsertAt(page, Place(at, page) + 1, new)
             c == SetAddControls(ctl, l, new)
  <2>2. Shows(l, c, {})
    BY <1>2, <1>3, <2>1 DEF AddAnswered
  <2>3. l = doc
    <3>1. Place(at, page) = n
      BY <1>0, <2>1, PlaceOf
    <3>2. list \in Seq(Made) /\ Len(list) = n
      BY <1>0
    <3>3. InsertAt(list, n + 1, new) = Append(list, new)
      BY <3>2, InsertedLast
    <3>4. QED
      BY <1>1, <2>1, <3>1, <3>3
  <2>4. c = [ctl EXCEPT ![new] = {"+", "x", "^"}, ![at] = IF n = 1 THEN {"x", "v"} ELSE {"x", "^", "v"}]
    <3>1. n + 1 \in DOMAIN doc /\ n \in DOMAIN doc /\ doc[n + 1] # Placeholder /\ n + 1 > 1 /\ doc[n] = at
      BY <1>0, <1>5, <2>1
    <3>2. Previous(doc, new) = at
      BY <1>5, <3>1, BesideIt
    <3>3. TopElement(doc, at) <=> n = 1
      BY <1>0, <1>5, <3>1, FirstAndLast
    <3>4. QED
      BY <2>3, <3>2, <3>3 DEF SetAddControls
  <2>5. new # at
    BY <1>0, <1>1, <2>1 DEF ToSet
  <2>6. /\ c \in ControlsOf /\ c[new] = {"+", "x", "^"} /\ c[at] = IF n = 1 THEN {"x", "v"} ELSE {"x", "^", "v"}
        /\ \A e \in Elems : e # new /\ e # at => c[e] = ctl[e]
    <3>1. c \in ControlsOf
      BY <1>0, ControlsTyped
    <3> DEFINE b == IF n = 1 THEN {"x", "v"} ELSE {"x", "^", "v"}
    <3>2. new \in DOMAIN ctl /\ at \in DOMAIN ctl /\ DOMAIN ctl = Elems \cup {Placeholder}
      BY <1>0, <2>1 DEF ControlsOf
    <3>3. c = [ctl EXCEPT ![new] = {"+", "x", "^"}, ![at] = b]
      BY <2>4
    <3> HIDE DEF b, c
    <3>4. c[new] = {"+", "x", "^"} /\ c[at] = b /\ \A e \in Elems : e # new /\ e # at => c[e] = ctl[e]
      BY <2>5, <3>2, <3>3
    <3>5. QED
      BY <3>1, <3>4 DEF b
  <2> HIDE DEF c, l
  <2>7. page' = doc /\ ctl' = Kept(c, doc, {}) /\ hit' = hit
    BY <2>2, <2>3 DEF Shows
  <2>8. page' = Layout(doc)
    BY <1>5, <2>7 DEF Layout
  <2>9. ASSUME hit = {} PROVE ctl' = Dressed(doc)
    <3>1. Fitting(ctl, list)
      BY <1>0, <2>9, DressedFitting DEF Shown
    <3>2. PageShape
      BY DEF TypeInv
    <3>3. FirstControls(n + 1, n + 1) = {"+", "x", "^"} /\ FirstControls(n, n + 1) = IF n = 1 THEN {"x", "v"} ELSE {"x", "^", "v"}
      <4>0. n \in 1..n
        BY <2>1
      <4>1. n + 1 \in Nat /\ n + 1 # 1 /\ n \in 1..(n + 1) /\ n + 1 \in 1..(n + 1) /\ n # n + 1
        BY <1>n, <4>0
      <4>2. QED
        BY <3>2, <4>1, ControlsByPlace
    <3>4. ASSUME NEW i \in 1..n, i # n PROVE c[doc[i]] = FirstControls(i, n + 1)
      <4>1. doc[i] = list[i] /\ list[i] \in Elems /\ list[i] # new /\ list[i] # at
        <5>1. list[i] # list[n] /\ list[i] \in ToSet(list)
          BY <1>0, <2>1, <3>4 DEF ToSet
        <5>2. QED
          BY <1>0, <1>1, <1>5, <2>1, <5>1
      <4>2. ctl[list[i]] = FirstControls(i, n)
        BY <1>0, <3>1 DEF Fitting
      <4>2a. c[doc[i]] = FirstControls(i, n)
        BY <2>6, <4>1, <4>2
      <4>3. n \in Nat /\ n + 1 \in Nat /\ i \in 1..n /\ i \in 1..(n + 1) /\ n # 1 /\ n + 1 # 1 /\ i # n + 1
        BY <1>n, <3>4
      <4>4. FirstControls(i, n) = FirstControls(i, n + 1)
        <5>1. FirstControls(i, n) = IF i = 1 THEN {"x", "v"} ELSE {"x", "^", "v"}
          BY <3>2, <3>4, <4>3, ControlsByPlace
        <5>2. FirstControls(i, n + 1) = IF i = 1 THEN {"x", "v"} ELSE {"x", "^", "v"}
          BY <3>2, <4>3, ControlsByPlace
        <5>3. QED
          BY <5>1, <5>2
      <4>5. QED
        BY <4>2a, <4>4
    <3>7. \A i \in DOMAIN doc : c[doc[i]] = FirstControls(i, Len(doc))
      <4>1. c[doc[n + 1]] = FirstControls(n + 1, n + 1) /\ c[doc[n]] = FirstControls(n, n + 1)
        <5>1. doc[n + 1] = new /\ doc[n] = at
          BY <1>5, <2>1
        <5>2. QED
          BY <2>6, <3>3, <5>1
      <4>2. \A i \in 1..(n + 1) : i = n + 1 \/ i = n \/ (i \in 1..n /\ i # n)
        BY <1>n
      <4>3. QED
        BY <1>5, <3>4, <4>1, <4>2
    <3>8. QED
      BY <1>0, <1>5, <2>6, <2>7, <3>7, KeptFitting
  <2>10. OnlyLastAdds'
    <3> SUFFICES ASSUME NEW e \in Elems \cup {Placeholder}, "+" \in ctl'[e]
                 PROVE  e = doc[Len(doc)]
      BY <1>5, <2>7 DEF OnlyLastAdds
    <3>1. e \in ToSet(doc) /\ "+" \in c[e] /\ e \in Elems
      <4>1. DOMAIN c = Elems \cup {Placeholder} /\ ToSet(doc) \subseteq Elems
        BY <1>0, <1>5, <2>6 DEF ControlsOf, ToSet
      <4>2. e \in ToSet(doc) /\ "+" \in c[e]
        BY <2>7, <4>1, KeptInList
      <4>3. QED
        BY <4>1, <4>2
    <3>2. e # at
      BY <2>6, <3>1
    <3>3. e # new => e = page[Len(page)]
      BY <2>6, <3>1, <3>2 DEF Shown, OnlyLastAdds
    <3>4. e = new
      <4>1. page[Len(page)] = at
        BY <1>2
      <4>2. QED
        BY <3>2, <3>3, <4>1
    <3>5. QED
      BY <1>5, <3>4
  <2>11. QED
    BY <1>6, <2>7, <2>8, <2>9, <2>10 DEF Arrived
<1>9. QED
  BY <1>7, <1>8

LEMMA KeptOnly ==
  ASSUME NEW c \in ControlsOf, NEW list, NEW e \in Elems \cup {Placeholder}, "+" \in Kept(c, list, {})[e]
  PROVE  e \in ToSet(list) /\ "+" \in c[e]
BY KeptInList DEF ControlsOf

(* The facts of a page that shows a list, for a removal or a move of one   *)
(* of its elements.                                                        *)
LEMMA OneOfShown ==
  ASSUME TypeInv, NEW list, Shown(list), NEW i \in DOMAIN list
  PROVE  /\ list # <<>> /\ page = list /\ list \in Seq(Made) /\ Apart(list)
         /\ Len(list) \in Nat /\ DOMAIN list = 1..Len(list) /\ i \in 1..Len(list)
         /\ list[i] \in Elems /\ list[i] # Placeholder /\ list[i] # Nothing
         /\ InPage(list[i]) /\ Place(list[i], page) = i /\ Buttons(page, list[i]) = list[i]
<1>1. /\ list \in Seq(Made) /\ Apart(list) /\ Len(list) \in Nat /\ DOMAIN list = 1..Len(list)
      /\ list[i] \in Elems /\ list[i] # Placeholder /\ list[i] # Nothing
      /\ list # <<>> => page = list
  BY ShownPage
<1>2. list # <<>> /\ page = list
  BY <1>1
<1>3. InPage(list[i]) /\ Place(list[i], page) = i
  BY <1>1, <1>2, PlaceOf DEF InPage
<1>4. Buttons(page, list[i]) = list[i]
  BY <1>3, NodeSame DEF InPage
<1>5. QED
  BY <1>1, <1>2, <1>3, <1>4

LEMMA LastArrives ==
  ASSUME TypeInv, NEW s \in Slots, LastRemoved(s), NEW list, Shown(list), RemoveDone(s, list)
  PROVE  Arrived /\ hit' = hit
<1> DEFINE at == call[s].at
<1>1. PICK i \in DOMAIN list : at = list[i] /\ doc = RemoveAt(list, i)
  BY DEF RemoveDone
<1>2. /\ page = list /\ list \in Seq(Made) /\ Len(list) \in Nat /\ i \in 1..Len(list)
      /\ InPage(at) /\ Place(at, page) = i
  BY <1>1, OneOfShown
<1>3. doc = <<>> /\ ~simple
  BY DEF LastRemoved, RemoveDone
<1>4. Len(list) = 1 /\ i = 1
  <2>1. Len(doc) = Len(list) - 1
    BY <1>1, <1>2, RemovedAt
  <2>2. Len(doc) = 0
    BY <1>3
  <2>3. QED
    BY <1>2, <2>1, <2>2
<1> DEFINE l == ReplaceAt(page, 1, Placeholder)
           c == [ctl EXCEPT ![Placeholder] = {"+"}]
<1>5. Shows(l, c, {})
  BY <1>2, <1>4 DEF LastRemoved
<1>6. l = <<Placeholder>>
  <2>1. page = <<at>>
    BY <1>1, <1>2, <1>4
  <2>2. QED
    BY <2>1, OneReplaced
<1>7. c \in ControlsOf /\ c[Placeholder] = {"+"}
  <2>1. ctl \in ControlsOf /\ {"+"} \in SUBSET Controls
    BY DEF TypeInv, PageShape, ControlsOf, Controls
  <2>2. QED
    BY <2>1, ControlsTyped DEF ControlsOf
<1> HIDE DEF c, l
<1>8. page' = <<Placeholder>> /\ ctl' = Kept(c, <<Placeholder>>, {}) /\ hit' = hit
  BY <1>5, <1>6 DEF Shows
<1>9. \A e \in Elems \cup {Placeholder} : ctl'[e] = IF e = Placeholder THEN {"+"} ELSE {}
  <2>1. ToSet(<<Placeholder>>) = {Placeholder}
    BY DEF ToSet
  <2>2. QED
    BY <1>7, <1>8, <2>1, KeptInList DEF ControlsOf
<1>10. ctl' = Dressed(doc)
  <2>1. Kept(c, <<Placeholder>>, {}) \in ControlsOf
    BY <1>7, ControlsTyped
  <2>2. ctl' \in ControlsOf
    BY <1>8, <2>1
  <2>3. ToSet(doc) = {} /\ DOMAIN doc = {} /\ Placeholder \notin Elems
    BY <1>3 DEF ToSet, Elems, Placeholder
  <2>4. Fitting(ctl', doc)
    BY <1>3, <1>9, <2>2, <2>3 DEF Fitting
  <2>5. DocShape /\ doc \in Seq(Made) /\ Apart(doc)
    BY DEF TypeInv, DocShape
  <2>6. QED
    BY <2>4, <2>5, DressedFitting
<1>11. OnlyLastAdds'
  BY <1>8, <1>9 DEF OnlyLastAdds
<1>12. page' = Layout(doc) /\ ToSet(doc) = {}
  BY <1>3, <1>8 DEF Layout, ToSet
<1>13. QED
  BY <1>8, <1>10, <1>11, <1>12 DEF Arrived

LEMMA MoveArrives ==
  ASSUME TypeInv, NEW s \in Slots, MoveAnswered(s), NEW list, Shown(list), MoveDone(s, list)
  PROVE  Arrived /\ hit' = hit
<1> DEFINE at == call[s].at
           n == Len(list)
<1>1. PICK i \in DOMAIN list, j \in DOMAIN list :
        at = list[i] /\ doc = Exchange(list, i, j) /\ j = IF call[s].kind = "up" THEN i - 1 ELSE i + 1
  BY DEF MoveDone
<1> DEFINE other == list[j]
<1>2. /\ list # <<>> /\ page = list /\ list \in Seq(Made) /\ Apart(list)
      /\ n \in Nat /\ DOMAIN list = 1..n /\ i \in 1..n /\ j \in 1..n
      /\ at \in Elems /\ at # Placeholder /\ Place(at, page) = i /\ Buttons(page, at) = at
      /\ other \in Elems /\ other # Placeholder /\ other # Nothing /\ Place(other, page) = j /\ Buttons(page, other) = other
  BY <1>1, OneOfShown
<1>3. n \in Nat /\ i \in 1..n /\ j \in 1..n
  BY <1>2
<1>4. other = IF call[s].kind = "up" THEN Previous(page, at) ELSE Following(page, at)
  <2>1. /\ Following(list, at) = IF i < n THEN list[i + 1] ELSE Nothing
        /\ Previous(list, at) = IF i > 1 THEN list[i - 1] ELSE Nothing
    BY <1>1, <1>2, BesideIt
  <2>2. CASE call[s].kind = "up"
    <3>1. i > 1 /\ j = i - 1
      BY <1>1, <1>3, <2>2
    <3>2. QED
      BY <1>2, <2>1, <2>2, <3>1
  <2>3. CASE call[s].kind # "up"
    <3>1. i < n /\ j = i + 1
      BY <1>1, <1>3, <2>3
    <3>2. QED
      BY <1>2, <2>1, <2>3, <3>1
  <2>4. QED
    BY <2>2, <2>3
<1> DEFINE c == SwapControls(ctl, at, other)
<1>5. Shows(doc, c, {}) /\ id' = id
  BY <1>1, <1>2, <1>4 DEF MoveAnswered
<1>6. i # j
  BY <1>1, <1>3
<1>7. at # other
  BY <1>1, <1>2, <1>6 DEF Apart
<1>8. ctl \in ControlsOf
  BY DEF TypeInv, PageShape, ControlsOf
<1>9. c \in ControlsOf /\ c[at] = ctl[other] /\ c[other] = ctl[at] /\ \A e \in Elems \cup {Placeholder} : e # at /\ e # other => c[e] = ctl[e]
  <2>1. c \in ControlsOf
    BY <1>2, <1>8, ControlsTyped
  <2>2. QED
    BY <1>2, <1>7, <1>8, <2>1 DEF SwapControls, ControlsOf
<1>10. /\ doc \in Seq(Made) /\ Apart(doc) /\ Len(doc) = n /\ DOMAIN doc = 1..n /\ doc # <<>>
       /\ doc[i] = other /\ doc[j] = at /\ \A k \in 1..n : k # i /\ k # j => doc[k] = list[k]
       /\ ToSet(doc) = ToSet(list)
  <2>1. /\ doc \in Seq(Made) /\ Len(doc) = n /\ ToSet(doc) = ToSet(list) /\ Apart(doc)
        /\ \A k \in 1..n : doc[k] = IF k = j THEN list[i] ELSE IF k = i THEN list[j] ELSE list[k]
    <3>1. list \in Seq(Made) /\ Apart(list)
      BY <1>2
    <3>2. /\ Exchange(list, i, j) \in Seq(Made) /\ Len(Exchange(list, i, j)) = Len(list)
          /\ \A k \in 1..Len(list) :
               Exchange(list, i, j)[k] = IF k = j THEN list[i] ELSE IF k = i THEN list[j] ELSE list[k]
      BY <3>1, Exchanged
    <3>3. ToSet(Exchange(list, i, j)) = ToSet(list) /\ Apart(Exchange(list, i, j))
      BY <3>1, ExchangedElements
    <3>4. QED
      BY <1>1, <3>2, <3>3
  <2>2. QED
    BY <1>1, <1>3, <1>6, <2>1
<1> HIDE DEF c, other, n
<1>11. page' = doc /\ ctl' = Kept(c, doc, {}) /\ hit' = hit
  BY <1>5 DEF Shows
<1>12. page' = Layout(doc)
  BY <1>10, <1>11 DEF Layout
<1>13. \A e \in ToSet(doc) : id'[e] = ref[e]
  BY <1>5, <1>10 DEF Shown
<1>14. ASSUME hit = {} PROVE ctl' = Dressed(doc)
  <2>1. DocShape
    BY DEF TypeInv
  <2>2. Fitting(ctl, list)
    BY <1>2, <1>14, <2>1, DressedFitting DEF Shown
  <2>3. ASSUME NEW k \in 1..n PROVE c[doc[k]] = FirstControls(k, n)
    <3>1. \A m \in 1..n : ctl[list[m]] = FirstControls(m, n)
      BY <1>2, <2>2 DEF Fitting, n
    <3>2. CASE k = i
      <4>1. c[doc[k]] = ctl[list[i]]
        BY <1>1, <1>9, <1>10, <3>2
      <4>2. QED
        BY <1>3, <3>1, <3>2, <4>1
    <3>3. CASE k = j
      <4>1. c[doc[k]] = ctl[list[j]]
        BY <1>9, <1>10, <3>3 DEF other
      <4>2. QED
        BY <1>3, <3>1, <3>3, <4>1
    <3>4. CASE k # i /\ k # j
      <4>1. doc[k] = list[k] /\ list[k] # at /\ list[k] # other /\ list[k] \in Elems
        <5>1. list[k] # list[i] /\ list[k] # list[j] /\ list[k] \in Elems
          BY <1>2, <2>1, <3>4, ShownPage
        <5>2. QED
          BY <1>1, <1>10, <3>4, <5>1 DEF other
      <4>2. QED
        BY <1>9, <3>1, <4>1
    <3>5. QED
      BY <3>2, <3>3, <3>4
  <2>4. \A k \in DOMAIN doc : c[doc[k]] = FirstControls(k, Len(doc))
    BY <1>10, <2>3
  <2>5. QED
    BY <1>9, <1>10, <1>11, <2>1, <2>4, KeptFitting
<1>15. OnlyLastAdds'
  <2> SUFFICES ASSUME NEW e \in Elems \cup {Placeholder}, "+" \in ctl'[e] PROVE e = doc[n]
    BY <1>10, <1>11 DEF OnlyLastAdds
  <2>1. "+" \in c[e]
    BY <1>9, <1>11, KeptOnly
  <2>2. \A d \in Elems \cup {Placeholder} : "+" \in ctl[d] => d = list[n]
    BY <1>2 DEF Shown, OnlyLastAdds, n
  <2>3. n \in 1..n
    BY <1>3
  <2>4. CASE e = at
    <3>1. other = list[n]
      BY <1>2, <1>9, <2>1, <2>2, <2>4
    <3>2. j = n
      BY <1>2, <2>3, <3>1, ShownPage DEF other
    <3>3. QED
      BY <1>10, <2>4, <3>2
  <2>5. CASE e = other
    <3>1. list[i] = list[n]
      BY <1>1, <1>2, <1>9, <2>1, <2>2, <2>5
    <3>2. i = n
      BY <1>2, <2>3, <3>1, ShownPage
    <3>3. QED
      BY <1>10, <2>5, <3>2
  <2>6. CASE e # at /\ e # other
    <3>1. e = list[n]
      BY <1>9, <2>1, <2>2, <2>6
    <3>2. n # i /\ n # j
      BY <1>1, <2>6, <3>1 DEF other
    <3>3. QED
      BY <1>10, <2>3, <3>1, <3>2
  <2>7. QED
    BY <2>4, <2>5, <2>6
<1>16. QED
  BY <1>11, <1>12, <1>13, <1>14, <1>15 DEF Arrived

(* A list that one element has been removed from, by place.                *)
LEMMA OneRemoved ==
  ASSUME TypeInv, NEW list, Shown(list), NEW i \in DOMAIN list, doc = RemoveAt(list, i)
  PROVE  /\ doc \in Seq(Made) /\ Apart(doc) /\ Len(doc) = Len(list) - 1 /\ DOMAIN doc = 1..(Len(list) - 1)
         /\ ToSet(doc) = ToSet(list) \ {list[i]}
         /\ \A k \in 1..(Len(list) - 1) : doc[k] = IF k < i THEN list[k] ELSE list[k + 1]
<1>1. list \in Seq(Made) /\ Apart(list) /\ list[i] # Placeholder
  BY OneOfShown
<1>2. /\ RemoveAt(list, i) \in Seq(Made) /\ Len(RemoveAt(list, i)) = Len(list) - 1
      /\ \A k \in 1..(Len(list) - 1) : RemoveAt(list, i)[k] = IF k < i THEN list[k] ELSE list[k + 1]
  BY <1>1, RemovedAt
<1>3. ToSet(RemoveAt(list, i)) = ToSet(list) \ {list[i]} /\ Apart(RemoveAt(list, i))
  BY <1>1, RemovedElements
<1>4. doc \in Seq(Made) /\ Len(doc) = Len(list) - 1
  BY <1>2
<1>5. DOMAIN doc = 1..(Len(list) - 1)
  BY <1>4
<1>6. QED
  BY <1>2, <1>3, <1>4, <1>5

(* The last one of several in the page was removed, outside the simple tab *)
LEMMA BottomArrives ==
  ASSUME TypeInv, NEW s \in Slots, RemoveAnswered(s), RemovedBottom(s), NEW list, Shown(list), RemoveDone(s, list),
         NEW n \in Nat, n = Len(list), n > 1, call[s].at = list[n], doc = RemoveAt(list, n), ~simple
  PROVE  /\ page' = doc /\ hit' = hit /\ OnlyLastAdds'
         /\ hit = {} => ctl' = Dressed(doc)
<1> DEFINE at == list[n]
           prev == list[n - 1]
<1>1. n \in 1..n /\ n - 1 \in 1..n /\ n - 1 \in 1..(n - 1) /\ n - 1 \in Nat /\ n - 1 # n
  OBVIOUS
<1>2. n \in DOMAIN list /\ n - 1 \in DOMAIN list
  BY <1>1, ShownPage
<1>3. /\ page = list /\ list \in Seq(Made) /\ Apart(list) /\ DOMAIN list = 1..n
      /\ at \in Elems /\ at # Placeholder /\ at # Nothing /\ InPage(at) /\ Place(at, page) = n /\ Buttons(page, at) = at
      /\ prev \in Elems /\ prev # Placeholder /\ prev # Nothing /\ Buttons(page, prev) = prev
  <2>1. /\ page = list /\ list \in Seq(Made) /\ Apart(list) /\ DOMAIN list = 1..n
        /\ at \in Elems /\ at # Placeholder /\ at # Nothing /\ InPage(at) /\ Place(at, page) = n /\ Buttons(page, at) = at
    BY <1>2, OneOfShown
  <2>2. prev \in Elems /\ prev # Placeholder /\ prev # Nothing /\ Buttons(page, prev) = prev
    BY <1>2, OneOfShown
  <2>3. QED
    BY <2>1, <2>2
<1>4. /\ doc \in Seq(Made) /\ Apart(doc) /\ Len(doc) = n - 1 /\ DOMAIN doc = 1..(n - 1)
      /\ ToSet(doc) = ToSet(list) \ {at}
      /\ \A k \in 1..(n - 1) : doc[k] = list[k]
  <2>1. /\ doc \in Seq(Made) /\ Apart(doc) /\ Len(doc) = n - 1 /\ DOMAIN doc = 1..(n - 1)
        /\ ToSet(doc) = ToSet(list) \ {at}
        /\ \A k \in 1..(n - 1) : doc[k] = IF k < n THEN list[k] ELSE list[k + 1]
    BY <1>2, OneRemoved
  <2>2. \A k \in 1..(n - 1) : k < n
    OBVIOUS
  <2>3. QED
    BY <2>1, <2>2
<1>5. call[s].prev = prev
  <2>1. n > 1 /\ list[n] # Placeholder
    BY <1>3
  <2>2. Previous(list, at) = prev
    BY <1>2, <1>3, <2>1, BesideIt
  <2>3. QED
    BY <1>3, <2>2 DEF RemoveDone
<1>6. at # prev
  BY <1>1, <1>3 DEF Apart
<1>7. doc[n - 1] = prev /\ n - 1 \in DOMAIN doc
  BY <1>1, <1>4
<1>8. /\ TopElement(doc, prev) <=> n - 1 = 1
      /\ BottomElement(doc, prev)
  BY <1>4, <1>7, FirstAndLast DEF TypeInv
<1> DEFINE swapped == SwapControls(ctl, at, prev)
           c == IF n = 2 THEN [swapped EXCEPT ![prev] = {"+"} \cup (IF min = 0 THEN {"x"} ELSE {})] ELSE swapped
<1>9. Shows(doc, c, {})
  <2>1. LeftAfter(s) = doc
    BY <1>3 DEF LeftAfter
  <2>2. Shows(doc, IF TopElement(doc, prev) THEN TopControls(swapped, doc, prev) ELSE swapped, {})
    BY <1>3, <1>5, <2>1 DEF RemovedBottom
  <2>3. TopElement(doc, prev) <=> n = 2
    BY <1>8
  <2>4. TopControls(swapped, doc, prev) = [swapped EXCEPT ![prev] = {"+"} \cup (IF min = 0 THEN {"x"} ELSE {})]
    BY <1>8 DEF TopControls
  <2>5. QED
    BY <2>2, <2>3, <2>4
<1>10. ctl \in ControlsOf
  BY DEF TypeInv, PageShape, ControlsOf
<1>11. swapped \in ControlsOf /\ swapped[prev] = ctl[at] /\ \A e \in Elems \cup {Placeholder} : e # at /\ e # prev => swapped[e] = ctl[e]
  <2>1. swapped \in ControlsOf
    BY <1>3, <1>10, ControlsTyped
  <2>2. QED
    BY <1>3, <1>6, <1>10, <2>1 DEF SwapControls, ControlsOf
<1> HIDE DEF swapped
<1>12. /\ c \in ControlsOf
       /\ c[prev] = IF n = 2 THEN {"+"} \cup (IF min = 0 THEN {"x"} ELSE {}) ELSE ctl[at]
       /\ \A e \in Elems \cup {Placeholder} : e # at /\ e # prev => c[e] = ctl[e]
  <2>1. CASE n = 2
    <3> DEFINE b == {"+"} \cup (IF min = 0 THEN {"x"} ELSE {})
    <3>1. b \in SUBSET Controls
      BY DEF Controls
    <3> HIDE DEF b
    <3>2. c = [swapped EXCEPT ![prev] = b]
      BY <2>1 DEF b
    <3> HIDE DEF c
    <3>3. c \in ControlsOf /\ c[prev] = b /\ \A e \in Elems \cup {Placeholder} : e # prev => c[e] = swapped[e]
      BY <1>3, <1>11, <3>1, <3>2 DEF ControlsOf
    <3>4. QED
      BY <1>11, <2>1, <3>3 DEF b
  <2>2. CASE n # 2
    BY <1>11, <2>2
  <2>3. QED
    BY <2>1, <2>2
<1> HIDE DEF c, at, prev
<1>13. page' = doc /\ ctl' = Kept(c, doc, {}) /\ hit' = hit
  BY <1>9 DEF Shows
<1>14. ASSUME hit = {} PROVE ctl' = Dressed(doc)
  <2>1. DocShape /\ PageShape
    BY DEF TypeInv
  <2>2. Fitting(ctl, list)
    BY <1>3, <1>14, <2>1, DressedFitting DEF Shown
  <2>3. \A m \in 1..n : ctl[list[m]] = FirstControls(m, n)
    BY <1>3, <2>2 DEF Fitting
  <2>4. ASSUME NEW k \in 1..(n - 1) PROVE c[doc[k]] = FirstControls(k, n - 1)
    <3>1. CASE k = n - 1
      <4>1. doc[k] = prev
        BY <1>7, <3>1
      <4>2. CASE n = 2
        <5>1. k = 1 /\ n - 1 = 1
          BY <3>1, <4>2
        <5>2. QED
          BY <1>12, <2>1, <4>1, <4>2, <5>1, ControlsByPlace
      <4>3. CASE n # 2
        <5>1. n # 1 /\ n - 1 # 1
          BY <4>3
        <5>2. FirstControls(n, n) = {"+", "x", "^"} /\ FirstControls(n - 1, n - 1) = {"+", "x", "^"}
          BY <1>1, <2>1, <5>1, ControlsByPlace
        <5>3. ctl[at] = FirstControls(n, n)
          BY <1>1, <2>3 DEF at
        <5>4. QED
          BY <1>12, <3>1, <4>1, <4>3, <5>2, <5>3
      <4>4. QED
        BY <4>2, <4>3
    <3>2. CASE k # n - 1
      <4>1. k \in 1..n /\ k # n /\ n # 1 /\ n - 1 # 1
        BY <3>2
      <4>2. FirstControls(k, n) = FirstControls(k, n - 1)
        <5>1. FirstControls(k, n) = IF k = 1 THEN {"x", "v"} ELSE {"x", "^", "v"}
          BY <2>1, <4>1, ControlsByPlace
        <5>2. FirstControls(k, n - 1) = IF k = 1 THEN {"x", "v"} ELSE {"x", "^", "v"}
          BY <1>1, <2>1, <3>2, <4>1, ControlsByPlace
        <5>3. QED
          BY <5>1, <5>2
      <4>3. doc[k] = list[k] /\ list[k] # at /\ list[k] # prev /\ list[k] \in Elems
        <5>1. list[k] # list[n] /\ list[k] # list[n - 1] /\ list[k] \in Elems
          BY <1>1, <1>3, <3>2, <4>1, ShownPage
        <5>2. QED
          BY <1>4, <5>1 DEF at, prev
      <4>4. QED
        BY <1>12, <2>3, <4>1, <4>2, <4>3
    <3>3. QED
      BY <3>1, <3>2
  <2>5. \A k \in DOMAIN doc : c[doc[k]] = FirstControls(k, Len(doc))
    BY <1>4, <2>4
  <2>6. doc # <<>>
    BY <1>7
  <2>7. QED
    BY <1>4, <1>12, <1>13, <2>1, <2>5, <2>6, KeptFitting
<1>15. OnlyLastAdds'
  <2> SUFFICES ASSUME NEW e \in Elems \cup {Placeholder}, "+" \in ctl'[e] PROVE doc # <<>> /\ e = doc[Len(doc)]
    BY <1>13 DEF OnlyLastAdds
  <2>1. e \in ToSet(doc) /\ "+" \in c[e]
    BY <1>12, <1>13, KeptOnly
  <2>2. e # at
    BY <1>4, <2>1 DEF at
  <2>3. e = prev
    <3>1. \A d \in Elems \cup {Placeholder} : "+" \in ctl[d] => d = at
      BY <1>3 DEF Shown, OnlyLastAdds, at
    <3>2. QED
      BY <1>12, <2>1, <2>2, <3>1
  <2>4. QED
    BY <1>4, <1>7, <2>3
<1>16. QED
  BY <1>13, <1>14, <1>15

(* ... or one that others follow, or any one in the simple tab.            *)
LEMMA OtherArrives ==
  ASSUME TypeInv, NEW s \in Slots, RemoveAnswered(s), RemovedOther(s), NEW list, Shown(list), RemoveDone(s, list),
         NEW n \in Nat, n = Len(list), NEW i \in 1..n, call[s].at = list[i], doc = RemoveAt(list, i),
         doc # <<>> \/ simple
  PROVE  /\ page' = doc /\ hit' = hit \cup (IF i = n THEN {"simple"} ELSE {}) /\ OnlyLastAdds'
         /\ hit' = {} => ctl' = Dressed(doc)
<1> DEFINE at == list[i]
           next == list[i + 1]
           top == i = 1 /\ i # n
           dressing == IF n = 2 THEN {"+"} \cup (IF min = 0 THEN {"x"} ELSE {}) ELSE {"x", "v"}
           c == IF top THEN [ctl EXCEPT ![next] = dressing] ELSE ctl
<1>1. i \in DOMAIN list /\ n \in 1..n /\ (i # n => i + 1 \in 1..n /\ i \in 1..(n - 1))
  BY ShownPage
<1>2. /\ page = list /\ list \in Seq(Made) /\ Apart(list) /\ DOMAIN list = 1..n
      /\ at \in Elems /\ at # Placeholder /\ InPage(at) /\ Place(at, page) = i
  BY <1>1, OneOfShown
<1>3. /\ doc \in Seq(Made) /\ Apart(doc) /\ Len(doc) = n - 1 /\ DOMAIN doc = 1..(n - 1)
      /\ ToSet(doc) = ToSet(list) \ {at}
      /\ \A k \in 1..(n - 1) : doc[k] = IF k < i THEN list[k] ELSE list[k + 1]
  BY <1>1, OneRemoved
<1>4. call[s].next = IF i < n THEN next ELSE Nothing
  <2>1. Following(list, at) = IF i < n THEN next ELSE Nothing
    BY <1>1, <1>2, BesideIt
  <2>2. QED
    BY <1>2, <2>1 DEF RemoveDone
<1>5. BottomElement(page, at) <=> i = n
  BY <1>1, <1>2, FirstAndLast DEF TypeInv
<1>6. ASSUME i # n
      PROVE  /\ next \in Elems /\ next # Placeholder /\ next # Nothing /\ doc[i] = next /\ i \in DOMAIN doc
             /\ TopElement(doc, next) <=> i = 1
             /\ BottomElement(doc, next) <=> i = n - 1
             /\ Buttons(doc, next) # Nothing
  <2>1. i + 1 \in DOMAIN list /\ ~(i < i)
    BY <1>1, <1>2, <1>6
  <2>2. next \in Elems /\ next # Placeholder /\ next # Nothing
    BY <2>1, ShownPage
  <2>3. i \in DOMAIN doc /\ doc[i] = next
    BY <1>1, <1>3, <1>6, <2>1
  <2>4. /\ TopElement(doc, next) <=> i = 1
        /\ BottomElement(doc, next) <=> i = n - 1
    BY <1>3, <2>3, FirstAndLast DEF TypeInv
  <2>5. Buttons(doc, next) # Nothing
    <3>1. IsOf(doc[i], RefOf(next)) /\ doc[i] \in ToSet(doc)
      BY <2>2, <2>3 DEF IsOf, RefOf, ToSet
    <3>2. Node(doc, RefOf(next)) \in ToSet(doc)
      BY <1>3, <2>3, <3>1, NodeFound
    <3>3. Nothing \notin ToSet(doc)
      <4>1. ToSet(doc) \subseteq Nat
        <5>1. ToSet(doc) \subseteq Made
          BY <1>3 DEF ToSet
        <5>2. QED
          BY <5>1 DEF Made
      <4>2. QED
        BY <4>1 DEF Nothing
    <3>4. Detached # next
      BY <2>2 DEF Detached, Elems
    <3>5. QED
      BY <2>2, <3>2, <3>3, <3>4 DEF Buttons
  <2>6. QED
    BY <2>2, <2>3, <2>4, <2>5
<1>7. Shows(doc, c, IF i = n THEN {"simple"} ELSE {})
  <2> DEFINE event == IF BottomElement(page, at) THEN {"simple"} ELSE {}
             follower == call[s].next
             isTop == follower # Nothing /\ TopElement(doc, follower)
  <2>1. LeftAfter(s) = doc
    BY <1>2 DEF LeftAfter
  <2>2. IF isTop /\ Buttons(doc, follower) = Nothing
          THEN Throws /\ page' = doc
          ELSE Shows(doc, IF isTop THEN TopControls(ctl, doc, follower) ELSE ctl, event)
    BY <1>2, <2>1 DEF RemovedOther
  <2>3. event = IF i = n THEN {"simple"} ELSE {}
    BY <1>5
  <2>4. CASE i = n
    <3>1. follower = Nothing
      BY <1>4, <2>4
    <3>2. ~isTop /\ ~top
      BY <2>4, <3>1
    <3>3. QED
      BY <2>2, <2>3, <3>2
  <2>5. CASE i # n
    <3>1. follower = next /\ (isTop <=> top)
      <4>1. i < n
        BY <2>5
      <4>2. QED
        BY <1>4, <1>6, <2>5, <4>1
    <3>2. top => TopControls(ctl, doc, next) = [ctl EXCEPT ![next] = dressing]
      <4>1. top => (BottomElement(doc, next) <=> n = 2)
        BY <1>6
      <4>2. QED
        BY <4>1 DEF TopControls
    <3>3. Shows(doc, IF isTop THEN TopControls(ctl, doc, follower) ELSE ctl, event)
      BY <1>6, <2>2, <2>5, <3>1
    <3>4. QED
      BY <2>3, <3>1, <3>2, <3>3
  <2>6. QED
    BY <2>4, <2>5
<1>8. ctl \in ControlsOf
  BY DEF TypeInv, PageShape, ControlsOf
<1>9. dressing \in SUBSET Controls
  BY DEF Controls
<1> HIDE DEF dressing
<1>10. /\ c \in ControlsOf
       /\ top => c[next] = dressing
       /\ \A e \in Elems \cup {Placeholder} : (top /\ e = next) \/ c[e] = ctl[e]
  <2>1. CASE top
    <3>1. c = [ctl EXCEPT ![next] = dressing] /\ next \in Elems
      BY <1>6, <2>1
    <3> HIDE DEF c
    <3>2. c \in ControlsOf
      BY <1>8, <1>9, <3>1, ControlsTyped
    <3>3. DOMAIN ctl = Elems \cup {Placeholder}
      BY <1>8 DEF ControlsOf
    <3>4. c[next] = dressing /\ \A e \in Elems \cup {Placeholder} : e # next => c[e] = ctl[e]
      BY <3>1, <3>3
    <3>5. QED
      BY <2>1, <3>2, <3>4
  <2>2. CASE ~top
    BY <1>8, <2>2
  <2>3. QED
    BY <2>1, <2>2
<1> HIDE DEF c, at, next
<1>11. page' = doc /\ ctl' = Kept(c, doc, {}) /\ hit' = hit \cup (IF i = n THEN {"simple"} ELSE {})
  BY <1>7 DEF Shows
<1>12. ASSUME hit' = {} PROVE ctl' = Dressed(doc)
  <2>1. DocShape /\ PageShape /\ hit = {} /\ i # n
    BY <1>11, <1>12 DEF TypeInv
  <2>2. Fitting(ctl, list)
    BY <1>2, <2>1, DressedFitting DEF Shown
  <2>3. \A m \in 1..n : ctl[list[m]] = FirstControls(m, n)
    BY <1>2, <2>2 DEF Fitting
  <2>4. ASSUME NEW k \in 1..(n - 1) PROVE c[doc[k]] = FirstControls(k, n - 1)
    <3>1. CASE top /\ k = 1
      <4>1. doc[k] = next
        BY <1>6, <2>1, <3>1 DEF next
      <4>2. CASE n = 2
        <5>1. k = 1 /\ n - 1 = 1
          BY <3>1, <4>2
        <5>2. QED
          BY <1>10, <2>1, <3>1, <4>1, <4>2, <5>1, ControlsByPlace DEF dressing
      <4>3. CASE n # 2
        <5>1. n - 1 # 1 /\ 1 \in 1..(n - 1) /\ n - 1 \in Nat /\ 1 # n - 1
          BY <4>3
        <5>2. FirstControls(1, n - 1) = {"x", "v"}
          BY <2>1, <5>1, ControlsByPlace
        <5>3. QED
          BY <1>10, <3>1, <4>1, <4>3, <5>2 DEF dressing
      <4>4. QED
        BY <4>2, <4>3
    <3>2. CASE ~(top /\ k = 1)
      <4> DEFINE m == IF k < i THEN k ELSE k + 1
      <4>1. m \in 1..n /\ n \in Nat /\ n - 1 \in Nat /\ n # 1 /\ n - 1 # 1 /\ (m = n <=> k = n - 1) /\ (m = 1 <=> k = 1)
        BY <2>1, <3>2
      <4>2. doc[k] = list[m]
        BY <1>3
      <4> HIDE DEF m
      <4>3. FirstControls(m, n) = FirstControls(k, n - 1)
        <5>1. FirstControls(m, n) = IF m = n THEN {"+", "x", "^"} ELSE IF m = 1 THEN {"x", "v"} ELSE {"x", "^", "v"}
          BY <2>1, <4>1, ControlsByPlace
        <5>2. FirstControls(k, n - 1) = IF k = n - 1 THEN {"+", "x", "^"} ELSE IF k = 1 THEN {"x", "v"} ELSE {"x", "^", "v"}
          BY <2>1, <4>1, ControlsByPlace
        <5>3. QED
          BY <4>1, <5>1, <5>2
      <4>4. ~top \/ list[m] # next
        <5>1. CASE top
          <6>1. doc[1] = next /\ 1 \in DOMAIN doc /\ k \in DOMAIN doc /\ k # 1
            BY <1>3, <1>6, <2>1, <3>2, <5>1 DEF next
          <6>2. doc[k] # doc[1]
            <7>1. doc[k] \in Made /\ Placeholder \notin Made
              BY <1>3, <6>1, MadeBound, <2>1
            <7>2. QED
              BY <1>3, <6>1, <7>1 DEF Apart
          <6>3. QED
            BY <4>2, <6>1, <6>2
        <5>2. QED
          BY <5>1
      <4>5. list[m] \in Elems
        BY <1>2, <4>1, ShownPage
      <4>6. QED
        BY <1>10, <2>3, <4>1, <4>2, <4>3, <4>4, <4>5
    <3>3. QED
      BY <3>1, <3>2
  <2>5. \A k \in DOMAIN doc : c[doc[k]] = FirstControls(k, Len(doc))
    BY <1>3, <2>4
  <2>6. QED
    BY <1>3, <1>10, <1>11, <2>1, <2>5, KeptFitting
<1>13. OnlyLastAdds'
  <2> SUFFICES ASSUME NEW e \in Elems \cup {Placeholder}, "+" \in ctl'[e] PROVE doc # <<>> /\ e = doc[Len(doc)]
    BY <1>11 DEF OnlyLastAdds
  <2>1. e \in ToSet(doc) /\ "+" \in c[e]
    BY <1>10, <1>11, KeptOnly
  <2>2. e # at /\ doc # <<>>
    <3>1. e # at
      BY <1>3, <2>1
    <3>2. doc # <<>>
      BY <2>1 DEF ToSet
    <3>3. QED
      BY <3>1, <3>2
  <2>3. CASE top /\ e = next
    <3>1. n = 2
      BY <1>10, <2>1, <2>3 DEF dressing
    <3>2. i # n /\ i = 1 /\ Len(doc) = 1
      BY <1>3, <2>3, <3>1
    <3>3. QED
      BY <1>6, <2>2, <2>3, <3>2 DEF next
  <2>4. CASE ~(top /\ e = next)
    <3>1. e = list[n]
      BY <1>2, <1>10, <2>1, <2>4 DEF Shown, OnlyLastAdds
    <3>2. i # n
      BY <2>2, <3>1 DEF at
    <3>3. n - 1 \in 1..(n - 1) /\ ~(n - 1 < i) /\ n - 1 + 1 = n
      BY <3>2
    <3>4. doc[n - 1] = list[n]
      BY <1>3, <3>3
    <3>5. QED
      BY <1>3, <2>2, <3>1, <3>4
  <2>5. QED
    BY <2>3, <2>4
<1>14. QED
  BY <1>11, <1>12, <1>13

LEMMA RemoveArrives ==
  ASSUME TypeInv, NEW s \in Slots, RemoveAnswered(s), NEW list, Shown(list), RemoveDone(s, list)
  PROVE  Arrived /\ hit \subseteq hit' /\ hit' \subseteq hit \cup {"simple"}
<1>1. PICK i \in DOMAIN list : call[s].at = list[i] /\ doc = RemoveAt(list, i)
  BY DEF RemoveDone
<1>2. PICK n \in Nat : n = Len(list) /\ i \in 1..n
  BY ShownPage
<1>3. doc # <<>> \/ simple
  <2>1. call[s].list = <<>>
    BY DEF RemoveAnswered
  <2>2. doc = <<>> /\ ~simple => call[s].list = <<Placeholder>>
    BY DEF RemoveDone
  <2>3. <<Placeholder>> # <<>>
    OBVIOUS
  <2>4. QED
    BY <2>1, <2>2, <2>3
<1>4. BottomElement(page, call[s].at) <=> i = n
  <2>1. page = list /\ list \in Seq(Made) /\ Apart(list)
    BY OneOfShown
  <2>2. QED
    BY <1>1, <1>2, <2>1, FirstAndLast DEF TypeInv
<1>5. /\ doc \in Seq(Made) /\ Apart(doc) /\ Len(doc) = n - 1
      /\ ToSet(doc) = ToSet(list) \ {list[i]}
  BY <1>1, <1>2, OneRemoved
<1>6. /\ page' = doc /\ OnlyLastAdds' /\ (hit' = {} => ctl' = Dressed(doc))
      /\ hit \subseteq hit' /\ hit' \subseteq hit \cup {"simple"}
  <2>1. CASE i = n /\ ~simple
    <3>1. RemovedBottom(s)
      BY <1>4, <2>1 DEF RemoveAnswered
    <3>2. n > 1
      <4>1. Len(doc) # 0
        BY <1>3, <1>5, <2>1
      <4>2. QED
        BY <1>2, <1>5, <4>1
    <3>3. QED
      BY <1>1, <1>2, <2>1, <3>1, <3>2, BottomArrives
  <2>2. CASE ~(i = n /\ ~simple)
    <3>1. RemovedOther(s)
      BY <1>4, <2>2 DEF RemoveAnswered
    <3>2. QED
      BY <1>1, <1>2, <1>3, <3>1, OtherArrives
  <2>3. QED
    BY <2>1, <2>2
<1>7. page' = Layout(doc)
  BY <1>3, <1>6 DEF Layout
<1>8. \A e \in ToSet(doc) : id'[e] = ref[e]
  <2>1. id' = KeptIds(s, page')
    BY DEF RemoveAnswered
  <2>2. ToSet(doc) \subseteq Elems
    BY <1>5, MadeBound DEF TypeInv, ToSet
  <2>3. \A e \in ToSet(doc) : id'[e] = id[e]
    BY <1>6, <2>1, <2>2 DEF KeptIds
  <2>4. QED
    BY <1>5, <2>3 DEF Shown
<1>9. QED
  BY <1>6, <1>7, <1>8 DEF Arrived

-------------------------------------------------------------------------------
(* One click at a time, and no connection that breaks.                     *)
Calm == hit \cap {"overlap", "lost", "late"} = {}

(* Nothing has been done that the page does not know of.                   *)
Steady ==
  /\ sess # "noinfo"
  /\ sess = "whole" => current /\ view # "closed" /\ Shown(doc)
  /\ sess = "bare" => "aborted" \in hit \/ view = "closed"

(* What was asked for is what the page shows.                              *)
Asked(s) ==
  sess = "whole" =>
    /\ InPage(call[s].at) /\ call[s].el = call[s].at /\ call[s].ref = RefOf(call[s].at)
    /\ call[s].kind = "add" => call[s].at = page[Len(page)]
    /\ call[s].kind # "add" => call[s].at # Placeholder
    /\ call[s].kind = "remove" =>
         call[s].next = Following(page, call[s].at) /\ call[s].prev = Previous(page, call[s].at)

(* One change has been made in the document, to the list that is shown.    *)
ChangeDone(s) ==
  /\ sess = "whole" /\ current
  /\ \E list : /\ Shown(list)
               /\ call[s].kind = "add" => AddDone(s, list)
               /\ call[s].kind = "remove" => RemoveDone(s, list)
               /\ call[s].kind \in {"up", "down"} => MoveDone(s, list)

CalmInv ==
  Calm =>
    /\ \A s, t \in Busy : s = t
    /\ hit \subseteq {"simple", "aborted"}
    /\ (\A s \in Slots : call[s].state # "ok") => Steady
    /\ \A s \in Slots : Sent(s, Changes) => Asked(s)
    /\ \A s \in Slots : call[s].state = "ok" /\ call[s].kind \in Changes => ChangeDone(s)

(* The same of the forms that were sent when no answer was to come.        *)
FormsInv ==
  \A s \in Slots : call[s].kind \in Forms /\ call[s].alone =>
    /\ call[s].state # "cut"
    /\ call[s].state = "ok" =>
         IF call[s].kind \in Leaving THEN sess = "bare"
         ELSE sess = "whole" /\ doc = call[s].list /\ ref = Numbered(doc)
    /\ call[s].state = "sent" /\ call[s].synced => hit = {} /\ call[s].list = Layout(doc)

PageInv == TypeInv /\ RequestsInv /\ CalmInv /\ FormsInv

LEMMA StillShown ==
  ASSUME TypeInv, made' \in Nat, made <= made', UNCHANGED <<page, id, ctl, simple, min, hit>>, NEW list, Shown(list),
         \A e \in ToSet(list) : e \in ToSet(doc') => e \in ToSet(doc) /\ ref'[e] = ref[e]
  PROVE  Shown(list)'
<1>1. list \in Seq(Made) /\ Apart(list)
  BY DEF Shown
<1>2. list \in Seq(Made)'
  <2>1. Made \subseteq Made'
    BY MadeBound DEF TypeInv, Made
  <2>2. QED
    BY <1>1, <2>1, SeqMonotonic
<1>3. Layout(list)' = Layout(list) /\ Dressed(list)' = Dressed(list) /\ (OnlyLastAdds' <=> OnlyLastAdds)
  BY DEF Layout, Dressed, FirstControls, OnlyLastAdds
<1>4. QED
  BY <1>2, <1>3 DEF Shown

LEMMA StillSteady ==
  ASSUME TypeInv, Steady, UNCHANGED server, UNCHANGED <<page, id, ctl, simple, min, hit>>,
         view # "closed", view' # "closed"
  PROVE  Steady'
<1>1. made' \in Nat /\ made <= made' /\ doc' = doc /\ ref' = ref /\ sess' = sess /\ current' = current
  BY MadeBound DEF TypeInv, server
<1>2. Shown(doc) => Shown(doc)'
  <2> SUFFICES ASSUME Shown(doc) PROVE Shown(doc)'
    OBVIOUS
  <2>1. PICK list : list = doc /\ Shown(list)
    OBVIOUS
  <2>2. Shown(list)'
    BY <1>1, <2>1, StillShown
  <2>3. QED
    BY <1>1, <2>1, <2>2 DEF Shown
<1>3. QED
  BY <1>1, <1>2 DEF Steady

LEMMA ClickPage ==
  ASSUME PageInv, NEW s \in Slots, Click(s)
  PROVE  CalmInv' /\ FormsInv'
<1> USE DEF PageInv
<1>0. view = "open" /\ \A o \in Slots : call[o].kind \notin Forms
  BY DEF Click, ClickControl, ClickForm, RequestsInv
<1>1. CASE \E e \in ToSet(page), kind \in Changes : ClickControl(s, e, kind)
  <2>1. PICK e \in ToSet(page), kind \in Changes : ClickControl(s, e, kind)
    BY <1>1
  <2> DEFINE node == Node(page, RefOf(e))
  <2>2. /\ call[s] = Free /\ call'[s] # Free /\ \A o \in Slots : o # s => call'[o] = call[o]
        /\ call'[s].kind = kind /\ call'[s].state = "sent" /\ call'[s].el = e /\ call'[s].at = node
        /\ call'[s].ref = RefOf(e)
        /\ kind = "remove" => call'[s].next = Following(page, node) /\ call'[s].prev = Previous(page, node)
    BY <2>1, ControlSent
  <2>3. /\ UNCHANGED server /\ UNCHANGED <<page, id, ctl, simple, min>> /\ view' = "open"
        /\ hit' = IF Busy = {} THEN hit ELSE hit \cup {"overlap"}
        /\ e = Placeholder => kind = "add"
        /\ kind = "add" => "+" \in ctl[e]
    BY <2>1 DEF ClickControl
  <2>4. FormsInv'
    BY <1>0, <2>2, KindsApart DEF FormsInv
  <2>5. ASSUME Calm' PROVE CalmInv'
    <3>1. hit' = hit /\ Busy = {} /\ Calm
      BY <2>3, <2>5 DEF Calm
    <3>2. \A o \in Slots : call[o] = Free /\ call[o].state # "ok"
      BY <3>1, FreeFields DEF Busy
    <3>3. Steady /\ hit \subseteq {"simple", "aborted"}
      BY <3>1, <3>2 DEF CalmInv
    <3>4. Steady'
      BY <1>0, <2>3, <3>1, <3>3, StillSteady
    <3>5. \A o \in Slots : o # s => call'[o] = Free
      BY <2>2, <3>2
    <3>6. Asked(s)'
      <4> SUFFICES ASSUME sess = "whole" PROVE Asked(s)'
        BY <2>3 DEF Asked, server
      <4>1. Shown(doc)
        BY <3>3 DEF Steady
      <4>2. node = e
        BY <4>1, NodeSame
      <4>3. id' = id /\ page' = page
        BY <2>3
      <4>4. RefOf(e)' = RefOf(e) /\ InPage(e)'
        BY <4>3 DEF RefOf, InPage
      <4>5. kind = "add" => e = page[Len(page)]
        <5>1. e \in Elems \cup {Placeholder}
          BY PageNodes, MadeBound DEF TypeInv
        <5>2. QED
          BY <2>3, <4>1, <5>1 DEF Shown, OnlyLastAdds
      <4> HIDE DEF node
      <4>6. call'[s].at = e
        BY <2>2, <4>2
      <4>7. QED
        BY <2>2, <2>3, <4>2, <4>3, <4>4, <4>5, <4>6 DEF Asked, InPage, RefOf, Following, Previous
    <3>7. \A o \in Slots : Sent(o, Changes)' => Asked(o)'
      <4> SUFFICES ASSUME NEW o \in Slots, Sent(o, Changes)' PROVE Asked(o)'
        OBVIOUS
      <4>1. o = s
        BY <3>5, FreeFields DEF Sent
      <4>2. QED
        BY <3>6, <4>1
    <3>8. \A o \in Slots : call'[o].state # "ok"
      BY <2>2, <3>2
    <3>9. \A o, t \in Busy' : o = t
      BY <3>5 DEF Busy
    <3>10. QED
      BY <3>1, <3>3, <3>4, <3>7, <3>8, <3>9 DEF CalmInv
  <2>6. QED
    BY <2>4, <2>5 DEF CalmInv
<1>2. CASE \E kind \in Forms : ClickForm(s, kind)
  <2>1. PICK kind \in Forms : ClickForm(s, kind)
    BY <1>2
  <2>2. /\ call[s] = Free /\ call'[s] # Free /\ \A o \in Slots : o # s => call'[o] = call[o]
        /\ call'[s].kind = kind /\ call'[s].state = "sent" /\ call'[s].list = page
        /\ call'[s].alone = (Busy = {}) /\ call'[s].synced = (hit = {})
    BY <2>1, FormSent
  <2>3. /\ UNCHANGED server /\ UNCHANGED <<page, id, ctl, simple, min>> /\ view' = "overlay"
        /\ hit' = IF Busy = {} THEN hit ELSE hit \cup {"late"}
    BY <2>1 DEF ClickForm
  <2>4. ASSUME Busy = {}, Calm PROVE Steady /\ (hit = {} => page = Layout(doc))
    <3>1. \A o \in Slots : call[o].state # "ok"
      BY <2>4, FreeFields DEF Busy
    <3>2. Steady
      BY <2>4, <3>1 DEF CalmInv
    <3>3. sess \in {"whole", "noinfo", "bare"}
      BY DEF TypeInv, DocShape
    <3>4. hit = {} => Shown(doc)
      BY <1>0, <3>2, <3>3 DEF Steady
    <3>5. QED
      BY <3>2, <3>4 DEF Shown
  <2>5. FormsInv'
    <3> SUFFICES ASSUME NEW o \in Slots, call'[o].kind \in Forms, call'[o].alone
                 PROVE  /\ call'[o].state = "sent"
                        /\ call'[o].synced => hit' = {} /\ call'[o].list = Layout(doc)'
      BY DEF FormsInv
    <3>1. o = s
      BY <1>0, <2>2
    <3>2. Busy = {} /\ hit' = hit
      BY <2>2, <2>3, <3>1
    <3>3. Layout(doc)' = Layout(doc)
      BY <2>3 DEF Layout, server
    <3>4. hit = {} => Calm
      BY DEF Calm
    <3>5. QED
      BY <2>2, <2>4, <3>1, <3>2, <3>3, <3>4
  <2>6. ASSUME Calm' PROVE CalmInv'
    <3>1. hit' = hit /\ Busy = {} /\ Calm
      BY <2>3, <2>6 DEF Calm
    <3>2. \A o \in Slots : call[o] = Free /\ call[o].state # "ok"
      BY <3>1, FreeFields DEF Busy
    <3>3. Steady' /\ hit \subseteq {"simple", "aborted"}
      BY <1>0, <2>3, <2>4, <3>1, <3>2, StillSteady DEF CalmInv
    <3>4. \A o \in Slots : o # s => call'[o] = Free
      BY <2>2, <3>2
    <3>5. \A o \in Slots : call'[o].kind \notin Changes /\ call'[o].state # "ok"
      BY <2>2, <3>4, KindsApart, FreeFields
    <3>6. \A o, t \in Busy' : o = t
      BY <3>4 DEF Busy
    <3>7. QED
      BY <3>1, <3>3, <3>5, <3>6 DEF CalmInv, Sent
  <2>7. QED
    BY <2>5, <2>6 DEF CalmInv
<1>3. QED
  BY <1>1, <1>2 DEF Click

(* A form that was sent when no answer was to come is the only request.    *)
LEMMA AloneIsOnly ==
  ASSUME TypeInv, RequestsInv, NEW s \in Slots, call[s] # Free, NEW o \in Slots, call[o].kind \in Forms, call[o].alone
  PROVE  o = s
<1>1. Busy = {o}
  BY DEF RequestsInv
<1>2. QED
  BY <1>1 DEF Busy

LEMMA ServeForms ==
  ASSUME PageInv, NEW s \in Slots, Serve(s)
  PROVE  FormsInv'
<1> USE DEF PageInv
<1>1. /\ \A o \in Slots : o # s => call'[o] = call[o]
      /\ call[s] # Free /\ call'[s].kind = call[s].kind
      /\ call'[s].state = "ok" \/ ~call'[s].alone
  BY ServedRequest, BrokenRequest DEF Serve, Serves, Breaks
<1>2. ASSUME NEW o \in Slots, call'[o].kind \in Forms, call'[o].alone PROVE o = s
  BY <1>1, <1>2, AloneIsOnly
<1>3. ASSUME call'[s].kind \in Forms, call'[s].alone
      PROVE  /\ call'[s].state = "ok"
             /\ IF call'[s].kind \in Leaving THEN sess' = "bare"
                ELSE sess' = "whole" /\ doc' = call'[s].list /\ ref' = Numbered(doc')
  <2>1. call'[s].state = "ok" /\ call[s].kind \in Forms
    BY <1>1, <1>3
  <2>2. Serves(s)
    BY <1>3, BrokenRequest DEF Serve, Serves, Breaks
  <2>3. ServeSave(s) \/ ServeForget(s)
    BY <2>1, <2>2, KindsApart DEF Serves, ServeAdd, ServeRemove, ServeMove, Sent, Changes
  <2>4. CASE ServeSave(s)
    <3>1. Sent(s, {"save", "finish"}) /\ Reply(s, doc, 0, {}) /\ doc' = doc
      BY <2>4 DEF ServeSave
    <3>2. call'[s].list = doc
      BY <3>1, ReplySent DEF Sent
    <3>3. QED
      BY <1>1, <2>1, <2>4, <3>1, <3>2 DEF ServeSave, Sent, Leaving
  <2>5. CASE ServeForget(s)
    <3>1. Sent(s, {"reset", "cancel"}) /\ Reply(s, row, 0, {}) /\ doc' = row
      BY <2>5 DEF ServeForget
    <3>2. call'[s].list = row
      BY <3>1, ReplySent DEF Sent
    <3>3. QED
      BY <1>1, <2>1, <2>5, <3>1, <3>2 DEF ServeForget, Sent, Leaving
  <2>6. QED
    BY <2>3, <2>4, <2>5
<1>4. QED
  BY <1>2, <1>3 DEF FormsInv

(* As long as clicks are calm the service has what was asked for.          *)
LEMMA CalmServe ==
  ASSUME PageInv, NEW s \in Slots, Serve(s), Calm'
  PROVE  /\ Calm /\ call[s].state = "sent" /\ Steady /\ view # "closed" /\ hit \subseteq {"simple", "aborted"}
         /\ call[s].kind \in Changes => Asked(s)
         /\ \A o \in Slots : o # s => call'[o] = Free
         /\ UNCHANGED <<page, id, ctl, view, simple, min>>
<1> USE DEF PageInv
<1>1. /\ \A o \in Slots : o # s => call'[o] = call[o]
      /\ call[s] # Free /\ call[s].state \in {"sent", "ok"}
      /\ hit \subseteq hit' /\ UNCHANGED browser
  BY ServedRequest, BrokenRequest DEF Serve, Serves, Breaks
<1>2. Calm
  BY <1>1 DEF Calm
<1>3. \A o \in Slots : o # s => call[o] = Free
  BY <1>1, <1>2 DEF CalmInv, Busy
<1>4. call[s].state = "sent"
  <2> SUFFICES ASSUME call[s].state = "ok" PROVE FALSE
    BY <1>1
  <2>1. CutOff(s)
    BY DEF Serve, ServeAdd, ServeRemove, ServeMove, ServeSave, ServeForget, SaveAborted, RemoveUnknown, Refused, Sent
  <2>2. "lost" \in hit'
    BY <2>1 DEF CutOff, Sent
  <2>3. QED
    BY <2>2 DEF Calm
<1>5. \A o \in Slots : call[o].state # "ok"
  BY <1>3, <1>4, FreeFields
<1>6. view # "closed"
  BY <1>1, <1>2 DEF RequestsInv, Busy, Calm
<1>7. QED
  BY <1>1, <1>2, <1>3, <1>4, <1>5, <1>6 DEF CalmInv, Sent, browser

(* The element that was clicked is the one that is found.                  *)
LEMMA ClickedFound ==
  ASSUME TypeInv, NEW s \in Slots, Asked(s), sess = "whole", Shown(doc), call[s].at # Placeholder
  PROVE  /\ call[s].at \in ToSet(doc) /\ Found(call[s].ref)
         /\ Denoted(call[s].ref) = call[s].at /\ Denoted(call[s].ref) = call[s].el
<1>1. page = Layout(doc) /\ call[s].at \in ToSet(page) /\ call[s].ref = id[call[s].at] /\ call[s].el = call[s].at
  BY DEF Shown, Asked, InPage, RefOf
<1>2. call[s].at \in ToSet(doc)
  <2>1. made \in Nat /\ doc \in Seq(1..made)
    BY MadeBound DEF TypeInv, DocShape, Made
  <2>2. QED
    BY <1>1, <2>1, LaidOut
<1>3. call[s].ref = ref[call[s].at]
  BY <1>1, <1>2 DEF Shown
<1>4. Found(call[s].ref)
  BY <1>2, <1>3 DEF Found
<1>5. Denoted(call[s].ref) \in ToSet(doc) /\ ref[Denoted(call[s].ref)] = ref[call[s].at]
  BY <1>3, <1>4, DenotedFound
<1>6. RefsApart
  BY DEF TypeInv, DocShape
<1>7. QED
  BY <1>1, <1>2, <1>4, <1>5, <1>6 DEF RefsApart

LEMMA AddServed ==
  ASSUME PageInv, NEW s \in Slots, ServeAdd(s), Calm, Steady, Asked(s)
  PROVE  ChangeDone(s)'
<1> USE DEF PageInv
<1>1. /\ Sent(s, {"add"}) /\ sess = "whole" /\ made < MaxElem /\ made' = made + 1
      /\ doc' = Append(doc, made') /\ ref' = [ref EXCEPT ![made'] = NewRef]
      /\ Reply(s, <<made'>>, NewRef, FirstControls(Len(doc'), Len(doc')))
      /\ UNCHANGED <<sess, row, current, browser, hit, clicks>>
  BY DEF ServeAdd
<1>2. /\ call'[s].kind = "add" /\ call[s].kind = "add" /\ call'[s].at = call[s].at /\ call'[s].ref = NewRef
      /\ call'[s].list = <<made'>> /\ call'[s].ctl = FirstControls(Len(doc'), Len(doc'))
  BY <1>1, ReplySent DEF Sent
<1>3. current /\ Shown(doc) /\ UNCHANGED <<page, id, ctl, simple, min, hit>>
  BY <1>1 DEF Steady, browser
<1>4. PICK list \in Seq(Made) : list = doc /\ Shown(list)
  BY <1>3 DEF Shown
<1>5. made \in Nat /\ Made \subseteq Elems /\ ToSet(list) \subseteq Made
  BY <1>4, MadeBound DEF TypeInv, ToSet
<1>6. PICK new : new = made'
  OBVIOUS
<1>7. new \in Elems /\ new \notin Made /\ new \in Made' /\ made <= made' /\ made' \in Nat
  <2>1. MaxElem \in Nat
    BY BoundsAssumption
  <2>2. QED
    BY <1>1, <1>5, <1>6, <2>1 DEF Elems, Made
<1>8. DOMAIN ref = Elems
  BY DEF TypeInv, DocShape
<1>9. ref'[new] = NewRef /\ \A e \in Elems : e # new => ref'[e] = ref[e]
  BY <1>1, <1>6, <1>7, <1>8
<1>10. Shown(list)'
  <2>1. \A e \in ToSet(list) : e \in ToSet(doc') => e \in ToSet(doc) /\ ref'[e] = ref[e]
    BY <1>4, <1>5, <1>7, <1>9
  <2>2. QED
    BY <1>3, <1>4, <1>7, <2>1, StillShown
<1>11. AddDone(s, list)'
  <2>1. page' # <<>> /\ call'[s].at = page'[Len(page')]
    <3>1. InPage(call[s].at) /\ call[s].at = page[Len(page)]
      BY <1>1, <1>2 DEF Asked
    <3>2. page # <<>>
      BY <3>1 DEF InPage, ToSet
    <3>3. QED
      BY <1>2, <1>3, <3>1, <3>2
  <2>2. new \notin ToSet(list) /\ call'[s].list = <<new>> /\ doc' = Append(list, new) /\ ref'[new] = call'[s].ref
    BY <1>1, <1>2, <1>4, <1>5, <1>6, <1>7, <1>9
  <2>3. call'[s].ctl = FirstControls(Len(doc), Len(doc))'
    BY <1>2, <1>3 DEF FirstControls
  <2>4. QED
    BY <1>7, <2>1, <2>2, <2>3 DEF AddDone
<1>12. QED
  BY <1>1, <1>2, <1>3, <1>10, <1>11 DEF ChangeDone

LEMMA RemoveServed ==
  ASSUME PageInv, NEW s \in Slots, ServeRemove(s), Calm, Steady, Asked(s)
  PROVE  ChangeDone(s)' /\ hit' = hit
<1> USE DEF PageInv
<1>1. /\ Sent(s, {"remove"}) /\ sess = "whole"
      /\ doc' = RemoveAt(doc, Place(Denoted(call[s].ref), doc)) /\ ref' = Kept(ref, doc', 0)
      /\ Reply(s, IF doc' = <<>> /\ ~simple THEN <<Placeholder>> ELSE <<>>, 0, {})
      /\ Reach(s) /\ UNCHANGED <<sess, row, made, current, browser, clicks>>
  BY DEF ServeRemove
<1>2. /\ call'[s].kind = "remove" /\ call[s].kind = "remove" /\ call'[s].at = call[s].at
      /\ call'[s].next = call[s].next /\ call'[s].prev = call[s].prev
      /\ call'[s].list = IF doc' = <<>> /\ ~simple THEN <<Placeholder>> ELSE <<>>
  BY <1>1, ReplySent DEF Sent
<1>3. current /\ Shown(doc) /\ UNCHANGED <<page, id, ctl, simple, min>>
  BY <1>1 DEF Steady, browser
<1>4. PICK list \in Seq(Made) : list = doc /\ Shown(list) /\ Apart(list)
  BY <1>3 DEF Shown
<1>5. call[s].at \in ToSet(list) /\ Denoted(call[s].ref) = call[s].at /\ Denoted(call[s].ref) = call[s].el
  BY <1>1, <1>2, <1>3, <1>4, ClickedFound DEF Asked
<1>6. hit' = hit
  BY <1>1, <1>5 DEF Reach
<1>7. PICK i \in DOMAIN list : i = Place(call[s].at, list) /\ list[i] = call[s].at
  BY <1>5, Placed
<1>8. doc' = RemoveAt(list, i)
  BY <1>1, <1>4, <1>5, <1>7
<1>9. made \in Nat /\ Made \subseteq Elems /\ ToSet(list) \subseteq Made /\ made' = made /\ DOMAIN ref = Elems
  BY <1>1, <1>4, MadeBound DEF TypeInv, DocShape, ToSet
<1>10. \A e \in ToSet(list) : e \in ToSet(doc') => e \in ToSet(doc) /\ ref'[e] = ref[e]
  BY <1>1, <1>4, <1>9, KeptInList
<1>11. Shown(list)'
  BY <1>3, <1>4, <1>6, <1>9, <1>10, StillShown
<1>12. RemoveDone(s, list)'
  <2>1. call'[s].next = Following(page', call'[s].at) /\ call'[s].prev = Previous(page', call'[s].at)
    BY <1>1, <1>2, <1>3 DEF Asked
  <2>2. Following(page', call'[s].at) = Following(page, call[s].at)' /\ Previous(page', call'[s].at) = Previous(page, call[s].at)'
    BY DEF Following, Previous
  <2>3. call'[s].at = list[i] /\ doc' = RemoveAt(list, i)
    BY <1>2, <1>7, <1>8
  <2>4. call'[s].list = IF doc' = <<>> /\ ~simple' THEN <<Placeholder>> ELSE <<>>
    BY <1>2, <1>3
  <2>5. QED
    BY <2>1, <2>2, <2>3, <2>4 DEF RemoveDone
<1>13. QED
  BY <1>1, <1>2, <1>3, <1>6, <1>11, <1>12 DEF ChangeDone

LEMMA MoveServed ==
  ASSUME PageInv, NEW s \in Slots, ServeMove(s), Calm, Steady, Asked(s)
  PROVE  ChangeDone(s)' /\ hit' = hit
<1> USE DEF PageInv
<1>0. sess = "whole"
  BY DEF ServeMove, Steady, TypeInv, DocShape
<1> DEFINE p == Place(Denoted(call[s].ref), doc)
           q == IF call[s].kind = "up" THEN p - 1 ELSE p + 1
<1>1. /\ Sent(s, {"up", "down"}) /\ q \in DOMAIN doc /\ doc' = Exchange(doc, p, q)
      /\ Reply(s, <<>>, 0, {})
      /\ Reach(s) /\ UNCHANGED <<ref, sess, row, made, current, browser, clicks>>
  BY DEF ServeMove
<1> HIDE DEF p, q
<1>2. call'[s].kind = call[s].kind /\ call[s].kind \in {"up", "down"} /\ call'[s].at = call[s].at
  BY <1>1, ReplySent DEF Sent
<1>3. current /\ Shown(doc) /\ UNCHANGED <<page, id, ctl, simple, min>>
  BY <1>0, <1>1 DEF Steady, browser
<1>4. PICK list \in Seq(Made) : list = doc /\ Shown(list) /\ Apart(list)
  BY <1>3 DEF Shown
<1>5. call[s].at \in ToSet(list) /\ Denoted(call[s].ref) = call[s].at /\ Denoted(call[s].ref) = call[s].el
  BY <1>0, <1>2, <1>3, <1>4, ClickedFound DEF Asked
<1>6. hit' = hit
  BY <1>1, <1>5 DEF Reach
<1>7. PICK i \in DOMAIN list : i = p /\ list[i] = call[s].at
  BY <1>4, <1>5, Placed DEF p
<1>8. PICK j \in DOMAIN list : j = q /\ j = IF call[s].kind = "up" THEN i - 1 ELSE i + 1
  BY <1>1, <1>4, <1>7 DEF q
<1>9. doc' = Exchange(list, i, j)
  BY <1>1, <1>4, <1>7, <1>8
<1>10. made \in Nat /\ made' = made /\ ref' = ref
  BY <1>1, MadeBound DEF TypeInv
<1>11. Shown(list)'
  BY <1>3, <1>4, <1>6, <1>10, StillShown
<1>12. MoveDone(s, list)'
  <2>1. call'[s].at = list[i] /\ doc' = Exchange(list, i, j) /\ j = IF call'[s].kind = "up" THEN i - 1 ELSE i + 1
    BY <1>2, <1>7, <1>8, <1>9
  <2>2. Exchange(list, i, j) = Exchange(list, i, j)'
    BY DEF Exchange
  <2>3. QED
    BY <2>1, <2>2 DEF MoveDone
<1>13. QED
  BY <1>0, <1>1, <1>2, <1>3, <1>6, <1>11, <1>12 DEF ChangeDone

LEMMA ServePage ==
  ASSUME PageInv, NEW s \in Slots, Serve(s)
  PROVE  CalmInv' /\ FormsInv'
<1> USE DEF PageInv
<1>1. FormsInv'
  BY ServeForms
<1>2. ASSUME Calm' PROVE CalmInv'
  <2>1. /\ Calm /\ call[s].state = "sent" /\ Steady /\ view # "closed" /\ hit \subseteq {"simple", "aborted"}
        /\ call[s].kind \in Changes => Asked(s)
        /\ \A o \in Slots : o # s => call'[o] = Free
        /\ UNCHANGED <<page, id, ctl, view, simple, min>>
    BY <1>2, CalmServe
  <2>2. \A o, t \in Busy' : o = t
    BY <2>1 DEF Busy
  <2>3. \A o \in Slots : o # s => call'[o].state # "ok" /\ call'[o].state # "sent"
    BY <2>1, FreeFields
  <2>4. call'[s].kind = call[s].kind /\ call'[s].state # "sent"
    BY ServedRequest, BrokenRequest DEF Serve, Serves, Breaks
  <2>5. CASE ServeAdd(s) \/ ServeRemove(s) \/ ServeMove(s)
    <3>1. call'[s].state = "ok" /\ call[s].kind \in Changes
      BY <2>5, ServedRequest DEF Serves, ServeAdd, ServeRemove, ServeMove, Sent, Changes
    <3>2. ChangeDone(s)' /\ hit' = hit
      BY <2>1, <2>5, <3>1, AddServed, RemoveServed, MoveServed DEF ServeAdd
    <3>3. QED
      BY <2>1, <2>2, <2>3, <2>4, <3>1, <3>2 DEF CalmInv, Sent
  <2>6. CASE ServeSave(s) \/ ServeForget(s)
    <3>1. call'[s].state = "ok" /\ call'[s].kind \in Forms /\ hit' = hit
      BY <2>4, <2>6, ServedRequest DEF Serves, ServeSave, ServeForget, Sent, Forms, Leaving
    <3>2. \A o \in Slots : ~(call'[o].state = "ok" /\ call'[o].kind \in Changes)
      BY <2>3, <3>1, KindsApart
    <3>3. QED
      BY <2>1, <2>2, <2>3, <2>4, <3>1, <3>2 DEF CalmInv, Sent
  <2>7. CASE SaveAborted(s) \/ RemoveUnknown(s) \/ Refused(s) \/ CutOff(s)
    <3>1. \A o \in Slots : call'[o].state # "ok" /\ call'[o].state # "sent"
      BY <2>3, <2>7, BrokenRequest DEF Breaks
    <3>2. Steady' /\ hit' \subseteq {"simple", "aborted"}
      <4>1. CASE SaveAborted(s)
        BY <2>1, <4>1 DEF SaveAborted, Steady
      <4>2. CASE RemoveUnknown(s)
        <5>1. call[s].kind = "remove" /\ call[s].kind \in Changes /\ sess = "whole" /\ ~Found(call[s].ref)
          BY <4>2 DEF RemoveUnknown, Sent, Changes
        <5>2. call[s].at # Placeholder
          BY <2>1, <5>1 DEF Asked
        <5>3. QED
          BY <2>1, <5>1, <5>2, ClickedFound DEF Steady
      <4>3. CASE Refused(s) \/ CutOff(s)
        <5>1. UNCHANGED server
          BY <4>3 DEF Refused, CutOff
        <5>2. hit' = hit
          BY <1>2, <4>3 DEF Refused, CutOff, Calm
        <5>3. QED
          BY <2>1, <5>1, <5>2, StillSteady
      <4>4. QED
        BY <2>7, <4>1, <4>2, <4>3
    <3>3. QED
      BY <2>2, <3>1, <3>2 DEF CalmInv, Sent
  <2>8. QED
    BY <2>5, <2>6, <2>7 DEF Serve
<1>3. QED
  BY <1>1, <1>2 DEF CalmInv

(* A page that has been read anew.                                         *)
Fresh == ref = Numbered(doc) /\ page = Layout(doc) /\ id = Numbered(doc) /\ ctl = Dressed(doc)

LEMMA FreshShown == DocShape /\ Fresh => Shown(doc)
<1> SUFFICES ASSUME DocShape, Fresh PROVE Shown(doc)
  OBVIOUS
<1>1. doc \in Seq(Made) /\ Apart(doc) /\ made \in 0..MaxElem
  BY DEF DocShape
<1>2. \A d, e \in ToSet(doc) : id[d] = id[e] => d = e
  BY <1>1, NumberedList DEF Fresh, Made
<1>3. OnlyLastAdds
  BY <1>1, LastAdds DEF Fresh, OnlyLastAdds
<1>4. QED
  BY <1>1, <1>2, <1>3 DEF Fresh, Shown

LEMMA FreshShownNext == (DocShape /\ Fresh => Shown(doc))'
BY FreshShown, PTL

LEMMA HandlePage ==
  ASSUME PageInv, NEW s \in Slots, Handles(s)
  PROVE  CalmInv' /\ FormsInv'
<1> USE DEF PageInv
<1>1. /\ \A o \in Slots : o # s => call'[o] = call[o]
      /\ call'[s] = Free /\ call[s] # Free /\ call[s].kind \in Changes
      /\ UNCHANGED server /\ UNCHANGED <<view, simple, min>>
      /\ hit \subseteq hit'
  BY HandledRequest
<1>2. \A o \in Slots : call'[o].kind \in Forms => ~call'[o].alone
  BY <1>1, FreeFields, AloneIsOnly, KindsApart
<1>3. FormsInv'
  BY <1>2 DEF FormsInv
<1>4. ASSUME Calm' PROVE CalmInv'
  <2>1. Calm
    BY <1>1, <1>4 DEF Calm
  <2>2. \A o \in Slots : o # s => call[o] = Free
    BY <1>1, <2>1 DEF CalmInv, Busy
  <2>3. \A o \in Slots : call'[o] = Free
    BY <1>1, <2>2
  <2>4. view # "closed" /\ (call[s].state = "cut" => call[s].kind = "remove")
    BY <1>1, <2>1 DEF RequestsInv, Busy, Calm
  <2>5. hit \subseteq {"simple", "aborted"}
    BY <2>1 DEF CalmInv
  <2>6. ASSUME Arrived, ChangeDone(s) PROVE Steady'
    <3>1. sess = "whole" /\ current /\ sess' = sess /\ current' = current /\ view' = view
      BY <1>1, <2>6 DEF ChangeDone, server
    <3>2. Shown(doc)'
      BY <1>1, <2>6, <3>1, ArrivedShown
    <3>3. QED
      BY <2>4, <3>1, <3>2 DEF Steady
  <2>7. call[s].state = "ok" => ChangeDone(s)
    BY <1>1, <2>1 DEF CalmInv
  <2>8. Steady' /\ hit' \subseteq {"simple", "aborted"}
    <3>1. CASE AddAnswered(s)
      <4>1. call[s].kind = "add" /\ ChangeDone(s)
        BY <2>7, <3>1 DEF AddAnswered, Answered
      <4>2. PICK list : Shown(list) /\ AddDone(s, list)
        BY <4>1 DEF ChangeDone
      <4>3. Arrived /\ hit' = hit
        BY <3>1, <4>2, AddArrives
      <4>4. QED
        BY <2>5, <2>6, <4>1, <4>3
    <3>2. CASE RemoveAnswered(s)
      <4>1. call[s].kind = "remove" /\ ChangeDone(s)
        BY <2>7, <3>2 DEF RemoveAnswered, Answered
      <4>2. PICK list : Shown(list) /\ RemoveDone(s, list)
        BY <4>1 DEF ChangeDone
      <4>3. Arrived /\ hit' \subseteq hit \cup {"simple"}
        BY <3>2, <4>2, RemoveArrives
      <4>4. QED
        BY <2>5, <2>6, <4>1, <4>3
    <3>3. CASE LastRemoved(s)
      <4>1. call[s].kind = "remove" /\ ChangeDone(s)
        BY <2>7, <3>3 DEF LastRemoved, Answered
      <4>2. PICK list : Shown(list) /\ RemoveDone(s, list)
        BY <4>1 DEF ChangeDone
      <4>3. Arrived /\ hit' = hit
        BY <3>3, <4>2, LastArrives
      <4>4. QED
        BY <2>5, <2>6, <4>1, <4>3
    <3>4. CASE MoveAnswered(s)
      <4>1. call[s].kind \in {"up", "down"} /\ ChangeDone(s)
        BY <2>4, <2>7, <3>4 DEF MoveAnswered, Succeeded
      <4>2. PICK list : Shown(list) /\ MoveDone(s, list)
        BY <4>1 DEF ChangeDone
      <4>3. Arrived /\ hit' = hit
        BY <3>4, <4>2, MoveArrives
      <4>4. QED
        BY <2>5, <2>6, <4>1, <4>3
    <3>5. CASE AddCut(s)
      BY <2>4, <3>5 DEF AddCut
    <3>6. CASE ChangeFailed(s)
      <4>1. call[s].state # "ok" /\ UNCHANGED <<page, id, ctl, hit>>
        BY <3>6 DEF ChangeFailed, Failed
      <4>2. Steady
        BY <2>1, <2>2, <4>1, FreeFields DEF CalmInv
      <4>3. QED
        BY <1>1, <2>4, <2>5, <4>1, <4>2, StillSteady
    <3>7. QED
      BY <3>1, <3>2, <3>3, <3>4, <3>5, <3>6 DEF Handles
  <2>9. \A o \in Slots : call'[o].state # "ok" /\ call'[o].state # "sent"
    BY <2>3, FreeFields
  <2>10. \A o, t \in Busy' : o = t
    BY <2>3 DEF Busy
  <2>11. QED
    BY <2>8, <2>9, <2>10 DEF CalmInv, Sent
<1>5. QED
  BY <1>3, <1>4 DEF CalmInv

LEMMA FormPage ==
  ASSUME PageInv, NEW s \in Slots, SaveAnswered(s) \/ SaveCut(s) \/ FinishAnswered(s) \/ SaveFailed(s)
  PROVE  CalmInv' /\ FormsInv'
<1> USE DEF PageInv
<1>1. FormsInv'
  BY FormRequests DEF FormsInv
<1>2. call[s].kind \in Forms /\ call[s] # Free
  BY KindsApart DEF SaveAnswered, SaveCut, FinishAnswered, SaveFailed, Forms, Leaving
<1>3. ASSUME Calm' PROVE CalmInv'
  <2>1. ASSUME Busy = {s}, \E at \in {Nothing, Detached} : call' = Others(s, at)
        PROVE  \A o \in Slots : call'[o] = Free
    BY <2>1, OthersSent DEF Busy
  <2>2. ASSUME Steady', hit' \subseteq {"simple", "aborted"}, \A o \in Slots : call'[o] = Free PROVE CalmInv'
    <3>1. \A o \in Slots : call'[o].state # "ok" /\ call'[o].state # "sent"
      BY <2>2, FreeFields
    <3>2. \A o, t \in Busy' : o = t
      BY <2>2 DEF Busy
    <3>3. QED
      BY <2>2, <3>1, <3>2 DEF CalmInv, Sent
  <2>3. CASE SaveAnswered(s)
    <3>1. hit' = {} /\ call[s].alone /\ call[s].state = "ok" /\ call[s].kind \notin Leaving
      BY <1>3, <2>3 DEF SaveAnswered, Calm, Leaving
    <3>2. Busy = {s}
      BY <1>2, <3>1 DEF RequestsInv
    <3>3. sess = "whole" /\ doc = call[s].list /\ ref = Numbered(doc)
      BY <1>2, <3>1 DEF FormsInv
    <3>4. UNCHANGED <<doc, ref, sess, row, made, simple, min>> /\ current'
          /\ page' = Layout(doc) /\ id' = Numbered(doc) /\ ctl' = Dressed(doc) /\ view' = "open"
      BY <2>3, <3>3 DEF SaveAnswered
    <3>5. Fresh'
      BY <3>3, <3>4 DEF Fresh, Layout, Dressed, FirstControls, Numbered
    <3>6. DocShape'
      BY <2>3, FormAnsweredTypes DEF TypeInv
    <3>7. Shown(doc)'
      BY <3>5, <3>6, FreshShownNext
    <3>8. Steady'
      BY <3>3, <3>4, <3>7 DEF Steady
    <3>9. \A o \in Slots : call'[o] = Free
      BY <2>1, <2>3, <3>2 DEF SaveAnswered
    <3>10. QED
      BY <2>2, <3>1, <3>8, <3>9
  <2>4. CASE SaveCut(s)
    <3>1. Calm /\ call[s].state = "cut" /\ call[s].kind # "remove"
      BY <1>3, <2>4 DEF SaveCut, Calm
    <3>2. QED
      BY <3>1 DEF RequestsInv, Calm
  <2>5. CASE FinishAnswered(s)
    <3>1. /\ hit' = {} /\ call[s].alone /\ call[s].state \in {"ok", "cut"} /\ call[s].kind \in Leaving
          /\ UNCHANGED server /\ view' = "closed"
      BY <1>3, <2>5 DEF FinishAnswered, Calm
    <3>2. Busy = {s}
      BY <1>2, <3>1 DEF RequestsInv
    <3>3. sess = "bare"
      BY <1>2, <3>1 DEF FormsInv
    <3>4. Steady'
      BY <3>1, <3>3 DEF Steady, server
    <3>5. \A o \in Slots : call'[o] = Free
      BY <2>1, <2>5, <3>2 DEF FinishAnswered
    <3>6. QED
      BY <2>2, <3>1, <3>4, <3>5
  <2>6. CASE SaveFailed(s)
    <3>1. /\ hit' = hit /\ call[s].state = "failed" /\ call' = [call EXCEPT ![s] = Free]
          /\ UNCHANGED server /\ UNCHANGED <<page, id, ctl, simple, min, hit>> /\ view' # "closed"
      BY <2>6 DEF SaveFailed
    <3>2. Calm
      BY <1>3, <3>1 DEF Calm
    <3>3. view = "overlay" /\ Busy = {s}
      BY <1>2, <3>2 DEF RequestsInv, Calm
    <3>4. \A o \in Slots : call[o].state # "ok"
      BY <3>1, <3>3, FreeFields DEF Busy
    <3>5. Steady'
      BY <3>1, <3>2, <3>3, <3>4, StillSteady DEF CalmInv
    <3>6. \A o \in Slots : call'[o] = Free
      BY <3>1, <3>3 DEF Busy, TypeInv, CallShape
    <3>7. QED
      BY <2>2, <3>1, <3>2, <3>5, <3>6 DEF CalmInv
  <2>7. QED
    BY <2>3, <2>4, <2>5, <2>6
<1>4. QED
  BY <1>1, <1>3 DEF CalmInv

LEMMA OpenPage ==
  ASSUME PageInv, Open
  PROVE  CalmInv' /\ FormsInv'
<1> USE DEF PageInv
<1>1. FormsInv'
  BY OpenRequests DEF FormsInv
<1>2. ASSUME Calm' PROVE CalmInv'
  <2>1. /\ hit' = {} /\ Busy = {}
        /\ call' = [s \in Slots |-> IF call[s].state # "sent" THEN Free ELSE Without(call[s], Nothing)]
        /\ doc' = row /\ ref' = Numbered(row) /\ sess' = "whole" /\ current' /\ view' = "open"
        /\ page' = Layout(row) /\ id' = Numbered(row) /\ ctl' = Dressed(row)
        /\ UNCHANGED <<simple, min>>
    BY <1>2 DEF Open, Calm
  <2>2. \A o \in Slots : call'[o] = Free
    BY <2>1, FreeFields DEF Busy
  <2>3. Fresh'
    BY <2>1 DEF Fresh, Layout, Dressed, FirstControls, Numbered
  <2>4. DocShape'
    BY OpenTypes DEF TypeInv
  <2>5. Shown(doc)'
    BY <2>3, <2>4, FreshShownNext
  <2>6. Steady'
    BY <2>1, <2>5 DEF Steady
  <2>7. \A o \in Slots : call'[o].state # "ok" /\ call'[o].state # "sent"
    BY <2>2, FreeFields
  <2>8. \A o, t \in Busy' : o = t
    BY <2>2 DEF Busy
  <2>9. QED
    BY <2>1, <2>6, <2>7, <2>8 DEF CalmInv, Sent
<1>3. QED
  BY <1>1, <1>2 DEF CalmInv

LEMMA InitPage == Init => PageInv
<1> SUFFICES ASSUME Init PROVE PageInv
  OBVIOUS
<1>1. TypeInv /\ RequestsInv
  BY InitTypes, InitRequests
<1>2. doc # <<>>
  BY DEF Init
<1>3. Fresh
  BY <1>2 DEF Init, Fresh, Layout
<1>4. Shown(doc)
  BY <1>1, <1>3, FreshShown DEF TypeInv
<1>5. Steady
  BY <1>4 DEF Init, Steady
<1>6. \A o \in Slots : call[o] = Free
  BY DEF Init
<1>7. \A o \in Slots : call[o].state # "ok" /\ call[o].state # "sent" /\ call[o].kind \notin Forms
  BY <1>6, FreeFields, KindsApart
<1>8. hit = {} /\ \A o, t \in Busy : o = t
  BY <1>6 DEF Init, Busy
<1>9. QED
  BY <1>1, <1>5, <1>7, <1>8 DEF PageInv, CalmInv, FormsInv, Sent

LEMMA NextPage == PageInv /\ [Next]_vars => PageInv'
<1> SUFFICES ASSUME PageInv, [Next]_vars PROVE PageInv'
  OBVIOUS
<1>1. TypeInv' /\ RequestsInv'
  BY NextTypes, NextRequests DEF PageInv
<1>2. CASE Open
  BY <1>1, <1>2, OpenPage DEF PageInv
<1>3. ASSUME NEW s \in Slots, Click(s) \/ Serve(s) \/ Answer(s) PROVE CalmInv' /\ FormsInv'
  <2>1. CASE Unheard(s)
    <3>1. "late" \in hit' /\ call[s] # Free /\ call'[s] = Free /\ \A o \in Slots : o # s => call'[o] = call[o]
      BY <2>1, UnheardRequests, FreeFields DEF PageInv, Unheard, TypeInv, CallShape
    <3>2. \A o \in Slots : call'[o].kind \in Forms => ~call'[o].alone
      BY <3>1, AloneIsOnly, KindsApart DEF PageInv
    <3>3. QED
      BY <3>1, <3>2 DEF CalmInv, Calm, FormsInv
  <2>2. CASE Answer(s) /\ ~Unheard(s)
    BY <2>2, HandlePage, FormPage DEF Answer, Handles
  <2>3. QED
    BY <1>3, <2>1, <2>2, ClickPage, ServePage
<1>4. CASE UNCHANGED vars
  <2>1. UNCHANGED <<doc, ref, sess, row, made, current, page, id, ctl, view, listening, simple, min, call, hit>>
    BY <1>4 DEF vars, server, browser
  <2>2. \A list : Shown(list)' <=> Shown(list)
    BY <2>1 DEF Shown, Made, Layout, Dressed, FirstControls, OnlyLastAdds
  <2>3. Calm' = Calm /\ Busy' = Busy /\ FormsInv'
    BY <2>1 DEF PageInv, Calm, Busy, FormsInv, Layout, Numbered
  <2>4. Steady' <=> Steady
    BY <2>1, <2>2 DEF Steady, Shown, Made, Layout, Dressed, FirstControls, OnlyLastAdds
  <2>5. \A s \in Slots : (Asked(s)' <=> Asked(s)) /\ (Sent(s, Changes)' <=> Sent(s, Changes))
    BY <2>1 DEF Asked, Sent, InPage, RefOf
  <2>6. \A s \in Slots : \A list :
          /\ AddDone(s, list)' <=> AddDone(s, list)
          /\ RemoveDone(s, list)' <=> RemoveDone(s, list)
          /\ MoveDone(s, list)' <=> MoveDone(s, list)
    BY <2>1 DEF AddDone, RemoveDone, MoveDone, Made, FirstControls
  <2>7. \A s \in Slots : ChangeDone(s)' <=> ChangeDone(s)
    BY <2>1, <2>2, <2>6 DEF ChangeDone
  <2>8. QED
    BY <1>1, <2>1, <2>3, <2>4, <2>5, <2>7 DEF PageInv, CalmInv
<1>5. QED
  BY <1>1, <1>2, <1>3, <1>4 DEF Next, PageInv

LEMMA PageAlways == Spec => []PageInv
BY InitPage, NextPage, PTL DEF Spec

(* When nothing is under way and nothing has gone wrong, the page shows    *)
(* the document of the session, under its references and with the controls *)
(* that EditLib.expandTree would give it: the handlers of the page repeat  *)
(* what addElementEmbedded, deleteElementEmbedded and swapElementEmbedded  *)
(* have done.                                                              *)
THEOREM PageFollows == Spec => []PageFollowsSession
<1>1. PageInv => PageFollowsSession
  <2> SUFFICES ASSUME PageInv, Quiet, hit = {}
               PROVE  /\ sess = "whole" /\ current
                      /\ page = Layout(doc)
                      /\ \A e \in ToSet(doc) : id[e] = ref[e] /\ ctl[e] = Dressed(doc)[e]
    BY DEF PageFollowsSession
  <2>1. Calm /\ view = "open"
    BY DEF Calm, Quiet
  <2>2. \A s \in Slots : call[s].state # "ok"
    BY FreeFields DEF Quiet, Busy
  <2>3. Steady
    BY <2>1, <2>2 DEF PageInv, CalmInv
  <2>4. sess = "whole"
    BY <2>1, <2>3 DEF PageInv, TypeInv, DocShape, Steady
  <2>5. current /\ Shown(doc)
    BY <2>3, <2>4 DEF Steady
  <2>6. QED
    BY <2>4, <2>5 DEF Shown
<1>2. QED
  BY <1>1, PageAlways, PTL

(* One click at a time reaches what was clicked, although a reference is   *)
(* used again when the last element is removed and another one added.      *)
THEOREM ClickedIsReached == Spec => []ReachesClicked
<1>1. PageInv => ReachesClicked
  BY DEF PageInv, CalmInv, Calm, ReachesClicked
<1>2. QED
  BY <1>1, PageAlways, PTL

(* Only the service itself makes a form that was sent an answered one.     *)
LEMMA AnsweredByService ==
  ASSUME PageInv, [Next]_vars, NEW s \in Slots, call[s].state = "sent", call'[s].state = "ok"
  PROVE  Serve(s)
<1> USE DEF PageInv
<1>1. ASSUME Open PROVE FALSE
  <2>1. call'[s] = Without(call[s], Nothing)
    BY <1>1 DEF Open
  <2>2. made \in Nat /\ call[s] # Free
    BY MadeBound, FreeFields DEF TypeInv
  <2>3. Fits(call[s], made)
    BY <2>2 DEF TypeInv, CallShape
  <2>4. QED
    BY <2>1, <2>2, <2>3, LeftBehind
<1>2. ASSUME NEW o \in Slots, Click(o) PROVE FALSE
  <2>1. call[o] = Free /\ call'[o].state = "sent" /\ \A t \in Slots : t # o => call'[t] = call[t]
    BY <1>2, ControlSent, FormSent DEF Click
  <2>2. QED
    BY <2>1, FreeFields
<1>3. ASSUME NEW o \in Slots, Serve(o) PROVE Serve(s)
  <2>1. \A t \in Slots : t # o => call'[t] = call[t]
    BY <1>3, ServedRequest, BrokenRequest DEF Serve, Serves, Breaks
  <2>2. QED
    BY <1>3, <2>1
<1>4. ASSUME NEW o \in Slots, Answer(o) PROVE FALSE
  <2>1. CASE Handles(o)
    BY <2>1, HandledRequest, FreeFields
  <2>2. CASE SaveFailed(o) \/ Unheard(o)
    <3>1. call'[o] = Free /\ \A t \in Slots : t # o => call'[t] = call[t]
      BY <2>2 DEF SaveFailed, Unheard, TypeInv, CallShape
    <3>2. QED
      BY <3>1, FreeFields
  <2>3. CASE SaveAnswered(o) \/ SaveCut(o) \/ FinishAnswered(o)
    <3>1. PICK at \in {Nothing, Detached} : call' = Others(o, at)
      BY <2>3 DEF SaveAnswered, SaveCut, FinishAnswered
    <3>2. call'[s] = Free \/ call'[s] = Without(call[s], at)
      BY <3>1 DEF Others
    <3>3. made \in Nat /\ call[s] # Free
      BY MadeBound, FreeFields DEF TypeInv
    <3>4. Fits(call[s], made)
      BY <3>3 DEF TypeInv, CallShape
    <3>5. QED
      BY <3>2, <3>3, <3>4, LeftBehind, FreeFields
  <2>4. QED
    BY <1>4, <2>1, <2>2, <2>3 DEF Answer, Handles
<1>5. CASE UNCHANGED vars
  BY <1>5 DEF vars
<1>6. QED
  BY <1>1, <1>2, <1>3, <1>4, <1>5 DEF Next

(* What metadata.update writes is what the user saw when the form was      *)
(* sent, although the list is taken from the session and not from the      *)
(* form: the overlay keeps the user from changing it in between.           *)
THEOREM SavesWhatIsShown == Spec => SavedAsShown
<1>1. ASSUME PageInv, [Next]_vars, NEW s \in Slots, Saved(s), call[s].alone, call[s].synced
      PROVE  Layout(row') = call[s].list
  <2>1. call[s].state = "sent" /\ call[s].kind \in {"save", "finish"} /\ call'[s].state = "ok"
    BY <1>1 DEF Saved, Sent
  <2>2. Serve(s)
    BY <1>1, <2>1, AnsweredByService
  <2>3. ~Breaks(s)
    BY <1>1, <2>1, BrokenRequest DEF PageInv
  <2>4. ServeSave(s)
    BY <2>1, <2>2, <2>3 DEF Serve, Breaks, ServeAdd, ServeRemove, ServeMove, ServeForget, Sent
  <2>5. row' = doc
    BY <2>4 DEF ServeSave
  <2>6. call[s].list = Layout(doc)
    BY <1>1, <2>1 DEF PageInv, FormsInv, Forms, Leaving
  <2>7. QED
    BY <2>5, <2>6
<1>2. PageInv /\ [Next]_vars =>
        [\A s \in Slots : Saved(s) /\ call[s].alone /\ call[s].synced => Layout(row') = call[s].list]_vars
  BY <1>1
<1>3. QED
  BY <1>2, PageAlways, PTL DEF Spec, SavedAsShown

-------------------------------------------------------------------------------
(* Requests and answers that overtake each other.  Every element of the    *)
(* page, or on its way there, that the document has no more is matched by  *)
(* an answer to a removal that is still to come.                           *)
Whole == hit \cap {"lost", "thrown", "late", "aborted"} = {}

Pending(s) == call[s].state = "ok" /\ call[s].kind = "add"
New(s)     == call[s].list[1]
Removing   == {s \in Slots : call[s].state = "ok" /\ call[s].kind = "remove"}
Coming     == (ToSet(page) \ {Placeholder}) \cup {New(s) : s \in {t \in Slots : Pending(t)}}
Ghosts     == Coming \ ToSet(doc)

Matched ==
  /\ Apart(page)
  /\ \A e \in ToSet(page) : e \in ToSet(doc) => id[e] = ref[e]
  /\ \A s \in Slots : Pending(s) =>
       /\ New(s) \notin ToSet(page)
       /\ New(s) \in ToSet(doc) => ref[New(s)] = call[s].ref
       /\ \A t \in Slots : Pending(t) /\ New(t) = New(s) => s = t
  /\ \A s \in Slots : Sent(s, {"remove"}) /\ call[s].at \in ToSet(doc) => ref[call[s].at] = call[s].ref
  /\ \A s \in Removing : call[s].at \notin ToSet(doc)
  /\ ExistsInjection(Ghosts, Removing)
  /\ sess = "bare" => view = "closed"

NoFormServed == \A s \in Slots : call[s].kind \in Forms => call[s].state # "ok"

GhostInv == Whole /\ NoFormServed => Matched

(* Sets that can be matched.                                               *)
LEMMA MatchFewer ==
  ASSUME NEW G, NEW R, NEW H, NEW Q, ExistsInjection(G, R), H \subseteq G, R \subseteq Q
  PROVE  ExistsInjection(H, Q)
<1>1. PICK f \in [G -> R] : \A a, b \in G : f[a] = f[b] => a = b
  BY DEF ExistsInjection, Injection, IsInjective
<1> DEFINE g == [a \in H |-> f[a]]
<1>2. g \in [H -> Q] /\ \A a, b \in H : g[a] = g[b] => a = b
  BY <1>1
<1>3. QED
  BY <1>2 DEF ExistsInjection, Injection, IsInjective

LEMMA MatchOneMore ==
  ASSUME NEW G, NEW R, NEW d, NEW s, ExistsInjection(G, R), s \notin R
  PROVE  ExistsInjection(G \cup {d}, R \cup {s})
<1>1. PICK f \in [G -> R] : \A a, b \in G : f[a] = f[b] => a = b
  BY DEF ExistsInjection, Injection, IsInjective
<1> DEFINE g == [a \in G \cup {d} |-> IF a \in G THEN f[a] ELSE s]
<1>2. g \in [G \cup {d} -> R \cup {s}] /\ \A a, b \in G \cup {d} : g[a] = g[b] => a = b
  BY <1>1
<1>3. QED
  BY <1>2 DEF ExistsInjection, Injection, IsInjective

LEMMA MatchOneLess ==
  ASSUME NEW G, NEW R, NEW d \in G, NEW s \in R, ExistsInjection(G, R)
  PROVE  ExistsInjection(G \ {d}, R \ {s})
<1>1. PICK f \in [G -> R] : \A a, b \in G : f[a] = f[b] => a = b
  BY DEF ExistsInjection, Injection, IsInjective
<1> DEFINE g == [a \in G \ {d} |-> IF f[a] = s THEN f[d] ELSE f[a]]
<1>2. g \in [G \ {d} -> R \ {s}]
  BY <1>1
<1>3. ASSUME NEW a \in G \ {d}, NEW b \in G \ {d}, g[a] = g[b] PROVE a = b
  BY <1>1, <1>3
<1>4. QED
  BY <1>2, <1>3 DEF ExistsInjection, Injection, IsInjective

LEMMA NothingToMatch ==
  ASSUME NEW R
  PROVE  ExistsInjection({}, R)
<1> DEFINE g == [a \in {} |-> a]
<1>1. g \in [{} -> R] /\ \A a, b \in {} : g[a] = g[b] => a = b
  OBVIOUS
<1>2. QED
  BY <1>1 DEF ExistsInjection, Injection, IsInjective

(* A step that leaves the document and the page as they are.               *)
LEMMA StillMatched ==
  ASSUME Matched, UNCHANGED <<doc, ref, page, id>>, sess' = "bare" => view' = "closed",
         \A o \in Slots :
           \/ call'[o] = call[o]
           \/ /\ call'[o].state # "ok" /\ ~(call[o].state = "ok" /\ call[o].kind \in {"add", "remove"})
              /\ call'[o].state = "sent" /\ call'[o].kind = "remove" /\ call'[o].at \in ToSet(doc) =>
                   ref[call'[o].at] = call'[o].ref
  PROVE  Matched'
<1>1. \A o \in Slots : Pending(o)' => Pending(o) /\ New(o)' = New(o) /\ call'[o] = call[o]
  BY DEF Pending, New
<1>2. Removing' = Removing /\ \A o \in Removing : call'[o] = call[o]
  BY DEF Removing
<1>3. Ghosts' \subseteq Ghosts
  BY <1>1 DEF Ghosts, Coming
<1>4. ExistsInjection(Ghosts', Removing')
  BY <1>2, <1>3, MatchFewer DEF Matched
<1>5. \A o \in Slots : Sent(o, {"remove"})' /\ call'[o].at \in ToSet(doc) => ref[call'[o].at] = call'[o].ref
  BY DEF Sent, Matched
<1>6. Apart(page)'
  BY DEF Matched, Apart
<1>7. QED
  BY <1>1, <1>2, <1>4, <1>5, <1>6 DEF Matched, ExistsInjection, Injection, IsInjective

LEMMA FreshMatched == DocShape /\ Fresh /\ sess # "bare" /\ (\A s \in Slots : call[s] = Free) => Matched
<1> SUFFICES ASSUME DocShape, Fresh, sess # "bare", \A s \in Slots : call[s] = Free PROVE Matched
  OBVIOUS
<1>1. \A s \in Slots : call[s].state = "free" /\ call[s].kind = "none"
  BY FreeFields
<1>2. made \in Nat /\ doc \in Seq(1..made) /\ Apart(doc)
  BY MadeBound DEF DocShape, Made
<1>3. Apart(page) /\ ToSet(page) \ {Placeholder} = ToSet(doc)
  BY <1>2, LaidOut DEF Fresh
<1>4. Ghosts = {} /\ Removing = {} /\ \A s \in Slots : ~Pending(s) /\ ~Sent(s, {"remove"})
  BY <1>1, <1>3 DEF Ghosts, Coming, Removing, Pending, Sent
<1>5. ExistsInjection(Ghosts, Removing)
  BY <1>4, NothingToMatch
<1>6. QED
  BY <1>3, <1>4, <1>5 DEF Matched, Fresh

LEMMA FreshMatchedNext ==
  (DocShape /\ Fresh /\ sess # "bare" /\ (\A s \in Slots : call[s] = Free) => Matched)'
BY FreshMatched, PTL

(* Before a service or a handler all was well when it is afterwards.       *)
LEMMA MatchedBefore ==
  ASSUME PageInv, GhostInv, NEW s \in Slots, Serve(s) \/ Handles(s), Whole', NoFormServed'
  PROVE  /\ Whole /\ Matched
         /\ \A o \in Slots : o # s => call'[o] = call[o]
         /\ call[s] # Free /\ view # "closed" /\ view' = view
         /\ call[s].kind \in Changes => call[s].at \notin {Nothing, Detached}
         /\ call[s].state = "cut" => call[s].kind = "remove"
<1> USE DEF PageInv
<1>1. /\ \A o \in Slots : o # s => call'[o] = call[o]
      /\ call[s] # Free /\ hit \subseteq hit' /\ view' = view
  BY ServedRequest, BrokenRequest, HandledRequest DEF Serve, Serves, Breaks, browser
<1>2. Whole /\ "late" \notin hit /\ "lost" \notin hit
  BY <1>1 DEF Whole
<1>3. NoFormServed
  <2> SUFFICES ASSUME NEW o \in Slots, call[o].kind \in Forms, call[o].state = "ok" PROVE FALSE
    BY DEF NoFormServed
  <2>1. o = s
    BY <1>1, <1>2 DEF RequestsInv, Busy
  <2>2. ~Handles(s)
    BY <2>1, HandledRequest, KindsApart
  <2>3. CutOff(s)
    BY <2>1, <2>2 DEF Serve, ServeAdd, ServeRemove, ServeMove, ServeSave, ServeForget, SaveAborted, RemoveUnknown, Refused, Sent
  <2>4. "lost" \in hit'
    BY <2>1, <2>3 DEF CutOff, Sent
  <2>5. QED
    BY <2>4 DEF Whole
<1>4. view # "closed"
  BY <1>1, <1>2 DEF RequestsInv, Busy
<1>5. QED
  BY <1>1, <1>2, <1>3, <1>4 DEF GhostInv, RequestsInv

LEMMA ClickGhosts ==
  ASSUME PageInv, GhostInv, NEW s \in Slots, Click(s)
  PROVE  GhostInv'
<1> USE DEF PageInv
<1> SUFFICES ASSUME Whole', NoFormServed' PROVE Matched'
  BY DEF GhostInv
<1>0. view = "open" /\ \A o \in Slots : call[o].kind \notin Forms
  BY DEF Click, ClickControl, ClickForm, RequestsInv
<1>1. CASE \E e \in ToSet(page), kind \in Changes : ClickControl(s, e, kind)
  <2>1. PICK e \in ToSet(page), kind \in Changes : ClickControl(s, e, kind)
    BY <1>1
  <2> DEFINE node == Node(page, RefOf(e))
  <2>2. /\ call[s] = Free /\ \A o \in Slots : o # s => call'[o] = call[o]
        /\ call'[s].kind = kind /\ call'[s].state = "sent" /\ call'[s].at = node
        /\ call'[s].ref = RefOf(e)
    BY <2>1, ControlSent
  <2>3. /\ UNCHANGED <<doc, ref, sess, page, id, view>> /\ hit \subseteq hit'
        /\ e = Placeholder => kind = "add"
    BY <2>1 DEF ClickControl, server
  <2>4. Matched
    BY <1>0, <2>3 DEF GhostInv, Whole, NoFormServed
  <2>5. kind = "remove" /\ node \in ToSet(doc) => ref[node] = RefOf(e)
    <3> SUFFICES ASSUME kind = "remove", node \in ToSet(doc) PROVE ref[node] = RefOf(e)
      OBVIOUS
    <3>1. node \in ToSet(page) /\ IsOf(node, RefOf(e)) /\ node \in Made /\ Placeholder \notin Made
      BY <2>3, PageNodes, MadeBound DEF TypeInv
    <3>2. id[node] = RefOf(e)
      BY <3>1 DEF IsOf
    <3>3. QED
      BY <2>4, <3>1, <3>2 DEF Matched
  <2> HIDE DEF node
  <2>6. sess' = "bare" => view' = "closed"
    BY <2>3, <2>4 DEF Matched
  <2>7. QED
    BY <2>2, <2>3, <2>4, <2>5, <2>6, FreeFields, StillMatched
<1>2. CASE \E kind \in Forms : ClickForm(s, kind)
  <2>1. PICK kind \in Forms : ClickForm(s, kind)
    BY <1>2
  <2>2. /\ call[s] = Free /\ \A o \in Slots : o # s => call'[o] = call[o]
        /\ call'[s].kind = kind /\ call'[s].state = "sent"
    BY <2>1, FormSent
  <2>3. UNCHANGED <<doc, ref, sess, page, id>> /\ hit \subseteq hit'
    BY <2>1 DEF ClickForm, server
  <2>4. Matched
    BY <1>0, <2>3 DEF GhostInv, Whole, NoFormServed
  <2>5. sess' # "bare"
    BY <1>0, <2>3, <2>4 DEF Matched
  <2>6. kind # "remove"
    BY DEF Forms, Leaving
  <2>7. QED
    BY <2>2, <2>3, <2>4, <2>5, <2>6, FreeFields, StillMatched
<1>3. QED
  BY <1>1, <1>2 DEF Click

LEMMA AddGhosts ==
  ASSUME PageInv, Matched, NEW s \in Slots, ServeAdd(s)
  PROVE  Matched'
<1> USE DEF PageInv
<1>1. /\ Sent(s, {"add"}) /\ sess = "whole" /\ made < MaxElem /\ made' = made + 1
      /\ doc' = Append(doc, made') /\ ref' = [ref EXCEPT ![made'] = NewRef]
      /\ Reply(s, <<made'>>, NewRef, FirstControls(Len(doc'), Len(doc')))
      /\ UNCHANGED <<sess, page, id>>
  BY DEF ServeAdd, browser
<1>2. /\ call'[s].kind = "add" /\ call[s].kind = "add" /\ call[s].state = "sent" /\ call'[s].state = "ok"
      /\ call'[s].ref = NewRef /\ call'[s].list = <<made'>>
      /\ \A o \in Slots : o # s => call'[o] = call[o]
  BY <1>1, ReplySent DEF Sent
<1>3. PICK new : new = made'
  OBVIOUS
<1>4. /\ made \in Nat /\ Made \subseteq Elems /\ Placeholder \notin Made
      /\ doc \in Seq(Made) /\ ToSet(doc) \subseteq Made /\ ToSet(page) \subseteq Made \cup {Placeholder}
      /\ DOMAIN ref = Elems
  BY MadeBound DEF TypeInv, DocShape, PageShape, ToSet
<1>5. new \in Elems /\ new \notin Made /\ new # Placeholder /\ new # Nothing /\ new # Detached
  <2>1. MaxElem \in Nat
    BY BoundsAssumption
  <2>2. QED
    BY <1>1, <1>3, <1>4, <2>1 DEF Elems, Made, Placeholder, Nothing, Detached
<1>6. ref'[new] = NewRef /\ \A e \in Elems : e # new => ref'[e] = ref[e]
  BY <1>1, <1>3, <1>4, <1>5
<1>7. ToSet(doc') = ToSet(doc) \cup {new}
  <2>1. doc \in Seq(Elems) /\ doc' = Append(doc, new)
    BY <1>1, <1>3, <1>4
  <2>2. QED
    BY <1>5, <2>1, AppendedElements
<1>8. ASSUME NEW o \in Slots, Pending(o) PROVE New(o) \in Made
  <2>1. call[o] # Free
    BY <1>8, FreeFields DEF Pending
  <2>2. PICK e \in 1..made : call[o].list = <<e>>
    BY <1>8, <2>1 DEF TypeInv, CallShape, Fits, Pending
  <2>3. QED
    BY <2>2 DEF New, Made
<1>9. ASSUME NEW o \in Slots, call[o] # Free PROVE call[o].at # new
  <2>1. call[o].at \in Made \cup {Placeholder, Nothing, Detached}
    BY <1>9 DEF TypeInv, CallShape, Fits, Request, Made
  <2>2. QED
    BY <1>5, <2>1
<1>10. New(s)' = new /\ Pending(s)' /\ ~Pending(s)
  BY <1>2, <1>3 DEF New, Pending
<1>11. \A o \in Slots : o # s => (Pending(o)' <=> Pending(o)) /\ New(o)' = New(o)
  BY <1>2 DEF New, Pending
<1>12. Removing' = Removing /\ \A o \in Removing : call'[o] = call[o]
  BY <1>2 DEF Removing
<1>13. Ghosts' \subseteq Ghosts
  <2> SUFFICES ASSUME NEW e \in Ghosts' PROVE e \in Ghosts
    OBVIOUS
  <2>1. e \in Coming' /\ e # new /\ e \notin ToSet(doc)
    BY <1>7 DEF Ghosts
  <2>2. CASE e \in ToSet(page') \ {Placeholder}
    BY <1>1, <2>1, <2>2 DEF Ghosts, Coming
  <2>3. CASE \E o \in Slots : Pending(o)' /\ e = New(o)'
    BY <1>10, <1>11, <2>1, <2>3 DEF Ghosts, Coming
  <2>4. QED
    BY <2>1, <2>2, <2>3 DEF Coming
<1>14. ExistsInjection(Ghosts', Removing')
  BY <1>12, <1>13, MatchFewer DEF Matched
<1>15. \A e \in ToSet(page') : e \in ToSet(doc') => id'[e] = ref'[e]
  <2> SUFFICES ASSUME NEW e \in ToSet(page), e \in ToSet(doc') PROVE id[e] = ref'[e]
    BY <1>1
  <2>1. e \in ToSet(doc) /\ e \in Elems /\ e # new
    BY <1>4, <1>5, <1>7
  <2>2. QED
    BY <1>6, <2>1 DEF Matched
<1>16. ASSUME NEW o \in Slots, Pending(o)'
       PROVE  /\ New(o)' \notin ToSet(page')
              /\ New(o)' \in ToSet(doc') => ref'[New(o)'] = call'[o].ref
              /\ \A t \in Slots : Pending(t)' /\ New(t)' = New(o)' => o = t
  <2>1. CASE o = s
    BY <1>1, <1>2, <1>4, <1>5, <1>6, <1>8, <1>10, <1>11, <2>1
  <2>2. CASE o # s
    <3>1. Pending(o) /\ New(o)' = New(o) /\ New(o) \in Made /\ New(o) # new /\ New(o) \in Elems /\ call'[o] = call[o]
      BY <1>2, <1>4, <1>5, <1>8, <1>11, <1>16, <2>2
    <3>2. New(o)' \notin ToSet(page')
      BY <1>1, <3>1 DEF Matched
    <3>3. New(o)' \in ToSet(doc') => ref'[New(o)'] = call'[o].ref
      BY <1>6, <1>7, <3>1 DEF Matched
    <3>4. \A t \in Slots : Pending(t)' /\ New(t)' = New(o)' => o = t
      BY <1>10, <1>11, <3>1 DEF Matched
    <3>5. QED
      BY <3>2, <3>3, <3>4
  <2>3. QED
    BY <2>1, <2>2
<1>17. ASSUME NEW o \in Slots, Sent(o, {"remove"})', call'[o].at \in ToSet(doc') PROVE ref'[call'[o].at] = call'[o].ref
  <2>1. o # s /\ call'[o] = call[o] /\ Sent(o, {"remove"})
    BY <1>2, <1>17 DEF Sent
  <2>2. call[o].at # new
    BY <1>9, <2>1, FreeFields DEF Sent
  <2>3. call[o].at \in ToSet(doc) /\ call[o].at \in Elems
    BY <1>4, <1>7, <1>17, <2>1, <2>2
  <2>4. QED
    BY <1>6, <2>1, <2>2, <2>3 DEF Matched
<1>18. ASSUME NEW o \in Removing' PROVE call'[o].at \notin ToSet(doc')
  <2>1. o \in Removing /\ call'[o] = call[o] /\ call[o] # Free
    BY <1>12, FreeFields DEF Removing
  <2>2. call[o].at # new /\ call[o].at \notin ToSet(doc)
    BY <1>9, <2>1 DEF Matched, Removing
  <2>3. QED
    BY <1>7, <2>1, <2>2
<1>19. Apart(page)' /\ sess' # "bare"
  BY <1>1 DEF Matched, Apart
<1>20. QED
  BY <1>14, <1>15, <1>16, <1>17, <1>18, <1>19 DEF Matched, ExistsInjection, Injection, IsInjective

LEMMA RemoveGhosts ==
  ASSUME PageInv, Matched, NEW s \in Slots, ServeRemove(s)
  PROVE  Matched'
<1> USE DEF PageInv
<1> DEFINE d == Denoted(call[s].ref)
<1>1. /\ Sent(s, {"remove"}) /\ sess = "whole" /\ Found(call[s].ref)
      /\ doc' = RemoveAt(doc, Place(d, doc)) /\ ref' = Kept(ref, doc', 0)
      /\ Reply(s, IF doc' = <<>> /\ ~simple THEN <<Placeholder>> ELSE <<>>, 0, {})
      /\ UNCHANGED <<sess, page, id>>
  BY DEF ServeRemove, browser
<1>2. /\ call'[s].kind = "remove" /\ call[s].state = "sent" /\ call'[s].state = "ok" /\ call'[s].at = call[s].at
      /\ \A o \in Slots : o # s => call'[o] = call[o]
  BY <1>1, ReplySent DEF Sent
<1>3. d \in ToSet(doc) /\ ref[d] = call[s].ref
  BY <1>1, DenotedFound
<1> HIDE DEF d
<1>4. doc \in Seq(Made) /\ Apart(doc) /\ ToSet(doc) \subseteq Elems /\ Placeholder \notin ToSet(doc) /\ DOMAIN ref = Elems
  BY MadeBound DEF TypeInv, DocShape, ToSet
<1>5. ToSet(doc') = ToSet(doc) \ {d}
  <2>1. PICK i \in DOMAIN doc : i = Place(d, doc) /\ doc[i] = d
    BY <1>3, Placed
  <2>2. doc' = RemoveAt(doc, i) /\ doc[i] # Placeholder
    BY <1>1, <1>3, <1>4, <2>1
  <2>3. QED
    BY <1>4, <2>1, <2>2, RemovedElements
<1>6. \A e \in ToSet(doc') : ref'[e] = ref[e]
  BY <1>1, <1>4, <1>5, KeptInList
<1>7. call[s].at \notin ToSet(doc')
  <2>1. call[s].at \in ToSet(doc) => call[s].at = d
    BY <1>1, <1>3 DEF Matched, TypeInv, DocShape, RefsApart
  <2>2. QED
    BY <1>5, <2>1
<1>8. \A o \in Slots : (Pending(o)' <=> Pending(o)) /\ (Pending(o) => New(o)' = New(o) /\ call'[o] = call[o])
  BY <1>2 DEF New, Pending
<1>9. Removing' = Removing \cup {s} /\ s \notin Removing
  BY <1>2 DEF Removing
<1>10. Ghosts' \subseteq Ghosts \cup {d}
  <2>1. Coming' = Coming
    BY <1>1, <1>8 DEF Coming
  <2>2. QED
    BY <1>5, <2>1 DEF Ghosts
<1>11. ExistsInjection(Ghosts', Removing')
  <2>1. ExistsInjection(Ghosts \cup {d}, Removing \cup {s})
    BY <1>9, MatchOneMore DEF Matched
  <2>2. QED
    BY <1>9, <1>10, <2>1, MatchFewer
<1>12. \A e \in ToSet(page') : e \in ToSet(doc') => id'[e] = ref'[e]
  BY <1>1, <1>5, <1>6 DEF Matched
<1>13. ASSUME NEW o \in Slots, Pending(o)'
       PROVE  /\ New(o)' \notin ToSet(page')
              /\ New(o)' \in ToSet(doc') => ref'[New(o)'] = call'[o].ref
              /\ \A t \in Slots : Pending(t)' /\ New(t)' = New(o)' => o = t
  BY <1>1, <1>5, <1>6, <1>8, <1>13 DEF Matched
<1>14. ASSUME NEW o \in Slots, Sent(o, {"remove"})', call'[o].at \in ToSet(doc') PROVE ref'[call'[o].at] = call'[o].ref
  <2>1. o # s /\ call'[o] = call[o] /\ Sent(o, {"remove"})
    BY <1>2, <1>14 DEF Sent
  <2>2. QED
    BY <1>5, <1>6, <1>14, <2>1 DEF Matched
<1>15. \A o \in Removing' : call'[o].at \notin ToSet(doc')
  <2> SUFFICES ASSUME NEW o \in Removing' PROVE call'[o].at \notin ToSet(doc')
    OBVIOUS
  <2>1. CASE o = s
    BY <1>2, <1>7, <2>1
  <2>2. CASE o # s
    BY <1>2, <1>5, <1>9, <2>2 DEF Matched, Removing
  <2>3. QED
    BY <2>1, <2>2
<1>16. Apart(page)' /\ sess' # "bare"
  BY <1>1 DEF Matched, Apart
<1>17. QED
  BY <1>11, <1>12, <1>13, <1>14, <1>15, <1>16 DEF Matched, ExistsInjection, Injection, IsInjective

LEMMA MoveGhosts ==
  ASSUME PageInv, Matched, NEW s \in Slots, ServeMove(s)
  PROVE  Matched'
<1> USE DEF PageInv
<1> DEFINE d == Denoted(call[s].ref)
           p == Place(d, doc)
           q == IF call[s].kind = "up" THEN p - 1 ELSE p + 1
<1>1. /\ Sent(s, {"up", "down"}) /\ sess # "bare" /\ Found(call[s].ref)
      /\ q \in DOMAIN doc /\ doc' = Exchange(doc, p, q)
      /\ Reply(s, <<>>, 0, {})
      /\ UNCHANGED <<ref, sess, page, id>>
  BY DEF ServeMove, browser
<1>2. /\ call'[s].kind = call[s].kind /\ call[s].kind \in {"up", "down"} /\ call[s].state = "sent"
      /\ \A o \in Slots : o # s => call'[o] = call[o]
  BY <1>1, ReplySent DEF Sent
<1>3. p \in DOMAIN doc
  BY <1>1, DenotedFound, Placed
<1> HIDE DEF d, p, q
<1>4. ToSet(doc') = ToSet(doc)
  <2>1. doc \in Seq(Made)
    BY DEF TypeInv, DocShape
  <2>2. QED
    BY <1>1, <1>3, <2>1, ExchangedElements
<1>5. \A o \in Slots : (Pending(o)' <=> Pending(o)) /\ (Pending(o) => New(o)' = New(o) /\ call'[o] = call[o])
  BY <1>2 DEF New, Pending
<1>6. Removing' = Removing /\ \A o \in Removing : call'[o] = call[o]
  BY <1>2 DEF Removing
<1>7. Ghosts' = Ghosts
  BY <1>1, <1>4, <1>5 DEF Ghosts, Coming
<1>8. \A o \in Slots : Sent(o, {"remove"})' => Sent(o, {"remove"}) /\ call'[o] = call[o]
  BY <1>2 DEF Sent
<1>9. Apart(page)'
  BY <1>1 DEF Matched, Apart
<1>10. \A o \in Slots : Pending(o)' =>
         /\ New(o)' \notin ToSet(page')
         /\ New(o)' \in ToSet(doc') => ref'[New(o)'] = call'[o].ref
         /\ \A t \in Slots : Pending(t)' /\ New(t)' = New(o)' => o = t
  BY <1>1, <1>4, <1>5 DEF Matched
<1>11. QED
  BY <1>1, <1>4, <1>6, <1>7, <1>8, <1>9, <1>10 DEF Matched, ExistsInjection, Injection, IsInjective

LEMMA ServeGhosts ==
  ASSUME PageInv, GhostInv, NEW s \in Slots, Serve(s)
  PROVE  GhostInv'
<1> SUFFICES ASSUME Whole', NoFormServed' PROVE Matched'
  BY DEF GhostInv
<1>1. /\ Whole /\ Matched
      /\ \A o \in Slots : o # s => call'[o] = call[o]
      /\ view # "closed" /\ view' = view
  BY MatchedBefore
<1>2. ~ServeSave(s) /\ ~ServeForget(s)
  <2>1. ServeSave(s) \/ ServeForget(s) => call'[s].state = "ok" /\ call'[s].kind \in Forms
    BY ServedRequest DEF PageInv, Serves, ServeSave, ServeForget, Sent, Forms, Leaving
  <2>2. QED
    BY <2>1 DEF NoFormServed
<1>3. ~SaveAborted(s)
  BY DEF SaveAborted, Whole
<1>4. CASE RemoveUnknown(s) \/ Refused(s) \/ CutOff(s)
  <2>1. Breaks(s)
    BY <1>4 DEF Breaks
  <2>2. call'[s].state \in {"failed", "cut"} /\ call[s].state = "sent"
    BY <1>4, <2>1, BrokenRequest DEF PageInv, RemoveUnknown, Refused, CutOff, Whole, Sent
  <2>3. UNCHANGED <<doc, ref, page, id>> /\ (sess' = "bare" => sess = "bare")
    BY <1>4 DEF RemoveUnknown, Refused, CutOff, server, browser
  <2>4. sess' # "bare"
    BY <1>1, <2>3 DEF Matched
  <2>5. QED
    BY <1>1, <2>2, <2>3, <2>4, StillMatched
<1>5. CASE ServeAdd(s) \/ ServeRemove(s) \/ ServeMove(s)
  BY <1>1, <1>5, AddGhosts, RemoveGhosts, MoveGhosts
<1>6. QED
  BY <1>2, <1>3, <1>4, <1>5 DEF Serve

LEMMA PendingMade ==
  ASSUME TypeInv, NEW s \in Slots, Pending(s)
  PROVE  New(s) \in Made /\ New(s) \in Elems /\ New(s) # Placeholder
<1>1. call[s] # Free /\ made \in Nat /\ Made \subseteq Elems /\ Placeholder \notin Made
  BY FreeFields, MadeBound DEF Pending, TypeInv
<1>2. PICK e \in 1..made : call[s].list = <<e>>
  BY <1>1 DEF TypeInv, CallShape, Fits, Pending
<1>3. QED
  BY <1>1, <1>2 DEF New, Made

(* What a handler has to leave in the page.                                *)
LEMMA HandledMatched ==
  ASSUME TypeInv, Matched, NEW s \in Slots,
         call'[s] = Free, \A o \in Slots : o # s => call'[o] = call[o],
         UNCHANGED <<doc, ref, sess, view>>,
         Apart(page'), \A e \in ToSet(page') : e \in ToSet(doc) => id'[e] = ref[e],
         \A e \in ToSet(page') : e \in ToSet(page) \cup {Placeholder} \/ (Pending(s) /\ e = New(s)),
         ExistsInjection(Ghosts', Removing')
  PROVE  Matched'
<1>1. \A o \in Slots : call'[o] = Free \/ (o # s /\ call'[o] = call[o])
  OBVIOUS
<1>2. \A o \in Slots : Pending(o)' => o # s /\ Pending(o) /\ New(o)' = New(o) /\ call'[o] = call[o]
  BY <1>1, FreeFields DEF Pending, New
<1>3. \A o \in Slots : Sent(o, {"remove"})' => Sent(o, {"remove"}) /\ call'[o] = call[o]
  BY <1>1, FreeFields DEF Sent
<1>4. \A o \in Removing' : o \in Removing /\ call'[o] = call[o]
  BY <1>1, FreeFields DEF Removing
<1>5. ASSUME NEW o \in Slots, Pending(o)'
      PROVE  /\ New(o)' \notin ToSet(page')
             /\ New(o)' \in ToSet(doc') => ref'[New(o)'] = call'[o].ref
             /\ \A t \in Slots : Pending(t)' /\ New(t)' = New(o)' => o = t
  <2>1. o # s /\ Pending(o) /\ New(o)' = New(o) /\ call'[o] = call[o]
    BY <1>2, <1>5
  <2>2. New(o) \notin ToSet(page) /\ New(o) # Placeholder /\ (Pending(s) => New(o) # New(s))
    BY <2>1, PendingMade DEF Matched
  <2>3. \A t \in Slots : Pending(t)' => Pending(t) /\ New(t)' = New(t)
    BY <1>2
  <2>4. QED
    BY <2>1, <2>2, <2>3 DEF Matched
<1>6. Apart(page)'
  BY DEF Apart
<1>7. QED
  BY <1>3, <1>4, <1>5, <1>6 DEF Matched, ExistsInjection, Injection, IsInjective

LEMMA AddHandledGhosts ==
  ASSUME PageInv, Matched, NEW s \in Slots, AddAnswered(s), Whole', view' = view
  PROVE  Matched'
<1> USE DEF PageInv
<1> DEFINE at == call[s].at
<1>1. /\ call'[s] = Free /\ \A o \in Slots : o # s => call'[o] = call[o]
      /\ UNCHANGED server
  BY HandledRequest DEF Handles
<1>2. PICK new : new = call[s].list[1]
  OBVIOUS
<1>3. Pending(s) /\ New(s) = new
  BY <1>2 DEF AddAnswered, Answered, Pending, New
<1>4. InPage(at)
  BY DEF AddAnswered, Throws, Whole
<1>5. /\ id' = [id EXCEPT ![new] = call[s].ref]
      /\ page' = IF at = Placeholder THEN ReplaceAt(page, Place(at, page), new) ELSE InsertAt(page, Place(at, page) + 1, new)
  BY <1>2, <1>4 DEF AddAnswered, Shows
<1>6. new \in Made /\ new \in Elems /\ new # Placeholder /\ new \notin ToSet(page)
  BY <1>3, PendingMade DEF Matched
<1>7. PICK i \in DOMAIN page : i = Place(at, page) /\ page[i] = at
  BY <1>4, Placed DEF InPage
<1> HIDE DEF at
<1>8. PICK S : S = Made \cup {Placeholder}
  OBVIOUS
<1>9. page \in Seq(S) /\ new \in S /\ Apart(page)
  BY <1>6, <1>8 DEF TypeInv, PageShape, Matched
<1>10. Apart(page') /\ ToSet(page') \subseteq ToSet(page) \cup {new, Placeholder}
  <2>1. CASE at = Placeholder
    <3>1. page' = ReplaceAt(page, i, new) /\ page[i] = Placeholder
      BY <1>5, <1>7, <2>1
    <3>2. ToSet(page') \ {Placeholder} = ((ToSet(page) \ {page[i]}) \cup {new}) \ {Placeholder} /\ Apart(page')
      BY <1>6, <1>9, <3>1, ReplacedElements
    <3>3. QED
      BY <3>2
  <2>2. CASE at # Placeholder
    <3>1. PICK j \in 1..(Len(page) + 1) : j = i + 1
      BY <1>9
    <3>2. page' = InsertAt(page, j, new)
      BY <1>5, <1>7, <2>2, <3>1
    <3>3. QED
      BY <1>6, <1>9, <3>2, InsertedElements
  <2>3. QED
    BY <2>1, <2>2
<1>11. DOMAIN id = Elems /\ ToSet(doc) \subseteq Elems
  BY MadeBound DEF TypeInv, PageShape, DocShape, ToSet
<1>12. id'[new] = call[s].ref /\ \A e \in Elems : e # new => id'[e] = id[e]
  BY <1>5, <1>6, <1>11
<1>13. ASSUME NEW e \in ToSet(page'), e \in ToSet(doc) PROVE id'[e] = ref[e]
  <2>1. CASE e = new
    BY <1>3, <1>12, <1>13, <2>1 DEF Matched
  <2>2. CASE e # new
    <3>1. Placeholder \notin ToSet(doc)
      BY MadeBound DEF TypeInv, DocShape, ToSet
    <3>2. QED
      BY <1>10, <1>11, <1>12, <1>13, <2>2, <3>1 DEF Matched
  <2>3. QED
    BY <2>1, <2>2
<1>14. Ghosts' \subseteq Ghosts
  <2>1. \A o \in Slots : Pending(o)' => Pending(o) /\ New(o)' = New(o)
    BY <1>1, FreeFields DEF Pending, New
  <2>2. Coming' \subseteq Coming
    BY <1>3, <1>10, <2>1 DEF Coming
  <2>3. QED
    BY <1>1, <2>2 DEF Ghosts, server
<1>15. Removing' = Removing
  BY <1>1, <1>3, FreeFields DEF Removing, Pending
<1>16. ExistsInjection(Ghosts', Removing')
  BY <1>14, <1>15, MatchFewer DEF Matched
<1>17. \A e \in ToSet(page') : e \in ToSet(page) \cup {Placeholder} \/ (Pending(s) /\ e = New(s))
  BY <1>3, <1>10
<1>18. UNCHANGED <<doc, ref, sess, view>>
  BY <1>1 DEF server
<1>19. QED
  BY <1>1, <1>10, <1>13, <1>16, <1>17, <1>18, HandledMatched

LEMMA RemoveHandledGhosts ==
  ASSUME PageInv, Matched, NEW s \in Slots, RemoveAnswered(s) \/ LastRemoved(s), Whole', view' = view,
         call[s].at \notin {Nothing, Detached}
  PROVE  Matched'
<1> USE DEF PageInv
<1> DEFINE at == call[s].at
<1>1. /\ call'[s] = Free /\ \A o \in Slots : o # s => call'[o] = call[o]
      /\ call[s] # Free /\ UNCHANGED server
  BY HandledRequest DEF Handles
<1>2. s \in Removing /\ id' = KeptIds(s, page')
  BY DEF RemoveAnswered, LastRemoved, Answered, Removing
<1>3. at \in Made /\ at # Placeholder /\ at \in Elems
  <2>1. at # Placeholder
    BY <1>1, <1>2 DEF TypeInv, CallShape, Fits, Removing
  <2>2. at \in Made
    BY <1>1, <2>1 DEF TypeInv, CallShape, Fits, Request, Made
  <2>3. QED
    BY <2>1, <2>2, MadeBound DEF TypeInv
<1>4. InPage(at) /\ (page' = RemoveAt(page, Place(at, page)) \/ page' = ReplaceAt(page, Place(at, page), Placeholder))
  <2>1. hit' # hit \cup {"thrown"}
    BY DEF Whole
  <2>2. CASE LastRemoved(s)
    BY <2>1, <2>2 DEF LastRemoved, Shows, Throws
  <2>3. CASE RemoveAnswered(s) /\ RemovedBottom(s)
    BY <2>1, <2>3 DEF RemovedBottom, Shows, Throws, LeftAfter
  <2>4. CASE RemoveAnswered(s) /\ RemovedOther(s)
    BY <2>1, <2>4 DEF RemovedOther, Shows, Throws, LeftAfter
  <2>5. QED
    BY <2>2, <2>3, <2>4 DEF RemoveAnswered
<1>5. PICK i \in DOMAIN page : i = Place(at, page) /\ page[i] = at
  BY <1>4, Placed DEF InPage
<1> HIDE DEF at
<1>6. PICK S : S = Made \cup {Placeholder}
  OBVIOUS
<1>7. page \in Seq(S) /\ Placeholder \in S /\ Apart(page)
  BY <1>6 DEF TypeInv, PageShape, Matched
<1>8. Apart(page') /\ ToSet(page') \ {Placeholder} = (ToSet(page) \ {at}) \ {Placeholder}
  <2>1. CASE page' = RemoveAt(page, i)
    BY <1>3, <1>5, <1>7, <2>1, RemovedElements
  <2>2. CASE page' = ReplaceAt(page, i, Placeholder)
    BY <1>3, <1>5, <1>7, <2>2, ReplacedElements
  <2>3. QED
    BY <1>4, <1>5, <2>1, <2>2
<1>9. ToSet(doc) \subseteq Elems /\ Placeholder \notin ToSet(doc)
  BY MadeBound DEF TypeInv, DocShape, ToSet
<1>10. \A e \in ToSet(page') : e \in ToSet(doc) => id'[e] = ref[e]
  <2> SUFFICES ASSUME NEW e \in ToSet(page'), e \in ToSet(doc) PROVE id'[e] = ref[e]
    OBVIOUS
  <2>1. id'[e] = id[e]
    BY <1>2, <1>9 DEF KeptIds
  <2>2. e \in ToSet(page)
    BY <1>8, <1>9
  <2>3. QED
    BY <2>1, <2>2 DEF Matched
<1>11. \A o \in Slots : Pending(o)' => Pending(o) /\ New(o)' = New(o)
  BY <1>1, FreeFields DEF Pending, New
<1>12. at \in Ghosts
  BY <1>2, <1>3, <1>4 DEF Ghosts, Coming, InPage, Matched, at
<1>13. Ghosts' \subseteq Ghosts \ {at}
  <2>1. \A o \in Slots : Pending(o) => New(o) # at
    BY <1>4 DEF Matched, InPage
  <2>2. Coming' \subseteq Coming \ {at}
    BY <1>8, <1>11, <2>1 DEF Coming
  <2>3. QED
    BY <1>1, <2>2 DEF Ghosts, server
<1>14. Removing' = Removing \ {s}
  BY <1>1, FreeFields DEF Removing
<1>15. ExistsInjection(Ghosts', Removing')
  <2>1. ExistsInjection(Ghosts \ {at}, Removing \ {s})
    BY <1>2, <1>12, MatchOneLess DEF Matched
  <2>2. QED
    BY <1>13, <1>14, <2>1, MatchFewer
<1>16. \A e \in ToSet(page') : e \in ToSet(page) \cup {Placeholder} \/ (Pending(s) /\ e = New(s))
  BY <1>8
<1>17. UNCHANGED <<doc, ref, sess, view>>
  BY <1>1 DEF server
<1>18. QED
  BY <1>1, <1>8, <1>10, <1>15, <1>16, <1>17, HandledMatched

LEMMA MoveHandledGhosts ==
  ASSUME PageInv, Matched, NEW s \in Slots, MoveAnswered(s), Whole', view' = view
  PROVE  Matched'
<1> USE DEF PageInv
<1> DEFINE at == call[s].at
           other == IF call[s].kind = "up" THEN Previous(page, at) ELSE Following(page, at)
<1>1. /\ call'[s] = Free /\ \A o \in Slots : o # s => call'[o] = call[o]
      /\ UNCHANGED server
  BY HandledRequest DEF Handles
<1>2. other # Nothing /\ page' = Exchange(page, Place(at, page), Place(other, page)) /\ id' = id
  BY DEF MoveAnswered, Throws, Shows, Whole
<1>3. call[s].kind \in {"up", "down"}
  BY DEF MoveAnswered, Succeeded
<1>4. PICK S : S = Made \cup {Placeholder}
  OBVIOUS
<1>5. page \in Seq(S) /\ Apart(page)
  BY <1>4 DEF TypeInv, PageShape, Matched
<1>6. at \in ToSet(page) /\ other \in ToSet(page)
  <2>1. at \in ToSet(page)
    BY <1>2 DEF Previous, Following
  <2>2. QED
    BY <1>2, <1>5, <2>1, Neighbours
<1>7. PICK i \in DOMAIN page : i = Place(at, page)
  BY <1>6, Placed
<1>8. PICK j \in DOMAIN page : j = Place(other, page)
  BY <1>6, Placed
<1> HIDE DEF at, other
<1>9. page' = Exchange(page, i, j)
  BY <1>2, <1>7, <1>8
<1>10. ToSet(page') = ToSet(page) /\ Apart(page')
  BY <1>5, <1>9, ExchangedElements
<1>11. \A o \in Slots : Pending(o)' => Pending(o) /\ New(o)' = New(o)
  BY <1>1, FreeFields DEF Pending, New
<1>12. Ghosts' \subseteq Ghosts
  BY <1>1, <1>10, <1>11 DEF Ghosts, Coming, server
<1>13. Removing' = Removing
  BY <1>1, <1>3, FreeFields DEF Removing
<1>14. ExistsInjection(Ghosts', Removing')
  BY <1>12, <1>13, MatchFewer DEF Matched
<1>15. /\ UNCHANGED <<doc, ref, sess, view>>
       /\ \A e \in ToSet(page') : e \in ToSet(doc) => id'[e] = ref[e]
       /\ \A e \in ToSet(page') : e \in ToSet(page) \cup {Placeholder} \/ (Pending(s) /\ e = New(s))
  BY <1>1, <1>2, <1>10 DEF server, Matched
<1>16. QED
  BY <1>1, <1>10, <1>14, <1>15, HandledMatched

LEMMA HandleGhosts ==
  ASSUME PageInv, GhostInv, NEW s \in Slots, Handles(s)
  PROVE  GhostInv'
<1> SUFFICES ASSUME Whole', NoFormServed' PROVE Matched'
  BY DEF GhostInv
<1>1. /\ Whole /\ Matched /\ call[s] # Free /\ view' = view
      /\ call[s].kind \in Changes => call[s].at \notin {Nothing, Detached}
      /\ call[s].state = "cut" => call[s].kind = "remove"
  BY MatchedBefore
<1>2. CASE AddAnswered(s)
  BY <1>1, <1>2, AddHandledGhosts
<1>3. CASE RemoveAnswered(s) \/ LastRemoved(s)
  <2>1. call[s].kind \in Changes
    BY HandledRequest DEF PageInv
  <2>2. QED
    BY <1>1, <1>3, <2>1, RemoveHandledGhosts
<1>4. CASE MoveAnswered(s)
  BY <1>1, <1>4, MoveHandledGhosts
<1>5. CASE AddCut(s)
  BY <1>1, <1>5 DEF AddCut
<1>6. CASE ChangeFailed(s)
  <2>1. /\ call'[s] = Free /\ \A o \in Slots : o # s => call'[o] = call[o]
        /\ UNCHANGED server /\ UNCHANGED <<page, id>> /\ call[s].state # "ok"
    BY <1>6, HandledRequest DEF Handles, PageInv, ChangeFailed, Failed
  <2>2. UNCHANGED <<doc, ref, page, id>> /\ (sess' = "bare" => view' = "closed")
    BY <1>1, <2>1 DEF server, Matched
  <2>3. QED
    BY <1>1, <2>1, <2>2, FreeFields, StillMatched
<1>7. QED
  BY <1>2, <1>3, <1>4, <1>5, <1>6 DEF Handles

LEMMA FormGhosts ==
  ASSUME PageInv, GhostInv, NEW s \in Slots, SaveAnswered(s) \/ SaveCut(s) \/ FinishAnswered(s) \/ SaveFailed(s)
  PROVE  GhostInv'
<1> USE DEF PageInv
<1> SUFFICES ASSUME Whole', NoFormServed' PROVE Matched'
  BY DEF GhostInv
<1>1. call[s].kind \in Forms /\ call[s] # Free
  BY KindsApart DEF SaveAnswered, SaveCut, FinishAnswered, SaveFailed, Forms, Leaving
<1>2. ASSUME Busy = {s}, \E at \in {Nothing, Detached} : call' = Others(s, at)
      PROVE  \A o \in Slots : call'[o] = Free
  BY <1>2, OthersSent DEF Busy
<1>3. CASE SaveAnswered(s)
  <2>1. call[s].alone /\ call[s].state = "ok" /\ call[s].kind \notin Leaving
    BY <1>3 DEF SaveAnswered, Whole, Leaving
  <2>2. Busy = {s} /\ sess = "whole" /\ doc = call[s].list /\ ref = Numbered(doc)
    BY <1>1, <2>1 DEF RequestsInv, FormsInv
  <2>3. UNCHANGED <<doc, ref, sess, simple, min>> /\ page' = Layout(doc) /\ id' = Numbered(doc) /\ ctl' = Dressed(doc)
    BY <1>3, <2>2 DEF SaveAnswered
  <2>4. Fresh'
    BY <2>2, <2>3 DEF Fresh, Layout, Dressed, FirstControls, Numbered
  <2>5. DocShape' /\ sess' # "bare"
    BY <1>3, <2>2, <2>3, FormAnsweredTypes DEF TypeInv
  <2>6. \A o \in Slots : call'[o] = Free
    BY <1>2, <1>3, <2>2 DEF SaveAnswered
  <2>7. QED
    BY <2>4, <2>5, <2>6, FreshMatchedNext
<1>4. CASE SaveCut(s)
  <2>1. hit' = hit /\ call[s].state = "cut" /\ call[s].kind # "remove"
    BY <1>4 DEF SaveCut
  <2>2. QED
    BY <2>1 DEF RequestsInv, Whole
<1>5. CASE FinishAnswered(s)
  <2>1. call[s].alone /\ page' = <<>> /\ view' = "closed"
    BY <1>5 DEF FinishAnswered, Whole
  <2>2. \A o \in Slots : call'[o] = Free
    BY <1>1, <1>2, <1>5, <2>1 DEF FinishAnswered, RequestsInv
  <2>3. \A o \in Slots : ~Pending(o)' /\ ~Sent(o, {"remove"})'
    BY <2>2, FreeFields DEF Pending, Sent
  <2>4. Removing' = {} /\ ToSet(page') = {}
    BY <2>1, <2>2, FreeFields DEF Removing, ToSet
  <2>5. Ghosts' = {}
    BY <2>3, <2>4 DEF Ghosts, Coming
  <2>6. ExistsInjection(Ghosts', Removing')
    BY <2>5, NothingToMatch
  <2>7. Apart(page)'
    BY <2>1 DEF Apart
  <2>8. QED
    BY <2>1, <2>3, <2>4, <2>6, <2>7 DEF Matched, ExistsInjection, Injection, IsInjective
<1>6. CASE SaveFailed(s)
  <2>1. /\ hit' = hit /\ call[s].state = "failed" /\ call'[s] = Free /\ \A o \in Slots : o # s => call'[o] = call[o]
        /\ UNCHANGED server /\ UNCHANGED <<page, id>>
    BY <1>6 DEF SaveFailed, TypeInv, CallShape
  <2>2. view = "overlay" /\ NoFormServed
    BY <1>1, <2>1 DEF RequestsInv, NoFormServed
  <2>3. Matched
    BY <2>1, <2>2 DEF GhostInv, Whole
  <2>4. UNCHANGED <<doc, ref, page, id>> /\ sess' # "bare"
    BY <2>1, <2>2, <2>3 DEF server, Matched
  <2>5. QED
    BY <2>1, <2>3, <2>4, FreeFields, StillMatched
<1>7. QED
  BY <1>3, <1>4, <1>5, <1>6

LEMMA OpenGhosts ==
  ASSUME PageInv, Open
  PROVE  GhostInv'
<1> USE DEF PageInv
<1> SUFFICES ASSUME Whole' PROVE Matched'
  BY DEF GhostInv
<1>1. /\ Busy = {}
      /\ call' = [s \in Slots |-> IF call[s].state # "sent" THEN Free ELSE Without(call[s], Nothing)]
      /\ doc' = row /\ ref' = Numbered(row) /\ sess' = "whole"
      /\ page' = Layout(row) /\ id' = Numbered(row) /\ ctl' = Dressed(row)
      /\ UNCHANGED <<simple, min>>
  BY DEF Open, Whole
<1>2. \A o \in Slots : call'[o] = Free
  BY <1>1, FreeFields DEF Busy
<1>3. Fresh'
  BY <1>1 DEF Fresh, Layout, Dressed, FirstControls, Numbered
<1>4. DocShape'
  BY OpenTypes DEF TypeInv
<1>5. QED
  BY <1>1, <1>2, <1>3, <1>4, FreshMatchedNext

LEMMA InitGhosts == Init => GhostInv
<1> SUFFICES ASSUME Init PROVE Matched
  BY DEF GhostInv
<1>1. DocShape
  BY InitTypes DEF TypeInv
<1>2. doc # <<>> /\ sess # "bare" /\ \A s \in Slots : call[s] = Free
  BY DEF Init
<1>3. Fresh
  BY <1>2 DEF Init, Fresh, Layout
<1>4. QED
  BY <1>1, <1>2, <1>3, FreshMatched

LEMMA NextGhosts == PageInv /\ GhostInv /\ [Next]_vars => GhostInv'
<1> SUFFICES ASSUME PageInv, GhostInv, [Next]_vars PROVE GhostInv'
  OBVIOUS
<1>1. CASE Open
  BY <1>1, OpenGhosts
<1>2. ASSUME NEW s \in Slots, Click(s) \/ Serve(s) \/ Answer(s) PROVE GhostInv'
  <2>1. CASE Unheard(s)
    BY <2>1, UnheardRequests DEF PageInv, GhostInv, Whole
  <2>2. CASE Answer(s) /\ ~Unheard(s)
    BY <2>2, HandleGhosts, FormGhosts DEF Answer, Handles
  <2>3. QED
    BY <1>2, <2>1, <2>2, ClickGhosts, ServeGhosts
<1>3. CASE UNCHANGED vars
  <2>1. UNCHANGED <<doc, ref, sess, page, id, view, call, hit>>
    BY <1>3 DEF vars, server, browser
  <2>2. Whole' = Whole /\ NoFormServed' = NoFormServed
    BY <2>1 DEF Whole, NoFormServed
  <2>3. Matched => Matched'
    BY <2>1, StillMatched DEF Matched
  <2>4. QED
    BY <2>2, <2>3 DEF GhostInv
<1>4. QED
  BY <1>1, <1>2, <1>3 DEF Next

(* However requests and answers overtake each other, a page that is at     *)
(* rest keeps no element that the document has not: its fields would make  *)
(* EditLib.findElement fail in every save.                                 *)
THEOREM NoGhostStays == Spec => []NoGhost
<1>1. GhostInv => NoGhost
  <2> SUFFICES ASSUME GhostInv, Quiet, Whole PROVE \A e \in ToSet(page) \ {Placeholder} : e \in ToSet(doc) /\ id[e] = ref[e]
    BY DEF NoGhost, Whole
  <2>1. \A s \in Slots : call[s] = Free
    BY DEF Quiet, Busy
  <2>2. NoFormServed /\ Removing = {}
    BY <2>1, FreeFields DEF NoFormServed, Removing
  <2>3. Matched
    BY <2>2 DEF GhostInv
  <2>4. Ghosts = {}
    BY <2>2, <2>3 DEF Matched, ExistsInjection, Injection
  <2>5. QED
    BY <2>3, <2>4 DEF Ghosts, Coming, Matched
<1>2. QED
  BY <1>1, InitPage, NextPage, InitGhosts, NextGhosts, PTL DEF Spec
===============================================================================
