------------------------------- MODULE Modals -------------------------------
(***************************************************************************)
(* Everything that opens above the page in Framework7: dialogs (alert,     *)
(* confirm, prompt, preloader), action sheets, popovers, popups, pickers   *)
(* and login screens; the overlays they share; the stack of dialogs that   *)
(* wait for each other (framework7.js, "Modals").  Transitions end in      *)
(* their own time.                                                         *)
(***************************************************************************)
EXTENDS Naturals, Sequences, SequencesExt, FiniteSets

CONSTANTS
    Dialog,    \* elements of class modal, created by app.modal
    Sheet,     \* action sheets
    Popover, Popup, Picker, Login,   \* elements that are in the document all along
    MaxBusy    \* bound: elements that are open, wait, or are still in transition

Element == Dialog \cup Sheet \cup Popover \cup Popup \cup Picker \cup Login

\* Elements are of one kind each.
ModalsAssumption ==
    /\ Dialog \cap (Sheet \cup Popover \cup Popup \cup Picker \cup Login) = {}
    /\ Sheet \cap (Popover \cup Popup \cup Picker \cup Login) = {}
    /\ Popover \cap (Popup \cup Picker \cup Login) = {}
    /\ Popup \cap (Picker \cup Login) = {}

VARIABLES
    el,       \* [dom, cls, flag, seen, ends, again] of each element
    overlay,  \* the overlays that are visible: of popups, of the others
    stack     \* app.modalStack: dialogs that wait

vars == <<el, overlay, stack>>

\* flag is its data f7-modal-shown; seen: it is displayed; ends: the
\* listeners, of openModal and of closeModal, that wait for a transition to end.
\* History again: it was opened while it was still closing.
Absent == [dom |-> FALSE, cls |-> "", flag |-> FALSE, seen |-> FALSE, ends |-> {}, again |-> FALSE]
Hidden == [Absent EXCEPT !.dom = TRUE]

Init ==
    /\ el = [m \in Element |-> IF m \in Dialog \cup Sheet THEN Absent ELSE Hidden]
    /\ overlay = {} /\ stack = <<>>

-----------------------------------------------------------------------------
(* openModal and closeModal, on a state s of elements, overlays and stack. *)

S == [el |-> el, overlay |-> overlay, stack |-> stack]
Become(s) == el' = s.el /\ overlay' = s.overlay /\ stack' = s.stack

Opened(e) ==
    [e EXCEPT !.flag = TRUE, !.seen = TRUE, !.cls = "in", !.ends = @ \cup {"open"},
              !.again = "close" \in e.ends]
Closed(e) == [e EXCEPT !.flag = FALSE, !.cls = "out", !.ends = @ \cup {"close"}, !.again = FALSE]

OverlayOf(m) ==
    IF m \in Popup THEN {"popup"} ELSE IF m \in Login \cup Picker THEN {} ELSE {"modal"}

Waits(s, m) == m \in Dialog /\ \E d \in Dialog : s.el[d].cls = "in"

OpenModal(s, m) ==
    IF Waits(s, m) THEN [s EXCEPT !.stack = Append(@, m)]
    ELSE IF s.el[m].flag THEN s
    ELSE [s EXCEPT !.el[m] = Opened(@), !.overlay = @ \cup OverlayOf(m)]

ModalStackClearQueue(s) ==
    IF s.stack = <<>> THEN s ELSE OpenModal([s EXCEPT !.stack = Tail(@)], Head(s.stack))

\* The overlay of popups stays while another popup is open; anything else
\* takes the common one away.
UncoversLate(s, m) ==  \* mutant
    IF m \in Popup THEN (IF \E p \in Popup : s.el[p].cls = "in" THEN {} ELSE {"popup"}) ELSE {"modal"}
Uncovers(s, m) ==
    IF m \notin Popup THEN {"modal"}
    ELSE IF \E p \in Popup : {q \in Popup : s.el[q].cls = "in"} = {p} THEN {"popup"} ELSE {}

CloseModal(s, m) ==
    LET out == [s EXCEPT !.el[m] = Closed(@), !.overlay = @ \ Uncovers(s, m)]
    IN  CASE m \in Popover -> [s EXCEPT !.el[m] = Hidden, !.overlay = @ \ Uncovers(s, m)]
          [] m \in Dialog -> ModalStackClearQueue(out)
          [] OTHER -> out

-----------------------------------------------------------------------------
Busy == {m \in Element : el[m] \notin {Absent, Hidden} \/ m \in ToSet(stack)}
Room(m) == m \in Busy \/ Cardinality(Busy) < MaxBusy

\* A new element at the end of the document, opened or put in the stack.
Created(m) ==
    /\ ~el[m].dom /\ Room(m)
    /\ Become(OpenModal([S EXCEPT !.el[m] = Hidden], m))

\* app.alert, confirm, prompt, modalLogin, modalPassword, showPreloader.
New(m) == m \in Dialog /\ Created(m)

\* app.actions, where it is not shown as a popover.
Actions(m) == m \in Sheet /\ Created(m)

\* app.popover, popup, pickerModal, loginScreen: the element is shown, then opened.
Show(m) ==
    /\ Room(m)
    /\ Become(OpenModal([S EXCEPT !.el[m].seen = TRUE], m))

\* A button of a dialog or sheet, which can be hit again while it disappears.
Tap(m) ==
    /\ el[m].dom /\ el[m].seen
    /\ Become(CloseModal(S, m))

\* hidePreloader, the links close-popup and the like, a tap on the overlay.
Close(m) ==
    /\ el[m].cls = "in"
    /\ Become(CloseModal(S, m))

AfterEnds(m) ==
    IF "close" \notin el[m].ends THEN [el[m] EXCEPT !.ends = {}]
    ELSE IF m \in Dialog \cup Sheet THEN Absent
    ELSE [el[m] EXCEPT !.ends = {}, !.seen = FALSE, !.cls = IF @ = "out" THEN "" ELSE @]

TransitionEnd(m) ==
    /\ el[m].ends # {}
    /\ el' = [el EXCEPT ![m] = AfterEnds(m)]
    /\ UNCHANGED <<overlay, stack>>

Next == \E m \in Element :
    \/ New(m) \/ Actions(m)
    \/ m \in Dialog \cup Sheet /\ Tap(m)
    \/ m \notin Dialog \cup Sheet /\ (Show(m) \/ Close(m))
    \/ TransitionEnd(m)

\* Transitions end.
Spec == Init /\ [][Next]_vars /\ \A m \in Element : WF_vars(TransitionEnd(m))

-----------------------------------------------------------------------------
\* A visible overlay belongs to something open above it, whatever is opened and
\* closed meanwhile, and the overlay of popups stays as long as one is open.
\* (The common one goes with whatever else closes: a picker uncovers a dialog.)
NoOrphanOverlay ==
    /\ \A o \in overlay : \E m \in Element : el[m].cls = "in" /\ o \in OverlayOf(m)
    /\ \A m \in Popup : el[m].cls = "in" => "popup" \in overlay

\* What is open is displayed, unless it was opened while it was still closing:
\* closing then hides it at the end of its transition, and the overlay stays
\* although "do nothing if this modal already shown" (framework7.js:3579) finds
\* the mark of what is shown.
OpenIsDisplayed == \A m \in Element : el[m].cls = "in" => el[m].seen \/ el[m].again

\* Dialogs never cover each other, whoever opens and closes them in whatever
\* order; each one waits in the stack at most once, not when it is open, and
\* only as long as another is open.
OneDialog ==
    /\ \A c, d \in Dialog : el[c].cls = "in" /\ el[d].cls = "in" => c = d
    /\ \A i, j \in DOMAIN stack : stack[i] = stack[j] => i = j
    /\ \A m \in ToSet(stack) : el[m] = Hidden
    /\ stack # <<>> => \E d \in Dialog : el[d].cls = "in"
=============================================================================
