--------------------------- MODULE BootstrapModal ---------------------------
(***************************************************************************)
(* Bootstrap's modals (bootstrap.js) on one page: they fade in and out,    *)
(* each with a backdrop of its own, and share the body, whose scrollbar    *)
(* they take away, and the document, which keeps the focus inside of one.  *)
(***************************************************************************)
EXTENDS Integers, FiniteSets

CONSTANTS
    NULL,
    Modal,
    Backed,      \* modals with the option backdrop
    MaxBackdrops, MaxPad \* bounds: backdrops on the page, its padding

ModalsAssumption ==
    /\ Backed \subseteq Modal /\ NULL \notin Modal
    /\ MaxBackdrops \in Nat /\ NULL \notin 1..MaxBackdrops /\ MaxPad \in Nat

VARIABLES
    isShown, backdrop, originalBodyPad, \* of a modal; backdrop is a number or NULL
    displayed, hiding,  \* its element: displayed; hideModal waits for its transition
    backdrops,          \* in the document
    waits,              \* external: who waits for a backdrop, [on, kind, modal]
    modalOpen, pad,     \* the body: class modal-open, padding of a scrollbar's width
    focus,              \* the modal that enforces the focus
    odd                 \* history: modals shown again while they were hiding, "stacked"

Wait == [on : 1..MaxBackdrops, kind : {"show", "hidden", "remove"}, modal : Modal]

modalVars == <<isShown, backdrop, originalBodyPad, displayed, hiding, backdrops, waits,
               modalOpen, pad, focus, odd>>

Page == [isShown |-> isShown, backdrop |-> backdrop, originalBodyPad |-> originalBodyPad,
         displayed |-> displayed, hiding |-> hiding, backdrops |-> backdrops, waits |-> waits,
         modalOpen |-> modalOpen, pad |-> pad, focus |-> focus]
Become(state) == \E p \in {state} :
    /\ isShown' = p.isShown /\ backdrop' = p.backdrop /\ originalBodyPad' = p.originalBodyPad
    /\ displayed' = p.displayed /\ hiding' = p.hiding /\ backdrops' = p.backdrops
    /\ waits' = p.waits /\ modalOpen' = p.modalOpen /\ pad' = p.pad /\ focus' = p.focus

-----------------------------------------------------------------------------
Free == (1..MaxBackdrops) \ backdrops

\* What follows the backdrop, when a modal is shown and when it was hidden.
Opened(p, m) == [p EXCEPT !.displayed[m] = TRUE, !.focus = m]
Closed(p, m) == [p EXCEPT !.modalOpen = FALSE, !.pad = p.originalBodyPad[m]]
RemoveBackdrop(p, m) ==
    LET b == p.backdrop[m]
    IN  [p EXCEPT !.backdrops = @ \ {b}, !.waits = {w \in @ : w.on # b}, !.backdrop[m] = NULL]

NewBackdrop(p, m, kind) ==
    LET b == CHOOSE n \in Free : TRUE
    IN  [p EXCEPT !.backdrop[m] = b, !.backdrops = @ \cup {b},
                  !.waits = @ \cup {[on |-> b, kind |-> kind, modal |-> m]}]

\* A body that is already open has no scrollbar any more.
SetScrollbar(p, m) ==
    [p EXCEPT !.originalBodyPad[m] = p.pad, !.pad = IF p.modalOpen THEN @ ELSE @ + 1]

HideModalLate(p, m) ==  \* mutant
    LET h == [p EXCEPT !.hiding[m] = FALSE]
    IN  IF p.backdrop[m] # NULL
        THEN [h EXCEPT !.waits = @ \cup {[on |-> p.backdrop[m], kind |-> "remove", modal |-> m]}]
        ELSE Closed(h, m)
HideModal(p, m) ==
    LET h == [p EXCEPT !.hiding[m] = FALSE, !.displayed[m] = FALSE]
    IN  CASE p.isShown[m] /\ m \in Backed -> NewBackdrop(h, m, "hidden")
          [] ~p.isShown[m] /\ p.backdrop[m] # NULL ->
                [h EXCEPT !.waits = @ \cup {[on |-> p.backdrop[m], kind |-> "remove", modal |-> m]}]
          [] OTHER -> Closed(h, m)

-----------------------------------------------------------------------------
Init ==
    /\ isShown = [m \in Modal |-> FALSE] /\ backdrop = [m \in Modal |-> NULL]
    /\ originalBodyPad = [m \in Modal |-> 0] /\ displayed = isShown /\ hiding = isShown
    /\ backdrops = {} /\ waits = {} /\ modalOpen = FALSE /\ pad = 0 /\ focus = NULL /\ odd = {}

Settled(m) == ~hiding[m] /\ \A w \in waits : w.modal # m
Quiet(m) == ~isShown[m] /\ Settled(m)

Show(m) ==
    /\ ~isShown[m] /\ Free # {} /\ pad < MaxPad
    /\ LET p == [SetScrollbar(Page, m) EXCEPT !.isShown[m] = TRUE, !.modalOpen = TRUE]
       IN  Become(IF m \in Backed THEN NewBackdrop(p, m, "show") ELSE Opened(p, m))
    /\ odd' = odd \cup (IF Settled(m) THEN {} ELSE {m})
                  \cup (IF \A o \in Modal \ {m} : Quiet(o) THEN {} ELSE {"stacked"})

Hide(m) ==
    /\ isShown[m]
    /\ Become([Page EXCEPT !.isShown[m] = FALSE, !.hiding[m] = TRUE, !.focus = NULL])
    /\ UNCHANGED odd

\* The end of the modal's transition; its backdrop, shown before, is done by then.
HideEnds(m) ==
    /\ hiding[m] /\ (isShown[m] => Free # {})
    /\ isShown[m] \/ ~\E w \in waits : w.modal = m /\ w.kind = "show"
    /\ Become(HideModal(Page, m)) /\ UNCHANGED odd

BackdropEnds(w) ==
    LET p == [Page EXCEPT !.waits = @ \ {w}]
    IN  /\ w \in waits
        /\ Become(CASE w.kind = "show" -> Opened(p, w.modal)
                    [] w.kind = "hidden" -> Closed(p, w.modal)
                    [] w.kind = "remove" -> Closed(RemoveBackdrop(p, w.modal), w.modal))
        /\ UNCHANGED odd

Next ==
    \/ \E m \in Modal : Show(m) \/ Hide(m) \/ HideEnds(m)
    \/ \E w \in Wait : BackdropEnds(w)

Spec ==
    /\ Init /\ [][Next]_modalVars
    /\ \A m \in Modal : WF_modalVars(HideEnds(m))
    /\ \A m \in Modal : WF_modalVars(\E w \in Wait : w.modal = m /\ BackdropEnds(w))

-----------------------------------------------------------------------------
\* A modal hidden while it was still being shown goes with its backdrop,
\* unless it was shown again before it had gone.
HiddenIsGone ==
    \A m \in Modal : Quiet(m) /\ m \notin odd => ~displayed[m] /\ backdrop[m] = NULL

\* When all modals have gone the page scrolls as before, unless they were
\* stacked or shown again while hiding.
BodyRestored == (\A m \in Modal : Quiet(m)) /\ odd = {} => ~modalOpen /\ pad = 0

\* A modal that is shown, and stays so, appears at last, whatever the others
\* do, unless it was still hiding when it was told.
ShownAppears == \A m \in Modal : isShown[m] ~> (displayed[m] \/ ~isShown[m] \/ m \in odd)
=============================================================================
