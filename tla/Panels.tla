------------------------------- MODULE Panels -------------------------------
(***************************************************************************)
(* The side panels of Framework7 that cover the page, opened and closed by *)
(* calls and links and dragged by a finger from one side (framework7.js,   *)
(* "Panels", "Swipe panels").  A panel moves by a CSS transition, whose    *)
(* end runs the listeners that openPanel and closePanel left on it.        *)
(***************************************************************************)
EXTENDS Integers, Sequences, FiniteSets

CONSTANTS
    Panel,   \* "left", "right"
    Swiped,  \* app.params.swipePanel
    Width    \* of a panel, in steps of the finger

PanelsAssumption == Swiped \in Panel /\ "nobody" \notin Panel /\ Width \in Nat

VARIABLES
    active,   \* panels of class active
    shown,    \* panels displayed by their own style
    pos,      \* how far each panel has come in
    closing,  \* class panel-closing of the body
    allow,    \* app.allowPanelOpen
    ends,     \* listeners on each panel that wait for the end of a transition
    finger,   \* nobody, or the panel it drags and what was seen at its start
    rushed    \* history: a panel was opened while it was still sliding back

panelVars == <<active, shown, pos, closing, allow, ends, finger, rushed>>

Nobody == [on |-> "nobody", opened |-> FALSE, moved |-> FALSE]
Dragged(p) == finger.on = p /\ finger.moved
Goal(p) == IF p \in active THEN Width ELSE 0
Slides(p) == ~Dragged(p) /\ pos[p] # Goal(p)

Init ==
    /\ active = {} /\ shown = {} /\ pos = [p \in Panel |-> 0] /\ closing = FALSE
    /\ allow = TRUE /\ ends = [p \in Panel |-> {}] /\ finger = Nobody /\ rushed = FALSE

-----------------------------------------------------------------------------
(* openPanel and closePanel, on what they read and write.                  *)

S == [active |-> active, shown |-> shown, closing |-> closing, allow |-> allow, ends |-> ends]
Become(s) == /\ active' = s.active /\ shown' = s.shown /\ closing' = s.closing
             /\ allow' = s.allow /\ ends' = s.ends

ClosePanel(s) ==
    IF s.active = {} THEN s
    ELSE LET p == CHOOSE q \in s.active : TRUE
         IN  [s EXCEPT !.active = @ \ {p}, !.allow = FALSE, !.closing = TRUE, !.ends[p] = @ \cup {"close"}]

OpenPanel(s, p) ==
    IF ~s.allow \/ p \in s.active THEN s
    ELSE LET closed == ClosePanel(s)
         IN  [closed EXCEPT !.active = @ \cup {p}, !.shown = @ \cup {p}, !.allow = FALSE,
                            !.ends[p] = @ \cup {"open"}]

\* A call comes when what was opened or closed before has begun to move.
Open(p) ==
    /\ finger = Nobody
    /\ \A q \in Panel : IF q \in active THEN pos[q] > 0 ELSE pos[q] < Width
    /\ Become(OpenPanel(S, p))
    /\ rushed' = (rushed \/ (allow /\ "reset" \in ends[p]))
    /\ UNCHANGED <<pos, finger>>

\* The overlay over the page, or a link, once the panel is coming in.
Close ==
    /\ finger = Nobody
    /\ \E q \in active : pos[q] > 0
    /\ Become(ClosePanel(S))
    /\ UNCHANGED <<pos, finger, rushed>>

Slide(p) ==
    /\ LET next == IF p \in active THEN pos[p] + 1 ELSE pos[p] - 1
       IN  Slides(p) /\ next # Goal(p) /\ pos' = [pos EXCEPT ![p] = next]
    /\ UNCHANGED <<active, shown, closing, allow, ends, finger, rushed>>

\* The listener of closePanel does nothing for a panel that was opened again;
\* those of openPanel and of a swipe that was given up do not look.
FiresEarly(p, e) == TRUE  \* mutant
Fires(p, e) == e = "close" => p \notin active

\* The end of a transition runs every listener of the panel and drops them.
TransitionEnd(p) ==
    /\ Slides(p)
    /\ pos' = [pos EXCEPT ![p] = Goal(p)]
    /\ ends' = [ends EXCEPT ![p] = {}]
    /\ LET fired == {e \in ends[p] : Fires(p, e)}
       IN  /\ allow' = (allow \/ fired # {})
           /\ shown' = IF fired \cap {"close", "reset"} # {} THEN shown \ {p} ELSE shown
           /\ closing' = (closing /\ fired \cap {"close", "reset"} = {})
    /\ UNCHANGED <<active, finger, rushed>>

-----------------------------------------------------------------------------
(* The finger.  It drags the open panel, or the one of app.params.swipePanel. *)

TouchStart ==
    /\ finger = Nobody /\ allow
    /\ LET p == IF active = {} THEN Swiped ELSE CHOOSE q \in active : TRUE
       IN  /\ finger' = [on |-> p, opened |-> p \in active, moved |-> FALSE]
           /\ rushed' = (rushed \/ "reset" \in ends[p])
    /\ UNCHANGED <<active, shown, pos, closing, allow, ends>>

\* A move along the page, or away from a closed panel, lets go; otherwise the
\* panel follows.
TouchMove ==
    /\ finger # Nobody
    /\ UNCHANGED <<active, closing, allow, ends, rushed>>
    /\ \/ ~finger.moved /\ finger' = Nobody /\ UNCHANGED <<shown, pos>>
       \/ \E x \in 0..Width :
              /\ finger' = [finger EXCEPT !.moved = TRUE]
              /\ shown' = IF finger.opened THEN shown ELSE shown \cup {finger.on}
              /\ pos' = [pos EXCEPT ![finger.on] = x]

\* Released quickly, or past the half, the panel goes to the other side.
Swaps(x, quick) ==
    IF finger.opened THEN x # Width /\ (quick \/ 2 * x <= Width)
    ELSE x # 0 /\ (quick \/ 2 * x >= Width)

\* What is already at its place has no transition to wait for.
UnlocksNot(s, edge) == s  \* mutant
Unlocks(s, edge) == IF edge THEN [s EXCEPT !.allow = TRUE] ELSE s

Swap(p, edge) ==
    IF finger.opened
    THEN LET s == ClosePanel([S EXCEPT !.allow = TRUE])
         IN  Unlocks(IF edge THEN [s EXCEPT !.shown = @ \ {p}, !.closing = FALSE] ELSE s, edge)
    ELSE Unlocks(OpenPanel([S EXCEPT !.allow = TRUE], p), edge)

Reset(p, edge) ==
    IF finger.opened THEN OpenPanel([S EXCEPT !.allow = TRUE], p)
    ELSE LET s == ClosePanel(S)
         IN  IF edge THEN [s EXCEPT !.allow = TRUE, !.shown = @ \ {p}]
             ELSE [s EXCEPT !.closing = TRUE, !.ends[p] = @ \cup {"reset"}]

TouchEnd(quick) ==
    /\ finger # Nobody /\ finger' = Nobody
    /\ UNCHANGED <<pos, rushed>>
    /\ IF ~finger.moved THEN Become(S)
       ELSE LET p == finger.on
                edge == pos[p] \in {0, Width}
            IN  Become(IF Swaps(pos[p], quick) THEN Swap(p, edge) ELSE Reset(p, edge))

Next ==
    \/ \E p \in Panel : Open(p) \/ Slide(p) \/ TransitionEnd(p)
    \/ Close \/ TouchStart \/ TouchMove
    \/ \E quick \in BOOLEAN : TouchEnd(quick)

Fairness == \A p \in Panel : WF_panelVars(TransitionEnd(p))

Spec == Init /\ [][Next]_panelVars /\ Fairness

-----------------------------------------------------------------------------
\* At rest what is active, and nothing else, is displayed in its place, and
\* the body no longer says that a panel closes - unless a panel was opened
\* or grasped while it slid back from a swipe that was given up: the listener
\* of that one hides it.
RestingPanels ==
    finger = Nobody /\ (\A p \in Panel : ~Slides(p)) /\ ~rushed =>
        shown = active /\ (active = {} => ~closing)

\* The lock of openPanel and closePanel is released: what they locked ends, or
\* had nothing to wait for.
PanelsUnlocked == ~allow ~> allow
=============================================================================
