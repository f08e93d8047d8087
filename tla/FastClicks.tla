----------------------------- MODULE FastClicks -----------------------------
(***************************************************************************)
(* Fast clicks of framework7.js: a touch that ends where it began is made  *)
(* into a click at once, and the click the browser sends later is kept     *)
(* back; a touch that stays is a hold; meanwhile the element is marked     *)
(* active and shows a ripple. One finger. The browser (external) sends its *)
(* own click after a touch that did not move and that nobody prevented.    *)
(***************************************************************************)
EXTENDS Integers, FiniteSets

CONSTANTS
    NULL,
    Setting,     \* records [os, hold, material]: the device, the options
    Elem, Skip,  \* elements; those with the class no-fastclick
    Field,       \* inputs
    InScroll,    \* elements inside a view that scrolls
    Rippled      \* elements with a ripple

ClickAssumption ==
    /\ \A s \in Setting : {s.hold, s.material} \subseteq BOOLEAN
    /\ NULL \notin Elem \cup {"hold", "reset"}

VARIABLES
    opt,
    finger,      \* the element that is touched, NULL for none
    moved,       \* the finger moved
    quick,       \* the touch began right after the last click
    clicked,     \* there was a click: lastClickTime
    trackClick, targetElement, needsFastClick, activeSelection, isMoved, tapHoldFired,
    activable, active,  \* the element of the touch; those with the class active-state
    activeTO, removes,  \* the timeout to add the class; one to take it away
    needsTO,     \* timeouts that end needsFastClick: "own", still known, "stray"
    holdTO, strays,     \* what tapHoldTimeout runs for, "hold" or "reset"; forgotten ones
    native,      \* the element of a click that the browser will send
    focus,       \* document.activeElement, NULL for the body
    rippleTarget, rippleTO, wave,  \* wave: rippleWave is one that is shown
    waveRemove, orphan, \* a timeout for removeRipple; a wave nobody will remove
    tap,         \* history: how the last touch ended: in place ("tapped"), after
                 \* a hold ("held"), or otherwise ("none")
    got,         \* history: clicks the page got since that touch began
    odd          \* history: an oddity of the code occurred, see README

clickVars == <<trackClick, targetElement, needsFastClick, isMoved, tapHoldFired>>
markVars == <<activable, active, activeTO, removes>>
rippleVars == <<rippleTarget, rippleTO, wave, waveRemove, orphan>>
timerVars == <<needsTO, holdTO, strays>>
otherVars == <<opt, moved, quick, clicked, activeSelection, native, focus, tap, got, odd>>
fastVars == <<finger, clickVars, markVars, rippleVars, timerVars, otherVars>>

-----------------------------------------------------------------------------
TargetNeedsFastClick(e) == e \notin Skip
TargetNeedsFocus(e) == e \in Field
IsInsideScrollableView(e) == e \in InScroll
FindRippleElement(e) == IF e \in Rippled THEN e ELSE NULL

\* The ripple. removeRipple lets the wave fade; createRipple forgets another.
R == [target |-> rippleTarget, to |-> rippleTO, wave |-> wave, remove |-> waveRemove, orphan |-> orphan]
BecomeRipple(r) ==
    /\ rippleTarget' = r.target /\ rippleTO' = r.to /\ wave' = r.wave
    /\ waveRemove' = r.remove /\ orphan' = r.orphan
RemoveRipple(r) == IF r.wave THEN [r EXCEPT !.wave = FALSE, !.target = NULL] ELSE r
CreateRipple(r) == [r EXCEPT !.wave = TRUE, !.orphan = @ \/ r.wave]
RippleStart(r, e) ==
    IF ~opt.material THEN r
    ELSE IF FindRippleElement(e) = NULL THEN [r EXCEPT !.target = NULL]
    ELSE IF IsInsideScrollableView(e) THEN [r EXCEPT !.target = e, !.to = TRUE]
    ELSE CreateRipple([r EXCEPT !.target = e])
RippleMove(r) == IF opt.material THEN RemoveRipple([r EXCEPT !.to = FALSE]) ELSE r
RippleEnd(r) ==
    CASE ~opt.material -> r
      [] opt.material /\ ~r.wave /\ r.target # NULL /\ ~isMoved ->
            CreateRipple([r EXCEPT !.to = FALSE, !.remove = TRUE])
      [] OTHER -> RemoveRipple(r)

-----------------------------------------------------------------------------
\* handleClick of a click on e. allowClick:
Held == opt.hold /\ tapHoldFired
AllowedLate(e, target, forwarded) ==  \* mutant
    (target = NULL /\ e \notin Field) \/ ~needsFastClick \/ focus' = target
Allowed(e, target, forwarded) ==
    (target = NULL /\ e \notin Field) \/ ~needsFastClick \/ focus' = target \/ forwarded

\* One that comes while a touch is tracked passes. The others start the
\* timeouts anew without stopping those that run.
HandleClick(e, tracked, target, forwarded, hold) ==
    LET allow == Allowed(e, target, forwarded) /\ ~Held
    IN  IF tracked
        THEN /\ trackClick' = FALSE /\ targetElement' = NULL /\ got' = got + 1
             /\ holdTO' = hold /\ UNCHANGED <<needsTO, strays>>
        ELSE /\ trackClick' = FALSE
             /\ targetElement' = IF allow THEN target ELSE NULL
             /\ got' = IF allow THEN got + 1 ELSE got
             /\ needsTO' = {"own"} \cup (IF needsTO = {} THEN {} ELSE {"stray"})
             /\ IF opt.hold
                THEN /\ holdTO' = "reset"
                     /\ strays' = strays \cup ({hold} \ {NULL})
                ELSE holdTO' = hold /\ UNCHANGED strays

-----------------------------------------------------------------------------
Init ==
    /\ opt \in Setting /\ finger = NULL /\ moved = FALSE /\ quick = FALSE /\ clicked = FALSE
    /\ trackClick = FALSE /\ targetElement = NULL /\ needsFastClick = FALSE
    /\ activeSelection = FALSE /\ isMoved = FALSE /\ tapHoldFired = FALSE /\ activable = NULL
    /\ active = {} /\ activeTO = FALSE /\ removes = FALSE /\ needsTO = {} /\ holdTO = NULL
    /\ strays = {} /\ native = NULL /\ focus = NULL /\ rippleTarget = NULL /\ rippleTO = FALSE
    /\ wave = FALSE /\ waveRemove = FALSE /\ orphan = FALSE /\ tap = "none" /\ got = 0 /\ odd = FALSE

\* A finger comes down on e. On an iPhone text may be selected. Timeouts that
\* are still to take a mark away will look at the new element.
TouchStart(e, selected, again) ==
    /\ ~odd  \* the model takes no more touches after an oddity
    /\ finger = NULL /\ finger' = e /\ moved' = FALSE
    /\ (selected => opt.os = "ios") /\ (again => clicked)
    /\ isMoved' = FALSE /\ tapHoldFired' = FALSE /\ needsFastClick' = TargetNeedsFastClick(e)
    /\ holdTO' = IF opt.hold THEN "hold" ELSE holdTO
    /\ needsTO' = needsTO \ {"own"} /\ quick' = again
    /\ tap' = "none" /\ got' = 0
    /\ odd' = (odd \/ native # NULL \/ (selected /\ TargetNeedsFastClick(e)) \/ removes \/ waveRemove)
    /\ IF ~TargetNeedsFastClick(e)
       THEN trackClick' = FALSE /\ UNCHANGED <<activeSelection, targetElement, focus, markVars, rippleVars>>
       ELSE /\ activeSelection' = selected
            /\ IF selected THEN UNCHANGED <<trackClick, targetElement, focus, markVars, rippleVars>>
               ELSE /\ trackClick' = TRUE /\ targetElement' = e /\ activable' = e
                    /\ focus' = IF opt.os = "android" /\ focus # e /\ e \notin Field THEN NULL ELSE focus
                    /\ active' = IF IsInsideScrollableView(e) THEN active ELSE active \cup {e}
                    /\ activeTO' = IsInsideScrollableView(e)
                    /\ BecomeRipple(RippleStart(R, e)) /\ UNCHANGED removes
    /\ UNCHANGED <<opt, clicked, strays, native>>

\* Farther than the threshold.
TouchMove ==
    /\ finger # NULL /\ ~moved /\ moved' = TRUE
    /\ IF ~trackClick THEN UNCHANGED <<clickVars, markVars, rippleVars, holdTO>>
       ELSE /\ trackClick' = FALSE /\ targetElement' = NULL /\ isMoved' = TRUE
            /\ holdTO' = NULL
            /\ activeTO' = FALSE /\ active' = active \ {activable}
            /\ BecomeRipple(RippleMove(R))
            /\ UNCHANGED <<needsFastClick, tapHoldFired, activable, removes>>
    /\ UNCHANGED <<finger, opt, quick, clicked, activeSelection, needsTO, strays, native, focus, tap, got, odd>>

\* The view scrolls a little under a finger that seems to rest.
ScrollView ==
    /\ finger \in InScroll /\ (activeTO \/ rippleTO) /\ activeTO' = FALSE /\ rippleTO' = FALSE
    /\ UNCHANGED <<finger, clickVars, activable, active, removes, rippleTarget, wave, waveRemove, orphan,
                   timerVars, otherVars>>

BrowserClick(prevented) == native' = IF prevented \/ moved THEN native ELSE finger
Tapped == IF odd \/ moved THEN "none" ELSE IF tapHoldFired THEN "held" ELSE "tapped"
Lifts == finger # NULL /\ finger' = NULL /\ activeTO' = FALSE

\* The end of a touch that is not tracked: moved, of another kind, or with
\* text selected.
EndUntracked ==
    /\ ~trackClick /\ Lifts /\ holdTO' = NULL
    /\ BrowserClick(~activeSelection /\ needsFastClick)
    /\ tap' = Tapped
    /\ UNCHANGED <<clickVars, activable, active, removes, rippleVars, needsTO, strays, opt, moved,
                   quick, clicked, activeSelection, focus, got, odd>>

\* On the element that has the focus the click is left to the browser; the
\* marks stay.
EndOnFocus ==
    /\ trackClick /\ focus = finger /\ Lifts /\ holdTO' = NULL /\ BrowserClick(FALSE)
    /\ tap' = (IF tapHoldFired THEN "none" ELSE Tapped)
    /\ odd' = (odd \/ finger \in active \/ R.wave \/ R.to)
    /\ UNCHANGED <<clickVars, activable, active, removes, rippleVars, needsTO, strays, opt, moved,
                   quick, clicked, activeSelection, focus, got>>

\* Too soon after the last click there is none.
EndTooSoon ==
    /\ trackClick /\ focus # finger /\ Lifts /\ holdTO' = NULL /\ quick
    /\ removes' = TRUE /\ tap' = "none" /\ odd' = (odd \/ R.wave \/ R.to)
    /\ UNCHANGED <<clickVars, activable, active, rippleVars, needsTO, strays, opt, moved, quick,
                   clicked, activeSelection, native, focus, got>>

\* The view scrolled (iPhone): no click, and the marks stay.
EndScrolled ==
    /\ trackClick /\ focus # finger /\ Lifts /\ holdTO' = NULL
    /\ opt.os = "ios" /\ finger \in InScroll
    /\ trackClick' = FALSE /\ clicked' = TRUE /\ tap' = "none"
    /\ odd' = (odd \/ finger \in active \/ R.wave \/ R.to)
    /\ UNCHANGED <<targetElement, needsFastClick, isMoved, tapHoldFired, activable, active, removes,
                   rippleVars, needsTO, strays, opt, moved, quick, activeSelection, native, focus, got>>

\* The click is made; handleClick hears it at once.
EndClick ==
    /\ trackClick /\ focus # finger /\ Lifts
    /\ clicked' = TRUE /\ tap' = Tapped
    /\ active' = active \cup {activable} /\ removes' = TRUE
    /\ BecomeRipple(RippleEnd(R))
    /\ focus' = IF TargetNeedsFocus(targetElement) THEN targetElement ELSE NULL
    /\ HandleClick(finger, FALSE, targetElement, TRUE, NULL)
    /\ UNCHANGED <<needsFastClick, isMoved, tapHoldFired, activable, opt, moved, quick,
                   activeSelection, native, odd>>

TouchEnd == EndUntracked \/ EndOnFocus \/ EndTooSoon \/ EndScrolled \/ EndClick

TouchCancel ==
    /\ Lifts /\ trackClick' = FALSE /\ targetElement' = NULL /\ holdTO' = NULL
    /\ active' = active \ {activable} /\ BecomeRipple(RippleEnd(R)) /\ tap' = "none"
    /\ UNCHANGED <<needsFastClick, isMoved, tapHoldFired, activable, removes, needsTO, strays, opt,
                   moved, quick, clicked, activeSelection, native, focus, got, odd>>

\* The browser's own click; it gives an input the focus.
NativeClick ==
    /\ native # NULL /\ native' = NULL
    /\ focus' = IF native \in Field THEN native ELSE focus
    /\ HandleClick(native, trackClick, targetElement, FALSE, holdTO)
    /\ odd' = (odd \/ finger # NULL)
    /\ UNCHANGED <<finger, needsFastClick, isMoved, tapHoldFired, markVars, rippleVars, opt, moved, quick,
                   clicked, activeSelection, tap>>

-----------------------------------------------------------------------------
\* Timeouts.
AddActive ==
    /\ activeTO /\ activeTO' = FALSE /\ active' = active \cup {activable}
    /\ UNCHANGED <<finger, clickVars, activable, removes, rippleVars, timerVars, otherVars>>
RemoveActive ==
    /\ removes /\ removes' = FALSE /\ active' = active \ {activable}
    /\ UNCHANGED <<finger, clickVars, activable, activeTO, rippleVars, timerVars, otherVars>>
RippleTimeout ==
    /\ rippleTO /\ BecomeRipple(CreateRipple([R EXCEPT !.to = FALSE]))
    /\ UNCHANGED <<finger, clickVars, markVars, timerVars, otherVars>>
WaveTimeout ==
    /\ waveRemove /\ BecomeRipple(RemoveRipple([R EXCEPT !.remove = FALSE]))
    /\ UNCHANGED <<finger, clickVars, markVars, timerVars, otherVars>>
NeedsTimeout(k) ==
    /\ k \in needsTO /\ needsTO' = needsTO \ {k} /\ needsFastClick' = FALSE
    /\ UNCHANGED <<finger, trackClick, targetElement, isMoved, tapHoldFired, markVars, rippleVars, holdTO, strays, otherVars>>
HoldTimeout(k) ==
    /\ \/ holdTO = k /\ holdTO' = NULL /\ UNCHANGED strays
       \/ k \in strays /\ strays' = strays \ {k} /\ UNCHANGED holdTO
    /\ tapHoldFired' = (k = "hold")
    /\ UNCHANGED <<finger, trackClick, targetElement, needsFastClick, isMoved, markVars, rippleVars, needsTO, otherVars>>

Next ==
    \/ \E e \in Elem : \E selected, again \in BOOLEAN : TouchStart(e, selected, again)
    \/ TouchMove \/ ScrollView \/ TouchEnd \/ TouchCancel \/ NativeClick
    \/ AddActive \/ RemoveActive \/ RippleTimeout \/ WaveTimeout
    \/ \E k \in {"own", "stray"} : NeedsTimeout(k)
    \/ \E k \in {"hold", "reset"} : HoldTimeout(k)

Spec == Init /\ [][Next]_fastVars

-----------------------------------------------------------------------------
AtRest == finger = NULL /\ native = NULL /\ ~odd

\* A tap is one click for the page: the one made of it or the browser's, never
\* both and never none; a hold is none, except on the input that has the focus.
OneClick == AtRest => (tap = "tapped" => got = 1) /\ (tap = "held" => got = 0)

\* At rest nothing is marked as touched.
PressedGoes == AtRest /\ ~removes /\ ~waveRemove => active = {} /\ ~wave /\ ~orphan /\ ~rippleTO

\* A hold is told only while the finger rests on the element.
HoldIsHeld == [][~tapHoldFired /\ tapHoldFired' /\ ~odd => finger # NULL /\ (trackClick => ~moved)]_fastVars
=============================================================================
