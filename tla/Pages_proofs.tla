---------------------------- MODULE Pages_proofs ----------------------------
(***************************************************************************)
(* Proofs about the pages of a course: what the view, notifications, a     *)
(* pull to refresh and panels show, and what a finger moves in them,       *)
(* photos, rows of lists and months, for every set of them, in every       *)
(* behaviour of MCCoursePages.  Each component has an inductive invariant, *)
(* a lemma that its initial states satisfy it and one that its steps keep  *)
(* it; the steps of the other components leave its variables alone.        *)
(***************************************************************************)
EXTENDS MCCoursePages, Sequences, SequenceTheorems, TLAPS

-----------------------------------------------------------------------------
(* Notifications.                                                          *)

\* A timeout runs only for a notification that was added.
NotesTyped ==
    /\ note \in [Note -> {"new", "in", "removing", "gone"}] /\ told \in [Note -> 0..2]
HeldWereAdded == \A n \in hold : note[n] # "new"
NotesInv == NotesTyped /\ HeldWereAdded /\ Notes!ClosedOnce /\ Notes!ContainerShown

InPage(notes) == {n \in Note : notes[n] \in {"in", "removing"}}

\* The items the container holds, as a function of their states.
LEMMA NotesListed == Notes!Listed = InPage(note) /\ Notes!Listed' = InPage(note')
<1>1. Notes!Listed = InPage(note)
  BY DEF Notes!Listed, Notes!In, InPage
<1>2. Notes!Listed' = InPage(note')
  BY DEF Notes!Listed, Notes!In, InPage
<1> QED BY <1>1, <1>2

\* No notification, no container.
LEMMA NotesInit == ASSUME Notes!Init PROVE NotesInv
<1>1. InPage(note) = {}
  BY DEF Notes!Init, InPage
<1>2. NotesTyped /\ HeldWereAdded /\ Notes!ClosedOnce
  BY DEF Notes!Init, NotesTyped, HeldWereAdded, Notes!ClosedOnce
<1>3. Notes!ContainerShown
  BY <1>1, NotesListed, Zenon DEF Notes!Init, Notes!ContainerShown
<1> QED BY <1>2, <1>3 DEF NotesInv

\* Every step of a notification keeps the container and its items together, and
\* counts a call of onClose for the item that begins to close and no other.
LEMMA NotesNext == ASSUME NotesInv, Notes!Next PROVE NotesInv'
<1>0. PICK n \in Note : Notes!Add(n) \/ Notes!Closes(n) \/ Notes!HoldTimeout(n) \/ Notes!TransitionEnd(n)
  BY DEF Notes!Next
<1>t. NotesTyped /\ HeldWereAdded /\ Notes!ClosedOnce
  BY DEF NotesInv
<1>c. Notes!ContainerShown
  BY DEF NotesInv
<1>1. CASE Notes!Add(n)
  <2>0. note[n] = "new" /\ note' = [note EXCEPT ![n] = "in"] /\ told' = told /\ hold' \subseteq hold \cup {n}
    BY <1>1 DEF Notes!Add
  <2>1. n \in InPage(note')
    BY <2>0, <1>t DEF NotesTyped, InPage
  <2>2. NotesTyped' /\ HeldWereAdded' /\ Notes!ClosedOnce'
    BY <2>0, <1>t DEF NotesTyped, HeldWereAdded, Notes!ClosedOnce
  <2>3. Notes!ContainerShown'
    BY <1>1, <2>1, NotesListed, Zenon DEF Notes!Add, Notes!ContainerShown
  <2> QED BY <2>2, <2>3 DEF NotesInv
<1>2. CASE Notes!Closes(n) \/ Notes!HoldTimeout(n)
  <2>0. note[n] # "new" /\ Notes!Close(n) /\ hold' \subseteq hold
        /\ notesContainer' = notesContainer /\ beside' = beside
    BY <1>2, <1>t DEF HeldWereAdded, Notes!Closes, Notes!HoldTimeout
  <2>1. InPage(note') = InPage(note)
    <3>1. \A m \in Note : note'[m] \in {"in", "removing"} <=> note[m] \in {"in", "removing"}
      BY <2>0, <1>t DEF NotesTyped, Notes!Close, Notes!Closing
    <3> QED BY <3>1 DEF InPage
  <2>2. NotesTyped' /\ HeldWereAdded' /\ Notes!ClosedOnce'
    <3>1. CASE Notes!Closing(n)
      BY <2>0, <3>1, <1>t DEF NotesTyped, HeldWereAdded, Notes!Close, Notes!ClosedOnce
    <3>2. CASE ~Notes!Closing(n)
      <4>1. note' = [note EXCEPT ![n] = "removing"]
        BY <2>0, <3>2 DEF Notes!Close
      <4>2. told' = [told EXCEPT ![n] = 1]
        BY <2>0, <3>2, <1>t DEF NotesTyped, Notes!Close, Notes!Closing, Notes!ClosedOnce
      <4> QED BY <2>0, <4>1, <4>2, <1>t DEF NotesTyped, HeldWereAdded, Notes!ClosedOnce
    <3> QED BY <3>1, <3>2
  <2>3. Notes!ContainerShown'
    BY <2>0, <1>c, <2>1, NotesListed, Zenon DEF Notes!ContainerShown
  <2> QED BY <2>2, <2>3 DEF NotesInv
<1>3. CASE Notes!TransitionEnd(n)
  <2>1. InPage(note') = InPage(note) \ {n} /\ n \in InPage(note) /\ n \notin Custom
    BY <1>3, <1>t DEF NotesTyped, Notes!TransitionEnd, InPage
  <2>2. NotesTyped' /\ HeldWereAdded' /\ Notes!ClosedOnce'
    BY <1>3, <1>t DEF NotesTyped, HeldWereAdded, Notes!TransitionEnd, Notes!ClosedOnce
  <2>3. Notes!ContainerShown'
    <3>1. CASE Notes!Hides(n)
      BY <1>3, <1>c, <2>1, <3>1, NotesListed, Zenon
         DEF Notes!TransitionEnd, Notes!Hides, Notes!ContainerShown
    <3>2. CASE ~Notes!Hides(n)
      BY <1>3, <1>c, <2>1, <3>2, NotesListed, Zenon
         DEF Notes!TransitionEnd, Notes!Hides, Notes!ContainerShown
    <3> QED BY <3>1, <3>2
  <2> QED BY <2>2, <2>3 DEF NotesInv
<1> QED BY <1>0, <1>1, <1>2, <1>3

-----------------------------------------------------------------------------
(* Pull to refresh.                                                        *)

\* Until a pull is released on top of a refresh, one is pending at most.
PullInv ==
    /\ pending \in Nat /\ refreshing \in BOOLEAN /\ again \in BOOLEAN
    /\ ~again => pending = IF refreshing THEN 1 ELSE 0

\* A page starts with no refresh.
LEMMA PullInit == ASSUME PullToRefresh!Init PROVE PullInv
BY DEF PullToRefresh!Init, PullInv

\* What a step does to the refreshes.
PullKeeps == pending' = pending /\ refreshing' = refreshing /\ again' = again
PullAsks == pending' = pending + 1 /\ refreshing' = TRUE /\ again' = (again \/ refreshing)
PullIsDone == pending > 0 /\ pending' = pending - 1 /\ refreshing' = FALSE /\ again' = again

\* Whatever the fingers do, a step leaves the refreshes alone, asks for one or ends one.
LEMMA PullSteps == ASSUME PullInv, PullToRefresh!Next PROVE PullKeeps \/ PullAsks \/ PullIsDone
<1>1. ASSUME NEW f \in Finger, PullToRefresh!TouchEnd(f) PROVE PullKeeps \/ PullAsks
  <2>1. CASE PullToRefresh!Another(f) \/ ~(isTouched /\ isMoved) \/ ~refresh
    BY <1>1, <2>1 DEF PullToRefresh!TouchEnd, PullToRefresh!viewVars, PullKeeps
  <2>2. CASE ~PullToRefresh!Another(f) /\ isTouched /\ isMoved /\ refresh
    BY <1>1, <2>2, Zenon DEF PullToRefresh!TouchEnd, PullAsks
  <2> QED BY <2>1, <2>2
<1>2. CASE PullToRefresh!Trigger
  <2>1. ~refreshing /\ refreshing' = TRUE /\ again' = again
    BY <1>2 DEF PullToRefresh!Trigger, PullToRefresh!Triggers
  <2>2. refreshing = FALSE
    BY <2>1, Zenon DEF PullInv
  <2>3. again' = (again \/ refreshing)
    BY <2>1, <2>2, Zenon DEF PullInv
  <2> QED BY <1>2, <2>1, <2>3, Zenon DEF PullToRefresh!Trigger, PullAsks
<1>3. CASE PullToRefresh!Done
  BY <1>3, Zenon DEF PullToRefresh!Done, PullIsDone
<1>4. CASE PullToRefresh!LetGo
  BY <1>4 DEF PullToRefresh!LetGo, PullKeeps
<1>5. CASE PullToRefresh!Scroll
  BY <1>5 DEF PullToRefresh!Scroll, PullToRefresh!viewVars, PullKeeps
<1>6. CASE PullToRefresh!TransitionEnd
  BY <1>6 DEF PullToRefresh!TransitionEnd, PullKeeps
<1>7. ASSUME NEW f \in Finger, PullToRefresh!TouchStart(f) \/ PullToRefresh!TouchCancel(f) PROVE PullKeeps
  BY <1>7 DEF PullToRefresh!TouchStart, PullToRefresh!TouchCancel, PullToRefresh!viewVars,
              PullKeeps
<1>8. ASSUME NEW y \in 0..2, PullToRefresh!TouchMove(y) PROVE PullKeeps
  BY <1>8 DEF PullToRefresh!TouchMove, PullKeeps
<1> QED BY <1>1, <1>2, <1>3, <1>4, <1>5, <1>6, <1>7, <1>8 DEF PullToRefresh!Next

\* Each of the three keeps as many refreshes pending as the content shows, until one
\* is asked for on top of another.
LEMMA PullNext == ASSUME PullInv, PullKeeps \/ PullAsks \/ PullIsDone PROVE PullInv'
<1>1. CASE PullKeeps
  BY <1>1 DEF PullInv, PullKeeps
<1>2. CASE PullAsks
  <2>1. refreshing' \in BOOLEAN /\ again' \in BOOLEAN /\ (~again' => ~again /\ ~refreshing)
    BY <1>2, Zenon DEF PullInv, PullAsks
  <2>2. ~again' => pending = 0
    BY <2>1 DEF PullInv
  <2>3. ~again' => pending' = 1
    BY <2>2, <1>2 DEF PullAsks
  <2>4. pending' \in Nat
    BY <1>2 DEF PullInv, PullAsks
  <2> QED BY <1>2, <2>1, <2>3, <2>4, Zenon DEF PullInv, PullAsks
<1>3. CASE PullIsDone
  <2>1. pending' \in Nat /\ (~again => pending' = 0)
    BY <1>3 DEF PullInv, PullIsDone
  <2> QED BY <1>3, <2>1, Zenon DEF PullInv, PullIsDone
<1> QED BY <1>1, <1>2, <1>3

-----------------------------------------------------------------------------
(* Panels.                                                                 *)

PanelsTyped ==
    /\ active \subseteq Panel /\ panelsShown \subseteq Panel
    /\ pos \in [Panel -> 0..Width] /\ ends \in [Panel -> SUBSET {"open", "close", "reset"}]
    /\ finger \in [on : Panel \cup {"nobody"}, opened : BOOLEAN, moved : BOOLEAN]
    /\ finger # Panels!Nobody => finger.on \in Panel

\* A listener that hides the panel waits for the end of its transition.
Hiding(p) == ends[p] \cap {"close", "reset"} # {}

\* Opening a panel closes the other.
OneActive == \A p, q \in active : p = q
\* What the finger saw when it grasped a panel is still so: calls and links wait
\* for it to leave.
GraspKnown ==
    finger # Panels!Nobody =>
        /\ panelsAllow
        /\ IF finger.opened THEN finger.on \in active ELSE active = {}
        /\ rushed \/ "reset" \notin ends[finger.on]
\* An active panel is displayed, and no listener of a swipe will hide it.
ActiveShown == \A p \in active : rushed \/ (p \in panelsShown /\ "reset" \notin ends[p])
\* What is displayed and not active is under the finger, or on its way out with a
\* listener that hides it at the end.
ShownIsHidden ==
    \A p \in panelsShown \ active : (finger.on = p /\ finger.moved) \/ (pos[p] # 0 /\ Hiding(p))
\* The listeners of a panel that is not active include one that hides it: that of
\* openPanel is alone only while the panel is active.
AwaitedHides == \A p \in Panel \ active : ends[p] # {} => Hiding(p)
\* While the body says that a panel closes, one is on its way, and nothing can
\* grasp it unless its listener clears the class all the same.
ClosingEnds ==
    closing /\ active = {} /\ ~rushed =>
        \E p \in Panel :
            /\ finger.on # p /\ pos[p] # 0
            /\ "reset" \in ends[p] \/ ("close" \in ends[p] /\ ~panelsAllow)

PanelsInv ==
    /\ PanelsTyped /\ OneActive /\ GraspKnown /\ ActiveShown /\ ShownIsHidden /\ AwaitedHides
    /\ ClosingEnds

\* All panels start closed.
LEMMA PanelsInit == ASSUME Panels!Init PROVE PanelsInv
<1>1. PanelsTyped
  BY AssumptionOfPanels DEF Panels!Init, PanelsTyped, Panels!Nobody, Panels!PanelsAssumption
<1>2. OneActive /\ ActiveShown /\ ShownIsHidden /\ AwaitedHides /\ GraspKnown
  BY DEF Panels!Init, OneActive, GraspKnown, ActiveShown, ShownIsHidden, AwaitedHides,
         Panels!Nobody
<1>3. ClosingEnds
  BY Zenon DEF Panels!Init, ClosingEnds
<1> QED BY <1>1, <1>2, <1>3 DEF PanelsInv

\* The invariant says what is seen at rest: a panel that slides nowhere and is not
\* active has pos 0, which the invariant forbids for one that is displayed.
LEMMA PanelsRest == ASSUME PanelsInv PROVE RestingPanels
<1> USE DEF PanelsInv
<1> SUFFICES ASSUME finger = Panels!Nobody, \A p \in Panel : ~Panels!Slides(p), ~rushed
             PROVE  panelsShown = active /\ (active = {} => ~closing)
  BY DEF RestingPanels, Panels!RestingPanels
<1>1. \A p \in Panel : finger.on # p /\ ~finger.moved /\ (p \notin active => pos[p] = 0)
  BY AssumptionOfPanels DEF Panels!Slides, Panels!Dragged, Panels!Goal, Panels!Nobody,
                            Panels!PanelsAssumption
<1>2. panelsShown \subseteq active
  BY <1>1 DEF ShownIsHidden, PanelsTyped
<1>3. active \subseteq panelsShown
  BY DEF ActiveShown
<1>4. active = {} => ~closing
  BY <1>1 DEF ClosingEnds
<1> QED BY <1>2, <1>3, <1>4

\* The only panel that is active is the one chosen.
LEMMA PanelsChosen == ASSUME OneActive, active # {} PROVE active = {CHOOSE q \in active : TRUE}
BY DEF OneActive

\* The panels as they are, but for the lock.
PanelsState(s) ==
    s = [active |-> active, shown |-> panelsShown, closing |-> closing, allow |-> s.allow, ends |-> ends]

\* What a call leaves of the panels.
PanelsAre(s, isActive, isShown, isClosing, isAllowed, awaited) ==
    /\ s.active = isActive /\ s.shown = isShown /\ s.closing = isClosing
    /\ s.allow = isAllowed /\ s.ends = awaited

\* closePanel does nothing without an active panel, and else closes that one.
LEMMA PanelsClosed ==
    ASSUME OneActive, NEW s, PanelsState(s)
    PROVE  /\ active = {} => Panels!ClosePanel(s) = s
           /\ \A q \in active : Panels!ClosePanel(s) =
                  [active |-> active \ {q}, shown |-> panelsShown, closing |-> TRUE, allow |-> FALSE,
                   ends |-> [ends EXCEPT ![q] = @ \cup {"close"}]]
<1>1. s.active = active
  BY DEF PanelsState
<1>2. ASSUME active = {} PROVE Panels!ClosePanel(s) = s
  BY <1>1, <1>2 DEF Panels!ClosePanel
<1>3. ASSUME NEW q \in active
      PROVE  Panels!ClosePanel(s) =
                  [active |-> active \ {q}, shown |-> panelsShown, closing |-> TRUE, allow |-> FALSE,
                   ends |-> [ends EXCEPT ![q] = @ \cup {"close"}]]
  <2>1. q = CHOOSE r \in s.active : TRUE
    BY <1>1 DEF OneActive
  <2>2. s.active # {}
    BY <1>1
  <2>3. Panels!ClosePanel(s) = [s EXCEPT !.active = @ \ {q}, !.allow = FALSE, !.closing = TRUE,
                                         !.ends[q] = @ \cup {"close"}]
    BY <2>1, <2>2 DEF Panels!ClosePanel
  <2>4. PICK b : s = [active |-> active, shown |-> panelsShown, closing |-> closing, allow |-> b, ends |-> ends]
    BY DEF PanelsState
  <2> QED BY <2>3, <2>4
<1> QED BY <1>2, <1>3

\* openPanel does nothing when locked or for an active panel; else it closes the
\* active one, if there is one, and opens its own.
LEMMA PanelsOpened ==
    ASSUME PanelsTyped, OneActive, NEW p \in Panel, NEW s, PanelsState(s)
    PROVE  /\ ~s.allow \/ p \in active => Panels!OpenPanel(s, p) = s
           /\ s.allow /\ active = {} =>
                PanelsAre(Panels!OpenPanel(s, p), active \cup {p}, panelsShown \cup {p}, closing, FALSE,
                          [ends EXCEPT ![p] = @ \cup {"open"}])
           /\ s.allow /\ p \notin active => \A q \in active :
                PanelsAre(Panels!OpenPanel(s, p), (active \ {q}) \cup {p}, panelsShown \cup {p}, TRUE, FALSE,
                          [ends EXCEPT ![q] = @ \cup {"close"}, ![p] = @ \cup {"open"}])
<1>1. s.active = active
  BY DEF PanelsState
<1>2. ASSUME ~s.allow \/ p \in active PROVE Panels!OpenPanel(s, p) = s
  BY <1>1, <1>2 DEF Panels!OpenPanel
<1> DEFINE t == Panels!OpenPanel(s, p)
<1>3. ASSUME s.allow, p \notin active
      PROVE  t = [Panels!ClosePanel(s) EXCEPT !.active = @ \cup {p}, !.shown = @ \cup {p}, !.allow = FALSE,
                                              !.ends[p] = @ \cup {"open"}]
  BY <1>1, <1>3 DEF Panels!OpenPanel
<1>4. ASSUME s.allow, active = {}
      PROVE  /\ t.active = active \cup {p} /\ t.shown = panelsShown \cup {p}
             /\ t.closing = closing /\ t.allow = FALSE
             /\ t.ends = [ends EXCEPT ![p] = @ \cup {"open"}]
  <2>1. Panels!ClosePanel(s) = s
    BY <1>4, PanelsClosed
  <2>2. t = [s EXCEPT !.active = @ \cup {p}, !.shown = @ \cup {p}, !.allow = FALSE,
                                         !.ends[p] = @ \cup {"open"}]
    BY <1>3, <1>4, <2>1
  <2> HIDE DEF t
  <2> QED BY <2>2 DEF PanelsState
<1>5. ASSUME s.allow, p \notin active, NEW q \in active
      PROVE  /\ t.active = (active \ {q}) \cup {p} /\ t.shown = panelsShown \cup {p}
             /\ t.closing = TRUE /\ t.allow = FALSE
             /\ t.ends = [ends EXCEPT ![q] = @ \cup {"close"}, ![p] = @ \cup {"open"}]
  <2>1. Panels!ClosePanel(s) =
                  [active |-> active \ {q}, shown |-> panelsShown, closing |-> TRUE, allow |-> FALSE,
                   ends |-> [ends EXCEPT ![q] = @ \cup {"close"}]]
    BY PanelsClosed
  <2>2. t = [Panels!ClosePanel(s) EXCEPT !.active = @ \cup {p}, !.shown = @ \cup {p}, !.allow = FALSE,
                                         !.ends[p] = @ \cup {"open"}]
    BY <1>3, <1>5
  <2> DEFINE e == [ends EXCEPT ![q] = @ \cup {"close"}]
             c == [active |-> active \ {q}, shown |-> panelsShown, closing |-> TRUE, allow |-> FALSE, ends |-> e]
  <2>3. t = [c EXCEPT !.active = @ \cup {p}, !.shown = @ \cup {p}, !.allow = FALSE, !.ends[p] = @ \cup {"open"}]
    BY <2>1, <2>2
  <2> HIDE DEF t
  <2>4. t.closing = TRUE /\ t.allow = FALSE /\ t.shown = panelsShown \cup {p} /\ t.active = (active \ {q}) \cup {p}
    BY <2>3
  <2>5. t.ends = [e EXCEPT ![p] = @ \cup {"open"}]
    <3> HIDE DEF e
    <3> QED BY <2>3
  <2>6. e[p] = ends[p]
    BY <1>5 DEF PanelsTyped
  <2> QED BY <2>4, <2>5, <2>6, Zenon
<1> QED BY <1>2, <1>4, <1>5 DEF PanelsAre

\* What openPanel and closePanel do to panels of which one is active at most.
PanelsSame ==
    /\ active' = active /\ panelsShown' = panelsShown /\ closing' = closing
    /\ panelsAllow' = panelsAllow /\ ends' = ends
PanelsCloses(q) ==
    /\ q \in active /\ active' = active \ {q} /\ panelsShown' = panelsShown /\ closing' = TRUE
    /\ panelsAllow' = FALSE /\ ends' = [ends EXCEPT ![q] = @ \cup {"close"}]
PanelsOpens(p) ==
    /\ active = {} /\ active' = active \cup {p} /\ panelsShown' = panelsShown \cup {p}
    /\ closing' = closing /\ panelsAllow' = FALSE /\ ends' = [ends EXCEPT ![p] = @ \cup {"open"}]
PanelsReplaces(q, p) ==
    /\ q \in active /\ p \notin active /\ active' = (active \ {q}) \cup {p}
    /\ panelsShown' = panelsShown \cup {p} /\ closing' = TRUE /\ panelsAllow' = FALSE
    /\ ends' = [ends EXCEPT ![q] = @ \cup {"close"}, ![p] = @ \cup {"open"}]

\* A call of openPanel is one of three things, and comes when nothing is dragged.
LEMMA PanelsOpenDoes ==
    ASSUME PanelsInv, NEW p \in Panel, Panels!Open(p)
    PROVE  /\ \A q \in active : pos[q] > 0
           /\ finger' = finger /\ finger = Panels!Nobody /\ pos' = pos
           /\ ~rushed' => ~rushed /\ (panelsAllow => "reset" \notin ends[p])
           /\ \/ PanelsSame
              \/ panelsAllow /\ PanelsOpens(p)
              \/ panelsAllow /\ \E q \in active : PanelsReplaces(q, p)
<1>1. PanelsTyped /\ OneActive
  BY DEF PanelsInv
<1>2. finger' = finger /\ finger = Panels!Nobody /\ pos' = pos /\ \A q \in active : pos[q] > 0
  BY <1>1 DEF Panels!Open, PanelsTyped
<1>3. ~rushed' => ~rushed /\ (panelsAllow => "reset" \notin ends[p])
  BY Zenon DEF Panels!Open
<1>4. PanelsState(Panels!S) /\ Panels!S.allow = panelsAllow
  BY DEF Panels!S, PanelsState
<1>5. Panels!Become(Panels!OpenPanel(Panels!S, p))
  BY DEF Panels!Open
<1>6. CASE ~panelsAllow \/ p \in active
  <2>1. Panels!OpenPanel(Panels!S, p) = Panels!S
    BY <1>1, <1>4, <1>6, PanelsOpened
  <2>2. PanelsSame
    BY <1>5, <2>1 DEF Panels!Become, Panels!S, PanelsSame
  <2> QED BY <1>2, <1>3, <2>2
<1>7. CASE panelsAllow /\ active = {}
  <2>1. PanelsAre(Panels!OpenPanel(Panels!S, p), active \cup {p}, panelsShown \cup {p}, closing, FALSE,
                  [ends EXCEPT ![p] = @ \cup {"open"}])
    BY <1>1, <1>4, <1>7, PanelsOpened
  <2>2. PanelsOpens(p)
    BY <1>5, <1>7, <2>1 DEF Panels!Become, PanelsAre, PanelsOpens
  <2> QED BY <1>2, <1>3, <1>7, <2>2
<1>8. CASE panelsAllow /\ active # {} /\ p \notin active
  <2>0. PICK q \in active : TRUE
    BY <1>8
  <2>1. PanelsAre(Panels!OpenPanel(Panels!S, p), (active \ {q}) \cup {p}, panelsShown \cup {p}, TRUE, FALSE,
                  [ends EXCEPT ![q] = @ \cup {"close"}, ![p] = @ \cup {"open"}])
    BY <1>1, <1>4, <1>8, PanelsOpened
  <2>2. PanelsReplaces(q, p)
    BY <1>5, <1>8, <2>1 DEF Panels!Become, PanelsAre, PanelsReplaces
  <2> QED BY <1>2, <1>3, <1>8, <2>2
<1> QED BY <1>6, <1>7, <1>8

\* openPanel keeps the invariant.
LEMMA PanelsOpenKeeps == ASSUME PanelsInv, NEW p \in Panel, Panels!Open(p) PROVE PanelsInv'
<1>1. /\ \A q \in active : pos[q] > 0
      /\ finger' = finger /\ finger = Panels!Nobody /\ pos' = pos
      /\ ~rushed' => ~rushed /\ (panelsAllow => "reset" \notin ends[p])
  BY PanelsOpenDoes
<1>2. CASE PanelsSame
  BY <1>1, <1>2 DEF PanelsInv, PanelsSame, PanelsTyped, OneActive, GraspKnown, ActiveShown,
                    ShownIsHidden, AwaitedHides, ClosingEnds, Hiding, Panels!Nobody
<1>3. CASE panelsAllow /\ PanelsOpens(p)
  <2>1. PanelsTyped' /\ OneActive' /\ AwaitedHides'
    BY <1>1, <1>3 DEF PanelsInv, PanelsOpens, PanelsTyped, OneActive, AwaitedHides, Hiding
  <2>2. GraspKnown' /\ ShownIsHidden'
    BY <1>1, <1>3 DEF PanelsInv, PanelsOpens, PanelsTyped, GraspKnown, ShownIsHidden, Hiding
  <2>3. ActiveShown' /\ ClosingEnds'
    BY <1>1, <1>3 DEF PanelsInv, PanelsOpens, PanelsTyped, ActiveShown, ClosingEnds
  <2> QED BY <2>1, <2>2, <2>3 DEF PanelsInv
<1>4. ASSUME panelsAllow, NEW q \in active, PanelsReplaces(q, p) PROVE PanelsInv'
  <2>1. PanelsTyped' /\ OneActive' /\ AwaitedHides'
    BY <1>1, <1>4 DEF PanelsInv, PanelsReplaces, PanelsTyped, OneActive, AwaitedHides, Hiding
  <2>2. GraspKnown' /\ ShownIsHidden'
    BY <1>1, <1>4 DEF PanelsInv, PanelsReplaces, PanelsTyped, GraspKnown, ShownIsHidden, Hiding
  <2>3. ActiveShown' /\ ClosingEnds'
    BY <1>1, <1>4 DEF PanelsInv, PanelsReplaces, PanelsTyped, OneActive, ActiveShown, ClosingEnds
  <2> QED BY <2>1, <2>2, <2>3 DEF PanelsInv
<1> QED BY <1>2, <1>3, <1>4, PanelsOpenDoes

\* So does closePanel of a panel that is at least partly in.
LEMMA PanelsCloseKeeps ==
    ASSUME PanelsInv, NEW q \in active, PanelsCloses(q), pos' = pos, pos[q] # 0, rushed' = rushed,
           finger.on \in {q, "nobody"}, finger' = Panels!Nobody
    PROVE  PanelsInv'
<1>0. Panels!Nobody.on = "nobody" /\ Panels!Nobody' = Panels!Nobody
      /\ Panels!Nobody \in [on : Panel \cup {"nobody"}, opened : BOOLEAN, moved : BOOLEAN]
  BY DEF Panels!Nobody
<1>1. PanelsTyped' /\ OneActive' /\ AwaitedHides'
  BY <1>0 DEF PanelsInv, PanelsCloses, PanelsTyped, OneActive, AwaitedHides, Hiding
<1>2. GraspKnown' /\ ActiveShown'
  <2>1. GraspKnown'
    BY <1>0 DEF GraspKnown
  <2>2. ActiveShown'
    BY DEF PanelsInv, PanelsCloses, OneActive, ActiveShown
  <2> QED BY <2>1, <2>2
<1>3. ShownIsHidden'
  <2>1. \A p \in panelsShown' \ active' :
            p \in Panel /\ (p = q \/ (p \in panelsShown \ active /\ finger.on # p))
    BY AssumptionOfPanels DEF PanelsInv, PanelsCloses, PanelsTyped, Panels!PanelsAssumption
  <2> QED BY <2>1 DEF PanelsInv, PanelsCloses, PanelsTyped, ShownIsHidden, Hiding
<1>4. ClosingEnds'
  BY AssumptionOfPanels DEF PanelsInv, PanelsCloses, PanelsTyped, ClosingEnds, Panels!Nobody,
                            Panels!PanelsAssumption
<1> QED BY <1>1, <1>2, <1>3, <1>4 DEF PanelsInv

\* A touch of the overlay is such a closePanel.
LEMMA PanelsOverlayKeeps == ASSUME PanelsInv, Panels!Close PROVE PanelsInv'
<1>1. PICK q \in active : pos[q] > 0
  BY DEF Panels!Close
<1>2. PanelsState(Panels!S)
  BY DEF Panels!S, PanelsState
<1>3. Panels!ClosePanel(Panels!S) =
          [active |-> active \ {q}, shown |-> panelsShown, closing |-> TRUE, allow |-> FALSE,
           ends |-> [ends EXCEPT ![q] = @ \cup {"close"}]]
  BY <1>2, PanelsClosed DEF PanelsInv
<1>4. /\ PanelsCloses(q) /\ pos' = pos /\ rushed' = rushed
      /\ finger.on = "nobody" /\ finger' = Panels!Nobody
  BY <1>3 DEF Panels!Close, Panels!Become, Panels!Nobody, PanelsCloses
<1>5. pos[q] # 0
  BY <1>1 DEF PanelsInv, PanelsTyped
<1> QED BY <1>4, <1>5, PanelsCloseKeeps

\* A panel that slides, or arrives and runs its listeners, keeps the invariant.
LEMMA PanelsSlideKeeps ==
    ASSUME PanelsInv, NEW p \in Panel, Panels!Slide(p) \/ Panels!TransitionEnd(p)
    PROVE  PanelsInv'
<1>1. /\ finger' = finger /\ rushed' = rushed /\ active' = active
      /\ pos[p] # Panels!Goal(p) /\ ~(finger.on = p /\ finger.moved)
  BY DEF Panels!Slide, Panels!TransitionEnd, Panels!Slides, Panels!Dragged
<1>2. Panels!Goal(p) = IF p \in active THEN Width ELSE 0
  BY DEF Panels!Goal
<1>3. CASE Panels!Slide(p)
  <2>1. \E n \in 0..Width : n # Panels!Goal(p) /\ pos' = [pos EXCEPT ![p] = n]
    <3>1. pos[p] \in 0..Width /\ Width \in Nat
      BY AssumptionOfPanels DEF PanelsInv, PanelsTyped, Panels!PanelsAssumption
    <3>2. PICK n : /\ n = IF p \in active THEN pos[p] + 1 ELSE pos[p] - 1
                   /\ n # Panels!Goal(p) /\ pos' = [pos EXCEPT ![p] = n]
      BY <1>3 DEF Panels!Slide
    <3>3. n \in 0..Width
      BY <1>1, <1>2, <3>1, <3>2
    <3> QED BY <3>2, <3>3
  <2>2. panelsShown' = panelsShown /\ closing' = closing /\ panelsAllow' = panelsAllow /\ ends' = ends
    BY <1>3 DEF Panels!Slide
  <2>3. PanelsTyped' /\ OneActive' /\ GraspKnown' /\ ActiveShown' /\ AwaitedHides'
    BY <1>1, <2>1, <2>2 DEF PanelsInv, PanelsTyped, OneActive, GraspKnown, ActiveShown,
                            AwaitedHides, Hiding, Panels!Nobody
  <2>4. ShownIsHidden' /\ ClosingEnds'
    BY <1>1, <1>2, <2>1, <2>2 DEF PanelsInv, PanelsTyped, ShownIsHidden, ClosingEnds, Hiding
  <2> QED BY <2>3, <2>4 DEF PanelsInv
<1>4. CASE Panels!TransitionEnd(p)
  <2> DEFINE fired == {e \in ends[p] : Panels!Fires(p, e)}
  <2>1. /\ pos' = [pos EXCEPT ![p] = Panels!Goal(p)] /\ ends' = [ends EXCEPT ![p] = {}]
        /\ panelsAllow' = (panelsAllow \/ fired # {})
        /\ panelsShown' = IF fired \cap {"close", "reset"} # {} THEN panelsShown \ {p} ELSE panelsShown
        /\ closing' = (closing /\ fired \cap {"close", "reset"} = {})
    BY <1>4 DEF Panels!TransitionEnd
  <2>2. p \notin active => fired = ends[p]
    BY DEF Panels!Fires
  <2>3. p \in active => fired = ends[p] \ {"close"}
    BY DEF Panels!Fires
  <2> HIDE DEF fired
  <2>4. /\ panelsAllow => panelsAllow'
        /\ ~panelsAllow /\ panelsAllow' => fired # {}
        /\ closing' => closing /\ fired \cap {"close", "reset"} = {}
    BY <2>1, Zenon
  <2>5. PanelsTyped' /\ OneActive' /\ AwaitedHides'
    BY <1>1, <1>2, <2>1, AssumptionOfPanels
       DEF PanelsInv, PanelsTyped, OneActive, AwaitedHides, Hiding, Panels!Nobody, Panels!PanelsAssumption
  <2>6. GraspKnown'
    BY <1>1, <2>1, <2>4 DEF PanelsInv, PanelsTyped, GraspKnown, Panels!Nobody
  <2>7. ActiveShown'
    BY <1>1, <2>1, <2>3 DEF PanelsInv, PanelsTyped, ActiveShown
  <2>8. ShownIsHidden'
    BY <1>1, <1>2, <2>1, <2>2 DEF PanelsInv, PanelsTyped, ShownIsHidden, Hiding
  <2>9. ClosingEnds'
    BY <1>1, <2>1, <2>2, <2>4 DEF PanelsInv, PanelsTyped, ClosingEnds, AwaitedHides, Hiding
  <2> QED BY <2>5, <2>6, <2>7, <2>8, <2>9 DEF PanelsInv
<1> QED BY <1>3, <1>4

\* So does the finger that grasps a panel and drags it.
LEMMA PanelsTouchKeeps ==
    ASSUME PanelsInv, Panels!TouchStart \/ Panels!TouchMove
    PROVE  PanelsInv'
<1>0. active' = active /\ closing' = closing /\ panelsAllow' = panelsAllow /\ ends' = ends
  BY DEF Panels!TouchStart, Panels!TouchMove
<1>1. CASE Panels!TouchStart
  <2>1. PICK p : /\ p = IF active = {} THEN Swiped ELSE CHOOSE q \in active : TRUE
                 /\ finger' = [on |-> p, opened |-> p \in active, moved |-> FALSE]
                 /\ rushed' = (rushed \/ "reset" \in ends[p])
    BY <1>1 DEF Panels!TouchStart
  <2>2. p \in Panel /\ (IF active = {} THEN p \notin active ELSE p \in active)
    BY <2>1, PanelsChosen, AssumptionOfPanels DEF PanelsInv, PanelsTyped, Panels!PanelsAssumption
  <2>3. ~rushed' => ~rushed /\ "reset" \notin ends[p]
    BY <2>1, Zenon
  <2>4. /\ panelsAllow /\ finger = Panels!Nobody /\ pos' = pos /\ panelsShown' = panelsShown
        /\ finger.on = "nobody"
    BY <1>1 DEF Panels!TouchStart, Panels!Nobody
  <2>5. finger'.on = p /\ (finger'.opened <=> p \in active) /\ ~finger'.moved
        /\ finger' \in [on : Panel, opened : BOOLEAN, moved : BOOLEAN]
    <3>1. finger' = [on |-> p, opened |-> p \in active, moved |-> FALSE] /\ p \in Panel
      BY <2>1, <2>2
    <3>2. finger'.opened <=> p \in active
      BY <3>1
    <3>3. finger' \in [on : Panel, opened : BOOLEAN, moved : BOOLEAN]
      BY <3>1
    <3>4. finger'.on = p /\ ~finger'.moved
      BY <3>1
    <3> QED BY <3>2, <3>3, <3>4
  <2>6. PanelsTyped' /\ OneActive' /\ ActiveShown' /\ AwaitedHides'
    BY <1>0, <2>3, <2>4, <2>5 DEF PanelsInv, PanelsTyped, OneActive, ActiveShown, AwaitedHides,
                                  Hiding
  <2>7. GraspKnown'
    BY <1>0, <2>2, <2>3, <2>4, <2>5 DEF PanelsInv, GraspKnown
  <2>8. ShownIsHidden' /\ ClosingEnds'
    BY <1>0, <2>3, <2>4, <2>5, AssumptionOfPanels
       DEF PanelsInv, PanelsTyped, ShownIsHidden, ClosingEnds, Hiding, Panels!PanelsAssumption
  <2> QED BY <2>6, <2>7, <2>8 DEF PanelsInv
<1>2. CASE Panels!TouchMove /\ finger' = Panels!Nobody /\ panelsShown' = panelsShown /\ pos' = pos /\ ~finger.moved
  <2>1. rushed' = rushed /\ finger'.on = "nobody" /\ finger' = Panels!Nobody'
    BY <1>2 DEF Panels!TouchMove, Panels!Nobody
  <2>2. PanelsTyped' /\ OneActive' /\ ActiveShown' /\ AwaitedHides' /\ GraspKnown'
    BY <1>0, <1>2, <2>1 DEF PanelsInv, PanelsTyped, OneActive, ActiveShown, AwaitedHides,
                            GraspKnown, Hiding, Panels!Nobody
  <2>3. ShownIsHidden' /\ ClosingEnds'
    BY <1>0, <1>2, <2>1, AssumptionOfPanels
       DEF PanelsInv, PanelsTyped, ShownIsHidden, ClosingEnds, Hiding, Panels!PanelsAssumption
  <2> QED BY <2>2, <2>3 DEF PanelsInv
<1>3. ASSUME Panels!TouchMove, NEW x \in 0..Width, finger' = [finger EXCEPT !.moved = TRUE],
             panelsShown' = IF finger.opened THEN panelsShown ELSE panelsShown \cup {finger.on},
             pos' = [pos EXCEPT ![finger.on] = x]
      PROVE  PanelsInv'
  <2>1. rushed' = rushed /\ finger # Panels!Nobody /\ finger.on \in Panel
    BY <1>3 DEF Panels!TouchMove, PanelsInv, PanelsTyped
  <2>2. /\ finger'.on = finger.on /\ finger'.opened = finger.opened /\ finger'.moved = TRUE
        /\ finger' \in [on : Panel, opened : BOOLEAN, moved : BOOLEAN]
    BY <1>3, <2>1 DEF PanelsInv, PanelsTyped
  <2>3. PanelsTyped'
    BY <1>0, <1>3, <2>1, <2>2 DEF PanelsInv, PanelsTyped
  <2>4. OneActive' /\ ActiveShown' /\ AwaitedHides'
    BY <1>0, <1>3, <2>1, <2>2 DEF PanelsInv, PanelsTyped, OneActive, ActiveShown, AwaitedHides,
                                  Hiding
  <2>5. GraspKnown'
    BY <1>0, <1>3, <2>1, <2>2 DEF PanelsInv, GraspKnown
  <2>6. ShownIsHidden'
    <3>1. \A q \in panelsShown' \ active' : q = finger.on \/ q \in panelsShown \ active
      BY <1>0, <1>3, <2>1
    <3>2. \A q \in Panel : q # finger.on => pos'[q] = pos[q]
      BY <1>3 DEF PanelsInv, PanelsTyped
    <3> QED BY <1>0, <2>2, <3>1, <3>2 DEF PanelsInv, PanelsTyped, ShownIsHidden, Hiding
  <2>7. ClosingEnds'
    BY <1>0, <1>3, <2>1, <2>2 DEF PanelsInv, PanelsTyped, ClosingEnds
  <2> QED BY <2>3, <2>4, <2>5, <2>6, <2>7 DEF PanelsInv
<1> QED BY <1>1, <1>2, <1>3 DEF Panels!TouchMove

\* The panels when the finger has left them.
PanelsReleased(isActive, isShown, isClosing, isAllowed, awaited) ==
    /\ active' = isActive /\ panelsShown' = isShown /\ closing' = isClosing
    /\ panelsAllow' = isAllowed /\ ends' = awaited

\* When the finger leaves, seven things can happen: it had not moved; an open panel
\* stays, closes by a transition or is closed already; a closed one opens, is closed
\* already or slides back.
LEMMA PanelsTouchEndDoes ==
    ASSUME PanelsInv, NEW quick \in BOOLEAN, Panels!TouchEnd(quick), NEW p, p = finger.on
    PROVE  \/ PanelsSame /\ ~finger.moved
           \/ finger.opened /\ PanelsReleased(active, panelsShown, closing, TRUE, ends)
           \/ finger.opened /\ pos[p] # 0 /\ PanelsCloses(p)
           \/ /\ finger.opened
              /\ PanelsReleased(active \ {p}, panelsShown \ {p}, FALSE, TRUE,
                                [ends EXCEPT ![p] = @ \cup {"close"}])
           \/ /\ ~finger.opened
              /\ \E b \in BOOLEAN : PanelsReleased(active \cup {p}, panelsShown \cup {p}, closing, b,
                                                   [ends EXCEPT ![p] = @ \cup {"open"}])
           \/ ~finger.opened /\ PanelsReleased(active, panelsShown \ {p}, closing, TRUE, ends)
           \/ /\ ~finger.opened /\ pos[p] # 0
              /\ PanelsReleased(active, panelsShown, TRUE, panelsAllow, [ends EXCEPT ![p] = @ \cup {"reset"}])
<1>1. /\ finger # Panels!Nobody /\ p \in Panel /\ panelsAllow
      /\ IF finger.opened THEN p \in active ELSE active = {}
  BY DEF PanelsInv, PanelsTyped, GraspKnown, Panels!TouchEnd
<1> DEFINE edge == pos[p] \in {0, Width}
<1>0. PICK s : s = [Panels!S EXCEPT !.allow = TRUE]
  OBVIOUS
<1>2. Panels!S = [active |-> active, shown |-> panelsShown, closing |-> closing,
                  allow |-> panelsAllow, ends |-> ends]
  BY DEF Panels!S
<1>3. s = [active |-> active, shown |-> panelsShown, closing |-> closing, allow |-> TRUE, ends |-> ends]
  BY <1>0, <1>2
<1>4. PanelsState(Panels!S) /\ PanelsState(s) /\ s.allow = TRUE
  BY <1>2, <1>3 DEF PanelsState
<1>5. CASE ~finger.moved
  BY <1>5, <1>2 DEF Panels!TouchEnd, Panels!Become, PanelsSame
<1>6. CASE finger.moved /\ finger.opened /\ Panels!Swaps(pos[p], quick)
  <2>1. Panels!ClosePanel(s) = [active |-> active \ {p}, shown |-> panelsShown, closing |-> TRUE, allow |-> FALSE,
                                ends |-> [ends EXCEPT ![p] = @ \cup {"close"}]]
    BY <1>1, <1>4, <1>6, PanelsClosed DEF PanelsInv
  <2>2. PICK t : t = Panels!Swap(p, edge) /\ Panels!Become(t)
    BY <1>6 DEF Panels!TouchEnd
  <2>3. Panels!Become(t)
    BY <2>2, Zenon
  <2>4. CASE edge
    <3>1. t = [Panels!ClosePanel(s) EXCEPT !.shown = @ \ {p}, !.closing = FALSE, !.allow = TRUE]
      BY <1>0, <1>6, <2>2, <2>4 DEF Panels!Swap, Panels!Unlocks
    <3>2. PanelsReleased(active \ {p}, panelsShown \ {p}, FALSE, TRUE, [ends EXCEPT ![p] = @ \cup {"close"}])
      BY <2>1, <2>3, <3>1 DEF Panels!Become, PanelsReleased
    <3> QED BY <1>6, <3>2
  <2>5. CASE ~edge
    <3>1. t = Panels!ClosePanel(s)
      BY <1>0, <1>6, <2>2, <2>5 DEF Panels!Swap, Panels!Unlocks
    <3>2. PanelsCloses(p)
      BY <1>1, <1>6, <2>1, <2>3, <3>1 DEF Panels!Become, PanelsCloses
    <3> QED BY <1>6, <2>5, <3>2
  <2> QED BY <2>4, <2>5
<1>7. CASE finger.moved /\ finger.opened /\ ~Panels!Swaps(pos[p], quick)
  <2>1. Panels!OpenPanel(s, p) = s
    BY <1>1, <1>4, <1>7, PanelsOpened DEF PanelsInv
  <2>2. PICK t : t = Panels!Reset(p, edge) /\ Panels!Become(t)
    BY <1>7 DEF Panels!TouchEnd
  <2>3. Panels!Become(t)
    BY <2>2, Zenon
  <2>4. t = s
    BY <1>0, <1>7, <2>1, <2>2 DEF Panels!Reset
  <2>5. PanelsReleased(active, panelsShown, closing, TRUE, ends)
    BY <1>3, <2>3, <2>4 DEF Panels!Become, PanelsReleased
  <2> QED BY <1>7, <2>5
<1>8. CASE finger.moved /\ ~finger.opened /\ Panels!Swaps(pos[p], quick)
  <2>1. PICK o : /\ o = Panels!OpenPanel(s, p)
                 /\ PanelsAre(o, active \cup {p}, panelsShown \cup {p}, closing, FALSE,
                              [ends EXCEPT ![p] = @ \cup {"open"}])
    BY <1>1, <1>4, <1>8, PanelsOpened DEF PanelsInv
  <2>2. PICK t : t = Panels!Swap(p, edge) /\ Panels!Become(t)
    BY <1>8 DEF Panels!TouchEnd
  <2>3. Panels!Become(t)
    BY <2>2, Zenon
  <2>4. CASE edge
    <3>1. t = [o EXCEPT !.allow = TRUE]
      BY <1>0, <1>8, <2>1, <2>2, <2>4 DEF Panels!Swap, Panels!Unlocks
    <3>2. PanelsReleased(active \cup {p}, panelsShown \cup {p}, closing, TRUE, [ends EXCEPT ![p] = @ \cup {"open"}])
      BY <2>1, <2>3, <3>1 DEF Panels!Become, PanelsReleased, PanelsAre
    <3> QED BY <1>8, <3>2
  <2>5. CASE ~edge
    <3>1. t = o
      BY <1>0, <1>8, <2>1, <2>2, <2>5 DEF Panels!Swap, Panels!Unlocks
    <3>2. PanelsReleased(active \cup {p}, panelsShown \cup {p}, closing, FALSE, [ends EXCEPT ![p] = @ \cup {"open"}])
      BY <2>1, <2>3, <3>1 DEF Panels!Become, PanelsReleased, PanelsAre
    <3> QED BY <1>8, <3>2
  <2> QED BY <2>4, <2>5
<1>9. CASE finger.moved /\ ~finger.opened /\ ~Panels!Swaps(pos[p], quick)
  <2>1. Panels!ClosePanel(Panels!S) = Panels!S
    BY <1>1, <1>4, <1>9, PanelsClosed DEF PanelsInv
  <2>2. PICK t : t = Panels!Reset(p, edge) /\ Panels!Become(t)
    BY <1>9 DEF Panels!TouchEnd
  <2>3. Panels!Become(t)
    BY <2>2, Zenon
  <2>4. CASE edge
    <3>1. t = [Panels!S EXCEPT !.allow = TRUE, !.shown = @ \ {p}]
      BY <1>9, <2>1, <2>2, <2>4 DEF Panels!Reset
    <3>2. PanelsReleased(active, panelsShown \ {p}, closing, TRUE, ends)
      BY <1>2, <2>3, <3>1 DEF Panels!Become, PanelsReleased
    <3> QED BY <1>9, <3>2
  <2>5. CASE ~edge
    <3>1. t = [Panels!S EXCEPT !.closing = TRUE, !.ends[p] = @ \cup {"reset"}]
      BY <1>9, <2>1, <2>2, <2>5 DEF Panels!Reset
    <3>2. PanelsReleased(active, panelsShown, TRUE, panelsAllow, [ends EXCEPT ![p] = @ \cup {"reset"}])
      BY <1>2, <2>3, <3>1 DEF Panels!Become, PanelsReleased
    <3> QED BY <1>9, <2>5, <3>2
  <2> QED BY <2>4, <2>5
<1> QED BY <1>5, <1>6, <1>7, <1>8, <1>9

\* Each of them keeps the invariant.
LEMMA PanelsTouchEndKeeps == ASSUME PanelsInv, NEW quick \in BOOLEAN, Panels!TouchEnd(quick) PROVE PanelsInv'
<1>1. PICK p : p = finger.on
  OBVIOUS
<1>2. /\ finger # Panels!Nobody /\ p \in Panel /\ panelsAllow
      /\ IF finger.opened THEN p \in active ELSE active = {}
      /\ rushed \/ "reset" \notin ends[p]
      /\ finger' = Panels!Nobody /\ pos' = pos /\ rushed' = rushed
  BY <1>1 DEF PanelsInv, PanelsTyped, GraspKnown, Panels!TouchEnd
<1>3. GraspKnown' /\ finger'.on = "nobody"
      /\ finger' \in [on : Panel \cup {"nobody"}, opened : BOOLEAN, moved : BOOLEAN]
  BY <1>2 DEF GraspKnown, Panels!Nobody
<1>4. CASE PanelsSame /\ ~finger.moved
  <2>1. PanelsTyped' /\ OneActive' /\ AwaitedHides'
    BY <1>2, <1>3, <1>4 DEF PanelsSame, PanelsInv, PanelsTyped, OneActive, AwaitedHides, Hiding,
                            Panels!Nobody
  <2>2. ActiveShown'
    BY <1>2, <1>4 DEF PanelsSame, PanelsInv, PanelsTyped, ActiveShown
  <2>3. ShownIsHidden'
    BY <1>1, <1>2, <1>3, <1>4 DEF PanelsSame, PanelsInv, PanelsTyped, ShownIsHidden, Hiding
  <2>4. ClosingEnds'
    BY <1>2, <1>3, <1>4, AssumptionOfPanels
       DEF PanelsSame, PanelsInv, PanelsTyped, ClosingEnds, Panels!PanelsAssumption
  <2> QED BY <1>3, <2>1, <2>2, <2>3, <2>4 DEF PanelsInv
<1>5. CASE finger.opened /\ PanelsReleased(active, panelsShown, closing, TRUE, ends)
  <2>1. PanelsTyped' /\ OneActive' /\ AwaitedHides'
    BY <1>2, <1>3, <1>5 DEF PanelsReleased, PanelsInv, PanelsTyped, OneActive, AwaitedHides,
                            Hiding, Panels!Nobody
  <2>2. ActiveShown'
    BY <1>2, <1>5 DEF PanelsReleased, PanelsInv, PanelsTyped, ActiveShown
  <2>3. ShownIsHidden'
    BY <1>1, <1>2, <1>3, <1>5 DEF PanelsReleased, PanelsInv, PanelsTyped, ShownIsHidden, Hiding
  <2>4. ClosingEnds'
    BY <1>2, <1>3, <1>5, AssumptionOfPanels
       DEF PanelsReleased, PanelsInv, PanelsTyped, ClosingEnds, Panels!PanelsAssumption
  <2> QED BY <1>3, <2>1, <2>2, <2>3, <2>4 DEF PanelsInv
<1>6. CASE finger.opened /\ pos[p] # 0 /\ PanelsCloses(p)
  BY <1>1, <1>2, <1>6, PanelsCloseKeeps
<1>7. CASE finger.opened /\ PanelsReleased(active \ {p}, panelsShown \ {p}, FALSE, TRUE,
                                           [ends EXCEPT ![p] = @ \cup {"close"}])
  <2>1. PanelsTyped' /\ OneActive' /\ AwaitedHides'
    BY <1>2, <1>3, <1>7 DEF PanelsReleased, PanelsInv, PanelsTyped, OneActive, AwaitedHides,
                            Hiding, Panels!Nobody
  <2>2. ActiveShown'
    BY <1>2, <1>7 DEF PanelsReleased, PanelsInv, PanelsTyped, ActiveShown
  <2>3. ShownIsHidden'
    BY <1>1, <1>2, <1>3, <1>7 DEF PanelsReleased, PanelsInv, PanelsTyped, ShownIsHidden, Hiding
  <2>4. ClosingEnds'
    BY <1>2, <1>3, <1>7, AssumptionOfPanels
       DEF PanelsReleased, PanelsInv, PanelsTyped, ClosingEnds, Panels!PanelsAssumption
  <2> QED BY <1>3, <2>1, <2>2, <2>3, <2>4 DEF PanelsInv
<1>8. ASSUME ~finger.opened, NEW b \in BOOLEAN, 
             PanelsReleased(active \cup {p}, panelsShown \cup {p}, closing, b, [ends EXCEPT ![p] = @ \cup {"open"}])
      PROVE  PanelsInv'
  <2>1. PanelsTyped' /\ OneActive' /\ AwaitedHides'
    BY <1>2, <1>3, <1>8 DEF PanelsReleased, PanelsInv, PanelsTyped, OneActive, AwaitedHides,
                            Hiding, Panels!Nobody
  <2>2. ActiveShown'
    BY <1>2, <1>8 DEF PanelsReleased, PanelsInv, PanelsTyped, ActiveShown
  <2>3. ShownIsHidden'
    BY <1>1, <1>2, <1>3, <1>8 DEF PanelsReleased, PanelsInv, PanelsTyped, ShownIsHidden, Hiding
  <2>4. ClosingEnds'
    BY <1>2, <1>3, <1>8, AssumptionOfPanels
       DEF PanelsReleased, PanelsInv, PanelsTyped, ClosingEnds, Panels!PanelsAssumption
  <2> QED BY <1>3, <2>1, <2>2, <2>3, <2>4 DEF PanelsInv
<1>9. CASE ~finger.opened /\ PanelsReleased(active, panelsShown \ {p}, closing, TRUE, ends)
  <2>1. PanelsTyped' /\ OneActive' /\ AwaitedHides'
    BY <1>2, <1>3, <1>9 DEF PanelsReleased, PanelsInv, PanelsTyped, OneActive, AwaitedHides,
                            Hiding, Panels!Nobody
  <2>2. ActiveShown'
    BY <1>2, <1>9 DEF PanelsReleased, PanelsInv, PanelsTyped, ActiveShown
  <2>3. ShownIsHidden'
    BY <1>1, <1>2, <1>3, <1>9 DEF PanelsReleased, PanelsInv, PanelsTyped, ShownIsHidden, Hiding
  <2>4. ClosingEnds'
    BY <1>2, <1>3, <1>9, AssumptionOfPanels
       DEF PanelsReleased, PanelsInv, PanelsTyped, ClosingEnds, Panels!PanelsAssumption
  <2> QED BY <1>3, <2>1, <2>2, <2>3, <2>4 DEF PanelsInv
<1>10. CASE ~finger.opened /\ pos[p] # 0 /\ PanelsReleased(active, panelsShown, TRUE, panelsAllow, [ends EXCEPT ![p] = @ \cup {"reset"}])
  <2>1. PanelsTyped' /\ OneActive' /\ AwaitedHides'
    BY <1>2, <1>3, <1>10 DEF PanelsReleased, PanelsInv, PanelsTyped, OneActive, AwaitedHides,
                             Hiding, Panels!Nobody
  <2>2. ActiveShown'
    BY <1>2, <1>10 DEF PanelsReleased, PanelsInv, PanelsTyped, ActiveShown
  <2>3. ShownIsHidden'
    BY <1>1, <1>2, <1>3, <1>10 DEF PanelsReleased, PanelsInv, PanelsTyped, ShownIsHidden, Hiding
  <2>4. ClosingEnds'
    BY <1>2, <1>3, <1>10, AssumptionOfPanels
       DEF PanelsReleased, PanelsInv, PanelsTyped, ClosingEnds, Panels!PanelsAssumption
  <2> QED BY <1>3, <2>1, <2>2, <2>3, <2>4 DEF PanelsInv
<1> QED BY <1>1, <1>4, <1>5, <1>6, <1>7, <1>8, <1>9, <1>10, PanelsTouchEndDoes

\* Every step of the panels keeps the invariant.
LEMMA PanelsNext == ASSUME PanelsInv, Panels!Next PROVE PanelsInv'
<1>1. ASSUME NEW p \in Panel, Panels!Open(p) PROVE PanelsInv'
  BY <1>1, PanelsOpenKeeps
<1>2. ASSUME NEW p \in Panel, Panels!Slide(p) \/ Panels!TransitionEnd(p) PROVE PanelsInv'
  BY <1>2, PanelsSlideKeeps
<1>3. CASE Panels!Close
  BY <1>3, PanelsOverlayKeeps
<1>4. CASE Panels!TouchStart \/ Panels!TouchMove
  BY <1>4, PanelsTouchKeeps
<1>5. ASSUME NEW quick \in BOOLEAN, Panels!TouchEnd(quick) PROVE PanelsInv'
  BY <1>5, PanelsTouchEndKeeps
<1> QED BY <1>1, <1>2, <1>3, <1>4, <1>5, Zenon DEF Panels!Next

-----------------------------------------------------------------------------
(* The pages of the teachers' view.                                        *)

Anim == [op : {"load", "back"}, new : Page, old : Page]

ViewTyped(v) ==
    v \in [dom : Seq(Page), bars : Seq(Page), url : [Page -> App!Url],
           at : [Page -> SUBSET App!Where], history : Seq(App!Url), current : App!Url,
           active : Page, free : BOOLEAN, anim : SUBSET Anim]

\* The pages of a view: one, or the one before beside it.
Alone(v, p) == p \in Page /\ v.dom = <<p>> /\ v.bars = <<p>>
Pair(v, q, p) ==
    /\ p \in Page /\ q \in Page /\ p # q /\ v.dom = <<q, p>> /\ v.bars = <<q, p>>
    /\ Len(v.history) >= 2 /\ v.url[q] = App!Previous(v)

\* Page p is the one that is named by the view and its history.
Named(v, p) ==
    /\ v.active = p /\ v.current = v.url[p] /\ Len(v.history) >= 1
    /\ v.current = v.history[Len(v.history)]

Still(v, p) ==
    /\ ViewTyped(v) /\ Named(v, p) /\ v.anim = {} /\ v.at[p] = {"center"}
    /\ Alone(v, p) \/ \E q \in Page : Pair(v, q, p) /\ v.at[q] = {"left"}

\* What the loads and the ways back lead to: the pages rest and may change; they
\* rest while a request is answered; one enters; one leaves.
Rests(v, w) == v.free /\ w = <<>> /\ \E p \in Page : Still(v, p)

Asks(v, r) ==
    r.op # "load" => Len(v.dom) = 1 /\ Len(v.history) >= 2 /\ r.url = App!Previous(v)

WireRequest == [step : {"page", "data"}, op : {"load", "back", "preload"}, url : App!Url]

Waits(v, w) ==
    /\ ~v.free /\ \E p \in Page : Still(v, p)
    /\ \E r \in WireRequest : w = <<r>> /\ Asks(v, r)

Moves(v, w, op, new, old) ==
    ~v.free /\ w = <<>> /\ ViewTyped(v) /\ v.anim = {[op |-> op, new |-> new, old |-> old]}

Enters(v, w) ==
    \E p, q \in Page :
        /\ Moves(v, w, "load", p, q) /\ Pair(v, q, p) /\ Named(v, p)
        /\ v.at[q] = {"toLeft"} /\ v.at[p] = {"toCenter"}

Leaves(v, w) ==
    \E p, q \in Page :
        /\ Moves(v, w, "back", q, p) /\ Pair(v, q, p)
        /\ v.active = q /\ v.current = v.url[q]
        /\ v.at[q] = {"toCenter"} /\ v.at[p] = {"toRight"}

Known(v, w) == Rests(v, w) \/ Waits(v, w) \/ Enters(v, w) \/ Leaves(v, w)

\* A finger holds the page in sight and, once it moved, the one before; released
\* pages slide to their place or back.
Holds(v, t) ==
    t # NULL => /\ v.free /\ t \in [moved : BOOLEAN, active : Page, previous : Page]
                /\ t.active = App!Top(v) /\ (t.moved => Len(v.dom) = 2)
                /\ t.previous = IF t.moved THEN v.dom[1] ELSE t.active

Slides(v, w, s) ==
    /\ ~v.free /\ w = <<>> /\ ViewTyped(v) /\ v.anim = {} /\ s.active \in Page /\ s.previous \in Page
    /\ Pair(v, s.previous, s.active)
    /\ IF s.changed
       THEN /\ v.active = s.previous /\ v.current = App!Previous(v)
            /\ v.at[s.active] = {"right"} /\ v.at[s.previous] = {"center"}
       ELSE Still(v, s.active)

\* Data that was lost leaves the pages as they are, for good.
Lost(v, w) == ~v.free /\ w = <<>> /\ \E p \in Page : Still(v, p)

AppInv ==
    ~crossed => /\ IF appSwipe # NULL THEN appTouch = NULL /\ Slides(view, wire, appSwipe)
                   ELSE Known(view, wire) \/ Lost(view, wire)
                /\ Holds(view, appTouch)
                /\ appShown => App!Shows(wire) \/ "network" \in appLost

\* A page element is left for the page that comes.
Spare(v) == \E a, b \in Page : App!ToSet(v.dom) \cup App!Held \subseteq {a, b}

\* One element of a sequence is a subsequence.
LEMMA OneOf == ASSUME NEW s, NEW m \in Int PROVE SubSeq(s, m, m) = <<s[m]>>
<1> DEFINE S == {s[m]}
           t == SubSeq(s, m, m)
<1>1. \A i \in m .. m : s[i] \in S OBVIOUS
<1> HIDE DEF S
<1>2. t \in Seq(S) /\ Len(t) = 1 /\ t[1] = s[m]
  <2>1. /\ t \in Seq(S) /\ Len(t) = IF m <= m THEN m - m + 1 ELSE 0
        /\ \A i \in 1 .. m - m + 1 : t[i] = s[m + i - 1]
    BY <1>1, SubSeqProperties
  <2>2. 1 \in 1 .. m - m + 1 /\ m + 1 - 1 = m OBVIOUS
  <2> HIDE DEF t
  <2> QED BY <2>1, <2>2
<1> HIDE DEF t
<1>3. t = <<s[m]>> BY <1>2
<1> QED BY <1>3 DEF t

\* Two sequences of one element make a pair.
LEMMA TwoOf == ASSUME NEW a, NEW b PROVE <<a>> \o <<b>> = <<a, b>>
<1> DEFINE S == {a, b}
           t == <<a>> \o <<b>>
<1>1. <<a>> \in Seq(S) /\ <<b>> \in Seq(S) /\ Len(<<a>>) = 1 /\ Len(<<b>>) = 1 OBVIOUS
<1> HIDE DEF S
<1>2. t \in Seq(S) /\ Len(t) = 2 /\ t[1] = a /\ t[2] = b BY <1>1, ConcatProperties
<1> HIDE DEF t
<1>3. t = <<a, b>> BY <1>2
<1> QED BY <1>3 DEF t

\* One more makes two of one.
LEMMA AppendTwo == ASSUME NEW a, NEW b PROVE Append(<<a>>, b) = <<a, b>>
<1> DEFINE S == {a, b}
           t == Append(<<a>>, b)
<1>1. <<a>> \in Seq(S) /\ Len(<<a>>) = 1 /\ b \in S /\ <<a>>[1] = a OBVIOUS
<1> HIDE DEF S
<1>2. t \in Seq(S) /\ Len(t) = 2 /\ t[1] = a /\ t[2] = b BY <1>1, AppendProperties
<1> HIDE DEF t
<1>3. t = <<a, b>> BY <1>2
<1> QED BY <1>3 DEF t

\* What the router makes of the pages: the one that goes, the last one, and
\* the one that is put before it.
LEMMA PagesMade ==
    ASSUME NEW p \in Page, NEW q \in Page
    PROVE  /\ p # q => App!Without(<<q, p>>, p) = <<q>>
           /\ App!Kept(<<q, p>>) = <<p>> /\ App!Kept(<<p>>) = <<p>>
           /\ App!InsertAt(<<p>>, 1, q) = <<q, p>>
<1> DEFINE two == <<q, p>>
           one == <<p>>
<1>1. two[1] = q /\ two[2] = p /\ Len(two) = 2 /\ one[1] = p /\ Len(one) = 1 OBVIOUS
<1>2. App!ToSet(two) = {q, p} /\ DOMAIN two = {1, 2} BY DEF App!ToSet
<1>3. <<q>> \in Seq(Page) OBVIOUS
<1>4. <<q>> \o one = two BY TwoOf
<1> HIDE DEF two, one
<1>5. SubSeq(two, 1, 1) = <<q>> /\ SubSeq(two, 2, 2) = <<p>> /\ SubSeq(one, 1, 1) = <<p>>
  <2>1. SubSeq(two, 1, 1) = <<q>> BY <1>1, OneOf
  <2>2. SubSeq(two, 2, 2) = <<p>> BY <1>1, OneOf
  <2>3. SubSeq(one, 1, 1) = <<p>> BY <1>1, OneOf
  <2> QED BY <2>1, <2>2, <2>3
<1>6. SubSeq(two, 3, 2) = <<>> /\ SubSeq(one, 1, 0) = <<>> BY SubSeqEmpty
<1>7. <<q>> \o <<>> = <<q>> /\ <<>> \o <<q>> = <<q>> BY <1>3, ConcatEmptySeq
<1>8. p # q => App!Without(two, p) = <<q>>
  <2> SUFFICES ASSUME p # q PROVE App!Without(two, p) = <<q>>
    OBVIOUS
  <2>1. (CHOOSE i \in DOMAIN two : two[i] = p) = 2 BY <1>1, <1>2
  <2>2. App!RemoveAt(two, 2) = SubSeq(two, 1, 1) \o SubSeq(two, 3, 2) BY <1>1 DEF App!RemoveAt
  <2> QED BY <1>2, <1>5, <1>6, <1>7, <2>1, <2>2 DEF App!Without
<1>9. App!Kept(two) = <<p>> /\ App!Kept(one) = <<p>> BY <1>1, <1>5 DEF App!Kept
<1>10. App!InsertAt(one, 1, q) = two
  <2>1. App!InsertAt(one, 1, q) = SubSeq(one, 1, 0) \o <<q>> \o SubSeq(one, 1, 1)
    BY <1>1 DEF App!InsertAt
  <2>2. SubSeq(one, 1, 1) = one BY <1>5 DEF one
  <2> QED BY <1>4, <1>6, <1>7, <2>1, <2>2
<1> QED BY <1>8, <1>9, <1>10 DEF two, one

\* One request is answered.
LEMMA Answered == ASSUME NEW r PROVE App!RemoveAt(<<r>>, 1) = <<>> /\ Append(<<>>, r) = <<r>>
<1>1. SubSeq(<<r>>, 1, 0) = <<>> /\ SubSeq(<<r>>, 2, 1) = <<>> BY SubSeqEmpty
<1>2. <<>> \o <<>> = <<>> BY ConcatEmptySeq
<1>3. Len(<<r>>) = 1 OBVIOUS
<1> QED BY <1>1, <1>2, <1>3 DEF App!RemoveAt

\* A page that comes takes an element that nothing holds.
LEMMA FreshIs ==
    ASSUME NEW v, v.anim = {}, Spare(v)
    PROVE  App!Fresh(v) \in Page /\ App!Fresh(v) \notin App!ToSet(v.dom)
<1>1. UNION {{a.new, a.old} : a \in v.anim} = {}
  OBVIOUS
<1>2. PICK a, b \in Page : App!ToSet(v.dom) \cup App!Held \subseteq {a, b}
  BY DEF Spare
<1>3. \E r \in Page : r \notin {a, b}
  BY AssumptionOfPages DEF App!PagesAssumption
<1> QED BY <1>1, <1>2, <1>3 DEF App!Fresh

\* router._load: beside the page that was last, the one that was asked for enters.
LEMMA LoadEnters ==
    ASSUME NEW v, NEW p \in Page, Still(v, p), ~v.free, Spare(v), NEW u \in App!Url
    PROVE  Enters(App!Loaded(v, u), <<>>)
<1> DEFINE new == App!Fresh(v)
           r == App!Loaded(v, u)
           cut == App!Removed(v, <<p>>, <<p>>)
           e == App!Entered(cut, new, u)
<1>1. v.dom = <<p>> \/ \E q \in Page : p # q /\ v.dom = <<q, p>>
  BY DEF Still, Alone, Pair
<1>2. App!Top(v) = p /\ App!Kept(v.dom) = <<p>> /\ App!Kept(v.bars) = <<p>>
  <2>1. v.bars = v.dom BY DEF Still, Alone, Pair
  <2>2. CASE v.dom = <<p>>
    <3>1. Len(v.dom) = 1 /\ v.dom[1] = p BY <2>2
    <3> QED BY <2>1, <2>2, <3>1, PagesMade DEF App!Top
  <2>3. ASSUME NEW q \in Page, v.dom = <<q, p>>
        PROVE  App!Top(v) = p /\ App!Kept(v.dom) = <<p>> /\ App!Kept(v.bars) = <<p>>
    <3>1. Len(v.dom) = 2 /\ v.dom[2] = p BY <2>3
    <3>2. App!Kept(<<q, p>>) = <<p>> BY <2>3, PagesMade
    <3> QED BY <2>1, <2>3, <3>1, <3>2 DEF App!Top
  <2> QED BY <1>1, <2>2, <2>3
<1>3. new \in Page /\ new # p
  <2>1. p \in App!ToSet(v.dom) BY <1>1 DEF App!ToSet
  <2> QED BY <2>1, FreshIs DEF Still
<1>4. r = App!Moving(App!Animates(e, new), p, new, "load")
  BY <1>2 DEF App!Loaded
<1> HIDE DEF new
<1> DEFINE at == [x \in Page |-> IF x \in App!ToSet(v.dom) \ App!ToSet(<<p>>) THEN {} ELSE v.at[x]]
<1>5. /\ cut.dom = <<p>> /\ cut.bars = <<p>> /\ cut.url = v.url /\ cut.at = at
      /\ cut.history = v.history /\ cut.free = FALSE /\ cut.anim = {}
      /\ cut.active = v.active /\ cut.current = v.current
  <2>1. cut = [v EXCEPT !.dom = <<p>>, !.bars = <<p>>, !.at = at]
    BY DEF App!Removed
  <2> HIDE DEF cut, at
  <2>2. v.free = FALSE
    BY DEF Still, ViewTyped
  <2> QED BY <2>1, <2>2 DEF Still, ViewTyped
<1>6. at \in [Page -> SUBSET App!Where]
  BY DEF Still, ViewTyped
<1>7. <<p>> \in Seq(Page) /\ <<p, new>> \in Seq(Page) /\ Append(<<p>>, new) = <<p, new>>
  BY <1>3, AppendTwo
<1>8. ViewTyped(cut)
  <2>1. cut = [v EXCEPT !.dom = <<p>>, !.bars = <<p>>, !.at = at]
    BY DEF App!Removed
  <2> HIDE DEF cut, at
  <2> QED BY <1>6, <1>7, <2>1 DEF Still, ViewTyped
<1> HIDE DEF cut, at
<1>9. Append(v.history, u) \in Seq(App!Url)
  BY DEF Still, ViewTyped
<1>10. e = [cut EXCEPT !.dom = <<p, new>>, !.bars = <<p, new>>, !.url = [v.url EXCEPT ![new] = u],
                       !.current = u, !.history = Append(v.history, u), !.active = new]
  <2>1. e = App!Inited([cut EXCEPT !.dom = Append(cut.dom, new), !.bars = Append(cut.bars, new),
               !.url = [cut.url EXCEPT ![new] = u],
               !.current = u, !.history = Append(cut.history, u)], new)
    BY DEF App!Entered
  <2> QED BY <1>5, <1>7, <2>1 DEF App!Inited
<1> HIDE DEF e
<1>11. /\ e.dom = <<p, new>> /\ e.bars = <<p, new>> /\ e.url = [v.url EXCEPT ![new] = u]
       /\ e.current = u /\ e.history = Append(v.history, u) /\ e.active = new
       /\ e.free = FALSE /\ e.anim = {} /\ e.at = at
  BY <1>5, <1>8, <1>10 DEF ViewTyped
<1>12. ViewTyped(e)
  <2>1. [v.url EXCEPT ![new] = u] \in [Page -> App!Url]
    BY DEF Still, ViewTyped
  <2> QED BY <1>3, <1>7, <1>8, <1>9, <1>10, <2>1 DEF ViewTyped
<1>13. r = [e EXCEPT !.at = [at EXCEPT ![p] = {"toLeft"}, ![new] = {"toCenter"}],
                     !.active = new, !.anim = {[op |-> "load", new |-> new, old |-> p]}]
  <2>1. r = App!Moving([e EXCEPT !.active = new], p, new, "load")
    BY <1>4 DEF App!Animates
  <2> DEFINE x == [e EXCEPT !.active = new]
  <2>2. x.at = at /\ x.anim = {}
    BY <1>11, <1>12 DEF ViewTyped
  <2>3. App!Moving(x, p, new, "load") =
            [x EXCEPT !.at = [x.at EXCEPT ![p] = {"toLeft"}, ![new] = {"toCenter"}],
                      !.anim = x.anim \cup {[op |-> "load", new |-> new, old |-> p]}]
    BY DEF App!Moving
  <2>4. {} \cup {[op |-> "load", new |-> new, old |-> p]} = {[op |-> "load", new |-> new, old |-> p]}
    OBVIOUS
  <2> QED BY <2>1, <2>2, <2>3, <2>4
<1> HIDE DEF r
<1>14. /\ r.dom = <<p, new>> /\ r.bars = <<p, new>> /\ r.url = [v.url EXCEPT ![new] = u]
       /\ r.current = u /\ r.history = Append(v.history, u) /\ r.active = new /\ r.free = FALSE
       /\ r.anim = {[op |-> "load", new |-> new, old |-> p]}
       /\ r.at = [at EXCEPT ![p] = {"toLeft"}, ![new] = {"toCenter"}]
  BY <1>11, <1>12, <1>13 DEF ViewTyped
<1>15. ViewTyped(r)
  <2>1. [at EXCEPT ![p] = {"toLeft"}, ![new] = {"toCenter"}] \in [Page -> SUBSET App!Where]
    BY <1>6 DEF App!Where
  <2>2. {[op |-> "load", new |-> new, old |-> p]} \in SUBSET Anim
    BY <1>3 DEF Anim
  <2> QED BY <1>3, <1>12, <1>13, <2>1, <2>2 DEF ViewTyped
<1>16. Enters(r, <<>>)
  <2>1. Len(r.history) >= 2 /\ r.history[Len(r.history) - 1] = v.url[p] /\ r.history[Len(r.history)] = u
    BY <1>14 DEF Still, Named, ViewTyped
  <2>2. Moves(r, <<>>, "load", new, p)
    BY <1>14, <1>15 DEF Moves
  <2>3. Pair(r, p, new) /\ Named(r, new)
    BY <1>3, <1>14, <2>1 DEF Pair, Named, App!Previous, Still, ViewTyped
  <2>4. r.at[p] = {"toLeft"} /\ r.at[new] = {"toCenter"}
    BY <1>3, <1>6, <1>14
  <2> QED BY <1>3, <2>2, <2>3, <2>4, Zenon DEF Enters
<1> QED BY <1>16 DEF r

\* Still(v, p), with the page q on the left.
Beside(v, q, p) ==
    ViewTyped(v) /\ Named(v, p) /\ v.anim = {} /\ v.at[p] = {"center"} /\ Pair(v, q, p) /\ v.at[q] = {"left"}

\* router._back: the page before is put on the left.
LEMMA InsertBeside ==
    ASSUME NEW v, NEW p \in Page, Still(v, p), Alone(v, p), ~v.free, Spare(v), Len(v.history) >= 2
    PROVE  \E q \in Page : Beside(App!InsertedLeft(v, App!Previous(v)), q, p)
                           /\ ~App!InsertedLeft(v, App!Previous(v)).free
<1> DEFINE new == App!Fresh(v)
           u == App!Previous(v)
           r == App!InsertedLeft(v, u)
<1>1. v.dom = <<p>> /\ v.bars = <<p>> /\ ViewTyped(v)
  BY DEF Still, Alone
<1>2. new \in Page /\ new # p
  <2>1. p \in App!ToSet(v.dom) BY <1>1 DEF App!ToSet
  <2> QED BY <2>1, FreshIs DEF Still
<1>3. u \in App!Url
  BY <1>1 DEF ViewTyped, App!Previous
<1> HIDE DEF u
<1>4. r = [v EXCEPT !.dom = <<new, p>>, !.bars = <<new, p>>, !.url = [v.url EXCEPT ![new] = u],
                    !.at = [v.at EXCEPT ![new] = {"left"}]]
  <2>1. App!InsertAt(<<p>>, Len(<<p>>), new) = <<new, p>>
    BY <1>2, PagesMade
  <2> HIDE DEF new
  <2> QED BY <1>1, <2>1 DEF App!InsertedLeft, new
<1> HIDE DEF new, r
<1>5. /\ r.dom = <<new, p>> /\ r.bars = <<new, p>> /\ r.url = [v.url EXCEPT ![new] = u]
      /\ r.at = [v.at EXCEPT ![new] = {"left"}] /\ r.history = v.history /\ r.current = v.current
      /\ r.active = v.active /\ r.free = v.free /\ r.anim = v.anim
  BY <1>1, <1>4 DEF ViewTyped
<1>6. ViewTyped(r)
  <2>1. <<new, p>> \in Seq(Page)
    BY <1>2
  <2>2. [v.at EXCEPT ![new] = {"left"}] \in [Page -> SUBSET App!Where]
    BY <1>1 DEF ViewTyped, App!Where
  <2>3. [v.url EXCEPT ![new] = u] \in [Page -> App!Url]
    BY <1>1, <1>3 DEF ViewTyped
  <2> QED BY <1>1, <1>4, <2>1, <2>2, <2>3 DEF ViewTyped
<1>7. r.url[new] = u /\ r.url[p] = v.url[p] /\ r.at[new] = {"left"} /\ r.at[p] = v.at[p]
  BY <1>1, <1>2, <1>5 DEF ViewTyped
<1>8. Pair(r, new, p)
  BY <1>2, <1>5, <1>7 DEF Pair, App!Previous, u
<1>9. Named(r, p)
  BY <1>5, <1>7 DEF Named, Still
<1>10. Beside(r, new, p) /\ ~r.free
  BY <1>5, <1>6, <1>7, <1>8, <1>9 DEF Beside, Still
<1> QED BY <1>2, <1>10 DEF r, u

\* router._back, animateBack: the page on the left comes, the last one leaves.
LEMMA BackLeaves ==
    ASSUME NEW v, NEW p \in Page, NEW q \in Page, Beside(v, q, p), ~v.free
    PROVE  Leaves(App!AnimateBack(v), <<>>)
<1> DEFINE u == App!Previous(v)
           r == App!AnimateBack(v)
           e == App!Animates([v EXCEPT !.current = u], q)
           a == [op |-> "back", new |-> q, old |-> p]
<1>1. v.dom = <<q, p>> /\ v.bars = <<q, p>> /\ ViewTyped(v) /\ p # q /\ v.free = FALSE
  BY DEF Beside, Pair, ViewTyped
<1>2. u \in App!Url /\ u = v.url[q]
  BY <1>1 DEF ViewTyped, App!Previous, Beside, Pair
<1>3. v.dom[Len(v.dom) - 1] = q /\ App!Top(v) = p
  <2>1. Len(v.dom) = 2 /\ v.dom[1] = q /\ v.dom[2] = p BY <1>1
  <2> QED BY <2>1 DEF App!Top
<1>4. r = App!Moving(e, q, p, "back")
  BY <1>3 DEF App!AnimateBack
<1> HIDE DEF u
<1>5. e = [v EXCEPT !.current = u, !.active = q]
  BY DEF App!Animates
<1> HIDE DEF e
<1>6. e.at = v.at /\ e.anim = {} 
  BY <1>1, <1>5 DEF ViewTyped, Beside
<1>7. r = [e EXCEPT !.at = [v.at EXCEPT ![q] = {"toCenter"}, ![p] = {"toRight"}], !.anim = {a}]
  <2>1. App!Moving(e, q, p, "back") =
            [e EXCEPT !.at = [e.at EXCEPT ![q] = {"toCenter"}, ![p] = {"toRight"}],
                      !.anim = e.anim \cup {a}]
    BY DEF App!Moving
  <2>2. {} \cup {a} = {a}
    OBVIOUS
  <2> QED BY <1>4, <1>6, <2>1, <2>2
<1> HIDE DEF r
<1>8. r = [v EXCEPT !.current = u, !.active = q,
                    !.at = [v.at EXCEPT ![q] = {"toCenter"}, ![p] = {"toRight"}], !.anim = {a}]
  BY <1>1, <1>5, <1>7 DEF ViewTyped
<1>9. /\ r.dom = <<q, p>> /\ r.bars = <<q, p>> /\ r.url = v.url /\ r.history = v.history
      /\ r.at = [v.at EXCEPT ![q] = {"toCenter"}, ![p] = {"toRight"}] /\ r.current = u
      /\ r.active = q /\ r.free = FALSE /\ r.anim = {a}
  BY <1>1, <1>8 DEF ViewTyped
<1>10. ViewTyped(r)
  <2>1. [v.at EXCEPT ![q] = {"toCenter"}, ![p] = {"toRight"}] \in [Page -> SUBSET App!Where]
    BY <1>1 DEF ViewTyped, App!Where
  <2>2. {a} \in SUBSET Anim
    BY DEF Anim
  <2> QED BY <1>1, <1>2, <1>8, <2>1, <2>2 DEF ViewTyped
<1>11. r.at[q] = {"toCenter"} /\ r.at[p] = {"toRight"}
  BY <1>1, <1>9 DEF ViewTyped
<1>12. Leaves(r, <<>>)
  <2>1. Moves(r, <<>>, "back", q, p)
    BY <1>9, <1>10 DEF Moves
  <2>2. Pair(r, q, p) /\ r.current = r.url[q]
    BY <1>1, <1>2, <1>9 DEF Pair, App!Previous, Beside
  <2> QED BY <1>9, <1>11, <2>1, <2>2, Zenon DEF Leaves
<1> QED BY <1>12 DEF r

\* Whether pages may change says nothing else of them.
LEMMA FreeStill ==
    ASSUME NEW v, NEW p \in Page, Still(v, p), NEW b \in BOOLEAN
    PROVE  /\ Still([v EXCEPT !.free = b], p) /\ [v EXCEPT !.free = b].free = b
           /\ [v EXCEPT !.free = b].dom = v.dom /\ [v EXCEPT !.free = b].history = v.history
           /\ [v EXCEPT !.free = b].current = v.current
           /\ Alone(v, p) => Alone([v EXCEPT !.free = b], p)
           /\ \A q \in Page : Pair(v, q, p) => Pair([v EXCEPT !.free = b], q, p)
<1> DEFINE r == [v EXCEPT !.free = b]
<1>1. /\ r.dom = v.dom /\ r.bars = v.bars /\ r.url = v.url /\ r.at = v.at /\ r.history = v.history
      /\ r.current = v.current /\ r.active = v.active /\ r.free = b /\ r.anim = v.anim
      /\ ViewTyped(r)
  BY DEF Still, ViewTyped
<1> HIDE DEF r
<1>2. Named(r, p) /\ r.anim = {} /\ r.at[p] = {"center"}
  BY <1>1 DEF Still, Named
<1>3. Alone(v, p) => Alone(r, p)
  BY <1>1 DEF Alone
<1>4. \A q \in Page : Pair(v, q, p) => Pair(r, q, p)
  BY <1>1 DEF Pair, App!Previous
<1>5. Still(r, p)
  BY <1>1, <1>2, <1>3, <1>4 DEF Still
<1> QED BY <1>1, <1>3, <1>4, <1>5 DEF r

\* Where loads and ways back lead to.
Reached(v, w, op) ==
    \/ op = "load" /\ Enters(v, w)
    \/ op = "back" /\ Leaves(v, w)
    \/ op = "preload" /\ Rests(v, w)

\* router._back: with the page before beside it, or put there.
LEMMA BackReaches ==
    ASSUME NEW v, NEW p \in Page, Still(v, p), ~v.free, NEW op \in {"back", "preload"}, NEW u,
           Len(v.dom) = 1 => Spare(v) /\ Len(v.history) >= 2 /\ u = App!Previous(v)
    PROVE  Reached(App!Backed(v, op, u), <<>>, op)
<1> DEFINE two == IF Len(v.dom) > 1 THEN v ELSE App!InsertedLeft(v, u)
<1>1. PICK q \in Page : Beside(two, q, p) /\ ~two.free
  <2>1. CASE Alone(v, p)
    <3>1. Len(v.dom) = 1
      BY <2>1 DEF Alone
    <3>2. two = App!InsertedLeft(v, App!Previous(v))
      BY <3>1
    <3> HIDE DEF two
    <3> QED BY <2>1, <3>1, <3>2, InsertBeside
  <2>2. ASSUME NEW q \in Page, Pair(v, q, p), v.at[q] = {"left"}
        PROVE  Beside(two, q, p) /\ ~two.free
    <3>1. Len(v.dom) = 2
      BY <2>2 DEF Pair
    <3>2. two = v
      BY <3>1
    <3> HIDE DEF two
    <3> QED BY <2>2, <3>2 DEF Beside, Still
  <2> HIDE DEF two
  <2> QED BY <2>1, <2>2 DEF Still
<1> HIDE DEF two
<1>2. CASE op = "preload"
  <2>1. App!Backed(v, op, u) = [two EXCEPT !.free = TRUE]
    BY <1>2 DEF App!Backed, two
  <2>2. Still(two, p)
    BY <1>1 DEF Still, Beside
  <2>3. Still([two EXCEPT !.free = TRUE], p) /\ [two EXCEPT !.free = TRUE].free
    BY <2>2, FreeStill
  <2> QED BY <1>2, <2>1, <2>3 DEF Reached, Rests
<1>3. CASE op = "back"
  <2>1. App!Backed(v, op, u) = App!AnimateBack(two)
    BY <1>3 DEF App!Backed, two
  <2>2. Leaves(App!AnimateBack(two), <<>>)
    BY <1>1, BackLeaves
  <2> QED BY <1>3, <2>1, <2>2 DEF Reached
<1> QED BY <1>2, <1>3

\* What a request leads to once all of it is there.
LEMMA ArriveReaches ==
    ASSUME NEW v, NEW p \in Page, Still(v, p), ~v.free, Spare(v), NEW u \in App!Url,
           NEW op \in {"load", "back", "preload"}, Asks(v, [op |-> op, url |-> u])
    PROVE  Reached(App!Arrive(v, op, u), <<>>, op)
<1>1. CASE op = "load"
  BY <1>1, LoadEnters DEF App!Arrive, Reached
<1>2. CASE op # "load"
  <2>1. App!Arrive(v, op, u) = App!Backed(v, op, u)
    BY <1>2 DEF App!Arrive
  <2>2. Reached(App!Backed(v, op, u), <<>>, op)
    BY <1>2, BackReaches DEF Asks
  <2> QED BY <2>1, <2>2
<1> QED BY <1>1, <1>2

\* router.preprocess: the page arrives, or data is asked for first.
LEMMA PreprocessReaches ==
    ASSUME NEW v, NEW p \in Page, Still(v, p), ~v.free, Spare(v), NEW u \in App!Url,
           NEW op \in {"load", "back", "preload"}, Asks(v, [op |-> op, url |-> u]),
           NEW o, o = App!Preprocess(v, <<>>, op, u)
    PROVE  Reached(o.view, o.wire, op) \/ Waits(o.view, o.wire)
<1>1. CASE App!Prepared(u)
  <2>1. o.view = App!Arrive(v, op, u) /\ o.wire = <<>>
    BY <1>1 DEF App!Preprocess, App!Out
  <2> QED BY <2>1, ArriveReaches
<1>2. CASE ~App!Prepared(u)
  <2> DEFINE r == [step |-> "data", op |-> op, url |-> u]
  <2>1. o.view = v /\ o.wire = Append(<<>>, r)
    BY <1>2 DEF App!Preprocess, App!Out, App!Request
  <2>2. Append(<<>>, r) = <<r>>
    BY Answered
  <2>3. r \in WireRequest /\ Asks(v, r)
    BY DEF WireRequest, Asks
  <2> HIDE DEF r
  <2> QED BY <2>1, <2>2, <2>3 DEF Waits
<1> QED BY <1>1, <1>2

\* Without requests none is of a page, and none is aborted.
LEMMA NoWire == ~App!Shows(<<>>) /\ App!Abort(<<>>) = <<>>
BY DEF App!Shows, App!Abort

\* app.get: the page that was asked for is awaited, or comes from the cache.
LEMMA GetReaches ==
    ASSUME NEW v, NEW p \in Page, Still(v, p), Spare(v), NEW u \in App!Url,
           NEW op \in {"load", "back", "preload"}, Asks(v, [op |-> op, url |-> u]),
           NEW o \in App!Get(v, <<>>, op, u)
    PROVE  Reached(o.view, o.wire, op) \/ Waits(o.view, o.wire)
<1> DEFINE f == [v EXCEPT !.free = FALSE]
<1>1. Still(f, p) /\ ~f.free /\ f.dom = v.dom /\ f.history = v.history /\ f.anim = v.anim
  <2>1. f.anim = v.anim
    BY DEF Still, ViewTyped
  <2>2. Still(f, p) /\ f.free = FALSE /\ f.dom = v.dom /\ f.history = v.history
    BY FreeStill
  <2> QED BY <2>1, <2>2
<1>2. o \in {App!Out(f, Append(App!Abort(<<>>), App!Request("page", op, u)))}
            \cup (IF u \in cache THEN {App!Preprocess(f, App!Abort(<<>>), op, u)} ELSE {})
  BY DEF App!Get
<1> HIDE DEF f
<1>3. Spare(f) /\ Asks(f, [op |-> op, url |-> u])
  BY <1>1 DEF Spare, Asks, App!Previous
<1>4. CASE o = App!Out(f, Append(App!Abort(<<>>), App!Request("page", op, u)))
  <2> DEFINE r == [step |-> "page", op |-> op, url |-> u]
  <2>1. o.view = f /\ o.wire = Append(<<>>, r)
    BY <1>4, NoWire DEF App!Out, App!Request
  <2>2. Append(<<>>, r) = <<r>>
    BY Answered
  <2>3. r \in WireRequest /\ Asks(f, r)
    BY <1>3 DEF WireRequest, Asks
  <2> HIDE DEF r
  <2> QED BY <1>1, <2>1, <2>2, <2>3 DEF Waits
<1>5. CASE o = App!Preprocess(f, App!Abort(<<>>), op, u)
  <2>1. o = App!Preprocess(f, <<>>, op, u)
    BY <1>5, NoWire
  <2> QED BY <1>1, <1>3, <2>1, PreprocessReaches
<1> QED BY <1>2, <1>4, <1>5

\* router.back: where it leads to, or nothing when there is no page before.
LEMMA RouterBackReaches ==
    ASSUME NEW v, NEW p \in Page, Still(v, p), v.free, Spare(v), NEW op \in {"back", "preload"},
           NEW o \in App!RouterBack(v, <<>>, op)
    PROVE  Reached(o.view, o.wire, op) \/ Waits(o.view, o.wire) \/ Rests(o.view, o.wire)
<1>1. CASE Len(v.dom) > 1
  <2> DEFINE f == [v EXCEPT !.free = FALSE]
  <2>1. Still(f, p) /\ f.free = FALSE /\ f.dom = v.dom
    BY FreeStill
  <2>2. o = App!Out(App!Backed(f, op, NULL), App!Abort(<<>>))
    BY <1>1 DEF App!RouterBack
  <2> HIDE DEF f
  <2>3. o.view = App!Backed(f, op, NULL) /\ o.wire = <<>>
    BY <2>2, NoWire DEF App!Out
  <2>4. ~(Len(f.dom) = 1)
    <3> SUFFICES ASSUME Len(f.dom) = 1 PROVE FALSE
      OBVIOUS
    <3>1. Len(v.dom) = 1
      BY <2>1
    <3> QED BY <1>1, <3>1
  <2>5. Reached(App!Backed(f, op, NULL), <<>>, op)
    <3>1. Len(f.dom) = 1 => Spare(f) /\ Len(f.history) >= 2 /\ NULL = App!Previous(f)
      BY <2>4
    <3>2. Still(f, p) /\ ~f.free
      BY <2>1
    <3> QED BY <3>1, <3>2, BackReaches, Zenon
  <2> QED BY <2>3, <2>5
<1>2. CASE ~(Len(v.dom) > 1) /\ Len(v.history) < 2
  <2>1. o = App!Out(v, App!Abort(<<>>))
    BY <1>2 DEF App!RouterBack
  <2> QED BY <2>1, NoWire DEF App!Out, Rests
<1>3. CASE ~(Len(v.dom) > 1) /\ ~(Len(v.history) < 2)
  <2>1. o \in App!Get(v, <<>>, op, App!Previous(v))
    BY <1>3 DEF App!RouterBack
  <2>2. App!Previous(v) \in App!Url /\ Len(v.history) >= 2
    BY <1>3 DEF Still, ViewTyped, App!Previous
  <2>3. Len(v.dom) = 1
    <3>1. ASSUME NEW q \in Page, v.dom = <<q, p>> PROVE FALSE
      <4>1. Len(v.dom) = 2
        BY <3>1
      <4> QED BY <1>3, <4>1
    <3>2. v.dom = <<p>> \/ \E q \in Page : v.dom = <<q, p>>
      BY DEF Still, Alone, Pair
    <3>3. v.dom = <<p>>
      BY <3>1, <3>2
    <3> QED BY <3>3
  <2>4. Asks(v, [op |-> op, url |-> App!Previous(v)])
    BY <2>2, <2>3 DEF Asks
  <2> QED BY <2>1, <2>2, <2>4, GetReaches
<1> QED BY <1>1, <1>2, <1>3

\* router.afterBack: the page that left is gone, the one that came is at rest, and
\* the page before it is there or asked for.
LEMMA AfterBackReaches ==
    ASSUME NEW v, ViewTyped(v), v.anim = {}, NEW p \in Page, NEW q \in Page, Pair(v, q, p),
           v.active = q, v.current = v.url[q], v.at[q] \in {{"toCenter"}, {"center"}},
           App!Held \subseteq {p, q}, NEW o \in App!AfterBack(v, <<>>, p, q)
    PROVE  Waits(o.view, o.wire) \/ Rests(o.view, o.wire)
<1> DEFINE one == <<q>>
           at == [x \in Page |-> IF x \in App!ToSet(v.dom) \ App!ToSet(one) THEN {} ELSE v.at[x]]
           gone == App!Removed(v, one, one)
           past == SubSeq(v.history, 1, Len(v.history) - 1)
           r == [gone EXCEPT !.at[q] = (@ \ {"left", "toCenter"}) \cup {"center"},
                             !.free = TRUE, !.history = SubSeq(@, 1, Len(@) - 1)]
<1>1. v.dom = <<q, p>> /\ v.bars = <<q, p>> /\ p # q /\ Len(v.history) >= 2 /\ v.history \in Seq(App!Url)
  BY DEF Pair, ViewTyped
<1>2. o \in App!RouterBack(r, <<>>, "preload")
  <2>1. App!Without(<<q, p>>, p) = <<q>>
    BY <1>1, PagesMade
  <2> QED BY <1>1, <2>1 DEF App!AfterBack
<1>3. gone = [v EXCEPT !.dom = one, !.bars = one, !.at = at]
  BY DEF App!Removed
<1>4. one \in Seq(Page) /\ at \in [Page -> SUBSET App!Where] /\ at[q] = v.at[q]
  <2>1. q \in App!ToSet(one)
    BY DEF App!ToSet
  <2> QED BY <2>1 DEF ViewTyped
<1>5. App!ToSet(one) = {q}
  BY DEF App!ToSet
<1>6. past \in Seq(App!Url) /\ Len(past) = Len(v.history) - 1 /\ past[Len(past)] = v.url[q]
  <2>1. \A i \in 1 .. Len(v.history) - 1 : v.history[i] \in App!Url
    BY <1>1
  <2>2. /\ past \in Seq(App!Url)
        /\ Len(past) = IF 1 <= Len(v.history) - 1 THEN Len(v.history) - 1 - 1 + 1 ELSE 0
        /\ \A i \in 1 .. (Len(v.history) - 1) - 1 + 1 : past[i] = v.history[1 + i - 1]
    BY <1>1, <2>1, SubSeqProperties
  <2> HIDE DEF past
  <2>3. v.url[q] = v.history[Len(v.history) - 1]
    BY DEF Pair, App!Previous
  <2> QED BY <1>1, <2>2, <2>3
<1> HIDE DEF one, at, gone
<1>7. gone.at = at /\ gone.history = v.history
  BY <1>3 DEF ViewTyped
<1>8. r = [gone EXCEPT !.at = [at EXCEPT ![q] = {"center"}], !.free = TRUE, !.history = past]
  <2>1. (at[q] \ {"left", "toCenter"}) \cup {"center"} = {"center"}
    BY <1>4
  <2>2. r = [gone EXCEPT !.at = [gone.at EXCEPT ![q] = (gone.at[q] \ {"left", "toCenter"}) \cup {"center"}],
                         !.free = TRUE, !.history = SubSeq(gone.history, 1, Len(gone.history) - 1)]
    OBVIOUS
  <2> QED BY <1>7, <2>1, <2>2
<1> HIDE DEF r, past
<1>9. r = [v EXCEPT !.dom = one, !.bars = one, !.at = [at EXCEPT ![q] = {"center"}],
                    !.free = TRUE, !.history = past]
  BY <1>3, <1>8 DEF ViewTyped
<1>10. /\ r.dom = one /\ r.bars = one /\ r.at = [at EXCEPT ![q] = {"center"}] /\ r.free = TRUE
       /\ r.history = past /\ r.url = v.url /\ r.active = v.active /\ r.current = v.current
       /\ r.anim = v.anim
  BY <1>9 DEF ViewTyped
<1>11. ViewTyped(r)
  <2>1. [at EXCEPT ![q] = {"center"}] \in [Page -> SUBSET App!Where]
    BY <1>4 DEF App!Where
  <2> QED BY <1>4, <1>6, <1>9, <2>1 DEF ViewTyped
<1>12. Still(r, q)
  <2>1. r.at[q] = {"center"}
    BY <1>4, <1>10
  <2>2. Named(r, q)
    BY <1>1, <1>6, <1>10 DEF Named
  <2> QED BY <1>10, <1>11, <2>1, <2>2 DEF Still, Alone, one
<1>13. Spare(r)
  BY <1>5, <1>10 DEF Spare
<1> QED BY <1>2, <1>10, <1>12, <1>13, RouterBackReaches DEF Reached

\* Pages at rest leave an element for the one that comes, whatever a finger holds.
LEMMA StillSpare ==
    ASSUME NEW v, NEW p \in Page, Still(v, p), Holds(v, appTouch), appSwipe = NULL
    PROVE  Spare(v)
<1>1. PICK q \in Page : v.dom = <<p>> \/ v.dom = <<q, p>>
  BY DEF Still, Alone, Pair
<1>2. App!ToSet(v.dom) \subseteq {q, p}
  BY <1>1 DEF App!ToSet
<1>3. App!Held \subseteq {q, p}
  <2> SUFFICES ASSUME appTouch # NULL PROVE {appTouch.active, appTouch.previous} \subseteq {q, p}
    BY DEF App!Held
  <2>1. App!Top(v) = p /\ (Len(v.dom) = 2 => v.dom[1] = q)
    <3>1. CASE v.dom = <<p>>
      <4>1. Len(v.dom) = 1 /\ v.dom[1] = p
        BY <3>1
      <4> QED BY <4>1 DEF App!Top
    <3>2. CASE v.dom = <<q, p>>
      <4>1. Len(v.dom) = 2 /\ v.dom[1] = q /\ v.dom[2] = p
        BY <3>2
      <4> QED BY <4>1 DEF App!Top
    <3> QED BY <1>1, <3>1, <3>2
  <2>2. /\ appTouch.active = App!Top(v) /\ (appTouch.moved => Len(v.dom) = 2)
        /\ appTouch.previous = IF appTouch.moved THEN v.dom[1] ELSE appTouch.active
    BY Zenon DEF Holds
  <2>3. appTouch.previous = q \/ appTouch.previous = p
    BY <2>1, <2>2
  <2> QED BY <2>1, <2>2, <2>3
<1> QED BY <1>2, <1>3 DEF Spare

\* The pages rest or wait for what was asked for, or one comes or goes, or data was lost.
Going(v, w) == Known(v, w) \/ Lost(v, w)

\* A request in flight is the only one, and nothing else goes on.
LEMMA Pending ==
    ASSUME AppInv, ~crossed, NEW i \in DOMAIN wire
    PROVE  /\ appTouch = NULL /\ appSwipe = NULL /\ view.free = FALSE /\ App!RemoveAt(wire, i) = <<>>
           /\ wire[i] \in WireRequest /\ Asks(view, wire[i])
           /\ \E p \in Page : Still(view, p)
           /\ wire[i].step # "page" => ~App!Shows(wire)
<1>1. wire # <<>>
  OBVIOUS
<1>2. appSwipe = NULL /\ Waits(view, wire)
  BY <1>1 DEF AppInv, Slides, Known, Lost, Rests, Enters, Leaves, Moves
<1>3. PICK p \in Page : Still(view, p)
  BY <1>2 DEF Waits
<1>4. view.free = FALSE
  BY <1>2, <1>3 DEF Waits, Still, ViewTyped
<1>5. PICK r \in WireRequest : wire = <<r>> /\ Asks(view, r)
  BY <1>2 DEF Waits
<1>6. i = 1 /\ wire[i] = r
  BY <1>5
<1>7. App!RemoveAt(wire, i) = <<>>
  BY <1>5, <1>6, Answered
<1>8. r.step # "page" => ~App!Shows(wire)
  BY <1>5 DEF App!Shows
<1>9. appTouch = NULL
  BY <1>4 DEF AppInv, Holds
<1> QED BY <1>2, <1>3, <1>4, <1>5, <1>6, <1>7, <1>8, <1>9

\* The invariant after a step under no finger.
LEMMA AppGoesOn ==
    ASSUME Going(view', wire'), appTouch' = NULL, appSwipe' = NULL,
           appShown' => App!Shows(wire)' \/ "network" \in appLost'
    PROVE  AppInv'
BY DEF AppInv, Going, Holds

\* Ajax of Dom7, the page: what it leads to, once it comes or fails.
LEMMA PageArrivesKeeps == ASSUME AppInv, App!PageArrives PROVE AppInv'
<1> SUFFICES ASSUME ~crossed PROVE AppInv'
  BY DEF App!PageArrives, AppInv
<1>1. PICK i \in DOMAIN wire :
          /\ UNCHANGED <<appTouch, appSwipe, appLost>>
          /\ App!Become(App!Preprocess(view, App!RemoveAt(wire, i), wire[i].op, wire[i].url))
          /\ appShown' = FALSE
  BY DEF App!PageArrives
<1> DEFINE r == wire[i]
           o == App!Preprocess(view, <<>>, r.op, r.url)
<1>2. /\ appTouch = NULL /\ appSwipe = NULL /\ view.free = FALSE /\ App!RemoveAt(wire, i) = <<>>
      /\ r \in WireRequest /\ Asks(view, r)
      /\ \E p \in Page : Still(view, p)
  BY Pending
<1>3. view' = o.view /\ wire' = o.wire
  BY <1>1, <1>2 DEF App!Become
<1> HIDE DEF r
<1>4. PICK p \in Page : Still(view, p)
  BY <1>2
<1>5. Spare(view)
  BY <1>2, <1>4, StillSpare DEF Holds
<1>6. r.op \in {"load", "back", "preload"} /\ r.url \in App!Url
  BY <1>2 DEF WireRequest
<1>7. Asks(view, [op |-> r.op, url |-> r.url])
  BY <1>2 DEF Asks
<1>8. Reached(o.view, o.wire, r.op) \/ Waits(o.view, o.wire)
  BY <1>2, <1>4, <1>5, <1>6, <1>7, PreprocessReaches
<1> HIDE DEF o
<1>9. Going(view', wire')
  BY <1>3, <1>8 DEF Reached, Going, Known
<1> QED BY <1>1, <1>2, <1>9, AppGoesOn

\* A page that fails leaves the pages at rest.
LEMMA PageFailsKeeps == ASSUME AppInv, App!PageFails PROVE AppInv'
<1> SUFFICES ASSUME ~crossed PROVE AppInv'
  BY DEF App!PageFails, AppInv
<1>1. PICK i \in DOMAIN wire, how \in {"http", "network"} :
          /\ view' = [view EXCEPT !.free = TRUE] /\ wire' = App!RemoveAt(wire, i)
          /\ appShown' = (appShown /\ ~(how = "http")) /\ appLost' = appLost \cup {how}
          /\ UNCHANGED <<appTouch, appSwipe>>
  BY DEF App!PageFails, App!Completes, App!Freed
<1>2. /\ appTouch = NULL /\ appSwipe = NULL /\ App!RemoveAt(wire, i) = <<>>
      /\ \E p \in Page : Still(view, p)
  BY Pending
<1>3. PICK p \in Page : Still(view, p)
  BY <1>2
<1>4. Still(view', p) /\ view'.free = TRUE
  BY <1>1, <1>3, FreeStill
<1>5. Going(view', wire')
  BY <1>1, <1>2, <1>4 DEF Going, Known, Rests
<1>6. appShown' => "network" \in appLost'
  BY <1>1
<1> QED BY <1>1, <1>2, <1>5, <1>6, AppGoesOn

\* Ajax of Dom7, the data: the page it was asked for, or nothing.
LEMMA DataKeeps == ASSUME AppInv, App!DataArrives \/ App!DataFails PROVE AppInv'
<1> SUFFICES ASSUME ~crossed PROVE AppInv'
  BY DEF App!DataArrives, App!DataFails, AppInv
<1>1. PICK i \in DOMAIN wire :
          /\ wire[i].step = "data" /\ UNCHANGED <<appShown, appTouch, appSwipe>>
          /\ wire' = App!RemoveAt(wire, i)
          /\ \/ view' = App!Arrive(view, wire[i].op, wire[i].url) /\ appLost' = appLost
             \/ view' = view /\ appLost' = appLost \cup {"data"}
  BY DEF App!DataArrives, App!DataFails, App!Become, App!Out
<1> DEFINE r == wire[i]
<1>2. /\ appTouch = NULL /\ appSwipe = NULL /\ view.free = FALSE /\ wire' = <<>>
      /\ r \in WireRequest /\ Asks(view, r) /\ ~App!Shows(wire)
      /\ \E p \in Page : Still(view, p)
  BY <1>1, Pending
<1>3. view' = App!Arrive(view, r.op, r.url) \/ view' = view
  BY <1>1
<1> HIDE DEF r
<1>4. PICK p \in Page : Still(view, p)
  BY <1>2
<1>5. ASSUME view' = view PROVE Going(view', wire')
  <2>1. Still(view', p) /\ ~view'.free
    BY <1>2, <1>4, <1>5
  <2> QED BY <1>2, <2>1 DEF Going, Lost
<1>6. ASSUME view' = App!Arrive(view, r.op, r.url) PROVE Going(view', wire')
  <2>1. Spare(view)
    BY <1>2, <1>4, StillSpare DEF Holds
  <2>2. r.op \in {"load", "back", "preload"} /\ r.url \in App!Url
    BY <1>2 DEF WireRequest
  <2>3. Asks(view, [op |-> r.op, url |-> r.url])
    BY <1>2 DEF Asks
  <2>4. Reached(App!Arrive(view, r.op, r.url), <<>>, r.op)
    BY <1>2, <1>4, <2>1, <2>2, <2>3, ArriveReaches
  <2>5. Known(view', wire')
    BY <1>2, <1>6, <2>4 DEF Reached, Known
  <2> QED BY <2>5 DEF Going
<1>7. appShown' => "network" \in appLost'
  BY <1>1, <1>2 DEF AppInv
<1> QED BY <1>1, <1>2, <1>3, <1>5, <1>6, <1>7, AppGoesOn

\* Under an animation one page comes or goes, and no finger is on the view.
LEMMA Animated ==
    ASSUME AppInv, ~crossed, NEW a \in view.anim
    PROVE  /\ appTouch = NULL /\ appSwipe = NULL /\ wire = <<>>
           /\ appShown => "network" \in appLost
           /\ \E p, q \in Page :
                 /\ Pair(view, q, p) /\ ViewTyped(view) /\ view.anim = {a}
                 /\ \/ /\ a = [op |-> "load", new |-> p, old |-> q] /\ Named(view, p)
                       /\ view.at[q] = {"toLeft"} /\ view.at[p] = {"toCenter"}
                    \/ /\ a = [op |-> "back", new |-> q, old |-> p]
                       /\ view.active = q /\ view.current = view.url[q] /\ view.at[q] = {"toCenter"}
<1>1. view.anim # {}
  OBVIOUS
<1>2. appSwipe = NULL /\ (Enters(view, wire) \/ Leaves(view, wire))
  BY <1>1 DEF AppInv, Slides, Known, Lost, Rests, Waits, Still
<1>3. appTouch = NULL
  BY <1>2 DEF AppInv, Holds, Enters, Leaves, Moves
<1>4. wire = <<>>
  BY <1>2 DEF Enters, Leaves, Moves
<1>5. appShown => "network" \in appLost
  BY <1>4, NoWire DEF AppInv
<1>6. CASE Enters(view, wire)
  <2>1. PICK p, q \in Page :
            /\ Moves(view, wire, "load", p, q) /\ Pair(view, q, p) /\ Named(view, p)
            /\ view.at[q] = {"toLeft"} /\ view.at[p] = {"toCenter"}
    BY <1>6 DEF Enters
  <2>2. ViewTyped(view) /\ a = [op |-> "load", new |-> p, old |-> q] /\ view.anim = {a}
    BY <2>1 DEF Moves
  <2> QED BY <1>2, <1>3, <1>4, <1>5, <2>1, <2>2
<1>7. CASE Leaves(view, wire)
  <2>1. PICK p, q \in Page :
            /\ Moves(view, wire, "back", q, p) /\ Pair(view, q, p)
            /\ view.active = q /\ view.current = view.url[q]
            /\ view.at[q] = {"toCenter"} /\ view.at[p] = {"toRight"}
    BY <1>7 DEF Leaves
  <2>2. ViewTyped(view) /\ a = [op |-> "back", new |-> q, old |-> p] /\ view.anim = {a}
    BY <2>1 DEF Moves
  <2> QED BY <1>2, <1>3, <1>4, <1>5, <2>1, <2>2
<1> QED BY <1>2, <1>6, <1>7

\* router._load, afterAnimation: the page that entered is at rest, the one before
\* on the left.
LEMMA LoadEndKeeps ==
    ASSUME AppInv, ~crossed, NEW a \in view.anim, App!LoadEnd(a),
           UNCHANGED <<appTouch, appSwipe, appLost>>
    PROVE  AppInv'
<1>1. /\ appTouch = NULL /\ appSwipe = NULL /\ wire = <<>>
      /\ appShown => "network" \in appLost
  BY Animated
<1>2. PICK p, q \in Page :
          /\ Pair(view, q, p) /\ ViewTyped(view) /\ view.anim = {a}
          /\ a = [op |-> "load", new |-> p, old |-> q] /\ Named(view, p)
          /\ view.at[q] = {"toLeft"} /\ view.at[p] = {"toCenter"}
  <2>1. a.op = "load"
    BY DEF App!LoadEnd
  <2> QED BY <2>1, Animated, SMTT(30)
<1> DEFINE at == [x \in Page |->
        CASE x = a.new -> (view.at[x] \ {"toCenter", "left", "right"}) \cup {"center"}
          [] x = a.old -> (view.at[x] \ {"toLeft", "center", "right"}) \cup {"left"}
          [] OTHER -> view.at[x]]
<1>3. view' = [view EXCEPT !.anim = view.anim \ {a}, !.free = TRUE, !.at = at]
      /\ wire' = wire /\ appShown' = appShown
  BY DEF App!LoadEnd
<1>4. at[p] = {"center"} /\ at[q] = {"left"}
  BY <1>2 DEF Pair
<1>5. at \in [Page -> SUBSET App!Where]
  BY <1>2 DEF ViewTyped, App!Where
<1> HIDE DEF at
<1>6. /\ view'.dom = view.dom /\ view'.bars = view.bars /\ view'.url = view.url /\ view'.at = at
      /\ view'.history = view.history /\ view'.current = view.current
      /\ view'.active = view.active /\ view'.free = TRUE /\ view'.anim = {}
  BY <1>2, <1>3 DEF ViewTyped
<1>7. ViewTyped(view')
  BY <1>2, <1>3, <1>5 DEF ViewTyped
<1>8. Pair(view', q, p) /\ Named(view', p)
  BY <1>2, <1>6 DEF Pair, Named, App!Previous
<1>9. Still(view', p)
  BY <1>2, <1>4, <1>6, <1>7, <1>8 DEF Still
<1>10. Going(view', wire')
  BY <1>1, <1>3, <1>6, <1>9 DEF Going, Known, Rests
<1> QED BY <1>1, <1>3, <1>10, AppGoesOn

\* The indicator, after requests.
LEMMA Indicated ==
    ASSUME NEW o, App!Become(o), App!ShownAfter(o), ~App!Shows(wire),
           appShown => "network" \in appLost, appLost' = appLost
    PROVE  appShown' => App!Shows(wire)' \/ "network" \in appLost'
BY DEF App!Become, App!ShownAfter, App!Shows

\* router._back, afterAnimation: the page that left is gone.
LEMMA BackEndKeeps ==
    ASSUME AppInv, ~crossed, NEW a \in view.anim, App!BackEnd(a),
           UNCHANGED <<appTouch, appSwipe, appLost>>
    PROVE  AppInv'
<1>1. /\ appTouch = NULL /\ appSwipe = NULL /\ wire = <<>>
      /\ appShown => "network" \in appLost
  BY Animated
<1>2. PICK p, q \in Page :
          /\ Pair(view, q, p) /\ ViewTyped(view) /\ view.anim = {a}
          /\ a = [op |-> "back", new |-> q, old |-> p]
          /\ view.active = q /\ view.current = view.url[q] /\ view.at[q] = {"toCenter"}
  <2>1. a.op = "back"
    BY DEF App!BackEnd
  <2> QED BY <2>1, Animated, SMTT(30)
<1> DEFINE v == [view EXCEPT !.anim = view.anim \ {a}]
<1>3. PICK o \in App!AfterBack(v, <<>>, p, q) : App!Become(o) /\ App!ShownAfter(o)
  BY <1>1, <1>2 DEF App!BackEnd
<1>4. /\ v.dom = view.dom /\ v.bars = view.bars /\ v.url = view.url /\ v.at = view.at
      /\ v.history = view.history /\ v.current = view.current /\ v.active = view.active
      /\ v.anim = {} /\ ViewTyped(v)
  BY <1>2 DEF ViewTyped
<1> HIDE DEF v
<1>5. Pair(v, q, p)
  BY <1>2, <1>4 DEF Pair, App!Previous
<1>6. App!Held = {}
  BY <1>1 DEF App!Held
<1>7. Waits(o.view, o.wire) \/ Rests(o.view, o.wire)
  BY <1>2, <1>4, <1>5, <1>6, AfterBackReaches
<1>8. Going(view', wire')
  BY <1>3, <1>7 DEF App!Become, Going, Known
<1>9. appShown' => App!Shows(wire)' \/ "network" \in appLost'
  BY <1>1, <1>3, NoWire, Indicated
<1> QED BY <1>1, <1>8, <1>9, AppGoesOn

\* Where pages may change, they rest.
LEMMA FreeRests ==
    ASSUME AppInv, ~crossed, view.free
    PROVE  /\ appSwipe = NULL /\ wire = <<>> /\ (appShown => "network" \in appLost)
           /\ \E p \in Page : Still(view, p) /\ Spare(view)
<1>1. appSwipe = NULL /\ Rests(view, wire)
  BY DEF AppInv, Slides, Known, Lost, Waits, Enters, Leaves, Moves
<1>2. PICK p \in Page : Still(view, p)
  BY <1>1 DEF Rests
<1>3. wire = <<>>
  BY <1>1 DEF Rests
<1>4. appShown => "network" \in appLost
  BY <1>3, NoWire DEF AppInv
<1>5. Holds(view, appTouch)
  BY DEF AppInv
<1> QED BY <1>1, <1>2, <1>3, <1>4, <1>5, StillSpare

\* Nothing is done.
LEMMA AppStands ==
    ASSUME AppInv, UNCHANGED <<view, wire, appShown, appTouch, appSwipe, crossed, appLost>>
    PROVE  AppInv'
BY DEF AppInv, App!Shows

\* router.load: nothing is done, or a page is asked for or enters.
LEMMA LoadKeeps ==
    ASSUME AppInv, ~crossed, NEW u \in App!Url, NEW o \in App!RouterLoad(view, wire, u),
           App!Become(o), App!ShownAfter(o), UNCHANGED <<appTouch, appSwipe, appLost>>,
           appTouch # NULL => (crossed' <=> (crossed \/ (view.free /\ ~o.view.free)))
    PROVE  AppInv'
<1>1. CASE o = App!Out(view, wire)
  <2>1. view' = view /\ wire' = wire
    BY <1>1 DEF App!Become, App!Out
  <2>2. appShown' => App!Shows(wire)' \/ "network" \in appLost'
    BY <1>1, <2>1 DEF AppInv, App!ShownAfter, App!Shows, App!Out
  <2> QED BY <2>1, <2>2 DEF AppInv
<1>2. CASE o # App!Out(view, wire)
  <2>1. view.free /\ o \in App!Get(view, wire, "load", u)
    BY <1>2 DEF App!RouterLoad
  <2>2. appSwipe = NULL /\ wire = <<>> /\ (appShown => "network" \in appLost)
    BY <2>1, FreeRests
  <2>3. PICK p \in Page : Still(view, p) /\ Spare(view)
    BY <2>1, FreeRests
  <2>4. Asks(view, [op |-> "load", url |-> u])
    BY DEF Asks
  <2>5. Reached(o.view, o.wire, "load") \/ Waits(o.view, o.wire)
    BY <2>1, <2>2, <2>3, <2>4, GetReaches
  <2>6. ~o.view.free /\ Going(view', wire')
    BY <2>5 DEF App!Become, Reached, Going, Known, Enters, Moves, Waits
  <2>7. appShown' => App!Shows(wire)' \/ "network" \in appLost'
    BY <2>2, NoWire, Indicated
  <2>8. CASE appTouch = NULL
    BY <2>2, <2>6, <2>7, <2>8, AppGoesOn
  <2>9. CASE crossed'
    BY <2>9 DEF AppInv
  <2> QED BY <2>1, <2>6, <2>8, <2>9
<1> QED BY <1>1, <1>2

\* teacher.js: the link to the form, and the form that was posted.
LEMMA LoadsKeep == ASSUME AppInv, App!ToEdit \/ App!Posted PROVE AppInv'
<1> SUFFICES ASSUME ~crossed PROVE AppInv'
  BY DEF App!ToEdit, App!Posted, App!Sees, AppInv
<1>1. CASE App!ToEdit
  <2>1. PICK o \in App!RouterLoad(view, wire, "edit") : App!Become(o) /\ App!ShownAfter(o)
    BY <1>1 DEF App!ToEdit
  <2>2. appTouch = NULL /\ UNCHANGED <<appTouch, appSwipe, appLost, crossed>>
    BY <1>1 DEF App!ToEdit, App!Sees
  <2> QED BY <2>1, <2>2, LoadKeeps DEF App!Url
<1>2. CASE App!Posted
  <2>1. PICK o \in App!RouterLoad(view, wire, "course") :
            /\ App!Become(o) /\ App!ShownAfter(o)
            /\ crossed' = (crossed \/ (appTouch # NULL /\ view.free /\ ~o.view.free))
    BY <1>2 DEF App!Posted
  <2>2. UNCHANGED <<appTouch, appSwipe, appLost>>
    BY <1>2 DEF App!Posted
  <2> QED BY <2>1, <2>2, LoadKeeps DEF App!Url
<1> QED BY <1>1, <1>2

\* A link back: the page before comes, or is asked for.
LEMMA BackLinkKeeps == ASSUME AppInv, App!BackLink PROVE AppInv'
<1>1. /\ ~crossed /\ appTouch = NULL /\ view.free
      /\ UNCHANGED <<appTouch, appSwipe, appLost>>
  BY DEF App!BackLink, App!Sees
<1>2. appSwipe = NULL /\ wire = <<>> /\ (appShown => "network" \in appLost)
  BY <1>1, FreeRests
<1>3. PICK p \in Page : Still(view, p) /\ Spare(view)
  BY <1>1, FreeRests
<1>4. PICK o \in App!RouterBack(view, <<>>, "back") : App!Become(o) /\ App!ShownAfter(o)
  BY <1>2 DEF App!BackLink
<1>5. Reached(o.view, o.wire, "back") \/ Waits(o.view, o.wire) \/ Rests(o.view, o.wire)
  BY <1>1, <1>3, RouterBackReaches
<1>6. Going(view', wire')
  BY <1>4, <1>5 DEF App!Become, Reached, Going, Known
<1>7. appShown' => App!Shows(wire)' \/ "network" \in appLost'
  BY <1>1, <1>2, <1>4, NoWire, Indicated
<1> QED BY <1>1, <1>2, <1>6, <1>7, AppGoesOn

\* A finger starts on the page in sight, and holds the one on the left once it moves.
LEMMA TouchKeeps == ASSUME AppInv, App!TouchStart \/ App!TouchMove \/ App!TouchEnd PROVE AppInv'
<1> SUFFICES ASSUME ~crossed PROVE AppInv'
  BY DEF App!TouchStart, App!TouchMove, App!TouchEnd, AppInv
<1>1. UNCHANGED <<view, wire, appShown, appSwipe, crossed, appLost>>
  BY DEF App!TouchStart, App!TouchMove, App!TouchEnd
<1>2. view.free /\ appSwipe = NULL
  <2>1. CASE App!TouchStart
    BY <2>1 DEF App!TouchStart
  <2>2. CASE appTouch # NULL
    <3>1. view.free
      BY <2>2 DEF AppInv, Holds
    <3> QED BY <3>1, FreeRests
  <2> QED BY <2>1, <2>2 DEF App!TouchMove, App!TouchEnd
<1>3. PICK p \in Page : Still(view, p)
  BY <1>2, FreeRests
<1>4. App!Top(view) = p
  <2>1. CASE Alone(view, p)
    <3>1. Len(view.dom) = 1 /\ view.dom[1] = p
      BY <2>1 DEF Alone
    <3> QED BY <3>1 DEF App!Top
  <2>2. ASSUME NEW q \in Page, Pair(view, q, p) PROVE App!Top(view) = p
    <3>1. Len(view.dom) = 2 /\ view.dom[2] = p
      BY <2>2 DEF Pair
    <3> QED BY <3>1 DEF App!Top
  <2> QED BY <1>3, <2>1, <2>2 DEF Still
<1>5. Holds(view, appTouch)'
  <2>1. CASE App!TouchStart
    <3>1. appTouch' = [moved |-> FALSE, active |-> p, previous |-> p]
      BY <1>4, <2>1 DEF App!TouchStart
    <3> QED BY <1>1, <1>2, <1>4, <3>1 DEF Holds
  <2>2. CASE App!TouchEnd
    BY <2>2 DEF App!TouchEnd, Holds
  <2>3. CASE App!TouchMove
    <3> DEFINE left == {x \in App!ToSet(view.dom) : "left" \in view.at[x]}
    <3>1. appTouch' = IF left = {} THEN NULL
                      ELSE [appTouch EXCEPT !.moved = TRUE, !.previous = CHOOSE x \in left : TRUE]
      BY <2>3 DEF App!TouchMove
    <3>2. Alone(view, p) => left = {}
      BY <1>3 DEF Alone, Still, App!ToSet
    <3>3. ASSUME NEW q \in Page, Pair(view, q, p), view.at[q] = {"left"}
          PROVE  left = {q} /\ Len(view.dom) = 2 /\ view.dom[1] = q
      <4>1. view.dom = <<q, p>> /\ view.at[p] = {"center"}
        BY <1>3, <3>3 DEF Pair, Still
      <4>2. App!ToSet(view.dom) = {q, p}
        BY <4>1 DEF App!ToSet
      <4> QED BY <3>3, <4>1, <4>2
    <3> HIDE DEF left
    <3>4. CASE left = {}
      BY <3>1, <3>4 DEF Holds
    <3>5. CASE left # {}
      <4>1. PICK q \in Page : left = {q} /\ Len(view.dom) = 2 /\ view.dom[1] = q
        BY <1>3, <3>2, <3>3, <3>5 DEF Still
      <4>2. appTouch' = [appTouch EXCEPT !.moved = TRUE, !.previous = q]
        BY <3>1, <4>1
      <4>3. appTouch \in [moved : BOOLEAN, active : Page, previous : Page] /\ appTouch.active = p
        BY <1>4, <2>3 DEF App!TouchMove, AppInv, Holds
      <4>4. /\ appTouch' \in [moved : BOOLEAN, active : Page, previous : Page]
            /\ appTouch'.active = p /\ appTouch'.previous = q /\ appTouch'.moved = TRUE
        BY <4>2, <4>3
      <4> QED BY <1>1, <1>2, <1>4, <4>1, <4>4 DEF Holds
    <3> QED BY <3>4, <3>5
  <2> QED BY <2>1, <2>2, <2>3
<1> QED BY <1>1, <1>2, <1>5 DEF AppInv, App!Shows

\* Released, the pages slide on or back.
LEMMA ReleaseKeeps == ASSUME AppInv, NEW changed \in BOOLEAN, App!Release(changed) PROVE AppInv'
<1> SUFFICES ASSUME ~crossed PROVE AppInv'
  BY DEF App!Release, AppInv
<1>1. appTouch # NULL /\ appTouch.moved /\ appTouch' = NULL
      /\ UNCHANGED <<wire, appShown, crossed, appLost>>
  BY DEF App!Release
<1>2. /\ view.free /\ Len(view.dom) = 2 /\ appTouch.previous = view.dom[1]
      /\ appTouch.active = App!Top(view)
  BY <1>1 DEF AppInv, Holds
<1>3. wire = <<>> /\ (appShown => "network" \in appLost)
  BY <1>2, FreeRests
<1>4. PICK p \in Page : Still(view, p)
  BY <1>2, FreeRests
<1>5. PICK q \in Page : Pair(view, q, p) /\ view.at[q] = {"left"}
  <2>1. ~Alone(view, p)
    <3> SUFFICES ASSUME Alone(view, p) PROVE FALSE
      OBVIOUS
    <3>1. Len(view.dom) = 1
      BY DEF Alone
    <3> QED BY <1>2, <3>1
  <2> QED BY <1>4, <2>1 DEF Still
<1>6. view.dom = <<q, p>> /\ p # q
  BY <1>5 DEF Pair
<1>7. appTouch.active = p /\ appTouch.previous = q
  <2>1. view.dom[1] = q /\ view.dom[2] = p
    BY <1>6
  <2> QED BY <1>2, <2>1 DEF App!Top
<1>8. appSwipe' = [active |-> p, previous |-> q, changed |-> changed]
  BY <1>7 DEF App!Release
<1>9. appSwipe' # NULL /\ appSwipe'.active = p /\ appSwipe'.previous = q /\ appSwipe'.changed = changed
  <2>1. appSwipe' \in [active : Page, previous : Page, changed : BOOLEAN]
    BY <1>8
  <2> QED BY <1>8, <2>1, AssumptionOfPages DEF App!PagesAssumption
<1> DEFINE s == [active |-> p, previous |-> q, changed |-> changed]
<1>10. CASE ~changed
  <2>1. view' = [view EXCEPT !.free = FALSE]
    BY <1>10 DEF App!Release
  <2>2. Still(view', p) /\ view'.free = FALSE /\ Pair(view', q, p)
    BY <1>4, <1>5, <2>1, FreeStill
  <2>3. Slides(view', wire', appSwipe')
    BY <1>1, <1>3, <1>9, <1>10, <2>2 DEF Slides, Still
  <2> QED BY <1>1, <1>3, <1>9, <2>3 DEF AppInv, Holds
<1>11. CASE changed
  <2> DEFINE at == [x \in Page |->
          CASE x = appTouch.active -> (view.at[x] \ {"center"}) \cup {"right"}
            [] x = appTouch.previous -> (view.at[x] \ {"left"}) \cup {"center"}
            [] OTHER -> view.at[x]]
             u == App!Previous(view)
  <2>1. view' = [App!Animates([view EXCEPT !.current = u, !.at = at], appTouch.previous) EXCEPT !.free = FALSE]
    BY <1>11 DEF App!Release
  <2>2. at[p] = {"right"} /\ at[q] = {"center"}
    BY <1>4, <1>5, <1>6, <1>7 DEF Still
  <2>3. at \in [Page -> SUBSET App!Where]
    BY <1>4 DEF Still, ViewTyped, App!Where
  <2>4. u \in App!Url
    BY <1>4, <1>5 DEF Still, ViewTyped, Pair, App!Previous
  <2> HIDE DEF at, u
  <2>5. view' = [view EXCEPT !.current = u, !.at = at, !.active = q, !.free = FALSE]
    BY <1>4, <1>7, <2>1 DEF App!Animates, Still, ViewTyped
  <2>6. /\ view'.dom = view.dom /\ view'.bars = view.bars /\ view'.url = view.url /\ view'.at = at
        /\ view'.history = view.history /\ view'.current = u /\ view'.active = q
        /\ view'.free = FALSE /\ view'.anim = {}
    BY <1>4, <2>5 DEF Still, ViewTyped
  <2>7. ViewTyped(view')
    BY <1>4, <2>3, <2>4, <2>5 DEF Still, ViewTyped
  <2>8. Pair(view', q, p) /\ u = App!Previous(view')
    BY <1>5, <2>6 DEF Pair, App!Previous, u
  <2>9. Slides(view', wire', appSwipe')
    BY <1>1, <1>3, <1>9, <1>11, <2>2, <2>6, <2>7, <2>8 DEF Slides
  <2> QED BY <1>1, <1>3, <1>9, <2>9 DEF AppInv, Holds
<1> QED BY <1>10, <1>11

\* The pages have slid: back, or the page that left is gone.
LEMMA TransitionEndKeeps == ASSUME AppInv, App!TransitionEnd PROVE AppInv'
<1> SUFFICES ASSUME ~crossed PROVE AppInv'
  BY DEF App!TransitionEnd, AppInv
<1>1. appSwipe # NULL /\ appSwipe' = NULL /\ UNCHANGED <<appTouch, crossed, appLost>>
  BY DEF App!TransitionEnd
<1> DEFINE p == appSwipe.active
           q == appSwipe.previous
<1>2. appTouch = NULL /\ Slides(view, wire, appSwipe)
  BY <1>1 DEF AppInv
<1>3. wire = <<>> /\ p \in Page /\ q \in Page /\ Pair(view, q, p) /\ ViewTyped(view) /\ view.anim = {}
  BY <1>2 DEF Slides
<1>4. appShown => "network" \in appLost
  BY <1>3, NoWire DEF AppInv
<1>5. CASE ~appSwipe.changed
  <2>1. view' = [view EXCEPT !.free = TRUE] /\ UNCHANGED <<wire, appShown>>
    BY <1>5 DEF App!TransitionEnd
  <2>2. Still(view, p)
    BY <1>2, <1>5 DEF Slides
  <2>3. Still(view', p) /\ view'.free = TRUE
    BY <1>3, <2>1, <2>2, FreeStill
  <2>4. Going(view', wire')
    BY <1>3, <2>1, <2>3 DEF Going, Known, Rests
  <2> QED BY <1>1, <1>2, <1>4, <2>1, <2>4, AppGoesOn
<1>6. CASE appSwipe.changed
  <2>1. /\ view.active = q /\ view.current = view.url[q] /\ view.at[q] = {"center"}
    BY <1>2, <1>6 DEF Slides, Pair
  <2>2. PICK o \in App!AfterBack(view, <<>>, p, q) : App!Become(o) /\ App!ShownAfter(o)
    BY <1>3, <1>6 DEF App!TransitionEnd
  <2>3. App!Held \subseteq {p, q}
    BY <1>2 DEF App!Held
  <2> HIDE DEF p, q
  <2>4. Waits(o.view, o.wire) \/ Rests(o.view, o.wire)
    BY <1>3, <2>1, <2>2, <2>3, AfterBackReaches
  <2>5. Going(view', wire')
    BY <2>2, <2>4 DEF App!Become, Going, Known
  <2>6. appShown' => App!Shows(wire)' \/ "network" \in appLost'
    BY <1>1, <1>3, <1>4, <2>2, NoWire, Indicated
  <2> QED BY <1>1, <1>2, <2>5, <2>6, AppGoesOn
<1> QED BY <1>5, <1>6

\* The course is asked for as the application starts.
LEMMA AppInit == ASSUME App!Init PROVE AppInv
<1> DEFINE r == [step |-> "page", op |-> "load", url |-> "course"]
<1>1. /\ view.dom = <<1>> /\ view.bars = <<1>> /\ view.url = [p \in Page |-> "root"]
      /\ view.at = [p \in Page |-> IF p = 1 THEN {"center"} ELSE {}]
      /\ view.history = <<"root">> /\ view.current = "root" /\ view.active = 1
      /\ view.free = FALSE /\ view.anim = {} /\ ViewTyped(view)
  <2>1. 1 \in Page
    BY AssumptionOfPages DEF App!PagesAssumption
  <2> QED BY <2>1 DEF App!Init, ViewTyped, App!Url, App!Where
<1>2. wire = <<r>> /\ appSwipe = NULL /\ appTouch = NULL
  BY DEF App!Init, App!Request
<1>3. 1 \in Page
  BY AssumptionOfPages DEF App!PagesAssumption
<1>4. Still(view, 1)
  <2>1. view.at[1] = {"center"} /\ view.url[1] = "root" /\ Len(view.history) = 1 /\ view.history[1] = "root"
    BY <1>1, <1>3
  <2> QED BY <1>1, <1>3, <2>1 DEF Still, Alone, Named
<1>5. r \in WireRequest /\ Asks(view, r)
  BY DEF WireRequest, Asks, App!Url
<1>6. App!Shows(wire)
  BY <1>2 DEF App!Shows
<1> HIDE DEF r
<1>7. Waits(view, wire)
  BY <1>1, <1>2, <1>3, <1>4, <1>5 DEF Waits
<1> QED BY <1>2, <1>6, <1>7 DEF AppInv, Holds, Known

\* Every step of the application keeps the invariant.
LEMMA AppNext == ASSUME AppInv, App!Next PROVE AppInv'
<1>1. CASE App!PageArrives \/ App!PageFails \/ App!DataArrives \/ App!DataFails
  BY <1>1, PageArrivesKeeps, PageFailsKeeps, DataKeeps
<1>2. CASE App!AnimationEnd
  <2> SUFFICES ASSUME ~crossed PROVE AppInv'
    BY <1>2 DEF App!AnimationEnd, AppInv
  <2>1. PICK a \in view.anim : App!LoadEnd(a) \/ App!BackEnd(a)
    BY <1>2 DEF App!AnimationEnd
  <2>2. UNCHANGED <<appTouch, appSwipe, appLost>>
    BY <1>2 DEF App!AnimationEnd
  <2> QED BY <2>1, <2>2, LoadEndKeeps, BackEndKeeps
<1>3. CASE App!TransitionEnd
  BY <1>3, TransitionEndKeeps
<1>4. CASE App!ToEdit \/ App!Posted \/ App!BackLink
  BY <1>4, LoadsKeep, BackLinkKeeps
<1>5. CASE App!Confirm \/ App!PostRefused
  BY <1>5, AppStands DEF App!Confirm, App!PostRefused
<1>6. CASE App!TouchStart \/ App!TouchMove \/ App!TouchEnd
  BY <1>6, TouchKeeps
<1>7. ASSUME NEW changed \in BOOLEAN, App!Release(changed) PROVE AppInv'
  BY <1>7, ReleaseKeeps
<1> QED BY <1>1, <1>2, <1>3, <1>4, <1>5, <1>6, <1>7, Zenon
        DEF App!Next, App!Answers, App!Ends, App!User

\* What the invariant says of a view that nothing goes on in.
LEMMA AppAgrees == ASSUME AppInv PROVE PagesAgree
<1>1. App!IndicatorMeansLoading
  BY DEF AppInv, App!IndicatorMeansLoading
<1>2. App!Settled
  <2> SUFFICES ASSUME view.free, ~crossed PROVE App!Settled
    BY DEF App!Settled
  <2>1. PICK p \in Page : Still(view, p)
    BY FreeRests
  <2>2. CASE Alone(view, p)
    <3>1. Len(view.dom) = 1 /\ view.dom[1] = p /\ view.bars = view.dom
      BY <2>2 DEF Alone
    <3>2. App!Top(view) = p /\ ~(Len(view.dom) > 1)
      BY <3>1 DEF App!Top
    <3> QED BY <2>1, <3>1, <3>2 DEF App!Settled, Still, Named
  <2>3. ASSUME NEW q \in Page, Pair(view, q, p), view.at[q] = {"left"} PROVE App!Settled
    <3>1. Len(view.dom) = 2 /\ view.dom[1] = q /\ view.dom[2] = p /\ view.bars = view.dom
      BY <2>3 DEF Pair
    <3>2. App!Top(view) = p
      BY <3>1 DEF App!Top
    <3>3. view.url[q] = App!Previous(view)
      BY <2>3 DEF Pair
    <3> QED BY <2>1, <2>3, <3>1, <3>2, <3>3 DEF App!Settled, Still, Named
  <2> QED BY <2>1, <2>2, <2>3 DEF Still
<1> QED BY <1>1, <1>2 DEF PagesAgree

-----------------------------------------------------------------------------
(* The behaviours of the pages.                                            *)

\* One component takes a step; the rest of them stay as they are.
LEMMA PagesSteps ==
    ASSUME [Next]_vars
    PROVE  /\ Notes!Next \/ UNCHANGED notesVars
           /\ PullToRefresh!Next \/ UNCHANGED pullVars
           /\ Panels!Next \/ UNCHANGED panelsVars
           /\ App!Next \/ UNCHANGED appVars
BY Zenon DEF Next, vars

\* framework7.js, addNotification and closeNotification: in every behaviour the
\* container is displayed exactly while it holds notifications, custom ones
\* aside, and onClose is called once for each that closes.
THEOREM NotificationsAgree == Spec => [](Notes!ContainerShown /\ Notes!ClosedOnce)
<1>1. Init => NotesInv
  BY NotesInit DEF Init
<1>2. NotesInv /\ [Next]_vars => NotesInv'
  <2>1. ASSUME NotesInv, UNCHANGED notesVars PROVE NotesInv'
    BY <2>1 DEF NotesInv, NotesTyped, HeldWereAdded, Notes!ClosedOnce, Notes!ContainerShown,
                Notes!Listed, Notes!In, notesVars
  <2> QED BY <2>1, PagesSteps, NotesNext
<1>3. NotesInv => Notes!ContainerShown /\ Notes!ClosedOnce
  BY DEF NotesInv
<1> QED BY <1>1, <1>2, <1>3, PTL DEF Spec

\* framework7.js, "Pull To Refresh": in every behaviour the content shows that it
\* refreshes as long as the page has a refresh to do.
THEOREM PullShowsRefresh == Spec => []RefreshShown
<1>1. Init => PullInv
  BY PullInit DEF Init
<1>2. PullInv /\ [Next]_vars => PullInv'
  <2>1. ASSUME PullInv, UNCHANGED pullVars PROVE PullInv'
    BY <2>1 DEF PullInv, pullVars
  <2> QED BY <2>1, PagesSteps, PullSteps, PullNext
<1>3. PullInv => RefreshShown
  <2> SUFFICES ASSUME PullInv, ~again PROVE refreshing <=> pending > 0
    BY DEF RefreshShown, PullToRefresh!RefreshShown
  <2> QED BY DEF PullInv
<1> QED BY <1>1, <1>2, <1>3, PTL DEF Spec

\* framework7.js, openPanel, closePanel and the swipe of panels: in every behaviour,
\* once nothing moves, the active panel and no other is displayed and the body no
\* longer says that one closes - unless one was grasped or opened while it slid back.
THEOREM PanelsComeToRest == Spec => []RestingPanels
<1>1. Init => PanelsInv
  BY PanelsInit DEF Init
<1>2. PanelsInv /\ [Next]_vars => PanelsInv'
  <2>1. ASSUME PanelsInv, UNCHANGED panelsVars PROVE PanelsInv'
    BY <2>1 DEF PanelsInv, PanelsTyped, OneActive, GraspKnown, ActiveShown, ShownIsHidden,
                AwaitedHides, ClosingEnds, Hiding, Panels!Nobody, panelsVars
  <2> QED BY <2>1, PagesSteps, PanelsNext
<1>3. PanelsInv => RestingPanels
  BY PanelsRest
<1> QED BY <1>1, <1>2, <1>3, PTL DEF Spec

\* teacher.js, teacher_router.js and the router of framework7: in every behaviour,
\* once nothing goes on, the page in sight, its navbar, the address and the history
\* agree, the page on the left is the one before, and the indicator covers the
\* screen only while a page is awaited - unless a load began under a finger or a
\* request was lost on the network.
THEOREM PagesAlwaysAgree == Spec => []PagesAgree
<1>1. Init => AppInv
  BY AppInit DEF Init
<1>2. AppInv /\ [Next]_vars => AppInv'
  <2>1. ASSUME AppInv, UNCHANGED appVars PROVE AppInv'
    BY <2>1, AppStands DEF appVars
  <2> QED BY <2>1, PagesSteps, AppNext
<1>3. AppInv => PagesAgree
  BY AppAgrees
<1> QED BY <1>1, <1>2, <1>3, PTL DEF Spec

-----------------------------------------------------------------------------
(* What opens over the page.                                               *)

\* What an element may be, and the values of the three variables.
State == [dom : BOOLEAN, cls : {"", "in", "out"}, flag : BOOLEAN, seen : BOOLEAN,
          ends : SUBSET {"open", "close"}, again : BOOLEAN]

Els == [Modals!Element -> State]
Overlays == SUBSET {"modal", "popup"}
Stacks == Seq(Dialog)

\* No two dialogs are open.
OneIn(e) == \A c, d \in Dialog : e[c].cls = "in" /\ e[d].cls = "in" => c = d

\* Who waits is hidden, and waits once.
QueueOK(e, k) ==
    /\ k \in Stacks
    /\ \A i, j \in 1..Len(k) : k[i] = k[j] => i = j
    /\ \A i \in 1..Len(k) : e[k[i]] = Modals!Hidden

\* Every overlay shown belongs to something open.
Covered(e, o) == \A v \in o : \E m \in Modals!Element : e[m].cls = "in" /\ v \in Modals!OverlayOf(m)

\* The overlay of popups is shown while one of them is open.
PopupsCovered(e, o) == \A m \in Popup : e[m].cls = "in" => "popup" \in o

\* What is open is displayed, and nothing is going to hide it, unless it was
\* opened while it was closing.
Displayed(e) ==
    \A m \in Modals!Element : e[m].cls = "in" => e[m].again \/ (e[m].seen /\ "close" \notin e[m].ends)

\* Dialogs wait only for one that is open.
Attended(e, k) == k # <<>> => \E d \in Dialog : e[d].cls = "in"

\* What was created for one use and is being removed was closed.
RemovedIsOut(e) ==
    \A m \in Dialog \cup Sheet : "close" \in e[m].ends => e[m].cls = "out"

\* What is not in the document is not open.
InDocument(e) ==
    \A m \in Modals!Element : e[m].dom \/ (e[m] = Modals!Absent /\ m \in Dialog \cup Sheet)

\* The inductive invariant, of any values of the three variables: openModal and
\* closeModal compute with records of them.
Good(e, o, k) ==
    /\ e \in Els /\ o \in Overlays
    /\ OneIn(e) /\ QueueOK(e, k) /\ Covered(e, o) /\ PopupsCovered(e, o) /\ Displayed(e)
    /\ RemovedIsOut(e) /\ InDocument(e)

Shape == [el : Els, overlay : Overlays, stack : Stacks]

GoodState(s) == s \in Shape /\ Good(s.el, s.overlay, s.stack)

ModalsInv == Good(el, overlay, stack) /\ Attended(el, stack)

\* An element is opened: what openModal does when it neither waits nor is open.
Opens(e, o, m, e2, o2) ==
    /\ e2 \in Els /\ o2 = o \cup Modals!OverlayOf(m)
    /\ e2[m].cls = "in" /\ e2[m].ends = e[m].ends \cup {"open"} /\ e2[m].dom
    /\ e2[m].seen /\ ("close" \in e[m].ends => e2[m].again)
    /\ \A x \in Modals!Element : x # m => e2[x] = e[x]

USE DEF Els, Overlays, Stacks

\* An element that was never shown, in the document or not.
LEMMA HiddenState ==
    /\ Modals!Hidden \in State /\ Modals!Absent \in State
    /\ Modals!Hidden.cls = "" /\ Modals!Absent.cls = ""
    /\ Modals!Hidden.ends = {} /\ Modals!Absent.ends = {}
    /\ Modals!Hidden.dom = TRUE /\ Modals!Absent.dom = FALSE /\ Modals!Hidden.seen = FALSE
BY DEF Modals!Hidden, Modals!Absent, State

\* What opening and closing do to an element.
LEMMA OpenedState ==
    ASSUME NEW w \in State
    PROVE  /\ Modals!Opened(w) \in State /\ Modals!Opened(w).cls = "in"
           /\ Modals!Opened(w).ends = w.ends \cup {"open"} /\ Modals!Opened(w).seen
           /\ "close" \in w.ends => Modals!Opened(w).again
           /\ Modals!Closed(w) \in State /\ Modals!Closed(w).cls = "out"
           /\ Modals!Closed(w).ends = w.ends \cup {"close"}
           /\ w.dom => Modals!Opened(w).dom /\ Modals!Closed(w).dom
<1>1. Modals!Opened(w) \in State /\ Modals!Closed(w) \in State
  <2>0. ("close" \in w.ends) \in BOOLEAN
    BY SMT
  <2>1. PICK b \in BOOLEAN : b = ("close" \in w.ends)
    BY <2>0, Zenon
  <2>2. Modals!Opened(w) = [w EXCEPT !.flag = TRUE, !.seen = TRUE, !.cls = "in",
                                     !.ends = w.ends \cup {"open"}, !.again = b]
    BY <2>1, Zenon DEF Modals!Opened
  <2>3. Modals!Opened(w) \in State
    BY <2>2 DEF State
  <2>4. Modals!Closed(w) \in State
    BY DEF Modals!Closed, State
  <2> QED BY <2>3, <2>4
<1>2. Modals!Opened(w).cls = "in" /\ Modals!Opened(w).ends = w.ends \cup {"open"}
  BY DEF Modals!Opened, State
<1>3. Modals!Closed(w).cls = "out" /\ Modals!Closed(w).ends = w.ends \cup {"close"}
  BY DEF Modals!Closed, State
<1>4. w.dom => Modals!Opened(w).dom /\ Modals!Closed(w).dom
  BY DEF Modals!Opened, Modals!Closed, State
<1>5. Modals!Opened(w).seen = TRUE /\ Modals!Opened(w).again = ("close" \in w.ends)
  BY DEF Modals!Opened, State
<1> QED BY <1>1, <1>2, <1>3, <1>4, <1>5

\* Opening keeps the invariant, of what is not being removed.
LEMMA OpensKeeps ==
    ASSUME NEW e, NEW o, NEW k, Good(e, o, k), NEW m \in Modals!Element,
           m \in Dialog => ~ \E d \in Dialog : e[d].cls = "in",
           m \in Dialog \cup Sheet => "close" \notin e[m].ends,
           \A i \in 1..Len(k) : k[i] # m,
           NEW e2, NEW o2, Opens(e, o, m, e2, o2)
    PROVE  Good(e2, o2, k)
<1>1. OneIn(e2)
  BY DEF Good, Opens, OneIn, Modals!Element
<1>2. QueueOK(e2, k)
  <2>1. \A i \in 1..Len(k) : k[i] \in Modals!Element
    BY DEF Good, QueueOK, Modals!Element
  <2> QED BY <2>1 DEF Good, QueueOK, Opens
<1>3. Covered(e2, o2)
  <2>1. ASSUME NEW v \in o PROVE \E x \in Modals!Element : e2[x].cls = "in" /\ v \in Modals!OverlayOf(x)
    <3>1. PICK x \in Modals!Element : e[x].cls = "in" /\ v \in Modals!OverlayOf(x)
      BY DEF Good, Covered
    <3>2. e2[x].cls = "in" BY <3>1 DEF Opens
    <3> QED BY <3>1, <3>2
  <2>2. \A v \in Modals!OverlayOf(m) : e2[m].cls = "in" BY DEF Opens
  <2> QED BY <2>1, <2>2 DEF Covered, Opens
<1>4. RemovedIsOut(e2)
  BY DEF Good, Opens, RemovedIsOut, Modals!Element
<1>5. InDocument(e2)
  BY DEF Good, Opens, InDocument
<1>6. PopupsCovered(e2, o2)
  BY DEF Good, Opens, PopupsCovered, Modals!OverlayOf, Modals!Element
<1>7. Displayed(e2)
  BY DEF Good, Opens, Displayed
<1> QED BY <1>1, <1>2, <1>3, <1>4, <1>5, <1>6, <1>7 DEF Good, Opens, Modals!OverlayOf

\* An element changes, but is neither opened nor closed.
Remains(e, m, e2) ==
    /\ e2 \in Els /\ \A x \in Modals!Element : x # m => e2[x] = e[x]
    /\ e2[m].cls = "in" <=> e[m].cls = "in"
    /\ e2[m].dom \/ (e2[m] = Modals!Absent /\ m \in Dialog \cup Sheet)
    /\ m \in Dialog \cup Sheet => e2[m].ends = {}
    /\ e2[m].cls = "in" => e2[m].again \/ (e2[m].seen /\ "close" \notin e2[m].ends)

\* So does a change that neither opens nor closes.
LEMMA RemainsKeeps ==
    ASSUME NEW e, NEW o, NEW k, Good(e, o, k), NEW m \in Modals!Element,
           \A i \in 1..Len(k) : k[i] # m, NEW e2, Remains(e, m, e2)
    PROVE  Good(e2, o, k)
<1>1. OneIn(e2)
  BY DEF Good, Remains, OneIn, Modals!Element
<1>2. QueueOK(e2, k)
  <2>1. \A i \in 1..Len(k) : k[i] \in Modals!Element
    BY DEF Good, QueueOK, Modals!Element
  <2> QED BY <2>1 DEF Good, QueueOK, Remains
<1>3. Covered(e2, o)
  BY DEF Good, Remains, Covered
<1>4. RemovedIsOut(e2)
  BY DEF Good, Remains, RemovedIsOut, Modals!Element
<1>5. InDocument(e2)
  BY DEF Good, Remains, InDocument
<1>6. PopupsCovered(e2, o) /\ Displayed(e2)
  BY DEF Good, Remains, PopupsCovered, Displayed, Modals!Element
<1> QED BY <1>1, <1>2, <1>3, <1>4, <1>5, <1>6 DEF Good, Remains

\* openModal keeps the invariant: a dialog waits, or is the only one.
LEMMA OpenModalKeeps ==
    ASSUME NEW s, GoodState(s), NEW m \in Modals!Element,
           s.el[m].dom, m \in Dialog => s.el[m] = Modals!Hidden,
           m \in Sheet => "close" \notin s.el[m].ends,
           \A i \in 1..Len(s.stack) : s.stack[i] # m,
           NEW r, r = Modals!OpenModal(s, m)
    PROVE  GoodState(r)
<1> DEFINE e == s.el
           o == s.overlay
           k == s.stack
<1>0. /\ e[m] \in State /\ e \in Els /\ s \in Shape
      /\ Good(e, o, k) /\ k \in Stacks
  BY DEF Good, GoodState, Shape
<1>1. CASE Modals!Waits(s, m)
  <2>1. m \in Dialog BY <1>1 DEF Modals!Waits
  <2>2. r = [s EXCEPT !.stack = Append(@, m)]
    BY <1>1 DEF Modals!OpenModal
  <2>3. r \in Shape /\ r.el = e /\ r.overlay = o /\ r.stack = Append(k, m)
    <3>1. Append(k, m) \in Stacks BY <2>1, <1>0
    <3> HIDE DEF Els, Overlays, Stacks
    <3> QED BY <2>2, <3>1, <1>0 DEF Shape
  <2>4. QueueOK(e, Append(k, m))
    BY <2>1, <1>0 DEF Good, QueueOK
  <2> QED BY <2>3, <2>4, <1>0 DEF Good, GoodState
<1>2. CASE ~Modals!Waits(s, m) /\ e[m].flag
  BY <1>2 DEF Modals!OpenModal
<1>3. CASE ~Modals!Waits(s, m) /\ ~e[m].flag
  <2>1. r = [s EXCEPT !.el[m] = Modals!Opened(@), !.overlay = @ \cup Modals!OverlayOf(m)]
    BY <1>3 DEF Modals!OpenModal
  <2>2. /\ Modals!Opened(e[m]) \in State /\ Modals!Opened(e[m]).cls = "in"
        /\ Modals!Opened(e[m]).ends = e[m].ends \cup {"open"} /\ Modals!Opened(e[m]).dom
        /\ Modals!Opened(e[m]).seen /\ ("close" \in e[m].ends => Modals!Opened(e[m]).again)
    BY <1>0, OpenedState
  <2>3. /\ r \in Shape /\ r.stack = k /\ r.overlay = o \cup Modals!OverlayOf(m)
        /\ r.el = [e EXCEPT ![m] = Modals!Opened(e[m])]
    <3>1. [e EXCEPT ![m] = Modals!Opened(e[m])] \in Els
      BY <2>2, <1>0
    <3>2. o \cup Modals!OverlayOf(m) \in Overlays
      BY <1>0 DEF Shape, Modals!OverlayOf
    <3> HIDE DEF Els, Overlays, Stacks
    <3> QED BY <2>1, <3>1, <3>2, <1>0 DEF Shape
  <2>4. Opens(e, o, m, r.el, r.overlay)
    BY <2>2, <2>3, <1>0 DEF Opens
  <2>5. m \in Dialog => ~ \E d \in Dialog : e[d].cls = "in"
    BY <1>3 DEF Modals!Waits
  <2>6. m \in Dialog \cup Sheet => "close" \notin e[m].ends
    BY HiddenState
  <2> QED BY <2>3, <2>4, <2>5, <2>6, <1>0, OpensKeeps DEF GoodState
<1> QED BY <1>1, <1>2, <1>3

\* An element is closed: it is out, or hidden if it is a popover.
Closes(e, o, m, e2, o2) ==
    /\ e2 \in Els
    /\ IF m \in Popover THEN e2[m] = Modals!Hidden
       ELSE e2[m].cls = "out" /\ e2[m].ends = e[m].ends \cup {"close"} /\ e2[m].dom
    /\ \A x \in Modals!Element : x # m => e2[x] = e[x]
    /\ \A v \in o2 : v \in o /\ (m \notin Popup => v # "modal")
    /\ (m \in Popup /\ \A p \in Popup : e[p].cls = "in" => p = m) => "popup" \notin o2
    /\ ("popup" \in o /\ \E p \in Popup : p # m /\ e[p].cls = "in") => "popup" \in o2

\* So does closing: the overlay of popups leaves with the last popup only, and
\* whatever has the common overlay takes it away.
LEMMA ClosesKeeps ==
    ASSUME NEW e, NEW o, NEW k, Good(e, o, k), NEW m \in Modals!Element,
           \A i \in 1..Len(k) : k[i] # m,
           NEW e2, NEW o2, Closes(e, o, m, e2, o2)
    PROVE  /\ Good(e2, o2, k)
<1> USE AssumptionOfModals DEF Modals!ModalsAssumption
<1>0. e2[m].cls # "in"
  BY HiddenState DEF Closes
<1>1. OneIn(e2)
  BY <1>0 DEF Good, Closes, OneIn, Modals!Element
<1>2. QueueOK(e2, k)
  <2>1. \A i \in 1..Len(k) : k[i] \in Modals!Element
    BY DEF Good, QueueOK, Modals!Element
  <2> QED BY <2>1 DEF Good, QueueOK, Closes
<1>3. Covered(e2, o2)
  <2>1. SUFFICES ASSUME NEW v \in o2
                 PROVE  \E x \in Modals!Element : e2[x].cls = "in" /\ v \in Modals!OverlayOf(x)
    BY DEF Covered
  <2>2. PICK x \in Modals!Element : e[x].cls = "in" /\ v \in Modals!OverlayOf(x)
    BY DEF Good, Covered, Closes
  <2>3. CASE x # m
    BY <2>2, <2>3 DEF Closes
  <2>4. CASE x = m
    <3>1. m \in Popup /\ v = "popup"
      BY <2>2, <2>4 DEF Closes, Modals!OverlayOf
    <3>2. PICK p \in Popup : e[p].cls = "in" /\ p # m
      BY <3>1 DEF Closes
    <3>3. p \in Modals!Element /\ v \in Modals!OverlayOf(p)
      BY <3>1, <3>2 DEF Modals!Element, Modals!OverlayOf
    <3> QED BY <3>2, <3>3 DEF Closes
  <2> QED BY <2>3, <2>4
<1>4. RemovedIsOut(e2)
  BY DEF Good, Closes, RemovedIsOut, Modals!Element
<1>5. InDocument(e2)
  BY HiddenState DEF Good, Closes, InDocument
<1>6. PopupsCovered(e2, o2)
  BY <1>0 DEF Good, Closes, PopupsCovered, Modals!Element
<1>7. Displayed(e2)
  BY <1>0 DEF Good, Closes, Displayed
<1> QED BY <1>1, <1>2, <1>3, <1>4, <1>5, <1>6, <1>7 DEF Good, Closes

\* The dialog that waits longest is opened, and waits no more.
LEMMA ClearQueueKeeps ==
    ASSUME NEW s, GoodState(s), NEW r, r = Modals!ModalStackClearQueue(s)
    PROVE  GoodState(r)
<1> USE AssumptionOfModals DEF Modals!ModalsAssumption
<1>1. CASE s.stack = <<>>
  BY <1>1 DEF Modals!ModalStackClearQueue
<1>2. CASE s.stack # <<>>
  <2> DEFINE t == [s EXCEPT !.stack = Tail(@)]
             k == s.stack
             n == Head(k)
  <2>1. r = Modals!OpenModal(t, n)
    BY <1>2 DEF Modals!ModalStackClearQueue
  <2>2. /\ n \in Dialog /\ n = k[1] /\ s.el[n] = Modals!Hidden
        /\ Tail(k) \in Stacks /\ Len(Tail(k)) = Len(k) - 1 /\ Len(k) \in Nat
        /\ \A i \in 1..Len(Tail(k)) : Tail(k)[i] = k[i + 1] /\ i + 1 \in 1..Len(k)
    BY <1>2 DEF GoodState, Good, QueueOK
  <2>3. \A i \in 1..Len(Tail(k)) : Tail(k)[i] # n
    BY <2>2 DEF GoodState, Good, QueueOK
  <2>4. t \in Shape /\ t.el = s.el /\ t.overlay = s.overlay /\ t.stack = Tail(k)
    BY <2>2 DEF GoodState, Shape
  <2>5. QueueOK(s.el, Tail(k))
    BY <2>2 DEF GoodState, Good, QueueOK
  <2>6. GoodState(t)
    BY <2>4, <2>5 DEF GoodState, Good
  <2>7. n \in Modals!Element /\ n \notin Sheet
    BY <2>2 DEF Modals!Element
  <2> HIDE DEF t, n
  <2>8. t.el[n].dom /\ t.el[n] = Modals!Hidden /\ \A i \in 1..Len(t.stack) : t.stack[i] # n
    BY <2>2, <2>3, <2>4, HiddenState
  <2> QED BY <2>1, <2>6, <2>7, <2>8, OpenModalKeeps
<1> QED BY <1>1, <1>2

\* closeModal keeps the invariant, and so does the dialog that it lets open.
LEMMA CloseModalKeeps ==
    ASSUME NEW s, GoodState(s), NEW m \in Modals!Element,
           s.el[m].dom, m \notin Dialog \cup Sheet => s.el[m].cls = "in",
           \A i \in 1..Len(s.stack) : s.stack[i] # m,
           NEW r, r = Modals!CloseModal(s, m)
    PROVE  GoodState(r)
<1> DEFINE e == s.el
           o == s.overlay
           k == s.stack
           e2 == [e EXCEPT ![m] = Modals!Closed(e[m])]
           o2 == o \ Modals!Uncovers(s, m)
<1> USE AssumptionOfModals DEF Modals!ModalsAssumption
<1>0. /\ e[m] \in State /\ e \in Els /\ s \in Shape
      /\ Good(e, o, k) /\ k \in Stacks
  BY DEF Good, GoodState, Shape
<1>1. \A v \in o2 : v \in o /\ (m \notin Popup => v # "modal")
  BY DEF Modals!Uncovers
<1>2. ASSUME m \in Popup, \A p \in Popup : e[p].cls = "in" => p = m PROVE "popup" \notin o2
  <2>1. {p \in Popup : s.el[p].cls = "in"} = {m}
    BY <1>2
  <2>2. Modals!Uncovers(s, m) = {"popup"}
    BY <1>2, <2>1 DEF Modals!Uncovers
  <2> QED BY <2>2
<1>b. ASSUME "popup" \in o, NEW p \in Popup, p # m, e[p].cls = "in" PROVE "popup" \in o2
  <2>1. CASE m \notin Popup
    BY <1>b, <2>1 DEF Modals!Uncovers
  <2>2. CASE m \in Popup
    <3>1. e[m].cls = "in"
      BY <2>2
    <3>2. \A q \in Popup : {x \in Popup : s.el[x].cls = "in"} # {q}
      BY <1>b, <2>2, <3>1
    <3> QED BY <1>b, <2>2, <3>2 DEF Modals!Uncovers
  <2> QED BY <2>1, <2>2
<1>3. CASE m \in Popover
  <2>1. r = [s EXCEPT !.el[m] = Modals!Hidden, !.overlay = @ \ Modals!Uncovers(s, m)]
    BY <1>3 DEF Modals!CloseModal
  <2>2. r \in Shape /\ r.el = [e EXCEPT ![m] = Modals!Hidden] /\ r.overlay = o2 /\ r.stack = k
    <3>1. [e EXCEPT ![m] = Modals!Hidden] \in Els
      BY <1>0, HiddenState
    <3>2. o2 \in Overlays
      BY <1>0 DEF Shape
    <3> HIDE DEF Els, Overlays, Stacks
    <3> QED BY <2>1, <3>1, <3>2, <1>0 DEF Shape
  <2>3. Closes(e, o, m, r.el, r.overlay)
    BY <1>0, <1>1, <1>2, <1>b, <1>3, <2>2, HiddenState, ZenonT(30) DEF Closes
  <2> QED BY <1>0, <2>2, <2>3, ClosesKeeps DEF GoodState
<1>4. CASE m \notin Popover
  <2> DEFINE out == [s EXCEPT !.el[m] = Modals!Closed(@), !.overlay = @ \ Modals!Uncovers(s, m)]
  <2>1. Modals!Closed(e[m]) \in State
    BY <1>0, OpenedState
  <2>2. out \in Shape /\ out.el = e2 /\ out.overlay = o2 /\ out.stack = k
    <3>1. e2 \in Els
      BY <2>1, <1>0
    <3>2. o2 \in Overlays
      BY <1>0 DEF Shape
    <3> HIDE DEF Els, Overlays, Stacks
    <3> QED BY <3>1, <3>2, <1>0 DEF Shape
  <2>3. Closes(e, o, m, out.el, out.overlay)
    BY <1>0, <1>1, <1>2, <1>b, <1>4, <2>1, <2>2, OpenedState DEF Closes
  <2>4. GoodState(out)
    BY <1>0, <2>2, <2>3, ClosesKeeps DEF GoodState
  <2>5. CASE m \notin Dialog
    BY <1>4, <2>4, <2>5 DEF Modals!CloseModal
  <2>6. CASE m \in Dialog
    <3>1. r = Modals!ModalStackClearQueue(out)
      BY <1>4, <2>6 DEF Modals!CloseModal
    <3> HIDE DEF out
    <3> QED BY <2>4, <3>1, ClearQueueKeeps
  <2> QED BY <2>5, <2>6
<1> QED BY <1>3, <1>4

\* A dialog that openModal is given is open afterwards, or waits for one that is.
LEMMA OpenModalAttends ==
    ASSUME NEW s \in Shape, NEW m \in Modals!Element, m \in Dialog => s.el[m] = Modals!Hidden,
           m \in Dialog \/ Attended(s.el, s.stack), NEW r, r = Modals!OpenModal(s, m)
    PROVE  Attended(r.el, r.stack)
<1>0. s.el \in Els /\ s.el[m] \in State
  BY DEF Shape
<1>1. CASE Modals!Waits(s, m)
  <2>1. r.el = s.el
    BY <1>1 DEF Modals!OpenModal, Shape
  <2> QED BY <1>1, <2>1 DEF Modals!Waits, Attended
<1>2. CASE ~Modals!Waits(s, m) /\ s.el[m].flag
  <2>1. r = s /\ m \notin Dialog
    BY <1>2 DEF Modals!OpenModal, Modals!Hidden, Modals!Absent
  <2> QED BY <2>1
<1>3. CASE ~Modals!Waits(s, m) /\ ~s.el[m].flag
  <2>1. r.el = [s.el EXCEPT ![m] = Modals!Opened(s.el[m])] /\ r.stack = s.stack
    BY <1>3 DEF Modals!OpenModal, Shape
  <2>2. r.el[m].cls = "in" /\ \A d \in Dialog : d # m => r.el[d] = s.el[d]
    BY <1>0, <2>1, OpenedState DEF Modals!Element
  <2> QED BY <2>1, <2>2 DEF Attended
<1> QED BY <1>1, <1>2, <1>3

\* Who closes lets the next dialog in, and is himself no dialog otherwise.
LEMMA CloseModalAttends ==
    ASSUME NEW s, GoodState(s), NEW m \in Modals!Element, Attended(s.el, s.stack),
           \A i \in 1..Len(s.stack) : s.stack[i] # m, NEW r, r = Modals!CloseModal(s, m)
    PROVE  Attended(r.el, r.stack)
<1> USE AssumptionOfModals DEF Modals!ModalsAssumption
<1>0. s \in Shape /\ s.el \in Els /\ s.stack \in Stacks /\ QueueOK(s.el, s.stack)
  BY DEF GoodState, Good, Shape
<1>1. CASE m \in Popover
  <2>1. r.el = [s.el EXCEPT ![m] = Modals!Hidden] /\ r.stack = s.stack
    BY <1>0, <1>1 DEF Modals!CloseModal, Shape
  <2>2. \A d \in Dialog : r.el[d] = s.el[d]
    BY <1>0, <1>1, <2>1 DEF Modals!Element
  <2> QED BY <2>1, <2>2 DEF Attended
<1>2. CASE m \notin Popover
  <2> DEFINE e2 == [s.el EXCEPT ![m] = Modals!Closed(s.el[m])]
             o2 == s.overlay \ Modals!Uncovers(s, m)
             out == [s EXCEPT !.el[m] = Modals!Closed(@), !.overlay = @ \ Modals!Uncovers(s, m)]
  <2>1. out \in Shape /\ out.el = e2 /\ out.stack = s.stack
    <3>1. e2 \in Els /\ o2 \in Overlays
      BY <1>0, OpenedState DEF Shape
    <3> HIDE DEF Els, Overlays, Stacks
    <3> QED BY <1>0, <3>1 DEF Shape
  <2>2. CASE m \notin Dialog
    <3>1. r = out
      BY <1>2, <2>2 DEF Modals!CloseModal
    <3>2. \A d \in Dialog : e2[d] = s.el[d]
      BY <1>0, <2>2 DEF Modals!Element
    <3> QED BY <2>1, <3>1, <3>2 DEF Attended
  <2>3. CASE m \in Dialog
    <3> HIDE DEF out, o2
    <3>1. r = Modals!ModalStackClearQueue(out)
      BY <1>2, <2>3 DEF Modals!CloseModal, out
    <3>2. CASE s.stack = <<>>
      BY <2>1, <3>1, <3>2 DEF Modals!ModalStackClearQueue, Attended
    <3>3. CASE s.stack # <<>>
      <4> DEFINE t == [out EXCEPT !.stack = Tail(@)]
                 n == Head(out.stack)
      <4>1. r = Modals!OpenModal(t, n)
        BY <2>1, <3>1, <3>3 DEF Modals!ModalStackClearQueue
      <4>2. n \in Dialog /\ n = s.stack[1] /\ s.el[n] = Modals!Hidden /\ Tail(out.stack) \in Stacks
        BY <1>0, <2>1, <3>3 DEF QueueOK
      <4>3. t \in Shape /\ t.el = e2
        BY <2>1, <4>2 DEF Shape
      <4>4. n \in Modals!Element
        BY <4>2 DEF Modals!Element
      <4> HIDE DEF t, n
      <4>5. n # m
        BY <1>0, <3>3, <4>2
      <4>6. t.el[n] = Modals!Hidden
        BY <1>0, <4>2, <4>3, <4>4, <4>5
      <4> QED BY <4>1, <4>2, <4>3, <4>4, <4>6, OpenModalAttends
    <3> QED BY <3>2, <3>3
  <2> QED BY <2>2, <2>3
<1> QED BY <1>1, <1>2

-----------------------------------------------------------------------------
\* Nothing is open in the beginning.
LEMMA ModalsInit == ASSUME Modals!Init PROVE ModalsInv
<1>1. \A m \in Modals!Element : el[m] \in {Modals!Hidden, Modals!Absent}
  BY DEF Modals!Init
<1>2. el \in Els
  BY <1>1, HiddenState DEF Modals!Init
<1>3. OneIn(el) /\ RemovedIsOut(el) /\ PopupsCovered(el, overlay) /\ Displayed(el)
  BY <1>1, HiddenState DEF OneIn, RemovedIsOut, PopupsCovered, Displayed, Modals!Element
<1>4. QueueOK(el, stack) /\ Covered(el, overlay) /\ overlay = {} /\ Attended(el, stack)
  BY DEF Modals!Init, QueueOK, Covered, Attended
<1>5. InDocument(el)
  BY HiddenState DEF Modals!Init, InDocument
<1> QED BY <1>2, <1>3, <1>4, <1>5 DEF ModalsInv, Good

\* Every step of the modals keeps the invariant.
LEMMA ModalsNext == ASSUME ModalsInv, Modals!Next PROVE ModalsInv'
<1> USE AssumptionOfModals DEF Modals!ModalsAssumption
<1> DEFINE s == Modals!S
<1>0. /\ Good(el, overlay, stack) /\ GoodState(s) /\ Attended(el, stack)
      /\ s.el = el /\ s.overlay = overlay /\ s.stack = stack /\ s \in Shape
  BY DEF ModalsInv, Modals!S, GoodState, Shape, Good, QueueOK
<1>1. PICK m \in Modals!Element :
         \/ Modals!New(m) \/ Modals!Actions(m)
         \/ m \in Dialog \cup Sheet /\ Modals!Tap(m)
         \/ m \notin Dialog \cup Sheet /\ (Modals!Show(m) \/ Modals!Close(m))
         \/ Modals!TransitionEnd(m)
  BY DEF Modals!Next
<1>2. ASSUME el[m] # Modals!Hidden, NEW i \in 1..Len(stack) PROVE stack[i] # m
  BY <1>0, <1>2 DEF Good, QueueOK
<1>3. ASSUME m \notin Dialog, NEW i \in 1..Len(stack) PROVE stack[i] # m
  BY <1>0, <1>3 DEF Good, QueueOK
<1>4. el[m] \in State /\ el \in Els
  BY <1>0 DEF Good
<1>a. ASSUME NEW r, GoodState(r), Attended(r.el, r.stack), Modals!Become(r) PROVE ModalsInv'
  BY <1>a DEF GoodState, Modals!Become, ModalsInv
<1> HIDE DEF s
<1>5. CASE Modals!New(m) \/ Modals!Actions(m)
  <2> DEFINE t == [s EXCEPT !.el[m] = Modals!Hidden]
  <2>1. /\ m \in Dialog \cup Sheet /\ ~el[m].dom /\ Modals!Become(Modals!OpenModal(t, m))
    BY <1>0, <1>5 DEF Modals!New, Modals!Actions, Modals!Created, s
  <2>2. \A i \in 1..Len(stack) : stack[i] # m
    BY <1>2, <2>1, HiddenState
  <2>3. /\ t \in Shape /\ t.el = [el EXCEPT ![m] = Modals!Hidden] /\ t.overlay = overlay
        /\ t.stack = stack
    BY <1>0, <1>4, HiddenState DEF Shape
  <2>4. t.el[m] = Modals!Hidden /\ \A x \in Modals!Element : x # m => t.el[x] = el[x]
    BY <1>4, <2>3
  <2>5. Remains(el, m, t.el)
    BY <1>0, <1>4, <2>1, <2>3, <2>4, HiddenState DEF Remains, Good, InDocument, Shape
  <2>6. GoodState(t)
    BY <1>0, <2>2, <2>3, <2>5, RemainsKeeps DEF GoodState
  <2> HIDE DEF t
  <2>7. GoodState(Modals!OpenModal(t, m))
    BY <2>2, <2>3, <2>4, <2>6, OpenModalKeeps, HiddenState
  <2>8. m \in Dialog \/ Attended(t.el, t.stack)
    BY <1>0, <2>1, <2>3, <2>4 DEF Attended, Modals!Element
  <2>9. LET r == Modals!OpenModal(t, m) IN Attended(r.el, r.stack)
    BY <2>3, <2>4, <2>8, OpenModalAttends
  <2> QED BY <2>1, <2>7, <2>9, <1>a
<1>6. CASE m \in Dialog \cup Sheet /\ Modals!Tap(m)
  <2>1. (\A i \in 1..Len(stack) : stack[i] # m) /\ el[m].dom
    BY <1>2, <1>6, HiddenState DEF Modals!Tap
  <2>2. GoodState(Modals!CloseModal(s, m))
    BY <1>0, <1>6, <2>1, CloseModalKeeps
  <2>3. LET r == Modals!CloseModal(s, m) IN Attended(r.el, r.stack)
    BY <1>0, <1>6, <2>1, CloseModalAttends
  <2> QED BY <1>6, <2>2, <2>3, <1>a DEF Modals!Tap, s
<1>7. CASE m \notin Dialog \cup Sheet /\ Modals!Close(m)
  <2>1. el[m].dom
    BY <1>0, <1>7, HiddenState DEF Modals!Close, Good, InDocument
  <2>2. GoodState(Modals!CloseModal(s, m))
    BY <1>0, <1>3, <1>7, <2>1, CloseModalKeeps DEF Modals!Close
  <2>3. LET r == Modals!CloseModal(s, m) IN Attended(r.el, r.stack)
    BY <1>0, <1>3, <1>7, <2>1, CloseModalAttends DEF Modals!Close
  <2> QED BY <1>7, <2>2, <2>3, <1>a DEF Modals!Close, s
<1>8. CASE m \notin Dialog \cup Sheet /\ Modals!Show(m)
  <2> DEFINE t == [s EXCEPT !.el[m].seen = TRUE]
  <2>1. Modals!Become(Modals!OpenModal(t, m))
    BY <1>8 DEF Modals!Show, s
  <2>2. \A i \in 1..Len(stack) : stack[i] # m
    BY <1>3, <1>8
  <2>3. ASSUME NEW w, w = [el[m] EXCEPT !.seen = TRUE] PROVE w \in State
    BY <1>4, <2>3 DEF State
  <2>4. ASSUME NEW w, w = [el[m] EXCEPT !.seen = TRUE]
        PROVE  /\ w.cls = el[m].cls /\ w.dom = el[m].dom /\ w.ends = el[m].ends
               /\ w.again = el[m].again /\ w.seen
    BY <1>4, <2>4 DEF State
  <2>5. el[m].dom
    BY <1>0, <1>8 DEF Good, InDocument
  <2>6. ASSUME NEW w, w = [el[m] EXCEPT !.seen = TRUE]
        PROVE  GoodState(t) /\ t.el[m].dom /\ t.stack = stack /\ Attended(t.el, t.stack)
    <3>1. /\ t \in Shape /\ t.el = [el EXCEPT ![m] = w] /\ t.overlay = overlay
          /\ t.stack = stack
      <4>1. [el EXCEPT ![m] = w] \in Els
        BY <1>4, <2>3, <2>6
      <4> HIDE DEF Els, Overlays, Stacks
      <4> QED BY <1>0, <2>6, <4>1 DEF Shape
    <3>2. Remains(el, m, t.el) /\ t.el[m].dom
      BY <1>0, <1>4, <1>8, <2>3, <2>4, <2>5, <2>6, <3>1 DEF Remains, Shape, Good, Displayed
    <3>3. Attended(t.el, t.stack)
      BY <1>0, <3>1, <3>2 DEF Remains, Attended, Modals!Element
    <3> QED BY <1>0, <2>2, <3>1, <3>2, <3>3, RemainsKeeps DEF GoodState
  <2> HIDE DEF t
  <2>7. GoodState(Modals!OpenModal(t, m))
    BY <1>8, <2>2, <2>6, OpenModalKeeps
  <2>8. LET r == Modals!OpenModal(t, m) IN Attended(r.el, r.stack)
    BY <1>8, <2>6, OpenModalAttends DEF GoodState
  <2> QED BY <2>1, <2>7, <2>8, <1>a
<1>9. CASE Modals!TransitionEnd(m)
  <2>1. \A i \in 1..Len(stack) : stack[i] # m
    BY <1>2, <1>9, HiddenState DEF Modals!TransitionEnd
  <2>2. ASSUME NEW w, w = Modals!AfterEnds(m)
        PROVE  /\ w \in State /\ (w.cls = "in" <=> el[m].cls = "in")
               /\ w.cls = "in" => w.again \/ (w.seen /\ "close" \notin w.ends)
               /\ w.dom \/ (w = Modals!Absent /\ m \in Dialog \cup Sheet)
               /\ m \in Dialog \cup Sheet => w.ends = {}
    <3>0. /\ el[m].dom \/ (el[m] = Modals!Absent /\ m \in Dialog \cup Sheet)
          /\ el[m].cls = "in" => el[m].again \/ (el[m].seen /\ "close" \notin el[m].ends)
      BY <1>0 DEF Good, InDocument, Displayed
    <3>1. CASE "close" \notin el[m].ends
      <4>1. w = [el[m] EXCEPT !.ends = {}]
        BY <2>2, <3>1 DEF Modals!AfterEnds
      <4>2. w \in State
        BY <1>4, <4>1 DEF State
      <4>3. /\ w.cls = el[m].cls /\ w.dom = el[m].dom /\ w.ends = {}
            /\ w.again = el[m].again /\ w.seen = el[m].seen
        BY <1>4, <4>1 DEF State
      <4>4. el[m] # Modals!Absent
        BY <1>9, HiddenState DEF Modals!TransitionEnd
      <4> QED BY <3>0, <4>2, <4>3, <4>4
    <3>2. CASE "close" \in el[m].ends /\ m \in Dialog \cup Sheet
      <4>1. w = Modals!Absent /\ el[m].cls = "out"
        BY <1>0, <2>2, <3>2 DEF Modals!AfterEnds, Good, RemovedIsOut
      <4> QED BY <3>2, <4>1, HiddenState
    <3>3. CASE "close" \in el[m].ends /\ m \notin Dialog \cup Sheet
      <4>1. w = [el[m] EXCEPT !.ends = {}, !.seen = FALSE,
                              !.cls = IF el[m].cls = "out" THEN "" ELSE el[m].cls]
        BY <2>2, <3>3 DEF Modals!AfterEnds
      <4>2. w \in State
        BY <1>4, <4>1 DEF State
      <4>3. /\ w.cls = (IF el[m].cls = "out" THEN "" ELSE el[m].cls) /\ w.dom = el[m].dom
            /\ w.again = el[m].again
        BY <1>4, <4>1 DEF State
      <4> QED BY <3>0, <3>3, <4>2, <4>3
    <3> QED BY <3>1, <3>2, <3>3
  <2>3. Remains(el, m, el')
    BY <1>4, <1>9, <2>2 DEF Modals!TransitionEnd, Remains
  <2>4. Attended(el', stack)
    BY <1>0, <2>3 DEF Remains, Attended, Modals!Element
  <2> QED BY <1>0, <1>9, <2>1, <2>3, <2>4, RemainsKeeps DEF Modals!TransitionEnd, ModalsInv
<1> QED BY <1>1, <1>5, <1>6, <1>7, <1>8, <1>9

-----------------------------------------------------------------------------
\* framework7.js, openModal and closeModal: in every behaviour of a course's pages an
\* overlay belongs to something open above it and popups keep theirs, what is open is
\* displayed unless it was opened while it was closing, one dialog is seen at a time and
\* those that wait are hidden, wait once and for one that is open; and the same for what
\* notifications cover.
THEOREM CoversAlwaysAgree == Spec => []CoversAgree
<1>1. Init => ModalsInv
  BY ModalsInit DEF Init
<1>2. ModalsInv /\ [Next]_vars => ModalsInv'
  <2>1. [Next]_vars => Modals!Next \/ UNCHANGED modalsVars
    BY Zenon DEF Next, vars
  <2>2. ASSUME ModalsInv, UNCHANGED modalsVars PROVE ModalsInv'
    BY <2>2 DEF ModalsInv, modalsVars
  <2> QED BY <2>1, <2>2, ModalsNext
<1>3. ModalsInv => Modals!NoOrphanOverlay /\ Modals!OpenIsDisplayed /\ Modals!OneDialog
  <2> SUFFICES ASSUME ModalsInv
               PROVE  Modals!NoOrphanOverlay /\ Modals!OpenIsDisplayed /\ Modals!OneDialog
    OBVIOUS
  <2>1. Good(el, overlay, stack) /\ Attended(el, stack) BY DEF ModalsInv
  <2>2. Modals!NoOrphanOverlay /\ Modals!OpenIsDisplayed
    BY <2>1 DEF Good, Covered, PopupsCovered, Displayed, Modals!NoOrphanOverlay, Modals!OpenIsDisplayed
  <2>3. DOMAIN stack = 1..Len(stack)
    BY <2>1 DEF Good
  <2>4. Modals!OneDialog
    BY <2>1, <2>3 DEF Good, OneIn, QueueOK, Attended, Modals!OneDialog, Modals!ToSet
  <2> QED BY <2>2, <2>4
<1>4. Modals!NoOrphanOverlay /\ Modals!OpenIsDisplayed /\ Modals!OneDialog
          /\ Notes!ContainerShown /\ Notes!ClosedOnce
      => CoversAgree
  BY DEF CoversAgree
<1> QED BY <1>1, <1>2, <1>3, <1>4, NotificationsAgree, PTL DEF Spec

-----------------------------------------------------------------------------
(* The photo browser: where its elements are.                              *)

Excepted == crowded \/ unheard

PhotoTyped ==
    /\ kind \in {"standalone", "popup", "page"} /\ photoOpened \in BOOLEAN
    /\ made \in Nat /\ live \in {0, made} /\ listens \in BOOLEAN

\* Unless it was opened too soon, only the last element made is in the page.
LastInDom == inDom \subseteq {made} /\ leaving \subseteq inDom /\ (live # 0 => live \in inDom)

\* What is closed goes; and while it is open on its own nothing of it goes.
ClosedGoes ==
    /\ live = 0 => inDom \subseteq leaving
    /\ live # 0 => photoContainer = {live}
    /\ live # 0 /\ kind = "standalone" => leaving = {}

\* A browser that is a page hears that the page is removed.
PageListens == kind = "page" /\ live # 0 => listens

PhotoInv ==
    ~Excepted => /\ PhotoTyped /\ (photoOpened <=> live # 0)
                 /\ LastInDom /\ ClosedGoes /\ PageListens

(* What is enlarged: always the image that is held, and on another photo than  *)
(* the one in sight only while the slide runs that puts it back.               *)
ZoomTyped ==
    /\ index \in Photo /\ previous \in Photo /\ gesture \in Photo \cup {0} /\ scale \in {0, 1, 2}
    /\ made \in Nat /\ (live # 0 => photoOpened) /\ (live = 0 => gesture = 0)

HeldAlone ==
    /\ gesture # 0 => image = gesture
    /\ pinching /\ image # 0 => image = gesture
    /\ enlarged # {} => enlarged = {gesture} /\ gesture # 0 /\ scale # 1

PassesBy == ~strayed /\ gesture # 0 /\ gesture # index => sliding /\ previous # index

ZoomInv == ZoomTyped /\ HeldAlone /\ PassesBy

USE AssumptionOfPhotos DEF PhotoBrowser!PhotosAssumption

\* Nothing is open or enlarged at first.
LEMMA PhotoInit ==
    ASSUME PhotoBrowser!Init
    PROVE  PhotoInv /\ ZoomInv
<1>1. PhotoInv
  BY DEF PhotoBrowser!Init, PhotoInv, PhotoTyped, LastInDom, ClosedGoes, PageListens
<1>2. ZoomInv
  BY DEF PhotoBrowser!Init, ZoomInv, ZoomTyped, HeldAlone, PassesBy
<1> QED BY <1>1, <1>2

\* The elements are where they belong after every step that is not excepted.
LEMMA PhotoElements ==
    ASSUME PhotoInv, ~Excepted, ~Excepted', PhotoBrowser!Next
    PROVE  PhotoInv'
<1>0. /\ PhotoTyped /\ LastInDom /\ ClosedGoes /\ PageListens
      /\ (photoOpened <=> live # 0)
  BY DEF PhotoInv, Excepted
<1> SUFFICES /\ PhotoTyped' /\ LastInDom' /\ ClosedGoes' /\ PageListens'
             /\ (photoOpened <=> live # 0)'
  BY DEF PhotoInv, Excepted
<1>1. ASSUME NEW i \in Photo, PhotoBrowser!Open(i)
      PROVE  /\ PhotoTyped' /\ LastInDom' /\ ClosedGoes' /\ PageListens'
             /\ (photoOpened <=> live # 0)'
  <2>1. /\ live' = made + 1 /\ made' = made + 1 /\ inDom' = inDom \cup {made + 1}
        /\ photoContainer' = inDom' /\ leaving' = leaving /\ kind' = kind
    BY <1>1 DEF PhotoBrowser!Open
  <2>2. inDom = {}
    BY <1>1 DEF PhotoBrowser!Open, Excepted
  <2>3. photoOpened' = TRUE /\ listens' \in BOOLEAN /\ (kind = "page" => listens')
    BY <1>1, Zenon DEF PhotoBrowser!Open
  <2>4. made' \in Nat /\ live' # 0 /\ leaving' = {} /\ inDom' = {made'} /\ live' = made'
    BY <1>0, <2>1, <2>2 DEF PhotoTyped, LastInDom
  <2>5. photoContainer' = {live'} BY <2>1, <2>4
  <2>6. (photoOpened <=> live # 0)' BY <2>3, <2>4, Zenon
  <2> QED BY <1>0, <2>1, <2>3, <2>4, <2>5, <2>6, Zenon
       DEF PhotoTyped, LastInDom, ClosedGoes, PageListens
<1>2. ASSUME PhotoBrowser!Closed
      PROVE  live' = 0 /\ photoOpened' = FALSE /\ (photoOpened <=> live # 0)'
  <2>1. live' = 0 BY <1>2 DEF PhotoBrowser!Closed
  <2>2. photoOpened' = FALSE BY <1>2, Zenon DEF PhotoBrowser!Closed
  <2> QED BY <2>1, <2>2, Zenon
<1>3. ASSUME NEW n \in leaving, PhotoBrowser!Gone(n)
      PROVE  /\ PhotoTyped' /\ LastInDom' /\ ClosedGoes' /\ PageListens'
             /\ (photoOpened <=> live # 0)'
  <2>1. /\ made' = made /\ kind' = kind /\ photoContainer' = photoContainer
        /\ leaving' \subseteq leaving /\ inDom' \subseteq inDom /\ leaving' \subseteq inDom'
        /\ inDom \subseteq leaving => inDom' \subseteq leaving'
    BY <1>0, <1>3 DEF PhotoBrowser!Gone, LastInDom
  <2>2. listens' \in BOOLEAN
    BY <1>0, <1>3, Zenon DEF PhotoBrowser!Gone, PhotoTyped
  <2>3. n = made /\ inDom = {n} /\ leaving = {n}
    BY <1>0 DEF LastInDom
  <2>4. CASE PhotoBrowser!Tells
    <3>1. live' = 0 /\ photoOpened' = FALSE /\ (photoOpened <=> live # 0)'
      BY <1>2, <1>3, <2>4 DEF PhotoBrowser!Gone
    <3>2. inDom' \subseteq leaving'
      BY <1>0, <2>1, <2>3
    <3> QED BY <1>0, <2>1, <2>2, <3>1, <3>2, Zenon
         DEF PhotoTyped, LastInDom, ClosedGoes, PageListens
  <2>5. CASE ~PhotoBrowser!Tells
    <3>1. live' = live /\ photoOpened' = photoOpened
      BY <1>3, <2>5 DEF PhotoBrowser!Gone
    <3>2. live = 0
      BY <1>0, <2>5, <2>3 DEF PhotoBrowser!Tells, ClosedGoes, PageListens, PhotoTyped
    <3>3. inDom' \subseteq leaving'
      BY <1>0, <2>1, <2>3
    <3> QED BY <1>0, <2>1, <2>2, <3>1, <3>2, <3>3, Zenon
         DEF PhotoTyped, LastInDom, ClosedGoes, PageListens
  <2> QED BY <2>4, <2>5
<1>4. CASE PhotoBrowser!CloseLink
  <2>1. /\ made' = made /\ kind' = kind /\ inDom' = inDom /\ listens' = listens
        /\ leaving' = leaving \cup {live} /\ live # 0
    BY <1>0, <1>4 DEF PhotoBrowser!CloseLink, PhotoBrowser!Shown, ClosedGoes
  <2>2. live' = 0 /\ photoOpened' = FALSE /\ (photoOpened <=> live # 0)'
    BY <1>2, <1>4 DEF PhotoBrowser!CloseLink
  <2>3. live = made /\ inDom = {made}
    BY <1>0, <2>1 DEF LastInDom, PhotoTyped
  <2> QED BY <1>0, <2>1, <2>2, <2>3, Zenon DEF PhotoTyped, LastInDom, ClosedGoes, PageListens
<1>5. CASE PhotoBrowser!Left
  <2>1. /\ made' = made /\ kind' = kind /\ inDom' = inDom /\ listens' = listens /\ live' = live
        /\ leaving' = leaving \cup {live} /\ live \in inDom /\ kind # "standalone"
        /\ photoContainer' = photoContainer
    BY <1>5 DEF PhotoBrowser!Left
  <2>2. photoOpened' = photoOpened
    BY <1>5 DEF PhotoBrowser!Left
  <2> QED BY <1>0, <2>1, <2>2, Zenon DEF PhotoTyped, LastInDom, ClosedGoes, PageListens
<1>6. CASE PhotoBrowser!PullTimer /\ kind = "standalone"
  <2>1. /\ made' = made /\ kind' = kind /\ inDom' = inDom /\ listens' = listens
        /\ leaving' = IF live = 0 THEN leaving ELSE leaving \cup photoContainer
    BY <1>6 DEF PhotoBrowser!PullTimer
  <2>2. live' = 0 /\ photoOpened' = FALSE /\ (photoOpened <=> live # 0)'
    BY <1>2, <1>6 DEF PhotoBrowser!PullTimer
  <2>3. live # 0 => live = made /\ inDom = {made} /\ photoContainer = {made}
    BY <1>0, <2>1 DEF LastInDom, PhotoTyped, ClosedGoes
  <2>4. leaving' \subseteq inDom' /\ inDom' \subseteq leaving'
    BY <1>0, <2>1, <2>3 DEF LastInDom, ClosedGoes
  <2> QED BY <1>0, <2>1, <2>2, <2>4, Zenon DEF PhotoTyped, LastInDom, ClosedGoes, PageListens
<1>7. CASE PhotoBrowser!PullTimer /\ kind # "standalone"
  <2>1. /\ made' = made /\ kind' = kind /\ inDom' = inDom /\ listens' = listens
        /\ leaving' = leaving \cup (inDom \cap {made}) /\ live' = live
        /\ photoContainer' = photoContainer
    BY <1>7 DEF PhotoBrowser!PullTimer
  <2>2. photoOpened' = photoOpened
    BY <1>7 DEF PhotoBrowser!PullTimer
  <2>3. leaving' \subseteq inDom' /\ (inDom \subseteq leaving => inDom' \subseteq leaving')
    BY <1>0, <2>1 DEF LastInDom
  <2> QED BY <1>0, <1>7, <2>1, <2>2, <2>3, Zenon
       DEF PhotoTyped, LastInDom, ClosedGoes, PageListens
<1>8. CASE UNCHANGED <<kind, photoOpened, made, inDom, leaving, photoContainer, live, listens>>
  BY <1>0, <1>8, Zenon DEF PhotoTyped, LastInDom, ClosedGoes, PageListens
<1>9. CASE PhotoBrowser!OtherPageRemoved
  BY <1>9 DEF PhotoBrowser!OtherPageRemoved, Excepted
<1>10. \/ PhotoBrowser!CloseLink \/ PhotoBrowser!Left \/ PhotoBrowser!PullTimer
       \/ (\E i \in Photo : PhotoBrowser!Open(i)) \/ (\E n \in leaving : PhotoBrowser!Gone(n))
       \/ PhotoBrowser!OtherPageRemoved
       \/ UNCHANGED <<kind, photoOpened, made, inDom, leaving, photoContainer, live, listens>>
  BY Zenon DEF PhotoBrowser!Next, PhotoBrowser!SlideTo, PhotoBrowser!GestureStart,
               PhotoBrowser!SlideEnd, PhotoBrowser!GestureChange,
         PhotoBrowser!GestureEnd, PhotoBrowser!ToggleZoom, PhotoBrowser!PullStart, PhotoBrowser!PullMove,
         PhotoBrowser!PullEnd, PhotoBrowser!PulledBack, PhotoBrowser!elementVars
<1> QED BY <1>1, <1>3, <1>4, <1>5, <1>6, <1>7, <1>8, <1>9, <1>10

\* A browser that is closed forgets what it enlarged.
LEMMA PhotoForgets ==
    ASSUME ZoomInv, PhotoBrowser!Closed, made' = made
    PROVE  ZoomInv'
<1>1. CASE live = 0
  <2>1. /\ UNCHANGED <<live, index, previous, sliding, gesture, image, scale, pinching, enlarged, strayed>>
        /\ photoOpened' = FALSE
    BY <1>1, Zenon DEF PhotoBrowser!Closed, PhotoBrowser!zoomVars, PhotoBrowser!slideVars
  <2> QED BY <1>1, <2>1, Zenon DEF ZoomInv, ZoomTyped, HeldAlone, PassesBy
<1>2. CASE live # 0
  <2>1. /\ live' = 0 /\ enlarged' = {} /\ index' = index /\ previous' = previous
        /\ gesture' = 0 /\ image' = 0 /\ scale' = scale /\ ~photoOpened'
    BY <1>2 DEF PhotoBrowser!Closed, PhotoBrowser!Forgets
  <2> QED BY <1>2, <2>1 DEF ZoomInv, ZoomTyped, HeldAlone, PassesBy
<1> QED BY <1>1, <1>2

\* Two fingers, a double tap and the end of a slide: one image at a time.
LEMMA PhotoZoom ==
    ASSUME ZoomInv, PhotoBrowser!Next
    PROVE  ZoomInv'
<1>0. ZoomTyped /\ HeldAlone /\ PassesBy
  BY DEF ZoomInv
<1>1. ASSUME NEW i \in Photo, PhotoBrowser!Open(i) PROVE ZoomInv'
  <2>1. live = 0
    BY <1>0, <1>1 DEF PhotoBrowser!Open, ZoomTyped
  <2>2. /\ live' = made + 1 /\ made' = made + 1 /\ index' = i /\ previous' = i /\ enlarged' = {}
        /\ gesture' = gesture /\ image' = image /\ scale' = scale
    BY <1>1 DEF PhotoBrowser!Open
  <2>3. (pinching' <=> pinching) /\ photoOpened'
    BY <1>1, Zenon DEF PhotoBrowser!Open
  <2> QED BY <1>0, <2>1, <2>2, <2>3 DEF ZoomInv, ZoomTyped, HeldAlone, PassesBy
<1>2. ASSUME live # 0, live' = live, made' = made, photoOpened' = photoOpened, index' = index,
             previous' = previous, gesture' \in Photo \cup {0}, scale' \in {0, 1, 2}, HeldAlone', PassesBy'
      PROVE  ZoomInv'
  BY <1>0, <1>2 DEF ZoomInv, ZoomTyped
<1>3. ASSUME NEW i \in Photo, PhotoBrowser!SlideTo(i) PROVE ZoomInv'
  <2>1. live # 0 /\ live' = live /\ made' = made /\ photoOpened' = photoOpened /\ index' = i /\ previous' = index
        /\ gesture' = gesture /\ image' = image /\ scale' = scale /\ enlarged' = enlarged
    BY <1>3 DEF PhotoBrowser!SlideTo, PhotoBrowser!elementVars
  <2>2. (pinching' <=> pinching)
    BY <1>3, Zenon DEF PhotoBrowser!SlideTo
  <2>3. (strayed' <=> strayed \/ (i = index /\ sliding)) /\ (sliding' \/ i = index)
    BY <1>3, Zenon DEF PhotoBrowser!SlideTo
  <2>4. HeldAlone'
    BY <1>0, <2>1, <2>2 DEF HeldAlone
  <2>5. PassesBy'
    BY <1>0, <2>1, <2>3 DEF PassesBy
  <2> QED BY <1>0, <2>1, <2>4, <2>5 DEF ZoomInv, ZoomTyped
<1>4. ASSUME NEW i \in Photo, PhotoBrowser!GestureStart(i) PROVE ZoomInv'
  <2>1. /\ live # 0 /\ live' = live /\ made' = made /\ photoOpened' = photoOpened /\ index' = index /\ previous' = previous
        /\ scale' = scale /\ enlarged' = enlarged
        /\ gesture' = (IF gesture = 0 THEN i ELSE gesture)
        /\ image' = (IF gesture = 0 THEN i ELSE image)
    BY <1>4 DEF PhotoBrowser!GestureStart, PhotoBrowser!Shown, PhotoBrowser!Takes,
                PhotoBrowser!elementVars, PhotoBrowser!slideVars
  <2>2. /\ sliding' <=> sliding
        /\ strayed' <=> strayed \/ (i # index /\ ~(sliding /\ previous # index))
    BY <1>4, Zenon DEF PhotoBrowser!GestureStart, PhotoBrowser!slideVars
  <2>3. HeldAlone'
    BY <1>0, <2>1 DEF HeldAlone
  <2>4. PassesBy'
    BY <1>0, <2>1, <2>2 DEF PassesBy
  <2> QED BY <1>0, <1>2, <2>1, <2>3, <2>4 DEF ZoomTyped
<1>5. CASE PhotoBrowser!GestureChange
  <2>1. /\ live' = live /\ made' = made /\ photoOpened' = photoOpened /\ index' = index /\ previous' = previous
        /\ image # 0 /\ image' = image /\ gesture' = gesture /\ scale' \in {0, 1, 2}
        /\ enlarged' = IF scale' = 1 THEN enlarged \ {image} ELSE enlarged \cup {image}
    BY <1>5 DEF PhotoBrowser!GestureChange, PhotoBrowser!DrawnAt, PhotoBrowser!elementVars,
                PhotoBrowser!slideVars
  <2>2. pinching /\ (sliding' <=> sliding) /\ (strayed' <=> strayed)
    BY <1>5, Zenon DEF PhotoBrowser!GestureChange, PhotoBrowser!slideVars
  <2>3. image = gesture /\ gesture # 0 /\ live # 0
    BY <1>0, <2>1, <2>2 DEF HeldAlone, ZoomTyped
  <2>4. HeldAlone'
    BY <1>0, <2>1, <2>3 DEF HeldAlone
  <2>5. PassesBy'
    BY <1>0, <2>1, <2>2 DEF PassesBy
  <2> QED BY <1>0, <1>2, <2>1, <2>3, <2>4, <2>5 DEF ZoomTyped
<1>6. CASE PhotoBrowser!GestureEnd
  <2>1. live' = live /\ made' = made /\ photoOpened' = photoOpened /\ index' = index /\ previous' = previous
    BY <1>6 DEF PhotoBrowser!GestureEnd, PhotoBrowser!elementVars, PhotoBrowser!slideVars
  <2>2. pinching /\ ~pinching' /\ (sliding' <=> sliding) /\ (strayed' <=> strayed)
    BY <1>6, Zenon DEF PhotoBrowser!GestureEnd, PhotoBrowser!slideVars
  <2>3. CASE image = 0
    <3>1. UNCHANGED <<gesture, image, scale, enlarged>>
      BY <1>6, <2>3 DEF PhotoBrowser!GestureEnd
    <3> QED BY <1>0, <2>1, <2>2, <3>1 DEF ZoomInv, ZoomTyped, HeldAlone, PassesBy
  <2>4. CASE image # 0
    <3>1. /\ scale' = (IF scale = 0 THEN 1 ELSE scale) /\ image' = image
          /\ enlarged' = (IF scale' = 1 THEN enlarged \ {image} ELSE enlarged \cup {image})
          /\ gesture' = (IF scale' = 1 THEN 0 ELSE gesture)
      BY <1>6, <2>4 DEF PhotoBrowser!GestureEnd, PhotoBrowser!DrawnAt
    <3>2. image = gesture /\ gesture # 0 /\ live # 0
      BY <1>0, <2>2, <2>4 DEF HeldAlone, ZoomTyped
    <3>3. HeldAlone'
      BY <1>0, <2>2, <3>1, <3>2 DEF HeldAlone
    <3>4. PassesBy'
      BY <1>0, <2>1, <2>2, <3>1 DEF PassesBy
    <3> QED BY <1>0, <1>2, <2>1, <3>1, <3>2, <3>3, <3>4 DEF ZoomTyped
  <2> QED BY <2>3, <2>4
<1>7. CASE PhotoBrowser!ToggleZoom
  <2>1. live # 0 /\ live' = live /\ made' = made /\ photoOpened' = photoOpened /\ index' = index /\ previous' = previous
    BY <1>7 DEF PhotoBrowser!ToggleZoom, PhotoBrowser!Shown, PhotoBrowser!elementVars,
                PhotoBrowser!slideVars
  <2>2. ~pinching /\ ~pinching' /\ (sliding' <=> sliding) /\ (strayed' <=> strayed)
    BY <1>7, Zenon DEF PhotoBrowser!ToggleZoom, PhotoBrowser!slideVars
  <2>3. image' = IF gesture = 0 THEN index ELSE image
    BY <1>7 DEF PhotoBrowser!ToggleZoom
  <2>4. IF scale # 1 THEN scale' = 1 /\ gesture' = 0
        ELSE scale' = 2 /\ gesture' = (IF gesture = 0 THEN index ELSE gesture)
    BY <1>7 DEF PhotoBrowser!ToggleZoom
  <2>5. enlarged' = IF scale' = 1 THEN enlarged \ {image'} ELSE enlarged \cup {image'}
    BY <1>7 DEF PhotoBrowser!ToggleZoom, PhotoBrowser!DrawnAt
  <2>6. HeldAlone'
    BY <1>0, <2>2, <2>3, <2>4, <2>5 DEF HeldAlone, ZoomTyped
  <2>7. PassesBy'
    BY <1>0, <2>1, <2>2, <2>3, <2>4 DEF PassesBy
  <2> QED BY <1>0, <1>2, <2>1, <2>3, <2>4, <2>6, <2>7 DEF ZoomTyped
<1>8. CASE PhotoBrowser!SlideEnd
  <2>1. live # 0 /\ live' = live /\ made' = made /\ photoOpened' = photoOpened /\ index' = index /\ previous' = previous
    BY <1>8 DEF PhotoBrowser!SlideEnd, PhotoBrowser!Shown, PhotoBrowser!elementVars
  <2>2. (pinching' <=> pinching) /\ (strayed' <=> strayed)
    BY <1>8, Zenon DEF PhotoBrowser!SlideEnd, PhotoBrowser!zoomVars
  <2>3. CASE gesture # 0 /\ previous # index
    <3>1. gesture' = 0 /\ image' = 0 /\ scale' = 1 /\ enlarged' = enlarged \ {image}
      BY <1>8, <2>3 DEF PhotoBrowser!SlideEnd, PhotoBrowser!Resets
    <3>2. HeldAlone' /\ PassesBy'
      BY <1>0, <2>3, <3>1 DEF HeldAlone, PassesBy
    <3> QED BY <1>0, <1>2, <2>1, <3>1, <3>2
  <2>4. CASE ~(gesture # 0 /\ previous # index)
    <3>1. UNCHANGED <<gesture, image, scale, enlarged>>
      BY <1>8, <2>4 DEF PhotoBrowser!SlideEnd, PhotoBrowser!Resets, PhotoBrowser!zoomVars
    <3>2. HeldAlone'
      BY <1>0, <2>2, <3>1 DEF HeldAlone
    <3>3. PassesBy'
      BY <1>0, <2>1, <2>2, <2>4, <3>1 DEF PassesBy
    <3> QED BY <1>0, <1>2, <2>1, <3>1, <3>2, <3>3 DEF ZoomTyped
  <2> QED BY <2>3, <2>4
<1>9. CASE PhotoBrowser!Closed /\ made' = made
  BY <1>9, PhotoForgets
<1>10. CASE UNCHANGED <<photoOpened, made, live, index, previous, sliding, gesture, image, scale,
                        pinching, enlarged, strayed>>
  BY <1>10, Zenon DEF ZoomInv, ZoomTyped, HeldAlone, PassesBy
<1>11. \/ \E i \in Photo : PhotoBrowser!Open(i) \/ PhotoBrowser!SlideTo(i) \/ PhotoBrowser!GestureStart(i)
       \/ PhotoBrowser!GestureChange \/ PhotoBrowser!GestureEnd \/ PhotoBrowser!ToggleZoom
       \/ PhotoBrowser!SlideEnd
       \/ PhotoBrowser!Closed /\ made' = made
       \/ UNCHANGED <<photoOpened, made, live, index, previous, sliding, gesture, image, scale,
                      pinching, enlarged, strayed>>
  BY Zenon DEF PhotoBrowser!Next, PhotoBrowser!Gone, PhotoBrowser!CloseLink, PhotoBrowser!Left,
         PhotoBrowser!OtherPageRemoved, PhotoBrowser!PullStart, PhotoBrowser!PullMove,
         PhotoBrowser!PullEnd, PhotoBrowser!PulledBack, PhotoBrowser!PullTimer,
         PhotoBrowser!elementVars, PhotoBrowser!zoomVars, PhotoBrowser!slideVars
<1> QED BY <1>1, <1>3, <1>4, <1>5, <1>6, <1>7, <1>8, <1>9, <1>10, <1>11

\* framework7.js, "Photo Browser": what is open is in the page and what is closed
\* goes; at most one photo is enlarged, the one that a double tap would put back,
\* and at rest the one in sight.
THEOREM PhotosAlwaysAgree == Spec => []PhotosAgree
<1>1. Init => PhotoInv /\ ZoomInv
  BY PhotoInit DEF Init
<1>2. PhotoInv /\ ZoomInv /\ [Next]_vars => PhotoInv' /\ ZoomInv'
  <2> SUFFICES ASSUME PhotoInv, ZoomInv, [Next]_vars PROVE PhotoInv' /\ ZoomInv'
    OBVIOUS
  <2>1. PhotoBrowser!Next \/ UNCHANGED photoVars
    BY Zenon DEF Next, vars
  <2>2. CASE UNCHANGED photoVars
    <3>1. PhotoInv'
      BY <2>2, Zenon DEF photoVars, PhotoInv, Excepted, PhotoTyped, LastInDom, ClosedGoes, PageListens
    <3>2. ZoomInv' BY <2>2, Zenon DEF photoVars, ZoomInv, ZoomTyped, HeldAlone, PassesBy
    <3> QED BY <3>1, <3>2
  <2>3. CASE PhotoBrowser!Next
    <3>1. Excepted => Excepted'
      BY <2>3, Zenon DEF Excepted, PhotoBrowser!Next, PhotoBrowser!Open, PhotoBrowser!SlideTo,
         PhotoBrowser!GestureStart, PhotoBrowser!Gone, PhotoBrowser!CloseLink, PhotoBrowser!Left,
         PhotoBrowser!OtherPageRemoved, PhotoBrowser!SlideEnd, PhotoBrowser!GestureChange,
         PhotoBrowser!GestureEnd, PhotoBrowser!ToggleZoom, PhotoBrowser!PullStart,
         PhotoBrowser!PullMove, PhotoBrowser!PullEnd, PhotoBrowser!PulledBack,
         PhotoBrowser!PullTimer, PhotoBrowser!elementVars
    <3>2. ZoomInv' BY <2>3, PhotoZoom
    <3>3. PhotoInv' BY <2>3, <3>1, PhotoElements DEF PhotoInv
    <3> QED BY <3>2, <3>3
  <2> QED BY <2>1, <2>2, <2>3
<1>3. PhotoInv /\ ZoomInv => PhotosAgree
  <2> SUFFICES ASSUME PhotoInv, ZoomInv PROVE PhotosAgree
    OBVIOUS
  <2>1. ASSUME ~crowded, ~unheard
        PROVE  photoOpened = (live # 0) /\ (live # 0 => live \in inDom)
               /\ inDom \subseteq leaving \cup {live}
    <3>1. photoOpened = (live # 0)
      BY <2>1, Zenon DEF PhotoInv, PhotoTyped, Excepted
    <3>2. (live # 0 => live \in inDom) /\ inDom \subseteq leaving \cup {live}
      BY <2>1 DEF PhotoInv, PhotoTyped, Excepted, LastInDom, ClosedGoes
    <3> QED BY <3>1, <3>2
  <2>2. enlarged # {} => enlarged = {gesture} /\ image = gesture /\ scale # 1
    BY DEF ZoomInv, HeldAlone
  <2>3. live # 0 /\ ~sliding /\ ~strayed => enlarged \subseteq {index}
    BY DEF ZoomInv, HeldAlone, PassesBy
  <2> QED BY <2>1, <2>2, <2>3
       DEF PhotosAgree, PhotoBrowser!OpenIsShown, PhotoBrowser!EnlargedIsKnown,
           PhotoBrowser!EnlargedInSight
<1> QED BY <1>1, <1>2, <1>3, PTL DEF Spec

-----------------------------------------------------------------------------
(* The rows of a list: which of them are out.                              *)

Touches == [on : {"none", "row", "handle"}, row : Row \cup {NULL}, moved : BOOLEAN,
            opened : BOOLEAN]

RowsTyped ==
    /\ listAt \in [Row -> Int] /\ openedEl \in Row \cup {NULL} /\ listTouch \in Touches
    /\ listTouch.on # "none" => listTouch.row \in Row

\* A row whose content follows the finger.
Follows(r) == listTouch.on = "row" /\ listTouch.row = r /\ listTouch.moved

\* A row that is out is remembered, and marked, unless it follows the finger.
KnownOut ==
    ~listLost => \A r \in Row : listAt[r] # 0 /\ r \notin deleting /\ ~Follows(r)
                                    => openedEl = r /\ r \in openedClass

\* No row is out beside the one under the finger.
AloneOut ==
    ~listLost /\ listTouch.on = "row" =>
        \A r \in Row \ {listTouch.row} : listAt[r] # 0 => r \in deleting

RowsInv == RowsTyped /\ KnownOut /\ AloneOut

USE AssumptionOfRows DEF ListRows!RowsAssumption

\* At first all rows are in.
LEMMA RowsInit == ASSUME ListRows!Init PROVE RowsInv
<1>1. listTouch \in Touches
  BY DEF ListRows!Init, ListRows!NoTouch, Touches
<1> QED BY <1>1 DEF ListRows!Init, ListRows!NoTouch, RowsInv, RowsTyped, KnownOut, AloneOut

\* A touch elsewhere closes the row that is out and remembered.
LEMMA ElsewhereCloses ==
    ASSUME RowsTyped, NEW r \in Row \cup {NULL}, NEW s, s = ListRows!Elsewhere(ListRows!S, r)
    PROVE  /\ s.at \in [Row -> Int] /\ s.openedEl \in {openedEl, NULL}
           /\ \A o \in Row : s.at[o] # 0 => s.at[o] = listAt[o]
           /\ \A o \in Row : s.at[o] # 0 /\ openedEl = o /\ o \in openedClass
                                 => o = r /\ s.openedEl = o /\ o \in s.openedClass
<1>1. CASE openedEl \in {NULL, r} \/ openedEl \notin openedClass
  <2>1. s.at = listAt /\ s.openedEl = openedEl /\ s.openedClass = openedClass
    BY <1>1 DEF ListRows!Elsewhere, ListRows!SwipeoutClose, ListRows!S
  <2> QED BY <1>1, <2>1 DEF RowsTyped
<1>2. CASE openedEl \notin {NULL, r} /\ openedEl \in openedClass
  <2>1. openedEl \in Row BY <1>2 DEF RowsTyped
  <2>2. /\ s.at = [listAt EXCEPT ![openedEl] = 0] /\ s.openedEl = NULL
        /\ s.openedClass = openedClass \ {openedEl}
    BY <1>2 DEF ListRows!Elsewhere, ListRows!SwipeoutClose, ListRows!Glide, ListRows!S
  <2> QED BY <2>1, <2>2 DEF RowsTyped
<1> QED BY <1>1, <1>2

\* A touch that begins, on a row, on a handle or elsewhere: at most the row that is
\* touched stays out.
LEMMA RowsBegin ==
    ASSUME RowsInv, ListRows!Known, NEW r \in Row \cup {NULL}, listTouch = ListRows!NoTouch,
           listAt' = ListRows!Elsewhere(ListRows!S, r).at,
           openedEl' = ListRows!Elsewhere(ListRows!S, r).openedEl,
           openedClass' = ListRows!Elsewhere(ListRows!S, r).openedClass,
           UNCHANGED <<deleting, listLost>>,
           listTouch' \in Touches,
           \/ listTouch'.on = "none" \/ (r \in Row /\ listTouch'.row = r /\ ~listTouch'.moved)
    PROVE  RowsInv'
<1> DEFINE s == ListRows!Elsewhere(ListRows!S, r)
<1>1. /\ s.at \in [Row -> Int] /\ s.openedEl \in {openedEl, NULL}
      /\ \A o \in Row : s.at[o] # 0 => s.at[o] = listAt[o]
      /\ \A o \in Row : s.at[o] # 0 /\ openedEl = o /\ o \in openedClass
                            => o = r /\ s.openedEl = o /\ o \in s.openedClass
  BY ElsewhereCloses DEF RowsInv
<1>2. \A o \in Row : listAt[o] # 0 /\ o \notin deleting => openedEl = o /\ o \in openedClass
  BY DEF RowsInv, KnownOut, ListRows!Known, Follows, ListRows!NoTouch
<1>3. \A o \in Row : listAt'[o] # 0 /\ o \notin deleting
                         => o = r /\ openedEl' = o /\ o \in openedClass'
  BY <1>1, <1>2
<1>4. RowsTyped'
  BY <1>1 DEF RowsInv, RowsTyped
<1> HIDE DEF s
<1>5. KnownOut'
  BY <1>3 DEF KnownOut
<1>6. AloneOut'
  BY <1>3 DEF AloneOut
<1> QED BY <1>4, <1>5, <1>6 DEF RowsInv

\* The steps of a list of rows, one by one.
LEMMA RowsActions ==
    ASSUME ListRows!Next
    PROVE  \/ \E r \in Row \cup {NULL} : ListRows!TouchStart(r)
           \/ \E x \in -1..2 : ListRows!TouchMove(x)
           \/ \E y \in Int : ListRows!HandleMove(y)
           \/ \E r \in Row : \/ ListRows!HandleStart(r) \/ ListRows!SwipeoutOpen(r)
                             \/ ListRows!SwipeoutDelete(r) \/ ListRows!Deleted(r)
                             \/ ListRows!ContentEnds(r) \/ ListRows!CloseTimeout(r)
           \/ \E b \in BOOLEAN : ListRows!SetSortable(b)
           \/ ListRows!Scrolls \/ ListRows!TouchEnd \/ ListRows!TouchCancel \/ ListRows!HandleEnd
<1>1. \A y \in -ListRows!Offset(Len(order))..ListRows!Offset(Len(order)) : y \in Int
  OBVIOUS
<1> QED BY <1>1, Zenon DEF ListRows!Next

\* Every step remembers the row that is out.
LEMMA RowsNext == ASSUME RowsInv, ListRows!Next PROVE RowsInv'
<1> USE DEF ListRows!S, ListRows!Become
<1>0. RowsTyped /\ KnownOut /\ AloneOut
  BY DEF RowsInv
<1>a. ListRows!NoTouch \in Touches /\ ListRows!NoTouch.on = "none"
  BY DEF ListRows!NoTouch, Touches
<1>1. ASSUME NEW r \in Row \cup {NULL}, ListRows!TouchStart(r) PROVE RowsInv'
  <2>1. /\ listAt' = ListRows!Elsewhere(ListRows!S, r).at
        /\ openedEl' = ListRows!Elsewhere(ListRows!S, r).openedEl
        /\ openedClass' = ListRows!Elsewhere(ListRows!S, r).openedClass
        /\ ListRows!Known /\ listTouch = ListRows!NoTouch /\ UNCHANGED <<deleting, listLost>>
    BY <1>1 DEF ListRows!TouchStart
  <2>2. \/ listTouch' = ListRows!NoTouch
        \/ r \in Row /\ listTouch' = [ListRows!NoTouch EXCEPT !.on = "row", !.row = r]
    BY <1>1 DEF ListRows!TouchStart
  <2>3. CASE listTouch' = ListRows!NoTouch
    BY <1>a, <2>1, <2>3, RowsBegin
  <2>4. CASE r \in Row /\ listTouch' = [ListRows!NoTouch EXCEPT !.on = "row", !.row = r]
    <3>1. listTouch' \in Touches /\ listTouch'.row = r /\ ~listTouch'.moved
      BY <2>4 DEF Touches, ListRows!NoTouch
    <3> QED BY <2>1, <2>4, <3>1, RowsBegin
  <2> QED BY <2>2, <2>3, <2>4
<1>2. ASSUME NEW r \in Row, ListRows!HandleStart(r) PROVE RowsInv'
  <2> DEFINE s == ListRows!Elsewhere(ListRows!S, r)
  <2>1. listAt' = [s EXCEPT !.allow = FALSE].at /\ openedEl' = [s EXCEPT !.allow = FALSE].openedEl
        /\ openedClass' = [s EXCEPT !.allow = FALSE].openedClass
    BY <1>2 DEF ListRows!HandleStart
  <2>2. listAt' = s.at /\ openedEl' = s.openedEl /\ openedClass' = s.openedClass
    BY <2>1 DEF ListRows!Elsewhere, ListRows!SwipeoutClose, ListRows!Glide
  <2>3. ListRows!Known /\ listTouch = ListRows!NoTouch /\ UNCHANGED <<deleting, listLost>>
    BY <1>2 DEF ListRows!HandleStart
  <2>4. listTouch' = [ListRows!NoTouch EXCEPT !.on = "handle", !.row = r]
    BY <1>2 DEF ListRows!HandleStart
  <2>5. listTouch' \in Touches /\ listTouch'.row = r /\ ~listTouch'.moved
    BY <2>4 DEF Touches, ListRows!NoTouch
  <2> QED BY <2>2, <2>3, <2>5, RowsBegin
<1>3. ASSUME UNCHANGED <<listAt, openedEl, openedClass, listLost, deleting>>,
             listTouch' = ListRows!NoTouch, ~listTouch.moved \/ listTouch.on # "row"
      PROVE  RowsInv'
  BY <1>0, <1>a, <1>3 DEF RowsInv, RowsTyped, KnownOut, AloneOut, Follows
<1>4. CASE ListRows!Scrolls
  BY <1>3, <1>4 DEF ListRows!Scrolls, ListRows!swipeVars
<1>5. CASE ListRows!HandleEnd
  BY <1>3, <1>5 DEF ListRows!HandleEnd
<1>6. ASSUME NEW x \in -1..2, ListRows!TouchMove(x) PROVE RowsInv'
  <2> DEFINE r == listTouch.row
             was == IF ~listTouch.moved THEN r \in openedClass ELSE listTouch.opened
  <2>1. /\ r \in Row /\ listTouch.on = "row" /\ UNCHANGED <<deleting, listLost, openedEl>>
        /\ listAt' = [listAt EXCEPT ![r] = IF x < 0 THEN 0 ELSE x]
        /\ openedClass' = openedClass \ {r}
    BY <1>0, <1>6 DEF ListRows!TouchMove, RowsTyped
  <2>2. \/ x < 0 /\ listTouch' = ListRows!NoTouch
        \/ listTouch' = [listTouch EXCEPT !.moved = TRUE, !.opened = was]
    <3>1. listTouch' = IF x < 0 /\ ~was THEN ListRows!NoTouch
                       ELSE [listTouch EXCEPT !.moved = TRUE, !.opened = was]
      BY <1>6, Zenon DEF ListRows!TouchMove
    <3> HIDE DEF was
    <3> QED BY <3>1, Zenon
  <2>3. was \in BOOLEAN
    <3>1. listTouch.opened \in BOOLEAN
      BY <1>0 DEF RowsTyped, Touches
    <3>2. (r \in openedClass) \in BOOLEAN
      OBVIOUS
    <3> QED BY <3>1, <3>2, Zenon
  <2>4. \A o \in Row \ {r} : ~listLost /\ listAt[o] # 0 => o \in deleting
    BY <1>0, <2>1 DEF AloneOut
  <2>5. CASE x < 0 /\ listTouch' = ListRows!NoTouch
    BY <1>0, <1>a, <2>1, <2>4, <2>5 DEF RowsInv, RowsTyped, KnownOut, AloneOut
  <2>6. CASE listTouch' = [listTouch EXCEPT !.moved = TRUE, !.opened = was]
    <3> HIDE DEF was
    <3>1. listTouch' \in Touches /\ listTouch'.on = "row" /\ listTouch'.row = r /\ listTouch'.moved
      BY <1>0, <2>1, <2>3, <2>6 DEF RowsTyped, Touches
    <3>2. RowsTyped'
      BY <1>0, <2>1, <3>1 DEF RowsTyped
    <3> QED BY <1>0, <2>1, <2>4, <3>1, <3>2 DEF RowsInv, RowsTyped, KnownOut, AloneOut, Follows
  <2> QED BY <2>2, <2>5, <2>6
<1>7. CASE ListRows!TouchEnd
  <2> DEFINE r == listTouch.row
  <2>1. /\ r \in Row /\ listTouch.on = "row" /\ UNCHANGED <<deleting, listLost>>
        /\ listTouch' = ListRows!NoTouch
    BY <1>0, <1>7 DEF ListRows!TouchEnd, RowsTyped
  <2>2. CASE ~listTouch.moved
    BY <1>3, <1>7, <2>1, <2>2 DEF ListRows!TouchEnd, ListRows!swipeVars
  <2>3. CASE listTouch.moved
    <3>1. PICK opens \in BOOLEAN : ListRows!Become(ListRows!Release(ListRows!S, r, opens))
      BY <1>7, <2>3 DEF ListRows!TouchEnd
    <3>2. \/ listAt' = [listAt EXCEPT ![r] = 2] /\ openedClass' = openedClass \cup {r} /\ openedEl' = r
          \/ listAt' = [listAt EXCEPT ![r] = 0] /\ openedClass' = openedClass \ {r} /\ openedEl' = NULL
      BY <3>1 DEF ListRows!Release, ListRows!Glide
    <3>3. \A o \in Row \ {r} : ~listLost /\ listAt[o] # 0 => o \in deleting
      BY <1>0, <2>1 DEF AloneOut
    <3> QED BY <1>0, <1>a, <2>1, <3>2, <3>3 DEF RowsInv, RowsTyped, KnownOut, AloneOut
  <2> QED BY <2>2, <2>3
<1>8. CASE ListRows!TouchCancel
  <2>1. /\ UNCHANGED <<listAt, openedEl, openedClass, deleting>>
        /\ listTouch' = ListRows!NoTouch /\ listLost'
    BY <1>8 DEF ListRows!TouchCancel, ListRows!swipeVars
  <2> QED BY <1>0, <1>a, <2>1 DEF RowsInv, RowsTyped, KnownOut, AloneOut
<1>9. ASSUME UNCHANGED <<listAt, openedEl, openedClass, listLost, deleting, listTouch>> PROVE RowsInv'
  BY <1>0, <1>9 DEF RowsInv, RowsTyped, KnownOut, AloneOut, Follows
<1>10. ASSUME NEW y \in Int, ListRows!HandleMove(y) PROVE RowsInv'
  <2>1. /\ UNCHANGED <<listAt, openedEl, openedClass, listLost, deleting>>
        /\ listTouch.on = "handle" /\ listTouch' = [listTouch EXCEPT !.moved = TRUE]
    BY <1>10 DEF ListRows!HandleMove, ListRows!swipeVars
  <2>2. listTouch' \in Touches /\ listTouch'.on = "handle" /\ listTouch'.row = listTouch.row
    BY <1>0, <2>1 DEF RowsTyped, Touches
  <2> QED BY <1>0, <2>1, <2>2 DEF RowsInv, RowsTyped, KnownOut, AloneOut, Follows
<1>11. ASSUME NEW b \in BOOLEAN, ListRows!SetSortable(b) PROVE RowsInv'
  BY <1>9, <1>11 DEF ListRows!SetSortable, ListRows!swipeVars
<1>12. ASSUME NEW r \in Row, ListRows!SwipeoutOpen(r) PROVE RowsInv'
  <2>1. /\ listAt' = [listAt EXCEPT ![r] = 2] /\ openedClass' = openedClass \cup {r} /\ openedEl' = r
        /\ UNCHANGED <<deleting, listTouch>>
    BY <1>12 DEF ListRows!SwipeoutOpen, ListRows!Glide
  <2>2. ~listLost' => /\ listTouch.on = "row" => listTouch.row = r
                      /\ \A o \in Row : listAt[o] = 0
    BY <1>12 DEF ListRows!SwipeoutOpen
  <2> QED BY <1>0, <2>1, <2>2 DEF RowsInv, RowsTyped, KnownOut, AloneOut, Follows
<1>13. ASSUME NEW r \in Row, ListRows!SwipeoutDelete(r) PROVE RowsInv'
  <2>1. /\ UNCHANGED <<listAt, openedClass, listTouch>> /\ openedEl' = NULL
        /\ deleting' = deleting \cup {r}
    BY <1>13 DEF ListRows!SwipeoutDelete
  <2>2. ~listLost' => \A o \in Row \ {r} : listAt[o] = 0
    BY <1>13 DEF ListRows!SwipeoutDelete
  <2> QED BY <1>0, <2>1, <2>2 DEF RowsInv, RowsTyped, KnownOut, AloneOut, Follows
<1>14. ASSUME NEW r \in Row, ListRows!Deleted(r) PROVE RowsInv'
  <2>1. /\ UNCHANGED <<listAt, openedClass, openedEl, deleting, listLost>> /\ r \in deleting
        /\ listTouch' = IF listTouch.row = r THEN ListRows!NoTouch ELSE listTouch
    BY <1>14 DEF ListRows!Deleted
  <2> QED BY <1>0, <1>a, <2>1 DEF RowsInv, RowsTyped, KnownOut, AloneOut, Follows
<1>15. ASSUME NEW r \in Row, ListRows!ContentEnds(r) PROVE RowsInv'
  <2>1. UNCHANGED <<listAt, openedEl, openedClass, listLost, deleting, listTouch>>
    BY <1>15 DEF ListRows!ContentEnds, ListRows!OnSwipeoutClose
  <2> QED BY <1>9, <2>1
<1>16. ASSUME NEW r \in Row, ListRows!CloseTimeout(r) PROVE RowsInv'
  <2>1. UNCHANGED <<listAt, openedEl, openedClass, listLost, deleting, listTouch>>
    BY <1>16 DEF ListRows!CloseTimeout, ListRows!OnSwipeoutClose
  <2> QED BY <1>9, <2>1
<1> QED BY <1>1, <1>2, <1>4, <1>5, <1>6, <1>7, <1>8, <1>10, <1>11, <1>12, <1>13, <1>14, <1>15,
     <1>16, RowsActions

\* One component takes a step; a list of rows, if it is that one.
LEMMA ListSteps == ASSUME [Next]_vars PROVE ListRows!Next \/ UNCHANGED listVars
BY Zenon DEF Next, vars

\* The list of rows was left alone.
LEMMA RowsStay == ASSUME RowsInv, UNCHANGED listVars PROVE RowsInv'
BY DEF RowsInv, RowsTyped, KnownOut, AloneOut, Follows, listVars

\* framework7.js, swipeout: a row that is out and not under the finger is the one
\* that the next touch elsewhere closes, whatever was swiped, sorted, opened by the
\* page or deleted before - unless a touch was cancelled, or the page opened or
\* deleted a row beside one that was out.
THEOREM RowsAlwaysKnown == Spec => []OutIsKnown
<1>1. Init => RowsInv
  BY RowsInit DEF Init
<1>2. RowsInv /\ [Next]_vars => RowsInv'
  BY ListSteps, RowsStay, RowsNext
<1>3. RowsInv => OutIsKnown
  BY DEF RowsInv, KnownOut, Follows, OutIsKnown, ListRows!OutIsKnown
<1> QED BY <1>1, <1>2, <1>3, PTL DEF Spec

-----------------------------------------------------------------------------
(* The order of the rows.                                                  *)

\* A row that is taken out of a sequence, and put in elsewhere.
LEMMA Removed ==
    ASSUME NEW X, NEW s \in Seq(X), NEW i \in 1..Len(s), NEW t, t = ListRows!RemoveAt(s, i)
    PROVE  /\ t \in Seq(X) /\ Len(t) = Len(s) - 1
           /\ \A j \in 1..Len(t) : t[j] = IF j < i THEN s[j] ELSE s[j + 1]
<1> DEFINE a == SubSeq(s, 1, i - 1)
           b == SubSeq(s, i + 1, Len(s))
<1>1. /\ a \in Seq(X) /\ Len(a) = i - 1 /\ \A j \in 1..i - 1 : a[j] = s[j]
  BY SubSeqProperties
<1>2. /\ b \in Seq(X) /\ Len(b) = Len(s) - i /\ \A j \in 1..Len(s) - i : b[j] = s[i + j]
  BY SubSeqProperties
<1>3. t = a \o b
  BY DEF ListRows!RemoveAt
<1> HIDE DEF a, b
<1>4. /\ t \in Seq(X) /\ Len(t) = Len(s) - 1
      /\ \A j \in 1..Len(t) : t[j] = IF j <= i - 1 THEN a[j] ELSE b[j - (i - 1)]
  BY <1>1, <1>2, <1>3, ConcatProperties
<1>5. ASSUME NEW j \in 1..Len(t) PROVE t[j] = IF j < i THEN s[j] ELSE s[j + 1]
  <2>1. CASE j < i BY <1>1, <1>4, <2>1
  <2>2. CASE j >= i
    <3>1. j - (i - 1) \in 1..Len(s) - i BY <1>4, <2>2
    <3>2. b[j - (i - 1)] = s[i + (j - (i - 1))] BY <1>2, <3>1
    <3> QED BY <1>4, <2>2, <3>2
  <2> QED BY <2>1, <2>2
<1> QED BY <1>4, <1>5

\* And a row that is put into one.
PutAt(s, i, x, t) ==
    /\ t \in Seq(Row) /\ Len(t) = Len(s) + 1
    /\ \A j \in 1..Len(t) : t[j] = IF j < i THEN s[j] ELSE IF j = i THEN x ELSE s[j - 1]

\* Where a row put into a sequence is found, and the others around it.
LEMMA PutIn ==
    ASSUME NEW s \in Seq(Row), NEW i \in 1..Len(s) + 1, NEW x \in Row
    PROVE  PutAt(s, i, x, ListRows!InsertAt(s, i, x))
<1> DEFINE X == Row
           t == ListRows!InsertAt(s, i, x)
<1> DEFINE a == SubSeq(s, 1, i - 1)
           b == SubSeq(s, i, Len(s))
           c == a \o <<x>>
<1>1. /\ a \in Seq(X) /\ Len(a) = i - 1 /\ \A j \in 1..i - 1 : a[j] = s[j]
  BY SubSeqProperties
<1>2. /\ b \in Seq(X) /\ Len(b) = Len(s) - i + 1 /\ \A j \in 1..Len(s) - i + 1 : b[j] = s[i + j - 1]
  BY SubSeqProperties
<1>3. t = c \o b
  BY DEF ListRows!InsertAt
<1>4. <<x>> \in Seq(X) /\ Len(<<x>>) = 1 /\ <<x>>[1] = x
  OBVIOUS
<1> HIDE DEF X, t
<1>5. c \in Seq(X) /\ Len(c) = i /\ \A j \in 1..i : c[j] = IF j < i THEN s[j] ELSE x
  <2> DEFINE d == <<x>>
  <2> HIDE DEF a, d
  <2> QED BY <1>1, <1>4, ConcatProperties
<1> HIDE DEF a, b, c
<1>6. /\ t \in Seq(X) /\ Len(t) = Len(s) + 1
      /\ \A j \in 1..Len(t) : t[j] = IF j <= i THEN c[j] ELSE b[j - i]
  <2>1. c \in Seq(X) /\ Len(c) = i BY <1>5
  <2>2. b \in Seq(X) /\ Len(b) = Len(s) - i + 1 BY <1>2
  <2>3. /\ t \in Seq(X) /\ Len(t) = Len(c) + Len(b)
        /\ \A j \in 1..Len(c) + Len(b) : t[j] = IF j <= Len(c) THEN c[j] ELSE b[j - Len(c)]
    BY <1>3, <2>1, <2>2, ConcatProperties
  <2> QED BY <2>1, <2>2, <2>3
<1>7. ASSUME NEW j \in 1..Len(t)
      PROVE  t[j] = IF j < i THEN s[j] ELSE IF j = i THEN x ELSE s[j - 1]
  <2>1. CASE j <= i BY <1>5, <1>6, <2>1
  <2>2. CASE j > i
    <3>1. j - i \in 1..Len(s) - i + 1 BY <1>6, <2>2
    <3>2. b[j - i] = s[i + (j - i) - 1] BY <1>2, <3>1
    <3> QED BY <1>6, <2>2, <3>2
  <2> QED BY <2>1, <2>2
<1> QED BY <1>6, <1>7 DEF PutAt, X, t

\* A page lists a row once; the row on its handle is listed, and stays in the list.
OnHandle == listTouch.on = "handle"

OrderInv ==
    /\ order \in Seq(Row) /\ \A j, k \in 1..Len(order) : order[j] = order[k] => j = k
    /\ OnHandle =>
         /\ \E k \in 1..Len(order) : /\ order[k] = listTouch.row
                                     /\ 2 * (k - 1) + listPull \in 0..2 * (Len(order) - 1)
         /\ listPull \in Int /\ (~listTouch.moved => listPull = 0)

\* The list begins as its setting has it, and no row is on its handle.
LEMMA OrderInit == ASSUME Init PROVE OrderInv
<1>1. PICK t \in Setting : order = t.rows
  BY DEF Init, ListRows!Init
<1>2. ~OnHandle
  BY DEF Init, ListRows!Init, ListRows!NoTouch, OnHandle
<1> QED BY <1>1, <1>2 DEF OrderInv

\* Where a row is in the list.
LEMMA IndexIs ==
    ASSUME OrderInv, NEW k \in 1..Len(order)
    PROVE  ListRows!Index(order[k]) = k
BY DEF OrderInv, ListRows!Index

\* The rows that a pulled row displaces, and where it goes.
LEMMA Displaced ==
    ASSUME OrderInv, OnHandle, NEW i \in 1..Len(order), order[i] = listTouch.row
    PROVE  \E n \in 1..Len(order) :
              /\ ListRows!Inserted(listTouch.row) = n
              /\ ListRows!Above(listTouch.row) = n..i - 1
              /\ ListRows!Below(listTouch.row) = i + 1..n
              /\ 2 * i + listPull - 2 * n \in -1..1
<1> DEFINE r == listTouch.row
           y == listPull
           L == Len(order)
<1>1. ListRows!Index(r) = i
  BY IndexIs
<1>2. y \in Int /\ 2 * (i - 1) + y \in 0..2 * (L - 1) /\ L \in Nat /\ i \in 1..L
  BY DEF OrderInv
<1>3. /\ ListRows!Above(r) = {k \in 1..i - 1 : 2 * (i - 1) + y <= 2 * (k - 1) + 1}
      /\ ListRows!Below(r) = {k \in i + 1..L : 2 * (i - 1) + y >= 2 * (k - 1) - 1}
  BY <1>1 DEF ListRows!Above, ListRows!Below, ListRows!Offset
<1> HIDE DEF r, y, L
<1>4. PICK h \in Int : y = 2 * h \/ y = 2 * h + 1
  <2>1. y = 2 * (y \div 2) \/ y = 2 * (y \div 2) + 1 BY <1>2
  <2>2. y \div 2 \in Int BY <1>2
  <2> QED BY <2>1, <2>2
<1>5. CASE h < 0
  <2>1. i + h \in 1..L
    <3>1. 2 * (i - 1) + 2 * h + 1 >= 0 BY <1>2, <1>4
    <3>2. i + h \in Int /\ i + h >= 1 BY <1>2, <3>1
    <3>3. i + h <= L BY <1>2, <1>5
    <3> QED BY <1>2, <3>2, <3>3
  <2>2. ListRows!Above(r) = i + h..i - 1
    <3>1. ASSUME NEW k \in 1..i - 1
          PROVE  2 * (i - 1) + y <= 2 * (k - 1) + 1 <=> k >= i + h
      BY <1>2, <1>4, SMTT(30)
    <3> QED BY <1>2, <1>3, <2>1, <3>1, SMTT(30)
  <2>3. ListRows!Below(r) = {} BY <1>2, <1>3, <1>4, <1>5
  <2>4. ListRows!LeastOf(i + h..i - 1) = i + h
    BY <1>2, <1>5, <2>1 DEF ListRows!LeastOf
  <2>5. ListRows!Inserted(r) = i + h
    <3>1. i + h \in i + h..i - 1 BY <1>2, <1>5
    <3>2. ListRows!Above(r) # {} BY <2>2, <3>1
    <3> QED BY <1>1, <2>2, <2>3, <2>4, <3>2 DEF ListRows!Inserted
  <2>6. i + 1..i + h = {} BY <1>5
  <2> QED BY <1>2, <1>4, <2>1, <2>2, <2>3, <2>5, <2>6 DEF r, y, L
<1>6. CASE h >= 0
  <2>1. PICK g \in Nat : y = 2 * g \/ y = 2 * g - 1
    <3>1. CASE y = 2 * h BY <1>6, <3>1
    <3>2. CASE y = 2 * h + 1
      <4>1. h + 1 \in Nat /\ y = 2 * (h + 1) - 1 BY <1>6, <3>2
      <4> QED BY <4>1
    <3> QED BY <1>4, <3>1, <3>2
  <2>2. i + g \in 1..L BY <1>2, <2>1
  <2>3. ListRows!Below(r) = i + 1..i + g BY <1>2, <1>3, <2>1, <2>2
  <2>4. ListRows!Above(r) = {} BY <1>2, <1>3, <1>4, <1>6
  <2>5. g > 0 => ListRows!MostOf(i + 1..i + g) = i + g
    BY <1>2, <2>1, <2>2 DEF ListRows!MostOf
  <2>6. ListRows!Inserted(r) = i + g
    BY <1>1, <2>1, <2>2, <2>3, <2>4, <2>5 DEF ListRows!Inserted
  <2>7. i + g..i - 1 = {} BY <2>1
  <2> QED BY <1>2, <2>1, <2>2, <2>3, <2>4, <2>6, <2>7 DEF r, y, L
<1> QED BY <1>4, <1>5, <1>6

\* Where the row comes from that is the j-th when the i-th was moved to n.
From(i, n, j) ==
    IF j = n THEN i ELSE IF j < n THEN (IF j < i THEN j ELSE j + 1)
    ELSE IF j - 1 < i THEN j - 1 ELSE j

Moved(i, n, t) ==
    /\ t \in Seq(Row) /\ Len(t) = Len(order)
    /\ \A j \in 1..Len(order) : From(i, n, j) \in 1..Len(order) /\ t[j] = order[From(i, n, j)]

\* The order when the handle is let go.
LEMMA Reordered ==
    ASSUME OrderInv, NEW i \in 1..Len(order), NEW n \in 1..Len(order)
    PROVE  Moved(i, n, ListRows!InsertAt(ListRows!RemoveAt(order, i), n, order[i]))
<1> DEFINE u == ListRows!RemoveAt(order, i)
           t == ListRows!InsertAt(u, n, order[i])
<1>0. order \in Seq(Row) /\ order[i] \in Row
  BY DEF OrderInv
<1>1. /\ u \in Seq(Row) /\ Len(u) = Len(order) - 1
      /\ \A j \in 1..Len(u) : u[j] = IF j < i THEN order[j] ELSE order[j + 1]
  BY <1>0, Removed
<1> HIDE DEF u
<1>2. t = ListRows!InsertAt(u, n, order[i]) BY DEF t
<1> HIDE DEF t
<1>3. n \in 1..Len(u) + 1 BY <1>0, <1>1
<1>4. /\ t \in Seq(Row) /\ Len(t) = Len(u) + 1
      /\ \A j \in 1..Len(t) :
             t[j] = IF j < n THEN u[j] ELSE IF j = n THEN order[i] ELSE u[j - 1]
  <2>1. u \in Seq(Row) BY <1>1
  <2>2. \A k \in 1..Len(u) + 1 : \A x \in Row : PutAt(u, k, x, ListRows!InsertAt(u, k, x))
    BY <2>1, PutIn
  <2>3. PutAt(u, n, order[i], t)
    BY <1>0, <1>2, <1>3, <2>2, Zenon
  <2> QED BY <1>0, <2>1, <2>3 DEF PutAt
<1>5. Len(t) = Len(order) /\ Len(order) \in Nat
  BY <1>0, <1>1, <1>4
<1>6. ASSUME NEW j \in 1..Len(t) PROVE From(i, n, j) \in 1..Len(order) /\ t[j] = order[From(i, n, j)]
  <2>1. From(i, n, j) \in 1..Len(order) BY <1>5 DEF From
  <2>2. CASE j < n
    <3>1. j \in 1..Len(u) BY <1>1, <1>5, <2>2
    <3> QED BY <1>1, <1>4, <1>5, <2>1, <2>2, <3>1 DEF From
  <2>3. CASE j = n
    BY <1>4, <2>1, <2>3 DEF From
  <2>4. CASE j > n
    <3>1. j - 1 \in 1..Len(u) BY <1>1, <1>5, <2>4
    <3>2. t[j] = u[j - 1] BY <1>4, <1>5, <2>4
    <3>3. u[j - 1] = IF j - 1 < i THEN order[j - 1] ELSE order[j - 1 + 1] BY <1>1, <3>1
    <3> QED BY <1>5, <2>1, <2>4, <3>2, <3>3 DEF From
  <2> QED BY <2>1, <2>2, <2>3, <2>4
<1>7. Moved(i, n, t)
  BY <1>4, <1>5, <1>6 DEF Moved
<1> QED BY <1>7 DEF t, u

\* A row that is let go lands where it was shown, and the list stays a list of rows.
LEMMA HandleLands ==
    ASSUME OrderInv, RowsInv, ListRows!HandleEnd
    PROVE  OrderInv' /\ ListRows!Lands
<1> DEFINE r == listTouch.row
<1>1. /\ OnHandle /\ listTouch' = ListRows!NoTouch
      /\ order' = IF listTouch.moved
                  THEN ListRows!InsertAt(ListRows!RemoveAt(order, ListRows!Index(r)),
                                         ListRows!Inserted(r), r)
                  ELSE order
  BY DEF ListRows!HandleEnd, OnHandle
<1>2. PICK i \in 1..Len(order) : order[i] = r
  BY <1>1 DEF OrderInv
<1>3. PICK n \in 1..Len(order) :
              /\ ListRows!Inserted(r) = n
              /\ ListRows!Above(r) = n..i - 1 /\ ListRows!Below(r) = i + 1..n
              /\ 2 * i + listPull - 2 * n \in -1..1
  BY <1>1, <1>2, Displaced
<1>4. ListRows!Index(r) = i
  BY <1>2, IndexIs
<1>5. ~OnHandle'
  BY <1>1 DEF OnHandle, ListRows!NoTouch
<1>6. /\ order \in Seq(Row) /\ Len(order) \in Nat /\ listPull \in Int
      /\ \A j, k \in 1..Len(order) : order[j] = order[k] => j = k
  BY <1>1 DEF OrderInv
<1>7. /\ order' \in Seq(Row) /\ Len(order') = Len(order)
      /\ \A j \in 1..Len(order) : From(i, n, j) \in 1..Len(order) /\ order'[j] = order[From(i, n, j)]
  <2>1. CASE listTouch.moved
    <3>1. order' = ListRows!InsertAt(ListRows!RemoveAt(order, i), n, order[i])
      BY <1>1, <1>2, <1>3, <1>4, <2>1
    <3>2. Moved(i, n, order')
      BY <3>1, Reordered, Zenon
    <3> QED BY <3>2 DEF Moved
  <2>2. CASE ~listTouch.moved
    <3>1. order' = order /\ listPull = 0 BY <1>1, <2>2 DEF OrderInv
    <3>2. n = i BY <1>3, <3>1
    <3>3. \A j \in 1..Len(order) : From(i, n, j) = j BY <1>6, <3>2 DEF From
    <3> QED BY <1>6, <3>1, <3>3
  <2> QED BY <2>1, <2>2
<1>8. OrderInv'
  <2>1. ASSUME NEW j \in 1..Len(order), NEW k \in 1..Len(order), From(i, n, j) = From(i, n, k)
        PROVE  j = k
    BY <1>6, <2>1 DEF From
  <2> QED BY <1>5, <1>6, <1>7, <2>1 DEF OrderInv
<1>9. ASSUME NEW j \in DOMAIN order', NEW k \in DOMAIN order, order'[j] = order[k]
      PROVE  IF order[k] = r THEN ListRows!ShownAt(k, r) - ListRows!Offset(j) \in -1..1
             ELSE ListRows!ShownAt(k, r) = ListRows!Offset(j)
  <2>1. j \in 1..Len(order) /\ k \in 1..Len(order)
    <3>1. order \in Seq(Row) /\ order' \in Seq(Row) /\ Len(order') = Len(order)
      BY <1>6, <1>7
    <3> QED BY <1>9, <3>1
  <2>2. k = From(i, n, j)
    <3>1. From(i, n, j) \in 1..Len(order) /\ order'[j] = order[From(i, n, j)]
      BY <1>7, <2>1
    <3> QED BY <1>6, <1>9, <2>1, <3>1
  <2>3. CASE order[k] = r
    <3>1. k = i BY <1>2, <1>6, <2>1, <2>3
    <3>2. j = n BY <1>6, <2>1, <2>2, <3>1 DEF From
    <3>3. ListRows!ShownAt(k, r) = 2 * (i - 1) + listPull /\ ListRows!Offset(j) = 2 * (n - 1)
      BY <1>4, <3>1, <3>2 DEF ListRows!ShownAt, ListRows!Offset
    <3> QED BY <1>3, <1>6, <2>3, <3>3
  <2>4. CASE order[k] # r
    <3>1. k # i BY <1>2, <2>4
    <3>2. ListRows!ShownAt(k, r) = IF k \in n..i - 1 THEN 2 * (k - 1) + 2
                                   ELSE IF k \in i + 1..n THEN 2 * (k - 1) - 2 ELSE 2 * (k - 1)
      BY <1>3, <1>4, <3>1 DEF ListRows!ShownAt, ListRows!Offset
    <3> QED BY <1>6, <2>1, <2>2, <2>4, <3>1, <3>2, SMTT(30) DEF From, ListRows!Offset
  <2> QED BY <2>3, <2>4
<1> QED BY <1>8, <1>9 DEF ListRows!Lands

\* Every step keeps the list a list of rows, and only a release of the handle lands one.
LEMMA OrderNext == ASSUME OrderInv, RowsInv, ListRows!Next PROVE OrderInv' /\ ListRows!Lands
<1> USE DEF OnHandle
<1>0. RowsTyped /\ ListRows!NoTouch.on = "none"
  BY DEF RowsInv, ListRows!NoTouch
<1>1. ASSUME order' = order, listTouch'.on # "handle", listLost' \/ ~OnHandle
      PROVE  OrderInv' /\ ListRows!Lands
  BY <1>1 DEF OrderInv, ListRows!Lands
<1>2. ASSUME order' = order, listTouch' = listTouch, listPull' = listPull
      PROVE  OrderInv' /\ ListRows!Lands
  BY <1>0, <1>2 DEF OrderInv, ListRows!Lands
<1>3. ASSUME NEW r \in Row, ListRows!HandleStart(r) PROVE OrderInv' /\ ListRows!Lands
  <2>1. /\ order' = order /\ listPull' = 0
        /\ listTouch' = [ListRows!NoTouch EXCEPT !.on = "handle", !.row = r]
        /\ listTouch = ListRows!NoTouch /\ \E k \in DOMAIN order : order[k] = r
    BY <1>3 DEF ListRows!HandleStart, ListRows!InList
  <2>2. /\ listTouch'.on = "handle" /\ listTouch'.row = r /\ ~listTouch'.moved
        /\ listTouch' # ListRows!NoTouch
    BY <2>1 DEF ListRows!NoTouch
  <2>3. PICK k \in 1..Len(order) : order[k] = r
    BY <2>1 DEF OrderInv
  <2>4. 2 * (k - 1) + listPull' \in 0..2 * (Len(order) - 1)
    BY <2>1 DEF OrderInv
  <2> QED BY <2>1, <2>2, <2>3, <2>4 DEF OrderInv, ListRows!Lands
<1>4. ASSUME NEW y \in Int, ListRows!HandleMove(y) PROVE OrderInv' /\ ListRows!Lands
  <2>1. /\ order' = order /\ listPull' = y /\ OnHandle
        /\ listTouch' = [listTouch EXCEPT !.moved = TRUE]
        /\ ListRows!Offset(ListRows!Index(listTouch.row)) + y \in 0..ListRows!Offset(Len(order))
    BY <1>4 DEF ListRows!HandleMove
  <2>2. listTouch'.on = "handle" /\ listTouch'.row = listTouch.row /\ listTouch'.moved
    BY <1>0, <2>1 DEF RowsTyped, Touches
  <2>3. PICK k \in 1..Len(order) : order[k] = listTouch.row
    BY <2>1 DEF OrderInv
  <2>4. 2 * (k - 1) + y \in 0..2 * (Len(order) - 1)
    BY <2>1, <2>3, IndexIs DEF ListRows!Offset
  <2> QED BY <1>0, <2>1, <2>2, <2>3, <2>4 DEF OrderInv, ListRows!Lands
<1>5. ASSUME NEW r \in Row, ListRows!Deleted(r) PROVE OrderInv' /\ ListRows!Lands
  <2>1. /\ order' = ListRows!RemoveAt(order, ListRows!Index(r)) /\ ~OnHandle
        /\ \E k \in DOMAIN order : order[k] = r
        /\ listTouch' = IF listTouch.row = r THEN ListRows!NoTouch ELSE listTouch
    BY <1>5 DEF ListRows!Deleted, ListRows!InList
  <2>2. PICK k \in 1..Len(order) : order[k] = r
    BY <2>1 DEF OrderInv
  <2>3. order' = ListRows!RemoveAt(order, k)
    BY <2>1, <2>2, IndexIs
  <2>4. /\ order' \in Seq(Row) /\ Len(order') = Len(order) - 1
        /\ \A j \in 1..Len(order') : order'[j] = IF j < k THEN order[j] ELSE order[j + 1]
    BY <2>3, Removed DEF OrderInv
  <2>5. ~OnHandle'
    BY <1>0, <2>1
  <2>6. OrderInv' BY <2>4, <2>5, SMTT(30) DEF OrderInv
  <2> QED BY <2>1, <2>6 DEF ListRows!Lands
<1>6. CASE ListRows!HandleEnd
  BY <1>6, HandleLands
<1>7. ASSUME NEW r \in Row \cup {NULL}, ListRows!TouchStart(r) PROVE OrderInv' /\ ListRows!Lands
  <2>1. /\ order' = order /\ listTouch = ListRows!NoTouch
        /\ \/ listTouch' = ListRows!NoTouch
           \/ listTouch' = [ListRows!NoTouch EXCEPT !.on = "row", !.row = r]
    BY <1>7 DEF ListRows!TouchStart
  <2>2. CASE listTouch' = [ListRows!NoTouch EXCEPT !.on = "row", !.row = r]
    <3>1. listTouch'.on = "row" BY <2>2 DEF ListRows!NoTouch
    <3> QED BY <1>0, <1>1, <2>1, <3>1
  <2> QED BY <1>0, <1>1, <2>1, <2>2
<1>8. CASE ListRows!Scrolls \/ ListRows!TouchEnd
  BY <1>0, <1>1, <1>8 DEF ListRows!Scrolls, ListRows!TouchEnd
<1>9. ASSUME NEW x \in -1..2, ListRows!TouchMove(x) PROVE OrderInv' /\ ListRows!Lands
  <2>1. /\ order' = order /\ listTouch.on = "row"
        /\ \/ listTouch' = ListRows!NoTouch
           \/ \E w : listTouch' = [listTouch EXCEPT !.moved = TRUE, !.opened = w]
    BY <1>9, Zenon DEF ListRows!TouchMove
  <2>2. listTouch'.on # "handle"
    BY <1>0, <2>1 DEF RowsTyped, Touches
  <2> QED BY <1>1, <2>1, <2>2
<1>10. CASE ListRows!TouchCancel
  BY <1>0, <1>1, <1>10 DEF ListRows!TouchCancel
<1>11. ASSUME NEW b \in BOOLEAN, ListRows!SetSortable(b) PROVE OrderInv' /\ ListRows!Lands
  BY <1>2, <1>11 DEF ListRows!SetSortable
<1>12. ASSUME NEW r \in Row, \/ ListRows!SwipeoutOpen(r) \/ ListRows!SwipeoutDelete(r)
                             \/ ListRows!ContentEnds(r) \/ ListRows!CloseTimeout(r)
       PROVE OrderInv' /\ ListRows!Lands
  BY <1>2, <1>12 DEF ListRows!SwipeoutOpen, ListRows!SwipeoutDelete, ListRows!ContentEnds,
                     ListRows!CloseTimeout
<1> QED BY <1>3, <1>4, <1>5, <1>6, <1>7, <1>8, <1>9, <1>10, <1>11, <1>12, RowsActions

\* framework7.js, "Pull To Refresh": a finger that pulls is let go by itself only.
LEMMA PullsOnStep ==
    ASSUME PullToRefresh!Next, os = "ios", isTouched, isMoved, touchId \in down'
    PROVE  isTouched'
<1>1. ASSUME NEW f \in Finger, PullToRefresh!TouchEnd(f) PROVE isTouched'
  <2>1. f # touchId BY <1>1 DEF PullToRefresh!TouchEnd
  <2>2. PullToRefresh!Another(f)
    BY <2>1 DEF PullToRefresh!Another, PullToRefresh!KnowsFinger
  <2> QED BY <1>1, <2>2 DEF PullToRefresh!TouchEnd, PullToRefresh!touchVars
<1>2. ASSUME NEW f \in Finger, PullToRefresh!TouchStart(f) PROVE isTouched'
  BY <1>2 DEF PullToRefresh!TouchStart, PullToRefresh!Ignored, PullToRefresh!touchVars
<1>3. CASE PullToRefresh!LetGo
  BY <1>3 DEF PullToRefresh!LetGo
<1>4. CASE isTouched' = isTouched
  BY <1>4
<1> QED BY <1>1, <1>2, <1>3, <1>4, Zenon
        DEF PullToRefresh!Next, PullToRefresh!TouchCancel, PullToRefresh!TouchMove,
            PullToRefresh!Scroll, PullToRefresh!Trigger, PullToRefresh!Done,
            PullToRefresh!TransitionEnd, PullToRefresh!touchVars

\* framework7.js, sortable and pull to refresh: a row that is pulled by its handle
\* lands where it was shown, behind the rows shown above it and before those shown
\* below, in a list of any length; another finger lets go nothing that one pulls.
THEOREM GesturesAlwaysKept == Spec => GesturesKept
<1>1. Init => RowsInv /\ OrderInv
  BY RowsInit, OrderInit DEF Init
<1>2. RowsInv /\ OrderInv /\ [Next]_vars
          => RowsInv' /\ OrderInv' /\ [ListRows!Lands]_(ListRows!rowVars)
  <2> SUFFICES ASSUME RowsInv, OrderInv, [Next]_vars
               PROVE  RowsInv' /\ OrderInv' /\ [ListRows!Lands]_(ListRows!rowVars)
    OBVIOUS
  <2>1. CASE UNCHANGED listVars
    <3>1. OrderInv' BY <2>1 DEF OrderInv, OnHandle, listVars
    <3>2. UNCHANGED ListRows!rowVars BY <2>1 DEF listVars, ListRows!rowVars
    <3> QED BY <2>1, <3>1, <3>2, RowsStay
  <2>2. CASE ListRows!Next
    BY <2>2, RowsNext, OrderNext
  <2> QED BY <2>1, <2>2, ListSteps
<1>3. [Next]_vars => [os = "ios" /\ isTouched /\ isMoved /\ touchId \in down'
                         => isTouched']_(PullToRefresh!pullVars)
  <2>1. [Next]_vars => PullToRefresh!Next \/ UNCHANGED pullVars
    BY Zenon DEF Next, vars
  <2>2. UNCHANGED pullVars => UNCHANGED PullToRefresh!pullVars
    BY DEF pullVars, PullToRefresh!pullVars
  <2> QED BY <2>1, <2>2, PullsOnStep
<1> QED BY <1>1, <1>2, <1>3, PTL
        DEF Spec, GesturesKept, ListRows!SortLands, PullToRefresh!PullsOn

-----------------------------------------------------------------------------
(* The months of the calendar.                                             *)

Month == [month : Int, place : Int]

\* The month c and its two neighbours, as the calendar lays them out.
Neighbours(c) == <<Calendar!At(c - 1, 0), Calendar!At(c, 0), Calendar!At(c + 1, 0)>>

Waiting == [dir : {"next", "prev"}, both : BOOLEAN]

\* While the months slide the outermost one is in sight, and unless both neighbours
\* are to be put in place the one before it is beside it, and both are marked.
SlidingOn(end) ==
    LET n == Len(months)
    IN  /\ n >= 2 /\ end \in Waiting
        /\ end.dir = "next" => months[n] = Calendar!At(current, -shift)
        /\ end.dir = "prev" => months[1] = Calendar!At(current, -shift)
        /\ end.dir = "next" /\ ~end.both => marked = {n - 1, n} /\ months[n - 1].month = current - 1
        /\ end.dir = "prev" /\ ~end.both => marked = {1, 2} /\ months[2].month = current + 1

\* At rest the month in sight lies between its neighbours.
Resting == months = Calendar!Places(Neighbours(current), shift)

CalendarTyped ==
    /\ months \in Seq(Month) /\ current \in First - 1 .. Last + 1 /\ shift \in Int
    /\ value \in First - 1 .. Last + 1

CalendarInv ==
    ~disturbed => /\ CalendarTyped /\ animating \in BOOLEAN /\ calendarOpened \in BOOLEAN
                  /\ animating => calendarOpened /\ SlidingOn(onEnd)
                  /\ ~animating => onEnd = Calendar!Nothing /\ Resting

HIDE DEF PhotoBrowser!PhotosAssumption, ListRows!RowsAssumption
USE AssumptionOfCalendar DEF Calendar!CalendarAssumption

\* Where a month is put depends on its order only.
LEMMA PlacesSame ==
    ASSUME NEW a, NEW b, DOMAIN a = 1..3, DOMAIN b = 1..3, \A i \in 1..3 : a[i].month = b[i].month,
           NEW t
    PROVE  Calendar!Places(a, t) = Calendar!Places(b, t)
BY DEF Calendar!Places

SideBySide(p, c, t) ==
    /\ p \in Seq(Month) /\ Len(p) = 3
    /\ p[1] = Calendar!At(c - 1, -1 - t) /\ p[2] = Calendar!At(c, -t)
    /\ p[3] = Calendar!At(c + 1, 1 - t)

\* The three months laid out, each beside the other.
LEMMA NeighboursAre ==
    ASSUME NEW c \in Int, NEW t \in Int
    PROVE  SideBySide(Calendar!Places(Neighbours(c), t), c, t)
<1> DEFINE p == Calendar!Places(Neighbours(c), t)
<1>1. p = [i \in 1..3 |-> Calendar!At(Neighbours(c)[i].month, i - 2 - t)]
  BY DEF Calendar!Places, Neighbours
<1>2. \A i \in 1..3 : Neighbours(c)[i].month = c + i - 2
  BY DEF Neighbours, Calendar!At
<1>3. p = [i \in 1..3 |-> Calendar!At(c + i - 2, i - 2 - t)]
  BY <1>1, <1>2
<1>4. p \in Seq(Month) /\ Len(p) = 3
  BY <1>3 DEF Calendar!At, Month
<1> QED BY <1>3, <1>4 DEF Calendar!At, SideBySide

\* Where the months are that the calendar shows at rest.
LEMMA AtRest ==
    ASSUME CalendarTyped, Resting
    PROVE  SideBySide(months, current, shift)
<1>1. current \in Int /\ shift \in Int BY DEF CalendarTyped
<1>2. months = Calendar!Places(Neighbours(current), shift) BY DEF Resting
<1> QED BY <1>1, <1>2, NeighboursAre, Zenon

\* The month beside another is not in the same place of its year.
LEMMA NextDiffers ==
    ASSUME NEW c \in Int
    PROVE  (c + 1) % Year # c % Year /\ (c - 1) % Year # c % Year
<1>1. ASSUME NEW a \in Int PROVE (a + 1) % Year # a % Year
  <2>1. Year \in {2, 3, 4, 5, 6, 7, 8, 9, 10, 11, 12}
    OBVIOUS
  <2>2. /\ (a + 1) % 2 # a % 2 /\ (a + 1) % 3 # a % 3 /\ (a + 1) % 4 # a % 4
        /\ (a + 1) % 5 # a % 5 /\ (a + 1) % 6 # a % 6 /\ (a + 1) % 7 # a % 7
        /\ (a + 1) % 8 # a % 8 /\ (a + 1) % 9 # a % 9 /\ (a + 1) % 10 # a % 10
        /\ (a + 1) % 11 # a % 11 /\ (a + 1) % 12 # a % 12
    OBVIOUS
  <2> QED BY <2>1, <2>2
<1>2. c - 1 \in Int /\ (c - 1) + 1 = c OBVIOUS
<1> QED BY <1>1, <1>2

\* What the calendar begins with, and what it is laid out to when it opens.
LEMMA LaidOut ==
    ASSUME NEW c \in First - 1 .. Last + 1
    PROVE  /\ Calendar!Layout(c) = Calendar!Places(Neighbours(c), 0)
           /\ Calendar!Layout(c) \in Seq(Month)
<1>1. Calendar!Layout(c) = Calendar!Places(Neighbours(c), 0)
  BY DEF Calendar!Layout, Neighbours
<1>2. c \in Int /\ 0 \in Int OBVIOUS
<1> QED BY <1>1, <1>2, NeighboursAre DEF SideBySide

\* The calendar begins laid out around the month of today.
LEMMA CalendarStart == Calendar!Init => CalendarInv
<1> SUFFICES ASSUME Calendar!Init PROVE CalendarInv
  OBVIOUS
<1>1. /\ ~animating /\ animating \in BOOLEAN /\ calendarOpened \in BOOLEAN
      /\ onEnd = Calendar!Nothing
  BY DEF Calendar!Init
<1>2. CalendarTyped
  BY LaidOut DEF Calendar!Init, CalendarTyped
<1>3. Resting
  BY LaidOut DEF Calendar!Init, Resting
<1> QED BY <1>1, <1>2, <1>3 DEF CalendarInv

\* What a step finds that is taken while nothing has disturbed the calendar.
LEMMA Undisturbed ==
    ASSUME CalendarInv, ~disturbed
    PROVE  /\ CalendarTyped /\ animating \in BOOLEAN /\ calendarOpened \in BOOLEAN
           /\ animating => calendarOpened /\ SlidingOn(onEnd)
           /\ ~animating => onEnd = Calendar!Nothing /\ Resting
BY DEF CalendarInv

\* A step that leaves the months alone, and closes nothing that slides.
LEMMA MonthsLeft ==
    ASSUME CalendarInv, UNCHANGED <<months, marked, current, shift, animating, onEnd>>,
           ~disturbed' => ~disturbed, value' \in First - 1 .. Last + 1,
           calendarOpened' \in BOOLEAN, animating => calendarOpened'
    PROVE  CalendarInv'
<1> SUFFICES ASSUME ~disturbed' PROVE CalendarInv'
  BY DEF CalendarInv
<1>1. ~disturbed OBVIOUS
<1>2. CalendarTyped' BY <1>1, Undisturbed DEF CalendarTyped
<1>3. animating' => calendarOpened' /\ SlidingOn(onEnd)'
  BY <1>1, Undisturbed DEF SlidingOn
<1>4. ~animating' => (onEnd = Calendar!Nothing)' /\ Resting'
  BY <1>1, Undisturbed DEF Resting, Calendar!Nothing
<1>5. animating' \in BOOLEAN BY <1>1, Undisturbed
<1> QED BY <1>2, <1>3, <1>4, <1>5 DEF CalendarInv

\* So does a step after which the months stay where they are (resetMonth).
LEMMA MonthsStay ==
    ASSUME CalendarInv, Calendar!Stay, value' \in First - 1 .. Last + 1,
           calendarOpened' \in BOOLEAN, animating => calendarOpened'
    PROVE  CalendarInv'
BY MonthsLeft, Zenon DEF Calendar!Stay

\* The months slide on after a step that starts a slide or adds to one.
LEMMA MonthsSlide ==
    ASSUME CalendarTyped', animating' = TRUE, calendarOpened' \in BOOLEAN, calendarOpened',
           SlidingOn(onEnd)'
    PROVE  CalendarInv'
BY Zenon DEF CalendarInv

\* Two months that follow each other.
LEMMA PairAt ==
    ASSUME NEW s \in Seq(Month), NEW i \in 1 .. Len(s) - 1, NEW j, j = i + 1
    PROVE  /\ SubSeq(s, i, j) \in Seq(Month) /\ Len(SubSeq(s, i, j)) = 2
           /\ SubSeq(s, i, j)[1] = s[i] /\ SubSeq(s, i, j)[2] = s[j]
<1>1. i \in Int /\ j \in Int /\ Len(s) \in Nat OBVIOUS
<1>2. \A k \in i .. j : k \in 1 .. Len(s) BY <1>1
<1>3. \A k \in i .. j : s[k] \in Month BY <1>1, <1>2, ElementOfSeq
<1>4. /\ SubSeq(s, i, j) \in Seq(Month)
      /\ Len(SubSeq(s, i, j)) = IF i <= j THEN j - i + 1 ELSE 0
      /\ \A k \in 1 .. j - i + 1 : SubSeq(s, i, j)[k] = s[i + k - 1]
  BY <1>1, <1>3, SubSeqProperties
<1>5. j - i + 1 = 2 /\ i <= j /\ i + 1 - 1 = i /\ i + 2 - 1 = j
  BY <1>1
<1>6. /\ SubSeq(s, i, j)[1] = s[i + 1 - 1]
      /\ SubSeq(s, i, j)[2] = s[i + 2 - 1]
  BY <1>4, <1>5
<1> QED BY <1>4, <1>5, <1>6

\* A month and two that follow each other.
LEMMA Joined ==
    ASSUME NEW a \in Seq(Month), NEW b \in Seq(Month)
    PROVE  /\ a \o b \in Seq(Month) /\ Len(a \o b) = Len(a) + Len(b)
           /\ Len(a) = 2 /\ Len(b) = 1 =>
                 (a \o b)[1] = a[1] /\ (a \o b)[2] = a[2] /\ (a \o b)[3] = b[1]
           /\ Len(a) = 1 /\ Len(b) = 2 =>
                 (a \o b)[1] = a[1] /\ (a \o b)[2] = b[1] /\ (a \o b)[3] = b[2]
<1>1. /\ a \o b \in Seq(Month) /\ Len(a \o b) = Len(a) + Len(b)
      /\ \A i \in 1 .. Len(a) + Len(b) : (a \o b)[i] = IF i <= Len(a) THEN a[i] ELSE b[i - Len(a)]
  BY ConcatProperties
<1>2. ASSUME Len(a) + Len(b) = 3
      PROVE  /\ (a \o b)[1] = IF 1 <= Len(a) THEN a[1] ELSE b[1 - Len(a)]
             /\ (a \o b)[2] = IF 2 <= Len(a) THEN a[2] ELSE b[2 - Len(a)]
             /\ (a \o b)[3] = IF 3 <= Len(a) THEN a[3] ELSE b[3 - Len(a)]
  BY <1>1, <1>2
<1> QED BY <1>1, <1>2

\* nextMonth: the outermost month is the one after the current one at rest, and
\* the current one while the months slide.
LEMMA NextMonthKeeps ==
    ASSUME CalendarInv, ~disturbed, Calendar!NextMonth, calendarOpened,
           value' \in First - 1 .. Last + 1, calendarOpened' = calendarOpened
    PROVE  CalendarInv'
<1> USE Undisturbed
<1> DEFINE last == months[Len(months)].month
           end == [dir |-> "next", both |-> FALSE]
<1>1. CASE Calendar!Past(last, "next")
  BY <1>1, MonthsStay DEF Calendar!NextMonth
<1>2. CASE ~Calendar!Past(last, "next")
  <2>1. /\ shift' = shift - 1
        /\ Calendar!Start("next", IF Calendar!Grows(last)
                                  THEN Append(months, Calendar!At(last + 1, -(shift - 1)))
                                  ELSE months, end)
    BY <1>2 DEF Calendar!NextMonth
  <2>2. ~(last > Last) BY <1>2 DEF Calendar!Past
  <2>3. CASE ~animating
    <3>1. /\ months \in Seq(Month) /\ Len(months) = 3
          /\ months[2] = Calendar!At(current, -shift)
          /\ months[3] = Calendar!At(current + 1, 1 - shift)
      <4>1. CalendarTyped /\ Resting BY <2>3
      <4> QED BY <4>1, AtRest DEF SideBySide
    <3>2. last = current + 1 BY <3>1 DEF Calendar!At
    <3>3. ~Calendar!Grows(last)
      BY <3>2, NextDiffers DEF Calendar!Grows, CalendarTyped
    <3>4. /\ months' = months /\ current' = current + 1 /\ marked' = {2, 3} /\ animating' = TRUE
          /\ onEnd' = end
      <4>1. Calendar!Start("next", months, end) BY <2>1, <3>3
      <4>2. /\ months' = months /\ current' = last /\ animating' = TRUE
            /\ marked' = {Len(months) - 1, Len(months)}
        BY <4>1 DEF Calendar!Start
      <4>3. onEnd' = end BY <4>1, <2>3 DEF Calendar!Start, Calendar!Listens
      <4> QED BY <3>1, <3>2, <4>2, <4>3
    <3>5. CalendarTyped'
      <4>1. ~(current + 1 > Last) BY <2>2, <3>2
      <4>2. current \in First - 1 .. Last + 1 /\ shift \in Int BY DEF CalendarTyped
      <4>3. current + 1 \in First - 1 .. Last + 1 BY <4>1, <4>2
      <4>4. shift' \in Int BY <2>1, <4>2
      <4> QED BY <3>4, <4>3, <4>4, <3>1 DEF CalendarTyped
    <3>6. /\ Len(months') = 3 /\ months'[3] = Calendar!At(current', -shift')
          /\ months'[2].month = current' - 1
      <4>1. current \in Int /\ shift \in Int BY DEF CalendarTyped
      <4>2. 1 - shift = -(shift - 1) /\ current = current + 1 - 1 BY <4>1
      <4>3. months'[3] = Calendar!At(current', -shift') BY <2>1, <3>1, <3>4, <4>2
      <4>4. months[2].month = current BY <3>1 DEF Calendar!At
      <4>5. months'[2].month = current' - 1 BY <3>4, <4>1, <4>4
      <4> QED BY <3>1, <3>4, <4>3, <4>5
    <3>7. SlidingOn(onEnd)'
      BY <3>4, <3>6 DEF SlidingOn, Waiting
    <3> QED BY <3>4, <3>5, <3>7, MonthsSlide
  <2>4. CASE animating /\ onEnd.dir # "next"
    <3>1. disturbed' BY <2>1, <2>4 DEF Calendar!Start
    <3> QED BY <3>1 DEF CalendarInv
  <2>5. CASE animating /\ onEnd.dir = "next"
    <3>1. /\ months \in Seq(Month) /\ Len(months) >= 2 /\ onEnd \in Waiting
          /\ months[Len(months)] = Calendar!At(current, -shift)
      BY <2>5 DEF SlidingOn, CalendarTyped
    <3>2. last = current BY <3>1 DEF Calendar!At
    <3>3. Calendar!Grows(last)
      BY <3>2 DEF Calendar!Grows
    <3> DEFINE new == Calendar!At(current + 1, -(shift - 1))
    <3>4. /\ months' = Append(months, new) /\ marked' = {Len(months'), Len(months') - 1}
          /\ animating' = TRUE /\ onEnd' = onEnd /\ current' = months'[Len(months')].month
      BY <2>1, <2>5, <3>1, <3>2, <3>3 DEF Calendar!Start, Calendar!Listens
    <3>5. /\ new \in Month /\ new.month = current + 1
      BY DEF Month, Calendar!At, CalendarTyped
    <3>6. /\ months' \in Seq(Month) /\ Len(months') = Len(months) + 1
          /\ months'[Len(months) + 1] = new /\ months'[Len(months)] = months[Len(months)]
      <4> HIDE DEF new
      <4> QED BY <3>1, <3>4, <3>5
    <3>7. current' = current + 1 BY <3>4, <3>5, <3>6, <3>1
    <3>8. CalendarTyped'
      <4>1. ~(current > Last) BY <2>2, <3>2
      <4>2. current \in First - 1 .. Last + 1 /\ shift \in Int BY DEF CalendarTyped
      <4>3. current + 1 \in First - 1 .. Last + 1 BY <4>1, <4>2
      <4>4. shift' \in Int BY <2>1, <4>2
      <4> QED BY <3>6, <3>7, <4>3, <4>4 DEF CalendarTyped
    <3>9. months'[Len(months')] = Calendar!At(current', -shift')
      BY <2>1, <3>1, <3>6, <3>7
    <3>10. months'[Len(months') - 1].month = current' - 1
      BY <3>1, <3>6, <3>7, <3>2 DEF CalendarTyped
    <3>11. marked' = {Len(months') - 1, Len(months')} /\ Len(months') >= 2
      BY <3>4, <3>1, <3>6
    <3>12. SlidingOn(onEnd)'
      BY <2>5, <3>1, <3>4, <3>9, <3>10, <3>11 DEF SlidingOn, Waiting
    <3> QED BY <3>4, <3>8, <3>12, MonthsSlide
  <2> QED BY <2>3, <2>4, <2>5
<1> QED BY <1>1, <1>2

\* prevMonth, likewise.
LEMMA PrevMonthKeeps ==
    ASSUME CalendarInv, ~disturbed, Calendar!PrevMonth, calendarOpened,
           value' \in First - 1 .. Last + 1, calendarOpened' = calendarOpened
    PROVE  CalendarInv'
<1> USE Undisturbed
<1> DEFINE first == months[1].month
           end == [dir |-> "prev", both |-> FALSE]
<1>1. CASE Calendar!Past(first, "prev")
  BY <1>1, MonthsStay DEF Calendar!PrevMonth
<1>2. CASE ~Calendar!Past(first, "prev")
  <2>1. /\ shift' = shift + 1
        /\ Calendar!Start("prev", IF Calendar!Grows(first)
                                  THEN <<Calendar!At(first - 1, -(shift + 1))>> \o months
                                  ELSE months, end)
    BY <1>2 DEF Calendar!PrevMonth
  <2>2. ~(first < First) BY <1>2 DEF Calendar!Past
  <2>3. CASE ~animating
    <3>1. /\ months \in Seq(Month) /\ Len(months) = 3
          /\ months[1] = Calendar!At(current - 1, -1 - shift)
          /\ months[2] = Calendar!At(current, -shift)
      <4>1. CalendarTyped /\ Resting BY <2>3
      <4> QED BY <4>1, AtRest DEF SideBySide
    <3>2. first = current - 1 BY <3>1 DEF Calendar!At
    <3>3. ~Calendar!Grows(first)
      BY <3>2, NextDiffers DEF Calendar!Grows, CalendarTyped
    <3>4. /\ months' = months /\ current' = current - 1 /\ marked' = {1, 2} /\ animating' = TRUE
          /\ onEnd' = end
      BY <2>1, <2>3, <3>1, <3>2, <3>3 DEF Calendar!Start, Calendar!Listens
    <3>5. CalendarTyped'
      <4>1. ~(current - 1 < First) BY <2>2, <3>2
      <4>2. current \in First - 1 .. Last + 1 /\ shift \in Int BY DEF CalendarTyped
      <4>3. current - 1 \in First - 1 .. Last + 1 BY <4>1, <4>2
      <4>4. shift' \in Int BY <2>1, <4>2
      <4> QED BY <3>4, <4>3, <4>4, <3>1 DEF CalendarTyped
    <3>6. /\ Len(months') = 3 /\ months'[1] = Calendar!At(current', -shift')
          /\ months'[2].month = current' + 1
      <4>1. current \in Int /\ shift \in Int BY DEF CalendarTyped
      <4>2. -1 - shift = -(shift + 1) /\ current = current - 1 + 1 BY <4>1
      <4> QED BY <2>1, <3>1, <3>4, <4>2 DEF Calendar!At
    <3>7. SlidingOn(onEnd)'
      BY <3>4, <3>6 DEF SlidingOn, Waiting
    <3> QED BY <3>4, <3>5, <3>7, MonthsSlide
  <2>4. CASE animating /\ onEnd.dir # "prev"
    <3>1. disturbed' BY <2>1, <2>4 DEF Calendar!Start
    <3> QED BY <3>1 DEF CalendarInv
  <2>5. CASE animating /\ onEnd.dir = "prev"
    <3>1. /\ months \in Seq(Month) /\ Len(months) >= 2 /\ onEnd \in Waiting
          /\ months[1] = Calendar!At(current, -shift)
      BY <2>5 DEF SlidingOn, CalendarTyped
    <3>2. first = current BY <3>1 DEF Calendar!At
    <3>3. Calendar!Grows(first)
      BY <3>2 DEF Calendar!Grows
    <3> DEFINE new == Calendar!At(current - 1, -(shift + 1))
    <3>4. /\ months' = <<new>> \o months /\ marked' = {1, 2}
          /\ animating' = TRUE /\ onEnd' = onEnd /\ current' = months'[1].month
      BY <2>1, <2>5, <3>1, <3>2, <3>3 DEF Calendar!Start, Calendar!Listens
    <3>5. /\ new \in Month /\ new.month = current - 1
      BY DEF Month, Calendar!At, CalendarTyped
    <3>6. /\ months' \in Seq(Month) /\ Len(months') = Len(months) + 1
          /\ months'[1] = new /\ months'[2] = months[1]
      <4> HIDE DEF new
      <4> QED BY <3>1, <3>4, <3>5
    <3>7. current' = current - 1 BY <3>4, <3>5, <3>6
    <3>8. CalendarTyped'
      <4>1. ~(current < First) BY <2>2, <3>2
      <4>2. current \in First - 1 .. Last + 1 /\ shift \in Int BY DEF CalendarTyped
      <4>3. current - 1 \in First - 1 .. Last + 1 BY <4>1, <4>2
      <4>4. shift' \in Int BY <2>1, <4>2
      <4> QED BY <3>6, <3>7, <4>3, <4>4 DEF CalendarTyped
    <3>9. months'[1] = Calendar!At(current', -shift')
      BY <2>1, <3>6, <3>7
    <3>10. months'[2].month = current' + 1
      BY <3>6, <3>7, <3>2 DEF CalendarTyped
    <3>11. Len(months') >= 2
      BY <3>1, <3>6
    <3>12. SlidingOn(onEnd)'
      BY <2>5, <3>1, <3>4, <3>9, <3>10, <3>11 DEF SlidingOn, Waiting
    <3> QED BY <3>4, <3>8, <3>12, MonthsSlide
  <2> QED BY <2>3, <2>4, <2>5
<1> QED BY <1>1, <1>2

\* setYearMonth: the month takes the place of a neighbour, and both neighbours are
\* put in place when it has slid in.
LEMMA SetYearMonthKeeps ==
    ASSUME CalendarInv, ~disturbed, NEW m \in Int, m # current, Calendar!SetYearMonth(m),
           calendarOpened, value' \in First - 1 .. Last + 1, calendarOpened' = calendarOpened
    PROVE  CalendarInv'
<1> USE Undisturbed
<1>1. CASE Calendar!Past(m, "next") \/ Calendar!Past(m, "prev")
  BY <1>1, MonthsStay DEF Calendar!SetYearMonth
<1>2. CASE animating /\ ~(Calendar!Past(m, "next") \/ Calendar!Past(m, "prev"))
  <2>1. disturbed' BY <1>2 DEF Calendar!SetYearMonth
  <2> QED BY <2>1 DEF CalendarInv
<1>3. CASE ~animating /\ ~(Calendar!Past(m, "next") \/ Calendar!Past(m, "prev"))
  <2>1. m \in First .. Last BY <1>3 DEF Calendar!Past
  <2>2. months \in Seq(Month) /\ Len(months) = 3
    <3>1. CalendarTyped /\ Resting BY <1>3
    <3> QED BY <3>1, AtRest DEF SideBySide
  <2>3. /\ current' = m /\ animating' = TRUE
        /\ onEnd' = [dir |-> IF m > current THEN "next" ELSE "prev", both |-> TRUE]
    BY <1>3 DEF Calendar!SetYearMonth, Calendar!Listens
  <2>4. shift' \in Int
    BY <1>3 DEF Calendar!SetYearMonth, CalendarTyped
  <2> DEFINE new == Calendar!At(m, -shift')
  <2>5. new \in Month BY <2>1, <2>4 DEF Calendar!At, Month
  <2>6. CASE m > current
    <3>1. months' = Append(SubSeq(months, 1, Len(months) - 1), new)
      BY <1>3, <2>6 DEF Calendar!SetYearMonth
    <3>2. months' \in Seq(Month) /\ Len(months') = 3 /\ months'[3] = new
      <4> HIDE DEF new
      <4>1. SubSeq(months, 1, 2) \in Seq(Month) /\ Len(SubSeq(months, 1, 2)) = 2
        <5>1. 1 \in 1 .. Len(months) - 1 /\ 2 = 1 + 1 BY <2>2
        <5>2. months \in Seq(Month) BY <2>2
        <5> QED BY <5>1, <5>2, PairAt
      <4>2. Len(months) - 1 = 2 BY <2>2
      <4>3. months' = Append(SubSeq(months, 1, 2), new) BY <3>1, <4>2
      <4> DEFINE t == SubSeq(months, 1, 2)
      <4> HIDE DEF t
      <4>4. /\ Append(t, new) \in Seq(Month) /\ Len(Append(t, new)) = Len(t) + 1
            /\ Append(t, new)[Len(t) + 1] = new
        BY <2>5, <4>1, AppendProperties DEF t
      <4>5. Len(t) + 1 = 3 /\ months' = Append(t, new) BY <4>1, <4>3 DEF t
      <4> QED BY <4>4, <4>5
    <3>3. CalendarTyped' BY <2>1, <2>3, <2>4, <3>2 DEF CalendarTyped
    <3>4. SlidingOn(onEnd)' BY <2>3, <2>6, <3>2 DEF SlidingOn, Waiting
    <3> QED BY <2>3, <3>3, <3>4, MonthsSlide
  <2>7. CASE ~(m > current)
    <3>1. months' = <<new>> \o Tail(months)
      BY <1>3, <2>7 DEF Calendar!SetYearMonth
    <3>2. months' \in Seq(Month) /\ Len(months') = 3 /\ months'[1] = new
      <4> HIDE DEF new
      <4> QED BY <2>2, <2>5, <3>1
    <3>3. CalendarTyped' BY <2>1, <2>3, <2>4, <3>2 DEF CalendarTyped
    <3>4. SlidingOn(onEnd)' BY <2>3, <2>7, <3>2 DEF SlidingOn, Waiting
    <3> QED BY <2>3, <3>3, <3>4, MonthsSlide
  <2> QED BY <2>6, <2>7
<1> QED BY <1>1, <1>2, <1>3

\* onMonthChangeEnd: what is kept and what is put beside it are the current month
\* and its neighbours, each in its place.
LEMMA ChangeEndKeeps ==
    ASSUME CalendarInv, ~disturbed, Calendar!MonthChangeEnd
    PROVE  CalendarInv'
<1> USE Undisturbed
<1>1. /\ animating /\ SlidingOn(onEnd) /\ CalendarTyped /\ calendarOpened
  BY DEF Calendar!MonthChangeEnd
<1> DEFINE before == <<Calendar!At(current - 1, 0)>>
           after == <<Calendar!At(current + 1, 0)>>
           list == IF onEnd.both THEN before \o <<Calendar!At(current, 0)>> \o after
                   ELSE IF onEnd.dir = "next" THEN Calendar!Kept \o after
                   ELSE before \o Calendar!Kept
           n == Len(months)
<1>2. /\ onEnd' = Calendar!Nothing /\ animating' = FALSE
      /\ months' = Calendar!Places(list, shift)
      /\ current' = current /\ shift' = shift /\ calendarOpened' = calendarOpened
      /\ value' = value
  BY DEF Calendar!MonthChangeEnd
<1>6. /\ before \in Seq(Month) /\ Len(before) = 1 /\ after \in Seq(Month) /\ Len(after) = 1
  BY <1>1 DEF CalendarTyped, Month, Calendar!At
<1>3. DOMAIN list = 1..3 /\ \A i \in 1..3 : list[i].month = Neighbours(current)[i].month
  <2>1. CASE onEnd.both
    BY <2>1 DEF Neighbours
  <2>2. CASE ~onEnd.both /\ onEnd.dir = "next"
    <3>1. /\ n \in Nat /\ n >= 2 /\ marked = {n - 1, n} /\ months[n].month = current
          /\ months[n - 1].month = current - 1
      BY <1>1, <2>2 DEF SlidingOn, CalendarTyped, Calendar!At
    <3>2. Calendar!Kept = SubSeq(months, n - 1, n)
      <4>1. \A j \in marked : j + 1 \in marked <=> j = n - 1 BY <3>1
      <4>2. (CHOOSE j \in marked : j + 1 \in marked) = n - 1 BY <3>1, <4>1
      <4>3. n - 1 + 1 = n BY <3>1
      <4> QED BY <4>2, <4>3, Zenon DEF Calendar!Kept
    <3>3. /\ Calendar!Kept \in Seq(Month) /\ Len(Calendar!Kept) = 2
          /\ Calendar!Kept[1] = months[n - 1] /\ Calendar!Kept[2] = months[n]
      <4>1. months \in Seq(Month) BY <1>1 DEF CalendarTyped
      <4> DEFINE i == n - 1
      <4>2. i \in 1 .. n - 1 /\ n = i + 1 BY <3>1
      <4> HIDE DEF i
      <4>3. /\ SubSeq(months, i, n) \in Seq(Month) /\ Len(SubSeq(months, i, n)) = 2
            /\ SubSeq(months, i, n)[1] = months[i]
            /\ SubSeq(months, i, n)[2] = months[n]
        BY <4>1, <4>2, PairAt
      <4> USE DEF i
      <4> QED BY <3>2, <4>3
    <3>4. /\ Calendar!Kept \o after \in Seq(Month) /\ Len(Calendar!Kept \o after) = 3
          /\ (Calendar!Kept \o after)[1] = Calendar!Kept[1]
          /\ (Calendar!Kept \o after)[2] = Calendar!Kept[2]
          /\ (Calendar!Kept \o after)[3] = after[1]
      <4> HIDE DEF after
      <4> QED BY <1>6, <3>3, Joined
    <3> QED BY <2>2, <3>1, <3>3, <3>4 DEF Neighbours, Calendar!At
  <2>3. CASE ~onEnd.both /\ onEnd.dir = "prev"
    <3>1. /\ n \in Nat /\ n >= 2 /\ marked = {1, 2} /\ months[1].month = current
          /\ months[2].month = current + 1
      BY <1>1, <2>3 DEF SlidingOn, CalendarTyped, Calendar!At
    <3>2. Calendar!Kept = SubSeq(months, 1, 2)
      <4>1. \A j \in marked : j + 1 \in marked <=> j = 1 BY <3>1
      <4>2. (CHOOSE j \in marked : j + 1 \in marked) = 1 BY <3>1, <4>1
      <4>3. 1 + 1 = 2 OBVIOUS
      <4> QED BY <4>2, <4>3, Zenon DEF Calendar!Kept
    <3>3. /\ Calendar!Kept \in Seq(Month) /\ Len(Calendar!Kept) = 2
          /\ Calendar!Kept[1] = months[1] /\ Calendar!Kept[2] = months[2]
      <4>1. months \in Seq(Month) BY <1>1 DEF CalendarTyped
      <4>2. 1 \in 1 .. n - 1 /\ 2 = 1 + 1 BY <3>1
      <4> QED BY <3>2, <4>1, <4>2, PairAt
    <3>4. /\ before \o Calendar!Kept \in Seq(Month) /\ Len(before \o Calendar!Kept) = 3
          /\ (before \o Calendar!Kept)[1] = before[1]
          /\ (before \o Calendar!Kept)[2] = Calendar!Kept[1]
          /\ (before \o Calendar!Kept)[3] = Calendar!Kept[2]
      <4> HIDE DEF before
      <4> QED BY <1>6, <3>3, Joined
    <3> QED BY <2>3, <3>1, <3>3, <3>4 DEF Neighbours, Calendar!At
  <2> QED BY <1>1, <2>1, <2>2, <2>3 DEF SlidingOn, Waiting
<1>4. Resting'
  <2>1. DOMAIN Neighbours(current) = 1..3 BY DEF Neighbours
  <2> HIDE DEF list
  <2>2. months' = Calendar!Places(Neighbours(current), shift)
    BY <1>2, <1>3, <2>1, PlacesSame
  <2> QED BY <1>2, <2>2 DEF Resting, Neighbours
<1>5. CalendarTyped'
  <2>1. current \in Int /\ shift \in Int BY DEF CalendarTyped
  <2>2. months' \in Seq(Month)
    <3>1. months' = Calendar!Places(Neighbours(current), shift)
      BY <1>2, <1>4 DEF Resting, Neighbours
    <3> QED BY <2>1, <3>1, NeighboursAre DEF SideBySide
  <2> QED BY <1>2, <2>2 DEF CalendarTyped
<1> QED BY <1>2, <1>4, <1>5 DEF CalendarInv, Calendar!Nothing

\* A day can be chosen whose month is one the calendar can be turned to.
LEMMA ClickKeeps ==
    ASSUME CalendarInv, ~disturbed, Calendar!DayClick PROVE CalendarInv'
<1> USE Undisturbed
<1>1. PICK i \in DOMAIN months : \E d \in Calendar!Days(months[i].month) :
          /\ Calendar!Choose(d)
          /\ IF d > months[i].month THEN Calendar!NextMonth
             ELSE IF d < months[i].month THEN Calendar!PrevMonth ELSE Calendar!Stay
  BY DEF Calendar!DayClick
<1>2. PICK d \in Calendar!Days(months[i].month) :
          /\ Calendar!Choose(d)
          /\ IF d > months[i].month THEN Calendar!NextMonth
             ELSE IF d < months[i].month THEN Calendar!PrevMonth ELSE Calendar!Stay
  BY <1>1
<1>3. value' \in First - 1 .. Last + 1
  BY <1>2 DEF Calendar!Choose, Calendar!Days
<1>4. calendarOpened /\ calendarOpened' = calendarOpened
  BY DEF Calendar!DayClick
<1>5. calendarOpened' \in BOOLEAN /\ (animating => calendarOpened')
  BY <1>4, Undisturbed, Zenon
<1>6. Calendar!NextMonth \/ Calendar!PrevMonth \/ Calendar!Stay
  BY <1>2
<1> QED BY <1>3, <1>4, <1>5, <1>6, NextMonthKeeps, PrevMonthKeeps, MonthsStay

\* Every step of the calendar keeps the invariant.
LEMMA CalendarNext == ASSUME CalendarInv, Calendar!Next PROVE CalendarInv'
<1>0. /\ ~disturbed /\ CalendarTyped /\ animating \in BOOLEAN /\ calendarOpened \in BOOLEAN
      /\ (animating => calendarOpened /\ SlidingOn(onEnd))
      /\ (~animating => onEnd = Calendar!Nothing /\ Resting)
  BY Undisturbed DEF Calendar!Next
<1>1. value \in First - 1 .. Last + 1 /\ current \in Int /\ Year > 0 /\ Year \in Int
  BY <1>0 DEF CalendarTyped
<1>2. CASE Calendar!Open
  <2>1. /\ ~animating /\ animating' = animating /\ calendarOpened' = TRUE
        /\ onEnd' = Calendar!Nothing
    BY <1>0, <1>2, Zenon DEF Calendar!Open
  <2>2. /\ months' = Calendar!Layout(value) /\ current' = value /\ shift' = 0 /\ value' = value
    BY <1>2 DEF Calendar!Open
  <2>3. CalendarTyped' BY <1>1, <2>2, LaidOut DEF CalendarTyped
  <2>4. Resting' BY <1>1, <2>2, LaidOut DEF Resting, Neighbours
  <2>5. ~animating' /\ animating' \in BOOLEAN /\ calendarOpened' \in BOOLEAN
    BY <1>0, <2>1, Zenon
  <2>6. (onEnd = Calendar!Nothing)' BY <2>1 DEF Calendar!Nothing
  <2> QED BY <2>3, <2>4, <2>5, <2>6, Zenon DEF CalendarInv
<1>3. CASE Calendar!Close
  <2>1. CASE animating
    <3>1. disturbed' BY <1>3, <2>1 DEF Calendar!Close
    <3> QED BY <3>1 DEF CalendarInv
  <2>2. CASE ~animating
    <3>1. calendarOpened' \in BOOLEAN BY <1>3, Zenon DEF Calendar!Close
    <3>3. UNCHANGED <<months, marked, current, shift, animating, onEnd>>
      BY <1>3 DEF Calendar!Close
    <3>4. value' = value BY <1>3 DEF Calendar!Close
    <3> QED BY <1>0, <1>1, <2>2, <3>1, <3>3, <3>4, MonthsLeft
  <2> QED BY <2>1, <2>2
<1>4. CASE Calendar!MonthChangeEnd
  BY <1>0, <1>4, ChangeEndKeeps
<1>5. CASE Calendar!Press
  <2>1. value' = value /\ calendarOpened' = calendarOpened /\ calendarOpened
    BY <1>5 DEF Calendar!Press
  <2>2. current + Year \in Int /\ current - Year \in Int
        /\ current + Year # current /\ current - Year # current
    BY <1>1
  <2>3. CASE Calendar!NextMonth
    BY <1>0, <1>1, <2>1, <2>3, NextMonthKeeps
  <2>4. CASE Calendar!PrevMonth
    BY <1>0, <1>1, <2>1, <2>4, PrevMonthKeeps
  <2>5. CASE Calendar!SetYearMonth(current + Year)
    BY <1>0, <1>1, <2>1, <2>2, <2>5, SetYearMonthKeeps
  <2>6. CASE Calendar!SetYearMonth(current - Year)
    BY <1>0, <1>1, <2>1, <2>2, <2>6, SetYearMonthKeeps
  <2> QED BY <1>5, <2>3, <2>4, <2>5, <2>6 DEF Calendar!Press
<1>6. CASE Calendar!DayClick
  BY <1>0, <1>6, ClickKeeps
<1>7. CASE Calendar!TouchEnd
  <2>1. value' = value /\ calendarOpened' = calendarOpened /\ calendarOpened
    BY <1>7 DEF Calendar!TouchEnd
  <2>2. CASE Calendar!NextMonth
    BY <1>0, <1>1, <2>1, <2>2, NextMonthKeeps
  <2>3. CASE Calendar!PrevMonth
    BY <1>0, <1>1, <2>1, <2>3, PrevMonthKeeps
  <2>4. CASE Calendar!Stay
    <3>1. calendarOpened' \in BOOLEAN /\ (animating => calendarOpened')
      BY <1>0, <2>1, Zenon
    <3> QED BY <1>1, <2>1, <2>4, <3>1, MonthsStay
  <2> QED BY <1>7, <2>2, <2>3, <2>4 DEF Calendar!TouchEnd
<1>8. CASE Calendar!TouchStart \/ Calendar!TouchMove \/ Calendar!ClickTimer
  <2>1. Calendar!Stay /\ value' = value /\ calendarOpened' = calendarOpened
    BY <1>8 DEF Calendar!TouchStart, Calendar!TouchMove, Calendar!ClickTimer, Calendar!Stay
  <2>2. calendarOpened' \in BOOLEAN /\ (animating => calendarOpened')
    BY <1>0, <2>1, Zenon
  <2> QED BY <1>1, <2>1, <2>2, MonthsStay
<1> QED BY <1>2, <1>3, <1>4, <1>5, <1>6, <1>7, <1>8, Zenon DEF Calendar!Next

\* What the user sees follows from the invariant.
LEMMA MonthsShown == CalendarInv => MonthsAgree
<1> SUFFICES ASSUME CalendarInv PROVE MonthsAgree
  OBVIOUS
<1>1. Calendar!OneBeyond
  BY DEF Calendar!OneBeyond, CalendarInv, CalendarTyped
<1>2. ASSUME calendarOpened, ~disturbed
      PROVE  /\ Calendar!At(current, -shift) \in {months[i] : i \in DOMAIN months}
             /\ ~animating => months = Calendar!Places(<<Calendar!At(current - 1, 0),
                    Calendar!At(current, 0), Calendar!At(current + 1, 0)>>, shift)
  <2> USE <1>2, Undisturbed
  <2>1. CASE animating
    <3>1. /\ Len(months) \in Nat /\ Len(months) >= 2 /\ DOMAIN months = 1 .. Len(months)
          /\ (months[1] = Calendar!At(current, -shift)
                \/ months[Len(months)] = Calendar!At(current, -shift))
      BY <2>1 DEF SlidingOn, Waiting, CalendarTyped
    <3>2. 1 \in DOMAIN months /\ Len(months) \in DOMAIN months BY <3>1
    <3>3. Calendar!At(current, -shift) \in {months[i] : i \in DOMAIN months}
      BY <3>1, <3>2
    <3> QED BY <2>1, <3>3
  <2>2. CASE ~animating
    <3>1. months = Calendar!Places(Neighbours(current), shift)
      BY <2>2 DEF Resting
    <3>2. CalendarTyped /\ Resting BY <2>2
    <3>4. months \in Seq(Month) /\ Len(months) = 3 /\ months[2] = Calendar!At(current, -shift)
      BY <3>2, AtRest DEF SideBySide
    <3>3. Calendar!At(current, -shift) \in {months[i] : i \in DOMAIN months}
      BY <3>4
    <3> QED BY <3>1, <3>3 DEF Neighbours
  <2> QED BY <2>1, <2>2
<1> QED BY <1>1, <1>2, Zenon DEF MonthsAgree, Calendar!CalendarShows

\* framework7.js, Calendar: however often and by whatever the months are slid on,
\* the month the header names is the one in sight, at rest between its neighbours,
\* and never more than one beyond the limits - in a calendar of any years and limits,
\* unless it is turned back, sent to a year or closed while the months slide.
THEOREM MonthsAlwaysAgree == Spec => []MonthsAgree
<1>1. Init => CalendarInv
  BY CalendarStart DEF Init
<1>2. CalendarInv /\ [Next]_vars => CalendarInv'
  <2> SUFFICES ASSUME CalendarInv, [Next]_vars PROVE CalendarInv'
    OBVIOUS
  <2>1. CASE Calendar!Next
    BY <2>1, CalendarNext
  <2>2. CASE UNCHANGED calendarVars
    BY <2>2 DEF calendarVars, CalendarInv, CalendarTyped, SlidingOn, Resting, Calendar!Nothing
  <2>3. Calendar!Next \/ UNCHANGED calendarVars
    BY Zenon DEF Next, vars
  <2> QED BY <2>1, <2>2, <2>3
<1>3. CalendarInv => MonthsAgree
  BY MonthsShown
<1> QED BY <1>1, <1>2, <1>3, PTL DEF Spec
=============================================================================
