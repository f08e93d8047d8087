--------------------------- MODULE Notifications ---------------------------
(***************************************************************************)
(* Notifications of framework7.js: they drop into one container, go after  *)
(* a while or when they are touched, and leave it when their transition    *)
(* has ended.                                                              *)
(***************************************************************************)
EXTENDS Naturals

CONSTANTS
    Note,    \* notifications
    Custom   \* those with HTML of the page's own, which has no transition

VARIABLES
    note,      \* of a notification: "new", "in", "removing" (and hidden), "gone"
    hold,      \* those whose timeout is set
    told,      \* history: how often onClose was called, up to 2
    container, \* it is displayed
    beside     \* history: the container was hidden beside a custom one, and not shown since

noteVars == <<note, hold, told, container, beside>>

In(state) == {n \in Note : note[n] = state}
Listed == In("in") \cup In("removing")

Init ==
    /\ note = [n \in Note |-> "new"] /\ hold = {} /\ told = [n \in Note |-> 0]
    /\ container = FALSE /\ beside = FALSE

Add(n) ==
    /\ note[n] = "new"
    /\ note' = [note EXCEPT ![n] = "in"] /\ container' = TRUE /\ beside' = FALSE
    /\ \/ hold' = hold \cup {n}
       \/ UNCHANGED hold
    /\ UNCHANGED told

\* closeNotification of an item that may be closing, or gone, already.
Closing(n) == note[n] \in {"removing", "gone"}
Close(n) ==
    IF Closing(n) THEN UNCHANGED <<note, told>>
    ELSE /\ note' = [note EXCEPT ![n] = "removing"]
         /\ told' = [told EXCEPT ![n] = IF @ < 2 THEN @ + 1 ELSE @]

\* By a touch, by the page, which may still hold the item, or by its timeout.
Closes(n) == note[n] # "new" /\ Close(n) /\ UNCHANGED <<hold, container, beside>>
HoldTimeout(n) == n \in hold /\ hold' = hold \ {n} /\ Close(n) /\ UNCHANGED <<container, beside>>

\* The container goes with the last item that has the class of an item.
Hides(n) == Listed \ Custom = {n}
TransitionEnd(n) ==
    /\ note[n] = "removing" /\ n \notin Custom
    /\ note' = [note EXCEPT ![n] = "gone"]
    /\ container' = (container /\ ~Hides(n))
    /\ beside' = (IF Hides(n) THEN Listed \cap Custom # {} ELSE beside)
    /\ UNCHANGED <<hold, told>>

Next == \E n \in Note : Add(n) \/ Closes(n) \/ HoldTimeout(n) \/ TransitionEnd(n)

\* Timeouts and transitions end.
Fairness == \A n \in Note : WF_noteVars(HoldTimeout(n)) /\ WF_noteVars(TransitionEnd(n))
Spec == Init /\ [][Next]_noteVars /\ Fairness

-----------------------------------------------------------------------------
\* However a notification is closed, and by however many at once, onClose is
\* called once.
ClosedOnce == \A n \in Note : told[n] = (IF note[n] \in {"removing", "gone"} THEN 1 ELSE 0)

\* The container is displayed exactly while it holds a notification, except
\* that it may be hidden with custom ones, which it does not count, and no others.
ContainerShown ==
    /\ container <=> Listed # {} /\ ~beside
    /\ beside => Listed \subseteq Custom

\* One with a timeout, or touched, goes in the end, unless it is custom: that
\* one waits for a transition it does not have.
HeldGoes == \A n \in Note \ Custom : n \in hold \/ note[n] = "removing" ~> note[n] = "gone"
=============================================================================
