----------------------------- MODULE Accordion -----------------------------
(***************************************************************************)
(* Panels of one accordion of Bootstrap (Collapse of bootstrap.js with a   *)
(* parent): showing a panel hides the one that is open. An instance is     *)
(* made for a panel at the first click; one that is made only to hide a    *)
(* panel that the HTML had open is dropped again while it still hides.     *)
(***************************************************************************)
EXTENDS Integers, Sequences, FiniteSets

CONSTANTS
    NULL,
    Panels,    \* how many, in document order from 1
    MaxMoves   \* bound on the completions that wait for one panel

AccordionAssumption == Panels \in Nat /\ NULL \notin Nat

Panel == 1..Panels

VARIABLES
    class,      \* Panel -> "in", "collapse", "collapsing"
    expanded,   \* Panel -> what aria-expanded of its trigger says
    data,       \* Panel -> its instance, one of its numbers, or NULL
    moves,      \* Panel -> completions that wait for its transition
    bare, early \* history: a panel was clicked while a dropped instance still
                \* moved its panel; an instance was made during a transition

accordionVars == <<class, expanded, data, moves, bare, early>>

X == [class |-> class, expanded |-> expanded, data |-> data, moves |-> moves]
Become(x) ==
    /\ class' = x.class /\ expanded' = x.expanded /\ data' = x.data
    /\ moves' = x.moves

\* transitioning of the instance i of panel p.
Moving(x, p, i) == \E k \in DOMAIN x.moves[p] : x.moves[p][k].inst = i
Actives(x) == {p \in Panel : x.class[p] \in {"in", "collapsing"}}
FirstOf(S) == CHOOSE p \in S : \A q \in S : p <= q

-----------------------------------------------------------------------------
\* The constructor: every trigger of the accordion is brought up to date. A new
\* instance has a number that none which still moves its panel has.
New(x) == [x EXCEPT !.expanded = [p \in Panel |-> x.class[p] = "in"]]
Fresh(x, p) == CHOOSE n \in 1..(Len(x.moves[p]) + 1) : ~Moving(x, p, n)

\* hide of the instance i of panel p.
MayHide(x, p, i) == ~Moving(x, p, i) /\ x.class[p] = "in"
Hide(x, p, i) ==
    IF ~MayHide(x, p, i) THEN x
    ELSE [x EXCEPT !.class[p] = "collapsing", !.expanded[p] = FALSE,
                   !.moves[p] = Append(@, [inst |-> i, to |-> "collapse"])]

\* Plugin(actives, 'hide') of the panels S: each has an instance or is given one.
\* They hide at once, as the constructor does not see one that hides already as in.
HideAll(x, S) ==
    LET inst == [p \in Panel |-> IF p \in S /\ x.data[p] = NULL THEN Fresh(x, p) ELSE x.data[p]]
        made == \E p \in S : x.data[p] = NULL
        H == {p \in S : MayHide(x, p, inst[p])}
    IN  [class |-> [p \in Panel |-> IF p \in H THEN "collapsing" ELSE x.class[p]],
         expanded |-> [p \in Panel |-> p \notin H /\ IF made THEN x.class[p] = "in" ELSE x.expanded[p]],
         data |-> inst,
         moves |-> [p \in Panel |-> IF p \in H THEN Append(x.moves[p], [inst |-> inst[p], to |-> "collapse"])
                                    ELSE x.moves[p]]]

\* show of the instance i of panel p.
Busy(x) ==
    LET S == Actives(x)
    IN  S # {} /\ x.data[FirstOf(S)] # NULL /\ Moving(x, FirstOf(S), x.data[FirstOf(S)])
Show(x, p, i) ==
    IF Moving(x, p, i) \/ x.class[p] = "in" \/ Busy(x) THEN x
    ELSE LET S == Actives(x)
             h == HideAll(x, S)
             dropped == IF S # {} /\ x.data[FirstOf(S)] = NULL THEN S ELSE {}
         IN  [h EXCEPT !.data = [q \in Panel |-> IF q \in dropped THEN NULL ELSE h.data[q]],
                       !.class[p] = "collapsing", !.expanded[p] = TRUE,
                       !.moves[p] = Append(@, [inst |-> i, to |-> "in"])]

Toggle(x, p, i) == IF x.class[p] = "in" THEN Hide(x, p, i) ELSE Show(x, p, i)

-----------------------------------------------------------------------------
Init ==
    /\ \E S \in SUBSET Panel :
          /\ Cardinality(S) <= 1
          /\ class = [p \in Panel |-> IF p \in S THEN "in" ELSE "collapse"]
          /\ expanded = [p \in Panel |-> p \in S]
    /\ data = [p \in Panel |-> NULL] /\ moves = [p \in Panel |-> <<>>]
    /\ bare = FALSE /\ early = FALSE

\* A click on a trigger. The instance becomes the panel's after it has toggled.
MakesOne(p) == \E q \in Actives(X) \cup {p} : data[q] = NULL
Click(p) ==
    /\ IF data[p] # NULL THEN Become(Toggle(X, p, data[p]))
       ELSE Become([Toggle(New(X), p, Fresh(X, p)) EXCEPT !.data[p] = Fresh(X, p)])
    /\ \A q \in Panel : Len(moves'[q]) <= MaxMoves
    /\ bare' = (bare \/ \E q \in Panel : data[q] = NULL /\ moves[q] # <<>>)
    /\ early' = (early \/ (MakesOne(p) /\ \E q \in Panel : moves[q] # <<>>))

\* The transition of a panel ends: all that waited for it complete.
Completed(p) == IF \E k \in DOMAIN moves[p] : moves[p][k].to = "in" THEN "in" ELSE "collapse"
TransitionEnd(p) ==
    /\ moves[p] # <<>>
    /\ class' = [class EXCEPT ![p] = Completed(p)]
    /\ moves' = [moves EXCEPT ![p] = <<>>]
    /\ UNCHANGED <<expanded, data, bare, early>>

Next == \E p \in Panel : Click(p) \/ TransitionEnd(p)

Spec == Init /\ [][Next]_accordionVars

-----------------------------------------------------------------------------
Opens(p) == class[p] = "in" \/ \E k \in DOMAIN moves[p] : moves[p][k].to = "in"

\* However the panels are clicked while others still slide, at most one is
\* open or opens, as long as none is clicked while a panel still moves whose
\* instance was dropped.
OneOpen == ~bare => Cardinality({p \in Panel : Opens(p)}) <= 1

\* A trigger says that its panel is expanded exactly when it is open, or
\* opens, unless an instance was made in the middle of a transition.
TriggersAgree == ~early => \A p \in Panel : expanded[p] <=> Opens(p)
=============================================================================
