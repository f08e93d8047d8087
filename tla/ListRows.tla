------------------------------ MODULE ListRows ------------------------------
(***************************************************************************)
(* Rows of a list of framework7.js under a finger: swiped to the left they *)
(* show their actions (swipeout), pulled by their handle they are sorted   *)
(* (sortable). Both use the flag allowSwipeout. One finger; rows have      *)
(* actions on the right only, and none is swiped beyond them.              *)
(***************************************************************************)
EXTENDS Integers, Sequences, SequencesExt

CONSTANTS
    NULL,
    Row,
    Setting,   \* records [rows, uses]: the rows of a page in order, and what is
               \* done with them: "swipe", "sort", "open", "delete"
    MaxCloses  \* bound on the closes of one row

\* A page holds a row once.
RowsAssumption ==
    /\ NULL \notin Row
    /\ \A t \in Setting : /\ t.rows \in Seq(Row)
                          /\ \A j, k \in DOMAIN t.rows : t.rows[j] = t.rows[k] => j = k

VARIABLES
    uses,
    order,
    openedClass,  \* rows with the class swipeout-opened
    at,           \* Row -> how far it is out: 0, 1 or 2, all its actions
    moving,       \* rows whose content moves by a transition
    closes,       \* Row -> its closes whose listener of the transition's end closes:
                  \* TRUE while closeTO runs too
    deleting,
    openedEl, allow,   \* swipeoutOpenedEl, allowSwipeout
    touch,        \* on "row", "handle" or "none"; opened: the row was open when it moved
    sortable,     \* the list has the class sortable-opened
    pull,         \* how many half rows the handle was pulled
    lost          \* history: a touch was cancelled, or the page opened a row
                  \* beside another that was out

rowVars == <<uses, order, openedClass, at, moving, closes, deleting, openedEl, allow, touch,
             sortable, pull, lost>>
swipeVars == <<uses, openedClass, at, moving, closes, openedEl, allow>>

NoTouch == [on |-> "none", row |-> NULL, moved |-> FALSE, opened |-> FALSE]

S == [openedClass |-> openedClass, at |-> at, moving |-> moving, closes |-> closes,
      openedEl |-> openedEl, allow |-> allow]
Become(s) ==
    /\ openedClass' = s.openedClass /\ at' = s.at /\ moving' = s.moving /\ closes' = s.closes
    /\ openedEl' = s.openedEl /\ allow' = s.allow /\ UNCHANGED uses

-----------------------------------------------------------------------------
\* The content goes to x by a transition; nothing ends where nothing moves.
Glide(s, r, x) == [s EXCEPT !.at[r] = x, !.moving = IF s.at[r] = x THEN @ ELSE @ \cup {r}]

SwipeoutClose(s, r) ==
    IF r \notin s.openedClass THEN s
    ELSE [Glide(s, r, 0) EXCEPT !.closes[r] = Append(@, TRUE),
              !.allow = FALSE, !.openedClass = @ \ {r},
              !.openedEl = IF @ = r THEN NULL ELSE @]

OnSwipeoutClose(s) == [s EXCEPT !.allow = TRUE]

\* The document's handler of a touch, before the row's: it closes the other row.
ElsewhereNever(s, r) == s  \* mutant
Elsewhere(s, r) ==
    IF s.openedEl \notin {NULL, r} THEN SwipeoutClose(s, s.openedEl) ELSE s

\* swipeout: the release.
Release(s, r, opens) ==
    IF opens THEN [Glide(s, r, 2) EXCEPT
                       !.openedClass = @ \cup {r}, !.openedEl = r]
    ELSE [Glide(s, r, 0) EXCEPT
              !.openedClass = @ \ {r}, !.openedEl = NULL]

-----------------------------------------------------------------------------
\* sortable: the rows the pulled one displaces, a row being two halves high.
Index(r) == CHOOSE k \in DOMAIN order : order[k] = r
Offset(k) == 2 * (k - 1)
Above(r) == {k \in 1..Index(r) - 1 : Offset(Index(r)) + pull <= Offset(k) + 1}
Below(r) == {k \in Index(r) + 1..Len(order) : Offset(Index(r)) + pull >= Offset(k) - 1}

LeastOf(K) == CHOOSE k \in K : \A j \in K : k <= j
MostOf(K) == CHOOSE k \in K : \A j \in K : k >= j
InsertedLast(r) ==  \* mutant
    CASE Above(r) # {} -> MostOf(Above(r))
      [] Below(r) # {} -> MostOf(Below(r))
      [] OTHER -> Index(r)
Inserted(r) ==
    CASE Above(r) # {} -> LeastOf(Above(r))
      [] Below(r) # {} -> MostOf(Below(r))
      [] OTHER -> Index(r)

-----------------------------------------------------------------------------
Init ==
    /\ \E t \in Setting : order = t.rows /\ uses = t.uses
    /\ openedClass = {} /\ at = [r \in Row |-> 0] /\ moving = {}
    /\ closes = [r \in Row |-> <<>>] /\ deleting = {} /\ openedEl = NULL /\ allow = TRUE
    /\ touch = NoTouch /\ sortable = FALSE /\ pull = 0 /\ lost = FALSE

\* The model takes no more where a row may be out that nobody knows of.
Known == ~lost
Room(r) == Len(closes[r]) < MaxCloses
InList(r) == \E k \in DOMAIN order : order[k] = r

\* A touch of a row, or of anything else (NULL).
TouchStart(r) ==
    /\ Known /\ touch = NoTouch /\ (r # NULL => InList(r)) /\ (openedEl # NULL => Room(openedEl))
    /\ \E s \in {Elsewhere(S, r)} :
          /\ Become(s)
          /\ touch' = IF s.allow /\ r # NULL THEN [NoTouch EXCEPT !.on = "row", !.row = r] ELSE NoTouch
    /\ UNCHANGED <<order, deleting, sortable, pull, lost>>

\* Vertical at first: the list scrolls.
Scrolls ==
    /\ touch.on = "row" /\ ~touch.moved /\ touch' = NoTouch
    /\ UNCHANGED <<swipeVars, order, deleting, sortable, pull, lost>>

\* The first move stops the transition and takes the class away; to the right
\* of its place a row that was closed goes back at once and is let go.
TouchMove(x) ==
    /\ "swipe" \in uses /\ touch.on = "row" /\ ~(sortable /\ ~touch.moved)
    /\ LET r == touch.row
           first == ~touch.moved
           opened == IF first THEN r \in openedClass ELSE touch.opened
       IN  /\ Become([S EXCEPT !.openedClass = @ \ {r}, !.moving = @ \ {r},
                               !.at[r] = IF x < 0 THEN 0 ELSE x])
           /\ touch' = IF x < 0 /\ ~opened THEN NoTouch
                       ELSE [touch EXCEPT !.moved = TRUE, !.opened = opened]
    /\ UNCHANGED <<order, deleting, sortable, pull, lost>>

\* Half way it depends on the speed.
TouchEnd ==
    /\ touch.on = "row" /\ touch' = NoTouch
    /\ IF ~touch.moved THEN UNCHANGED swipeVars
       ELSE \E opens \in BOOLEAN :
               /\ (at[touch.row] = 0 => ~opens) /\ (at[touch.row] = 2 => opens)
               /\ Become(Release(S, touch.row, opens))
    /\ UNCHANGED <<order, deleting, sortable, pull, lost>>

\* Nobody listens to a touch that the system takes away.
TouchCancel ==
    /\ touch # NoTouch /\ touch' = NoTouch /\ lost' = TRUE
    /\ UNCHANGED <<swipeVars, order, deleting, sortable, pull>>

HandleStart(r) ==
    /\ Known /\ sortable /\ touch = NoTouch /\ InList(r) /\ (openedEl # NULL => Room(openedEl))
    /\ Become([Elsewhere(S, r) EXCEPT !.allow = FALSE])
    /\ touch' = [NoTouch EXCEPT !.on = "handle", !.row = r] /\ pull' = 0
    /\ UNCHANGED <<order, deleting, sortable, lost>>
\* It stays inside the list.
HandleMove(y) ==
    /\ touch.on = "handle" /\ touch' = [touch EXCEPT !.moved = TRUE]
    /\ LET top == Offset(Index(touch.row))
       IN  top + y \in 0..Offset(Len(order)) /\ pull' = y
    /\ UNCHANGED <<swipeVars, order, deleting, sortable, lost>>
HandleEnd ==
    /\ touch.on = "handle" /\ touch' = NoTouch /\ pull' = 0
    /\ Become([S EXCEPT !.allow = TRUE])
    /\ order' = IF touch.moved
                THEN InsertAt(RemoveAt(order, Index(touch.row)), Inserted(touch.row), touch.row)
                ELSE order
    /\ UNCHANGED <<deleting, sortable, lost>>

SetSortable(b) ==
    /\ Known /\ "sort" \in uses /\ touch = NoTouch /\ sortable # b /\ sortable' = b
    /\ UNCHANGED <<swipeVars, order, deleting, touch, pull, lost>>

\* The page's own calls.
SwipeoutOpen(r) ==
    /\ Known /\ "open" \in uses /\ r \notin openedClass /\ InList(r)
    /\ Become([Glide(S, r, 2) EXCEPT
                   !.openedClass = @ \cup {r}, !.openedEl = r])
    /\ lost' = (lost \/ (touch.on = "row" /\ touch.row # r) \/ \E o \in Row : at[o] # 0)
    /\ UNCHANGED <<order, deleting, touch, sortable, pull>>
SwipeoutDelete(r) ==
    /\ Known /\ "delete" \in uses /\ InList(r) /\ r \notin deleting /\ touch.on # "handle"
    /\ deleting' = deleting \cup {r} /\ openedEl' = NULL
    /\ lost' = (lost \/ \E o \in Row \ {r} : at[o] # 0)
    /\ UNCHANGED <<uses, order, openedClass, at, moving, closes, allow, touch, sortable, pull>>

\* The deleted row has shrunk and goes; its finger is not heard any more.
Deleted(r) ==
    /\ r \in deleting /\ InList(r) /\ touch.on # "handle"
    /\ order' = RemoveAt(order, Index(r)) /\ moving' = moving \ {r}
    /\ touch' = IF touch.row = r THEN NoTouch ELSE touch
    /\ UNCHANGED <<uses, openedClass, at, closes, deleting, openedEl, allow, sortable, pull, lost>>

\* All who wait hear the end of the transition.
ContentEnds(r) ==
    /\ r \in moving
    /\ LET s == [S EXCEPT !.moving = @ \ {r}, !.closes[r] = <<>>]
       IN  Become(IF closes[r] # <<>> THEN OnSwipeoutClose(s) ELSE s)
    /\ UNCHANGED <<order, deleting, touch, sortable, pull, lost>>
\* closeTO: half a second after the close, if it was not heard till then.
CloseTimeout(r) ==
    /\ \E k \in DOMAIN closes[r] :
          closes[r][k] /\ Become(OnSwipeoutClose([S EXCEPT !.closes[r][k] = FALSE]))
    /\ UNCHANGED <<order, deleting, touch, sortable, pull, lost>>

Next ==
    \/ \E r \in Row \cup {NULL} : TouchStart(r)
    \/ Scrolls \/ TouchEnd \/ TouchCancel \/ HandleEnd
    \/ \E x \in -1..2 : TouchMove(x)
    \/ \E r \in Row : HandleStart(r) \/ SwipeoutOpen(r) \/ SwipeoutDelete(r) \/ Deleted(r)
                      \/ ContentEnds(r) \/ CloseTimeout(r)
    \/ \E y \in -Offset(Len(order))..Offset(Len(order)) : HandleMove(y)
    \/ \E b \in BOOLEAN : SetSortable(b)

Spec == Init /\ [][Next]_rowVars /\ \A r \in Row : WF_rowVars(CloseTimeout(r))

-----------------------------------------------------------------------------
\* A row that is out and not under the finger is the one that the next touch
\* elsewhere closes: no row stays out beside another. (Unless a touch was
\* cancelled, or the page opened or deleted a row beside one that was out.)
OutIsKnown ==
    \A r \in Row : at[r] # 0 /\ InList(r) /\ r \notin deleting /\ ~lost
                   /\ ~(touch.row = r) => openedEl = r

\* A close blocks swiping only for a while, whatever becomes of its
\* transition, unless the finger holds a handle, whose end was not lost.
SwipesAgain == ~allow ~> (allow \/ lost \/ (touch.on = "handle"))

\* A row that was pulled lands where it was shown: behind the rows that are
\* shown above it, before those shown below.
ShownAt(k, r) ==
    IF k = Index(r) THEN Offset(k) + pull
    ELSE IF k \in Above(r) THEN Offset(k) + 2 ELSE IF k \in Below(r) THEN Offset(k) - 2 ELSE Offset(k)
Lands ==
    touch.on = "handle" /\ touch' = NoTouch /\ ~lost' =>
        \A j \in DOMAIN order' : \A k \in DOMAIN order :
            order'[j] = order[k] =>
                IF order[k] = touch.row THEN ShownAt(k, touch.row) - Offset(j) \in -1..1
                ELSE ShownAt(k, touch.row) = Offset(j)
SortLands == [][Lands]_rowVars
=============================================================================
