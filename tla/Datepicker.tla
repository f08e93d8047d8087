----------------------------- MODULE Datepicker -----------------------------
(***************************************************************************)
(* bootstrap-datepicker: an input with a drop-down calendar, one date,     *)
(* minimal view mode "days" (bootstrap-datepicker.js).  Date objects are   *)
(* changed in place here and there, so that the model says which of them   *)
(* the date in view is.  Dates are numbered; months and years are shorter  *)
(* than ours.  No dates disabled within the range.                         *)
(***************************************************************************)
EXTENDS Integers, Sequences, FiniteSets, Functions

CONSTANTS
    NULL,
    MonthOf,      \* the month of each date there is: months and dates count from 1
    YearMonths,   \* months of a year
    Week,         \* days of a week
    First, Last,  \* o.startDate, o.endDate
    Today,
    DefaultView   \* o.defaultViewDate at first

DatesAssumption ==
    /\ MonthOf \in Seq(Int) /\ {First, Last, Today, DefaultView} \subseteq Int /\ NULL \notin Int
    /\ Week \in Nat /\ YearMonths \in Nat \ {0}

VARIABLES
    o,        \* options: [autoclose, linked (todayBtn)]
    date,     \* this.dates, of at most one: NULL for none
    view,     \* this.viewDate ...
    ref,      \* ... which other objects it is: "chosen", the date, and "default"
    focus,    \* this.focusDate, NULL for none ...
    same,     \* ... which is the object in view
    default,  \* o.defaultViewDate
    shared,   \* the chosen date is that object
    input,    \* the date the input's text stands for, NULL for any other
    typed,    \* history: the user has changed the text since setValue
    mode,     \* viewMode: 0 days, 1 months, 2 years
    place,    \* "hidden", "shown", "aside": hidden without hide
    shifted   \* history: since setValue a month or a year was picked in a view that is the date

dateVars == <<o, date, view, ref, focus, same, default, shared, input, typed, mode, place, shifted>>

S == [date |-> date, view |-> view, ref |-> ref, focus |-> focus, same |-> same,
      default |-> default, shared |-> shared, input |-> input, typed |-> typed, mode |-> mode,
      place |-> place, shifted |-> shifted]
Become(s) ==
    /\ date' = s.date /\ view' = s.view /\ ref' = s.ref /\ focus' = s.focus /\ same' = s.same
    /\ default' = s.default /\ shared' = s.shared /\ input' = s.input /\ typed' = s.typed
    /\ mode' = s.mode /\ place' = s.place /\ shifted' = s.shifted
    /\ UNCHANGED o

-----------------------------------------------------------------------------
(* The calendar.                                                           *)

Dates == DOMAIN MonthOf
Month == Range(MonthOf)
Before(m) == Cardinality({d \in Dates : MonthOf[d] < m})
On(m, day) == IF Before(m) + day <= Before(m + 1) THEN Before(m) + day ELSE Before(m + 1)
YearOf(m) == (m - 1) \div YearMonths
InYear(m) == (m - 1) % YearMonths

InRange(d) == First <= d /\ d <= Last

\* moveMonth: the same day, or the last one of a shorter month; NULL outside
\* the calendar of the model.
MoveMonth(d, n) ==
    IF MonthOf[d] + n \notin Month THEN NULL
    ELSE On(MonthOf[d] + n, d - Before(MonthOf[d]))
MoveYear(d, dir) == MoveMonth(d, dir * YearMonths)

-----------------------------------------------------------------------------
(* Parts of the handlers.                                                  *)

SetValue(s) == [s EXCEPT !.input = s.date, !.typed = FALSE, !.shifted = FALSE]

\* The view is another object ...
Views(s, d, r) == [s EXCEPT !.view = d, !.ref = r, !.same = FALSE]
\* ... or the one it is is changed.
Mutated(s, d) ==
    [s EXCEPT !.view = d,
              !.focus = IF s.same THEN d ELSE @,
              !.default = IF "default" \in s.ref THEN d ELSE @,
              !.date = IF "chosen" \in s.ref THEN d ELSE @,
              !.shifted = @ \/ "chosen" \in s.ref]

\* update, of what a text or an argument stands for.
Update(s, d) ==
    LET s1 == [s EXCEPT !.date = IF d # NULL /\ InRange(d) THEN d ELSE NULL, !.shared = FALSE]
    IN  CASE s1.date # NULL -> Views(s1, s1.date, {})
          [] s1.date = NULL /\ s.view < First -> Views(s1, First, {})
          [] s1.date = NULL /\ s.view > Last -> Views(s1, Last, {})
          [] OTHER -> Views(s1, s.default, {"default"})

\* _toggle_multidate, without toggleActive, of an object that is the default one
\* or not: the date chosen already stays the object it is.  The view is set next.
Chosen(s, d, isDefault) == IF d = s.date THEN s ELSE [s EXCEPT !.date = d, !.shared = isDefault]

\* hide, of what is visible.
Hidden(s) ==
    IF s.place # "shown" THEN s
    ELSE LET s1 == [s EXCEPT !.focus = NULL, !.same = FALSE, !.place = "hidden", !.mode = 0]
         IN  IF s.input # NULL \/ s.typed THEN SetValue(s1) ELSE s1
AutoHidden(s) == IF o.autoclose THEN Hidden(s) ELSE s

ShowMode(s, dir) == [s EXCEPT !.mode = IF @ + dir < 0 THEN 0 ELSE IF @ + dir > 2 THEN 2 ELSE @ + dir]

\* _setDate of both, of the view only.
SetDate(s, d) == AutoHidden(SetValue(Views(Chosen(s, d, FALSE), d, {})))
SetView(s, d) == SetValue(Views(s, d, {}))

-----------------------------------------------------------------------------
(* The page and the input.                                                 *)

Init ==
    /\ o \in [autoclose : BOOLEAN, linked : BOOLEAN]
    /\ date = NULL /\ default = DefaultView /\ view = DefaultView /\ ref = {"default"}
    /\ focus = NULL /\ same = FALSE /\ shared = FALSE /\ input = NULL /\ typed = FALSE
    /\ mode = 0 /\ place = "hidden" /\ shifted = FALSE

Show == place # "shown" /\ Become([S EXCEPT !.place = "shown"])

Hide == place = "shown" /\ Become(Hidden(S))

\* A click elsewhere on the page only takes the picker out of sight.
ClickOutside == place = "shown" /\ Become([S EXCEPT !.place = "aside"])

\* A key that is not one of keydown's, and keyup after it.
Type(d) == Become(Update([S EXCEPT !.input = d, !.typed = TRUE], d))

\* setDate, and paste.
SetDates(d) == Become(SetValue(Update(S, d)))

-----------------------------------------------------------------------------
(* Clicks on the picker.                                                   *)

Clicks(s) == place = "shown" /\ Become(s)

\* updateNavArrows hides an arrow at the end of the range: years and months of
\* the year are compared each by itself.
NavHidden(dir) ==
    LET edge == MonthOf[IF dir < 0 THEN First ELSE Last]
        Past(a, b) == IF dir < 0 THEN a <= b ELSE a >= b
    IN  /\ Past(YearOf(MonthOf[view]), YearOf(edge))
        /\ mode = 0 => Past(InYear(MonthOf[view]), InYear(edge))
\* In the view of years ten of them are beyond the calendar of the model.
Nav(dir) ==
    LET d == IF mode = 0 THEN MoveMonth(view, dir) ELSE MoveYear(view, dir)
    IN  mode < 2 /\ ~NavHidden(dir) /\ d # NULL /\ Clicks(Views(S, d, {}))

Switch == Clicks(ShowMode(S, 1))

\* What fill draws and does not draw disabled: the months of the view's year,
\* the years, the days of the month in view and of the weeks around it.
Months == {m \in Month : YearOf(m) = YearOf(MonthOf[view]) /\ MonthOf[First] <= m /\ m <= MonthOf[Last]}
Years == YearOf(MonthOf[First]) .. YearOf(MonthOf[Last])
Days == {d \in Dates : InRange(d) /\ MonthOf[d] - MonthOf[view] \in -1..1}

PickMonth(m) == mode = 1 /\ Clicks(ShowMode(Mutated(S, On(m, 1)), -1))
PickYear(y) ==
    LET m == (y * YearMonths) + InYear(MonthOf[view]) + 1
    IN  mode = 2 /\ m \in Month /\ Clicks(ShowMode(Mutated(S, On(m, 1)), -1))
PickDay(d) == mode = 0 /\ Clicks(SetDate(S, d))

\* Not asked whether it is in range.
PickToday ==
    Clicks(IF o.linked THEN SetDate(ShowMode(S, -2), Today) ELSE SetView(ShowMode(S, -2), Today))

Clear == Clicks(AutoHidden(Update([S EXCEPT !.input = NULL, !.typed = FALSE], NULL)))

-----------------------------------------------------------------------------
(* Keys.                                                                   *)

Keys(s) == place = "shown" /\ Become(s)
Arrow(d) ==
    d \in Dates /\ InRange(d) /\ Keys(SetValue([Views(S, d, {}) EXCEPT !.focus = d, !.same = TRUE]))
Arrows ==
    LET from == IF focus # NULL THEN focus ELSE view
    IN  \E dir \in {-1, 1} :
            \/ Arrow(from + dir) \/ Arrow(from + dir * Week)
            \/ \E d \in {MoveMonth(from, dir), MoveYear(from, dir)} \ {NULL} : Arrow(d)

\* The view becomes the chosen date itself.
ToChosen(s) ==
    LET s1 == [s EXCEPT !.focus = NULL, !.same = FALSE]
    IN  IF s.date = NULL THEN s1
        ELSE Views(s1, s.date, {"chosen"} \cup IF s.shared THEN {"default"} ELSE {})

Escape == Keys(IF focus # NULL THEN ToChosen(S) ELSE Hidden(S))
Tab == Keys(Hidden(ToChosen(S)))

\* Enter takes the date in focus, the chosen one or the one in view: that may be
\* outside the range, and the default one.
EnteredUnsaid(s) == AutoHidden(ToChosen(s))  \* mutant
Entered(s) == AutoHidden(SetValue(ToChosen(s)))
Enter ==
    LET d == IF focus # NULL THEN focus ELSE IF date # NULL THEN date ELSE view
    IN  Keys(Entered(Chosen(S, d, focus = NULL /\ "default" \in ref)))

Next ==
    \/ Show \/ Hide \/ ClickOutside
    \/ Switch \/ \E dir \in {-1, 1} : Nav(dir)
    \/ \E m \in Months : PickMonth(m)
    \/ \E y \in Years : PickYear(y)
    \/ \E d \in Days : PickDay(d)
    \/ PickToday \/ Clear
    \/ Arrows \/ Escape \/ Tab \/ Enter
    \/ \E d \in Dates \cup {NULL} : Type(d) \/ SetDates(d)

Spec == Init /\ [][Next]_dateVars

-----------------------------------------------------------------------------
\* The input shows the date that is chosen, unless since setValue the user has
\* typed, or has picked a month or a year while the view was the date itself, as
\* it is after Escape, Tab and Enter.
InputAgrees == ~typed /\ ~shifted => input = date

\* Whatever was typed or picked before, a picker that is hidden leaves the input
\* with the date that is chosen.
HidingWrites == [][place' = "hidden" /\ place # "hidden" => input' = date']_dateVars
=============================================================================
