------------------------------ MODULE Calendar ------------------------------
(***************************************************************************)
(* The calendar picker of Framework7: three months side by side that slide *)
(* by a CSS transition when the month or the year is changed, by a button, *)
(* a finger or a day of a neighbouring month (framework7.js, "Calendar").  *)
(* Months are counted from an arbitrary one.                               *)
(***************************************************************************)
EXTENDS Integers, Sequences

CONSTANTS
    Year,         \* months in a year: 12, or fewer to check the module
    First, Last,  \* months of minDate and maxDate
    Today,        \* the month first shown
    MaxShift      \* bound on how far the months may be slid

\* The calendar opens on a month that it can be turned to.
CalendarAssumption ==
    /\ Year \in 2..12 /\ First \in Int /\ Last \in Int /\ First <= Last
    /\ MaxShift \in Nat /\ Today \in First - 1 .. Last + 1

VARIABLES
    months,     \* the months in the wrapper, each at its place
    marked,     \* indices of those of class prev, current or next
    current,    \* currentYear and currentMonth
    shift,      \* monthsTranslate, which is where the wrapper is or slides to
    animating,  \* p.animating
    onEnd,      \* what waits for the end of the wrapper's transition
    opened,     \* p.opened
    value,      \* the month of the chosen day
    swipe,      \* the finger: "no", "touched", "moved"
    allowClick, \* allowItemClick
    disturbed   \* history: turned, sent to a year or closed while it slid

calendarVars == <<months, marked, current, shift, animating, onEnd, opened, value, swipe,
                  allowClick, disturbed>>

Nothing == [dir |-> "no", both |-> FALSE]
At(m, place) == [month |-> m, place |-> place]

\* layout and setMonthsTranslate
Places(ms, t) == [i \in DOMAIN ms |-> IF i <= 3 THEN At(ms[i].month, i - 2 - t) ELSE ms[i]]
Layout(m) == Places(<<At(m - 1, 0), At(m, 0), At(m + 1, 0)>>, 0)

Init ==
    /\ months = Layout(Today) /\ marked = {1, 2, 3} /\ current = Today /\ shift = 0
    /\ animating = FALSE /\ onEnd = Nothing /\ opened = TRUE /\ value = Today
    /\ swipe = "no" /\ allowClick = TRUE /\ disturbed = FALSE

\* open: laid out anew around the chosen day; animating is left as it was.
Open ==
    /\ ~opened /\ opened' = TRUE
    /\ months' = Layout(value) /\ marked' = {1, 2, 3} /\ current' = value /\ shift' = 0
    /\ onEnd' = Nothing /\ swipe' = "no" /\ allowClick' = TRUE
    /\ UNCHANGED <<animating, value, disturbed>>

\* close drops the events; the element goes, with a transition that still runs.
Close ==
    /\ opened /\ opened' = FALSE
    /\ disturbed' = (disturbed \/ animating)
    /\ UNCHANGED <<months, marked, current, shift, animating, onEnd, value, swipe, allowClick>>

-----------------------------------------------------------------------------
(* nextMonth, prevMonth, setYearMonth, onMonthChangeStart.                 *)

\* The first slide waits for the end of the transition for those that follow.
Listens(e) == IF animating THEN onEnd ELSE e

Past(m, dir) == IF dir = "next" THEN m > Last ELSE m < First

\* onMonthChangeStart: the outermost month becomes the current one.
Start(dir, ms, end) ==
    LET n == Len(ms)
    IN  /\ months' = ms
        /\ current' = IF dir = "next" THEN ms[n].month ELSE ms[1].month
        /\ marked' = IF dir = "next" THEN {n - 1, n} ELSE {1, 2}
        /\ animating' = TRUE
        /\ onEnd' = Listens(end)
        /\ disturbed' = (disturbed \/ (animating /\ onEnd.dir # dir))

\* resetMonth: back to where the months were.
Stay == UNCHANGED <<months, marked, current, shift, animating, onEnd, disturbed>>

\* While the months slide the outermost one is the current one, and the next
\* is put behind it.
Grows(outer) == outer % Year = current % Year

NextMonth ==
    LET last == months[Len(months)].month
        t == shift - 1
    IN  IF Past(last, "next") THEN Stay
        ELSE /\ t >= -MaxShift /\ shift' = t
             /\ Start("next", IF Grows(last) THEN Append(months, At(last + 1, -t)) ELSE months,
                      [dir |-> "next", both |-> FALSE])

PrevMonth ==
    LET first == months[1].month
        t == shift + 1
    IN  IF Past(first, "prev") THEN Stay
        ELSE /\ t <= MaxShift /\ shift' = t
             /\ Start("prev", IF Grows(first) THEN <<At(first - 1, -t)>> \o months ELSE months,
                      [dir |-> "prev", both |-> FALSE])

\* The month of another year takes the place of the neighbour.
SetYearMonth(m) ==
    LET kept == IF animating THEN months
                ELSE IF m > current THEN SubSeq(months, 1, Len(months) - 1) ELSE Tail(months)
        dir == IF m > current THEN "next" ELSE "prev"
        t == IF m > current THEN shift - 1 ELSE shift + 1
    IN  IF Past(m, "next") \/ Past(m, "prev") THEN Stay
        ELSE /\ t \in -MaxShift..MaxShift /\ shift' = t
             /\ months' = IF m > current THEN Append(kept, At(m, -t)) ELSE <<At(m, -t)>> \o kept
             /\ current' = m
             /\ marked' = IF m > current THEN {Len(kept), Len(kept) + 1} ELSE {1, 2}
             /\ animating' = TRUE
             /\ onEnd' = Listens([dir |-> dir, both |-> TRUE])
             /\ disturbed' = (disturbed \/ animating)

\* onMonthChangeEnd drops what is not marked and puts the missing neighbours
\* in place. Where it drops months two are marked, side by side.
KeptAll == months  \* mutant
Kept == LET i == CHOOSE j \in marked : j + 1 \in marked IN SubSeq(months, i, i + 1)

MonthChangeEnd ==
    /\ opened /\ onEnd # Nothing
    /\ onEnd' = Nothing /\ animating' = FALSE
    /\ LET before == <<At(current - 1, 0)>>
           after == <<At(current + 1, 0)>>
           list == IF onEnd.both THEN before \o <<At(current, 0)>> \o after
                   ELSE IF onEnd.dir = "next" THEN Kept \o after ELSE before \o Kept
       IN  months' = Places(list, shift) /\ marked' = 1..3
    /\ UNCHANGED <<current, shift, opened, value, swipe, allowClick, disturbed>>

-----------------------------------------------------------------------------
(* What the user does.                                                     *)

\* A button of the toolbar, also while a finger is on the months.
Press ==
    /\ opened
    /\ NextMonth \/ PrevMonth \/ SetYearMonth(current + Year) \/ SetYearMonth(current - Year)
    /\ UNCHANGED <<opened, value, swipe, allowClick>>

\* The days drawn for month m that can be chosen, by their month; addValue.
Days(m) == (m - 1 .. m + 1) \cap (First..Last)
Choose(day) == value' = day

\* A day of a month in sight, which may belong to the one before or after.
DayClick ==
    /\ opened /\ allowClick
    /\ \E i \in DOMAIN months : \E day \in Days(months[i].month) :
           /\ animating \/ months[i].place = -shift
           /\ Choose(day)
           /\ IF day > months[i].month THEN NextMonth
              ELSE IF day < months[i].month THEN PrevMonth ELSE Stay
    /\ UNCHANGED <<opened, swipe, allowClick>>

TouchStart ==
    /\ opened /\ swipe = "no" /\ swipe' = "touched" /\ allowClick' = TRUE
    /\ UNCHANGED <<months, marked, current, shift, animating, onEnd, opened, value, disturbed>>

\* A move across the months lets go, and so does any while they slide.
TouchMove ==
    /\ opened /\ swipe \in {"touched", "moved"}
    /\ \/ swipe = "touched" /\ swipe' = "no" /\ UNCHANGED allowClick
       \/ animating /\ swipe' = (IF swipe = "moved" THEN "left" ELSE "no") /\ UNCHANGED allowClick
       \/ ~animating /\ swipe' = "moved" /\ allowClick' = FALSE
    /\ UNCHANGED <<months, marked, current, shift, animating, onEnd, opened, value, disturbed>>

TouchEnd ==
    /\ opened /\ swipe # "no" /\ swipe' = "no"
    /\ \/ Stay
       \/ swipe = "moved" /\ (NextMonth \/ PrevMonth)
    /\ UNCHANGED <<opened, value, allowClick>>

ClickTimer ==
    /\ ~allowClick /\ allowClick' = TRUE
    /\ UNCHANGED <<months, marked, current, shift, animating, onEnd, opened, value, swipe, disturbed>>

\* What happens to a calendar that was disturbed is not followed further: its
\* months stay in disorder.
Next ==
    /\ ~disturbed
    /\ \/ Open \/ Close \/ MonthChangeEnd \/ Press \/ DayClick
       \/ TouchStart \/ TouchMove \/ TouchEnd \/ ClickTimer

Spec == Init /\ [][Next]_calendarVars /\ WF_calendarVars(MonthChangeEnd)

-----------------------------------------------------------------------------
\* However often the months are slid on in one direction, the month the
\* header names is the one in sight, and at rest its two neighbours lie beside
\* it.  Not so when the calendar is turned back, sent to another year or
\* closed while the months slide.
CalendarShows ==
    opened /\ ~disturbed =>
        /\ At(current, -shift) \in {months[i] : i \in DOMAIN months}
        /\ ~animating => months = Places(<<At(current - 1, 0), At(current, 0), At(current + 1, 0)>>, shift)

\* The limits are looked up for the outermost month, which while the months
\* slide is the current one: one month beyond the limit can be shown, no more.
OneBeyond == ~disturbed => current \in First - 1 .. Last + 1

\* Until then the calendar takes no finger: it comes to rest.
SlideEnds == animating /\ opened ~> ~animating \/ disturbed
=============================================================================
