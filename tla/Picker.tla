------------------------------- MODULE Picker -------------------------------
(***************************************************************************)
(* The picker of Framework7 with two columns, the second of which is       *)
(* filled again by the onChange of the first: wheels turned by a finger,   *)
(* by a click on an item or by the page, and the value the picker gives    *)
(* its input (framework7.js, "Picker").  Places are in half items.         *)
(***************************************************************************)
EXTENDS Integers, Sequences, FiniteSets

CONSTANT Length   \* Length[i]: items of the second column when item i of the first is chosen

PickerAssumption == \E n \in 0 .. Cardinality(DOMAIN Length) : Length \in [0..n -> Nat \ {0}]

VARIABLES
    option,   \* updateValuesOnTouchmove, updateValuesOnMomentum
    turned,   \* where each wheel is
    goal,     \* where its transition leads
    active,   \* col.activeIndex
    chosen,   \* col.value, as an index
    filled,   \* for which item of the first column the second was filled
    result,   \* p.value
    touch,    \* per column: "no", "touched", "moved"
    frames,   \* columns whose items are updated in every animation frame
    open      \* p.opened

pickerVars == <<option, turned, goal, active, chosen, filled, result, touch, frames, open>>

Col == {"first", "second"}
Items == DOMAIN Length

Init ==
    /\ option \in [onTouchmove : BOOLEAN, onMomentum : BOOLEAN]
    /\ turned = [c \in Col |-> 0] /\ goal = turned
    /\ active = [c \in Col |-> 0] /\ chosen = active
    /\ filled = 0 /\ result = <<0, 0, 0>>
    /\ touch = [c \in Col |-> "no"] /\ frames = {} /\ open = TRUE

S == [turned |-> turned, goal |-> goal, active |-> active, chosen |-> chosen,
      filled |-> filled, result |-> result]

Become(s) ==
    /\ turned' = s.turned /\ goal' = s.goal /\ active' = s.active /\ chosen' = s.chosen
    /\ filled' = s.filled /\ result' = s.result /\ UNCHANGED option

LastItem(s, c) == (IF c = "first" THEN Cardinality(Items) ELSE Length[s.filled]) - 1
Least(a, b) == IF a < b THEN a ELSE b

\* updateItems asks for the nearest item, the end of a touch for the next one.
Round(place) == place \div 2
Ceil(place) == (place + 1) \div 2

\* p.updateValue
UpdateValue(s) == [s EXCEPT !.result = <<s.chosen["first"], s.filled, s.chosen["second"]>>]

-----------------------------------------------------------------------------
(* col.updateItems, col.setValue and col.replaceValues.                    *)

UpdateItems(s, c, i, callbacks) ==
    LET index == Least(i, LastItem(s, c))
        seen == [s EXCEPT !.active[c] = index]
        told == [seen EXCEPT !.chosen[c] = index]
    IN  IF ~callbacks THEN seen
        ELSE IF s.active[c] = index THEN told
        ELSE UpdateValue(told)

\* replaceValues: other items, of which the first is chosen.
ReplaceValues(s) ==
    UpdateItems([s EXCEPT !.filled = s.chosen["first"], !.turned["second"] = 0,
                          !.goal["second"] = 0], "second", 0, TRUE)

Changed(t) == UpdateValue(ReplaceValues(t))

\* The onChange of the first column runs before the picker's own value is made.
Update(s, c, i, callbacks) ==
    LET t == UpdateItems(s, c, i, callbacks)
    IN  IF c = "first" /\ callbacks /\ t.active[c] # s.active[c]
        THEN Changed(t) ELSE t

-----------------------------------------------------------------------------
TouchStart(c) ==
    /\ open /\ touch[c] = "no" /\ touch' = [touch EXCEPT ![c] = "touched"]
    /\ Become(S) /\ UNCHANGED <<frames, open>>

\* The wheel follows the finger; its items are updated, and the values too if
\* the option says so.
TouchMove(c) ==
    /\ open /\ touch[c] # "no" /\ touch' = [touch EXCEPT ![c] = "moved"]
    /\ frames' = IF touch[c] = "touched" THEN frames \ {c} ELSE frames
    /\ \E place \in 0 .. 2 * LastItem(S, c) :
           LET s == [S EXCEPT !.turned[c] = place, !.goal[c] = place]
           IN  place # turned[c] /\ Become(Update(s, c, Round(place), option.onTouchmove))
    /\ UNCHANGED open

\* Let go, the wheel turns on to an item, farther if it was quick.
TouchEnd(c) ==
    /\ open /\ touch[c] # "no" /\ touch' = [touch EXCEPT ![c] = "no"]
    /\ IF touch[c] = "touched" THEN Become(S) /\ UNCHANGED frames
       ELSE /\ \E place \in 0 .. 2 * LastItem(S, c) :
                   LET s == [S EXCEPT !.goal[c] = 2 * Ceil(place)]
                   IN  Become(Update(s, c, Ceil(place), TRUE))
            /\ frames' = IF option.onMomentum THEN frames \cup {c} ELSE frames
    /\ UNCHANGED open

\* setValue: a click on an item, or the page.
SetValue(c) ==
    /\ open /\ touch[c] = "no"
    /\ \E i \in 0 .. LastItem(S, c) :
           /\ Become(Update([S EXCEPT !.goal[c] = 2 * i], c, i, TRUE))
           /\ frames' = IF option.onMomentum /\ active[c] \notin {0, i} THEN frames \cup {c}
                        ELSE frames \ {c}
    /\ UNCHANGED <<touch, open>>

\* The end of the transition stops the frames; a wheel that is put elsewhere
\* at once, or back where it is, has no such end, and its frames go on.
Slide(c) ==
    /\ open /\ touch[c] # "moved" /\ turned[c] # goal[c]
    /\ turned' = [turned EXCEPT ![c] = IF goal[c] > @ THEN @ + 1 ELSE @ - 1]
    /\ frames' = IF turned'[c] = goal[c] THEN frames \ {c} ELSE frames
    /\ UNCHANGED <<option, goal, active, chosen, filled, result, touch, open>>

\* updateDuringScroll: the items follow the wheel.
Frame(c) ==
    /\ open /\ c \in frames
    /\ Become(Update(S, c, Round(turned[c]), TRUE))
    /\ UNCHANGED <<touch, frames, open>>

\* resizeCols: every wheel is put on its column's value, without callbacks.
Resize ==
    /\ open
    /\ LET put == [c \in Col |-> 2 * chosen[c]]
       IN  Become([S EXCEPT !.turned = put, !.goal = put, !.active = chosen])
    /\ UNCHANGED <<touch, frames, open>>

Close ==
    /\ open /\ open' = FALSE /\ touch' = [c \in Col |-> "no"] /\ frames' = {}
    /\ Become(S)

\* open lays the columns out again and sets them to the picker's value; the
\* columns still know which item was active.
Open ==
    /\ ~open /\ open' = TRUE
    /\ LET Put(s, c, i) == Update([s EXCEPT !.turned[c] = 2 * i, !.goal[c] = 2 * i], c, i, TRUE)
           s == Put(S, "first", result[1])
       IN  Become(IF s.filled = result[2] THEN Put(s, "second", result[3]) ELSE s)
    /\ UNCHANGED <<touch, frames>>

Next ==
    \/ \E c \in Col : TouchStart(c) \/ TouchMove(c) \/ TouchEnd(c) \/ SetValue(c) \/ Slide(c) \/ Frame(c)
    \/ Resize \/ Close \/ Open

Spec == Init /\ [][Next]_pickerVars

-----------------------------------------------------------------------------
\* The value given to the input is always that of the columns, and the second
\* column is filled for the item chosen in the first, however the two wheels
\* are turned at once - when values follow the finger (the default).
ResultFollows ==
    option.onTouchmove => /\ result = <<chosen["first"], filled, chosen["second"]>>
                          /\ filled = chosen["first"]

\* A wheel that came to rest shows the value of its column.
RestShows ==
    \A c \in Col : open /\ touch[c] # "moved" /\ turned[c] = goal[c] /\ ~option.onMomentum =>
        turned[c] = 2 * chosen[c]
=============================================================================
