--------------------------- MODULE Widgets_proofs ---------------------------
(***************************************************************************)
(* Proofs about the widgets of MCWidgets, for all wheels, calendars,       *)
(* options and devices: what a field shows is what was chosen, a tap is    *)
(* one click, what is open looks so, and what moves comes to rest where    *)
(* the widget counts on it.                                                *)
(***************************************************************************)
EXTENDS MCWidgets, Sequences, FiniteSets, FiniteSetTheorems, SequenceTheorems, WellFoundedInduction, TLAPS

-----------------------------------------------------------------------------
(* The picker.                                                             *)

Wheel == {"first", "second"}
Choices == DOMAIN Length
PickerState ==
    [turned : [Wheel -> Nat], goal : [Wheel -> Nat], active : [Wheel -> Nat],
     chosen : [Wheel -> Nat], filled : Choices, result : Choices \X Choices \X Nat]

\* A state s of the picker whose values follow the finger.
Follows(s) ==
    /\ s.active = s.chosen /\ s.filled = s.chosen["first"]
    /\ s.result = <<s.chosen["first"], s.filled, s.chosen["second"]>>
Sound(s) ==
    /\ s \in PickerState /\ s.chosen["first"] \in Choices
    /\ option.onTouchmove => Follows(s)

PickerInv ==
    /\ option \in [onTouchmove : BOOLEAN, onMomentum : BOOLEAN]
    /\ Sound(Picker!S)

\* Picker counts as this module does.
LEMMA PickerCount == \A us : Picker!Cardinality(us) = Cardinality(us)
BY DEF Picker!Cardinality, Cardinality

LEMMA ChoicesCount ==
    /\ \E n \in Nat : Choices = 0 .. n /\ Cardinality(Choices) = n + 1
    /\ Choices \subseteq Nat /\ 0 \in Choices
    /\ \A i \in Choices : Length[i] \in Nat \ {0}
<1>1. PICK n \in Nat : Length \in [0 .. n -> Nat \ {0}]
  BY AssumptionOfPicker DEF Picker!PickerAssumption
<1>2. Choices = 0 .. n
  BY <1>1 DEF Choices
<1>3. Cardinality(0 .. n) = n + 1
  BY <1>1, FS_Interval
<1> QED BY <1>1, <1>2, <1>3

\* The items of a column are counted from 0 to its last.
LEMMA LastItemIs ==
    ASSUME NEW s \in PickerState, NEW c \in Wheel
    PROVE  /\ Picker!LastItem(s, c) \in Nat
           /\ c = "first" => \A i \in Nat : i <= Picker!LastItem(s, c) => i \in Choices
<1>1. PICK n \in Nat : Choices = 0 .. n /\ Cardinality(Choices) = n + 1
  BY ChoicesCount
<1>2. Picker!Items = Choices
  BY DEF Picker!Items, Choices
<1>3. s.filled \in Choices
  BY DEF PickerState
<1>4. Length[s.filled] - 1 \in Nat
  BY <1>3, ChoicesCount
<1>5. Picker!LastItem(s, "first") = Cardinality(Choices) - 1
  BY <1>2, PickerCount DEF Picker!LastItem
<1>6. Picker!LastItem(s, "second") = Length[s.filled] - 1
  BY DEF Picker!LastItem
<1> QED BY <1>1, <1>4, <1>5, <1>6 DEF Wheel

LEMMA UpdateItemsIs ==
    ASSUME NEW s \in PickerState, NEW c \in Wheel, NEW i \in Nat, NEW callbacks \in BOOLEAN,
           s.chosen["first"] \in Choices
    PROVE  LET u == Picker!UpdateItems(s, c, i, callbacks)
               index == Picker!Least(i, Picker!LastItem(s, c))
           IN  /\ u \in PickerState /\ index \in Nat /\ (c = "first" => index \in Choices)
               /\ u.active = [s.active EXCEPT ![c] = index]
               /\ u.filled = s.filled
               /\ u.chosen = IF callbacks THEN [s.chosen EXCEPT ![c] = index] ELSE s.chosen
               /\ u.result = IF ~callbacks \/ s.active[c] = index THEN s.result
                             ELSE <<u.chosen["first"], u.filled, u.chosen["second"]>>
<1> DEFINE index == Picker!Least(i, Picker!LastItem(s, c))
<1>1. index \in Nat /\ (c = "first" => index \in Choices)
  BY LastItemIs DEF Picker!Least
<1> HIDE DEF index
<1> DEFINE seen == [s EXCEPT !.active[c] = index]
           told == [seen EXCEPT !.chosen[c] = index]
           all == [told EXCEPT !.result = <<told.chosen["first"], told.filled, told.chosen["second"]>>]
<1>2. /\ seen \in PickerState /\ seen.active = [s.active EXCEPT ![c] = index]
      /\ seen.chosen = s.chosen /\ seen.filled = s.filled /\ seen.result = s.result
  BY <1>1 DEF PickerState
<1> HIDE DEF seen
<1>3. /\ told \in PickerState /\ told.active = [s.active EXCEPT ![c] = index]
      /\ told.chosen = [s.chosen EXCEPT ![c] = index]
      /\ told.filled = s.filled /\ told.result = s.result
  BY <1>1, <1>2 DEF PickerState
<1>4. told.chosen["first"] \in Choices /\ told.chosen["second"] \in Nat /\ told.filled \in Choices
  BY <1>1, <1>3 DEF PickerState, Wheel
<1> HIDE DEF told
<1>5. /\ all \in PickerState /\ all.active = told.active /\ all.chosen = told.chosen
      /\ all.filled = told.filled
      /\ all.result = <<told.chosen["first"], told.filled, told.chosen["second"]>>
  BY <1>3, <1>4 DEF PickerState
<1>6. Picker!UpdateItems(s, c, i, callbacks)
        = IF ~callbacks THEN seen ELSE IF s.active[c] = index THEN told ELSE all
  BY DEF Picker!UpdateItems, Picker!UpdateValue, seen, told, index
<1> HIDE DEF all
<1>7. CASE ~callbacks
  BY <1>1, <1>2, <1>6, <1>7 DEF index
<1>8. CASE callbacks /\ s.active[c] = index
  BY <1>1, <1>3, <1>6, <1>8 DEF index
<1>9. CASE callbacks /\ s.active[c] # index
  BY <1>1, <1>3, <1>5, <1>6, <1>9 DEF index
<1> QED BY <1>7, <1>8, <1>9

\* replaceValues and the value after it agree, whatever they are called for.
LEMMA ChangedAgrees ==
    ASSUME NEW s \in PickerState, s.chosen["first"] \in Choices
    PROVE  LET t == Picker!Changed(s)
           IN  /\ t \in PickerState /\ t.chosen["first"] = s.chosen["first"]
               /\ t.active["first"] = s.active["first"]
               /\ t.active["second"] = t.chosen["second"]
               /\ t.filled = t.chosen["first"]
               /\ t.result = <<t.chosen["first"], t.filled, t.chosen["second"]>>
<1> DEFINE r == [s EXCEPT !.filled = s.chosen["first"], !.turned["second"] = 0,
                          !.goal["second"] = 0]
           u == Picker!UpdateItems(r, "second", 0, TRUE)
           index == Picker!Least(0, Picker!LastItem(r, "second"))
<1>1. r \in PickerState /\ r.chosen = s.chosen /\ r.filled = s.chosen["first"] /\ r.active = s.active
  BY DEF PickerState
<1>2. Picker!Changed(s) = [u EXCEPT !.result = <<u.chosen["first"], u.filled, u.chosen["second"]>>]
  BY DEF Picker!Changed, Picker!ReplaceValues, Picker!UpdateValue
<1> HIDE DEF r
<1>3. /\ u \in PickerState /\ index \in Nat
      /\ u.active = [r.active EXCEPT !["second"] = index]
      /\ u.filled = r.filled /\ u.chosen = [r.chosen EXCEPT !["second"] = index]
  BY <1>1, UpdateItemsIs, 0 \in Nat, "second" \in Wheel DEF Wheel
<1> HIDE DEF u, index
<1>4. /\ u.chosen["first"] = s.chosen["first"] /\ u.chosen["second"] = index
      /\ u.active["first"] = s.active["first"] /\ u.active["second"] = index
      /\ u.filled = s.chosen["first"]
  BY <1>1, <1>3 DEF PickerState, Wheel
<1> DEFINE t == [u EXCEPT !.result = <<u.chosen["first"], u.filled, u.chosen["second"]>>]
<1>5. /\ t \in PickerState /\ t.chosen = u.chosen /\ t.active = u.active /\ t.filled = u.filled
      /\ t.result = <<u.chosen["first"], u.filled, u.chosen["second"]>>
  BY <1>3, <1>4 DEF PickerState
<1> HIDE DEF t
<1>6. Picker!Changed(s) = t
  BY <1>2 DEF t
<1> QED BY <1>4, <1>5, <1>6

\* An update leaves a sound state sound, as long as it tells the values when
\* they follow the finger.
LEMMA UpdateSound ==
    ASSUME NEW s, Sound(s), NEW c \in Wheel, NEW i \in Nat, NEW callbacks \in BOOLEAN,
           option.onTouchmove => callbacks
    PROVE  Sound(Picker!Update(s, c, i, callbacks))
<1> DEFINE u == Picker!UpdateItems(s, c, i, callbacks)
           index == Picker!Least(i, Picker!LastItem(s, c))
<1>1. s \in PickerState /\ s.chosen["first"] \in Choices
  BY DEF Sound
<1>2. /\ u \in PickerState /\ index \in Nat /\ (c = "first" => index \in Choices)
      /\ u.active = [s.active EXCEPT ![c] = index]
      /\ u.filled = s.filled
      /\ u.chosen = IF callbacks THEN [s.chosen EXCEPT ![c] = index] ELSE s.chosen
      /\ u.result = IF ~callbacks \/ s.active[c] = index THEN s.result
                    ELSE <<u.chosen["first"], u.filled, u.chosen["second"]>>
  BY <1>1, UpdateItemsIs
<1>3. Picker!Update(s, c, i, callbacks)
        = IF c = "first" /\ callbacks /\ u.active[c] # s.active[c] THEN Picker!Changed(u) ELSE u
  BY DEF Picker!Update
<1> HIDE DEF u, index
<1>4. u.chosen["first"] \in Choices
  BY <1>1, <1>2 DEF PickerState, Wheel
<1>5. /\ s.active \in [Wheel -> Nat] /\ s.chosen \in [Wheel -> Nat]
      /\ u.active \in [Wheel -> Nat] /\ u.chosen \in [Wheel -> Nat]
  BY <1>1, <1>2 DEF PickerState
<1>6. CASE c = "first" /\ callbacks /\ u.active[c] # s.active[c]
  <2> DEFINE t == Picker!Changed(u)
  <2>1. /\ t \in PickerState /\ t.chosen["first"] = u.chosen["first"]
        /\ t.active["first"] = u.active["first"] /\ t.active["second"] = t.chosen["second"]
        /\ t.filled = t.chosen["first"]
        /\ t.result = <<t.chosen["first"], t.filled, t.chosen["second"]>>
    BY <1>2, <1>4, ChangedAgrees
  <2> HIDE DEF t
  <2>2. u.active["first"] = index /\ u.chosen["first"] = index
    BY <1>2, <1>5, <1>6 DEF Wheel
  <2>3. t.active \in [Wheel -> Nat] /\ t.chosen \in [Wheel -> Nat]
    BY <2>1 DEF PickerState
  <2>4. t.active = t.chosen
    BY <2>1, <2>2, <2>3 DEF Wheel
  <2>5. Picker!Update(s, c, i, callbacks) = t
    BY <1>3, <1>6 DEF t
  <2> QED BY <1>4, <2>1, <2>4, <2>5 DEF Sound, Follows
<1>7. CASE ~(c = "first" /\ callbacks /\ u.active[c] # s.active[c])
  <2>1. Picker!Update(s, c, i, callbacks) = u
    BY <1>3, <1>7
  <2>2. ASSUME option.onTouchmove PROVE Follows(u)
    <3>1. callbacks /\ Follows(s)
      BY <2>2 DEF Sound
    <3>2. u.active = u.chosen
      BY <1>2, <3>1 DEF Follows
    <3>3. CASE s.active[c] = index
      <4>1. u.chosen = s.chosen
        BY <1>2, <1>5, <3>1, <3>3 DEF Follows
      <4> QED BY <1>2, <3>1, <3>2, <3>3, <4>1 DEF Follows
    <3>4. CASE s.active[c] # index
      <4>1. c = "second"
        BY <1>2, <1>5, <1>7, <3>1, <3>4 DEF Wheel
      <4>2. u.chosen["first"] = s.chosen["first"]
        BY <1>2, <1>5, <3>1, <4>1 DEF Wheel
      <4> QED BY <1>2, <3>1, <3>2, <3>4, <4>2 DEF Follows
    <3> QED BY <3>3, <3>4
  <2> QED BY <1>2, <1>4, <2>1, <2>2 DEF Sound
<1> QED BY <1>6, <1>7

LEMMA PickerBecomes ==
    ASSUME option \in [onTouchmove : BOOLEAN, onMomentum : BOOLEAN], NEW s, Sound(s), Picker!Become(s)
    PROVE  PickerInv'
<1>1. /\ Picker!S' \in PickerState /\ Picker!S'.active = s.active /\ Picker!S'.chosen = s.chosen
      /\ Picker!S'.filled = s.filled /\ Picker!S'.result = s.result /\ option' = option
  BY DEF Picker!Become, Picker!S, Sound, PickerState
<1>2. Sound(Picker!S)'
  BY <1>1 DEF Sound, Follows
<1> QED BY <1>1, <1>2 DEF PickerInv

\* Where a wheel stands, and where it goes, is not its value.
LEMMA TurnedSound ==
    ASSUME NEW s, Sound(s), NEW c \in Wheel, NEW spot \in Nat, NEW way \in Nat
    PROVE  /\ Sound([s EXCEPT !.turned[c] = spot, !.goal[c] = way])
           /\ Sound([s EXCEPT !.goal[c] = way])
<1>1. s \in PickerState
  BY DEF Sound
<1> DEFINE t == [s EXCEPT !.turned[c] = spot, !.goal[c] = way]
           u == [s EXCEPT !.goal[c] = way]
<1>2. /\ t \in PickerState /\ t.active = s.active /\ t.chosen = s.chosen
      /\ t.filled = s.filled /\ t.result = s.result
  BY <1>1 DEF PickerState
<1>3. /\ u \in PickerState /\ u.active = s.active /\ u.chosen = s.chosen
      /\ u.filled = s.filled /\ u.result = s.result
  BY <1>1 DEF PickerState
<1> HIDE DEF t, u
<1>4. Sound(t) /\ Sound(u)
  BY <1>2, <1>3 DEF Sound, Follows
<1> QED BY <1>4 DEF t, u

LEMMA Halves ==
    ASSUME NEW n \in Nat
    PROVE  Picker!Round(n) \in Nat /\ Picker!Ceil(n) \in Nat /\ 2 * Picker!Ceil(n) \in Nat
BY DEF Picker!Round, Picker!Ceil

LEMMA PickerInit == Picker!Init => PickerInv
<1> SUFFICES ASSUME Picker!Init PROVE PickerInv
  OBVIOUS
<1>1. /\ Picker!S \in PickerState /\ Picker!S.chosen["first"] = 0 /\ Picker!S.active = Picker!S.chosen
      /\ Picker!S.filled = 0 /\ Picker!S.result = <<0, 0, 0>> /\ Picker!S.chosen["second"] = 0
  BY ChoicesCount DEF Picker!Init, Picker!S, Picker!Col, Wheel, PickerState
<1> QED BY <1>1, ChoicesCount DEF PickerInv, Sound, Follows, Picker!Init

LEMMA PickerNext ==
    ASSUME PickerInv, Picker!Next
    PROVE  PickerInv'
<1> DEFINE S == Picker!S
<1>1. /\ Sound(S) /\ S \in PickerState /\ S.chosen["first"] \in Choices
      /\ S.turned = turned /\ S.goal = goal /\ S.active = pickerActive /\ S.chosen = pickerChosen
      /\ S.result = result /\ S.filled = filled
      /\ option \in [onTouchmove : BOOLEAN, onMomentum : BOOLEAN]
  BY DEF PickerInv, Sound, Picker!S
<1>2. Picker!Col = Wheel
  BY DEF Picker!Col, Wheel
<1> HIDE DEF S
<1>3. ASSUME NEW s, Sound(s), NEW c \in Wheel, NEW i \in Nat, NEW callbacks \in BOOLEAN,
              option.onTouchmove => callbacks, Picker!Become(Picker!Update(s, c, i, callbacks))
      PROVE  PickerInv'
  BY <1>1, <1>3, UpdateSound, PickerBecomes
<1>4. CASE Picker!Become(S)
  BY <1>1, <1>4, PickerBecomes
<1>5. ASSUME NEW c \in Wheel, Picker!TouchMove(c) PROVE PickerInv'
  <2>1. PICK spot \in 0 .. 2 * Picker!LastItem(S, c) :
          LET s == [S EXCEPT !.turned[c] = spot, !.goal[c] = spot]
          IN  Picker!Become(Picker!Update(s, c, Picker!Round(spot), option.onTouchmove))
    BY <1>5 DEF Picker!TouchMove, S
  <2>2. spot \in Nat
    BY <1>1, LastItemIs
  <2>3. Sound([S EXCEPT !.turned[c] = spot, !.goal[c] = spot])
    BY <1>1, <2>2, TurnedSound
  <2>4. option.onTouchmove \in BOOLEAN
    BY <1>1
  <2> QED BY <1>3, <2>1, <2>2, <2>3, <2>4, Halves
<1>6. ASSUME NEW c \in Wheel, Picker!TouchEnd(c) PROVE PickerInv'
  <2>1. SUFFICES ASSUME ~ Picker!Become(S) PROVE PickerInv'
    BY <1>4
  <2>2. PICK spot \in 0 .. 2 * Picker!LastItem(S, c) :
          LET s == [S EXCEPT !.goal[c] = 2 * Picker!Ceil(spot)]
          IN  Picker!Become(Picker!Update(s, c, Picker!Ceil(spot), TRUE))
    BY <1>6, <2>1 DEF Picker!TouchEnd, S
  <2>3. spot \in Nat
    BY <1>1, LastItemIs
  <2>4. Sound([S EXCEPT !.goal[c] = 2 * Picker!Ceil(spot)])
    BY <1>1, <2>3, TurnedSound, Halves
  <2> QED BY <1>3, <2>2, <2>3, <2>4, Halves
<1>7. ASSUME NEW c \in Wheel, Picker!SetValue(c) PROVE PickerInv'
  <2>1. PICK i \in 0 .. Picker!LastItem(S, c) :
          Picker!Become(Picker!Update([S EXCEPT !.goal[c] = 2 * i], c, i, TRUE))
    BY <1>7 DEF Picker!SetValue, S
  <2>2. i \in Nat /\ 2 * i \in Nat
    BY <1>1, LastItemIs
  <2>3. Sound([S EXCEPT !.goal[c] = 2 * i])
    BY <1>1, <2>2, TurnedSound
  <2> QED BY <1>3, <2>1, <2>2, <2>3
<1>8. ASSUME NEW c \in Wheel, Picker!Slide(c) PROVE PickerInv'
  <2>1. turned \in [Wheel -> Nat] /\ goal \in [Wheel -> Nat]
    BY <1>1 DEF PickerState
  <2>2. turned[c] # goal[c]
        /\ turned' = [turned EXCEPT ![c] = IF goal[c] > @ THEN @ + 1 ELSE @ - 1]
    BY <1>8 DEF Picker!Slide
  <2>3. turned' \in [Wheel -> Nat]
    BY <2>1, <2>2
  <2>4. UNCHANGED <<option, goal, pickerActive, pickerChosen, filled, result>>
    BY <1>8 DEF Picker!Slide
  <2>5. /\ Picker!S' \in PickerState /\ Picker!S'.active = S.active /\ Picker!S'.chosen = S.chosen
        /\ Picker!S'.filled = S.filled /\ Picker!S'.result = S.result
    BY <1>1, <2>3, <2>4 DEF Picker!S, PickerState
  <2>6. Sound(Picker!S)'
    BY <1>1, <2>4, <2>5 DEF Sound, Follows
  <2> QED BY <1>1, <2>4, <2>6 DEF PickerInv
<1>9. ASSUME NEW c \in Wheel, Picker!Frame(c) PROVE PickerInv'
  <2>1. turned[c] \in Nat
    BY <1>1 DEF PickerState
  <2> QED BY <1>1, <1>3, <1>9, <2>1, Halves DEF Picker!Frame, S
<1>10. CASE Picker!Resize
  <2> DEFINE put == [c \in Wheel |-> 2 * pickerChosen[c]]
             s == [S EXCEPT !.turned = put, !.goal = put, !.active = pickerChosen]
  <2>1. pickerChosen \in [Wheel -> Nat]
    BY <1>1 DEF PickerState
  <2>2. put \in [Wheel -> Nat]
    BY <2>1
  <2>3. Picker!Become(s)
    BY <1>2, <1>10 DEF Picker!Resize, S
  <2> HIDE DEF put
  <2>4. /\ s \in PickerState /\ s.active = S.chosen /\ s.chosen = S.chosen
        /\ s.filled = S.filled /\ s.result = S.result
    BY <1>1, <2>1, <2>2 DEF PickerState
  <2> HIDE DEF s
  <2>5. Sound(s)
    BY <1>1, <2>4 DEF Sound, Follows
  <2> QED BY <1>1, <2>3, <2>5, PickerBecomes
<1>11. CASE Picker!Open
  <2> DEFINE Put(s, c, i) ==
               Picker!Update([s EXCEPT !.turned[c] = 2 * i, !.goal[c] = 2 * i], c, i, TRUE)
             s == Put(S, "first", result[1])
  <2>1. result[1] \in Nat /\ result[3] \in Nat /\ 2 * result[1] \in Nat /\ 2 * result[3] \in Nat
    BY <1>1, ChoicesCount DEF PickerState
  <2>2. ASSUME NEW t, Sound(t), NEW c \in Wheel, NEW i \in Nat PROVE Sound(Put(t, c, i))
    <3>1. 2 * i \in Nat
      OBVIOUS
    <3> QED BY <2>2, <3>1, TurnedSound, UpdateSound
  <2>3. Picker!Become(IF s.filled = result[2] THEN Put(s, "second", result[3]) ELSE s)
    BY <1>11 DEF Picker!Open, S
  <2> HIDE DEF Put
  <2>4. Sound(s)
    BY <1>1, <2>1, <2>2 DEF Wheel
  <2> HIDE DEF s
  <2>5. Sound(Put(s, "second", result[3]))
    BY <2>1, <2>2, <2>4 DEF Wheel
  <2> QED BY <1>1, <2>3, <2>4, <2>5, PickerBecomes
<1>12. CASE Picker!Close
  BY <1>4, <1>12 DEF Picker!Close, S
<1>13. ASSUME NEW c \in Wheel, Picker!TouchStart(c) PROVE PickerInv'
  BY <1>4, <1>13 DEF Picker!TouchStart, S
<1> QED
  BY <1>2, <1>5, <1>6, <1>7, <1>8, <1>9, <1>10, <1>11, <1>12, <1>13 DEF Picker!Next

-----------------------------------------------------------------------------
(* The date picker.                                                        *)

Date == Int \cup {NULL}
DateState ==
    [date : Date, view : Int, ref : SUBSET {"chosen", "default"}, focus : Date, same : BOOLEAN,
     default : Int, shared : BOOLEAN, input : Date, typed : BOOLEAN, mode : Int,
     place : {"hidden", "shown", "aside"}, shifted : BOOLEAN]

\* The date of a state s of the date picker is in the input.
Shows(s) == s \in DateState /\ (s.typed \/ s.shifted \/ s.input = s.date)

DatepickerInv == Shows(Datepicker!S) /\ datepickerO \in [autoclose : BOOLEAN, linked : BOOLEAN]

LEMMA DatesAre ==
    /\ First \in Int /\ Last \in Int /\ Today \in Int /\ DefaultView \in Int /\ NULL \notin Int
    /\ Week \in Int /\ MonthOf \in Seq(Int)
BY AssumptionOfDates DEF Datepicker!DatesAssumption

\* The calendar has days for every month that is asked for.
LEMMA OnIsDate ==
    ASSUME NEW m, NEW day \in Int
    PROVE  Datepicker!On(m, day) \in Int /\ Datepicker!Before(m) \in Nat
<1>1. \A us : Datepicker!Cardinality(us) = Cardinality(us)
  BY DEF Datepicker!Cardinality, Cardinality
<1>2. IsFiniteSet(Datepicker!Dates)
  <2>1. Datepicker!Dates = 1 .. Len(MonthOf) /\ Len(MonthOf) \in Nat
    BY DatesAre DEF Datepicker!Dates
  <2> QED BY <2>1, FS_Interval
<1>3. ASSUME NEW n PROVE Datepicker!Before(n) \in Nat
  <2> DEFINE B == {d \in Datepicker!Dates : MonthOf[d] < n}
  <2>1. IsFiniteSet(B)
    BY <1>2, FS_Subset
  <2>2. Cardinality(B) \in Nat
    BY <2>1, FS_CardinalityType
  <2> QED BY <1>1, <2>2 DEF Datepicker!Before
<1>4. Datepicker!Before(m) \in Nat /\ Datepicker!Before(m + 1) \in Nat
  BY <1>3
<1> QED BY <1>4 DEF Datepicker!On

LEMMA MoveIsDate ==
    ASSUME NEW d \in Int, NEW n
    PROVE  /\ Datepicker!MoveMonth(d, n) \in Date
           /\ Datepicker!MoveYear(d, n) \in Date
<1>1. ASSUME NEW k PROVE Datepicker!MoveMonth(d, k) \in Date
  <2>1. d - Datepicker!Before(MonthOf[d]) \in Int
    BY OnIsDate
  <2> QED BY <2>1, OnIsDate DEF Datepicker!MoveMonth, Date
<1> QED BY <1>1 DEF Datepicker!MoveYear

LEMMA SetValueShows ==
    ASSUME NEW s \in DateState PROVE Shows(Datepicker!SetValue(s))
<1> DEFINE t == Datepicker!SetValue(s)
<1>1. t \in DateState /\ t.input = s.date /\ t.date = s.date
  BY DEF Datepicker!SetValue, DateState
<1> QED BY <1>1 DEF Shows

LEMMA ViewsShows ==
    ASSUME NEW s \in DateState, NEW d \in Int, NEW r \in SUBSET {"chosen", "default"}
    PROVE  LET t == Datepicker!Views(s, d, r)
           IN  t \in DateState /\ t.date = s.date /\ t.input = s.input /\ t.typed = s.typed /\ (Shows(s) => Shows(t))
<1> DEFINE t == Datepicker!Views(s, d, r)
<1>1. /\ t \in DateState /\ t.input = s.input /\ t.date = s.date /\ t.shifted = s.shifted
      /\ t.typed = s.typed
  BY DEF Datepicker!Views, DateState
<1> HIDE DEF t
<1>2. Shows(s) => Shows(t)
  BY <1>1 DEF Shows
<1> QED BY <1>1, <1>2 DEF t

\* What a text or an argument stands for is chosen if it is in range, else nothing.
LEMMA UpdateChooses ==
    ASSUME NEW s \in DateState, NEW d \in Date
    PROVE  LET t == Datepicker!Update(s, d)
           IN  /\ t \in DateState /\ t.input = s.input /\ t.typed = s.typed
               /\ d = NULL => t.date = NULL
<1> DEFINE chosen == IF d # NULL /\ Datepicker!InRange(d) THEN d ELSE NULL
           s1 == [s EXCEPT !.date = chosen, !.shared = FALSE]
           t == Datepicker!Update(s, d)
<1>1. chosen \in Date /\ (d = NULL => chosen = NULL)
  BY DEF Date
<1>3. t = CASE s1.date # NULL -> Datepicker!Views(s1, s1.date, {})
            [] s1.date = NULL /\ s.view < First -> Datepicker!Views(s1, First, {})
            [] s1.date = NULL /\ s.view > Last -> Datepicker!Views(s1, Last, {})
            [] OTHER -> Datepicker!Views(s1, s.default, {"default"})
  BY DEF Datepicker!Update
<1> HIDE DEF chosen
<1>4. s1 \in DateState /\ s1.input = s.input /\ s1.typed = s.typed /\ s1.date = chosen
  BY <1>1 DEF DateState
<1> HIDE DEF s1, t
<1>6. \E v \in Int, r \in SUBSET {"chosen", "default"} : t = Datepicker!Views(s1, v, r)
  <2>1. s.default \in Int /\ (s1.date # NULL => s1.date \in Int)
    BY <1>4 DEF DateState, Date
  <2> DEFINE R == SUBSET {"chosen", "default"}
  <2>2. {} \in R /\ {"default"} \in R
    OBVIOUS
  <2> HIDE DEF R
  <2>3. \E v \in Int, r \in R : t = Datepicker!Views(s1, v, r)
    BY <1>3, <2>1, <2>2, DatesAre
  <2> QED BY <2>3 DEF R
<1>7. t \in DateState /\ t.input = s1.input /\ t.typed = s1.typed /\ t.date = s1.date
  BY <1>4, <1>6, ViewsShows
<1>8. t \in DateState /\ t.input = s.input /\ t.typed = s.typed /\ (d = NULL => t.date = NULL)
  BY <1>1, <1>4, <1>7
<1> QED BY <1>8 DEF t

LEMMA ChosenIs ==
    ASSUME NEW s \in DateState, NEW d \in Int, NEW b \in BOOLEAN
    PROVE  Datepicker!Chosen(s, d, b) \in DateState
<1>1. d \in Date
  BY DEF Date
<1>2. Datepicker!Chosen(s, d, b) = IF d = s.date THEN s ELSE [s EXCEPT !.date = d, !.shared = b]
  BY DEF Datepicker!Chosen
<1> QED BY <1>1, <1>2 DEF DateState

\* To hide the picker puts the date into the input, if there was a text.
LEMMA HiddenShows ==
    ASSUME NEW s, Shows(s)
    PROVE  Shows(Datepicker!Hidden(s)) /\ Shows(Datepicker!AutoHidden(s))
<1> DEFINE s1 == [s EXCEPT !.focus = NULL, !.same = FALSE, !.place = "hidden", !.mode = 0]
<1>1. s \in DateState
  BY DEF Shows
<1>2. NULL \in Date /\ 0 \in Int
  BY DEF Date
<1>3. /\ s1 \in DateState /\ s1.date = s.date /\ s1.input = s.input /\ s1.typed = s.typed
      /\ s1.shifted = s.shifted
  BY <1>1, <1>2 DEF DateState
<1>4. Datepicker!Hidden(s) = IF s.place # "shown" THEN s
                             ELSE IF s.input # NULL \/ s.typed THEN Datepicker!SetValue(s1) ELSE s1
  BY DEF Datepicker!Hidden
<1> HIDE DEF s1
<1>5. Shows(s1)
  BY <1>3 DEF Shows
<1>6. Shows(Datepicker!Hidden(s))
  BY <1>3, <1>4, <1>5, SetValueShows
<1> QED BY <1>6 DEF Datepicker!AutoHidden

LEMMA ShowModeShows ==
    ASSUME NEW s, Shows(s), NEW way \in Int
    PROVE  Shows(Datepicker!ShowMode(s, way))
<1> DEFINE m == IF s.mode + way < 0 THEN 0 ELSE IF s.mode + way > 2 THEN 2 ELSE s.mode + way
           t == [s EXCEPT !.mode = m]
<1>1. m \in Int /\ s \in DateState
  BY DEF DateState, Shows
<1>2. Datepicker!ShowMode(s, way) = t
  BY DEF Datepicker!ShowMode
<1> HIDE DEF m
<1>3. /\ t \in DateState /\ t.date = s.date /\ t.shifted = s.shifted /\ t.input = s.input
      /\ t.typed = s.typed
  BY <1>1 DEF DateState
<1> HIDE DEF t
<1> QED BY <1>2, <1>3 DEF Shows

LEMMA ToChosenShows ==
    ASSUME NEW s \in DateState
    PROVE  LET t == Datepicker!ToChosen(s) IN t \in DateState /\ (Shows(s) => Shows(t))
<1> DEFINE s1 == [s EXCEPT !.focus = NULL, !.same = FALSE]
           r == {"chosen"} \cup IF s.shared THEN {"default"} ELSE {}
           t == IF s.date = NULL THEN s1 ELSE Datepicker!Views(s1, s.date, r)
<1>1. Datepicker!ToChosen(s) = t
  BY DEF Datepicker!ToChosen
<1>2. /\ s1 \in DateState /\ s1.date = s.date /\ s1.shifted = s.shifted /\ s1.input = s.input
      /\ s1.typed = s.typed
  BY DEF DateState, Date
<1>3. r \in SUBSET {"chosen", "default"}
  OBVIOUS
<1> HIDE DEF s1, r
<1>4. Shows(s) => Shows(s1)
  BY <1>2 DEF Shows
<1>5. t \in DateState /\ (Shows(s1) => Shows(t))
  <2>1. CASE s.date = NULL
    BY <1>2, <2>1
  <2>2. CASE s.date # NULL
    <3>1. s.date \in Int
      BY <2>2 DEF DateState, Date
    <3> QED BY <1>2, <1>3, <2>2, <3>1, ViewsShows
  <2> QED BY <2>1, <2>2
<1> HIDE DEF t
<1> QED BY <1>1, <1>4, <1>5

\* The one in view is changed: that is the chosen one only when keys made it so.
LEMMA MutatedShows ==
    ASSUME NEW s, Shows(s), NEW d \in Int
    PROVE  Shows(Datepicker!Mutated(s, d))
<1> DEFINE f == IF s.same THEN d ELSE s.focus
           b == IF "default" \in s.ref THEN d ELSE s.default
           c == IF "chosen" \in s.ref THEN d ELSE s.date
           g == s.shifted \/ "chosen" \in s.ref
           t == [s EXCEPT !.view = d, !.focus = f, !.default = b, !.date = c, !.shifted = g]
<1>1. s \in DateState
  BY DEF Shows
<1>2. f \in Date /\ b \in Int /\ c \in Date
  BY <1>1 DEF DateState, Date
<1>3. Datepicker!Mutated(s, d) = t
  BY DEF Datepicker!Mutated
<1>4. PICK h \in BOOLEAN : h = g
  <2>1. s.shifted \in BOOLEAN
    BY <1>1 DEF DateState
  <2> QED BY <2>1, Zenon
<1>5. t = [s EXCEPT !.view = d, !.focus = f, !.default = b, !.date = c, !.shifted = h]
  BY <1>4, Zenon
<1>6. ~h => c = s.date /\ ~s.shifted
  BY <1>4
<1> HIDE DEF f, b, c, g, t
<1>7. /\ t \in DateState /\ t.date = c /\ t.shifted = h /\ t.input = s.input /\ t.typed = s.typed
  BY <1>1, <1>2, <1>5 DEF DateState
<1>8. Shows(t)
  BY <1>6, <1>7 DEF Shows
<1> QED BY <1>3, <1>8

LEMMA SetDateShows ==
    ASSUME NEW s \in DateState, NEW d \in Int
    PROVE  Shows(Datepicker!SetDate(s, d))
<1> DEFINE c == Datepicker!Chosen(s, d, FALSE)
           v == Datepicker!Views(c, d, {})
<1>1. c \in DateState
  BY ChosenIs
<1> HIDE DEF c
<1>3. v \in DateState
  BY <1>1, ViewsShows
<1> HIDE DEF v
<1>4. Shows(Datepicker!AutoHidden(Datepicker!SetValue(v)))
  BY <1>3, SetValueShows, HiddenShows
<1> QED BY <1>4 DEF Datepicker!SetDate, c, v

LEMMA DatepickerInit == Datepicker!Init => DatepickerInv
<1> SUFFICES ASSUME Datepicker!Init PROVE DatepickerInv
  OBVIOUS
<1>1. /\ date = NULL /\ default = DefaultView /\ view = DefaultView /\ ref = {"default"}
      /\ datepickerFocus = NULL /\ same = FALSE /\ shared = FALSE /\ input = NULL /\ typed = FALSE
      /\ mode = 0 /\ place = "hidden" /\ shifted = FALSE
  BY Zenon DEF Datepicker!Init
<1>2. /\ date \in Date /\ default \in Int /\ view \in Int /\ datepickerFocus \in Date
      /\ input \in Date /\ mode \in Int
  BY <1>1, DatesAre DEF Date
<1>3. same \in BOOLEAN /\ shared \in BOOLEAN /\ typed \in BOOLEAN /\ shifted \in BOOLEAN
  BY <1>1, Zenon
<1>4. /\ Datepicker!S \in DateState /\ Datepicker!S.date = NULL /\ Datepicker!S.input = NULL
  BY <1>1, <1>2, <1>3 DEF Datepicker!S, DateState
<1> QED BY <1>4 DEF DatepickerInv, Shows, Datepicker!Init

LEMMA DatepickerBecomes ==
    ASSUME datepickerO \in [autoclose : BOOLEAN, linked : BOOLEAN],
           NEW s, Shows(s), Datepicker!Become(s)
    PROVE  DatepickerInv'
<1>1. /\ Datepicker!S' \in DateState /\ Datepicker!S'.date = s.date
      /\ Datepicker!S'.input = s.input /\ (Datepicker!S'.typed <=> s.typed)
      /\ (Datepicker!S'.shifted <=> s.shifted) /\ datepickerO' = datepickerO
  BY DEF Datepicker!Become, Datepicker!S, Shows, DateState
<1> QED BY <1>1 DEF DatepickerInv, Shows

LEMMA DatepickerNext ==
    ASSUME DatepickerInv, Datepicker!Next
    PROVE  DatepickerInv'
<1> DEFINE S == Datepicker!S
<1>1. /\ Shows(S) /\ S \in DateState /\ datepickerO \in [autoclose : BOOLEAN, linked : BOOLEAN]
      /\ S.date = date /\ S.view = view /\ S.focus = datepickerFocus
      /\ view \in Int /\ datepickerFocus \in Date /\ date \in Date
  BY DEF DatepickerInv, Shows, Datepicker!S, DateState
<1>2. \A d \in Datepicker!Dates : d \in Int
  BY DatesAre DEF Datepicker!Dates
<1>0. {} \in SUBSET {"chosen", "default"}
  OBVIOUS
<1> HIDE DEF S
<1>3. ASSUME NEW s, Shows(s), Datepicker!Become(s) PROVE DatepickerInv'
  BY <1>1, <1>3, DatepickerBecomes
<1>4. CASE Datepicker!Show \/ Datepicker!ClickOutside
  <2>1. \A w \in {"shown", "aside"} : Shows([S EXCEPT !.place = w])
    <3> TAKE w \in {"shown", "aside"}
    <3> DEFINE t == [S EXCEPT !.place = w]
    <3>1. /\ t \in DateState /\ t.date = S.date /\ t.input = S.input /\ t.typed = S.typed
          /\ t.shifted = S.shifted
      BY <1>1 DEF DateState
    <3> HIDE DEF t
    <3>2. Shows(t)
      BY <1>1, <3>1 DEF Shows
    <3> QED BY <3>2 DEF t
  <2>2. \E w \in {"shown", "aside"} : Datepicker!Become([S EXCEPT !.place = w])
    BY <1>4 DEF Datepicker!Show, Datepicker!ClickOutside, S
  <2> QED BY <1>3, <2>1, <2>2
<1>5. CASE Datepicker!Hide
  BY <1>1, <1>3, <1>5, HiddenShows DEF Datepicker!Hide, S
<1>6. ASSUME NEW d \in Date, Datepicker!Type(d) PROVE DatepickerInv'
  <2> DEFINE s == [S EXCEPT !.input = d, !.typed = TRUE]
             t == Datepicker!Update(s, d)
  <2>1. s \in DateState /\ s.typed
    BY <1>1 DEF DateState
  <2>2. Datepicker!Become(t)
    BY <1>6 DEF Datepicker!Type, S
  <2> HIDE DEF s
  <2>3. t \in DateState /\ t.typed
    BY <2>1, UpdateChooses
  <2> HIDE DEF t
  <2> QED BY <1>3, <2>2, <2>3 DEF Shows
<1>7. ASSUME NEW d \in Date, Datepicker!SetDates(d) PROVE DatepickerInv'
  <2>1. Datepicker!Update(S, d) \in DateState
    BY <1>1, UpdateChooses
  <2> QED BY <1>3, <1>7, <2>1, SetValueShows DEF Datepicker!SetDates, S
<1>8. ASSUME NEW d, Datepicker!PickDay(d), d \in Datepicker!Days PROVE DatepickerInv'
  <2>1. d \in Int
    BY <1>2, <1>8 DEF Datepicker!Days
  <2> QED BY <1>1, <1>3, <1>8, <2>1, SetDateShows DEF Datepicker!PickDay, Datepicker!Clicks, S
<1>9. CASE Datepicker!PickToday
  <2> DEFINE m == Datepicker!ShowMode(S, -2)
  <2>1. m \in DateState
    BY <1>1, ShowModeShows, -2 \in Int DEF Shows
  <2>2. Datepicker!Become(IF datepickerO.linked THEN Datepicker!SetDate(m, Today)
                          ELSE Datepicker!SetView(m, Today))
    BY <1>9 DEF Datepicker!PickToday, Datepicker!Clicks, S
  <2> HIDE DEF m
  <2>5. Shows(Datepicker!SetDate(m, Today))
    BY <2>1, DatesAre, SetDateShows
  <2>6. Shows(Datepicker!SetView(m, Today))
    <3>1. Datepicker!Views(m, Today, {}) \in DateState
      BY <1>0, <2>1, DatesAre, ViewsShows
    <3> QED BY <3>1, SetValueShows DEF Datepicker!SetView
  <2> QED BY <1>3, <2>2, <2>5, <2>6
<1>10. CASE Datepicker!Clear
  <2> DEFINE s == [S EXCEPT !.input = NULL, !.typed = FALSE]
             t == Datepicker!Update(s, NULL)
  <2>1. s \in DateState /\ s.input = NULL
    BY <1>1 DEF DateState, Date
  <2>2. Datepicker!Become(Datepicker!AutoHidden(t))
    BY <1>10 DEF Datepicker!Clear, Datepicker!Clicks, S
  <2> HIDE DEF s
  <2>3. t \in DateState /\ t.date = NULL /\ t.input = NULL
    BY <2>1, UpdateChooses DEF Date
  <2> HIDE DEF t
  <2>4. Shows(t)
    BY <2>3 DEF Shows
  <2> QED BY <1>3, <2>2, <2>4, HiddenShows
<1>11. CASE Datepicker!Tab
  BY <1>1, <1>3, <1>11, ToChosenShows, HiddenShows DEF Datepicker!Tab, Datepicker!Keys, S
<1>12. CASE Datepicker!Escape
  BY <1>1, <1>3, <1>12, ToChosenShows, HiddenShows DEF Datepicker!Escape, Datepicker!Keys, S
<1>13. CASE Datepicker!Enter
  <2> DEFINE d == IF datepickerFocus # NULL THEN datepickerFocus ELSE IF date # NULL THEN date ELSE view
             b == datepickerFocus = NULL /\ "default" \in ref
             c == Datepicker!Chosen(S, d, b)
             t == Datepicker!ToChosen(c)
  <2>1. d \in Int /\ b \in BOOLEAN
    BY <1>1 DEF Date
  <2>2. Datepicker!Become(Datepicker!Entered(c))
    BY <1>13 DEF Datepicker!Enter, Datepicker!Keys, S
  <2> HIDE DEF d, b
  <2>3. c \in DateState
    BY <1>1, <2>1, ChosenIs
  <2> HIDE DEF c
  <2>4. t \in DateState
    BY <2>3, ToChosenShows
  <2> HIDE DEF t
  <2>5. Shows(Datepicker!AutoHidden(Datepicker!SetValue(t)))
    BY <2>4, SetValueShows, HiddenShows
  <2>6. Shows(Datepicker!Entered(c))
    BY <2>5 DEF Datepicker!Entered, t
  <2> QED BY <1>3, <2>2, <2>6
<1>14. ASSUME NEW way \in {-1, 1}, Datepicker!Nav(way) PROVE DatepickerInv'
  <2> DEFINE d == IF mode = 0 THEN Datepicker!MoveMonth(view, way) ELSE Datepicker!MoveYear(view, way)
  <2>1. d \in Date
    BY <1>1, MoveIsDate
  <2>2. d # NULL /\ Datepicker!Become(Datepicker!Views(S, d, {}))
    BY <1>14 DEF Datepicker!Nav, Datepicker!Clicks, S
  <2> HIDE DEF d
  <2>3. d \in Int
    BY <2>1, <2>2 DEF Date
  <2> QED BY <1>0, <1>1, <1>3, <2>2, <2>3, ViewsShows
<1>15. CASE Datepicker!Switch
  BY <1>1, <1>3, <1>15, ShowModeShows DEF Datepicker!Switch, Datepicker!Clicks, S
<1>16. ASSUME NEW m, Datepicker!Become(Datepicker!ShowMode(Datepicker!Mutated(S, Datepicker!On(m, 1)), -1))
       PROVE  DatepickerInv'
  <2>1. Datepicker!On(m, 1) \in Int
    BY OnIsDate
  <2>2. Shows(Datepicker!Mutated(S, Datepicker!On(m, 1)))
    BY <1>1, <2>1, MutatedShows
  <2> QED BY <1>3, <1>16, <2>2, ShowModeShows, -1 \in Int
<1>17. ASSUME NEW m, Datepicker!PickMonth(m) PROVE DatepickerInv'
  BY <1>16, <1>17 DEF Datepicker!PickMonth, Datepicker!Clicks, S
<1>18. ASSUME NEW y, Datepicker!PickYear(y) PROVE DatepickerInv'
  BY <1>16, <1>18 DEF Datepicker!PickYear, Datepicker!Clicks, S
<1>19. ASSUME NEW d, Datepicker!Arrow(d) PROVE DatepickerInv'
  <2> DEFINE v == Datepicker!Views(S, d, {})
             f == [v EXCEPT !.focus = d, !.same = TRUE]
  <2>1. d \in Int /\ d \in Date
    BY <1>2, <1>19 DEF Datepicker!Arrow, Date
  <2>2. Datepicker!Become(Datepicker!SetValue(f))
    BY <1>19 DEF Datepicker!Arrow, Datepicker!Keys, S
  <2>3. v \in DateState
    BY <1>0, <1>1, <2>1, ViewsShows
  <2> HIDE DEF v
  <2>4. f \in DateState
    BY <2>1, <2>3 DEF DateState
  <2> HIDE DEF f
  <2> QED BY <1>3, <2>2, <2>4, SetValueShows
<1>20. CASE Datepicker!Arrows
  BY <1>19, <1>20 DEF Datepicker!Arrows
<1>22. ASSUME NEW d \in Datepicker!Dates \cup {NULL} PROVE d \in Date
  BY <1>2 DEF Date
<1> QED
  BY <1>4, <1>5, <1>6, <1>7, <1>8, <1>9, <1>10, <1>11, <1>12, <1>13, <1>14, <1>15, <1>17, <1>18, <1>20, <1>22
     DEF Datepicker!Next

-----------------------------------------------------------------------------
(* The smart select.                                                       *)

All == Option \cup Later

SelectTyped ==
    /\ smart \in [multiple : BOOLEAN, popup : BOOLEAN, back : BOOLEAN, valued : BOOLEAN]
    /\ options \in SUBSET All /\ selectChosen \in SUBSET All /\ text \in SUBSET All
    /\ selectOpen \in SmartSelect!Lists \cup {NULL} /\ apart \in BOOLEAN /\ stale \in BOOLEAN

SelectInv ==
    /\ SelectTyped
    /\ text \subseteq options /\ selectChosen \subseteq options
    /\ selectOpen # NULL => selectOpen.listed \cap Unselectable = {} /\ selectOpen.listed \subseteq options
    /\ SmartSelect!SelectAgrees /\ SmartSelect!ListComplete

LEMMA NoList ==
    /\ NULL \notin SmartSelect!Lists
    /\ SmartSelect!Lists = [listed : SUBSET All, checked : SUBSET All, leaving : BOOLEAN]
BY AssumptionOfSelect DEF SmartSelect!SelectAssumption, SmartSelect!Lists, All

LEMMA SelectInit == SmartSelect!Init => SelectInv
<1> SUFFICES ASSUME SmartSelect!Init PROVE SelectInv
  OBVIOUS
<1>1. /\ smart \in [multiple : BOOLEAN, popup : BOOLEAN, back : BOOLEAN, valued : BOOLEAN]
      /\ options = Option /\ selectChosen \in SUBSET Option /\ text = selectChosen
      /\ selectOpen = NULL /\ apart = FALSE /\ stale = FALSE
  BY AssumptionOfSelect DEF SmartSelect!Init, SmartSelect!SelectAssumption
<1> QED
  BY <1>1 DEF SelectInv, SelectTyped, SmartSelect!SelectAgrees, SmartSelect!ListComplete, All

\* The list that is made for the options at hand.
LEMMA ListMade ==
    ASSUME NEW us \in SUBSET All, NEW cs \in SUBSET All
    PROVE  /\ [listed |-> us \ Unselectable, checked |-> cs \ Unselectable, leaving |-> FALSE] \in SmartSelect!Lists
           /\ [listed |-> us \ Unselectable, checked |-> cs \ Unselectable, leaving |-> FALSE] # NULL
<1> DEFINE ls == us \ Unselectable
           ks == cs \ Unselectable
<1>1. ls \in SUBSET All /\ ks \in SUBSET All
  OBVIOUS
<1> HIDE DEF ls, ks
<1>2. [listed |-> ls, checked |-> ks, leaving |-> FALSE] \in SmartSelect!Lists
  BY <1>1, NoList
<1>3. [listed |-> ls, checked |-> ks, leaving |-> FALSE] # NULL
  BY <1>2, NoList
<1> QED BY <1>2, <1>3 DEF ls, ks

LEMMA SelectNext ==
    ASSUME SelectInv, SmartSelect!Next
    PROVE  SelectInv'
<1>1. /\ smart \in [multiple : BOOLEAN, popup : BOOLEAN, back : BOOLEAN, valued : BOOLEAN]
      /\ options \in SUBSET All /\ selectChosen \in SUBSET All /\ text \in SUBSET All
      /\ selectOpen \in SmartSelect!Lists \cup {NULL} /\ apart \in BOOLEAN /\ stale \in BOOLEAN
      /\ text \subseteq options /\ selectChosen \subseteq options
      /\ selectOpen # NULL => selectOpen.listed \cap Unselectable = {} /\ selectOpen.listed \subseteq options
      /\ SmartSelect!SelectAgrees /\ SmartSelect!ListComplete
  BY DEF SelectInv, SelectTyped
<1>2. CASE SmartSelect!Open
  <2>1. /\ selectOpen = NULL
        /\ selectOpen' = [listed |-> options \ Unselectable, checked |-> selectChosen \ Unselectable, leaving |-> FALSE]
        /\ stale' = FALSE /\ UNCHANGED <<smart, options, selectChosen, text, apart>>
    BY <1>2 DEF SmartSelect!Open, SmartSelect!List
  <2>2. selectOpen' \in SmartSelect!Lists
    BY <1>1, <2>1, ListMade
  <2> QED
    BY <1>1, <2>1, <2>2, NoList DEF SelectInv, SelectTyped, SmartSelect!SelectAgrees, SmartSelect!ListComplete
<1>3. CASE SmartSelect!Back
  <2>1. /\ selectOpen # NULL /\ selectOpen' = [selectOpen EXCEPT !.leaving = TRUE]
        /\ UNCHANGED <<smart, options, selectChosen, text, apart, stale>>
    BY <1>3 DEF SmartSelect!Back
  <2>2. /\ selectOpen' \in SmartSelect!Lists /\ selectOpen'.listed = selectOpen.listed
        /\ selectOpen'.checked = selectOpen.checked /\ selectOpen'.leaving
    BY <1>1, <2>1, NoList
  <2> QED
    BY <1>1, <2>1, <2>2 DEF SelectInv, SelectTyped, SmartSelect!SelectAgrees, SmartSelect!ListComplete
<1>4. CASE SmartSelect!Gone
  <2>1. selectOpen' = NULL /\ UNCHANGED <<smart, options, selectChosen, text, apart, stale>>
    BY <1>4 DEF SmartSelect!Gone
  <2> QED
    BY <1>1, <2>1 DEF SelectInv, SelectTyped, SmartSelect!SelectAgrees, SmartSelect!ListComplete
<1>5. ASSUME NEW x \in All, SmartSelect!Change(x) PROVE SelectInv'
  <2> DEFINE checked == SmartSelect!Checked(x)
             chosen == SmartSelect!Chosen(x)
             leaving == selectOpen.leaving \/ (smart.back /\ ~smart.multiple)
  <2>1. /\ selectOpen # NULL /\ x \in selectOpen.listed
        /\ selectChosen' = chosen /\ text' = chosen
        /\ selectOpen' = [selectOpen EXCEPT !.checked = checked, !.leaving = leaving]
        /\ apart' = FALSE /\ stale' = (stale /\ smart.multiple)
        /\ UNCHANGED <<smart, options>>
    BY <1>5 DEF SmartSelect!Change
  <2>2. selectOpen \in [listed : SUBSET All, checked : SUBSET All, leaving : BOOLEAN]
    BY <1>1, <2>1, NoList
  <2>3. checked \in SUBSET All /\ chosen \in SUBSET All
    BY <1>1, <2>2 DEF SmartSelect!Checked, SmartSelect!Chosen
  <2>4. leaving \in BOOLEAN
    BY <2>2, Zenon
  <2>5. x \notin Unselectable
    BY <1>1, <2>1
  <2>6. stale' \in BOOLEAN /\ apart' \in BOOLEAN
    BY <2>1, Zenon
  <2>7. ~stale' => checked = chosen \ Unselectable
    <3>1. CASE ~smart.multiple
      BY <2>5, <3>1 DEF SmartSelect!Checked, SmartSelect!Chosen
    <3>2. CASE stale /\ smart.multiple
      BY <2>1, <3>2
    <3>3. CASE ~stale /\ smart.multiple
      <4>1. selectOpen.checked = selectChosen \ Unselectable
        BY <1>1, <2>1, <3>3 DEF SmartSelect!SelectAgrees
      <4> QED BY <2>5, <3>3, <4>1 DEF SmartSelect!Checked, SmartSelect!Chosen
    <3> QED BY <3>1, <3>2, <3>3
  <2>10. chosen \subseteq options
    BY <1>1, <2>1 DEF SmartSelect!Chosen
  <2> HIDE DEF checked, chosen, leaving
  <2>8. /\ selectOpen' \in SmartSelect!Lists /\ selectOpen'.listed = selectOpen.listed
        /\ selectOpen'.checked = checked /\ selectOpen'.leaving = leaving
    BY <2>1, <2>2, <2>3, <2>4, NoList
  <2>9. ~selectOpen'.leaving => ~selectOpen.leaving
    BY <2>2, <2>8, Zenon DEF leaving
  <2> QED
    BY <1>1, <2>1, <2>3, <2>6, <2>7, <2>8, <2>9, <2>10
       DEF SelectInv, SelectTyped, SmartSelect!SelectAgrees, SmartSelect!ListComplete
<1>6. ASSUME NEW x \in All, SmartSelect!AddOption(x) PROVE SelectInv'
  <2> DEFINE relaid == SmartSelect!Relaid
             several == SmartSelect!Several
             read == IF smart.valued THEN {z \in options' : text = {z}} ELSE selectChosen
  <2>1. /\ options' = options \cup {x} /\ selectChosen' = read
        /\ text' = IF smart.valued THEN text ELSE selectChosen'
        /\ (apart' <=> smart.valued /\ several)
        /\ (stale' <=> ~relaid /\ (stale \/ (smart.valued /\ (apart \/ several))))
        /\ apart' \in BOOLEAN /\ stale' \in BOOLEAN
        /\ selectOpen' = IF relaid THEN SmartSelect!List' ELSE selectOpen
        /\ smart' = smart
    BY <1>6, Zenon DEF SmartSelect!AddOption, SmartSelect!Read
  <2>2. SmartSelect!List' = [listed |-> options' \ Unselectable, checked |-> selectChosen' \ Unselectable, leaving |-> FALSE]
    BY DEF SmartSelect!List
  <2>3. options' \in SUBSET All /\ read \in SUBSET All
    BY <1>1, <2>1
  <2>4. relaid <=> selectOpen # NULL /\ ~smart.popup /\ ~selectOpen.leaving
    BY DEF SmartSelect!Relaid
  \* A text of one name, or of none, is read back as it is.
  <2>5. smart.valued /\ ~several /\ text \subseteq options => read = text
    BY <2>1 DEF SmartSelect!Several
  <2>12. read \subseteq options'
    BY <1>1, <2>1
  <2> HIDE DEF relaid, read, several
  <2>13. text' \subseteq options' /\ selectChosen' \subseteq options'
    BY <1>1, <2>1, <2>12
  <2>6. text' \in SUBSET All /\ selectChosen' \in SUBSET All
    BY <1>1, <2>1, <2>3
  <2>7. SmartSelect!List' \in SmartSelect!Lists /\ SmartSelect!List' # NULL
    BY <2>2, <2>3, <2>6, ListMade
  <2>8. ~apart' => text' = selectChosen'
    BY <1>1, <2>1, <2>5
  <2>9. ASSUME ~stale', selectOpen # NULL, ~relaid PROVE selectOpen.checked = selectChosen' \ Unselectable
    <3>1. selectOpen.checked = selectChosen \ Unselectable
      BY <1>1, <2>1, <2>9 DEF SmartSelect!SelectAgrees
    <3>2. selectChosen' = selectChosen
      <4>1. CASE smart.valued
        <5>1. ~apart /\ ~several
          BY <2>1, <2>9, <4>1
        <5>2. text = selectChosen
          BY <1>1, <5>1 DEF SmartSelect!SelectAgrees
        <5> QED BY <1>1, <2>1, <2>5, <4>1, <5>1, <5>2
      <4>2. CASE ~smart.valued
        BY <2>1, <4>2 DEF read
      <4> QED BY <4>1, <4>2
    <3> QED BY <3>1, <3>2
  <2>10. CASE relaid
    <3>1. selectOpen' = SmartSelect!List'
      BY <2>1, <2>10
    <3>2. /\ selectOpen'.listed = options' \ Unselectable /\ selectOpen'.checked = selectChosen' \ Unselectable
      BY <2>2, <3>1
    <3>3. SmartSelect!SelectAgrees' /\ SmartSelect!ListComplete'
      BY <2>8, <3>2 DEF SmartSelect!SelectAgrees, SmartSelect!ListComplete
    <3>4. selectOpen'.listed \cap Unselectable = {} /\ selectOpen'.listed \subseteq options'
      BY <3>2
    <3>5. smart' = smart
      BY <2>1
    <3> QED BY <1>1, <2>1, <2>3, <2>6, <2>7, <2>13, <3>1, <3>3, <3>4, <3>5 DEF SelectInv, SelectTyped
  <2>11. CASE ~relaid
    <3>1. selectOpen' = selectOpen /\ smart' = smart
      BY <2>1, <2>11
    <3>2. SmartSelect!ListComplete'
      BY <2>4, <2>11, <3>1 DEF SmartSelect!ListComplete
    <3>3. SmartSelect!SelectAgrees'
      BY <2>8, <2>9, <2>11, <3>1 DEF SmartSelect!SelectAgrees
    <3>4. selectOpen # NULL => selectOpen.listed \cap Unselectable = {} /\ selectOpen.listed \subseteq options'
      BY <1>1, <2>1
    <3> QED BY <1>1, <2>1, <2>3, <2>6, <2>13, <3>1, <3>2, <3>3, <3>4 DEF SelectInv, SelectTyped
  <2> QED BY <2>10, <2>11
<1>7. ASSUME NEW x \in All, SmartSelect!PageSelects(x) PROVE SelectInv'
  <2>1. /\ x \in options /\ apart' = TRUE /\ stale' = TRUE /\ UNCHANGED <<smart, options, text, selectOpen>>
        /\ selectChosen' = IF smart.multiple THEN selectChosen \cup {x} ELSE {x}
    BY <1>7 DEF SmartSelect!PageSelects
  <2> QED
    BY <1>1, <2>1 DEF SelectInv, SelectTyped, SmartSelect!SelectAgrees, SmartSelect!ListComplete
<1> QED
  BY <1>2, <1>3, <1>4, <1>5, <1>6, <1>7 DEF SmartSelect!Next, All

-----------------------------------------------------------------------------
\* framework7.js, Picker and smartSelect, bootstrap-datepicker.js: in every behaviour of
\* two wheels of any length the value is that of the columns, of a date picker over any
\* calendar the input shows the date that is chosen, and of a smart select of any options
\* the select, the text and the list agree - unless since the one was written the user
\* has typed or picked a month while the view was the date itself, the page has selected
\* by itself, or an option was added while a text that is the value had several names.
THEOREM ValuesAlwaysAgree == Spec => []ValuesAgree
<1> DEFINE ValuesInv == PickerInv /\ DatepickerInv /\ SelectInv
<1>1. Init => ValuesInv
  BY PickerInit, DatepickerInit, SelectInit DEF Init
<1>2. ValuesInv /\ [Next]_vars => ValuesInv'
  <2> SUFFICES ASSUME ValuesInv, [Next]_vars PROVE ValuesInv'
    OBVIOUS
  <2>1. Picker!Next \/ UNCHANGED pickerVars
    BY Zenon DEF Next, vars
  <2>2. Datepicker!Next \/ UNCHANGED datepickerVars
    BY Zenon DEF Next, vars
  <2>3. SmartSelect!Next \/ UNCHANGED selectVars
    BY Zenon DEF Next, vars
  <2>4. PickerInv'
    <3>1. CASE UNCHANGED pickerVars
      BY <3>1 DEF PickerInv, Sound, Follows, Picker!S, pickerVars
    <3> QED BY <2>1, <3>1, PickerNext
  <2>5. DatepickerInv'
    <3>1. CASE UNCHANGED datepickerVars
      BY <3>1 DEF DatepickerInv, Shows, Datepicker!S, datepickerVars
    <3> QED BY <2>2, <3>1, DatepickerNext
  <2>6. SelectInv'
    <3>1. CASE UNCHANGED selectVars
      BY <3>1 DEF SelectInv, SelectTyped, SmartSelect!SelectAgrees, SmartSelect!ListComplete, selectVars
    <3> QED BY <2>3, <3>1, SelectNext
  <2> QED BY <2>4, <2>5, <2>6
<1>3. ValuesInv => ValuesAgree
  <2> SUFFICES ASSUME ValuesInv PROVE ValuesAgree
    OBVIOUS
  <2>1. Picker!ResultFollows
    BY DEF PickerInv, Sound, Follows, Picker!S, Picker!ResultFollows
  <2>2. Datepicker!InputAgrees
    BY DEF DatepickerInv, Shows, Datepicker!S, Datepicker!InputAgrees
  <2> QED BY <2>1, <2>2 DEF SelectInv, ValuesAgree
<1> QED BY <1>1, <1>2, <1>3, PTL DEF Spec

-----------------------------------------------------------------------------
(* Fast clicks.                                                            *)

Ripple == [target : ClickElem \cup {NULL}, to : BOOLEAN, wave : BOOLEAN, remove : BOOLEAN, orphan : BOOLEAN]

\* One click is made of a tap, by the code or by the browser.
Answered ==
    /\ native = NULL => (tap = "tapped" => got = 1) /\ (tap = "held" => got = 0)
    /\ native # NULL => /\ got = 0 /\ holdTO = NULL
                        /\ trackClick => tap # "held"
                        /\ ~trackClick => /\ ~needsFastClick
                                          /\ tap = "tapped" => ~tapHoldFired
                                          /\ tap = "held" => tapHoldFired

\* Nobody touches: what is still marked will be taken away.
Untouched ==
    finger = NULL =>
        /\ ~activeTO /\ ~rippleTO
        /\ fastActive # {} => removes
        /\ wave => waveRemove
        /\ holdTO \in {NULL, "reset"}
        /\ Answered

\* Somebody touches: the click is not made yet, and nothing of the touch before is left.
Touched ==
    finger # NULL =>
        /\ native = NULL /\ got = 0 /\ ~removes /\ ~waveRemove
        /\ holdTO \in {NULL, "hold"}
        /\ trackClick => /\ ~fastMoved /\ ~isMoved /\ activable = finger
                         /\ rippleTO => ~wave /\ rippleTarget # NULL
        /\ ~trackClick => /\ fastActive = {} /\ ~activeTO /\ ~wave /\ ~rippleTO
                          /\ ~fastMoved => ~needsFastClick

\* There is one mark and one wave at most, and only a hold is timed.
Marked ==
    /\ fastActive \subseteq {activable} /\ strays = {} /\ ~orphan
    /\ tapHoldFired => fastOpt.hold
    /\ holdTO # NULL => fastOpt.hold
    /\ wave \/ rippleTO => fastOpt.material

FastInv ==
    /\ fastOpt \in ClickSetting
    /\ ~fastOdd => FastClicks!R \in Ripple /\ Marked /\ Untouched /\ Touched

LEMMA WaveFades ==
    ASSUME NEW r \in Ripple
    PROVE  /\ FastClicks!RemoveRipple(r) \in Ripple
           /\ ~FastClicks!RemoveRipple(r).wave
           /\ FastClicks!RemoveRipple(r).to = r.to
           /\ FastClicks!RemoveRipple(r).remove = r.remove
           /\ FastClicks!RemoveRipple(r).orphan = r.orphan
BY DEF FastClicks!RemoveRipple, Ripple

LEMMA WaveComes ==
    ASSUME NEW r \in Ripple
    PROVE  /\ FastClicks!CreateRipple(r) \in Ripple
           /\ FastClicks!CreateRipple(r).wave
           /\ FastClicks!CreateRipple(r).to = r.to
           /\ FastClicks!CreateRipple(r).remove = r.remove
           /\ ~r.wave => FastClicks!CreateRipple(r).orphan = r.orphan
<1> DEFINE lost_ == r.orphan \/ r.wave
<1>1. lost_ \in BOOLEAN
  BY Zenon
<1>2. ~r.wave => lost_ = r.orphan
  <2>1. r.orphan \in BOOLEAN
    BY DEF Ripple
  <2> QED BY <2>1, Zenon
<1>3. FastClicks!CreateRipple(r) = [r EXCEPT !.wave = TRUE, !.orphan = lost_]
  BY Zenon DEF FastClicks!CreateRipple
<1> HIDE DEF lost_
<1> QED BY <1>1, <1>2, <1>3 DEF Ripple

\* What the ripple is when a finger comes down, moves or is lifted.
LEMMA WaveStarts ==
    ASSUME NEW r \in Ripple, NEW e \in ClickElem, ~r.wave, ~r.to
    PROVE  /\ FastClicks!RippleStart(r, e) \in Ripple
           /\ FastClicks!RippleStart(r, e).remove = r.remove
           /\ FastClicks!RippleStart(r, e).orphan = r.orphan
           /\ FastClicks!RippleStart(r, e).to =>
                 ~FastClicks!RippleStart(r, e).wave /\ FastClicks!RippleStart(r, e).target # NULL
           /\ FastClicks!RippleStart(r, e).wave \/ FastClicks!RippleStart(r, e).to => fastOpt.material
<1> DEFINE none == [r EXCEPT !.target = NULL]
           soon == [r EXCEPT !.target = e, !.to = TRUE]
           here == [r EXCEPT !.target = e]
<1>1. /\ none \in Ripple /\ ~none.wave /\ ~none.to /\ none.remove = r.remove /\ none.orphan = r.orphan
      /\ soon \in Ripple /\ ~soon.wave /\ soon.target = e /\ soon.remove = r.remove /\ soon.orphan = r.orphan
      /\ here \in Ripple /\ ~here.wave /\ ~here.to /\ here.remove = r.remove /\ here.orphan = r.orphan
  BY DEF Ripple
<1>2. FastClicks!RippleStart(r, e) =
        IF ~fastOpt.material THEN r
        ELSE IF FastClicks!FindRippleElement(e) = NULL THEN none
        ELSE IF FastClicks!IsInsideScrollableView(e) THEN soon ELSE FastClicks!CreateRipple(here)
  BY Zenon DEF FastClicks!RippleStart
<1>3. e # NULL
  BY AssumptionOfClicks DEF FastClicks!ClickAssumption
<1> HIDE DEF none, soon, here
<1>4. CASE ~fastOpt.material
  BY <1>2, <1>4
<1>5. CASE fastOpt.material /\ FastClicks!RippleStart(r, e) = none
  BY <1>1, <1>5
<1>6. CASE fastOpt.material /\ FastClicks!RippleStart(r, e) = soon
  BY <1>1, <1>3, <1>6
<1>7. CASE fastOpt.material /\ FastClicks!RippleStart(r, e) = FastClicks!CreateRipple(here)
  BY <1>1, <1>7, WaveComes
<1> QED BY <1>2, <1>4, <1>5, <1>6, <1>7

LEMMA WaveMoves ==
    ASSUME NEW r \in Ripple
    PROVE  /\ FastClicks!RippleMove(r) \in Ripple
           /\ FastClicks!RippleMove(r).remove = r.remove
           /\ FastClicks!RippleMove(r).orphan = r.orphan
           /\ fastOpt.material => ~FastClicks!RippleMove(r).wave /\ ~FastClicks!RippleMove(r).to
           /\ ~fastOpt.material => FastClicks!RippleMove(r) = r
<1> DEFINE late_ == [r EXCEPT !.to = FALSE]
<1>1. late_ \in Ripple /\ ~late_.to /\ late_.remove = r.remove /\ late_.orphan = r.orphan
  BY DEF Ripple
<1>2. FastClicks!RippleMove(r) = IF fastOpt.material THEN FastClicks!RemoveRipple(late_) ELSE r
  BY Zenon DEF FastClicks!RippleMove
<1> HIDE DEF late_
<1> QED BY <1>1, <1>2, WaveFades

LEMMA WaveEnds ==
    ASSUME NEW r \in Ripple
    PROVE  /\ FastClicks!RippleEnd(r) \in Ripple
           /\ FastClicks!RippleEnd(r).orphan = r.orphan
           /\ FastClicks!RippleEnd(r).wave /\ fastOpt.material => FastClicks!RippleEnd(r).remove
           /\ FastClicks!RippleEnd(r).to => r.to /\ (~fastOpt.material \/ r.wave \/ r.target = NULL \/ isMoved)
           /\ ~fastOpt.material => FastClicks!RippleEnd(r) = r
<1> DEFINE again == [r EXCEPT !.to = FALSE, !.remove = TRUE]
<1>1. again \in Ripple /\ ~again.to /\ again.remove /\ again.wave = r.wave /\ again.orphan = r.orphan
  BY DEF Ripple
<1>2. \/ ~fastOpt.material /\ FastClicks!RippleEnd(r) = r
      \/ fastOpt.material /\ ~r.wave /\ FastClicks!RippleEnd(r) = FastClicks!CreateRipple(again)
      \/ /\ fastOpt.material /\ (r.wave \/ r.target = NULL \/ isMoved)
         /\ FastClicks!RippleEnd(r) = FastClicks!RemoveRipple(r)
  BY DEF FastClicks!RippleEnd
<1> HIDE DEF again
<1>3. CASE ~fastOpt.material /\ FastClicks!RippleEnd(r) = r
  BY <1>3
<1>4. CASE fastOpt.material /\ ~r.wave /\ FastClicks!RippleEnd(r) = FastClicks!CreateRipple(again)
  BY <1>1, <1>4, WaveComes
<1>5. CASE /\ fastOpt.material /\ (r.wave \/ r.target = NULL \/ isMoved)
           /\ FastClicks!RippleEnd(r) = FastClicks!RemoveRipple(r)
  BY <1>5, WaveFades
<1> QED BY <1>2, <1>3, <1>4, <1>5

\* The ripple becomes what a function of it says.
LEMMA WaveBecomes ==
    ASSUME NEW r \in Ripple, FastClicks!BecomeRipple(r)
    PROVE  FastClicks!R' \in Ripple
BY DEF FastClicks!BecomeRipple, FastClicks!R, Ripple

LEMMA FastInit == FastClicks!Init => FastInv
BY AssumptionOfClicks DEF FastClicks!Init, FastInv, Marked, Untouched, Touched, Answered, FastClicks!R, Ripple, FastClicks!ClickAssumption


\* What a step leaves alone of fast clicks, action by action.
LEMMA FastStays ==
    ASSUME FastInv, FastClicks!Next
    PROVE  fastOpt' = fastOpt /\ (fastOdd => fastOdd')
<1>1. ASSUME NEW e \in ClickElem, NEW selected \in BOOLEAN, NEW again \in BOOLEAN,
             FastClicks!TouchStart(e, selected, again)
      PROVE  fastOpt' = fastOpt /\ ~fastOdd
  BY <1>1, Zenon DEF FastClicks!TouchStart
<1>2. CASE FastClicks!TouchMove
  BY <1>2, Zenon DEF FastClicks!TouchMove, FastClicks!otherVars
<1>3. CASE FastClicks!ScrollView
  BY <1>3, Zenon DEF FastClicks!ScrollView, FastClicks!otherVars
<1>4. CASE FastClicks!EndUntracked
  BY <1>4, Zenon DEF FastClicks!EndUntracked, FastClicks!otherVars
<1>5. CASE FastClicks!EndOnFocus
  BY <1>5, Zenon DEF FastClicks!EndOnFocus, FastClicks!otherVars
<1>6. CASE FastClicks!EndTooSoon
  BY <1>6, Zenon DEF FastClicks!EndTooSoon, FastClicks!otherVars
<1>7. CASE FastClicks!EndScrolled
  BY <1>7, Zenon DEF FastClicks!EndScrolled, FastClicks!otherVars
<1>8. CASE FastClicks!EndClick
  BY <1>8, Zenon DEF FastClicks!EndClick, FastClicks!otherVars
<1>9. CASE FastClicks!TouchCancel
  BY <1>9, Zenon DEF FastClicks!TouchCancel, FastClicks!otherVars
<1>10. CASE FastClicks!NativeClick
  BY <1>10, Zenon DEF FastClicks!NativeClick, FastClicks!otherVars
<1>11. CASE FastClicks!AddActive
  BY <1>11, Zenon DEF FastClicks!AddActive, FastClicks!otherVars
<1>12. CASE FastClicks!RemoveActive
  BY <1>12, Zenon DEF FastClicks!RemoveActive, FastClicks!otherVars
<1>13. CASE FastClicks!RippleTimeout
  BY <1>13, Zenon DEF FastClicks!RippleTimeout, FastClicks!otherVars
<1>14. CASE FastClicks!WaveTimeout
  BY <1>14, Zenon DEF FastClicks!WaveTimeout, FastClicks!otherVars
<1>15. ASSUME NEW k \in {"own", "stray"}, FastClicks!NeedsTimeout(k)
     PROVE  fastOpt' = fastOpt /\ fastOdd' = fastOdd
  BY <1>15, Zenon DEF FastClicks!NeedsTimeout, FastClicks!otherVars
<1>16. ASSUME NEW k \in {"hold", "reset"}, FastClicks!HoldTimeout(k)
     PROVE  fastOpt' = fastOpt /\ fastOdd' = fastOdd
  BY <1>16, Zenon DEF FastClicks!HoldTimeout, FastClicks!otherVars
<1> QED
  BY <1>1, <1>2, <1>3, <1>4, <1>5, <1>6, <1>7, <1>8, <1>9, <1>10, <1>11, <1>12, <1>13, <1>14, <1>15, <1>16, Zenon DEF FastClicks!Next, FastClicks!TouchEnd

\* What the invariant says of a touch in hand, and when there is none.
Good == FastClicks!R \in Ripple /\ Marked /\ Untouched /\ Touched

LEMMA FastStarts ==
    ASSUME fastOpt \in ClickSetting, Good, ~fastOdd, ~fastOdd',
           NEW e \in ClickElem, NEW selected \in BOOLEAN, NEW again \in BOOLEAN,
           FastClicks!TouchStart(e, selected, again)
    PROVE  Good'
<1> DEFINE needs == FastClicks!TargetNeedsFastClick(e)
           S == FastClicks!R
<1>1. /\ finger = NULL /\ finger' = e /\ fastMoved' = FALSE /\ isMoved' = FALSE /\ tapHoldFired' = FALSE
      /\ needsFastClick' = needs /\ holdTO' = (IF fastOpt.hold THEN "hold" ELSE holdTO)
      /\ tap' = "none" /\ got' = 0 /\ native = NULL /\ ~removes /\ ~waveRemove /\ ~(selected /\ needs)
      /\ fastOpt' = fastOpt /\ strays' = strays /\ native' = native
  BY Zenon DEF FastClicks!TouchStart
<1>2. e # NULL
  BY AssumptionOfClicks DEF FastClicks!ClickAssumption
<1>3. /\ ~activeTO /\ ~rippleTO /\ fastActive = {} /\ ~wave /\ ~orphan /\ strays = {} /\ holdTO \in {NULL, "reset"}
      /\ holdTO # NULL => fastOpt.hold
  BY <1>1 DEF Good, Untouched, Marked
<1>4. S \in Ripple /\ ~S.wave /\ ~S.to /\ ~S.remove /\ ~S.orphan
  BY <1>1, <1>3 DEF Good, FastClicks!R
<1>5. CASE ~needs
  <2>1. trackClick' = FALSE /\ UNCHANGED <<fastActive, activeTO, removes, wave, rippleTO, waveRemove, orphan, rippleTarget>>
    BY <1>5 DEF FastClicks!TouchStart, FastClicks!markVars, FastClicks!rippleVars
  <2> QED
    BY <1>1, <1>2, <1>3, <1>4, <1>5, <2>1 DEF Good, Marked, Untouched, Touched, FastClicks!R
<1>6. CASE needs
  <2>1. /\ trackClick' = TRUE /\ activable' = e /\ removes' = removes
        /\ fastActive' = (IF FastClicks!IsInsideScrollableView(e) THEN fastActive ELSE fastActive \cup {e})
        /\ FastClicks!BecomeRipple(FastClicks!RippleStart(S, e))
    BY <1>1, <1>6 DEF FastClicks!TouchStart
  <2> DEFINE q == FastClicks!RippleStart(S, e)
  <2>2. /\ q \in Ripple /\ ~q.remove /\ ~q.orphan /\ (q.to => ~q.wave /\ q.target # NULL)
        /\ q.wave \/ q.to => fastOpt.material
    BY <1>4, WaveStarts
  <2> HIDE DEF q
  <2>3. /\ rippleTarget' = q.target /\ rippleTO' = q.to /\ wave' = q.wave /\ waveRemove' = q.remove /\ orphan' = q.orphan
        /\ S' \in Ripple
    BY <2>1, <2>2, WaveBecomes DEF FastClicks!BecomeRipple, q
  <2>4. fastActive' \subseteq {e}
    BY <1>3, <2>1
  <2> QED
    BY <1>1, <1>2, <1>3, <2>1, <2>2, <2>3, <2>4 DEF Good, Marked, Untouched, Touched
<1> QED BY <1>5, <1>6

LEMMA FastMoves ==
    ASSUME fastOpt \in ClickSetting, Good, ~fastOdd, ~fastOdd', FastClicks!TouchMove
    PROVE  Good'
<1> DEFINE S == FastClicks!R
<1>1. /\ finger # NULL /\ finger' = finger /\ fastMoved' = TRUE /\ fastOpt' = fastOpt
      /\ UNCHANGED <<strays, native, tap, got>>
  BY DEF FastClicks!TouchMove
<1>2. CASE ~trackClick
  <2>1. UNCHANGED <<trackClick, targetElement, needsFastClick, isMoved, tapHoldFired, activable, fastActive, activeTO,
                    removes, rippleTarget, rippleTO, wave, waveRemove, orphan, holdTO>>
    BY <1>2 DEF FastClicks!TouchMove, FastClicks!clickVars, FastClicks!markVars, FastClicks!rippleVars
  <2> QED
    BY <1>1, <1>2, <2>1 DEF Good, Marked, Untouched, Touched, FastClicks!R
<1>3. CASE trackClick
  <2>1. /\ trackClick' = FALSE /\ isMoved' = TRUE /\ holdTO' = NULL /\ activeTO' = FALSE
        /\ fastActive' = fastActive \ {activable} /\ FastClicks!BecomeRipple(FastClicks!RippleMove(S))
        /\ UNCHANGED <<needsFastClick, tapHoldFired, activable, removes>>
    BY <1>3 DEF FastClicks!TouchMove
  <2> DEFINE q == FastClicks!RippleMove(S)
  <2>2. S \in Ripple /\ S.wave = wave /\ S.to = rippleTO /\ S.remove = waveRemove /\ S.orphan = orphan
    BY DEF Good, FastClicks!R
  <2>3. /\ q \in Ripple /\ q.remove = S.remove /\ q.orphan = S.orphan
        /\ fastOpt.material => ~q.wave /\ ~q.to
        /\ ~fastOpt.material => q = S
    BY <2>2, WaveMoves
  <2> HIDE DEF q
  <2>4. /\ rippleTO' = q.to /\ wave' = q.wave /\ waveRemove' = q.remove /\ orphan' = q.orphan
        /\ S' \in Ripple
    BY <2>1, <2>3, WaveBecomes DEF FastClicks!BecomeRipple, q
  <2> HIDE DEF S
  <2>5. ~wave' /\ ~rippleTO' /\ waveRemove' = waveRemove /\ orphan' = orphan
    <3>1. CASE fastOpt.material
      BY <2>2, <2>3, <2>4, <3>1
    <3>2. CASE ~fastOpt.material
      BY <2>2, <2>3, <2>4, <3>2 DEF Good, Marked
    <3> QED BY <3>1, <3>2
  <2>6. fastActive' = {}
    BY <2>1 DEF Good, Marked
  <2>7. Marked' /\ Untouched' /\ Touched'
    BY <1>1, <2>1, <2>5, <2>6 DEF Good, Marked, Untouched, Touched
  <2> QED BY <2>4, <2>7 DEF Good, S
<1> QED BY <1>2, <1>3

LEMMA FastEndsUntracked ==
    ASSUME fastOpt \in ClickSetting, Good, ~fastOdd, ~fastOdd', FastClicks!EndUntracked
    PROVE  Good'
<1>1. /\ ~trackClick /\ finger # NULL /\ finger' = NULL /\ activeTO' = FALSE /\ holdTO' = NULL
      /\ native' = (IF (~activeSelection /\ needsFastClick) \/ fastMoved THEN native ELSE finger)
      /\ tap' = (IF fastOdd \/ fastMoved THEN "none" ELSE IF tapHoldFired THEN "held" ELSE "tapped")
      /\ UNCHANGED <<trackClick, needsFastClick, isMoved, tapHoldFired, activable, fastActive, removes, rippleTarget,
                     rippleTO, wave, waveRemove, orphan, strays, fastOpt, fastMoved, got>>
  BY DEF FastClicks!EndUntracked, FastClicks!Lifts, FastClicks!BrowserClick, FastClicks!Tapped,
         FastClicks!clickVars, FastClicks!rippleVars
<1> QED
  BY <1>1 DEF Good, Marked, Untouched, Touched, Answered, FastClicks!R

LEMMA FastEndsOnFocus ==
    ASSUME fastOpt \in ClickSetting, Good, ~fastOdd, ~fastOdd', FastClicks!EndOnFocus
    PROVE  Good'
<1>1. /\ trackClick /\ finger # NULL /\ finger' = NULL /\ activeTO' = FALSE /\ holdTO' = NULL
      /\ native' = (IF fastMoved THEN native ELSE finger)
      /\ tap' = (IF tapHoldFired THEN "none"
                 ELSE IF fastOdd \/ fastMoved THEN "none" ELSE IF tapHoldFired THEN "held" ELSE "tapped")
      /\ ~(finger \in fastActive \/ wave \/ rippleTO)
      /\ UNCHANGED <<trackClick, needsFastClick, isMoved, tapHoldFired, activable, fastActive, removes, rippleTarget,
                     rippleTO, wave, waveRemove, orphan, strays, fastOpt, got>>
  BY DEF FastClicks!EndOnFocus, FastClicks!Lifts, FastClicks!BrowserClick, FastClicks!Tapped,
         FastClicks!clickVars, FastClicks!rippleVars, FastClicks!R
<1> QED
  BY <1>1 DEF Good, Marked, Untouched, Touched, Answered, FastClicks!R

LEMMA FastEndsTooSoon ==
    ASSUME fastOpt \in ClickSetting, Good, ~fastOdd, ~fastOdd', FastClicks!EndTooSoon
    PROVE  Good'
<1>1. /\ trackClick /\ finger # NULL /\ finger' = NULL /\ activeTO' = FALSE /\ holdTO' = NULL
      /\ removes' = TRUE /\ tap' = "none" /\ ~(wave \/ rippleTO)
      /\ UNCHANGED <<trackClick, needsFastClick, isMoved, tapHoldFired, activable, fastActive, rippleTarget,
                     rippleTO, wave, waveRemove, orphan, strays, fastOpt, native, got>>
  BY DEF FastClicks!EndTooSoon, FastClicks!Lifts,
         FastClicks!clickVars, FastClicks!rippleVars, FastClicks!R
<1> QED
  BY <1>1 DEF Good, Marked, Untouched, Touched, Answered, FastClicks!R

LEMMA FastEndsScrolled ==
    ASSUME fastOpt \in ClickSetting, Good, ~fastOdd, ~fastOdd', FastClicks!EndScrolled
    PROVE  Good'
<1>1. /\ trackClick /\ finger # NULL /\ finger' = NULL /\ activeTO' = FALSE /\ holdTO' = NULL
      /\ trackClick' = FALSE /\ tap' = "none" /\ ~(finger \in fastActive \/ wave \/ rippleTO)
      /\ UNCHANGED <<needsFastClick, isMoved, tapHoldFired, activable, fastActive, removes, rippleTarget,
                     rippleTO, wave, waveRemove, orphan, strays, fastOpt, native, got>>
  BY DEF FastClicks!EndScrolled, FastClicks!Lifts, FastClicks!rippleVars, FastClicks!R
<1> QED
  BY <1>1 DEF Good, Marked, Untouched, Touched, Answered, FastClicks!R

\* The click that is made of a tap is allowed, but for a hold.
LEMMA FastEndsClick ==
    ASSUME fastOpt \in ClickSetting, Good, ~fastOdd, ~fastOdd', FastClicks!EndClick
    PROVE  Good'
<1> DEFINE S == FastClicks!R
           q == FastClicks!RippleEnd(S)
           held == fastOpt.hold /\ tapHoldFired
<1>1. /\ trackClick /\ finger # NULL /\ finger' = NULL /\ activeTO' = FALSE
      /\ tap' = (IF fastOdd \/ fastMoved THEN "none" ELSE IF tapHoldFired THEN "held" ELSE "tapped")
      /\ fastActive' = fastActive \cup {activable} /\ removes' = TRUE
      /\ FastClicks!BecomeRipple(q)
      /\ FastClicks!HandleClick(finger, FALSE, targetElement, TRUE, NULL)
      /\ UNCHANGED <<needsFastClick, isMoved, tapHoldFired, activable, fastOpt, fastMoved, native>>
  BY DEF FastClicks!EndClick, FastClicks!Lifts, FastClicks!Tapped
<1>2. /\ trackClick' = FALSE
      /\ got' = (IF held THEN got ELSE got + 1)
      /\ IF fastOpt.hold THEN holdTO' = "reset" /\ strays' = strays ELSE holdTO' = NULL /\ strays' = strays
  <2>1. FastClicks!Allowed(finger, targetElement, TRUE)
    BY DEF FastClicks!Allowed
  <2>2. strays \cup ({NULL} \ {NULL}) = strays
    OBVIOUS
  <2> QED BY <1>1, <2>1, <2>2 DEF FastClicks!HandleClick, FastClicks!Held
<1>3. S \in Ripple /\ S.wave = wave /\ S.to = rippleTO /\ S.remove = waveRemove /\ S.orphan = orphan /\ S.target = rippleTarget
  BY DEF Good, FastClicks!R
<1>4. /\ q \in Ripple /\ q.orphan = S.orphan
      /\ q.wave /\ fastOpt.material => q.remove
      /\ q.to => S.to /\ (~fastOpt.material \/ S.wave \/ S.target = NULL \/ isMoved)
      /\ ~fastOpt.material => q = S
  BY <1>3, WaveEnds
<1> HIDE DEF q
<1>5. /\ rippleTO' = q.to /\ wave' = q.wave /\ waveRemove' = q.remove /\ orphan' = q.orphan
      /\ S' \in Ripple
  BY <1>1, <1>4, WaveBecomes DEF FastClicks!BecomeRipple
<1> HIDE DEF S
<1>6. /\ native = NULL /\ got = 0 /\ ~fastMoved /\ ~isMoved /\ strays = {} /\ ~orphan
      /\ rippleTO => ~wave /\ rippleTarget # NULL
      /\ fastActive \subseteq {activable}
      /\ tapHoldFired => fastOpt.hold
      /\ wave \/ rippleTO => fastOpt.material
  BY <1>1 DEF Good, Marked, Touched
<1>7. ~rippleTO' /\ (wave' => waveRemove') /\ ~orphan' /\ (wave' \/ rippleTO' => fastOpt.material)
  <2>1. CASE fastOpt.material
    BY <1>3, <1>4, <1>5, <1>6, <2>1
  <2>2. CASE ~fastOpt.material
    BY <1>3, <1>4, <1>5, <1>6, <2>2
  <2> QED BY <2>1, <2>2
<1>8. fastActive' \subseteq {activable'} /\ strays' = {} /\ (holdTO' # NULL => fastOpt.hold) /\ holdTO' \in {NULL, "reset"}
  BY <1>1, <1>2, <1>6
<1>9. native' = NULL /\ (tap' = "tapped" => got' = 1) /\ (tap' = "held" => got' = 0)
  <2>1. CASE tapHoldFired
    BY <1>1, <1>2, <1>6, <2>1
  <2>2. CASE ~tapHoldFired
    BY <1>1, <1>2, <1>6, <2>2
  <2> QED BY <2>1, <2>2
<1>10. Marked' /\ Untouched' /\ Touched'
  BY <1>1, <1>6, <1>7, <1>8, <1>9 DEF Marked, Untouched, Touched, Answered
<1> QED BY <1>5, <1>10 DEF Good, S

LEMMA FastCancels ==
    ASSUME fastOpt \in ClickSetting, Good, ~fastOdd, ~fastOdd', FastClicks!TouchCancel
    PROVE  Good'
<1> DEFINE S == FastClicks!R
           q == FastClicks!RippleEnd(S)
<1>1. /\ finger # NULL /\ finger' = NULL /\ activeTO' = FALSE /\ trackClick' = FALSE /\ holdTO' = NULL
      /\ tap' = "none" /\ fastActive' = fastActive \ {activable}
      /\ FastClicks!BecomeRipple(q)
      /\ UNCHANGED <<needsFastClick, isMoved, tapHoldFired, activable, removes, fastOpt, fastMoved, strays, native, got>>
  BY DEF FastClicks!TouchCancel, FastClicks!Lifts
<1>3. S \in Ripple /\ S.wave = wave /\ S.to = rippleTO /\ S.remove = waveRemove /\ S.orphan = orphan /\ S.target = rippleTarget
  BY DEF Good, FastClicks!R
<1>4. /\ q \in Ripple /\ q.orphan = S.orphan
      /\ q.wave /\ fastOpt.material => q.remove
      /\ q.to => S.to /\ (~fastOpt.material \/ S.wave \/ S.target = NULL \/ isMoved)
      /\ ~fastOpt.material => q = S
  BY <1>3, WaveEnds
<1> HIDE DEF q
<1>5. /\ rippleTO' = q.to /\ wave' = q.wave /\ waveRemove' = q.remove /\ orphan' = q.orphan
      /\ S' \in Ripple
  BY <1>1, <1>4, WaveBecomes DEF FastClicks!BecomeRipple
<1> HIDE DEF S
<1>6. /\ native = NULL /\ got = 0 /\ strays = {} /\ ~orphan
      /\ rippleTO => ~wave /\ rippleTarget # NULL /\ ~isMoved
      /\ fastActive \subseteq {activable}
      /\ wave \/ rippleTO => fastOpt.material
  BY <1>1 DEF Good, Marked, Touched
<1>7. ~rippleTO' /\ (wave' => waveRemove') /\ ~orphan' /\ (wave' \/ rippleTO' => fastOpt.material)
  <2>1. CASE fastOpt.material
    BY <1>3, <1>4, <1>5, <1>6, <2>1
  <2>2. CASE ~fastOpt.material
    BY <1>3, <1>4, <1>5, <1>6, <2>2
  <2> QED BY <2>1, <2>2
<1>8. fastActive' = {}
  BY <1>1, <1>6
<1>10. Marked' /\ Untouched' /\ Touched'
  BY <1>1, <1>6, <1>7, <1>8 DEF Good, Marked, Untouched, Touched, Answered
<1> QED BY <1>5, <1>10 DEF Good, S

\* The browser's click passes once: where the code makes none, or has none to make.
LEMMA FastHears ==
    ASSUME fastOpt \in ClickSetting, Good, ~fastOdd, ~fastOdd', FastClicks!NativeClick
    PROVE  Good'
<1>1. /\ native # NULL /\ native' = NULL /\ finger = NULL /\ finger' = NULL
      /\ FastClicks!HandleClick(native, trackClick, targetElement, FALSE, holdTO)
      /\ UNCHANGED <<isMoved, tapHoldFired, activable, fastActive, activeTO, removes, rippleTarget,
                     rippleTO, wave, waveRemove, orphan, fastOpt, tap>>
  BY DEF FastClicks!NativeClick, FastClicks!markVars, FastClicks!rippleVars
<1>2. /\ got = 0 /\ holdTO = NULL /\ strays = {}
      /\ trackClick => tap # "held"
      /\ ~trackClick => ~needsFastClick /\ (tap = "tapped" => ~tapHoldFired) /\ (tap = "held" => tapHoldFired)
      /\ tapHoldFired => fastOpt.hold
  BY <1>1 DEF Good, Untouched, Answered, Marked
<1>3. CASE trackClick
  <2>1. got' = 1 /\ holdTO' = NULL /\ strays' = {}
    BY <1>1, <1>2, <1>3 DEF FastClicks!HandleClick
  <2> QED BY <1>1, <1>2, <1>3, <2>1 DEF Good, Marked, Untouched, Touched, Answered, FastClicks!R
<1>4. CASE ~trackClick
  <2>1. FastClicks!Allowed(native, targetElement, FALSE)
    BY <1>2, <1>4 DEF FastClicks!Allowed
  <2>2. /\ got' = (IF tapHoldFired THEN 0 ELSE 1)
        /\ (IF fastOpt.hold THEN holdTO' = "reset" ELSE holdTO' = NULL)
        /\ strays' = {}
    BY <1>1, <1>2, <1>4, <2>1 DEF FastClicks!HandleClick, FastClicks!Held
  <2> QED BY <1>1, <1>2, <1>4, <2>2 DEF Good, Marked, Untouched, Touched, Answered, FastClicks!R
<1> QED BY <1>3, <1>4

LEMMA FastTimes ==
    ASSUME fastOpt \in ClickSetting, Good, ~fastOdd, ~fastOdd',
           \/ FastClicks!ScrollView \/ FastClicks!AddActive \/ FastClicks!RemoveActive \/ FastClicks!RippleTimeout
           \/ FastClicks!WaveTimeout \/ (\E k \in {"own", "stray"} : FastClicks!NeedsTimeout(k))
           \/ \E k \in {"hold", "reset"} : FastClicks!HoldTimeout(k)
    PROVE  Good'
<1> DEFINE S == FastClicks!R
<1>0. S \in Ripple /\ S.wave = wave /\ S.to = rippleTO /\ S.remove = waveRemove /\ S.orphan = orphan /\ S.target = rippleTarget
  BY DEF Good, FastClicks!R
<1>1. CASE FastClicks!ScrollView
  <2>1. /\ activeTO' = FALSE /\ rippleTO' = FALSE
        /\ UNCHANGED <<finger, trackClick, targetElement, needsFastClick, isMoved, tapHoldFired, activable, fastActive,
                       removes, rippleTarget, wave, waveRemove, orphan, holdTO, strays, fastOpt, fastMoved, native, tap, got>>
    BY <1>1 DEF FastClicks!ScrollView, FastClicks!clickVars, FastClicks!timerVars, FastClicks!otherVars
  <2>2. S' \in Ripple
    BY <2>1 DEF Good, FastClicks!R, Ripple
  <2> QED BY <2>1, <2>2 DEF Good, Marked, Untouched, Touched, Answered
<1>2. CASE FastClicks!AddActive
  <2>1. /\ activeTO /\ activeTO' = FALSE /\ fastActive' = fastActive \cup {activable}
        /\ UNCHANGED <<finger, trackClick, needsFastClick, isMoved, tapHoldFired, activable,
                       removes, rippleTarget, rippleTO, wave, waveRemove, orphan, holdTO, strays, fastOpt, fastMoved, native, tap, got>>
    BY <1>2 DEF FastClicks!AddActive, FastClicks!clickVars, FastClicks!rippleVars, FastClicks!timerVars, FastClicks!otherVars
  <2> QED BY <2>1 DEF Good, Marked, Untouched, Touched, Answered, FastClicks!R
<1>3. CASE FastClicks!RemoveActive
  <2>1. /\ removes /\ removes' = FALSE /\ fastActive' = fastActive \ {activable}
        /\ UNCHANGED <<finger, trackClick, needsFastClick, isMoved, tapHoldFired, activable, activeTO,
                       rippleTarget, rippleTO, wave, waveRemove, orphan, holdTO, strays, fastOpt, fastMoved, native, tap, got>>
    BY <1>3 DEF FastClicks!RemoveActive, FastClicks!clickVars, FastClicks!rippleVars, FastClicks!timerVars, FastClicks!otherVars
  <2>2. fastActive' = {}
    BY <2>1 DEF Good, Marked
  <2> QED BY <2>1, <2>2 DEF Good, Marked, Untouched, Touched, Answered, FastClicks!R
<1>4. CASE FastClicks!RippleTimeout
  <2> DEFINE now_ == [S EXCEPT !.to = FALSE]
             q == FastClicks!CreateRipple(now_)
  <2>1. /\ rippleTO /\ FastClicks!BecomeRipple(q)
        /\ UNCHANGED <<finger, trackClick, needsFastClick, isMoved, tapHoldFired, activable, fastActive, activeTO, removes,
                       holdTO, strays, fastOpt, fastMoved, native, tap, got>>
    BY <1>4 DEF FastClicks!RippleTimeout, FastClicks!clickVars, FastClicks!markVars, FastClicks!timerVars, FastClicks!otherVars
  <2>2. finger # NULL /\ trackClick /\ ~wave /\ ~waveRemove /\ ~orphan /\ fastOpt.material
    BY <2>1 DEF Good, Untouched, Touched, Marked
  <2> HIDE DEF S
  <2>3. now_ \in Ripple /\ ~now_.wave /\ ~now_.to /\ ~now_.remove /\ ~now_.orphan
    BY <1>0, <2>2 DEF Ripple
  <2> HIDE DEF now_
  <2>4. q \in Ripple /\ q.wave /\ ~q.to /\ ~q.remove /\ ~q.orphan
    BY <2>3, WaveComes
  <2> HIDE DEF q
  <2>5. rippleTO' = q.to /\ wave' = q.wave /\ waveRemove' = q.remove /\ orphan' = q.orphan /\ S' \in Ripple
    BY <2>1, <2>4, WaveBecomes DEF FastClicks!BecomeRipple, S
  <2>6. Marked' /\ Untouched' /\ Touched'
    BY <2>1, <2>2, <2>4, <2>5 DEF Good, Marked, Untouched, Touched
  <2> QED BY <2>5, <2>6 DEF Good, S
<1>5. CASE FastClicks!WaveTimeout
  <2> DEFINE now_ == [S EXCEPT !.remove = FALSE]
             q == FastClicks!RemoveRipple(now_)
  <2>1. /\ waveRemove /\ FastClicks!BecomeRipple(q)
        /\ UNCHANGED <<finger, trackClick, needsFastClick, isMoved, tapHoldFired, activable, fastActive, activeTO, removes,
                       holdTO, strays, fastOpt, fastMoved, native, tap, got>>
    BY <1>5 DEF FastClicks!WaveTimeout, FastClicks!clickVars, FastClicks!markVars, FastClicks!timerVars, FastClicks!otherVars
  <2>2. finger = NULL /\ ~rippleTO /\ ~orphan
    BY <2>1 DEF Good, Untouched, Touched, Marked
  <2> HIDE DEF S
  <2>3. now_ \in Ripple /\ ~now_.to /\ ~now_.remove /\ ~now_.orphan
    BY <1>0, <2>2 DEF Ripple
  <2> HIDE DEF now_
  <2>4. q \in Ripple /\ ~q.wave /\ ~q.to /\ ~q.remove /\ ~q.orphan
    BY <2>3, WaveFades
  <2> HIDE DEF q
  <2>5. rippleTO' = q.to /\ wave' = q.wave /\ waveRemove' = q.remove /\ orphan' = q.orphan /\ S' \in Ripple
    BY <2>1, <2>4, WaveBecomes DEF FastClicks!BecomeRipple, S
  <2>6. Marked' /\ Untouched' /\ Touched'
    BY <2>1, <2>2, <2>4, <2>5 DEF Good, Marked, Untouched, Touched, Answered
  <2> QED BY <2>5, <2>6 DEF Good, S
<1>6. ASSUME NEW k \in {"own", "stray"}, FastClicks!NeedsTimeout(k) PROVE Good'
  <2>1. /\ needsFastClick' = FALSE
        /\ UNCHANGED <<finger, trackClick, isMoved, tapHoldFired, activable, fastActive, activeTO, removes,
                       rippleTarget, rippleTO, wave, waveRemove, orphan, holdTO, strays, fastOpt, fastMoved, native, tap, got>>
    BY <1>6 DEF FastClicks!NeedsTimeout, FastClicks!markVars, FastClicks!rippleVars, FastClicks!otherVars
  <2> QED BY <2>1 DEF Good, Marked, Untouched, Touched, Answered, FastClicks!R
<1>7. ASSUME NEW k \in {"hold", "reset"}, FastClicks!HoldTimeout(k) PROVE Good'
  <2>1. /\ holdTO = k /\ holdTO' = NULL /\ strays' = strays
        /\ tapHoldFired' = (k = "hold")
        /\ UNCHANGED <<finger, trackClick, needsFastClick, isMoved, activable, fastActive, activeTO, removes,
                       rippleTarget, rippleTO, wave, waveRemove, orphan, fastOpt, fastMoved, native, tap, got>>
    BY <1>7 DEF FastClicks!HoldTimeout, FastClicks!markVars, FastClicks!rippleVars, FastClicks!otherVars, Good, Marked
  <2>2. k # NULL
    BY AssumptionOfClicks DEF FastClicks!ClickAssumption
  <2> QED BY <2>1, <2>2 DEF Good, Marked, Untouched, Touched, Answered, FastClicks!R
<1> QED BY <1>1, <1>2, <1>3, <1>4, <1>5, <1>6, <1>7

LEMMA FastNext ==
    ASSUME FastInv, FastClicks!Next
    PROVE  FastInv'
<1>1. fastOpt \in ClickSetting /\ fastOpt' = fastOpt /\ (fastOdd => fastOdd')
  BY FastStays DEF FastInv
<1>2. SUFFICES ASSUME ~fastOdd' PROVE Good'
  BY <1>1 DEF FastInv, Good
<1>3. ~fastOdd /\ Good
  BY <1>1, <1>2 DEF FastInv, Good
<1>4. ASSUME NEW e \in ClickElem, NEW selected \in BOOLEAN, NEW again \in BOOLEAN,
             FastClicks!TouchStart(e, selected, again)
      PROVE  Good'
  BY <1>1, <1>2, <1>3, <1>4, FastStarts
<1>5. CASE FastClicks!TouchMove
  BY <1>1, <1>2, <1>3, <1>5, FastMoves
<1>6. CASE FastClicks!TouchEnd
  BY <1>1, <1>2, <1>3, <1>6, FastEndsUntracked, FastEndsOnFocus, FastEndsTooSoon, FastEndsScrolled, FastEndsClick
     DEF FastClicks!TouchEnd
<1>7. CASE FastClicks!TouchCancel
  BY <1>1, <1>2, <1>3, <1>7, FastCancels
<1>8. CASE FastClicks!NativeClick
  BY <1>1, <1>2, <1>3, <1>8, FastHears
<1>9. CASE \/ FastClicks!ScrollView \/ FastClicks!AddActive \/ FastClicks!RemoveActive \/ FastClicks!RippleTimeout
           \/ FastClicks!WaveTimeout \/ (\E k \in {"own", "stray"} : FastClicks!NeedsTimeout(k))
           \/ \E k \in {"hold", "reset"} : FastClicks!HoldTimeout(k)
  BY <1>1, <1>2, <1>3, <1>9, FastTimes
<1> QED
  BY <1>4, <1>5, <1>6, <1>7, <1>8, <1>9 DEF FastClicks!Next

LEMMA FastAlways == Spec => []FastInv
<1>1. Init => FastInv
  BY FastInit DEF Init
<1>2. FastInv /\ [Next]_vars => FastInv'
  <2> SUFFICES ASSUME FastInv, [Next]_vars PROVE FastInv'
    OBVIOUS
  <2>1. FastClicks!Next \/ UNCHANGED fastVars
    BY Zenon DEF Next, vars
  <2>2. CASE UNCHANGED fastVars
    BY <2>2 DEF FastInv, Marked, Untouched, Touched, Answered, FastClicks!R, fastVars
  <2> QED BY <2>1, <2>2, FastNext
<1> QED BY <1>1, <1>2, PTL DEF Spec

\* framework7.js, initFastClicks: in every behaviour, whatever the elements, a tap is
\* one click for the page, that made of it or the browser's, a hold is none but on the
\* input that has the focus, and at rest nothing is marked as touched - until an oddity.
THEOREM OneClickAlways == Spec => []OneClick
<1>1. FastInv => OneClick
  BY DEF FastInv, Marked, Untouched, Answered, OneClick, FastClicks!OneClick, FastClicks!PressedGoes, FastClicks!AtRest
<1> QED BY <1>1, FastAlways, PTL

\* framework7.js, tapHoldTimeout: a hold is told only while the finger rests on the
\* element, since no timeout for one outlives its touch.
THEOREM HoldsAlwaysHeld == Spec => FastClicks!HoldIsHeld
<1> DEFINE Rests == ~tapHoldFired /\ tapHoldFired' /\ ~fastOdd => finger # NULL /\ (trackClick => ~fastMoved)
<1>1. FastInv /\ [Next]_vars => [Rests]_FastClicks!fastVars
  <2> SUFFICES ASSUME FastInv, [Next]_vars, ~tapHoldFired, tapHoldFired', ~fastOdd
               PROVE  finger # NULL /\ (trackClick => ~fastMoved)
    OBVIOUS
  <2>1. FastClicks!HoldTimeout("hold")
    <3>1. FastClicks!Next
      BY Zenon DEF Next, vars, fastVars
    <3>2. ASSUME NEW e \in ClickElem, NEW selected \in BOOLEAN, NEW again \in BOOLEAN,
                 FastClicks!TouchStart(e, selected, again)
          PROVE  FALSE
      BY <3>2, Zenon DEF FastClicks!TouchStart
    <3>3. CASE \/ FastClicks!TouchMove \/ FastClicks!TouchEnd \/ FastClicks!TouchCancel
      <4>1. tapHoldFired' = tapHoldFired
        BY <3>3, Zenon DEF FastClicks!TouchMove, FastClicks!TouchEnd, FastClicks!TouchCancel, FastClicks!EndUntracked,
           FastClicks!EndOnFocus, FastClicks!EndTooSoon, FastClicks!EndScrolled, FastClicks!EndClick, FastClicks!clickVars
      <4> QED BY <4>1, Zenon
    <3>4. CASE \/ FastClicks!ScrollView \/ FastClicks!AddActive \/ FastClicks!RemoveActive \/ FastClicks!RippleTimeout
               \/ FastClicks!WaveTimeout \/ FastClicks!NativeClick \/ (\E k \in {"own", "stray"} : FastClicks!NeedsTimeout(k))
      <4>1. tapHoldFired' = tapHoldFired
        BY <3>4, Zenon DEF FastClicks!ScrollView, FastClicks!AddActive, FastClicks!RemoveActive, FastClicks!RippleTimeout,
           FastClicks!WaveTimeout, FastClicks!NativeClick, FastClicks!NeedsTimeout, FastClicks!clickVars
      <4> QED BY <4>1, Zenon
    <3>5. ASSUME FastClicks!HoldTimeout("reset") PROVE FALSE
      BY <3>5 DEF FastClicks!HoldTimeout
    <3> QED BY <3>1, <3>2, <3>3, <3>4, <3>5 DEF FastClicks!Next
  <2>2. holdTO = "hold" /\ "hold" # NULL
    BY <2>1, AssumptionOfClicks DEF FastClicks!HoldTimeout, FastInv, Marked, FastClicks!ClickAssumption
  <2> QED BY <2>2 DEF FastInv, Untouched, Touched
<1> QED BY <1>1, FastAlways, PTL DEF Spec, FastClicks!HoldIsHeld

-----------------------------------------------------------------------------
(* The picker's wheels at rest.                                            *)

\* The value was made when the second column was last filled, and is one of its items.
Fitting(s) ==
    /\ s.filled = s.result[2]
    /\ s.result[3] < Length[s.filled] /\ s.chosen["second"] < Length[s.filled]
Stands(s, c) == s.goal[c] = 2 * s.chosen[c]

PickerRest ==
    /\ pickerTouch \in [Wheel -> {"no", "touched", "moved"}] /\ pickerOpen \in BOOLEAN
    /\ ~pickerOpen => \A c \in Wheel : pickerTouch[c] = "no"
    /\ Fitting(Picker!S)
    /\ ~option.onMomentum =>
           /\ frames = {}
           /\ pickerOpen => \A c \in Wheel : pickerTouch[c] # "moved" => Stands(Picker!S, c)

LEMMA UpdateItemsKeeps ==
    ASSUME NEW s \in PickerState, NEW c \in Wheel, NEW i \in Nat, NEW callbacks \in BOOLEAN,
           s.chosen["first"] \in Choices
    PROVE  Picker!UpdateItems(s, c, i, callbacks).goal = s.goal
<1> DEFINE index == Picker!Least(i, Picker!LastItem(s, c))
           seen == [s EXCEPT !.active[c] = index]
           told == [seen EXCEPT !.chosen[c] = index]
           all == [told EXCEPT !.result = <<told.chosen["first"], told.filled, told.chosen["second"]>>]
<1>1. index \in Nat
  BY LastItemIs DEF Picker!Least
<1>2. Picker!UpdateItems(s, c, i, callbacks)
        = IF ~callbacks THEN seen ELSE IF s.active[c] = index THEN told ELSE all
  BY DEF Picker!UpdateItems, Picker!UpdateValue
<1> HIDE DEF index
<1>3. seen \in PickerState /\ seen.goal = s.goal
  BY <1>1 DEF PickerState
<1> HIDE DEF seen
<1>4. told \in [turned : [Wheel -> Nat], goal : [Wheel -> Nat], active : [Wheel -> Nat],
                chosen : [Wheel -> Nat], filled : Choices, result : Choices \X Choices \X Nat]
      /\ told.goal = s.goal
  BY <1>1, <1>3 DEF PickerState
<1> HIDE DEF told
<1>5. all.goal = s.goal
  BY <1>4
<1> HIDE DEF all
<1> QED BY <1>2, <1>3, <1>4, <1>5

\* The second column is filled again and stands at the first of its items.
LEMMA ChangedStands ==
    ASSUME NEW s \in PickerState, s.chosen["first"] \in Choices
    PROVE  LET t == Picker!Changed(s)
           IN  Fitting(t) /\ Stands(t, "second") /\ t.goal["first"] = s.goal["first"]
<1> DEFINE r == [s EXCEPT !.filled = s.chosen["first"], !.turned["second"] = 0,
                          !.goal["second"] = 0]
           u == Picker!UpdateItems(r, "second", 0, TRUE)
           t == [u EXCEPT !.result = <<u.chosen["first"], u.filled, u.chosen["second"]>>]
<1>1. /\ r \in PickerState /\ r.chosen = s.chosen /\ r.filled = s.chosen["first"]
      /\ r.goal = [s.goal EXCEPT !["second"] = 0]
  BY DEF PickerState, Wheel
<1>2. Picker!Changed(s) = t
  BY DEF Picker!Changed, Picker!ReplaceValues, Picker!UpdateValue
<1> HIDE DEF r
<1>3. Picker!Least(0, Picker!LastItem(r, "second")) = 0
  BY <1>1, LastItemIs, "second" \in Wheel DEF Wheel, Picker!Least
<1>4. /\ u \in PickerState /\ u.filled = r.filled
      /\ u.chosen = [r.chosen EXCEPT !["second"] = 0] /\ u.goal = r.goal
  <2>1. r.chosen["first"] \in Choices /\ "second" \in Wheel
    BY <1>1 DEF Wheel
  <2>2. u.goal = r.goal
    BY <1>1, <2>1, UpdateItemsKeeps
  <2> DEFINE index == Picker!Least(0, Picker!LastItem(r, "second"))
  <2>3. u \in PickerState /\ u.filled = r.filled /\ u.chosen = [r.chosen EXCEPT !["second"] = index]
    BY <1>1, UpdateItemsIs, 0 \in Nat, "second" \in Wheel DEF Wheel
  <2> QED BY <1>3, <2>2, <2>3
<1> HIDE DEF u
<1>5. /\ u.chosen["second"] = 0 /\ u.goal["second"] = 0 /\ u.goal["first"] = s.goal["first"]
      /\ u.chosen["first"] = s.chosen["first"] /\ u.filled \in Choices /\ u.filled = s.chosen["first"]
  BY <1>1, <1>4 DEF PickerState, Wheel
<1>6. /\ t.chosen = u.chosen /\ t.filled = u.filled /\ t.goal = u.goal
      /\ t.result = <<u.chosen["first"], u.filled, u.chosen["second"]>>
  BY <1>4 DEF PickerState
<1> HIDE DEF t
<1>7. Length[u.filled] > 0
  BY <1>5, ChoicesCount
<1> QED BY <1>2, <1>5, <1>6, <1>7 DEF Fitting, Stands

\* An update sets the value of its wheel, if it is told, and leaves the other one standing.
LEMMA UpdateStands ==
    ASSUME NEW s \in PickerState, s.chosen["first"] \in Choices, Fitting(s), NEW c \in Wheel,
           NEW i \in Nat, NEW callbacks \in BOOLEAN
    PROVE  LET u == Picker!Update(s, c, i, callbacks)
           IN  /\ u \in PickerState /\ u.chosen["first"] \in Choices /\ Fitting(u)
               /\ callbacks /\ i <= Picker!LastItem(s, c) /\ s.goal[c] = 2 * i => Stands(u, c)
               /\ \A d \in Wheel : d # c /\ Stands(s, d) => Stands(u, d)
               /\ u.filled = s.filled \/ Stands(u, "second")
<1> DEFINE u == Picker!UpdateItems(s, c, i, callbacks)
<1> DEFINE k == Picker!Least(i, Picker!LastItem(s, c))
<1>1. k \in Nat /\ k <= Picker!LastItem(s, c) /\ (i <= Picker!LastItem(s, c) => k = i)
  BY LastItemIs DEF Picker!Least
<1>2. /\ u \in PickerState /\ (c = "first" => k \in Choices)
      /\ u.active = [s.active EXCEPT ![c] = k] /\ u.filled = s.filled
      /\ u.chosen = IF callbacks THEN [s.chosen EXCEPT ![c] = k] ELSE s.chosen
      /\ u.result = IF ~callbacks \/ s.active[c] = k THEN s.result
                    ELSE <<u.chosen["first"], u.filled, u.chosen["second"]>>
  BY UpdateItemsIs
<1>3. u.goal = s.goal
  BY UpdateItemsKeeps
<1>4. Picker!Update(s, c, i, callbacks)
        = IF c = "first" /\ callbacks /\ u.active[c] # s.active[c] THEN Picker!Changed(u) ELSE u
  BY DEF Picker!Update
<1> HIDE DEF u, k
<1>5. s.chosen \in [Wheel -> Nat] /\ s.goal \in [Wheel -> Nat] /\ s.filled \in Choices /\ Length[s.filled] \in Nat
  BY ChoicesCount DEF PickerState
<1>6. u.chosen["first"] \in Choices
  BY <1>2, <1>5 DEF Wheel
<1>7. c = "second" => k < Length[s.filled]
  BY <1>1, <1>5 DEF Picker!LastItem
<1>8. u.chosen["second"] < Length[u.filled]
  BY <1>2, <1>5, <1>7 DEF Wheel, Fitting
<1>9. Fitting(u)
  BY <1>2, <1>8 DEF Fitting
<1>10. (callbacks /\ i <= Picker!LastItem(s, c) /\ s.goal[c] = 2 * i => Stands(u, c)) /\ \A d \in Wheel : d # c /\ Stands(s, d) => Stands(u, d)
  BY <1>1, <1>2, <1>3, <1>5 DEF Stands
<1>11. CASE c = "first" /\ callbacks /\ u.active[c] # s.active[c]
  <2> DEFINE t == Picker!Changed(u)
  <2>1. /\ t \in PickerState /\ t.chosen["first"] = u.chosen["first"]
        /\ Fitting(t) /\ Stands(t, "second") /\ t.goal["first"] = u.goal["first"]
    BY <1>2, <1>6, ChangedAgrees, ChangedStands
  <2> HIDE DEF t
  <2>2. Picker!Update(s, c, i, callbacks) = t
    BY <1>4, <1>11 DEF t
  <2> QED BY <1>6, <1>10, <1>11, <2>1, <2>2 DEF Stands, Wheel
<1>12. CASE ~(c = "first" /\ callbacks /\ u.active[c] # s.active[c])
  <2>1. Picker!Update(s, c, i, callbacks) = u
    BY <1>4, <1>12
  <2> QED BY <1>2, <1>6, <1>9, <1>10, <2>1
<1> QED BY <1>11, <1>12

LEMMA RestBecomes ==
    ASSUME option \in [onTouchmove : BOOLEAN, onMomentum : BOOLEAN], NEW s \in PickerState, Fitting(s),
           Picker!Become(s), pickerTouch' \in [Wheel -> {"no", "touched", "moved"}], pickerOpen' \in BOOLEAN,
           ~pickerOpen' => \A c \in Wheel : pickerTouch'[c] = "no",
           ~option.onMomentum =>
               /\ frames' = {}
               /\ pickerOpen' => \A c \in Wheel : pickerTouch'[c] # "moved" => Stands(s, c)
    PROVE  PickerRest'
<1>1. /\ Picker!S'.chosen = s.chosen /\ Picker!S'.goal = s.goal
      /\ Picker!S'.filled = s.filled /\ Picker!S'.result = s.result /\ option' = option
  BY DEF Picker!Become, Picker!S, PickerState
<1>2. Fitting(Picker!S)'
  BY <1>1 DEF Fitting
<1>3. \A c \in Wheel : Stands(s, c) => Stands(Picker!S, c)'
  BY <1>1 DEF Stands
<1> QED BY <1>1, <1>2, <1>3 DEF PickerRest

LEMMA RestInit == Picker!Init => PickerRest
<1> SUFFICES ASSUME Picker!Init PROVE PickerRest
  OBVIOUS
<1>1. /\ Picker!S.chosen = [c \in Wheel |-> 0] /\ Picker!S.goal = [c \in Wheel |-> 0]
      /\ Picker!S.filled = 0 /\ Picker!S.result = <<0, 0, 0>>
  BY DEF Picker!Init, Picker!S, Picker!Col, Wheel
<1>2. Length[0] > 0 /\ "second" \in Wheel
  BY ChoicesCount DEF Wheel
<1>3. Fitting(Picker!S) /\ \A c \in Wheel : Stands(Picker!S, c)
  BY <1>1, <1>2 DEF Fitting, Stands
<1>4. pickerTouch = [c \in Wheel |-> "no"] /\ frames = {} /\ pickerOpen = TRUE
  BY DEF Picker!Init, Picker!Col, Wheel
<1> QED BY <1>3, <1>4 DEF PickerRest

\* The state t is s with wheel c on its way.
OnItsWay(s, t, c, way) ==
    /\ t \in PickerState /\ t.chosen = s.chosen /\ t.filled = s.filled /\ Fitting(t)
    /\ t.goal[c] = way /\ \A d \in Wheel : d # c /\ Stands(s, d) => Stands(t, d)

LEMMA PutStands ==
    ASSUME NEW s \in PickerState, Fitting(s), NEW c \in Wheel, NEW spot \in Nat, NEW way \in Nat
    PROVE  /\ OnItsWay(s, [s EXCEPT !.turned[c] = spot, !.goal[c] = way], c, way)
           /\ OnItsWay(s, [s EXCEPT !.goal[c] = way], c, way)
<1> DEFINE t == [s EXCEPT !.turned[c] = spot, !.goal[c] = way]
           u == [s EXCEPT !.goal[c] = way]
<1>1. /\ t \in PickerState /\ t.chosen = s.chosen /\ t.filled = s.filled /\ t.result = s.result
      /\ t.goal = [s.goal EXCEPT ![c] = way]
  BY DEF PickerState
<1>2. /\ u \in PickerState /\ u.chosen = s.chosen /\ u.filled = s.filled /\ u.result = s.result
      /\ u.goal = [s.goal EXCEPT ![c] = way]
  BY DEF PickerState
<1>3. s.goal \in [Wheel -> Nat]
  BY DEF PickerState
<1> HIDE DEF t, u
<1>4. OnItsWay(s, t, c, way)
  BY <1>1, <1>3 DEF OnItsWay, Fitting, Stands
<1>5. OnItsWay(s, u, c, way)
  BY <1>2, <1>3 DEF OnItsWay, Fitting, Stands
<1> QED BY <1>4, <1>5 DEF t, u

LEMMA RestNext ==
    ASSUME PickerInv, PickerRest, Picker!Next
    PROVE  PickerRest'
<1> DEFINE S == Picker!S
           T == {"no", "touched", "moved"}
<1>1. /\ S \in PickerState /\ S.chosen["first"] \in Choices /\ Fitting(S)
      /\ S.turned = turned /\ S.goal = goal /\ S.active = pickerActive /\ S.chosen = pickerChosen
      /\ S.result = result /\ S.filled = filled
      /\ option \in [onTouchmove : BOOLEAN, onMomentum : BOOLEAN]
  BY DEF PickerInv, Sound, Picker!S, PickerRest
<1>2. /\ Picker!Col = Wheel /\ pickerTouch \in [Wheel -> T] /\ pickerOpen \in BOOLEAN
      /\ ~pickerOpen => \A c \in Wheel : pickerTouch[c] = "no"
      /\ ~option.onMomentum =>
           /\ frames = {}
           /\ pickerOpen => \A c \in Wheel : pickerTouch[c] # "moved" => Stands(S, c)
  BY DEF Picker!Col, Wheel, PickerRest
<1> HIDE DEF S
<1>3. ASSUME NEW c \in Wheel, Picker!TouchStart(c) PROVE PickerRest'
  <2>1. Picker!Become(S) /\ pickerTouch' = [pickerTouch EXCEPT ![c] = "touched"] /\ pickerTouch[c] = "no"
        /\ frames' = frames /\ pickerOpen' = pickerOpen /\ pickerOpen
    BY <1>3 DEF Picker!TouchStart, S
  <2> QED BY <1>1, <1>2, <2>1, RestBecomes
<1>4. ASSUME NEW c \in Wheel, Picker!TouchMove(c) PROVE PickerRest'
  <2>1. /\ pickerTouch' = [pickerTouch EXCEPT ![c] = "moved"] /\ pickerOpen' = pickerOpen /\ pickerOpen
        /\ frames' = IF pickerTouch[c] = "touched" THEN frames \ {c} ELSE frames
    BY <1>4 DEF Picker!TouchMove
  <2>2. PICK spot \in 0 .. 2 * Picker!LastItem(S, c) :
          LET s == [S EXCEPT !.turned[c] = spot, !.goal[c] = spot]
          IN  Picker!Become(Picker!Update(s, c, Picker!Round(spot), option.onTouchmove))
    BY <1>4 DEF Picker!TouchMove, S
  <2> DEFINE s == [S EXCEPT !.turned[c] = spot, !.goal[c] = spot]
  <2>3. Picker!LastItem(S, c) \in Nat /\ spot \in Nat /\ Picker!Round(spot) \in Nat
        /\ Picker!Round(spot) <= Picker!LastItem(S, c)
    BY <1>1, <2>2, LastItemIs DEF Picker!Round
  <2>4. OnItsWay(S, s, c, spot)
    BY <1>1, <2>3, PutStands
  <2>5. Picker!Become(Picker!Update(s, c, Picker!Round(spot), option.onTouchmove))
    BY <2>2
  <2> HIDE DEF s
  <2>6. Picker!LastItem(s, c) = Picker!LastItem(S, c)
    BY <2>4 DEF Picker!LastItem, OnItsWay
  <2> DEFINE u == Picker!Update(s, c, Picker!Round(spot), option.onTouchmove)
  <2>7. u \in PickerState /\ Fitting(u) /\ \A d \in Wheel : d # c /\ Stands(s, d) => Stands(u, d)
    <3>1. option.onTouchmove \in BOOLEAN /\ s.chosen["first"] \in Choices
      BY <1>1, <2>4 DEF OnItsWay
    <3>2. s \in PickerState /\ Fitting(s)
      BY <2>4 DEF OnItsWay
    <3> QED BY <2>3, <2>6, <3>1, <3>2, UpdateStands
  <2> HIDE DEF u
  <2>8. Picker!Become(u)
    BY <2>5 DEF u
  <2>9. pickerTouch' \in [Wheel -> T] /\ pickerTouch'[c] = "moved" /\ \A d \in Wheel : d # c => pickerTouch'[d] = pickerTouch[d]
    BY <1>2, <2>1
  <2>10. ~option.onMomentum => frames' = {} /\ \A d \in Wheel : pickerTouch'[d] # "moved" => Stands(u, d)
    BY <1>2, <2>1, <2>4, <2>7, <2>9 DEF OnItsWay
  <2> QED BY <1>1, <1>2, <2>1, <2>7, <2>8, <2>9, <2>10, RestBecomes
<1>5. ASSUME NEW c \in Wheel, NEW s, NEW i \in Nat, OnItsWay(S, s, c, 2 * i), i <= Picker!LastItem(S, c),
             Picker!Become(Picker!Update(s, c, i, TRUE)),
             pickerTouch' = [pickerTouch EXCEPT ![c] = "no"], ~option.onMomentum => frames' = {},
             pickerOpen' = pickerOpen, pickerOpen
      PROVE  PickerRest'
  <2>1. Picker!LastItem(s, c) = Picker!LastItem(S, c)
    BY <1>5 DEF Picker!LastItem, OnItsWay
  <2> DEFINE u == Picker!Update(s, c, i, TRUE)
  <2>2. /\ u \in PickerState /\ Fitting(u) /\ (s.goal[c] = 2 * i => Stands(u, c))
        /\ \A d \in Wheel : d # c /\ Stands(s, d) => Stands(u, d)
    <3>1. s \in PickerState /\ s.chosen["first"] \in Choices /\ Fitting(s) /\ s.goal[c] = 2 * i
      BY <1>1, <1>5 DEF OnItsWay
    <3> QED BY <1>5, <2>1, <3>1, UpdateStands
  <2>3. Picker!Become(u)
    BY <1>5
  <2> HIDE DEF u
  <2>4. pickerTouch' \in [Wheel -> T] /\ pickerTouch'[c] = "no" /\ \A d \in Wheel : d # c => pickerTouch'[d] = pickerTouch[d]
    BY <1>2, <1>5
  <2>6. s.goal[c] = 2 * i /\ \A d \in Wheel : d # c /\ Stands(S, d) => Stands(s, d)
    BY <1>5 DEF OnItsWay
  <2>5. ~option.onMomentum => frames' = {} /\ \A d \in Wheel : pickerTouch'[d] # "moved" => Stands(u, d)
    BY <1>2, <1>5, <2>2, <2>4, <2>6
  <2> QED BY <1>1, <1>2, <1>5, <2>2, <2>3, <2>4, <2>5, RestBecomes
<1>6. ASSUME NEW c \in Wheel, Picker!TouchEnd(c) PROVE PickerRest'
  <2>1. pickerTouch' = [pickerTouch EXCEPT ![c] = "no"] /\ pickerOpen' = pickerOpen /\ pickerOpen
    BY <1>6 DEF Picker!TouchEnd
  <2>2. CASE pickerTouch[c] = "touched"
    <3>1. Picker!Become(S) /\ frames' = frames
      BY <1>6, <2>2 DEF Picker!TouchEnd, S
    <3> QED BY <1>1, <1>2, <2>1, <2>2, <3>1, RestBecomes
  <2>3. CASE pickerTouch[c] # "touched"
    <3>1. PICK spot \in 0 .. 2 * Picker!LastItem(S, c) :
            LET s == [S EXCEPT !.goal[c] = 2 * Picker!Ceil(spot)]
            IN  Picker!Become(Picker!Update(s, c, Picker!Ceil(spot), TRUE))
      BY <1>6, <2>3 DEF Picker!TouchEnd, S
    <3>2. frames' = IF option.onMomentum THEN frames \cup {c} ELSE frames
      BY <1>6, <2>3 DEF Picker!TouchEnd
    <3>3. spot \in Nat /\ Picker!Ceil(spot) \in Nat /\ 2 * Picker!Ceil(spot) \in Nat
          /\ Picker!Ceil(spot) <= Picker!LastItem(S, c)
      BY <1>1, LastItemIs DEF Picker!Ceil
    <3> DEFINE s == [S EXCEPT !.goal[c] = 2 * Picker!Ceil(spot)]
    <3>4. OnItsWay(S, s, c, 2 * Picker!Ceil(spot))
      BY <1>1, <3>3, PutStands
    <3>5. Picker!Become(Picker!Update(s, c, Picker!Ceil(spot), TRUE))
      BY <3>1
    <3> HIDE DEF s
    <3> QED BY <1>2, <1>5, <2>1, <3>2, <3>3, <3>4, <3>5
  <2> QED BY <2>2, <2>3
<1>7. ASSUME NEW c \in Wheel, Picker!SetValue(c) PROVE PickerRest'
  <2>1. PICK i \in 0 .. Picker!LastItem(S, c) :
          /\ Picker!Become(Picker!Update([S EXCEPT !.goal[c] = 2 * i], c, i, TRUE))
          /\ frames' = IF option.onMomentum /\ pickerActive[c] \notin {0, i} THEN frames \cup {c}
                       ELSE frames \ {c}
    BY <1>7 DEF Picker!SetValue, S
  <2>2. pickerTouch[c] = "no" /\ pickerTouch' = pickerTouch /\ pickerOpen' = pickerOpen /\ pickerOpen
    BY <1>7 DEF Picker!SetValue
  <2>3. i \in Nat /\ 2 * i \in Nat /\ i <= Picker!LastItem(S, c)
    BY <1>1, LastItemIs
  <2> DEFINE s == [S EXCEPT !.goal[c] = 2 * i]
  <2>4. OnItsWay(S, s, c, 2 * i)
    BY <1>1, <2>3, PutStands
  <2>5. Picker!Become(Picker!Update(s, c, i, TRUE))
    BY <2>1
  <2> HIDE DEF s
  <2>6. pickerTouch' = [pickerTouch EXCEPT ![c] = "no"]
    BY <1>2, <2>2
  <2> QED BY <1>2, <1>5, <2>1, <2>2, <2>3, <2>4, <2>5, <2>6
<1>8. ASSUME NEW c \in Wheel, Picker!Slide(c) PROVE PickerRest'
  <2>1. UNCHANGED <<option, goal, pickerActive, pickerChosen, filled, result, pickerTouch, pickerOpen>>
        /\ frames' \subseteq frames
    BY <1>8 DEF Picker!Slide
  <2>2. Picker!S'.chosen = S.chosen /\ Picker!S'.goal = S.goal /\ Picker!S'.filled = S.filled /\ Picker!S'.result = S.result
    BY <1>1, <2>1 DEF Picker!S
  <2>3. Fitting(Picker!S)' /\ \A d \in Wheel : Stands(S, d) => Stands(Picker!S, d)'
    BY <1>1, <2>2 DEF Fitting, Stands
  <2> QED BY <1>2, <2>1, <2>3 DEF PickerRest
<1>9. ASSUME NEW c \in Wheel, Picker!Frame(c) PROVE PickerRest'
  <2>1. /\ Picker!Become(Picker!Update(S, c, Picker!Round(turned[c]), TRUE)) /\ option.onMomentum
        /\ pickerTouch' = pickerTouch /\ pickerOpen' = pickerOpen /\ frames' = frames
    BY <1>1, <1>2, <1>9 DEF Picker!Frame, S
  <2>2. turned[c] \in Nat
    BY <1>1 DEF PickerState
  <2> DEFINE i == Picker!Round(turned[c])
             u == Picker!Update(S, c, i, TRUE)
  <2>3. i \in Nat
    BY <2>2, Halves
  <2> HIDE DEF i
  <2>4. u \in PickerState /\ Fitting(u)
    BY <1>1, <2>3, UpdateStands
  <2> HIDE DEF u
  <2>5. Picker!Become(u)
    BY <2>1 DEF u, i
  <2> QED BY <1>1, <1>2, <2>1, <2>4, <2>5, RestBecomes
<1>10. CASE Picker!Resize
  <2> DEFINE put == [c \in Wheel |-> 2 * pickerChosen[c]]
             s == [S EXCEPT !.turned = put, !.goal = put, !.active = pickerChosen]
  <2>1. pickerChosen \in [Wheel -> Nat]
    BY <1>1 DEF PickerState
  <2>2. put \in [Wheel -> Nat] /\ \A c \in Wheel : put[c] = 2 * pickerChosen[c]
    BY <2>1
  <2>3. /\ Picker!Become(s) /\ pickerTouch' = pickerTouch /\ pickerOpen' = pickerOpen /\ frames' = frames
    BY <1>2, <1>10 DEF Picker!Resize, S
  <2> HIDE DEF put
  <2>4. s \in PickerState /\ s.chosen = pickerChosen /\ s.goal = put /\ s.filled = S.filled /\ s.result = S.result
    BY <1>1, <2>1, <2>2 DEF PickerState
  <2> HIDE DEF s
  <2>5. Fitting(s) /\ \A c \in Wheel : Stands(s, c)
    BY <1>1, <2>2, <2>4 DEF Fitting, Stands
  <2> QED BY <1>1, <1>2, <2>3, <2>4, <2>5, RestBecomes
<1>11. CASE Picker!Close
  <2>1. Picker!Become(S) /\ pickerTouch' = [c \in Wheel |-> "no"] /\ pickerOpen' = FALSE /\ frames' = {}
    BY <1>2, <1>11 DEF Picker!Close, S
  <2> QED BY <1>1, <2>1, RestBecomes
<1>12. CASE Picker!Open
  <2> DEFINE Put(s, c, i) == Picker!Update([s EXCEPT !.turned[c] = 2 * i, !.goal[c] = 2 * i], c, i, TRUE)
             s1 == Put(S, "first", result[1])
             s2 == Put(s1, "second", result[3])
  <2>1. /\ Picker!Become(IF s1.filled = result[2] THEN s2 ELSE s1) /\ pickerOpen' = TRUE
        /\ pickerTouch' = pickerTouch /\ frames' = frames /\ ~pickerOpen
    BY <1>12 DEF Picker!Open, S
  <2>2. result \in Choices \X Choices \X Nat
    BY <1>1 DEF PickerState
  <2>3. result[1] \in Nat /\ 2 * result[1] \in Nat /\ result[1] \in Choices /\ result[3] \in Nat /\ 2 * result[3] \in Nat
    BY <2>2, ChoicesCount
  <2>4. ASSUME NEW s \in PickerState, s.chosen["first"] \in Choices, Fitting(s), NEW c \in Wheel, NEW i \in Nat,
               2 * i \in Nat, i <= Picker!LastItem(s, c)
        PROVE  /\ Put(s, c, i) \in PickerState /\ Put(s, c, i).chosen["first"] \in Choices /\ Fitting(Put(s, c, i))
               /\ Stands(Put(s, c, i), c) /\ (\A d \in Wheel : d # c /\ Stands(s, d) => Stands(Put(s, c, i), d))
               /\ Put(s, c, i).filled = s.filled \/ Stands(Put(s, c, i), "second")
    <3> DEFINE t == [s EXCEPT !.turned[c] = 2 * i, !.goal[c] = 2 * i]
    <3>5. OnItsWay(s, t, c, 2 * i)
      BY <2>4, PutStands
    <3> HIDE DEF t
    <3>1. /\ t \in PickerState /\ t.chosen = s.chosen /\ t.filled = s.filled
          /\ Fitting(t) /\ t.goal[c] = 2 * i
          /\ \A d \in Wheel : d # c /\ Stands(s, d) => Stands(t, d)
      BY <3>5 DEF OnItsWay
    <3>2. Picker!LastItem(t, c) = Picker!LastItem(s, c)
      BY <3>1 DEF Picker!LastItem
    <3> DEFINE u == Picker!Update(t, c, i, TRUE)
    <3>3. /\ u \in PickerState /\ u.chosen["first"] \in Choices /\ Fitting(u) /\ Stands(u, c)
          /\ \A d \in Wheel : d # c /\ Stands(t, d) => Stands(u, d)
          /\ u.filled = t.filled \/ Stands(u, "second")
      BY <2>4, <3>1, <3>2, UpdateStands
    <3>4. u = Put(s, c, i)
      BY DEF u, t
    <3> HIDE DEF u, Put
    <3> QED BY <3>1, <3>3, <3>4
  <2> HIDE DEF Put
  <2>5. result[1] <= Picker!LastItem(S, "first")
    BY <2>3, ChoicesCount, PickerCount DEF Picker!LastItem, Picker!Items, Choices
  <2>6. /\ s1 \in PickerState /\ s1.chosen["first"] \in Choices /\ Fitting(s1) /\ Stands(s1, "first")
        /\ s1.filled = S.filled \/ Stands(s1, "second")
    BY <1>1, <2>3, <2>4, <2>5 DEF Wheel
  <2> HIDE DEF s1
  <2>7. CASE s1.filled = result[2]
    <3>1. result[3] < Length[s1.filled] /\ Length[s1.filled] \in Nat
      BY <1>1, <2>3, <2>6, <2>7, ChoicesCount DEF Fitting, PickerState
    <3>2. result[3] <= Picker!LastItem(s1, "second")
      BY <2>3, <3>1 DEF Picker!LastItem
    <3>3. /\ s2 \in PickerState /\ Fitting(s2) /\ \A c \in Wheel : Stands(s2, c)
      BY <2>3, <2>4, <2>6, <3>2 DEF Wheel
    <3> HIDE DEF s2
    <3>4. Picker!Become(s2)
      BY <2>1, <2>7
    <3> QED BY <1>1, <1>2, <2>1, <3>3, <3>4, RestBecomes
  <2>8. CASE s1.filled # result[2]
    <3>1. \A c \in Wheel : Stands(s1, c)
      BY <1>1, <2>6, <2>8 DEF Wheel, Fitting
    <3>2. Picker!Become(s1)
      BY <2>1, <2>8
    <3> QED BY <1>1, <1>2, <2>1, <2>6, <3>1, <3>2, RestBecomes
  <2> QED BY <2>7, <2>8
<1> QED BY <1>2, <1>3, <1>4, <1>6, <1>7, <1>8, <1>9, <1>10, <1>11, <1>12 DEF Picker!Next

-----------------------------------------------------------------------------
(* The scroller.                                                           *)

Movement == [from : Int, to : Int]
Scrolling ==
    [moved : BOOLEAN, y : Int, start : Int, dir : {-1, 0, 1}, max : Ends, page : Nat,
     inTransition : BOOLEAN, trans : Movement \cup {NULL}, animating : BOOLEAN,
     loops : SUBSET Movement, bar : {0, 1}, odd : SUBSET {"cut", "lost", "raced"}]

Raced(s) == "raced" \in s.odd
\* What moves the content is what the options say, and one loop at most runs.
Tracks(s) ==
    /\ s.trans # NULL => scrollOpt.css
    /\ s.loops # {} => ~scrollOpt.css
    /\ \A k, l \in s.loops : k = l
Moving(s) == Tracks(s) /\ (s.trans # NULL => s.inTransition)

\* Where the content goes, or stands: within its bounds, and at the page.
Bound(s, to) == IF s.loops = {} THEN s.y = to ELSE \A l \in s.loops : l.to = to
Within(s) == s.max <= s.y /\ s.y <= 0
AtPage(s) == scrollOpt.snap /\ "lost" \notin s.odd => Bound(s, Scroller!PageTop(s.max, s.page))
Free(s) ==
    /\ s.loops # {} => s.animating
    /\ s.trans = NULL /\ s.loops = {} => Within(s)
    /\ AtPage(s)
\* A finger that has not moved anything waits for what it has stopped.
Waits(s) ==
    /\ AtPage(s)
    /\ scrollOpt.snap /\ s.loops # {} /\ ~s.animating => "lost" \in s.odd
Calm(s, d) == IF d THEN s.moved \/ Waits(s) ELSE Free(s)
\* A scrollbar that is seen will hear of the end, unless that was cut off.
Hides(s) == s.bar = 1 => s.trans # NULL \/ s.loops # {} \/ "cut" \in s.odd

\* The state while a finger is down (d) and the wheel turns (w).
ScrollOK(s, d, w) ==
    /\ s \in Scrolling
    /\ ~Raced(s) => Moving(s) /\ Calm(s, d) /\ (~d /\ ~w => Hides(s))
ScrollInv ==
    /\ scrollOpt \in [css : BOOLEAN, snap : BOOLEAN] /\ down \in BOOLEAN /\ wheel \in BOOLEAN
    /\ ScrollOK(Scroller!S, down, wheel)

LEMMA ScrollKnows ==
    /\ ScrollSetting \subseteq [css : BOOLEAN, snap : BOOLEAN]
    /\ \A m \in Ends : m \in Int /\ m < 0
    /\ Step \in Nat \ {0} /\ Threshold \in Int /\ NULL \notin Movement
BY AssumptionOfScrolls DEF Scroller!ScrollAssumption, Movement

LEMMA FreeCalm ==
    ASSUME NEW s \in Scrolling, Free(s), NEW d \in BOOLEAN
    PROVE  Calm(s, d)
BY DEF Calm, Free, Waits

\* Pages lie within the bounds.
LEMMA PageTopWithin ==
    ASSUME NEW m \in Ends, NEW p \in Nat
    PROVE  LET to == Scroller!PageTop(m, p) IN to \in Int /\ m <= to /\ to <= 0
<1>1. m \in Int /\ m < 0 /\ Step \in Nat
  BY ScrollKnows
<1>2. Step * p \in Nat
  BY <1>1
<1> QED BY <1>1, <1>2 DEF Scroller!PageTop, Scroller!Most

LEMMA LastPageIs ==
    ASSUME NEW m \in Ends
    PROVE  Scroller!LastPage(m) \in Nat
<1>1. m \in Int /\ m < 0 /\ Step \in Nat \ {0}
  BY ScrollKnows
<1> DEFINE n == Step - m - 1
<1>2. n \in Nat
  BY <1>1
<1> HIDE DEF n
<1>3. n \div Step \in Nat
  BY <1>1, <1>2
<1> QED BY <1>3 DEF Scroller!LastPage, n

LEMMA Clamps ==
    ASSUME NEW lo \in Int, NEW n \in Int, NEW hi \in Int, lo <= hi
    PROVE  LET k == Scroller!Clamp(lo, n, hi) IN k \in Int /\ lo <= k /\ k <= hi
BY DEF Scroller!Clamp, Scroller!Most, Scroller!Least

\* The nearest of the pages is the first of those that are near.
LEMMA NearestPage ==
    ASSUME NEW s \in Scrolling, NEW to \in Int
    PROVE  Scroller!NearestSnap(s, to) \in Nat
<1> DEFINE m == s.max
           t == Scroller!Clamp(m, to, 0)
           near == {p \in 0 .. Scroller!LastPage(m) : t >= -Step * p - Step \div 2}
           first == CHOOSE p \in near : \A q \in near : p <= q
           p == IF near = {} THEN Scroller!LastPage(m) ELSE first
<1>1. m \in Ends /\ s.page \in Nat /\ s.dir \in Int
  BY DEF Scrolling
<1>2. Scroller!LastPage(m) \in Nat
  BY <1>1, LastPageIs
<1>3. near \in SUBSET Nat
  BY <1>2
<1> HIDE DEF near, m
<1>4. ASSUME near # {} PROVE first \in near
  <2> DEFINE R == {ss \in Nat \X Nat : ss[1] < ss[2]}
  <2>1. IsWellFoundedOn(R, Nat)
    BY NatLessThanWellFounded DEF OpToRel
  <2> HIDE DEF R
  <2>2. PICK k \in near : \A q \in near : ~ (<<q, k>> \in R)
    BY <1>3, <1>4, <2>1, WFMin
  <2>3. \A q \in near : <<q, k>> \in Nat \X Nat
    BY <1>3
  <2>4. \A q \in near : ~(q < k)
    BY <2>2, <2>3 DEF R
  <2>5. \A q \in near : k <= q
    BY <1>3, <2>4
  <2> QED BY <2>5
<1>5. p \in Nat
  BY <1>2, <1>3, <1>4
<1> HIDE DEF first, p
<1>6. Scroller!Clamp(0, p + s.dir, Scroller!LastPage(m)) \in Nat
  <2>1. 0 \in Int /\ p + s.dir \in Int /\ Scroller!LastPage(m) \in Int /\ 0 <= Scroller!LastPage(m)
    BY <1>1, <1>2, <1>5
  <2> DEFINE q == p + s.dir
             k == Scroller!Clamp(0, q, Scroller!LastPage(m))
  <2> HIDE DEF q
  <2>2. k \in Int /\ 0 <= k
    BY <2>1, Clamps DEF q
  <2> HIDE DEF k
  <2>3. k \in Nat
    BY <2>2
  <2> QED BY <2>3 DEF k, q
<1>7. Scroller!NearestSnap(s, to)
        = IF to - s.start < Threshold /\ -(to - s.start) < Threshold THEN s.page
          ELSE IF p = s.page THEN Scroller!Clamp(0, p + s.dir, Scroller!LastPage(m)) ELSE p
  BY DEF Scroller!NearestSnap, p, first, near, t, m
<1> QED BY <1>1, <1>5, <1>6, <1>7

\* What scrollTo leaves as it was, and where it leads.
Keeps(s, t) ==
    /\ t \in Scrolling /\ t.max = s.max /\ t.page = s.page /\ t.bar = s.bar /\ t.moved = s.moved
    /\ ("lost" \in t.odd <=> "lost" \in s.odd) /\ (Raced(s) => Raced(t))
Sent(t, to) == Moving(t) /\ Bound(t, to) /\ (t.loops # {} => t.animating)

LEMMA JumpSends ==
    ASSUME scrollOpt.css \in BOOLEAN, NEW s \in Scrolling, NEW to \in Int, ~Raced(s) => Tracks(s)
    PROVE  LET t == Scroller!Jump(s, to)
           IN  /\ Keeps(s, t)
               /\ ~Raced(t) => /\ Sent(t, to) /\ t.y = to /\ t.trans = NULL /\ t.loops = {} /\ s.loops = {}
                               /\ Hides(s) => Hides(t)
<1> DEFINE t == Scroller!Jump(s, to)
<1>1. CASE scrollOpt.css
  <2> DEFINE c == Scroller!Cut(s)
             od == IF s.trans # NULL THEN s.odd \cup {"cut"} ELSE s.odd
  <2>1. od \in SUBSET {"cut", "lost", "raced"} /\ s.odd \in SUBSET {"cut", "lost", "raced"}
    BY DEF Scrolling
  <2> HIDE DEF od
  <2>2. c = [s EXCEPT !.odd = od]
    BY DEF Scroller!Cut, od, Scrolling
  <2>3. t = [c EXCEPT !.inTransition = FALSE, !.trans = NULL, !.y = to]
    BY <1>1 DEF Scroller!Jump
  <2>4. c \in Scrolling /\ c.max = s.max /\ c.page = s.page /\ c.bar = s.bar /\ c.odd = od /\ c.loops = s.loops
        /\ c.moved = s.moved
    BY <2>1, <2>2 DEF Scrolling
  <2> HIDE DEF c, t
  <2>5. /\ t \in Scrolling /\ t.max = s.max /\ t.page = s.page /\ t.bar = s.bar /\ t.odd = od
        /\ t.loops = s.loops /\ t.y = to /\ t.trans = NULL /\ t.moved = s.moved
    BY <2>3, <2>4 DEF Scrolling
  <2>6. Keeps(s, t)
    BY <2>5 DEF Keeps, od, Raced
  <2>7. ASSUME ~Raced(t) PROVE t.loops = {} /\ s.loops = {} /\ Sent(t, to) /\ (Hides(s) => Hides(t))
    <3>1. Tracks(s)
      BY <2>6, <2>7 DEF Keeps
    <3>2. t.loops = {} /\ s.loops = {}
      BY <1>1, <2>5, <3>1 DEF Tracks
    <3>3. Sent(t, to)
      BY <2>5, <3>2 DEF Sent, Moving, Tracks, Bound
    <3>4. Hides(s) => Hides(t)
      BY <2>5, <3>2 DEF Hides, od
    <3> QED BY <3>2, <3>3, <3>4
  <2> QED BY <2>5, <2>6, <2>7 DEF t
<1>2. CASE ~scrollOpt.css
  <2> DEFINE od == IF s.loops = {} THEN s.odd ELSE s.odd \cup {"raced"}
  <2>1. od \in SUBSET {"cut", "lost", "raced"} /\ s.odd \in SUBSET {"cut", "lost", "raced"}
    BY DEF Scrolling
  <2> HIDE DEF od
  <2>2. t = [s EXCEPT !.y = to, !.odd = od]
    BY <1>2 DEF Scroller!Jump, od, Scrolling
  <2> HIDE DEF t
  <2>3. /\ t \in Scrolling /\ t.max = s.max /\ t.page = s.page /\ t.bar = s.bar /\ t.odd = od
        /\ t.loops = s.loops /\ t.y = to /\ t.trans = s.trans /\ t.moved = s.moved
    BY <2>1, <2>2 DEF Scrolling
  <2>4. Keeps(s, t)
    BY <2>3 DEF Keeps, od, Raced
  <2>5. ASSUME ~Raced(t) PROVE t.loops = {} /\ s.loops = {} /\ t.trans = NULL /\ Sent(t, to) /\ (Hides(s) => Hides(t))
    <3>1. Tracks(s) /\ t.loops = {} /\ s.loops = {}
      BY <2>3, <2>4, <2>5 DEF Keeps, Raced, od
    <3>2. t.trans = NULL
      BY <1>2, <2>3, <3>1 DEF Tracks
    <3>3. Sent(t, to)
      BY <2>3, <3>1, <3>2 DEF Sent, Moving, Tracks, Bound
    <3>4. Hides(s) => Hides(t)
      BY <2>3, <3>1, <3>2 DEF Hides, od
    <3> QED BY <3>1, <3>2, <3>3, <3>4
  <2> QED BY <2>3, <2>4, <2>5 DEF t
<1> QED BY <1>1, <1>2

LEMMA GlideSends ==
    ASSUME scrollOpt.css \in BOOLEAN, NEW s \in Scrolling, NEW to \in Int, ~Raced(s) => Tracks(s)
    PROVE  LET t == Scroller!Glide(s, to)
           IN  /\ Keeps(s, t)
               /\ ~Raced(t) => /\ Sent(t, to) /\ Hides(t)
                               /\ to # s.y => t.trans # NULL \/ t.loops # {}
                               /\ IF scrollOpt.css THEN t.y = to ELSE t.y = s.y
<1> DEFINE t == Scroller!Glide(s, to)
<1>1. NULL \notin Movement /\ s.y \in Int
  BY ScrollKnows DEF Scrolling
<1>2. CASE ~scrollOpt.css
  <2> DEFINE l == [from |-> s.y, to |-> to]
             ls == s.loops \cup {l}
             od == IF s.loops = {} THEN s.odd ELSE s.odd \cup {"raced"}
  <2>1. od \in SUBSET {"cut", "lost", "raced"} /\ s.odd \in SUBSET {"cut", "lost", "raced"}
        /\ l \in Movement /\ l.to = to /\ ls \in SUBSET Movement
    BY <1>1 DEF Scrolling, Movement
  <2>2. t = [s EXCEPT !.animating = TRUE, !.loops = ls, !.odd = od]
    BY <1>2 DEF Scroller!Glide, od, ls, l
  <2>3. s.loops = {} => ls = {l}
    OBVIOUS
  <2>4. ls # {}
    OBVIOUS
  <2> HIDE DEF od, t, ls, l
  <2>5. /\ t \in Scrolling /\ t.max = s.max /\ t.page = s.page /\ t.bar = s.bar /\ t.odd = od
        /\ t.loops = ls /\ t.y = s.y /\ t.trans = s.trans /\ t.animating = TRUE
        /\ t.moved = s.moved
    BY <2>1, <2>2 DEF Scrolling
  <2>6. Keeps(s, t)
    BY <2>5 DEF Keeps, od, Raced
  <2>7. ASSUME ~Raced(t) PROVE Sent(t, to) /\ Hides(t) /\ t.loops # {}
    <3>1. Tracks(s) /\ t.loops = {l}
      BY <2>3, <2>5, <2>6, <2>7 DEF Keeps, Raced, od
    <3>2. t.trans = NULL
      BY <1>2, <2>5, <3>1 DEF Tracks
    <3> QED BY <1>2, <2>1, <2>5, <3>1, <3>2 DEF Sent, Moving, Tracks, Bound, Hides
  <2> QED BY <1>2, <2>5, <2>6, <2>7 DEF t
<1>3. CASE scrollOpt.css /\ s.trans = NULL /\ to = s.y
  <2> DEFINE od == s.odd \cup {"cut"}
  <2>1. od \in SUBSET {"cut", "lost", "raced"} /\ s.odd \in SUBSET {"cut", "lost", "raced"}
    BY DEF Scrolling
  <2>2. t = [s EXCEPT !.inTransition = TRUE, !.odd = od]
    BY <1>3 DEF Scroller!Glide
  <2> HIDE DEF od, t
  <2>5. /\ t \in Scrolling /\ t.max = s.max /\ t.page = s.page /\ t.bar = s.bar /\ t.odd = od
        /\ t.loops = s.loops /\ t.y = s.y /\ t.trans = NULL /\ t.inTransition = TRUE
        /\ t.moved = s.moved
    BY <1>3, <2>1, <2>2 DEF Scrolling
  <2>6. Keeps(s, t)
    BY <2>5 DEF Keeps, od, Raced
  <2>7. ASSUME ~Raced(t) PROVE Sent(t, to) /\ Hides(t)
    <3>1. Tracks(s)
      BY <2>6, <2>7 DEF Keeps
    <3>2. t.loops = {}
      BY <1>3, <2>5, <3>1 DEF Tracks
    <3> QED BY <1>3, <2>5, <3>2 DEF Sent, Moving, Tracks, Bound, Hides, od
  <2> QED BY <1>3, <2>5, <2>6, <2>7 DEF t
<1>4. CASE scrollOpt.css /\ ~(s.trans = NULL /\ to = s.y)
  <2> DEFINE tr == [from |-> IF s.trans = NULL THEN s.y ELSE s.trans.from, to |-> to]
  <2>1. tr \in Movement /\ tr # NULL
    <3>1. s.trans = NULL \/ s.trans.from \in Int
      BY DEF Scrolling, Movement
    <3>2. tr \in Movement
      BY <1>1, <3>1 DEF Movement
    <3> QED BY <1>1, <3>2
  <2>2. t = [s EXCEPT !.inTransition = TRUE, !.y = to, !.trans = tr]
    BY <1>4 DEF Scroller!Glide, Scrolling
  <2> HIDE DEF tr, t
  <2>5. /\ t \in Scrolling /\ t.max = s.max /\ t.page = s.page /\ t.bar = s.bar /\ t.odd = s.odd
        /\ t.loops = s.loops /\ t.y = to /\ t.trans = tr /\ t.inTransition = TRUE
        /\ t.moved = s.moved
    BY <2>1, <2>2 DEF Scrolling
  <2>6. Keeps(s, t)
    BY <2>5 DEF Keeps, Raced
  <2>7. ASSUME ~Raced(t) PROVE Sent(t, to) /\ Hides(t)
    <3>1. Tracks(s)
      BY <2>6, <2>7 DEF Keeps
    <3>2. t.loops = {}
      BY <1>4, <2>5, <3>1 DEF Tracks
    <3> QED BY <1>4, <2>1, <2>5, <3>2 DEF Sent, Moving, Tracks, Bound, Hides
  <2> QED BY <1>4, <2>1, <2>5, <2>6, <2>7 DEF t
<1> QED BY <1>2, <1>3, <1>4

\* Both ways, at once or in time.
LEMMA ScrollSends ==
    ASSUME scrollOpt.css \in BOOLEAN, NEW s \in Scrolling, NEW to \in Int, ~Raced(s) => Tracks(s),
           NEW timed \in BOOLEAN
    PROVE  LET t == Scroller!ScrollTo(s, to, timed)
           IN  /\ Keeps(s, t)
               /\ ~Raced(t) => /\ Sent(t, to)
                               /\ timed \/ Hides(s) => Hides(t)
                               /\ ~timed => t.loops = {} /\ t.trans = NULL /\ t.y = to
                               /\ timed /\ to # s.y => t.trans # NULL \/ t.loops # {}
                               /\ timed /\ ~scrollOpt.css => t.y = s.y
BY JumpSends, GlideSends DEF Scroller!ScrollTo

LEMMA SentFree ==
    ASSUME NEW t \in Scrolling, NEW to \in Int, Sent(t, to), t.trans = NULL /\ t.loops = {} => t.max <= to /\ to <= 0,
           scrollOpt.snap /\ "lost" \notin t.odd => to = Scroller!PageTop(t.max, t.page)
    PROVE  Free(t)
BY DEF Sent, Free, AtPage, Bound, Within

LEMMA PageSends ==
    ASSUME scrollOpt.css \in BOOLEAN, NEW s \in Scrolling, NEW p \in Int, ~Raced(s) => Tracks(s),
           NEW timed \in BOOLEAN
    PROVE  LET t == Scroller!GoToPage(s, p, timed)
           IN  /\ t \in Scrolling /\ t.max = s.max /\ (Raced(s) => Raced(t))
               /\ ~Raced(t) => /\ Moving(t) /\ Free(t)
                               /\ timed \/ Hides(s) => Hides(t)
                               /\ ~timed => t.loops = {} /\ t.trans = NULL
<1> DEFINE q == Scroller!Clamp(0, p, Scroller!LastPage(s.max))
           r == [s EXCEPT !.page = q, !.odd = @ \ {"lost"}]
           to == Scroller!PageTop(s.max, q)
           t == Scroller!ScrollTo(r, to, timed)
<1>1. s.max \in Ends /\ s.odd \in SUBSET {"cut", "lost", "raced"}
  BY DEF Scrolling
<1>2. Scroller!LastPage(s.max) \in Nat
  BY <1>1, LastPageIs
<1>3. q \in Nat
  <2>1. q \in Int /\ 0 <= q
    <3>1. 0 \in Int /\ Scroller!LastPage(s.max) \in Int /\ 0 <= Scroller!LastPage(s.max)
      BY <1>2
    <3> QED BY <3>1, Clamps
  <2> HIDE DEF q
  <2> QED BY <2>1
<1> HIDE DEF q
<1>4. to \in Int /\ s.max <= to /\ to <= 0
  BY <1>1, <1>3, PageTopWithin
<1>5. /\ r \in Scrolling /\ r.page = q /\ r.odd = s.odd \ {"lost"} /\ r.max = s.max
      /\ r.trans = s.trans /\ r.loops = s.loops /\ r.bar = s.bar
  BY <1>1, <1>3 DEF Scrolling
<1>6. Scroller!GoToPage(s, p, timed) = t
  BY DEF Scroller!GoToPage, q
<1> HIDE DEF r
<1>7. (Raced(r) <=> Raced(s)) /\ (Tracks(s) => Tracks(r)) /\ (Hides(s) => Hides(r)) /\ "lost" \notin r.odd
  BY <1>5 DEF Raced, Tracks, Hides
<1>8. /\ Keeps(r, t)
      /\ ~Raced(t) => /\ Sent(t, to)
                      /\ timed \/ Hides(r) => Hides(t)
                      /\ ~timed => t.loops = {} /\ t.trans = NULL
  <2> HIDE DEF to
  <2> QED BY <1>4, <1>5, <1>7, ScrollSends
<1> HIDE DEF t
<1>9. ASSUME ~Raced(t) PROVE Moving(t) /\ Free(t)
  <2>1. t \in Scrolling /\ t.max = s.max /\ t.page = q /\ Sent(t, to)
    BY <1>5, <1>8, <1>9 DEF Keeps
  <2>2. Free(t)
    BY <1>4, <2>1, SentFree DEF to
  <2> QED BY <2>1, <2>2 DEF Sent
<1> QED BY <1>5, <1>6, <1>7, <1>8, <1>9 DEF Keeps

\* The events of the scrollbar.
LEMMA BarTold ==
    ASSUME NEW s \in Scrolling
    PROVE  LET t == Scroller!ScrollEnd(s)
           IN  /\ t \in Scrolling /\ (Raced(t) <=> Raced(s)) /\ Hides(t) /\ t.moved = s.moved
               /\ (Moving(s) => Moving(t)) /\ (Free(s) => Free(t)) /\ (Waits(s) => Waits(t))
<1> DEFINE t == Scroller!ScrollEnd(s)
           od == s.odd \ {"cut"}
<1>1. od \in SUBSET {"cut", "lost", "raced"} /\ ("lost" \in od <=> "lost" \in s.odd) /\ ("raced" \in od <=> "raced" \in s.odd)
  BY DEF Scrolling
<1>2. t = [s EXCEPT !.bar = 0, !.odd = od]
  BY DEF Scroller!ScrollEnd
<1> HIDE DEF od, t
<1>3. /\ t \in Scrolling /\ t.max = s.max /\ t.page = s.page /\ t.bar = 0 /\ t.odd = od /\ t.y = s.y
      /\ t.loops = s.loops /\ t.trans = s.trans /\ t.inTransition = s.inTransition /\ t.animating = s.animating
      /\ t.moved = s.moved
  BY <1>1, <1>2 DEF Scrolling
<1>4. Hides(t) /\ (Raced(t) <=> Raced(s)) /\ (Moving(s) => Moving(t))
  BY <1>1, <1>3 DEF Hides, Raced, Moving, Tracks
<1>5. (Free(s) => Free(t)) /\ (Waits(s) => Waits(t))
  BY <1>1, <1>3 DEF Free, Within, AtPage, Bound, Waits
<1> QED BY <1>3, <1>4, <1>5 DEF t

LEMMA BarStarts ==
    ASSUME NEW s \in Scrolling
    PROVE  LET t == Scroller!ScrollStart(s)
           IN  /\ t \in Scrolling /\ (Raced(t) <=> Raced(s)) /\ t.y = s.y /\ t.max = s.max /\ t.moved = s.moved
               /\ (Moving(s) => Moving(t)) /\ (Free(s) => Free(t)) /\ (Waits(s) => Waits(t))
<1> DEFINE t == Scroller!ScrollStart(s)
<1>1. t = [s EXCEPT !.bar = 1]
  BY DEF Scroller!ScrollStart
<1> HIDE DEF t
<1>3. /\ t \in Scrolling /\ t.max = s.max /\ t.page = s.page /\ t.odd = s.odd /\ t.y = s.y
      /\ t.loops = s.loops /\ t.trans = s.trans /\ t.inTransition = s.inTransition /\ t.animating = s.animating
      /\ t.moved = s.moved
  BY <1>1 DEF Scrolling
<1>4. (Raced(t) <=> Raced(s)) /\ (Moving(s) => Moving(t))
  BY <1>3 DEF Raced, Moving, Tracks
<1>5. (Free(s) => Free(t)) /\ (Waits(s) => Waits(t))
  BY <1>3 DEF Free, Within, AtPage, Bound, Waits
<1> QED BY <1>3, <1>4, <1>5 DEF t

LEMMA ResetSends ==
    ASSUME scrollOpt.css \in BOOLEAN, NEW s \in Scrolling, ~Raced(s) => Tracks(s), NEW timed \in BOOLEAN
    PROVE  \E to \in Int :
               LET t == Scroller!ResetPosition(s, timed)
               IN  /\ s.max <= to /\ to <= 0 /\ (Scroller!Outside(s) => to # s.y)
                   /\ Keeps(s, t)
                   /\ ~Raced(t) => /\ Sent(t, to)
                                   /\ timed \/ Hides(s) => Hides(t)
                                   /\ ~timed => t.loops = {} /\ t.trans = NULL /\ t.y = to
                                   /\ timed /\ to # s.y => t.trans # NULL \/ t.loops # {}
                                   /\ timed /\ ~scrollOpt.css => t.y = s.y
<1> DEFINE to == Scroller!Clamp(s.max, s.y, 0)
<1>1. s.max \in Int /\ s.max <= 0 /\ s.y \in Int /\ 0 \in Int
  BY ScrollKnows DEF Scrolling
<1>2. to \in Int /\ s.max <= to /\ to <= 0
  BY <1>1, Clamps
<1>3. Scroller!Outside(s) => to # s.y
  BY <1>1, <1>2 DEF Scroller!Outside
<1>4. Scroller!ResetPosition(s, timed) = Scroller!ScrollTo(s, to, timed)
  BY DEF Scroller!ResetPosition
<1> HIDE DEF to
<1> QED BY <1>2, <1>3, <1>4, ScrollSends

LEMMA ScrollBecomes ==
    ASSUME scrollOpt \in [css : BOOLEAN, snap : BOOLEAN], down' \in BOOLEAN, wheel' \in BOOLEAN,
           NEW s, ScrollOK(s, down', wheel'), Scroller!Become(s)
    PROVE  ScrollInv'
<1>1. Scroller!S' = s /\ scrollOpt' = scrollOpt
  BY DEF Scroller!Become, Scroller!S, ScrollOK, Scrolling
<1>2. /\ s \in Scrolling
      /\ ~Raced(s) => Moving(s) /\ Calm(s, down') /\ (~down' /\ ~wheel' => Hides(s))
  BY DEF ScrollOK
<1>3. (Tracks(s) => Tracks(Scroller!S)') /\ (Hides(s) => Hides(Scroller!S)') /\ (Raced(s) <=> Raced(Scroller!S)')
  BY <1>1 DEF Tracks, Hides, Raced
<1>4. Moving(s) => Moving(Scroller!S)'
  BY <1>1, <1>3 DEF Moving
<1>7. (Free(s) => Free(Scroller!S)') /\ (Waits(s) => Waits(Scroller!S)')
  BY <1>1 DEF Free, Waits, Within, AtPage, Bound, Scroller!PageTop, Scroller!Most
<1>8. s.moved = (Scroller!S)'.moved
  BY <1>1
<1>5. Calm(s, down') => Calm(Scroller!S, down)'
  BY <1>7, <1>8 DEF Calm
<1>6. (s \in Scrolling => (Scroller!S \in Scrolling)')
  BY <1>1 DEF Scrolling, Movement
<1> QED BY <1>1, <1>2, <1>3, <1>4, <1>5, <1>6 DEF ScrollInv, ScrollOK

LEMMA ScrollInit == Scroller!Init => ScrollInv
<1> SUFFICES ASSUME Scroller!Init PROVE ScrollInv
  OBVIOUS
<1> DEFINE s == Scroller!S
<1>1. scrollOpt \in [css : BOOLEAN, snap : BOOLEAN] /\ down = FALSE /\ wheel = FALSE
  BY ScrollKnows DEF Scroller!Init
<1>3. /\ scrollMoved = FALSE /\ scrollY = 0 /\ start = 0 /\ dir = 0 /\ max \in Ends /\ page = 0
      /\ inTransition = FALSE /\ scrollTrans = NULL /\ scrollAnimating = FALSE /\ loops = {} /\ bar = 0
      /\ scrollOdd = {}
  BY DEF Scroller!Init
<1>2. /\ s \in Scrolling /\ s.max = max /\ s.y = 0 /\ s.page = 0 /\ s.trans = NULL /\ s.loops = {}
      /\ s.odd = {} /\ s.bar = 0
  <2>1. scrollY \in Int /\ start \in Int /\ dir \in {-1, 0, 1} /\ page \in Nat /\ bar \in {0, 1}
    BY <1>3
  <2>4. scrollMoved \in BOOLEAN /\ inTransition \in BOOLEAN /\ scrollAnimating \in BOOLEAN
    BY <1>3, Zenon
  <2>5. scrollTrans \in Movement \cup {NULL}
    BY <1>3, Zenon
  <2>2. loops \in SUBSET Movement /\ scrollOdd \in SUBSET {"cut", "lost", "raced"}
    BY <1>3
  <2>3. s \in Scrolling
    BY <1>3, <2>1, <2>2, <2>4, <2>5 DEF Scroller!S, Scrolling
  <2> QED BY <1>3, <2>3 DEF Scroller!S
<1> HIDE DEF s
<1>4. Step \in Nat /\ max \in Int /\ max < 0
  BY <1>3, ScrollKnows
<1>5. Scroller!PageTop(max, 0) = 0
  BY <1>4 DEF Scroller!PageTop, Scroller!Most
<1>6. Moving(s) /\ Free(s) /\ Hides(s)
  BY <1>2, <1>4, <1>5 DEF Moving, Tracks, Free, Within, AtPage, Bound, Hides
<1> QED BY <1>1, <1>2, <1>6, FreeCalm DEF ScrollInv, ScrollOK, s

\* What has come to its end stands within the bounds or is sent there.
LEMMA AtEndOK ==
    ASSUME scrollOpt.css \in BOOLEAN, NEW s \in Scrolling, ~Raced(s) => Tracks(s), s.trans = NULL, s.loops = {},
           NEW d \in BOOLEAN, NEW w \in BOOLEAN, ~Raced(s) /\ (~d \/ ~s.moved) => AtPage(s)
    PROVE  ScrollOK(Scroller!AtEnd(s), d, w)
<1> DEFINE t == Scroller!AtEnd(s)
<1>1. CASE Scroller!Outside(s)
  <2>1. t = Scroller!ResetPosition(s, TRUE)
    BY <1>1 DEF Scroller!AtEnd
  <2> HIDE DEF t
  <2>2. PICK to \in Int :
          /\ s.max <= to /\ to <= 0 /\ to # s.y
          /\ Keeps(s, t)
          /\ ~Raced(t) => Sent(t, to) /\ Hides(t)
    BY <1>1, <2>1, ResetSends
  <2>3. ASSUME ~Raced(t), ~d \/ ~s.moved PROVE Free(t)
    <3>1. AtPage(s) /\ Sent(t, to) /\ t.max = s.max /\ t \in Scrolling /\ ("lost" \in s.odd <=> "lost" \in t.odd)
      BY <2>2, <2>3 DEF Keeps
    <3>2. ~(scrollOpt.snap /\ "lost" \notin s.odd)
      <4>1. s.max \in Ends /\ s.page \in Nat /\ s.y \in Int /\ s.max \in Int
        BY ScrollKnows DEF Scrolling
      <4>2. LET pt == Scroller!PageTop(s.max, s.page) IN pt \in Int /\ s.max <= pt /\ pt <= 0
        BY <4>1, PageTopWithin
      <4>3. s.y # Scroller!PageTop(s.max, s.page)
        BY <1>1, <4>1, <4>2 DEF Scroller!Outside
      <4> QED BY <3>1, <4>3 DEF AtPage, Bound
    <3> QED BY <2>2, <3>1, <3>2, SentFree
  <2>4. t \in Scrolling /\ t.moved = s.moved
    BY <2>2 DEF Keeps
  <2>5. ~Raced(t) => Calm(t, d)
    BY <2>3, <2>4, FreeCalm DEF Calm
  <2> QED BY <2>2, <2>4, <2>5 DEF ScrollOK, Sent, t
<1>2. CASE ~Scroller!Outside(s)
  <2> DEFINE r == [s EXCEPT !.inTransition = FALSE]
  <2>1. t = Scroller!ScrollEnd(r)
    BY <1>2 DEF Scroller!AtEnd
  <2>2. /\ r \in Scrolling /\ r.max = s.max /\ r.page = s.page /\ r.odd = s.odd /\ r.y = s.y
        /\ r.loops = {} /\ r.trans = NULL /\ r.moved = s.moved
    BY DEF Scrolling
  <2> HIDE DEF r, t
  <2>3. s.y \in Int /\ s.max \in Int
    BY ScrollKnows DEF Scrolling
  <2>4. /\ t \in Scrolling /\ (Raced(t) <=> Raced(r)) /\ Hides(t) /\ t.moved = r.moved
        /\ (Moving(r) => Moving(t)) /\ (Free(r) => Free(t))
    BY <2>1, <2>2, BarTold
  <2>5. Moving(r) /\ (Raced(r) <=> Raced(s))
    BY <2>2 DEF Moving, Tracks, Raced
  <2>6. ~Raced(s) /\ (~d \/ ~s.moved) => Free(r)
    BY <1>2, <2>2, <2>3 DEF Free, Within, AtPage, Bound, Scroller!Outside
  <2>7. ~Raced(t) => Calm(t, d)
    BY <2>2, <2>4, <2>5, <2>6, FreeCalm DEF Calm
  <2> QED BY <2>4, <2>5, <2>7 DEF ScrollOK, t
<1> QED BY <1>1, <1>2

LEMMA SeenInt ==
    ASSUME NEW s \in Scrolling
    PROVE  Scroller!Seen(s) \subseteq Int
<1>1. s.y \in Int /\ (s.trans # NULL => s.trans.from \in Int /\ s.trans.to \in Int)
  BY DEF Scrolling, Movement
<1> QED BY <1>1 DEF Scroller!Seen, Scroller!Between, Scroller!Least, Scroller!Most

LEMMA ScrollHas ==
    ASSUME ScrollInv
    PROVE  LET s == Scroller!S
           IN  /\ scrollOpt \in [css : BOOLEAN, snap : BOOLEAN] /\ down \in BOOLEAN /\ wheel \in BOOLEAN
               /\ s \in Scrolling /\ ScrollOK(s, down, wheel)
               /\ s.moved = scrollMoved /\ s.y = scrollY /\ s.start = start /\ s.dir = dir /\ s.max = max /\ s.page = page
               /\ s.inTransition = inTransition /\ s.trans = scrollTrans /\ s.animating = scrollAnimating
               /\ s.loops = loops /\ s.bar = bar /\ s.odd = scrollOdd
BY DEF ScrollInv, ScrollOK, Scroller!S

\* What is stopped is said to be astray from its page, and nothing else changes.
LEMMA AstrayIs ==
    ASSUME NEW s \in Scrolling, scrollOpt.snap \in BOOLEAN
    PROVE  LET t == Scroller!Astray(s)
           IN  /\ t \in Scrolling /\ t.max = s.max /\ t.page = s.page /\ t.bar = s.bar /\ t.y = s.y
               /\ t.loops = s.loops /\ t.trans = s.trans /\ t.inTransition = s.inTransition /\ t.animating = s.animating
               /\ (Raced(t) <=> Raced(s)) /\ (Tracks(s) => Tracks(t)) /\ (Moving(s) => Moving(t)) /\ (Hides(s) => Hides(t))
               /\ scrollOpt.snap \/ "lost" \in s.odd => "lost" \in t.odd
<1> DEFINE t == Scroller!Astray(s)
           od == IF scrollOpt.snap THEN s.odd \cup {"lost"} ELSE s.odd
<1>1. s.odd \in SUBSET {"cut", "lost", "raced"}
  BY DEF Scrolling
<1>2. /\ od \in SUBSET {"cut", "lost", "raced"} /\ ("raced" \in od <=> "raced" \in s.odd) /\ ("cut" \in od <=> "cut" \in s.odd)
      /\ scrollOpt.snap \/ "lost" \in s.odd => "lost" \in od
  BY <1>1
<1>5. t = [s EXCEPT !.odd = od]
  BY DEF Scroller!Astray, Scrolling
<1> HIDE DEF t, od
<1>6. /\ t \in Scrolling /\ t.max = s.max /\ t.page = s.page /\ t.bar = s.bar /\ t.odd = od /\ t.y = s.y
      /\ t.loops = s.loops /\ t.trans = s.trans /\ t.inTransition = s.inTransition /\ t.animating = s.animating
  BY <1>2, <1>5 DEF Scrolling
<1>7. (Raced(t) <=> Raced(s)) /\ (Tracks(s) => Tracks(t)) /\ (Moving(s) => Moving(t)) /\ (Hides(s) => Hides(t))
  BY <1>2, <1>6 DEF Raced, Moving, Tracks, Hides
<1> QED BY <1>2, <1>6, <1>7 DEF t

LEMMA HaltedIs ==
    ASSUME NEW s \in Scrolling, scrollOpt.snap \in BOOLEAN
    PROVE  LET t == Scroller!Halted(s)
           IN  /\ t \in Scrolling /\ t.max = s.max /\ t.page = s.page /\ t.y = s.y
               /\ t.loops = s.loops /\ t.trans = s.trans /\ t.inTransition = s.inTransition /\ t.animating = s.animating
               /\ (Raced(t) <=> Raced(s)) /\ (Moving(s) => Moving(t))
               /\ scrollOpt.snap /\ (s.trans # NULL \/ s.loops # {}) => "lost" \in t.odd
               /\ "lost" \in s.odd => "lost" \in t.odd
<1>1. CASE s.trans # NULL \/ s.loops # {}
  <2>1. Scroller!Halted(s) = Scroller!Astray(s)
    BY <1>1 DEF Scroller!Halted
  <2> QED BY <2>1, AstrayIs
<1>2. CASE ~(s.trans # NULL \/ s.loops # {})
  <2>1. Scroller!Halted(s) = s
    BY <1>2 DEF Scroller!Halted
  <2> QED BY <1>2, <2>1
<1> QED BY <1>1, <1>2

\* A pointer that comes down stops what it sees.
LEMMA ScrollStarted ==
    ASSUME ScrollInv, ~Raced(Scroller!S), Scroller!Start
    PROVE  ScrollInv'
<1> DEFINE S == Scroller!S
           h == Scroller!Halted(S)
<1>1. /\ scrollOpt \in [css : BOOLEAN, snap : BOOLEAN] /\ wheel \in BOOLEAN
      /\ S \in Scrolling /\ ScrollOK(S, down, wheel) /\ S.inTransition = inTransition
  BY ScrollHas
<1>2. PICK s \in Scroller!Stopped(S) :
        \E t \in Scroller!BeforeScrollStart([s EXCEPT !.start = s.y]) : Scroller!Become(t)
  BY DEF Scroller!Start
<1>9. ~down /\ down' = TRUE /\ wheel' = wheel
  BY DEF Scroller!Start
<1>10. PICK t \in Scroller!BeforeScrollStart([s EXCEPT !.start = s.y]) : Scroller!Become(t)
  BY <1>2
<1>11. Moving(S) /\ Free(S) /\ ~Raced(S)
  BY <1>1, <1>9 DEF ScrollOK, Calm
<1> HIDE DEF S
<1>12. /\ h \in Scrolling /\ h.max = S.max /\ h.page = S.page /\ h.y = S.y
       /\ h.loops = S.loops /\ h.trans = S.trans /\ h.inTransition = S.inTransition /\ h.animating = S.animating
       /\ ~Raced(h) /\ Moving(h)
       /\ scrollOpt.snap /\ (S.trans # NULL \/ S.loops # {}) => "lost" \in h.odd
       /\ "lost" \in S.odd => "lost" \in h.odd
  BY <1>1, <1>11, HaltedIs
<1> HIDE DEF h
<1>13. scrollOpt.snap /\ "lost" \notin h.odd
          => S.trans = NULL /\ S.loops = {} /\ S.y = Scroller!PageTop(S.max, S.page)
  BY <1>11, <1>12 DEF Free, AtPage, Bound
<1>3. s \in Scrolling /\ Moving(s) /\ ~Raced(s) /\ Waits(s)
  <2>1. ASSUME scrollOpt.css, NEW p \in Scroller!Seen(S),
               s = Scroller!ScrollEnd([h EXCEPT !.inTransition = FALSE, !.trans = NULL, !.y = p])
        PROVE  s \in Scrolling /\ Moving(s) /\ ~Raced(s) /\ Waits(s)
    <3> DEFINE r == [h EXCEPT !.inTransition = FALSE, !.trans = NULL, !.y = p]
    <3>1. p \in Int
      BY <1>1, SeenInt
    <3>2. /\ r \in Scrolling /\ r.trans = NULL /\ r.loops = h.loops /\ r.odd = h.odd /\ r.y = p
          /\ r.max = h.max /\ r.page = h.page
      BY <1>12, <3>1 DEF Scrolling
    <3>3. s = Scroller!ScrollEnd(r)
      BY <2>1
    <3> HIDE DEF r
    <3>4. ~Raced(r) /\ Moving(r)
      BY <1>12, <3>2 DEF Raced, Moving, Tracks
    <3>5. S.trans = NULL => p = S.y
      BY <2>1 DEF Scroller!Seen
    <3>6. scrollOpt.snap /\ "lost" \notin r.odd => r.loops = {} /\ r.y = Scroller!PageTop(r.max, r.page)
      BY <1>12, <1>13, <3>2, <3>5
    <3>7. Waits(r)
      BY <3>6 DEF Waits, AtPage, Bound
    <3> QED BY <3>2, <3>3, <3>4, <3>7, BarTold
  <2>2. ASSUME s = Scroller!ScrollEnd([h EXCEPT !.animating = FALSE])
        PROVE  s \in Scrolling /\ Moving(s) /\ ~Raced(s) /\ Waits(s)
    <3> DEFINE r == [h EXCEPT !.animating = FALSE]
    <3>2. /\ r \in Scrolling /\ r.trans = h.trans /\ r.loops = h.loops /\ r.odd = h.odd /\ r.y = h.y
          /\ r.inTransition = h.inTransition /\ r.max = h.max /\ r.page = h.page
      BY <1>12 DEF Scrolling
    <3>3. s = Scroller!ScrollEnd(r)
      BY <2>2
    <3> HIDE DEF r
    <3>4. ~Raced(r) /\ Moving(r)
      BY <1>12, <3>2 DEF Raced, Moving, Tracks
    <3>6. scrollOpt.snap /\ "lost" \notin r.odd => r.loops = {} /\ r.y = Scroller!PageTop(r.max, r.page)
      BY <1>12, <1>13, <3>2
    <3>7. Waits(r)
      BY <3>6 DEF Waits, AtPage, Bound
    <3> QED BY <3>2, <3>3, <3>4, <3>7, BarTold
  <2>3. Waits(S)
    BY <1>11 DEF Free, Waits
  <2> QED BY <1>1, <1>2, <1>11, <2>1, <2>2, <2>3 DEF Scroller!Stopped, h
<1> DEFINE r == [s EXCEPT !.start = s.y]
<1>4. /\ r \in Scrolling /\ r.trans = s.trans /\ r.loops = s.loops /\ r.odd = s.odd /\ r.inTransition = s.inTransition
      /\ r.y = s.y /\ r.max = s.max /\ r.page = s.page /\ r.animating = s.animating
  BY <1>3 DEF Scrolling
<1>5. t = r \/ t = Scroller!ScrollStart(r)
  BY <1>10 DEF Scroller!BeforeScrollStart
<1> HIDE DEF r
<1>6. ~Raced(r) /\ Moving(r) /\ Waits(r)
  BY <1>3, <1>4 DEF Raced, Moving, Tracks, Waits, AtPage, Bound
<1>7. t \in Scrolling /\ Moving(t) /\ Waits(t)
  BY <1>4, <1>5, <1>6, BarStarts
<1>8. ScrollOK(t, down', wheel') /\ down' \in BOOLEAN /\ wheel' \in BOOLEAN
  BY <1>1, <1>7, <1>9 DEF ScrollOK, Calm
<1> QED BY <1>1, <1>8, <1>10, ScrollBecomes

LEMMA ScrollMoved ==
    ASSUME ScrollInv, NEW d \in {-1, 1}, Scroller!Move(d)
    PROVE  ScrollInv'
<1> DEFINE S == Scroller!S
           to == Scroller!Clamp(max - 1, S.y + d, 1)
           s == [S EXCEPT !.moved = TRUE, !.y = to, !.dir = -d]
<1>1. /\ scrollOpt \in [css : BOOLEAN, snap : BOOLEAN] /\ wheel \in BOOLEAN
      /\ S \in Scrolling /\ (~Raced(S) => Moving(S)) /\ S.max = max
  BY ScrollHas DEF ScrollOK
<1>2. /\ down' = TRUE /\ wheel' = wheel
      /\ Scroller!Become(s) \/ Scroller!Become(Scroller!ScrollStart(s))
  <2>1. down' = down /\ wheel' = wheel /\ down
    BY DEF Scroller!Move
  <2>2. down \in BOOLEAN
    BY DEF ScrollInv
  <2>3. Scroller!Become(s) \/ Scroller!Become(Scroller!ScrollStart(s))
    BY DEF Scroller!Move
  <2> QED BY <2>1, <2>2, <2>3
<1> HIDE DEF S
<1>3. to \in Int
  <2>1. max - 1 \in Int /\ S.y + d \in Int /\ 1 \in Int /\ max - 1 <= 1
    BY <1>1, ScrollKnows DEF Scrolling
  <2> DEFINE lo == max - 1
             n == S.y + d
  <2> HIDE DEF lo, n
  <2>2. Scroller!Clamp(lo, n, 1) \in Int
    BY <2>1, Clamps DEF lo, n
  <2> QED BY <2>2 DEF lo, n
<1> HIDE DEF to
<1>4. -d \in {-1, 0, 1}
  OBVIOUS
<1>5. /\ s \in Scrolling /\ s.trans = S.trans /\ s.loops = S.loops /\ s.odd = S.odd /\ s.inTransition = S.inTransition
      /\ s.moved = TRUE
  BY <1>1, <1>3, <1>4 DEF Scrolling
<1> HIDE DEF s
<1>6. ~Raced(s) => Moving(s)
  BY <1>1, <1>5 DEF Raced, Moving, Tracks
<1> DEFINE t == Scroller!ScrollStart(s)
<1>7. t \in Scrolling /\ (~Raced(t) => Moving(t)) /\ t.moved = TRUE
  BY <1>5, <1>6, BarStarts
<1> HIDE DEF t
<1>8. ScrollOK(t, down', wheel') /\ ScrollOK(s, down', wheel') /\ down' \in BOOLEAN /\ wheel' \in BOOLEAN
  BY <1>1, <1>2, <1>5, <1>6, <1>7 DEF ScrollOK, Calm
<1>9. Scroller!Become(s) \/ Scroller!Become(t)
  BY <1>2 DEF t
<1> QED BY <1>1, <1>8, <1>9, ScrollBecomes

\* A step that leaves the state free and the bar to be hidden, whoever holds it.
LEMMA ScrollFreed ==
    ASSUME ScrollInv, NEW t \in Scrolling, ~Raced(t) => Moving(t) /\ Free(t) /\ (Hides(Scroller!S) => Hides(t)),
           Raced(Scroller!S) => Raced(t),
           Scroller!Become(t), down' = down, wheel' = wheel \/ wheel' = TRUE
    PROVE  ScrollInv'
<1>1. /\ scrollOpt \in [css : BOOLEAN, snap : BOOLEAN] /\ down \in BOOLEAN /\ wheel \in BOOLEAN
      /\ ScrollOK(Scroller!S, down, wheel)
  BY ScrollHas
<1>2. ScrollOK(t, down', wheel') /\ down' \in BOOLEAN /\ wheel' \in BOOLEAN
  BY <1>1, FreeCalm DEF ScrollOK
<1> QED BY <1>1, <1>2, ScrollBecomes

\* A jump inside the bounds, without pages.
LEMMA JumpsInside ==
    ASSUME scrollOpt.css \in BOOLEAN, NEW s \in Scrolling, ~Raced(s) => Tracks(s), ~scrollOpt.snap,
           NEW to \in Int, s.max <= to, to <= 0, NEW timed \in BOOLEAN
    PROVE  LET t == Scroller!ScrollTo(s, to, timed)
           IN  /\ t \in Scrolling /\ (Raced(s) => Raced(t))
               /\ ~Raced(t) => Moving(t) /\ Free(t) /\ (Hides(s) => Hides(t))
<1> DEFINE t == Scroller!ScrollTo(s, to, timed)
<1>1. Keeps(s, t) /\ (~Raced(t) => Sent(t, to) /\ (timed \/ Hides(s) => Hides(t)))
  BY ScrollSends
<1> HIDE DEF t
<1>2. ~Raced(t) => Free(t)
  BY <1>1, SentFree DEF Keeps
<1> QED BY <1>1, <1>2 DEF Keeps, Sent, t

LEMMA ScrollWheels ==
    ASSUME ScrollInv, NEW d \in {-1, 1}, Scroller!Wheel(d)
    PROVE  ScrollInv'
<1> DEFINE S == Scroller!S
           s == IF wheel THEN S ELSE Scroller!ScrollStart(S)
           to == Scroller!Clamp(max, scrollY + d, 0)
<1>1. /\ scrollOpt \in [css : BOOLEAN, snap : BOOLEAN] /\ down \in BOOLEAN
      /\ S \in Scrolling /\ (~Raced(S) => Moving(S)) /\ S.max = max /\ S.y = scrollY /\ S.page = page
  BY ScrollHas DEF ScrollOK
<1>2. wheel' = TRUE /\ down' = down
      /\ Scroller!Become(IF scrollOpt.snap THEN Scroller!GoToPage(s, page - d, TRUE) ELSE Scroller!Jump(s, to))
  BY DEF Scroller!Wheel
<1> HIDE DEF S
<1>3. s \in Scrolling /\ (Raced(s) <=> Raced(S)) /\ (Moving(S) => Moving(s)) /\ s.max = max
  BY <1>1, BarStarts
<1> HIDE DEF s
<1>4. ~Raced(s) => Tracks(s)
  BY <1>1, <1>3 DEF Moving
<1>5. max \in Int /\ max <= 0 /\ scrollY + d \in Int /\ page - d \in Int /\ 0 \in Int
  BY <1>1, ScrollKnows DEF Scrolling
<1>6. to \in Int /\ max <= to /\ to <= 0
  <2> DEFINE n == scrollY + d
  <2> HIDE DEF n
  <2> QED BY <1>5, Clamps DEF n
<1> DEFINE t == IF scrollOpt.snap THEN Scroller!GoToPage(s, page - d, TRUE) ELSE Scroller!Jump(s, to)
<1>7. t \in Scrolling /\ (~Raced(t) => Moving(t) /\ Free(t))
  <2>1. CASE scrollOpt.snap
    <3> DEFINE p == page - d
    <3> HIDE DEF p
    <3>1. LET u == Scroller!GoToPage(s, p, TRUE) IN u \in Scrolling /\ (~Raced(u) => Moving(u) /\ Free(u))
      BY <1>1, <1>3, <1>4, <1>5, PageSends DEF p
    <3> QED BY <2>1, <3>1 DEF p
  <2>2. CASE ~scrollOpt.snap
    <3> HIDE DEF to
    <3>1. LET u == Scroller!ScrollTo(s, to, FALSE) IN u \in Scrolling /\ (~Raced(u) => Moving(u) /\ Free(u))
      BY <1>1, <1>3, <1>4, <1>6, <2>2, JumpsInside
    <3> QED BY <2>2, <3>1 DEF Scroller!ScrollTo
  <2> QED BY <1>1, <2>1, <2>2
<1> HIDE DEF t
<1>8. ScrollOK(t, down', wheel') /\ down' \in BOOLEAN /\ wheel' \in BOOLEAN
  BY <1>1, <1>2, <1>7, FreeCalm DEF ScrollOK
<1>9. Scroller!Become(t)
  BY <1>2 DEF t
<1> QED BY <1>1, <1>8, <1>9, ScrollBecomes

LEMMA ScrollWheelEnds ==
    ASSUME ScrollInv, Scroller!WheelTimeout
    PROVE  ScrollInv'
<1> DEFINE S == Scroller!S
           t == Scroller!ScrollEnd(S)
<1>1. /\ scrollOpt \in [css : BOOLEAN, snap : BOOLEAN] /\ down \in BOOLEAN
      /\ S \in Scrolling /\ ScrollOK(S, down, wheel)
  BY ScrollHas
<1>2. wheel' = FALSE /\ down' = down /\ Scroller!Become(t)
  BY DEF Scroller!WheelTimeout
<1> HIDE DEF S
<1>3. /\ t \in Scrolling /\ (Raced(t) <=> Raced(S)) /\ Hides(t) /\ t.moved = S.moved
      /\ (Moving(S) => Moving(t)) /\ (Free(S) => Free(t)) /\ (Waits(S) => Waits(t))
  BY <1>1, BarTold
<1> HIDE DEF t
<1>4. ScrollOK(t, down', wheel') /\ down' \in BOOLEAN /\ wheel' \in BOOLEAN
  BY <1>1, <1>2, <1>3 DEF ScrollOK, Calm
<1> QED BY <1>1, <1>2, <1>4, ScrollBecomes

LEMMA ScrollKeyed ==
    ASSUME ScrollInv, NEW d \in {-1, 1}, Scroller!Key(d)
    PROVE  ScrollInv'
<1> DEFINE S == Scroller!S
<1>1. /\ scrollOpt \in [css : BOOLEAN, snap : BOOLEAN]
      /\ S \in Scrolling /\ (~Raced(S) => Moving(S)) /\ S.max = max /\ S.y = scrollY /\ S.page = page
  BY ScrollHas DEF ScrollOK
<1>2. wheel' = wheel /\ down' = down
  BY DEF Scroller!Key
<1> DEFINE Halted(p) == [Scroller!Cut(S) EXCEPT !.y = p, !.trans = NULL, !.inTransition = FALSE]
           Goes(s) == IF scrollOpt.snap THEN Scroller!GoToPage(s, page + d, TRUE)
                      ELSE Scroller!Jump(s, Scroller!Clamp(max, s.y + d, 0))
<1>3. PICK p \in IF inTransition THEN Scroller!Seen(S) ELSE {scrollY} :
        Scroller!Become(Goes(IF scrollOpt.css /\ inTransition THEN Halted(p) ELSE S))
  BY DEF Scroller!Key
<1> HIDE DEF S
<1>4. p \in Int
  <2>1. scrollY \in Int
    BY <1>1 DEF Scrolling
  <2> QED BY <1>1, <1>3, <2>1, SeenInt
<1> DEFINE s == IF scrollOpt.css /\ inTransition THEN Halted(p) ELSE S
<1>5. Scroller!Become(Goes(s))
  BY <1>3
<1>6. /\ s \in Scrolling /\ s.max = max /\ (Raced(s) <=> Raced(S)) /\ (~Raced(s) => Tracks(s))
      /\ ~Raced(S) /\ Hides(S) => Hides(s)
  <2>1. CASE scrollOpt.css /\ inTransition
    <3> DEFINE od == IF S.trans # NULL THEN S.odd \cup {"cut"} ELSE S.odd
               c == Scroller!Cut(S)
    <3>1. od \in SUBSET {"cut", "lost", "raced"} /\ S.odd \in SUBSET {"cut", "lost", "raced"}
      BY <1>1 DEF Scrolling
    <3> HIDE DEF od
    <3>2. c = [S EXCEPT !.odd = od]
      BY <1>1 DEF Scroller!Cut, od, Scrolling
    <3>3. s = [c EXCEPT !.y = p, !.trans = NULL, !.inTransition = FALSE]
      BY <2>1
    <3>4. c \in Scrolling /\ c.max = max /\ c.bar = S.bar /\ c.odd = od /\ c.loops = S.loops
      BY <1>1, <3>1, <3>2 DEF Scrolling
    <3> HIDE DEF c, s, Halted
    <3>5. s \in Scrolling /\ s.max = max /\ s.bar = S.bar /\ s.odd = od /\ s.loops = S.loops /\ s.trans = NULL
      BY <1>4, <3>3, <3>4 DEF Scrolling
    <3>6. Raced(s) <=> Raced(S)
      BY <3>5 DEF Raced, od
    <3>7. ~Raced(s) => Tracks(s)
      BY <1>1, <3>5, <3>6 DEF Moving, Tracks
    <3>8. Hides(S) => Hides(s)
      BY <3>5 DEF Hides, od
    <3> QED BY <3>5, <3>6, <3>7, <3>8
  <2>2. CASE ~(scrollOpt.css /\ inTransition)
    <3>1. s = S
      BY <2>2
    <3> HIDE DEF s
    <3> QED BY <1>1, <3>1 DEF Moving
  <2> QED BY <2>1, <2>2
<1> HIDE DEF s
<1> DEFINE t == Goes(s)
<1>7. t \in Scrolling /\ (Raced(s) => Raced(t)) /\ (~Raced(t) => Moving(t) /\ Free(t) /\ (Hides(s) => Hides(t)))
  <2>1. CASE scrollOpt.snap
    <3> DEFINE q == page + d
    <3>1. q \in Int
      BY <1>1 DEF Scrolling
    <3> HIDE DEF q
    <3>2. LET u == Scroller!GoToPage(s, q, TRUE)
          IN  u \in Scrolling /\ (Raced(s) => Raced(u)) /\ (~Raced(u) => Moving(u) /\ Free(u) /\ Hides(u))
      BY <1>1, <1>6, <3>1, PageSends
    <3> QED BY <2>1, <3>2 DEF q
  <2>2. CASE ~scrollOpt.snap
    <3> DEFINE n == s.y + d
               to == Scroller!Clamp(max, n, 0)
    <3>1. max \in Int /\ max <= 0 /\ n \in Int /\ 0 \in Int
      BY <1>1, <1>6, ScrollKnows DEF Scrolling
    <3> HIDE DEF n
    <3>2. to \in Int /\ s.max <= to /\ to <= 0
      BY <1>6, <3>1, Clamps
    <3> HIDE DEF to
    <3>3. LET u == Scroller!ScrollTo(s, to, FALSE)
          IN  u \in Scrolling /\ (Raced(s) => Raced(u)) /\ (~Raced(u) => Moving(u) /\ Free(u) /\ (Hides(s) => Hides(u)))
      BY <1>1, <1>6, <3>2, <2>2, JumpsInside
    <3>4. t = Scroller!ScrollTo(s, to, FALSE)
      BY <2>2 DEF Scroller!ScrollTo, n, to
    <3> QED BY <3>3, <3>4
  <2> QED BY <1>1, <2>1, <2>2
<1>8. Scroller!Become(t)
  BY <1>5
<1> HIDE DEF t
<1>9. ~Raced(t) => Moving(t) /\ Free(t) /\ (Hides(S) => Hides(t))
  BY <1>6, <1>7
<1> QED BY <1>2, <1>6, <1>7, <1>8, <1>9, ScrollFreed DEF S

LEMMA ScrollPaged ==
    ASSUME ScrollInv,
           \/ \E to \in max..0, timed \in BOOLEAN : Scroller!PageScrolls(to, timed)
           \/ \E d \in {-1, 1} : Scroller!NextPrev(d)
    PROVE  ScrollInv'
<1> DEFINE S == Scroller!S
<1>1. /\ scrollOpt \in [css : BOOLEAN, snap : BOOLEAN]
      /\ S \in Scrolling /\ (~Raced(S) => Moving(S)) /\ S.max = max /\ S.y = scrollY /\ S.page = page
  BY ScrollHas DEF ScrollOK
<1>2. wheel' = wheel /\ down' = down
  BY DEF Scroller!PageScrolls, Scroller!NextPrev
<1>3. ~Raced(S) => Tracks(S)
  BY <1>1 DEF Moving
<1>4. ASSUME NEW to \in max..0, NEW timed \in BOOLEAN, Scroller!PageScrolls(to, timed) PROVE ScrollInv'
  <2> DEFINE t == Scroller!ScrollTo(S, to, timed)
  <2>1. Scroller!Become(t) /\ ~scrollOpt.snap
    BY <1>4 DEF Scroller!PageScrolls
  <2> HIDE DEF S
  <2>2. max \in Int /\ to \in Int /\ S.max <= to /\ to <= 0
    BY <1>1, ScrollKnows DEF Scrolling
  <2>3. t \in Scrolling /\ (Raced(S) => Raced(t)) /\ (~Raced(t) => Moving(t) /\ Free(t) /\ (Hides(S) => Hides(t)))
    BY <1>1, <1>3, <2>1, <2>2, JumpsInside
  <2> HIDE DEF t
  <2> QED BY <1>2, <2>1, <2>3, ScrollFreed DEF S
<1>5. ASSUME NEW d \in {-1, 1}, Scroller!NextPrev(d) PROVE ScrollInv'
  <2> DEFINE p == page + d
             t == Scroller!GoToPage(S, p, TRUE)
  <2>1. Scroller!Become(t)
    BY <1>5 DEF Scroller!NextPrev
  <2> HIDE DEF S
  <2>2. p \in Int
    BY <1>1 DEF Scrolling
  <2> HIDE DEF p
  <2>3. t \in Scrolling /\ (Raced(S) => Raced(t)) /\ (~Raced(t) => Moving(t) /\ Free(t) /\ Hides(t))
    BY <1>1, <1>3, <2>2, PageSends
  <2> HIDE DEF t
  <2> QED BY <1>2, <2>1, <2>3, ScrollFreed DEF S
<1> QED BY <1>4, <1>5

LEMMA ScrollRests ==
    ASSUME ScrollInv, ~Raced(Scroller!S), Scroller!TransitionEnd
    PROVE  ScrollInv'
<1> DEFINE S == Scroller!S
           s == [S EXCEPT !.trans = NULL]
           t == Scroller!AtEnd(s)
<1>1. /\ scrollOpt \in [css : BOOLEAN, snap : BOOLEAN] /\ down \in BOOLEAN /\ wheel \in BOOLEAN
      /\ S \in Scrolling /\ Moving(S) /\ Calm(S, down)
      /\ S.trans = scrollTrans /\ S.inTransition = inTransition
  BY ScrollHas DEF ScrollOK
<1>2. wheel' = wheel /\ down' = down /\ scrollTrans # NULL /\ (inTransition => Scroller!Become(t))
  BY DEF Scroller!TransitionEnd
<1> HIDE DEF S
<1>3. Scroller!Become(t) /\ S.loops = {}
  BY <1>1, <1>2 DEF Moving, Tracks
<1>4. /\ s \in Scrolling /\ s.trans = NULL /\ s.loops = {} /\ s.y = S.y /\ s.max = S.max /\ s.page = S.page
      /\ s.odd = S.odd /\ s.moved = S.moved
  BY <1>1, <1>3 DEF Scrolling
<1> HIDE DEF s
<1>7. ~down \/ ~s.moved => AtPage(S)
  BY <1>1, <1>4 DEF Calm, Free, Waits
<1>5. Tracks(s) /\ (~down \/ ~s.moved => AtPage(s))
  BY <1>1, <1>3, <1>4, <1>7 DEF Tracks, AtPage, Bound
<1>6. ScrollOK(t, down, wheel)
  BY <1>1, <1>4, <1>5, AtEndOK
<1> HIDE DEF t
<1> QED BY <1>1, <1>2, <1>3, <1>6, ScrollBecomes

LEMMA ScrollFrames ==
    ASSUME ScrollInv, ~Raced(Scroller!S), NEW l \in loops, Scroller!Frame(l) \/ Scroller!LastFrame(l)
    PROVE  ScrollInv'
<1> DEFINE S == Scroller!S
<1>1. /\ scrollOpt \in [css : BOOLEAN, snap : BOOLEAN] /\ down \in BOOLEAN /\ wheel \in BOOLEAN
      /\ S \in Scrolling /\ Moving(S) /\ Calm(S, down) /\ (~down /\ ~wheel => Hides(S))
      /\ S.loops = loops /\ S.animating = scrollAnimating
  BY ScrollHas DEF ScrollOK
<1>2. wheel' = wheel /\ down' = down
  BY DEF Scroller!Frame, Scroller!LastFrame
<1>3. S.trans = NULL /\ ~scrollOpt.css /\ l \in S.loops /\ \A k \in S.loops : k = l
  BY <1>1 DEF Moving, Tracks
<1>4. l.from \in Int /\ l.to \in Int
  BY <1>1 DEF Scrolling, Movement
<1>5. CASE Scroller!Frame(l)
  <2> DEFINE ls == IF scrollAnimating THEN S.loops ELSE S.loops \ {l}
  <2>1. PICK p \in Scroller!Between(l.from, l.to) : Scroller!Become([S EXCEPT !.y = p, !.loops = ls])
    BY <1>5 DEF Scroller!Frame
  <2> DEFINE t == [S EXCEPT !.y = p, !.loops = ls]
  <2> HIDE DEF S
  <2>2. p \in Int
    BY <1>4, <2>1 DEF Scroller!Between, Scroller!Least, Scroller!Most
  <2>3. ls \in SUBSET Movement /\ ls \subseteq S.loops
    BY <1>1 DEF Scrolling
  <2>4. (~down => ls = S.loops) /\ (scrollAnimating => ls = S.loops)
    BY <1>1, <1>3 DEF Calm, Free
  <2> HIDE DEF ls
  <2>5. /\ t \in Scrolling /\ t.trans = NULL /\ t.loops = ls /\ t.y = p /\ t.max = S.max /\ t.page = S.page
        /\ t.odd = S.odd /\ t.animating = S.animating /\ t.bar = S.bar
        /\ t.moved = S.moved
    BY <1>1, <1>3, <2>2, <2>3 DEF Scrolling
  <2> HIDE DEF t
  <2>6. Moving(t)
    BY <1>3, <2>3, <2>5 DEF Moving, Tracks
  <2>7. ASSUME ~down PROVE Free(t) /\ Hides(t)
    <3>1. t.loops = S.loops /\ l \in t.loops
      BY <1>3, <2>4, <2>5, <2>7
    <3>2. Free(S)
      BY <1>1, <2>7 DEF Calm
    <3>3. Free(t)
      BY <1>1, <1>3, <2>5, <2>7, <3>1, <3>2 DEF Free, AtPage, Bound
    <3> QED BY <3>1, <3>3 DEF Hides
  <2>10. ASSUME down, ~S.moved PROVE Waits(t)
    <3>1. Waits(S)
      BY <1>1, <2>10 DEF Calm
    <3>2. CASE scrollAnimating
      BY <1>1, <1>3, <2>4, <2>5, <3>1, <3>2 DEF Waits, AtPage, Bound
    <3>3. CASE ~scrollAnimating
      BY <1>1, <1>3, <2>5, <3>1, <3>3 DEF Waits, AtPage
    <3> QED BY <1>1, <3>2, <3>3
  <2>11. Calm(t, down)
    BY <2>5, <2>7, <2>10 DEF Calm
  <2>8. ScrollOK(t, down, wheel)
    BY <1>1, <2>5, <2>6, <2>7, <2>11 DEF ScrollOK
  <2>9. Scroller!Become(t)
    BY <2>1 DEF t
  <2> QED BY <1>1, <1>2, <2>8, <2>9, ScrollBecomes
<1>6. CASE Scroller!LastFrame(l)
  <2> DEFINE s == [S EXCEPT !.y = l.to, !.loops = @ \ {l}, !.animating = FALSE]
             t == Scroller!AtEnd(s)
  <2>1. Scroller!Become(t)
    BY <1>6 DEF Scroller!LastFrame
  <2> HIDE DEF S
  <2>2. S.loops \ {l} = {}
    BY <1>3
  <2>3. /\ s \in Scrolling /\ s.trans = NULL /\ s.loops = {} /\ s.y = l.to /\ s.max = S.max /\ s.page = S.page
        /\ s.odd = S.odd /\ s.moved = S.moved
    BY <1>1, <1>3, <1>4, <2>2 DEF Scrolling
  <2> HIDE DEF s
  <2>6. ~down \/ ~s.moved => AtPage(S)
    BY <1>1, <2>3 DEF Calm, Free, Waits
  <2>4. Tracks(s) /\ (~down \/ ~s.moved => AtPage(s))
    BY <1>1, <1>3, <2>3, <2>6 DEF Tracks, AtPage, Bound
  <2>5. ScrollOK(t, down, wheel)
    BY <1>1, <2>3, <2>4, AtEndOK
  <2> HIDE DEF t
  <2> QED BY <1>1, <1>2, <2>1, <2>5, ScrollBecomes
<1> QED BY <1>5, <1>6

LEMMA ScrollRefreshes ==
    ASSUME ScrollInv, NEW end \in Ends, Scroller!Refresh(end)
    PROVE  ScrollInv'
<1> DEFINE S == Scroller!S
           s1 == [S EXCEPT !.max = end, !.dir = 0]
           s2 == IF scrollOpt.snap THEN Scroller!GoToPage(s1, s1.page, FALSE) ELSE s1
           t == IF Scroller!Outside(s2) THEN Scroller!ResetPosition(s2, FALSE) ELSE s2
<1>1. /\ scrollOpt \in [css : BOOLEAN, snap : BOOLEAN] /\ down \in BOOLEAN /\ wheel \in BOOLEAN
      /\ S \in Scrolling /\ ScrollOK(S, down, wheel)
  BY ScrollHas
<1>2. wheel' = wheel /\ down' = down /\ Scroller!Become(t)
  BY DEF Scroller!Refresh, Scroller!Refreshed
<1> HIDE DEF S
<1>3. /\ s1 \in Scrolling /\ s1.max = end /\ s1.page = S.page /\ s1.y = S.y /\ s1.odd = S.odd /\ s1.bar = S.bar
      /\ s1.trans = S.trans /\ s1.loops = S.loops /\ s1.animating = S.animating /\ s1.inTransition = S.inTransition
  BY <1>1 DEF Scrolling
<1> HIDE DEF s1
<1>4. /\ (Raced(s1) <=> Raced(S)) /\ (~Raced(s1) => Moving(s1))
      /\ ~Raced(s1) /\ ~down => (s1.loops # {} => s1.animating)
      /\ ~Raced(s1) /\ ~down /\ ~wheel => Hides(s1)
  BY <1>1, <1>3 DEF ScrollOK, Raced, Moving, Tracks, Calm, Free, Hides
<1>5. CASE scrollOpt.snap
  <2>1. s1.page \in Int
    BY <1>3 DEF Scrolling
  <2>2. /\ s2 \in Scrolling /\ (Raced(s1) => Raced(s2))
        /\ ~Raced(s2) => /\ Moving(s2) /\ Free(s2) /\ (Hides(s1) => Hides(s2))
                         /\ s2.loops = {} /\ s2.trans = NULL
    <3> DEFINE p == s1.page
    <3> HIDE DEF p
    <3>1. LET u == Scroller!GoToPage(s1, p, FALSE)
          IN  /\ u \in Scrolling /\ (Raced(s1) => Raced(u))
              /\ ~Raced(u) => /\ Moving(u) /\ Free(u) /\ (Hides(s1) => Hides(u))
                              /\ u.loops = {} /\ u.trans = NULL
      BY <1>1, <1>3, <1>4, <2>1, PageSends DEF p, Moving
    <3> QED BY <1>5, <3>1 DEF p
  <2> HIDE DEF s2
  <2>3. s2.y \in Int /\ s2.max \in Int
    BY <2>2, ScrollKnows DEF Scrolling
  <2>4. CASE Raced(s2)
    <3>1. t \in Scrolling /\ Raced(t)
      <4>1. ASSUME Scroller!Outside(s2) PROVE t \in Scrolling /\ Raced(t)
        <5>1. Keeps(s2, Scroller!ResetPosition(s2, FALSE))
          BY <1>1, <2>2, <2>4, ResetSends
        <5> QED BY <2>4, <4>1, <5>1 DEF Keeps
      <4> QED BY <2>2, <2>4, <4>1
    <3> HIDE DEF t
    <3>2. ScrollOK(t, down, wheel)
      BY <3>1 DEF ScrollOK
    <3> QED BY <1>1, <1>2, <3>2, ScrollBecomes
  <2>5. CASE ~Raced(s2)
    <3>1. Within(s2)
      BY <2>2, <2>5 DEF Free
    <3>2. ~Scroller!Outside(s2)
      BY <2>3, <3>1 DEF Within, Scroller!Outside
    <3>3. t = s2
      BY <3>2
    <3> HIDE DEF t
    <3>4. ScrollOK(t, down, wheel)
      BY <1>1, <1>4, <2>2, <2>5, <3>3, FreeCalm DEF ScrollOK
    <3> QED BY <1>1, <1>2, <3>4, ScrollBecomes
  <2> QED BY <2>4, <2>5
<1>6. CASE ~scrollOpt.snap
  <2>1. s2 = s1
    BY <1>6
  <2> HIDE DEF s2
  <2>2. s1.y \in Int /\ s1.max \in Int
    BY <1>3, ScrollKnows DEF Scrolling
  <2>3. CASE Scroller!Outside(s1)
    <3>1. t = Scroller!ResetPosition(s1, FALSE)
      BY <2>1, <2>3
    <3> HIDE DEF t
    <3>2. PICK to \in Int :
            /\ s1.max <= to /\ to <= 0 /\ Keeps(s1, t)
            /\ ~Raced(t) => Sent(t, to) /\ (Hides(s1) => Hides(t))
      BY <1>1, <1>3, <1>4, <3>1, ResetSends DEF Moving
    <3>3. ~Raced(t) => Free(t) /\ Moving(t)
      BY <1>6, <3>2, SentFree DEF Keeps, Sent
    <3>4. ScrollOK(t, down, wheel)
      BY <1>1, <1>4, <3>2, <3>3, FreeCalm DEF ScrollOK, Keeps
    <3> QED BY <1>1, <1>2, <3>4, ScrollBecomes
  <2>4. CASE ~Scroller!Outside(s1)
    <3>1. t = s1
      BY <2>1, <2>4
    <3> HIDE DEF t
    <3>2. ~Raced(s1) /\ ~down => Free(s1)
      BY <1>4, <1>6, <2>2, <2>4 DEF Free, Within, AtPage, Scroller!Outside
    <3>4. Waits(s1)
      BY <1>6 DEF Waits, AtPage
    <3>3. ScrollOK(t, down, wheel)
      BY <1>3, <1>4, <3>1, <3>2, <3>4 DEF ScrollOK, Calm
    <3> QED BY <1>1, <1>2, <3>3, ScrollBecomes
  <2> QED BY <2>3, <2>4
<1> QED BY <1>1, <1>5, <1>6

\* What its gesture leaves is forgotten.
LEMMA ScrollForgets ==
    ASSUME scrollOpt \in [css : BOOLEAN, snap : BOOLEAN], NEW r \in Scrolling,
           ~Raced(r) => Moving(r) /\ Free(r) /\ Hides(r), down' \in BOOLEAN, wheel' \in BOOLEAN,
           NEW t, t = [r EXCEPT !.moved = FALSE, !.start = 0, !.dir = 0], Scroller!Become(t)
    PROVE  ScrollInv'
<1>1. /\ t \in Scrolling /\ t.max = r.max /\ t.page = r.page /\ t.bar = r.bar /\ t.odd = r.odd /\ t.y = r.y
      /\ t.loops = r.loops /\ t.trans = r.trans /\ t.inTransition = r.inTransition /\ t.animating = r.animating
  <2>1. 0 \in Int /\ 0 \in {-1, 0, 1}
    OBVIOUS
  <2> QED BY <2>1 DEF Scrolling
<1>3. (Raced(t) <=> Raced(r)) /\ (Moving(r) => Moving(t)) /\ (Hides(r) => Hides(t))
  BY <1>1 DEF Raced, Moving, Tracks, Hides
<1>4. Free(r) => Free(t)
  BY <1>1 DEF Free, Within, AtPage, Bound
<1>5. ScrollOK(t, down', wheel')
  BY <1>1, <1>3, <1>4, FreeCalm DEF ScrollOK
<1> QED BY <1>5, ScrollBecomes

\* Content that was stopped runs on to its aim, or is at it.
LEMMA SettlesOK ==
    ASSUME scrollOpt \in [css : BOOLEAN, snap : BOOLEAN], NEW s \in Scrolling, s.max = max, NEW to \in Int,
           ~Raced(s) => Tracks(s) /\ s.trans = NULL /\ s.loops = {} /\ (Within(s) \/ to # s.y),
           ~scrollOpt.snap \/ Within(s) \/ Raced(s)
    PROVE  LET t == Scroller!Settles(s, to)
           IN  t \in Scrolling /\ (~Raced(t) => Moving(t) /\ Free(t) /\ Hides(t))
<1> DEFINE p == Scroller!NearestSnap(s, to)
           s1 == IF scrollOpt.snap THEN [s EXCEPT !.page = p, !.odd = @ \ {"lost"}] ELSE s
           aim == IF scrollOpt.snap THEN Scroller!PageTop(max, p) ELSE to
           t == Scroller!Settles(s, to)
<1>1. t = IF aim # s.y THEN Scroller!Glide(s1, aim) ELSE Scroller!ScrollEnd(s1)
  BY DEF Scroller!Settles
<1>2. p \in Nat
  BY NearestPage
<1> HIDE DEF p, t
<1>3. max \in Ends /\ s.odd \in SUBSET {"cut", "lost", "raced"} /\ s.y \in Int
  BY DEF Scrolling
<1>4. LET pt == Scroller!PageTop(max, p) IN pt \in Int /\ max <= pt /\ pt <= 0
  BY <1>2, <1>3, PageTopWithin
<1>5. aim \in Int /\ (scrollOpt.snap => aim = Scroller!PageTop(max, p))
  BY <1>4
<1>6. /\ s1 \in Scrolling /\ s1.max = max /\ s1.y = s.y /\ s1.trans = s.trans /\ s1.loops = s.loops
      /\ (scrollOpt.snap => s1.page = p)
      /\ ("raced" \in s1.odd <=> "raced" \in s.odd)
  BY <1>2, <1>3 DEF Scrolling
<1>7. ~scrollOpt.snap => aim = to
  OBVIOUS
<1> HIDE DEF aim, s1
<1>8. (Raced(s1) <=> Raced(s)) /\ (~Raced(s1) => Tracks(s1) /\ s1.trans = NULL /\ s1.loops = {})
  BY <1>6 DEF Raced, Tracks
<1>9. CASE aim # s.y
  <2>1. t = Scroller!Glide(s1, aim)
    BY <1>1, <1>9
  <2> HIDE DEF t
  <2>2. Keeps(s1, t) /\ (~Raced(t) => Sent(t, aim) /\ Hides(t) /\ (t.trans # NULL \/ t.loops # {}))
    BY <1>5, <1>6, <1>8, <1>9, <2>1, GlideSends
  <2>3. t \in Scrolling /\ t.max = max /\ (scrollOpt.snap => t.page = p)
    BY <1>6, <2>2 DEF Keeps
  <2>4. ~Raced(t) => Free(t)
    BY <1>5, <2>2, <2>3, SentFree
  <2> QED BY <2>2, <2>3, <2>4 DEF Sent, t
<1>10. CASE aim = s.y
  <2>1. t = Scroller!ScrollEnd(s1)
    BY <1>1, <1>10
  <2>2. t \in Scrolling /\ (Raced(t) <=> Raced(s1)) /\ Hides(t) /\ (Moving(s1) => Moving(t)) /\ (Free(s1) => Free(t))
    BY <1>6, <2>1, BarTold
  <2>3. ASSUME ~Raced(s1) PROVE Moving(s1) /\ Free(s1)
    <3>1. Within(s) /\ Tracks(s1) /\ s1.trans = NULL /\ s1.loops = {}
      BY <1>7, <1>8, <1>10, <2>3
    <3>2. Within(s1)
      BY <1>6, <3>1 DEF Within
    <3>3. AtPage(s1)
      BY <1>5, <1>6, <1>10, <3>1 DEF AtPage, Bound
    <3> QED BY <3>1, <3>2, <3>3 DEF Moving, Free
  <2> QED BY <2>2, <2>3 DEF t
<1> QED BY <1>9, <1>10

LEMMA ScrollStops ==
    ASSUME ScrollInv, ~Raced(Scroller!S), NEW speed \in {"slow", "quick", "flick"}, Scroller!End(speed)
    PROVE  ScrollInv'
<1> DEFINE S == Scroller!S
           s == [S EXCEPT !.inTransition = FALSE]
<1>1. /\ scrollOpt \in [css : BOOLEAN, snap : BOOLEAN] /\ wheel \in BOOLEAN
      /\ S \in Scrolling /\ ScrollOK(S, down, wheel) /\ Moving(S) /\ S.max = max /\ S.y = scrollY /\ S.page = page
      /\ S.dir = dir /\ S.moved = scrollMoved
  BY ScrollHas DEF ScrollOK
<1>2. wheel' = wheel /\ down' = FALSE /\ down
  BY DEF Scroller!End
<1>3. PICK r \in Scroller!Ended(s, speed) : Scroller!Become([r EXCEPT !.moved = FALSE, !.start = 0, !.dir = 0])
  BY DEF Scroller!End
<1>9. ~scrollMoved => AtPage(S)
  BY <1>1, <1>2 DEF ScrollOK, Calm, Waits
<1> HIDE DEF S
<1>4. /\ s \in Scrolling /\ s.max = max /\ s.page = page /\ s.odd = S.odd /\ s.trans = S.trans /\ s.loops = S.loops
      /\ s.y = S.y
  BY <1>1 DEF Scrolling
<1> HIDE DEF s
<1>10. ~scrollMoved => AtPage(s)
  BY <1>1, <1>4, <1>9 DEF AtPage, Bound
<1>5. ~Raced(s) /\ Tracks(s)
  BY <1>1, <1>4 DEF Raced, Moving, Tracks, S
<1>6. max \in Ends /\ max \in Int /\ max < 0 /\ s.y \in Int /\ page \in Nat /\ dir \in Int
  BY <1>1, <1>4, ScrollKnows DEF Scrolling
<1>7. LET to == Scroller!PageTop(max, page) IN to \in Int /\ max <= to /\ to <= 0
  BY <1>6, PageTopWithin
<1>8. r \in Scrolling /\ (~Raced(r) => Moving(r) /\ Free(r) /\ Hides(r))
  <2>1. ASSUME Scroller!Outside(s), r = Scroller!Astray(Scroller!ResetPosition(s, TRUE))
        PROVE  r \in Scrolling /\ (~Raced(r) => Moving(r) /\ Free(r) /\ Hides(r))
    <3> DEFINE u == Scroller!ResetPosition(s, TRUE)
    <3>1. PICK to \in Int :
            /\ max <= to /\ to <= 0 /\ Keeps(s, u)
            /\ ~Raced(u) => Sent(u, to) /\ Hides(u) /\ (~scrollOpt.css => u.y = s.y)
      BY <1>1, <1>4, <1>5, ResetSends
    <3>2. r = Scroller!Astray(u)
      BY <2>1
    <3> HIDE DEF u
    <3>3. u \in Scrolling /\ u.max = max /\ u.page = page
      BY <1>4, <3>1 DEF Keeps
    <3>4. /\ r \in Scrolling /\ r.max = max /\ r.y = u.y
          /\ r.loops = u.loops /\ r.trans = u.trans /\ r.animating = u.animating
          /\ (Raced(r) <=> Raced(u)) /\ (Moving(u) => Moving(r)) /\ (Hides(u) => Hides(r))
          /\ scrollOpt.snap => "lost" \in r.odd
      BY <1>1, <3>2, <3>3, AstrayIs
    <3>5. ASSUME ~Raced(r) PROVE Free(r)
      BY <3>1, <3>4, <3>5 DEF Sent, Bound, Within, Free, AtPage
    <3> QED BY <3>1, <3>4, <3>5 DEF Sent
  <2>2. ASSUME ~Scroller!Outside(s), ~scrollMoved, r = Scroller!ScrollEnd(Scroller!Jump(s, s.y))
        PROVE  r \in Scrolling /\ (~Raced(r) => Moving(r) /\ Free(r) /\ Hides(r))
    <3> DEFINE j == Scroller!Jump(s, s.y)
    <3>2. Keeps(s, j) /\ (~Raced(j) => Sent(j, s.y) /\ s.loops = {})
      BY <1>1, <1>4, <1>5, <1>6, JumpSends
    <3>3. r = Scroller!ScrollEnd(j)
      BY <2>2
    <3> HIDE DEF j
    <3>4. j \in Scrolling /\ j.max = max /\ j.page = page /\ ("lost" \in j.odd <=> "lost" \in s.odd)
      BY <1>4, <3>2 DEF Keeps
    <3>5. max <= s.y /\ s.y <= 0
      BY <1>4, <1>6, <2>2 DEF Scroller!Outside
    <3>1. ~Raced(j) /\ scrollOpt.snap /\ "lost" \notin j.odd => s.y = Scroller!PageTop(max, page)
      BY <1>4, <1>10, <2>2, <3>2, <3>4 DEF AtPage, Bound
    <3>6. ~Raced(j) => Free(j) /\ Moving(j)
      BY <1>6, <3>1, <3>2, <3>4, <3>5, SentFree DEF Sent
    <3> QED BY <3>3, <3>4, <3>6, BarTold
  <2>3. ASSUME r = Scroller!GoToPage(s, page + dir, TRUE)
        PROVE  r \in Scrolling /\ (~Raced(r) => Moving(r) /\ Free(r) /\ Hides(r))
    <3> DEFINE p == page + dir
    <3>1. p \in Int
      BY <1>6
    <3> HIDE DEF p
    <3>2. r = Scroller!GoToPage(s, p, TRUE)
      BY <2>3 DEF p
    <3> QED BY <1>1, <1>4, <1>5, <3>1, <3>2, PageSends
  <2> DEFINE j == Scroller!Jump(s, s.y)
  <2>9. Keeps(s, j) /\ (~Raced(j) => Sent(j, s.y) /\ j.trans = NULL /\ j.loops = {} /\ j.y = s.y)
    BY <1>1, <1>4, <1>5, <1>6, JumpSends
  <2> HIDE DEF j
  <2>4. /\ j \in Scrolling /\ j.max = max /\ j.page = page
        /\ ~Raced(j) => Tracks(j) /\ j.trans = NULL /\ j.loops = {} /\ j.y = s.y
    BY <1>4, <2>9 DEF Keeps, Sent, Moving
  <2> USE DEF j
  <2>5. ASSUME ~Scroller!Outside(s) PROVE ~Raced(j) => Within(j)
    <3>1. max <= s.y /\ s.y <= 0
      BY <1>4, <1>6, <2>5 DEF Scroller!Outside
    <3> HIDE DEF j
    <3> QED BY <2>4, <3>1 DEF Within
  <2>6. ASSUME ~Scroller!Outside(s), r = Scroller!Settles(Scroller!Jump(s, s.y), s.y)
        PROVE  r \in Scrolling /\ (~Raced(r) => Moving(r) /\ Free(r) /\ Hides(r))
    <3>1. r = Scroller!Settles(j, s.y)
      BY <2>6
    <3> HIDE DEF j
    <3> QED BY <1>1, <1>6, <2>4, <2>5, <2>6, <3>1, SettlesOK
  <2>7. ASSUME ~Scroller!Outside(s),
               NEW to \in Scroller!RunsOn, r = Scroller!Settles([j EXCEPT !.inTransition = TRUE], to)
        PROVE  r \in Scrolling /\ (~Raced(r) => Moving(r) /\ Free(r) /\ Hides(r))
    <3> DEFINE k == [j EXCEPT !.inTransition = TRUE]
    <3>1. to \in Int
      BY <1>6 DEF Scroller!RunsOn
    <3>2. r = Scroller!Settles(k, to)
      BY <2>7
    <3> HIDE DEF j
    <3>3. /\ k \in Scrolling /\ k.max = max /\ k.trans = j.trans /\ k.loops = j.loops /\ k.y = j.y /\ k.odd = j.odd
      BY <2>4 DEF Scrolling
    <3> HIDE DEF k
    <3>4. (Raced(k) <=> Raced(j)) /\ (Tracks(j) => Tracks(k)) /\ (Within(j) => Within(k))
      BY <2>4, <3>3 DEF Raced, Tracks, Within
    <3>5. ~Raced(k) => Tracks(k) /\ k.trans = NULL /\ k.loops = {} /\ Within(k)
      BY <2>4, <2>5, <2>7, <3>3, <3>4
    <3> QED BY <1>1, <3>1, <3>2, <3>3, <3>5, SettlesOK
  <2>8. \/ Scroller!Outside(s) /\ r = Scroller!Astray(Scroller!ResetPosition(s, TRUE))
        \/ ~Scroller!Outside(s) /\ ~scrollMoved /\ r = Scroller!ScrollEnd(Scroller!Jump(s, s.y))
        \/ r = Scroller!GoToPage(s, page + dir, TRUE)
        \/ ~Scroller!Outside(s) /\ r = Scroller!Settles(Scroller!Jump(s, s.y), s.y)
        \/ ~Scroller!Outside(s) /\ \E to \in Scroller!RunsOn : r = Scroller!Settles([j EXCEPT !.inTransition = TRUE], to)
    <3> HIDE DEF j
    <3>1. CASE Scroller!Outside(s)
      BY <1>3, <3>1 DEF Scroller!Ended
    <3>2. CASE ~Scroller!Outside(s) /\ ~scrollMoved
      BY <1>3, <3>2 DEF Scroller!Ended
    <3>3. CASE ~Scroller!Outside(s) /\ scrollMoved /\ speed = "flick" /\ scrollOpt.snap
      BY <1>3, <3>3 DEF Scroller!Ended
    <3>4. CASE ~Scroller!Outside(s) /\ scrollMoved /\ ~(speed = "flick" /\ scrollOpt.snap)
      <4>1. Scroller!Ended(s, speed)
              = IF speed = "slow" THEN {Scroller!Settles(Scroller!Jump(s, s.y), s.y)}
                ELSE {Scroller!Settles([Scroller!Jump(s, s.y) EXCEPT !.inTransition = TRUE], to) : to \in Scroller!RunsOn}
        BY <3>4 DEF Scroller!Ended
      <4> QED BY <1>3, <3>4, <4>1 DEF j
    <3> QED BY <3>1, <3>2, <3>3, <3>4
  <2> QED BY <2>1, <2>2, <2>3, <2>6, <2>7, <2>8
<1> QED BY <1>1, <1>2, <1>3, <1>8, ScrollForgets

LEMMA ScrollNext ==
    ASSUME ScrollInv, Scroller!Next
    PROVE  ScrollInv'
<1>1. ~Raced(Scroller!S)
  BY ScrollHas DEF Scroller!Next, Raced
<1> QED BY <1>1, ScrollStarted, ScrollMoved, ScrollWheels, ScrollKeyed, ScrollPaged, ScrollStops, ScrollWheelEnds,
           ScrollRests, ScrollRefreshes, ScrollFrames DEF Scroller!Next

LEMMA ScrollStays ==
    ASSUME ScrollInv, UNCHANGED scrollVars
    PROVE  ScrollInv'
<1>1. Scroller!Become(Scroller!S) /\ down' = down /\ wheel' = wheel
  BY DEF scrollVars, Scroller!scrollVars, Scroller!Become, Scroller!S
<1> QED BY <1>1, ScrollHas, ScrollBecomes

LEMMA ScrollRight == ScrollInv => Scroller!RestsInside /\ Scroller!RestsAtPage /\ Scroller!ScrollbarFades
<1> SUFFICES ASSUME ScrollInv, Scroller!AtRest
             PROVE  Scroller!RestsInside /\ Scroller!RestsAtPage /\ Scroller!ScrollbarFades
  BY DEF Scroller!RestsInside, Scroller!RestsAtPage, Scroller!ScrollbarFades
<1> DEFINE s == Scroller!S
<1>1. /\ ScrollOK(s, down, wheel) /\ s.y = scrollY /\ s.max = max /\ s.page = page /\ s.trans = scrollTrans
      /\ s.loops = loops /\ s.bar = bar /\ s.odd = scrollOdd /\ s \in Scrolling
  BY ScrollHas
<1>2. ~down /\ scrollTrans = NULL /\ loops = {} /\ "raced" \notin scrollOdd
  BY DEF Scroller!AtRest
<1> HIDE DEF s
<1>3. Free(s) /\ (~wheel => Hides(s))
  BY <1>1, <1>2 DEF ScrollOK, Raced, Calm
<1>4. max <= scrollY /\ scrollY <= 0
  BY <1>1, <1>2, <1>3 DEF Free, Within
<1>5. scrollOpt.snap /\ "lost" \notin scrollOdd => scrollY = Scroller!PageTop(max, page)
  BY <1>1, <1>2, <1>3 DEF Free, AtPage, Bound
<1>6. ~wheel /\ scrollOdd = {} => bar = 0
  BY <1>1, <1>2, <1>3 DEF Hides, Scrolling
<1> QED BY <1>4, <1>5, <1>6 DEF Scroller!RestsInside, Scroller!RestsAtPage, Scroller!ScrollbarFades

-----------------------------------------------------------------------------
(* The slides.                                                             *)

Touching == [moved : BOOLEAN, start : Int, diff : Int, current : Int]
Sliding ==
    [slides : Seq(SwiperSlide) \ {<<>>}, size : Nat \ {0}, active : Nat, translate : Int,
     isBeginning : BOOLEAN, isEnd : BOOLEAN, trans : Movement \cup {NULL}, animating : BOOLEAN,
     ends : BOOLEAN, resumes : BOOLEAN, touch : Touching \cup {NULL}, lock : SUBSET {"next", "prev"},
     autoplaying : BOOLEAN, paused : BOOLEAN, timers : {T \in SUBSET Nat : IsFiniteSet(T)}, id : Nat,
     loose : BOOLEAN, stuck : BOOLEAN, restarted : BOOLEAN]

\* The slides stand, or glide to, where the active one is.
OnGrid(s) == s.translate = -Swiper!Grid(s, s.active)
InRow(s) == s.active <= Swiper!LastIndex(s)
\* A finger that drags them began where the active one is, and knows where they are.
Drags(s) ==
    /\ s.touch.start = -Swiper!Grid(s, s.active) /\ s.touch.current = s.translate
    /\ s.touch.diff = 0 => s.touch.current = s.touch.start
Sure(s) ==
    /\ InRow(s)
    /\ s.touch = NULL => ~s.loose
    /\ ~s.stuck /\ ~s.loose => IF Swiper!Dragging(s) THEN Drags(s) ELSE OnGrid(s)
\* What is left of that when the slides are others.
Fair(s) ==
    /\ s.touch = NULL => ~s.loose
    /\ ~s.stuck /\ ~s.loose /\ ~Swiper!Dragging(s) => OnGrid(s)
\* slideTo has come to a slide.
Landed(s) == InRow(s) /\ OnGrid(s) /\ ~s.stuck /\ (s.loose <=> Swiper!Dragging(s))

\* The one timeout of autoplay is the one it knows, and a pause has none.
Single(s) ==
    ~s.restarted =>
        /\ s.timers \subseteq {s.id} /\ (s.id = 0 => s.timers = {})
        /\ (s.resumes => s.paused) /\ (s.paused => s.timers = {})

SwipeOK(s) == s \in Sliding /\ Sure(s) /\ Single(s)
OptOK ==
    swiperOpt \in [loop : BOOLEAN, auto : {"none", "stops", "stays"}, uses : SUBSET {"edit", "lock", "start"},
                   slides : Seq(SwiperSlide) \ {<<>>}, sizes : SUBSET (Nat \ {0})]
SwipeInv == OptOK /\ SwipeOK(Swiper!S)

LEMMA SwipeKnows ==
    /\ SwiperSetting \subseteq [loop : BOOLEAN, auto : {"none", "stops", "stays"}, uses : SUBSET {"edit", "lock", "start"},
                                slides : Seq(SwiperSlide) \ {<<>>}, sizes : SUBSET (Nat \ {0})]
    /\ NULL \notin Touching \cup Movement
BY AssumptionOfSlides DEF Swiper!SwiperAssumption, Touching, Movement

LEMMA LastIndexIs ==
    ASSUME OptOK, NEW s \in Sliding
    PROVE  Swiper!LastIndex(s) \in Nat
<1>1. Len(s.slides) \in Nat /\ Len(s.slides) # 0
  <2>1. s.slides \in Seq(SwiperSlide) /\ s.slides # <<>>
    BY DEF Sliding
  <2> DEFINE l == s.slides
  <2> HIDE DEF l
  <2>2. l \in Seq(SwiperSlide) /\ l # <<>>
    BY <2>1 DEF l
  <2>3. Len(l) \in Nat /\ Len(l) # 0
    BY <2>2, EmptySeq, LenProperties
  <2> QED BY <2>3 DEF l
<1>2. Swiper!Looped \in {0, 1}
  BY DEF Swiper!Looped
<1> DEFINE n == Len(s.slides)
           k == Swiper!Looped
<1> HIDE DEF n, k
<1>3. n \in Nat /\ n # 0 /\ (k = 0 \/ k = 1)
  BY <1>1, <1>2 DEF n, k
<1>4. n + 2 * k - 1 \in Nat
  BY <1>3
<1> QED BY <1>4 DEF Swiper!LastIndex, n, k

LEMMA SwiperClamps ==
    ASSUME NEW lo \in Int, NEW n \in Int, NEW hi \in Int, lo <= hi
    PROVE  LET k == Swiper!Clamp(lo, n, hi)
           IN  k \in Int /\ lo <= k /\ k <= hi /\ (lo <= n /\ n <= hi => k = n) /\ (n > hi => k = hi) /\ (n < lo => k = lo)
BY DEF Swiper!Clamp

LEMMA TargetIs ==
    ASSUME OptOK, NEW s \in Sliding, NEW i \in Int
    PROVE  LET q == Swiper!Target(s, i) IN q \in Nat /\ q <= Swiper!LastIndex(s)
<1>1. 0 \in Int /\ Swiper!LastIndex(s) \in Int /\ 0 <= Swiper!LastIndex(s)
  BY LastIndexIs
<1> DEFINE n == Swiper!LastIndex(s)
           q == Swiper!Clamp(0, i, n)
<1> HIDE DEF n
<1>2. q \in Int /\ 0 <= q /\ q <= n
  BY <1>1, SwiperClamps DEF n
<1> HIDE DEF q
<1>3. q \in Nat /\ q <= n
  BY <1>2
<1> QED BY <1>3 DEF Swiper!Target, n, q

LEMMA GridIs ==
    ASSUME NEW s \in Sliding, NEW i \in Nat
    PROVE  Swiper!Grid(s, i) \in Nat
<1>1. s.size \in Nat
  BY DEF Sliding
<1> QED BY <1>1 DEF Swiper!Grid

LEMMA GridGrows ==
    ASSUME NEW s \in Sliding, NEW i \in Nat, NEW j \in Nat, i <= j
    PROVE  Swiper!Grid(s, i) <= Swiper!Grid(s, j)
<1> DEFINE z == s.size
           d == j - i
<1>1. z \in Nat /\ d \in Nat /\ j = i + d
  BY DEF Sliding
<1> HIDE DEF z, d
<1>2. z * (i + d) = z * i + z * d /\ z * d \in Nat /\ z * i \in Nat
  BY <1>1
<1>3. z * i <= z * j
  BY <1>1, <1>2
<1> QED BY <1>3 DEF Swiper!Grid, z

\* On the grid the nearest slide is the one that stands there.
LEMMA NearestOnGrid ==
    ASSUME OptOK, NEW s \in Sliding, NEW k \in Nat, k <= Swiper!LastIndex(s), s.translate = -Swiper!Grid(s, k)
    PROVE  Swiper!Nearest(s) = k
<1> DEFINE z == s.size
           g == z * k
           half == (z - 2 * s.translate) \div (2 * z)
<1>1. z \in Nat \ {0} /\ g \in Nat /\ s.translate = -g
  BY GridIs DEF Sliding, Swiper!Grid
<1>2. half = k
  <2>1. z - 2 * s.translate = z + 2 * g
    BY <1>1
  <2> DEFINE a == 2 * z
  <2>2. a \in Nat \ {0} /\ a * k = 2 * g /\ 0 <= z /\ z < a
    BY <1>1
  <2>5. z \in Nat /\ a \in Nat \ {0} /\ k \in Nat
    BY <1>1, <2>2
  <2> HIDE DEF a, z, g
  <2>3. z - 2 * s.translate = a * k + z
    BY <1>1, <2>1, <2>2, <2>5
  <2>4. (a * k + z) \div a = k
    BY <2>2, <2>5
  <2> QED BY <2>3, <2>4 DEF a
<1>3. Swiper!LastIndex(s) \in Nat
  BY LastIndexIs
<1>4. Swiper!Nearest(s) = Swiper!Clamp(0, half, Swiper!LastIndex(s))
  BY DEF Swiper!Nearest
<1> HIDE DEF half
<1> QED BY <1>2, <1>3, <1>4 DEF Swiper!Clamp

(* Autoplay.                                                               *)

\* What leaves the slides where they are, and what leaves autoplay as it is.
Placed(s, t) ==
    /\ t \in Sliding /\ t.slides = s.slides /\ t.size = s.size /\ t.active = s.active /\ t.translate = s.translate
    /\ t.trans = s.trans /\ t.animating = s.animating /\ t.touch = s.touch /\ t.lock = s.lock
    /\ t.stuck = s.stuck /\ t.loose = s.loose /\ t.restarted = s.restarted
Playing(s, t) ==
    /\ t.timers = s.timers /\ t.id = s.id /\ t.paused = s.paused /\ t.resumes = s.resumes
    /\ t.restarted = s.restarted
\* What autoplay hears of a step.
Going(s, t) == Single(s) => Single(t)

LEMMA PlaysOn == ASSUME NEW s, NEW t, Playing(s, t) PROVE Going(s, t)
BY DEF Playing, Going, Single

LEMMA FreshTimer ==
    ASSUME NEW s \in Sliding
    PROVE  (CHOOSE n \in 1..Cardinality(s.timers) + 1 : n \notin s.timers) \in Nat \ {0}
<1> DEFINE T == s.timers
           n == Cardinality(T)
           I == 1..n + 1
<1>1. T \in SUBSET Nat /\ IsFiniteSet(T)
  BY DEF Sliding
<1> HIDE DEF T
<1>2. n \in Nat
  BY <1>1, FS_CardinalityType
<1> HIDE DEF n
<1>3. IsFiniteSet(I) /\ Cardinality(I) = n + 1
  <2>1. 1 \in Int /\ n + 1 \in Int /\ 1 <= n + 1
    BY <1>2
  <2> DEFINE m == n + 1
  <2> HIDE DEF m
  <2>2. IsFiniteSet(1..m) /\ Cardinality(1..m) = IF 1 > m THEN 0 ELSE m - 1 + 1
    BY <2>1, FS_Interval DEF m
  <2>3. m - 1 + 1 = m /\ ~(1 > m)
    BY <2>1 DEF m
  <2> QED BY <2>2, <2>3 DEF m
<1>4. ~(I \subseteq T)
  <2>1. ASSUME I \subseteq T PROVE FALSE
    <3>1. Cardinality(I) <= n
      BY <1>1, <2>1, FS_Subset DEF n
    <3> QED BY <1>2, <1>3, <3>1
  <2> QED BY <2>1
<1>5. \E k \in I : k \notin T
  BY <1>4
<1>6. (CHOOSE k \in I : k \notin T) \in I
  BY <1>5
<1>7. I \subseteq Nat \ {0}
  BY <1>2
<1> QED BY <1>6, <1>7 DEF T, n

LEMMA CountsAlike == \A us : Swiper!Cardinality(us) = Cardinality(us)
BY DEF Swiper!Cardinality, Cardinality

LEMMA AutoplayIs ==
    ASSUME NEW s \in Sliding
    PROVE  LET t == Swiper!Autoplay(s)
           IN  /\ Placed(s, t) /\ t.autoplaying = s.autoplaying
               /\ (~s.restarted => s.timers = {} /\ ~s.paused /\ ~s.resumes) => Single(t)
<1> DEFINE k == CHOOSE n \in 1..Cardinality(s.timers) + 1 : n \notin s.timers
           T == s.timers \cup {k}
           t == Swiper!Autoplay(s)
<1>1. k \in Nat \ {0}
  BY FreshTimer
<1>2. t = [s EXCEPT !.timers = @ \cup {k}, !.id = k]
  BY CountsAlike DEF Swiper!Autoplay
<1> HIDE DEF k
<1>3. t = [s EXCEPT !.timers = T, !.id = k]
  BY <1>2 DEF Sliding
<1>4. s.timers \in SUBSET Nat /\ IsFiniteSet(s.timers)
  BY DEF Sliding
<1>5. T \in {U \in SUBSET Nat : IsFiniteSet(U)} /\ (s.timers = {} => T = {k})
  BY <1>1, <1>4, FS_AddElement
<1> HIDE DEF T, t
<1>6. /\ t \in Sliding /\ t.slides = s.slides /\ t.size = s.size /\ t.active = s.active /\ t.translate = s.translate
      /\ t.trans = s.trans /\ t.animating = s.animating /\ t.touch = s.touch /\ t.lock = s.lock /\ t.stuck = s.stuck
      /\ t.loose = s.loose /\ t.restarted = s.restarted /\ t.id = k
      /\ t.autoplaying = s.autoplaying /\ t.paused = s.paused /\ t.resumes = s.resumes /\ t.timers = T
  BY <1>1, <1>3, <1>5 DEF Sliding
<1>7. (~s.restarted => s.timers = {} /\ ~s.paused /\ ~s.resumes) => Single(t)
  BY <1>1, <1>5, <1>6 DEF Single
<1> QED BY <1>6, <1>7 DEF Placed, t

LEMMA FewerTimers ==
    ASSUME NEW s \in Sliding, NEW k
    PROVE  s.timers \ {k} \in {U \in SUBSET Nat : IsFiniteSet(U)}
<1>1. s.timers \in SUBSET Nat /\ IsFiniteSet(s.timers)
  BY DEF Sliding
<1>2. IsFiniteSet(s.timers \ {k})
  BY <1>1, FS_Subset
<1> QED BY <1>1, <1>2

LEMMA StopAutoplayIs ==
    ASSUME NEW s \in Sliding
    PROVE  LET t == Swiper!StopAutoplay(s) IN Placed(s, t) /\ Going(s, t)
<1> DEFINE T == s.timers \ {s.id}
           t == [s EXCEPT !.timers = T, !.autoplaying = FALSE, !.id = 0]
<1>1. T \in {U \in SUBSET Nat : IsFiniteSet(U)}
  BY FewerTimers
<1>2. Swiper!StopAutoplay(s) = s \/ Swiper!StopAutoplay(s) = t
  BY DEF Swiper!StopAutoplay
<1>3. s.timers \subseteq {s.id} => T = {}
  OBVIOUS
<1>4. Placed(s, s) /\ Going(s, s)
  BY DEF Placed, Going
<1> HIDE DEF T
<1>6. /\ t \in Sliding /\ t.slides = s.slides /\ t.size = s.size /\ t.active = s.active /\ t.translate = s.translate
      /\ t.trans = s.trans /\ t.animating = s.animating /\ t.touch = s.touch /\ t.lock = s.lock /\ t.stuck = s.stuck
      /\ t.loose = s.loose /\ t.restarted = s.restarted /\ t.id = 0 /\ t.timers = T
      /\ t.paused = s.paused /\ t.resumes = s.resumes
  BY <1>1 DEF Sliding
<1> HIDE DEF t
<1>7. Going(s, t)
  BY <1>3, <1>6 DEF Going, Single
<1> QED BY <1>2, <1>4, <1>6, <1>7 DEF Placed

\* However it is interrupted, no timeout is left beside another.
LEMMA InterruptedIs ==
    ASSUME OptOK, NEW s \in Sliding, NEW timed \in BOOLEAN, NEW internal \in BOOLEAN
    PROVE  LET t == Swiper!Interrupted(s, timed, internal) IN Placed(s, t) /\ Going(s, t)
<1> DEFINE t == Swiper!Interrupted(s, timed, internal)
           T == s.timers \ {s.id}
           c == [s EXCEPT !.timers = T]
           p == [c EXCEPT !.paused = TRUE, !.resumes = TRUE]
           a == Swiper!Autoplay(c)
           x == Swiper!StopAutoplay(s)
<1>1. T \in {U \in SUBSET Nat : IsFiniteSet(U)} /\ (s.timers \subseteq {s.id} => T = {})
  BY FewerTimers
<1> HIDE DEF T
<1>2. /\ c \in Sliding /\ c.slides = s.slides /\ c.size = s.size /\ c.active = s.active /\ c.translate = s.translate
      /\ c.trans = s.trans /\ c.animating = s.animating /\ c.touch = s.touch /\ c.lock = s.lock /\ c.stuck = s.stuck
      /\ c.loose = s.loose /\ c.restarted = s.restarted /\ c.id = s.id /\ c.timers = T
      /\ c.autoplaying = s.autoplaying /\ c.paused = s.paused /\ c.resumes = s.resumes
  BY <1>1 DEF Sliding
<1>8. c = [s EXCEPT !.timers = @ \ {s.id}]
  BY DEF T, Sliding
<1> HIDE DEF c
<1>3. /\ p \in Sliding /\ p.slides = s.slides /\ p.size = s.size /\ p.active = s.active /\ p.translate = s.translate
      /\ p.trans = s.trans /\ p.animating = s.animating /\ p.touch = s.touch /\ p.lock = s.lock /\ p.stuck = s.stuck
      /\ p.loose = s.loose /\ p.restarted = s.restarted /\ p.id = s.id /\ p.timers = T
      /\ p.paused = TRUE /\ p.resumes = TRUE
  BY <1>2 DEF Sliding
<1>4. /\ Placed(c, a)
      /\ (~c.restarted => c.timers = {} /\ ~c.paused /\ ~c.resumes) => Single(a)
  BY <1>2, AutoplayIs
<1>5. Placed(s, x) /\ Going(s, x)
  BY StopAutoplayIs
<1>6. \/ t = s
      \/ t = p
      \/ t = a /\ ~s.paused
      \/ t = x
  BY <1>8 DEF Swiper!Interrupted, Swiper!PauseAutoplay
<1> HIDE DEF t, p, a, x
<1>7. Placed(s, s) /\ Going(s, s)
  BY DEF Placed, Going
<1>9. Placed(s, p) /\ Going(s, p)
  BY <1>1, <1>3 DEF Placed, Going, Single
<1>10. ~s.paused => Placed(s, a) /\ Going(s, a)
  BY <1>1, <1>2, <1>4 DEF Placed, Going, Single
<1> QED BY <1>5, <1>6, <1>7, <1>9, <1>10 DEF t

(* The handlers' parts.                                                    *)

\* What slideTo leaves as it was.
Same(s, t) == t \in Sliding /\ t.slides = s.slides /\ t.size = s.size /\ t.touch = s.touch /\ t.lock = s.lock
There(s, t) == t.active = s.active /\ t.translate = s.translate /\ t.stuck = s.stuck /\ t.loose = s.loose

LEMMA GridAlike ==
    ASSUME NEW s, NEW t, Same(s, t)
    PROVE  /\ \A k : Swiper!Grid(t, k) = Swiper!Grid(s, k)
           /\ Swiper!LastIndex(t) = Swiper!LastIndex(s) /\ (Swiper!Dragging(t) <=> Swiper!Dragging(s))
BY DEF Same, Swiper!Grid, Swiper!LastIndex, Swiper!Dragging

LEMMA ThereSure ==
    ASSUME NEW s, NEW t, Same(s, t), There(s, t)
    PROVE  (Sure(s) => Sure(t)) /\ (Fair(s) => Fair(t)) /\ (Landed(s) => Landed(t))
<1>1. /\ Swiper!Grid(t, t.active) = Swiper!Grid(s, s.active) /\ t.touch = s.touch
      /\ t.active = s.active /\ t.translate = s.translate /\ t.stuck = s.stuck /\ t.loose = s.loose
      /\ Swiper!LastIndex(t) = Swiper!LastIndex(s) /\ (Swiper!Dragging(t) <=> Swiper!Dragging(s))
  BY GridAlike DEF Same, There
<1> QED BY <1>1 DEF Sure, Fair, Landed, InRow, OnGrid, Drags

LEMMA LandedSure ==
    ASSUME NEW s, Landed(s)
    PROVE  Sure(s) /\ Fair(s)
BY DEF Landed, Sure, Fair, Swiper!Dragging

LEMMA SureFair == ASSUME NEW s, Sure(s) PROVE Fair(s)
BY DEF Sure, Fair

LEMMA ProgressIs ==
    ASSUME NEW s \in Sliding, NEW to
    PROVE  LET t == Swiper!UpdateProgress(s, to) IN Placed(s, t) /\ Playing(s, t)
<1> DEFINE t == Swiper!UpdateProgress(s, to)
           one == Swiper!MaxTranslate(s) = 0
           first == one \/ to >= 0
           last == one \/ to <= Swiper!MaxTranslate(s)
<1>1. first \in BOOLEAN /\ last \in BOOLEAN
  OBVIOUS
<1>2. t = [s EXCEPT !.isBeginning = first, !.isEnd = last]
  BY DEF Swiper!UpdateProgress
<1> HIDE DEF first, last, t
<1>3. /\ t \in Sliding /\ t.slides = s.slides /\ t.size = s.size /\ t.active = s.active /\ t.translate = s.translate
      /\ t.trans = s.trans /\ t.animating = s.animating /\ t.touch = s.touch /\ t.lock = s.lock /\ t.stuck = s.stuck
      /\ t.loose = s.loose /\ Playing(s, t)
  BY <1>1, <1>2 DEF Sliding, Playing
<1> QED BY <1>3 DEF Placed, Playing, t

LEMMA ArrivesIs ==
    ASSUME OptOK, NEW s \in Sliding, NEW q \in Nat, q <= Swiper!LastIndex(s)
    PROVE  LET t == Swiper!Arrives(s, q) IN Same(s, t) /\ Going(s, t) /\ Landed(t)
<1> DEFINE t == Swiper!Arrives(s, q)
           g == -Swiper!Grid(s, q)
           l == Swiper!Dragging(s)
<1>1. g \in Int
  BY GridIs
<1>2. l \in BOOLEAN
  <2>1. s.touch # NULL => s.touch.moved \in BOOLEAN
    BY DEF Sliding, Touching
  <2> QED BY <2>1 DEF Swiper!Dragging
<1>3. t = [s EXCEPT !.active = q, !.translate = g, !.stuck = FALSE, !.loose = l]
  BY DEF Swiper!Arrives
<1>4. PICK b \in BOOLEAN : b = l
  BY <1>2, Zenon
<1>5. t = [s EXCEPT !.active = q, !.translate = g, !.stuck = FALSE, !.loose = b]
  BY <1>3, <1>4, Zenon
<1>6. b <=> Swiper!Dragging(s)
  BY <1>4
<1> HIDE DEF g, t, l
<1>7. /\ t \in Sliding /\ t.slides = s.slides /\ t.size = s.size /\ t.active = q /\ t.translate = g
      /\ t.touch = s.touch /\ t.lock = s.lock /\ t.stuck = FALSE /\ t.loose = b /\ Playing(s, t)
  BY <1>1, <1>5 DEF Sliding, Playing
<1>8. Same(s, t)
  BY <1>7 DEF Same
<1>9. Landed(t)
  <2>1. /\ Swiper!Grid(t, q) = Swiper!Grid(s, q) /\ Swiper!LastIndex(t) = Swiper!LastIndex(s)
        /\ (Swiper!Dragging(t) <=> Swiper!Dragging(s))
    BY <1>8, GridAlike
  <2>2. InRow(t) /\ OnGrid(t)
    BY <1>7, <2>1 DEF InRow, OnGrid, g
  <2>3. t.loose <=> Swiper!Dragging(t)
    BY <1>6, <1>7, <2>1
  <2> QED BY <1>7, <2>2, <2>3 DEF Landed
<1> QED BY <1>7, <1>8, <1>9, PlaysOn DEF t

\* A step that changes nothing but where the transition is.
LEMMA MovesIs ==
    ASSUME NEW s \in Sliding, NEW m \in Movement \cup {NULL}, NEW a \in BOOLEAN, NEW e \in BOOLEAN
    PROVE  LET t == [s EXCEPT !.trans = m, !.animating = a, !.ends = e]
           IN  Same(s, t) /\ Going(s, t) /\ There(s, t)
<1> DEFINE t == [s EXCEPT !.trans = m, !.animating = a, !.ends = e]
<1>1. /\ t \in Sliding /\ t.slides = s.slides /\ t.size = s.size /\ t.active = s.active /\ t.translate = s.translate
      /\ t.touch = s.touch /\ t.lock = s.lock /\ t.stuck = s.stuck /\ t.loose = s.loose /\ Playing(s, t)
  BY DEF Sliding, Playing
<1> HIDE DEF t
<1> QED BY <1>1, PlaysOn DEF Same, There, t

\* slideTo comes to a slide, with or without a transition, or stays where it is
\* because the direction is locked.
LEMMA StepsTo ==
    ASSUME OptOK, NEW s \in Sliding, NEW i \in Int, NEW timed \in BOOLEAN, NEW internal \in BOOLEAN
    PROVE  LET q == Swiper!Target(s, i)
               a == Swiper!UpdateProgress(Swiper!Interrupted(s, timed, internal), -Swiper!Grid(s, q))
               r == Swiper!Arrives(a, q)
           IN  /\ Same(s, a) /\ Going(s, a) /\ There(s, a) /\ a.trans = s.trans /\ a.animating = s.animating
               /\ Same(s, r) /\ Going(s, r) /\ Landed(r) /\ q \in Nat
<1> DEFINE q == Swiper!Target(s, i)
           to == -Swiper!Grid(s, q)
           b == Swiper!Interrupted(s, timed, internal)
           a == Swiper!UpdateProgress(b, to)
           r == Swiper!Arrives(a, q)
<1>1. q \in Nat /\ q <= Swiper!LastIndex(s)
  BY TargetIs
<1> HIDE DEF q
<1>2. Placed(s, b) /\ Going(s, b)
  BY InterruptedIs
<1> HIDE DEF b
<1>3. Placed(b, a) /\ Going(b, a)
  BY <1>2, ProgressIs, PlaysOn DEF Placed
<1> HIDE DEF a
<1>4. /\ Placed(s, a) /\ Same(s, a) /\ There(s, a) /\ Going(s, a) /\ a.trans = s.trans /\ a.animating = s.animating
  BY <1>2, <1>3 DEF Placed, Same, There, Going
<1>5. a \in Sliding /\ q <= Swiper!LastIndex(a)
  BY <1>1, <1>4, GridAlike DEF Same
<1>6. Same(a, r) /\ Going(a, r) /\ Landed(r)
  BY <1>1, <1>5, ArrivesIs
<1> HIDE DEF r
<1>7. Same(s, r) /\ Going(s, r)
  BY <1>4, <1>6 DEF Same, Going
<1> QED BY <1>1, <1>4, <1>6, <1>7 DEF q, to, b, a, r

LEMMA JumpsTo ==
    ASSUME OptOK, NEW s \in Sliding, NEW i \in Int, NEW internal \in BOOLEAN
    PROVE  LET t == Swiper!JumpTo(s, i, internal)
           IN  /\ Same(s, t) /\ Going(s, t)
               /\ (s.lock # {} /\ There(s, t)) \/ Landed(t)
<1> DEFINE q == Swiper!Target(s, i)
           a == Swiper!UpdateProgress(Swiper!Interrupted(s, FALSE, internal), -Swiper!Grid(s, q))
           r == Swiper!Arrives(a, q)
           x == [r EXCEPT !.trans = NULL, !.animating = FALSE]
           y == [r EXCEPT !.trans = NULL, !.animating = FALSE, !.ends = r.ends]
           t == Swiper!JumpTo(s, i, internal)
<1>1. /\ Same(s, a) /\ Going(s, a) /\ There(s, a)
      /\ Same(s, r) /\ Going(s, r) /\ Landed(r)
  BY StepsTo
<1>2. \/ t = a /\ Swiper!Refuses(s, q)
      \/ t = r
      \/ t = x
  BY DEF Swiper!JumpTo
<1>3. Swiper!Refuses(s, q) => s.lock # {}
  BY DEF Swiper!Refuses
<1> HIDE DEF q, a, r, t
<1>4. r \in Sliding /\ r.ends \in BOOLEAN
  BY <1>1 DEF Same, Sliding
<1>5. x = y
  BY <1>4 DEF Sliding
<1>6. Same(r, y) /\ Going(r, y) /\ There(r, y)
  <2> DEFINE e == r.ends
             m == NULL
             no == FALSE
  <2>1. e \in BOOLEAN /\ m \in Movement \cup {NULL} /\ no \in BOOLEAN
    BY <1>4
  <2> HIDE DEF e, m, no, x, y
  <2>2. LET z == [r EXCEPT !.trans = m, !.animating = no, !.ends = e]
        IN  Same(r, z) /\ Going(r, z) /\ There(r, z)
    BY <1>4, <2>1, MovesIs
  <2> QED BY <2>2 DEF e, m, no, y
<1> HIDE DEF x, y
<1>7. Landed(y)
  BY <1>1, <1>6, ThereSure
<1>8. Same(s, y) /\ Going(s, y)
  BY <1>1, <1>6 DEF Same, Going
<1> QED BY <1>1, <1>2, <1>3, <1>5, <1>7, <1>8 DEF t

\* So it keeps to the grid.
LEMMA JumpsSure ==
    ASSUME OptOK, NEW s \in Sliding, NEW i \in Int, NEW internal \in BOOLEAN
    PROVE  LET t == Swiper!JumpTo(s, i, internal)
           IN  (Sure(s) \/ s.lock = {} => Sure(t)) /\ (Fair(s) => Fair(t))
<1> DEFINE t == Swiper!JumpTo(s, i, internal)
<1>1. Same(s, t) /\ ((s.lock # {} /\ There(s, t)) \/ Landed(t))
  BY JumpsTo
<1> HIDE DEF t
<1> QED BY <1>1, ThereSure, LandedSure DEF t

LEMMA GlidesTo ==
    ASSUME OptOK, NEW s \in Sliding, NEW i \in Int, NEW internal \in BOOLEAN, NEW t \in Swiper!GlideTo(s, i, internal)
    PROVE  /\ Same(s, t) /\ Going(s, t) /\ (Sure(s) => Sure(t))
           /\ (Swiper!Refuses(s, Swiper!Target(s, i)) /\ There(s, t)) \/ Landed(t)
<1> DEFINE q == Swiper!Target(s, i)
           to == -Swiper!Grid(s, q)
           a == Swiper!UpdateProgress(Swiper!Interrupted(s, TRUE, internal), to)
           r == Swiper!Arrives(a, q)
           Mo(p) == IF p = to THEN NULL ELSE [from |-> p, to |-> to]
<1>1. /\ Same(s, a) /\ Going(s, a) /\ There(s, a)
      /\ Same(s, r) /\ Going(s, r) /\ Landed(r) /\ q \in Nat
  BY StepsTo
<1>2. \/ t = a /\ Swiper!Refuses(s, q)
      \/ t = r
      \/ \E p \in Swiper!Seen(s) : t = [r EXCEPT !.trans = Mo(p), !.animating = TRUE, !.ends = @ \/ ~s.animating]
  BY DEF Swiper!GlideTo
<1>3. to \in Int
  BY <1>1, GridIs
<1> HIDE DEF q, to, a, r, Mo
<1>9. r \in Sliding /\ r.ends \in BOOLEAN /\ s.animating \in BOOLEAN
  BY <1>1 DEF Same, Sliding
<1>14. ASSUME NEW p \in Swiper!Seen(s), t = [r EXCEPT !.trans = Mo(p), !.animating = TRUE, !.ends = @ \/ ~s.animating]
       PROVE  Same(s, t) /\ Going(s, t) /\ Landed(t)
  <2>1. p \in Int
    <3>1. s.translate \in Int /\ (s.trans # NULL => s.trans.from \in Int /\ s.trans.to \in Int)
      BY DEF Sliding, Movement
    <3> QED BY <3>1 DEF Swiper!Seen
  <2> DEFINE m == Mo(p)
             e == r.ends \/ ~s.animating
             y == [r EXCEPT !.trans = m, !.animating = TRUE, !.ends = e]
  <2>2. m \in Movement \cup {NULL} /\ e \in BOOLEAN
    BY <1>3, <1>9, <2>1 DEF Mo, Movement
  <2>3. t = y
    BY <1>9, <1>14 DEF Sliding
  <2> HIDE DEF m, e
  <2>4. Same(r, y) /\ Going(r, y) /\ There(r, y)
    BY <1>9, <2>2, MovesIs
  <2> HIDE DEF y
  <2> QED BY <1>1, <2>3, <2>4, ThereSure DEF Same, Going
<1> QED BY <1>1, <1>2, <1>14, ThereSure, LandedSure DEF q

LEMMA LoopFixed ==
    ASSUME OptOK, NEW s \in Sliding
    PROVE  LET t == Swiper!FixLoop(s) IN Same(s, t) /\ Going(s, t) /\ (Sure(s) => Sure(t))
<1> DEFINE n == Len(s.slides)
<1>1. n \in Int /\ 1 \in Int /\ TRUE \in BOOLEAN
  <2>1. s.slides \in Seq(SwiperSlide)
    BY DEF Sliding
  <2> DEFINE l == s.slides
  <2> HIDE DEF l
  <2>2. Len(l) \in Nat
    BY <2>1, LenProperties DEF l
  <2> QED BY <2>2 DEF l
<1>2. \/ Swiper!FixLoop(s) = s
      \/ Swiper!FixLoop(s) = Swiper!JumpTo(s, n, TRUE)
      \/ Swiper!FixLoop(s) = Swiper!JumpTo(s, 1, TRUE)
  BY DEF Swiper!FixLoop
<1> HIDE DEF n
<1>3. \A i \in Int : LET t == Swiper!JumpTo(s, i, TRUE)
                     IN  Same(s, t) /\ Going(s, t) /\ (Sure(s) => Sure(t))
  BY <1>1, JumpsTo, JumpsSure
<1>4. Same(s, s) /\ Going(s, s)
  BY DEF Same, Going
<1> DEFINE t == Swiper!FixLoop(s)
<1>5. CASE t = s
  BY <1>4, <1>5
<1>6. CASE t = Swiper!JumpTo(s, n, TRUE)
  BY <1>1, <1>3, <1>6
<1>7. CASE t = Swiper!JumpTo(s, 1, TRUE)
  BY <1>1, <1>3, <1>7
<1> QED BY <1>2, <1>5, <1>6, <1>7

\* slideNext and slidePrev: in a loop nothing happens while a transition runs.
LEMMA LoopGlides ==
    ASSUME OptOK, NEW s \in Sliding, NEW d \in {-1, 1}, NEW internal \in BOOLEAN,
           NEW t \in Swiper!GlideTo(Swiper!FixLoop(s), Swiper!FixLoop(s).active + d, internal)
    PROVE  Same(s, t) /\ Going(s, t) /\ (Sure(s) => Sure(t))
<1> DEFINE f == Swiper!FixLoop(s)
           i == f.active + d
<1>1. Same(s, f) /\ Going(s, f) /\ (Sure(s) => Sure(f))
  BY LoopFixed
<1> HIDE DEF f
<1>2. f \in Sliding /\ i \in Int
  BY <1>1 DEF Same, Sliding
<1>3. t \in Swiper!GlideTo(f, i, internal)
  BY DEF f
<1> HIDE DEF i
<1>4. Same(f, t) /\ Going(f, t) /\ (Sure(f) => Sure(t))
  BY <1>2, <1>3, GlidesTo
<1> QED BY <1>1, <1>4 DEF Same, Going

LEMMA NextGlides ==
    ASSUME OptOK, NEW s \in Sliding, NEW internal \in BOOLEAN,
           NEW t \in Swiper!SlideNext(s, internal)
    PROVE  Same(s, t) /\ Going(s, t) /\ (Sure(s) => Sure(t))
<1>1. CASE swiperOpt.loop /\ s.animating
  BY <1>1 DEF Swiper!SlideNext, Same, Going
<1>2. CASE ~(swiperOpt.loop /\ s.animating)
  <2>1. t \in Swiper!GlideTo(Swiper!FixLoop(s), Swiper!FixLoop(s).active + 1, internal)
    BY <1>2 DEF Swiper!SlideNext
  <2> QED BY <2>1, LoopGlides
<1> QED BY <1>1, <1>2

LEMMA PrevGlides ==
    ASSUME OptOK, NEW s \in Sliding, NEW t \in Swiper!SlidePrev(s)
    PROVE  Same(s, t) /\ Going(s, t) /\ (Sure(s) => Sure(t))
<1>1. CASE swiperOpt.loop /\ s.animating
  BY <1>1 DEF Swiper!SlidePrev, Same, Going
<1>2. CASE ~(swiperOpt.loop /\ s.animating)
  <2> DEFINE f == Swiper!FixLoop(s)
  <2>1. t \in Swiper!GlideTo(f, f.active - 1, FALSE)
    BY <1>2 DEF Swiper!SlidePrev
  <2>2. Same(s, f)
    BY LoopFixed
  <2>3. f.active - 1 = f.active + (-1)
    <3> HIDE DEF f
    <3>1. f.active \in Int
      BY <2>2 DEF Same, Sliding
    <3> QED BY <3>1
  <2>4. t \in Swiper!GlideTo(f, f.active + (-1), FALSE)
    BY <2>1, <2>3
  <2>5. -1 \in {-1, 1} /\ FALSE \in BOOLEAN
    OBVIOUS
  <2> QED BY <2>4, <2>5, LoopGlides
<1> QED BY <1>1, <1>2

\* update(true): after it the slides are on the grid if they were before.
LEMMA ForcedIs ==
    ASSUME OptOK, NEW s \in Sliding
    PROVE  LET t == Swiper!ForceSetTranslate(s)
           IN  Same(s, t) /\ Going(s, t) /\ (Fair(s) => Sure(t))
<1> DEFINE last == Swiper!LastIndex(s)
           top == Swiper!MaxTranslate(s)
           to == Swiper!Clamp(top, s.translate, 0)
           m == IF to = s.translate THEN s.trans ELSE NULL
           l == s.loose \/ Swiper!Dragging(s)
           r == [s EXCEPT !.translate = to, !.trans = m, !.loose = l]
           k == Swiper!Nearest(r)
           t == [r EXCEPT !.active = k]
<1>1. last \in Nat
  BY LastIndexIs
<1>2. top \in Int /\ top <= 0 /\ 0 \in Int
  BY <1>1, GridIs DEF Swiper!MaxTranslate
<1>3. s.translate \in Int /\ m \in Movement \cup {NULL}
  BY DEF Sliding
<1>12. l \in BOOLEAN
  <2>1. s.loose \in BOOLEAN /\ (s.touch # NULL => s.touch.moved \in BOOLEAN)
    BY DEF Sliding, Touching
  <2> QED BY <2>1 DEF Swiper!Dragging
<1>4. /\ to \in Int /\ (top <= s.translate /\ s.translate <= 0 => to = s.translate)
      /\ (s.translate < top => to = top)
  <2> DEFINE a == top
             n == s.translate
  <2> HIDE DEF a, n
  <2>1. a \in Int /\ n \in Int /\ 0 \in Int /\ a <= 0
    BY <1>2, <1>3 DEF a, n
  <2>2. LET c == Swiper!Clamp(a, n, 0) IN c \in Int /\ (a <= n /\ n <= 0 => c = n) /\ (n < a => c = a)
    BY <2>1, SwiperClamps
  <2> QED BY <2>2 DEF a, n
<1>5. Swiper!ForceSetTranslate(s) = t
  <2>1. r = [s EXCEPT !.translate = to, !.trans = IF to = s.translate THEN @ ELSE NULL,
                        !.loose = @ \/ Swiper!Dragging(s)]
    BY DEF Sliding
  <2> HIDE DEF to
  <2> QED BY <2>1 DEF Swiper!ForceSetTranslate, to
<1>13. l <=> s.loose \/ Swiper!Dragging(s)
  OBVIOUS
<1> HIDE DEF to, m, l
<1>6. /\ r \in Sliding /\ r.slides = s.slides /\ r.size = s.size /\ r.active = s.active /\ r.translate = to
      /\ r.touch = s.touch /\ r.lock = s.lock /\ r.stuck = s.stuck /\ r.loose = l /\ Playing(s, r)
  BY <1>3, <1>4, <1>12 DEF Sliding, Playing
<1> HIDE DEF r
<1>7. k \in Nat /\ k <= last
  <2> DEFINE half == (r.size - 2 * r.translate) \div (2 * r.size)
  <2>1. half \in Int
    <3>1. r.size \in Nat \ {0} /\ r.translate \in Int
      BY <1>6 DEF Sliding
    <3> DEFINE a == r.size - 2 * r.translate
               b == 2 * r.size
    <3>2. a \in Int /\ b \in Nat \ {0}
      BY <3>1
    <3> HIDE DEF a, b
    <3>3. a \div b \in Int
      BY <3>2
    <3> QED BY <3>3 DEF a, b
  <2>2. k = Swiper!Target(r, half)
    BY DEF Swiper!Nearest, Swiper!Target
  <2>3. Swiper!LastIndex(r) = last
    BY <1>6 DEF Swiper!LastIndex
  <2> HIDE DEF half, last
  <2> QED BY <1>6, <2>1, <2>2, <2>3, TargetIs
<1>8. OnGrid(s) => to = -Swiper!Grid(s, k)
  <2> SUFFICES ASSUME OnGrid(s) PROVE to = -Swiper!Grid(s, k)
    OBVIOUS
  <2> DEFINE i == s.active
  <2>1. i \in Nat /\ s.translate = -Swiper!Grid(s, i) /\ top = -Swiper!Grid(s, last)
    BY DEF OnGrid, Sliding, Swiper!MaxTranslate
  <2> HIDE DEF i, last, top
  <2>2. Swiper!Grid(s, i) \in Nat /\ Swiper!Grid(s, last) \in Nat
    BY <1>1, <2>1, GridIs
  <2>3. PICK j \in Nat : j <= last /\ to = -Swiper!Grid(s, j)
    <3>1. CASE i <= last
      <4>1. Swiper!Grid(s, i) <= Swiper!Grid(s, last)
        BY <1>1, <2>1, <3>1, GridGrows
      <4>2. to = s.translate
        BY <1>4, <2>1, <2>2, <4>1
      <4> QED BY <2>1, <3>1, <4>2
    <3>2. CASE last <= i
      <4>1. Swiper!Grid(s, last) <= Swiper!Grid(s, i)
        BY <1>1, <2>1, <3>2, GridGrows
      <4>2. to = top
        BY <1>4, <2>1, <2>2, <4>1
      <4> QED BY <1>1, <2>1, <4>2
    <3> QED BY <1>1, <2>1, <3>1, <3>2
  <2>4. r.translate = -Swiper!Grid(r, j) /\ Swiper!LastIndex(r) = last
    BY <1>6, <2>3 DEF Swiper!Grid, Swiper!LastIndex, last
  <2>5. k = j
    BY <1>6, <2>3, <2>4, NearestOnGrid
  <2> QED BY <2>3, <2>5
<1> HIDE DEF k
<1>9. /\ t \in Sliding /\ t.slides = s.slides /\ t.size = s.size /\ t.active = k /\ t.translate = to
      /\ t.touch = s.touch /\ t.lock = s.lock /\ t.stuck = s.stuck /\ t.loose = l /\ Playing(s, t)
  BY <1>6, <1>7 DEF Sliding, Playing
<1> HIDE DEF t
<1>10. Same(s, t) /\ Going(s, t)
  BY <1>9, PlaysOn DEF Same
<1>11. Fair(s) => Sure(t)
  <2>1. /\ Swiper!Grid(t, k) = Swiper!Grid(s, k) /\ Swiper!LastIndex(t) = last
        /\ (Swiper!Dragging(t) <=> Swiper!Dragging(s))
    BY <1>10, GridAlike
  <2>2. InRow(t)
    BY <1>7, <1>9, <2>1 DEF InRow
  <2>3. OnGrid(s) => OnGrid(t)
    BY <1>8, <1>9, <2>1 DEF OnGrid
  <2>4. t.loose <=> s.loose \/ Swiper!Dragging(s)
    BY <1>9, <1>13
  <2>5. s.touch = NULL => ~Swiper!Dragging(s)
    BY DEF Swiper!Dragging
  <2> QED BY <1>9, <2>1, <2>2, <2>3, <2>4, <2>5 DEF Fair, Sure
<1> QED BY <1>5, <1>10, <1>11

LEMMA UpdateIs ==
    ASSUME OptOK, NEW s \in Sliding
    PROVE  LET t == Swiper!Update(s) IN Same(s, t) /\ Going(s, t) /\ (Fair(s) => Sure(t))
<1> DEFINE p == Swiper!UpdateProgress(s, s.translate)
           i == s.active
           j == Swiper!JumpTo(p, i, TRUE)
           t == Swiper!Update(s)
<1>1. Placed(s, p) /\ Going(s, p)
  BY ProgressIs, PlaysOn
<1>2. t = IF j.translate = s.translate THEN Swiper!ForceSetTranslate(j) ELSE j
  BY DEF Swiper!Update
<1> HIDE DEF p, t
<1>3. p \in Sliding /\ Same(s, p) /\ There(s, p)
  BY <1>1 DEF Placed, Same, There
<1>4. i \in Int /\ TRUE \in BOOLEAN
  BY DEF Sliding
<1> HIDE DEF i
<1>5. Same(p, j) /\ Going(p, j) /\ (Fair(p) => Fair(j)) /\ (There(p, j) \/ Landed(j))
  BY <1>3, <1>4, JumpsTo, JumpsSure
<1> HIDE DEF j
<1>6. j \in Sliding /\ Same(s, j) /\ Going(s, j) /\ (Fair(s) => Fair(j))
  BY <1>1, <1>3, <1>5, ThereSure DEF Same, Going
<1> DEFINE f == Swiper!ForceSetTranslate(j)
<1>7. Same(j, f) /\ Going(j, f) /\ (Fair(j) => Sure(f))
  BY <1>6, ForcedIs
<1> HIDE DEF f
<1>8. Same(s, f) /\ Going(s, f) /\ (Fair(s) => Sure(f))
  BY <1>6, <1>7 DEF Same, Going
<1>9. t = f \/ (t = j /\ Landed(j))
  <2>1. There(p, j) => j.translate = s.translate
    BY <1>3 DEF There
  <2> QED BY <1>2, <1>5, <2>1 DEF f
<1> QED BY <1>6, <1>8, <1>9, LandedSure DEF t

(* The actions.                                                            *)

LEMMA SwipeBecomes ==
    ASSUME OptOK, NEW s, SwipeOK(s), Swiper!Become(s)
    PROVE  SwipeInv'
<1>1. Swiper!S' = s /\ swiperOpt' = swiperOpt
  BY DEF Swiper!Become, Swiper!S, SwipeOK, Sliding
<1>2. (Sure(s) => Sure(Swiper!S)') /\ (Single(s) => Single(Swiper!S)')
  BY <1>1 DEF Sure, InRow, OnGrid, Drags, Single, Swiper!Dragging, Swiper!Grid, Swiper!LastIndex, Swiper!Looped
<1>3. s \in Sliding => (Swiper!S \in Sliding)'
  BY <1>1 DEF Sliding, Movement, Touching
<1>4. OptOK'
  BY <1>1 DEF OptOK
<1> QED BY <1>2, <1>3, <1>4 DEF SwipeInv, SwipeOK

LEMMA SwipeHas ==
    ASSUME SwipeInv
    PROVE  LET s == Swiper!S
           IN  /\ OptOK /\ s \in Sliding /\ Sure(s) /\ Single(s)
               /\ s.slides = slides /\ s.size = size /\ s.active = swiperActive /\ s.translate = translate
               /\ s.trans = swiperTrans /\ s.animating = swiperAnimating /\ s.resumes = resumes /\ s.ends = ends
               /\ s.touch = swiperTouch /\ s.lock = lock /\ s.autoplaying = autoplaying /\ s.paused = paused
               /\ s.timers = timers /\ s.id = swiperId /\ s.stuck = stuck /\ s.loose = loose /\ s.restarted = restarted
BY DEF SwipeInv, SwipeOK, Swiper!S

\* A step of slideTo and the like is a step of the invariant.
LEMMA SwipeGoes ==
    ASSUME SwipeInv, NEW t, Same(Swiper!S, t), Going(Swiper!S, t), Sure(Swiper!S) => Sure(t), Swiper!Become(t)
    PROVE  SwipeInv'
<1>1. OptOK /\ Sure(Swiper!S) /\ Single(Swiper!S)
  BY SwipeHas
<1>3. SwipeOK(t)
  BY <1>1 DEF SwipeOK, Same, Going
<1> QED BY <1>1, <1>3, SwipeBecomes

LEMMA SwipeInit == Swiper!Init => SwipeInv
<1> SUFFICES ASSUME Swiper!Init PROVE SwipeInv
  OBVIOUS
<1> DEFINE s == Swiper!S
<1>1. OptOK
  BY SwipeKnows DEF Swiper!Init, OptOK
<1>2. slides \in Seq(SwiperSlide) \ {<<>>} /\ size \in Nat \ {0}
  BY <1>1 DEF Swiper!Init, OptOK
<1>3. Swiper!Looped \in Nat
  BY DEF Swiper!Looped
<1>4. /\ swiperActive \in Nat /\ swiperActive = Swiper!Looped /\ translate = -size * Swiper!Looped
      /\ swiperTrans = NULL /\ swiperAnimating = FALSE
      /\ isBeginning = ~swiperOpt.loop /\ isEnd = (Len(slides) + 2 * Swiper!Looped = 1)
      /\ ends = FALSE /\ resumes = FALSE /\ swiperTouch = NULL /\ lock = {} /\ paused = FALSE
      /\ autoplaying = (swiperOpt.auto # "none")
      /\ timers = (IF swiperOpt.auto = "none" THEN {} ELSE {1})
      /\ swiperId = (IF swiperOpt.auto = "none" THEN 0 ELSE 1)
      /\ loose = FALSE /\ stuck = FALSE /\ restarted = FALSE
  BY <1>3 DEF Swiper!Init
<1>5. swiperOpt.loop \in BOOLEAN
  BY <1>1 DEF OptOK
<1>6. timers \in {T \in SUBSET Nat : IsFiniteSet(T)}
  <2>1. IsFiniteSet({}) /\ IsFiniteSet({1})
    BY FS_EmptySet, FS_Singleton
  <2> QED BY <1>4, <2>1
<1>7. translate \in Int /\ swiperId \in Nat
  <2>1. size * Swiper!Looped \in Nat
    BY <1>2, <1>3
  <2>2. -size * Swiper!Looped \in Int
    BY <1>2, <1>3
  <2> QED BY <1>4, <2>2
<1>8. isBeginning \in BOOLEAN /\ isEnd \in BOOLEAN /\ autoplaying \in BOOLEAN /\ swiperAnimating \in BOOLEAN /\ ends \in BOOLEAN
      /\ resumes \in BOOLEAN /\ paused \in BOOLEAN /\ loose \in BOOLEAN
      /\ stuck \in BOOLEAN /\ restarted \in BOOLEAN
  BY <1>4, Zenon
<1>9. swiperTrans \in Movement \cup {NULL} /\ swiperTouch \in Touching \cup {NULL}
  BY <1>4, Zenon
<1>10. lock \in SUBSET {"next", "prev"}
  BY <1>4
<1>11. s \in Sliding
  BY <1>2, <1>4, <1>6, <1>7, <1>8, <1>9, <1>10 DEF Swiper!S, Sliding
<1>12. /\ s.translate = translate /\ s.size = size /\ s.active = swiperActive /\ s.slides = slides
       /\ s.paused = paused /\ s.resumes = resumes /\ s.timers = timers /\ s.id = swiperId /\ s.touch = swiperTouch
       /\ s.loose = loose
  BY DEF Swiper!S
<1> HIDE DEF s
<1>13. OnGrid(s)
  <2>1. s.translate = -(s.size * s.active)
    BY <1>2, <1>3, <1>4, <1>12
  <2> QED BY <2>1 DEF OnGrid, Swiper!Grid
<1>14. InRow(s)
  <2> DEFINE n == Len(slides)
             k == Swiper!Looped
  <2>1. n \in Nat /\ n # 0
    BY <1>2, EmptySeq, LenProperties
  <2>2. k \in {0, 1}
    BY DEF Swiper!Looped
  <2>3. s.active = k /\ Swiper!LastIndex(s) = n + 2 * k - 1
    BY <1>4, <1>12 DEF Swiper!LastIndex
  <2> HIDE DEF n, k
  <2>4. k <= n + 2 * k - 1
    BY <2>1, <2>2
  <2> QED BY <2>3, <2>4 DEF InRow
<1>16. Sure(s)
  BY <1>4, <1>12, <1>13, <1>14 DEF Sure, Swiper!Dragging
<1>15. Single(s)
  BY <1>4, <1>12 DEF Single
<1> QED BY <1>1, <1>11, <1>15, <1>16 DEF SwipeInv, SwipeOK, s

LEMMA SwipeTouched ==
    ASSUME SwipeInv, Swiper!TouchStart
    PROVE  SwipeInv'
<1> DEFINE S == Swiper!S
           c == [moved |-> FALSE, start |-> 0, diff |-> 0, current |-> 0]
           l == S.loose \/ Swiper!Dragging(S)
           t == [S EXCEPT !.touch = c, !.loose = l]
<1>1. OptOK /\ S \in Sliding /\ Sure(S) /\ Single(S)
  BY SwipeHas
<1>9. S.loose \in BOOLEAN /\ (S.touch # NULL => S.touch.moved \in BOOLEAN)
  BY <1>1 DEF Sliding, Touching
<1>2. Swiper!Become(t)
  <2>1. t = [S EXCEPT !.touch = c, !.loose = @ \/ Swiper!Dragging(S)]
    BY <1>1 DEF Sliding
  <2> QED BY <2>1 DEF Swiper!TouchStart
<1>3. c \in Touching /\ c # NULL /\ ~c.moved
  <2>1. c \in Touching /\ ~c.moved
    BY DEF Touching
  <2> QED BY <2>1, SwipeKnows
<1> HIDE DEF S, c
<1>8. l \in BOOLEAN
  BY <1>9 DEF Swiper!Dragging
<1>10. l <=> S.loose \/ Swiper!Dragging(S)
  OBVIOUS
<1> HIDE DEF l
<1>4. /\ t \in Sliding /\ t.size = S.size /\ t.active = S.active /\ t.translate = S.translate /\ t.stuck = S.stuck
      /\ t.slides = S.slides /\ t.touch = c /\ t.loose = l /\ Playing(S, t)
  BY <1>1, <1>3, <1>8 DEF Sliding, Playing
<1> HIDE DEF t
<1>5. InRow(t) /\ (OnGrid(S) => OnGrid(t))
  BY <1>1, <1>4 DEF Sure, InRow, OnGrid, Swiper!LastIndex, Swiper!Grid
<1>6. Sure(t)
  BY <1>1, <1>3, <1>4, <1>5, <1>10 DEF Sure, Swiper!Dragging
<1>7. SwipeOK(t)
  BY <1>1, <1>4, <1>6, PlaysOn DEF SwipeOK, Going
<1> QED BY <1>1, <1>2, <1>7, SwipeBecomes

\* What is dragged follows the finger, and comes back with it.
LEMMA DraggedIs ==
    ASSUME OptOK, NEW s \in Sliding, Swiper!Dragging(s), NEW d \in Int, InRow(s),
           ~s.stuck /\ ~s.loose => s.touch.start = -Swiper!Grid(s, s.active)
    PROVE  LET t == Swiper!Dragged(s, d) IN t \in Sliding /\ Sure(t) /\ Going(s, t)
<1> DEFINE lo == Swiper!MaxTranslate(s) - 1
           n == s.touch.start + d
           held == Swiper!Clamp(lo, n, 1)
           locked == \/ "next" \in s.lock /\ d <= 0 /\ held < s.touch.start
                     \/ "prev" \in s.lock /\ d > 0 /\ held > s.touch.start
           to == IF locked THEN s.touch.start ELSE held
           p == Swiper!UpdateProgress(s, to)
           c == [s.touch EXCEPT !.diff = d, !.current = to]
           t == [p EXCEPT !.translate = to, !.trans = NULL, !.touch = c]
<1>1. s.touch \in Touching /\ NULL \notin Touching /\ s.touch.moved
  BY SwipeKnows DEF Sliding, Swiper!Dragging
<1>2. s.touch.start \in Int
  BY <1>1 DEF Touching
<1>3. /\ Swiper!MaxTranslate(s) \in Int /\ Swiper!MaxTranslate(s) <= 0
      /\ Swiper!MaxTranslate(s) <= -Swiper!Grid(s, s.active) /\ -Swiper!Grid(s, s.active) <= 0
  <2>1. Swiper!LastIndex(s) \in Nat /\ s.active \in Nat /\ s.active <= Swiper!LastIndex(s)
    BY LastIndexIs DEF Sliding, InRow
  <2> DEFINE l == Swiper!LastIndex(s)
             g == Swiper!Grid(s, s.active)
  <2> HIDE DEF l
  <2>2. Swiper!Grid(s, l) \in Nat /\ g \in Nat /\ g <= Swiper!Grid(s, l)
    BY <2>1, GridIs, GridGrows DEF l
  <2>3. Swiper!MaxTranslate(s) = -Swiper!Grid(s, l)
    BY DEF Swiper!MaxTranslate, l
  <2> HIDE DEF g
  <2>4. -Swiper!Grid(s, l) \in Int /\ -Swiper!Grid(s, l) <= 0 /\ -Swiper!Grid(s, l) <= -g /\ -g <= 0
    BY <2>2
  <2> QED BY <2>3, <2>4 DEF g
<1>4. lo \in Int /\ n \in Int /\ lo <= 1 /\ 1 \in Int
  BY <1>2, <1>3
<1>15. ~s.stuck /\ ~s.loose /\ d = 0 => n = s.touch.start /\ lo <= n /\ n <= 1
  BY <1>2, <1>3
<1>7. Placed(s, p) /\ Playing(s, p)
  BY ProgressIs
<1>8. Swiper!Dragged(s, d) = [p EXCEPT !.translate = to, !.trans = NULL, !.touch.diff = d, !.touch.current = to]
  BY DEF Swiper!Dragged
<1> HIDE DEF lo, n
<1>5. held \in Int /\ (lo <= n /\ n <= 1 => held = n)
  BY <1>4, SwiperClamps
<1> HIDE DEF held
<1>6. to \in Int /\ (~s.stuck /\ ~s.loose /\ d = 0 => to = s.touch.start)
  BY <1>2, <1>5, <1>15
<1> HIDE DEF to, p
<1>9. c \in Touching /\ c.moved /\ c.start = s.touch.start /\ c.diff = d /\ c.current = to
  BY <1>1, <1>6 DEF Touching
<1>10. p \in Sliding /\ p.touch = s.touch
  BY <1>7 DEF Placed
<1>11. Swiper!Dragged(s, d) = t
  <2>1. t = [p EXCEPT !.translate = to, !.trans = NULL, !.touch = [p.touch EXCEPT !.diff = d, !.current = to]]
    BY <1>10
  <2>2. [p EXCEPT !.translate = to, !.trans = NULL, !.touch.diff = d, !.touch.current = to]
          = [p EXCEPT !.translate = to, !.trans = NULL, !.touch = [p.touch EXCEPT !.diff = d, !.current = to]]
    BY <1>10 DEF Sliding
  <2> QED BY <1>8, <2>1, <2>2
<1> HIDE DEF c
<1>12. /\ t \in Sliding /\ t.touch = c /\ t.translate = to /\ t.active = p.active /\ t.slides = p.slides /\ t.size = p.size
       /\ t.stuck = p.stuck /\ t.loose = p.loose /\ Playing(p, t)
  BY <1>6, <1>9, <1>10 DEF Sliding, Playing
<1> HIDE DEF t
<1>13. Playing(s, t)
  BY <1>7, <1>12 DEF Playing
<1>14. /\ t.active = s.active /\ t.slides = s.slides /\ t.size = s.size /\ t.stuck = s.stuck /\ t.loose = s.loose
  BY <1>7, <1>12 DEF Placed
<1>16. Swiper!Grid(t, t.active) = Swiper!Grid(s, s.active) /\ InRow(t)
  BY <1>14 DEF Swiper!Grid, InRow, Swiper!LastIndex
<1>17. ~t.stuck /\ ~t.loose => Drags(t)
  BY <1>6, <1>9, <1>12, <1>14, <1>16 DEF Drags
<1>18. Swiper!Dragging(t) /\ t.touch # NULL
  BY <1>1, <1>9, <1>12 DEF Swiper!Dragging
<1>19. Sure(t)
  BY <1>16, <1>17, <1>18 DEF Sure
<1> QED BY <1>11, <1>12, <1>13, <1>19, PlaysOn

LEMMA SwipeMoved ==
    ASSUME SwipeInv, NEW d \in -2..2, Swiper!TouchMove(d)
    PROVE  SwipeInv'
<1> DEFINE S == Swiper!S
<1>1. OptOK /\ S \in Sliding /\ Sure(S) /\ Single(S) /\ S.touch = swiperTouch
  BY SwipeHas
<1>2. swiperTouch # NULL /\ d \in Int
  BY DEF Swiper!TouchMove
<1>3. PICK s \in IF swiperTouch.moved THEN {S} ELSE Swiper!Caught(S) : Swiper!Become(Swiper!Dragged(s, d))
  BY DEF Swiper!TouchMove
<1> HIDE DEF S
<1>4. /\ s \in Sliding /\ Swiper!Dragging(s) /\ Single(s) /\ InRow(s)
      /\ ~s.stuck /\ ~s.loose => s.touch.start = -Swiper!Grid(s, s.active)
  <2>1. CASE swiperTouch.moved
    <3>1. s = S
      BY <1>3, <2>1
    <3>2. Swiper!Dragging(S)
      BY <1>1, <1>2, <2>1 DEF Swiper!Dragging
    <3> QED BY <1>1, <3>1, <3>2 DEF Sure, Drags
  <2>2. CASE ~swiperTouch.moved
    <3> DEFINE f == Swiper!FixLoop(S)
               b == Swiper!Interrupted(f, TRUE, FALSE)
    <3>1. PICK p \in Swiper!Seen(f) :
            s = [b EXCEPT !.touch.moved = TRUE, !.touch.start = p, !.loose = @ \/ f.trans # NULL]
      BY <1>3, <2>2 DEF Swiper!Caught
    <3>2. Same(S, f) /\ Single(f) /\ Sure(f)
      BY <1>1, LoopFixed DEF Going
    <3> HIDE DEF f
    <3>3. f \in Sliding /\ TRUE \in BOOLEAN /\ FALSE \in BOOLEAN
      BY <3>2 DEF Same
    <3>4. Placed(f, b) /\ Single(b)
      BY <1>1, <3>2, <3>3, InterruptedIs DEF Going
    <3> HIDE DEF b
    <3>5. p \in Int /\ (f.trans = NULL => p = f.translate)
      <4>1. f.translate \in Int /\ (f.trans # NULL => f.trans.from \in Int /\ f.trans.to \in Int)
        BY <3>3 DEF Sliding, Movement
      <4> QED BY <3>1, <4>1 DEF Swiper!Seen
    <3>6. b \in Sliding /\ b.touch = S.touch /\ b.touch \in Touching /\ NULL \notin Touching
      BY <1>1, <1>2, <3>2, <3>4, SwipeKnows DEF Placed, Same, Sliding
    <3> DEFINE c == [b.touch EXCEPT !.moved = TRUE, !.start = p]
               l == b.loose \/ f.trans # NULL
    <3>7. c \in Touching /\ c.moved = TRUE /\ c.start = p
      BY <3>5, <3>6 DEF Touching
    <3>12. l \in BOOLEAN
      BY <3>6 DEF Sliding
    <3>8. s = [b EXCEPT !.touch = c, !.loose = l]
      BY <3>1, <3>6 DEF Sliding
    <3>13. l <=> b.loose \/ f.trans # NULL
      OBVIOUS
    <3> HIDE DEF c, l
    <3>9. /\ s \in Sliding /\ s.touch = c /\ s.loose = l /\ s.active = b.active /\ s.size = b.size /\ s.slides = b.slides
          /\ s.stuck = b.stuck /\ Playing(b, s)
      BY <3>6, <3>7, <3>8, <3>12 DEF Sliding, Playing
    <3>10. Single(s)
      BY <3>4, <3>9, PlaysOn DEF Going
    <3>11. InRow(s) /\ Swiper!Grid(s, s.active) = Swiper!Grid(f, f.active)
      BY <3>2, <3>4, <3>9 DEF Placed, Sure, InRow, Swiper!LastIndex, Swiper!Grid
    <3>14. ~Swiper!Dragging(f)
      BY <1>1, <2>2, <3>2 DEF Same, Swiper!Dragging
    <3>15. ~s.stuck /\ ~s.loose => p = -Swiper!Grid(f, f.active)
      BY <3>2, <3>4, <3>5, <3>9, <3>13, <3>14 DEF Placed, Sure, OnGrid
    <3>16. Swiper!Dragging(s)
      BY <3>6, <3>7, <3>9 DEF Swiper!Dragging
    <3> QED BY <3>7, <3>9, <3>10, <3>11, <3>15, <3>16
  <2> QED BY <2>1, <2>2
<1> DEFINE t == Swiper!Dragged(s, d)
<1>5. t \in Sliding /\ Sure(t) /\ Going(s, t)
  BY <1>1, <1>2, <1>4, DraggedIs
<1>6. Swiper!Become(t)
  BY <1>3
<1> HIDE DEF t
<1>7. SwipeOK(t)
  BY <1>4, <1>5 DEF SwipeOK, Going
<1> QED BY <1>1, <1>6, <1>7, SwipeBecomes

LEMMA SwipeReleased ==
    ASSUME SwipeInv, NEW long \in BOOLEAN, Swiper!TouchEnd(long)
    PROVE  SwipeInv'
<1> DEFINE S == Swiper!S
           up == [S EXCEPT !.touch = NULL, !.loose = FALSE]
           off == S.stuck \/ loose
           x == [up EXCEPT !.stuck = off]
           i == Swiper!Goal(S, long)
           no == Swiper!Refuses(up, Swiper!Target(up, i))
<1>1. /\ OptOK /\ S \in Sliding /\ Sure(S) /\ Single(S) /\ S.touch = swiperTouch
      /\ S.translate = translate /\ S.active = swiperActive /\ S.stuck = stuck /\ S.loose = loose
  BY SwipeHas
<1>2. swiperTouch # NULL
      /\ \/ /\ Swiper!Become([up EXCEPT !.stuck = @ \/ loose])
            /\ ~swiperTouch.moved \/ swiperTouch.diff = 0 \/ swiperTouch.current = swiperTouch.start
         \/ \E s \in Swiper!GlideTo(up, i, FALSE) : Swiper!Become([s EXCEPT !.stuck = @ \/ no])
  BY DEF Swiper!TouchEnd
<1>3. i \in Int
  <2> DEFINE n == (-S.translate) \div S.size
  <2>1. n \in Int
    <3>1. S.size \in Nat \ {0} /\ S.translate \in Int
      BY <1>1 DEF Sliding
    <3> DEFINE a == -S.translate
               z == S.size
    <3>2. a \in Int /\ z \in Nat \ {0}
      BY <3>1
    <3> HIDE DEF a, z
    <3>3. a \div z \in Int
      BY <3>2
    <3> QED BY <3>3 DEF a, z
  <2> DEFINE stop == Swiper!Clamp(0, n, Swiper!LastIndex(S))
             rest == -2 * (S.translate + Swiper!Grid(S, stop))
             c1 == S.touch.diff <= 0 /\ (~long \/ rest >= S.size)
             c2 == S.touch.diff > 0 /\ long /\ rest > S.size
  <2>2. i = CASE c1 -> stop + 1 [] c2 -> stop + 1 [] OTHER -> stop
    BY DEF Swiper!Goal
  <2>3. stop = Swiper!Target(S, n)
    BY DEF Swiper!Target
  <2> HIDE DEF S, n, stop, c1, c2
  <2>4. stop \in Nat
    BY <1>1, <2>1, <2>3, TargetIs
  <2> QED BY <2>2, <2>4
<1> HIDE DEF S, i
<1>4. /\ up \in Sliding /\ up.size = S.size /\ up.active = S.active /\ up.translate = S.translate /\ up.stuck = S.stuck
      /\ up.slides = S.slides /\ up.touch = NULL /\ up.loose = FALSE /\ Playing(S, up)
  BY <1>1 DEF Sliding, Playing
<1>8. x = [up EXCEPT !.stuck = @ \/ loose]
  BY <1>4 DEF Sliding
<1> HIDE DEF up
<1>5. Single(up) /\ InRow(up) /\ ~Swiper!Dragging(up) /\ (OnGrid(S) => OnGrid(up))
  <2>1. Single(up)
    BY <1>1, <1>4, PlaysOn DEF Going
  <2>2. InRow(up) /\ (OnGrid(S) => OnGrid(up))
    BY <1>1, <1>4 DEF Sure, InRow, OnGrid, Swiper!LastIndex, Swiper!Grid
  <2> QED BY <1>4, <2>1, <2>2 DEF Swiper!Dragging
<1>6. CASE /\ Swiper!Become(x)
           /\ ~swiperTouch.moved \/ swiperTouch.diff = 0 \/ swiperTouch.current = swiperTouch.start
  <2>1. off \in BOOLEAN /\ (off <=> S.stuck \/ S.loose)
    BY <1>1 DEF Sliding
  <2>2. ~off => OnGrid(S)
    <3> SUFFICES ASSUME ~S.stuck, ~S.loose PROVE OnGrid(S)
      BY <2>1
    <3>1. CASE Swiper!Dragging(S)
      <4>1. Drags(S) /\ (S.touch.diff = 0 \/ S.touch.current = S.touch.start)
        BY <1>1, <1>6, <3>1 DEF Sure, Swiper!Dragging
      <4> QED BY <4>1 DEF Drags, OnGrid
    <3>2. CASE ~Swiper!Dragging(S)
      BY <1>1, <3>2 DEF Sure
    <3> QED BY <3>1, <3>2
  <2> HIDE DEF off
  <2>3. /\ x \in Sliding /\ x.size = up.size /\ x.active = up.active /\ x.translate = up.translate /\ x.stuck = off
        /\ x.slides = up.slides /\ x.touch = NULL /\ x.loose = FALSE /\ Playing(up, x)
    BY <1>4, <2>1 DEF Sliding, Playing
  <2> HIDE DEF x
  <2>4. Single(x)
    BY <1>5, <2>3, PlaysOn DEF Going
  <2>5. InRow(x) /\ (OnGrid(up) => OnGrid(x)) /\ ~Swiper!Dragging(x)
    BY <1>5, <2>3 DEF InRow, OnGrid, Swiper!LastIndex, Swiper!Grid, Swiper!Dragging
  <2>6. Sure(x)
    BY <1>5, <2>2, <2>3, <2>5 DEF Sure
  <2>7. SwipeOK(x)
    BY <2>3, <2>4, <2>6 DEF SwipeOK
  <2> QED BY <1>1, <1>6, <2>7, SwipeBecomes
<1>7. ASSUME NEW s \in Swiper!GlideTo(up, i, FALSE), Swiper!Become([s EXCEPT !.stuck = @ \/ no]) PROVE SwipeInv'
  <2>1. Same(up, s) /\ Going(up, s) /\ ((no /\ There(up, s)) \/ Landed(s))
    <3>1. FALSE \in BOOLEAN
      OBVIOUS
    <3> QED BY <1>1, <1>3, <1>4, <1>7, <3>1, GlidesTo
  <2>8. no \in BOOLEAN
    BY DEF Swiper!Refuses
  <2> HIDE DEF no
  <2>2. s \in Sliding /\ s.stuck \in BOOLEAN /\ s.touch = NULL
    BY <1>4, <2>1 DEF Same, Sliding
  <2> DEFINE of == s.stuck \/ no
             y == [s EXCEPT !.stuck = of]
  <2>3. y = [s EXCEPT !.stuck = @ \/ no] /\ of \in BOOLEAN /\ (of <=> s.stuck \/ no)
    BY <2>2, <2>8 DEF Sliding
  <2> HIDE DEF of
  <2>4. /\ y \in Sliding /\ y.size = s.size /\ y.active = s.active /\ y.translate = s.translate /\ y.stuck = of
        /\ y.slides = s.slides /\ y.touch = NULL /\ y.loose = s.loose /\ Playing(s, y)
    BY <2>2, <2>3 DEF Sliding, Playing
  <2>9. Swiper!Become(y)
    BY <1>7, <2>3
  <2> HIDE DEF y
  <2>5. Single(y)
    BY <1>5, <2>1, <2>4, PlaysOn DEF Going
  <2>10. ~s.loose /\ InRow(s) /\ (~no => OnGrid(s))
    <3>1. CASE no /\ There(up, s)
      <4>1. Swiper!LastIndex(s) = Swiper!LastIndex(up)
        BY <2>1, GridAlike
      <4> QED BY <1>4, <1>5, <3>1, <4>1 DEF There, InRow
    <3>2. CASE Landed(s)
      <4>1. ~Swiper!Dragging(s)
        BY <2>2 DEF Swiper!Dragging
      <4> QED BY <3>2, <4>1 DEF Landed
    <3> QED BY <2>1, <3>1, <3>2
  <2>6. InRow(y) /\ (OnGrid(s) => OnGrid(y)) /\ ~Swiper!Dragging(y)
    BY <2>4, <2>10 DEF InRow, OnGrid, Swiper!LastIndex, Swiper!Grid, Swiper!Dragging
  <2>7. Sure(y)
    BY <2>3, <2>4, <2>6, <2>10 DEF Sure
  <2>11. SwipeOK(y)
    BY <2>4, <2>5, <2>7 DEF SwipeOK
  <2> QED BY <1>1, <2>9, <2>11, SwipeBecomes
<1> QED BY <1>2, <1>6, <1>7, <1>8

LEMMA SwipeClicked ==
    ASSUME SwipeInv,
           \/ Swiper!ClickNext \/ Swiper!ClickPrev
           \/ \E i \in 0..MaxSlides - 1 : Swiper!ClickIndex(i)
    PROVE  SwipeInv'
<1> DEFINE S == Swiper!S
<1>1. OptOK /\ S \in Sliding /\ FALSE \in BOOLEAN
  BY SwipeHas
<1> HIDE DEF S
<1>2. CASE Swiper!ClickNext
  <2>1. PICK t \in Swiper!SlideNext(S, FALSE) : Swiper!Become(t)
    BY <1>2 DEF Swiper!ClickNext, S
  <2>2. Same(S, t) /\ Going(S, t) /\ (Sure(S) => Sure(t))
    BY <1>1, <2>1, NextGlides
  <2> QED BY <2>1, <2>2, SwipeGoes DEF S
<1>3. CASE Swiper!ClickPrev
  <2>1. PICK t \in Swiper!SlidePrev(S) : Swiper!Become(t)
    BY <1>3 DEF Swiper!ClickPrev, S
  <2>2. Same(S, t) /\ Going(S, t) /\ (Sure(S) => Sure(t))
    BY <1>1, <2>1, PrevGlides
  <2> QED BY <2>1, <2>2, SwipeGoes DEF S
<1>4. ASSUME NEW i \in 0..MaxSlides - 1, Swiper!ClickIndex(i) PROVE SwipeInv'
  <2> DEFINE k == i + Swiper!Looped
  <2>1. PICK t \in Swiper!GlideTo(S, k, FALSE) : Swiper!Become(t)
    BY <1>4 DEF Swiper!ClickIndex, S
  <2>2. k \in Int
    <3>1. i \in Int /\ (Swiper!Looped = 0 \/ Swiper!Looped = 1)
      BY DEF Swiper!Looped
    <3> QED BY <3>1
  <2> HIDE DEF k
  <2>3. Same(S, t) /\ Going(S, t) /\ (Sure(S) => Sure(t))
    BY <1>1, <2>1, <2>2, GlidesTo
  <2> QED BY <2>1, <2>3, SwipeGoes DEF S
<1> QED BY <1>2, <1>3, <1>4

LEMMA SwipeLocks ==
    ASSUME SwipeInv, NEW l \in SUBSET {"next", "prev"}, Swiper!SetLock(l)
    PROVE  SwipeInv'
<1> DEFINE S == Swiper!S
           t == [S EXCEPT !.lock = l]
<1>1. OptOK /\ S \in Sliding /\ Sure(S) /\ Single(S)
  BY SwipeHas
<1>2. Swiper!Become(t)
  BY DEF Swiper!SetLock
<1> HIDE DEF S
<1>3. /\ t \in Sliding /\ t.size = S.size /\ t.active = S.active /\ t.translate = S.translate /\ t.stuck = S.stuck
      /\ t.touch = S.touch /\ t.slides = S.slides /\ t.loose = S.loose /\ Playing(S, t)
  BY <1>1 DEF Sliding, Playing
<1> HIDE DEF t
<1>5. Sure(t)
  BY <1>1, <1>3 DEF Sure, InRow, OnGrid, Drags, Swiper!Dragging, Swiper!Grid, Swiper!LastIndex
<1>4. SwipeOK(t)
  BY <1>1, <1>3, <1>5, PlaysOn DEF SwipeOK, Going
<1> QED BY <1>1, <1>2, <1>4, SwipeBecomes

LEMMA SwipePlays ==
    ASSUME SwipeInv, Swiper!StartAutoplay \/ Swiper!StopsAutoplay
    PROVE  SwipeInv'
<1> DEFINE S == Swiper!S
           o == S.restarted \/ paused
           b == [S EXCEPT !.autoplaying = TRUE, !.restarted = o]
           a == Swiper!Autoplay(b)
           x == Swiper!StopAutoplay(S)
<1>1. OptOK /\ S \in Sliding /\ Sure(S) /\ Single(S) /\ S.paused = paused /\ S.id = swiperId
  BY SwipeHas
<1>5. b = [S EXCEPT !.autoplaying = TRUE, !.restarted = @ \/ paused]
  BY <1>1 DEF Sliding
<1>2. \/ Swiper!Become(a) /\ swiperId = 0
      \/ Swiper!Become(x)
  BY <1>5 DEF Swiper!StartAutoplay, Swiper!StopsAutoplay
<1>6. o \in BOOLEAN /\ (o <=> S.restarted \/ S.paused)
  BY <1>1 DEF Sliding
<1> HIDE DEF S, o
<1>3. CASE Swiper!Become(a) /\ swiperId = 0
  <2>1. /\ b \in Sliding /\ b.size = S.size /\ b.active = S.active /\ b.translate = S.translate /\ b.stuck = S.stuck
        /\ b.slides = S.slides /\ b.touch = S.touch /\ b.loose = S.loose /\ b.lock = S.lock
        /\ b.paused = S.paused /\ b.resumes = S.resumes /\ b.timers = S.timers /\ b.restarted = o
    BY <1>1, <1>6 DEF Sliding
  <2> HIDE DEF b
  <2>3. ~b.restarted => b.timers = {} /\ ~b.paused /\ ~b.resumes
    BY <1>1, <1>3, <1>6, <2>1 DEF Single
  <2>2. Placed(b, a) /\ Single(a)
    BY <2>1, <2>3, AutoplayIs
  <2> HIDE DEF a
  <2>4. Same(S, b) /\ There(S, b) /\ Same(b, a) /\ There(b, a)
    BY <2>1, <2>2 DEF Placed, Same, There
  <2>5. SwipeOK(a)
    BY <1>1, <2>2, <2>4, ThereSure DEF SwipeOK, Same
  <2> QED BY <1>1, <1>3, <2>5, SwipeBecomes
<1>4. CASE Swiper!Become(x)
  <2>1. Placed(S, x) /\ Going(S, x)
    BY <1>1, StopAutoplayIs
  <2> HIDE DEF x
  <2>2. Same(S, x) /\ There(S, x)
    BY <2>1 DEF Placed, Same, There
  <2> QED BY <1>4, <2>1, <2>2, ThereSure, SwipeGoes DEF S
<1> QED BY <1>2, <1>3, <1>4

\* Other slides, brought up to date.
LEMMA EditedIs ==
    ASSUME SwipeInv, NEW l \in Seq(SwiperSlide) \ {<<>>}
    PROVE  LET t == Swiper!Update([Swiper!S EXCEPT !.slides = l]) IN SwipeOK(t)
<1> DEFINE S == Swiper!S
           s == [S EXCEPT !.slides = l]
<1>1. OptOK /\ S \in Sliding /\ Sure(S) /\ Single(S)
  BY SwipeHas
<1> HIDE DEF S
<1>3. /\ s \in Sliding /\ s.size = S.size /\ s.active = S.active /\ s.translate = S.translate /\ s.stuck = S.stuck
      /\ s.touch = S.touch /\ s.loose = S.loose /\ Playing(S, s)
  BY <1>1 DEF Sliding, Playing
<1> HIDE DEF s
<1>4. Fair(s) /\ Single(s)
  <2>1. Fair(S)
    BY <1>1, SureFair
  <2>2. Fair(s)
    BY <1>3, <2>1 DEF Fair, OnGrid, Swiper!Grid, Swiper!Dragging
  <2> QED BY <1>1, <1>3, <2>2, PlaysOn DEF Going
<1> DEFINE t == Swiper!Update(s)
<1>5. Same(s, t) /\ Going(s, t) /\ (Fair(s) => Sure(t))
  BY <1>1, <1>3, UpdateIs
<1> HIDE DEF t
<1>6. SwipeOK(t)
  BY <1>4, <1>5 DEF Same, Going, SwipeOK
<1> QED BY <1>6 DEF t, s, S

LEMMA EditedJumps ==
    ASSUME SwipeInv, NEW l \in Seq(SwiperSlide) \ {<<>>}, NEW i \in Int,
           Swiper!Become(Swiper!JumpTo(Swiper!Update([Swiper!S EXCEPT !.slides = l]), i, FALSE))
    PROVE  SwipeInv'
<1> DEFINE S == Swiper!S
           u == Swiper!Update([S EXCEPT !.slides = l])
           t == Swiper!JumpTo(u, i, FALSE)
<1>1. OptOK /\ FALSE \in BOOLEAN
  BY SwipeHas
<1>2. u \in Sliding /\ Sure(u) /\ Single(u)
  BY EditedIs DEF SwipeOK
<1>3. Swiper!Become(t)
  OBVIOUS
<1> HIDE DEF S, u
<1>4. Same(u, t) /\ Going(u, t) /\ Sure(t)
  BY <1>1, <1>2, JumpsTo, JumpsSure
<1> HIDE DEF t
<1>5. SwipeOK(t)
  BY <1>2, <1>4 DEF SwipeOK, Same, Going
<1> QED BY <1>1, <1>3, <1>5, SwipeBecomes

LEMMA SwipeEdited ==
    ASSUME SwipeInv,
           \/ \E x \in SwiperSlide \ {slides[i] : i \in DOMAIN slides} : Swiper!AppendSlide(x) \/ Swiper!PrependSlide(x)
           \/ \E i \in 0..MaxSlides - 1 : Swiper!RemoveSlide(i)
    PROVE  SwipeInv'
<1> DEFINE S == Swiper!S
<1>1. /\ OptOK /\ S \in Sliding /\ S.slides = slides /\ S.active = swiperActive
  BY SwipeHas
<1> HIDE DEF S
<1>2. slides \in Seq(SwiperSlide) /\ swiperActive \in Nat
  BY <1>1 DEF Sliding
<1>3. ASSUME NEW x \in SwiperSlide, Swiper!AppendSlide(x) PROVE SwipeInv'
  <2> DEFINE l == Append(slides, x)
             t == Swiper!Update([S EXCEPT !.slides = l])
  <2>1. l \in Seq(SwiperSlide) \ {<<>>}
    BY <1>2, AppendProperties, EmptySeq
  <2>2. [S EXCEPT !.slides = Append(@, x)] = [S EXCEPT !.slides = l]
    BY <1>1 DEF Sliding
  <2>3. Swiper!Become(t)
    BY <1>3, <2>2 DEF Swiper!AppendSlide, S
  <2> HIDE DEF l
  <2>4. SwipeOK(t)
    BY <2>1, EditedIs DEF S
  <2> HIDE DEF t
  <2> QED BY <1>1, <2>3, <2>4, SwipeBecomes
<1>4. ASSUME NEW x \in SwiperSlide, Swiper!PrependSlide(x) PROVE SwipeInv'
  <2> DEFINE l == <<x>> \o slides
             k == swiperActive + 1
  <2>1. l \in Seq(SwiperSlide) \ {<<>>}
    <3>1. <<x>> \in Seq(SwiperSlide) /\ Len(<<x>>) = 1
      OBVIOUS
    <3>2. l \in Seq(SwiperSlide) /\ Len(l) = 1 + Len(slides) /\ Len(slides) \in Nat
      BY <1>2, <3>1, ConcatProperties, LenProperties
    <3> QED BY <3>2, EmptySeq
  <2>2. [S EXCEPT !.slides = <<x>> \o @] = [S EXCEPT !.slides = l]
    BY <1>1 DEF Sliding
  <2>3. Swiper!Become(Swiper!JumpTo(Swiper!Update([S EXCEPT !.slides = l]), k, FALSE))
    BY <1>4, <2>2 DEF Swiper!PrependSlide, S
  <2>4. k \in Int
    BY <1>2
  <2> HIDE DEF l, k
  <2> QED BY <2>1, <2>3, <2>4, EditedJumps DEF S
<1>5. ASSUME NEW i \in 0..MaxSlides - 1, Swiper!RemoveSlide(i) PROVE SwipeInv'
  <2> DEFINE n == Len(slides)
             a == SubSeq(slides, 1, i)
             b == SubSeq(slides, i + 2, n)
             l == a \o b
             k == Swiper!ActiveAfter(i) + Swiper!Looped
  <2>1. n \in Nat /\ n > 1 /\ i \in 0..n - 1
    BY <1>2, <1>5, LenProperties DEF Swiper!RemoveSlide
  <2>2. [S EXCEPT !.slides = SubSeq(@, 1, i) \o SubSeq(@, i + 2, Len(@))] = [S EXCEPT !.slides = l]
    BY <1>1 DEF Sliding
  <2>3. Swiper!Become(Swiper!JumpTo(Swiper!Update([S EXCEPT !.slides = l]), k, FALSE))
    BY <1>5, <2>2 DEF Swiper!RemoveSlide, S
  <2>4. k \in Int
    <3>1. i \in Int /\ (Swiper!Looped = 0 \/ Swiper!Looped = 1) /\ Swiper!ActiveAfter(i) \in Int
      BY <1>2, <2>1 DEF Swiper!Looped, Swiper!ActiveAfter
    <3> QED BY <3>1
  <2>5. l \in Seq(SwiperSlide) \ {<<>>}
    <3> HIDE DEF n
    <3>1. a \in Seq(SwiperSlide) /\ Len(a) = i
      BY <1>2, <2>1 DEF n
    <3>2. b \in Seq(SwiperSlide) /\ Len(b) = n - i - 1
      BY <1>2, <2>1 DEF n
    <3> HIDE DEF a, b
    <3>3. l \in Seq(SwiperSlide) /\ Len(l) = i + (n - i - 1)
      BY <3>1, <3>2, ConcatProperties
    <3>4. i + (n - i - 1) # 0
      BY <2>1
    <3> QED BY <3>3, <3>4, EmptySeq
  <2> HIDE DEF l, k
  <2> QED BY <2>3, <2>4, <2>5, EditedJumps DEF S
<1> QED BY <1>3, <1>4, <1>5

LEMMA SwipeResized ==
    ASSUME SwipeInv, NEW n \in swiperOpt.sizes, Swiper!Resize(n)
    PROVE  SwipeInv'
<1> DEFINE S == Swiper!S
           s == [S EXCEPT !.size = n, !.lock = {}]
           i == s.active
           j == Swiper!JumpTo(s, i, TRUE)
           t == [j EXCEPT !.lock = lock]
<1>1. /\ OptOK /\ S \in Sliding /\ Single(S) /\ S.lock = lock
  BY SwipeHas
<1>2. Swiper!Become(t)
  BY DEF Swiper!Resize, Swiper!Resized
<1> HIDE DEF S
<1>3. n \in Nat \ {0} /\ lock \in SUBSET {"next", "prev"} /\ {} \in SUBSET {"next", "prev"}
  BY <1>1 DEF OptOK, Sliding
<1>4. s \in Sliding /\ s.lock = {} /\ Playing(S, s)
  BY <1>1, <1>3 DEF Sliding, Playing
<1> HIDE DEF s
<1>6. i \in Int /\ TRUE \in BOOLEAN
  BY <1>4 DEF Sliding
<1> HIDE DEF i
<1>7. Same(s, j) /\ Going(s, j) /\ Sure(j)
  BY <1>1, <1>4, <1>6, JumpsTo, JumpsSure
<1> HIDE DEF j
<1>8. j \in Sliding /\ Single(j)
  BY <1>1, <1>4, <1>7, PlaysOn DEF Same, Going
<1>9. /\ t \in Sliding /\ t.size = j.size /\ t.active = j.active /\ t.translate = j.translate /\ t.stuck = j.stuck
      /\ t.touch = j.touch /\ t.slides = j.slides /\ t.loose = j.loose /\ Playing(j, t)
  BY <1>3, <1>8 DEF Sliding, Playing
<1> HIDE DEF t
<1>5. Sure(t)
  BY <1>7, <1>9 DEF Sure, InRow, OnGrid, Drags, Swiper!Dragging, Swiper!Grid, Swiper!LastIndex
<1>10. SwipeOK(t)
  BY <1>5, <1>8, <1>9, PlaysOn DEF SwipeOK, Going
<1> QED BY <1>1, <1>2, <1>10, SwipeBecomes

LEMMA SwipeTicks ==
    ASSUME SwipeInv, NEW k \in timers, Swiper!Timeout(k)
    PROVE  SwipeInv'
<1> DEFINE S == Swiper!S
           T == S.timers \ {k}
           s == [S EXCEPT !.timers = T]
<1>1. OptOK /\ S \in Sliding /\ Sure(S) /\ Single(S) /\ TRUE \in BOOLEAN
  BY SwipeHas
<1>2. PICK r \in IF swiperOpt.loop THEN Swiper!SlideNext(Swiper!FixLoop(s), TRUE)
                 ELSE IF ~isEnd THEN Swiper!SlideNext(s, TRUE) ELSE Swiper!GlideTo(s, 0, TRUE) : Swiper!Become(r)
  <2>1. s = [S EXCEPT !.timers = @ \ {k}]
    BY <1>1 DEF Sliding
  <2> QED BY <2>1 DEF Swiper!Timeout
<1>3. T \in {U \in SUBSET Nat : IsFiniteSet(U)} /\ T \subseteq S.timers
  BY <1>1, FewerTimers
<1> HIDE DEF S, T
<1>5. /\ s \in Sliding /\ s.size = S.size /\ s.active = S.active /\ s.translate = S.translate /\ s.stuck = S.stuck
      /\ s.touch = S.touch /\ s.slides = S.slides /\ s.lock = S.lock /\ s.loose = S.loose
      /\ s.timers = T /\ s.id = S.id /\ s.paused = S.paused /\ s.resumes = S.resumes /\ s.restarted = S.restarted
  BY <1>1, <1>3 DEF Sliding
<1> HIDE DEF s
<1>4. Same(S, s) /\ There(S, s)
  BY <1>5 DEF Same, There
<1>6. Single(s) /\ Sure(s)
  BY <1>1, <1>3, <1>4, <1>5, ThereSure DEF Single
<1>7. Same(s, r) /\ Going(s, r) /\ Sure(r)
  <2>1. CASE swiperOpt.loop
    <3> DEFINE f == Swiper!FixLoop(s)
    <3>1. Same(s, f) /\ Going(s, f) /\ Sure(f)
      BY <1>1, <1>5, <1>6, LoopFixed
    <3>2. r \in Swiper!SlideNext(f, TRUE)
      BY <1>2, <2>1
    <3> HIDE DEF f
    <3>3. f \in Sliding
      BY <3>1 DEF Same
    <3>4. Same(f, r) /\ Going(f, r) /\ Sure(r)
      BY <1>1, <3>1, <3>2, <3>3, NextGlides
    <3> QED BY <3>1, <3>4 DEF Same, Going
  <2>2. CASE ~swiperOpt.loop /\ ~isEnd
    <3>1. r \in Swiper!SlideNext(s, TRUE)
      BY <1>2, <2>2
    <3> QED BY <1>1, <1>5, <1>6, <3>1, NextGlides
  <2>3. CASE ~swiperOpt.loop /\ isEnd
    <3>1. r \in Swiper!GlideTo(s, 0, TRUE)
      BY <1>2, <2>3
    <3>3. 0 \in Int
      OBVIOUS
    <3> QED BY <1>1, <1>5, <1>6, <3>1, <3>3, GlidesTo
  <2> QED BY <2>1, <2>2, <2>3
<1>8. SwipeOK(r)
  BY <1>6, <1>7 DEF SwipeOK, Same, Going
<1> QED BY <1>1, <1>2, <1>8, SwipeBecomes

LEMMA SwipeArrives ==
    ASSUME SwipeInv, Swiper!TransitionEnd
    PROVE  SwipeInv'
<1> DEFINE S == Swiper!S
           an == IF S.ends THEN FALSE ELSE S.animating
           e == [S EXCEPT !.trans = NULL, !.ends = FALSE, !.resumes = FALSE, !.animating = an]
           p == [e EXCEPT !.paused = FALSE]
           a == Swiper!Autoplay(p)
           x == Swiper!StopAutoplay(p)
<1>1. OptOK /\ S \in Sliding /\ Sure(S) /\ Single(S)
  BY SwipeHas
<1>2. \/ Swiper!Become(e) /\ ~S.resumes
      \/ Swiper!Become(a) /\ S.resumes
      \/ Swiper!Become(x) /\ S.resumes
  <2>1. e = [S EXCEPT !.trans = NULL, !.ends = FALSE, !.resumes = FALSE, !.animating = IF S.ends THEN FALSE ELSE @]
    BY <1>1 DEF Sliding
  <2> QED BY <2>1 DEF Swiper!TransitionEnd, Swiper!Ended, Swiper!Resume
<1> HIDE DEF S
<1>3. an \in BOOLEAN /\ FALSE \in BOOLEAN
  BY <1>1 DEF Sliding
<1> HIDE DEF an
<1>4. /\ e \in Sliding /\ e.size = S.size /\ e.active = S.active /\ e.translate = S.translate /\ e.stuck = S.stuck
      /\ e.touch = S.touch /\ e.slides = S.slides /\ e.lock = S.lock /\ e.loose = S.loose
      /\ e.timers = S.timers /\ e.id = S.id /\ e.paused = S.paused /\ e.resumes = FALSE /\ e.restarted = S.restarted
  BY <1>1, <1>3 DEF Sliding
<1> HIDE DEF e
<1>5. /\ p \in Sliding /\ p.size = S.size /\ p.active = S.active /\ p.translate = S.translate /\ p.stuck = S.stuck
      /\ p.touch = S.touch /\ p.slides = S.slides /\ p.lock = S.lock /\ p.loose = S.loose
      /\ p.timers = S.timers /\ p.id = S.id /\ p.paused = FALSE /\ p.resumes = FALSE /\ p.restarted = S.restarted
  BY <1>4 DEF Sliding
<1> HIDE DEF p
<1>11. Same(S, e) /\ There(S, e) /\ Same(S, p) /\ There(S, p)
  BY <1>4, <1>5 DEF Same, There
<1>12. Sure(e) /\ Sure(p)
  BY <1>1, <1>11, ThereSure
<1>13. (~S.resumes => Single(e)) /\ (S.resumes => Single(p) /\ (~p.restarted => p.timers = {}))
  BY <1>1, <1>4, <1>5 DEF Single
<1>6. Placed(p, a) /\ (S.resumes => Single(a))
  BY <1>5, <1>13, AutoplayIs
<1>7. Placed(p, x) /\ (S.resumes => Single(x))
  BY <1>5, <1>13, StopAutoplayIs DEF Going
<1> HIDE DEF a, x
<1>14. Same(p, a) /\ There(p, a) /\ Same(p, x) /\ There(p, x)
  BY <1>6, <1>7 DEF Placed, Same, There
<1>15. Sure(a) /\ Sure(x) /\ a \in Sliding /\ x \in Sliding
  BY <1>12, <1>14, ThereSure DEF Same
<1>8. (~S.resumes => SwipeOK(e)) /\ (S.resumes => SwipeOK(a) /\ SwipeOK(x))
  BY <1>4, <1>6, <1>7, <1>12, <1>13, <1>15 DEF SwipeOK
<1> QED BY <1>1, <1>2, <1>8, SwipeBecomes

LEMMA SwipeNext ==
    ASSUME SwipeInv, Swiper!Next
    PROVE  SwipeInv'
BY SwipeTouched, SwipeMoved, SwipeReleased, SwipeClicked, SwipeLocks, SwipePlays, SwipeEdited, SwipeResized,
   SwipeTicks, SwipeArrives DEF Swiper!Next

LEMMA SwipeStays ==
    ASSUME SwipeInv, UNCHANGED swiperVars
    PROVE  SwipeInv'
<1>1. Swiper!Become(Swiper!S)
  BY DEF swiperVars, Swiper!Become, Swiper!S
<1>2. SwipeOK(Swiper!S) /\ OptOK
  BY DEF SwipeInv
<1> QED BY <1>1, <1>2, SwipeBecomes

LEMMA SwipeRight == SwipeInv => Swiper!RestsAtSlide /\ Swiper!OneTimer
<1> SUFFICES ASSUME SwipeInv PROVE Swiper!RestsAtSlide /\ Swiper!OneTimer
  OBVIOUS
<1> DEFINE s == Swiper!S
<1>1. /\ Sure(s) /\ Single(s)
      /\ s.active = swiperActive /\ s.translate = translate /\ s.touch = swiperTouch /\ s.stuck = stuck
      /\ s.timers = timers /\ s.restarted = restarted
  BY SwipeHas
<1>2. ASSUME swiperTouch = NULL, ~stuck PROVE translate = -Swiper!Grid(Swiper!S, swiperActive)
  <2>1. ~s.loose /\ ~Swiper!Dragging(s)
    BY <1>1, <1>2 DEF Sure, Swiper!Dragging
  <2> QED BY <1>1, <1>2, <2>1 DEF Sure, OnGrid
<1>3. ~restarted => \A k, l \in timers : k = l
  BY <1>1 DEF Single
<1> QED BY <1>2, <1>3 DEF Swiper!RestsAtSlide, Swiper!OneTimer

-----------------------------------------------------------------------------
(* What holds always of the three that come to rest.                       *)

LEMMA RestAlways == Spec => [](PickerInv /\ PickerRest /\ ScrollInv /\ SwipeInv)
<1> DEFINE RestInv == PickerInv /\ PickerRest /\ ScrollInv /\ SwipeInv
<1>1. Init => RestInv
  BY PickerInit, RestInit, ScrollInit, SwipeInit DEF Init
<1>2. RestInv /\ [Next]_vars => RestInv'
  <2> SUFFICES ASSUME RestInv, [Next]_vars PROVE RestInv'
    OBVIOUS
  <2>1. Picker!Next \/ UNCHANGED pickerVars
    BY Zenon DEF Next, vars
  <2>2. Scroller!Next \/ UNCHANGED scrollVars
    BY Zenon DEF Next, vars
  <2>3. Swiper!Next \/ UNCHANGED swiperVars
    BY Zenon DEF Next, vars
  <2>4. ASSUME UNCHANGED pickerVars PROVE PickerInv' /\ PickerRest'
    <3>1. PickerInv'
      BY <2>4 DEF PickerInv, Sound, Follows, Picker!S, pickerVars
    <3>2. PickerRest'
      BY <2>4 DEF PickerRest, Fitting, Stands, Picker!S, pickerVars
    <3> QED BY <3>1, <3>2
  <2>5. PickerInv' /\ PickerRest'
    BY <2>1, <2>4, PickerNext, RestNext
  <2>6. ScrollInv'
    BY <2>2, ScrollNext, ScrollStays
  <2>7. SwipeInv'
    BY <2>3, SwipeNext, SwipeStays
  <2> QED BY <2>5, <2>6, <2>7
<1> QED BY <1>1, <1>2, PTL DEF Spec

\* framework7.js, Picker, hack_swiper.js and iscroll.js: in every behaviour, of pickers
\* with any number of items, of slides of any number and size, of content of any height
\* and pages of any length, however gestures, wheel and keys, timeouts, frames, the ends
\* of transitions and changes of size come between each other: a wheel that stands shows
\* what it chose, slides and content stand where the widget counts on them and within
\* their bounds, the scrollbar has faded and autoplay has one timeout at most - but for
\* the steps the histories tell of.
THEOREM RestsAlwaysRight == Spec => []RestsRight
<1>1. PickerRest => Picker!RestShows
  <2> SUFFICES ASSUME PickerRest, NEW c \in Wheel, pickerOpen, pickerTouch[c] # "moved", turned[c] = goal[c], ~option.onMomentum
               PROVE  turned[c] = 2 * pickerChosen[c]
    BY DEF Picker!RestShows, Picker!Col, Wheel
  <2>1. Stands(Picker!S, c)
    BY DEF PickerRest
  <2> QED BY <2>1 DEF Stands, Picker!S
<1>2. PickerRest /\ ScrollInv /\ SwipeInv => RestsRight
  BY <1>1, ScrollRight, SwipeRight DEF RestsRight
<1> QED BY <1>2, RestAlways, PTL
=============================================================================
