---------------------------- MODULE SmartSelect ----------------------------
(***************************************************************************)
(* A smart select of framework7.js: the options of a select, shown as a    *)
(* list on a page or in a popup of their own, which is made when it opens. *)
(* What is chosen there is written back to the select and to the text      *)
(* beside it.                                                              *)
(***************************************************************************)
CONSTANTS
    NULL,
    Option, Later,  \* options of the select, and those the page adds later
    Off,            \* options that are disabled
    Setting         \* to check: [multiple, popup, back (on select), valued]

Lists == [listed : SUBSET (Option \cup Later), checked : SUBSET (Option \cup Later), leaving : BOOLEAN]

SelectAssumption ==
    /\ Setting \subseteq [multiple : BOOLEAN, popup : BOOLEAN, back : BOOLEAN, valued : BOOLEAN]
    /\ NULL \notin Lists

VARIABLES
    smart,    \* its settings
    options,  \* in the select
    chosen,   \* those selected
    text,     \* the options named beside it
    open,     \* the list in the page, [listed, checked, leaving], or NULL
    apart,    \* history: since the text was written the page selected by itself, or
              \* several names were read back from it
    stale     \* history: since the list was made, the like

selectVars == <<smart, options, chosen, text, open, apart, stale>>

Init ==
    /\ smart \in Setting
    /\ options = Option
    /\ \E c \in SUBSET Option : (smart.multiple \/ \E o \in Option : c = {o}) /\ chosen = c
    /\ text = chosen /\ open = NULL /\ apart = FALSE /\ stale = FALSE

\* The list as it is made for the options at hand.
List == [listed |-> options \ Off, checked |-> chosen \ Off, leaving |-> FALSE]

\* A popup on the page, a view that still slides or a list that is open: no.
Open == open = NULL /\ open' = List /\ stale' = FALSE /\ UNCHANGED <<smart, options, chosen, text, apart>>

\* A radio button also unchecks the others of its list.
Checked(o) ==
    IF ~smart.multiple THEN {o}
    ELSE IF o \in open.checked THEN open.checked \ {o} ELSE open.checked \cup {o}

Chosen(o) ==
    IF ~smart.multiple THEN {o}
    ELSE IF o \in Checked(o) THEN chosen \cup {o} ELSE chosen \ {o}

\* The listener of the list's inputs.  It hears those of a list that leaves.
Change(o) ==
    /\ open # NULL /\ o \in open.listed
    /\ ~smart.multiple => open.checked # {o}
    /\ chosen' = Chosen(o) /\ text' = Chosen(o)
    /\ open' = [open EXCEPT !.checked = Checked(o),
                            !.leaving = @ \/ (smart.back /\ ~smart.multiple)]
    /\ apart' = FALSE /\ stale' = (stale /\ smart.multiple)
    /\ UNCHANGED <<smart, options>>

Back == open # NULL /\ open' = [open EXCEPT !.leaving = TRUE] /\ UNCHANGED <<smart, options, chosen, text, apart, stale>>
Gone == open # NULL /\ open.leaving /\ open' = NULL /\ UNCHANGED <<smart, options, chosen, text, apart, stale>>

\* initSmartSelects: where the text is the value, it selects; several names
\* joined by commas are the name of no option.
Read == IF smart.valued THEN {o \in options' : text = {o}} ELSE chosen
Several == \E a, b \in text : a # b

\* The list on a page is made anew; the popup would be, but for the test that
\* there is none yet.
Relaid == open # NULL /\ ~smart.popup /\ ~open.leaving
AddOption(o) ==
    /\ o \in Later \ options
    /\ options' = options \cup {o}
    /\ chosen' = Read
    /\ text' = IF smart.valued THEN text ELSE chosen'
    /\ apart' = (smart.valued /\ Several)
    /\ stale' = (~Relaid /\ (stale \/ (smart.valued /\ (apart \/ Several))))
    /\ open' = IF Relaid THEN List' ELSE open
    /\ UNCHANGED smart

PageSelects(o) ==
    /\ o \in options \ chosen
    /\ chosen' = IF smart.multiple THEN chosen \cup {o} ELSE {o}
    /\ apart' = TRUE /\ stale' = TRUE
    /\ UNCHANGED <<smart, options, text, open>>

Next ==
    \/ Open \/ Back \/ Gone
    \/ \E o \in Option \cup Later : Change(o) \/ AddOption(o) \/ PageSelects(o)

Spec == Init /\ [][Next]_selectVars

-----------------------------------------------------------------------------
\* The text, the select and the list agree, whatever is chosen while a list
\* opens, leaves or is made anew, unless since they were written the page selected
\* by itself, or an option was added while a text that is the value had several
\* names.
SelectAgrees ==
    /\ ~apart => text = chosen
    /\ open # NULL /\ ~stale => open.checked = chosen \ Off

\* A list on a page offers every option that may be chosen, also those that
\* were added since it was opened (smartSelectAddOption).
ListComplete == open # NULL /\ ~smart.popup /\ ~open.leaving => open.listed = options \ Off
=============================================================================
