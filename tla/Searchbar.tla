----------------------------- MODULE Searchbar -----------------------------
(***************************************************************************)
(* The searchbar of framework7.js over a list, a virtual list or a search  *)
(* of the page's own: a key is searched for after it has changed the       *)
(* input, and on iOS the bar is enabled and disabled 400 ms late.          *)
(***************************************************************************)
EXTENDS Integers, Sequences

CONSTANTS
    Setting,   \* to check: [ios, kind: "list", "virtual" or "custom"]
    Items,     \* of the list
    Matches,   \* of each query, the items that match it; "" is matched by all
    MaxTimers  \* bound: late enablings and disablings at once

\* The list has items, and an empty query takes none away.
SearchAssumption == Items # {} /\ "" \in DOMAIN Matches /\ Matches[""] = Items

VARIABLES
    barOpt,
    value,     \* of the input
    focused,   \* the input has the focus
    heard,     \* handleInput has set its timeout
    silent,    \* external: the input changed with no event yet (pasted with the mouse)
    query,     \* the one that was searched for last
    rows, found, \* what the list and the element "found" (or "not found") show
    enabled, notEmpty, overlay, \* classes of the container and of the overlay
    active,
    late,      \* "enable", "disable": timeouts of 400 ms, in their order
    crossed    \* history: enabled while something is searched for, or disabled before that

barVars == <<barOpt, value, focused, heard, silent, query, rows, found, enabled, notEmpty,
             overlay, active, late, crossed>>

Query == DOMAIN Matches
Listed == barOpt.kind # "custom"

B == [value |-> value, focused |-> focused, heard |-> heard, silent |-> silent, query |-> query,
      rows |-> rows, found |-> found, enabled |-> enabled, notEmpty |-> notEmpty,
      overlay |-> overlay, active |-> active, late |-> late, crossed |-> crossed]
Become(b) ==
    /\ value' = b.value /\ focused' = b.focused /\ heard' = b.heard /\ silent' = b.silent
    /\ query' = b.query /\ rows' = b.rows /\ found' = b.found /\ enabled' = b.enabled
    /\ notEmpty' = b.notEmpty /\ overlay' = b.overlay /\ active' = b.active /\ late' = b.late
    /\ crossed' = b.crossed /\ UNCHANGED barOpt

Init ==
    /\ barOpt \in Setting
    /\ value = "" /\ query = "" /\ rows = Items /\ found = TRUE /\ late = <<>>
    /\ focused = FALSE /\ heard = FALSE /\ silent = FALSE /\ enabled = FALSE
    /\ notEmpty = FALSE /\ overlay = FALSE /\ active = FALSE /\ crossed = FALSE

-----------------------------------------------------------------------------
Enabled(b) ==
    [b EXCEPT !.overlay = @ \/ ~b.enabled, !.enabled = TRUE, !.active = TRUE,
              !.crossed = @ \/ (~b.enabled /\ b.query # "")]
Enable(b) == IF barOpt.ios THEN [b EXCEPT !.late = Append(@, "enable")] ELSE Enabled(b)

\* What a blur leaves behind: a change that no key told is told now.
Blurred(b) == [b EXCEPT !.focused = FALSE, !.heard = @ \/ b.silent, !.silent = FALSE]
Disabled(b) == [Blurred(b) EXCEPT !.active = FALSE]
Disable(b) ==
    LET d == [b EXCEPT !.value = "", !.heard = TRUE, !.silent = FALSE, !.enabled = FALSE,
                       !.notEmpty = FALSE, !.overlay = FALSE,
                       !.crossed = @ \/ b.late # <<>>]
    IN  IF barOpt.ios THEN [d EXCEPT !.late = Append(@, "disable")] ELSE Disabled(d)

\* search: the overlay lies over the list as long as there is nothing to find.
Search(b, q) ==
    IF q = b.query THEN b
    ELSE [b EXCEPT !.query = q, !.notEmpty = (q # ""),
                   !.overlay = IF Listed /\ b.enabled THEN q = "" ELSE @,
                   !.rows = IF Listed THEN Matches[q] ELSE @,
                   !.found = IF Listed THEN Matches[q] # {} ELSE @]

\* Called by the page, it enables the bar first and writes into the input.
SearchFor(b, q) ==
    IF q = b.query THEN b
    ELSE LET e == IF b.active THEN b ELSE Enable(b)
         IN  Search([e EXCEPT !.value = q, !.silent = FALSE], q)

Focus(b) == IF b.focused THEN b ELSE Enable([b EXCEPT !.focused = TRUE])

\* clear, of a query that is there or was just removed by hand.
Clear(b) ==
    IF b.query = "" THEN Disable(b)
    ELSE Focus([b EXCEPT !.value = "", !.heard = TRUE, !.silent = FALSE])

-----------------------------------------------------------------------------
\* The user and the page.
Tapped == ~focused /\ Become(Focus(B))
Leaves == focused /\ Become(Blurred(B))
Type(q) == focused /\ value # q /\ Become([B EXCEPT !.value = q, !.heard = TRUE, !.silent = FALSE])
Paste(q) == focused /\ value # q /\ Become([B EXCEPT !.value = q, !.silent = TRUE])
TapClear == notEmpty /\ Become(Clear(B))
Cancel == enabled /\ Become(Disable(B))
PageSearches(q) == Become(SearchFor(B, q))

\* The timeouts of handleInput, and of enable and disable on iOS.
Input == heard /\ Become(Search([B EXCEPT !.heard = FALSE], value))
Late ==
    /\ late # <<>>
    /\ LET b == [B EXCEPT !.late = Tail(@)]
       IN  Become(IF Head(late) = "enable" THEN Enabled(b) ELSE Disabled(b))

Room == Len(late) < MaxTimers
Next ==
    \/ Input \/ Late \/ Leaves
    \/ Room /\ (Tapped \/ TapClear \/ Cancel)
    \/ \E q \in Query : Type(q) \/ Paste(q) \/ (Room /\ PageSearches(q))

Spec == Init /\ [][Next]_barVars

-----------------------------------------------------------------------------
\* The list shows what the input asks for, whatever was typed, cleared,
\* cancelled and searched for by the page at once, as soon as the input has
\* been heard: only what is pasted with the mouse waits for the next key.
ResultsMatch ==
    Listed /\ ~heard /\ ~silent => rows = Matches[value] /\ (found <=> rows # {})

\* At rest the overlay covers the list exactly while the bar is enabled and
\* nothing is searched for, and the code knows whether it is enabled - unless
\* it was searched or disabled before the late enabling of iOS came, or enabled
\* before a disabling had reset the search.
OverlayAgrees ==
    Listed /\ ~heard /\ late = <<>> /\ ~crossed =>
        /\ overlay <=> enabled /\ query = ""
        /\ active <=> enabled
=============================================================================
