---------------------------- MODULE VirtualList ----------------------------
(***************************************************************************)
(* The virtual list of Framework7: of a long list only the rows around the *)
(* viewport are in the page, and the element made for an item is kept in a *)
(* cache by the item's index (framework7.js, "Virtual List").  An element  *)
(* is named after the item it was made for.  One column, rows of equal     *)
(* height, two units each; a viewport of Screen rows.                      *)
(***************************************************************************)
EXTENDS Integers, Sequences, FiniteSets, Functions

CONSTANTS
    Item,      \* contents of a row, all different
    Start,     \* the list at first
    Screen, RowsBefore, RowsAfter   \* rowsPerScreen, params.rowsBefore, params.rowsAfter

\* The items of the list all differ, and params.rowsAfter is at least half of
\* params.rowsBefore, as it is by default.
ListAssumption ==
    /\ Start \in Seq(Item) /\ \A i, j \in DOMAIN Start : i # j => Start[i] # Start[j]
    /\ {Screen, RowsBefore, RowsAfter} \subseteq Nat /\ RowsBefore <= 2 * RowsAfter

VARIABLES
    items,     \* vl.items
    filtered,  \* the indexes filterItems chose items of, as items; <<>> without a filter
    filtering, \* vl.filteredItems is there
    cache,     \* vl.domCache: index to element
    rows,      \* row to element, what is in the page
    scroll,    \* how far the list is scrolled, in units
    painted,   \* vl.lastRepaintY, -1 for null
    muddled    \* history: see Muddles

listVars == <<items, filtered, filtering, cache, rows, scroll, painted, muddled>>

Most(a, b) == IF a > b THEN a ELSE b
Least(a, b) == IF a < b THEN a ELSE b
\* indexOf
Index(seq, x) ==
    IF x \in Range(seq) THEN CHOOSE i \in 0..Len(seq) - 1 : seq[i + 1] = x ELSE -1
Shown(s) == IF s.filtering THEN s.filtered ELSE s.items
Delete(seq, i) == SubSeq(seq, 1, i) \o SubSeq(seq, i + 2, Len(seq))
Without(seq, x) == IF x \in Range(seq) THEN Delete(seq, Index(seq, x)) ELSE seq
Fresh == {x \in Item : x \notin Range(items) \cup Range(filtered) \cup Range(cache)}

S == [items |-> items, filtered |-> filtered, filtering |-> filtering, cache |-> cache,
      rows |-> rows, scroll |-> scroll, painted |-> painted]

-----------------------------------------------------------------------------
(* setListSize, render and update.                                         *)

\* The window of rows around the scroll position.
Window(s) ==
    LET first == Most(s.scroll \div 2 - RowsBefore, 0)
    IN  first .. Least(first + Screen + RowsBefore + RowsAfter, Len(Shown(s))) - 1

\* A row takes the element cached for its item's index, or a new one.
Painted(s) ==
    LET list == Shown(s)
        Of(r) == Index(s.items, list[r + 1])
        Elem(r) == IF Of(r) \in DOMAIN s.cache THEN s.cache[Of(r)] ELSE list[r + 1]
        window == Window(s)
    IN  [s EXCEPT !.painted = s.scroll,
                  !.rows = [r \in window |-> Elem(r)],
                  !.cache = [i \in DOMAIN s.cache \cup {Of(r) : r \in window} |->
                                IF i \in DOMAIN s.cache THEN s.cache[i]
                                ELSE list[(CHOOSE r \in window : Of(r) = i) + 1]]]

\* Scrolled by less than half of the rows before, what is there is left.
Repaints(s) == s.painted = -1 \/ s.scroll - s.painted > RowsBefore \/ s.painted - s.scroll > RowsBefore
Render(s) == IF Repaints(s) THEN Painted(s) ELSE s

\* A list that got shorter is scrolled back by the browser.
Update(s) ==
    LET end == Most(2 * Len(Shown(s)) - 2 * Screen, 0)
    IN  Painted([s EXCEPT !.scroll = Least(@, end)])

Become(s) ==
    \E t \in {s} :
        /\ items' = t.items /\ filtered' = t.filtered /\ filtering' = t.filtering
        /\ cache' = t.cache /\ rows' = t.rows /\ scroll' = t.scroll /\ painted' = t.painted

Init ==
    /\ items = Start /\ filtered = <<>> /\ filtering = FALSE /\ scroll = 0 /\ muddled = FALSE
    /\ LET s == Painted([items |-> Start, filtered |-> <<>>, filtering |-> FALSE,
                         cache |-> [i \in {} |-> i], rows |-> <<>>, scroll |-> 0, painted |-> 0])
       IN  cache = s.cache /\ rows = s.rows /\ painted = 0

-----------------------------------------------------------------------------
(* The operations on the items.                                            *)

Insert(seq, i, x) == SubSeq(seq, 1, i) \o <<x>> \o SubSeq(seq, i + 1, Len(seq))
\* The cache after every index i of it became to[i].
Moved(c, to) == [j \in {to[i] : i \in DOMAIN c} |-> c[CHOOSE i \in DOMAIN c : to[i] = j]]
Rest(c, keep) == [i \in DOMAIN c \cap keep |-> c[i]]

AppendItem == \E x \in Fresh : Become(Update([S EXCEPT !.items = Append(@, x)]))

PrependItem ==
    \E x \in Fresh :
        Become(Update([S EXCEPT !.items = <<x>> \o @, !.cache = Moved(@, [i \in DOMAIN @ |-> i + 1])]))

\* Only what follows the new item stays in the cache.
Inserted(c, i) ==
    LET after == Rest(c, {j \in DOMAIN c : j >= i})
    IN  Moved(after, [j \in DOMAIN after |-> j + 1])
InsertItemBefore ==
    \E i \in 1..Len(items) - 1, x \in Fresh :
        Become(Update([S EXCEPT !.items = Insert(@, i, x), !.cache = Inserted(@, i)]))

ReplaceItem ==
    \E i \in 0..Len(items) - 1, x \in Fresh :
        Become(Update([S EXCEPT !.items[i + 1] = x, !.cache = Rest(@, DOMAIN @ \ {i})]))

ReplaceAllItems ==
    \E x, y \in Fresh :
        x # y /\ Become(Update([S EXCEPT !.items = <<x, y>>, !.filtered = <<>>, !.filtering = FALSE,
                                         !.cache = Rest(@, {})]))

\* moveItem: the cache is turned between the two places.
MoveItem(old, new) ==
    LET rest == Delete(items, old)
        to == Least(new, Len(rest))
        left == Least(old, to)
        right == Most(old, to)
        Turned(i) == IF i < left \/ i > right THEN i
                     ELSE IF i = left THEN right
                     ELSE IF old < to THEN i - 1 ELSE i + 1
    IN  Become(Update([S EXCEPT !.items = Insert(rest, to, items[old + 1]),
                                !.cache = Moved(@, [i \in DOMAIN @ |-> Turned(i)])]))

\* deleteItems: indexes that come after the one before are counted down.
Counts(indexes, k) == IF k > 1 /\ indexes[k] > indexes[k - 1] THEN -(k - 1) ELSE 0
DeleteItem(s, i) ==
    [s EXCEPT !.items = Delete(@, i),
              !.filtered = Without(@, s.items[i + 1]),
              !.cache = Moved(Rest(@, DOMAIN @ \ {i}),
                             [j \in DOMAIN @ \ {i} |-> IF j > i THEN j - 1 ELSE j])]
DeleteItems(indexes) ==
    \E s \in {DeleteItem(S, indexes[1])} :
        \E t \in {IF Len(indexes) = 1 THEN s ELSE DeleteItem(s, indexes[2] + Counts(indexes, 2))} :
            Become(Update(t))

DeleteAllItems ==
    Become(Update([S EXCEPT !.items = <<>>, !.filtered = <<>>, !.filtering = FALSE,
                            !.cache = Rest(@, {})]))

ClearCache == Become([S EXCEPT !.cache = Rest(@, {})])

\* The indexes are given in the order in which the items are to be shown.
FilterItems ==
    \E n \in 0..Len(items) : \E indexes \in [1..n -> 1..Len(items)] :
        /\ \A i, j \in 1..n : i # j => indexes[i] # indexes[j]
        /\ Become(Update([S EXCEPT !.filtered = [k \in 1..n |-> items[indexes[k]]],
                                   !.filtering = TRUE, !.scroll = 0]))

ResetFilter == Become(Update([S EXCEPT !.filtered = <<>>, !.filtering = FALSE]))

\* The user scrolls, and the list may be painted anew.
Scroll ==
    \E y \in 0 .. Most(2 * Len(Shown(S)) - 2 * Screen, 0) :
        y # scroll /\ Become(Render([S EXCEPT !.scroll = y]))

\* scrollToItem paints for the place it asks for; the browser stops at the end.
ScrollToItem ==
    \E i \in 0..Len(items) - 1 :
        \E s \in {Painted([S EXCEPT !.scroll = 2 * i])} :
            LET end == Most(2 * Len(Shown(S)) - 2 * Screen, 0)
            IN  Become(Render([s EXCEPT !.scroll = Least(@, end)]))

\* What leaves the cache in disorder: an item moved up, one replaced that the
\* filter still holds.
Muddles(old, new) == old > new

Indexes == {<<i>> : i \in 0..Len(items) - 1} \cup
           {p \in (0..Len(items) - 1) \X (0..Len(items) - 1) : p[1] # p[2]}

Next ==
    /\ ~muddled
    /\ \/ /\ \/ AppendItem \/ PrependItem \/ InsertItemBefore \/ ReplaceAllItems \/ DeleteAllItems
             \/ ClearCache
             \/ FilterItems \/ ResetFilter \/ Scroll \/ ScrollToItem
             \/ \E indexes \in Indexes : DeleteItems(indexes)
          /\ UNCHANGED muddled
       \/ ReplaceItem /\ muddled' = (Range(filtered) \ Range(items') # {})
       \/ \E i, j \in 0..Len(items) - 1 : i # j /\ MoveItem(i, j) /\ muddled' = Muddles(i, j)

Spec == Init /\ [][Next]_listVars

-----------------------------------------------------------------------------
\* The element cached for an index was made for the item that is there now,
\* after whatever insertions, deletions and moves.
CacheMatches == ~muddled => \A i \in DOMAIN cache : i < Len(items) /\ cache[i] = items[i + 1]

\* Every row that lies in the viewport as a whole is in the page, and is that
\* of its item.
ViewCovered ==
    ~muddled =>
        LET list == Shown(S)
        IN  \A r \in 0..Len(list) - 1 :
                2 * r >= scroll /\ 2 * r + 2 <= scroll + 2 * Screen => r \in DOMAIN rows /\ rows[r] = list[r + 1]
=============================================================================
