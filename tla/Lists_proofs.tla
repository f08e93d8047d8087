---------------------------- MODULE Lists_proofs ----------------------------
(***************************************************************************)
(* Proofs about the lists of MCWidgets, for lists of any length: the rows  *)
(* and the cache of a virtual list, and the indexes of a collection, agree *)
(* with the list they were made from.                                      *)
(***************************************************************************)
EXTENDS MCWidgets, Sequences, FiniteSets, FiniteSetTheorems, SequenceTheorems, WellFoundedInduction, TLAPS

-----------------------------------------------------------------------------
(* Sequences and what was taken from them.                                 *)

Elements(q) == {q[i] : i \in DOMAIN q}
Differ(q) == \A i, j \in DOMAIN q : i # j => q[i] # q[j]

Deletes(d, q, i) ==
    Len(d) = Len(q) - 1 /\ \A j \in 1 .. Len(d) : d[j] = IF j <= i THEN q[j] ELSE q[j + 1]
Inserts(d, q, i, x) ==
    /\ Len(d) = Len(q) + 1
    /\ \A j \in 1 .. Len(d) : d[j] = IF j <= i THEN q[j] ELSE IF j = i + 1 THEN x ELSE q[j - 1]

LEMMA RangeIs == \A q : VirtualList!Range(q) = Elements(q)
BY DEF VirtualList!Range, Elements

\* What is left when an item is deleted, and what there is when one is inserted.
LEMMA DeleteIs ==
    ASSUME NEW V, NEW q \in Seq(V), NEW i \in 0 .. Len(q) - 1
    PROVE  VirtualList!Delete(q, i) \in Seq(V) /\ Deletes(VirtualList!Delete(q, i), q, i)
<1> DEFINE a == SubSeq(q, 1, i)
           b == SubSeq(q, i + 2, Len(q))
           n == Len(q)
<1>1. n \in Nat /\ (\A k \in 1 .. n : q[k] \in V) /\ i \in Nat /\ i < n
  BY ElementOfSeq
<1>2. a \in Seq(V) /\ Len(a) = i /\ (\A k \in 1 .. i : a[k] = q[k])
  BY <1>1, SubSeqProperties
<1>3. b \in Seq(V) /\ Len(b) = n - i - 1 /\ (\A k \in 1 .. n - i - 1 : b[k] = q[i + 1 + k])
  BY <1>1, SubSeqProperties
<1> HIDE DEF a, b
<1> DEFINE d == a \o b
<1>4. d \in Seq(V) /\ Len(d) = n - 1 /\ (\A k \in 1 .. n - 1 : d[k] = IF k <= i THEN a[k] ELSE b[k - i])
  <2>1. d \in Seq(V) /\ Len(d) = Len(a) + Len(b)
        /\ (\A k \in 1 .. Len(a) + Len(b) : d[k] = IF k <= Len(a) THEN a[k] ELSE b[k - Len(a)])
    BY <1>2, <1>3, ConcatProperties
  <2>2. Len(a) + Len(b) = n - 1
    BY <1>1, <1>2, <1>3
  <2> QED BY <1>2, <2>1, <2>2
<1>5. VirtualList!Delete(q, i) = d
  BY DEF VirtualList!Delete, a, b
<1> HIDE DEF d
<1>6. \A j \in 1 .. n - 1 : d[j] = IF j <= i THEN q[j] ELSE q[j + 1]
  <2> SUFFICES ASSUME NEW j \in 1 .. n - 1 PROVE d[j] = IF j <= i THEN q[j] ELSE q[j + 1]
    OBVIOUS
  <2>1. CASE j <= i
    <3>1. j \in 1 .. i
      BY <1>1, <2>1
    <3> QED BY <1>2, <1>4, <2>1, <3>1
  <2>2. CASE ~(j <= i)
    <3>1. j - i \in 1 .. n - i - 1 /\ i + 1 + (j - i) = j + 1
      BY <1>1, <2>2
    <3> QED BY <1>3, <1>4, <2>2, <3>1
  <2> QED BY <2>1, <2>2
<1> QED BY <1>4, <1>5, <1>6 DEF Deletes

LEMMA InsertIs ==
    ASSUME NEW V, NEW q \in Seq(V), NEW i \in 0 .. Len(q), NEW x \in V
    PROVE  VirtualList!Insert(q, i, x) \in Seq(V) /\ Inserts(VirtualList!Insert(q, i, x), q, i, x)
<1> DEFINE a == SubSeq(q, 1, i)
           b == SubSeq(q, i + 1, Len(q))
           n == Len(q)
           c == a \o <<x>>
           d == c \o b
<1>1. n \in Nat /\ (\A k \in 1 .. n : q[k] \in V) /\ i \in Nat /\ i <= n
  BY ElementOfSeq
<1>2. a \in Seq(V) /\ Len(a) = i /\ (\A k \in 1 .. i : a[k] = q[k])
  BY <1>1, SubSeqProperties
<1>3. b \in Seq(V) /\ Len(b) = n - i /\ (\A k \in 1 .. n - i : b[k] = q[i + k])
  BY <1>1, SubSeqProperties
<1>4. VirtualList!Insert(q, i, x) = d
  BY DEF VirtualList!Insert
<1> HIDE DEF a, b
<1>5. <<x>> \in Seq(V) /\ Len(<<x>>) = 1 /\ <<x>>[1] = x
  OBVIOUS
<1>6. c \in Seq(V) /\ Len(c) = i + 1 /\ (\A k \in 1 .. i + 1 : c[k] = IF k <= i THEN a[k] ELSE <<x>>[k - i])
  BY <1>1, <1>2, <1>5, ConcatProperties
<1>7. \A k \in 1 .. i + 1 : c[k] = IF k <= i THEN q[k] ELSE x
  BY <1>1, <1>2, <1>5, <1>6
<1> HIDE DEF c
<1>8. d \in Seq(V) /\ Len(d) = n + 1 /\ (\A k \in 1 .. n + 1 : d[k] = IF k <= i + 1 THEN c[k] ELSE b[k - (i + 1)])
  BY <1>1, <1>3, <1>6, ConcatProperties
<1> HIDE DEF d
<1>9. \A j \in 1 .. n + 1 : d[j] = IF j <= i THEN q[j] ELSE IF j = i + 1 THEN x ELSE q[j - 1]
  <2> SUFFICES ASSUME NEW j \in 1 .. n + 1 PROVE d[j] = IF j <= i THEN q[j] ELSE IF j = i + 1 THEN x ELSE q[j - 1]
    OBVIOUS
  <2>1. CASE j <= i + 1
    BY <1>1, <1>7, <1>8, <2>1
  <2>2. CASE ~(j <= i + 1)
    <3>1. j - (i + 1) \in 1 .. n - i /\ i + (j - (i + 1)) = j - 1
      BY <1>1, <2>2
    <3> QED BY <1>1, <1>3, <1>8, <2>2, <3>1
  <2> QED BY <2>1, <2>2
<1> QED BY <1>4, <1>8, <1>9 DEF Inserts

\* What is put before the first is inserted there, as what is put behind the last.
LEMMA PrependIs ==
    ASSUME NEW V, NEW q \in Seq(V), NEW x \in V
    PROVE  <<x>> \o q \in Seq(V) /\ Inserts(<<x>> \o q, q, 0, x)
<1>1. <<x>> \in Seq(V) /\ Len(<<x>>) = 1 /\ <<x>>[1] = x /\ Len(q) \in Nat
  OBVIOUS
<1> DEFINE a == <<x>>
           d == a \o q
<1> HIDE DEF a
<1>2. d \in Seq(V) /\ Len(d) = 1 + Len(q) /\ (\A k \in 1 .. 1 + Len(q) : d[k] = IF k <= 1 THEN a[k] ELSE q[k - 1])
  BY <1>1, ConcatProperties DEF a
<1> HIDE DEF d
<1> QED BY <1>1, <1>2 DEF Inserts, a, d

LEMMA AppendIs ==
    ASSUME NEW V, NEW q \in Seq(V), NEW x \in V
    PROVE  Append(q, x) \in Seq(V) /\ Inserts(Append(q, x), q, Len(q), x)
BY AppendProperties DEF Inserts

\* The place of an item is that of the item.
LEMMA IndexIs ==
    ASSUME NEW V, NEW q \in Seq(V), NEW x \in Elements(q)
    PROVE  LET i == VirtualList!Index(q, x) IN i \in 0 .. Len(q) - 1 /\ q[i + 1] = x
<1>1. PICK k \in DOMAIN q : q[k] = x
  BY DEF Elements
<1>2. DOMAIN q = 1 .. Len(q) /\ Len(q) \in Nat
  OBVIOUS
<1>3. k - 1 \in 0 .. Len(q) - 1 /\ q[(k - 1) + 1] = x
  BY <1>1, <1>2
<1> DEFINE i == CHOOSE i \in 0 .. Len(q) - 1 : q[i + 1] = x
<1>4. i \in 0 .. Len(q) - 1 /\ q[i + 1] = x
  BY <1>3
<1>5. VirtualList!Index(q, x) = i
  BY RangeIs DEF VirtualList!Index
<1> QED BY <1>4, <1>5

\* Deleting and inserting leave the items different, and take or add one.
LEMMA DeleteDiffers ==
    ASSUME NEW V, NEW q \in Seq(V), NEW i \in 0 .. Len(q) - 1, Differ(q),
           NEW d \in Seq(V), Deletes(d, q, i)
    PROVE  Differ(d) /\ Elements(d) = Elements(q) \ {q[i + 1]}
<1>1. /\ Len(d) = Len(q) - 1 /\ Len(d) \in Nat
      /\ \A j \in 1 .. Len(d) : d[j] = IF j <= i THEN q[j] ELSE q[j + 1]
  BY DEF Deletes
<1>2. DOMAIN q = 1 .. Len(q) /\ DOMAIN d = 1 .. Len(d) /\ Len(q) \in Nat /\ i \in Nat /\ i < Len(q)
  BY <1>1
<1>3. ASSUME NEW j \in DOMAIN d PROVE \E k \in DOMAIN q : k # i + 1 /\ d[j] = q[k] /\ k = IF j <= i THEN j ELSE j + 1
  BY <1>1, <1>2
<1>4. Differ(d)
  <2> SUFFICES ASSUME NEW j \in DOMAIN d, NEW k \in DOMAIN d, j # k PROVE d[j] # d[k]
    BY DEF Differ
  <2>1. PICK m \in DOMAIN q : d[j] = q[m] /\ m = IF j <= i THEN j ELSE j + 1
    BY <1>3
  <2>2. PICK n \in DOMAIN q : d[k] = q[n] /\ n = IF k <= i THEN k ELSE k + 1
    BY <1>3
  <2>3. m # n
    BY <1>2, <2>1, <2>2
  <2> QED BY <2>1, <2>2, <2>3 DEF Differ
<1>5. ASSUME NEW k \in DOMAIN q, k # i + 1 PROVE \E j \in DOMAIN d : d[j] = q[k]
  <2>1. CASE k <= i
    <3>1. k \in DOMAIN d /\ d[k] = q[k]
      BY <1>1, <1>2, <2>1
    <3> QED BY <3>1
  <2>2. CASE ~(k <= i)
    <3>1. k - 1 \in DOMAIN d /\ ~(k - 1 <= i) /\ k - 1 + 1 = k
      BY <1>1, <1>2, <1>5, <2>2
    <3>2. d[k - 1] = q[k]
      BY <1>1, <1>2, <3>1
    <3> QED BY <3>1, <3>2
  <2> QED BY <2>1, <2>2
<1>6. i + 1 \in DOMAIN q
  BY <1>2
<1>7. Elements(d) \subseteq Elements(q) \ {q[i + 1]}
  BY <1>3, <1>6 DEF Elements, Differ
<1>8. Elements(q) \ {q[i + 1]} \subseteq Elements(d)
  BY <1>5 DEF Elements
<1> QED BY <1>4, <1>7, <1>8

LEMMA InsertDiffers ==
    ASSUME NEW V, NEW q \in Seq(V), NEW i \in 0 .. Len(q), NEW x \in V, x \notin Elements(q), Differ(q),
           NEW d \in Seq(V), Inserts(d, q, i, x)
    PROVE  Differ(d) /\ Elements(d) = Elements(q) \cup {x}
<1>1. /\ Len(d) = Len(q) + 1 /\ Len(d) \in Nat
      /\ \A j \in 1 .. Len(d) : d[j] = IF j <= i THEN q[j] ELSE IF j = i + 1 THEN x ELSE q[j - 1]
  BY DEF Inserts
<1>2. DOMAIN q = 1 .. Len(q) /\ DOMAIN d = 1 .. Len(d) /\ Len(q) \in Nat /\ i \in Nat /\ i <= Len(q)
  BY <1>1
<1>3. ASSUME NEW j \in DOMAIN d, j # i + 1
      PROVE  \E k \in DOMAIN q : d[j] = q[k] /\ k = IF j <= i THEN j ELSE j - 1
  BY <1>1, <1>2, <1>3
<1>4. i + 1 \in DOMAIN d /\ d[i + 1] = x
  BY <1>1, <1>2
<1>5. Differ(d)
  <2> SUFFICES ASSUME NEW j \in DOMAIN d, NEW k \in DOMAIN d, j # k PROVE d[j] # d[k]
    BY DEF Differ
  <2>1. CASE j = i + 1
    BY <1>3, <1>4, <2>1 DEF Elements
  <2>2. CASE k = i + 1
    BY <1>3, <1>4, <2>2 DEF Elements
  <2>3. CASE j # i + 1 /\ k # i + 1
    <3>1. PICK m \in DOMAIN q : d[j] = q[m] /\ m = IF j <= i THEN j ELSE j - 1
      BY <1>3, <2>3
    <3>2. PICK n \in DOMAIN q : d[k] = q[n] /\ n = IF k <= i THEN k ELSE k - 1
      BY <1>3, <2>3
    <3>3. m # n
      BY <1>2, <2>3, <3>1, <3>2
    <3> QED BY <3>1, <3>2, <3>3 DEF Differ
  <2> QED BY <2>1, <2>2, <2>3
<1>6. ASSUME NEW k \in DOMAIN q PROVE \E j \in DOMAIN d : d[j] = q[k]
  <2>1. CASE k <= i
    <3>1. k \in DOMAIN d /\ d[k] = q[k]
      BY <1>1, <1>2, <2>1
    <3> QED BY <3>1
  <2>2. CASE ~(k <= i)
    <3>1. k + 1 \in DOMAIN d /\ ~(k + 1 <= i) /\ k + 1 # i + 1 /\ k + 1 - 1 = k
      BY <1>1, <1>2, <2>2
    <3>2. d[k + 1] = q[k]
      BY <1>1, <1>2, <3>1
    <3> QED BY <3>1, <3>2
  <2> QED BY <2>1, <2>2
<1>7. Elements(d) \subseteq Elements(q) \cup {x}
  BY <1>3, <1>4 DEF Elements
<1>8. Elements(q) \cup {x} \subseteq Elements(d)
  BY <1>4, <1>6 DEF Elements
<1> QED BY <1>5, <1>7, <1>8

-----------------------------------------------------------------------------
(* The virtual list.                                                       *)

Cached == UNION {[D -> Item] : D \in SUBSET Nat}
ListState ==
    [items : Seq(Item), filtered : Seq(Item), filtering : BOOLEAN, cache : Cached, rows : Cached,
     scroll : Nat, painted : Nat]

\* What is cached was made for the item that is there, and the filter holds items.
CachedOf(c, q) == \A i \in DOMAIN c : i \in 0 .. Len(q) - 1 /\ c[i] = q[i + 1]
ListOK(s) ==
    /\ s \in ListState /\ Differ(s.items) /\ Differ(s.filtered)
    /\ Elements(s.filtered) \subseteq Elements(s.items) /\ CachedOf(s.cache, s.items)

\* The rows that are painted around a place, and a list that was painted not far away.
FirstRow(p) == VirtualList!Most(p \div 2 - RowsBefore, 0)
Around(p, n) == FirstRow(p) .. VirtualList!Least(FirstRow(p) + Screen + RowsBefore + RowsAfter, n) - 1
Paints(s) ==
    LET seq == VirtualList!Shown(s)
    IN  s.rows = [r \in Around(s.painted, Len(seq)) |-> seq[r + 1]]
Near(s) == s.scroll - s.painted <= RowsBefore /\ s.painted - s.scroll <= RowsBefore

ListInv == ~muddled => ListOK(VirtualList!S) /\ Paints(VirtualList!S) /\ Near(VirtualList!S)

LEMMA ListParams ==
    /\ Screen \in Nat /\ RowsBefore \in Nat /\ RowsAfter \in Nat /\ RowsBefore <= 2 * RowsAfter
    /\ ListStart \in Seq(Item) /\ Differ(ListStart)
BY AssumptionOfList DEF VirtualList!ListAssumption, Differ

\* The list that is shown has items of the list.
LEMMA ShownIs ==
    ASSUME NEW s, s.items \in Seq(Item), s.filtered \in Seq(Item), Elements(s.filtered) \subseteq Elements(s.items)
    PROVE  /\ VirtualList!Shown(s) \in Seq(Item)
           /\ Elements(VirtualList!Shown(s)) \subseteq Elements(s.items)
BY DEF VirtualList!Shown

\* Numbered anew, what is cached is that of the items.
LEMMA MovedIs ==
    ASSUME NEW c \in Cached, NEW to, NEW p \in Seq(Item),
           \A i \in DOMAIN c : to[i] \in 0 .. Len(p) - 1 /\ c[i] = p[to[i] + 1]
    PROVE  VirtualList!Moved(c, to) \in Cached /\ CachedOf(VirtualList!Moved(c, to), p)
<1> DEFINE D == {to[i] : i \in DOMAIN c}
           m == [j \in D |-> c[CHOOSE i \in DOMAIN c : to[i] = j]]
<1>1. VirtualList!Moved(c, to) = m
  BY DEF VirtualList!Moved
<1>2. ASSUME NEW j \in D PROVE j \in 0 .. Len(p) - 1 /\ m[j] = p[j + 1] /\ m[j] \in Item
  <2>1. \E i \in DOMAIN c : to[i] = j
    OBVIOUS
  <2> DEFINE k == CHOOSE i \in DOMAIN c : to[i] = j
  <2>2. k \in DOMAIN c /\ to[k] = j
    BY <2>1
  <2>3. m[j] = c[k]
    OBVIOUS
  <2> HIDE DEF k
  <2>4. j \in 0 .. Len(p) - 1 /\ m[j] = p[j + 1]
    BY <2>2, <2>3
  <2>5. j + 1 \in 1 .. Len(p)
    BY <2>4
  <2> QED BY <2>4, <2>5
<1>3. D \in SUBSET Nat /\ DOMAIN m = D
  BY <1>2
<1>4. m \in [D -> Item]
  BY <1>2
<1> HIDE DEF m, D
<1>5. m \in Cached
  BY <1>3, <1>4 DEF Cached
<1> QED BY <1>1, <1>2, <1>3, <1>5 DEF CachedOf

LEMMA RestIs ==
    ASSUME NEW c \in Cached, NEW K
    PROVE  LET r == VirtualList!Rest(c, K)
           IN  r \in Cached /\ DOMAIN r = DOMAIN c \cap K /\ \A i \in DOMAIN r : r[i] = c[i]
<1>1. PICK D \in SUBSET Nat : c \in [D -> Item]
  BY DEF Cached
<1>2. VirtualList!Rest(c, K) = [i \in D \cap K |-> c[i]]
  BY <1>1 DEF VirtualList!Rest
<1>3. VirtualList!Rest(c, K) \in [D \cap K -> Item] /\ D \cap K \in SUBSET Nat
  BY <1>1, <1>2
<1>4. VirtualList!Rest(c, K) \in Cached
  BY <1>3 DEF Cached
<1> QED BY <1>1, <1>2, <1>4

\* Painting shows the rows of the list around the place, each of its own item, and
\* caches no others.
LEMMA PaintedIs ==
    ASSUME NEW s, ListOK(s)
    PROVE  LET p == VirtualList!Painted(s)
           IN  /\ ListOK(p) /\ Paints(p) /\ p.painted = s.scroll /\ p.scroll = s.scroll
               /\ p.items = s.items /\ p.filtered = s.filtered /\ p.filtering = s.filtering
<1> DEFINE seq == VirtualList!Shown(s)
           n == Len(seq)
           Of(r) == VirtualList!Index(s.items, seq[r + 1])
           window == VirtualList!Window(s)
           rows_ == [r \in window |-> IF Of(r) \in DOMAIN s.cache THEN s.cache[Of(r)] ELSE seq[r + 1]]
           D == DOMAIN s.cache \cup {Of(r) : r \in window}
           New(i) == CHOOSE r \in window : Of(r) = i
           cache_ == [i \in D |-> IF i \in DOMAIN s.cache THEN s.cache[i] ELSE seq[New(i) + 1]]
           p == [s EXCEPT !.painted = s.scroll, !.rows = rows_, !.cache = cache_]
<1>1. /\ s \in ListState /\ Differ(s.items) /\ Differ(s.filtered)
      /\ Elements(s.filtered) \subseteq Elements(s.items) /\ CachedOf(s.cache, s.items)
      /\ s.items \in Seq(Item) /\ s.filtered \in Seq(Item) /\ s.scroll \in Nat /\ s.cache \in Cached
  BY DEF ListOK, ListState
<1>2. seq \in Seq(Item) /\ Elements(seq) \subseteq Elements(s.items)
  BY <1>1, ShownIs
<1>3. VirtualList!Painted(s) = p
  BY Zenon DEF VirtualList!Painted
<1>4. window = Around(s.scroll, n)
  BY DEF VirtualList!Window, Around, FirstRow
<1> HIDE DEF seq
<1>5. n \in Nat /\ DOMAIN seq = 1 .. n
  BY <1>2
<1>6. FirstRow(s.scroll) \in Nat
  BY <1>1, ListParams DEF FirstRow, VirtualList!Most
<1>7. window \in SUBSET (0 .. n - 1)
  <2> SUFFICES ASSUME NEW r \in window PROVE r \in 0 .. n - 1
    OBVIOUS
  <2> DEFINE f == FirstRow(s.scroll)
             g == f + Screen + RowsBefore + RowsAfter
  <2>1. r \in f .. VirtualList!Least(g, n) - 1
    BY <1>4 DEF Around
  <2>2. f \in Nat /\ g \in Nat
    BY <1>6, ListParams
  <2> HIDE DEF f, g
  <2> QED BY <1>5, <2>1, <2>2 DEF VirtualList!Least
<1> HIDE DEF window
<1>8. ASSUME NEW r \in window
      PROVE  /\ Of(r) \in 0 .. Len(s.items) - 1 /\ s.items[Of(r) + 1] = seq[r + 1] /\ seq[r + 1] \in Item
  <2>1. r + 1 \in DOMAIN seq
    BY <1>5, <1>7
  <2>2. seq[r + 1] \in Elements(seq)
    BY <2>1, Zenon DEF Elements
  <2>3. seq[r + 1] \in Item
    BY <1>2, <2>1, ElementOfSeq
  <2>4. seq[r + 1] \in Elements(s.items)
    BY <1>2, <2>2, Zenon
  <2> QED BY <1>1, <2>3, <2>4, IndexIs
<1> HIDE DEF Of
<1>9. PICK C \in SUBSET Nat : s.cache \in [C -> Item]
  BY <1>1 DEF Cached
<1>10. ASSUME NEW r \in window PROVE rows_[r] = seq[r + 1] /\ seq[r + 1] \in Item
  BY <1>1, <1>8 DEF CachedOf
<1>11. ASSUME NEW i \in D PROVE i \in 0 .. Len(s.items) - 1 /\ cache_[i] = s.items[i + 1] /\ cache_[i] \in Item
  <2>1. CASE i \in DOMAIN s.cache
    BY <1>1, <1>9, <2>1 DEF CachedOf
  <2>2. CASE i \notin DOMAIN s.cache
    <3>1. \E r \in window : Of(r) = i
      BY <2>2
    <3>2. New(i) \in window /\ Of(New(i)) = i
      BY <3>1
    <3>3. cache_[i] = seq[New(i) + 1]
      BY <2>2
    <3> HIDE DEF New
    <3> QED BY <1>8, <3>2, <3>3
  <2> QED BY <2>1, <2>2
<1>12. rows_ = [r \in window |-> seq[r + 1]] /\ rows_ \in Cached
  <2>1. rows_ = [r \in window |-> seq[r + 1]]
    BY <1>10
  <2>2. rows_ \in [window -> Item] /\ window \in SUBSET Nat
    BY <1>7, <1>10
  <2> QED BY <2>1, <2>2, Zenon DEF Cached
<1>13. cache_ \in Cached /\ DOMAIN cache_ = D
  <2>1. D \in SUBSET Nat /\ cache_ \in [D -> Item]
    <3> HIDE DEF D, New
    <3>1. DOMAIN cache_ = D /\ cache_ = [i \in D |-> cache_[i]]
      OBVIOUS
    <3> HIDE DEF cache_
    <3>2. \A i \in D : i \in Nat /\ cache_[i] \in Item
      BY <1>11
    <3> QED BY <3>1, <3>2
  <2> HIDE DEF cache_, D
  <2> QED BY <2>1 DEF Cached
<1>14. CachedOf(cache_, s.items)
  BY <1>11, <1>13 DEF CachedOf
<1> HIDE DEF cache_, rows_, D
<1>15. /\ p \in ListState /\ p.painted = s.scroll /\ p.scroll = s.scroll /\ p.rows = rows_ /\ p.cache = cache_
       /\ p.items = s.items /\ p.filtered = s.filtered /\ p.filtering = s.filtering
  BY <1>1, <1>12, <1>13 DEF ListState
<1> HIDE DEF p
<1>16. VirtualList!Shown(p) = seq
  BY <1>15 DEF VirtualList!Shown, seq
<1>17. ListOK(p)
  BY <1>1, <1>14, <1>15 DEF ListOK
<1>18. Paints(p)
  BY <1>4, <1>12, <1>15, <1>16 DEF Paints
<1> QED BY <1>3, <1>15, <1>17, <1>18

\* Updated, the list is painted where it stands.
Settled(s) == ListOK(s) /\ Paints(s) /\ Near(s)

LEMMA UpdateSettles ==
    ASSUME NEW s, ListOK(s)
    PROVE  Settled(VirtualList!Update(s))
<1> DEFINE seq == VirtualList!Shown(s)
           end == VirtualList!Most(2 * Len(seq) - 2 * Screen, 0)
           y == VirtualList!Least(s.scroll, end)
           t == [s EXCEPT !.scroll = y]
<1>1. s \in ListState /\ s.scroll \in Nat /\ s.items \in Seq(Item) /\ s.filtered \in Seq(Item)
  BY DEF ListOK, ListState
<1>2. seq \in Seq(Item)
  BY <1>1, ShownIs DEF ListOK
<1>3. y \in Nat
  BY <1>1, <1>2, ListParams DEF VirtualList!Least, VirtualList!Most
<1>4. VirtualList!Update(s) = VirtualList!Painted(t)
  BY <1>1 DEF VirtualList!Update, ListState
<1> HIDE DEF y
<1>5. t \in ListState /\ t.items = s.items /\ t.filtered = s.filtered /\ t.cache = s.cache /\ t.scroll = y
  BY <1>1, <1>3 DEF ListState
<1> HIDE DEF t
<1>6. ListOK(t)
  BY <1>5 DEF ListOK
<1> DEFINE p == VirtualList!Painted(t)
<1>7. ListOK(p) /\ Paints(p) /\ p.painted = y /\ p.scroll = y
  BY <1>5, <1>6, PaintedIs
<1> HIDE DEF p
<1>8. Near(p)
  BY <1>3, <1>7, ListParams DEF Near
<1> QED BY <1>4, <1>7, <1>8 DEF Settled, p

LEMMA RenderSettles ==
    ASSUME NEW s, ListOK(s), Paints(s)
    PROVE  Settled(VirtualList!Render(s))
<1>1. s.scroll \in Nat /\ s.painted \in Nat
  BY DEF ListOK, ListState
<1> DEFINE p == VirtualList!Painted(s)
<1>2. ListOK(p) /\ Paints(p) /\ p.painted = s.scroll /\ p.scroll = s.scroll
  BY PaintedIs
<1> HIDE DEF p
<1>3. CASE VirtualList!Repaints(s)
  <2>1. VirtualList!Render(s) = p
    BY <1>3 DEF VirtualList!Render, p
  <2>2. Near(p)
    BY <1>1, <1>2, ListParams DEF Near
  <2> QED BY <1>2, <2>1, <2>2 DEF Settled
<1>4. CASE ~VirtualList!Repaints(s)
  <2>1. VirtualList!Render(s) = s
    BY <1>4 DEF VirtualList!Render
  <2>2. Near(s)
    BY <1>1, <1>4, ListParams DEF Near, VirtualList!Repaints
  <2> QED BY <2>1, <2>2 DEF Settled
<1> QED BY <1>3, <1>4

LEMMA ListBecomes ==
    ASSUME NEW s, Settled(s), VirtualList!Become(s)
    PROVE  ListInv'
<1>1. s \in ListState
  BY DEF Settled, ListOK
<1>2. VirtualList!S' = s
  BY <1>1 DEF VirtualList!Become, VirtualList!S, ListState
<1> QED BY <1>2 DEF ListInv, Settled, ListOK, Paints, Near, VirtualList!Shown

\* An operation that leaves the list in order, before it is painted, keeps the invariant.
LEMMA ListUpdates ==
    ASSUME NEW s, ListOK(s), VirtualList!Become(VirtualList!Update(s))
    PROVE  ListInv'
BY UpdateSettles, ListBecomes

LEMMA ListHas ==
    ASSUME ListInv, ~muddled
    PROVE  LET s == VirtualList!S
           IN  /\ ListOK(s) /\ Paints(s) /\ Near(s)
               /\ s \in ListState /\ s.items = items /\ s.filtered = filtered /\ s.cache = cache /\ s.scroll = virtualScroll
               /\ items \in Seq(Item) /\ filtered \in Seq(Item) /\ cache \in Cached /\ Differ(items) /\ Differ(filtered)
               /\ Elements(filtered) \subseteq Elements(items) /\ CachedOf(cache, items)
BY DEF ListInv, ListOK, ListState, VirtualList!S

LEMMA FreshIs == \A x \in VirtualList!Fresh : x \in Item /\ x \notin Elements(items) /\ x \notin Elements(filtered)
BY RangeIs DEF VirtualList!Fresh

LEMMA ListInit == VirtualList!Init => ListInv
<1> SUFFICES ASSUME VirtualList!Init PROVE ListInv
  OBVIOUS
<1> DEFINE none == [i \in {} |-> i]
           t == [items |-> ListStart, filtered |-> <<>>, filtering |-> FALSE, cache |-> none,
                 rows |-> <<>>, scroll |-> 0, painted |-> 0]
           p == VirtualList!Painted(t)
<1>1. /\ items = ListStart /\ filtered = <<>> /\ filtering = FALSE /\ virtualScroll = 0
      /\ cache = p.cache /\ virtualRows = p.rows /\ painted = 0
  BY DEF VirtualList!Init
<1>2. none \in Cached /\ <<>> \in Cached /\ none = [i \in {} |-> i] /\ DOMAIN none = {}
  <2>1. none \in [{} -> Item] /\ <<>> \in [{} -> Item] /\ {} \in SUBSET Nat
    OBVIOUS
  <2> QED BY <2>1, Zenon DEF Cached
<1> HIDE DEF none
<1>3. /\ t \in ListState /\ t.items = ListStart /\ t.filtered = <<>> /\ t.filtering = FALSE /\ t.cache = none /\ t.scroll = 0
  BY <1>2, ListParams DEF ListState
<1> HIDE DEF t
<1>4. ListOK(t)
  BY <1>2, <1>3, ListParams DEF ListOK, Differ, Elements, CachedOf
<1>5. /\ ListOK(p) /\ Paints(p) /\ p.painted = 0 /\ p.scroll = 0 /\ p.items = ListStart /\ p.filtered = <<>>
      /\ p.filtering = FALSE
  BY <1>3, <1>4, PaintedIs
<1> HIDE DEF p
<1>6. p \in ListState
  BY <1>5 DEF ListOK
<1>7. VirtualList!S = p
  BY <1>1, <1>5, <1>6 DEF VirtualList!S, ListState
<1>8. Near(p)
  BY <1>5, ListParams DEF Near
<1> QED BY <1>5, <1>7, <1>8 DEF ListInv

LEMMA ListAppends ==
    ASSUME ListInv, ~muddled, VirtualList!AppendItem
    PROVE  ListInv'
<1> DEFINE s == VirtualList!S
<1>1. PICK x \in VirtualList!Fresh : VirtualList!Become(VirtualList!Update([s EXCEPT !.items = Append(@, x)]))
  BY DEF VirtualList!AppendItem
<1> DEFINE q == Append(items, x)
           t == [s EXCEPT !.items = q]
<1>2. [s EXCEPT !.items = Append(@, x)] = t
  BY ListHas
<1>3. q \in Seq(Item) /\ Inserts(q, items, Len(items), x) /\ Differ(q) /\ Elements(q) = Elements(items) \cup {x}
  <2>1. x \in Item /\ x \notin Elements(items) /\ items \in Seq(Item) /\ Differ(items) /\ Len(items) \in 0 .. Len(items)
    BY ListHas, FreshIs
  <2>2. q \in Seq(Item) /\ Inserts(q, items, Len(items), x)
    BY <2>1, AppendIs
  <2> HIDE DEF q
  <2> QED BY <2>1, <2>2, InsertDiffers
<1> HIDE DEF q
<1>4. t \in ListState /\ t.items = q /\ t.filtered = filtered /\ t.cache = cache
  BY <1>3, ListHas DEF ListState
<1>5. CachedOf(cache, q)
  BY <1>3, ListHas DEF CachedOf, Inserts
<1>6. ListOK(t)
  BY <1>3, <1>4, <1>5, ListHas DEF ListOK
<1> QED BY <1>1, <1>2, <1>6, ListUpdates

LEMMA ListPrepends ==
    ASSUME ListInv, ~muddled, VirtualList!PrependItem
    PROVE  ListInv'
<1> DEFINE s == VirtualList!S
<1>1. PICK x \in VirtualList!Fresh :
          VirtualList!Become(VirtualList!Update(
              [s EXCEPT !.items = <<x>> \o @, !.cache = VirtualList!Moved(@, [i \in DOMAIN @ |-> i + 1])]))
  BY DEF VirtualList!PrependItem
<1> DEFINE q == <<x>> \o items
           to == [i \in DOMAIN cache |-> i + 1]
           c == VirtualList!Moved(cache, to)
           t == [s EXCEPT !.items = q, !.cache = c]
<1>2. [s EXCEPT !.items = <<x>> \o @, !.cache = VirtualList!Moved(@, [i \in DOMAIN @ |-> i + 1])] = t
  BY ListHas
<1>3. q \in Seq(Item) /\ Inserts(q, items, 0, x) /\ Differ(q) /\ Elements(q) = Elements(items) \cup {x}
  <2>1. x \in Item /\ x \notin Elements(items) /\ items \in Seq(Item) /\ Differ(items) /\ 0 \in 0 .. Len(items)
    BY ListHas, FreshIs
  <2>2. q \in Seq(Item) /\ Inserts(q, items, 0, x)
    BY <2>1, PrependIs
  <2> HIDE DEF q
  <2> QED BY <2>1, <2>2, InsertDiffers
<1> HIDE DEF q
<1>4. \A i \in DOMAIN cache : to[i] \in 0 .. Len(q) - 1 /\ cache[i] = q[to[i] + 1]
  BY <1>3, ListHas DEF CachedOf, Inserts
<1>5. c \in Cached /\ CachedOf(c, q)
  <2> HIDE DEF to
  <2> QED BY <1>3, <1>4, ListHas, MovedIs
<1> HIDE DEF c
<1>6. t \in ListState /\ t.items = q /\ t.filtered = filtered /\ t.cache = c
  BY <1>3, <1>5, ListHas DEF ListState
<1>7. ListOK(t)
  BY <1>3, <1>5, <1>6, ListHas DEF ListOK
<1> QED BY <1>1, <1>2, <1>7, ListUpdates

LEMMA ListInserts ==
    ASSUME ListInv, ~muddled, VirtualList!InsertItemBefore
    PROVE  ListInv'
<1> DEFINE s == VirtualList!S
<1>1. PICK i \in 1 .. Len(items) - 1, x \in VirtualList!Fresh :
          VirtualList!Become(VirtualList!Update(
              [s EXCEPT !.items = VirtualList!Insert(@, i, x), !.cache = VirtualList!Inserted(@, i)]))
  BY DEF VirtualList!InsertItemBefore
<1> DEFINE q == VirtualList!Insert(items, i, x)
           K == {j \in DOMAIN cache : j >= i}
           r == VirtualList!Rest(cache, K)
           to == [j \in DOMAIN r |-> j + 1]
           c == VirtualList!Moved(r, to)
           t == [s EXCEPT !.items = q, !.cache = c]
<1>2. [s EXCEPT !.items = VirtualList!Insert(@, i, x), !.cache = VirtualList!Inserted(@, i)] = t
  BY ListHas DEF VirtualList!Inserted
<1>3. i \in 0 .. Len(items) /\ Len(items) \in Nat
  BY ListHas
<1>4. q \in Seq(Item) /\ Inserts(q, items, i, x) /\ Differ(q) /\ Elements(q) = Elements(items) \cup {x}
  BY <1>3, ListHas, FreshIs, InsertIs, InsertDiffers
<1> HIDE DEF q
<1>5. r \in Cached /\ DOMAIN r = DOMAIN cache \cap K /\ \A j \in DOMAIN r : r[j] = cache[j]
  BY ListHas, RestIs
<1> HIDE DEF r
<1>6. \A j \in DOMAIN r : to[j] \in 0 .. Len(q) - 1 /\ r[j] = q[to[j] + 1]
  <2> SUFFICES ASSUME NEW j \in DOMAIN r PROVE to[j] \in 0 .. Len(q) - 1 /\ r[j] = q[to[j] + 1]
    OBVIOUS
  <2>1. j \in DOMAIN cache /\ j >= i /\ r[j] = cache[j] /\ to[j] = j + 1
    BY <1>5
  <2>2. j \in 0 .. Len(items) - 1 /\ cache[j] = items[j + 1]
    BY <2>1, ListHas DEF CachedOf
  <2>3. Len(q) = Len(items) + 1 /\ j + 2 \in 1 .. Len(q) /\ ~(j + 2 <= i) /\ j + 2 # i + 1 /\ j + 2 - 1 = j + 1
    BY <1>3, <1>4, <2>1, <2>2 DEF Inserts
  <2>4. q[j + 2] = items[j + 1]
    BY <1>4, <2>3 DEF Inserts
  <2> QED BY <2>1, <2>2, <2>3, <2>4
<1>7. c \in Cached /\ CachedOf(c, q)
  <2> HIDE DEF to
  <2> QED BY <1>4, <1>5, <1>6, MovedIs
<1> HIDE DEF c
<1>8. t \in ListState /\ t.items = q /\ t.filtered = filtered /\ t.cache = c
  BY <1>4, <1>7, ListHas DEF ListState
<1>9. ListOK(t)
  BY <1>4, <1>7, <1>8, ListHas DEF ListOK
<1> QED BY <1>1, <1>2, <1>9, ListUpdates

\* An item replaced: what the filter holds is still of the list, or the step muddles.
LEMMA ListReplaces ==
    ASSUME ListInv, ~muddled, ~muddled', VirtualList!ReplaceItem, muddled' = (VirtualList!Range(filtered) \ VirtualList!Range(items') # {})
    PROVE  ListInv'
<1> DEFINE s == VirtualList!S
<1>1. PICK i \in 0 .. Len(items) - 1, x \in VirtualList!Fresh :
          VirtualList!Become(VirtualList!Update(
              [s EXCEPT !.items[i + 1] = x, !.cache = VirtualList!Rest(@, DOMAIN @ \ {i})]))
  BY DEF VirtualList!ReplaceItem
<1> DEFINE q == [items EXCEPT ![i + 1] = x]
           c == VirtualList!Rest(cache, DOMAIN cache \ {i})
           t == [s EXCEPT !.items = q, !.cache = c]
<1>2. [s EXCEPT !.items[i + 1] = x, !.cache = VirtualList!Rest(@, DOMAIN @ \ {i})] = t
  BY ListHas
<1>3. /\ items \in Seq(Item) /\ Differ(items) /\ x \in Item /\ x \notin Elements(items) /\ i \in Nat
      /\ DOMAIN items = 1 .. Len(items) /\ Len(items) \in Nat
  BY ListHas, FreshIs
<1>4. /\ q \in Seq(Item) /\ Len(q) = Len(items) /\ DOMAIN q = DOMAIN items /\ q[i + 1] = x
      /\ \A k \in DOMAIN items : k # i + 1 => q[k] = items[k]
  BY <1>3
<1> HIDE DEF q
<1>5. Differ(q)
  BY <1>3, <1>4 DEF Differ, Elements
<1>6. c \in Cached /\ DOMAIN c = DOMAIN cache \ {i} /\ \A j \in DOMAIN c : c[j] = cache[j]
  BY ListHas, RestIs
<1> HIDE DEF c
<1>7. CachedOf(c, q)
  <2> SUFFICES ASSUME NEW j \in DOMAIN c PROVE j \in 0 .. Len(q) - 1 /\ c[j] = q[j + 1]
    BY DEF CachedOf
  <2>1. j \in 0 .. Len(items) - 1 /\ cache[j] = items[j + 1] /\ j # i /\ c[j] = cache[j]
    BY <1>6, ListHas DEF CachedOf
  <2>2. j + 1 \in DOMAIN items /\ j + 1 # i + 1
    BY <1>3, <2>1
  <2> QED BY <1>4, <2>1, <2>2
<1>8. t \in ListState /\ t.items = q /\ t.filtered = filtered /\ t.cache = c
  BY <1>4, <1>6, ListHas DEF ListState
<1> HIDE DEF t
<1>9. Elements(filtered) \subseteq Elements(q)
  <2>1. t.filtered \in Seq(Item) /\ t.items = q
    BY <1>8, ListHas
  <2> DEFINE seq == VirtualList!Shown(t)
             u == [t EXCEPT !.scroll = VirtualList!Least(@, VirtualList!Most(2 * Len(seq) - 2 * Screen, 0))]
  <2>2. VirtualList!Update(t) = VirtualList!Painted(u)
    BY DEF VirtualList!Update
  <2>3. u.items = q
    BY <1>8 DEF ListState
  <2> HIDE DEF u
  <2>4. VirtualList!Painted(u).items = u.items
    <3>1. \A a, b, d : [u EXCEPT !.painted = a, !.rows = b, !.cache = d].items = u.items
      <4>1. u \in ListState \/ u = [u EXCEPT !.items = u.items]
        BY <1>8 DEF u, ListState
      <4> QED BY <1>8 DEF u, ListState
    <3> QED BY <3>1 DEF VirtualList!Painted
  <2>5. items' = q
    BY <1>1, <1>2, <2>2, <2>3, <2>4 DEF VirtualList!Become, t
  <2>6. VirtualList!Range(filtered) \ VirtualList!Range(items') = {}
    OBVIOUS
  <2> QED BY <2>5, <2>6, RangeIs
<1>10. ListOK(t)
  BY <1>4, <1>5, <1>7, <1>8, <1>9, ListHas DEF ListOK
<1> QED BY <1>1, <1>2, <1>10, ListUpdates DEF t

LEMMA NoneCached ==
    ASSUME NEW c \in Cached
    PROVE  VirtualList!Rest(c, {}) \in Cached /\ \A q : CachedOf(VirtualList!Rest(c, {}), q)
<1> DEFINE K == {}
           r == VirtualList!Rest(c, K)
<1> HIDE DEF K
<1>1. r \in Cached /\ DOMAIN r = DOMAIN c \cap K
  BY RestIs
<1>2. DOMAIN r = {}
  BY <1>1 DEF K
<1> HIDE DEF r
<1>3. \A q : CachedOf(r, q)
  BY <1>2 DEF CachedOf
<1> QED BY <1>1, <1>3 DEF r, K

LEMMA ListReplacesAll ==
    ASSUME ListInv, ~muddled, VirtualList!ReplaceAllItems
    PROVE  ListInv'
<1> DEFINE s == VirtualList!S
<1>1. PICK x \in VirtualList!Fresh, y \in VirtualList!Fresh :
          x # y /\ VirtualList!Become(VirtualList!Update(
              [s EXCEPT !.items = <<x, y>>, !.filtered = <<>>, !.filtering = FALSE, !.cache = VirtualList!Rest(@, {})]))
  BY DEF VirtualList!ReplaceAllItems
<1> DEFINE c == VirtualList!Rest(cache, {})
           two == <<x, y>>
           none == <<>>
           t == [s EXCEPT !.items = two, !.filtered = none, !.filtering = FALSE, !.cache = c]
<1>2. [s EXCEPT !.items = <<x, y>>, !.filtered = <<>>, !.filtering = FALSE, !.cache = VirtualList!Rest(@, {})] = t
  BY ListHas
<1>3. c \in Cached /\ \A q : CachedOf(c, q)
  BY ListHas, NoneCached
<1> HIDE DEF c
<1>4. two \in Seq(Item) /\ none \in Seq(Item)
  BY FreshIs
<1>5. Differ(two) /\ Differ(none) /\ Elements(none) = {}
  BY <1>1 DEF Differ, Elements
<1> HIDE DEF two, none
<1>6. t \in ListState /\ t.items = two /\ t.filtered = none /\ t.cache = c
  BY <1>3, <1>4, ListHas DEF ListState
<1>7. ListOK(t)
  BY <1>3, <1>5, <1>6 DEF ListOK
<1> HIDE DEF t
<1> QED BY <1>1, <1>2, <1>7, ListUpdates

LEMMA ListDeletesAll ==
    ASSUME ListInv, ~muddled, VirtualList!DeleteAllItems
    PROVE  ListInv'
<1> DEFINE s == VirtualList!S
           c == VirtualList!Rest(cache, {})
           none == <<>>
           t == [s EXCEPT !.items = none, !.filtered = none, !.filtering = FALSE, !.cache = c]
<1>1. VirtualList!Become(VirtualList!Update(t))
  BY ListHas DEF VirtualList!DeleteAllItems
<1>2. c \in Cached /\ \A q : CachedOf(c, q)
  BY ListHas, NoneCached
<1> HIDE DEF c
<1>3. none \in Seq(Item) /\ Differ(none) /\ Elements(none) = {}
  BY DEF Differ, Elements
<1> HIDE DEF none
<1>4. t \in ListState /\ t.items = none /\ t.filtered = none /\ t.cache = c
  BY <1>2, <1>3, ListHas DEF ListState
<1>5. ListOK(t)
  BY <1>2, <1>3, <1>4 DEF ListOK
<1> QED BY <1>1, <1>5, ListUpdates

LEMMA ListClears ==
    ASSUME ListInv, ~muddled, VirtualList!ClearCache
    PROVE  ListInv'
<1> DEFINE s == VirtualList!S
           c == VirtualList!Rest(cache, {})
           t == [s EXCEPT !.cache = c]
<1>1. VirtualList!Become(t)
  BY ListHas DEF VirtualList!ClearCache
<1>2. c \in Cached /\ \A q : CachedOf(c, q)
  BY ListHas, NoneCached
<1> HIDE DEF c
<1>3. /\ t \in ListState /\ t.items = items /\ t.filtered = filtered /\ t.cache = c /\ t.rows = s.rows
      /\ t.painted = s.painted /\ t.scroll = s.scroll /\ t.filtering = s.filtering
  BY <1>2, ListHas DEF ListState
<1>4. VirtualList!Shown(t) = VirtualList!Shown(s)
  BY <1>3, ListHas DEF VirtualList!Shown
<1>5. ListOK(t)
  BY <1>2, <1>3, ListHas DEF ListOK
<1>6. Paints(t) /\ Near(t)
  BY <1>3, <1>4, ListHas DEF Paints, Near
<1> QED BY <1>1, <1>5, <1>6, ListBecomes DEF Settled

LEMMA ListFilters ==
    ASSUME ListInv, ~muddled, VirtualList!FilterItems
    PROVE  ListInv'
<1> DEFINE s == VirtualList!S
<1>1. PICK n \in 0 .. Len(items) : \E indexes \in [1 .. n -> 1 .. Len(items)] :
          /\ \A i, j \in 1 .. n : i # j => indexes[i] # indexes[j]
          /\ VirtualList!Become(VirtualList!Update(
                 [s EXCEPT !.filtered = [k \in 1 .. n |-> items[indexes[k]]], !.filtering = TRUE, !.scroll = 0]))
  BY DEF VirtualList!FilterItems
<1>2. PICK indexes \in [1 .. n -> 1 .. Len(items)] :
          /\ \A i, j \in 1 .. n : i # j => indexes[i] # indexes[j]
          /\ VirtualList!Become(VirtualList!Update(
                 [s EXCEPT !.filtered = [k \in 1 .. n |-> items[indexes[k]]], !.filtering = TRUE, !.scroll = 0]))
  BY <1>1
<1> DEFINE f == [k \in 1 .. n |-> items[indexes[k]]]
           t == [s EXCEPT !.filtered = f, !.filtering = TRUE, !.scroll = 0]
<1>3. n \in Nat /\ items \in Seq(Item) /\ DOMAIN items = 1 .. Len(items)
  BY ListHas
<1>4. DOMAIN f = 1 .. n /\ \A k \in 1 .. n : f[k] = items[indexes[k]] /\ indexes[k] \in DOMAIN items /\ f[k] \in Item
  BY <1>3
<1>5. f \in Seq(Item)
  BY <1>3, <1>4
<1> HIDE DEF f
<1>6. Differ(f) /\ Elements(f) \subseteq Elements(items)
  BY <1>2, <1>4, ListHas DEF Differ, Elements
<1>7. t \in ListState /\ t.items = items /\ t.filtered = f /\ t.cache = cache
  BY <1>5, ListHas DEF ListState
<1>8. ListOK(t)
  BY <1>6, <1>7, ListHas DEF ListOK
<1> QED BY <1>2, <1>8, ListUpdates DEF f

LEMMA ListUnfilters ==
    ASSUME ListInv, ~muddled, VirtualList!ResetFilter
    PROVE  ListInv'
<1> DEFINE s == VirtualList!S
           none == <<>>
           t == [s EXCEPT !.filtered = none, !.filtering = FALSE]
<1>1. VirtualList!Become(VirtualList!Update(t))
  BY DEF VirtualList!ResetFilter
<1>2. none \in Seq(Item) /\ Differ(none) /\ Elements(none) = {}
  BY DEF Differ, Elements
<1> HIDE DEF none
<1>3. t \in ListState /\ t.items = items /\ t.filtered = none /\ t.cache = cache
  BY <1>2, ListHas DEF ListState
<1>4. ListOK(t)
  BY <1>2, <1>3, ListHas DEF ListOK
<1> QED BY <1>1, <1>4, ListUpdates

LEMMA ListScrolls ==
    ASSUME ListInv, ~muddled, VirtualList!Scroll
    PROVE  ListInv'
<1> DEFINE s == VirtualList!S
           seq == VirtualList!Shown(s)
<1>1. PICK z \in 0 .. VirtualList!Most(2 * Len(seq) - 2 * Screen, 0) :
          VirtualList!Become(VirtualList!Render([s EXCEPT !.scroll = z]))
  BY DEF VirtualList!Scroll
<1> DEFINE t == [s EXCEPT !.scroll = z]
<1> HIDE DEF s
<1>2. /\ t \in ListState /\ t.items = s.items /\ t.filtered = s.filtered /\ t.cache = s.cache
      /\ t.rows = s.rows /\ t.painted = s.painted /\ t.filtering = s.filtering
  BY ListHas DEF ListState, s
<1>3. ListOK(s) /\ Paints(s)
  BY ListHas DEF s
<1> HIDE DEF t
<1>4. VirtualList!Shown(t) = VirtualList!Shown(s)
  BY <1>2 DEF VirtualList!Shown
<1>5. ListOK(t) /\ Paints(t)
  BY <1>2, <1>3, <1>4 DEF ListOK, Paints
<1>6. Settled(VirtualList!Render(t))
  BY <1>5, RenderSettles
<1> QED BY <1>1, <1>6, ListBecomes DEF t

LEMMA ListScrollsTo ==
    ASSUME ListInv, ~muddled, VirtualList!ScrollToItem
    PROVE  ListInv'
<1> DEFINE s == VirtualList!S
           end == VirtualList!Most(2 * Len(VirtualList!Shown(s)) - 2 * Screen, 0)
<1>1. PICK i \in 0 .. Len(items) - 1 :
          VirtualList!Become(VirtualList!Render(
              [VirtualList!Painted([s EXCEPT !.scroll = 2 * i]) EXCEPT !.scroll = VirtualList!Least(@, end)]))
  BY DEF VirtualList!ScrollToItem
<1> DEFINE t == [s EXCEPT !.scroll = 2 * i]
           p == VirtualList!Painted(t)
           y == VirtualList!Least(p.scroll, end)
           e == [p EXCEPT !.scroll = y]
<1> HIDE DEF s
<1>2. t \in ListState /\ t.items = s.items /\ t.filtered = s.filtered /\ t.cache = s.cache /\ t.scroll = 2 * i
  BY ListHas DEF ListState, s
<1>3. ListOK(s)
  BY ListHas DEF s
<1> HIDE DEF t
<1>4. ListOK(t)
  BY <1>2, <1>3 DEF ListOK
<1>5. ListOK(p) /\ Paints(p) /\ p.scroll = 2 * i
  BY <1>2, <1>4, PaintedIs
<1>6. [p EXCEPT !.scroll = VirtualList!Least(@, end)] = e /\ p \in ListState
  BY <1>5 DEF ListOK, ListState
<1>7. VirtualList!Shown(s) \in Seq(Item)
  BY <1>3, ShownIs DEF ListOK, ListState
<1>8. end \in Nat
  BY <1>7, ListParams DEF VirtualList!Most
<1> HIDE DEF p, end
<1>9. y \in Nat
  BY <1>5, <1>8 DEF VirtualList!Least
<1> HIDE DEF y
<1>10. /\ e \in ListState /\ e.items = p.items /\ e.filtered = p.filtered /\ e.cache = p.cache
       /\ e.rows = p.rows /\ e.painted = p.painted /\ e.filtering = p.filtering
  BY <1>6, <1>9 DEF ListState
<1> HIDE DEF e
<1>11. VirtualList!Shown(e) = VirtualList!Shown(p)
  BY <1>10 DEF VirtualList!Shown
<1>12. ListOK(e) /\ Paints(e)
  BY <1>5, <1>10, <1>11 DEF ListOK, Paints
<1>13. Settled(VirtualList!Render(e))
  BY <1>12, RenderSettles
<1>14. VirtualList!Become(VirtualList!Render(e))
  BY <1>1, <1>6 DEF p, t, end, y, e
<1> QED BY <1>13, <1>14, ListBecomes

\* The filter loses what is deleted.
LEMMA WithoutIs ==
    ASSUME NEW f \in Seq(Item), NEW x, Differ(f)
    PROVE  LET w == VirtualList!Without(f, x)
           IN  w \in Seq(Item) /\ Differ(w) /\ Elements(w) = Elements(f) \ {x}
<1> DEFINE w == VirtualList!Without(f, x)
           i == VirtualList!Index(f, x)
           d == VirtualList!Delete(f, i)
<1>1. CASE x \in Elements(f)
  <2>1. i \in 0 .. Len(f) - 1 /\ f[i + 1] = x
    BY <1>1, IndexIs
  <2>2. w = d
    BY <1>1, RangeIs DEF VirtualList!Without
  <2> HIDE DEF i
  <2>3. d \in Seq(Item) /\ Deletes(d, f, i)
    BY <2>1, DeleteIs
  <2> HIDE DEF d
  <2>4. Differ(d) /\ Elements(d) = Elements(f) \ {x}
    BY <2>1, <2>3, DeleteDiffers
  <2> QED BY <2>2, <2>3, <2>4
<1>2. CASE x \notin Elements(f)
  <2>1. w = f
    BY <1>2, RangeIs DEF VirtualList!Without
  <2> QED BY <1>2, <2>1
<1> QED BY <1>1, <1>2

\* An item deleted is gone from the list, the filter and the cache, in which those
\* behind it are counted down.
LEMMA DeletedOK ==
    ASSUME NEW s, ListOK(s), NEW i \in 0 .. Len(s.items) - 1
    PROVE  LET d == VirtualList!DeleteItem(s, i)
           IN  ListOK(d) /\ Len(d.items) = Len(s.items) - 1
<1> DEFINE p == VirtualList!Delete(s.items, i)
           w == VirtualList!Without(s.filtered, s.items[i + 1])
           r == VirtualList!Rest(s.cache, DOMAIN s.cache \ {i})
           to == [j \in DOMAIN s.cache \ {i} |-> IF j > i THEN j - 1 ELSE j]
           c == VirtualList!Moved(r, to)
           d == [s EXCEPT !.items = p, !.filtered = w, !.cache = c]
<1>1. /\ s \in ListState /\ s.items \in Seq(Item) /\ s.filtered \in Seq(Item) /\ s.cache \in Cached
      /\ Differ(s.items) /\ Differ(s.filtered) /\ Elements(s.filtered) \subseteq Elements(s.items)
      /\ CachedOf(s.cache, s.items)
  BY DEF ListOK, ListState
<1>2. VirtualList!DeleteItem(s, i) = d
  BY <1>1 DEF VirtualList!DeleteItem, ListState
<1>3. Len(s.items) \in Nat /\ i \in Nat /\ i < Len(s.items)
  BY <1>1
<1>4. p \in Seq(Item) /\ Deletes(p, s.items, i)
  BY <1>1, DeleteIs
<1> HIDE DEF p
<1>5. Differ(p) /\ Elements(p) = Elements(s.items) \ {s.items[i + 1]}
  BY <1>1, <1>4, DeleteDiffers
<1>6. w \in Seq(Item) /\ Differ(w) /\ Elements(w) = Elements(s.filtered) \ {s.items[i + 1]}
  BY <1>1, WithoutIs
<1> HIDE DEF w
<1>7. r \in Cached /\ DOMAIN r = DOMAIN s.cache \ {i} /\ \A j \in DOMAIN r : r[j] = s.cache[j]
  BY <1>1, RestIs
<1> HIDE DEF r
<1>8. \A j \in DOMAIN r : to[j] \in 0 .. Len(p) - 1 /\ r[j] = p[to[j] + 1]
  <2> SUFFICES ASSUME NEW j \in DOMAIN r PROVE to[j] \in 0 .. Len(p) - 1 /\ r[j] = p[to[j] + 1]
    OBVIOUS
  <2>1. j # i /\ j \in DOMAIN s.cache /\ r[j] = s.cache[j] /\ to[j] = IF j > i THEN j - 1 ELSE j
    BY <1>7
  <2>2. j \in 0 .. Len(s.items) - 1 /\ s.cache[j] = s.items[j + 1]
    BY <1>1, <2>1 DEF CachedOf
  <2> DEFINE k == to[j]
  <2>3. k = IF j > i THEN j - 1 ELSE j
    BY <2>1
  <2> HIDE DEF k
  <2>4. k \in 0 .. Len(p) - 1 /\ k + 1 \in 1 .. Len(p)
    BY <1>3, <1>4, <2>1, <2>2, <2>3 DEF Deletes
  <2>5. p[k + 1] = IF k + 1 <= i THEN s.items[k + 1] ELSE s.items[k + 2]
    BY <1>4, <2>4 DEF Deletes
  <2>6. CASE j > i
    <3>1. k + 2 = j + 1 /\ ~(k + 1 <= i)
      BY <1>3, <2>2, <2>3, <2>6
    <3> QED BY <2>1, <2>2, <2>4, <2>5, <3>1 DEF k
  <2>7. CASE ~(j > i)
    <3>1. k = j /\ k + 1 <= i
      BY <1>3, <2>1, <2>2, <2>3, <2>7
    <3> QED BY <2>1, <2>2, <2>4, <2>5, <3>1 DEF k
  <2> QED BY <2>6, <2>7
<1> HIDE DEF to
<1>9. c \in Cached /\ CachedOf(c, p)
  BY <1>4, <1>7, <1>8, MovedIs
<1> HIDE DEF c
<1>10. d \in ListState /\ d.items = p /\ d.filtered = w /\ d.cache = c
  BY <1>1, <1>4, <1>6, <1>9 DEF ListState
<1> HIDE DEF d
<1>11. ListOK(d)
  BY <1>1, <1>5, <1>6, <1>9, <1>10 DEF ListOK
<1> QED BY <1>2, <1>4, <1>10, <1>11 DEF Deletes

LEMMA ListDeletes ==
    ASSUME ListInv, ~muddled, NEW indexes \in VirtualList!Indexes, VirtualList!DeleteItems(indexes)
    PROVE  ListInv'
<1> DEFINE s == VirtualList!S
           d == VirtualList!DeleteItem(s, indexes[1])
           k == indexes[2] + VirtualList!Counts(indexes, 2)
           e == VirtualList!DeleteItem(d, k)
<1>1. VirtualList!Become(VirtualList!Update(IF Len(indexes) = 1 THEN d ELSE e))
  BY DEF VirtualList!DeleteItems
<1>2. s.items = items /\ ListOK(s) /\ items \in Seq(Item) /\ Len(items) \in Nat
  BY ListHas
<1> HIDE DEF s
<1>3. \/ \E i \in 0 .. Len(items) - 1 : indexes = <<i>>
      \/ \E i, j \in 0 .. Len(items) - 1 : indexes = <<i, j>> /\ i # j
  BY DEF VirtualList!Indexes
<1>4. indexes[1] \in 0 .. Len(s.items) - 1
  BY <1>2, <1>3
<1>5. ListOK(d) /\ Len(d.items) = Len(items) - 1
  BY <1>2, <1>4, DeletedOK
<1> HIDE DEF d
<1>6. CASE \E i \in 0 .. Len(items) - 1 : indexes = <<i>>
  <2>1. Len(indexes) = 1
    BY <1>6
  <2>2. VirtualList!Become(VirtualList!Update(d))
    BY <1>1, <2>1
  <2> QED BY <1>5, <2>2, ListUpdates
<1>7. CASE \E i, j \in 0 .. Len(items) - 1 : indexes = <<i, j>> /\ i # j
  <2>1. PICK i \in 0 .. Len(items) - 1, j \in 0 .. Len(items) - 1 : indexes = <<i, j>> /\ i # j
    BY <1>7
  <2>2. Len(indexes) = 2 /\ indexes[1] = i /\ indexes[2] = j
    BY <2>1
  <2>3. k = IF j > i THEN j - 1 ELSE j
    BY <2>1, <2>2 DEF VirtualList!Counts
  <2>4. k \in 0 .. Len(d.items) - 1
    BY <1>2, <1>5, <2>1, <2>3
  <2> HIDE DEF k
  <2>5. ListOK(e)
    BY <1>5, <2>4, DeletedOK
  <2> HIDE DEF e
  <2>6. VirtualList!Become(VirtualList!Update(e))
    BY <1>1, <2>2
  <2> QED BY <2>5, <2>6, ListUpdates
<1> QED BY <1>3, <1>6, <1>7

\* An item moved down: those it passes are counted down, in the list as in the cache.
LEMMA ListMoves ==
    ASSUME ListInv, ~muddled, NEW old \in 0 .. Len(items) - 1, NEW new \in 0 .. Len(items) - 1, old < new,
           VirtualList!MoveItem(old, new)
    PROVE  ListInv'
<1> DEFINE s == VirtualList!S
           x == items[old + 1]
           rest == VirtualList!Delete(items, old)
           q == VirtualList!Insert(rest, new, x)
           Turned(i) == IF i < old \/ i > new THEN i ELSE IF i = old THEN new ELSE IF old < new THEN i - 1 ELSE i + 1
           to == [i \in DOMAIN cache |-> Turned(i)]
           c == VirtualList!Moved(cache, to)
           t == [s EXCEPT !.items = q, !.cache = c]
<1>1. items \in Seq(Item) /\ Differ(items) /\ Len(items) \in Nat /\ old \in Nat /\ new \in Nat /\ new < Len(items)
  BY ListHas
<1>2. x \in Item /\ x \in Elements(items) /\ old + 1 \in 1 .. Len(items)
  BY <1>1 DEF Elements
<1>3. rest \in Seq(Item) /\ Deletes(rest, items, old)
  BY <1>1, DeleteIs
<1>4. Differ(rest) /\ Elements(rest) = Elements(items) \ {x}
  <2> HIDE DEF rest
  <2> QED BY <1>1, <1>3, DeleteDiffers
<1>5. Len(rest) = Len(items) - 1 /\ new \in 0 .. Len(rest)
  BY <1>1, <1>3 DEF Deletes
<1>6. q \in Seq(Item) /\ Inserts(q, rest, new, x)
  <2> HIDE DEF rest
  <2> QED BY <1>2, <1>3, <1>5, InsertIs
<1>7. VirtualList!Become(VirtualList!Update(t))
  <2>1. VirtualList!Least(new, Len(rest)) = new
    BY <1>1, <1>5 DEF VirtualList!Least
  <2>2. VirtualList!Least(old, new) = old /\ VirtualList!Most(old, new) = new
    BY <1>1 DEF VirtualList!Least, VirtualList!Most
  <2>3. VirtualList!Become(VirtualList!Update(
            [s EXCEPT !.items = q, !.cache = VirtualList!Moved(@, [i \in DOMAIN @ |-> Turned(i)])]))
    BY <2>1, <2>2 DEF VirtualList!MoveItem
  <2> QED BY <2>3, ListHas
<1> HIDE DEF q, rest, x
<1>8. Differ(q) /\ Elements(q) = Elements(items)
  <2>1. x \notin Elements(rest)
    BY <1>4
  <2>2. Differ(q) /\ Elements(q) = Elements(rest) \cup {x}
    BY <1>2, <1>3, <1>4, <1>5, <1>6, <2>1, InsertDiffers
  <2> QED BY <1>2, <1>4, <2>2
<1>9. \A i \in DOMAIN cache : to[i] \in 0 .. Len(q) - 1 /\ cache[i] = q[to[i] + 1]
  <2> SUFFICES ASSUME NEW i \in DOMAIN cache PROVE to[i] \in 0 .. Len(q) - 1 /\ cache[i] = q[to[i] + 1]
    OBVIOUS
  <2>1. i \in 0 .. Len(items) - 1 /\ cache[i] = items[i + 1]
    BY ListHas DEF CachedOf
  <2> DEFINE k == to[i]
  <2>2. k = IF i < old \/ i > new THEN i ELSE IF i = old THEN new ELSE i - 1
    OBVIOUS
  <2> HIDE DEF k
  <2>3. Len(q) = Len(items) /\ k \in 0 .. Len(q) - 1 /\ k + 1 \in 1 .. Len(q)
    BY <1>1, <1>5, <1>6, <2>1, <2>2 DEF Inserts
  <2>4. q[k + 1] = IF k + 1 <= new THEN rest[k + 1] ELSE IF k = new THEN x ELSE rest[k]
    BY <1>1, <1>6, <2>3 DEF Inserts
  <2>5. \A m \in 1 .. Len(items) - 1 : rest[m] = IF m <= old THEN items[m] ELSE items[m + 1]
    BY <1>3 DEF Deletes
  <2>6. q[k + 1] = items[i + 1]
    <3>1. CASE i < old
      <4>1. k = i /\ k + 1 <= new /\ k + 1 <= old /\ k + 1 \in 1 .. Len(items) - 1
        BY <1>1, <2>1, <2>2, <3>1
      <4> QED BY <2>4, <2>5, <4>1
    <3>2. CASE i > new
      <4>1. k = i /\ ~(k + 1 <= new) /\ k # new /\ ~(k <= old) /\ k \in 1 .. Len(items) - 1
        BY <1>1, <2>1, <2>2, <3>2
      <4> QED BY <2>4, <2>5, <4>1
    <3>3. CASE i = old
      <4>1. k = new /\ ~(k + 1 <= new)
        BY <1>1, <2>1, <2>2, <3>3
      <4> QED BY <2>4, <3>3, <4>1 DEF x
    <3>4. CASE old < i /\ i <= new
      <4>1. k = i - 1 /\ k + 1 = i /\ k + 1 <= new /\ ~(k + 1 <= old) /\ k + 1 \in 1 .. Len(items) - 1
        BY <1>1, <2>1, <2>2, <3>4
      <4> QED BY <2>4, <2>5, <4>1
    <3> QED BY <1>1, <2>1, <3>1, <3>2, <3>3, <3>4
  <2> QED BY <2>1, <2>3, <2>6 DEF k
<1> HIDE DEF to
<1>10. c \in Cached /\ CachedOf(c, q)
  BY <1>6, <1>9, ListHas, MovedIs
<1> HIDE DEF c
<1>11. t \in ListState /\ t.items = q /\ t.filtered = filtered /\ t.cache = c
  BY <1>6, <1>10, ListHas DEF ListState
<1>12. ListOK(t)
  BY <1>8, <1>10, <1>11, ListHas DEF ListOK
<1> QED BY <1>7, <1>12, ListUpdates

LEMMA ListNext ==
    ASSUME ListInv, VirtualList!Next
    PROVE  ListInv'
<1> SUFFICES ASSUME ~muddled, ~muddled' PROVE ListInv'
  BY DEF VirtualList!Next, ListInv
<1>1. ASSUME NEW i \in 0 .. Len(items) - 1, NEW j \in 0 .. Len(items) - 1, i # j,
             VirtualList!MoveItem(i, j), muddled' = VirtualList!Muddles(i, j)
      PROVE  ListInv'
  <2>1. i < j
    <3>1. muddled' = (i > j)
      BY <1>1, Zenon DEF VirtualList!Muddles
    <3>2. ~(i > j)
      BY <3>1, Zenon
    <3>3. i \in Int /\ j \in Int
      BY ListHas
    <3> QED BY <1>1, <3>2, <3>3
  <2> QED BY <1>1, <2>1, ListMoves
<1> QED BY <1>1, ListAppends, ListPrepends, ListInserts, ListReplaces, ListReplacesAll, ListDeletesAll, ListClears,
           ListFilters, ListUnfilters, ListScrolls, ListScrollsTo, ListDeletes DEF VirtualList!Next

LEMMA ListStays ==
    ASSUME ListInv, UNCHANGED virtualVars
    PROVE  ListInv'
BY DEF ListInv, virtualVars, VirtualList!S, ListOK, Paints, Near, VirtualList!Shown

\* What lies in the viewport as a whole is among the rows painted, not far away.
LEMMA InView ==
    ASSUME NEW p \in Nat, NEW y \in Nat, NEW n \in Nat, NEW r \in 0 .. n - 1,
           y - p <= RowsBefore, p - y <= RowsBefore, 2 * r >= y, 2 * r + 2 <= y + 2 * Screen
    PROVE  r \in Around(p, n)
<1> DEFINE h == p \div 2
           f == FirstRow(p)
<1>1. h \in Nat /\ 2 * h <= p /\ p <= 2 * h + 1
  OBVIOUS
<1>2. f = IF h - RowsBefore > 0 THEN h - RowsBefore ELSE 0
  BY DEF FirstRow, VirtualList!Most
<1> HIDE DEF h, f
<1>3. f <= r
  BY <1>1, <1>2, ListParams
<1>4. r < f + Screen + RowsBefore + RowsAfter
  BY <1>1, <1>2, ListParams
<1>5. Around(p, n) = f .. VirtualList!Least(f + Screen + RowsBefore + RowsAfter, n) - 1
  BY DEF Around, f
<1>6. f \in Int
  BY <1>1, <1>2, ListParams
<1> QED BY <1>3, <1>4, <1>5, <1>6, ListParams DEF VirtualList!Least

LEMMA ListRight == ListInv => VirtualList!CacheMatches /\ VirtualList!ViewCovered
<1> SUFFICES ASSUME ListInv PROVE VirtualList!CacheMatches /\ VirtualList!ViewCovered
  OBVIOUS
<1>1. VirtualList!CacheMatches
  <2> SUFFICES ASSUME ~muddled, NEW i \in DOMAIN cache PROVE i < Len(items) /\ cache[i] = items[i + 1]
    BY DEF VirtualList!CacheMatches
  <2>1. i \in 0 .. Len(items) - 1 /\ cache[i] = items[i + 1] /\ Len(items) \in Nat
    BY ListHas DEF CachedOf
  <2> QED BY <2>1
<1>2. VirtualList!ViewCovered
  <2> DEFINE s == VirtualList!S
             seq == VirtualList!Shown(s)
  <2> SUFFICES ASSUME ~muddled, NEW r \in 0 .. Len(seq) - 1, 2 * r >= virtualScroll, 2 * r + 2 <= virtualScroll + 2 * Screen
               PROVE  r \in DOMAIN virtualRows /\ virtualRows[r] = seq[r + 1]
    BY DEF VirtualList!ViewCovered
  <2>1. ListOK(s) /\ Paints(s) /\ Near(s) /\ s \in ListState
    BY ListHas
  <2>2. s.rows = virtualRows /\ s.painted = painted /\ s.scroll = virtualScroll
    BY DEF VirtualList!S
  <2>3. painted \in Nat /\ virtualScroll \in Nat
    BY <2>1, <2>2 DEF ListState
  <2>4. seq \in Seq(Item)
    BY <2>1, ShownIs DEF ListOK, ListState
  <2> HIDE DEF s
  <2>5. r \in Around(painted, Len(seq))
    <3>1. Len(seq) \in Nat
      BY <2>4
    <3> HIDE DEF seq
    <3> QED BY <2>1, <2>2, <2>3, <3>1, InView DEF Near
  <2>6. virtualRows = [k \in Around(painted, Len(seq)) |-> seq[k + 1]]
    BY <2>1, <2>2 DEF Paints
  <2> QED BY <2>5, <2>6
<1> QED BY <1>1, <1>2

-----------------------------------------------------------------------------
(* The collection: its index, whom it hears and what is under way.  H are  *)
(* the models it holds.                                                    *)

Ids == (1 .. MaxId) \cup {NULL}
Indexes == UNION {[D -> Cid] : D \in SUBSET (Cid \cup (1 .. MaxId))}

Plain == [id : [Cid -> Ids], heard : [Cid -> Nat], made : SUBSET Cid, list : Seq(Cid),
          length : Int, byId : Indexes]
Work == [id : [Cid -> Ids], heard : [Cid -> Nat], made : SUBSET Cid, list : Seq(Cid),
         length : Int, byId : Indexes, toAdd : Seq(Cid), order : Seq(Cid), keep : SUBSET Cid]

\* The index of the models of H with the ids ids.
Indexed(b, ids, H) ==
    /\ DOMAIN b = (H \cup {ids[c] : c \in H}) \ {NULL}
    /\ \A c \in H : b[c] = c /\ (ids[c] # NULL => b[ids[c]] = c)
Knows(s, H) ==
    /\ H \subseteq s.made /\ s.made \subseteq Cid /\ s.id \in [Cid -> Ids]
    /\ s.heard = [c \in Cid |-> IF c \in H THEN 1 ELSE 0]
    /\ s.byId \in Indexes /\ Indexed(s.byId, s.id, H)
\* A state between two changes ...
Agreed(s) ==
    /\ s.list \in Seq(Cid) /\ Differ(s.list) /\ s.length = Len(s.list)
    /\ Knows(s, Elements(s.list))
\* ... and one inside set: what is to be added is new, not one of M.
Seen(t, M) ==
    /\ t \in Work /\ Differ(t.list) /\ t.length = Len(t.list)
    /\ Differ(t.toAdd) /\ Differ(t.order)
    /\ Elements(t.list) \cap Elements(t.toAdd) = {}
    /\ Elements(t.order) = t.keep \cup Elements(t.toAdd)
    /\ t.keep \subseteq Elements(t.list) \cup Elements(t.toAdd)
    /\ M \subseteq t.made /\ Elements(t.toAdd) \cap M = {}
    /\ Knows(t, Elements(t.list) \cup Elements(t.toAdd))

Requests == [kind : {"create", "read", "delete"}, c : Cid \cup {NULL}, wait : BOOLEAN,
             at : {"server", "answer"}, got : Seq(Ids)]
\* A model waited for is made, and not in the list yet.
Expected(r, m, held) ==
    /\ r \in Requests
    /\ r.kind # "read" => r.c \in Cid
    /\ r.kind = "create" /\ r.wait => r.c \in m \ held
    /\ r.at = "answer" /\ r.kind = "create" => r.got[1] \in 1 .. MaxId
    /\ r.at = "answer" /\ r.kind = "read" => r.got \in Seq(1 .. MaxId)
Awaited(w, m, held) ==
    /\ \A r \in w : Expected(r, m, held)
    /\ \A q, r \in w : q.kind = r.kind => q = r

ModelsKept ==
    /\ collectionsRows \subseteq 1 .. MaxId
    /\ Agreed(Collections!S)
    /\ Awaited(wire, made, Elements(list))
ModelsInv == ~doubled => ModelsKept

LEMMA ModelParams ==
    /\ IsFiniteSet(Cid) /\ MaxId \in Nat /\ NULL \notin Cid /\ NULL \notin 1 .. MaxId
    /\ \A c \in Cid : c \notin 1 .. MaxId
<1>1. Collections!IsFiniteSet(Cid) = IsFiniteSet(Cid)
  BY Zenon DEF Collections!IsFiniteSet, IsFiniteSet
<1> QED BY <1>1, AssumptionOfModels DEF Collections!CollectionAssumption

LEMMA CountIs == \A T : Collections!Cardinality(T) = Cardinality(T)
BY Zenon DEF Collections!Cardinality, Cardinality

LEMMA RangeOf == \A q : Collections!Range(q) = Elements(q)
BY DEF Collections!Range, Elements

LEMMA NamesApart ==
    ASSUME NEW H \in SUBSET Cid, NEW c \in Cid
    PROVE  c \notin Ids /\ NULL \in Ids /\ c # NULL
BY ModelParams DEF Ids

\* get finds a model that is held, if there is one with the id or the cid.
LEMMA GetIs ==
    ASSUME NEW s, NEW H \in SUBSET Cid, Knows(s, H), NEW i \in Ids, NEW c \in Cid \cup {NULL}
    PROVE  LET m == Collections!Get(s, i, c) IN
           /\ \/ m = NULL /\ c \notin H /\ i \notin DOMAIN s.byId
              \/ m \in H
           /\ c \in H /\ i = s.id[c] => m = c
<1>1. /\ DOMAIN s.byId = (H \cup {s.id[d] : d \in H}) \ {NULL}
      /\ \A d \in H : s.byId[d] = d /\ (s.id[d] # NULL => s.byId[s.id[d]] = d)
  BY DEF Knows, Indexed
<1>2. \A k \in DOMAIN s.byId : s.byId[k] \in H
  BY <1>1
<1>3. NULL \notin H /\ NULL \notin DOMAIN s.byId
  BY <1>1, ModelParams
<1>4. c \in H => c \in DOMAIN s.byId /\ s.byId[c] = c
  BY <1>1, <1>3
<1>5. i \in DOMAIN s.byId => i # NULL
  BY <1>3
<1> QED BY <1>1, <1>2, <1>3, <1>4, <1>5 DEF Collections!Get

LEMMA IndexTyped ==
    ASSUME NEW b, DOMAIN b \subseteq Cid \cup (1 .. MaxId), b = [k \in DOMAIN b |-> b[k]],
           \A k \in DOMAIN b : b[k] \in Cid
    PROVE  b \in Indexes
<1>1. b \in [DOMAIN b -> Cid]
  OBVIOUS
<1> QED BY <1>1, Zenon DEF Indexes

\* The index when a model with a new id is added ...
LEMMA IndexAdds ==
    ASSUME NEW b \in Indexes, NEW ids \in [Cid -> Ids], NEW H \in SUBSET Cid, Indexed(b, ids, H),
           NEW c \in Cid, c \notin H, NEW i \in Ids, i \notin DOMAIN b
    PROVE  LET n == Collections!Keyed(Collections!Keyed(b, c, c), i, c)
           IN  n \in Indexes /\ Indexed(n, [ids EXCEPT ![c] = i], H \cup {c})
<1> DEFINE a == Collections!Keyed(b, c, c)
           n == Collections!Keyed(a, i, c)
           new == [ids EXCEPT ![c] = i]
<1>1. /\ NULL \notin Cid /\ NULL \notin 1 .. MaxId /\ (\A d \in Cid : d \notin Ids)
      /\ \A k \in Ids : k = NULL \/ k \in 1 .. MaxId
  BY ModelParams DEF Ids
<1>2. /\ DOMAIN b = (H \cup {ids[d] : d \in H}) \ {NULL}
      /\ \A d \in H : b[d] = d /\ (ids[d] # NULL => b[ids[d]] = d)
  BY DEF Indexed
<1>3. /\ DOMAIN b \subseteq Cid \cup (1 .. MaxId)
      /\ \A k \in DOMAIN b : b[k] \in Cid
  BY DEF Indexes
<1>4. /\ a = [x \in (DOMAIN b \cup {c}) \ {NULL} |-> IF x = c THEN c ELSE b[x]]
      /\ n = [x \in (DOMAIN a \cup {i}) \ {NULL} |-> IF x = i THEN c ELSE a[x]]
  BY DEF Collections!Keyed
<1>5. DOMAIN a = DOMAIN b \cup {c} /\ (\A x \in DOMAIN a : a[x] = IF x = c THEN c ELSE b[x])
  <2>1. NULL \notin DOMAIN b /\ c # NULL
    BY <1>1, <1>2
  <2>2. (DOMAIN b \cup {c}) \ {NULL} = DOMAIN b \cup {c}
    BY <2>1
  <2> QED BY <1>4, <2>2
<1> HIDE DEF a
<1>6. DOMAIN n = (DOMAIN b \cup {c, i}) \ {NULL} /\ (\A x \in DOMAIN n : n[x] = IF x = i THEN c ELSE a[x])
  BY <1>4, <1>5
<1>7. n = [x \in DOMAIN n |-> n[x]]
  BY <1>4
<1> HIDE DEF n
<1>8. i # c /\ c \notin DOMAIN b
  BY <1>1, <1>2
<1>9. \A x \in DOMAIN n : n[x] = IF x = i \/ x = c THEN c ELSE b[x]
  BY <1>5, <1>6, <1>8
<1>10. n \in Indexes
  <2>1. DOMAIN n \subseteq Cid \cup (1 .. MaxId)
    BY <1>1, <1>3, <1>6
  <2>2. \A k \in DOMAIN n : n[k] \in Cid
    BY <1>3, <1>6, <1>9
  <2> QED BY <1>7, <2>1, <2>2, IndexTyped
<1>11. new[c] = i /\ \A d \in H : new[d] = ids[d]
  OBVIOUS
<1> HIDE DEF new
<1>12. DOMAIN n = ((H \cup {c}) \cup {new[d] : d \in H \cup {c}}) \ {NULL}
  BY <1>2, <1>6, <1>11
<1>13. ASSUME NEW d \in H PROVE n[d] = d /\ (new[d] # NULL => n[new[d]] = d)
  <2>1. d \in DOMAIN b /\ d # NULL /\ d # i /\ d # c
    BY <1>1, <1>2
  <2>2. n[d] = d
    BY <1>2, <1>6, <1>9, <2>1
  <2>3. ASSUME new[d] # NULL PROVE n[new[d]] = d
    <3>1. ids[d] \in DOMAIN b /\ b[ids[d]] = d
      BY <1>2, <1>11, <2>3
    <3>2. ids[d] # i /\ ids[d] # c /\ ids[d] \in DOMAIN n
      BY <1>6, <1>8, <1>11, <2>3, <3>1
    <3> QED BY <1>9, <1>11, <3>1, <3>2
  <2> QED BY <2>2, <2>3
<1>14. n[c] = c /\ (new[c] # NULL => n[new[c]] = c)
  BY <1>1, <1>6, <1>9, <1>11
<1>15. Indexed(n, new, H \cup {c})
  BY <1>12, <1>13, <1>14 DEF Indexed
<1> QED BY <1>10, <1>15 DEF n, a, new

\* ... when one is taken out ...
LEMMA IndexDrops ==
    ASSUME NEW b \in Indexes, NEW ids \in [Cid -> Ids], NEW H \in SUBSET Cid, Indexed(b, ids, H),
           NEW c \in H
    PROVE  LET n == Collections!Unkeyed(b, {ids[c], c})
           IN  n \in Indexes /\ Indexed(n, ids, H \ {c})
<1> DEFINE n == Collections!Unkeyed(b, {ids[c], c})
<1>1. /\ NULL \notin Cid /\ NULL \notin 1 .. MaxId /\ (\A d \in Cid : d \notin Ids)
      /\ \A d \in Cid : ids[d] \in Ids
  BY ModelParams DEF Ids
<1>2. /\ DOMAIN b = (H \cup {ids[d] : d \in H}) \ {NULL}
      /\ \A d \in H : b[d] = d /\ (ids[d] # NULL => b[ids[d]] = d)
  BY DEF Indexed
<1>3. DOMAIN b \subseteq Cid \cup (1 .. MaxId) /\ (\A k \in DOMAIN b : b[k] \in Cid)
  BY DEF Indexes
<1>4. n = [x \in DOMAIN b \ {ids[c], c} |-> b[x]]
  BY DEF Collections!Unkeyed
<1>5. DOMAIN n = DOMAIN b \ {ids[c], c} /\ (\A x \in DOMAIN n : n[x] = b[x]) /\ n = [x \in DOMAIN n |-> n[x]]
  BY <1>4
<1> HIDE DEF n
<1>6. n \in Indexes
  BY <1>3, <1>5, IndexTyped
<1>7. ASSUME NEW d \in H \ {c}
      PROVE  d \in DOMAIN n /\ n[d] = d /\ (ids[d] # NULL => ids[d] \in DOMAIN n /\ n[ids[d]] = d)
  <2>1. d \in DOMAIN b /\ d # ids[c] /\ b[d] = d
    BY <1>1, <1>2
  <2>2. ASSUME ids[d] # NULL PROVE ids[d] \in DOMAIN b /\ b[ids[d]] = d /\ ids[d] # ids[c] /\ ids[d] # c
    BY <1>1, <1>2, <2>2
  <2> QED BY <1>5, <2>1, <2>2
<1>8. ASSUME NEW k \in DOMAIN n PROVE k \in ((H \ {c}) \cup {ids[d] : d \in H \ {c}}) \ {NULL}
  BY <1>2, <1>5
<1>9. DOMAIN n = ((H \ {c}) \cup {ids[d] : d \in H \ {c}}) \ {NULL}
  BY <1>1, <1>7, <1>8
<1> QED BY <1>6, <1>7, <1>9 DEF Indexed, n

\* ... and when one that is held gets an id no other has.
LEMMA IndexRenames ==
    ASSUME NEW b \in Indexes, NEW ids \in [Cid -> Ids], NEW H \in SUBSET Cid, Indexed(b, ids, H),
           NEW c \in H, NEW i \in Ids, i # NULL => \A d \in H \ {c} : ids[d] # i
    PROVE  LET n == Collections!Keyed(Collections!Unkeyed(b, {ids[c]}), i, c)
           IN  n \in Indexes /\ Indexed(n, [ids EXCEPT ![c] = i], H)
<1> DEFINE a == Collections!Unkeyed(b, {ids[c]})
           n == Collections!Keyed(a, i, c)
           new == [ids EXCEPT ![c] = i]
<1>1. /\ NULL \notin Cid /\ NULL \notin 1 .. MaxId /\ (\A d \in Cid : d \notin Ids)
      /\ (\A k \in Ids : k = NULL \/ k \in 1 .. MaxId) /\ (\A d \in Cid : ids[d] \in Ids)
  BY ModelParams DEF Ids
<1>2. /\ DOMAIN b = (H \cup {ids[d] : d \in H}) \ {NULL}
      /\ \A d \in H : b[d] = d /\ (ids[d] # NULL => b[ids[d]] = d)
  BY DEF Indexed
<1>3. DOMAIN b \subseteq Cid \cup (1 .. MaxId) /\ (\A k \in DOMAIN b : b[k] \in Cid)
  BY DEF Indexes
<1>4. /\ a = [x \in DOMAIN b \ {ids[c]} |-> b[x]]
      /\ n = [x \in (DOMAIN a \cup {i}) \ {NULL} |-> IF x = i THEN c ELSE a[x]]
  BY DEF Collections!Keyed, Collections!Unkeyed
<1>5. DOMAIN a = DOMAIN b \ {ids[c]} /\ (\A x \in DOMAIN a : a[x] = b[x])
  BY <1>4
<1> HIDE DEF a
<1>6. DOMAIN n = ((DOMAIN b \ {ids[c]}) \cup {i}) \ {NULL} /\ (\A x \in DOMAIN n : n[x] = IF x = i THEN c ELSE b[x])
  BY <1>4, <1>5
<1>7. n = [x \in DOMAIN n |-> n[x]]
  BY <1>4
<1> HIDE DEF n
<1>8. n \in Indexes
  <2>1. DOMAIN n \subseteq Cid \cup (1 .. MaxId)
    BY <1>1, <1>3, <1>6
  <2>2. \A k \in DOMAIN n : n[k] \in Cid
    BY <1>3, <1>6
  <2> QED BY <1>7, <2>1, <2>2, IndexTyped
<1>9. new[c] = i /\ \A d \in H \ {c} : new[d] = ids[d]
  OBVIOUS
<1> HIDE DEF new
<1>10. ASSUME NEW d \in H \ {c}
       PROVE  d \in DOMAIN n /\ n[d] = d /\ (new[d] # NULL => new[d] \in DOMAIN n /\ n[new[d]] = d)
  <2>1. d \in DOMAIN b /\ d # ids[c] /\ d # i /\ d # NULL /\ b[d] = d
    BY <1>1, <1>2
  <2>2. ASSUME ids[d] # NULL PROVE ids[d] \in DOMAIN b /\ b[ids[d]] = d /\ ids[d] # ids[c] /\ ids[d] # i
    BY <1>1, <1>2, <2>2
  <2>3. d \in DOMAIN n /\ n[d] = d
    BY <1>6, <2>1
  <2>4. ASSUME ids[d] # NULL PROVE ids[d] \in DOMAIN n /\ n[ids[d]] = d
    BY <1>6, <2>2, <2>4
  <2> QED BY <1>9, <2>3, <2>4
<1>11. c \in DOMAIN n /\ n[c] = c /\ (new[c] # NULL => new[c] \in DOMAIN n /\ n[new[c]] = c)
  <2>1. c \in DOMAIN b /\ c # ids[c] /\ c # i /\ c # NULL /\ b[c] = c
    BY <1>1, <1>2
  <2> QED BY <1>6, <1>9, <2>1
<1>12. ASSUME NEW k \in DOMAIN n PROVE k \in (H \cup {new[d] : d \in H}) \ {NULL}
  <2>1. CASE k = i
    BY <1>6, <1>9, <2>1
  <2>2. CASE k # i
    <3>1. k \in DOMAIN b /\ k # ids[c] /\ k # NULL
      BY <1>6, <2>2
    <3>2. CASE k \in H
      BY <3>1, <3>2
    <3>3. CASE k \notin H
      <4>1. PICK d \in H : k = ids[d]
        BY <1>2, <3>1, <3>3
      <4>2. d # c
        BY <3>1, <4>1
      <4> QED BY <1>9, <3>1, <4>1, <4>2
    <3> QED BY <3>2, <3>3
  <2> QED BY <2>1, <2>2
<1>13. DOMAIN n = (H \cup {new[d] : d \in H}) \ {NULL}
  <2>1. \A k \in H : k \in DOMAIN n
    BY <1>10, <1>11
  <2>2. \A d \in H : new[d] # NULL => new[d] \in DOMAIN n
    BY <1>10, <1>11
  <2>3. \A k \in H : k # NULL
    BY <1>1
  <2> QED BY <1>12, <2>1, <2>2, <2>3
<1>14. Indexed(n, new, H)
  BY <1>10, <1>11, <1>13 DEF Indexed
<1> QED BY <1>8, <1>14 DEF n, a, new

\* Taking out a model leaves the others in their order.
LEMMA RemoveAtIs ==
    ASSUME NEW q \in Seq(Cid), Differ(q), NEW c \in Elements(q)
    PROVE  LET d == Collections!RemoveAt(q, Collections!IndexOf(q, c)) IN
           d \in Seq(Cid) /\ Differ(d) /\ Len(d) = Len(q) - 1 /\ Elements(d) = Elements(q) \ {c}
<1> DEFINE k == Collections!IndexOf(q, c)
           d == Collections!RemoveAt(q, k)
           i == k - 1
<1>1. k \in DOMAIN q /\ q[k] = c
  BY DEF Collections!IndexOf, Elements
<1> HIDE DEF k
<1>2. k \in 1 .. Len(q) /\ Len(q) \in Nat
  BY <1>1
<1>3. i \in 0 .. Len(q) - 1 /\ i + 1 = k /\ i + 2 = k + 1
  BY <1>2
<1>4. d = VirtualList!Delete(q, i)
  BY <1>3 DEF Collections!RemoveAt, VirtualList!Delete
<1> HIDE DEF d, i
<1>5. d \in Seq(Cid) /\ Deletes(d, q, i)
  BY <1>3, <1>4, DeleteIs
<1>6. Differ(d) /\ Elements(d) = Elements(q) \ {q[i + 1]}
  BY <1>3, <1>5, DeleteDiffers
<1>7. Len(d) = Len(q) - 1
  BY <1>5 DEF Deletes
<1> QED BY <1>1, <1>3, <1>5, <1>6, <1>7 DEF d, k

LEMMA AppendDiffers ==
    ASSUME NEW q \in Seq(Cid), Differ(q), NEW c \in Cid, c \notin Elements(q)
    PROVE  Append(q, c) \in Seq(Cid) /\ Differ(Append(q, c)) /\ Elements(Append(q, c)) = Elements(q) \cup {c}
<1> DEFINE d == Append(q, c)
<1>1. d \in Seq(Cid) /\ Inserts(d, q, Len(q), c)
  BY AppendIs
<1>2. Len(q) \in 0 .. Len(q)
  OBVIOUS
<1> HIDE DEF d
<1>3. Differ(d) /\ Elements(d) = Elements(q) \cup {c}
  BY <1>1, <1>2, InsertDiffers
<1> QED BY <1>1, <1>3 DEF d

LEMMA NoElements == Elements(<<>>) = {} /\ Differ(<<>>)
BY DEF Elements, Differ

LEMMA ElementsIn ==
    ASSUME NEW V, NEW q \in Seq(V)
    PROVE  Elements(q) \subseteq V /\ DOMAIN q = 1 .. Len(q) /\ Len(q) \in Nat
BY ElementOfSeq DEF Elements

-----------------------------------------------------------------------------
(* remove                                                                  *)

\* What is heard and held when a model is taken out.
LEMMA KnowsLess ==
    ASSUME NEW s, NEW H \in SUBSET Cid, Knows(s, H), NEW m \in H, NEW t,
           t.id = s.id, t.made = s.made, t.heard = [s.heard EXCEPT ![m] = 0],
           t.byId = Collections!Unkeyed(s.byId, {s.id[m], m})
    PROVE  Knows(t, H \ {m})
<1>1. t.byId \in Indexes /\ Indexed(t.byId, s.id, H \ {m})
  <2>1. s.byId \in Indexes /\ s.id \in [Cid -> Ids] /\ Indexed(s.byId, s.id, H)
    BY DEF Knows
  <2>2. LET n == Collections!Unkeyed(s.byId, {s.id[m], m})
        IN  n \in Indexes /\ Indexed(n, s.id, H \ {m})
    BY <2>1, IndexDrops
  <2> QED BY <2>2
<1>2. t.heard = [c \in Cid |-> IF c \in H \ {m} THEN 1 ELSE 0]
  <2>1. s.heard = [c \in Cid |-> IF c \in H THEN 1 ELSE 0]
    BY DEF Knows
  <2> QED BY <2>1
<1> QED BY <1>1, <1>2 DEF Knows

LEMMA RemovesPlain ==
    ASSUME NEW s \in Plain, Agreed(s), NEW c \in Cid
    PROVE  LET t == Collections!Remove1(s, c) IN
           Agreed(t) /\ t.made = s.made /\ Elements(t.list) \subseteq Elements(s.list)
<1> DEFINE H == Elements(s.list)
           m == Collections!Get(s, s.id[c], c)
           n == Collections!Unkeyed(s.byId, {s.id[m], m})
           l == Collections!RemoveAt(s.list, Collections!IndexOf(s.list, m))
           t == [[s EXCEPT !.byId = n, !.list = l, !.length = @ - 1] EXCEPT !.heard[m] = 0]
<1>1. H \in SUBSET Cid /\ s.id[c] \in Ids /\ c \in Cid \cup {NULL}
  BY ElementsIn DEF Plain
<1>2. m = NULL \/ m \in H
  BY <1>1, GetIs DEF Agreed
<1>3. Collections!Remove1(s, c) = IF m = NULL THEN s ELSE t
  BY Zenon DEF Collections!Remove1, Collections!RemoveReference, Collections!Off
<1> HIDE DEF m
<1>4. CASE m = NULL
  BY <1>3, <1>4
<1>5. CASE m # NULL
  <2>1. m \in H /\ m \in Cid
    BY <1>1, <1>2, <1>5
  <2>2. l \in Seq(Cid) /\ Differ(l) /\ Len(l) = Len(s.list) - 1 /\ Elements(l) = H \ {m}
    BY <2>1, RemoveAtIs DEF Agreed
  <2> HIDE DEF l, n
  <2>3. /\ t.id = s.id /\ t.made = s.made /\ t.heard = [s.heard EXCEPT ![m] = 0] /\ t.byId = n
        /\ t.list = l /\ t.length = s.length - 1
    BY DEF Plain
  <2> HIDE DEF t
  <2>4. Knows(t, H \ {m})
    BY <1>1, <2>1, <2>3, KnowsLess DEF n, Agreed
  <2>5. Agreed(t)
    BY <2>2, <2>3, <2>4 DEF Agreed
  <2> QED BY <1>3, <1>5, <2>2, <2>3, <2>5
<1> QED BY <1>4, <1>5

\* Inside set, a model of the list is taken out that set has not seen.
LEMMA RemovesSeen ==
    ASSUME NEW s, NEW M, Seen(s, M), NEW c \in Elements(s.list), c \notin s.keep
    PROVE  LET t == Collections!Remove1(s, c) IN
           /\ Seen(t, M) /\ t.keep = s.keep /\ Elements(t.list) = Elements(s.list) \ {c}
           /\ t.toAdd = s.toAdd /\ t.order = s.order /\ t.made = s.made /\ t.id = s.id
<1> DEFINE H == Elements(s.list) \cup Elements(s.toAdd)
           n == Collections!Unkeyed(s.byId, {s.id[c], c})
           l == Collections!RemoveAt(s.list, Collections!IndexOf(s.list, c))
           u == [s EXCEPT !.byId = n, !.list = l, !.length = @ - 1]
           t == [u EXCEPT !.heard[c] = 0]
<1>1. s \in Work /\ s.list \in Seq(Cid) /\ s.toAdd \in Seq(Cid) /\ Knows(s, H) /\ Differ(s.list)
  BY DEF Seen, Work
<1>2. H \in SUBSET Cid /\ c \in H /\ c \in Cid /\ c \in Cid \cup {NULL}
  BY <1>1, ElementsIn
<1>3. s.id[c] \in Ids
  BY <1>1, <1>2 DEF Work
<1>4. Collections!Get(s, s.id[c], c) = c /\ c # NULL
  BY <1>1, <1>2, <1>3, GetIs, ModelParams
<1>5. Collections!Remove1(s, c) = t
  BY <1>4, Zenon DEF Collections!Remove1, Collections!RemoveReference, Collections!Off
<1>6. l \in Seq(Cid) /\ Differ(l) /\ Len(l) = Len(s.list) - 1 /\ Elements(l) = Elements(s.list) \ {c}
  BY <1>1, RemoveAtIs
<1> HIDE DEF l
<1>7. Indexed(s.byId, s.id, H) /\ s.byId \in Indexes /\ s.id \in [Cid -> Ids]
  BY <1>1 DEF Knows
<1>8. n \in Indexes
  BY <1>2, <1>7, IndexDrops
<1> HIDE DEF n
<1>9. /\ t.id = s.id /\ t.made = s.made /\ t.heard = [s.heard EXCEPT ![c] = 0] /\ t.byId = n
      /\ t.list = l /\ t.length = s.length - 1 /\ t.toAdd = s.toAdd /\ t.order = s.order /\ t.keep = s.keep
      /\ t \in Work
  <2>1. /\ u.id = s.id /\ u.made = s.made /\ u.heard = s.heard /\ u.byId = n
        /\ u.list = l /\ u.length = s.length - 1 /\ u.toAdd = s.toAdd /\ u.order = s.order /\ u.keep = s.keep
        /\ u \in Work
    <3>1. s \in Work /\ l \in Seq(Cid) /\ n \in Indexes
      BY <1>1, <1>6, <1>8
    <3> HIDE DEF H
    <3>2. s.length - 1 \in Int
      BY <3>1 DEF Work
    <3> DEFINE k == s.length - 1
    <3> HIDE DEF k
    <3>3. k \in Int /\ u = [s EXCEPT !.byId = n, !.list = l, !.length = k]
      BY <3>2 DEF k
    <3> HIDE DEF u
    <3> QED BY <3>1, <3>3 DEF Work, k
  <2> HIDE DEF u
  <2>2. /\ t.id = u.id /\ t.made = u.made /\ t.heard = [u.heard EXCEPT ![c] = 0] /\ t.byId = u.byId
        /\ t.list = u.list /\ t.length = u.length /\ t.toAdd = u.toAdd /\ t.order = u.order /\ t.keep = u.keep
    BY <2>1 DEF Work
  <2>3. t \in Work
    <3>1. 0 \in Nat
      OBVIOUS
    <3> QED BY <1>2, <2>1, <3>1 DEF Work
  <2> QED BY <2>1, <2>2, <2>3
<1> HIDE DEF t
<1>10. Knows(t, H \ {c})
  BY <1>1, <1>2, <1>9, KnowsLess DEF n
<1>11. c \notin Elements(s.toAdd)
  BY DEF Seen
<1>12. Elements(t.list) \cup Elements(t.toAdd) = H \ {c}
  BY <1>6, <1>9, <1>11
<1>13. Seen(t, M)
  BY <1>6, <1>9, <1>10, <1>11, <1>12 DEF Seen
<1> QED BY <1>5, <1>6, <1>9, <1>13

-----------------------------------------------------------------------------
(* set looks at what it was given                                          *)

\* A model is added to what set works on.
Prepared(t, c, i) ==
    [Collections!AddReference([t EXCEPT !.made = @ \cup {c}, !.id[c] = i], c)
        EXCEPT !.toAdd = Append(@, c), !.order = Append(@, c)]
LEMMA Prepares ==
    ASSUME NEW t, NEW M, Seen(t, M), NEW c \in Cid, NEW i \in Ids, i \notin DOMAIN t.byId,
           c \notin Elements(t.list) \cup Elements(t.toAdd), c \notin M
    PROVE  LET p == Prepared(t, c, i) IN
           /\ Seen(p, M) /\ p.list = t.list /\ p.made = t.made \cup {c}
           /\ DOMAIN p.byId = (DOMAIN t.byId \cup {c, i}) \ {NULL}
<1> DEFINE H == Elements(t.list) \cup Elements(t.toAdd)
           ids == [t.id EXCEPT ![c] = i]
           n == Collections!Keyed(Collections!Keyed(t.byId, c, c), i, c)
           h == [t.heard EXCEPT ![c] = @ + 1]
           adds == Append(t.toAdd, c)
           orders == Append(t.order, c)
           u == [t EXCEPT !.made = @ \cup {c}, !.id[c] = i]
           v == Collections!AddReference(u, c)
           p == Prepared(t, c, i)
<1>1. /\ t \in Work /\ t.list \in Seq(Cid) /\ t.toAdd \in Seq(Cid) /\ t.order \in Seq(Cid)
      /\ Knows(t, H) /\ t.made \subseteq Cid /\ t.id \in [Cid -> Ids] /\ t.heard \in [Cid -> Nat]
      /\ Differ(t.toAdd) /\ Differ(t.order) /\ c \notin H /\ t.byId \in Indexes
  BY DEF Seen, Work
<1>2. H \in SUBSET Cid
  BY <1>1, ElementsIn
<1>3. n \in Indexes /\ Indexed(n, ids, H \cup {c})
  BY <1>1, <1>2, IndexAdds DEF Knows
<1>4. DOMAIN n = (DOMAIN t.byId \cup {c, i}) \ {NULL}
  BY DEF Collections!Keyed
<1>5. ids \in [Cid -> Ids] /\ ids[c] = i /\ h \in [Cid -> Nat]
  BY <1>1
<1>6. c \notin Elements(t.order)
  BY <1>1 DEF Seen
<1>7. /\ adds \in Seq(Cid) /\ Differ(adds) /\ Elements(adds) = Elements(t.toAdd) \cup {c}
      /\ orders \in Seq(Cid) /\ Differ(orders) /\ Elements(orders) = Elements(t.order) \cup {c}
  BY <1>1, <1>6, AppendDiffers
<1>8. /\ u.id = ids /\ u.heard = t.heard /\ u.made = t.made \cup {c} /\ u.list = t.list
      /\ u.length = t.length /\ u.byId = t.byId /\ u.toAdd = t.toAdd /\ u.order = t.order
      /\ u.keep = t.keep /\ u \in Work
  <2> HIDE DEF H
  <2>1. u.id = ids
    BY <1>1 DEF Work
  <2>2. /\ u.heard = t.heard /\ u.made = t.made \cup {c} /\ u.list = t.list
        /\ u.length = t.length /\ u.byId = t.byId /\ u.toAdd = t.toAdd /\ u.order = t.order
        /\ u.keep = t.keep
    BY <1>1 DEF Work
  <2>3. u = [t EXCEPT !.made = t.made \cup {c}, !.id = ids]
    BY <1>1 DEF Work
  <2>4. t.made \cup {c} \in SUBSET Cid
    BY <1>1
  <2> DEFINE m == t.made \cup {c}
  <2> HIDE DEF u, m
  <2>5. u \in Work
    <3>1. u = [t EXCEPT !.made = m, !.id = ids] /\ m \in SUBSET Cid
      BY <2>3, <2>4 DEF m
    <3> HIDE DEF ids
    <3> QED BY <1>1, <1>5, <3>1 DEF Work
  <2> QED BY <2>1, <2>2, <2>5
<1> HIDE DEF u
<1>9. v = [[u EXCEPT !.heard[c] = @ + 1] EXCEPT !.byId = Collections!Keyed(Collections!Keyed(@, c, c), u.id[c], c)]
  BY Zenon DEF Collections!AddReference, Collections!On, v
<1>10. v = [u EXCEPT !.heard = h, !.byId = n]
  BY <1>5, <1>8, <1>9 DEF Work
<1>11. p = [v EXCEPT !.toAdd = Append(@, c), !.order = Append(@, c)]
  BY DEF u, v, Prepared
<1> HIDE DEF p, v, ids, h, n, adds, orders
<1>12. /\ v.id = ids /\ v.heard = h /\ v.made = t.made \cup {c} /\ v.list = t.list
       /\ v.length = t.length /\ v.byId = n /\ v.toAdd = t.toAdd /\ v.order = t.order
       /\ v.keep = t.keep /\ v \in Work
  BY <1>3, <1>5, <1>8, <1>10 DEF Work
<1>13. p = [v EXCEPT !.toAdd = adds, !.order = orders]
  BY <1>11, <1>12 DEF Work, adds, orders
<1>14. /\ p.id = ids /\ p.heard = h /\ p.made = t.made \cup {c} /\ p.list = t.list
       /\ p.length = t.length /\ p.byId = n /\ p.toAdd = adds /\ p.order = orders
       /\ p.keep = t.keep /\ p \in Work
  BY <1>7, <1>12, <1>13 DEF Work
<1>15. Elements(p.list) \cup Elements(p.toAdd) = H \cup {c}
  BY <1>7, <1>14
<1>16. h = [d \in Cid |-> IF d \in H \cup {c} THEN 1 ELSE 0]
  <2>1. t.heard = [d \in Cid |-> IF d \in H THEN 1 ELSE 0]
    BY <1>1 DEF Knows
  <2> HIDE DEF H
  <2> QED BY <1>1, <2>1 DEF h
<1>17. Knows(p, H \cup {c})
  BY <1>1, <1>3, <1>5, <1>14, <1>16 DEF Knows
<1>18. Seen(p, M)
  <2>1. Elements(p.list) \cap Elements(p.toAdd) = {}
    BY <1>1, <1>7, <1>14 DEF Seen
  <2>2. Elements(p.order) = p.keep \cup Elements(p.toAdd)
    BY <1>7, <1>14 DEF Seen
  <2>3. p.keep \subseteq Elements(p.list) \cup Elements(p.toAdd)
    BY <1>7, <1>14 DEF Seen
  <2>4. M \subseteq p.made /\ Elements(p.toAdd) \cap M = {}
    BY <1>7, <1>14 DEF Seen
  <2>5. Differ(p.list) /\ p.length = Len(p.list)
    BY <1>14 DEF Seen
  <2>6. Knows(p, Elements(p.list) \cup Elements(p.toAdd))
    BY <1>15, <1>17
  <2>7. Differ(p.toAdd) /\ Differ(p.order) /\ p \in Work
    BY <1>7, <1>14
  <2> QED BY <2>1, <2>2, <2>3, <2>4, <2>5, <2>6, <2>7 DEF Seen
<1> QED BY <1>4, <1>14, <1>18 DEF p

Named == [cid : Cid \cup {NULL}, id : Ids]

\* A model that is there is kept, another is added; for a hash without a model
\* there has to be one that is not made yet.
LEMMA SeesOne ==
    ASSUME NEW t, NEW M, Seen(t, M), NEW x \in Named,
           IF x.cid = NULL THEN x.id \notin DOMAIN t.byId => \E d \in Cid : d \notin t.made
           ELSE x.cid \notin M
    PROVE  LET p == Collections!Sees(t, x) IN
           /\ Seen(p, M) /\ p.list = t.list
           /\ DOMAIN t.byId \subseteq DOMAIN p.byId
           /\ x.id # NULL => x.id \in DOMAIN p.byId \/ x.cid # NULL
           /\ \/ p.made = t.made /\ p.byId = t.byId
              \/ /\ x.id \notin DOMAIN t.byId
                 /\ \E d \in Cid : (x.cid = NULL => d \notin t.made) /\ p.made = t.made \cup {d}
<1> DEFINE H == Elements(t.list) \cup Elements(t.toAdd)
           m == Collections!Get(t, x.id, x.cid)
           p == Collections!Sees(t, x)
           c == IF x.cid # NULL THEN x.cid ELSE CHOOSE d \in Cid : d \notin t.made
<1>1. /\ t \in Work /\ t.list \in Seq(Cid) /\ t.toAdd \in Seq(Cid) /\ t.order \in Seq(Cid)
      /\ Knows(t, H) /\ H \subseteq t.made /\ t.made \subseteq Cid /\ M \subseteq t.made /\ t.keep \subseteq Cid
      /\ Differ(t.order) /\ x.id \in Ids /\ x.cid \in Cid \cup {NULL}
  BY DEF Seen, Work, Knows, Named
<1>2. H \in SUBSET Cid
  BY <1>1
<1>3. \/ m = NULL /\ x.cid \notin H /\ x.id \notin DOMAIN t.byId
      \/ m \in H /\ m # NULL
  BY <1>1, <1>2, GetIs, ModelParams
<1>3a. x.id \in DOMAIN t.byId => m \in H /\ m # NULL
  BY <1>3
<1>4. NULL \notin DOMAIN t.byId
  BY <1>1 DEF Knows, Indexed
<1>5. CASE m = NULL
  <2>1. x.cid \notin H /\ x.id \notin DOMAIN t.byId
    BY <1>3, <1>5
  <2>2. c \in Cid /\ c \notin H /\ c \notin M /\ (x.cid = NULL => c \notin t.made)
    <3>1. CASE x.cid = NULL
      <4>1. \E d \in Cid : d \notin t.made
        BY <2>1, <3>1
      <4> QED BY <1>1, <3>1, <4>1
    <3>2. CASE x.cid # NULL
      BY <1>1, <2>1, <3>2
    <3> QED BY <3>1, <3>2
  <2>3. p = Prepared(t, c, x.id)
    BY <1>5, Zenon DEF Prepared, Collections!Sees, Collections!PrepareModel
  <2> HIDE DEF p, c, H
  <2>4. c \notin Elements(t.list) \cup Elements(t.toAdd)
    BY <2>2 DEF H
  <2>5. Seen(p, M) /\ p.list = t.list /\ p.made = t.made \cup {c}
        /\ DOMAIN p.byId = (DOMAIN t.byId \cup {c, x.id}) \ {NULL}
    BY <1>1, <2>1, <2>2, <2>3, <2>4, Prepares
  <2> QED BY <1>4, <2>1, <2>2, <2>5 DEF p
<1>6. CASE m # NULL
  <2> DEFINE kept == t.keep \cup {m}
             orders == IF m \in Elements(t.order) THEN t.order ELSE Append(t.order, m)
  <2>1. m \in H /\ m \in Cid
    BY <1>2, <1>3, <1>6
  <2>2. p = [t EXCEPT !.keep = kept, !.order = orders]
    <3>1. p = [t EXCEPT !.keep = @ \cup {m}, !.order = IF m \in Collections!Range(@) THEN @ ELSE Append(@, m)]
      BY <1>6, Zenon DEF Collections!Sees
    <3> QED BY <1>1, <3>1, RangeOf DEF Work
  <2>3. orders \in Seq(Cid) /\ Differ(orders) /\ Elements(orders) = Elements(t.order) \cup {m}
    BY <1>1, <2>1, AppendDiffers
  <2>4. kept \in SUBSET Cid
    BY <1>1, <2>1
  <2> HIDE DEF m, p, orders
  <2> DEFINE k == kept
  <2> HIDE DEF k
  <2>5. p = [t EXCEPT !.keep = k, !.order = orders] /\ k \in SUBSET Cid
    BY <2>2, <2>4 DEF k
  <2>6. /\ p.id = t.id /\ p.heard = t.heard /\ p.made = t.made /\ p.list = t.list
        /\ p.length = t.length /\ p.byId = t.byId /\ p.toAdd = t.toAdd /\ p.order = orders
        /\ p.keep = k /\ p \in Work
    <3> HIDE DEF H
    <3> QED BY <1>1, <2>3, <2>5 DEF Work
  <2>7. Knows(p, H)
    BY <1>1, <2>6 DEF Knows
  <2>8. Elements(p.order) = p.keep \cup Elements(p.toAdd)
    BY <2>3, <2>6 DEF k, Seen
  <2>9. p.keep \subseteq Elements(p.list) \cup Elements(p.toAdd)
    BY <2>1, <2>6 DEF k, Seen
  <2>10. Seen(p, M)
    BY <2>3, <2>6, <2>7, <2>8, <2>9 DEF Seen
  <2>11. x.id \in DOMAIN t.byId \/ x.cid # NULL
    BY <1>4, <1>6 DEF m, Collections!Get
  <2> QED BY <2>6, <2>10, <2>11 DEF p
<1> QED BY <1>5, <1>6

-----------------------------------------------------------------------------
(* What is done with one after the other.                                  *)

\* A set of numbers that holds 0 and, with a number, the next, holds all up to n.
LEMMA UpTo ==
    ASSUME NEW n \in Nat, NEW T, 0 \in T, \A k \in 0 .. n - 1 : k \in T => k + 1 \in T
    PROVE  \A k \in 0 .. n : k \in T
<1> DEFINE bad == {k \in 0 .. n : k \notin T}
           R == {ss \in Nat \X Nat : ss[1] < ss[2]}
<1> SUFFICES ASSUME bad # {} PROVE FALSE
  OBVIOUS
<1>1. IsWellFoundedOn(R, Nat)
  BY NatLessThanWellFounded DEF OpToRel
<1>2. bad \subseteq Nat
  OBVIOUS
<1>3. \A j, k \in Nat : j < k => <<j, k>> \in R
  OBVIOUS
<1> HIDE DEF R
<1>4. PICK k \in bad : \A j \in bad : <<j, k>> \notin R
  BY <1>1, <1>2, WFMin
<1>5. k \in Nat /\ k - 1 \in 0 .. n - 1 /\ k - 1 < k /\ k - 1 + 1 = k
  OBVIOUS
<1>6. k - 1 \notin bad
  <2>1. <<k - 1, k>> \in R
    BY <1>3, <1>5
  <2> QED BY <1>4, <2>1
<1> QED BY <1>5, <1>6

\* set looks at each it was given.
SeesAllSteps(s, xs) == CHOOSE f : f = [k \in 0 .. Len(xs) |-> IF k = 0 THEN s ELSE Collections!Sees(f[k - 1], xs[k])]
LEMMA SeesAllIs ==
    ASSUME NEW s, NEW xs, Len(xs) \in Nat
    PROVE  LET f == SeesAllSteps(s, xs) IN
           /\ f[0] = s /\ Collections!SeesAll(s, xs) = f[Len(xs)]
           /\ \A k \in 1 .. Len(xs) : f[k] = Collections!Sees(f[k - 1], xs[k])
<1> DEFINE n == Len(xs)
           Is(f, m) == f = [k \in 0 .. m |-> IF k = 0 THEN s ELSE Collections!Sees(f[k - 1], xs[k])]
           good == {m \in Nat : \E f : Is(f, m)}
<1>1. 0 \in good
  <2>1. Is([k \in 0 .. 0 |-> s], 0)
    OBVIOUS
  <2> QED BY <2>1
<1>2. ASSUME NEW j \in Nat, j \in good PROVE j + 1 \in good
  <2>1. PICK f : Is(f, j)
    BY <1>2
  <2> DEFINE last == Collections!Sees(f[j], xs[j + 1])
             g == [k \in 0 .. j + 1 |-> IF k = j + 1 THEN last ELSE f[k]]
  <2>2. \A k \in 0 .. j + 1 : g[k] = IF k = 0 THEN s ELSE Collections!Sees(g[k - 1], xs[k])
    <3>1. \A k \in 0 .. j : f[k] = IF k = 0 THEN s ELSE Collections!Sees(f[k - 1], xs[k])
      BY <2>1
    <3> HIDE DEF last
    <3>2. g[j + 1] = last /\ (\A k \in 0 .. j : g[k] = f[k])
      OBVIOUS
    <3> HIDE DEF g
    <3> SUFFICES ASSUME NEW k \in 0 .. j + 1
                 PROVE  g[k] = IF k = 0 THEN s ELSE Collections!Sees(g[k - 1], xs[k])
      OBVIOUS
    <3>3. CASE k = j + 1
      <4>1. k # 0 /\ k - 1 = j /\ j \in 0 .. j
        BY <3>3
      <4> QED BY <3>2, <3>3, <4>1 DEF last
    <3>4. CASE k \in 0 .. j
      <4>1. k # 0 => k - 1 \in 0 .. j
        BY <3>4
      <4> QED BY <3>1, <3>2, <3>4, <4>1
    <3> QED BY <3>3, <3>4
  <2>3. Is(g, j + 1)
    <3> HIDE DEF last
    <3>1. g = [k \in 0 .. j + 1 |-> g[k]]
      OBVIOUS
    <3> QED BY <2>2, <3>1, Zenon
  <2>4. j + 1 \in Nat
    OBVIOUS
  <2> HIDE DEF Is
  <2> QED BY <2>3, <2>4, Zenon
<1>3. n \in good
  <2>0. n \in Nat
    OBVIOUS
  <2>1. \A k \in 0 .. n - 1 : k \in Nat
    BY <2>0
  <2>2. n \in 0 .. n
    BY <2>0
  <2> HIDE DEF good, n
  <2>3. \A k \in 0 .. n : k \in good
    BY <1>1, <1>2, <2>0, <2>1, UpTo
  <2> QED BY <2>2, <2>3
<1> HIDE DEF good
<1>4. \E f : Is(f, n)
  BY <1>3, Zenon DEF good
<1> DEFINE F == SeesAllSteps(s, xs)
<1>5. \E f : f = [k \in 0 .. Len(xs) |-> IF k = 0 THEN s ELSE Collections!Sees(f[k - 1], xs[k])]
  BY <1>4, Zenon
<1>6. F = [k \in 0 .. Len(xs) |-> IF k = 0 THEN s ELSE Collections!Sees(F[k - 1], xs[k])]
  BY <1>5, Zenon DEF SeesAllSteps
<1>7. Collections!SeesAll(s, xs) = F[Len(xs)]
  BY Zenon DEF Collections!SeesAll, SeesAllSteps
<1> HIDE DEF F
<1>8. F[0] = s /\ \A k \in 1 .. Len(xs) : F[k] = Collections!Sees(F[k - 1], xs[k])
  <2>1. 0 \in 0 .. Len(xs) /\ (\A k \in 1 .. Len(xs) : k \in 0 .. Len(xs) /\ k # 0)
    OBVIOUS
  <2> QED BY <1>6, <2>1
<1> QED BY <1>7, <1>8 DEF F

\* set takes out each it has not seen.
RemovesSteps(t) == CHOOSE f : f = [k \in 0 .. Len(t.list) |-> IF k = 0 THEN t ELSE IF t.list[k] \in t.keep THEN f[k - 1] ELSE Collections!Remove1(f[k - 1], t.list[k])]
LEMMA RemovesIs ==
    ASSUME NEW t, Len(t.list) \in Nat
    PROVE  LET f == RemovesSteps(t) IN
           /\ f[0] = t /\ Collections!Removes(t) = f[Len(t.list)]
           /\ \A k \in 1 .. Len(t.list) : f[k] = IF t.list[k] \in t.keep THEN f[k - 1] ELSE Collections!Remove1(f[k - 1], t.list[k])
<1> DEFINE n == Len(t.list)
           Is(f, m) == f = [k \in 0 .. m |-> IF k = 0 THEN t ELSE IF t.list[k] \in t.keep THEN f[k - 1] ELSE Collections!Remove1(f[k - 1], t.list[k])]
           good == {m \in Nat : \E f : Is(f, m)}
<1>1. 0 \in good
  <2>1. Is([k \in 0 .. 0 |-> t], 0)
    OBVIOUS
  <2> QED BY <2>1
<1>2. ASSUME NEW j \in Nat, j \in good PROVE j + 1 \in good
  <2>1. PICK f : Is(f, j)
    BY <1>2
  <2> DEFINE last == IF t.list[j + 1] \in t.keep THEN f[j] ELSE Collections!Remove1(f[j], t.list[j + 1])
             g == [k \in 0 .. j + 1 |-> IF k = j + 1 THEN last ELSE f[k]]
  <2>2. \A k \in 0 .. j + 1 : g[k] = IF k = 0 THEN t ELSE IF t.list[k] \in t.keep THEN g[k - 1] ELSE Collections!Remove1(g[k - 1], t.list[k])
    <3>1. \A k \in 0 .. j : f[k] = IF k = 0 THEN t ELSE IF t.list[k] \in t.keep THEN f[k - 1] ELSE Collections!Remove1(f[k - 1], t.list[k])
      BY <2>1
    <3> HIDE DEF last
    <3>2. g[j + 1] = last /\ (\A k \in 0 .. j : g[k] = f[k])
      OBVIOUS
    <3> HIDE DEF g
    <3> SUFFICES ASSUME NEW k \in 0 .. j + 1
                 PROVE  g[k] = IF k = 0 THEN t ELSE IF t.list[k] \in t.keep THEN g[k - 1] ELSE Collections!Remove1(g[k - 1], t.list[k])
      OBVIOUS
    <3>3. CASE k = j + 1
      <4>1. k # 0 /\ k - 1 = j /\ j \in 0 .. j
        BY <3>3
      <4> QED BY <3>2, <3>3, <4>1 DEF last
    <3>4. CASE k \in 0 .. j
      <4>1. k # 0 => k - 1 \in 0 .. j
        BY <3>4
      <4> QED BY <3>1, <3>2, <3>4, <4>1
    <3> QED BY <3>3, <3>4
  <2>3. Is(g, j + 1)
    <3> HIDE DEF last
    <3>1. g = [k \in 0 .. j + 1 |-> g[k]]
      OBVIOUS
    <3> QED BY <2>2, <3>1, Zenon
  <2>4. j + 1 \in Nat
    OBVIOUS
  <2> HIDE DEF Is
  <2> QED BY <2>3, <2>4, Zenon
<1>3. n \in good
  <2>0. n \in Nat
    OBVIOUS
  <2>1. \A k \in 0 .. n - 1 : k \in Nat
    BY <2>0
  <2>2. n \in 0 .. n
    BY <2>0
  <2> HIDE DEF good, n
  <2>3. \A k \in 0 .. n : k \in good
    BY <1>1, <1>2, <2>0, <2>1, UpTo
  <2> QED BY <2>2, <2>3
<1> HIDE DEF good
<1>4. \E f : Is(f, n)
  BY <1>3, Zenon DEF good
<1> DEFINE F == RemovesSteps(t)
<1>5. \E f : f = [k \in 0 .. Len(t.list) |-> IF k = 0 THEN t ELSE IF t.list[k] \in t.keep THEN f[k - 1] ELSE Collections!Remove1(f[k - 1], t.list[k])]
  BY <1>4, Zenon
<1>6. F = [k \in 0 .. Len(t.list) |-> IF k = 0 THEN t ELSE IF t.list[k] \in t.keep THEN F[k - 1] ELSE Collections!Remove1(F[k - 1], t.list[k])]
  BY <1>5, Zenon DEF RemovesSteps
<1>7. Collections!Removes(t) = F[Len(t.list)]
  BY Zenon DEF Collections!Removes, RemovesSteps
<1> HIDE DEF F
<1>8. F[0] = t /\ \A k \in 1 .. Len(t.list) : F[k] = IF t.list[k] \in t.keep THEN F[k - 1] ELSE Collections!Remove1(F[k - 1], t.list[k])
  <2>1. 0 \in 0 .. Len(t.list) /\ (\A k \in 1 .. Len(t.list) : k \in 0 .. Len(t.list) /\ k # 0)
    OBVIOUS
  <2> QED BY <1>6, <2>1
<1> QED BY <1>7, <1>8 DEF F

-----------------------------------------------------------------------------
(* set                                                                     *)

\* There is a model for each id of G that no model has.
Enough(t, G) == Cardinality(Cid \ t.made) >= Cardinality(G \ DOMAIN t.byId)

LEMMA SeesHash ==
    ASSUME NEW t, NEW M, Seen(t, M), NEW G \in SUBSET (1 .. MaxId), Enough(t, G),
           NEW x \in Named, x.cid = NULL, x.id \in G
    PROVE  LET p == Collections!Sees(t, x) IN Seen(p, M) /\ p.list = t.list /\ Enough(p, G)
<1> DEFINE p == Collections!Sees(t, x)
           A == Cid \ t.made
           B == G \ DOMAIN t.byId
           A2 == Cid \ p.made
           B2 == G \ DOMAIN p.byId
<1>1. /\ IsFiniteSet(A) /\ IsFiniteSet(B) /\ x.id # NULL
      /\ MaxId \in Nat
  <2>1. IsFiniteSet(Cid) /\ IsFiniteSet(1 .. MaxId) /\ x.id # NULL
    <3>1. IsFiniteSet(Cid) /\ MaxId \in Int /\ 1 \in Int
      BY ModelParams
    <3>2. x.id \in 1 .. MaxId
      OBVIOUS
    <3>3. x.id # NULL
      BY <3>2, ModelParams
    <3> QED BY <3>1, <3>3, FS_Interval
  <2>2. A \subseteq Cid /\ B \subseteq 1 .. MaxId
    OBVIOUS
  <2> QED BY <2>1, <2>2, FS_Subset, ModelParams
<1>2. Cardinality(A) \in Nat /\ Cardinality(B) \in Nat
  BY <1>1, FS_CardinalityType
<1>3. Cardinality(A) >= Cardinality(B)
  BY DEF Enough
<1>4. ASSUME x.id \notin DOMAIN t.byId PROVE \E d \in Cid : d \notin t.made
  <2>1. B # {}
    BY <1>4
  <2>2. Cardinality(B) # 0
    BY <1>1, <2>1, FS_EmptySet
  <2>3. A # {}
    BY <1>1, <1>2, <1>3, <2>2, FS_EmptySet
  <2> QED BY <2>3
<1>5. /\ Seen(p, M) /\ p.list = t.list
      /\ DOMAIN t.byId \subseteq DOMAIN p.byId
      /\ x.id # NULL => x.id \in DOMAIN p.byId \/ x.cid # NULL
      /\ \/ p.made = t.made /\ p.byId = t.byId
         \/ /\ x.id \notin DOMAIN t.byId
            /\ \E d \in Cid : (x.cid = NULL => d \notin t.made) /\ p.made = t.made \cup {d}
  BY <1>4, SeesOne
<1> HIDE DEF p
<1>6. CASE p.made = t.made /\ p.byId = t.byId
  <2>1. Enough(p, G)
    BY <1>6 DEF Enough
  <2> QED BY <1>5, <2>1 DEF p
<1>7. CASE /\ x.id \notin DOMAIN t.byId
           /\ \E d \in Cid : (x.cid = NULL => d \notin t.made) /\ p.made = t.made \cup {d}
  <2>1. PICK d \in Cid : d \notin t.made /\ p.made = t.made \cup {d}
    BY <1>7
  <2>2. A2 = A \ {d} /\ d \in A
    BY <2>1
  <2>3. Cardinality(A2) = Cardinality(A) - 1
    <3> HIDE DEF A, A2
    <3> QED BY <1>1, <2>2, FS_RemoveElement
  <2>4. x.id \in B /\ B2 \subseteq B \ {x.id}
    BY <1>1, <1>5, <1>7
  <2>5. Cardinality(B \ {x.id}) = Cardinality(B) - 1 /\ IsFiniteSet(B \ {x.id})
    BY <1>1, <2>4, FS_RemoveElement
  <2>6. Cardinality(B2) <= Cardinality(B \ {x.id}) /\ IsFiniteSet(B2)
    BY <2>4, <2>5, FS_Subset
  <2>7. Cardinality(B2) \in Nat
    BY <2>6, FS_CardinalityType
  <2>8. Cardinality(A2) >= Cardinality(B2)
    BY <1>2, <1>3, <2>3, <2>5, <2>6, <2>7
  <2>9. Enough(p, G)
    BY <2>8 DEF Enough
  <2> QED BY <1>5, <2>9 DEF p
<1> QED BY <1>5, <1>6, <1>7

LEMMA SeesHashes ==
    ASSUME NEW t, NEW M, Seen(t, M), NEW xs \in Seq(Named), NEW G \in SUBSET (1 .. MaxId), Enough(t, G),
           \A k \in DOMAIN xs : xs[k].cid = NULL /\ xs[k].id \in G
    PROVE  LET p == Collections!SeesAll(t, xs) IN Seen(p, M) /\ p.list = t.list
<1> DEFINE n == Len(xs)
<1>1. n \in Nat /\ DOMAIN xs = 1 .. n
  OBVIOUS
<1> DEFINE f == SeesAllSteps(t, xs)
<1>2. /\ f[0] = t /\ Collections!SeesAll(t, xs) = f[n]
      /\ \A k \in 1 .. n : f[k] = Collections!Sees(f[k - 1], xs[k])
  BY <1>1, SeesAllIs
<1> HIDE DEF f
<1> DEFINE T == {k \in 0 .. n : Seen(f[k], M) /\ f[k].list = t.list /\ Enough(f[k], G)}
<1> HIDE DEF n
<1>3. 0 \in T
  BY <1>1, <1>2
<1>4. ASSUME NEW k \in 0 .. n - 1, k \in T PROVE k + 1 \in T
  <2>1. k + 1 \in 1 .. n /\ k + 1 \in 0 .. n /\ k + 1 - 1 = k
    BY <1>1
  <2> DEFINE x == xs[k + 1]
  <2>2. x \in Named /\ x.cid = NULL /\ x.id \in G
    BY <1>1, <2>1 DEF n
  <2>3. f[k + 1] = Collections!Sees(f[k], x)
    BY <1>2, <2>1
  <2> HIDE DEF x
  <2>4. Seen(f[k], M) /\ f[k].list = t.list /\ Enough(f[k], G)
    BY <1>4
  <2>5. Seen(f[k + 1], M) /\ f[k + 1].list = f[k].list /\ Enough(f[k + 1], G)
    BY <2>2, <2>3, <2>4, SeesHash
  <2> QED BY <2>1, <2>4, <2>5
<1> HIDE DEF T
<1>5. n \in T
  <2>1. \A k \in 0 .. n : k \in T
    BY <1>1, <1>3, <1>4, UpTo
  <2> QED BY <1>1, <2>1
<1> QED BY <1>2, <1>5 DEF T

\* set of one model.
LEMMA SeesModel ==
    ASSUME NEW t, NEW M, Seen(t, M), NEW x \in Named, x.cid \in Cid \ M
    PROVE  LET p == Collections!SeesAll(t, <<x>>) IN Seen(p, M) /\ p.list = t.list
<1>1. Len(<<x>>) = 1 /\ <<x>>[1] = x /\ 1 \in Nat /\ 1 - 1 = 0 /\ 1 \in 1 .. 1
  OBVIOUS
<1> DEFINE xs == <<x>>
           f == SeesAllSteps(t, xs)
<1> HIDE DEF xs
<1>2. /\ f[0] = t /\ Collections!SeesAll(t, xs) = f[1]
      /\ \A k \in 1 .. 1 : f[k] = Collections!Sees(f[k - 1], xs[k])
  <2>0. Len(xs) = 1
    BY <1>1 DEF xs
  <2>1. Len(xs) \in Nat
    BY <2>0
  <2>2. /\ f[0] = t /\ Collections!SeesAll(t, xs) = f[Len(xs)]
        /\ \A k \in 1 .. Len(xs) : f[k] = Collections!Sees(f[k - 1], xs[k])
    BY <2>1, SeesAllIs
  <2> HIDE DEF f
  <2> QED BY <2>0, <2>2
<1> HIDE DEF f
<1>3. Collections!SeesAll(t, <<x>>) = Collections!Sees(t, x)
  BY <1>1, <1>2 DEF xs
<1>4. x.cid # NULL
  BY ModelParams
<1> QED BY <1>3, <1>4, SeesOne

\* After remove the list holds what set has seen of it.
LEMMA RemovesAll ==
    ASSUME NEW t, NEW M, Seen(t, M)
    PROVE  LET u == Collections!Removes(t) IN
           /\ Seen(u, M) /\ Elements(u.list) \subseteq u.keep /\ u.order = t.order
           /\ Elements(u.list) \subseteq Elements(t.list) /\ u.toAdd = t.toAdd
<1> DEFINE n == Len(t.list)
<1>1. t.list \in Seq(Cid) /\ Differ(t.list)
  BY DEF Seen, Work
<1>2. n \in Nat /\ DOMAIN t.list = 1 .. n
  BY <1>1
<1> DEFINE f == RemovesSteps(t)
<1>3. /\ f[0] = t /\ Collections!Removes(t) = f[n]
      /\ \A k \in 1 .. n : f[k] = IF t.list[k] \in t.keep THEN f[k - 1] ELSE Collections!Remove1(f[k - 1], t.list[k])
  BY <1>2, RemovesIs
<1> HIDE DEF f
<1> DEFINE T == {k \in 0 .. n :
                    /\ Seen(f[k], M) /\ f[k].keep = t.keep /\ f[k].order = t.order /\ f[k].toAdd = t.toAdd
                    /\ \A c : c \in Elements(f[k].list) <=>
                           \E i \in 1 .. n : c = t.list[i] /\ (i > k \/ c \in t.keep)}
<1> HIDE DEF n
<1>4. 0 \in T
  <2>1. \A c : c \in Elements(t.list) <=> \E i \in 1 .. n : c = t.list[i]
    BY <1>2 DEF Elements
  <2>2. \A i \in 1 .. n : i > 0
    BY <1>2
  <2>3. 0 \in 0 .. n
    BY <1>2
  <2> QED BY <1>3, <2>1, <2>2, <2>3
<1>5. ASSUME NEW k \in 0 .. n - 1, k \in T PROVE k + 1 \in T
  <2>1. k + 1 \in 1 .. n /\ k + 1 \in 0 .. n /\ k + 1 - 1 = k /\ k + 1 > k
        /\ (\A i \in 1 .. n : i > k <=> i = k + 1 \/ i > k + 1)
    BY <1>2
  <2>2. /\ Seen(f[k], M) /\ f[k].keep = t.keep /\ f[k].order = t.order /\ f[k].toAdd = t.toAdd
        /\ \A c : c \in Elements(f[k].list) <=>
               \E i \in 1 .. n : c = t.list[i] /\ (i > k \/ c \in t.keep)
    BY <1>5
  <2> DEFINE c == t.list[k + 1]
  <2>3. f[k + 1] = IF c \in t.keep THEN f[k] ELSE Collections!Remove1(f[k], c)
    BY <1>3, <2>1
  <2>4. c \in Elements(f[k].list)
    BY <2>1, <2>2
  <2>5. \A i \in 1 .. n : i # k + 1 => t.list[i] # c
    BY <1>1, <1>2, <2>1 DEF Differ
  <2> HIDE DEF c
  <2>6. CASE c \in t.keep
    <3>1. f[k + 1] = f[k]
      BY <2>3, <2>6
    <3>2. \A d : d \in Elements(f[k + 1].list) <=>
               \E i \in 1 .. n : d = t.list[i] /\ (i > k + 1 \/ d \in t.keep)
      <4> SUFFICES ASSUME NEW d, NEW i \in 1 .. n, d = t.list[i]
                   PROVE  i > k \/ d \in t.keep <=> i > k + 1 \/ d \in t.keep
        BY <2>2, <3>1
      <4> QED BY <2>1, <2>6 DEF c
    <3> QED BY <2>1, <2>2, <3>1, <3>2
  <2>7. CASE c \notin t.keep
    <3>1. f[k + 1] = Collections!Remove1(f[k], c)
      BY <2>3, <2>7
    <3>2. /\ Seen(f[k + 1], M) /\ f[k + 1].keep = t.keep /\ Elements(f[k + 1].list) = Elements(f[k].list) \ {c}
          /\ f[k + 1].toAdd = t.toAdd /\ f[k + 1].order = t.order
      BY <2>2, <2>4, <2>7, <3>1, RemovesSeen
    <3>3. \A d : d \in Elements(f[k + 1].list) <=>
               \E i \in 1 .. n : d = t.list[i] /\ (i > k + 1 \/ d \in t.keep)
      <4>1. ASSUME NEW d, NEW i \in 1 .. n, d = t.list[i]
            PROVE  (i > k \/ d \in t.keep) /\ d # c <=> i > k + 1 \/ d \in t.keep
        BY <1>2, <2>1, <2>5, <2>7, <4>1 DEF c
      <4> QED BY <2>2, <3>2, <4>1
    <3> QED BY <2>1, <3>2, <3>3
  <2> QED BY <2>6, <2>7
<1> HIDE DEF T
<1>6. n \in T
  <2>1. \A k \in 0 .. n : k \in T
    BY <1>2, <1>4, <1>5, UpTo
  <2> QED BY <1>2, <2>1
<1> DEFINE u == f[n]
<1>7. /\ Seen(u, M) /\ u.keep = t.keep /\ u.order = t.order /\ u.toAdd = t.toAdd
      /\ \A c : c \in Elements(u.list) <=> \E i \in 1 .. n : c = t.list[i] /\ (i > n \/ c \in t.keep)
  BY <1>6 DEF T
<1> HIDE DEF u
<1>8. \A c \in Elements(u.list) : c \in t.keep /\ c \in Elements(t.list)
  <2> SUFFICES ASSUME NEW c \in Elements(u.list) PROVE c \in t.keep /\ c \in Elements(t.list)
    OBVIOUS
  <2>1. PICK i \in 1 .. n : c = t.list[i] /\ (i > n \/ c \in t.keep)
    BY <1>7, Zenon
  <2>2. c \in t.keep
    BY <1>2, <2>1
  <2>3. c \in Elements(t.list)
    BY <1>2, <2>1, Zenon DEF Elements
  <2> QED BY <2>2, <2>3
<1> QED BY <1>3, <1>7, <1>8 DEF u

\* Putting together sequences that share nothing, and taking one apart.
LEMMA ConcatDiffers ==
    ASSUME NEW p \in Seq(Cid), NEW q \in Seq(Cid), Differ(p), Differ(q), Elements(p) \cap Elements(q) = {}
    PROVE  LET d == p \o q IN
           /\ d \in Seq(Cid) /\ Differ(d) /\ Len(d) = Len(p) + Len(q)
           /\ Elements(d) = Elements(p) \cup Elements(q)
<1> DEFINE d == p \o q
           m == Len(p)
           n == Len(q)
<1>1. /\ m \in Nat /\ n \in Nat /\ DOMAIN p = 1 .. m /\ DOMAIN q = 1 .. n
      /\ d \in Seq(Cid) /\ Len(d) = m + n
      /\ \A k \in 1 .. m + n : d[k] = IF k <= m THEN p[k] ELSE q[k - m]
  <2>1. d \in Seq(Cid) /\ Len(d) = Len(p) + Len(q)
        /\ \A k \in 1 .. Len(p) + Len(q) : d[k] = IF k <= Len(p) THEN p[k] ELSE q[k - Len(p)]
    BY ConcatProperties
  <2> QED BY <2>1
<1>2. DOMAIN d = 1 .. m + n
  BY <1>1
<1> HIDE DEF d, m, n
<1>3. \A i \in DOMAIN p, j \in DOMAIN q : p[i] # q[j]
  BY DEF Elements
<1>4. ASSUME NEW i \in DOMAIN d, NEW j \in DOMAIN d, i # j PROVE d[i] # d[j]
  <2>1. CASE i <= m /\ j <= m
    <3>1. i \in DOMAIN p /\ j \in DOMAIN p /\ d[i] = p[i] /\ d[j] = p[j]
      BY <1>1, <1>2, <2>1
    <3> QED BY <1>4, <3>1 DEF Differ
  <2>2. CASE i <= m /\ ~(j <= m)
    <3>1. i \in DOMAIN p /\ j - m \in DOMAIN q /\ d[i] = p[i] /\ d[j] = q[j - m]
      BY <1>1, <1>2, <2>2
    <3> QED BY <1>3, <3>1
  <2>3. CASE ~(i <= m) /\ j <= m
    <3>1. i - m \in DOMAIN q /\ j \in DOMAIN p /\ d[i] = q[i - m] /\ d[j] = p[j]
      BY <1>1, <1>2, <2>3
    <3> QED BY <1>3, <3>1
  <2>4. CASE ~(i <= m) /\ ~(j <= m)
    <3>1. i - m \in DOMAIN q /\ j - m \in DOMAIN q /\ i - m # j - m /\ d[i] = q[i - m] /\ d[j] = q[j - m]
      BY <1>1, <1>2, <1>4, <2>4
    <3> QED BY <3>1 DEF Differ
  <2> QED BY <2>1, <2>2, <2>3, <2>4
<1>5. ASSUME NEW k \in DOMAIN d PROVE d[k] \in Elements(p) \cup Elements(q)
  <2>1. CASE k <= m
    <3>1. k \in DOMAIN p /\ d[k] = p[k]
      BY <1>1, <1>2, <2>1
    <3> QED BY <3>1 DEF Elements
  <2>2. CASE ~(k <= m)
    <3>1. k - m \in DOMAIN q /\ d[k] = q[k - m]
      BY <1>1, <1>2, <2>2
    <3> QED BY <3>1 DEF Elements
  <2> QED BY <2>1, <2>2
<1>6. ASSUME NEW k \in DOMAIN p PROVE k \in DOMAIN d /\ d[k] = p[k]
  BY <1>1, <1>2
<1>7. ASSUME NEW k \in DOMAIN q PROVE k + m \in DOMAIN d /\ d[k + m] = q[k]
  <2>1. k + m \in 1 .. m + n /\ ~(k + m <= m) /\ (k + m) - m = k
    BY <1>1
  <2> QED BY <1>1, <1>2, <2>1
<1>8. Elements(d) = Elements(p) \cup Elements(q)
  BY <1>5, <1>6, <1>7 DEF Elements
<1>9. Differ(d)
  BY <1>4 DEF Differ
<1> QED BY <1>1, <1>8, <1>9 DEF d, m, n

LEMMA SplitDiffers ==
    ASSUME NEW q \in Seq(Cid), Differ(q), NEW at \in 0 .. Len(q)
    PROVE  LET a == SubSeq(q, 1, at)
               b == SubSeq(q, at + 1, Len(q))
           IN  /\ a \in Seq(Cid) /\ b \in Seq(Cid) /\ Differ(a) /\ Differ(b)
               /\ Elements(a) \cap Elements(b) = {} /\ Elements(a) \cup Elements(b) = Elements(q)
               /\ Len(a) + Len(b) = Len(q)
<1> DEFINE n == Len(q)
           a == SubSeq(q, 1, at)
           b == SubSeq(q, at + 1, Len(q))
<1>1. n \in Nat /\ (\A k \in 1 .. n : q[k] \in Cid) /\ at \in Nat /\ at <= n
  BY ElementOfSeq
<1>2. a \in Seq(Cid) /\ Len(a) = at /\ (\A k \in 1 .. at : a[k] = q[k])
  BY <1>1, SubSeqProperties
<1>3. b \in Seq(Cid) /\ Len(b) = n - at /\ (\A k \in 1 .. n - at : b[k] = q[at + k])
  BY <1>1, SubSeqProperties
<1>4. DOMAIN a = 1 .. at /\ DOMAIN b = 1 .. n - at /\ DOMAIN q = 1 .. n /\ n - at \in Nat
  <2>1. DOMAIN a = 1 .. Len(a)
    BY <1>2
  <2>2. DOMAIN b = 1 .. Len(b)
    BY <1>3
  <2> HIDE DEF a, b
  <2> QED BY <1>1, <1>2, <1>3, <2>1, <2>2
<1>4a. \A k \in 1 .. n - at : at + k \in 1 .. n /\ k \in Int
  BY <1>1
<1>4b. ASSUME NEW k \in DOMAIN b PROVE at + k \in DOMAIN q /\ b[k] = q[at + k] /\ k \in Int /\ at + k > at
  <2>1. k \in 1 .. n - at /\ k > 0
    BY <1>4
  <2>2. at + k \in 1 .. n /\ b[k] = q[at + k] /\ k \in Int
    BY <1>3, <1>4a, <2>1
  <2> QED BY <1>1, <1>4, <2>1, <2>2
<1>4c. ASSUME NEW k \in DOMAIN a PROVE k \in DOMAIN q /\ a[k] = q[k] /\ k \in Int /\ k <= at
  BY <1>1, <1>2, <1>4
<1> HIDE DEF a, b, n
<1>5. Differ(a)
  BY <1>1, <1>2, <1>4 DEF Differ
<1>6. Differ(b)
  <2> SUFFICES ASSUME NEW i \in DOMAIN b, NEW j \in DOMAIN b, i # j PROVE b[i] # b[j]
    BY DEF Differ
  <2>1. b[i] = q[at + i] /\ b[j] = q[at + j] /\ at + i \in DOMAIN q /\ at + j \in DOMAIN q /\ at + i # at + j
    BY <1>1, <1>4b
  <2> QED BY <2>1 DEF Differ
<1>7. Elements(a) \cap Elements(b) = {}
  <2>1. ASSUME NEW i \in DOMAIN a, NEW j \in DOMAIN b PROVE a[i] # b[j]
    <3>1. a[i] = q[i] /\ b[j] = q[at + j] /\ i \in DOMAIN q /\ at + j \in DOMAIN q /\ i # at + j
      BY <1>1, <1>4b, <1>4c
    <3> QED BY <3>1 DEF Differ
  <2> QED BY <2>1 DEF Elements
<1>8. ASSUME NEW k \in DOMAIN q PROVE q[k] \in Elements(a) \cup Elements(b)
  <2>1. CASE k <= at
    <3>1. k \in DOMAIN a /\ a[k] = q[k]
      BY <1>1, <1>2, <1>4, <2>1
    <3> QED BY <3>1 DEF Elements
  <2>2. CASE ~(k <= at)
    <3>1. k - at \in 1 .. n - at /\ at + (k - at) = k
      BY <1>1, <1>4, <2>2
    <3>2. k - at \in DOMAIN b /\ b[k - at] = q[k]
      BY <1>3, <1>4, <3>1
    <3> QED BY <3>2 DEF Elements
  <2> QED BY <2>1, <2>2
<1>9. (\A k \in DOMAIN a : k \in DOMAIN q /\ a[k] = q[k]) /\ (\A k \in DOMAIN b : at + k \in DOMAIN q /\ b[k] = q[at + k])
  BY <1>4b, <1>4c
<1>10. Elements(a) \cup Elements(b) = Elements(q)
  BY <1>8, <1>9 DEF Elements
<1>11. Len(a) + Len(b) = n
  BY <1>1, <1>2, <1>3
<1> QED BY <1>2, <1>3, <1>5, <1>6, <1>7, <1>10, <1>11 DEF a, b, n

\* As many as are in the sequence, when they differ.
LEMMA CountOf ==
    ASSUME NEW q \in Seq(Cid), Differ(q)
    PROVE  Cardinality(Elements(q)) = Len(q)
<1>1. Len(q) \in Nat /\ DOMAIN q = 1 .. Len(q)
  OBVIOUS
<1>2. q \in Bijection(1 .. Len(q), Elements(q))
  <2>1. q \in [1 .. Len(q) -> Elements(q)]
    BY <1>1 DEF Elements
  <2>2. IsInjective(q)
    BY DEF Differ, IsInjective
  <2>3. \A c \in Elements(q) : \E k \in 1 .. Len(q) : q[k] = c
    BY <1>1 DEF Elements
  <2> QED BY <2>1, <2>2, <2>3 DEF Bijection, Injection, Surjection
<1>3. ExistsBijection(1 .. Len(q), Elements(q))
  BY <1>2 DEF ExistsBijection
<1> QED BY <1>1, <1>3, FS_CountingElements

\* What set has seen becomes the list, or is added to it.
LEMMA SplicedIs ==
    ASSUME NEW u, NEW M, Seen(u, M), NEW at \in 0 .. Len(u.list), NEW remove \in BOOLEAN,
           remove => Elements(u.list) \subseteq u.keep
    PROVE  LET s == Collections!Spliced(u, at, remove) IN
           Agreed(s) /\ M \subseteq s.made /\ Elements(s.list) \cap M \subseteq Elements(u.list)
<1> DEFINE q == u.list
           a == SubSeq(q, 1, at)
           b == SubSeq(q, at + 1, Len(q))
           c == a \o u.toAdd
           d == c \o b
           l == IF remove /\ u.order # <<>> THEN u.order ELSE d
           s == Collections!Spliced(u, at, remove)
           H == Elements(q) \cup Elements(u.toAdd)
<1>1. /\ u \in Work /\ q \in Seq(Cid) /\ u.toAdd \in Seq(Cid) /\ u.order \in Seq(Cid)
      /\ Differ(q) /\ Differ(u.toAdd) /\ Differ(u.order) /\ u.length = Len(q)
      /\ Elements(q) \cap Elements(u.toAdd) = {} /\ Elements(u.order) = u.keep \cup Elements(u.toAdd)
      /\ u.keep \subseteq H /\ M \subseteq u.made /\ Elements(u.toAdd) \cap M = {} /\ Knows(u, H)
  BY DEF Seen, Work
<1>2. /\ a \in Seq(Cid) /\ b \in Seq(Cid) /\ Differ(a) /\ Differ(b)
      /\ Elements(a) \cap Elements(b) = {} /\ Elements(a) \cup Elements(b) = Elements(q)
      /\ Len(a) + Len(b) = Len(q)
  BY <1>1, SplitDiffers
<1> HIDE DEF a, b
<1>3. c \in Seq(Cid) /\ Differ(c) /\ Len(c) = Len(a) + Len(u.toAdd) /\ Elements(c) = Elements(a) \cup Elements(u.toAdd)
  <2>1. Elements(a) \cap Elements(u.toAdd) = {}
    BY <1>1, <1>2
  <2> QED BY <1>1, <1>2, <2>1, ConcatDiffers
<1> HIDE DEF c
<1>4. d \in Seq(Cid) /\ Differ(d) /\ Len(d) = Len(c) + Len(b) /\ Elements(d) = Elements(c) \cup Elements(b)
  <2>1. Elements(c) \cap Elements(b) = {}
    BY <1>1, <1>2, <1>3
  <2> QED BY <1>2, <1>3, <2>1, ConcatDiffers
<1> HIDE DEF d
<1>5. Elements(d) = H /\ Len(d) = Len(q) + Len(u.toAdd)
  <2>1. Elements(d) = H
    BY <1>2, <1>3, <1>4
  <2>2. Len(a) \in Nat /\ Len(b) \in Nat /\ Len(q) \in Nat /\ Len(u.toAdd) \in Nat
    BY <1>1, <1>2
  <2>3. Len(d) = Len(q) + Len(u.toAdd)
    <3>1. Len(d) = Len(c) + Len(b) /\ Len(c) = Len(a) + Len(u.toAdd) /\ Len(a) + Len(b) = Len(q)
      BY <1>2, <1>3, <1>4
    <3> HIDE DEF q
    <3> QED BY <2>2, <3>1
  <2> QED BY <2>1, <2>3
<1>6. l \in Seq(Cid) /\ Differ(l) /\ Elements(l) = H /\ Len(l) = Len(q) + Len(u.toAdd)
  <2>1. CASE remove /\ u.order # <<>>
    <3>1. Elements(u.order) = H
      BY <1>1, <2>1
    <3>2. Len(u.order) = Len(d)
      BY <1>1, <1>4, <1>5, <3>1, CountOf
    <3> QED BY <1>1, <1>5, <2>1, <3>1, <3>2
  <2>2. CASE ~(remove /\ u.order # <<>>)
    BY <1>4, <1>5, <2>2
  <2> QED BY <2>1, <2>2
<1>7. s = [u EXCEPT !.length = @ + Len(u.toAdd), !.list = l]
  BY <1>1 DEF Collections!Spliced, Work, a, b, c, d
<1> HIDE DEF l, s, H, q
<1>8. s.list = l /\ s.length = u.length + Len(u.toAdd) /\ s.id = u.id /\ s.made = u.made /\ s.heard = u.heard /\ s.byId = u.byId
  BY <1>1, <1>7 DEF Work
<1>9. Agreed(s)
  BY <1>1, <1>6, <1>8 DEF Agreed, Knows
<1>10. Elements(s.list) \cap M \subseteq Elements(q)
  BY <1>1, <1>6, <1>8 DEF H
<1> QED BY <1>1, <1>8, <1>9, <1>10 DEF s, q

LEMMA WorkingIs ==
    ASSUME NEW s, Agreed(s), NEW M, M \subseteq s.made
    PROVE  LET t == Collections!Working(s) IN
           Seen(t, M) /\ t.list = s.list /\ t.made = s.made /\ t.byId = s.byId
<1> DEFINE t == Collections!Working(s)
<1>1. /\ s.list \in Seq(Cid) /\ Differ(s.list) /\ s.length = Len(s.list) /\ Knows(s, Elements(s.list))
      /\ s.made \subseteq Cid /\ s.id \in [Cid -> Ids] /\ s.byId \in Indexes
      /\ s.heard = [c \in Cid |-> IF c \in Elements(s.list) THEN 1 ELSE 0]
  BY DEF Agreed, Knows
<1>2. s.heard \in [Cid -> Nat] /\ s.length \in Int
  BY <1>1
<1>3. /\ t.id = s.id /\ t.heard = s.heard /\ t.made = s.made /\ t.list = s.list /\ t.length = s.length
      /\ t.byId = s.byId /\ t.toAdd = <<>> /\ t.order = <<>> /\ t.keep = {}
  BY DEF Collections!Working
<1>4. t \in Work
  <2>1. <<>> \in Seq(Cid)
    OBVIOUS
  <2> QED BY <1>1, <1>2, <2>1 DEF Collections!Working, Work
<1> HIDE DEF t
<1>5. Knows(t, Elements(s.list))
  BY <1>1, <1>3 DEF Knows
<1>6. Elements(t.list) \cup Elements(t.toAdd) = Elements(s.list)
  BY <1>3, NoElements
<1>7. Seen(t, M)
  BY <1>1, <1>3, <1>4, <1>5, <1>6, NoElements DEF Seen
<1> QED BY <1>3, <1>7 DEF t

LEMMA SetIs ==
    ASSUME NEW s, NEW M, NEW xs, NEW t, t = Collections!SeesAll(Collections!Working(s), xs),
           Seen(t, M), t.list = s.list, NEW at \in 0 .. Len(s.list), NEW remove \in BOOLEAN, remove => at = 0
    PROVE  LET u == Collections!Set(s, xs, at, remove) IN
           Agreed(u) /\ M \subseteq u.made /\ Elements(u.list) \cap M \subseteq Elements(s.list)
<1> DEFINE r == Collections!Removes(t)
           v == IF remove THEN r ELSE t
<1>1. Collections!Set(s, xs, at, remove) = Collections!Spliced(v, at, remove)
  BY DEF Collections!Set
<1>2. /\ Seen(v, M) /\ Elements(v.list) \subseteq Elements(s.list) /\ at \in 0 .. Len(v.list)
      /\ remove => Elements(v.list) \subseteq v.keep
  <2>1. CASE remove
    <3>1. Seen(r, M) /\ Elements(r.list) \subseteq r.keep /\ Elements(r.list) \subseteq Elements(t.list)
      BY RemovesAll
    <3>2. Len(r.list) \in Nat
      BY <3>1 DEF Seen, Work
    <3> HIDE DEF r
    <3> QED BY <2>1, <3>1, <3>2
  <2>2. CASE ~remove
    BY <2>2
  <2> QED BY <2>1, <2>2
<1> HIDE DEF v
<1> DEFINE u == Collections!Spliced(v, at, remove)
<1>3. Agreed(u) /\ M \subseteq u.made /\ Elements(u.list) \cap M \subseteq Elements(v.list)
  BY <1>2, SplicedIs
<1> HIDE DEF u
<1> QED BY <1>1, <1>2, <1>3 DEF u

-----------------------------------------------------------------------------
(* What an action leaves                                                   *)

LEMMA StateIs ==
    ASSUME ModelsKept
    PROVE  LET s == Collections!S IN
           /\ s \in Plain /\ Agreed(s) /\ s.id = collectionsId /\ s.heard = collectionsHeard /\ s.made = made
           /\ s.list = list /\ s.length = length /\ s.byId = byId
<1> DEFINE s == Collections!S
<1>1. /\ s.id = collectionsId /\ s.heard = collectionsHeard /\ s.made = made
      /\ s.list = list /\ s.length = length /\ s.byId = byId /\ Agreed(s)
  BY DEF ModelsKept, Collections!S
<1>2. /\ collectionsId \in [Cid -> Ids] /\ made \in SUBSET Cid /\ list \in Seq(Cid) /\ length \in Int
      /\ byId \in Indexes /\ collectionsHeard = [c \in Cid |-> IF c \in Elements(list) THEN 1 ELSE 0]
  BY <1>1 DEF Agreed, Knows
<1>3. collectionsHeard \in [Cid -> Nat]
  BY <1>2
<1>4. s \in Plain
  BY <1>2, <1>3 DEF Collections!S, Plain
<1> QED BY <1>1, <1>4

LEMMA AwaitedStays ==
    ASSUME NEW w, NEW m, NEW held, Awaited(w, m, held), NEW w2 \in SUBSET w, NEW M, NEW m2, NEW held2,
           M \subseteq m2, held2 \cap M \subseteq held,
           \A r \in w2 : r.kind = "create" /\ r.wait => r.c \in M
    PROVE  Awaited(w2, m2, held2)
BY DEF Awaited, Expected

LEMMA AwaitedMore ==
    ASSUME NEW w, NEW m, NEW held, Awaited(w, m, held), NEW r, Expected(r, m, held),
           \A q \in w : q.kind # r.kind
    PROVE  Awaited(w \cup {r}, m, held)
BY DEF Awaited

\* What remains when the models nothing refers to are gone.
LEMMA Becomes ==
    ASSUME NEW s, NEW w, Agreed(s), Awaited(w, s.made, Elements(s.list)), Collections!Become(s, w),
           collectionsRows' \subseteq 1 .. MaxId
    PROVE  ModelsKept'
<1> DEFINE H == Elements(s.list)
           held == Collections!Range(s.list) \cup {r.c : r \in w} \cup {c \in Cid : s.heard[c] > 0}
           ids == [c \in Cid |-> IF c \in held THEN s.id[c] ELSE NULL]
<1>1. /\ made' = s.made \cap held /\ collectionsId' = ids /\ collectionsHeard' = s.heard /\ list' = s.list
      /\ length' = s.length /\ byId' = s.byId /\ wire' = w
  BY DEF Collections!Become
<1>2. /\ s.list \in Seq(Cid) /\ Differ(s.list) /\ s.length = Len(s.list) /\ H \subseteq s.made /\ s.made \subseteq Cid
      /\ s.id \in [Cid -> Ids] /\ s.heard = [c \in Cid |-> IF c \in H THEN 1 ELSE 0]
      /\ s.byId \in Indexes /\ Indexed(s.byId, s.id, H)
  BY DEF Agreed, Knows
<1>3. H \subseteq held /\ (\A r \in w : r.c \in held)
  BY RangeOf
<1> HIDE DEF held
<1>4. NULL \in Ids
  BY DEF Ids
<1>5. ids \in [Cid -> Ids] /\ \A c \in H : ids[c] = s.id[c]
  BY <1>2, <1>3, <1>4
<1> HIDE DEF ids
<1>6. Indexed(s.byId, ids, H)
  <2>1. {ids[c] : c \in H} = {s.id[c] : c \in H}
    BY <1>5
  <2>2. \A c \in H : ids[c] = s.id[c]
    BY <1>5
  <2> HIDE DEF H
  <2> QED BY <1>2, <2>1, <2>2 DEF Indexed
<1> DEFINE t == Collections!S'
<1>7. /\ t.id = ids /\ t.heard = s.heard /\ t.made = s.made \cap held /\ t.list = s.list
      /\ t.length = s.length /\ t.byId = s.byId
  BY <1>1 DEF Collections!S
<1> HIDE DEF t
<1>8. Knows(t, H)
  BY <1>2, <1>3, <1>5, <1>6, <1>7 DEF Knows
<1>9. Agreed(t)
  BY <1>2, <1>7, <1>8 DEF Agreed
<1>10. Awaited(w, s.made \cap held, H)
  BY <1>3 DEF Awaited, Expected
<1>11. Agreed(Collections!S)'
  BY <1>9 DEF t, Agreed, Knows, Indexed
<1>12. Awaited(wire, made, Elements(list))'
  <2>1. wire' = w /\ made' = s.made \cap held /\ list' = s.list
    BY <1>1
  <2>2. Awaited(wire', made', Elements(list'))
    BY <1>10, <2>1
  <2> QED BY <2>2 DEF Awaited, Expected, Elements
<1>13. (collectionsRows \subseteq 1 .. MaxId)'
  OBVIOUS
<1> QED BY <1>11, <1>12, <1>13 DEF ModelsKept

Clash(t) ==
    \E k, m \in DOMAIN t.list : k # m /\ t.id[t.list[k]] # NULL /\ t.id[t.list[k]] = t.id[t.list[m]]

\* A model gets another id: two of the list then have one, or the index is right.
LEMMA SetIdIs ==
    ASSUME NEW s \in Plain, Agreed(s), NEW c \in Cid, NEW i \in Ids
    PROVE  LET t == Collections!SetId(s, c, i) IN
           /\ t.list = s.list /\ t.made = s.made
           /\ Agreed(t) \/ (c \in Elements(s.list) /\ Clash(t))
<1> DEFINE H == Elements(s.list)
           ids == [s.id EXCEPT ![c] = i]
           b == IF s.heard[c] > 0 /\ s.id[c] # i THEN Collections!Index(s, c, i) ELSE s.byId
           t == Collections!SetId(s, c, i)
<1>1. /\ s.list \in Seq(Cid) /\ Differ(s.list) /\ s.length = Len(s.list) /\ H \subseteq s.made /\ s.made \subseteq Cid
      /\ s.id \in [Cid -> Ids] /\ s.heard = [d \in Cid |-> IF d \in H THEN 1 ELSE 0]
      /\ s.byId \in Indexes /\ Indexed(s.byId, s.id, H)
  BY DEF Agreed, Knows
<1>2. t = [s EXCEPT !.id = ids, !.byId = b]
  BY <1>1 DEF Collections!SetId, Plain
<1>3. ids \in [Cid -> Ids] /\ ids[c] = i /\ \A d \in Cid \ {c} : ids[d] = s.id[d]
  BY <1>1
<1> HIDE DEF b, t, ids
<1>4. /\ t.id = ids /\ t.byId = b /\ t.made = s.made /\ t.list = s.list /\ t.length = s.length /\ t.heard = s.heard
  BY <1>2 DEF Plain
<1>5. ASSUME b \in Indexes, Indexed(b, ids, H) PROVE Agreed(t)
  BY <1>1, <1>3, <1>4, <1>5 DEF Agreed, Knows
<1>6. CASE c \notin H
  <2>1. b = s.byId
    BY <1>1, <1>6 DEF b
  <2>2. (\A d \in H : ids[d] = s.id[d]) /\ {ids[d] : d \in H} = {s.id[d] : d \in H}
    BY <1>1, <1>3, <1>6
  <2>3. Indexed(b, ids, H)
    <3> HIDE DEF H
    <3> QED BY <1>1, <2>1, <2>2 DEF Indexed
  <2> QED BY <1>1, <1>4, <1>5, <2>1, <2>3 DEF t
<1>7. CASE c \in H /\ s.id[c] = i
  <2>1. b = s.byId /\ ids = s.id
    BY <1>1, <1>7 DEF b, ids
  <2> QED BY <1>1, <1>4, <1>5, <2>1 DEF t
<1>8. CASE c \in H /\ s.id[c] # i /\ (i # NULL => \A d \in H \ {c} : s.id[d] # i)
  <2>1. s.heard[c] > 0
    BY <1>1, <1>8
  <2>2. b = Collections!Keyed(Collections!Unkeyed(s.byId, {s.id[c]}), i, c)
    BY <1>8, <2>1 DEF b, Collections!Index
  <2>3. H \in SUBSET Cid
    BY <1>1
  <2>4. b \in Indexes /\ Indexed(b, ids, H)
    <3> HIDE DEF H
    <3> QED BY <1>1, <1>8, <2>2, <2>3, IndexRenames DEF ids
  <2> QED BY <1>4, <1>5, <2>4 DEF t
<1>9. CASE c \in H /\ i # NULL /\ \E d \in H \ {c} : s.id[d] = i
  <2>1. PICK d \in H \ {c} : s.id[d] = i
    BY <1>9
  <2>2. PICK k \in DOMAIN s.list : s.list[k] = c
    BY <1>9 DEF Elements
  <2>3. PICK m \in DOMAIN s.list : s.list[m] = d
    BY <2>1 DEF Elements
  <2>4. k # m /\ d \in Cid /\ ids[d] = i
    BY <1>1, <1>3, <2>1, <2>2, <2>3
  <2>5. Clash(t)
    BY <1>3, <1>4, <1>9, <2>2, <2>3, <2>4 DEF Clash
  <2> QED BY <1>4, <1>9, <2>5 DEF t
<1> QED BY <1>6, <1>7, <1>8, <1>9

LEMMA ClashEnds ==
    ASSUME NEW s, NEW w, Collections!Become(s, w), Clash(s)
    PROVE  doubled'
BY DEF Collections!Become, Clash

\* What is under way stays so while the list loses models and the others stay made.
LEMMA Lessens ==
    ASSUME ModelsKept, NEW w \in SUBSET wire, NEW s, Agreed(s), s.made = made,
           Elements(s.list) \subseteq Elements(list), Collections!Become(s, w),
           collectionsRows' \subseteq 1 .. MaxId
    PROVE  ModelsKept'
<1>1. Awaited(wire, made, Elements(list))
  BY DEF ModelsKept
<1>2. \A r \in w : r.kind = "create" /\ r.wait => r.c \in made
  BY <1>1 DEF Awaited, Expected
<1>3. Awaited(w, s.made, Elements(s.list))
  BY <1>1, <1>2, AwaitedStays
<1> QED BY <1>3, Becomes

LEMMA ModelsError ==
    ASSUME ModelsKept, NEW r \in wire, Collections!Error(r)
    PROVE  ModelsKept'
<1> DEFINE s == Collections!S
           w == wire \ {r}
<1>1. Agreed(s) /\ s.made = made /\ s.list = list
  BY StateIs
<1> HIDE DEF s
<1>2. Collections!Become(s, w) /\ collectionsRows' \subseteq 1 .. MaxId
  BY DEF Collections!Error, ModelsKept, s
<1>3. w \in SUBSET wire
  OBVIOUS
<1> HIDE DEF w
<1> QED BY <1>1, <1>2, <1>3, Lessens

LEMMA ModelsRemove ==
    ASSUME ModelsKept, NEW c \in Cid, Collections!RemoveModel(c)
    PROVE  ModelsKept'
<1> DEFINE s == Collections!S
           t == Collections!Remove1(s, c)
<1>1. s \in Plain /\ Agreed(s) /\ s.made = made /\ s.list = list
  BY StateIs
<1>2. Collections!Become(t, wire) /\ collectionsRows' \subseteq 1 .. MaxId
  BY DEF Collections!RemoveModel, ModelsKept
<1> HIDE DEF s
<1>3. Agreed(t) /\ t.made = made /\ Elements(t.list) \subseteq Elements(list)
  BY <1>1, RemovesPlain
<1> HIDE DEF t
<1> QED BY <1>2, <1>3, Lessens

LEMMA ModelsSetId ==
    ASSUME ModelsKept, NEW c \in Cid, NEW i \in Ids, Collections!SetModelId(c, i)
    PROVE  ModelsInv'
<1> DEFINE s == Collections!S
           t == Collections!SetId(s, c, i)
<1>1. s \in Plain /\ Agreed(s) /\ s.made = made /\ s.list = list
  BY StateIs
<1>2. Collections!Become(t, wire) /\ collectionsRows' \subseteq 1 .. MaxId
  BY DEF Collections!SetModelId, ModelsKept
<1> HIDE DEF s
<1>3. t.list = list /\ t.made = made /\ (Agreed(t) \/ Clash(t))
  BY <1>1, SetIdIs
<1> HIDE DEF t
<1>4. CASE Agreed(t)
  <2>1. ModelsKept'
    BY <1>2, <1>3, <1>4, Lessens
  <2> QED BY <2>1 DEF ModelsInv
<1>5. CASE Clash(t)
  <2>1. doubled'
    BY <1>2, <1>5, ClashEnds
  <2> QED BY <2>1 DEF ModelsInv
<1> QED BY <1>3, <1>4, <1>5

\* A request is made as Request says.
LEMMA RequestIs ==
    ASSUME ModelsKept, NEW kind \in {"create", "read", "delete"}, NEW c \in Cid \cup {NULL}, NEW wait \in BOOLEAN,
           kind # "read" => c \in Cid
    PROVE  LET r == Collections!Request(kind, c, wait) IN
           r \in Requests /\ r.kind = kind /\ r.c = c /\ r.wait = wait /\ r.at = "server"
<1>1. collectionsId \in [Cid -> Ids]
  BY StateIs DEF Agreed, Knows
<1> DEFINE got_ == IF kind = "delete" THEN <<collectionsId[c]>> ELSE <<>>
<1>2. got_ \in Seq(Ids)
  <2>1. CASE kind = "delete"
    <3>1. collectionsId[c] \in Ids
      BY <1>1, <2>1
    <3> DEFINE i == collectionsId[c]
    <3> HIDE DEF i
    <3>2. <<i>> \in Seq(Ids)
      BY <3>1 DEF i
    <3> QED BY <2>1, <3>2 DEF i
  <2>2. CASE kind # "delete"
    <3>1. <<>> \in Seq(Ids)
      OBVIOUS
    <3> QED BY <2>2, <3>1
  <2> QED BY <2>1, <2>2
<1> HIDE DEF got_
<1>3. Collections!Request(kind, c, wait) = [kind |-> kind, c |-> c, wait |-> wait, at |-> "server", got |-> got_]
  BY Zenon DEF Collections!Request, got_
<1> QED BY <1>2, <1>3 DEF Requests

LEMMA ModelsFetch ==
    ASSUME ModelsKept, NEW reset \in BOOLEAN, Collections!Fetch(reset)
    PROVE  ModelsKept'
<1> DEFINE s == Collections!S
           r == Collections!Request("read", NULL, reset)
           w == wire \cup {r}
<1>1. Agreed(s) /\ s.made = made /\ s.list = list
  BY StateIs
<1> HIDE DEF s
<1>2. r \in Requests /\ r.kind = "read" /\ r.at = "server"
  BY RequestIs
<1>3. Collections!Become(s, w) /\ collectionsRows' \subseteq 1 .. MaxId /\ (\A q \in wire : q.kind # r.kind)
  BY DEF Collections!Fetch, Collections!Sendable, ModelsKept, s
<1> HIDE DEF r
<1>4. Expected(r, made, Elements(list))
  BY <1>2 DEF Expected
<1>5. Awaited(w, made, Elements(list))
  BY <1>3, <1>4, AwaitedMore DEF ModelsKept
<1> HIDE DEF w
<1> QED BY <1>1, <1>3, <1>5, Becomes

LEMMA ModelsDestroy ==
    ASSUME ModelsKept, NEW c \in Cid, NEW wait \in BOOLEAN, Collections!Destroy(c, wait)
    PROVE  ModelsKept'
<1> DEFINE s == Collections!S
           r == Collections!Request("delete", c, wait)
           sent == IF collectionsId[c] = NULL THEN {} ELSE {r}
           t == IF (sent = {} \/ ~wait) /\ collectionsHeard[c] > 0 THEN Collections!Remove1(s, c) ELSE s
           w == wire \cup sent
<1>1. s \in Plain /\ Agreed(s) /\ s.made = made /\ s.list = list
  BY StateIs
<1>2. r \in Requests /\ r.kind = "delete" /\ r.c = c /\ r.at = "server"
  BY RequestIs
<1>3. Collections!Become(t, w) /\ collectionsRows' \subseteq 1 .. MaxId
      /\ (sent = {} \/ \A q \in wire : q.kind # r.kind)
  BY DEF Collections!Destroy, Collections!Sendable, ModelsKept
<1> HIDE DEF s, r
<1>4. Agreed(t) /\ t.made = made /\ Elements(t.list) \subseteq Elements(list)
  BY <1>1, RemovesPlain
<1> HIDE DEF t
<1>5. Expected(r, made, Elements(list))
  BY <1>2 DEF Expected
<1>6. Awaited(w, made, Elements(list))
  <2>1. Awaited(wire, made, Elements(list))
    BY DEF ModelsKept
  <2>2. CASE sent = {}
    BY <2>1, <2>2
  <2>3. CASE sent # {}
    <3>1. w = wire \cup {r}
      BY <2>3
    <3> QED BY <1>3, <1>5, <2>1, <2>3, <3>1, AwaitedMore
  <2> QED BY <2>2, <2>3
<1> HIDE DEF w
<1>7. \A q \in w : q.kind = "create" /\ q.wait => q.c \in made
  BY <1>6 DEF Awaited, Expected
<1>8. Awaited(w, t.made, Elements(t.list))
  BY <1>4, <1>6, <1>7, AwaitedStays
<1> QED BY <1>3, <1>4, <1>8, Becomes

\* Less than room for one is none.
LEMMA RoomFor ==
    ASSUME NEW m \in SUBSET Cid, NEW n \in Nat, Cardinality(Cid \ m) >= n, n > 0
    PROVE  \E d \in Cid : d \notin m
<1>1. Cardinality(Cid \ m) # 0
  <2>1. IsFiniteSet(Cid \ m)
    BY ModelParams, FS_Subset
  <2>2. Cardinality(Cid \ m) \in Nat
    BY <2>1, FS_CardinalityType
  <2> QED BY <2>2
<1>2. Cid \ m # {}
  BY <1>1, FS_EmptySet
<1> QED BY <1>2

LEMMA ModelsCreate ==
    ASSUME ModelsKept, NEW wait \in BOOLEAN, Collections!Create(wait)
    PROVE  ModelsKept'
<1> DEFINE c == CHOOSE d \in Cid : d \notin made
           r == Collections!Request("create", c, wait)
           s0 == Collections!S
           s == [s0 EXCEPT !.made = @ \cup {c}]
           x == Collections!Model(c)
           u == Collections!Set(s, <<x>>, length, FALSE)
           t == IF wait THEN s ELSE u
           w == wire \cup {r}
<1>1. s0 \in Plain /\ Agreed(s0) /\ s0.made = made /\ s0.list = list /\ s0.length = length /\ s0.id = collectionsId
  BY StateIs
<1>2. Collections!Become(t, w) /\ collectionsRows' \subseteq 1 .. MaxId
      /\ (\A q \in wire : q.kind # r.kind) /\ Collections!Room(1)
  BY DEF Collections!Create, Collections!Sendable, ModelsKept
<1> HIDE DEF s0
<1>3. made \subseteq Cid /\ Elements(list) \subseteq made /\ collectionsId \in [Cid -> Ids] /\ length = Len(list) /\ list \in Seq(Cid)
  BY <1>1 DEF Agreed, Knows
<1>4. c \in Cid /\ c \notin made
  <2>1. Cardinality(Cid \ made) >= 1
    BY <1>2, CountIs DEF Collections!Room
  <2>2. \E d \in Cid : d \notin made
    <3>1. 1 \in Nat /\ 1 > 0
      OBVIOUS
    <3> QED BY <1>3, <2>1, <3>1, RoomFor
  <2> QED BY <2>2
<1> HIDE DEF c
<1>5. r \in Requests /\ r.kind = "create" /\ r.c = c /\ r.wait = wait /\ r.at = "server"
  BY <1>4, RequestIs
<1> HIDE DEF r
<1>6. /\ s.id = s0.id /\ s.heard = s0.heard /\ s.made = made \cup {c} /\ s.list = list /\ s.length = s0.length
      /\ s.byId = s0.byId
  BY <1>1 DEF Plain
<1> HIDE DEF s
<1>7. Agreed(s)
  BY <1>1, <1>4, <1>6 DEF Agreed, Knows
<1>8. Awaited(wire, s.made, Elements(s.list))
  <2>1. Awaited(wire, made, Elements(list)) /\ wire \in SUBSET wire
    BY DEF ModelsKept
  <2>2. \A q \in wire : q.kind = "create" /\ q.wait => q.c \in made
    BY <2>1 DEF Awaited, Expected
  <2>3. made \subseteq s.made /\ Elements(s.list) \cap made \subseteq Elements(list)
    BY <1>6
  <2> QED BY <2>1, <2>2, <2>3, AwaitedStays
<1>9. Expected(r, s.made, Elements(s.list))
  BY <1>3, <1>4, <1>5, <1>6 DEF Expected
<1>10. Awaited(w, s.made, Elements(s.list))
  BY <1>2, <1>8, <1>9, AwaitedMore
<1>11. CASE wait
  <2>1. t = s
    BY <1>11
  <2> HIDE DEF t, w
  <2> QED BY <1>2, <1>7, <1>10, <2>1, Becomes
<1>12. CASE ~wait
  <2>1. t = u
    BY <1>12
  <2> DEFINE v == Collections!Working(s)
             p == Collections!SeesAll(v, <<x>>)
  <2>2. Seen(v, made) /\ v.list = s.list
    BY <1>6, <1>7, WorkingIs
  <2>3. x \in Named /\ x.cid \in Cid \ made
    BY <1>3, <1>4 DEF Collections!Model, Named
  <2> HIDE DEF x
  <2>4. Seen(p, made) /\ p.list = v.list
    <3> HIDE DEF v
    <3> QED BY <2>2, <2>3, SeesModel
  <2>5. length \in 0 .. Len(s.list)
    BY <1>3, <1>6
  <2>6. p = Collections!SeesAll(Collections!Working(s), <<x>>) /\ p.list = s.list
    BY <2>2, <2>4
  <2> HIDE DEF p
  <2>7. Agreed(u) /\ made \subseteq u.made /\ Elements(u.list) \cap made \subseteq Elements(s.list)
    BY <1>7, <2>4, <2>5, <2>6, SetIs
  <2> HIDE DEF u
  <2>8. \A q \in w : q.kind = "create" /\ q.wait => q.c \in made
    <3>1. \A q \in wire : q.kind = "create" /\ q.wait => q.c \in made
      BY DEF ModelsKept, Awaited, Expected
    <3> QED BY <1>5, <1>12, <3>1
  <2> HIDE DEF t, w
  <2>9. Awaited(w, u.made, Elements(u.list))
    BY <1>10, <2>7, <2>8, AwaitedStays
  <2> QED BY <1>2, <2>1, <2>7, <2>9, Becomes
<1> QED BY <1>11, <1>12

\* What set makes of the models there are and of hashes with the ids of G.
LEMMA SetHashes ==
    ASSUME NEW s, Agreed(s), NEW xs \in Seq(Named), NEW G \in SUBSET (1 .. MaxId), Enough(s, G),
           \A k \in DOMAIN xs : xs[k].cid = NULL /\ xs[k].id \in G,
           NEW at \in 0 .. Len(s.list), NEW remove \in BOOLEAN, remove => at = 0
    PROVE  LET u == Collections!Set(s, xs, at, remove) IN
           Agreed(u) /\ s.made \subseteq u.made /\ Elements(u.list) \cap s.made \subseteq Elements(s.list)
<1> DEFINE v == Collections!Working(s)
           M == s.made
           p == Collections!SeesAll(v, xs)
<1>1. Seen(v, M) /\ v.list = s.list /\ v.made = s.made /\ v.byId = s.byId
  BY WorkingIs
<1> HIDE DEF v
<1>2. Enough(v, G)
  BY <1>1 DEF Enough
<1> HIDE DEF M
<1>3. Seen(p, M) /\ p.list = v.list
  BY <1>1, <1>2, SeesHashes
<1>4. p = Collections!SeesAll(Collections!Working(s), xs) /\ p.list = s.list
  BY <1>1, <1>3 DEF v
<1> HIDE DEF p
<1> DEFINE u == Collections!Set(s, xs, at, remove)
<1>5. Agreed(u) /\ M \subseteq u.made /\ Elements(u.list) \cap M \subseteq Elements(s.list)
  BY <1>3, <1>4, SetIs
<1> QED BY <1>5 DEF M

LEMMA ModelsAdd ==
    ASSUME ModelsKept, NEW i \in 1 .. MaxId, NEW at \in {0, length}, Collections!Add(i, at)
    PROVE  ModelsKept'
<1> DEFINE s == Collections!S
           x == Collections!Hash(i)
           xs == <<x>>
           u == Collections!Set(s, xs, at, FALSE)
           G == {i}
<1>1. Agreed(s) /\ s.made = made /\ s.list = list /\ s.length = length
  BY StateIs
<1>2. Collections!Become(u, wire) /\ collectionsRows' \subseteq 1 .. MaxId /\ Collections!Room(1)
  BY DEF Collections!Add, ModelsKept
<1> HIDE DEF s
<1>3. x \in Named /\ x.cid = NULL /\ x.id = i
  BY DEF Collections!Hash, Named, Ids
<1> HIDE DEF x
<1>4. xs \in Seq(Named) /\ \A k \in DOMAIN xs : xs[k].cid = NULL /\ xs[k].id \in G
  BY <1>3
<1> HIDE DEF xs
<1>5. Enough(s, G)
  <2> DEFINE B == G \ DOMAIN s.byId
             A == Cid \ s.made
  <2>1. Cardinality(A) >= 1
    BY <1>1, <1>2, CountIs DEF Collections!Room
  <2>2. Cardinality(G) = 1 /\ IsFiniteSet(G)
    BY FS_Singleton
  <2>3. B \subseteq G
    OBVIOUS
  <2>4. Cardinality(B) <= 1 /\ IsFiniteSet(B)
    <3> HIDE DEF B, G
    <3> QED BY <2>2, <2>3, FS_Subset
  <2>5. Cardinality(B) \in Nat
    BY <2>4, FS_CardinalityType
  <2>6. Cardinality(A) \in Nat
    <3>1. IsFiniteSet(A)
      BY ModelParams, FS_Subset
    <3> QED BY <3>1, FS_CardinalityType
  <2> HIDE DEF A, B
  <2>7. Cardinality(A) >= Cardinality(B)
    BY <2>1, <2>4, <2>5, <2>6
  <2> QED BY <2>7 DEF Enough, A, B
<1>6. at \in 0 .. Len(s.list) /\ G \in SUBSET (1 .. MaxId)
  <2>1. s.length = Len(s.list) /\ Len(s.list) \in Nat
    BY <1>1 DEF Agreed
  <2> QED BY <1>1, <2>1
<1> HIDE DEF G
<1>7. Agreed(u) /\ s.made \subseteq u.made /\ Elements(u.list) \cap s.made \subseteq Elements(s.list)
  BY <1>1, <1>4, <1>5, <1>6, SetHashes
<1> HIDE DEF u
<1>8. Awaited(wire, made, Elements(list)) /\ wire \in SUBSET wire
  BY DEF ModelsKept
<1>9. \A q \in wire : q.kind = "create" /\ q.wait => q.c \in made
  BY <1>8 DEF Awaited, Expected
<1>10. Awaited(wire, u.made, Elements(u.list))
  BY <1>1, <1>7, <1>8, <1>9, AwaitedStays
<1> QED BY <1>2, <1>7, <1>10, Becomes

\* There is a least number of those that are not taken.
LEMMA LeastFree ==
    ASSUME NEW n \in Nat, NEW T \in SUBSET (1 .. n), T # 1 .. n
    PROVE  \E i \in 1 .. n : i \notin T /\ \A j \in 1 .. i - 1 : j \in T
<1> DEFINE free == (1 .. n) \ T
           R == {ss \in Nat \X Nat : ss[1] < ss[2]}
<1>1. IsWellFoundedOn(R, Nat)
  BY NatLessThanWellFounded DEF OpToRel
<1>2. free \subseteq Nat /\ free # {}
  <2>1. \A k \in 1 .. n : k \in Nat
    OBVIOUS
  <2>2. \E k \in 1 .. n : k \notin T
    OBVIOUS
  <2> QED BY <2>1, <2>2
<1>3. \A j, k \in Nat : j < k => <<j, k>> \in R
  OBVIOUS
<1> HIDE DEF R
<1>4. PICK k \in free : \A j \in free : <<j, k>> \notin R
  BY <1>1, <1>2, WFMin
<1>5. ASSUME NEW j \in 1 .. k - 1 PROVE j \in T
  <2>1. j \in Nat /\ k \in Nat /\ j < k /\ j \in 1 .. n
    OBVIOUS
  <2>2. <<j, k>> \in R
    BY <1>3, <2>1
  <2>3. j \notin free
    BY <1>4, <2>2
  <2> QED BY <2>1, <2>3
<1> QED BY <1>5

LEMMA ModelsServe ==
    ASSUME ModelsKept, NEW r \in wire, Collections!Serve(r)
    PROVE  ModelsKept'
<1> DEFINE s == Collections!S
           new == CHOOSE i \in 1 .. MaxId : i \notin collectionsRows /\ \A j \in 1 .. i - 1 : j \in collectionsRows
           Answered(got_) == [r EXCEPT !.at = "answer", !.got = got_]
           Wire(got_) == (wire \ {r}) \cup {Answered(got_)}
<1>1. Agreed(s) /\ s.made = made /\ s.list = list
  BY StateIs
<1>2. /\ collectionsRows \subseteq 1 .. MaxId /\ Expected(r, made, Elements(list)) /\ r \in Requests
      /\ Awaited(wire, made, Elements(list)) /\ MaxId \in Nat
  BY ModelParams DEF ModelsKept, Awaited, Expected
<1>3. ASSUME NEW got_ \in Seq(Ids), Collections!Become(s, Wire(got_)), collectionsRows' \subseteq 1 .. MaxId,
             r.kind = "create" => got_[1] \in 1 .. MaxId, r.kind = "read" => got_ \in Seq(1 .. MaxId)
      PROVE  ModelsKept'
  <2> DEFINE a == Answered(got_)
             w == wire \ {r}
  <2>1. a \in Requests /\ a.kind = r.kind /\ a.c = r.c /\ a.wait = r.wait /\ a.got = got_
    BY <1>2, <1>3 DEF Requests
  <2> HIDE DEF a
  <2>2. Expected(a, made, Elements(list))
    BY <1>2, <1>3, <2>1 DEF Expected
  <2>3. Awaited(w, made, Elements(list)) /\ \A q \in w : q.kind # r.kind
    BY <1>2 DEF Awaited
  <2> HIDE DEF w
  <2>4. Awaited(w \cup {a}, made, Elements(list))
    BY <2>1, <2>2, <2>3, AwaitedMore
  <2>5. Wire(got_) = w \cup {a}
    BY DEF a, w
  <2> HIDE DEF Wire, s
  <2> QED BY <1>1, <1>3, <2>4, <2>5, Becomes
<1>4. CASE r.kind = "create" /\ collectionsRows # 1 .. MaxId /\ collectionsRows' = collectionsRows \cup {new}
           /\ Collections!Become(s, Wire(<<new>>))
  <2>1. new \in 1 .. MaxId
    <3>1. \E i \in 1 .. MaxId : i \notin collectionsRows /\ \A j \in 1 .. i - 1 : j \in collectionsRows
      BY <1>2, <1>4, LeastFree
    <3> QED BY <3>1
  <2> HIDE DEF new, s, Wire
  <2>2. <<new>> \in Seq(Ids) /\ <<new>>[1] \in 1 .. MaxId
    BY <2>1 DEF Ids
  <2>3. collectionsRows' \subseteq 1 .. MaxId
    BY <1>2, <1>4, <2>1
  <2>4. Collections!Become(s, Wire(<<new>>)) /\ r.kind # "read"
    BY <1>4
  <2> QED BY <1>3, <2>2, <2>3, <2>4
<1>5. CASE r.kind = "read" /\ collectionsRows' = collectionsRows
           /\ \E got_ \in [1 .. Collections!Cardinality(collectionsRows) -> collectionsRows] :
                  Collections!Become(s, Wire(got_))
  <2>1. PICK got_ \in [1 .. Collections!Cardinality(collectionsRows) -> collectionsRows] : Collections!Become(s, Wire(got_))
    BY <1>5
  <2> DEFINE n == Cardinality(collectionsRows)
  <2>2. n \in Nat
    <3>1. IsFiniteSet(1 .. MaxId)
      BY <1>2, FS_Interval
    <3>2. IsFiniteSet(collectionsRows)
      BY <1>2, <3>1, FS_Subset
    <3> QED BY <3>2, FS_CardinalityType
  <2>3. got_ \in [1 .. n -> collectionsRows]
    BY <2>1, CountIs
  <2> HIDE DEF n, s, Wire
  <2>4. got_ \in Seq(1 .. MaxId)
    <3>1. got_ \in [1 .. n -> 1 .. MaxId]
      BY <1>2, <2>3
    <3>2. \A V : got_ \in [1 .. n -> V] => got_ \in Seq(V)
      BY <2>2
    <3> QED BY <3>1, <3>2, Zenon
  <2>5. got_ \in Seq(Ids)
    <3>1. 1 .. MaxId \subseteq Ids
      BY DEF Ids
    <3>2. got_ \in [1 .. n -> Ids]
      BY <1>2, <2>3, <3>1
    <3> QED BY <2>2, <3>2
  <2>6. collectionsRows' \subseteq 1 .. MaxId /\ r.kind # "create"
    BY <1>2, <1>5
  <2> QED BY <1>3, <2>1, <2>4, <2>5, <2>6
<1>6. CASE r.kind = "delete" /\ collectionsRows' = collectionsRows \ Collections!Range(r.got)
           /\ Collections!Become(s, Wire(<<>>))
  <2>1. <<>> \in Seq(Ids) /\ r.kind # "create" /\ r.kind # "read"
    BY <1>6
  <2>2. collectionsRows' \subseteq 1 .. MaxId
    BY <1>2, <1>6
  <2> HIDE DEF s, Wire
  <2> QED BY <1>3, <1>6, <2>1, <2>2
<1> HIDE DEF s
<1> QED BY <1>4, <1>5, <1>6, Zenon DEF Collections!Serve, s

\* The hashes of an answer.
LEMMA HashesIs ==
    ASSUME NEW got_ \in Seq(1 .. MaxId)
    PROVE  LET xs == [k \in DOMAIN got_ |-> Collections!Hash(got_[k])] IN
           /\ xs \in Seq(Named)
           /\ \A k \in DOMAIN xs : xs[k].cid = NULL /\ xs[k].id \in Elements(got_)
<1> DEFINE n == Len(got_)
           xs == [k \in DOMAIN got_ |-> Collections!Hash(got_[k])]
<1>1. n \in Nat /\ DOMAIN got_ = 1 .. n /\ \A k \in 1 .. n : got_[k] \in 1 .. MaxId
  <2>1. n \in Nat /\ DOMAIN got_ = 1 .. n
    OBVIOUS
  <2>2. \A k \in 1 .. n : got_[k] \in 1 .. MaxId
    BY ElementOfSeq
  <2> QED BY <2>1, <2>2
<1> HIDE DEF n
<1>2. DOMAIN xs = 1 .. n /\ \A k \in 1 .. n : xs[k] = Collections!Hash(got_[k])
  BY <1>1
<1>3. ASSUME NEW k \in 1 .. n PROVE xs[k] \in Named /\ xs[k].cid = NULL /\ xs[k].id = got_[k]
  <2>1. got_[k] \in Ids
    BY <1>1 DEF Ids
  <2> DEFINE i == got_[k]
  <2> HIDE DEF i
  <2>2. Collections!Hash(i) \in Named /\ Collections!Hash(i).cid = NULL /\ Collections!Hash(i).id = i
    BY <2>1 DEF Collections!Hash, Named, i
  <2> QED BY <1>2, <2>2 DEF i
<1>4. xs = [k \in 1 .. n |-> xs[k]]
  BY <1>1
<1> HIDE DEF xs
<1>5. xs \in [1 .. n -> Named]
  BY <1>3, <1>4
<1>6. xs \in Seq(Named)
  BY <1>1, <1>5
<1> QED BY <1>1, <1>2, <1>3, <1>6 DEF Elements, xs

LEMMA ElementsBound ==
    ASSUME NEW V, NEW q \in Seq(V)
    PROVE  IsFiniteSet(Elements(q)) /\ Cardinality(Elements(q)) <= Len(q)
<1>1. Len(q) \in Nat /\ DOMAIN q = 1 .. Len(q)
  OBVIOUS
<1>2. q \in Surjection(1 .. Len(q), Elements(q))
  <2>1. q \in [1 .. Len(q) -> Elements(q)]
    BY <1>1 DEF Elements
  <2>2. \A c \in Elements(q) : \E k \in 1 .. Len(q) : q[k] = c
    BY <1>1 DEF Elements
  <2> QED BY <2>1, <2>2 DEF Surjection
<1>3. IsFiniteSet(1 .. Len(q)) /\ Cardinality(1 .. Len(q)) = Len(q)
  <2>1. 1 \in Int /\ Len(q) \in Int
    BY <1>1
  <2>2. IsFiniteSet(1 .. Len(q)) /\ Cardinality(1 .. Len(q)) = IF 1 > Len(q) THEN 0 ELSE Len(q) - 1 + 1
    BY <2>1, FS_Interval
  <2> QED BY <1>1, <2>2
<1> QED BY <1>2, <1>3, FS_Surjection

LEMMA ModelsSuccess ==
    ASSUME ModelsKept, NEW r \in wire, Collections!Success(r)
    PROVE  ModelsInv'
<1> DEFINE s == Collections!S
           t == Collections!Received(r)
           w == wire \ {r}
<1>1. /\ s \in Plain /\ Agreed(s) /\ s.made = made /\ s.list = list /\ s.length = length
      /\ s.id = collectionsId /\ s.heard = collectionsHeard /\ s.byId = byId
  BY StateIs
<1>2. /\ Collections!Become(t, w) /\ r.at = "answer" /\ Collections!Fits(r)
      /\ collectionsRows' \subseteq 1 .. MaxId
  BY DEF Collections!Success, ModelsKept
<1>3. /\ Expected(r, made, Elements(list)) /\ r \in Requests /\ Awaited(wire, made, Elements(list))
      /\ w \in SUBSET wire /\ (\A q \in w : q.kind # r.kind)
      /\ \A q \in wire : q.kind = "create" /\ q.wait => q.c \in made
  BY DEF ModelsKept, Awaited, Expected
<1>4. /\ made \subseteq Cid /\ Elements(list) \subseteq made /\ list \in Seq(Cid) /\ length = Len(list) /\ Len(list) \in Nat
      /\ collectionsHeard = [c \in Cid |-> IF c \in Elements(list) THEN 1 ELSE 0]
  BY <1>1 DEF Agreed, Knows
<1> HIDE DEF s, w
<1>5. CASE r.kind = "create"
  <2> DEFINE i == r.got[1]
             c == r.c
             v == Collections!SetId(s, c, i)
             x == [cid |-> c, id |-> i]
             u == Collections!Set(v, <<x>>, length, FALSE)
  <2>1. c \in Cid /\ i \in 1 .. MaxId /\ i \in Ids /\ (r.wait => c \in made \ Elements(list))
    BY <1>2, <1>3, <1>5 DEF Expected, Ids
  <2>2. t = IF r.wait THEN u ELSE v
    BY <1>5, Zenon DEF Collections!Received, s
  <2> HIDE DEF i, c
  <2>3. v.list = list /\ v.made = made /\ (Agreed(v) \/ (c \in Elements(list) /\ Clash(v)))
    BY <1>1, <2>1, SetIdIs
  <2> HIDE DEF t, v
  <2>4. CASE ~r.wait
    <3>1. t = v
      BY <2>2, <2>4
    <3>2. CASE Agreed(v)
      <4>1. ModelsKept'
        BY <1>2, <1>3, <2>3, <3>1, <3>2, Lessens
      <4> QED BY <4>1 DEF ModelsInv
    <3>3. CASE Clash(v)
      <4>1. doubled'
        BY <1>2, <3>1, <3>3, ClashEnds
      <4> QED BY <4>1 DEF ModelsInv
    <3> QED BY <2>3, <3>2, <3>3
  <2>5. CASE r.wait
    <3> DEFINE M == made \ {c}
               f == Collections!Working(v)
               p == Collections!SeesAll(f, <<x>>)
    <3>1. t = u /\ Agreed(v)
      BY <2>1, <2>2, <2>3, <2>5
    <3>2. Seen(f, M) /\ f.list = v.list
      <4>1. M \subseteq v.made
        BY <2>3
      <4> HIDE DEF M
      <4> QED BY <3>1, <4>1, WorkingIs
    <3>3. x \in Named /\ x.cid \in Cid \ M
      BY <2>1 DEF Named
    <3> HIDE DEF x
    <3>4. Seen(p, M) /\ p.list = f.list
      <4> HIDE DEF f, M
      <4> QED BY <3>2, <3>3, SeesModel
    <3>5. length \in 0 .. Len(v.list)
      BY <1>4, <2>3
    <3>6. p = Collections!SeesAll(Collections!Working(v), <<x>>) /\ p.list = v.list
      BY <3>2, <3>4
    <3> HIDE DEF p, M
    <3>7. Agreed(u) /\ M \subseteq u.made /\ Elements(u.list) \cap M \subseteq Elements(v.list)
      BY <3>1, <3>4, <3>5, <3>6, SetIs
    <3> HIDE DEF u
    <3>8. \A q \in w : q.kind = "create" /\ q.wait => q.c \in M
      BY <1>3, <1>5
    <3>9. Awaited(w, u.made, Elements(u.list))
      BY <1>3, <2>3, <3>7, <3>8, AwaitedStays
    <3>10. ModelsKept'
      BY <1>2, <3>1, <3>7, <3>9, Becomes
    <3> QED BY <3>10 DEF ModelsInv
  <2> QED BY <2>4, <2>5
<1>6. CASE r.kind = "read"
  <2> DEFINE got_ == r.got
             xs == [k \in DOMAIN got_ |-> Collections!Hash(got_[k])]
             G == Elements(got_)
  <2>1. got_ \in Seq(1 .. MaxId)
    BY <1>2, <1>3, <1>6 DEF Expected
  <2>2. t = IF r.wait THEN Collections!Reset(s, xs) ELSE Collections!Set(s, xs, 0, TRUE)
    BY <1>6, Zenon DEF Collections!Received, s
  <2>3. /\ Collections!Fits(r) <=> IF r.wait THEN Collections!Cardinality(Cid \ {q.c : q \in wire}) >= Len(got_)
                                   ELSE Collections!Room(Collections!Cardinality(Collections!Range(got_) \ DOMAIN byId))
    BY DEF Collections!Fits
  <2> HIDE DEF got_, t
  <2>4. xs \in Seq(Named) /\ \A k \in DOMAIN xs : xs[k].cid = NULL /\ xs[k].id \in G
    BY <2>1, HashesIs
  <2> HIDE DEF xs
  <2>5. G \in SUBSET (1 .. MaxId) /\ IsFiniteSet(G) /\ Cardinality(G) <= Len(got_)
    BY <2>1, ElementsIn, ElementsBound
  <2> HIDE DEF G
  <2>6. CASE r.wait
    <3> DEFINE e == Collections!Emptied(s)
               C == {q.c : q \in wire}
               u == Collections!Set(e, xs, 0, FALSE)
    <3>1. /\ e.id = s.id /\ e.heard = [c \in Cid |-> IF c \in Elements(list) THEN 0 ELSE s.heard[c]]
          /\ e.made = made \cap C /\ e.list = <<>> /\ e.length = 0 /\ e.byId = [z \in {} |-> z]
      BY <1>1, RangeOf DEF Collections!Emptied, Plain
    <3> HIDE DEF e
    <3>2. e.heard = [c \in Cid |-> 0]
      BY <1>1, <1>4, <3>1
    <3>3. e.byId \in Indexes /\ DOMAIN e.byId = {}
      <4>1. DOMAIN e.byId = {}
        BY <3>1
      <4> QED BY <3>1, <4>1, IndexTyped
    <3>4. Agreed(e)
      <4>1. Elements(e.list) = {} /\ Differ(e.list) /\ e.list \in Seq(Cid) /\ Len(e.list) = 0
        BY <3>1, NoElements
      <4>2. Indexed(e.byId, e.id, {})
        BY <3>3 DEF Indexed
      <4>3. e.heard = [c \in Cid |-> IF c \in {} THEN 1 ELSE 0]
        BY <3>2
      <4>4. e.id \in [Cid -> Ids] /\ e.made \subseteq Cid
        BY <1>1, <1>4, <3>1 DEF Plain
      <4> QED BY <3>1, <3>3, <4>1, <4>2, <4>3, <4>4 DEF Agreed, Knows
    <3>5. Enough(e, G)
      <4> DEFINE A == Cid \ e.made
                 B == Cid \ C
      <4>1. B \subseteq A /\ IsFiniteSet(A) /\ IsFiniteSet(Cid)
        <5>1. B \subseteq A
          BY <3>1
        <5>2. A \subseteq Cid
          OBVIOUS
        <5> QED BY <5>1, <5>2, ModelParams, FS_Subset
      <4>2. Cardinality(B) <= Cardinality(A) /\ IsFiniteSet(B)
        <5> HIDE DEF A, B
        <5> QED BY <4>1, FS_Subset
      <4>3. Cardinality(B) >= Len(got_)
        BY <1>2, <2>3, <2>6, CountIs
      <4>4. Cardinality(A) \in Nat /\ Cardinality(B) \in Nat /\ Cardinality(G) \in Nat /\ Len(got_) \in Nat
        BY <2>1, <2>5, <4>1, <4>2, FS_CardinalityType
      <4> HIDE DEF A, B
      <4>5. Cardinality(A) >= Cardinality(G)
        BY <2>5, <4>2, <4>3, <4>4
      <4>6. G \ DOMAIN e.byId = G
        BY <3>3
      <4> QED BY <4>5, <4>6 DEF Enough, A
    <3>6. 0 \in 0 .. Len(e.list)
      BY <3>1
    <3>7. Agreed(u) /\ e.made \subseteq u.made /\ Elements(u.list) \cap e.made \subseteq Elements(e.list)
      BY <2>4, <2>5, <3>4, <3>5, <3>6, SetHashes
    <3>8. t = u
      BY <2>2, <2>6 DEF Collections!Reset, e
    <3> HIDE DEF u
    <3>9. \A q \in w : q.kind = "create" /\ q.wait => q.c \in e.made
      BY <1>3, <3>1
    <3>10. Elements(u.list) \cap e.made \subseteq Elements(list)
      <4>1. Elements(e.list) = {}
        BY <3>1, NoElements
      <4> QED BY <3>7, <4>1
    <3>11. Awaited(w, u.made, Elements(u.list))
      BY <1>3, <3>7, <3>9, <3>10, AwaitedStays
    <3>12. ModelsKept'
      BY <1>2, <3>7, <3>8, <3>11, Becomes
    <3> QED BY <3>12 DEF ModelsInv
  <2>7. CASE ~r.wait
    <3> DEFINE u == Collections!Set(s, xs, 0, TRUE)
    <3>1. Enough(s, G)
      <4>1. Collections!Range(got_) = G
        BY RangeOf DEF G
      <4>2. Cardinality(Cid \ made) >= Cardinality(G \ DOMAIN byId)
        BY <1>2, <2>3, <2>7, <4>1, CountIs DEF Collections!Room
      <4> QED BY <1>1, <4>2 DEF Enough
    <3>2. 0 \in 0 .. Len(s.list)
      BY <1>1, <1>4
    <3>3. Agreed(u) /\ s.made \subseteq u.made /\ Elements(u.list) \cap s.made \subseteq Elements(s.list)
      BY <1>1, <2>4, <2>5, <3>1, <3>2, SetHashes
    <3>4. t = u
      BY <2>2, <2>7
    <3> HIDE DEF u
    <3>5. Awaited(w, u.made, Elements(u.list))
      <4>1. \A q \in w : q.kind = "create" /\ q.wait => q.c \in made
        BY <1>3
      <4>2. made \subseteq u.made /\ Elements(u.list) \cap made \subseteq Elements(list)
        BY <1>1, <3>3
      <4> QED BY <1>3, <4>1, <4>2, AwaitedStays
    <3>6. ModelsKept'
      BY <1>2, <3>3, <3>4, <3>5, Becomes
    <3> QED BY <3>6 DEF ModelsInv
  <2> QED BY <2>6, <2>7
<1>7. CASE r.kind = "delete"
  <2> DEFINE c == r.c
             v == Collections!Remove1(s, c)
  <2>1. c \in Cid
    BY <1>3, <1>7 DEF Expected
  <2>2. t = IF r.wait /\ collectionsHeard[c] > 0 THEN v ELSE s
    BY <1>7, Zenon DEF Collections!Received, s
  <2> HIDE DEF c
  <2>3. Agreed(v) /\ v.made = s.made /\ Elements(v.list) \subseteq Elements(s.list)
    BY <1>1, <2>1, RemovesPlain
  <2> HIDE DEF v, t
  <2>4. Agreed(t) /\ t.made = made /\ Elements(t.list) \subseteq Elements(list)
    BY <1>1, <2>2, <2>3
  <2>5. ModelsKept'
    BY <1>2, <1>3, <2>4, Lessens
  <2> QED BY <2>5 DEF ModelsInv
<1>8. r.kind \in {"create", "read", "delete"}
  BY <1>3 DEF Requests
<1> QED BY <1>5, <1>6, <1>7, <1>8

LEMMA ModelsInit == Collections!Init => ModelsInv
<1> SUFFICES ASSUME Collections!Init PROVE ModelsKept
  BY DEF ModelsInv
<1> DEFINE s == Collections!S
<1>1. /\ collectionsId = [c \in Cid |-> NULL] /\ collectionsHeard = [c \in Cid |-> 0] /\ made = {}
      /\ list = <<>> /\ length = 0 /\ byId = [x \in {} |-> x] /\ collectionsRows = {} /\ wire = {}
  BY DEF Collections!Init
<1>2. /\ s.id = collectionsId /\ s.heard = collectionsHeard /\ s.made = made
      /\ s.list = list /\ s.length = length /\ s.byId = byId
  BY DEF Collections!S
<1> HIDE DEF s
<1>3. s.byId \in Indexes /\ DOMAIN s.byId = {}
  <2>1. DOMAIN s.byId = {}
    BY <1>1, <1>2
  <2> QED BY <1>1, <1>2, <2>1, IndexTyped
<1>4. Elements(s.list) = {} /\ Differ(s.list) /\ s.list \in Seq(Cid) /\ Len(s.list) = 0
  BY <1>1, <1>2, NoElements
<1>5. Knows(s, {})
  <2>1. Indexed(s.byId, s.id, {})
    BY <1>3 DEF Indexed
  <2>2. s.heard = [c \in Cid |-> IF c \in {} THEN 1 ELSE 0] /\ s.id \in [Cid -> Ids] /\ s.made = {}
    BY <1>1, <1>2 DEF Ids
  <2> QED BY <1>3, <2>1, <2>2 DEF Knows
<1>6. Agreed(s)
  BY <1>1, <1>2, <1>4, <1>5 DEF Agreed
<1>7. Awaited(wire, made, Elements(list))
  BY <1>1 DEF Awaited
<1> QED BY <1>1, <1>6, <1>7 DEF ModelsKept, s

LEMMA ModelsNext == ModelsInv /\ Collections!Next => ModelsInv'
<1> SUFFICES ASSUME ModelsInv, Collections!Next PROVE ModelsInv'
  OBVIOUS
<1>1. ~doubled /\ ModelsKept
  BY DEF ModelsInv, Collections!Next
<1>2. made \subseteq Cid /\ \A c \in Collections!Range(list) : c \in made
  <2>1. Agreed(Collections!S) /\ Collections!S.made = made /\ Collections!S.list = list
    BY <1>1, StateIs
  <2>2. made \subseteq Cid /\ Elements(list) \subseteq made
    BY <2>1 DEF Agreed, Knows
  <2> QED BY <2>2, RangeOf
<1>3. ASSUME NEW wait \in BOOLEAN, Collections!Create(wait) \/ Collections!Fetch(wait) PROVE ModelsKept'
  BY <1>1, <1>3, ModelsCreate, ModelsFetch
<1>4. ASSUME NEW c \in made, NEW wait \in BOOLEAN, Collections!Destroy(c, wait) PROVE ModelsKept'
  BY <1>1, <1>2, <1>4, ModelsDestroy
<1>5. ASSUME NEW r \in wire, Collections!Serve(r) PROVE ModelsKept'
  BY <1>1, <1>5, ModelsServe
<1>6. ASSUME NEW r \in wire, Collections!Success(r) PROVE ModelsInv'
  BY <1>1, <1>6, ModelsSuccess
<1>7. ASSUME NEW r \in wire, Collections!Error(r) PROVE ModelsKept'
  BY <1>1, <1>7, ModelsError
<1>8. ASSUME NEW i \in 1 .. MaxId, NEW at \in {0, length}, Collections!Add(i, at) PROVE ModelsKept'
  BY <1>1, <1>8, ModelsAdd
<1>9. ASSUME NEW c \in Collections!Range(list), Collections!RemoveModel(c) PROVE ModelsKept'
  BY <1>1, <1>2, <1>9, ModelsRemove
<1>10. ASSUME NEW c \in made, NEW i \in (1 .. MaxId) \cup {NULL}, Collections!SetModelId(c, i) PROVE ModelsInv'
  BY <1>1, <1>2, <1>10, ModelsSetId DEF Ids
<1>11. ModelsKept' => ModelsInv'
  BY DEF ModelsInv
<1> QED BY <1>3, <1>4, <1>5, <1>6, <1>7, <1>8, <1>9, <1>10, <1>11, Zenon DEF Collections!Next

LEMMA ModelsStay == ModelsInv /\ UNCHANGED collectionsVars => ModelsInv'
BY DEF ModelsInv, ModelsKept, collectionsVars, Collections!S, Agreed, Knows, Indexed, Awaited, Expected, Elements, Differ

LEMMA ModelsRight == ModelsInv => Collections!IndexAgrees /\ Collections!ListensOnce
<1> SUFFICES ASSUME ModelsInv, ~doubled PROVE Collections!IndexAgrees /\ Collections!ListensOnce
  BY DEF Collections!IndexAgrees, Collections!ListensOnce
<1>1. ModelsKept
  BY DEF ModelsInv
<1> DEFINE s == Collections!S
           H == Elements(list)
<1>2. Agreed(s) /\ s.id = collectionsId /\ s.heard = collectionsHeard /\ s.list = list /\ s.length = length /\ s.byId = byId
  BY <1>1, StateIs
<1> HIDE DEF s
<1>3. /\ length = Len(list) /\ collectionsHeard = [c \in Cid |-> IF c \in H THEN 1 ELSE 0]
      /\ Indexed(byId, collectionsId, H) /\ H \subseteq Cid
  BY <1>2 DEF Agreed, Knows
<1> HIDE DEF H
<1>4. Collections!Range(list) = H
  BY RangeOf DEF H
<1>5. Collections!ListensOnce
  BY <1>3, <1>4 DEF Collections!ListensOnce
<1>6. Collections!IndexSays
  <2>1. DOMAIN byId = (H \cup {collectionsId[c] : c \in H}) \ {NULL}
        /\ \A c \in H : byId[c] = c /\ (collectionsId[c] # NULL => byId[collectionsId[c]] = c)
    BY <1>3 DEF Indexed
  <2>2. \A c \in H : \A k \in {c, collectionsId[c]} \ {NULL} : k \in DOMAIN byId /\ byId[k] = c
    BY <2>1
  <2> QED BY <1>4, <2>1, <2>2, Zenon DEF Collections!IndexSays
<1> QED BY <1>3, <1>5, <1>6 DEF Collections!IndexAgrees
-----------------------------------------------------------------------------
(* The search bar.                                                         *)

\* What has the fields of a search bar.
Bar == [value : DOMAIN Matches, focused : BOOLEAN, heard : BOOLEAN, silent : BOOLEAN, query : DOMAIN Matches,
        rows : {Matches[q] : q \in DOMAIN Matches}, found : BOOLEAN, enabled : BOOLEAN, notEmpty : BOOLEAN,
        overlay : BOOLEAN, active : BOOLEAN, late : Seq({"enable", "disable"}), crossed : BOOLEAN]

\* The list shows what was searched for last ...
Lists(b) == Searchbar!Listed => b.rows = Matches[b.query] /\ (b.found <=> Matches[b.query] # {})

\* ... and what the input holds beyond that will be heard.
Hears(b, q) == ~b.heard /\ ~b.silent => b.value = q

\* The late timeouts, which only iOS has: what disables comes first, and only what
\* enables waits behind it.  Meanwhile the code believes that the bar is enabled.
Waiting(b) == b.late # <<>> /\ Head(b.late) = "disable"
InTurn(b) ==
    /\ ~barOpt.ios => b.late = <<>>
    /\ ~b.crossed => \A i \in DOMAIN b.late : i > 1 => b.late[i] = "enable"

Overlaid(b) == Searchbar!Listed /\ ~b.crossed => (b.overlay <=> b.enabled /\ b.query = "")
Believes(b) ==
    ~b.crossed => /\ Waiting(b) => ~b.enabled
                  /\ ~Waiting(b) => (b.active <=> b.enabled)

BarOK(b) == b \in Bar /\ Lists(b) /\ Hears(b, b.query) /\ InTurn(b) /\ Overlaid(b) /\ Believes(b)
SearchInv == BarOK(Searchbar!B)

LEMMA BarInit == Searchbar!Init => SearchInv
<1> SUFFICES ASSUME Searchbar!Init PROVE SearchInv
  OBVIOUS
<1> DEFINE b == Searchbar!B
<1>1. "" \in DOMAIN Matches /\ Matches[""] = BarItem /\ BarItem # {}
  BY AssumptionOfSearch DEF Searchbar!SearchAssumption
<1>2. b = [value |-> "", focused |-> FALSE, heard |-> FALSE, silent |-> FALSE, query |-> "", rows |-> BarItem,
           found |-> TRUE, enabled |-> FALSE, notEmpty |-> FALSE, overlay |-> FALSE, active |-> FALSE,
           late |-> <<>>, crossed |-> FALSE]
  BY DEF Searchbar!Init, Searchbar!B
<1>3. b \in Bar
  <2>1. BarItem \in {Matches[q] : q \in DOMAIN Matches}
    BY <1>1, Zenon
  <2>2. <<>> \in Seq({"enable", "disable"})
    BY EmptySeq
  <2> QED BY <1>1, <1>2, <2>1, <2>2 DEF Bar
<1>4. /\ b.value = "" /\ b.query = "" /\ b.rows = BarItem /\ b.found /\ ~b.enabled /\ ~b.overlay /\ ~b.active
      /\ b.late = <<>>
  BY <1>2
<1> HIDE DEF b
<1>5. Lists(b) /\ Hears(b, b.query) /\ Overlaid(b)
  BY <1>1, <1>4 DEF Lists, Hears, Overlaid
<1>6. InTurn(b)
  <2>1. b.late \in Seq({"enable", "disable"}) /\ Len(b.late) = 0
    BY <1>4, EmptySeq
  <2>2. \A i \in DOMAIN b.late : FALSE
    BY <2>1
  <2> QED BY <1>4, <2>2, Zenon DEF InTurn
<1>7. Believes(b)
  BY <1>4 DEF Believes, Waiting
<1> QED BY <1>3, <1>5, <1>6, <1>7 DEF SearchInv, BarOK, b

\* Who waits once somebody more does, or one has been heard.
LEMMA LateAppended ==
    ASSUME NEW ls \in Seq({"enable", "disable"}), NEW l \in {"enable", "disable"}
    PROVE  /\ Append(ls, l) \in Seq({"enable", "disable"}) /\ Append(ls, l) # <<>>
           /\ DOMAIN Append(ls, l) = 1 .. Len(ls) + 1
           /\ \A i \in DOMAIN ls : Append(ls, l)[i] = ls[i]
           /\ \A i \in 1 .. Len(ls) + 1 : i \notin DOMAIN ls => Append(ls, l)[i] = l
           /\ ls = <<>> => Append(ls, l) = <<l>>
           /\ ls # <<>> => Head(Append(ls, l)) = Head(ls)
<1>1. /\ Append(ls, l) \in Seq({"enable", "disable"}) /\ Len(Append(ls, l)) = Len(ls) + 1
      /\ \A i \in 1 .. Len(ls) : Append(ls, l)[i] = ls[i]
      /\ Append(ls, l)[Len(ls) + 1] = l
  BY AppendProperties
<1>2. Len(ls) \in Nat /\ DOMAIN ls = 1 .. Len(ls)
  OBVIOUS
<1>3. DOMAIN Append(ls, l) = 1 .. Len(ls) + 1 /\ Append(ls, l) # <<>>
  BY <1>1, <1>2
<1>4. \A i \in 1 .. Len(ls) + 1 : i \notin DOMAIN ls => Append(ls, l)[i] = l
  BY <1>1, <1>2
<1>5. ls = <<>> => Append(ls, l) = <<l>>
  OBVIOUS
<1>6. ls # <<>> => Head(Append(ls, l)) = Head(ls)
  <2> SUFFICES ASSUME ls # <<>> PROVE Append(ls, l)[1] = ls[1]
    BY <1>3
  <2>1. 1 \in 1 .. Len(ls)
    BY <1>2
  <2> QED BY <1>1, <2>1
<1> QED BY <1>1, <1>2, <1>3, <1>4, <1>5, <1>6

LEMMA LateHeard ==
    ASSUME NEW ls \in Seq({"enable", "disable"}), ls # <<>>
    PROVE  /\ Tail(ls) \in Seq({"enable", "disable"}) /\ Head(ls) \in {"enable", "disable"}
           /\ \A i \in DOMAIN Tail(ls) : i + 1 \in DOMAIN ls /\ i + 1 > 1 /\ Tail(ls)[i] = ls[i + 1]
<1>1. /\ Tail(ls) \in Seq({"enable", "disable"}) /\ Len(Tail(ls)) = Len(ls) - 1
      /\ \A i \in 1 .. Len(Tail(ls)) : Tail(ls)[i] = ls[i + 1]
      /\ Head(ls) \in {"enable", "disable"}
  BY HeadTailProperties
<1>2. Len(ls) \in Nat /\ DOMAIN ls = 1 .. Len(ls) /\ DOMAIN Tail(ls) = 1 .. Len(Tail(ls))
  BY <1>1
<1> QED BY <1>1, <1>2

\* The bar as the operators of the model change it.
LEMMA BarEnabled ==
    ASSUME NEW b, BarOK(b), Waiting(b) => b.crossed
    PROVE  BarOK(Searchbar!Enabled(b))
<1> DEFINE o_ == b.overlay \/ ~b.enabled
           c_ == b.crossed \/ (~b.enabled /\ b.query # "")
           e == [b EXCEPT !.overlay = o_, !.enabled = TRUE, !.active = TRUE, !.crossed = c_]
<1>1. b \in Bar /\ Lists(b) /\ Hears(b, b.query) /\ InTurn(b) /\ Overlaid(b) /\ Believes(b)
  BY DEF BarOK
<1>2. o_ \in BOOLEAN /\ c_ \in BOOLEAN
  BY Zenon
<1>3. Searchbar!Enabled(b) = e
  BY Zenon DEF Searchbar!Enabled
<1>4. ~c_ => ~b.crossed /\ (b.enabled \/ b.query = "")
  BY Zenon
<1>5. o_ <=> b.overlay \/ ~b.enabled
  BY Zenon
<1> HIDE DEF o_, c_
<1>6. /\ e \in Bar /\ e.overlay = o_ /\ e.enabled /\ e.active /\ e.crossed = c_
      /\ e.value = b.value /\ e.heard = b.heard /\ e.silent = b.silent /\ e.query = b.query
      /\ e.rows = b.rows /\ e.found = b.found /\ e.late = b.late
  BY <1>1, <1>2 DEF Bar
<1> HIDE DEF e
<1>7. Lists(e) /\ Hears(e, e.query) /\ InTurn(e)
  BY <1>1, <1>4, <1>6 DEF Lists, Hears, InTurn
<1>8. Overlaid(e) /\ Believes(e)
  BY <1>1, <1>4, <1>5, <1>6 DEF Overlaid, Believes, Waiting
<1> QED BY <1>3, <1>6, <1>7, <1>8 DEF BarOK

LEMMA BarEnable ==
    ASSUME NEW b, BarOK(b)
    PROVE  BarOK(Searchbar!Enable(b))
<1>1. b \in Bar /\ Lists(b) /\ Hears(b, b.query) /\ InTurn(b) /\ Overlaid(b) /\ Believes(b)
  BY DEF BarOK
<1>2. CASE barOpt.ios
  <2> DEFINE ls == Append(b.late, "enable")
             e == [b EXCEPT !.late = ls]
  <2>1. b.late \in Seq({"enable", "disable"})
    BY <1>1 DEF Bar
  <2>2. /\ ls \in Seq({"enable", "disable"}) /\ ls # <<>>
        /\ ~b.crossed => \A i \in DOMAIN ls : i > 1 => ls[i] = "enable"
        /\ b.late = <<>> => Head(ls) = "enable"
        /\ b.late # <<>> => Head(ls) = Head(b.late)
    <3>1. /\ ls \in Seq({"enable", "disable"}) /\ ls # <<>> /\ DOMAIN ls = 1 .. Len(b.late) + 1
          /\ \A i \in DOMAIN b.late : ls[i] = b.late[i]
          /\ \A i \in 1 .. Len(b.late) + 1 : i \notin DOMAIN b.late => ls[i] = "enable"
          /\ b.late = <<>> => ls = <<"enable">>
          /\ b.late # <<>> => Head(ls) = Head(b.late)
      BY <2>1, LateAppended
    <3> HIDE DEF ls
    <3> QED BY <1>1, <3>1 DEF InTurn
  <2>3. Searchbar!Enable(b) = e
    BY <1>2 DEF Searchbar!Enable
  <2> HIDE DEF ls
  <2>4. /\ e \in Bar /\ e.overlay = b.overlay /\ e.enabled = b.enabled /\ e.active = b.active /\ e.crossed = b.crossed
        /\ e.value = b.value /\ e.heard = b.heard /\ e.silent = b.silent /\ e.query = b.query
        /\ e.rows = b.rows /\ e.found = b.found /\ e.late = ls
    BY <1>1, <2>2 DEF Bar
  <2> HIDE DEF e
  <2>5. Lists(e) /\ Hears(e, e.query) /\ InTurn(e) /\ Overlaid(e)
    BY <1>1, <1>2, <2>2, <2>4 DEF Lists, Hears, InTurn, Overlaid
  <2>6. Waiting(e) <=> Waiting(b)
    BY <2>2, <2>4 DEF Waiting
  <2>7. Believes(e)
    BY <1>1, <2>4, <2>6 DEF Believes
  <2> QED BY <2>3, <2>4, <2>5, <2>7 DEF BarOK
<1>3. CASE ~barOpt.ios
  <2>1. ~Waiting(b)
    BY <1>1, <1>3 DEF InTurn, Waiting
  <2> QED BY <1>3, <2>1, BarEnabled DEF Searchbar!Enable
<1> QED BY <1>2, <1>3

LEMMA BarBlurred ==
    ASSUME NEW b \in Bar
    PROVE  LET e == Searchbar!Blurred(b)
           IN  /\ e \in Bar /\ ~e.focused /\ ~e.silent /\ (~e.heard => ~b.heard /\ ~b.silent)
               /\ e.overlay = b.overlay /\ e.enabled = b.enabled /\ e.active = b.active
               /\ e.crossed = b.crossed /\ e.value = b.value /\ e.query = b.query
               /\ e.rows = b.rows /\ e.found = b.found /\ e.late = b.late
<1> DEFINE h_ == b.heard \/ b.silent
           e == [b EXCEPT !.focused = FALSE, !.heard = h_, !.silent = FALSE]
<1>1. h_ \in BOOLEAN /\ (~h_ => ~b.heard /\ ~b.silent)
  BY Zenon
<1>2. Searchbar!Blurred(b) = e
  BY Zenon DEF Searchbar!Blurred
<1> HIDE DEF h_
<1>3. /\ e \in Bar /\ ~e.focused /\ ~e.silent /\ e.heard = h_
      /\ e.overlay = b.overlay /\ e.enabled = b.enabled /\ e.active = b.active
      /\ e.crossed = b.crossed /\ e.value = b.value /\ e.query = b.query
      /\ e.rows = b.rows /\ e.found = b.found /\ e.late = b.late
  BY <1>1 DEF Bar
<1> HIDE DEF e
<1> QED BY <1>1, <1>2, <1>3

\* The bar once it is disabled, which it looks already.
LEMMA BarDisabled ==
    ASSUME NEW b, b \in Bar, Lists(b), Hears(b, b.query), InTurn(b), Overlaid(b),
           ~b.crossed => ~b.enabled /\ ~Waiting(b)
    PROVE  BarOK(Searchbar!Disabled(b))
<1> DEFINE d == Searchbar!Blurred(b)
           e == [d EXCEPT !.active = FALSE]
<1>1. /\ d \in Bar /\ (~d.heard => ~b.heard /\ ~b.silent)
      /\ d.overlay = b.overlay /\ d.enabled = b.enabled
      /\ d.crossed = b.crossed /\ d.value = b.value /\ d.query = b.query
      /\ d.rows = b.rows /\ d.found = b.found /\ d.late = b.late
  BY BarBlurred
<1> HIDE DEF d
<1>2. Searchbar!Disabled(b) = e
  BY DEF Searchbar!Disabled, d
<1>3. /\ e \in Bar /\ ~e.active /\ e.heard = d.heard /\ e.silent = d.silent /\ e.overlay = d.overlay
      /\ e.enabled = d.enabled /\ e.crossed = d.crossed /\ e.value = d.value /\ e.query = d.query
      /\ e.rows = d.rows /\ e.found = d.found /\ e.late = d.late
  BY <1>1 DEF Bar
<1> HIDE DEF e
<1>4. Lists(e) /\ Hears(e, e.query) /\ InTurn(e) /\ Overlaid(e)
  BY <1>1, <1>3 DEF Lists, Hears, InTurn, Overlaid
<1>5. Believes(e)
  BY <1>1, <1>3 DEF Believes, Waiting
<1> QED BY <1>2, <1>3, <1>4, <1>5 DEF BarOK

LEMMA BarDisable ==
    ASSUME NEW b, BarOK(b)
    PROVE  BarOK(Searchbar!Disable(b))
<1> DEFINE c_ == b.crossed \/ b.late # <<>>
           d == [b EXCEPT !.value = "", !.heard = TRUE, !.silent = FALSE, !.enabled = FALSE,
                          !.notEmpty = FALSE, !.overlay = FALSE, !.crossed = c_]
           e == [d EXCEPT !.late = Append(@, "disable")]
<1>1. b \in Bar /\ Lists(b) /\ Hears(b, b.query) /\ InTurn(b) /\ Overlaid(b) /\ Believes(b)
  BY DEF BarOK
<1>2. c_ \in BOOLEAN /\ (~c_ => ~b.crossed /\ b.late = <<>>)
  BY Zenon
<1>3. Searchbar!Disable(b) = IF barOpt.ios THEN e ELSE Searchbar!Disabled(d)
  BY Zenon DEF Searchbar!Disable
<1>4. "" \in DOMAIN Matches
  BY AssumptionOfSearch DEF Searchbar!SearchAssumption
<1> HIDE DEF c_
<1>5. /\ d \in Bar /\ d.value = "" /\ d.heard /\ ~d.enabled /\ ~d.overlay /\ d.crossed = c_
      /\ d.query = b.query /\ d.rows = b.rows /\ d.found = b.found /\ d.late = b.late
  BY <1>1, <1>2, <1>4 DEF Bar
<1>6. e = [d EXCEPT !.late = Append(d.late, "disable")]
  BY <1>5 DEF Bar
<1> HIDE DEF d, e
<1>7. Lists(d) /\ Hears(d, d.query) /\ InTurn(d) /\ Overlaid(d)
  BY <1>1, <1>2, <1>5 DEF Lists, Hears, InTurn, Overlaid
<1>8. CASE barOpt.ios
  <2> DEFINE ls == Append(d.late, "disable")
  <2>1. ls \in Seq({"enable", "disable"}) /\ ls # <<>> /\ (~c_ => ls = <<"disable">>)
    <3>1. d.late \in Seq({"enable", "disable"}) /\ (~c_ => d.late = <<>>)
      BY <1>2, <1>5 DEF Bar
    <3> QED BY <3>1, LateAppended
  <2> HIDE DEF ls
  <2>2. e = [d EXCEPT !.late = ls]
    BY <1>6 DEF ls
  <2>3. /\ e \in Bar /\ e.heard = d.heard /\ e.silent = d.silent /\ e.overlay = d.overlay
        /\ e.enabled = d.enabled /\ e.crossed = d.crossed /\ e.value = d.value /\ e.query = d.query
        /\ e.rows = d.rows /\ e.found = d.found /\ e.late = ls
    BY <1>5, <2>1, <2>2 DEF Bar
  <2>4. Lists(e) /\ Hears(e, e.query) /\ Overlaid(e)
    BY <1>7, <2>3 DEF Lists, Hears, Overlaid
  <2>5. InTurn(e) /\ Believes(e)
    <3>1. ~e.crossed => e.late = <<"disable">>
      BY <1>5, <2>1, <2>3
    <3>2. ~e.enabled
      BY <1>5, <2>3
    <3> QED BY <1>8, <3>1, <3>2 DEF InTurn, Believes, Waiting
  <2> QED BY <1>3, <1>8, <2>3, <2>4, <2>5 DEF BarOK
<1>9. CASE ~barOpt.ios
  <2>1. d.late = <<>>
    BY <1>1, <1>5, <1>9 DEF InTurn
  <2>2. BarOK(Searchbar!Disabled(d))
    BY <1>5, <1>7, <2>1, BarDisabled DEF Waiting
  <2> QED BY <1>3, <1>9, <2>2
<1> QED BY <1>8, <1>9

LEMMA BarSearch ==
    ASSUME NEW b, NEW q \in DOMAIN Matches,
           b \in Bar, Lists(b), Hears(b, q), InTurn(b), Overlaid(b), Believes(b)
    PROVE  BarOK(Searchbar!Search(b, q))
<1>1. CASE q = b.query
  BY <1>1 DEF Searchbar!Search, BarOK
<1>2. CASE q # b.query
  <2> DEFINE n_ == (q # "")
             o_ == IF Searchbar!Listed /\ b.enabled THEN q = "" ELSE b.overlay
             r_ == IF Searchbar!Listed THEN Matches[q] ELSE b.rows
             f_ == IF Searchbar!Listed THEN Matches[q] # {} ELSE b.found
             e == [b EXCEPT !.query = q, !.notEmpty = n_, !.overlay = o_, !.rows = r_, !.found = f_]
  <2>1. b.overlay \in BOOLEAN /\ b.found \in BOOLEAN /\ b.rows \in {Matches[z] : z \in DOMAIN Matches}
    BY DEF Bar
  <2>2. n_ \in BOOLEAN
    BY Zenon
  <2>3. o_ \in BOOLEAN /\ (Searchbar!Listed /\ b.enabled => (o_ <=> q = "")) /\ (~b.enabled => o_ = b.overlay)
    <3>1. CASE Searchbar!Listed /\ b.enabled
      BY <3>1, Zenon
    <3>2. CASE ~(Searchbar!Listed /\ b.enabled)
      BY <2>1, <3>2, Zenon
    <3> QED BY <3>1, <3>2
  <2>4. f_ \in BOOLEAN /\ (Searchbar!Listed => (f_ <=> Matches[q] # {}))
    <3>1. CASE Searchbar!Listed
      BY <3>1, Zenon
    <3>2. CASE ~Searchbar!Listed
      BY <2>1, <3>2, Zenon
    <3> QED BY <3>1, <3>2
  <2>5. r_ \in {Matches[z] : z \in DOMAIN Matches} /\ (Searchbar!Listed => r_ = Matches[q])
    BY <2>1
  <2>6. Searchbar!Search(b, q) = e
    BY <1>2, Zenon DEF Searchbar!Search
  <2> HIDE DEF n_, o_, r_, f_
  <2>7. /\ e \in Bar /\ e.heard = b.heard /\ e.silent = b.silent /\ e.overlay = o_
        /\ e.enabled = b.enabled /\ e.active = b.active /\ e.crossed = b.crossed /\ e.value = b.value /\ e.query = q
        /\ e.rows = r_ /\ e.found = f_ /\ e.late = b.late
    BY <2>2, <2>3, <2>4, <2>5 DEF Bar
  <2> HIDE DEF e
  <2>8. Lists(e) /\ Hears(e, e.query) /\ InTurn(e) /\ Believes(e)
    BY <2>4, <2>5, <2>7 DEF Lists, Hears, InTurn, Believes, Waiting
  <2>9. Overlaid(e)
    BY <2>3, <2>7 DEF Overlaid
  <2> QED BY <2>6, <2>7, <2>8, <2>9 DEF BarOK
<1> QED BY <1>1, <1>2


\* What the user, the page and the timeouts make of the bar.
LEMMA BarFocus ==
    ASSUME NEW b, BarOK(b)
    PROVE  BarOK(Searchbar!Focus(b))
<1> DEFINE e == [b EXCEPT !.focused = TRUE]
<1>1. b \in Bar
  BY DEF BarOK
<1>2. /\ e \in Bar /\ e.heard = b.heard /\ e.silent = b.silent /\ e.overlay = b.overlay /\ e.enabled = b.enabled
      /\ e.active = b.active /\ e.crossed = b.crossed /\ e.value = b.value /\ e.query = b.query
      /\ e.rows = b.rows /\ e.found = b.found /\ e.late = b.late
  BY <1>1 DEF Bar
<1>3. Searchbar!Focus(b) = IF b.focused THEN b ELSE Searchbar!Enable(e)
  BY DEF Searchbar!Focus
<1> HIDE DEF e
<1>4. BarOK(e)
  BY <1>2 DEF BarOK, Lists, Hears, InTurn, Overlaid, Believes, Waiting
<1> QED BY <1>3, <1>4, BarEnable

\* The input holds v, which is to be heard, or was pasted without an event.
LEMMA BarWritten ==
    ASSUME NEW b, BarOK(b), NEW v \in DOMAIN Matches, NEW h \in BOOLEAN, NEW s \in BOOLEAN, h \/ s
    PROVE  BarOK([b EXCEPT !.value = v, !.heard = h, !.silent = s])
<1> DEFINE e == [b EXCEPT !.value = v, !.heard = h, !.silent = s]
<1>1. b \in Bar
  BY DEF BarOK
<1>2. /\ e \in Bar /\ e.heard = h /\ e.silent = s /\ e.overlay = b.overlay /\ e.enabled = b.enabled
      /\ e.active = b.active /\ e.crossed = b.crossed /\ e.value = v /\ e.query = b.query
      /\ e.rows = b.rows /\ e.found = b.found /\ e.late = b.late
  BY <1>1 DEF Bar
<1> HIDE DEF e
<1>3. BarOK(e)
  BY <1>2 DEF BarOK, Lists, Hears, InTurn, Overlaid, Believes, Waiting
<1> QED BY <1>3 DEF e

LEMMA BarSearchFor ==
    ASSUME NEW b, BarOK(b), NEW q \in DOMAIN Matches
    PROVE  BarOK(Searchbar!SearchFor(b, q))
<1> DEFINE e == IF b.active THEN b ELSE Searchbar!Enable(b)
           d == [e EXCEPT !.value = q, !.silent = FALSE]
<1>1. BarOK(e)
  BY BarEnable
<1>2. Searchbar!SearchFor(b, q) = IF q = b.query THEN b ELSE Searchbar!Search(d, q)
  BY DEF Searchbar!SearchFor
<1> HIDE DEF e
<1>3. /\ d \in Bar /\ d.heard = e.heard /\ d.silent = FALSE /\ d.overlay = e.overlay /\ d.enabled = e.enabled
      /\ d.active = e.active /\ d.crossed = e.crossed /\ d.value = q /\ d.query = e.query
      /\ d.rows = e.rows /\ d.found = e.found /\ d.late = e.late
  BY <1>1 DEF Bar, BarOK
<1> HIDE DEF d
<1>4. Lists(d) /\ Hears(d, q) /\ InTurn(d) /\ Overlaid(d) /\ Believes(d)
  BY <1>1, <1>3 DEF BarOK, Lists, Hears, InTurn, Overlaid, Believes, Waiting
<1> QED BY <1>2, <1>3, <1>4, BarSearch

LEMMA BarClear ==
    ASSUME NEW b, BarOK(b)
    PROVE  BarOK(Searchbar!Clear(b))
<1>1. "" \in DOMAIN Matches
  BY AssumptionOfSearch DEF Searchbar!SearchAssumption
<1>2. BarOK([b EXCEPT !.value = "", !.heard = TRUE, !.silent = FALSE])
  BY <1>1, BarWritten
<1> QED BY <1>2, BarDisable, BarFocus DEF Searchbar!Clear

\* The bar becomes what the step says.
LEMMA BarBecomes ==
    ASSUME NEW b, BarOK(b), Searchbar!Become(b), SearchInv
    PROVE  SearchInv'
<1>1. b \in Bar
  BY DEF BarOK
<1>2. Searchbar!B' = b /\ barOpt' = barOpt
  BY <1>1 DEF Searchbar!Become, Searchbar!B, Bar
<1>3. Searchbar!Listed' <=> Searchbar!Listed
  BY <1>2 DEF Searchbar!Listed
<1> QED BY <1>2, <1>3 DEF SearchInv, BarOK, Bar, Lists, Hears, InTurn, Overlaid, Believes, Waiting

LEMMA SearchNext ==
    ASSUME SearchInv, Searchbar!Next
    PROVE  SearchInv'
<1> DEFINE b == Searchbar!B
<1>1. BarOK(b) /\ b \in Bar
  BY DEF SearchInv, BarOK
<1>2. b.value = value /\ b.late = late /\ b.heard = searchHeard /\ b.silent = silent
  BY DEF Searchbar!B
<1>3. ASSUME Searchbar!Input PROVE SearchInv'
  <2> DEFINE e == [b EXCEPT !.heard = FALSE]
  <2>1. Searchbar!Become(Searchbar!Search(e, value))
    BY <1>3 DEF Searchbar!Input
  <2> HIDE DEF b
  <2>2. /\ e \in Bar /\ e.heard = FALSE /\ e.silent = b.silent /\ e.overlay = b.overlay /\ e.enabled = b.enabled
        /\ e.active = b.active /\ e.crossed = b.crossed /\ e.value = value /\ e.query = b.query
        /\ e.rows = b.rows /\ e.found = b.found /\ e.late = b.late /\ value \in DOMAIN Matches
    BY <1>1, <1>2 DEF Bar
  <2> HIDE DEF e
  <2>3. Lists(e) /\ Hears(e, value) /\ InTurn(e) /\ Overlaid(e) /\ Believes(e)
    BY <1>1, <2>2 DEF BarOK, Lists, Hears, InTurn, Overlaid, Believes, Waiting
  <2>4. BarOK(Searchbar!Search(e, value))
    BY <2>2, <2>3, BarSearch
  <2> QED BY <2>1, <2>4, BarBecomes
<1>4. ASSUME Searchbar!Late PROVE SearchInv'
  <2> DEFINE ls == Tail(late)
             e == [b EXCEPT !.late = ls]
  <2>1. /\ late # <<>>
        /\ Searchbar!Become(IF Head(late) = "enable" THEN Searchbar!Enabled(e) ELSE Searchbar!Disabled(e))
    <3>1. [b EXCEPT !.late = Tail(@)] = e
      BY <1>2 DEF Searchbar!B
    <3> QED BY <1>4, <3>1 DEF Searchbar!Late
  <2>2. late \in Seq({"enable", "disable"})
    BY <1>1, <1>2 DEF Bar
  <2>3. /\ ls \in Seq({"enable", "disable"}) /\ Head(late) \in {"enable", "disable"}
        /\ \A i \in DOMAIN ls : i + 1 \in DOMAIN late /\ i + 1 > 1 /\ ls[i] = late[i + 1]
        /\ ls # <<>> => Head(ls) = ls[1] /\ 1 \in DOMAIN ls
        /\ \A i \in DOMAIN ls : i \in Nat
    BY <2>1, <2>2, LateHeard
  <2> HIDE DEF ls, b
  <2>4. /\ e \in Bar /\ e.heard = b.heard /\ e.silent = b.silent /\ e.overlay = b.overlay /\ e.enabled = b.enabled
        /\ e.active = b.active /\ e.crossed = b.crossed /\ e.value = b.value /\ e.query = b.query
        /\ e.rows = b.rows /\ e.found = b.found /\ e.late = ls
    BY <1>1, <2>3 DEF Bar
  <2> HIDE DEF e
  <2>5. ~b.crossed => \A i \in DOMAIN ls : ls[i] = "enable"
    BY <1>1, <1>2, <2>3 DEF BarOK, InTurn
  <2>6. Lists(e) /\ Hears(e, e.query) /\ Overlaid(e)
    BY <1>1, <2>4 DEF BarOK, Lists, Hears, Overlaid
  <2>7. InTurn(e) /\ barOpt.ios
    BY <1>1, <1>2, <2>1, <2>4, <2>5 DEF BarOK, InTurn
  <2>8. ~e.crossed => ~Waiting(e)
    BY <2>3, <2>4, <2>5 DEF Waiting
  <2>9. CASE Head(late) = "enable"
    <3>1. ~Waiting(b)
      BY <1>2, <2>9 DEF Waiting
    <3>2. Believes(e)
      BY <1>1, <2>4, <2>8, <3>1 DEF BarOK, Believes
    <3>3. BarOK(Searchbar!Enabled(e))
      <4>1. BarOK(e)
        BY <2>4, <2>6, <2>7, <3>2 DEF BarOK
      <4> QED BY <4>1, <2>8, BarEnabled
    <3> QED BY <2>1, <2>9, <3>3, BarBecomes
  <2>10. CASE Head(late) = "disable"
    <3>1. Waiting(b)
      BY <1>2, <2>1, <2>10 DEF Waiting
    <3>2. ~e.crossed => ~e.enabled
      BY <1>1, <2>4, <3>1 DEF BarOK, Believes
    <3>3. BarOK(Searchbar!Disabled(e))
      BY <2>4, <2>6, <2>7, <2>8, <3>2, BarDisabled
    <3> QED BY <2>1, <2>10, <3>3, BarBecomes
  <2> QED BY <2>3, <2>9, <2>10
<1>5. ASSUME Searchbar!Leaves PROVE SearchInv'
  <2> DEFINE e == Searchbar!Blurred(b)
  <2>1. Searchbar!Become(e)
    BY <1>5 DEF Searchbar!Leaves
  <2> HIDE DEF b
  <2>2. /\ e \in Bar /\ (~e.heard => ~b.heard /\ ~b.silent)
        /\ e.overlay = b.overlay /\ e.enabled = b.enabled /\ e.active = b.active
        /\ e.crossed = b.crossed /\ e.value = b.value /\ e.query = b.query
        /\ e.rows = b.rows /\ e.found = b.found /\ e.late = b.late
    BY <1>1, BarBlurred
  <2> HIDE DEF e
  <2>3. BarOK(e)
    BY <1>1, <2>2 DEF BarOK, Lists, Hears, InTurn, Overlaid, Believes, Waiting
  <2> QED BY <2>1, <2>3, BarBecomes
<1>6. ASSUME Searchbar!Tapped PROVE SearchInv'
  BY <1>1, <1>6, BarFocus, BarBecomes DEF Searchbar!Tapped
<1>7. ASSUME Searchbar!TapClear PROVE SearchInv'
  BY <1>1, <1>7, BarClear, BarBecomes DEF Searchbar!TapClear
<1>8. ASSUME Searchbar!Cancel PROVE SearchInv'
  BY <1>1, <1>8, BarDisable, BarBecomes DEF Searchbar!Cancel
<1>9. ASSUME NEW q \in DOMAIN Matches, Searchbar!Type(q) PROVE SearchInv'
  BY <1>1, <1>9, BarWritten, BarBecomes DEF Searchbar!Type
<1>10. ASSUME NEW q \in DOMAIN Matches, Searchbar!Paste(q) PROVE SearchInv'
  <2> DEFINE e == [b EXCEPT !.value = q, !.silent = TRUE]
             d == [b EXCEPT !.value = q, !.heard = b.heard, !.silent = TRUE]
  <2>1. Searchbar!Become(e)
    BY <1>10 DEF Searchbar!Paste
  <2> HIDE DEF b
  <2>2. b.heard \in BOOLEAN /\ e = d
    BY <1>1 DEF Bar
  <2>3. BarOK(d)
    BY <1>1, <2>2, BarWritten
  <2> QED BY <2>1, <2>2, <2>3, BarBecomes
<1>11. ASSUME NEW q \in DOMAIN Matches, Searchbar!PageSearches(q) PROVE SearchInv'
  BY <1>1, <1>11, BarSearchFor, BarBecomes DEF Searchbar!PageSearches
<1> QED
  BY <1>3, <1>4, <1>5, <1>6, <1>7, <1>8, <1>9, <1>10, <1>11 DEF Searchbar!Next, Searchbar!Query

-----------------------------------------------------------------------------
(* The tooltip.                                                            *)

Waiter == {"shown", "hidden", "gone"}
Awaits(w, s) == \E i \in DOMAIN s : s[i] = w

\* What has the fields of a tooltip.
Tip == [hoverState : {"in", "out", NULL}, timeout : {"show", "hide", NULL}, attached : BOOLEAN,
        shown : BOOLEAN, fades : BOOLEAN, waits : Seq(Waiter), dead : BOOLEAN, odd : BOOLEAN, caught : BOOLEAN]

\* Who is told of the end of a transition was waiting for it when nobody waits for the
\* next one.  The pointer is where hoverState says, until the tip is destroyed, a timeout
\* is set to hide as long as it says "out", and the tip that a timeout shall show is not
\* there yet.
Timed(t, o, h) ==
    /\ h # <<>> => t.waits = <<>>
    /\ t.hoverState = "out" => t.timeout = "hide" /\ tooltipOpt.hide
    /\ ~t.dead => (t.hoverState = "out" => ~o) /\ (t.hoverState = "in" => o)
    /\ t.timeout = "show" => ~t.attached

\* Who waits for a tip to go finds it hovered, as long as it is shown, for it was shown
\* again since; and nobody hides it between that and the end of its own transition.
Hides(s) == Awaits("hidden", s) \/ Awaits("gone", s)
ShownLast(s) == \A i \in DOMAIN s : s[i] = "shown" => i = Len(s)
Kept(t, s) == Hides(s) => t.hoverState # NULL /\ ShownLast(s)

\* A tip that fades is one that was shown, who waits to see it shown waits for one that is
\* there, and one that was left is hidden later or is going.
Fading(t, o, h) ==
    /\ ~t.fades => ~t.attached /\ ~t.shown /\ t.waits = <<>> /\ h = <<>>
    /\ ~t.attached => ~Awaits("shown", t.waits) /\ (Awaits("shown", h) => t.hoverState # "in")
    /\ ~t.dead /\ ~o /\ t.attached => t.hoverState = "out" \/ Hides(t.waits) \/ Hides(h)
    /\ t.shown /\ t.attached => Kept(t, t.waits) /\ Kept(t, h)

\* One that is hovered is shown, or will be, or is being destroyed.
Hovered(t, o, h) ==
    o /\ ~t.dead /\ ~t.odd =>
        \/ t.shown /\ t.attached
        \/ t.timeout = "show" /\ t.hoverState = "in"
        \/ Awaits("gone", t.waits) \/ Awaits("gone", h)

\* One that is being destroyed goes, unless it is hovered again.
Destroyed(t, h) ==
    ~t.caught => /\ t.dead \/ Awaits("gone", t.waits) \/ Awaits("gone", h) => t.hoverState # "in"
                 /\ t.dead => ~t.attached

TipOK(t, o, h) ==
    /\ t \in Tip /\ o \in BOOLEAN /\ h \in Seq(Waiter)
    /\ Timed(t, o, h) /\ Fading(t, o, h) /\ Hovered(t, o, h) /\ Destroyed(t, h)
TipInv == TipOK(Tooltip!T, over, hears)

\* Who waits.
LEMMA AwaitsNone == <<>> \in Seq(Waiter) /\ \A w : ~Awaits(w, <<>>)
<1>1. <<>> \in Seq(Waiter) /\ Len(<<>>) = 0
  BY EmptySeq
<1>2. \A i \in DOMAIN <<>> : FALSE
  BY <1>1
<1> QED BY <1>1, <1>2, Zenon DEF Awaits

LEMMA AwaitsOneMore ==
    ASSUME NEW s \in Seq(Waiter), NEW x \in Waiter
    PROVE  Append(s, x) \in Seq(Waiter) /\ \A w : Awaits(w, Append(s, x)) <=> Awaits(w, s) \/ w = x
<1> DEFINE a == Append(s, x)
<1>1. a \in Seq(Waiter) /\ Len(a) = Len(s) + 1 /\ a[Len(s) + 1] = x /\ \A i \in 1..Len(s) : a[i] = s[i]
  BY AppendProperties
<1>2. DOMAIN s = 1..Len(s) /\ Len(s) \in Nat /\ DOMAIN a = 1..Len(a)
  BY <1>1
<1>3. DOMAIN a = DOMAIN s \cup {Len(s) + 1}
  BY <1>1, <1>2
<1> HIDE DEF a
<1>4. \A w : Awaits(w, a) <=> Awaits(w, s) \/ w = x
  BY <1>1, <1>2, <1>3 DEF Awaits
<1> QED BY <1>1, <1>4 DEF a

LEMMA AwaitsOneLess ==
    ASSUME NEW s \in Seq(Waiter), s # <<>>
    PROVE  /\ Head(s) \in Waiter /\ Tail(s) \in Seq(Waiter)
           /\ \A w : Awaits(w, s) <=> w = Head(s) \/ Awaits(w, Tail(s))
<1> DEFINE a == Tail(s)
<1>1. Len(s) \in Nat /\ Len(s) # 0 /\ DOMAIN s = 1..Len(s)
  BY EmptySeq
<1>2. Head(s) \in Waiter /\ a \in Seq(Waiter) /\ Len(a) = Len(s) - 1 /\ Head(s) = s[1]
      /\ \A i \in 1..Len(a) : a[i] = s[i + 1]
  BY HeadTailProperties
<1>3. DOMAIN a = 1..Len(a)
  BY <1>2
<1> HIDE DEF a
<1>4. ASSUME NEW w, Awaits(w, s) PROVE w = s[1] \/ Awaits(w, a)
  <2>1. PICK i \in 1..Len(s) : s[i] = w
    BY <1>1, <1>4 DEF Awaits
  <2>2. CASE i # 1
    <3>1. i - 1 \in 1..Len(a) /\ a[i - 1] = s[i]
      BY <1>1, <1>2, <2>2
    <3> QED BY <1>3, <2>1, <3>1 DEF Awaits
  <2> QED BY <2>1, <2>2
<1>5. ASSUME NEW w, w = s[1] \/ Awaits(w, a) PROVE Awaits(w, s)
  <2>1. CASE w = s[1]
    BY <1>1, <2>1 DEF Awaits
  <2>2. CASE Awaits(w, a)
    <3>1. PICK i \in 1..Len(a) : a[i] = w
      BY <1>3, <2>2 DEF Awaits
    <3>2. i + 1 \in 1..Len(s) /\ s[i + 1] = w
      BY <1>1, <1>2, <3>1
    <3> QED BY <1>1, <3>2 DEF Awaits
  <2> QED BY <1>5, <2>1, <2>2
<1> QED BY <1>2, <1>4, <1>5 DEF a

\* Who is shown last stays so: of those who wait one less, or one more to see it shown.
LEMMA KeptNone == \A t : Kept(t, <<>>)
  BY AwaitsNone DEF Kept, Hides

LEMMA ShownLastOneMore ==
    ASSUME NEW s \in Seq(Waiter), ~Awaits("shown", s)
    PROVE  ShownLast(Append(s, "shown"))
<1> DEFINE a == Append(s, "shown")
<1>1. a \in Seq(Waiter) /\ Len(a) = Len(s) + 1 /\ \A i \in 1..Len(s) : a[i] = s[i]
  BY AppendProperties DEF Waiter
<1>2. DOMAIN s = 1..Len(s) /\ Len(s) \in Nat /\ DOMAIN a = 1..Len(a)
  BY <1>1
<1> HIDE DEF a
<1>3. ASSUME NEW i \in DOMAIN a, a[i] = "shown" PROVE i = Len(a)
  <2>1. CASE i \in 1..Len(s)
    BY <1>1, <1>2, <1>3, <2>1 DEF Awaits
  <2>2. CASE i \notin 1..Len(s)
    BY <1>1, <1>2, <2>2
  <2> QED BY <2>1, <2>2
<1> QED BY <1>3 DEF ShownLast, a

LEMMA ShownLastOneLess ==
    ASSUME NEW s \in Seq(Waiter), s # <<>>, ShownLast(s)
    PROVE  ShownLast(Tail(s)) /\ (Head(s) = "shown" => \A w : ~Awaits(w, Tail(s)))
<1> DEFINE a == Tail(s)
<1>1. Len(s) \in Nat /\ Len(s) # 0 /\ DOMAIN s = 1..Len(s)
  BY EmptySeq
<1>2. a \in Seq(Waiter) /\ Len(a) = Len(s) - 1 /\ Head(s) = s[1] /\ \A i \in 1..Len(a) : a[i] = s[i + 1]
  BY HeadTailProperties
<1>3. DOMAIN a = 1..Len(a)
  BY <1>2
<1> HIDE DEF a
<1>4. ASSUME NEW i \in DOMAIN a, a[i] = "shown" PROVE i = Len(a)
  <2>1. i + 1 \in DOMAIN s /\ s[i + 1] = "shown" /\ i \in Int
    BY <1>1, <1>2, <1>3, <1>4
  <2>2. i + 1 = Len(s)
    BY <2>1 DEF ShownLast
  <2> QED BY <1>1, <1>2, <2>1, <2>2
<1>5. ASSUME Head(s) = "shown", NEW w PROVE ~Awaits(w, a)
  <2>1. 1 \in DOMAIN s /\ s[1] = "shown"
    BY <1>1, <1>2, <1>5
  <2>2. Len(s) = 1
    BY <2>1 DEF ShownLast
  <2>3. DOMAIN a = {}
    BY <1>2, <1>3, <2>2
  <2> QED BY <2>3 DEF Awaits
<1> QED BY <1>4, <1>5 DEF ShownLast, a

LEMMA TipInit == Tooltip!Init => TipInv
<1> SUFFICES ASSUME Tooltip!Init PROVE TipInv
  OBVIOUS
<1> DEFINE t == Tooltip!T
<1>1. t = [hoverState |-> NULL, timeout |-> NULL, attached |-> FALSE, shown |-> FALSE, fades |-> FALSE,
           waits |-> <<>>, dead |-> FALSE, odd |-> FALSE, caught |-> FALSE]
      /\ over = FALSE /\ hears = <<>>
  BY DEF Tooltip!Init, Tooltip!T
<1>2. t \in Tip
  BY <1>1, AwaitsNone DEF Tip
<1>3. t.hoverState = NULL /\ t.timeout = NULL /\ ~t.attached /\ ~t.shown /\ t.waits = <<>> /\ ~t.dead
  BY <1>1
<1> HIDE DEF t
<1>4. Timed(t, over, hears) /\ Fading(t, over, hears) /\ Hovered(t, over, hears) /\ Destroyed(t, hears)
  BY <1>1, <1>3, AssumptionOfTips, AwaitsNone DEF Timed, Fading, Hovered, Destroyed, Tooltip!TipAssumption
<1> QED BY <1>1, <1>2, <1>4, AwaitsNone DEF TipInv, TipOK, t

\* A destroyed tip does not know where the pointer is.
LEMMA TipDead ==
    ASSUME NEW t, NEW o, NEW h, TipOK(t, o, h), t.dead, NEW n \in BOOLEAN
    PROVE  TipOK(t, n, h)
  BY DEF TipOK, Timed, Fading, Hovered

\* Where a tip that shall hide ends up.
LEMMA TipHides ==
    ASSUME NEW t \in Tip, NEW kind \in {"hidden", "gone"}, ~t.fades => ~t.attached /\ ~t.shown
    PROVE  LET e == Tooltip!Hide(t, kind)
           IN  /\ e \in Tip /\ e.hoverState = NULL /\ e.timeout = t.timeout /\ e.odd = t.odd
               /\ ~e.shown /\ (e.fades <=> t.fades) /\ (e.caught <=> t.caught) /\ (e.attached <=> t.attached)
               /\ t.fades => (e.dead <=> t.dead) /\ e.waits = Append(t.waits, kind)
               /\ ~t.fades => (e.dead <=> t.dead \/ kind = "gone") /\ e.waits = t.waits
<1> DEFINE e == Tooltip!Hide(t, kind)
<1>1. /\ t.attached \in BOOLEAN /\ t.shown \in BOOLEAN /\ t.dead \in BOOLEAN /\ t.odd \in BOOLEAN
      /\ t.fades \in BOOLEAN /\ t.caught \in BOOLEAN
      /\ t.waits \in Seq(Waiter) /\ t.timeout \in {"show", "hide", NULL}
  BY DEF Tip
<1>2. CASE t.fades
  <2> DEFINE w == Append(t.waits, kind)
  <2>1. w \in Seq(Waiter)
    BY <1>1, AwaitsOneMore DEF Waiter
  <2>2. e = [t EXCEPT !.shown = FALSE, !.waits = w, !.hoverState = NULL]
    BY <1>2 DEF Tooltip!Hide
  <2> HIDE DEF e, w
  <2>3. /\ e \in Tip /\ e.hoverState = NULL /\ e.timeout = t.timeout /\ e.odd = t.odd
        /\ e.shown = FALSE /\ e.attached = t.attached /\ e.dead = t.dead /\ e.waits = w
        /\ e.fades = t.fades /\ e.caught = t.caught
    BY <2>1, <2>2 DEF Tip
  <2> QED BY <1>2, <2>3 DEF e, w
<1>3. CASE ~t.fades
  <2> DEFINE a == IF t.hoverState = "in" THEN t.attached ELSE FALSE
             x == t.dead \/ kind = "gone"
  <2>1. a \in BOOLEAN /\ ~a /\ x \in BOOLEAN /\ ~t.attached /\ ~t.shown
    BY <1>1, <1>3
  <2>2. e = [t EXCEPT !.attached = a, !.hoverState = NULL, !.dead = x]
    BY <1>3 DEF Tooltip!Hide, Tooltip!HideCompletes, Tip
  <2>3. x <=> t.dead \/ kind = "gone"
    OBVIOUS
  <2> HIDE DEF e, a, x
  <2>4. /\ e \in Tip /\ e.hoverState = NULL /\ e.timeout = t.timeout /\ e.odd = t.odd
        /\ e.shown = t.shown /\ e.attached = a /\ e.dead = x /\ e.waits = t.waits
        /\ e.fades = t.fades /\ e.caught = t.caught
    BY <2>1, <2>2 DEF Tip
  <2>5. ~e.shown /\ ~e.attached
    BY <2>1, <2>4, Zenon
  <2>6. e.dead <=> t.dead \/ kind = "gone"
    BY <2>3, <2>4, Zenon
  <2> QED BY <1>3, <2>1, <2>4, <2>5, <2>6 DEF e
<1> QED BY <1>1, <1>2, <1>3

\* What is shown when the tip is not there: it is then, whoever waits for it to go.
LEMMA TipShows ==
    ASSUME NEW t \in Tip, NEW o \in BOOLEAN, tooltipEnabled, t.hoverState = "in", t.timeout = NULL, ~t.attached,
           ~Awaits("shown", t.waits), t.dead \/ o,
           ~t.caught => ~t.dead /\ ~Awaits("gone", t.waits)
    PROVE  TipOK(Tooltip!Show(t), o, <<>>)
<1> DEFINE e == Tooltip!Show(t)
           w == Append(t.waits, "shown")
<1>1. "in" # "out" /\ NULL # "show" /\ NULL # "in" /\ "gone" # "shown"
  BY AssumptionOfTips DEF Tooltip!TipAssumption
<1>2. t.waits \in Seq(Waiter) /\ "shown" \in Waiter
  BY DEF Tip, Waiter
<1>3. w \in Seq(Waiter) /\ ShownLast(w) /\ (Awaits("gone", w) <=> Awaits("gone", t.waits))
  <2>1. w \in Seq(Waiter) /\ \A y : Awaits(y, w) <=> Awaits(y, t.waits) \/ y = "shown"
    BY <1>2, AwaitsOneMore
  <2>2. ShownLast(w)
    BY <1>2, ShownLastOneMore
  <2> HIDE DEF w
  <2> QED BY <1>1, <2>1, <2>2
<1>4. e = [t EXCEPT !.attached = TRUE, !.shown = TRUE, !.fades = TRUE, !.waits = w]
  BY DEF Tooltip!Show
<1> HIDE DEF e, w
<1>5. e \in Tip /\ e.attached /\ e.shown /\ e.fades /\ e.waits = w /\ e.hoverState = "in" /\ e.timeout = NULL
      /\ e.caught = t.caught /\ e.dead = t.dead
  BY <1>3, <1>4 DEF Tip
<1>6. Timed(e, o, <<>>)
  BY <1>1, <1>5 DEF Timed
<1>7. Fading(e, o, <<>>)
  <2>1. Kept(e, w)
    BY <1>1, <1>3, <1>5 DEF Kept
  <2>2. ~e.dead => o
    BY <1>5, Zenon
  <2> QED BY <1>5, <2>1, <2>2, KeptNone DEF Fading
<1>8. Hovered(e, o, <<>>)
  BY <1>5 DEF Hovered
<1>9. Destroyed(e, <<>>)
  <2>1. (e.caught <=> t.caught) /\ (e.dead <=> t.dead)
    BY <1>5, Zenon
  <2> QED BY <1>3, <1>5, <2>1, AwaitsNone DEF Destroyed
<1> QED BY <1>5, <1>6, <1>7, <1>8, <1>9, AwaitsNone DEF TipOK, e

\* Hiding a tip that nobody hovers, or that is destroyed, is right whatever it says.
LEMMA TipHidden ==
    ASSUME NEW t \in Tip, NEW o \in BOOLEAN, NEW kind \in {"hidden", "gone"}, kind = "gone" \/ t.dead \/ ~o,
           t.timeout = "show" => ~t.attached, ~t.fades => ~t.attached /\ ~t.shown /\ t.waits = <<>>,
           ~t.attached => ~Awaits("shown", t.waits), ~t.caught /\ t.dead => ~t.attached
    PROVE  TipOK(Tooltip!Hide(t, kind), o, <<>>)
<1> DEFINE e == Tooltip!Hide(t, kind)
<1>1. /\ e \in Tip /\ e.hoverState = NULL /\ e.timeout = t.timeout
      /\ ~e.shown /\ (e.fades <=> t.fades) /\ (e.caught <=> t.caught) /\ (e.attached <=> t.attached)
      /\ t.fades => (e.dead <=> t.dead) /\ e.waits = Append(t.waits, kind)
      /\ ~t.fades => (e.dead <=> t.dead \/ kind = "gone") /\ e.waits = t.waits
  BY TipHides
<1>2. t.waits \in Seq(Waiter) /\ kind \in Waiter /\ kind # "shown"
  BY DEF Tip, Waiter
<1> HIDE DEF e
<1>3. t.fades => Awaits(kind, e.waits) /\ (Awaits("shown", e.waits) <=> Awaits("shown", t.waits))
  <2>1. \A y : Awaits(y, Append(t.waits, kind)) <=> Awaits(y, t.waits) \/ y = kind
    BY <1>2, AwaitsOneMore
  <2> QED BY <1>1, <1>2, <2>1
<1>4. NULL # "in" /\ NULL # "out"
  BY AssumptionOfTips DEF Tooltip!TipAssumption
<1>5. Timed(e, o, <<>>)
  BY <1>1, <1>4 DEF Timed
<1>6. Fading(e, o, <<>>)
  BY <1>1, <1>2, <1>3, AwaitsNone DEF Fading, Hides
<1>7. Hovered(e, o, <<>>)
  <2>1. SUFFICES ASSUME o, ~e.dead PROVE Awaits("gone", e.waits)
    BY DEF Hovered
  <2>2. ~t.dead
    BY <1>1, <2>1
  <2>3. kind = "gone" /\ t.fades
    BY <1>1, <2>1, <2>2
  <2> QED BY <1>3, <2>3
<1>8. Destroyed(e, <<>>)
  BY <1>1, <1>4 DEF Destroyed
<1> QED BY <1>1, <1>5, <1>6, <1>7, <1>8, AwaitsNone DEF TipOK, e

\* The pointer comes.
LEMMA TipEnters ==
    ASSUME NEW t, NEW o, TipOK(t, o, <<>>), ~t.dead
    PROVE  TipOK(Tooltip!Enter(t), TRUE, <<>>)
<1> DEFINE y == t.caught \/ Tooltip!Going(t)
           z == [t EXCEPT !.hoverState = "in", !.caught = y]
           e == Tooltip!Enter(t)
<1>1. t \in Tip /\ Timed(t, o, <<>>) /\ Fading(t, o, <<>>) /\ Destroyed(t, <<>>)
  BY DEF TipOK
<1>2. /\ t.attached \in BOOLEAN /\ t.shown \in BOOLEAN /\ t.odd \in BOOLEAN /\ t.fades \in BOOLEAN
      /\ t.waits \in Seq(Waiter) /\ t.timeout \in {"show", "hide", NULL} /\ t.caught \in BOOLEAN
  BY <1>1 DEF Tip
<1>3. "in" # "out" /\ "in" # NULL /\ "hide" # "show" /\ NULL # "show"
  BY AssumptionOfTips DEF Tooltip!TipAssumption
<1>4. y \in BOOLEAN /\ (~y => ~Awaits("gone", t.waits))
  BY DEF Awaits, Tooltip!Going
<1>5. e = IF z.attached
          THEN [z EXCEPT !.odd = @ \/ ~z.shown]
          ELSE IF tooltipOpt.show THEN [z EXCEPT !.timeout = "show"] ELSE Tooltip!Show([z EXCEPT !.timeout = NULL])
  <2>1. z = [t EXCEPT !.hoverState = "in", !.caught = @ \/ Tooltip!Going(t)]
    BY <1>1 DEF Tip
  <2>2. z.attached = t.attached /\ z.shown = t.shown
    BY <1>1 DEF Tip
  <2> QED BY <2>1, <2>2, Zenon DEF Tooltip!Enter
<1> HIDE DEF y
<1>6. z \in Tip /\ z.hoverState = "in" /\ z.timeout = t.timeout /\ z.attached = t.attached /\ z.fades = t.fades
      /\ z.shown = t.shown /\ z.waits = t.waits /\ z.odd = t.odd /\ z.caught = y /\ z.dead = t.dead
  BY <1>1, <1>4 DEF Tip
<1> HIDE DEF z, e
<1>7. ~z.dead /\ (z.attached <=> t.attached) /\ (z.fades <=> t.fades) /\ (z.shown <=> t.shown)
      /\ (~z.caught => ~Awaits("gone", z.waits))
  BY <1>4, <1>6, Zenon
<1>8. ASSUME NEW d, d \in Tip, d.hoverState = "in", d.timeout \in {t.timeout, "show", NULL},
             d.timeout = "show" => ~t.attached,
             d.attached = z.attached, d.fades = z.fades, d.shown = z.shown, d.waits = z.waits, d.caught = z.caught,
             d.dead = z.dead, d.odd \/ (d.shown /\ d.attached) \/ d.timeout = "show"
      PROVE  TipOK(d, TRUE, <<>>)
  <2>1. (d.attached <=> t.attached) /\ (d.fades <=> t.fades) /\ (d.shown <=> t.shown) /\ ~d.dead
        /\ (~d.caught => ~Awaits("gone", d.waits)) /\ d.waits = t.waits
    BY <1>6, <1>7, <1>8, Zenon
  <2>2. Timed(d, TRUE, <<>>)
    BY <1>1, <1>3, <1>8, <2>1 DEF Timed
  <2>3. Fading(d, TRUE, <<>>)
    BY <1>1, <1>3, <1>8, <2>1, AwaitsNone, KeptNone DEF Fading, Kept
  <2>4. Hovered(d, TRUE, <<>>) /\ Destroyed(d, <<>>)
    BY <1>8, <2>1, AwaitsNone DEF Hovered, Destroyed
  <2> QED BY <1>8, <2>2, <2>3, <2>4, AwaitsNone DEF TipOK
<1>9. CASE t.attached
  <2> DEFINE x == z.odd \/ ~z.shown
  <2>1. x \in BOOLEAN /\ (x \/ z.shown)
    BY <1>6 DEF Tip
  <2>2. e = [z EXCEPT !.odd = x]
    BY <1>5, <1>6, <1>7, <1>9 DEF Tip
  <2> HIDE DEF x
  <2>3. e \in Tip /\ e.hoverState = "in" /\ e.timeout = z.timeout /\ e.attached = z.attached /\ e.fades = z.fades
        /\ e.shown = z.shown /\ e.waits = z.waits /\ e.caught = z.caught /\ e.dead = z.dead /\ e.odd = x
    BY <1>6, <2>1, <2>2 DEF Tip
  <2>4. e.odd \/ (e.shown /\ e.attached)
    BY <1>7, <1>9, <2>1, <2>3, Zenon
  <2>5. e.timeout = t.timeout /\ (t.timeout = "show" => ~t.attached)
    BY <1>1, <1>6, <2>3 DEF Timed
  <2> QED BY <1>8, <2>3, <2>4, <2>5 DEF e
<1>10. CASE ~t.attached /\ tooltipOpt.show
  <2>1. e = [z EXCEPT !.timeout = "show"]
    BY <1>5, <1>7, <1>10
  <2>2. e \in Tip /\ e.hoverState = "in" /\ e.timeout = "show" /\ e.attached = z.attached /\ e.fades = z.fades
        /\ e.shown = z.shown /\ e.waits = z.waits /\ e.caught = z.caught /\ e.dead = z.dead
    BY <1>6, <2>1 DEF Tip
  <2> QED BY <1>8, <1>10, <2>2 DEF e
<1>11. CASE ~t.attached /\ ~tooltipOpt.show
  <2> DEFINE c == [z EXCEPT !.timeout = NULL]
  <2>1. c \in Tip /\ c.hoverState = "in" /\ c.timeout = NULL /\ c.attached = z.attached /\ c.fades = z.fades
        /\ c.shown = z.shown /\ c.waits = z.waits /\ c.caught = z.caught /\ c.dead = z.dead
    BY <1>6 DEF Tip
  <2>2. e = Tooltip!Show(c)
    BY <1>5, <1>7, <1>11
  <2> HIDE DEF c
  <2>3. ~c.attached /\ ~c.dead /\ (~c.caught => ~Awaits("gone", c.waits)) /\ c.waits = t.waits
    BY <1>6, <1>7, <1>11, <2>1, Zenon
  <2>4. CASE tooltipEnabled
    <3>1. ~Awaits("shown", c.waits)
      BY <1>1, <1>11, <2>3 DEF Fading
    <3> QED BY <2>1, <2>2, <2>3, <2>4, <3>1, TipShows DEF e
  <2>5. CASE ~tooltipEnabled
    <3>1. e = [c EXCEPT !.odd = TRUE]
      BY <2>2, <2>5 DEF Tooltip!Show
    <3>2. e \in Tip /\ e.hoverState = "in" /\ e.timeout = NULL /\ e.attached = z.attached /\ e.fades = z.fades
          /\ e.shown = z.shown /\ e.waits = z.waits /\ e.caught = z.caught /\ e.dead = z.dead /\ e.odd
      BY <2>1, <3>1 DEF Tip
    <3> QED BY <1>3, <1>8, <3>2 DEF e
  <2> QED BY <2>4, <2>5
<1> QED BY <1>2, <1>9, <1>10, <1>11

\* The pointer goes: the tip is hidden, now or later, whatever it did before.
LEMMA TipLeaves ==
    ASSUME NEW t, NEW o, TipOK(t, o, <<>>)
    PROVE  TipOK([Tooltip!Leave(t) EXCEPT !.odd = FALSE], FALSE, <<>>)
<1> DEFINE e == Tooltip!Leave(t)
           d == [e EXCEPT !.odd = FALSE]
<1>1. t \in Tip /\ Timed(t, o, <<>>) /\ Fading(t, o, <<>>) /\ Destroyed(t, <<>>)
  BY DEF TipOK
<1>2. "in" # "out" /\ "hide" # "show" /\ NULL # "show" /\ "out" # NULL
  BY AssumptionOfTips DEF Tooltip!TipAssumption
<1>3. TipOK(e, FALSE, <<>>)
  <2>1. CASE tooltipOpt.hide
    <3>1. e = [t EXCEPT !.hoverState = "out", !.timeout = "hide"]
      BY <2>1 DEF Tooltip!Leave
    <3> HIDE DEF e
    <3>2. e \in Tip /\ e.hoverState = "out" /\ e.timeout = "hide" /\ e.attached = t.attached /\ e.fades = t.fades
          /\ e.shown = t.shown /\ e.waits = t.waits /\ e.caught = t.caught /\ e.dead = t.dead
      BY <1>1, <3>1 DEF Tip
    <3>3. Timed(e, FALSE, <<>>)
      BY <1>2, <2>1, <3>2 DEF Timed
    <3>4. (e.attached <=> t.attached) /\ (e.fades <=> t.fades) /\ (e.shown <=> t.shown)
          /\ (e.caught <=> t.caught) /\ (e.dead <=> t.dead)
      BY <3>2, Zenon
    <3>5. Fading(e, FALSE, <<>>)
      BY <1>1, <1>2, <3>2, <3>4, AwaitsNone, KeptNone DEF Fading, Kept
    <3>6. Hovered(e, FALSE, <<>>) /\ Destroyed(e, <<>>)
      BY <1>1, <1>2, <3>2, <3>4, AwaitsNone DEF Hovered, Destroyed
    <3> QED BY <3>2, <3>3, <3>5, <3>6, AwaitsNone DEF TipOK
  <2>2. CASE ~tooltipOpt.hide
    <3> DEFINE c == [t EXCEPT !.hoverState = "out", !.timeout = NULL]
    <3>1. c \in Tip /\ c.timeout = NULL /\ c.attached = t.attached /\ c.shown = t.shown /\ c.waits = t.waits
          /\ c.fades = t.fades /\ c.caught = t.caught /\ c.dead = t.dead
      BY <1>1 DEF Tip
    <3>2. e = Tooltip!Hide(c, "hidden")
      BY <2>2 DEF Tooltip!Leave
    <3> HIDE DEF c, e
    <3>3. (c.attached <=> t.attached) /\ (c.fades <=> t.fades) /\ (c.shown <=> t.shown)
          /\ (c.caught <=> t.caught) /\ (c.dead <=> t.dead)
      BY <3>1, Zenon
    <3>4. (~c.fades => ~c.attached /\ ~c.shown /\ c.waits = <<>>) /\ (~c.attached => ~Awaits("shown", c.waits))
          /\ (~c.caught /\ c.dead => ~c.attached)
      BY <1>1, <3>1, <3>3 DEF Fading, Destroyed
    <3> QED BY <1>2, <3>1, <3>2, <3>4, TipHidden
  <2> QED BY <2>1, <2>2
<1> HIDE DEF e
<1>4. d \in Tip /\ d.hoverState = e.hoverState /\ d.timeout = e.timeout /\ d.attached = e.attached
      /\ d.shown = e.shown /\ d.waits = e.waits /\ d.fades = e.fades /\ d.caught = e.caught /\ d.dead = e.dead
  BY <1>3 DEF TipOK, Tip
<1> HIDE DEF d
<1>5. (d.attached <=> e.attached) /\ (d.fades <=> e.fades) /\ (d.shown <=> e.shown)
      /\ (d.caught <=> e.caught) /\ (d.dead <=> e.dead)
  BY <1>4, Zenon
<1>6. Timed(d, FALSE, <<>>) /\ Fading(d, FALSE, <<>>) /\ Hovered(d, FALSE, <<>>) /\ Destroyed(d, <<>>)
  BY <1>3, <1>4, <1>5 DEF TipOK, Timed, Fading, Kept, Hovered, Destroyed
<1> QED BY <1>4, <1>6, AwaitsNone DEF TipOK, d, e

LEMMA TipBecomes ==
    ASSUME NEW t, NEW o, NEW h, TipOK(t, o, h), Tooltip!Become(t), over' = o, hears' = h
    PROVE  TipInv'
<1>1. t \in Tip
  BY DEF TipOK
<1>2. Tooltip!T' = t /\ tooltipOpt' = tooltipOpt
  BY <1>1 DEF Tip, Tooltip!T, Tooltip!Become
<1> QED BY <1>2 DEF TipInv, TipOK, Timed, Fading, Kept, Hides, ShownLast, Hovered, Destroyed

\* One who is told: the tip that nobody hovers again goes.
LEMMA TipGoes ==
    ASSUME NEW t, NEW o, NEW h, h # <<>>, TipOK(t, o, h), Head(h) \in {"hidden", "gone"}
    PROVE  LET d == Tooltip!HideCompletes(t)
           IN  TipOK(IF Head(h) = "gone" THEN [d EXCEPT !.dead = TRUE] ELSE d, o, Tail(h))
<1> DEFINE w == Head(h)
           g == Tail(h)
           d == Tooltip!HideCompletes(t)
           a == IF t.hoverState = "in" THEN t.attached ELSE FALSE
           x == IF w = "gone" THEN TRUE ELSE t.dead
           e == IF w = "gone" THEN [d EXCEPT !.dead = TRUE] ELSE d
<1>1. /\ t \in Tip /\ o \in BOOLEAN /\ h \in Seq(Waiter)
      /\ Timed(t, o, h) /\ Fading(t, o, h) /\ Hovered(t, o, h) /\ Destroyed(t, h)
  BY DEF TipOK
<1>2. "in" # "out" /\ "hide" # "show" /\ NULL # "show" /\ "gone" # "hidden" /\ NULL # "in"
  BY AssumptionOfTips DEF Tooltip!TipAssumption
<1>3. t.attached \in BOOLEAN /\ t.dead \in BOOLEAN /\ t.hoverState \in {"in", "out", NULL}
  BY <1>1 DEF Tip
<1>4. a \in BOOLEAN /\ x \in BOOLEAN
  BY <1>3
<1>5. e = [t EXCEPT !.attached = a, !.dead = x]
  <2>1. d = [t EXCEPT !.attached = a]
    BY DEF Tooltip!HideCompletes
  <2> HIDE DEF d, a, w
  <2>2. CASE w = "gone"
    BY <1>1, <2>1, <2>2 DEF Tip
  <2>3. CASE w = "hidden"
    BY <1>1, <1>2, <2>1, <2>3 DEF Tip
  <2> QED BY <2>2, <2>3 DEF w
<1>6. (a <=> t.attached /\ t.hoverState = "in") /\ (w = "gone" => x) /\ (x => t.dead \/ w = "gone")
      /\ (t.dead => x)
  BY <1>2, <1>3
<1>7. g \in Seq(Waiter) /\ \A y : Awaits(y, h) <=> y = w \/ Awaits(y, g)
  BY <1>1, AwaitsOneLess
<1>8. ShownLast(h) => ShownLast(g)
  BY <1>1, ShownLastOneLess
<1>9. w = "hidden" \/ w = "gone"
  OBVIOUS
<1> HIDE DEF a, x, e, w, g
<1>10. e \in Tip /\ e.attached = a /\ e.dead = x /\ e.hoverState = t.hoverState /\ e.timeout = t.timeout
       /\ e.shown = t.shown /\ e.waits = t.waits /\ e.odd = t.odd /\ e.fades = t.fades /\ e.caught = t.caught
  BY <1>1, <1>4, <1>5 DEF Tip
<1>11. (e.attached <=> a) /\ (e.dead <=> x) /\ (e.shown <=> t.shown) /\ (e.odd <=> t.odd) /\ (e.fades <=> t.fades)
       /\ (e.caught <=> t.caught)
  BY <1>10, Zenon
<1>12. t.waits = <<>> /\ t.fades
  BY <1>1 DEF Timed, Fading
<1>13. Hides(h) /\ (Hides(g) => Hides(h))
  BY <1>7, <1>9 DEF Hides
<1>14. Timed(e, o, g)
  BY <1>1, <1>6, <1>10, <1>11, <1>12 DEF Timed
<1>15. Fading(e, o, g)
  <2>1. ~e.attached => ~Awaits("shown", e.waits) /\ (Awaits("shown", g) => e.hoverState # "in")
    BY <1>1, <1>6, <1>7, <1>10, <1>11, <1>12, AwaitsNone DEF Fading
  <2>2. ~e.dead /\ ~o => ~e.attached
    BY <1>1, <1>6, <1>11 DEF Timed
  <2>3. e.shown /\ e.attached => Kept(e, e.waits) /\ Kept(e, g)
    BY <1>1, <1>2, <1>6, <1>8, <1>10, <1>11, <1>12, <1>13, KeptNone DEF Fading, Kept
  <2> QED BY <1>11, <1>12, <2>1, <2>2, <2>3 DEF Fading
<1>16. Hovered(e, o, g)
  <2>1. SUFFICES ASSUME o, ~e.dead, ~e.odd, ~Awaits("gone", g)
                 PROVE  (e.shown /\ e.attached) \/ (e.timeout = "show" /\ e.hoverState = "in")
    BY DEF Hovered
  <2>2. w = "hidden" /\ ~t.dead /\ ~t.odd /\ ~Awaits("gone", h)
    BY <1>2, <1>6, <1>7, <1>9, <1>11, <2>1
  <2>3. (t.shown /\ t.attached) \/ (t.timeout = "show" /\ t.hoverState = "in")
    BY <1>1, <1>12, <2>1, <2>2, AwaitsNone DEF Hovered
  <2>4. t.shown /\ t.attached => t.hoverState = "in"
    BY <1>1, <1>3, <1>13, <2>1, <2>2 DEF Fading, Kept, Timed
  <2> QED BY <1>6, <1>10, <1>11, <2>3, <2>4
<1>17. Destroyed(e, g)
  <2>1. SUFFICES ASSUME ~e.caught, e.dead \/ Awaits("gone", g) PROVE e.hoverState # "in" /\ ~e.attached
    BY <1>10, <1>12, AwaitsNone DEF Destroyed
  <2>2. t.dead \/ Awaits("gone", h)
    BY <1>6, <1>7, <1>11, <2>1
  <2>3. t.hoverState # "in"
    BY <1>1, <1>11, <2>1, <2>2 DEF Destroyed
  <2> QED BY <1>6, <1>10, <1>11, <2>3
<1> QED BY <1>1, <1>7, <1>10, <1>14, <1>15, <1>16, <1>17 DEF TipOK, e, d, w, g

LEMMA TipNext ==
    ASSUME TipInv, Tooltip!Next
    PROVE  TipInv'
<1> DEFINE t == Tooltip!T
<1>1. TipOK(t, over, hears)
  BY DEF TipInv
<1>2. t \in Tip /\ t.hoverState = hoverState /\ t.timeout = timeout /\ t.attached = attached /\ t.shown = shown
      /\ t.waits = waits /\ t.dead = dead /\ t.odd = tooltipOdd /\ t.fades = fades /\ t.caught = caught
  BY <1>1 DEF TipOK, Tooltip!T
<1>3. Timed(t, over, hears) /\ Fading(t, over, hears) /\ Hovered(t, over, hears) /\ Destroyed(t, hears)
      /\ over \in BOOLEAN
      /\ hears \in Seq(Waiter) /\ waits \in Seq(Waiter)
  BY <1>1, <1>2 DEF TipOK, Tip
<1>4. "in" # "out" /\ "hide" # "show" /\ NULL # "show" /\ NULL # "in" /\ NULL # "out" /\ "gone" # "hidden"
      /\ "shown" # "hidden" /\ "shown" # "gone"
  BY AssumptionOfTips DEF Tooltip!TipAssumption
<1>5. ASSUME Tooltip!MouseEnter PROVE TipInv'
  <2>1. hears = <<>> /\ hears' = <<>> /\ over' = TRUE /\ Tooltip!Become(IF dead THEN t ELSE Tooltip!Enter(t))
    BY <1>5 DEF Tooltip!MouseEnter, Tooltip!Handles, Tooltip!On
  <2> HIDE DEF t
  <2>2. CASE dead
    <3>1. TipOK(t, TRUE, <<>>)
      BY <1>1, <1>2, <2>1, <2>2, TipDead
    <3> QED BY <2>1, <2>2, <3>1, TipBecomes
  <2>3. CASE ~dead
    <3>1. TipOK(Tooltip!Enter(t), TRUE, <<>>)
      BY <1>1, <1>2, <2>1, <2>3, TipEnters
    <3> QED BY <2>1, <2>3, <3>1, TipBecomes
  <2> QED BY <2>2, <2>3
<1>6. ASSUME Tooltip!MouseLeave PROVE TipInv'
  <2>1. hears = <<>> /\ hears' = <<>> /\ over' = FALSE
        /\ Tooltip!Become(IF dead THEN t ELSE [Tooltip!Leave(t) EXCEPT !.odd = FALSE])
    BY <1>6 DEF Tooltip!MouseLeave, Tooltip!Handles, Tooltip!On
  <2> HIDE DEF t
  <2>2. CASE dead
    <3>1. TipOK(t, FALSE, <<>>)
      BY <1>1, <1>2, <2>1, <2>2, TipDead
    <3> QED BY <2>1, <2>2, <3>1, TipBecomes
  <2>3. CASE ~dead
    <3>1. TipOK([Tooltip!Leave(t) EXCEPT !.odd = FALSE], FALSE, <<>>)
      BY <1>1, <2>1, TipLeaves
    <3> QED BY <2>1, <2>3, <3>1, TipBecomes
  <2> QED BY <2>2, <2>3
<1>7. ASSUME Tooltip!Click PROVE TipInv'
  <2>1. hears = <<>> /\ hears' = <<>> /\ ~dead /\ over' = (~shown)
        /\ Tooltip!Become(IF shown THEN [Tooltip!Leave(t) EXCEPT !.odd = FALSE] ELSE Tooltip!Enter(t))
    BY <1>7 DEF Tooltip!Click, Tooltip!Handles
  <2>2. shown \in BOOLEAN
    BY <1>2 DEF Tip
  <2> HIDE DEF t
  <2>3. CASE shown
    <3>1. over' = FALSE /\ Tooltip!Become([Tooltip!Leave(t) EXCEPT !.odd = FALSE])
      BY <2>1, <2>3
    <3> QED BY <1>1, <2>1, <3>1, TipLeaves, TipBecomes
  <2>4. CASE ~shown
    <3>1. over' = TRUE /\ Tooltip!Become(Tooltip!Enter(t))
      BY <2>1, <2>4
    <3> QED BY <1>1, <1>2, <2>1, <3>1, TipEnters, TipBecomes
  <2> QED BY <2>2, <2>3, <2>4
<1>8. ASSUME Tooltip!Timeout PROVE TipInv'
  <2> DEFINE c == [t EXCEPT !.timeout = NULL]
  <2>1. timeout # NULL /\ hears = <<>> /\ hears' = <<>> /\ over' = over /\ Tooltip!Become(Tooltip!Due(c))
    BY <1>8 DEF Tooltip!Timeout, Tooltip!Handles
  <2> HIDE DEF t
  <2>2. c \in Tip /\ c.hoverState = hoverState /\ c.timeout = NULL /\ c.attached = attached /\ c.shown = shown
        /\ c.waits = waits /\ c.dead = dead /\ c.odd = tooltipOdd /\ c.fades = fades /\ c.caught = caught
    BY <1>2 DEF Tip
  <2> HIDE DEF c
  <2>3. (c.attached <=> t.attached) /\ (c.shown <=> t.shown) /\ (c.dead <=> t.dead) /\ (c.odd <=> t.odd)
        /\ (c.fades <=> t.fades) /\ (c.caught <=> t.caught)
    BY <1>2, <2>2, Zenon
  <2>4. CASE timeout = "show" /\ hoverState = "in"
    <3>1. Tooltip!Due(c) = Tooltip!Show(c)
      BY <1>4, <2>4 DEF Tooltip!Due
    <3>2. (c.dead \/ over) /\ ~c.attached /\ ~Awaits("shown", c.waits)
          /\ (~c.caught => ~c.dead /\ ~Awaits("gone", c.waits))
      BY <1>2, <1>3, <2>2, <2>3, <2>4 DEF Timed, Fading, Destroyed
    <3>3. CASE tooltipEnabled
      <4>1. TipOK(Tooltip!Show(c), over, <<>>)
        BY <1>3, <2>2, <2>4, <3>2, <3>3, TipShows
      <4> QED BY <2>1, <3>1, <4>1, TipBecomes
    <3>4. CASE ~tooltipEnabled
      <4> DEFINE e == [c EXCEPT !.odd = TRUE]
      <4>1. Tooltip!Show(c) = e
        BY <3>4 DEF Tooltip!Show
      <4>2. e \in Tip /\ e.hoverState = "in" /\ e.timeout = NULL /\ e.attached = c.attached /\ e.shown = c.shown
            /\ e.waits = c.waits /\ e.odd /\ e.dead = c.dead /\ e.fades = c.fades /\ e.caught = c.caught
        BY <2>2, <2>4 DEF Tip
      <4> HIDE DEF e
      <4>3. ~e.attached /\ (e.shown <=> t.shown) /\ (e.dead <=> t.dead) /\ (e.fades <=> t.fades)
            /\ (e.caught <=> t.caught) /\ ~Awaits("shown", e.waits) /\ e.waits = t.waits
            /\ (t.dead \/ over) /\ (~t.caught => ~t.dead /\ ~Awaits("gone", t.waits))
        BY <1>2, <2>2, <2>3, <3>2, <4>2, Zenon
      <4>4. Timed(e, over, <<>>)
        BY <1>4, <4>2, <4>3 DEF Timed
      <4>5. Fading(e, over, <<>>)
        BY <1>3, <2>1, <4>2, <4>3, AwaitsNone DEF Fading
      <4>6. Hovered(e, over, <<>>) /\ Destroyed(e, <<>>)
        BY <4>2, <4>3, AwaitsNone DEF Hovered, Destroyed
      <4>7. TipOK(e, over, <<>>)
        BY <1>3, <4>2, <4>4, <4>5, <4>6, AwaitsNone DEF TipOK
      <4> QED BY <2>1, <3>1, <4>1, <4>7, TipBecomes
    <3> QED BY <3>3, <3>4
  <2>5. CASE timeout = "hide" /\ hoverState = "out"
    <3>1. Tooltip!Due(c) = Tooltip!Hide(c, "hidden")
      BY <1>4, <2>5 DEF Tooltip!Due
    <3>2. /\ c.dead \/ ~over
          /\ ~c.fades => ~c.attached /\ ~c.shown /\ c.waits = <<>>
          /\ ~c.attached => ~Awaits("shown", c.waits)
          /\ ~c.caught /\ c.dead => ~c.attached
      BY <1>2, <1>3, <2>2, <2>3, <2>5 DEF Timed, Fading, Destroyed
    <3>3. TipOK(Tooltip!Hide(c, "hidden"), over, <<>>)
      BY <1>3, <1>4, <2>2, <3>2, TipHidden
    <3> QED BY <2>1, <3>1, <3>3, TipBecomes
  <2>6. CASE ~(timeout = "show" /\ hoverState = "in") /\ ~(timeout = "hide" /\ hoverState = "out")
    <3>1. Tooltip!Due(c) = c
      BY <2>6 DEF Tooltip!Due
    <3>2. hoverState # "out"
      BY <1>2, <1>3, <2>6 DEF Timed
    <3>3. Timed(c, over, <<>>)
      BY <1>2, <1>3, <1>4, <2>1, <2>2, <2>3, <3>2 DEF Timed
    <3>4. Fading(c, over, <<>>)
      BY <1>2, <1>3, <2>1, <2>2, <2>3 DEF Fading, Kept
    <3>5. Hovered(c, over, <<>>)
      BY <1>2, <1>3, <2>1, <2>2, <2>3, <2>6 DEF Hovered
    <3>6. Destroyed(c, <<>>)
      BY <1>2, <1>3, <2>1, <2>2, <2>3 DEF Destroyed
    <3>7. TipOK(c, over, <<>>)
      BY <1>3, <2>2, <3>3, <3>4, <3>5, <3>6, AwaitsNone DEF TipOK
    <3> QED BY <2>1, <3>1, <3>7, TipBecomes
  <2> QED BY <2>4, <2>5, <2>6
<1>9. ASSUME Tooltip!TransitionEnd PROVE TipInv'
  <2> DEFINE c == [t EXCEPT !.waits = <<>>]
  <2>1. waits # <<>> /\ hears = <<>> /\ hears' = waits /\ over' = over /\ Tooltip!Become(c)
    BY <1>9 DEF Tooltip!TransitionEnd
  <2> HIDE DEF t
  <2>2. c \in Tip /\ c.hoverState = hoverState /\ c.timeout = timeout /\ c.attached = attached /\ c.shown = shown
        /\ c.waits = <<>> /\ c.dead = dead /\ c.odd = tooltipOdd /\ c.fades = fades /\ c.caught = caught
    BY <1>2, AwaitsNone DEF Tip
  <2> HIDE DEF c
  <2>3. (c.attached <=> t.attached) /\ (c.shown <=> t.shown) /\ (c.dead <=> t.dead) /\ (c.odd <=> t.odd)
        /\ (c.fades <=> t.fades) /\ (c.caught <=> t.caught)
    BY <1>2, <2>2, Zenon
  <2>4. Timed(c, over, waits)
    BY <1>2, <1>3, <2>2, <2>3 DEF Timed
  <2>5. Fading(c, over, waits)
    <3>1. t.fades
      BY <1>2, <1>3, <2>1 DEF Fading
    <3> QED BY <1>2, <1>3, <2>1, <2>2, <2>3, <3>1, AwaitsNone, KeptNone DEF Fading, Kept, Hides
  <2>6. Hovered(c, over, waits) /\ Destroyed(c, waits)
    BY <1>2, <1>3, <2>1, <2>2, <2>3, AwaitsNone DEF Hovered, Destroyed
  <2>7. TipOK(c, over, waits)
    BY <1>3, <2>2, <2>4, <2>5, <2>6 DEF TipOK
  <2> QED BY <2>1, <2>7, TipBecomes
<1>10. ASSUME Tooltip!Tell PROVE TipInv'
  <2> DEFINE w == Head(hears)
             g == Tail(hears)
  <2>1. hears # <<>> /\ hears' = g /\ over' = over /\ Tooltip!Become(Tooltip!Heard(t, w))
    BY <1>10 DEF Tooltip!Tell
  <2>2. w \in Waiter /\ g \in Seq(Waiter) /\ \A y : Awaits(y, hears) <=> y = w \/ Awaits(y, g)
    BY <1>3, <2>1, AwaitsOneLess
  <2> HIDE DEF t
  <2>3. CASE w = "shown"
    <3>1. Tooltip!Heard(t, w) = Tooltip!ShowCompletes(t)
      BY <2>3 DEF Tooltip!Heard
    <3>2. Kept(t, hears) => ~Hides(g)
      <4>1. SUFFICES ASSUME Kept(t, hears), Hides(g) PROVE FALSE
        OBVIOUS
      <4>2. Hides(hears)
        BY <2>2, <4>1 DEF Hides
      <4>3. ShownLast(hears)
        BY <4>1, <4>2 DEF Kept
      <4> QED BY <1>3, <2>1, <2>3, <4>1, <4>3, ShownLastOneLess DEF Hides
    <3>3. (Awaits("gone", hears) <=> Awaits("gone", g)) /\ (Hides(hears) <=> Hides(g)) /\ Awaits("shown", hears)
      BY <1>4, <2>2, <2>3 DEF Hides
    <3>4. PICK e : /\ e = Tooltip!ShowCompletes(t) /\ e \in Tip /\ e.timeout = timeout
                   /\ e.attached = attached /\ e.shown = shown /\ e.waits = waits /\ e.dead = dead
                   /\ e.odd = tooltipOdd /\ e.fades = fades /\ e.caught = caught
                   /\ e.hoverState = IF hoverState = "out" THEN "out" ELSE NULL
      <4> DEFINE s == [t EXCEPT !.hoverState = NULL]
                 e == Tooltip!ShowCompletes(t)
      <4>1. CASE hoverState = "out"
        <5>1. timeout = "hide" /\ tooltipOpt.hide
          BY <1>2, <1>3, <4>1 DEF Timed
        <5>2. e = Tooltip!Leave(s)
          BY <1>2, <4>1 DEF Tooltip!ShowCompletes
        <5>3. Tooltip!Leave(s) = [s EXCEPT !.hoverState = "out", !.timeout = "hide"]
          BY <5>1 DEF Tooltip!Leave
        <5>4. [s EXCEPT !.hoverState = "out", !.timeout = "hide"] = [t EXCEPT !.hoverState = "out", !.timeout = "hide"]
          BY <1>2 DEF Tip
        <5>5. e = [t EXCEPT !.hoverState = "out", !.timeout = "hide"]
          BY <5>2, <5>3, <5>4, Zenon
        <5> HIDE DEF e
        <5>6. /\ e \in Tip /\ e.timeout = "hide" /\ e.hoverState = "out" /\ e.attached = attached
              /\ e.shown = shown /\ e.waits = waits /\ e.dead = dead /\ e.odd = tooltipOdd
              /\ e.fades = fades /\ e.caught = caught
          BY <1>2, <5>5 DEF Tip
        <5> QED BY <4>1, <5>1, <5>6 DEF e
      <4>2. CASE hoverState # "out"
        <5>1. e = s
          BY <1>2, <4>2 DEF Tooltip!ShowCompletes
        <5>2. s \in Tip /\ s.timeout = timeout
              /\ s.attached = attached /\ s.shown = shown /\ s.waits = waits /\ s.dead = dead
              /\ s.odd = tooltipOdd /\ s.hoverState = NULL /\ s.fades = fades /\ s.caught = caught
          BY <1>2 DEF Tip
        <5> HIDE DEF e, s
        <5> QED BY <4>2, <5>1, <5>2 DEF e
      <4> QED BY <4>1, <4>2
    <3>5. (e.attached <=> t.attached) /\ (e.shown <=> t.shown) /\ (e.dead <=> t.dead) /\ (e.odd <=> t.odd)
          /\ (e.fades <=> t.fades) /\ (e.caught <=> t.caught) /\ e.waits = t.waits /\ e.timeout = t.timeout
      BY <1>2, <3>4, Zenon
    <3>6. e.hoverState # "in" /\ (e.hoverState = "out" <=> t.hoverState = "out")
      BY <1>2, <1>4, <3>4
    <3>7. t.waits = <<>> /\ t.fades
      BY <1>3, <2>1 DEF Timed, Fading
    <3> HIDE DEF w, g
    <3>8. Timed(e, over, g)
      BY <1>3, <2>1, <3>5, <3>6, <3>7 DEF Timed
    <3>9. Fading(e, over, g)
      <4>1. ~e.dead /\ ~over /\ e.attached => e.hoverState = "out" \/ Hides(g)
        BY <1>3, <3>3, <3>5, <3>6, <3>7, AwaitsNone DEF Fading, Hides
      <4>2. e.shown /\ e.attached => Kept(e, e.waits) /\ Kept(e, g)
        BY <1>3, <3>2, <3>5, <3>7, KeptNone DEF Fading, Kept
      <4> QED BY <3>5, <3>6, <3>7, <4>1, <4>2, AwaitsNone DEF Fading
    <3>10. Hovered(e, over, g)
      <4>1. SUFFICES ASSUME over, ~e.dead, ~e.odd, ~Awaits("gone", g) PROVE e.shown /\ e.attached
        BY DEF Hovered
      <4>2. (t.shown /\ t.attached) \/ (t.timeout = "show" /\ t.hoverState = "in")
        BY <1>3, <3>3, <3>5, <3>7, <4>1, AwaitsNone DEF Hovered
      <4>3. ~(t.timeout = "show" /\ t.hoverState = "in")
        BY <1>3, <3>3 DEF Timed, Fading
      <4> QED BY <3>5, <4>2, <4>3
    <3>11. Destroyed(e, g)
      BY <1>3, <3>3, <3>5, <3>6, <3>7 DEF Destroyed
    <3>12. TipOK(e, over, g)
      BY <1>3, <2>2, <3>4, <3>8, <3>9, <3>10, <3>11 DEF TipOK
    <3> QED BY <2>1, <3>1, <3>4, <3>12, TipBecomes
  <2>4. CASE w \in {"hidden", "gone"}
    <3> DEFINE d == Tooltip!HideCompletes(t)
               e == IF w = "gone" THEN [d EXCEPT !.dead = TRUE] ELSE d
    <3>1. Tooltip!Heard(t, w) = e
      BY <1>4, <2>4 DEF Tooltip!Heard
    <3>2. TipOK(e, over, g)
      BY <1>1, <2>1, <2>4, TipGoes
    <3> HIDE DEF e
    <3> QED BY <2>1, <3>1, <3>2, TipBecomes
  <2> QED BY <2>2, <2>3, <2>4 DEF Waiter
<1>11. ASSUME Tooltip!Destroy PROVE TipInv'
  <2> DEFINE c == [t EXCEPT !.timeout = NULL]
  <2>1. hears = <<>> /\ hears' = <<>> /\ over' = over /\ ~dead /\ Tooltip!Become(Tooltip!Hide(c, "gone"))
    BY <1>11 DEF Tooltip!Destroy, Tooltip!Handles
  <2> HIDE DEF t
  <2>2. c \in Tip /\ c.timeout = NULL /\ c.attached = t.attached /\ c.shown = t.shown /\ c.waits = t.waits
        /\ c.fades = t.fades /\ c.dead = t.dead
    BY <1>2 DEF Tip
  <2> HIDE DEF c
  <2>3. (c.attached <=> t.attached) /\ (c.shown <=> t.shown) /\ (c.fades <=> t.fades) /\ ~c.dead
    BY <1>2, <2>1, <2>2, Zenon
  <2>4. (~c.fades => ~c.attached /\ ~c.shown /\ c.waits = <<>>) /\ (~c.attached => ~Awaits("shown", c.waits))
    BY <1>3, <2>2, <2>3 DEF Fading
  <2>5. TipOK(Tooltip!Hide(c, "gone"), over, <<>>)
    BY <1>3, <1>4, <2>2, <2>3, <2>4, TipHidden
  <2> QED BY <2>1, <2>5, TipBecomes
<1>12. ASSUME NEW z \in BOOLEAN, Tooltip!SetEnabled(z) PROVE TipInv'
  BY <1>1, <1>12, TipBecomes DEF Tooltip!SetEnabled, Tooltip!Handles
<1> QED
  BY <1>5, <1>6, <1>7, <1>8, <1>9, <1>10, <1>11, <1>12 DEF Tooltip!Next

-----------------------------------------------------------------------------
(* The accordion.                                                          *)

Place == {"in", "collapse", "collapsing"}
Move == [inst : Nat, to : {"in", "collapse"}]

\* What has the fields of an accordion.
Acc == [class : [Accordion!Panel -> Place], expanded : [Accordion!Panel -> BOOLEAN],
        data : [Accordion!Panel -> Nat \cup {NULL}], moves : [Accordion!Panel -> Seq(Move)]]

\* Of the completions that wait for a panel, one opens it, or all are of one instance.
ToOpen(s) == \E k \in DOMAIN s : s[k].to = "in"
AllOf(s, i) == \A k \in DOMAIN s : s[k].inst = i

\* A panel slides as long as completions wait for it ...
Slides(x) == \A p \in Accordion!Panel : x.class[p] = "collapsing" <=> x.moves[p] # <<>>

\* ... which are of its own instance, as long as it has one; a panel that opens is the
\* only one that does or is open; and every trigger knows.
Opening(x, p) == x.class[p] = "in" \/ ToOpen(x.moves[p])
Owned(x) == \A p \in Accordion!Panel : x.data[p] # NULL => AllOf(x.moves[p], x.data[p])
OneOpens(x) == \A p, q \in Accordion!Panel : Opening(x, p) /\ Opening(x, q) => p = q
TriggersKnow(x) == \A p \in Accordion!Panel : x.expanded[p] <=> Opening(x, p)

\* of is FALSE once a panel was clicked whose dropped instance moved it, at once an
\* instance was made while a panel slid.
AccOK(x, of, at) ==
    /\ x \in Acc /\ Slides(x)
    /\ of => Owned(x) /\ OneOpens(x)
    /\ at => TriggersKnow(x)
AccInv == bare \in BOOLEAN /\ early \in BOOLEAN /\ AccOK(Accordion!X, ~bare, ~early)

LEMMA NoMove == <<>> \in Seq(Move) /\ ~ToOpen(<<>>) /\ \A i : AllOf(<<>>, i)
<1>1. <<>> \in Seq(Move) /\ Len(<<>>) = 0
  BY EmptySeq
<1>2. \A k \in DOMAIN <<>> : FALSE
  BY <1>1
<1> QED BY <1>1, <1>2, Zenon DEF ToOpen, AllOf

LEMMA OneMoreMove ==
    ASSUME NEW s \in Seq(Move), NEW m \in Move
    PROVE  LET a == Append(s, m)
           IN  /\ a \in Seq(Move) /\ a # <<>>
               /\ ToOpen(a) <=> ToOpen(s) \/ m.to = "in"
               /\ \A i : AllOf(a, i) <=> AllOf(s, i) /\ m.inst = i
<1> DEFINE a == Append(s, m)
<1>1. a \in Seq(Move) /\ Len(a) = Len(s) + 1 /\ a[Len(s) + 1] = m /\ \A k \in 1..Len(s) : a[k] = s[k]
  BY AppendProperties
<1>2. DOMAIN s = 1..Len(s) /\ Len(s) \in Nat /\ DOMAIN a = 1..Len(a)
  BY <1>1
<1>3. DOMAIN a = DOMAIN s \cup {Len(s) + 1}
  BY <1>1, <1>2
<1>4. a # <<>>
  BY <1>1, <1>2, EmptySeq
<1> HIDE DEF a
<1>5. ToOpen(a) <=> ToOpen(s) \/ m.to = "in"
  BY <1>1, <1>2, <1>3 DEF ToOpen
<1>6. \A i : AllOf(a, i) <=> AllOf(s, i) /\ m.inst = i
  BY <1>1, <1>2, <1>3 DEF AllOf
<1> QED BY <1>1, <1>4, <1>5, <1>6 DEF a

\* A panel that slides is moved by its own instance, when all completions are of it.
LEMMA MovesIt ==
    ASSUME NEW x \in Acc, NEW p \in Accordion!Panel, NEW i, x.moves[p] # <<>>, AllOf(x.moves[p], i)
    PROVE  Accordion!Moving(x, p, i)
<1>1. x.moves[p] \in Seq(Move)
  BY DEF Acc
<1>2. Len(x.moves[p]) \in Nat /\ Len(x.moves[p]) # 0 /\ DOMAIN x.moves[p] = 1..Len(x.moves[p])
  BY <1>1, EmptySeq
<1>3. 1 \in DOMAIN x.moves[p]
  BY <1>2
<1> QED BY <1>3 DEF AllOf, Accordion!Moving

\* There is a number for a new instance.
LEMMA FreshIsFree ==
    ASSUME NEW x \in Acc, NEW p \in Accordion!Panel
    PROVE  Accordion!Fresh(x, p) \in Nat /\ ~Accordion!Moving(x, p, Accordion!Fresh(x, p))
<1> DEFINE s == x.moves[p]
           n == Len(s)
<1>1. s \in Seq(Move) /\ n \in Nat /\ DOMAIN s = 1..n
  BY DEF Acc
<1>2. \E j \in 1..(n + 1) : ~Accordion!Moving(x, p, j)
  <2>1. SUFFICES ASSUME \A j \in 1..(n + 1) : \E k \in 1..n : s[k].inst = j PROVE FALSE
    BY <1>1 DEF Accordion!Moving
  <2> HIDE DEF s, n
  <2> DEFINE f == [j \in 1..(n + 1) |-> CHOOSE k \in 1..n : s[k].inst = j]
  <2>2. \A j \in 1..(n + 1) : f[j] \in 1..n /\ s[f[j]].inst = j
    BY <2>1
  <2>3. f \in [1..(n + 1) -> 1..n]
    BY <2>2
  <2> HIDE DEF f
  <2>4. IsFiniteSet(1..n) /\ IsFiniteSet(1..(n + 1)) /\ Cardinality(1..n) < Cardinality(1..(n + 1))
    <3>1. IsFiniteSet(1..n) /\ Cardinality(1..n) = IF 1 > n THEN 0 ELSE n - 1 + 1
      BY <1>1, FS_Interval
    <3>2. IsFiniteSet(1..(n + 1)) /\ Cardinality(1..(n + 1)) = IF 1 > n + 1 THEN 0 ELSE (n + 1) - 1 + 1
      BY <1>1, FS_Interval
    <3> QED BY <1>1, <3>1, <3>2
  <2>5. \E j, k \in 1..(n + 1) : j # k /\ f[j] = f[k]
    BY <2>3, <2>4, FS_PigeonHole
  <2> QED BY <2>2, <2>5
<1> QED BY <1>1, <1>2 DEF Accordion!Fresh

\* The first of the panels that are open or slide.
LEMMA FirstActive ==
    ASSUME NEW T \in SUBSET Accordion!Panel, T # {}
    PROVE  Accordion!FirstOf(T) \in T
<1>1. T \in SUBSET Nat
  BY AssumptionOfPanels DEF Accordion!Panel, Accordion!AccordionAssumption
<1> DEFINE R == {ss \in Nat \X Nat : ss[1] < ss[2]}
<1>2. IsWellFoundedOn(R, Nat)
  BY NatLessThanWellFounded DEF OpToRel
<1> HIDE DEF R
<1>3. PICK k \in T : \A y \in T : ~ (<<y, k>> \in R)
  BY <1>1, <1>2, WFMin
<1>4. \A y \in T : <<y, k>> \in Nat \X Nat
  BY <1>1
<1>5. \A y \in T : ~(y < k)
  BY <1>3, <1>4 DEF R
<1>6. \A y \in T : k <= y
  BY <1>1, <1>5
<1> QED BY <1>6 DEF Accordion!FirstOf

LEMMA AccInit == Accordion!Init => AccInv
<1> SUFFICES ASSUME Accordion!Init PROVE AccInv
  OBVIOUS
<1> DEFINE x == Accordion!X
<1>1. PICK S \in SUBSET Accordion!Panel :
          /\ Accordion!Cardinality(S) <= 1
          /\ class = [p \in Accordion!Panel |-> IF p \in S THEN "in" ELSE "collapse"]
          /\ expanded = [p \in Accordion!Panel |-> p \in S]
  BY DEF Accordion!Init
<1>2. x.class = class /\ x.expanded = expanded /\ x.data = [p \in Accordion!Panel |-> NULL]
      /\ x.moves = [p \in Accordion!Panel |-> <<>>] /\ bare = FALSE /\ early = FALSE
  BY DEF Accordion!Init, Accordion!X
<1>3. x \in Acc
  BY <1>1, NoMove DEF Acc, Place, Accordion!Init, Accordion!X
<1> HIDE DEF x
<1>4. Slides(x)
  BY <1>1, <1>2 DEF Slides
<1>5. \A p \in Accordion!Panel : Opening(x, p) <=> p \in S
  BY <1>1, <1>2, NoMove DEF Opening
<1>6. Owned(x)
  BY <1>2 DEF Owned
<1>7. TriggersKnow(x)
  <2>1. \A p \in Accordion!Panel : x.expanded[p] <=> p \in S
    BY <1>1, <1>2, Zenon
  <2> QED BY <1>5, <2>1, Zenon DEF TriggersKnow
<1>8. \A p, q \in S : p = q
  <2>1. SUFFICES ASSUME NEW p \in S, NEW q \in S, p # q PROVE FALSE
    OBVIOUS
  <2>2. Panels \in Nat
    BY AssumptionOfPanels DEF Accordion!AccordionAssumption
  <2>3. IsFiniteSet(Accordion!Panel)
    BY <2>2, FS_Interval DEF Accordion!Panel
  <2>4. IsFiniteSet(S)
    BY <2>3, FS_Subset
  <2>5. IsFiniteSet({p}) /\ Cardinality({p}) = 1
    BY FS_Singleton
  <2>6. Cardinality({p} \cup {q}) = 2
    <3>1. q \notin {p}
      BY <2>1
    <3>2. Cardinality({p} \cup {q}) = IF q \in {p} THEN Cardinality({p}) ELSE Cardinality({p}) + 1
      BY <2>5, FS_AddElement, Zenon
    <3> QED BY <2>5, <3>1, <3>2
  <2>7. {p} \cup {q} \in SUBSET S
    BY <2>1
  <2>8. 2 <= Cardinality(S)
    BY <2>4, <2>6, <2>7, FS_Subset
  <2>9. Accordion!Cardinality(S) = Cardinality(S) /\ Cardinality(S) \in Nat
    BY <2>4, FS_CardinalityType DEF Accordion!Cardinality, Cardinality
  <2> QED BY <1>1, <2>8, <2>9
<1>9. OneOpens(x)
  BY <1>5, <1>8 DEF OneOpens
<1> QED BY <1>2, <1>3, <1>4, <1>6, <1>7, <1>9 DEF AccInv, AccOK, x


\* What HideAll does to the panels S that are open or slide, one by one.
LEMMA AllHide ==
    ASSUME NEW x \in Acc, Slides(x)
    PROVE  LET S == Accordion!Actives(x)
               h == Accordion!HideAll(x, S)
           IN  /\ h \in Acc
               /\ \A q \in Accordion!Panel :
                     /\ x.class[q] = "in" =>
                           /\ h.class[q] = "collapsing" /\ h.expanded[q] = FALSE
                           /\ h.moves[q] = Append(<<>>, [inst |-> h.data[q], to |-> "collapse"])
                           /\ h.data[q] \in Nat
                     /\ x.class[q] # "in" =>
                           /\ h.class[q] = x.class[q] /\ h.moves[q] = x.moves[q]
                           /\ h.expanded[q] = IF \E r \in S : x.data[r] = NULL THEN FALSE ELSE x.expanded[q]
                     /\ ~(q \in S /\ x.data[q] = NULL) => h.data[q] = x.data[q]
<1> DEFINE S == Accordion!Actives(x)
           h == Accordion!HideAll(x, S)
           inst == [q \in Accordion!Panel |-> IF q \in S /\ x.data[q] = NULL THEN Accordion!Fresh(x, q) ELSE x.data[q]]
           some == \E q \in S : x.data[q] = NULL
           H == {q \in S : Accordion!MayHide(x, q, inst[q])}
<1>1. S = {q \in Accordion!Panel : x.class[q] \in {"in", "collapsing"}}
  BY DEF Accordion!Actives
<1>2. /\ x.class \in [Accordion!Panel -> Place] /\ x.expanded \in [Accordion!Panel -> BOOLEAN]
      /\ x.data \in [Accordion!Panel -> Nat \cup {NULL}] /\ x.moves \in [Accordion!Panel -> Seq(Move)]
  BY DEF Acc
<1>3. h = [class |-> [q \in Accordion!Panel |-> IF q \in H THEN "collapsing" ELSE x.class[q]],
           expanded |-> [q \in Accordion!Panel |-> q \notin H /\ IF some THEN x.class[q] = "in" ELSE x.expanded[q]],
           data |-> inst,
           moves |-> [q \in Accordion!Panel |->
                         IF q \in H THEN Append(x.moves[q], [inst |-> inst[q], to |-> "collapse"])
                         ELSE x.moves[q]]]
  BY DEF Accordion!HideAll
<1>4. NULL \notin Nat
  BY AssumptionOfPanels DEF Accordion!AccordionAssumption
<1>5. inst \in [Accordion!Panel -> Nat \cup {NULL}] /\ \A q \in S : inst[q] \in Nat
  <2>1. \A q \in Accordion!Panel : Accordion!Fresh(x, q) \in Nat
    BY FreshIsFree
  <2> QED BY <1>1, <1>2, <2>1
<1>6. \A q \in Accordion!Panel : q \in H <=> x.class[q] = "in"
  <2>1. SUFFICES ASSUME NEW q \in Accordion!Panel PROVE q \in H <=> x.class[q] = "in"
    OBVIOUS
  <2>2. ASSUME x.class[q] = "in" PROVE ~Accordion!Moving(x, q, inst[q])
    <3>1. x.moves[q] = <<>>
      BY <2>2 DEF Slides
    <3>2. \A k \in DOMAIN x.moves[q] : FALSE
      BY <3>1
    <3> QED BY <3>2, Zenon DEF Accordion!Moving
  <2> HIDE DEF inst, S
  <2> QED BY <1>1, <2>2 DEF Accordion!MayHide
<1>7. \A q \in Accordion!Panel : x.class[q] = "in" => x.moves[q] = <<>>
  BY DEF Slides
<1>8. \A q \in Accordion!Panel : q \in H => q \in S
  OBVIOUS
<1> HIDE DEF inst, some, H, S, h
<1>9. \A q \in Accordion!Panel : q \in H =>
          LET m == [inst |-> inst[q], to |-> "collapse"]
          IN  m \in Move /\ Append(x.moves[q], m) \in Seq(Move)
  <2>1. SUFFICES ASSUME NEW q \in Accordion!Panel, q \in H
                 PROVE  LET m == [inst |-> inst[q], to |-> "collapse"]
                        IN  m \in Move /\ Append(x.moves[q], m) \in Seq(Move)
    OBVIOUS
  <2> DEFINE m == [inst |-> inst[q], to |-> "collapse"]
  <2>2. m \in Move
    BY <1>5, <1>8, <2>1 DEF Move
  <2>3. x.moves[q] \in Seq(Move)
    BY <1>2
  <2> HIDE DEF m
  <2>4. Append(x.moves[q], m) \in Seq(Move)
    BY <2>2, <2>3, OneMoreMove
  <2> QED BY <2>2, <2>4 DEF m
<1>10. h \in Acc
  <2> DEFINE hc == [q \in Accordion!Panel |-> IF q \in H THEN "collapsing" ELSE x.class[q]]
             he == [q \in Accordion!Panel |-> q \notin H /\ IF some THEN x.class[q] = "in" ELSE x.expanded[q]]
             hm == [q \in Accordion!Panel |-> IF q \in H THEN Append(x.moves[q], [inst |-> inst[q], to |-> "collapse"])
                                              ELSE x.moves[q]]
  <2>1. hc \in [Accordion!Panel -> Place]
    BY <1>2 DEF Place
  <2>2. he \in [Accordion!Panel -> BOOLEAN]
    BY Zenon
  <2>3. hm \in [Accordion!Panel -> Seq(Move)]
    BY <1>2, <1>9
  <2>4. h = [class |-> hc, expanded |-> he, data |-> inst, moves |-> hm]
    BY <1>3, Zenon
  <2> HIDE DEF hc, he, hm
  <2> QED BY <1>5, <2>1, <2>2, <2>3, <2>4 DEF Acc
<1>11. \A q \in Accordion!Panel :
          /\ h.class[q] = IF q \in H THEN "collapsing" ELSE x.class[q]
          /\ h.expanded[q] = (q \notin H /\ IF some THEN x.class[q] = "in" ELSE x.expanded[q])
          /\ h.data[q] = inst[q]
          /\ h.moves[q] = IF q \in H THEN Append(x.moves[q], [inst |-> inst[q], to |-> "collapse"])
                          ELSE x.moves[q]
  BY <1>3
<1>12. \A q \in Accordion!Panel : ~(q \in S /\ x.data[q] = NULL) => inst[q] = x.data[q]
  BY DEF inst
<1>13. ASSUME NEW q \in Accordion!Panel, x.class[q] = "in"
       PROVE  /\ h.class[q] = "collapsing" /\ h.expanded[q] = FALSE
              /\ h.moves[q] = Append(<<>>, [inst |-> h.data[q], to |-> "collapse"])
              /\ h.data[q] \in Nat
  <2>1. q \in H /\ q \in S /\ x.moves[q] = <<>>
    BY <1>6, <1>7, <1>8, <1>13
  <2>2. h.expanded[q] = FALSE
    BY <1>11, <2>1, Zenon
  <2> QED BY <1>5, <1>11, <2>1, <2>2
<1>14. ASSUME NEW q \in Accordion!Panel, x.class[q] # "in"
       PROVE  /\ h.class[q] = x.class[q] /\ h.moves[q] = x.moves[q]
              /\ h.expanded[q] = IF some THEN FALSE ELSE x.expanded[q]
  <2>1. q \notin H /\ x.expanded[q] \in BOOLEAN
    BY <1>2, <1>6, <1>14
  <2>2. h.expanded[q] = (IF some THEN x.class[q] = "in" ELSE x.expanded[q])
    BY <1>11, <2>1
  <2> QED BY <1>11, <1>14, <2>1, <2>2
<1> QED BY <1>10, <1>11, <1>12, <1>13, <1>14 DEF h, S, some


\* What a toggled panel p leaves behind: t may still lack p's own instance i.
Toggled(t, p, i, of, at) ==
    /\ t \in Acc /\ Slides(t)
    /\ of => /\ OneOpens(t) /\ t.data[p] \in {i, NULL} /\ AllOf(t.moves[p], i)
             /\ \A q \in Accordion!Panel \ {p} : t.data[q] # NULL => AllOf(t.moves[q], t.data[q])
    /\ at => TriggersKnow(t)

\* What a click finds: of when no panel is moved by a dropped instance, at when no
\* instance is made while a panel slides.
Found(x, p, i, of, at) ==
    /\ x \in Acc /\ Slides(x) /\ i \in Nat
    /\ of => /\ Owned(x) /\ OneOpens(x) /\ x.data[p] \in {i, NULL}
             /\ \A q \in Accordion!Panel : x.data[q] = NULL => x.moves[q] = <<>>
    /\ at => /\ TriggersKnow(x)
             /\ \/ \A q \in Accordion!Panel : x.moves[q] = <<>>
                \/ \A q \in Accordion!Actives(x) : x.data[q] # NULL

\* A panel that is hidden.
LEMMA PanelHides ==
    ASSUME NEW x, NEW p \in Accordion!Panel, NEW i, NEW of \in BOOLEAN, NEW at \in BOOLEAN,
           Found(x, p, i, of, at), x.class[p] = "in"
    PROVE  Toggled(Accordion!Hide(x, p, i), p, i, of, at)
<1> DEFINE m == [inst |-> i, to |-> "collapse"]
           a == Append(x.moves[p], m)
           t == Accordion!Hide(x, p, i)
<1>1. x \in Acc /\ Slides(x) /\ i \in Nat
  BY DEF Found
<1>2. /\ x.class \in [Accordion!Panel -> Place] /\ x.expanded \in [Accordion!Panel -> BOOLEAN]
      /\ x.data \in [Accordion!Panel -> Nat \cup {NULL}] /\ x.moves \in [Accordion!Panel -> Seq(Move)]
  BY <1>1 DEF Acc
<1>3. x.moves[p] = <<>>
  BY <1>1 DEF Slides
<1>4. ~Accordion!Moving(x, p, i)
  <2>1. \A k \in DOMAIN x.moves[p] : FALSE
    BY <1>3
  <2> QED BY <2>1, Zenon DEF Accordion!Moving
<1>5. m \in Move /\ m.inst = i /\ m.to = "collapse"
  BY <1>1 DEF Move
<1> HIDE DEF m
<1>6. a \in Seq(Move) /\ a # <<>> /\ ~ToOpen(a) /\ AllOf(a, i)
  <2>1. a \in Seq(Move) /\ a # <<>> /\ (ToOpen(a) <=> ToOpen(<<>>) \/ m.to = "in")
        /\ (AllOf(a, i) <=> AllOf(<<>>, i) /\ m.inst = i)
    BY <1>3, <1>5, NoMove, OneMoreMove
  <2> HIDE DEF a
  <2> QED BY <1>5, <2>1, NoMove
<1>7. t = [x EXCEPT !.class[p] = "collapsing", !.expanded[p] = FALSE, !.moves[p] = a]
  BY <1>4 DEF Accordion!Hide, Accordion!MayHide, m
<1> HIDE DEF t, a
<1>8. /\ t \in Acc /\ t.data = x.data /\ t.class = [x.class EXCEPT ![p] = "collapsing"]
      /\ t.expanded = [x.expanded EXCEPT ![p] = FALSE] /\ t.moves = [x.moves EXCEPT ![p] = a]
  <2>1. t.data = x.data /\ t.class = [x.class EXCEPT ![p] = "collapsing"]
        /\ t.expanded = [x.expanded EXCEPT ![p] = FALSE] /\ t.moves = [x.moves EXCEPT ![p] = a]
        /\ t = [class |-> t.class, expanded |-> t.expanded, data |-> t.data, moves |-> t.moves]
    BY <1>1, <1>7 DEF Acc
  <2>2. t.class \in [Accordion!Panel -> Place] /\ t.expanded \in [Accordion!Panel -> BOOLEAN]
        /\ t.moves \in [Accordion!Panel -> Seq(Move)]
    BY <1>2, <1>6, <2>1 DEF Place
  <2> QED BY <1>2, <2>1, <2>2 DEF Acc
<1>9. /\ t.class[p] = "collapsing" /\ t.expanded[p] = FALSE /\ t.moves[p] = a
      /\ \A q \in Accordion!Panel \ {p} :
            t.class[q] = x.class[q] /\ t.expanded[q] = x.expanded[q] /\ t.moves[q] = x.moves[q]
  BY <1>2, <1>8
<1>10. Slides(t)
  BY <1>1, <1>6, <1>9 DEF Slides
<1>11. ~Opening(t, p) /\ \A q \in Accordion!Panel \ {p} : Opening(t, q) <=> Opening(x, q)
  BY <1>6, <1>9 DEF Opening
<1>12. ASSUME of PROVE /\ OneOpens(t) /\ t.data[p] \in {i, NULL} /\ AllOf(t.moves[p], i)
                       /\ \A q \in Accordion!Panel \ {p} : t.data[q] # NULL => AllOf(t.moves[q], t.data[q])
  BY <1>6, <1>8, <1>9, <1>11, <1>12 DEF Found, OneOpens, Owned
<1>13. ASSUME at PROVE TriggersKnow(t)
  BY <1>9, <1>11, <1>13 DEF Found, TriggersKnow
<1> QED BY <1>8, <1>10, <1>12, <1>13 DEF Toggled, t

\* A panel that is shown.
LEMMA PanelShows ==
    ASSUME NEW x, NEW p \in Accordion!Panel, NEW i, NEW of \in BOOLEAN, NEW at \in BOOLEAN,
           Found(x, p, i, of, at), x.class[p] # "in", ~Accordion!Moving(x, p, i), ~Accordion!Busy(x)
    PROVE  Toggled(Accordion!Show(x, p, i), p, i, of, at)
<1> DEFINE S == Accordion!Actives(x)
           h == Accordion!HideAll(x, S)
           some == \E r \in S : x.data[r] = NULL
           dropped == IF S # {} /\ x.data[Accordion!FirstOf(S)] = NULL THEN S ELSE {}
           kept == [q \in Accordion!Panel |-> IF q \in dropped THEN NULL ELSE h.data[q]]
           m == [inst |-> i, to |-> "in"]
           a == Append(x.moves[p], m)
           t == Accordion!Show(x, p, i)
<1>1. x \in Acc /\ Slides(x) /\ i \in Nat
  BY DEF Found
<1>2. /\ x.class \in [Accordion!Panel -> Place] /\ x.expanded \in [Accordion!Panel -> BOOLEAN]
      /\ x.data \in [Accordion!Panel -> Nat \cup {NULL}] /\ x.moves \in [Accordion!Panel -> Seq(Move)]
  BY <1>1 DEF Acc
<1>3. /\ h \in Acc
      /\ \A q \in Accordion!Panel :
            /\ x.class[q] = "in" =>
                  /\ h.class[q] = "collapsing" /\ h.expanded[q] = FALSE
                  /\ h.moves[q] = Append(<<>>, [inst |-> h.data[q], to |-> "collapse"])
                  /\ h.data[q] \in Nat
            /\ x.class[q] # "in" =>
                  /\ h.class[q] = x.class[q] /\ h.moves[q] = x.moves[q]
                  /\ h.expanded[q] = IF some THEN FALSE ELSE x.expanded[q]
            /\ ~(q \in S /\ x.data[q] = NULL) => h.data[q] = x.data[q]
  BY <1>1, AllHide
<1>4. S = {q \in Accordion!Panel : x.class[q] \in {"in", "collapsing"}}
  BY DEF Accordion!Actives
<1>5. S # {} => /\ Accordion!FirstOf(S) \in S
                /\ ~(x.data[Accordion!FirstOf(S)] # NULL
                     /\ Accordion!Moving(x, Accordion!FirstOf(S), x.data[Accordion!FirstOf(S)]))
  BY <1>4, FirstActive DEF Accordion!Busy
<1>6. t = [h EXCEPT !.data = kept, !.class[p] = "collapsing", !.expanded[p] = TRUE,
                    !.moves[p] = Append(@, m)]
  BY DEF Accordion!Show
<1> HIDE DEF S, h, dropped, some
<1>7. /\ h.class \in [Accordion!Panel -> Place] /\ h.expanded \in [Accordion!Panel -> BOOLEAN]
      /\ h.data \in [Accordion!Panel -> Nat \cup {NULL}] /\ h.moves \in [Accordion!Panel -> Seq(Move)]
      /\ h.moves[p] = x.moves[p]
  BY <1>3 DEF Acc
<1>8. kept \in [Accordion!Panel -> Nat \cup {NULL}]
      /\ \A q \in Accordion!Panel : kept[q] \in {h.data[q], NULL}
  BY <1>7
<1>9. m \in Move /\ m.inst = i /\ m.to = "in"
  BY <1>1 DEF Move
<1> HIDE DEF m, kept
<1>10. a \in Seq(Move) /\ a # <<>> /\ ToOpen(a) /\ (AllOf(x.moves[p], i) => AllOf(a, i))
  <2>1. x.moves[p] \in Seq(Move)
    BY <1>2
  <2>2. a \in Seq(Move) /\ a # <<>> /\ (ToOpen(a) <=> ToOpen(x.moves[p]) \/ m.to = "in")
        /\ (AllOf(a, i) <=> AllOf(x.moves[p], i) /\ m.inst = i)
    BY <1>9, <2>1, OneMoreMove
  <2> HIDE DEF a
  <2> QED BY <1>9, <2>2
<1>11. t = [h EXCEPT !.data = kept, !.class[p] = "collapsing", !.expanded[p] = TRUE, !.moves[p] = a]
  BY <1>3, <1>6, <1>7 DEF Acc
<1> HIDE DEF t, a
<1>12. /\ t \in Acc /\ t.data = kept /\ t.class = [h.class EXCEPT ![p] = "collapsing"]
       /\ t.expanded = [h.expanded EXCEPT ![p] = TRUE] /\ t.moves = [h.moves EXCEPT ![p] = a]
  <2>1. t.data = kept /\ t.class = [h.class EXCEPT ![p] = "collapsing"]
        /\ t.expanded = [h.expanded EXCEPT ![p] = TRUE] /\ t.moves = [h.moves EXCEPT ![p] = a]
        /\ t = [class |-> t.class, expanded |-> t.expanded, data |-> t.data, moves |-> t.moves]
    BY <1>3, <1>11 DEF Acc
  <2>2. t.class \in [Accordion!Panel -> Place] /\ t.expanded \in [Accordion!Panel -> BOOLEAN]
        /\ t.moves \in [Accordion!Panel -> Seq(Move)]
    BY <1>7, <1>10, <2>1 DEF Place
  <2> QED BY <1>8, <2>1, <2>2 DEF Acc
<1>13. /\ t.class[p] = "collapsing" /\ t.expanded[p] = TRUE /\ t.moves[p] = a
       /\ \A q \in Accordion!Panel \ {p} :
             t.class[q] = h.class[q] /\ t.expanded[q] = h.expanded[q] /\ t.moves[q] = h.moves[q]
  BY <1>7, <1>12
\* The panels that were open, and those that were not.
<1>14. ASSUME NEW q \in Accordion!Panel, x.class[q] = "in"
       PROVE  h.moves[q] # <<>> /\ ~ToOpen(h.moves[q]) /\ AllOf(h.moves[q], h.data[q])
  <2> DEFINE n == [inst |-> h.data[q], to |-> "collapse"]
             b == Append(<<>>, n)
  <2>1. n \in Move /\ n.inst = h.data[q] /\ n.to = "collapse"
    BY <1>3, <1>14 DEF Move
  <2>2. h.moves[q] = b
    BY <1>3, <1>14
  <2> HIDE DEF n
  <2>3. b # <<>> /\ (ToOpen(b) <=> ToOpen(<<>>) \/ n.to = "in")
        /\ (AllOf(b, h.data[q]) <=> AllOf(<<>>, h.data[q]) /\ n.inst = h.data[q])
    BY <2>1, NoMove, OneMoreMove
  <2> HIDE DEF b
  <2> QED BY <2>1, <2>2, <2>3, NoMove
<1>15. Slides(t)
  <2>1. SUFFICES ASSUME NEW q \in Accordion!Panel PROVE t.class[q] = "collapsing" <=> t.moves[q] # <<>>
    BY DEF Slides
  <2>2. CASE q = p
    BY <1>10, <1>13, <2>2
  <2>3. CASE q # p /\ x.class[q] = "in"
    BY <1>3, <1>13, <1>14, <2>3
  <2>4. CASE q # p /\ x.class[q] # "in"
    BY <1>1, <1>3, <1>13, <2>4 DEF Slides
  <2> QED BY <2>2, <2>3, <2>4
<1>16. /\ Opening(t, p)
       /\ \A q \in Accordion!Panel \ {p} : Opening(t, q) <=> x.class[q] # "in" /\ ToOpen(x.moves[q])
  <2>1. SUFFICES ASSUME NEW q \in Accordion!Panel \ {p}
                 PROVE  Opening(t, q) <=> x.class[q] # "in" /\ ToOpen(x.moves[q])
    BY <1>10, <1>13 DEF Opening
  <2>2. CASE x.class[q] = "in"
    BY <1>3, <1>13, <1>14, <2>2 DEF Opening
  <2>3. CASE x.class[q] # "in"
    BY <1>3, <1>13, <2>3 DEF Opening
  <2> QED BY <2>2, <2>3
<1>17. ASSUME of PROVE /\ OneOpens(t) /\ t.data[p] \in {i, NULL} /\ AllOf(t.moves[p], i)
                       /\ \A q \in Accordion!Panel \ {p} : t.data[q] # NULL => AllOf(t.moves[q], t.data[q])
  <2>1. /\ Owned(x) /\ OneOpens(x) /\ x.data[p] \in {i, NULL}
        /\ \A q \in Accordion!Panel : x.data[q] = NULL => x.moves[q] = <<>>
    BY <1>17 DEF Found
  <2>2. AllOf(x.moves[p], i)
    BY <2>1, NoMove DEF Owned
  <2>3. x.moves[p] = <<>> /\ p \notin S
    <3>1. x.moves[p] = <<>>
      BY <1>1, <2>2, MovesIt
    <3> QED BY <1>1, <1>4, <3>1 DEF Slides
  <2>4. \A q \in Accordion!Panel : x.moves[q] # <<>> => ~ToOpen(x.moves[q])
    <3>1. SUFFICES ASSUME NEW q \in Accordion!Panel, x.moves[q] # <<>>, ToOpen(x.moves[q]) PROVE FALSE
      OBVIOUS
    <3> DEFINE f == Accordion!FirstOf(S)
    <3>2. x.class[q] = "collapsing" /\ q \in S
      BY <1>1, <1>4, <3>1 DEF Slides
    <3>3. f \in S /\ ~(x.data[f] # NULL /\ Accordion!Moving(x, f, x.data[f]))
      BY <1>5, <3>2
    <3> HIDE DEF f
    <3>4. f \in Accordion!Panel /\ x.class[f] \in {"in", "collapsing"}
      BY <1>4, <3>3
    <3>5. CASE x.class[f] = "in"
      <4>1. Opening(x, f) /\ Opening(x, q)
        BY <3>1, <3>5 DEF Opening
      <4>2. f = q
        BY <2>1, <3>4, <4>1 DEF OneOpens
      <4> QED BY <3>2, <3>5, <4>2
    <3>6. CASE x.class[f] = "collapsing"
      <4>1. x.moves[f] # <<>>
        BY <1>1, <3>4, <3>6 DEF Slides
      <4>2. x.data[f] # NULL /\ AllOf(x.moves[f], x.data[f])
        BY <2>1, <3>4, <4>1 DEF Owned
      <4>3. Accordion!Moving(x, f, x.data[f])
        BY <1>1, <3>4, <4>1, <4>2, MovesIt
      <4> QED BY <3>3, <4>2, <4>3
    <3> QED BY <3>4, <3>5, <3>6
  <2>5. \A q \in Accordion!Panel \ {p} : ~Opening(t, q)
    BY <1>16, <2>4, NoMove
  <2>6. OneOpens(t)
    BY <2>5 DEF OneOpens
  <2>7. h.data[p] = x.data[p]
    BY <1>3, <2>3
  <2>8. t.data[p] \in {i, NULL} /\ AllOf(t.moves[p], i)
    BY <1>8, <1>10, <1>12, <1>13, <2>1, <2>2, <2>7
  <2>9. ASSUME NEW q \in Accordion!Panel \ {p}, t.data[q] # NULL PROVE AllOf(t.moves[q], t.data[q])
    <3>1. t.data[q] = h.data[q] /\ t.moves[q] = h.moves[q]
      BY <1>8, <1>12, <1>13, <2>9
    <3>2. CASE x.class[q] = "in"
      BY <1>14, <3>1, <3>2
    <3>3. CASE x.class[q] # "in"
      <4>1. t.moves[q] = x.moves[q]
        BY <1>3, <3>1, <3>3
      <4>2. CASE x.data[q] = NULL
        BY <2>1, <4>1, <4>2, NoMove
      <4>3. CASE x.data[q] # NULL
        <5>1. h.data[q] = x.data[q]
          BY <1>3, <4>3
        <5> QED BY <2>1, <3>1, <4>1, <4>3, <5>1 DEF Owned
      <4> QED BY <4>2, <4>3
    <3> QED BY <3>2, <3>3
  <2> QED BY <2>6, <2>8, <2>9
<1>18. ASSUME at PROVE TriggersKnow(t)
  <2>1. /\ TriggersKnow(x)
        /\ \/ \A q \in Accordion!Panel : x.moves[q] = <<>>
           \/ \A q \in S : x.data[q] # NULL
    BY <1>18 DEF Found, S
  <2>2. SUFFICES ASSUME NEW q \in Accordion!Panel \ {p} PROVE t.expanded[q] <=> Opening(t, q)
    BY <1>13, <1>16 DEF TriggersKnow
  <2>3. CASE x.class[q] = "in"
    BY <1>3, <1>13, <1>16, <2>3
  <2>4. CASE x.class[q] # "in"
    <3>1. (t.expanded[q] <=> (~some /\ x.expanded[q]))
      <4>1. t.expanded[q] = IF some THEN FALSE ELSE x.expanded[q]
        BY <1>3, <1>13, <2>4
      <4> QED BY <4>1
    <3>2. x.expanded[q] <=> ToOpen(x.moves[q])
      BY <2>1, <2>4 DEF TriggersKnow, Opening
    <3>3. some => ~ToOpen(x.moves[q])
      <4>1. ASSUME some PROVE x.moves[q] = <<>>
        BY <2>1, <4>1 DEF some
      <4> QED BY <4>1, NoMove
    <3> QED BY <1>16, <2>4, <3>1, <3>2, <3>3
  <2> QED BY <2>3, <2>4
<1> QED BY <1>12, <1>15, <1>17, <1>18 DEF Toggled, t


\* A click on its trigger, of whatever a panel is.
LEMMA PanelToggles ==
    ASSUME NEW x, NEW p \in Accordion!Panel, NEW i, NEW of \in BOOLEAN, NEW at \in BOOLEAN, Found(x, p, i, of, at)
    PROVE  Toggled(Accordion!Toggle(x, p, i), p, i, of, at)
<1>1. CASE x.class[p] = "in"
  BY <1>1, PanelHides DEF Accordion!Toggle
<1>2. CASE x.class[p] # "in" /\ ~Accordion!Moving(x, p, i) /\ ~Accordion!Busy(x)
  BY <1>2, PanelShows DEF Accordion!Toggle
<1>3. CASE x.class[p] # "in" /\ (Accordion!Moving(x, p, i) \/ Accordion!Busy(x))
  <2>1. Accordion!Toggle(x, p, i) = x
    BY <1>3 DEF Accordion!Toggle, Accordion!Show
  <2>2. of => AllOf(x.moves[p], i)
    BY NoMove DEF Found, Owned
  <2>3. Toggled(x, p, i, of, at)
    BY <2>2 DEF Found, Toggled, Owned
  <2> QED BY <2>1, <2>3
<1> QED BY <1>1, <1>2, <1>3

LEMMA AccBecomes ==
    ASSUME NEW t, AccOK(t, ~bare', ~early'), Accordion!Become(t), bare' \in BOOLEAN, early' \in BOOLEAN
    PROVE  AccInv'
<1>1. Accordion!X' = t
  BY DEF AccOK, Acc, Accordion!X, Accordion!Become
<1>2. AccOK(Accordion!X', ~bare', ~early')
  BY <1>1
<1> QED BY <1>2 DEF AccInv, AccOK, Slides, Owned, OneOpens, Opening, TriggersKnow, ToOpen, AllOf, Acc, Accordion!Panel

LEMMA AccClick ==
    ASSUME AccInv, NEW p \in Accordion!Panel, Accordion!Click(p)
    PROVE  AccInv'
<1> DEFINE x == Accordion!X
<1>1. AccOK(x, ~bare, ~early) /\ bare \in BOOLEAN /\ early \in BOOLEAN
  BY DEF AccInv
<1>2. x.class = class /\ x.expanded = expanded /\ x.data = data /\ x.moves = moves /\ x \in Acc
  BY <1>1 DEF Accordion!X, AccOK
<1>3. bare' \in BOOLEAN /\ (~bare' => ~bare /\ \A q \in Accordion!Panel : data[q] = NULL => moves[q] = <<>>)
  <2>1. bare' = (bare \/ \E q \in Accordion!Panel : data[q] = NULL /\ moves[q] # <<>>)
    BY DEF Accordion!Click
  <2> QED BY <1>1, <2>1
<1>4. early' \in BOOLEAN
      /\ (~early' => ~early /\ (Accordion!MakesOne(p) => \A q \in Accordion!Panel : moves[q] = <<>>))
  <2>1. early' = (early \/ (Accordion!MakesOne(p) /\ \E q \in Accordion!Panel : moves[q] # <<>>))
    BY DEF Accordion!Click
  <2> QED BY <1>1, <2>1
<1>5. Accordion!MakesOne(p) <=> \E q \in Accordion!Actives(x) \cup {p} : data[q] = NULL
  BY DEF Accordion!MakesOne
<1>6. IF data[p] # NULL THEN Accordion!Become(Accordion!Toggle(x, p, data[p]))
      ELSE Accordion!Become([Accordion!Toggle(Accordion!New(x), p, Accordion!Fresh(x, p))
                                EXCEPT !.data[p] = Accordion!Fresh(x, p)])
  BY DEF Accordion!Click
<1> HIDE DEF x
<1>7. CASE data[p] # NULL
  <2> DEFINE i == data[p]
             t == Accordion!Toggle(x, p, i)
  <2>1. i \in Nat
    BY <1>2, <1>7 DEF Acc
  <2>2. Found(x, p, i, ~bare', ~early')
    BY <1>1, <1>2, <1>3, <1>4, <1>5, <2>1 DEF Found, AccOK
  <2>3. Toggled(t, p, i, ~bare', ~early')
    BY <2>2, PanelToggles
  <2> HIDE DEF t, i
  <2>4. AccOK(t, ~bare', ~early')
    BY <2>3 DEF Toggled, AccOK, Owned
  <2>5. Accordion!Become(t)
    BY <1>6, <1>7 DEF t, i
  <2> QED BY <1>3, <1>4, <2>4, <2>5, AccBecomes
<1>8. CASE data[p] = NULL
  <2> DEFINE i == Accordion!Fresh(x, p)
             y == Accordion!New(x)
             t == Accordion!Toggle(y, p, i)
             e == [t EXCEPT !.data[p] = i]
             ins == [q \in Accordion!Panel |-> x.class[q] = "in"]
  <2>1. i \in Nat
    BY <1>2, FreshIsFree
  <2>2. Accordion!Become(e)
    BY <1>6, <1>8
  <2>3. y = [x EXCEPT !.expanded = ins]
    BY DEF Accordion!New
  <2>4. ins \in [Accordion!Panel -> BOOLEAN]
    BY Zenon
  <2>5. \A q \in Accordion!Panel : ins[q] <=> x.class[q] = "in"
    BY Zenon
  <2> HIDE DEF y, ins, i
  <2>6. y \in Acc /\ y.class = x.class /\ y.data = x.data /\ y.moves = x.moves /\ y.expanded = ins
    BY <1>2, <2>3, <2>4 DEF Acc
  <2>7. \A q \in Accordion!Panel : Opening(y, q) <=> Opening(x, q)
    BY <2>6 DEF Opening
  <2>8. Slides(y)
    BY <1>1, <2>6 DEF AccOK, Slides
  <2>9. ASSUME ~bare'
        PROVE  /\ Owned(y) /\ OneOpens(y) /\ y.data[p] \in {i, NULL}
               /\ \A q \in Accordion!Panel : y.data[q] = NULL => y.moves[q] = <<>>
    BY <1>1, <1>2, <1>3, <1>8, <2>6, <2>7, <2>9 DEF AccOK, Owned, OneOpens
  <2>10. ASSUME ~early'
         PROVE  TriggersKnow(y) /\ \A q \in Accordion!Panel : y.moves[q] = <<>>
    <3>1. \A q \in Accordion!Panel : y.moves[q] = <<>>
      BY <1>2, <1>4, <1>5, <1>8, <2>6, <2>10
    <3>2. \A q \in Accordion!Panel : Opening(y, q) <=> x.class[q] = "in"
      BY <2>6, <3>1, NoMove DEF Opening
    <3>3. TriggersKnow(y)
      BY <2>5, <2>6, <3>2, Zenon DEF TriggersKnow
    <3> QED BY <3>1, <3>3
  <2>11. Found(y, p, i, ~bare', ~early')
    BY <2>1, <2>6, <2>8, <2>9, <2>10 DEF Found
  <2>12. Toggled(t, p, i, ~bare', ~early')
    BY <2>11, PanelToggles
  <2> HIDE DEF t, e
  <2>13. t \in Acc
    BY <2>12 DEF Toggled
  <2>14. e \in Acc /\ e.class = t.class /\ e.expanded = t.expanded /\ e.moves = t.moves
         /\ e.data = [t.data EXCEPT ![p] = i]
    <3>1. e = [t EXCEPT !.data = [t.data EXCEPT ![p] = i]]
      BY <2>13 DEF e, Acc
    <3>2. [t.data EXCEPT ![p] = i] \in [Accordion!Panel -> Nat \cup {NULL}]
      BY <2>1, <2>13 DEF Acc
    <3> DEFINE d == [t.data EXCEPT ![p] = i]
    <3> HIDE DEF d
    <3>3. e = [t EXCEPT !.data = d] /\ d \in [Accordion!Panel -> Nat \cup {NULL}]
      BY <3>1, <3>2 DEF d
    <3>4. e \in Acc /\ e.class = t.class /\ e.expanded = t.expanded /\ e.moves = t.moves /\ e.data = d
      BY <2>13, <3>3 DEF Acc
    <3> QED BY <3>4 DEF d
  <2>15. \A q \in Accordion!Panel : e.data[q] = IF q = p THEN i ELSE t.data[q]
    BY <2>13, <2>14 DEF Acc
  <2>16. \A q \in Accordion!Panel : Opening(e, q) <=> Opening(t, q)
    BY <2>14 DEF Opening
  <2>17. Slides(e)
    BY <2>12, <2>14 DEF Toggled, Slides
  <2>18. ASSUME ~bare' PROVE Owned(e) /\ OneOpens(e)
    BY <2>12, <2>14, <2>15, <2>16, <2>18 DEF Toggled, Owned, OneOpens
  <2>19. ASSUME ~early' PROVE TriggersKnow(e)
    BY <2>12, <2>14, <2>16, <2>19 DEF Toggled, TriggersKnow
  <2>20. AccOK(e, ~bare', ~early')
    BY <2>14, <2>17, <2>18, <2>19 DEF AccOK
  <2> QED BY <1>3, <1>4, <2>2, <2>20, AccBecomes
<1> QED BY <1>7, <1>8

LEMMA AccEnds ==
    ASSUME AccInv, NEW p \in Accordion!Panel, Accordion!TransitionEnd(p)
    PROVE  AccInv'
<1> DEFINE x == Accordion!X
           w == Accordion!Completed(p)
           e == [x EXCEPT !.class = [class EXCEPT ![p] = w], !.moves = [moves EXCEPT ![p] = <<>>]]
<1>1. AccOK(x, ~bare, ~early) /\ bare \in BOOLEAN /\ early \in BOOLEAN
  BY DEF AccInv
<1>2. x.class = class /\ x.expanded = expanded /\ x.data = data /\ x.moves = moves /\ x \in Acc
  BY <1>1 DEF Accordion!X, AccOK
<1>3. /\ moves[p] # <<>> /\ class' = [class EXCEPT ![p] = w] /\ moves' = [moves EXCEPT ![p] = <<>>]
      /\ expanded' = expanded /\ data' = data /\ bare' = bare /\ early' = early
  BY DEF Accordion!TransitionEnd
<1>4. w \in {"in", "collapse"} /\ (w = "in" <=> ToOpen(moves[p]))
  BY DEF Accordion!Completed, ToOpen
<1> HIDE DEF x, w
<1>5. /\ class \in [Accordion!Panel -> Place] /\ moves \in [Accordion!Panel -> Seq(Move)]
  BY <1>2 DEF Acc
<1>6. /\ [class EXCEPT ![p] = w] \in [Accordion!Panel -> Place]
      /\ [moves EXCEPT ![p] = <<>>] \in [Accordion!Panel -> Seq(Move)]
  BY <1>4, <1>5, NoMove DEF Place
<1>7. e \in Acc /\ e.class = [class EXCEPT ![p] = w] /\ e.moves = [moves EXCEPT ![p] = <<>>]
      /\ e.expanded = expanded /\ e.data = data
  BY <1>2, <1>6 DEF Acc
<1> HIDE DEF e
<1>8. /\ e.class[p] = w /\ e.moves[p] = <<>>
      /\ \A q \in Accordion!Panel \ {p} : e.class[q] = class[q] /\ e.moves[q] = moves[q]
  BY <1>5, <1>7
<1>9. class[p] = "collapsing"
  BY <1>1, <1>2, <1>3 DEF AccOK, Slides
<1>10. \A q \in Accordion!Panel : Opening(e, q) <=> Opening(x, q)
  <2>1. SUFFICES ASSUME NEW q \in Accordion!Panel PROVE Opening(e, q) <=> Opening(x, q)
    OBVIOUS
  <2>2. CASE q = p
    BY <1>2, <1>4, <1>8, <1>9, <2>2, NoMove DEF Opening
  <2>3. CASE q # p
    BY <1>2, <1>8, <2>3 DEF Opening
  <2> QED BY <2>2, <2>3
<1>11. Slides(e)
  BY <1>1, <1>2, <1>4, <1>8 DEF AccOK, Slides
<1>12. ASSUME ~bare PROVE Owned(e) /\ OneOpens(e)
  <2>1. Owned(x) /\ OneOpens(x)
    BY <1>1, <1>12 DEF AccOK
  <2>2. Owned(e)
    BY <1>2, <1>7, <1>8, <2>1, NoMove DEF Owned
  <2> QED BY <1>10, <2>1, <2>2 DEF OneOpens
<1>13. ASSUME ~early PROVE TriggersKnow(e)
  BY <1>1, <1>2, <1>7, <1>10, <1>13 DEF AccOK, TriggersKnow
<1>14. AccOK(e, ~bare', ~early')
  BY <1>3, <1>7, <1>11, <1>12, <1>13 DEF AccOK
<1>15. Accordion!Become(e)
  BY <1>3, <1>7 DEF Accordion!Become
<1> QED BY <1>1, <1>3, <1>14, <1>15, AccBecomes

LEMMA AccNext ==
    ASSUME AccInv, Accordion!Next
    PROVE  AccInv'
BY AccClick, AccEnds DEF Accordion!Next


-----------------------------------------------------------------------------
(* What holds always of the three.                                         *)

LEMMA OpenAlways == Spec => [](SearchInv /\ TipInv /\ AccInv)
<1>1. Init => SearchInv /\ TipInv /\ AccInv
  BY BarInit, TipInit, AccInit DEF Init
<1>2. SearchInv /\ TipInv /\ AccInv /\ [Next]_vars => SearchInv' /\ TipInv' /\ AccInv'
  <2> SUFFICES ASSUME SearchInv, TipInv, AccInv, [Next]_vars PROVE SearchInv' /\ TipInv' /\ AccInv'
    OBVIOUS
  <2>1. Searchbar!Next \/ UNCHANGED searchVars
    BY Zenon DEF Next, vars
  <2>2. Tooltip!Next \/ UNCHANGED tooltipVars
    BY Zenon DEF Next, vars
  <2>3. Accordion!Next \/ UNCHANGED accordionVars
    BY Zenon DEF Next, vars
  <2>4. ASSUME UNCHANGED searchVars PROVE SearchInv'
    <3>1. Searchbar!Become(Searchbar!B)
      BY <2>4 DEF searchVars, Searchbar!Become, Searchbar!B
    <3> QED BY <3>1, BarBecomes DEF SearchInv
  <2>5. ASSUME UNCHANGED tooltipVars PROVE TipInv'
    <3>1. Tooltip!Become(Tooltip!T) /\ over' = over /\ hears' = hears
      BY <2>5 DEF tooltipVars, Tooltip!Become, Tooltip!T
    <3> QED BY <3>1, TipBecomes DEF TipInv
  <2>6. ASSUME UNCHANGED accordionVars PROVE AccInv'
    <3>1. Accordion!Become(Accordion!X) /\ bare' = bare /\ early' = early
      BY <2>6 DEF accordionVars, Accordion!Become, Accordion!X
    <3>2. bare' \in BOOLEAN /\ early' \in BOOLEAN /\ AccOK(Accordion!X, ~bare', ~early')
      BY <3>1 DEF AccInv
    <3> QED BY <3>1, <3>2, AccBecomes
  <2> QED BY <2>1, <2>2, <2>3, <2>4, <2>5, <2>6, SearchNext, TipNext, AccNext
<1> QED BY <1>1, <1>2, PTL DEF Spec

\* bootstrap.js, Tooltip and Collapse, framework7.js, Searchbar: in every behaviour, of
\* accordions of any number of panels and whatever the delays and the platform, a tip
\* that was left goes and one that is hovered comes, at most one panel is open or opens
\* and its trigger says so, and the overlay of a search bar covers the list exactly
\* while there is nothing to find - but for what the histories tell.
THEOREM OpenAlwaysAgrees == Spec => []OpenAgree
<1>1. SearchInv => Searchbar!OverlayAgrees
  <2> SUFFICES ASSUME SearchInv, Searchbar!Listed, late = <<>>, ~crossed
               PROVE  (overlay <=> searchEnabled /\ query = "") /\ (searchActive <=> searchEnabled)
    BY DEF Searchbar!OverlayAgrees
  <2>1. LET b == Searchbar!B
        IN  b.late = late /\ b.crossed = crossed /\ b.overlay = overlay /\ b.enabled = searchEnabled
            /\ b.query = query /\ b.active = searchActive
    BY DEF Searchbar!B
  <2> QED BY <2>1 DEF SearchInv, BarOK, Overlaid, Believes, Waiting
<1>2. TipInv => Tooltip!LeftIsGone /\ Tooltip!HoveredIsShown
  <2> SUFFICES ASSUME TipInv, Tooltip!AtRest
               PROVE  /\ (~over \/ dead) /\ ~caught => ~attached
                      /\ over /\ ~dead /\ ~tooltipOdd => attached /\ shown
    BY DEF Tooltip!LeftIsGone, Tooltip!HoveredIsShown
  <2> DEFINE t == Tooltip!T
  <2>1. t.waits = <<>> /\ hears = <<>> /\ t.timeout = NULL
    BY DEF Tooltip!AtRest, Tooltip!T
  <2>2. t.dead = dead /\ t.odd = tooltipOdd /\ t.attached = attached /\ t.shown = shown /\ t.caught = caught
    BY DEF Tooltip!T
  <2>3. Timed(t, over, hears) /\ Fading(t, over, hears) /\ Hovered(t, over, hears) /\ Destroyed(t, hears)
    BY DEF TipInv, TipOK
  <2> HIDE DEF t
  <2>4. NULL # "hide" /\ NULL # "show"
    BY AssumptionOfTips DEF Tooltip!TipAssumption
  <2>5. (t.dead <=> dead) /\ (t.odd <=> tooltipOdd) /\ (t.attached <=> attached) /\ (t.shown <=> shown)
        /\ (t.caught <=> caught)
    BY <2>2, Zenon
  <2> QED BY <2>1, <2>3, <2>4, <2>5, AwaitsNone DEF Timed, Fading, Hides, Hovered, Destroyed
<1>3. AccInv => Accordion!OneOpen /\ Accordion!TriggersAgree
  <2> SUFFICES ASSUME AccInv PROVE Accordion!OneOpen /\ Accordion!TriggersAgree
    OBVIOUS
  <2> DEFINE x == Accordion!X
             O == {p \in Accordion!Panel : Accordion!Opens(p)}
  <2>1. \A p \in Accordion!Panel : Accordion!Opens(p) <=> Opening(x, p)
    BY DEF Accordion!Opens, Opening, ToOpen, Accordion!X
  <2>2. x.expanded = expanded
    BY DEF Accordion!X
  <2>3. AccOK(x, ~bare, ~early)
    BY DEF AccInv
  <2> HIDE DEF x
  <2>4. Accordion!TriggersAgree
    BY <2>1, <2>2, <2>3 DEF AccOK, TriggersKnow, Accordion!TriggersAgree
  <2>5. ASSUME ~bare PROVE Accordion!Cardinality(O) <= 1
    <3>1. \A p, q \in O : p = q
      BY <2>1, <2>3, <2>5 DEF AccOK, OneOpens
    <3> HIDE DEF O
    <3>2. Accordion!Cardinality(O) = Cardinality(O)
      BY DEF Accordion!Cardinality, Cardinality
    <3>3. CASE O = {}
      BY <3>2, <3>3, FS_EmptySet
    <3>4. CASE O # {}
      <4>1. PICK p : p \in O
        BY <3>4
      <4>2. O = {p}
        BY <3>1, <4>1
      <4>3. Cardinality({p}) = 1
        BY FS_Singleton
      <4> QED BY <3>2, <4>2, <4>3
    <3> QED BY <3>3, <3>4
  <2>6. Accordion!OneOpen
    BY <2>5 DEF Accordion!OneOpen
  <2> QED BY <2>4, <2>6
<1>4. SearchInv /\ TipInv /\ AccInv => OpenAgree
  BY <1>1, <1>2, <1>3 DEF OpenAgree
<1> QED BY <1>4, OpenAlways, PTL

-----------------------------------------------------------------------------
(* What the lists show.                                                    *)

LEMMA DataAlways == Spec => [](ListInv /\ ModelsInv)
<1>1. Init => ListInv /\ ModelsInv
  BY ListInit, ModelsInit DEF Init
<1>2. ListInv /\ ModelsInv /\ [Next]_vars => ListInv' /\ ModelsInv'
  <2> SUFFICES ASSUME ListInv, ModelsInv, [Next]_vars PROVE ListInv' /\ ModelsInv'
    OBVIOUS
  <2>1. VirtualList!Next \/ UNCHANGED virtualVars
    BY Zenon DEF Next, vars
  <2>2. Collections!Next \/ UNCHANGED collectionsVars
    BY Zenon DEF Next, vars
  <2> QED BY <2>1, <2>2, ListNext, ListStays, ModelsNext, ModelsStay
<1> QED BY <1>1, <1>2, PTL DEF Spec

\* backbone.js, Collection, framework7.js, VirtualList and Searchbar: in every behaviour,
\* of any number of models, ids, items and rows, however adding, removing, fetching,
\* saving, scrolling, filtering and typing come between each other: a collection finds a
\* model by its id and its cid exactly while it holds it, and listens to it once; each row
\* a virtual list has in its cache shows the item it was made for, and rows cover what is
\* seen; a search leaves in the list what matches the input that was heard - but for what
\* the histories tell.
THEOREM DataAlwaysAgrees == Spec => []DataAgree
<1>1. SearchInv => Searchbar!ResultsMatch
  <2> SUFFICES ASSUME SearchInv, Searchbar!Listed, ~searchHeard, ~silent
               PROVE  searchRows = Matches[value] /\ (found <=> searchRows # {})
    BY DEF Searchbar!ResultsMatch
  <2>1. LET b == Searchbar!B
        IN  b.heard = searchHeard /\ b.silent = silent /\ b.value = value /\ b.query = query
            /\ b.rows = searchRows /\ b.found = found
    BY DEF Searchbar!B
  <2>2. Lists(Searchbar!B) /\ Hears(Searchbar!B, query)
    BY <2>1 DEF SearchInv, BarOK
  <2> QED BY <2>1, <2>2 DEF Lists, Hears
<1>2. ListInv /\ ModelsInv /\ SearchInv => DataAgree
  BY <1>1, ListRight, ModelsRight DEF DataAgree
<1> QED BY <1>2, DataAlways, OpenAlways, PTL
=============================================================================
