-------------------------- MODULE Libraries_proofs --------------------------
(***************************************************************************)
(* Proofs about the libraries of MCLibraries, for every number of items,   *)
(* modals, uploads, fragments and routes: what a carousel owes those who   *)
(* asked, what the history knows of the address, what an upload counts,    *)
(* what a module of the loader and its errback wait for.                   *)
(***************************************************************************)
EXTENDS MCLibraries, Sequences, SequenceTheorems, FiniteSetTheorems, WellFoundedInduction, TLAPS

\* A set of numbers that is not empty has a first one.
LEMMA FirstOf ==
    ASSUME NEW T \in SUBSET Nat, T # {} PROVE \E k \in T : \A j \in T : k <= j
<1> DEFINE R == {ss \in Nat \X Nat : ss[1] < ss[2]}
<1>1. IsWellFoundedOn(R, Nat)
  BY NatLessThanWellFounded DEF OpToRel
<1> HIDE DEF R
<1>2. PICK x \in T : \A y \in T : ~ (<<y, x>> \in R)
  BY <1>1, WFMin
<1>3. \A y \in T : <<y, x>> \in Nat \X Nat
  BY <1>2
<1>4. \A y \in T : ~(y < x)
  BY <1>2, <1>3 DEF R
<1> QED BY <1>2, <1>4, SMT

-----------------------------------------------------------------------------
(* The carousel.                                                           *)

Item == 0 .. Items - 1

\* What the variables are, the pointer's and the page's.
CarouselTyped ==
    /\ wrap \in BOOLEAN /\ active \in Item /\ next \in Item \cup {NULL}
    /\ sliding \in BOOLEAN /\ interval \in BOOLEAN /\ paused \in BOOLEAN /\ hovered \in BOOLEAN
    /\ queue \in Seq(Item) /\ slids \in Nat /\ resumed \in BOOLEAN

CarouselInv == CarouselTyped /\ CarouselObeys

\* What a state c of the carousel has to be while the pointer is over it, or not.
State == [active : Item, next : Item \cup {NULL}, sliding : BOOLEAN, interval : BOOLEAN,
          paused : BOOLEAN, queue : Seq(Item), slids : Nat, resumed : BOOLEAN]
Obeys(c, over) ==
    /\ c.queue # <<>> => c.sliding \/ c.slids > 0
    /\ over /\ ~c.resumed => ~c.interval

LEMMA CarouselState ==
    ASSUME CarouselInv PROVE Carousel!C \in State /\ Obeys(Carousel!C, hovered)
BY DEF CarouselInv, CarouselTyped, CarouselObeys, Carousel!RequestsKept, Carousel!HoverHolds,
       Carousel!C, State, Obeys

LEMMA CarouselBecomes ==
    ASSUME wrap \in BOOLEAN, NEW c \in State, Carousel!Become(c), NEW over \in BOOLEAN,
           hovered' = over, Obeys(c, over)
    PROVE  CarouselInv'
<1>1. /\ wrap' = wrap /\ active' = c.active /\ next' = c.next /\ sliding' = c.sliding
      /\ interval' = c.interval /\ paused' = c.paused /\ queue' = c.queue
      /\ slids' = c.slids /\ resumed' = c.resumed
  BY DEF Carousel!Become
<1>2. CarouselTyped'
  BY <1>1 DEF CarouselTyped, State
<1>3. CarouselObeys'
  BY <1>1 DEF CarouselObeys, Carousel!RequestsKept, Carousel!HoverHolds, Obeys
<1> QED BY <1>2, <1>3 DEF CarouselInv

\* A slide to another item slides; what cycled cycles, and nothing else does.
LEMMA SlideObeys ==
    ASSUME NEW c \in State, NEW over \in BOOLEAN, Obeys(c, over), ~c.sliding, NEW i \in Item
    PROVE  /\ Carousel!Slide(c, i) \in State /\ Obeys(Carousel!Slide(c, i), over)
           /\ i # c.active => Carousel!Slide(c, i).sliding
           /\ Carousel!Slide(c, i).queue = c.queue
<1> USE DEF Carousel!Slide, Carousel!Restarted, Carousel!Pause, Carousel!Cycle, State, Obeys
<1>1. CASE i = c.active BY <1>1
<1>2. CASE i # c.active BY <1>2
<1> QED BY <1>1, <1>2

LEMMA ToObeys ==
    ASSUME NEW c \in State, NEW over \in BOOLEAN, Obeys(c, over), NEW i \in Item
    PROVE  /\ Carousel!To(c, i) \in State /\ Obeys(Carousel!To(c, i), over)
           /\ ~c.sliding /\ i # c.active => Carousel!To(c, i).sliding
<1>1. CASE c.sliding
  <2>1. Append(c.queue, i) \in Seq(Item) BY DEF State
  <2>2. Carousel!To(c, i) = [c EXCEPT !.queue = Append(c.queue, i)]
    BY <1>1 DEF Carousel!To
  <2> QED BY <1>1, <2>1, <2>2 DEF State, Obeys
<1>2. CASE ~c.sliding /\ i = c.active
  <2>1. Carousel!To(c, i) = Carousel!ToldToCycle(Carousel!Pause(c))
    BY <1>2 DEF Carousel!To
  <2> QED BY <1>2, <2>1 DEF Carousel!ToldToCycle, Carousel!Pause, Carousel!Cycle, State, Obeys
<1>3. CASE ~c.sliding /\ i # c.active
  <2>1. Carousel!To(c, i) = Carousel!Slide(c, i)
    BY <1>3 DEF Carousel!To
  <2> QED BY <1>3, <2>1, SlideObeys
<1> QED BY <1>1, <1>2, <1>3 DEF State

\* Those who waited: when one slides the others wait for it, and when none does
\* nobody waits.
LEMMA AskedObeys ==
    ASSUME NEW c \in State, NEW over \in BOOLEAN, Obeys(c, over), c.queue = <<>>,
           NEW q \in Seq(Item)
    PROVE  Carousel!Asked(c, q) \in State /\ Obeys(Carousel!Asked(c, q), over)
<1> DEFINE others == {n \in DOMAIN q : q[n] # c.active}
           k == CHOOSE n \in others \cup {Len(q) + 1} : \A j \in others : n <= j
           there == IF k > 1 THEN Carousel!ToldToCycle(Carousel!Pause(c)) ELSE c
<1>1. k \in others \cup {Len(q) + 1}
  <2>1. others \in SUBSET Nat /\ \A j \in others : j <= Len(q) + 1
    OBVIOUS
  <2>2. CASE others = {} BY <2>2
  <2>3. CASE others # {}
    <3>1. PICK n \in others : \A j \in others : n <= j
      BY <2>1, <2>3, FirstOf
    <3> QED BY <3>1
  <2> QED BY <2>2, <2>3
<1>2. there \in State /\ Obeys(there, over) /\ there.active = c.active
      /\ there.sliding = c.sliding /\ there.queue = <<>>
  BY DEF Carousel!ToldToCycle, Carousel!Pause, Carousel!Cycle, State, Obeys
<1>3. CASE c.sliding
  <2>1. Carousel!Asked(c, q) = [c EXCEPT !.queue = q]
    BY <1>3 DEF Carousel!Asked
  <2> QED BY <1>3, <2>1 DEF State, Obeys
<1>4. CASE ~c.sliding /\ k > Len(q)
  <2>1. Carousel!Asked(c, q) = there
    BY <1>4 DEF Carousel!Asked
  <2> QED BY <2>1, <1>2
<1>5. CASE ~c.sliding /\ ~(k > Len(q))
  <2> DEFINE t == Carousel!To(there, q[k])
             rest == SubSeq(q, k + 1, Len(q))
  <2>1. Carousel!Asked(c, q) = [t EXCEPT !.queue = rest]
    BY <1>5 DEF Carousel!Asked
  <2> HIDE DEF k, there
  <2>2. k \in DOMAIN q /\ q[k] \in Item /\ q[k] # c.active
    BY <1>1, <1>5
  <2>3. t \in State /\ Obeys(t, over) /\ t.sliding
    BY <1>2, <1>5, <2>2, ToObeys
  <2>4. rest \in Seq(Item)
    BY <2>2
  <2> HIDE DEF t, rest
  <2> QED BY <2>1, <2>3, <2>4 DEF State, Obeys
<1>6. c.sliding \in BOOLEAN BY DEF State
<1> QED BY <1>3, <1>4, <1>5, <1>6

LEMMA TurnObeys ==
    ASSUME NEW c \in State, NEW over \in BOOLEAN, Obeys(c, over), NEW d \in {-1, 1}
    PROVE  Carousel!Turn(c, d) \in State /\ Obeys(Carousel!Turn(c, d), over)
<1>1. Carousel!ItemFor(c, d) \in Item
  BY AssumptionOfCarousel DEF Carousel!CarouselAssumption, Carousel!ItemFor, Item, State
<1>2. CASE c.sliding BY <1>2 DEF Carousel!Turn
<1>3. CASE ~c.sliding
  BY <1>1, <1>3, SlideObeys DEF Carousel!Turn
<1> QED BY <1>2, <1>3

LEMMA CarouselInit == ASSUME Carousel!Init PROVE CarouselInv
<1>1. 0 \in Item /\ Wraps \subseteq BOOLEAN
  BY AssumptionOfCarousel, SMT DEF Carousel!CarouselAssumption, Item
<1>2. CarouselTyped
  <2>1. <<>> \in Seq(Item) /\ 0 \in Nat OBVIOUS
  <2> QED BY <1>1, <2>1, Zenon DEF Carousel!Init, CarouselTyped
<1>3. CarouselObeys
  BY DEF Carousel!Init, CarouselObeys, Carousel!RequestsKept, Carousel!HoverHolds
<1> QED BY <1>2, <1>3 DEF CarouselInv

LEMMA CarouselNext == ASSUME CarouselInv, Carousel!Next PROVE CarouselInv'
<1> DEFINE c == Carousel!C
<1>0. /\ c \in State /\ Obeys(c, hovered) /\ wrap \in BOOLEAN /\ hovered \in BOOLEAN
      /\ queue \in Seq(Item) /\ next \in Item \cup {NULL} /\ slids \in Nat
  BY CarouselState DEF CarouselInv, CarouselTyped
<1>1. ASSUME NEW d \in {-1, 1}, Carousel!ArrowOrKey(d) PROVE CarouselInv'
  <2>1. hovered' = hovered /\ Carousel!Become(Carousel!Turn(c, d))
    BY <1>1 DEF Carousel!ArrowOrKey
  <2>2. Carousel!Turn(c, d) \in State /\ Obeys(Carousel!Turn(c, d), hovered)
    BY <1>0, TurnObeys
  <2> QED BY <1>0, <2>1, <2>2, CarouselBecomes
<1>2. ASSUME NEW i \in Item, Carousel!Indicator(i) PROVE CarouselInv'
  <2>1. hovered' = hovered /\ Carousel!Become(Carousel!To(c, i))
    BY <1>2 DEF Carousel!Indicator
  <2>2. Carousel!To(c, i) \in State /\ Obeys(Carousel!To(c, i), hovered)
    BY <1>0, ToObeys
  <2> QED BY <1>0, <2>1, <2>2, CarouselBecomes
<1>3. CASE Carousel!Interval
  <2>1. hovered' = hovered /\ Carousel!Become(Carousel!Turn(c, 1))
    BY <1>3 DEF Carousel!Interval
  <2>2. Carousel!Turn(c, 1) \in State /\ Obeys(Carousel!Turn(c, 1), hovered)
    BY <1>0, TurnObeys
  <2> QED BY <1>0, <2>1, <2>2, CarouselBecomes
<1>4. CASE Carousel!MouseEnter
  <2>1. hovered' = TRUE /\ Carousel!Become(Carousel!PauseAtEvent(c))
    BY <1>4 DEF Carousel!MouseEnter
  <2>2. Carousel!PauseAtEvent(c) \in State /\ Obeys(Carousel!PauseAtEvent(c), TRUE)
    BY <1>0 DEF Carousel!PauseAtEvent, State, Obeys
  <2> QED BY <1>0, <2>1, <2>2, CarouselBecomes
<1>5. CASE Carousel!MouseLeave
  <2>1. hovered' = FALSE /\ Carousel!Become(Carousel!CycleAtEvent(c))
    BY <1>5 DEF Carousel!MouseLeave
  <2>2. Carousel!CycleAtEvent(c) \in State /\ Obeys(Carousel!CycleAtEvent(c), FALSE)
    BY <1>0 DEF Carousel!CycleAtEvent, State, Obeys
  <2> QED BY <1>0, <2>1, <2>2, CarouselBecomes
<1>6. CASE Carousel!TransitionEnd
  <2>1. hovered' = hovered /\ Carousel!Become(Carousel!Slides(c)) /\ next # NULL
    BY <1>6 DEF Carousel!TransitionEnd
  <2>2. c.next \in Item
    BY <1>0, <2>1 DEF Carousel!C
  <2>3. c.slids + 1 \in Nat /\ c.slids + 1 > 0
    BY <1>0 DEF State
  <2>4. Carousel!Slides(c) \in State
    BY <1>0, <2>2, <2>3 DEF Carousel!Slides, State
  <2>5. Obeys(Carousel!Slides(c), hovered)
    BY <1>0, <2>3 DEF Carousel!Slides, State, Obeys
  <2> QED BY <1>0, <2>1, <2>4, <2>5, CarouselBecomes
<1>7. CASE Carousel!Slid
  <2> DEFINE n == c.slids - 1
             e == [c EXCEPT !.slids = n, !.queue = <<>>]
  <2>1. /\ hovered' = hovered /\ slids > 0 /\ Carousel!Become(Carousel!Asked(e, queue))
    BY <1>7 DEF Carousel!Slid
  <2>2. n \in Nat /\ <<>> \in Seq(Item)
    BY <1>0, <2>1 DEF Carousel!C
  <2> HIDE DEF n
  <2>3. e \in State /\ e.queue = <<>>
    BY <1>0, <2>2 DEF State
  <2>4. Obeys(e, hovered)
    BY <1>0 DEF State, Obeys
  <2> HIDE DEF e
  <2>5. Carousel!Asked(e, queue) \in State /\ Obeys(Carousel!Asked(e, queue), hovered)
    BY <1>0, <2>3, <2>4, AskedObeys
  <2> QED BY <1>0, <2>1, <2>5, CarouselBecomes
<1>8. ASSUME NEW pauses \in BOOLEAN, Carousel!PageTells(pauses) PROVE CarouselInv'
  <2> DEFINE t == IF pauses THEN Carousel!Pause(c) ELSE Carousel!ToldToCycle(c)
  <2>1. hovered' = hovered /\ Carousel!Become(t)
    BY <1>8 DEF Carousel!PageTells
  <2>2. t \in State /\ Obeys(t, hovered)
    BY <1>0 DEF Carousel!Pause, Carousel!ToldToCycle, Carousel!Cycle, State, Obeys
  <2> QED BY <1>0, <2>1, <2>2, CarouselBecomes
<1> QED BY <1>1, <1>2, <1>3, <1>4, <1>5, <1>6, <1>7, <1>8 DEF Carousel!Next, Item

\* bootstrap.js, Carousel: in every behaviour of a carousel of any number of items a
\* request to slide that came while it was sliding waits for an event that is still to
\* come, and under the pointer nothing moves by itself unless it was told to.
THEOREM CarouselAlwaysObeys == Spec => []CarouselObeys
<1>1. Init => CarouselInv
  BY CarouselInit DEF Init
<1>2. CarouselInv /\ [Next]_vars => CarouselInv'
  <2>1. [Next]_vars => Carousel!Next \/ UNCHANGED carouselVars
    BY Zenon DEF Next, vars
  <2>2. ASSUME CarouselInv, UNCHANGED carouselVars PROVE CarouselInv'
    BY <2>2 DEF CarouselInv, CarouselTyped, CarouselObeys, Carousel!RequestsKept,
                Carousel!HoverHolds, carouselVars
  <2> QED BY <2>1, <2>2, CarouselNext
<1>3. CarouselInv => CarouselObeys
  BY DEF CarouselInv
<1> QED BY <1>1, <1>2, <1>3, PTL DEF Spec

-----------------------------------------------------------------------------
(* The router: what it knows of the address.                               *)

Name == STRING \cup {NULL}
Tables == {Routes, <<Later>> \o Routes}

\* The routes that a fragment may show: the first declared for it, or the later.
FirstDeclared(f) ==
    LET declared == {k \in DOMAIN Routes : f \in Routes[k].matches}
    IN  {Routes[k] : k \in {k \in declared : \A j \in declared : k <= j}}
RightRoute(f, name) ==
    {k \in DOMAIN Routes : f \in Routes[k].matches} # {} =>
        \E r \in FirstDeclared(f) \cup {Later} : r.name = name /\ f \in r.matches /\ r.to = NULL

\* A history b: its browser is at an entry.
History == [entries : Seq(Fragment), at : Nat, events : Nat, fragment : Fragment \cup {NULL},
            loaded : Fragment \cup {NULL}, shown : Name, quiet : BOOLEAN]
AtEntry(b) == b \in History /\ b.at \in 1 .. Len(b.entries)

\* What was loaded is the fragment, and the route that ran is right for it.
LoadedRight(b) ==
    b.fragment \in Fragment /\ (~b.quiet => b.loaded = b.fragment /\ RightRoute(b.fragment, b.shown))
AtFragment(b) == b.fragment = b.entries[b.at]

RouterInv ==
    /\ mode \in {"push", "hash", "poll"} /\ started \in BOOLEAN /\ handlers \in Tables
    /\ AtEntry(Router!B)
    /\ started => LoadedRight(Router!B)
    /\ started /\ mode # "poll" /\ events = 0 => AtFragment(Router!B)

LEMMA RouterBecomes ==
    ASSUME NEW b, AtEntry(b), Router!Become(b),
           mode' \in {"push", "hash", "poll"}, started' \in BOOLEAN, handlers' \in Tables,
           started' => LoadedRight(b),
           started' /\ mode' # "poll" /\ b.events = 0 => AtFragment(b)
    PROVE  RouterInv'
<1>1. /\ entries' = b.entries /\ routerAt' = b.at /\ events' = b.events
      /\ fragment' = b.fragment /\ routerLoaded' = b.loaded /\ shown' = b.shown
      /\ quiet' = b.quiet
  BY DEF Router!Become
<1>2. b = [entries |-> b.entries, at |-> b.at, events |-> b.events, fragment |-> b.fragment,
           loaded |-> b.loaded, shown |-> b.shown, quiet |-> b.quiet]
  BY DEF AtEntry, History
<1>3. Router!B' = b
  BY <1>1, <1>2 DEF Router!B
<1> QED BY <1>1, <1>3 DEF RouterInv

\* The first route of a table that matches a fragment is one that may be shown.
LEMMA TablesRight ==
    ASSUME NEW hs \in Tables, NEW f \in Fragment
    PROVE  /\ hs \in Seq([name : STRING, matches : SUBSET Fragment, to : Fragment \cup {NULL}])
           /\ Router!Picked(hs, f) = {} => {k \in DOMAIN Routes : f \in Routes[k].matches} = {}
           /\ \A k \in Router!Picked(hs, f) :
                 (\A j \in Router!Picked(hs, f) : k <= j) => hs[k] \in FirstDeclared(f) \cup {Later}
<1> DEFINE R == [name : STRING, matches : SUBSET Fragment, to : Fragment \cup {NULL}]
           both == <<Later>> \o Routes
<1>1. Routes \in Seq(R) /\ Later \in R
  BY AssumptionOfRouter DEF Router!RouterAssumption
<1> HIDE DEF R
<1>2. CASE hs = Routes
  <2>1. Router!Picked(hs, f) = {k \in DOMAIN Routes : f \in Routes[k].matches}
    BY <1>2 DEF Router!Picked
  <2> QED BY <1>1, <1>2, <2>1 DEF FirstDeclared, R
<1>3. CASE hs = both
  <2>1. /\ both \in Seq(R) /\ Len(both) = Len(Routes) + 1 /\ both[1] = Later
        /\ \A k \in 2 .. Len(Routes) + 1 : both[k] = Routes[k - 1]
    BY <1>1
  <2>2. DOMAIN both = 1 .. Len(Routes) + 1 /\ DOMAIN Routes = 1 .. Len(Routes)
    BY <1>1, <2>1
  <2> DEFINE declared == {k \in DOMAIN Routes : f \in Routes[k].matches}
             picked == Router!Picked(both, f)
  <2>3. picked = {k \in 1 .. Len(Routes) + 1 : f \in both[k].matches}
    BY <2>2 DEF Router!Picked
  <2>4. Len(Routes) \in Nat BY <1>1
  <2> HIDE DEF both, picked
  <2>5. \A k \in declared : k + 1 \in picked
    BY <2>1, <2>2, <2>3, <2>4
  <2>6. \A k \in picked : k = 1 \/ (k - 1 \in declared /\ both[k] = Routes[k - 1])
    BY <2>1, <2>2, <2>3, <2>4
  <2>7. ASSUME NEW k \in picked, \A j \in picked : k <= j
        PROVE  both[k] \in FirstDeclared(f) \cup {Later}
    <3>1. CASE k = 1 BY <2>1, <3>1
    <3>2. CASE k # 1
      <4>1. k - 1 \in declared /\ both[k] = Routes[k - 1] BY <2>6, <3>2
      <4>2. ASSUME NEW j \in declared PROVE k - 1 <= j
        <5>1. k <= j + 1 BY <2>5, <2>7
        <5>2. j \in Nat /\ k \in Nat BY <2>2, <2>3, <2>4
        <5> QED BY <5>1, <5>2
      <4> QED BY <4>1, <4>2 DEF FirstDeclared
    <3> QED BY <3>1, <3>2
  <2>8. picked = {} => declared = {}
    BY <2>5
  <2> QED BY <1>3, <2>1, <2>7, <2>8 DEF picked, R
<1> QED BY <1>2, <1>3 DEF Tables
\* Running the routes of f changes what is shown, to the right route if it stays.
LEMMA RunsRight ==
    ASSUME handlers \in Tables, NEW b \in History, NEW f \in Fragment
    PROVE  /\ \E name \in Name : Router!Runs(b, f) = [b EXCEPT !.shown = name]
           /\ Router!Goes(f) \in Fragment \cup {NULL}
           /\ Router!Goes(f) = Router!Led(handlers, f)
           /\ Router!Goes(f) = NULL => RightRoute(f, Router!Runs(b, f).shown)
<1> DEFINE picked == Router!Picked(handlers, f)
           k == CHOOSE n \in picked : \A j \in picked : n <= j
<1>1. /\ handlers \in Seq([name : STRING, matches : SUBSET Fragment, to : Fragment \cup {NULL}])
      /\ picked = {} => {n \in DOMAIN Routes : f \in Routes[n].matches} = {}
      /\ \A n \in picked : (\A j \in picked : n <= j) => handlers[n] \in FirstDeclared(f) \cup {Later}
  BY TablesRight
<1>2. Router!Matching(f) = picked
  BY DEF Router!Matching
<1>3. Router!Goes(f) = Router!Led(handlers, f)
  BY DEF Router!Goes
<1>4. CASE picked = {}
  <2>1. Router!Runs(b, f) = b /\ Router!Goes(f) = NULL
    BY <1>2, <1>3, <1>4 DEF Router!Runs, Router!Led
  <2>2. b = [b EXCEPT !.shown = b.shown] /\ b.shown \in Name
    BY DEF History
  <2>3. RightRoute(f, b.shown)
    BY <1>1, <1>4 DEF RightRoute
  <2> QED BY <1>3, <2>1, <2>2, <2>3
<1>5. CASE picked # {}
  <2>1. picked \in SUBSET Nat
    BY <1>1 DEF Router!Picked
  <2>2. k \in picked /\ \A j \in picked : k <= j
    <3>1. PICK n \in picked : \A j \in picked : n <= j
      BY <1>5, <2>1, FirstOf
    <3> QED BY <3>1
  <2>3. /\ Router!Runs(b, f) = [b EXCEPT !.shown = handlers[k].name]
        /\ Router!Goes(f) = handlers[k].to
    BY <1>2, <1>3, <1>5 DEF Router!Runs, Router!Led
  <2> HIDE DEF k
  <2>4. handlers[k] \in FirstDeclared(f) \cup {Later}
    BY <1>1, <2>2
  <2>5. k \in DOMAIN handlers /\ f \in handlers[k].matches
    BY <2>2 DEF Router!Picked
  <2>6. handlers[k].name \in Name /\ handlers[k].to \in Fragment \cup {NULL}
    <3> DEFINE R == [name : STRING, matches : SUBSET Fragment, to : Fragment \cup {NULL}]
    <3>1. handlers \in Seq(R) BY <1>1
    <3> HIDE DEF R
    <3>2. handlers[k] \in R BY <2>5, <3>1
    <3> QED BY <3>2 DEF R, Name
  <2>7. Router!Runs(b, f).shown = handlers[k].name
    BY <2>3 DEF History
  <2>8. handlers[k].to = NULL => RightRoute(f, handlers[k].name)
    BY <2>4, <2>5 DEF RightRoute
  <2> QED BY <1>3, <2>3, <2>6, <2>7, <2>8
<1> QED BY <1>4, <1>5

\* Navigating puts the fragment in the address and nothing was loaded yet.
LEMMA NavigatedThere ==
    ASSUME NEW b, AtEntry(b), NEW f \in Fragment, NEW replace \in BOOLEAN
    PROVE  LET c == Router!Navigated(b, f, replace)
           IN  AtEntry(c) /\ AtFragment(c) /\ LoadedRight(c) /\ c.fragment = f
<1> DEFINE c == Router!Navigated(b, f, replace)
           put == IF replace THEN [b.entries EXCEPT ![b.at] = f]
                  ELSE Append(SubSeq(b.entries, 1, b.at), f)
           here == IF replace THEN b.at ELSE b.at + 1
           toCome == IF mode = "hash" THEN b.events + 1 ELSE b.events
<1>1. c = [b EXCEPT !.fragment = f, !.quiet = TRUE, !.entries = put, !.at = here, !.events = toCome]
  BY DEF Router!Navigated, Router!Addressed, AtEntry, History
<1>2. /\ b.entries \in Seq(Fragment) /\ b.at \in 1 .. Len(b.entries) /\ b.events \in Nat
  BY DEF AtEntry, History
<1>3. /\ put \in Seq(Fragment) /\ here \in 1 .. Len(put) /\ put[here] = f
  <2>1. CASE replace BY <1>2, <2>1
  <2>2. CASE ~replace
    <3>1. SubSeq(b.entries, 1, b.at) \in Seq(Fragment) /\ Len(SubSeq(b.entries, 1, b.at)) = b.at
      BY <1>2
    <3> QED BY <1>2, <2>2, <3>1
  <2> QED BY <2>1, <2>2
<1>4. toCome \in Nat /\ here \in Nat
  BY <1>2
<1> HIDE DEF put, here, toCome
<1>5. /\ c \in History /\ c.entries = put /\ c.at = here /\ c.fragment = f /\ c.quiet = TRUE
  BY <1>1, <1>3, <1>4 DEF AtEntry, History
<1> QED BY <1>3, <1>5 DEF AtEntry, AtFragment, LoadedRight

\* Loading the fragment of the address leaves its right route, or that of the
\* fragment it leads to.
LEMMA LoadUrlRight ==
    ASSUME handlers \in Tables, NEW b, AtEntry(b), NEW f \in Fragment, b.entries[b.at] = f
    PROVE  LET c == Router!LoadUrl(b, f) IN AtEntry(c) /\ AtFragment(c) /\ LoadedRight(c)
<1>1. ASSUME NEW a, AtEntry(a), NEW g \in Fragment, a.entries[a.at] = g
      PROVE  LET c == Router!Runs(Router!Loads(a, g), g)
             IN  /\ AtEntry(c) /\ AtFragment(c)
                 /\ Router!Goes(g) = NULL => LoadedRight(c)
  <2> DEFINE l == Router!Loads(a, g)
             c == Router!Runs(l, g)
  <2>1. l \in History /\ l.fragment = g /\ l.loaded = g /\ l.entries = a.entries /\ l.at = a.at
    BY <1>1 DEF Router!Loads, AtEntry, History
  <2> HIDE DEF l
  <2>2. /\ \E name \in Name : c = [l EXCEPT !.shown = name]
        /\ Router!Goes(g) = NULL => RightRoute(g, c.shown)
    BY <2>1, RunsRight
  <2>3. PICK name \in Name : c = [l EXCEPT !.shown = name]
    BY <2>2
  <2> HIDE DEF c
  <2>4. /\ c \in History /\ c.fragment = g /\ c.loaded = g /\ c.entries = a.entries /\ c.at = a.at
    BY <2>1, <2>3 DEF History
  <2>5. AtEntry(c) /\ AtFragment(c) /\ (Router!Goes(g) = NULL => LoadedRight(c))
    BY <1>1, <2>2, <2>4 DEF AtEntry, AtFragment, LoadedRight
  <2> QED BY <2>5 DEF c, l
<1> DEFINE to == Router!Goes(f)
           b1 == Router!Runs(Router!Loads(b, f), f)
           c == Router!LoadUrl(b, f)
<1>2. to \in Fragment \cup {NULL} /\ to = Router!Led(handlers, f) /\ b \in History
  BY RunsRight DEF AtEntry
<1>3. AtEntry(b1) /\ AtFragment(b1) /\ (to = NULL => LoadedRight(b1))
  BY <1>1
<1>4. to # NULL => Router!Goes(to) = NULL /\ to # f
  <2>1. to # NULL => Router!Led(handlers, to) = NULL
    BY <1>2, AssumptionOfRouter DEF Router!RouterAssumption, Tables
  <2>2. to # NULL => Router!Goes(to) = Router!Led(handlers, to)
    BY <1>2, RunsRight
  <2> QED BY <1>2, <2>1, <2>2
<1>5. CASE to = NULL
  <2>1. c = b1 BY <1>5 DEF Router!LoadUrl
  <2> QED BY <1>3, <1>5, <2>1
<1>6. CASE to # NULL
  <2> DEFINE n == Router!Navigated(b1, to, TRUE)
  <2>1. c = Router!Runs(Router!Loads(n, to), to)
    BY <1>4, <1>6 DEF Router!LoadUrl
  <2>2. to \in Fragment BY <1>2, <1>6
  <2> HIDE DEF to, b1
  <2>3. AtEntry(n) /\ AtFragment(n) /\ n.fragment = to
    BY <1>3, <2>2, NavigatedThere
  <2>4. n.entries[n.at] = to
    BY <2>3 DEF AtFragment
  <2> HIDE DEF n, c
  <2>5. AtEntry(c) /\ AtFragment(c) /\ LoadedRight(c)
    BY <1>1, <1>4, <1>6, <2>1, <2>2, <2>3, <2>4
  <2> QED BY <2>5 DEF c
<1> QED BY <1>5, <1>6

LEMMA RouterInit == ASSUME Router!Init PROVE RouterInv
<1>1. First \in Fragment
  BY AssumptionOfRouter DEF Router!RouterAssumption
<1>2. AtEntry(Router!B)
  <2>1. Router!B = [entries |-> <<First>>, at |-> 1, events |-> 0, fragment |-> NULL,
                    loaded |-> NULL, shown |-> NULL, quiet |-> FALSE]
    BY DEF Router!Init, Router!B
  <2>2. <<First>> \in Seq(Fragment) /\ Len(<<First>>) = 1 /\ 1 \in 1 .. 1
    BY <1>1
  <2> QED BY <2>1, <2>2 DEF AtEntry, History, Name
<1> QED BY <1>2, Zenon DEF Router!Init, Router!BindRoutes, RouterInv, Tables

LEMMA RouterNext == ASSUME RouterInv, Router!Next PROVE RouterInv'
<1> DEFINE b == Router!B
           Steady == mode' = mode /\ started' = started /\ handlers' = handlers
<1>1. /\ mode \in {"push", "hash", "poll"} /\ started \in BOOLEAN /\ handlers \in Tables
      /\ AtEntry(b) /\ b \in History
      /\ started => LoadedRight(b)
      /\ started /\ mode # "poll" /\ events = 0 => AtFragment(b)
  BY DEF RouterInv, AtEntry
<1>2. /\ entries \in Seq(Fragment) /\ routerAt \in 1 .. Len(entries) /\ events \in Nat
      /\ Router!Here = b.entries[b.at] /\ Router!Here \in Fragment
      /\ b.entries = entries /\ b.at = routerAt /\ b.events = events /\ b.fragment = fragment
  BY <1>1 DEF Router!B, Router!Here, AtEntry, History
\* How the history stands when the address has been loaded, or known.
<1>3. ASSUME NEW c, AtEntry(c), Router!Become(c), mode' = mode, handlers' = handlers,
             started' = started, LoadedRight(c), AtFragment(c)
      PROVE  RouterInv'
  BY <1>1, <1>3, RouterBecomes
<1>4. ASSUME NEW n \in Nat, n <= events, started, mode # "poll" => events > 0,
             Steady, Router!Become(Router!Checked([b EXCEPT !.events = n])),
             mode = "poll" => n = events
      PROVE  RouterInv'
  <2> DEFINE c == [b EXCEPT !.events = n]
  <2>1. /\ AtEntry(c) /\ c.entries[c.at] = Router!Here /\ c.fragment = fragment
        /\ c.events = n /\ LoadedRight(c)
    BY <1>1, <1>2, <1>4 DEF AtEntry, History, LoadedRight
  <2> HIDE DEF c
  <2>2. CASE Router!Here = fragment
    <3>1. Router!Checked(c) = c BY <2>2 DEF Router!Checked
    <3>2. AtFragment(c) BY <2>1, <2>2 DEF AtFragment
    <3>3. Router!Become(c) BY <1>4, <3>1 DEF c
    <3> QED BY <1>3, <1>4, <2>1, <3>2, <3>3
  <2>3. CASE Router!Here # fragment
    <3>1. Router!Checked(c) = Router!LoadUrl(c, Router!Here) BY <2>3 DEF Router!Checked
    <3> DEFINE d == Router!LoadUrl(c, Router!Here)
    <3>2. AtEntry(d) /\ AtFragment(d) /\ LoadedRight(d)
      BY <1>1, <1>2, <2>1, LoadUrlRight
    <3>3. Router!Become(d) BY <1>4, <3>1 DEF c
    <3> HIDE DEF d
    <3> QED BY <1>3, <1>4, <3>2, <3>3
  <2> QED BY <2>2, <2>3
<1>5. ASSUME NEW silent \in BOOLEAN, Router!Start(silent) PROVE RouterInv'
  <2> DEFINE c == [b EXCEPT !.fragment = Router!Here, !.events = 0, !.quiet = silent]
  <2>1. /\ started' = TRUE /\ mode' = mode /\ handlers' = handlers
        /\ Router!Become(IF silent THEN c ELSE Router!LoadUrl(c, Router!Here))
    BY <1>5 DEF Router!Start
  <2>2. /\ AtEntry(c) /\ AtFragment(c) /\ c.entries[c.at] = Router!Here
        /\ (silent => LoadedRight(c))
    BY <1>1, <1>2 DEF AtEntry, History, AtFragment, LoadedRight
  <2> HIDE DEF c
  <2> DEFINE d == IF silent THEN c ELSE Router!LoadUrl(c, Router!Here)
  <2>3. AtEntry(d) /\ AtFragment(d) /\ LoadedRight(d)
    BY <1>1, <1>2, <2>2, LoadUrlRight
  <2> HIDE DEF d
  <2>4. Router!Become(d) BY <2>1 DEF d
  <2> QED BY <1>1, <2>1, <2>3, <2>4, RouterBecomes
<1>6. CASE Router!Stop
  <2> DEFINE c == [b EXCEPT !.events = 0]
  <2>1. started' = FALSE /\ mode' = mode /\ handlers' = handlers /\ Router!Become(c)
    BY <1>6 DEF Router!Stop
  <2>2. AtEntry(c) BY <1>1 DEF AtEntry, History
  <2> HIDE DEF c
  <2> QED BY <1>1, <2>1, <2>2, RouterBecomes
<1>7. ASSUME NEW f \in Fragment, NEW trigger \in BOOLEAN, NEW replace \in BOOLEAN,
             Router!Navigate(f, trigger, replace)
      PROVE  RouterInv'
  <2> DEFINE c == Router!Navigated(b, f, replace)
             d == IF trigger THEN Router!LoadUrl(c, f) ELSE c
  <2>1. Steady /\ Router!Become(d)
    BY <1>7 DEF Router!Navigate
  <2>2. AtEntry(c) /\ AtFragment(c) /\ LoadedRight(c) /\ c.fragment = f
    BY <1>1, NavigatedThere
  <2> HIDE DEF c
  <2>3. AtEntry(d) /\ AtFragment(d) /\ LoadedRight(d)
    <3>1. c.entries[c.at] = f BY <2>2 DEF AtFragment
    <3> QED BY <1>1, <2>2, <3>1, LoadUrlRight
  <2> HIDE DEF d
  <2> QED BY <1>3, <2>1, <2>3
<1>8. CASE Router!Heard
  <2> DEFINE n == events - 1
  <2>1. /\ started /\ mode # "poll" /\ events > 0 /\ Steady
        /\ Router!Become(Router!Checked([b EXCEPT !.events = n]))
    BY <1>8, <1>2 DEF Router!Heard
  <2>2. n \in Nat /\ n <= events BY <1>2, <2>1
  <2> HIDE DEF n
  <2> QED BY <1>4, <2>1, <2>2
<1>9. CASE Router!Interval
  <2>1. started /\ mode = "poll" /\ Steady /\ Router!Become(Router!Checked(b))
    BY <1>9 DEF Router!Interval
  <2>2. b = [b EXCEPT !.events = events] BY <1>1, <1>2 DEF History
  <2>3. Router!Become(Router!Checked([b EXCEPT !.events = events]))
    BY <2>1, <2>2
  <2> QED BY <1>2, <1>4, <2>1, <2>3
<1>10. CASE Router!RouteAdded
  <2>1. handlers' = <<Later>> \o handlers /\ Later \notin {handlers[k] : k \in DOMAIN handlers}
    BY <1>10 DEF Router!RouteAdded, Router!Route, Router!Range
  <2>2. handlers = Routes
    <3> DEFINE both == <<Later>> \o Routes
    <3>1. 1 \in DOMAIN both /\ both[1] = Later
      BY AssumptionOfRouter DEF Router!RouterAssumption
    <3> HIDE DEF both
    <3>2. handlers # both BY <2>1, <3>1
    <3> QED BY <1>1, <3>2 DEF Tables, both
  <2>3. handlers' \in Tables BY <2>1, <2>2 DEF Tables
  <2>4. /\ mode' = mode /\ started' = started /\ fragment' = fragment /\ entries' = entries
        /\ routerAt' = routerAt /\ events' = events /\ routerLoaded' = routerLoaded
        /\ shown' = shown /\ quiet' = quiet
    BY <1>10 DEF Router!RouteAdded
  <2>5. Router!B' = b BY <2>4 DEF Router!B
  <2> QED BY <1>1, <2>3, <2>4, <2>5 DEF RouterInv
<1>11. ASSUME NEW c, AtEntry(c), Router!Become(Router!Told(c)), Steady,
              c.fragment = b.fragment, c.loaded = b.loaded, c.shown = b.shown, c.quiet = b.quiet
       PROVE  RouterInv'
  <2> DEFINE d == Router!Told(c)
             e == IF started /\ mode # "poll" THEN c.events + 1 ELSE c.events
  <2>1. c \in History /\ c.events \in Nat BY <1>11 DEF AtEntry, History
  <2>2. e \in Nat /\ (started /\ mode # "poll" => e # 0) BY <2>1
  <2>3. d = [c EXCEPT !.events = e] BY <2>1 DEF Router!Told, History
  <2> HIDE DEF e, d
  <2>4. AtEntry(d) /\ d.events = e BY <1>11, <2>1, <2>2, <2>3 DEF AtEntry, History
  <2>5. started => LoadedRight(d)
    BY <1>1, <1>11, <2>1, <2>3 DEF History, LoadedRight
  <2>6. Router!Become(d) BY <1>11 DEF d
  <2> QED BY <1>1, <1>11, <2>2, <2>4, <2>5, <2>6, RouterBecomes
<1>12. ASSUME NEW f \in Fragment, Router!Link(f) PROVE RouterInv'
  <2> DEFINE there == routerAt + 1
             put == Append(SubSeq(entries, 1, routerAt), f)
             c == [b EXCEPT !.entries = put, !.at = there]
  <2>1. Steady /\ Router!Become(Router!Told(c))
    BY <1>12, <1>2 DEF Router!Link
  <2>2. put \in Seq(Fragment) /\ there \in 1 .. Len(put) /\ there \in Nat
    <3>1. SubSeq(entries, 1, routerAt) \in Seq(Fragment) /\ Len(SubSeq(entries, 1, routerAt)) = routerAt
      BY <1>2
    <3> QED BY <1>2, <3>1
  <2> HIDE DEF there, put
  <2>3. /\ AtEntry(c) /\ c.fragment = b.fragment /\ c.loaded = b.loaded /\ c.shown = b.shown
        /\ c.quiet = b.quiet
    BY <1>1, <2>2 DEF AtEntry, History
  <2> HIDE DEF c
  <2> QED BY <1>11, <2>1, <2>3
<1>13. ASSUME NEW to \in 1 .. MaxEntries, Router!Travel(to) PROVE RouterInv'
  <2> DEFINE c == [b EXCEPT !.at = to]
  <2>1. Steady /\ Router!Become(Router!Told(c)) /\ to \in DOMAIN entries
    BY <1>13 DEF Router!Travel
  <2>2. to \in 1 .. Len(entries) /\ to \in Nat BY <1>2, <2>1
  <2>3. /\ AtEntry(c) /\ c.fragment = b.fragment /\ c.loaded = b.loaded /\ c.shown = b.shown
        /\ c.quiet = b.quiet
    BY <1>1, <1>2, <2>2 DEF AtEntry, History
  <2> HIDE DEF c
  <2> QED BY <1>11, <2>1, <2>3
<1> QED BY <1>5, <1>6, <1>7, <1>8, <1>9, <1>10, <1>12, <1>13 DEF Router!Next

\* What the user sees follows from the invariant.
LEMMA RouterShows == ASSUME RouterInv PROVE AddressShown
<1>1. Router!InStep
  BY DEF RouterInv, AtFragment, Router!InStep, Router!B, Router!Here
<1>2. ASSUME started, mode # "poll", events = 0, ~quiet
      PROVE  /\ routerLoaded = Router!Here /\ RightRoute(Router!Here, shown)
  BY <1>2 DEF RouterInv, AtFragment, LoadedRight, Router!B, Router!Here
<1>3. Router!RouteShown
  BY <1>2, Zenon DEF Router!RouteShown, RightRoute, FirstDeclared
<1> QED BY <1>1, <1>3 DEF AddressShown

\* backbone.js, History and Router: in every behaviour, whatever links, back and forward,
\* navigate and stop come between, the history knows the address once it has heard of all
\* events, and the route that ran last is the first declared for it, or the one added
\* later, and none that leads elsewhere - for any routes that lead elsewhere once.
THEOREM AddressAlwaysShown == Spec => []AddressShown
<1>1. Init => RouterInv
  BY RouterInit DEF Init
<1>2. RouterInv /\ [Next]_vars => RouterInv'
  <2>1. [Next]_vars => Router!Next \/ UNCHANGED routerVars
    BY Zenon DEF Next, vars
  <2>2. ASSUME RouterInv, UNCHANGED routerVars PROVE RouterInv'
    <3>1. /\ mode' = mode /\ started' = started /\ handlers' = handlers /\ events' = events
          /\ Router!B' = Router!B
      BY <2>2 DEF routerVars, Router!B
    <3> QED BY <2>2, <3>1 DEF RouterInv
  <2> QED BY <2>1, <2>2, RouterNext
<1>3. RouterInv => AddressShown
  BY RouterShows
<1> QED BY <1>1, <1>2, <1>3, PTL DEF Spec

-----------------------------------------------------------------------------
(* Bootstrap's modals: what they leave on the page.                        *)

Backdrop == 1 .. MaxBackdrops
Flags == [Modal -> BOOLEAN]

Bodies == [isShown : Flags, backdrop : [Modal -> Backdrop \cup {NULL}],
           originalBodyPad : [Modal -> Nat], displayed : Flags, hiding : Flags,
           backdrops : SUBSET Backdrop, waits : SUBSET Modals!Wait, modalOpen : BOOLEAN,
           pad : Nat, focus : Modal \cup {NULL}]

Waiting(p, m) == {w \in p.waits : w.modal = m}
For(p, m, kind) == [on |-> p.backdrop[m], kind |-> kind, modal |-> m]

\* Backdrops are in the document, each for one modal, and so are those waited for.
OwnBackdrops(p) ==
    /\ \A m \in Modal : p.backdrop[m] # NULL => p.backdrop[m] \in p.backdrops
    /\ \A m, n \in Modal : p.backdrop[m] # NULL /\ p.backdrop[m] = p.backdrop[n] => m = n
    /\ \A w \in p.waits :
          w.on \in p.backdrops /\ \A m \in Modal : p.backdrop[m] = w.on => w.modal = m

\* The phases of a modal that is never shown again before it has gone.
Gone(p, m) ==
    /\ ~p.isShown[m] /\ ~p.hiding[m] /\ Waiting(p, m) = {} /\ ~p.displayed[m]
    /\ p.backdrop[m] = NULL
Opening(p, m) ==
    /\ p.isShown[m] /\ ~p.hiding[m] /\ Waiting(p, m) = {For(p, m, "show")}
    /\ p.backdrop[m] # NULL
Open(p, m) == p.isShown[m] /\ ~p.hiding[m] /\ Waiting(p, m) = {}
Hiding(p, m) ==
    /\ ~p.isShown[m] /\ p.hiding[m]
    /\ Waiting(p, m) = {} \/ (Waiting(p, m) = {For(p, m, "show")} /\ p.backdrop[m] # NULL)
Removing(p, m) ==
    /\ ~p.isShown[m] /\ ~p.hiding[m] /\ Waiting(p, m) = {For(p, m, "remove")}
    /\ ~p.displayed[m] /\ p.backdrop[m] # NULL
Phase(p, m) ==
    Gone(p, m) \/ Opening(p, m) \/ Open(p, m) \/ Hiding(p, m) \/ Removing(p, m)

Still(p, m) == ~p.isShown[m] /\ ~p.hiding[m] /\ Waiting(p, m) = {}

\* With no modal stacked or shown again one at a time holds the body, and
\* remembers that it had no padding.
BodyKept(p) ==
    /\ \A m, n \in Modal : ~Still(p, m) /\ ~Still(p, n) => m = n
    /\ \A m \in Modal : ~Still(p, m) => p.originalBodyPad[m] = 0
    /\ (\A m \in Modal : Still(p, m)) => ~p.modalOpen /\ p.pad = 0

ModalsKept(p, o) ==
    /\ p \in Bodies /\ OwnBackdrops(p)
    /\ \A m \in Modal : m \notin o => Phase(p, m)
    /\ o = {} => BodyKept(p)

ModalsLeave == ModalsKept(Modals!Page, odd)

LEMMA ModalsBecome ==
    ASSUME NEW p, NEW o, ModalsKept(p, o), Modals!Become(p), odd' = o PROVE ModalsLeave'
<1>1. /\ isShown' = p.isShown /\ backdrop' = p.backdrop /\ originalBodyPad' = p.originalBodyPad
      /\ displayed' = p.displayed /\ hiding' = p.hiding /\ backdrops' = p.backdrops
      /\ waits' = p.waits /\ modalOpen' = p.modalOpen /\ pad' = p.pad /\ focus' = p.focus
  BY DEF Modals!Become
<1>2. p = [isShown |-> p.isShown, backdrop |-> p.backdrop, originalBodyPad |-> p.originalBodyPad,
           displayed |-> p.displayed, hiding |-> p.hiding, backdrops |-> p.backdrops,
           waits |-> p.waits, modalOpen |-> p.modalOpen, pad |-> p.pad, focus |-> p.focus]
  BY DEF ModalsKept, Bodies
<1>3. Modals!Page' = p
  BY <1>1, <1>2 DEF Modals!Page
<1> QED BY <1>3 DEF ModalsLeave

\* A step of one modal leaves the others what they were.
OnlyOf(p, q, m) ==
    \A n \in Modal \ {m} :
        /\ q.isShown[n] = p.isShown[n] /\ q.hiding[n] = p.hiding[n]
        /\ q.displayed[n] = p.displayed[n] /\ q.backdrop[n] = p.backdrop[n]
        /\ q.originalBodyPad[n] = p.originalBodyPad[n] /\ Waiting(q, n) = Waiting(p, n)

LEMMA OthersStay ==
    ASSUME NEW p, NEW q, NEW o, NEW r, NEW m \in Modal, ModalsKept(p, o), o \subseteq r,
           q \in Bodies, OwnBackdrops(q), OnlyOf(p, q, m), m \notin r => Phase(q, m),
           r = {} => /\ \A n \in Modal \ {m} : Still(p, n)
                     /\ Still(q, m) => ~q.modalOpen /\ q.pad = 0
                     /\ ~Still(q, m) => q.originalBodyPad[m] = 0
    PROVE  ModalsKept(q, r)
<1>1. ASSUME NEW n \in Modal \ {m} PROVE (Phase(q, n) <=> Phase(p, n)) /\ (Still(q, n) <=> Still(p, n))
  <2>1. \A kind : For(q, n, kind) = For(p, n, kind)
    BY DEF OnlyOf, For
  <2> QED BY <2>1 DEF OnlyOf, Phase, Gone, Opening, Open, Hiding, Removing, Still
<1>2. \A n \in Modal : n \notin r => Phase(q, n)
  BY <1>1 DEF ModalsKept
<1>3. ASSUME r = {} PROVE BodyKept(q)
  <2>1. \A n \in Modal \ {m} : Still(q, n)
    BY <1>1, <1>3
  <2> QED BY <1>3, <2>1 DEF BodyKept
<1> QED BY <1>2, <1>3 DEF ModalsKept

\* A backdrop that is new is nobody's, and its wait is the modal's.
LEMMA NewBackdropOwn ==
    ASSUME NEW p \in Bodies, OwnBackdrops(p), p.backdrops = backdrops, Modals!Free # {},
           NEW m \in Modal, NEW kind \in {"show", "hidden"}
    PROVE  LET q == Modals!NewBackdrop(p, m, kind)
           IN  /\ q \in Bodies /\ OwnBackdrops(q) /\ OnlyOf(p, q, m)
               /\ Waiting(q, m) = Waiting(p, m) \cup {For(q, m, kind)} /\ q.backdrop[m] # NULL
               /\ q.isShown = p.isShown /\ q.hiding = p.hiding /\ q.displayed = p.displayed
               /\ q.originalBodyPad = p.originalBodyPad
<1> DEFINE b == CHOOSE n \in Modals!Free : TRUE
           w == [on |-> b, kind |-> kind, modal |-> m]
           q == Modals!NewBackdrop(p, m, kind)
<1>1. b \in Backdrop /\ b \notin p.backdrops
  BY DEF Modals!Free, Backdrop
<1>2. q = [p EXCEPT !.backdrop[m] = b, !.backdrops = @ \cup {b}, !.waits = @ \cup {w}]
  BY DEF Modals!NewBackdrop
<1> HIDE DEF b
<1>3. w \in Modals!Wait /\ w.modal = m /\ w.on = b /\ w.kind = kind
  BY <1>1 DEF Modals!Wait, Backdrop
<1> HIDE DEF w, q
<1>4. b # NULL
  BY <1>1, AssumptionOfModals DEF Modals!ModalsAssumption, Backdrop
<1>5. /\ q.backdrop = [p.backdrop EXCEPT ![m] = b] /\ q.backdrops = p.backdrops \cup {b}
      /\ q.waits = p.waits \cup {w} /\ q.isShown = p.isShown /\ q.hiding = p.hiding
      /\ q.displayed = p.displayed /\ q.originalBodyPad = p.originalBodyPad
      /\ q.modalOpen = p.modalOpen /\ q.pad = p.pad /\ q.focus = p.focus
  BY <1>2 DEF Bodies
<1>6. p.backdrop \in [Modal -> Backdrop \cup {NULL}] /\ p.waits \subseteq Modals!Wait
      /\ p.backdrops \subseteq Backdrop
  BY DEF Bodies
<1>7. q.backdrop[m] = b /\ \A n \in Modal \ {m} : q.backdrop[n] = p.backdrop[n]
  BY <1>5, <1>6
<1>8. q \in Bodies
  <2>1. [p.backdrop EXCEPT ![m] = b] \in [Modal -> Backdrop \cup {NULL}]
    BY <1>1, <1>6
  <2> QED BY <1>1, <1>2, <1>3, <1>6, <2>1 DEF Bodies
<1>9. OwnBackdrops(q)
  BY <1>1, <1>3, <1>4, <1>5, <1>7 DEF OwnBackdrops
<1>10. Waiting(q, m) = Waiting(p, m) \cup {w} /\ \A n \in Modal \ {m} : Waiting(q, n) = Waiting(p, n)
  BY <1>3, <1>5 DEF Waiting
<1>11. For(q, m, kind) = w
  BY <1>7 DEF For, w
<1>12. OnlyOf(p, q, m)
  BY <1>5, <1>7, <1>10 DEF OnlyOf
<1> QED BY <1>4, <1>5, <1>7, <1>8, <1>9, <1>10, <1>11, <1>12 DEF q

LEMMA PageKept ==
    ASSUME ModalsLeave
    PROVE  /\ Modals!Page \in Bodies /\ OwnBackdrops(Modals!Page)
           /\ Modals!Page.backdrops = backdrops /\ Modals!Page.isShown = isShown
           /\ Modals!Page.hiding = hiding /\ Modals!Page.pad = pad /\ Modals!Page.waits = waits
           /\ \A m \in Modal : /\ Modals!Settled(m) <=> ~hiding[m] /\ Waiting(Modals!Page, m) = {}
                               /\ Modals!Quiet(m) <=> Still(Modals!Page, m)
BY DEF ModalsLeave, ModalsKept, Modals!Page, Modals!Settled, Modals!Quiet, Still, Waiting

LEMMA ShowKeeps == ASSUME ModalsLeave, NEW m \in Modal, Modals!Show(m) PROVE ModalsLeave'
<1> DEFINE p == Modals!Page
           old == p.pad
           new == IF p.modalOpen THEN p.pad ELSE p.pad + 1
           s == [p EXCEPT !.originalBodyPad[m] = old, !.pad = new, !.isShown[m] = TRUE,
                          !.modalOpen = TRUE]
           q == IF m \in Backed THEN Modals!NewBackdrop(s, m, "show") ELSE Modals!Opened(s, m)
<1>1. /\ ModalsKept(p, odd) /\ p \in Bodies /\ OwnBackdrops(p) /\ p.backdrops = backdrops
      /\ p.isShown = isShown /\ ~isShown[m] /\ Modals!Free # {} /\ p.pad \in Nat
  BY PageKept DEF ModalsLeave, Modals!Show, Bodies
<1>2. odd' = odd \cup (IF Modals!Settled(m) THEN {} ELSE {m})
                 \cup (IF \A o \in Modal \ {m} : Modals!Quiet(o) THEN {} ELSE {"stacked"})
  BY DEF Modals!Show
<1>3. Modals!Become(q)
  <2>1. [Modals!SetScrollbar(p, m) EXCEPT !.isShown[m] = TRUE, !.modalOpen = TRUE] = s
    BY <1>1 DEF Modals!SetScrollbar, Bodies
  <2> HIDE DEF s
  <2> QED BY <2>1 DEF Modals!Show
<1>4. old \in Nat /\ new \in Nat
  BY <1>1
<1> HIDE DEF old, new
<1>5. /\ s \in Bodies /\ s.backdrops = p.backdrops /\ s.backdrop = p.backdrop
      /\ s.waits = p.waits /\ s.hiding = p.hiding /\ s.displayed = p.displayed
      /\ s.isShown = [p.isShown EXCEPT ![m] = TRUE]
      /\ s.originalBodyPad = [p.originalBodyPad EXCEPT ![m] = old]
  BY <1>1, <1>4 DEF Bodies, Flags
<1> HIDE DEF s
<1>6. OwnBackdrops(s)
  BY <1>1, <1>5 DEF OwnBackdrops
<1>7. /\ \A n \in Modal : Waiting(s, n) = Waiting(p, n)
      /\ s.isShown[m] /\ \A n \in Modal \ {m} : s.isShown[n] = p.isShown[n]
      /\ s.originalBodyPad[m] = old
      /\ \A n \in Modal \ {m} : s.originalBodyPad[n] = p.originalBodyPad[n]
  BY <1>1, <1>5 DEF Waiting, Bodies, Flags
<1>8. /\ q \in Bodies /\ OwnBackdrops(q) /\ OnlyOf(p, q, m)
      /\ q.isShown[m] /\ q.hiding[m] = p.hiding[m] /\ q.originalBodyPad[m] = old
      /\ m \in Backed => /\ Waiting(q, m) = Waiting(p, m) \cup {For(q, m, "show")}
                         /\ q.backdrop[m] # NULL
      /\ m \notin Backed => Waiting(q, m) = Waiting(p, m)
  <2>1. CASE m \in Backed
    <3>1. q = Modals!NewBackdrop(s, m, "show") BY <2>1
    <3>2. /\ q \in Bodies /\ OwnBackdrops(q) /\ OnlyOf(s, q, m)
          /\ Waiting(q, m) = Waiting(s, m) \cup {For(q, m, "show")} /\ q.backdrop[m] # NULL
          /\ q.isShown = s.isShown /\ q.hiding = s.hiding /\ q.originalBodyPad = s.originalBodyPad
      BY <1>1, <1>5, <1>6, <3>1, NewBackdropOwn
    <3> HIDE DEF q
    <3> QED BY <1>5, <1>7, <2>1, <3>2 DEF OnlyOf
  <2>2. CASE m \notin Backed
    <3>1. q = [s EXCEPT !.displayed[m] = TRUE, !.focus = m]
      BY <2>2 DEF Modals!Opened
    <3> HIDE DEF q
    <3>2. /\ q \in Bodies /\ q.backdrops = s.backdrops /\ q.backdrop = s.backdrop
          /\ q.waits = s.waits /\ q.hiding = s.hiding /\ q.isShown = s.isShown
          /\ q.originalBodyPad = s.originalBodyPad
          /\ \A n \in Modal \ {m} : q.displayed[n] = s.displayed[n]
      BY <1>5, <3>1 DEF Bodies, Flags
    <3> QED BY <1>5, <1>6, <1>7, <2>2, <3>2 DEF OwnBackdrops, OnlyOf, Waiting
  <2> QED BY <2>1, <2>2
<1> HIDE DEF q
<1>9. ASSUME m \notin odd' PROVE Phase(q, m)
  <2>1. Modals!Settled(m) BY <1>2, <1>9
  <2>2. ~p.hiding[m] /\ Waiting(p, m) = {} BY <2>1, PageKept
  <2> QED BY <1>8, <2>2 DEF Phase, Opening, Open
<1>10. ASSUME odd' = {}
       PROVE  /\ \A n \in Modal \ {m} : Still(p, n)
              /\ ~Still(q, m) /\ q.originalBodyPad[m] = 0
  <2>1. odd = {} /\ Modals!Settled(m) /\ \A n \in Modal \ {m} : Modals!Quiet(n)
    BY <1>2, <1>10
  <2>2. \A n \in Modal : Still(p, n)
    BY <1>1, <2>1, PageKept DEF Still
  <2>3. p.pad = 0
    BY <1>1, <2>1, <2>2 DEF ModalsKept, BodyKept
  <2> QED BY <1>8, <2>2, <2>3 DEF Still, old
<1>11. odd \subseteq odd'
  BY <1>2
<1>12. ModalsKept(q, odd')
  BY <1>1, <1>8, <1>9, <1>10, <1>11, OthersStay
<1> QED BY <1>3, <1>12, ModalsBecome

LEMMA HideKeeps == ASSUME ModalsLeave, NEW m \in Modal, Modals!Hide(m) PROVE ModalsLeave'
<1> DEFINE p == Modals!Page
           q == [p EXCEPT !.isShown[m] = FALSE, !.hiding[m] = TRUE, !.focus = NULL]
<1>1. /\ ModalsKept(p, odd) /\ p \in Bodies /\ OwnBackdrops(p) /\ p.isShown[m]
      /\ odd' = odd /\ Modals!Become(q)
  BY PageKept DEF ModalsLeave, Modals!Hide
<1>2. /\ q \in Bodies /\ q.backdrops = p.backdrops /\ q.backdrop = p.backdrop
      /\ q.waits = p.waits /\ q.displayed = p.displayed
      /\ q.originalBodyPad = p.originalBodyPad /\ ~q.isShown[m] /\ q.hiding[m]
      /\ \A n \in Modal \ {m} : q.isShown[n] = p.isShown[n] /\ q.hiding[n] = p.hiding[n]
  BY <1>1 DEF Bodies, Flags
<1> HIDE DEF q
<1>3. OwnBackdrops(q) /\ OnlyOf(p, q, m) /\ Waiting(q, m) = Waiting(p, m)
  BY <1>1, <1>2 DEF OwnBackdrops, OnlyOf, Waiting
<1>4. m \notin odd => Phase(q, m)
  <2>1. \A kind : For(q, m, kind) = For(p, m, kind) BY <1>2 DEF For
  <2> QED BY <1>1, <1>2, <1>3, <2>1
          DEF ModalsKept, Phase, Gone, Opening, Open, Hiding, Removing
<1>5. ~Still(p, m) /\ ~Still(q, m)
  BY <1>1, <1>2 DEF Still
<1>6. odd = {} => (\A n \in Modal \ {m} : Still(p, n)) /\ q.originalBodyPad[m] = 0
  BY <1>1, <1>2, <1>5 DEF ModalsKept, BodyKept
<1>7. ModalsKept(q, odd)
  BY <1>1, <1>2, <1>3, <1>4, <1>5, <1>6, OthersStay
<1> QED BY <1>1, <1>7, ModalsBecome

LEMMA HideEndsKeeps == ASSUME ModalsLeave, NEW m \in Modal, Modals!HideEnds(m) PROVE ModalsLeave'
<1> DEFINE p == Modals!Page
           h == [p EXCEPT !.hiding[m] = FALSE, !.displayed[m] = FALSE]
           q == Modals!HideModal(p, m)
<1>1. /\ ModalsKept(p, odd) /\ p \in Bodies /\ OwnBackdrops(p) /\ p.hiding[m]
      /\ p.isShown = isShown /\ p.backdrops = backdrops
      /\ p.isShown[m] => Modals!Free # {}
      /\ ~p.isShown[m] => \A w \in Waiting(p, m) : w.kind # "show"
      /\ odd' = odd /\ Modals!Become(q)
  BY PageKept DEF ModalsLeave, Modals!HideEnds, Waiting
<1>2. /\ h \in Bodies /\ h.backdrops = p.backdrops /\ h.backdrop = p.backdrop
      /\ h.waits = p.waits /\ h.isShown = p.isShown /\ h.originalBodyPad = p.originalBodyPad
      /\ ~h.hiding[m] /\ ~h.displayed[m]
      /\ \A n \in Modal \ {m} : h.displayed[n] = p.displayed[n] /\ h.hiding[n] = p.hiding[n]
  BY <1>1 DEF Bodies, Flags
<1> HIDE DEF h
<1>3. OwnBackdrops(h) /\ OnlyOf(p, h, m) /\ Waiting(h, m) = Waiting(p, m)
  BY <1>1, <1>2 DEF OwnBackdrops, OnlyOf, Waiting
<1>4. m \notin odd => ~p.isShown[m] /\ Waiting(p, m) = {}
  <2>1. ASSUME m \notin odd PROVE Hiding(p, m)
    BY <1>1, <2>1 DEF ModalsKept, Phase, Gone, Opening, Open, Removing
  <2> QED BY <1>1, <2>1 DEF Hiding, For
<1>5. ~Still(p, m)
  BY <1>1 DEF Still
<1>6. odd = {} => (\A n \in Modal \ {m} : Still(p, n)) /\ p.originalBodyPad[m] = 0
  BY <1>1, <1>5 DEF ModalsKept, BodyKept
<1>7. CASE p.isShown[m] /\ m \in Backed
  <2>1. q = Modals!NewBackdrop(h, m, "hidden")
    BY <1>7 DEF Modals!HideModal, h
  <2> HIDE DEF q
  <2>2. q \in Bodies /\ OwnBackdrops(q) /\ OnlyOf(h, q, m)
    BY <1>1, <1>2, <1>3, <1>7, <2>1, NewBackdropOwn
  <2>3. OnlyOf(p, q, m)
    BY <1>3, <2>2 DEF OnlyOf
  <2>4. ModalsKept(q, odd)
    BY <1>1, <1>4, <1>7, <2>2, <2>3, OthersStay
  <2> QED BY <1>1, <2>4, ModalsBecome DEF q
<1>8. CASE ~p.isShown[m] /\ p.backdrop[m] # NULL
  <2> DEFINE w == For(p, m, "remove")
  <2>1. q = [h EXCEPT !.waits = h.waits \cup {w}]
    BY <1>2, <1>8 DEF Modals!HideModal, h, For, Bodies
  <2>2. /\ w \in Modals!Wait /\ w.modal = m /\ w.on = p.backdrop[m]
        /\ p.backdrop[m] \in p.backdrops
    BY <1>1, <1>8 DEF For, Modals!Wait, Bodies, OwnBackdrops, Backdrop
  <2> HIDE DEF q, w
  <2>3. /\ q \in Bodies /\ q.waits = h.waits \cup {w} /\ q.backdrops = h.backdrops
        /\ q.backdrop = h.backdrop /\ q.isShown = h.isShown /\ q.hiding = h.hiding
        /\ q.displayed = h.displayed /\ q.originalBodyPad = h.originalBodyPad
    BY <1>2, <2>1, <2>2 DEF Bodies
  <2>4. OwnBackdrops(q)
    BY <1>1, <1>2, <1>3, <1>8, <2>2, <2>3 DEF OwnBackdrops
  <2>5. Waiting(q, m) = Waiting(p, m) \cup {w} /\ OnlyOf(p, q, m)
    BY <1>2, <1>3, <2>2, <2>3 DEF OnlyOf, Waiting
  <2>6. m \notin odd => Phase(q, m)
    <3>1. For(q, m, "remove") = w BY <1>2, <2>3 DEF For, w
    <3> QED BY <1>2, <1>4, <1>8, <2>3, <2>5, <3>1 DEF Phase, Removing
  <2>7. ~Still(q, m)
    BY <2>5 DEF Still
  <2>8. ModalsKept(q, odd)
    BY <1>1, <1>2, <1>6, <2>3, <2>4, <2>5, <2>6, <2>7, OthersStay
  <2> QED BY <1>1, <2>8, ModalsBecome DEF q
<1>9. CASE ~(p.isShown[m] /\ m \in Backed) /\ ~(~p.isShown[m] /\ p.backdrop[m] # NULL)
  <2>1. q = [h EXCEPT !.modalOpen = FALSE, !.pad = h.originalBodyPad[m]]
    BY <1>9 DEF Modals!HideModal, Modals!Closed, h
  <2> HIDE DEF q
  <2>2. /\ q \in Bodies /\ q.waits = h.waits /\ q.backdrops = h.backdrops
        /\ q.backdrop = h.backdrop /\ q.isShown = h.isShown /\ q.hiding = h.hiding
        /\ q.displayed = h.displayed /\ q.originalBodyPad = h.originalBodyPad
        /\ ~q.modalOpen /\ q.pad = h.originalBodyPad[m]
    BY <1>2, <2>1 DEF Bodies
  <2>3. OwnBackdrops(q) /\ OnlyOf(p, q, m) /\ Waiting(q, m) = Waiting(p, m)
    BY <1>2, <1>3, <2>2 DEF OwnBackdrops, OnlyOf, Waiting
  <2>4. m \notin odd => Phase(q, m)
    BY <1>2, <1>4, <1>9, <2>2, <2>3 DEF Phase, Gone
  <2>5. ModalsKept(q, odd)
    BY <1>1, <1>2, <1>6, <2>2, <2>3, <2>4, OthersStay
  <2> QED BY <1>1, <2>5, ModalsBecome DEF q
<1> QED BY <1>7, <1>8, <1>9

LEMMA BackdropEndsKeeps ==
    ASSUME ModalsLeave, NEW w \in Modals!Wait, Modals!BackdropEnds(w) PROVE ModalsLeave'
<1> DEFINE p == Modals!Page
           m == w.modal
           s == [p EXCEPT !.waits = @ \ {w}]
           q == CASE w.kind = "show" -> Modals!Opened(s, m)
                  [] w.kind = "hidden" -> Modals!Closed(s, m)
                  [] w.kind = "remove" -> Modals!Closed(Modals!RemoveBackdrop(s, m), m)
<1>1. /\ ModalsKept(p, odd) /\ p \in Bodies /\ OwnBackdrops(p) /\ w \in p.waits
      /\ m \in Modal /\ odd' = odd /\ Modals!Become(q)
      /\ w.kind \in {"show", "hidden", "remove"}
  BY PageKept DEF ModalsLeave, Modals!BackdropEnds, Modals!Wait
<1>2. /\ s \in Bodies /\ s.waits = p.waits \ {w} /\ s.backdrops = p.backdrops
      /\ s.backdrop = p.backdrop /\ s.isShown = p.isShown /\ s.hiding = p.hiding
      /\ s.displayed = p.displayed /\ s.originalBodyPad = p.originalBodyPad
      /\ s.modalOpen = p.modalOpen /\ s.pad = p.pad
  BY <1>1 DEF Bodies
<1>3. w \in Waiting(p, m)
  BY <1>1 DEF Waiting
<1>4. ~Still(p, m)
  BY <1>3 DEF Still
<1>5. odd = {} => (\A n \in Modal \ {m} : Still(p, n)) /\ p.originalBodyPad[m] = 0
  BY <1>1, <1>4 DEF ModalsKept, BodyKept
<1>6. m \notin odd =>
          /\ Waiting(p, m) = {w}
          /\ \/ w = For(p, m, "show") /\ (Opening(p, m) \/ Hiding(p, m))
             \/ w = For(p, m, "remove") /\ Removing(p, m)
  BY <1>1, <1>3 DEF ModalsKept, Phase, Gone, Opening, Open, Hiding, Removing
<1>7. Waiting(s, m) = Waiting(p, m) \ {w} /\ \A n \in Modal \ {m} : Waiting(s, n) = Waiting(p, n)
  BY <1>2 DEF Waiting
<1>8. OwnBackdrops(s)
  BY <1>1, <1>2 DEF OwnBackdrops
<1> HIDE DEF s
<1>9. \A kind : For(p, m, kind).kind = kind
  BY DEF For
<1>10. CASE w.kind = "show"
  <2>1. q = [s EXCEPT !.displayed[m] = TRUE, !.focus = m]
    BY <1>10 DEF Modals!Opened
  <2> HIDE DEF q
  <2>2. /\ q \in Bodies /\ q.waits = s.waits /\ q.backdrops = s.backdrops
        /\ q.backdrop = s.backdrop /\ q.isShown = s.isShown /\ q.hiding = s.hiding
        /\ q.originalBodyPad = s.originalBodyPad
        /\ \A n \in Modal \ {m} : q.displayed[n] = s.displayed[n]
    BY <1>1, <1>2, <2>1 DEF Bodies, Flags
  <2>3. OwnBackdrops(q) /\ OnlyOf(p, q, m) /\ Waiting(q, m) = Waiting(p, m) \ {w}
    BY <1>2, <1>7, <1>8, <2>2 DEF OwnBackdrops, OnlyOf, Waiting
  <2>4. ASSUME m \notin odd PROVE Phase(q, m) /\ ~Still(q, m)
    <3>1. Opening(p, m) \/ Hiding(p, m) BY <1>6, <1>9, <1>10, <2>4
    <3>2. Waiting(q, m) = {} BY <1>6, <2>3, <2>4
    <3> QED BY <1>2, <2>2, <3>1, <3>2 DEF Opening, Hiding, Open, Phase, Still
  <2>5. ModalsKept(q, odd)
    BY <1>1, <1>2, <1>5, <2>2, <2>3, <2>4, OthersStay
  <2> QED BY <1>1, <2>5, ModalsBecome DEF q
<1>11. CASE w.kind = "hidden"
  <2>1. q = [s EXCEPT !.modalOpen = FALSE, !.pad = s.originalBodyPad[m]]
    BY <1>11 DEF Modals!Closed
  <2> HIDE DEF q
  <2>2. /\ q \in Bodies /\ q.waits = s.waits /\ q.backdrops = s.backdrops
        /\ q.backdrop = s.backdrop /\ q.isShown = s.isShown /\ q.hiding = s.hiding
        /\ q.displayed = s.displayed /\ q.originalBodyPad = s.originalBodyPad
    BY <1>1, <1>2, <2>1 DEF Bodies
  <2>3. OwnBackdrops(q) /\ OnlyOf(p, q, m)
    BY <1>2, <1>7, <1>8, <2>2 DEF OwnBackdrops, OnlyOf, Waiting
  <2>4. m \in odd BY <1>6, <1>9, <1>11
  <2>5. ModalsKept(q, odd)
    BY <1>1, <2>2, <2>3, <2>4, OthersStay
  <2> QED BY <1>1, <2>5, ModalsBecome DEF q
<1>12. CASE w.kind = "remove"
  <2> DEFINE b == p.backdrop[m]
             t == Modals!RemoveBackdrop(s, m)
  <2>1. q = [t EXCEPT !.modalOpen = FALSE, !.pad = t.originalBodyPad[m]]
    BY <1>12 DEF Modals!Closed
  <2>2. t = [s EXCEPT !.backdrops = @ \ {b}, !.waits = {v \in @ : v.on # b}, !.backdrop[m] = NULL]
    BY <1>2 DEF Modals!RemoveBackdrop
  <2> HIDE DEF q, t, b
  <2>3. /\ t \in Bodies /\ t.backdrops = s.backdrops \ {b}
        /\ t.waits = {v \in s.waits : v.on # b} /\ t.backdrop = [s.backdrop EXCEPT ![m] = NULL]
        /\ t.isShown = s.isShown /\ t.hiding = s.hiding /\ t.displayed = s.displayed
        /\ t.originalBodyPad = s.originalBodyPad
    BY <1>1, <1>2, <2>2 DEF Bodies
  <2>4. /\ q \in Bodies /\ q.waits = t.waits /\ q.backdrops = t.backdrops
        /\ q.backdrop = t.backdrop /\ q.isShown = t.isShown /\ q.hiding = t.hiding
        /\ q.displayed = t.displayed /\ q.originalBodyPad = t.originalBodyPad
        /\ ~q.modalOpen /\ q.pad = t.originalBodyPad[m]
    BY <1>1, <2>1, <2>3 DEF Bodies
  <2>5. /\ p.backdrop \in [Modal -> Backdrop \cup {NULL}]
        /\ q.backdrop[m] = NULL /\ \A n \in Modal \ {m} : q.backdrop[n] = p.backdrop[n]
    BY <1>1, <1>2, <2>3, <2>4 DEF Bodies
  <2>6. q.backdrops = p.backdrops \ {b} /\ q.waits = {v \in p.waits \ {w} : v.on # b}
    BY <1>2, <2>3, <2>4
  <2>7. OwnBackdrops(q)
    <3>1. \A n \in Modal : q.backdrop[n] # NULL =>
             /\ n # m /\ q.backdrop[n] = p.backdrop[n] /\ p.backdrop[n] \in p.backdrops
             /\ p.backdrop[n] # b
      BY <1>1, <2>5 DEF OwnBackdrops, b
    <3>2. \A v \in q.waits : v.on \in Backdrop
      BY <1>1, <2>6 DEF Bodies, Modals!Wait, Backdrop
    <3>3. NULL \notin Backdrop
      BY AssumptionOfModals DEF Modals!ModalsAssumption, Backdrop
    <3> QED BY <1>1, <2>6, <3>1, <3>2, <3>3 DEF OwnBackdrops
  <2>8. \A n \in Modal \ {m} : Waiting(q, n) = Waiting(p, n)
    BY <1>1, <2>6 DEF OwnBackdrops, Waiting, b
  <2>9. OnlyOf(p, q, m)
    BY <1>2, <2>3, <2>4, <2>5, <2>8 DEF OnlyOf
  <2>10. ASSUME m \notin odd PROVE Phase(q, m)
    <3>1. Removing(p, m) /\ Waiting(p, m) = {w} BY <1>6, <1>9, <1>12, <2>10
    <3>2. Waiting(q, m) = {} BY <2>6, <3>1 DEF Waiting
    <3> QED BY <1>2, <2>3, <2>4, <2>5, <3>1, <3>2 DEF Removing, Gone, Phase
  <2>11. ModalsKept(q, odd)
    BY <1>1, <1>2, <1>5, <2>3, <2>4, <2>7, <2>9, <2>10, OthersStay
  <2> QED BY <1>1, <2>11, ModalsBecome DEF q
<1> QED BY <1>1, <1>10, <1>11, <1>12

LEMMA ModalsInit == ASSUME Modals!Init PROVE ModalsLeave
<1> DEFINE p == Modals!Page
<1>1. /\ p.isShown = [m \in Modal |-> FALSE] /\ p.backdrop = [m \in Modal |-> NULL]
      /\ p.originalBodyPad = [m \in Modal |-> 0] /\ p.displayed = [m \in Modal |-> FALSE]
      /\ p.hiding = [m \in Modal |-> FALSE] /\ p.backdrops = {} /\ p.waits = {}
      /\ p.modalOpen = FALSE /\ p.pad = 0 /\ p.focus = NULL /\ odd = {}
  BY DEF Modals!Init, Modals!Page
<1>2. p = [isShown |-> p.isShown, backdrop |-> p.backdrop, originalBodyPad |-> p.originalBodyPad,
           displayed |-> p.displayed, hiding |-> p.hiding, backdrops |-> p.backdrops,
           waits |-> p.waits, modalOpen |-> p.modalOpen, pad |-> p.pad, focus |-> p.focus]
  BY DEF Modals!Page
<1> HIDE DEF p
<1>3. p \in Bodies
  <2>1. [m \in Modal |-> FALSE] \in Flags BY DEF Flags
  <2>2. /\ [m \in Modal |-> NULL] \in [Modal -> Backdrop \cup {NULL}]
        /\ [m \in Modal |-> 0] \in [Modal -> Nat]
    OBVIOUS
  <2>3. /\ p.isShown \in Flags /\ p.displayed \in Flags /\ p.hiding \in Flags
        /\ p.backdrop \in [Modal -> Backdrop \cup {NULL}]
        /\ p.originalBodyPad \in [Modal -> Nat]
    BY <1>1, <2>1, <2>2, Zenon
  <2>4. /\ p.backdrops \in SUBSET Backdrop /\ p.waits \in SUBSET Modals!Wait
        /\ p.modalOpen \in BOOLEAN /\ p.focus \in Modal \cup {NULL}
    BY <1>1, Zenon
  <2>5. p.pad \in Nat BY <1>1
  <2> QED BY <1>2, <2>3, <2>4, <2>5 DEF Bodies
<1>4. \A m \in Modal : Waiting(p, m) = {}
  BY <1>1 DEF Waiting
<1>5. OwnBackdrops(p)
  BY <1>1 DEF OwnBackdrops
<1>6. \A m \in Modal : Gone(p, m) /\ Still(p, m)
  BY <1>1, <1>4 DEF Gone, Still
<1> QED BY <1>1, <1>3, <1>5, <1>6 DEF ModalsLeave, ModalsKept, Phase, BodyKept, p

LEMMA ModalsShow == ASSUME ModalsLeave PROVE NothingLeft
<1> DEFINE p == Modals!Page
<1>1. /\ p.displayed = displayed /\ p.backdrop = backdrop /\ p.modalOpen = modalOpen
      /\ p.pad = pad /\ ModalsKept(p, odd)
  BY DEF Modals!Page, ModalsLeave
<1>2. \A m \in Modal : Modals!Quiet(m) <=> Still(p, m)
  BY PageKept
<1> HIDE DEF p
<1>3. \A m \in Modal : Still(p, m) /\ m \notin odd => Gone(p, m)
  BY <1>1 DEF ModalsKept, Phase, Still, Opening, Open, Hiding, Removing
<1>4. Modals!HiddenIsGone
  BY <1>1, <1>2, <1>3 DEF Modals!HiddenIsGone, Gone
<1>5. Modals!BodyRestored
  BY <1>1, <1>2 DEF Modals!BodyRestored, ModalsKept, BodyKept
<1> QED BY <1>4, <1>5 DEF NothingLeft

\* bootstrap.js, Modal: in every behaviour of any modals that fade in and out, each with
\* its backdrop, a modal hidden while it was still being shown goes with its backdrop and
\* the page scrolls as before once all have gone, unless one is shown again before it
\* has gone, or over another.
THEOREM NothingEverLeft == Spec => []NothingLeft
<1>1. Init => ModalsLeave
  BY ModalsInit DEF Init
<1>2. ModalsLeave /\ [Next]_vars => ModalsLeave'
  <2>1. [Next]_vars => Modals!Next \/ UNCHANGED modalVars
    BY Zenon DEF Next, vars
  <2>2. ASSUME ModalsLeave, Modals!Next PROVE ModalsLeave'
    BY <2>2, ShowKeeps, HideKeeps, HideEndsKeeps, BackdropEndsKeeps DEF Modals!Next
  <2>3. ASSUME ModalsLeave, UNCHANGED modalVars PROVE ModalsLeave'
    <3>1. Modals!Page' = Modals!Page /\ odd' = odd
      BY <2>3 DEF modalVars, Modals!Page
    <3> QED BY <2>3, <3>1 DEF ModalsLeave
  <2> QED BY <2>1, <2>2, <2>3
<1>3. ModalsLeave => NothingLeft
  BY ModalsShow
<1> QED BY <1>1, <1>2, <1>3, PTL DEF Spec

-----------------------------------------------------------------------------
(* Uploads: what the widget counts.                                        *)

Put == [st : {"new", "queued", "sending", "failed", "done"}, loaded : 0 .. Size, ub : 0 .. Size]

\* The widget's queue: the uploads, who waits, and the counters.
Queues == [upload : [Upload -> Put], slots : Seq(Upload), chain : Seq(Upload), sending : Int,
           running : Int, global : [loaded : Int, total : Int]]

InState(s, state) == {u \in Upload : s.upload[u].st = state}
Busy(s) == InState(s, "queued") \cup InState(s, "sending")
Counted(s, b) == {u \in b : s.upload[u].st # "failed"}
BytesOf(s, us) == {x \in us \X (1 .. Size) : x[2] <= s.upload[x[1]].loaded}

\* Who is active is of the batch, and the counters are right.
Sound(s, b) ==
    /\ s \in Queues /\ b \subseteq Upload /\ IsFiniteSet(b)
    /\ Busy(s) \subseteq b /\ InState(s, "new") \cap b = {}
    /\ \A u \in InState(s, "new") \cup InState(s, "queued") : s.upload[u].loaded = 0
    /\ s.running = Cardinality(Busy(s))
    /\ s.global.total = Size * Cardinality(Counted(s, b))
    /\ s.global.loaded = Cardinality(BytesOf(s, Counted(s, b)))

\* Uploads counts as this module does.
LEMMA UploadsCount == \A us : Uploads!Cardinality(us) = Cardinality(us)
BY DEF Uploads!Cardinality, Cardinality

LEMMA SizeIs == Size \in Nat /\ Size > 0 /\ Chunk \in Nat /\ Chunk > 0
BY AssumptionOfUploads DEF Uploads!UploadsAssumption

LEMMA Times ==
    ASSUME NEW n \in Int, NEW m \in Int
    PROVE  Size * (n - m) = Size * n - Size * m /\ Size * (n + 1) = Size * n + Size
BY SizeIs

LEMMA BytesFinite ==
    ASSUME NEW s, NEW us, IsFiniteSet(us)
    PROVE  IsFiniteSet(BytesOf(s, us)) /\ Cardinality(BytesOf(s, us)) \in Nat
<1>1. IsFiniteSet(1 .. Size)
  BY SizeIs, FS_Interval
<1>2. IsFiniteSet(us \X (1 .. Size))
  BY <1>1, FS_Product
<1>3. BytesOf(s, us) \in SUBSET (us \X (1 .. Size))
  BY DEF BytesOf
<1> QED BY <1>2, <1>3, FS_Subset, FS_CardinalityType

\* The bytes of one upload more are its own.
LEMMA BytesAdded ==
    ASSUME NEW s \in Queues, NEW us, us \subseteq Upload, IsFiniteSet(us), NEW u \in Upload, u \notin us
    PROVE  Cardinality(BytesOf(s, us \cup {u})) = Cardinality(BytesOf(s, us)) + s.upload[u].loaded
<1> DEFINE n == s.upload[u].loaded
           own == {u} \X (1 .. n)
<1>1. n \in 0 .. Size /\ n \in Nat
  BY SizeIs DEF Queues, Put
<1> HIDE DEF n
<1>2. IsFiniteSet(1 .. n) /\ Cardinality(1 .. n) = n
  BY <1>1, FS_Interval
<1>3. IsFiniteSet(own) /\ Cardinality(own) = n
  <2>1. IsFiniteSet({u}) /\ Cardinality({u}) = 1
    BY FS_Singleton
  <2>2. IsFiniteSet(own) /\ Cardinality(own) = Cardinality({u}) * Cardinality(1 .. n)
    BY <1>2, <2>1, FS_Product
  <2> QED BY <1>1, <1>2, <2>1, <2>2
<1>4. BytesOf(s, us \cup {u}) = BytesOf(s, us) \cup own
  <2>1. ASSUME NEW x \in BytesOf(s, us \cup {u}) PROVE x \in BytesOf(s, us) \cup own
    BY <1>1 DEF BytesOf, n
  <2>2. ASSUME NEW x \in own PROVE x \in BytesOf(s, us \cup {u})
    BY <1>1, SizeIs DEF BytesOf, n
  <2>3. BytesOf(s, us) \subseteq BytesOf(s, us \cup {u})
    BY DEF BytesOf
  <2> QED BY <2>1, <2>2, <2>3
<1>5. BytesOf(s, us) \cap own = {}
  BY DEF BytesOf
<1>6. IsFiniteSet(BytesOf(s, us)) /\ Cardinality(BytesOf(s, us)) \in Nat
  BY BytesFinite
<1> DEFINE B == BytesOf(s, us)
<1> HIDE DEF own, B
<1>7. Cardinality(B \cup own) = Cardinality(B) + Cardinality(own) - Cardinality(B \cap own)
  BY <1>3, <1>6, FS_Union DEF B
<1>8. Cardinality(B \cap own) = 0
  BY <1>5, FS_EmptySet DEF B
<1>9. Cardinality(B \cup own) = Cardinality(B) + n
  BY <1>1, <1>3, <1>6, <1>7, <1>8 DEF B
<1> QED BY <1>4, <1>9 DEF B, n

LEMMA BytesSame ==
    ASSUME NEW s, NEW t, NEW us, \A u \in us : t.upload[u].loaded = s.upload[u].loaded
    PROVE  BytesOf(t, us) = BytesOf(s, us)
BY DEF BytesOf

\* Uploads without a byte count for nothing.
LEMMA BytesNone ==
    ASSUME NEW s \in Queues, NEW us, us \subseteq Upload, NEW none,
           \A u \in none \cap us : s.upload[u].loaded = 0
    PROVE  BytesOf(s, us \ none) = BytesOf(s, us)
<1>1. ASSUME NEW x \in BytesOf(s, us) PROVE x[1] \notin none
  <2>1. x[1] \in us /\ x[2] \in 1 .. Size /\ x[2] <= s.upload[x[1]].loaded
    BY DEF BytesOf
  <2>2. s.upload[x[1]].loaded # 0
    BY <2>1, SizeIs DEF Queues, Put
  <2> QED BY <2>1, <2>2
<1> QED BY <1>1 DEF BytesOf

\* An active upload goes on, fails or is done, and the counters with it.
LEMMA OneMoves ==
    ASSUME NEW s, NEW b, Sound(s, b), NEW u \in Upload, u \in Busy(s), NEW p \in Put,
           p.st \in {"sending", "failed", "done"}, NEW t \in Queues,
           t.upload = [s.upload EXCEPT ![u] = p],
           t.running = IF p.st = "sending" THEN s.running ELSE s.running - 1,
           t.global.total = IF p.st = "failed" THEN s.global.total - Size ELSE s.global.total,
           t.global.loaded = IF p.st = "failed" THEN s.global.loaded - s.upload[u].loaded
                             ELSE s.global.loaded + p.loaded - s.upload[u].loaded
    PROVE  Sound(t, b)
<1> DEFINE D == Counted(s, b) \ {u}
           old == s.upload[u].loaded
<1>1. /\ s \in Queues /\ b \subseteq Upload /\ IsFiniteSet(b) /\ u \in b
      /\ s.upload[u].st \in {"queued", "sending"} /\ old \in Nat /\ p.loaded \in Nat
  <2>1. s \in Queues /\ b \subseteq Upload /\ IsFiniteSet(b) /\ Busy(s) \subseteq b
    BY DEF Sound
  <2>2. s.upload[u] \in Put BY <2>1 DEF Queues
  <2>3. old \in Nat /\ p.loaded \in Nat BY <2>2, SizeIs DEF Put
  <2> QED BY <2>1, <2>3 DEF Busy, InState
<1>2. t.upload[u] = p /\ \A v \in Upload \ {u} : t.upload[v] = s.upload[v]
  BY <1>1 DEF Queues
<1>3. Busy(t) = IF p.st = "sending" THEN Busy(s) ELSE Busy(s) \ {u}
  BY <1>1, <1>2 DEF Busy, InState
<1>4. /\ Counted(s, b) = D \cup {u} /\ u \notin D /\ D \subseteq Upload
      /\ Counted(t, b) = IF p.st = "failed" THEN D ELSE D \cup {u}
  BY <1>1, <1>2 DEF Counted
<1>5. IsFiniteSet(D) /\ IsFiniteSet(Busy(s)) /\ Cardinality(D) \in Nat
  <2>1. D \in SUBSET b /\ Busy(s) \in SUBSET b BY DEF Counted, Sound
  <2> QED BY <1>1, <2>1, FS_Subset, FS_CardinalityType
<1>6. t.running = Cardinality(Busy(t))
  <2>1. s.running = Cardinality(Busy(s)) BY DEF Sound
  <2>2. Cardinality(Busy(s) \ {u}) = Cardinality(Busy(s)) - 1
    BY <1>5, FS_RemoveElement
  <2> QED BY <1>3, <2>1, <2>2
<1>7. Cardinality(D \cup {u}) = Cardinality(D) + 1
  BY <1>4, <1>5, FS_AddElement
<1> HIDE DEF D
<1>8. t.global.total = Size * Cardinality(Counted(t, b))
  <2>1. s.global.total = Size * Cardinality(D) + Size
    BY <1>4, <1>5, <1>7, Times DEF Sound
  <2>2. Size * (Cardinality(D) + 1) = Size * Cardinality(D) + Size /\ Size * Cardinality(D) \in Int
    BY <1>5, Times, SizeIs
  <2> QED BY <1>4, <1>7, <2>1, <2>2, SizeIs
<1>9. BytesOf(t, D) = BytesOf(s, D)
  <2>1. \A v \in D : t.upload[v].loaded = s.upload[v].loaded
    BY <1>2, <1>4
  <2> QED BY <2>1 DEF BytesOf
<1>10. /\ Cardinality(BytesOf(s, D \cup {u})) = Cardinality(BytesOf(s, D)) + old
       /\ Cardinality(BytesOf(t, D \cup {u})) = Cardinality(BytesOf(t, D)) + p.loaded
       /\ Cardinality(BytesOf(s, D)) \in Nat
  <2>1. D \subseteq Upload /\ IsFiniteSet(D) /\ u \notin D BY <1>4, <1>5
  <2>2. Cardinality(BytesOf(s, D \cup {u})) = Cardinality(BytesOf(s, D)) + s.upload[u].loaded
    BY <1>1, <2>1, BytesAdded
  <2>3. Cardinality(BytesOf(t, D \cup {u})) = Cardinality(BytesOf(t, D)) + t.upload[u].loaded
    BY <2>1, BytesAdded
  <2> QED BY <1>2, <2>1, <2>2, <2>3, BytesFinite
<1> HIDE DEF old
<1>11. t.global.loaded = Cardinality(BytesOf(t, Counted(t, b)))
  <2>1. s.global.loaded = Cardinality(BytesOf(s, D)) + old
    BY <1>4, <1>10 DEF Sound
  <2> DEFINE n == Cardinality(BytesOf(s, D))
  <2>2. Cardinality(BytesOf(t, Counted(t, b))) = IF p.st = "failed" THEN n ELSE n + p.loaded
    BY <1>4, <1>9, <1>10
  <2> HIDE DEF n
  <2>3. n \in Nat /\ s.global.loaded = n + old BY <1>10, <2>1 DEF n
  <2>4. t.global.loaded = IF p.st = "failed" THEN s.global.loaded - old
                          ELSE s.global.loaded + p.loaded - old
    BY DEF old
  <2>5. t.global.loaded = IF p.st = "failed" THEN n ELSE n + p.loaded
    BY <1>1, <2>3, <2>4
  <2> QED BY <2>2, <2>5
<1>12. /\ InState(t, "new") = InState(s, "new") /\ InState(t, "queued") \subseteq InState(s, "queued") \ {u}
  BY <1>1, <1>2 DEF InState
<1>13. \A v \in InState(t, "new") \cup InState(t, "queued") : t.upload[v].loaded = 0
  BY <1>1, <1>2, <1>12 DEF Sound, InState
<1> QED BY <1>1, <1>3, <1>6, <1>8, <1>11, <1>12, <1>13 DEF Sound

\* Those that are refused fail without a byte.
LEMMA Refused ==
    ASSUME NEW s, NEW b, Sound(s, b), NEW R, R \subseteq InState(s, "queued")
    PROVE  LET t == Uploads!Refuse(s, R)
           IN  /\ Sound(t, b) /\ t.slots = s.slots /\ t.chain = s.chain /\ t.sending = s.sending
               /\ InState(t, "queued") = InState(s, "queued") \ R
               /\ InState(t, "sending") = InState(s, "sending")
<1> DEFINE up == [u \in Upload |-> IF u \in R THEN [s.upload[u] EXCEPT !.st = "failed"]
                                   ELSE s.upload[u]]
           r == Cardinality(R)
           total == s.global.total - Size * r
           left == s.running - r
           t == Uploads!Refuse(s, R)
<1>1. /\ s \in Queues /\ b \subseteq Upload /\ IsFiniteSet(b) /\ R \subseteq Busy(s)
      /\ Busy(s) \subseteq b /\ R \subseteq Upload
      /\ \A u \in R : s.upload[u].st = "queued" /\ s.upload[u].loaded = 0
  BY DEF Sound, Busy, InState
<1>2. IsFiniteSet(R) /\ r \in Nat /\ IsFiniteSet(Busy(s)) /\ IsFiniteSet(Counted(s, b))
      /\ R \subseteq Counted(s, b)
  <2>1. R \in SUBSET b /\ Busy(s) \in SUBSET b /\ Counted(s, b) \in SUBSET b
    BY <1>1 DEF Counted
  <2> QED BY <1>1, <2>1, FS_Subset, FS_CardinalityType DEF Counted
<1>3. total \in Int /\ left \in Int
  BY <1>1, <1>2, SizeIs DEF Queues
<1>4. up \in [Upload -> Put]
  BY <1>1 DEF Queues, Put
<1>5. t = [s EXCEPT !.upload = up, !.global.total = total, !.running = left]
  BY <1>1, UploadsCount DEF Uploads!Refuse, Queues
<1> HIDE DEF up, total, left, t
<1>6. /\ t \in Queues /\ t.upload = up /\ t.running = left /\ t.slots = s.slots
      /\ t.chain = s.chain /\ t.sending = s.sending /\ t.global.total = total
      /\ t.global.loaded = s.global.loaded
  BY <1>1, <1>3, <1>4, <1>5 DEF Queues
<1>7. \A u \in Upload : /\ t.upload[u].loaded = s.upload[u].loaded
                        /\ t.upload[u].st = IF u \in R THEN "failed" ELSE s.upload[u].st
  BY <1>1, <1>6 DEF up, Queues, Put
<1>8. /\ InState(t, "queued") = InState(s, "queued") \ R
      /\ InState(t, "sending") = InState(s, "sending") /\ InState(t, "new") = InState(s, "new")
      /\ Busy(t) = Busy(s) \ R /\ Counted(t, b) = Counted(s, b) \ R
  BY <1>1, <1>7 DEF InState, Busy, Counted
<1>9. Cardinality(Busy(t)) = Cardinality(Busy(s)) - r
      /\ Cardinality(Counted(t, b)) = Cardinality(Counted(s, b)) - r
  <2>1. Busy(s) \cap R = R /\ Counted(s, b) \cap R = R
    BY <1>1, <1>2
  <2> QED BY <1>2, <1>8, <2>1, FS_Difference
<1>10. t.global.total = Size * Cardinality(Counted(t, b))
  <2>1. Cardinality(Counted(s, b)) \in Nat BY <1>2, FS_CardinalityType
  <2>2. Size * Cardinality(Counted(t, b)) = Size * Cardinality(Counted(s, b)) - Size * r
    BY <1>2, <1>9, <2>1, Times
  <2> QED BY <1>6, <2>2 DEF Sound, total
<1>11. BytesOf(t, Counted(t, b)) = BytesOf(s, Counted(s, b))
  <2>1. Counted(s, b) \subseteq Upload /\ Counted(t, b) \subseteq Upload
    BY <1>1 DEF Counted
  <2>2. BytesOf(t, Counted(t, b)) = BytesOf(s, Counted(t, b))
    BY <1>7, <2>1, BytesSame
  <2>3. BytesOf(s, Counted(s, b) \ R) = BytesOf(s, Counted(s, b))
    BY <1>1, <2>1, BytesNone
  <2> QED BY <1>8, <2>2, <2>3
<1>12. t.running = Cardinality(Busy(t))
  BY <1>6, <1>9 DEF Sound, left
<1>13. t.global.loaded = Cardinality(BytesOf(t, Counted(t, b)))
  BY <1>6, <1>11 DEF Sound
<1>14. /\ Busy(t) \subseteq b /\ InState(t, "new") \cap b = {}
       /\ \A u \in InState(t, "new") \cup InState(t, "queued") : t.upload[u].loaded = 0
  BY <1>1, <1>7, <1>8 DEF Sound, InState
<1>15. Sound(t, b)
  BY <1>1, <1>6, <1>10, <1>12, <1>13, <1>14 DEF Sound
<1> QED BY <1>6, <1>8, <1>15 DEF t

\* Who waits where, and how many are counted as sent, is no matter of theirs.
LEMMA Requeued ==
    ASSUME NEW s, NEW b, Sound(s, b), NEW t \in Queues, t.upload = s.upload,
           t.running = s.running, t.global = s.global
    PROVE  /\ Sound(t, b)
           /\ \A state : InState(t, state) = InState(s, state)
BY DEF Sound, Busy, InState, Counted, BytesOf

\* Of those that wait in q that at k, if any, is the first to be sent.
SentFrom(s, b, q, k, d) ==
    /\ Sound(d, b) /\ d.slots = s.slots /\ d.chain = s.chain
    /\ k \in 1 .. Len(q) + 1
    /\ InState(d, "queued") \subseteq InState(s, "queued")
    /\ \A u \in InState(d, "queued") : \A j \in 1 .. Len(q) : j <= k => q[j] # u
    /\ k > Len(q) => d.sending = s.sending /\ InState(d, "sending") = InState(s, "sending")
    /\ k <= Len(q) => /\ d.sending = s.sending + 1
                      /\ q[k] \in InState(s, "queued")
                      /\ InState(d, "sending") = InState(s, "sending") \cup {q[k]}

LEMMA Dispatched ==
    ASSUME NEW s, NEW b, Sound(s, b), NEW q \in Seq(Upload)
    PROVE  SentFrom(s, b, q, Uploads!FirstToGo(s, q), Uploads!Dispatch(s, q))
<1> DEFINE goes == {j \in DOMAIN q : s.upload[q[j]].st = "queued" /\ q[j] \notin Vetoed}
           k == Uploads!FirstToGo(s, q)
           R == {u \in {q[j] : j \in 1 .. k - 1} : s.upload[u].st = "queued"}
           r == Uploads!Refuse(s, R)
           d == Uploads!Dispatch(s, q)
<1>1. k \in goes \cup {Len(q) + 1} /\ \A j \in goes : k <= j
  <2>1. goes \in SUBSET Nat /\ \A j \in goes : j <= Len(q) + 1
    OBVIOUS
  <2>2. \E n \in goes \cup {Len(q) + 1} : \A j \in goes : n <= j
    <3>1. CASE goes = {} BY <3>1
    <3>2. CASE goes # {} BY <2>1, <3>2, FirstOf
    <3> QED BY <3>1, <3>2
  <2>3. k = CHOOSE n \in goes \cup {Len(q) + 1} : \A j \in goes : n <= j
    BY DEF Uploads!FirstToGo
  <2> HIDE DEF goes, k
  <2> QED BY <2>2, <2>3
<1>2. k \in 1 .. Len(q) + 1 /\ Len(q) \in Nat
  BY <1>1
<1>3. d = IF k > Len(q) THEN r ELSE [r EXCEPT !.sending = @ + 1, !.upload[q[k]].st = "sending"]
  BY DEF Uploads!Dispatch
<1> HIDE DEF k, d
<1>4. R \subseteq InState(s, "queued")
  BY <1>2 DEF InState
<1>5. \A u \in InState(s, "queued") \ R : \A j \in 1 .. Len(q) : j < k => q[j] # u
  BY <1>2 DEF InState
<1>6. k <= Len(q) => q[k] \in InState(s, "queued") \ R
  <2> SUFFICES ASSUME k <= Len(q) PROVE q[k] \in InState(s, "queued") \ R
    OBVIOUS
  <2>1. k \in goes BY <1>1, <1>2
  <2>2. q[k] \notin R
    <3> SUFFICES ASSUME NEW j \in 1 .. k - 1, q[j] = q[k] PROVE FALSE
      OBVIOUS
    <3>1. j \in goes BY <1>2, <2>1
    <3> QED BY <1>1, <1>2, <3>1
  <2> QED BY <2>1, <2>2 DEF InState
<1> HIDE DEF goes, R, r
<1>7. /\ Sound(r, b) /\ r.slots = s.slots /\ r.chain = s.chain /\ r.sending = s.sending
      /\ InState(r, "queued") = InState(s, "queued") \ R
      /\ InState(r, "sending") = InState(s, "sending")
  BY <1>4, Refused DEF r
<1>8. CASE k > Len(q)
  <2>1. d = r BY <1>3, <1>8
  <2>2. SentFrom(s, b, q, k, d) BY <1>2, <1>5, <1>7, <1>8, <2>1 DEF SentFrom
  <2> QED BY <2>2 DEF d, k
<1>9. CASE k <= Len(q)
  <2> DEFINE x == q[k]
             p == [r.upload[x] EXCEPT !.st = "sending"]
             more == r.sending + 1
  <2>1. x \in Upload /\ x \in InState(r, "queued") /\ x \in InState(s, "queued")
    BY <1>2, <1>6, <1>7, <1>9 DEF InState
  <2>2. r \in Queues /\ x \in Busy(r) /\ r.upload[x] \in Put /\ r.upload[x].st = "queued"
    BY <1>7, <2>1 DEF Sound, Busy, InState, Queues
  <2>3. p \in Put /\ p.st = "sending" /\ p.loaded = r.upload[x].loaded /\ p.loaded \in Int
    BY <2>2, SizeIs DEF Put
  <2>4. d = [r EXCEPT !.sending = more, !.upload[x] = p]
    BY <1>2, <1>3, <1>9, <2>2 DEF Queues
  <2>5. more \in Int BY <2>2 DEF Queues
  <2> HIDE DEF p, more
  <2>6. /\ d \in Queues /\ d.upload = [r.upload EXCEPT ![x] = p] /\ d.running = r.running
        /\ d.global = r.global /\ d.slots = r.slots /\ d.chain = r.chain /\ d.sending = more
    BY <2>1, <2>2, <2>3, <2>4, <2>5 DEF Queues
  <2>7. r.global.loaded \in Int BY <2>2 DEF Queues
  <2>8. d.global.loaded = r.global.loaded + p.loaded - r.upload[x].loaded
    BY <2>3, <2>6, <2>7
  <2>9. Sound(d, b)
    <3> HIDE DEF x
    <3>1. p.st \in {"sending", "failed", "done"} BY <2>3
    <3>2. d.running = IF p.st = "sending" THEN r.running ELSE r.running - 1 BY <2>3, <2>6
    <3>3. d.global.total = IF p.st = "failed" THEN r.global.total - Size ELSE r.global.total
      BY <2>3, <2>6
    <3>4. d.global.loaded = IF p.st = "failed" THEN r.global.loaded - r.upload[x].loaded
                            ELSE r.global.loaded + p.loaded - r.upload[x].loaded
      BY <2>3, <2>8
    <3> QED BY <1>7, <2>1, <2>2, <2>3, <2>6, <3>1, <3>2, <3>3, <3>4, OneMoves
  <2>10. /\ InState(d, "queued") = InState(r, "queued") \ {x}
         /\ InState(d, "sending") = InState(r, "sending") \cup {x}
    BY <2>1, <2>2, <2>3, <2>6 DEF InState, Queues
  <2>11. more = s.sending + 1 BY <1>7 DEF more
  <2>12. ASSUME NEW u \in InState(d, "queued"), NEW j \in 1 .. Len(q), j <= k PROVE q[j] # u
    <3>1. u \in InState(s, "queued") \ R /\ u # q[k] BY <1>7, <2>10, <2>12
    <3>2. j < k \/ j = k BY <1>2, <2>12
    <3> QED BY <1>5, <3>1, <3>2
  <2> HIDE DEF x
  <2>13. d.slots = s.slots /\ d.chain = s.chain /\ d.sending = s.sending + 1
    BY <1>7, <2>6, <2>11
  <2>14. InState(d, "queued") \subseteq InState(s, "queued")
    BY <1>7, <2>10
  <2>15. InState(d, "sending") = InState(s, "sending") \cup {q[k]}
    BY <1>7, <2>10 DEF x
  <2>16. q[k] \in InState(s, "queued") BY <2>1 DEF x
  <2>17. SentFrom(s, b, q, k, d)
    BY <1>2, <1>9, <2>9, <2>12, <2>13, <2>14, <2>15, <2>16 DEF SentFrom
  <2> QED BY <2>17 DEF d, k
<1> QED BY <1>2, <1>8, <1>9

\* An upload that ends is counted out, or its bytes are all there.
CountedOut(s, u, how) ==
    LET kept == IF how = "failed" THEN Uploads!Forget(s, u) ELSE Uploads!Progress(s, u, Size)
    IN  [kept EXCEPT !.upload[u].st = how, !.sending = @ - 1, !.running = @ - 1]

LEMMA EndCounted ==
    ASSUME NEW s, NEW b, Sound(s, b), NEW u \in Upload, u \in Busy(s),
           NEW how \in {"failed", "done"}
    PROVE  LET t == CountedOut(s, u, how)
           IN  /\ Sound(t, b) /\ t.slots = s.slots /\ t.chain = s.chain
               /\ t.sending = s.sending - 1
               /\ InState(t, "queued") = InState(s, "queued") \ {u}
               /\ InState(t, "sending") = InState(s, "sending") \ {u}
<1> DEFINE kept == IF how = "failed" THEN Uploads!Forget(s, u) ELSE Uploads!Progress(s, u, Size)
           t == [kept EXCEPT !.upload[u].st = how, !.sending = @ - 1, !.running = @ - 1]
           old == s.upload[u].loaded
           n == IF how = "failed" THEN old ELSE Size
           p == [s.upload[u] EXCEPT !.st = how, !.loaded = n]
           loaded == IF how = "failed" THEN s.global.loaded - old ELSE s.global.loaded + Size - old
           total == IF how = "failed" THEN s.global.total - Size ELSE s.global.total
           less == s.sending - 1
           left == s.running - 1
<1>1. s \in Queues /\ s.upload[u] \in Put /\ s.upload[u].st \in {"queued", "sending"}
  BY DEF Sound, Queues, Busy, InState
<1>2. old \in 0 .. Size /\ old \in Int /\ n \in 0 .. Size /\ Size \in Int
  BY <1>1, SizeIs DEF Put
<1> HIDE DEF n
<1>3. /\ p \in Put /\ p.st = how /\ p.loaded = n
  BY <1>1, <1>2 DEF Put
<1>4. /\ s.global \in [loaded : Int, total : Int] /\ s.sending \in Int /\ s.running \in Int
      /\ s.upload \in [Upload -> Put]
  BY <1>1 DEF Queues
<1>5. s.global.loaded \in Int /\ s.global.total \in Int
  BY <1>4
<1>6. loaded \in Int /\ total \in Int /\ less \in Int /\ left \in Int
  BY <1>2, <1>4, <1>5
<1>7. \E g \in [loaded : Int, total : Int] :
         /\ g.loaded = loaded /\ g.total = total
         /\ t = [s EXCEPT !.global = g, !.upload = [s.upload EXCEPT ![u] = p], !.sending = less,
                          !.running = left]
  <2>1. CASE how = "failed"
    <3> DEFINE g == [s.global EXCEPT !.loaded = loaded, !.total = total]
    <3>1. loaded = s.global.loaded - old /\ total = s.global.total - Size
      BY <2>1
    <3>2. kept = [s EXCEPT !.global.loaded = @ - old, !.global.total = @ - Size]
      BY <2>1 DEF Uploads!Forget
    <3>3. p = [s.upload[u] EXCEPT !.st = how]
      BY <1>1, <2>1 DEF Put, n
    <3> HIDE DEF kept, loaded, total, old, p
    <3>4. g \in [loaded : Int, total : Int] /\ g.loaded = loaded /\ g.total = total
      BY <1>6, <1>4
    <3>5. kept = [s EXCEPT !.global = g]
      BY <1>1, <1>4, <3>1, <3>2 DEF Queues
    <3> HIDE DEF g
    <3>6. t = [s EXCEPT !.global = g, !.upload = [s.upload EXCEPT ![u] = p], !.sending = less,
                        !.running = left]
      BY <1>1, <1>4, <3>3, <3>4, <3>5 DEF Queues
    <3> QED BY <3>4, <3>6
  <2>2. CASE how # "failed"
    <3> DEFINE g == [s.global EXCEPT !.loaded = loaded]
               m == [s.upload[u] EXCEPT !.loaded = Size]
    <3>1. loaded = s.global.loaded + Size - old /\ total = s.global.total
      BY <2>2
    <3>2. kept = [s EXCEPT !.global.loaded = @ + Size - old, !.upload[u].loaded = Size]
      BY <2>2 DEF Uploads!Progress
    <3>3. p = [m EXCEPT !.st = how] /\ m \in Put
      BY <1>1, <1>2, <2>2 DEF Put, n
    <3> HIDE DEF kept, loaded, total, old, p
    <3>4. g \in [loaded : Int, total : Int] /\ g.loaded = loaded /\ g.total = total
      BY <1>6, <1>4, <3>1
    <3>5. kept = [s EXCEPT !.global = g, !.upload = [s.upload EXCEPT ![u] = m]]
      BY <1>1, <1>4, <3>1, <3>2 DEF Queues
    <3> HIDE DEF g, m
    <3>6. t = [s EXCEPT !.global = g, !.upload = [s.upload EXCEPT ![u] = p], !.sending = less,
                        !.running = left]
      BY <1>1, <1>4, <3>3, <3>4, <3>5 DEF Queues
    <3> QED BY <3>4, <3>6
  <2> QED BY <2>1, <2>2
<1>8. PICK g \in [loaded : Int, total : Int] :
         /\ g.loaded = loaded /\ g.total = total
         /\ t = [s EXCEPT !.global = g, !.upload = [s.upload EXCEPT ![u] = p], !.sending = less,
                          !.running = left]
  BY <1>7
<1> HIDE DEF t, p, loaded, total, less, left
<1>9. /\ t \in Queues /\ t.upload = [s.upload EXCEPT ![u] = p] /\ t.running = left
      /\ t.slots = s.slots /\ t.chain = s.chain /\ t.sending = less
      /\ t.global.total = total /\ t.global.loaded = loaded
  BY <1>1, <1>6, <1>3, <1>4, <1>8 DEF Queues
<1>10. Sound(t, b)
  <2>1. t.running = IF p.st = "sending" THEN s.running ELSE s.running - 1
    BY <1>3, <1>9 DEF left
  <2>2. t.global.total = IF p.st = "failed" THEN s.global.total - Size ELSE s.global.total
    BY <1>3, <1>9 DEF total
  <2>3. t.global.loaded = IF p.st = "failed" THEN s.global.loaded - s.upload[u].loaded
                          ELSE s.global.loaded + p.loaded - s.upload[u].loaded
    BY <1>2, <1>9, <1>3 DEF loaded, n
  <2>4. p.st \in {"sending", "failed", "done"} BY <1>3
  <2> QED BY <1>9, <1>3, <2>1, <2>2, <2>3, <2>4, OneMoves
<1>11. /\ InState(t, "queued") = InState(s, "queued") \ {u}
      /\ InState(t, "sending") = InState(s, "sending") \ {u}
  BY <1>1, <1>9, <1>3 DEF InState, Queues
<1> QED BY <1>9, <1>10, <1>11 DEF t, less, CountedOut

\* With a limit uploads wait in slots, one by one in the chain.
SlotMode == ~setting.sequential /\ setting.limit > 1
ChainMode == setting.sequential /\ ~(setting.limit > 1)

Members(q) == {q[j] : j \in 1 .. Len(q)}
Behind(q) == {q[j] : j \in 2 .. Len(q)}

\* As many are sent as the limit allows, or "least", while others wait in a slot.
Slotted(s, least) ==
    /\ s.chain = <<>>
    /\ s.sending = Cardinality(InState(s, "sending")) /\ s.sending <= setting.limit
    /\ InState(s, "queued") # {} => s.sending >= least
    /\ InState(s, "queued") \subseteq Members(s.slots)

\* Who waits waits in the chain for its head, which is sent.
Chained(s) ==
    /\ s.slots = <<>>
    /\ s.chain = <<>> => InState(s, "queued") = {} /\ InState(s, "sending") = {}
    /\ s.chain # <<>> => /\ InState(s, "sending") = {Head(s.chain)}
                         /\ InState(s, "queued") \subseteq Behind(s.chain)

Moded(s) == (SlotMode => Slotted(s, setting.limit)) /\ (ChainMode => Chained(s))

LEMMA SettingIs == setting \in Setting => setting.limit \in Nat /\ setting.sequential \in BOOLEAN
BY AssumptionOfUploads DEF Uploads!UploadsAssumption

\* The rest of a queue, after k of its members.
LEMMA RestOf ==
    ASSUME NEW q \in Seq(Upload), NEW k \in 1 .. Len(q) + 1
    PROVE  /\ SubSeq(q, k, Len(q)) \in Seq(Upload)
           /\ Len(SubSeq(q, k, Len(q))) = Len(q) - k + 1
           /\ \A j \in 1 .. Len(q) - k + 1 : SubSeq(q, k, Len(q))[j] = q[j + k - 1]
           /\ SubSeq(q, k + 1, Len(q)) \in Seq(Upload)
           /\ Members(SubSeq(q, k + 1, Len(q))) = {q[j] : j \in k + 1 .. Len(q)}
           /\ Behind(SubSeq(q, k, Len(q))) = {q[j] : j \in k + 1 .. Len(q)}
<1>1. Len(q) \in Nat /\ \A j \in 1 .. Len(q) : q[j] \in Upload
  OBVIOUS
<1>2. ASSUME NEW i \in 1 .. Len(q) + 2
      PROVE  /\ SubSeq(q, i, Len(q)) \in Seq(Upload)
             /\ Len(SubSeq(q, i, Len(q))) = IF i <= Len(q) THEN Len(q) - i + 1 ELSE 0
             /\ \A j \in 1 .. Len(q) - i + 1 : SubSeq(q, i, Len(q))[j] = q[j + i - 1]
  <2>1. CASE i <= Len(q)
    BY <1>1, <2>1, SubSeqProperties
  <2>2. CASE i > Len(q)
    BY <1>1, <2>2, SubSeqProperties, EmptySeq
  <2> QED BY <1>1, <2>1, <2>2
<1> DEFINE r == SubSeq(q, k, Len(q))
           t == SubSeq(q, k + 1, Len(q))
<1>3. /\ r \in Seq(Upload) /\ Len(r) = Len(q) - k + 1
      /\ \A j \in 1 .. Len(q) - k + 1 : r[j] = q[j + k - 1]
  BY <1>1, <1>2
<1>4. /\ t \in Seq(Upload) /\ Len(t) = IF k < Len(q) THEN Len(q) - k ELSE 0
      /\ \A j \in 1 .. Len(q) - k : t[j] = q[j + k]
  <2>1. k + 1 \in 1 .. Len(q) + 2 BY <1>1
  <2> QED BY <1>1, <1>2, <2>1
<1> HIDE DEF r, t
<1>5. Members(t) = {q[j] : j \in k + 1 .. Len(q)}
  <2>1. ASSUME NEW j \in k + 1 .. Len(q) PROVE q[j] \in Members(t)
    <3>1. j - k \in 1 .. Len(t) /\ t[j - k] = q[j] BY <1>1, <1>4
    <3> QED BY <3>1 DEF Members
  <2>2. ASSUME NEW j \in 1 .. Len(t) PROVE t[j] \in {q[i] : i \in k + 1 .. Len(q)}
    <3>1. j + k \in k + 1 .. Len(q) /\ t[j] = q[j + k] BY <1>1, <1>4
    <3> QED BY <3>1
  <2> QED BY <2>1, <2>2 DEF Members
<1>6. Behind(r) = {q[j] : j \in k + 1 .. Len(q)}
  <2>1. ASSUME NEW j \in k + 1 .. Len(q) PROVE q[j] \in Behind(r)
    <3>1. j - k + 1 \in 2 .. Len(r) /\ r[j - k + 1] = q[j] BY <1>1, <1>3
    <3> QED BY <3>1 DEF Behind
  <2>2. ASSUME NEW j \in 2 .. Len(r) PROVE r[j] \in {q[i] : i \in k + 1 .. Len(q)}
    <3>1. j + k - 1 \in k + 1 .. Len(q) /\ r[j] = q[j + k - 1] BY <1>1, <1>3
    <3> QED BY <3>1
  <2> QED BY <2>1, <2>2 DEF Behind
<1> QED BY <1>3, <1>4, <1>5, <1>6 DEF r, t

\* A slot is taken: as many are sent again as before.
LEMMA SlotTaken ==
    ASSUME NEW s, NEW b, Sound(s, b), setting \in Setting,
           SlotMode => Slotted(s, setting.limit - 1), ChainMode => s.slots = <<>>
    PROVE  LET t == Uploads!Filled(s)
           IN  /\ Sound(t, b) /\ t.chain = s.chain
               /\ SlotMode => Slotted(t, setting.limit)
               /\ ChainMode => /\ t.slots = <<>>
                               /\ InState(t, "queued") \subseteq InState(s, "queued")
                               /\ InState(t, "sending") = InState(s, "sending")
<1> DEFINE t == Uploads!Filled(s)
           q == s.slots
           k == Uploads!FirstToGo(s, q)
           d == Uploads!Dispatch(s, q)
           n == SubSeq(q, k + 1, Len(q))
           most == setting.limit
<1>1. most \in Nat /\ s \in Queues /\ q \in Seq(Upload) /\ s.sending \in Int
  BY SettingIs DEF Sound, Queues
<1>2. CASE ~Uploads!Frees(s)
  <2>1. t = s BY <1>2 DEF Uploads!Filled
  <2>2. most = 0 \/ s.sending >= most BY <1>1, <1>2 DEF Uploads!Frees
  <2>3. SlotMode => Slotted(s, most)
    BY <1>1, <2>2 DEF SlotMode, Slotted
  <2> HIDE DEF t
  <2> QED BY <2>1, <2>3 DEF t
<1>3. CASE Uploads!Frees(s)
  <2>1. t = [d EXCEPT !.slots = n]
    BY <1>3 DEF Uploads!Filled, Uploads!NextSlot
  <2>2. SentFrom(s, b, q, k, d)
    BY <1>1, Dispatched
  <2> HIDE DEF t, d, k
  <2>3. k \in 1 .. Len(q) + 1 /\ Sound(d, b) /\ d \in Queues
    BY <2>2 DEF SentFrom, Sound
  <2>4. n \in Seq(Upload) /\ Members(n) = {q[j] : j \in k + 1 .. Len(q)}
    BY <1>1, <2>3, RestOf
  <2>5. q = <<>> => n = <<>>
    <3>1. q = <<>> => Len(q) = 0 /\ k + 1 > Len(q) BY <2>3
    <3> QED BY <1>1, <2>3, <3>1, SubSeqProperties, EmptySeq
  <2> HIDE DEF n
  <2>6. /\ t \in Queues /\ t.upload = d.upload /\ t.running = d.running /\ t.global = d.global
        /\ t.slots = n /\ t.chain = d.chain /\ t.sending = d.sending
    BY <2>1, <2>3, <2>4 DEF Queues
  <2>7. Sound(t, b) /\ \A state : InState(t, state) = InState(d, state)
    BY <2>3, <2>6, Requeued
  <2>8. ASSUME SlotMode PROVE Slotted(t, most)
    <3>1. /\ s.chain = <<>> /\ s.sending = Cardinality(InState(s, "sending"))
          /\ InState(s, "queued") # {} => s.sending >= most - 1
          /\ InState(s, "queued") \subseteq Members(q)
      BY <2>8 DEF Slotted
    <3>2. s.sending < most
      BY <1>3 DEF Uploads!Frees
    <3>3. InState(t, "queued") \subseteq Members(n)
      <4>1. ASSUME NEW u \in InState(t, "queued") PROVE u \in Members(n)
        <5>1. u \in InState(s, "queued") /\ \A j \in 1 .. Len(q) : j <= k => q[j] # u
          BY <2>2, <2>7 DEF SentFrom
        <5>2. PICK j \in 1 .. Len(q) : q[j] = u
          BY <3>1, <5>1 DEF Members
        <5>3. j \in k + 1 .. Len(q) BY <2>3, <5>1, <5>2
        <5> QED BY <2>4, <5>2, <5>3
      <4> QED BY <4>1
    <3>4. CASE k > Len(q)
      <4>1. InState(t, "queued") = {}
        <5>1. \A j \in k + 1 .. Len(q) : FALSE BY <2>3, <3>4, <1>1
        <5> QED BY <2>4, <3>3, <5>1
      <4>2. t.sending = s.sending /\ InState(t, "sending") = InState(s, "sending")
        BY <2>2, <2>6, <2>7, <3>4 DEF SentFrom
      <4>3. t.chain = <<>> /\ t.slots = n BY <2>2, <2>6, <3>1 DEF SentFrom
      <4>4. t.sending <= most BY <1>1, <3>2, <4>2
      <4> QED BY <3>1, <3>3, <4>1, <4>2, <4>3, <4>4 DEF Slotted
    <3>5. CASE k <= Len(q)
      <4>1. /\ t.sending = s.sending + 1 /\ q[k] \in InState(s, "queued")
            /\ InState(t, "sending") = InState(s, "sending") \cup {q[k]}
        BY <2>2, <2>6, <2>7, <3>5 DEF SentFrom
      <4>2. IsFiniteSet(InState(s, "sending")) /\ q[k] \notin InState(s, "sending")
        <5>1. InState(s, "sending") \in SUBSET b /\ IsFiniteSet(b)
          BY DEF Sound, Busy
        <5> QED BY <4>1, <5>1, FS_Subset DEF InState
      <4>3. Cardinality(InState(t, "sending")) = Cardinality(InState(s, "sending")) + 1
        BY <4>1, <4>2, FS_AddElement
      <4>4. t.sending = Cardinality(InState(t, "sending")) BY <3>1, <4>1, <4>3
      <4>5. t.sending <= most /\ t.sending >= most
        BY <1>1, <3>1, <3>2, <4>1
      <4>6. t.chain = <<>> /\ t.slots = n BY <2>2, <2>6, <3>1 DEF SentFrom
      <4> QED BY <3>3, <4>4, <4>5, <4>6 DEF Slotted
    <3>6. k \in Int /\ Len(q) \in Int BY <1>1, <2>3
    <3> QED BY <3>4, <3>5, <3>6
  <2>9. ASSUME ChainMode
        PROVE  /\ t.slots = <<>>
               /\ InState(t, "queued") \subseteq InState(s, "queued")
               /\ InState(t, "sending") = InState(s, "sending")
    <3>1. q = <<>> /\ Len(q) = 0 BY <2>9
    <3>2. k > Len(q) BY <2>3, <3>1
    <3> QED BY <2>2, <2>5, <2>6, <2>7, <3>1, <3>2 DEF SentFrom
  <2>10. t.chain = s.chain BY <2>2, <2>6 DEF SentFrom
  <2> QED BY <2>7, <2>8, <2>9, <2>10 DEF t
<1> QED BY <1>2, <1>3

\* The chain goes on: the next that can be sent is its head.
LEMMA ChainGoesOn ==
    ASSUME NEW s, NEW b, Sound(s, b), setting \in Setting, NEW u,
           SlotMode => Slotted(s, setting.limit),
           ChainMode => /\ s.slots = <<>> /\ s.chain # <<>>
                        /\ InState(s, "queued") \subseteq Behind(s.chain)
                        /\ InState(s, "sending") = IF Head(s.chain) = u THEN {} ELSE {Head(s.chain)}
    PROVE  LET t == Uploads!Followed(s, u) IN Sound(t, b) /\ Moded(t)
<1> DEFINE t == Uploads!Followed(s, u)
           q == Tail(s.chain)
           k == Uploads!FirstToGo(s, q)
           d == Uploads!Dispatch(s, q)
           n == SubSeq(q, k, Len(q))
<1>1. s \in Queues /\ s.chain \in Seq(Upload) /\ s.sending \in Int
  BY DEF Sound, Queues
<1>2. CASE ~(s.chain # <<>> /\ Head(s.chain) = u)
  <2>1. t = s BY <1>2 DEF Uploads!Followed
  <2>2. Moded(s) BY <1>2 DEF Moded, Chained
  <2> HIDE DEF t
  <2> QED BY <2>1, <2>2 DEF t
<1>3. CASE s.chain # <<>> /\ Head(s.chain) = u
  <2> DEFINE more == d.sending + Cardinality({j \in 1 .. k - 1 : s.upload[q[j]].st = "failed"})
  <2>1. t = [d EXCEPT !.chain = n, !.sending = more]
    BY <1>3, UploadsCount DEF Uploads!Followed, Uploads!Follow
  <2>2. q \in Seq(Upload) /\ Len(q) = Len(s.chain) - 1 /\ \A j \in 1 .. Len(q) : q[j] = s.chain[j + 1]
    BY <1>1, <1>3
  <2>3. SentFrom(s, b, q, k, d)
    BY <2>2, Dispatched
  <2> HIDE DEF t, d, k, q
  <2>4. k \in 1 .. Len(q) + 1 /\ Sound(d, b) /\ d \in Queues /\ Len(q) \in Nat
    BY <2>2, <2>3 DEF SentFrom, Sound
  <2>5. n \in Seq(Upload) /\ Behind(n) = {q[j] : j \in k + 1 .. Len(q)} /\ Len(n) = Len(q) - k + 1
        /\ \A j \in 1 .. Len(q) - k + 1 : n[j] = q[j + k - 1]
    BY <2>2, <2>4, RestOf
  <2>6. more \in Int
    <3>1. IsFiniteSet(1 .. k - 1) BY <2>4, FS_Interval
    <3>2. {j \in 1 .. k - 1 : s.upload[q[j]].st = "failed"} \in SUBSET (1 .. k - 1) OBVIOUS
    <3>3. Cardinality({j \in 1 .. k - 1 : s.upload[q[j]].st = "failed"}) \in Nat
      BY <3>1, <3>2, FS_Subset, FS_CardinalityType
    <3>4. d.sending \in Int BY <2>4 DEF Queues
    <3> QED BY <3>3, <3>4
  <2> HIDE DEF n, more
  <2>7. /\ t \in Queues /\ t.upload = d.upload /\ t.running = d.running /\ t.global = d.global
        /\ t.slots = d.slots /\ t.chain = n
    BY <2>1, <2>4, <2>5, <2>6 DEF Queues
  <2>8. Sound(t, b) /\ \A state : InState(t, state) = InState(d, state)
    BY <2>4, <2>7, Requeued
  <2>9. ~SlotMode BY <1>3 DEF Slotted
  <2>10. ASSUME ChainMode PROVE Chained(t)
    <3>1. InState(s, "queued") \subseteq Behind(s.chain) /\ InState(s, "sending") = {}
          /\ s.slots = <<>>
      BY <1>3, <2>10
    <3>2. t.slots = <<>> BY <2>3, <2>7, <3>1 DEF SentFrom
    <3>3. InState(t, "queued") \subseteq Behind(n)
      <4>1. ASSUME NEW v \in InState(t, "queued") PROVE v \in Behind(n)
        <5>1. v \in InState(s, "queued") /\ \A j \in 1 .. Len(q) : j <= k => q[j] # v
          BY <2>3, <2>8 DEF SentFrom
        <5>2. PICK i \in 2 .. Len(s.chain) : s.chain[i] = v
          BY <3>1, <5>1 DEF Behind
        <5>3. i - 1 \in 1 .. Len(q) /\ q[i - 1] = v
          BY <1>1, <2>2, <2>4, <5>2
        <5>4. i - 1 \in k + 1 .. Len(q) BY <2>4, <5>1, <5>3
        <5> QED BY <2>5, <5>3, <5>4
      <4> QED BY <4>1
    <3>4. CASE k > Len(q)
      <4>1. n = <<>> BY <2>4, <2>5, <3>4, EmptySeq
      <4>2. Behind(n) = {}
        <5>1. \A j \in k + 1 .. Len(q) : FALSE BY <2>4, <3>4
        <5> QED BY <2>5, <5>1
      <4>3. InState(t, "sending") = {} BY <2>3, <2>8, <3>1, <3>4 DEF SentFrom
      <4> QED BY <2>7, <3>2, <3>3, <4>1, <4>2, <4>3 DEF Chained
    <3>5. CASE k <= Len(q)
      <4>1. n # <<>> /\ Head(n) = q[k]
        <5>1. Len(n) > 0 /\ n[1] = q[k] BY <2>4, <2>5, <3>5
        <5> QED BY <2>5, <5>1
      <4>2. InState(t, "sending") = {q[k]} BY <2>3, <2>8, <3>1, <3>5 DEF SentFrom
      <4> QED BY <2>7, <3>2, <3>3, <4>1, <4>2 DEF Chained
    <3>6. k \in Int /\ Len(q) \in Int BY <2>4
    <3> QED BY <3>4, <3>5, <3>6
  <2> QED BY <2>8, <2>9, <2>10 DEF Moded, t
<1> QED BY <1>2, <1>3

UploadsInv == setting \in Setting /\ Sound(Uploads!S, batch) /\ Moded(Uploads!S)

\* What the widget becomes keeps the invariant.
Keeps(b) == \E x : Sound(x, b) /\ Moded(x) /\ Uploads!Become(x)

LEMMA Became ==
    ASSUME setting \in Setting, NEW b, Keeps(b), batch' = b
    PROVE  UploadsInv'
<1>1. PICK x : Sound(x, b) /\ Moded(x) /\ Uploads!Become(x)
  BY DEF Keeps
<1>2. setting' = setting /\ x \in Queues
  BY <1>1 DEF Sound, Uploads!Become
<1>3. /\ upload' = x.upload /\ slots' = x.slots /\ chain' = x.chain /\ sending' = x.sending
      /\ running' = x.running /\ global' = x.global
  BY <1>1 DEF Uploads!Become
<1>4. Uploads!S' = x
  BY <1>2, <1>3 DEF Uploads!S, Queues
<1>5. Sound(x, b) /\ (Moded(x) <=> Moded(x)')
  BY <1>1, <1>2 DEF Moded, SlotMode, ChainMode, Slotted, Chained, InState
<1> QED BY <1>1, <1>2, <1>4, <1>5 DEF UploadsInv

\* An upload ends, another is sent instead, and what is piped after it.
LEMMA EndedKeeps ==
    ASSUME NEW s, NEW b, Sound(s, b), NEW u \in Upload, u \in Busy(s),
           NEW how \in {"failed", "done"}, setting \in Setting,
           SlotMode => LET n == Cardinality(InState(s, "sending") \ {u})
                       IN  /\ s.chain = <<>> /\ s.sending = n + 1 /\ n <= setting.limit
                           /\ InState(s, "queued") \ {u} # {} => n >= setting.limit - 1
                           /\ InState(s, "queued") \ {u} \subseteq Members(s.slots),
           ChainMode => /\ s.slots = <<>> /\ s.chain # <<>>
                        /\ InState(s, "queued") \ {u} \subseteq Behind(s.chain)
                        /\ InState(s, "sending") \ {u} =
                               IF Head(s.chain) = u THEN {} ELSE {Head(s.chain)},
           Uploads!Ended(s, u, how)
    PROVE  Keeps(b)
<1> DEFINE t == CountedOut(s, u, how)
           f == Uploads!Filled(t)
           x == Uploads!Followed(f, u)
<1>1. Uploads!Become(x)
  BY DEF Uploads!Ended, CountedOut
<1>2. /\ Sound(t, b) /\ t.slots = s.slots /\ t.chain = s.chain
      /\ t.sending = s.sending - 1
      /\ InState(t, "queued") = InState(s, "queued") \ {u}
      /\ InState(t, "sending") = InState(s, "sending") \ {u}
  BY EndCounted
<1> HIDE DEF t
<1>3. /\ SlotMode => Slotted(t, setting.limit - 1)
      /\ ChainMode => t.slots = <<>>
  <2>1. ASSUME SlotMode PROVE Slotted(t, setting.limit - 1)
    <3> DEFINE n == Cardinality(InState(s, "sending") \ {u})
    <3>1. /\ s.chain = <<>> /\ s.sending = n + 1 /\ n <= setting.limit
          /\ InState(s, "queued") \ {u} # {} => n >= setting.limit - 1
          /\ InState(s, "queued") \ {u} \subseteq Members(s.slots)
      BY <2>1
    <3>2. n \in Nat
      <4>1. InState(s, "sending") \ {u} \in SUBSET b /\ IsFiniteSet(b)
        BY DEF Sound, Busy
      <4> QED BY <4>1, FS_Subset, FS_CardinalityType
    <3> HIDE DEF n
    <3>3. t.sending = n BY <1>2, <3>1, <3>2
    <3>4. n = Cardinality(InState(t, "sending")) BY <1>2 DEF n
    <3> QED BY <1>2, <3>1, <3>3, <3>4 DEF Slotted
  <2> QED BY <1>2, <2>1
<1>4. /\ Sound(f, b) /\ f.chain = t.chain
      /\ SlotMode => Slotted(f, setting.limit)
      /\ ChainMode => /\ f.slots = <<>>
                      /\ InState(f, "queued") \subseteq InState(t, "queued")
                      /\ InState(f, "sending") = InState(t, "sending")
  BY <1>2, <1>3, SlotTaken
<1> HIDE DEF f
<1>5. ChainMode => /\ f.slots = <<>> /\ f.chain # <<>>
                   /\ InState(f, "queued") \subseteq Behind(f.chain)
                   /\ InState(f, "sending") = IF Head(f.chain) = u THEN {} ELSE {Head(f.chain)}
  BY <1>2, <1>4
<1>6. Sound(x, b) /\ Moded(x)
  BY <1>4, <1>5, ChainGoesOn
<1> QED BY <1>1, <1>6 DEF Keeps

\* Submissions and states are as they were, but for bytes.
Alike(s, x) ==
    /\ x.slots = s.slots /\ x.chain = s.chain /\ x.sending = s.sending
    /\ \A state : InState(x, state) = InState(s, state)

LEMMA AlikeModed ==
    ASSUME NEW s, NEW x, Alike(s, x), Moded(s) PROVE Moded(x)
BY DEF Alike, Moded, Slotted, Chained

\* What is loaded is added to the counter, what the server has is not.
LEMMA Progressed ==
    ASSUME NEW s, NEW b, Sound(s, b), NEW u \in InState(s, "sending"), NEW bytes \in 0 .. Size
    PROVE  LET x == Uploads!Progress(s, u, bytes) IN Sound(x, b) /\ Alike(s, x)
<1> DEFINE old == s.upload[u].loaded
           p == [s.upload[u] EXCEPT !.loaded = bytes]
           loaded == s.global.loaded + bytes - old
           g == [s.global EXCEPT !.loaded = loaded]
           x == Uploads!Progress(s, u, bytes)
<1>1. /\ s \in Queues /\ u \in Upload /\ u \in Busy(s) /\ s.upload[u] \in Put
      /\ s.upload[u].st = "sending"
  BY DEF Sound, Busy, InState, Queues
<1>2. s.global \in [loaded : Int, total : Int] /\ s.upload \in [Upload -> Put]
  BY <1>1 DEF Queues
<1>3. old \in Int /\ bytes \in Int /\ s.global.loaded \in Int
  BY <1>1, <1>2, SizeIs DEF Put
<1>4. loaded \in Int BY <1>3
<1>5. p \in Put /\ p.st = "sending" /\ p.loaded = bytes
  BY <1>1 DEF Put
<1>6. x = [s EXCEPT !.global.loaded = loaded, !.upload[u].loaded = bytes]
  BY DEF Uploads!Progress
<1> HIDE DEF loaded, x, old
<1>7. g \in [loaded : Int, total : Int] /\ g.loaded = loaded /\ g.total = s.global.total
  BY <1>2, <1>4
<1>8. x = [s EXCEPT !.global = g, !.upload = [s.upload EXCEPT ![u] = p]]
  BY <1>1, <1>2, <1>6 DEF Queues
<1> HIDE DEF g, p
<1>9. /\ x \in Queues /\ x.upload = [s.upload EXCEPT ![u] = p] /\ x.running = s.running
      /\ x.slots = s.slots /\ x.chain = s.chain /\ x.sending = s.sending /\ x.global = g
  BY <1>1, <1>2, <1>5, <1>7, <1>8 DEF Queues
<1>10. Sound(x, b)
  <2>1. p.st \in {"sending", "failed", "done"} BY <1>5
  <2>2. x.running = IF p.st = "sending" THEN s.running ELSE s.running - 1 BY <1>5, <1>9
  <2>3. x.global.total = IF p.st = "failed" THEN s.global.total - Size ELSE s.global.total
    BY <1>5, <1>7, <1>9
  <2>4. x.global.loaded = IF p.st = "failed" THEN s.global.loaded - s.upload[u].loaded
                          ELSE s.global.loaded + p.loaded - s.upload[u].loaded
    BY <1>5, <1>7, <1>9 DEF loaded, old
  <2> QED BY <1>1, <1>5, <1>9, <2>1, <2>2, <2>3, <2>4, OneMoves
<1>11. \A state : InState(x, state) = InState(s, state)
  BY <1>1, <1>2, <1>5, <1>9 DEF InState
<1> QED BY <1>9, <1>10, <1>11 DEF Alike, x

LEMMA Acknowledged ==
    ASSUME NEW s, NEW b, Sound(s, b), NEW u \in InState(s, "sending"), NEW ub \in 0 .. Size
    PROVE  LET x == [s EXCEPT !.upload[u].ub = ub] IN Sound(x, b) /\ Alike(s, x)
<1> DEFINE x == [s EXCEPT !.upload[u].ub = ub]
           p == [s.upload[u] EXCEPT !.ub = ub]
<1>1. /\ s \in Queues /\ u \in Upload /\ u \in Busy(s) /\ s.upload[u] \in Put
      /\ s.upload[u].st = "sending" /\ s.upload \in [Upload -> Put]
  BY DEF Sound, Busy, InState, Queues
<1>2. p \in Put /\ p.st = "sending" /\ p.loaded = s.upload[u].loaded
  BY <1>1 DEF Put
<1>3. x = [s EXCEPT !.upload = [s.upload EXCEPT ![u] = p]]
  BY <1>1 DEF Queues
<1> HIDE DEF p, x
<1>4. /\ x \in Queues /\ x.upload = [s.upload EXCEPT ![u] = p] /\ x.running = s.running
      /\ x.slots = s.slots /\ x.chain = s.chain /\ x.sending = s.sending /\ x.global = s.global
  BY <1>1, <1>2, <1>3 DEF Queues
<1>5. s.global.loaded \in Int /\ s.upload[u].loaded \in Int
  BY <1>1, SizeIs DEF Queues, Put
<1>6. Sound(x, b)
  <2>1. p.st \in {"sending", "failed", "done"} BY <1>2
  <2>2. x.running = IF p.st = "sending" THEN s.running ELSE s.running - 1 BY <1>2, <1>4
  <2>3. x.global.total = IF p.st = "failed" THEN s.global.total - Size ELSE s.global.total
    BY <1>2, <1>4
  <2>4. x.global.loaded = IF p.st = "failed" THEN s.global.loaded - s.upload[u].loaded
                          ELSE s.global.loaded + p.loaded - s.upload[u].loaded
    BY <1>2, <1>4, <1>5
  <2> QED BY <1>1, <1>2, <1>4, <2>1, <2>2, <2>3, <2>4, OneMoves
<1>7. \A state : InState(x, state) = InState(s, state)
  BY <1>1, <1>2, <1>4 DEF InState
<1> QED BY <1>4, <1>6, <1>7 DEF Alike, x

\* A submission is sent, or refused by the page and something else is.
LEMMA SendKeeps ==
    ASSUME NEW s, NEW b, Sound(s, b), NEW u \in InState(s, "queued"), setting \in Setting,
           SlotMode => /\ s.chain = <<>> /\ s.sending = Cardinality(InState(s, "sending"))
                       /\ s.sending < setting.limit /\ InState(s, "queued") = {u},
           ChainMode => /\ s.slots = <<>> /\ s.chain = <<u>>
                        /\ InState(s, "sending") = {} /\ InState(s, "queued") = {u},
           Uploads!Send(s, u)
    PROVE  Keeps(b)
<1> DEFINE more == s.sending + 1
           t == [s EXCEPT !.sending = more]
           n == Cardinality(InState(s, "sending"))
<1>1. /\ s \in Queues /\ u \in Upload /\ s.upload[u] \in Put /\ s.upload[u].st = "queued"
      /\ setting.limit \in Nat /\ more \in Int /\ s.sending \in Int
  BY SettingIs DEF Sound, InState, Queues
<1>2. IsFiniteSet(InState(s, "sending")) /\ n \in Nat /\ u \notin InState(s, "sending")
  <2>1. InState(s, "sending") \in SUBSET b /\ IsFiniteSet(b)
    BY DEF Sound, Busy
  <2> QED BY <1>1, <2>1, FS_Subset, FS_CardinalityType DEF InState
<1>3. \/ u \in Vetoed /\ Uploads!Ended(t, u, "failed")
      \/ u \notin Vetoed /\ Uploads!Become([t EXCEPT !.upload[u].st = "sending"])
  BY DEF Uploads!Send
<1> HIDE DEF more
<1>4. /\ t \in Queues /\ t.upload = s.upload /\ t.running = s.running /\ t.global = s.global
      /\ t.slots = s.slots /\ t.chain = s.chain /\ t.sending = more
  BY <1>1 DEF Queues
<1> HIDE DEF t
<1>5. Sound(t, b) /\ \A state : InState(t, state) = InState(s, state)
  BY <1>4, Requeued
<1>6. u \in Busy(t)
  BY <1>5 DEF Busy
<1>7. ASSUME Uploads!Ended(t, u, "failed") PROVE Keeps(b)
  <2>1. InState(t, "sending") \ {u} = InState(s, "sending")
    BY <1>2, <1>5
  <2> DEFINE m == Cardinality(InState(t, "sending") \ {u})
  <2>2. SlotMode => /\ t.chain = <<>> /\ t.sending = m + 1 /\ m <= setting.limit
                    /\ InState(t, "queued") \ {u} # {} => m >= setting.limit - 1
                    /\ InState(t, "queued") \ {u} \subseteq Members(t.slots)
    <3>1. ASSUME SlotMode
          PROVE  /\ s.chain = <<>> /\ s.sending = n /\ s.sending < setting.limit
                 /\ InState(s, "queued") = {u}
      BY <3>1
    <3>2. m = n BY <2>1
    <3>3. SlotMode => InState(t, "queued") \ {u} = {}
      BY <1>5, <3>1
    <3> HIDE DEF m, n
    <3> QED BY <1>1, <1>2, <1>4, <3>1, <3>2, <3>3 DEF more
  <2>3. ChainMode => /\ t.slots = <<>> /\ t.chain # <<>>
                     /\ InState(t, "queued") \ {u} \subseteq Behind(t.chain)
                     /\ InState(t, "sending") \ {u} =
                            IF Head(t.chain) = u THEN {} ELSE {Head(t.chain)}
    <3> SUFFICES ASSUME ChainMode
                 PROVE  /\ t.slots = <<>> /\ t.chain # <<>>
                        /\ InState(t, "queued") \ {u} \subseteq Behind(t.chain)
                        /\ InState(t, "sending") \ {u} =
                               IF Head(t.chain) = u THEN {} ELSE {Head(t.chain)}
      OBVIOUS
    <3>1. t.slots = <<>> /\ t.chain = <<u>> /\ InState(t, "queued") \ {u} = {}
          /\ InState(t, "sending") \ {u} = {}
      BY <1>4, <1>5, <2>1
    <3>2. t.chain # <<>> /\ Head(t.chain) = u BY <3>1
    <3> QED BY <3>1, <3>2
  <2>4. "failed" \in {"failed", "done"} OBVIOUS
  <2> QED BY <1>1, <1>5, <1>6, <1>7, <2>2, <2>3, <2>4, EndedKeeps
<1>8. ASSUME Uploads!Become([t EXCEPT !.upload[u].st = "sending"]) PROVE Keeps(b)
  <2> DEFINE x == [t EXCEPT !.upload[u].st = "sending"]
             p == [s.upload[u] EXCEPT !.st = "sending"]
  <2>1. p \in Put /\ p.st = "sending" /\ p.loaded = s.upload[u].loaded
    BY <1>1 DEF Put
  <2>2. x = [t EXCEPT !.upload = [t.upload EXCEPT ![u] = p]]
    BY <1>1, <1>4 DEF Queues
  <2>3. Uploads!Become(x) BY <1>8
  <2> HIDE DEF p, x
  <2>4. /\ x \in Queues /\ x.upload = [t.upload EXCEPT ![u] = p] /\ x.running = t.running
        /\ x.slots = s.slots /\ x.chain = s.chain /\ x.sending = more /\ x.global = t.global
    BY <1>1, <1>4, <2>1, <2>2 DEF Queues
  <2>5. t.global.loaded \in Int /\ t.upload[u].loaded \in Int /\ t.upload[u].loaded = p.loaded
    BY <1>1, <1>4, <2>1, SizeIs DEF Queues, Put
  <2>6. Sound(x, b)
    <3>1. Sound(t, b) BY <1>5
    <3>2. u \in Upload /\ u \in Busy(t) /\ p \in Put /\ x \in Queues
          /\ x.upload = [t.upload EXCEPT ![u] = p]
      BY <1>1, <1>6, <2>1, <2>4
    <3> HIDE DEF n
    <3>3. p.st \in {"sending", "failed", "done"} BY <2>1
    <3>4. x.running = IF p.st = "sending" THEN t.running ELSE t.running - 1 BY <2>1, <2>4
    <3>5. x.global.total = IF p.st = "failed" THEN t.global.total - Size ELSE t.global.total
      BY <2>1, <2>4
    <3>6. x.global.loaded = IF p.st = "failed" THEN t.global.loaded - t.upload[u].loaded
                            ELSE t.global.loaded + p.loaded - t.upload[u].loaded
      BY <2>1, <2>4, <2>5
    <3> QED BY <3>3, <3>4, <3>5, <3>6, <3>1, <3>2, OneMoves
  <2>7. /\ InState(x, "queued") = InState(s, "queued") \ {u}
        /\ InState(x, "sending") = InState(s, "sending") \cup {u}
    BY <1>1, <1>4, <2>1, <2>4 DEF InState, Queues
  <2>8. SlotMode => Slotted(x, setting.limit)
    <3> SUFFICES ASSUME SlotMode PROVE Slotted(x, setting.limit)
      OBVIOUS
    <3>1. Cardinality(InState(x, "sending")) = n + 1
      BY <1>2, <2>7, FS_AddElement
    <3>2. s.chain = <<>> /\ s.sending = n /\ s.sending < setting.limit /\ InState(s, "queued") = {u}
      OBVIOUS
    <3>3. InState(x, "queued") = {} /\ x.chain = <<>> BY <2>4, <2>7, <3>2
    <3> HIDE DEF n
    <3>4. x.sending = Cardinality(InState(x, "sending")) /\ x.sending <= setting.limit
      BY <1>1, <1>2, <2>4, <3>1, <3>2 DEF more
    <3> QED BY <3>3, <3>4 DEF Slotted
  <2>9. ChainMode => Chained(x)
    <3> SUFFICES ASSUME ChainMode PROVE Chained(x)
      OBVIOUS
    <3>1. x.slots = <<>> /\ x.chain = <<u>> /\ InState(x, "queued") = {} /\ InState(x, "sending") = {u}
      BY <2>4, <2>7
    <3>2. x.chain # <<>> /\ Head(x.chain) = u BY <3>1
    <3> QED BY <3>1, <3>2 DEF Chained
  <2> QED BY <2>3, <2>6, <2>8, <2>9 DEF Keeps, Moded
<1> QED BY <1>3, <1>7, <1>8

LEMMA UploadsInit == Uploads!Init => UploadsInv
<1> SUFFICES ASSUME Uploads!Init PROVE UploadsInv
  OBVIOUS
<1>1. /\ setting \in Setting /\ upload = [u \in Upload |-> Uploads!Fresh] /\ slots = <<>>
      /\ chain = <<>> /\ sending = 0 /\ running = 0 /\ global = [loaded |-> 0, total |-> 0]
      /\ batch = {}
  BY DEF Uploads!Init
<1>2. Uploads!Fresh \in Put /\ Uploads!Fresh.st = "new" /\ Uploads!Fresh.loaded = 0
  BY SizeIs DEF Uploads!Fresh, Put
<1> DEFINE s == Uploads!S
<1>3. /\ s.upload = upload /\ s.slots = <<>> /\ s.chain = <<>> /\ s.sending = 0 /\ s.running = 0
      /\ s.global.loaded = 0 /\ s.global.total = 0 /\ s \in Queues
  BY <1>1, <1>2 DEF Uploads!S, Queues
<1> HIDE DEF s
<1>4. /\ \A u \in Upload : s.upload[u].st = "new" /\ s.upload[u].loaded = 0
  BY <1>1, <1>2, <1>3
<1>5. InState(s, "queued") = {} /\ InState(s, "sending") = {} /\ Busy(s) = {}
  BY <1>4 DEF InState, Busy
<1>6. Counted(s, {}) = {} /\ BytesOf(s, {}) = {}
  BY DEF Counted, BytesOf
<1>7. Cardinality({}) = 0 /\ IsFiniteSet({})
  BY FS_EmptySet
<1>8. Sound(s, {})
  <2>1. Size * 0 = 0 BY SizeIs
  <2>2. /\ s.running = Cardinality(Busy(s)) /\ s.global.loaded = Cardinality(BytesOf(s, Counted(s, {})))
        /\ Cardinality(Counted(s, {})) = 0
    BY <1>3, <1>5, <1>6, <1>7
  <2>3. \A u \in InState(s, "new") \cup InState(s, "queued") : s.upload[u].loaded = 0
    BY <1>4 DEF InState
  <2>4. s.global.total = Size * Cardinality(Counted(s, {}))
    BY <1>3, <2>1, <2>2
  <2> QED BY <1>3, <1>5, <1>7, <2>2, <2>3, <2>4 DEF Sound
<1>9. Moded(s)
  <2>1. setting.limit \in Nat /\ s.sending = Cardinality(InState(s, "sending"))
    BY <1>1, <1>3, <1>5, <1>7, SettingIs
  <2>2. Slotted(s, setting.limit) BY <1>3, <1>5, <2>1 DEF Slotted
  <2>3. Chained(s) BY <1>3, <1>5 DEF Chained
  <2> QED BY <2>2, <2>3 DEF Moded
<1> QED BY <1>1, <1>8, <1>9 DEF UploadsInv, s

\* The counters start anew when nothing is active.
LEMMA StartsSound ==
    ASSUME NEW s, NEW b, Sound(s, b)
    PROVE  LET a == Uploads!StartsAnew(s)
           IN  /\ Sound(a, IF s.running = 0 THEN {} ELSE b)
               /\ a.slots = s.slots /\ a.chain = s.chain /\ a.sending = s.sending
               /\ a.upload = s.upload
<1> DEFINE a == Uploads!StartsAnew(s)
           g == [loaded |-> 0, total |-> 0]
<1>1. s \in Queues /\ Busy(s) \in SUBSET b /\ IsFiniteSet(b) /\ s.running = Cardinality(Busy(s))
  BY DEF Sound
<1>2. CASE s.running = 0
  <2>1. a = [s EXCEPT !.global = g] BY <1>2 DEF Uploads!StartsAnew
  <2>2. g \in [loaded : Int, total : Int] /\ g.loaded = 0 /\ g.total = 0 OBVIOUS
  <2> HIDE DEF a, g
  <2>3. /\ a \in Queues /\ a.upload = s.upload /\ a.running = s.running /\ a.slots = s.slots
        /\ a.chain = s.chain /\ a.sending = s.sending /\ a.global = g
    BY <1>1, <2>1, <2>2 DEF Queues
  <2>4. \A state : InState(a, state) = InState(s, state)
    BY <2>3 DEF InState
  <2>5. Busy(a) = Busy(s) /\ Busy(s) = {}
    <3>1. IsFiniteSet(Busy(s)) /\ Cardinality(Busy(s)) = 0
      BY <1>1, <1>2, FS_Subset
    <3> QED BY <2>4, <3>1, FS_EmptySet DEF Busy
  <2>6. Counted(a, {}) = {} /\ BytesOf(a, {}) = {}
    BY DEF Counted, BytesOf
  <2>7. Cardinality({}) = 0 /\ IsFiniteSet({})
    BY FS_EmptySet
  <2>8. /\ a.global.total = Size * Cardinality(Counted(a, {}))
        /\ a.global.loaded = Cardinality(BytesOf(a, Counted(a, {})))
    <3>1. Cardinality(Counted(a, {})) = 0 /\ Size * 0 = 0 BY <2>6, <2>7, SizeIs
    <3>2. Cardinality(BytesOf(a, Counted(a, {}))) = 0 BY <2>6, <2>7
    <3> QED BY <2>2, <2>3, <3>1, <3>2
  <2>9. \A u \in InState(a, "new") \cup InState(a, "queued") : a.upload[u].loaded = 0
    BY <2>3, <2>4 DEF Sound
  <2>10. a.running = Cardinality(Busy(a)) BY <1>1, <2>3, <2>5
  <2>11. Sound(a, {})
    BY <2>3, <2>5, <2>7, <2>8, <2>9, <2>10 DEF Sound
  <2> QED BY <1>2, <2>3, <2>11 DEF a
<1>3. CASE s.running # 0
  BY <1>3 DEF Uploads!StartsAnew
<1> QED BY <1>2, <1>3

\* A submission more waits, and counts.
OneMore(a, u) ==
    [[a EXCEPT !.running = @ + 1, !.global.total = @ + Size] EXCEPT !.upload[u].st = "queued"]

LEMMA OneSubmitted ==
    ASSUME NEW a, NEW b, Sound(a, b), NEW u \in InState(a, "new")
    PROVE  LET t == OneMore(a, u)
           IN  /\ Sound(t, b \cup {u})
               /\ t.slots = a.slots /\ t.chain = a.chain /\ t.sending = a.sending
               /\ InState(t, "queued") = InState(a, "queued") \cup {u}
               /\ InState(t, "sending") = InState(a, "sending")
<1> DEFINE t == [[a EXCEPT !.running = @ + 1, !.global.total = @ + Size] EXCEPT
                     !.upload[u].st = "queued"]
           more == a.running + 1
           total == a.global.total + Size
           p == [a.upload[u] EXCEPT !.st = "queued"]
           g == [a.global EXCEPT !.total = total]
           D == Counted(a, b)
<1>1. /\ a \in Queues /\ u \in Upload /\ a.upload[u] \in Put /\ a.upload \in [Upload -> Put]
      /\ a.upload[u].st = "new" /\ a.upload[u].loaded = 0 /\ u \notin b
      /\ a.global \in [loaded : Int, total : Int] /\ a.running \in Int
  BY DEF Sound, InState, Queues
<1>2. more \in Int /\ total \in Int
  BY <1>1, SizeIs
<1>3. p \in Put /\ p.st = "queued" /\ p.loaded = 0
  BY <1>1 DEF Put
<1>4. t = [a EXCEPT !.running = more, !.global.total = total, !.upload[u].st = "queued"]
  OBVIOUS
<1> HIDE DEF more, total, t
<1>5. g \in [loaded : Int, total : Int] /\ g.loaded = a.global.loaded /\ g.total = total
  BY <1>1, <1>2
<1>6. t = [a EXCEPT !.running = more, !.global = g, !.upload = [a.upload EXCEPT ![u] = p]]
  BY <1>1, <1>4 DEF Queues
<1> HIDE DEF g, p
<1>7. /\ t \in Queues /\ t.upload = [a.upload EXCEPT ![u] = p] /\ t.running = more
      /\ t.slots = a.slots /\ t.chain = a.chain /\ t.sending = a.sending /\ t.global = g
  BY <1>1, <1>2, <1>3, <1>5, <1>6 DEF Queues
<1>8. t.upload[u] = p /\ \A v \in Upload \ {u} : t.upload[v] = a.upload[v]
  BY <1>1, <1>7
<1>9. /\ InState(t, "queued") = InState(a, "queued") \cup {u}
      /\ InState(t, "sending") = InState(a, "sending")
      /\ InState(t, "new") = InState(a, "new") \ {u}
      /\ Busy(t) = Busy(a) \cup {u} /\ u \notin Busy(a)
  BY <1>1, <1>3, <1>8 DEF InState, Busy
<1>10. /\ b \subseteq Upload /\ IsFiniteSet(b) /\ Busy(a) \subseteq b /\ InState(a, "new") \cap b = {}
       /\ a.running = Cardinality(Busy(a)) /\ a.global.total = Size * Cardinality(D)
       /\ a.global.loaded = Cardinality(BytesOf(a, D))
  BY DEF Sound
<1>11. IsFiniteSet(Busy(a)) /\ IsFiniteSet(D) /\ Cardinality(D) \in Nat /\ D \subseteq Upload
       /\ u \notin D
  <2>1. Busy(a) \in SUBSET b /\ D \in SUBSET b BY <1>10 DEF Counted
  <2> QED BY <1>1, <1>10, <2>1, FS_Subset, FS_CardinalityType
<1>12. Counted(t, b \cup {u}) = D \cup {u}
  BY <1>1, <1>3, <1>8, <1>10 DEF Counted
<1> HIDE DEF D
<1>13. Cardinality(D \cup {u}) = Cardinality(D) + 1 /\ Cardinality(Busy(t)) = Cardinality(Busy(a)) + 1
  BY <1>9, <1>11, FS_AddElement
<1>14. t.global.total = Size * Cardinality(Counted(t, b \cup {u}))
  <2>1. Size * (Cardinality(D) + 1) = Size * Cardinality(D) + Size
    BY <1>11, Times
  <2>2. total = Size * Cardinality(D) + Size BY <1>10 DEF total
  <2> QED BY <1>5, <1>7, <1>12, <1>13, <2>1, <2>2
<1>15. t.global.loaded = Cardinality(BytesOf(t, Counted(t, b \cup {u})))
  <2>1. Cardinality(BytesOf(t, D \cup {u})) = Cardinality(BytesOf(t, D)) + t.upload[u].loaded
    BY <1>1, <1>7, <1>11, BytesAdded
  <2>2. BytesOf(t, D) = BytesOf(a, D)
    BY <1>8, <1>11 DEF BytesOf
  <2>3. Cardinality(BytesOf(t, D)) \in Nat BY <1>11, BytesFinite
  <2>4. Cardinality(BytesOf(t, D \cup {u})) = Cardinality(BytesOf(t, D))
    BY <1>3, <1>8, <2>1, <2>3
  <2> QED BY <1>5, <1>7, <1>10, <1>12, <2>2, <2>4
<1>16. IsFiniteSet(b \cup {u})
  BY <1>10, FS_AddElement
<1>17. \A v \in InState(t, "new") \cup InState(t, "queued") : t.upload[v].loaded = 0
  <2>1. \A v \in InState(a, "new") \cup InState(a, "queued") : a.upload[v].loaded = 0 /\ v \in Upload
    BY DEF Sound, InState
  <2> QED BY <1>3, <1>8, <1>9, <2>1
<1>18. /\ Busy(t) \subseteq b \cup {u} /\ InState(t, "new") \cap (b \cup {u}) = {}
       /\ b \cup {u} \subseteq Upload
  BY <1>1, <1>9, <1>10
<1>19. t.running = Cardinality(Busy(t))
  BY <1>7, <1>10, <1>13 DEF more
<1>20. Sound(t, b \cup {u})
  BY <1>7, <1>14, <1>15, <1>16, <1>17, <1>18, <1>19 DEF Sound
<1> QED BY <1>7, <1>9, <1>20 DEF t, OneMore

LEMMA SubmitKeeps ==
    ASSUME UploadsInv, NEW u \in Upload, Uploads!Submit(u) PROVE UploadsInv'
<1> DEFINE S == Uploads!S
           a == Uploads!StartsAnew(S)
           t == OneMore(a, u)
           b == (IF running = 0 THEN {} ELSE batch) \cup {u}
           most == setting.limit
<1>1. /\ setting \in Setting /\ Sound(S, batch) /\ Moded(S) /\ most \in Nat
      /\ setting.sequential \in BOOLEAN
  BY SettingIs DEF UploadsInv
<1>2. /\ S.upload = upload /\ S.slots = slots /\ S.chain = chain /\ S.sending = sending
      /\ S.running = running
  BY DEF Uploads!S
<1>3. upload[u].st = "new" /\ batch' = b
  BY DEF Uploads!Submit
<1>4. \/ ~Uploads!Waits /\ Uploads!Send(t, u)
      \/ Uploads!Waits /\ most > 1 /\ Uploads!Become([t EXCEPT !.slots = Append(@, u)])
      \/ Uploads!Waits /\ ~(most > 1) /\ chain = <<>> /\ Uploads!Send([t EXCEPT !.chain = <<u>>], u)
      \/ Uploads!Waits /\ ~(most > 1) /\ chain # <<>>
         /\ Uploads!Become([t EXCEPT !.chain = Append(@, u)])
  <2>1. \E s \in {t} :
            CASE ~Uploads!Waits -> Uploads!Send(s, u)
              [] Uploads!Waits /\ most > 1 -> Uploads!Become([s EXCEPT !.slots = Append(@, u)])
              [] Uploads!Waits /\ most <= 1 /\ chain = <<>> -> Uploads!Send([s EXCEPT !.chain = <<u>>], u)
              [] OTHER -> Uploads!Become([s EXCEPT !.chain = Append(@, u)])
    BY DEF Uploads!Submit, Uploads!BeforeSend, OneMore
  <2>2. most <= 1 <=> ~(most > 1) BY <1>1
  <2> HIDE DEF t, most
  <2> QED BY <2>1, <2>2
<1> HIDE DEF S
<1>5. /\ Sound(a, IF running = 0 THEN {} ELSE batch)
      /\ a.slots = slots /\ a.chain = chain /\ a.sending = sending /\ a.upload = upload
  BY <1>1, <1>2, StartsSound
<1> HIDE DEF a
<1>6. /\ u \in InState(a, "new") /\ InState(a, "queued") = InState(S, "queued")
      /\ InState(a, "sending") = InState(S, "sending")
  BY <1>2, <1>3, <1>5 DEF InState
<1>7. /\ Sound(t, b) /\ t.slots = slots /\ t.chain = chain /\ t.sending = sending
      /\ InState(t, "queued") = InState(S, "queued") \cup {u}
      /\ InState(t, "sending") = InState(S, "sending")
  BY <1>5, <1>6, OneSubmitted
<1> HIDE DEF t, b
<1>8. t \in Queues /\ slots \in Seq(Upload) /\ chain \in Seq(Upload) /\ sending \in Int
      /\ u \in InState(t, "queued")
  BY <1>7 DEF Sound, Queues
<1>9. SlotMode => /\ chain = <<>> /\ sending = Cardinality(InState(S, "sending"))
                  /\ sending <= most /\ (InState(S, "queued") # {} => sending >= most)
                  /\ InState(S, "queued") \subseteq Members(slots)
  BY <1>1, <1>2 DEF Moded, Slotted
<1>10. ChainMode => /\ slots = <<>>
                    /\ chain = <<>> => InState(S, "queued") = {} /\ InState(S, "sending") = {}
                    /\ chain # <<>> => /\ InState(S, "sending") = {Head(chain)}
                                       /\ InState(S, "queued") \subseteq Behind(chain)
  BY <1>1, <1>2 DEF Moded, Chained
<1>11. Uploads!Waits <=> setting.sequential \/ (0 < most /\ most <= sending)
  BY DEF Uploads!Waits
<1> HIDE DEF most
<1>12. CASE ~Uploads!Waits /\ Uploads!Send(t, u)
  <2>1. ~ChainMode BY <1>11, <1>12 DEF ChainMode
  <2>2. SlotMode => /\ t.chain = <<>> /\ t.sending = Cardinality(InState(t, "sending"))
                    /\ t.sending < setting.limit /\ InState(t, "queued") = {u}
    <3> SUFFICES ASSUME SlotMode
                 PROVE  /\ t.chain = <<>> /\ t.sending = Cardinality(InState(t, "sending"))
                        /\ t.sending < setting.limit /\ InState(t, "queued") = {u}
      OBVIOUS
    <3>1. sending < most /\ ~(sending >= most)
      BY <1>1, <1>8, <1>11, <1>12 DEF SlotMode, most
    <3>2. InState(S, "queued") = {} BY <1>9, <3>1
    <3> QED BY <1>7, <1>9, <3>1, <3>2 DEF most
  <2>3. Keeps(b)
    BY <1>1, <1>7, <1>8, <1>12, <2>1, <2>2, SendKeeps
  <2> QED BY <1>1, <1>3, <2>3, Became
<1>13. CASE Uploads!Waits /\ most > 1 /\ Uploads!Become([t EXCEPT !.slots = Append(@, u)])
  <2> DEFINE n == Append(slots, u)
             x == [t EXCEPT !.slots = Append(@, u)]
  <2>1. n \in Seq(Upload) /\ InState(t, "queued") \cap InState(S, "queued") = InState(S, "queued")
    BY <1>7, <1>8
  <2>2. x = [t EXCEPT !.slots = n] /\ Uploads!Become(x) BY <1>7, <1>13
  <2>3. \A v \in Members(slots) \cup {u} : v \in Members(n)
    <3>1. /\ Len(n) = Len(slots) + 1 /\ n[Len(slots) + 1] = u /\ Len(slots) \in Nat
          /\ \A j \in 1 .. Len(slots) : n[j] = slots[j]
      BY <1>8
    <3>2. ASSUME NEW j \in 1 .. Len(slots) PROVE slots[j] \in Members(n)
      BY <3>1 DEF Members
    <3>3. u \in Members(n)
      BY <3>1 DEF Members
    <3> QED BY <3>2, <3>3 DEF Members
  <2> HIDE DEF n, x
  <2>4. /\ x \in Queues /\ x.upload = t.upload /\ x.running = t.running /\ x.global = t.global
        /\ x.slots = n /\ x.chain = chain /\ x.sending = sending
    BY <1>7, <1>8, <2>1, <2>2 DEF Queues
  <2>5. Sound(x, b) /\ \A state : InState(x, state) = InState(t, state)
    BY <1>7, <2>4, Requeued
  <2>6. ~ChainMode BY <1>13 DEF ChainMode, most
  <2>7. SlotMode => Slotted(x, most)
    <3> SUFFICES ASSUME SlotMode PROVE Slotted(x, most)
      OBVIOUS
    <3>1. sending >= most /\ sending <= most
      BY <1>1, <1>8, <1>9, <1>11, <1>13 DEF SlotMode
    <3>2. InState(x, "queued") \subseteq Members(n)
      BY <1>7, <1>9, <2>3, <2>5
    <3> QED BY <1>7, <1>9, <2>4, <2>5, <3>1, <3>2 DEF Slotted, most
  <2>8. Keeps(b)
    BY <2>2, <2>5, <2>6, <2>7 DEF Keeps, Moded, most
  <2> QED BY <1>1, <1>3, <2>8, Became
<1>14. CASE Uploads!Waits /\ ~(most > 1) /\ chain = <<>> /\ Uploads!Send([t EXCEPT !.chain = <<u>>], u)
  <2> DEFINE x == [t EXCEPT !.chain = <<u>>]
  <2>1. <<u>> \in Seq(Upload) OBVIOUS
  <2>2. Uploads!Send(x, u) BY <1>14
  <2>3. /\ x \in Queues /\ x.upload = t.upload /\ x.running = t.running /\ x.global = t.global
        /\ x.slots = slots /\ x.chain = <<u>> /\ x.sending = sending
    BY <1>7, <1>8, <2>1 DEF Queues
  <2> HIDE DEF x
  <2>4. Sound(x, b) /\ \A state : InState(x, state) = InState(t, state)
    BY <1>7, <2>3, Requeued
  <2>5. ~SlotMode BY <1>14 DEF SlotMode, most
  <2>6. ChainMode => /\ x.slots = <<>> /\ x.chain = <<u>>
                     /\ InState(x, "sending") = {} /\ InState(x, "queued") = {u}
    BY <1>7, <1>10, <1>14, <2>3, <2>4
  <2>7. u \in InState(x, "queued") BY <1>8, <2>4
  <2>8. Keeps(b)
    BY <1>1, <2>2, <2>4, <2>5, <2>6, <2>7, SendKeeps
  <2> QED BY <1>1, <1>3, <2>8, Became
<1>15. CASE Uploads!Waits /\ ~(most > 1) /\ chain # <<>>
            /\ Uploads!Become([t EXCEPT !.chain = Append(@, u)])
  <2> DEFINE n == Append(chain, u)
             x == [t EXCEPT !.chain = Append(@, u)]
  <2>1. n \in Seq(Upload) BY <1>8
  <2>2. x = [t EXCEPT !.chain = n] /\ Uploads!Become(x) BY <1>7, <1>15
  <2>3. n # <<>> /\ Head(n) = Head(chain) /\ \A v \in Behind(chain) \cup {u} : v \in Behind(n)
    <3>1. /\ Len(n) = Len(chain) + 1 /\ n[Len(chain) + 1] = u /\ Len(chain) \in Nat
          /\ \A j \in 1 .. Len(chain) : n[j] = chain[j]
          /\ Len(chain) > 0
      BY <1>8, <1>15
    <3>2. ASSUME NEW j \in 2 .. Len(chain) PROVE chain[j] \in Behind(n)
      BY <3>1 DEF Behind
    <3>3. u \in Behind(n)
      <4>1. Len(chain) + 1 \in 2 .. Len(n) BY <3>1
      <4> QED BY <3>1, <4>1 DEF Behind
    <3>4. n # <<>> /\ Head(n) = Head(chain)
      BY <1>8, <1>15, <2>1, <3>1
    <3> QED BY <3>2, <3>3, <3>4 DEF Behind
  <2> HIDE DEF n, x
  <2>4. /\ x \in Queues /\ x.upload = t.upload /\ x.running = t.running /\ x.global = t.global
        /\ x.slots = slots /\ x.chain = n /\ x.sending = sending
    BY <1>7, <1>8, <2>1, <2>2 DEF Queues
  <2>5. Sound(x, b) /\ \A state : InState(x, state) = InState(t, state)
    BY <1>7, <2>4, Requeued
  <2>6. ~SlotMode BY <1>15 DEF SlotMode, most
  <2>7. ChainMode => Chained(x)
    <3> SUFFICES ASSUME ChainMode PROVE Chained(x)
      OBVIOUS
    <3>1. InState(S, "sending") = {Head(chain)} /\ InState(S, "queued") \subseteq Behind(chain)
          /\ slots = <<>>
      BY <1>10, <1>15
    <3>2. InState(x, "queued") \subseteq Behind(n)
      BY <1>7, <2>3, <2>5, <3>1
    <3>3. InState(x, "sending") = {Head(n)} BY <1>7, <2>3, <2>5, <3>1
    <3> QED BY <2>3, <2>4, <3>1, <3>2, <3>3 DEF Chained
  <2>8. Keeps(b)
    BY <2>2, <2>5, <2>6, <2>7 DEF Keeps, Moded
  <2> QED BY <1>1, <1>3, <2>8, Became
<1> QED BY <1>4, <1>12, <1>13, <1>14, <1>15

\* What is true of the widget when one that is sent ends, now or after a last chunk.
LEMMA SentEnds ==
    ASSUME NEW s, NEW b, Sound(s, b), Moded(s), NEW u \in InState(s, "sending"),
           NEW how \in {"failed", "done"}, setting \in Setting, Uploads!Ended(s, u, how)
    PROVE  Keeps(b)
<1>1. u \in Upload /\ u \in Busy(s) /\ u \notin InState(s, "queued") /\ s \in Queues
      /\ s.sending \in Int /\ setting.limit \in Nat
  BY SettingIs DEF Sound, Busy, InState, Queues
<1> DEFINE n == Cardinality(InState(s, "sending") \ {u})
<1>2. Cardinality(InState(s, "sending")) = n + 1 /\ n \in Nat
  <2>1. InState(s, "sending") \in SUBSET b /\ IsFiniteSet(b)
    BY DEF Sound, Busy
  <2>2. IsFiniteSet(InState(s, "sending")) /\ IsFiniteSet(InState(s, "sending") \ {u})
    BY <2>1, FS_Subset, FS_RemoveElement
  <2>3. Cardinality(InState(s, "sending")) \in Nat /\ n \in Nat
    BY <2>2, FS_CardinalityType
  <2>4. n = Cardinality(InState(s, "sending")) - 1
    BY <2>2, FS_RemoveElement
  <2> HIDE DEF n
  <2> QED BY <2>3, <2>4
<1>3. SlotMode => /\ s.chain = <<>> /\ s.sending = n + 1 /\ n <= setting.limit
                  /\ InState(s, "queued") \ {u} # {} => n >= setting.limit - 1
                  /\ InState(s, "queued") \ {u} \subseteq Members(s.slots)
  <2> SUFFICES ASSUME SlotMode
               PROVE  /\ s.chain = <<>> /\ s.sending = n + 1 /\ n <= setting.limit
                      /\ InState(s, "queued") \ {u} # {} => n >= setting.limit - 1
                      /\ InState(s, "queued") \ {u} \subseteq Members(s.slots)
    OBVIOUS
  <2>1. Slotted(s, setting.limit) BY DEF Moded
  <2>2. s.sending = n + 1 /\ s.sending <= setting.limit
        /\ (InState(s, "queued") # {} => s.sending >= setting.limit)
    BY <1>2, <2>1 DEF Slotted
  <2>3. InState(s, "queued") \ {u} = InState(s, "queued") BY <1>1
  <2> HIDE DEF n
  <2>4. n <= setting.limit /\ (InState(s, "queued") # {} => n >= setting.limit - 1)
    BY <1>1, <1>2, <2>2
  <2> QED BY <2>1, <2>2, <2>3, <2>4 DEF Slotted
<1>4. ChainMode => /\ s.slots = <<>> /\ s.chain # <<>>
                   /\ InState(s, "queued") \ {u} \subseteq Behind(s.chain)
                   /\ InState(s, "sending") \ {u} =
                          IF Head(s.chain) = u THEN {} ELSE {Head(s.chain)}
  BY DEF Moded, Chained
<1> QED BY <1>1, <1>3, <1>4, EndedKeeps

LEMMA AbortKeeps ==
    ASSUME UploadsInv, NEW u \in Upload, Uploads!Abort(u) PROVE UploadsInv'
<1> DEFINE S == Uploads!S
           more == S.sending + 1
           s == [S EXCEPT !.sending = more]
           n == Cardinality(InState(S, "sending"))
<1>1. /\ setting \in Setting /\ Sound(S, batch) /\ Moded(S) /\ setting.limit \in Nat
  BY SettingIs DEF UploadsInv
<1>2. S.upload = upload
  BY DEF Uploads!S
<1>3. upload[u].st = "queued" /\ Uploads!Ended(s, u, "failed") /\ batch' = batch
  BY DEF Uploads!Abort, Uploads!Aborts
<1> HIDE DEF S
<1>4. u \in InState(S, "queued") /\ u \notin InState(S, "sending") /\ S \in Queues
      /\ S.sending \in Int /\ more \in Int
  BY <1>1, <1>2, <1>3 DEF InState, Sound, Queues
<1> HIDE DEF more
<1>5. /\ s \in Queues /\ s.upload = S.upload /\ s.running = S.running /\ s.global = S.global
      /\ s.slots = S.slots /\ s.chain = S.chain /\ s.sending = more
  BY <1>4 DEF Queues
<1> HIDE DEF s
<1>6. Sound(s, batch) /\ \A state : InState(s, state) = InState(S, state)
  BY <1>1, <1>5, Requeued
<1>7. u \in Busy(s) /\ InState(s, "sending") \ {u} = InState(S, "sending")
  BY <1>4, <1>6 DEF Busy
<1> DEFINE m == Cardinality(InState(s, "sending") \ {u})
<1>8. m = n BY <1>7
<1>9. SlotMode => /\ s.chain = <<>> /\ s.sending = m + 1 /\ m <= setting.limit
                  /\ InState(s, "queued") \ {u} # {} => m >= setting.limit - 1
                  /\ InState(s, "queued") \ {u} \subseteq Members(s.slots)
  <2> SUFFICES ASSUME SlotMode
               PROVE  /\ s.chain = <<>> /\ s.sending = m + 1 /\ m <= setting.limit
                      /\ InState(s, "queued") \ {u} # {} => m >= setting.limit - 1
                      /\ InState(s, "queued") \ {u} \subseteq Members(s.slots)
    OBVIOUS
  <2>1. /\ S.chain = <<>> /\ S.sending = n /\ S.sending <= setting.limit
        /\ S.sending >= setting.limit /\ InState(S, "queued") \subseteq Members(S.slots)
    BY <1>1, <1>4 DEF Moded, Slotted
  <2>2. InState(s, "queued") \ {u} \subseteq Members(s.slots) /\ s.chain = <<>>
    BY <1>5, <1>6, <2>1
  <2> HIDE DEF m, n
  <2>3. s.sending = m + 1 /\ m <= setting.limit /\ m >= setting.limit - 1
    BY <1>1, <1>4, <1>5, <1>8, <2>1 DEF more
  <2> QED BY <2>2, <2>3
<1>10. ChainMode => /\ s.slots = <<>> /\ s.chain # <<>>
                    /\ InState(s, "queued") \ {u} \subseteq Behind(s.chain)
                    /\ InState(s, "sending") \ {u} =
                           IF Head(s.chain) = u THEN {} ELSE {Head(s.chain)}
  <2> SUFFICES ASSUME ChainMode
               PROVE  /\ s.slots = <<>> /\ s.chain # <<>>
                      /\ InState(s, "queued") \ {u} \subseteq Behind(s.chain)
                      /\ InState(s, "sending") \ {u} =
                             IF Head(s.chain) = u THEN {} ELSE {Head(s.chain)}
    OBVIOUS
  <2>1. /\ S.slots = <<>> /\ S.chain # <<>> /\ InState(S, "sending") = {Head(S.chain)}
        /\ InState(S, "queued") \subseteq Behind(S.chain)
    BY <1>1, <1>4 DEF Moded, Chained
  <2>2. Head(S.chain) # u BY <1>4, <2>1
  <2> QED BY <1>5, <1>6, <1>7, <2>1, <2>2
<1>11. "failed" \in {"failed", "done"} OBVIOUS
<1>12. Keeps(batch)
  <2> HIDE DEF m, n
  <2> QED BY <1>1, <1>3, <1>6, <1>7, <1>9, <1>10, <1>11, EndedKeeps DEF m
<1> QED BY <1>1, <1>3, <1>12, Became

LEMMA UploadsNext == ASSUME UploadsInv, Uploads!Next PROVE UploadsInv'
<1> DEFINE S == Uploads!S
<1>1. /\ setting \in Setting /\ Sound(S, batch) /\ Moded(S)
  BY DEF UploadsInv
<1>2. S.upload = upload
  BY DEF Uploads!S
<1>3. PICK u \in Upload : Uploads!Submit(u) \/ Uploads!Uploading(u) \/ Uploads!ChunkDone(u)
                          \/ Uploads!Fails(u) \/ Uploads!Abort(u)
  BY DEF Uploads!Next
<1>4. CASE Uploads!Submit(u)
  BY <1>4, SubmitKeeps
<1>5. CASE Uploads!Abort(u)
  BY <1>5, AbortKeeps
<1>6. CASE Uploads!Fails(u)
  <2>1. upload[u].st = "sending" /\ Uploads!Ended(S, u, "failed") /\ batch' = batch
    BY <1>6 DEF Uploads!Fails
  <2> HIDE DEF S
  <2>2. u \in InState(S, "sending") BY <1>2, <2>1 DEF InState
  <2>3. "failed" \in {"failed", "done"} OBVIOUS
  <2>4. Keeps(batch) BY <1>1, <2>1, <2>2, <2>3, SentEnds
  <2> QED BY <1>1, <2>1, <2>4, Became
\* The server keeps no more than is left of the file.
<1>7. upload[u].st = "sending" =>
          /\ u \in InState(S, "sending") /\ upload[u].ub \in 0 .. Size /\ Uploads!Room(u) \in Int
          /\ upload[u].ub + Uploads!Room(u) \in 0 .. Size
  <2>1. upload[u] \in Put BY <1>1, <1>2 DEF Sound, Queues
  <2>2. upload[u].ub \in 0 .. Size BY <2>1 DEF Put
  <2>3. Uploads!Room(u) \in Int /\ upload[u].ub + Uploads!Room(u) \in 0 .. Size
    BY <2>2, SizeIs DEF Uploads!Room
  <2> HIDE DEF S
  <2> QED BY <1>2, <2>2, <2>3 DEF InState
<1>8. CASE Uploads!Uploading(u)
  <2>1. PICK bytes \in 0 .. Uploads!Room(u) :
            Uploads!Become(Uploads!Progress(S, u, upload[u].ub + bytes))
    BY <1>8 DEF Uploads!Uploading
  <2>2. upload[u].st = "sending" /\ batch' = batch
    BY <1>8 DEF Uploads!Uploading
  <2> DEFINE n == upload[u].ub + bytes
             x == Uploads!Progress(S, u, n)
  <2>3. n \in 0 .. Size /\ u \in InState(S, "sending")
    <3> DEFINE room == Uploads!Room(u)
               ub == upload[u].ub
    <3>1. ub \in 0 .. Size /\ room \in Int /\ ub + room \in 0 .. Size /\ bytes \in 0 .. room
      BY <1>7, <2>2
    <3> HIDE DEF room, ub
    <3>2. ub + bytes \in 0 .. Size BY <3>1, SizeIs
    <3> QED BY <1>7, <2>2, <3>2 DEF ub
  <2> HIDE DEF S, n
  <2>4. Sound(x, batch) /\ Alike(S, x) BY <1>1, <2>3, Progressed
  <2>5. Moded(x) BY <1>1, <2>4, AlikeModed
  <2>6. Uploads!Become(x) BY <2>1 DEF n
  <2>7. Keeps(batch) BY <2>4, <2>5, <2>6 DEF Keeps
  <2> QED BY <1>1, <2>2, <2>7, Became
<1>9. CASE Uploads!ChunkDone(u)
  <2> DEFINE full == upload[u].ub + Uploads!Room(u)
             x == Uploads!Progress(S, u, full)
  <2>1. upload[u].st = "sending" /\ batch' = batch
    BY <1>9 DEF Uploads!ChunkDone
  <2>2. PICK ub \in upload[u].ub + 1 .. full :
            LET s == [x EXCEPT !.upload[u].ub = ub]
            IN  (ub < Size /\ Uploads!Become(s)) \/ (ub >= Size /\ Uploads!Ended(s, u, "done"))
    BY <1>9 DEF Uploads!ChunkDone
  <2>3. full \in 0 .. Size /\ u \in InState(S, "sending") /\ ub \in 0 .. Size
    BY <1>7, <2>1, <2>2, SizeIs
  <2> DEFINE s == [x EXCEPT !.upload[u].ub = ub]
  <2> HIDE DEF S, full, x
  <2>4. Sound(x, batch) /\ Alike(S, x) BY <1>1, <2>3, Progressed DEF x
  <2>5. u \in InState(x, "sending") BY <2>3, <2>4 DEF Alike
  <2>6. Sound(s, batch) /\ Alike(x, s) BY <2>3, <2>4, <2>5, Acknowledged
  <2>7. Uploads!Become(s) \/ Uploads!Ended(s, u, "done") BY <2>2
  <2> HIDE DEF s
  <2>8. Moded(x) /\ Moded(s) BY <1>1, <2>4, <2>6, AlikeModed
  <2>9. CASE Uploads!Become(s)
    <3>1. Keeps(batch) BY <2>6, <2>8, <2>9 DEF Keeps
    <3> QED BY <1>1, <2>1, <3>1, Became
  <2>10. CASE Uploads!Ended(s, u, "done")
    <3>1. u \in InState(s, "sending") BY <2>5, <2>6 DEF Alike
    <3>2. "done" \in {"failed", "done"} OBVIOUS
    <3>3. Keeps(batch) BY <1>1, <2>6, <2>8, <2>10, <3>1, <3>2, SentEnds
    <3> QED BY <1>1, <2>1, <3>3, Became
  <2> QED BY <2>7, <2>9, <2>10
<1> QED BY <1>3, <1>4, <1>5, <1>6, <1>8, <1>9

\* The invariant is what the properties say, of each way to limit the uploads.
LEMMA UploadsRight == UploadsInv => UploadsCounted
<1> SUFFICES ASSUME UploadsInv PROVE UploadsCounted
  OBVIOUS
<1> DEFINE S == Uploads!S
           most == setting.limit
<1>1. /\ Sound(S, batch) /\ Moded(S) /\ most \in Nat /\ setting.sequential \in BOOLEAN
  BY SettingIs DEF UploadsInv
<1>2. S.upload = upload /\ S.running = running /\ S.global = global
  BY DEF Uploads!S
<1> HIDE DEF S
<1>3. \A state : Uploads!In(state) = InState(S, state)
  BY <1>2 DEF Uploads!In, InState
<1>4. Uploads!Throttled
  <2> DEFINE allowed == IF setting.sequential THEN 1 ELSE most
             n == Cardinality(InState(S, "sending"))
  <2> SUFFICES ASSUME setting.sequential # (most > 1)
               PROVE  n <= allowed /\ (InState(S, "queued") # {} => n = allowed)
    BY <1>3, UploadsCount DEF Uploads!Throttled
  <2>1. CASE ~setting.sequential
    <3>1. Slotted(S, most) BY <1>1, <2>1 DEF Moded, SlotMode
    <3>2. n <= most /\ (InState(S, "queued") # {} => n >= most)
      BY <3>1 DEF Slotted
    <3>3. n \in Int BY <1>1, <3>1 DEF Slotted, Sound, Queues
    <3> HIDE DEF n
    <3> QED BY <1>1, <2>1, <3>2, <3>3
  <2>2. CASE setting.sequential
    <3>1. Chained(S) BY <1>1, <2>2 DEF Moded, ChainMode
    <3>2. Cardinality({}) = 0 BY FS_EmptySet
    <3>3. Cardinality({Head(S.chain)}) = 1 BY FS_Singleton
    <3>4. CASE S.chain = <<>>
      <4>1. n = 0 /\ InState(S, "queued") = {} BY <3>1, <3>2, <3>4 DEF Chained
      <4> HIDE DEF n
      <4> QED BY <2>2, <4>1
    <3>5. CASE S.chain # <<>>
      <4>1. n = 1 BY <3>1, <3>3, <3>5 DEF Chained
      <4> HIDE DEF n
      <4> QED BY <2>2, <4>1
    <3> QED BY <3>4, <3>5
  <2> QED BY <1>1, <2>1, <2>2
<1>5. Uploads!ProgressAdds
  <2>1. /\ global.total = Size * Cardinality(Counted(S, batch))
        /\ global.loaded = Cardinality(BytesOf(S, Counted(S, batch)))
    BY <1>1, <1>2 DEF Sound
  <2>2. Counted(S, batch) = {u \in batch : upload[u].st # "failed"}
    BY <1>2 DEF Counted
  <2>3. \A us : Uploads!Bytes(us) = BytesOf(S, us)
    BY <1>2 DEF Uploads!Bytes, BytesOf
  <2> QED BY <2>1, <2>2, <2>3, UploadsCount DEF Uploads!ProgressAdds
<1> QED BY <1>4, <1>5 DEF UploadsCounted

(* As many uploads are sent as the options allow while others wait, and    *)
(* the global progress is that of the uploads since the widget was idle,   *)
(* whatever number of them is submitted, aborted, refused or fails         *)
(* (_onSend, _getXHRPromise, _onProgress of jquery.fileupload.js).         *)
THEOREM UploadsAlwaysCounted == Spec => []UploadsCounted
<1>1. Init => UploadsInv
  BY UploadsInit DEF Init
<1>2. UploadsInv /\ [Next]_vars => UploadsInv'
  <2>1. [Next]_vars => Uploads!Next \/ UNCHANGED uploadsVars
    BY Zenon DEF Next, vars
  <2>2. ASSUME UploadsInv, UNCHANGED uploadsVars PROVE UploadsInv'
    <3>1. setting' = setting /\ Uploads!S' = Uploads!S /\ batch' = batch
      BY <2>2 DEF uploadsVars, Uploads!S
    <3>2. Moded(Uploads!S)' <=> Moded(Uploads!S)
      BY <3>1 DEF Moded, SlotMode, ChainMode, Slotted, Chained, InState
    <3> QED BY <2>2, <3>1, <3>2 DEF UploadsInv
  <2> QED BY <2>1, <2>2, UploadsNext
<1>3. UploadsInv => UploadsCounted
  BY UploadsRight
<1> QED BY <1>1, <1>2, <1>3, PTL DEF Spec

-----------------------------------------------------------------------------
(* The loader: what is reached from a set, step by step.                   *)

\* A set of numbers that holds 0 and, with a number, the next, holds all up to n.
LEMMA UpTo ==
    ASSUME NEW n \in Nat, NEW T, 0 \in T, \A k \in 0 .. n - 1 : k \in T => k + 1 \in T
    PROVE  \A k \in 0 .. n : k \in T
<1> DEFINE bad == {k \in 0 .. n : k \notin T}
<1> SUFFICES ASSUME bad # {} PROVE FALSE
  OBVIOUS
<1>1. bad \in SUBSET Nat
  OBVIOUS
<1>2. PICK k \in bad : \A j \in bad : k <= j
  BY <1>1, FirstOf
<1>3. k \in Nat /\ k # 0 /\ k - 1 \in 0 .. n - 1 /\ k - 1 + 1 = k /\ ~(k <= k - 1)
  OBVIOUS
<1>4. k - 1 \in T
  BY <1>2, <1>3
<1> QED BY <1>3, <1>4

LEMMA NodesFinite == IsFiniteSet(Loader!Node) /\ Cardinality(Loader!Node) \in Nat
<1>1. IsFiniteSet(Mod) /\ IsFiniteSet(Req) /\ Shim \subseteq Mod
  BY AssumptionOfLoader DEF Loader!LoaderAssumption, Loader!IsFiniteSet, IsFiniteSet
<1>2. IsFiniteSet({Loader!Loads(m) : m \in Shim})
  <2> DEFINE calls == {Loader!Loads(m) : m \in Shim}
             f == [m \in Shim |-> Loader!Loads(m)]
  <2>1. f \in Surjection(Shim, calls)
    BY DEF Surjection
  <2>2. IsFiniteSet(Shim)
    BY <1>1, FS_Subset
  <2> HIDE DEF f, calls
  <2>3. IsFiniteSet(calls)
    BY <2>1, <2>2, FS_Surjection
  <2> QED BY <2>3 DEF calls
<1> QED BY <1>1, <1>2, FS_Union, FS_CardinalityType DEF Loader!Node, Loader!Caller

\* The steps of Limit, which it counts down.
Many == Cardinality(Loader!Node)
GrownSteps(grow) ==
    CHOOSE f : f = [k \in 0 .. Many |-> [X \in SUBSET Loader!Node |->
        IF k = 0 \/ grow[X] \subseteq X THEN X ELSE f[k - 1][X \cup grow[X]]]]

LEMMA GrownIs ==
    \A grow : GrownSteps(grow) = [k \in 0 .. Many |-> [X \in SUBSET Loader!Node |->
        IF k = 0 \/ grow[X] \subseteq X THEN X ELSE GrownSteps(grow)[k - 1][X \cup grow[X]]]]
<1> SUFFICES ASSUME NEW grow
             PROVE  GrownSteps(grow) = [k \in 0 .. Many |-> [X \in SUBSET Loader!Node |->
                 IF k = 0 \/ grow[X] \subseteq X THEN X ELSE GrownSteps(grow)[k - 1][X \cup grow[X]]]]
  OBVIOUS
<1> DEFINE N == Many
           U == Loader!Node
<1>0. N \in Nat
  BY NodesFinite DEF Many
<1> HIDE DEF N, U
<1> DEFINE At(f, k) == [X \in SUBSET U |-> IF k = 0 \/ grow[X] \subseteq X THEN X ELSE f[k - 1][X \cup grow[X]]]
           Is(f, m) == f = [k \in 0 .. m |-> At(f, k)]
           good == {m \in Nat : \E f : Is(f, m)}
<1>1. 0 \in good
  <2> DEFINE f == [k \in 0 .. 0 |-> [X \in SUBSET U |-> X]]
  <2>1. \A k \in 0 .. 0 : At(f, k) = [X \in SUBSET U |-> X]
    OBVIOUS
  <2>2. Is(f, 0)
    BY <2>1
  <2> HIDE DEF Is, f
  <2> QED BY <2>2
<1>2. ASSUME NEW j \in Nat, j \in good PROVE j + 1 \in good
  <2>1. PICK f : Is(f, j)
    BY <1>2
  <2> DEFINE last == At(f, j + 1)
             g == [k \in 0 .. j + 1 |-> IF k = j + 1 THEN last ELSE f[k]]
  <2>2. \A k \in 0 .. j + 1 : g[k] = At(g, k)
    <3>1. \A k \in 0 .. j : f[k] = At(f, k)
      <4> HIDE DEF At
      <4> QED BY <2>1
    <3>2. g[j + 1] = last /\ (\A k \in 0 .. j : g[k] = f[k])
      <4> HIDE DEF last
      <4> QED OBVIOUS
    <3> HIDE DEF g
    <3>3. \A k \in 0 .. j + 1 : At(g, k) = At(f, k)
      <4> SUFFICES ASSUME NEW k \in 0 .. j + 1 PROVE At(g, k) = At(f, k)
        OBVIOUS
      <4>1. k # 0 => g[k - 1] = f[k - 1]
        <5>1. k # 0 => k - 1 \in 0 .. j
          OBVIOUS
        <5> QED BY <3>2, <5>1
      <4> QED BY <4>1
    <3> HIDE DEF At
    <3>4. \A k \in 0 .. j + 1 : k = j + 1 \/ k \in 0 .. j
      OBVIOUS
    <3> QED BY <3>1, <3>2, <3>3, <3>4 DEF last
  <2>3. Is(g, j + 1)
    <3> HIDE DEF last, At
    <3>1. g = [k \in 0 .. j + 1 |-> g[k]]
      OBVIOUS
    <3> HIDE DEF g
    <3> QED BY <2>2, <3>1, Zenon
  <2>4. j + 1 \in Nat
    OBVIOUS
  <2> HIDE DEF Is
  <2> QED BY <2>3, <2>4, Zenon
<1>3. N \in good
  <2>1. \A k \in 0 .. N - 1 : k \in Nat
    BY <1>0
  <2>2. N \in 0 .. N
    BY <1>0
  <2> HIDE DEF good
  <2>3. \A k \in 0 .. N : k \in good
    BY <1>0, <1>1, <1>2, <2>1, UpTo
  <2> QED BY <2>2, <2>3
<1> HIDE DEF good
<1>4. \E f : Is(f, N)
  BY <1>3, Zenon DEF good
<1>5. \E f : f = [k \in 0 .. N |->
               [X \in SUBSET U |-> IF k = 0 \/ grow[X] \subseteq X THEN X ELSE f[k - 1][X \cup grow[X]]]]
  BY <1>4, Zenon
<1> QED BY <1>5, Zenon DEF GrownSteps, N, U

\* What Limit reaches holds what it was given, nothing is to be added to it, and
\* whatever each step keeps is true of it.
LEMMA LimitIs ==
    ASSUME NEW grow \in [SUBSET Loader!Node -> SUBSET Loader!Node], NEW X \in SUBSET Loader!Node
    PROVE  LET L == Loader!Limit(X, grow) IN
           /\ L \in SUBSET Loader!Node /\ X \subseteq L /\ grow[L] \subseteq L
           /\ \A C : X \in C /\ (\A Y \in SUBSET Loader!Node : Y \in C => Y \cup grow[Y] \in C) => L \in C
<1> DEFINE N == Many
           U == Loader!Node
           F == GrownSteps(grow)
<1>1. N \in Nat /\ IsFiniteSet(U) /\ N = Cardinality(U)
  BY NodesFinite DEF Many
<1>2. F = [k \in 0 .. N |->
               [Y \in SUBSET U |-> IF k = 0 \/ grow[Y] \subseteq Y THEN Y ELSE F[k - 1][Y \cup grow[Y]]]]
  BY GrownIs, Zenon
<1>3. Loader!Limit(X, grow) = F[N][X]
  <2>1. Loader!Cardinality(Loader!Node) = N
    BY DEF Loader!Cardinality, Cardinality, Many
  <2> QED BY <2>1, Zenon DEF Loader!Limit, GrownSteps
<1> HIDE DEF F, N
<1>4. \A k \in 0 .. N, Y \in SUBSET U :
          F[k][Y] = IF k = 0 \/ grow[Y] \subseteq Y THEN Y ELSE F[k - 1][Y \cup grow[Y]]
  <2> SUFFICES ASSUME NEW k \in 0 .. N, NEW Y \in SUBSET U
               PROVE  F[k][Y] = IF k = 0 \/ grow[Y] \subseteq Y THEN Y ELSE F[k - 1][Y \cup grow[Y]]
    BY Zenon
  <2>1. F[k] = [Z \in SUBSET U |-> IF k = 0 \/ grow[Z] \subseteq Z THEN Z ELSE F[k - 1][Z \cup grow[Z]]]
    BY <1>2, Zenon
  <2> QED BY <2>1, Zenon
<1>5. \A Y \in SUBSET U : Y \cup grow[Y] \in SUBSET U /\ (Y # U => Cardinality(Y) < N)
      /\ IsFiniteSet(Y) /\ Cardinality(Y) \in Nat
  <2> SUFFICES ASSUME NEW Y \in SUBSET U
               PROVE  Y \cup grow[Y] \in SUBSET U /\ (Y # U => Cardinality(Y) < N)
                      /\ IsFiniteSet(Y) /\ Cardinality(Y) \in Nat
    OBVIOUS
  <2>1. IsFiniteSet(Y) /\ Cardinality(Y) <= N /\ (N = Cardinality(Y) => Y = U)
    BY <1>1, FS_Subset
  <2>2. Cardinality(Y) \in Nat
    BY <2>1, FS_CardinalityType
  <2> QED BY <1>1, <2>1, <2>2
<1>6. \A Y \in SUBSET U : ~(grow[Y] \subseteq Y) => Cardinality(Y) < Cardinality(Y \cup grow[Y])
  <2> SUFFICES ASSUME NEW Y \in SUBSET U, ~(grow[Y] \subseteq Y) PROVE Cardinality(Y) < Cardinality(Y \cup grow[Y])
    OBVIOUS
  <2> DEFINE Z == Y \cup grow[Y]
  <2>1. Y \subseteq Z /\ Y # Z
    OBVIOUS
  <2>2. IsFiniteSet(Z) /\ Cardinality(Z) \in Nat /\ Cardinality(Y) \in Nat
    BY <1>5
  <2> HIDE DEF Z
  <2>3. Cardinality(Y) <= Cardinality(Z) /\ (Cardinality(Z) = Cardinality(Y) => Y = Z)
    BY <2>1, <2>2, FS_Subset
  <2> QED BY <2>1, <2>2, <2>3 DEF Z
<1> DEFINE Reached(k, Y, L) ==
               /\ L \in SUBSET U /\ Y \subseteq L /\ (N <= Cardinality(Y) + k => grow[L] \subseteq L)
               /\ \A C : Y \in C /\ (\A Z \in SUBSET U : Z \in C => Z \cup grow[Z] \in C) => L \in C
           T == {k \in 0 .. N : \A Y \in SUBSET U : Reached(k, Y, F[k][Y])}
<1>7. 0 \in T
  <2>0. 0 \in 0 .. N
    BY <1>1
  <2> SUFFICES ASSUME NEW Y \in SUBSET U PROVE Reached(0, Y, F[0][Y])
    BY <2>0, Zenon
  <2>1. F[0][Y] = Y
    BY <1>4, <2>0, Zenon
  <2>2. N <= Cardinality(Y) => Y = U
    BY <1>1, <1>5
  <2> QED BY <1>5, <2>1, <2>2
<1>8. ASSUME NEW k \in 0 .. N - 1, k \in T PROVE k + 1 \in T
  <2>0. k + 1 \in 0 .. N /\ k \in 0 .. N /\ k + 1 # 0 /\ k + 1 - 1 = k /\ k \in Nat
    BY <1>1
  <2> SUFFICES ASSUME NEW Y \in SUBSET U PROVE Reached(k + 1, Y, F[k + 1][Y])
    BY <2>0, Zenon
  <2>1. F[k + 1][Y] = IF grow[Y] \subseteq Y THEN Y ELSE F[k][Y \cup grow[Y]]
    <3> DEFINE l == k + 1
    <3>1. l \in 0 .. N /\ l # 0 /\ l - 1 = k
      BY <2>0
    <3> HIDE DEF l
    <3>2. F[l][Y] = IF l = 0 \/ grow[Y] \subseteq Y THEN Y ELSE F[l - 1][Y \cup grow[Y]]
      BY <1>4, <3>1, Zenon
    <3>3. F[l][Y] = IF grow[Y] \subseteq Y THEN Y ELSE F[k][Y \cup grow[Y]]
      BY <3>1, <3>2, Zenon
    <3> QED BY <3>3, Zenon DEF l
  <2>2. CASE grow[Y] \subseteq Y
    <3>1. F[k + 1][Y] = Y
      BY <2>1, <2>2
    <3> QED BY <2>2, <3>1
  <2>3. CASE ~(grow[Y] \subseteq Y)
    <3> DEFINE Z == Y \cup grow[Y]
               L == F[k][Z]
    <3>1. Z \in SUBSET U /\ Y \subseteq Z /\ Cardinality(Y) < Cardinality(Z)
          /\ Cardinality(Y) \in Nat /\ Cardinality(Z) \in Nat
      BY <1>5, <1>6, <2>3
    <3>2. Reached(k, Z, L)
      BY <1>8, <3>1
    <3>3. N <= Cardinality(Y) + (k + 1) => N <= Cardinality(Z) + k
      BY <1>1, <2>0, <3>1
    <3>4. \A C : Y \in C /\ (\A W \in SUBSET U : W \in C => W \cup grow[W] \in C) => Z \in C
      BY Zenon DEF Z
    <3> HIDE DEF Z
    <3>5. F[k + 1][Y] = L
      BY <2>1, <2>3 DEF Z
    <3> HIDE DEF L
    <3>6. L \in SUBSET U /\ Y \subseteq L /\ (N <= Cardinality(Y) + (k + 1) => grow[L] \subseteq L)
      BY <3>1, <3>2, <3>3
    <3>7. \A C : Y \in C /\ (\A W \in SUBSET U : W \in C => W \cup grow[W] \in C) => L \in C
      BY <3>2, <3>4, Zenon
    <3> QED BY <3>5, <3>6, <3>7, Zenon
  <2> QED BY <2>2, <2>3
<1>9. Reached(N, X, F[N][X])
  <2> HIDE DEF T
  <2>1. \A k \in 0 .. N : k \in T
    BY <1>1, <1>7, <1>8, UpTo
  <2>2. N \in 0 .. N
    BY <1>1
  <2> HIDE DEF Reached
  <2> QED BY <2>1, <2>2 DEF T
<1>10. N <= Cardinality(X) + N
  BY <1>1, <1>5
<1> DEFINE L == F[N][X]
<1> HIDE DEF L
<1>11. L \in SUBSET U /\ X \subseteq L /\ grow[L] \subseteq L
       /\ \A C : X \in C /\ (\A Y \in SUBSET U : Y \in C => Y \cup grow[Y] \in C) => L \in C
  BY <1>9, <1>10, Zenon DEF L
<1> QED BY <1>3, <1>11, Zenon DEF L

\* What a module or call depends on.
LEMMA DepsAre ==
    \A n \in Loader!Node : /\ Loader!Deps(n) \in Seq(Mod) /\ Len(Loader!Deps(n)) \in Nat
                           /\ Loader!DepsOf(n) \in SUBSET Mod
                           /\ \A i \in 1 .. Len(Loader!Deps(n)) : Loader!Deps(n)[i] \in Loader!DepsOf(n)
<1> SUFFICES ASSUME NEW n \in Loader!Node
             PROVE  /\ Loader!Deps(n) \in Seq(Mod) /\ Len(Loader!Deps(n)) \in Nat
                    /\ Loader!DepsOf(n) \in SUBSET Mod
                    /\ \A i \in 1 .. Len(Loader!Deps(n)) : Loader!Deps(n)[i] \in Loader!DepsOf(n)
  BY Zenon
<1>1. deps \in [Mod \cup Req -> Seq(Mod)] /\ Shim \subseteq Mod
  BY AssumptionOfLoader DEF Loader!LoaderAssumption
<1>2. Loader!Deps(n) \in Seq(Mod)
  <2>1. CASE n \in Mod \cup Req
    BY <1>1, <2>1 DEF Loader!Deps
  <2>2. CASE n \notin Mod \cup Req
    <3>1. \E m \in Shim : Loader!Loads(m) = n
      BY <2>2 DEF Loader!Node, Loader!Caller
    <3> DEFINE c == CHOOSE m \in Shim : Loader!Loads(m) = n
    <3>2. c \in Shim
      BY <3>1, Zenon
    <3>3. Loader!Deps(n) = deps[c]
      BY <2>2, Zenon DEF Loader!Deps
    <3> HIDE DEF c
    <3> QED BY <1>1, <3>2, <3>3
  <2> QED BY <2>1, <2>2
<1> DEFINE ds == Loader!Deps(n)
<1>3. Loader!DepsOf(n) = {ds[i] : i \in DOMAIN ds}
  BY DEF Loader!DepsOf, Loader!ToSet
<1> HIDE DEF ds
<1>4. ds \in Seq(Mod)
  BY <1>2 DEF ds
<1>5. Len(ds) \in Nat /\ DOMAIN ds = 1 .. Len(ds) /\ \A i \in 1 .. Len(ds) : ds[i] \in Mod
  BY <1>4, ElementOfSeq
<1>6. Loader!DepsOf(n) \in SUBSET Mod /\ \A i \in 1 .. Len(ds) : ds[i] \in Loader!DepsOf(n)
  BY <1>3, <1>5
<1> QED BY <1>4, <1>5, <1>6 DEF ds

LEMMA NodesAre ==
    /\ Mod \subseteq Loader!Node /\ Req \subseteq Loader!Node /\ Loader!Caller \subseteq Loader!Node
    /\ Mod \cap Loader!Caller = {} /\ Shim \subseteq Mod
    /\ \A m \in Shim : Loader!Loads(m) \in Loader!Caller
BY AssumptionOfLoader DEF Loader!LoaderAssumption, Loader!Node, Loader!Caller

\* What is reached from a set along to.
LEMMA ClosureIs ==
    ASSUME NEW to \in [Loader!Node -> SUBSET Loader!Node], NEW X \in SUBSET Loader!Node
    PROVE  LET L == Loader!Closure(X, to) IN
           /\ L \in SUBSET Loader!Node /\ X \subseteq L /\ (\A n \in L : to[n] \subseteq L)
           /\ \A D : X \subseteq D /\ (\A n \in D \cap Loader!Node : to[n] \subseteq D) => L \subseteq D
<1> DEFINE U == Loader!Node
           grow == [Y \in SUBSET U |-> UNION {to[n] : n \in Y}]
           L == Loader!Limit(X, grow)
<1>1. grow \in [SUBSET U -> SUBSET U]
  OBVIOUS
<1>2. Loader!Closure(X, to) = L
  BY Zenon DEF Loader!Closure
<1>3. \A Y \in SUBSET U : grow[Y] = UNION {to[n] : n \in Y}
  BY Zenon
<1> HIDE DEF grow
<1>4. /\ L \in SUBSET U /\ X \subseteq L /\ grow[L] \subseteq L
      /\ \A C : X \in C /\ (\A Y \in SUBSET U : Y \in C => Y \cup grow[Y] \in C) => L \in C
  BY <1>1, LimitIs
<1> HIDE DEF L
<1>5. \A n \in L : to[n] \subseteq L
  BY <1>3, <1>4
<1>6. ASSUME NEW D, X \subseteq D, \A n \in D \cap U : to[n] \subseteq D PROVE L \subseteq D
  <2>1. X \in SUBSET D
    BY <1>6
  <2>2. \A Y \in SUBSET U : Y \in SUBSET D => Y \cup grow[Y] \in SUBSET D
    BY <1>3, <1>6
  <2>3. L \in SUBSET D
    BY <1>4, <2>1, <2>2
  <2> QED BY <2>3
<1> QED BY <1>2, <1>4, <1>5, <1>6

\* What n needs.
LEMMA NeedsIs ==
    ASSUME NEW n \in Loader!Node
    PROVE  /\ Loader!Needs(n) \in SUBSET Loader!Node /\ n \in Loader!Needs(n)
           /\ \A x \in Loader!Needs(n) : Loader!DepsOf(x) \subseteq Loader!Needs(n)
           /\ \A D : n \in D /\ (\A x \in D \cap Loader!Node : Loader!DepsOf(x) \subseteq D)
                     => Loader!Needs(n) \subseteq D
<1> DEFINE to == [x \in Loader!Node |-> Loader!DepsOf(x)]
           L == Loader!Closure({n}, to)
<1>1. to \in [Loader!Node -> SUBSET Loader!Node] /\ {n} \in SUBSET Loader!Node
  BY DepsAre, NodesAre
<1>2. \A x \in Loader!Node : to[x] = Loader!DepsOf(x)
  OBVIOUS
<1>3. Loader!Needs(n) = L
  BY Zenon DEF Loader!Needs
<1> HIDE DEF to
<1>4. /\ L \in SUBSET Loader!Node /\ {n} \subseteq L /\ (\A x \in L : to[x] \subseteq L)
      /\ \A D : {n} \subseteq D /\ (\A x \in D \cap Loader!Node : to[x] \subseteq D) => L \subseteq D
  BY <1>1, ClosureIs
<1> HIDE DEF L
<1>5. \A D : n \in D /\ (\A x \in D \cap Loader!Node : Loader!DepsOf(x) \subseteq D) => L \subseteq D
  <2> SUFFICES ASSUME NEW D, n \in D, \A x \in D \cap Loader!Node : Loader!DepsOf(x) \subseteq D
               PROVE  L \subseteq D
    OBVIOUS
  <2>1. {n} \subseteq D /\ \A x \in D \cap Loader!Node : to[x] \subseteq D
    BY <1>2
  <2> QED BY <1>4, <2>1
<1> QED BY <1>2, <1>3, <1>4, <1>5

LEMMA NeedsMore ==
    ASSUME NEW n \in Loader!Node, NEW x \in Loader!Node, x \in Loader!DepsOf(n)
    PROVE  Loader!Needs(x) \subseteq Loader!Needs(n)
<1>1. x \in Loader!Needs(n) /\ \A y \in Loader!Needs(n) : Loader!DepsOf(y) \subseteq Loader!Needs(n)
  BY NeedsIs
<1> QED BY <1>1, NeedsIs

\* What is needed needs nothing that is not.
LEMMA NeedsOn ==
    ASSUME NEW x \in Loader!Node, NEW n \in Loader!Needs(x), NEW m \in Loader!DepsOf(n)
    PROVE  m \in Loader!Needs(x)
BY NeedsIs

-----------------------------------------------------------------------------
(* The loader: its state.                                                  *)

Load == [ticks : SUBSET Loader!Caller, enabled : SUBSET Loader!Node, inited : SUBSET Loader!Node,
         loaded : SUBSET Loader!Node, broken : [Loader!Node -> SUBSET Mod], errored : SUBSET Mod,
         listens : SUBSET (Loader!Node \X Mod), told : SUBSET Req, fetched : SUBSET Mod, onWire : SUBSET Mod,
         timer : BOOLEAN, checking : BOOLEAN]

\* A script comes before the dependencies of its module are known.
Scripts(s) ==
    /\ s.onWire \subseteq s.fetched /\ s.onWire \cap s.inited = {}
    /\ s.inited \cap Mod \subseteq s.fetched

\* What ran had all it needs, or what is missing needs it.
Complete(X, b) == \A n \in X : Loader!DepsOf(n) \subseteq b[n] \cup X
InCycles(b) == \A n \in Loader!Node : \A m \in b[n] : n \in Loader!Needs(m)
Ran(s) ==
    /\ s.loaded \subseteq s.inited /\ s.loaded \cap s.errored = {}
    /\ Complete(s.loaded, s.broken) /\ InCycles(s.broken)

\* Who listens, and who was told, needs what failed.
Failing(s, n) == Loader!Needs(n) \cap s.errored # {}
Blamed(s) ==
    /\ \A p \in s.listens : p[2] \in Loader!DepsOf(p[1])
    /\ \A r \in s.told : Failing(s, r)

LoadOK(s) == s \in Load /\ Scripts(s) /\ Ran(s) /\ Blamed(s)
LoadInv == LoadOK(Loader!S)

\* Who hears of ms needs one of them.
LEMMA HeardNeed ==
    ASSUME NEW s \in Load, NEW ms \in SUBSET Loader!Node, \A p \in s.listens : p[2] \in Loader!DepsOf(p[1]),
           \A m \in ms : Failing(s, m)
    PROVE  LET heard == Loader!Closure(ms, [x \in Loader!Node |-> {n \in Mod \cup Req : <<n, x>> \in s.listens}])
           IN  heard \in SUBSET Loader!Node /\ \A n \in heard : Failing(s, n)
<1> DEFINE to == [x \in Loader!Node |-> {n \in Mod \cup Req : <<n, x>> \in s.listens}]
           D == {x \in Loader!Node : Failing(s, x)}
           L == Loader!Closure(ms, to)
<1>1. to \in [Loader!Node -> SUBSET Loader!Node]
  BY NodesAre
<1>2. ms \subseteq D
  OBVIOUS
<1>3. \A x \in D \cap Loader!Node : to[x] \subseteq D
  <2> SUFFICES ASSUME NEW x \in D, NEW n \in Mod \cup Req, <<n, x>> \in s.listens PROVE n \in D
    OBVIOUS
  <2>1. x \in Loader!DepsOf(n) /\ n \in Loader!Node /\ x \in Loader!Node
    BY NodesAre
  <2>2. Loader!Needs(x) \subseteq Loader!Needs(n)
    BY <2>1, NeedsMore
  <2> QED BY <2>1, <2>2 DEF Failing
<1> HIDE DEF to, D
<1>4. L \in SUBSET Loader!Node /\ L \subseteq D
  BY <1>1, <1>2, <1>3, ClosureIs
<1> HIDE DEF L
<1>5. \A n \in L : Failing(s, n)
  BY <1>4 DEF D
<1> QED BY <1>4, <1>5 DEF L, to

LEMMA LoadTells ==
    ASSUME NEW s, LoadOK(s), NEW ms \in SUBSET Loader!Node, \A m \in ms : Failing(s, m)
    PROVE  LoadOK(Loader!Tell(s, ms)) /\ Loader!Tell(s, ms).inited = s.inited
<1> DEFINE heard == Loader!Closure(ms, [x \in Loader!Node |-> {n \in Mod \cup Req : <<n, x>> \in s.listens}])
           told_ == s.told \cup (heard \cap Req)
           listens_ == {p \in s.listens : p[2] \notin heard}
           t == [s EXCEPT !.told = told_, !.listens = listens_]
<1>1. s \in Load /\ Scripts(s) /\ Ran(s) /\ Blamed(s)
  BY DEF LoadOK
<1>2. heard \in SUBSET Loader!Node /\ \A n \in heard : Failing(s, n)
  BY <1>1, HeardNeed DEF Blamed
<1>3. Loader!Tell(s, ms) = t
  BY Zenon DEF Loader!Tell
<1> HIDE DEF heard
<1>4. told_ \in SUBSET Req /\ (\A r \in told_ : Failing(s, r))
      /\ listens_ \in SUBSET (Loader!Node \X Mod) /\ listens_ \subseteq s.listens
  BY <1>1, <1>2 DEF Load, Blamed
<1> HIDE DEF told_, listens_
<1>5. /\ t \in Load /\ t.told = told_ /\ t.listens = listens_ /\ t.inited = s.inited /\ t.loaded = s.loaded
      /\ t.broken = s.broken /\ t.errored = s.errored /\ t.fetched = s.fetched /\ t.onWire = s.onWire
  BY <1>1, <1>4 DEF Load
<1> HIDE DEF t
<1>6. Scripts(t) /\ Ran(t)
  BY <1>1, <1>5 DEF Scripts, Ran
<1>7. Blamed(t)
  BY <1>1, <1>4, <1>5 DEF Blamed, Failing
<1> QED BY <1>3, <1>5, <1>6, <1>7 DEF LoadOK

\* ms, which have not come, fail.
LEMMA LoadFails ==
    ASSUME NEW s, LoadOK(s), NEW ms \in SUBSET Mod, ms \cap s.inited = {}
    PROVE  LoadOK(Loader!Fail(s, ms))
<1> DEFINE errored_ == s.errored \cup ms
           t == [s EXCEPT !.errored = errored_]
<1>1. s \in Load /\ Scripts(s) /\ Ran(s) /\ Blamed(s)
  BY DEF LoadOK
<1>2. Loader!Fail(s, ms) = Loader!Tell(t, ms)
  BY Zenon DEF Loader!Fail
<1>3. errored_ \in SUBSET Mod /\ s.errored \subseteq errored_ /\ ms \subseteq errored_ /\ s.loaded \cap errored_ = {}
  BY <1>1 DEF Load, Ran
<1> HIDE DEF errored_
<1>4. /\ t \in Load /\ t.told = s.told /\ t.listens = s.listens /\ t.inited = s.inited /\ t.loaded = s.loaded
      /\ t.broken = s.broken /\ t.errored = errored_ /\ t.fetched = s.fetched /\ t.onWire = s.onWire
  BY <1>1, <1>3 DEF Load
<1> HIDE DEF t
<1>5. Scripts(t) /\ Ran(t)
  BY <1>1, <1>3, <1>4 DEF Scripts, Ran
<1>6. Blamed(t)
  BY <1>1, <1>3, <1>4 DEF Blamed, Failing
<1>7. LoadOK(t)
  BY <1>4, <1>5, <1>6 DEF LoadOK
<1>8. ms \in SUBSET Loader!Node
  BY NodesAre
<1>9. \A m \in ms : Failing(t, m)
  <2> SUFFICES ASSUME NEW m \in ms PROVE Failing(t, m)
    OBVIOUS
  <2>1. m \in Loader!Needs(m)
    BY <1>8, NeedsIs
  <2> QED BY <1>3, <1>4, <2>1 DEF Failing
<1> QED BY <1>2, <1>7, <1>8, <1>9, LoadTells

LEMMA LoadListens ==
    ASSUME NEW s, LoadOK(s), NEW n \in Loader!Node
    PROVE  LoadOK(Loader!Listens(s, n)) /\ Loader!Listens(s, n).inited = s.inited
<1>1. s \in Load /\ Scripts(s) /\ Ran(s) /\ Blamed(s)
  BY DEF LoadOK
<1>2. CASE ~Loader!Hears(s, n)
  BY <1>2 DEF Loader!Listens
<1>3. CASE Loader!Hears(s, n)
  <2> DEFINE listens_ == s.listens \cup {<<n, m>> : m \in Loader!DepsOf(n) \ s.errored}
             t == [s EXCEPT !.listens = listens_]
  <2>1. Loader!Listens(s, n) = IF Loader!DepsOf(n) \cap s.errored = {} THEN t ELSE Loader!Tell(t, {n})
    BY <1>3, Zenon DEF Loader!Listens
  <2>2. /\ listens_ \in SUBSET (Loader!Node \X Mod)
        /\ \A p \in listens_ : p[2] \in Loader!DepsOf(p[1])
    <3>1. Loader!DepsOf(n) \in SUBSET Mod
      BY DepsAre
    <3>2. s.listens \in SUBSET (Loader!Node \X Mod) /\ \A p \in s.listens : p[2] \in Loader!DepsOf(p[1])
      BY <1>1 DEF Load, Blamed
    <3> QED BY <3>1, <3>2
  <2> HIDE DEF listens_
  <2>3. /\ t \in Load /\ t.told = s.told /\ t.listens = listens_ /\ t.inited = s.inited /\ t.loaded = s.loaded
        /\ t.broken = s.broken /\ t.errored = s.errored /\ t.fetched = s.fetched /\ t.onWire = s.onWire
    BY <1>1, <2>2 DEF Load
  <2> HIDE DEF t
  <2>4. LoadOK(t)
    <3>1. Scripts(t) /\ Ran(t)
      BY <1>1, <2>3 DEF Scripts, Ran
    <3>2. Blamed(t)
      BY <1>1, <2>2, <2>3 DEF Blamed, Failing
    <3> QED BY <2>3, <3>1, <3>2 DEF LoadOK
  <2>5. ASSUME Loader!DepsOf(n) \cap s.errored # {}
        PROVE  LoadOK(Loader!Tell(t, {n})) /\ Loader!Tell(t, {n}).inited = t.inited
    <3>1. n \in Loader!Needs(n)
      BY NeedsIs
    <3>2. Loader!DepsOf(n) \subseteq Loader!Needs(n)
      BY <3>1, NeedsIs
    <3>3. Failing(t, n)
      BY <2>3, <2>5, <3>2 DEF Failing
    <3> QED BY <2>4, <3>3, LoadTells
  <2> QED BY <2>1, <2>3, <2>4, <2>5
<1> QED BY <1>2, <1>3

\* Enabling asks only for scripts that have not come.
LEMMA LoadEnables ==
    ASSUME NEW s, LoadOK(s), NEW n \in Loader!Node
    PROVE  LoadOK(Loader!Enable(s, n)) /\ Loader!Enable(s, n).inited = s.inited
<1> DEFINE to == [x \in Loader!Node |-> IF x \in s.inited \cup {n} THEN Loader!DepsOf(x) ELSE {}]
           wanted == Loader!Closure({n}, to)
           new == wanted \ s.enabled
           fetch == {m \in new \cap Mod : m \notin s.inited}
           e_ == s.enabled \cup wanted
           t_ == s.ticks \cup {Loader!Loads(m) : m \in fetch \cap Shim}
           w_ == s.onWire \cup ((fetch \ Shim) \ s.fetched)
           f_ == s.fetched \cup (fetch \ Shim)
           t == [s EXCEPT !.enabled = e_, !.ticks = t_, !.onWire = w_, !.fetched = f_]
<1>1. s \in Load /\ Scripts(s) /\ Ran(s) /\ Blamed(s)
  BY DEF LoadOK
<1>2. wanted \in SUBSET Loader!Node
  <2>1. to \in [Loader!Node -> SUBSET Loader!Node] /\ {n} \in SUBSET Loader!Node
    <3>1. \A x \in Loader!Node : Loader!DepsOf(x) \in SUBSET Loader!Node
      BY DepsAre, NodesAre
    <3> QED BY <3>1
  <2> HIDE DEF to
  <2> QED BY <2>1, ClosureIs
<1>3. Loader!Enable(s, n) = t
  BY Zenon DEF Loader!Enable
<1> HIDE DEF wanted
<1>4. fetch \in SUBSET Mod /\ fetch \cap s.inited = {}
  OBVIOUS
<1> HIDE DEF fetch, new
<1>5. e_ \in SUBSET Loader!Node /\ t_ \in SUBSET Loader!Caller /\ w_ \in SUBSET Mod /\ f_ \in SUBSET Mod
      /\ w_ \subseteq f_ /\ w_ \cap s.inited = {} /\ s.fetched \subseteq f_
  BY <1>1, <1>2, <1>4, NodesAre DEF Load, Scripts
<1> HIDE DEF e_, t_, w_, f_
<1>6. /\ t \in Load /\ t.told = s.told /\ t.listens = s.listens /\ t.inited = s.inited /\ t.loaded = s.loaded
      /\ t.broken = s.broken /\ t.errored = s.errored /\ t.fetched = f_ /\ t.onWire = w_
  BY <1>1, <1>5 DEF Load
<1> HIDE DEF t
<1>7. Scripts(t) /\ Ran(t)
  BY <1>1, <1>5, <1>6 DEF Scripts, Ran
<1>8. Blamed(t)
  BY <1>1, <1>6 DEF Blamed, Failing
<1> QED BY <1>3, <1>6, <1>7, <1>8 DEF LoadOK

-----------------------------------------------------------------------------
(* The loader: what runs.                                                  *)

LEMMA AllLoadedIs ==
    ASSUME NEW s \in Load
    PROVE  LET L == Loader!AllLoaded(s) IN
           /\ L \in SUBSET Loader!Node
           /\ Ran(s) => L \subseteq s.inited /\ L \cap s.errored = {} /\ Complete(L, s.broken)
<1> DEFINE CanRun(n, done) == n \in s.enabled \ s.errored /\ Loader!DepsOf(n) \subseteq Loader!Matched(s, n, done)
           grow == [done \in SUBSET Loader!Node |-> {n \in s.inited : CanRun(n, done)}]
           L == Loader!Limit(s.loaded, grow)
           C == {X \in SUBSET Loader!Node : X \subseteq s.inited /\ X \cap s.errored = {} /\ Complete(X, s.broken)}
<1>1. grow \in [SUBSET Loader!Node -> SUBSET Loader!Node] /\ s.loaded \in SUBSET Loader!Node
  BY DEF Load
<1>2. Loader!AllLoaded(s) = L
  BY Zenon DEF Loader!AllLoaded
<1>3. \A Y \in SUBSET Loader!Node : \A n \in grow[Y] :
          n \in s.inited /\ n \notin s.errored /\ Loader!DepsOf(n) \subseteq s.broken[n] \cup Y
  BY DEF Loader!Matched
<1> HIDE DEF grow
<1>4. L \in SUBSET Loader!Node
      /\ (s.loaded \in C /\ (\A Y \in SUBSET Loader!Node : Y \in C => Y \cup grow[Y] \in C) => L \in C)
  BY <1>1, LimitIs
<1> HIDE DEF L
<1>5. ASSUME Ran(s) PROVE L \in C
  <2>1. s.loaded \in C
    BY <1>1, <1>5 DEF Ran
  <2>2. ASSUME NEW Y \in SUBSET Loader!Node, Y \in C PROVE Y \cup grow[Y] \in C
    <3> DEFINE Z == Y \cup grow[Y]
    <3>1. Z \in SUBSET Loader!Node
      BY <1>1
    <3>2. Z \subseteq s.inited /\ Z \cap s.errored = {}
      BY <1>3, <2>2
    <3>3. \A n \in Z : Loader!DepsOf(n) \subseteq s.broken[n] \cup Y
      BY <1>3, <2>2 DEF Complete
    <3>4. Complete(Z, s.broken)
      BY <3>3 DEF Complete
    <3> QED BY <3>1, <3>2, <3>4
  <2> QED BY <1>4, <2>1, <2>2
<1> QED BY <1>2, <1>4, <1>5

LEMMA LoadSettles ==
    ASSUME NEW s, LoadOK(s)
    PROVE  LoadOK(Loader!Settle(s)) /\ Loader!Settle(s).inited = s.inited
<1> DEFINE all == Loader!AllLoaded(s)
           load == {m \in Shim : Loader!Loads(m) \in all \ s.loaded} \ s.fetched
           w_ == s.onWire \cup load
           f_ == s.fetched \cup load
           t == [s EXCEPT !.loaded = all, !.onWire = w_, !.fetched = f_]
<1>1. s \in Load /\ Scripts(s) /\ Ran(s) /\ Blamed(s)
  BY DEF LoadOK
<1>2. all \in SUBSET Loader!Node /\ all \subseteq s.inited /\ all \cap s.errored = {} /\ Complete(all, s.broken)
  BY <1>1, AllLoadedIs
<1>3. Loader!Settle(s) = t
  BY Zenon DEF Loader!Settle
<1> HIDE DEF all
<1>4. w_ \in SUBSET Mod /\ f_ \in SUBSET Mod /\ w_ \subseteq f_ /\ w_ \cap s.inited = {} /\ s.fetched \subseteq f_
  BY <1>1, NodesAre DEF Load, Scripts
<1> HIDE DEF w_, f_
<1>5. /\ t \in Load /\ t.told = s.told /\ t.listens = s.listens /\ t.inited = s.inited /\ t.loaded = all
      /\ t.broken = s.broken /\ t.errored = s.errored /\ t.fetched = f_ /\ t.onWire = w_
  BY <1>1, <1>2, <1>4 DEF Load
<1> HIDE DEF t
<1>6. Scripts(t) /\ Ran(t)
  BY <1>1, <1>2, <1>4, <1>5 DEF Scripts, Ran
<1>7. Blamed(t)
  BY <1>1, <1>5 DEF Blamed, Failing
<1> QED BY <1>3, <1>5, <1>6, <1>7 DEF LoadOK

\* The dependencies of n are known: if it is a module, its script has come.
LEMMA LoadInits ==
    ASSUME NEW s, LoadOK(s), NEW n \in Loader!Node, n \in Mod => n \in s.fetched \ s.onWire,
           NEW t \in Loader!Inited(s, n)
    PROVE  LoadOK(t)
<1>1. s \in Load /\ Scripts(s) /\ Ran(s) /\ Blamed(s)
  BY DEF LoadOK
<1>2. CASE n \in s.inited
  BY <1>2 DEF Loader!Inited
<1>3. CASE n \notin s.inited
  <2> DEFINE inited_ == s.inited \cup {n}
             u == [s EXCEPT !.inited = inited_]
  <2>1. t = Loader!Settle(Loader!Enable(Loader!Listens(u, n), n))
    BY <1>3 DEF Loader!Inited
  <2>2. inited_ \in SUBSET Loader!Node /\ s.inited \subseteq inited_ /\ inited_ \subseteq s.inited \cup {n}
    BY <1>1 DEF Load
  <2> HIDE DEF inited_
  <2>3. /\ u \in Load /\ u.told = s.told /\ u.listens = s.listens /\ u.inited = inited_ /\ u.loaded = s.loaded
        /\ u.broken = s.broken /\ u.errored = s.errored /\ u.fetched = s.fetched /\ u.onWire = s.onWire
    BY <1>1, <2>2 DEF Load
  <2> HIDE DEF u
  <2>4. Scripts(u)
    <3>1. s.onWire \in SUBSET Mod
      BY <1>1 DEF Load
    <3> QED BY <1>1, <2>2, <2>3, <3>1 DEF Scripts
  <2>5. Ran(u) /\ Blamed(u)
    BY <1>1, <2>2, <2>3 DEF Ran, Blamed, Failing
  <2>6. LoadOK(u)
    BY <2>3, <2>4, <2>5 DEF LoadOK
  <2>7. LoadOK(Loader!Listens(u, n))
    BY <2>6, LoadListens
  <2>8. LoadOK(Loader!Enable(Loader!Listens(u, n), n))
    BY <2>7, LoadEnables
  <2> QED BY <2>1, <2>8, LoadSettles
<1> QED BY <1>2, <1>3

-----------------------------------------------------------------------------
(* The loader: breaking cycles.                                            *)

\* A walk took as matched only what needs what it is matched for.
WalkOK(w) == w \in Loader!Walk /\ InCycles(w.broken)
Broken(b, w) == \A n \in Loader!Node : b[n] \subseteq w.broken[n]
OnTheWay(w) == w.traced \ w.processed
From(n, w) == \A x \in OnTheWay(w) : n \in Loader!Needs(x)

\* The steps of a walk, which Walked counts down.
WalkSteps(s) ==
    CHOOSE f : f = [d \in 0 .. Loader!Steps |-> [n \in Loader!Node |-> [i \in Nat |-> [w \in Loader!Walk |->
        IF d = 0 \/ i > Len(Loader!Deps(n)) THEN [w EXCEPT !.processed = @ \cup {n}]
        ELSE LET m == Loader!Deps(n)[i]
             IN  f[d - 1][n][i + 1][
                    IF Loader!Met(s, w, n, m) THEN w
                    ELSE IF m \in w.traced THEN Loader!Run(s, [w EXCEPT !.broken[n] = @ \cup {m}])
                    ELSE f[d - 1][m][1][[w EXCEPT !.traced = @ \cup {m}]]]]]]]

LEMMA StepsMany == Loader!Steps \in Nat
<1>1. IsFiniteSet(Mod)
  BY AssumptionOfLoader DEF Loader!LoaderAssumption, Loader!IsFiniteSet, IsFiniteSet
<1> DEFINE c == Cardinality(Mod)
<1>2. c \in Nat
  BY <1>1, FS_CardinalityType
<1>3. Loader!Steps = (c + 1) * (c + 1)
  BY DEF Loader!Steps, Loader!Cardinality, Cardinality
<1> HIDE DEF c
<1> QED BY <1>2, <1>3

LEMMA WalkIs ==
    \A s : WalkSteps(s) =
        [d \in 0 .. Loader!Steps |-> [n \in Loader!Node |-> [i \in Nat |-> [w \in Loader!Walk |->
            IF d = 0 \/ i > Len(Loader!Deps(n)) THEN [w EXCEPT !.processed = @ \cup {n}]
            ELSE LET m == Loader!Deps(n)[i]
                 IN  WalkSteps(s)[d - 1][n][i + 1][
                        IF Loader!Met(s, w, n, m) THEN w
                        ELSE IF m \in w.traced THEN Loader!Run(s, [w EXCEPT !.broken[n] = @ \cup {m}])
                        ELSE WalkSteps(s)[d - 1][m][1][[w EXCEPT !.traced = @ \cup {m}]]]]]]]
<1> SUFFICES ASSUME NEW s
    PROVE WalkSteps(s) =
        [d \in 0 .. Loader!Steps |-> [n \in Loader!Node |-> [i \in Nat |-> [w \in Loader!Walk |->
            IF d = 0 \/ i > Len(Loader!Deps(n)) THEN [w EXCEPT !.processed = @ \cup {n}]
            ELSE LET m == Loader!Deps(n)[i]
                 IN  WalkSteps(s)[d - 1][n][i + 1][
                        IF Loader!Met(s, w, n, m) THEN w
                        ELSE IF m \in w.traced THEN Loader!Run(s, [w EXCEPT !.broken[n] = @ \cup {m}])
                        ELSE WalkSteps(s)[d - 1][m][1][[w EXCEPT !.traced = @ \cup {m}]]]]]]]
  BY Zenon
<1> DEFINE N == Loader!Steps
<1>0. N \in Nat
  BY StepsMany
<1> HIDE DEF N
<1> DEFINE At(h, d) == [n \in Loader!Node |-> [i \in Nat |-> [w \in Loader!Walk |->
               IF d = 0 \/ i > Len(Loader!Deps(n)) THEN [w EXCEPT !.processed = @ \cup {n}]
               ELSE LET m == Loader!Deps(n)[i]
                    IN  h[n][i + 1][
                           IF Loader!Met(s, w, n, m) THEN w
                           ELSE IF m \in w.traced THEN Loader!Run(s, [w EXCEPT !.broken[n] = @ \cup {m}])
                           ELSE h[m][1][[w EXCEPT !.traced = @ \cup {m}]]]]]]
           Is(f, j) == f = [d \in 0 .. j |-> At(f[d - 1], d)]
           good == {j \in Nat : \E f : Is(f, j)}
           last0 == [n \in Loader!Node |-> [i \in Nat |-> [w \in Loader!Walk |-> [w EXCEPT !.processed = @ \cup {n}]]]]
<1>1. \A h : At(h, 0) = last0
  BY Zenon
<1> HIDE DEF At, last0
<1>2. 0 \in good
  <2> DEFINE f == [d \in 0 .. 0 |-> last0]
  <2>1. \A d \in 0 .. 0 : At(f[d - 1], d) = last0
    <3>1. \A d \in 0 .. 0 : d = 0
      OBVIOUS
    <3> HIDE DEF f
    <3> QED BY <1>1, <3>1
  <2>2. f = [d \in 0 .. 0 |-> f[d]] /\ \A d \in 0 .. 0 : f[d] = last0
    OBVIOUS
  <2> HIDE DEF f
  <2>3. Is(f, 0)
    BY <2>1, <2>2, Zenon
  <2> HIDE DEF Is
  <2> QED BY <2>3
<1>3. ASSUME NEW j \in Nat, j \in good PROVE j + 1 \in good
  <2>1. PICK f : Is(f, j)
    BY <1>3
  <2> DEFINE last == At(f[j + 1 - 1], j + 1)
             g == [d \in 0 .. j + 1 |-> IF d = j + 1 THEN last ELSE f[d]]
  <2>2. \A d \in 0 .. j + 1 : g[d] = At(g[d - 1], d)
    <3>1. \A d \in 0 .. j : f[d] = At(f[d - 1], d)
      BY <2>1
    <3>2. g[j + 1] = last /\ (\A d \in 0 .. j : g[d] = f[d])
      <4> HIDE DEF last
      <4> QED OBVIOUS
    <3> HIDE DEF g
    <3>3. \A d \in 0 .. j + 1 : At(g[d - 1], d) = At(f[d - 1], d)
      <4> SUFFICES ASSUME NEW d \in 0 .. j + 1 PROVE At(g[d - 1], d) = At(f[d - 1], d)
        OBVIOUS
      <4>1. d # 0 => d - 1 \in 0 .. j
        OBVIOUS
      <4>2. d # 0 => g[d - 1] = f[d - 1]
        BY <3>2, <4>1
      <4> QED BY <1>1, <4>2
    <3>4. \A d \in 0 .. j + 1 : d = j + 1 \/ d \in 0 .. j
      OBVIOUS
    <3> QED BY <3>1, <3>2, <3>3, <3>4 DEF last
  <2>3. Is(g, j + 1)
    <3> HIDE DEF last
    <3>1. g = [d \in 0 .. j + 1 |-> g[d]]
      OBVIOUS
    <3> HIDE DEF g
    <3> QED BY <2>2, <3>1, Zenon
  <2>4. j + 1 \in Nat
    OBVIOUS
  <2> HIDE DEF Is
  <2> QED BY <2>3, <2>4, Zenon
<1>4. N \in good
  <2>1. \A j \in 0 .. N - 1 : j \in Nat
    BY <1>0
  <2>2. N \in 0 .. N
    BY <1>0
  <2> HIDE DEF good
  <2>3. \A j \in 0 .. N : j \in good
    BY <1>0, <1>2, <1>3, <2>1, UpTo
  <2> QED BY <2>2, <2>3
<1> HIDE DEF good
<1>5. \E f : Is(f, N)
  BY <1>4, Zenon DEF good
<1>6. \E f : f = [d \in 0 .. N |-> [n \in Loader!Node |-> [i \in Nat |-> [w \in Loader!Walk |->
            IF d = 0 \/ i > Len(Loader!Deps(n)) THEN [w EXCEPT !.processed = @ \cup {n}]
            ELSE LET m == Loader!Deps(n)[i]
                 IN  f[d - 1][n][i + 1][
                        IF Loader!Met(s, w, n, m) THEN w
                        ELSE IF m \in w.traced THEN Loader!Run(s, [w EXCEPT !.broken[n] = @ \cup {m}])
                        ELSE f[d - 1][m][1][[w EXCEPT !.traced = @ \cup {m}]]]]]]]
  BY <1>5, Zenon DEF At
<1> QED BY <1>6, Zenon DEF WalkSteps, N

\* A dependency met again on the way is needed by what it is matched for.
LEMMA RunIs ==
    ASSUME NEW s \in Load, NEW w, WalkOK(w), NEW n \in Loader!Node, NEW m \in Mod,
           n \in Loader!Needs(m)
    PROVE  LET r == Loader!Run(s, [w EXCEPT !.broken[n] = @ \cup {m}]) IN
           WalkOK(r) /\ Broken(w.broken, r) /\ r.traced = w.traced /\ r.processed = w.processed
<1>1. w \in Loader!Walk /\ InCycles(w.broken)
  BY DEF WalkOK
<1> DEFINE b_ == [w.broken EXCEPT ![n] = @ \cup {m}]
           v == [w EXCEPT !.broken[n] = @ \cup {m}]
           t == [s EXCEPT !.loaded = v.loaded, !.broken = v.broken]
           a_ == Loader!AllLoaded(t)
           r == [v EXCEPT !.loaded = a_]
<1>2. b_ \in [Loader!Node -> SUBSET Mod] /\ InCycles(b_) /\ \A x \in Loader!Node : w.broken[x] \subseteq b_[x]
  <2>1. w.broken \in [Loader!Node -> SUBSET Mod]
    BY <1>1 DEF Loader!Walk
  <2>2. \A x \in Loader!Node : b_[x] = IF x = n THEN w.broken[n] \cup {m} ELSE w.broken[x]
    BY <2>1
  <2>3. b_ \in [Loader!Node -> SUBSET Mod]
    BY <2>1
  <2> HIDE DEF b_
  <2>4. InCycles(b_)
    BY <1>1, <2>2 DEF InCycles
  <2> QED BY <2>2, <2>3, <2>4
<1>3. v \in Loader!Walk /\ v.broken = b_ /\ v.traced = w.traced /\ v.processed = w.processed /\ v.loaded = w.loaded
  <2>1. v = [w EXCEPT !.broken = b_]
    BY <1>1 DEF Loader!Walk
  <2> HIDE DEF v, b_
  <2> QED BY <1>1, <1>2, <2>1 DEF Loader!Walk
<1> HIDE DEF v, b_
<1>4. t \in Load
  BY <1>2, <1>3 DEF Load, Loader!Walk
<1> HIDE DEF t
<1>5. a_ \in SUBSET Loader!Node
  BY <1>4, AllLoadedIs
<1>6. Loader!Run(s, v) = r
  BY Zenon DEF Loader!Run, t
<1> HIDE DEF a_
<1>7. r \in Loader!Walk /\ r.broken = b_ /\ r.traced = w.traced /\ r.processed = w.processed
  BY <1>3, <1>5 DEF Loader!Walk
<1> HIDE DEF r
<1>8. WalkOK(r) /\ Broken(w.broken, r)
  BY <1>2, <1>7 DEF WalkOK, Broken
<1> QED BY <1>6, <1>7, <1>8 DEF v

\* A walk matches only in cycles, and comes back to where it was.
Walks(s, w, n, r) ==
    From(n, w) => /\ WalkOK(r) /\ Broken(w.broken, r)
                  /\ OnTheWay(r) \subseteq OnTheWay(w) /\ n \in r.processed

LEMMA WalkedIs ==
    ASSUME NEW s \in Load, NEW n0 \in Loader!Node, NEW w0, WalkOK(w0), From(n0, w0)
    PROVE  LET r == Loader!Walked(s, n0, w0) IN WalkOK(r) /\ Broken(w0.broken, r)
<1> DEFINE N == Loader!Steps
           F == WalkSteps(s)
           OK == {w \in Loader!Walk : InCycles(w.broken)}
<1>0. N \in Nat
  BY StepsMany
<1>1. F = [d \in 0 .. N |-> [n \in Loader!Node |-> [i \in Nat |-> [w \in Loader!Walk |->
            IF d = 0 \/ i > Len(Loader!Deps(n)) THEN [w EXCEPT !.processed = @ \cup {n}]
            ELSE LET m == Loader!Deps(n)[i]
                 IN  F[d - 1][n][i + 1][
                        IF Loader!Met(s, w, n, m) THEN w
                        ELSE IF m \in w.traced THEN Loader!Run(s, [w EXCEPT !.broken[n] = @ \cup {m}])
                        ELSE F[d - 1][m][1][[w EXCEPT !.traced = @ \cup {m}]]]]]]]
  BY WalkIs, Zenon
<1>2. Loader!Walked(s, n0, w0) = F[N][n0][1][w0]
  BY Zenon DEF Loader!Walked, WalkSteps
<1> HIDE DEF F, N
<1> DEFINE Val(d, n, i, w) ==
               IF d = 0 \/ i > Len(Loader!Deps(n)) THEN [w EXCEPT !.processed = @ \cup {n}]
               ELSE LET m == Loader!Deps(n)[i]
                    IN  F[d - 1][n][i + 1][
                           IF Loader!Met(s, w, n, m) THEN w
                           ELSE IF m \in w.traced THEN Loader!Run(s, [w EXCEPT !.broken[n] = @ \cup {m}])
                           ELSE F[d - 1][m][1][[w EXCEPT !.traced = @ \cup {m}]]]
<1>3. \A d \in 0 .. N, n \in Loader!Node, i \in Nat, w \in Loader!Walk : F[d][n][i][w] = Val(d, n, i, w)
  <2> SUFFICES ASSUME NEW d \in 0 .. N, NEW n \in Loader!Node, NEW i \in Nat, NEW w \in Loader!Walk
               PROVE  F[d][n][i][w] = Val(d, n, i, w)
    BY Zenon
  <2>1. F[d] = [x \in Loader!Node |-> [j \in Nat |-> [v \in Loader!Walk |->
            IF d = 0 \/ j > Len(Loader!Deps(x)) THEN [v EXCEPT !.processed = @ \cup {x}]
            ELSE LET m == Loader!Deps(x)[j]
                 IN  F[d - 1][x][j + 1][
                        IF Loader!Met(s, v, x, m) THEN v
                        ELSE IF m \in v.traced THEN Loader!Run(s, [v EXCEPT !.broken[x] = @ \cup {m}])
                        ELSE F[d - 1][m][1][[v EXCEPT !.traced = @ \cup {m}]]]]]]
    BY <1>1, Zenon
  <2>2. F[d][n] = [j \in Nat |-> [v \in Loader!Walk |->
            IF d = 0 \/ j > Len(Loader!Deps(n)) THEN [v EXCEPT !.processed = @ \cup {n}]
            ELSE LET m == Loader!Deps(n)[j]
                 IN  F[d - 1][n][j + 1][
                        IF Loader!Met(s, v, n, m) THEN v
                        ELSE IF m \in v.traced THEN Loader!Run(s, [v EXCEPT !.broken[n] = @ \cup {m}])
                        ELSE F[d - 1][m][1][[v EXCEPT !.traced = @ \cup {m}]]]]]
    BY <2>1, Zenon
  <2>3. F[d][n][i] = [v \in Loader!Walk |->
            IF d = 0 \/ i > Len(Loader!Deps(n)) THEN [v EXCEPT !.processed = @ \cup {n}]
            ELSE LET m == Loader!Deps(n)[i]
                 IN  F[d - 1][n][i + 1][
                        IF Loader!Met(s, v, n, m) THEN v
                        ELSE IF m \in v.traced THEN Loader!Run(s, [v EXCEPT !.broken[n] = @ \cup {m}])
                        ELSE F[d - 1][m][1][[v EXCEPT !.traced = @ \cup {m}]]]]
    BY <2>2, Zenon
  <2> QED BY <2>3, Zenon
<1> HIDE DEF Val
<1> DEFINE T == {d \in 0 .. N : \A n \in Loader!Node, i \in Nat \ {0}, w \in OK : Walks(s, w, n, F[d][n][i][w])}
<1>4. ASSUME NEW n \in Loader!Node, NEW w \in OK PROVE Walks(s, w, n, [w EXCEPT !.processed = @ \cup {n}])
  <2> DEFINE r == [w EXCEPT !.processed = @ \cup {n}]
  <2>1. r \in Loader!Walk /\ r.broken = w.broken /\ r.traced = w.traced /\ r.processed = w.processed \cup {n}
    BY DEF Loader!Walk
  <2> HIDE DEF r
  <2>2. WalkOK(r) /\ Broken(w.broken, r) /\ OnTheWay(r) \subseteq OnTheWay(w) /\ n \in r.processed
    BY <2>1 DEF WalkOK, Broken, OnTheWay
  <2> QED BY <2>2, Zenon DEF Walks, r
<1>5. 0 \in T
  <2>1. 0 \in 0 .. N
    BY <1>0
  <2> SUFFICES ASSUME NEW n \in Loader!Node, NEW i \in Nat \ {0}, NEW w \in OK
               PROVE  Walks(s, w, n, F[0][n][i][w])
    BY <2>1, Zenon
  <2>2. i \in Nat /\ w \in Loader!Walk
    OBVIOUS
  <2>3. F[0][n][i][w] = [w EXCEPT !.processed = @ \cup {n}]
    <3>1. F[0][n][i][w] = Val(0, n, i, w)
      BY <1>3, <2>1, <2>2, Zenon
    <3> QED BY <3>1, Zenon DEF Val
  <2> QED BY <1>4, <2>3, Zenon
<1>6. ASSUME NEW k \in 0 .. N - 1, k \in T PROVE k + 1 \in T
  <2>0. k + 1 \in 0 .. N /\ k \in 0 .. N /\ k + 1 # 0 /\ k + 1 - 1 = k
    BY <1>0
  <2> SUFFICES ASSUME NEW n \in Loader!Node, NEW i \in Nat \ {0}, NEW w \in OK
               PROVE  Walks(s, w, n, F[k + 1][n][i][w])
    BY <2>0, Zenon
  <2> DEFINE m == Loader!Deps(n)[i]
             on_ == [w EXCEPT !.traced = @ \cup {m}]
             arg == IF Loader!Met(s, w, n, m) THEN w
                    ELSE IF m \in w.traced THEN Loader!Run(s, [w EXCEPT !.broken[n] = @ \cup {m}])
                    ELSE F[k][m][1][on_]
  <2>1. F[k + 1][n][i][w] = IF i > Len(Loader!Deps(n)) THEN [w EXCEPT !.processed = @ \cup {n}]
                            ELSE F[k][n][i + 1][arg]
    <3> DEFINE l == k + 1
    <3>1. l \in 0 .. N /\ l # 0 /\ l - 1 = k /\ i \in Nat /\ w \in Loader!Walk
      BY <2>0
    <3> HIDE DEF l
    <3>2. F[l][n][i][w] =
            IF l = 0 \/ i > Len(Loader!Deps(n)) THEN [w EXCEPT !.processed = @ \cup {n}]
            ELSE F[l - 1][n][i + 1][
                        IF Loader!Met(s, w, n, m) THEN w
                        ELSE IF m \in w.traced THEN Loader!Run(s, [w EXCEPT !.broken[n] = @ \cup {m}])
                        ELSE F[l - 1][m][1][[w EXCEPT !.traced = @ \cup {m}]]]
      <4>1. F[l][n][i][w] = Val(l, n, i, w)
        BY <1>3, <3>1, Zenon
      <4> QED BY <4>1, Zenon DEF Val
    <3>3. F[l][n][i][w] = IF i > Len(Loader!Deps(n)) THEN [w EXCEPT !.processed = @ \cup {n}]
                          ELSE F[k][n][i + 1][arg]
      BY <3>1, <3>2, Zenon
    <3> QED BY <3>3, Zenon DEF l
  <2>2. CASE i > Len(Loader!Deps(n))
    BY <1>4, <2>1, <2>2, Zenon
  <2>3. CASE ~(i > Len(Loader!Deps(n)))
    <3>1. i \in 1 .. Len(Loader!Deps(n))
      BY <2>3, DepsAre
    <3>2. m \in Loader!DepsOf(n) /\ m \in Mod /\ m \in Loader!Node
      BY <3>1, DepsAre, NodesAre
    <3>3. i + 1 \in Nat \ {0} /\ 1 \in Nat \ {0}
      OBVIOUS
    <3> HIDE DEF m
    <3>4. From(n, w) => /\ WalkOK(arg) /\ Broken(w.broken, arg) /\ OnTheWay(arg) \subseteq OnTheWay(w)
      <4> SUFFICES ASSUME From(n, w)
                   PROVE  WalkOK(arg) /\ Broken(w.broken, arg) /\ OnTheWay(arg) \subseteq OnTheWay(w)
        OBVIOUS
      <4>1. WalkOK(w)
        BY DEF WalkOK
      <4>2. CASE Loader!Met(s, w, n, m)
        <5>1. arg = w
          BY <4>2
        <5> QED BY <4>1, <5>1 DEF Broken
      <4>3. CASE ~Loader!Met(s, w, n, m) /\ m \in w.traced
        <5>1. n \in Loader!Needs(m)
          BY <4>3 DEF From, OnTheWay, Loader!Met
        <5>2. arg = Loader!Run(s, [w EXCEPT !.broken[n] = @ \cup {m}])
          BY <4>3, Zenon
        <5> HIDE DEF arg
        <5>3. WalkOK(arg) /\ Broken(w.broken, arg) /\ arg.traced = w.traced /\ arg.processed = w.processed
          BY <3>2, <4>1, <5>1, <5>2, RunIs
        <5> QED BY <5>3 DEF OnTheWay
      <4>4. CASE ~Loader!Met(s, w, n, m) /\ m \notin w.traced
        <5>1. arg = F[k][m][1][on_]
          BY <4>4, Zenon
        <5>2. on_ \in OK /\ on_.traced = w.traced \cup {m} /\ on_.processed = w.processed /\ on_.broken = w.broken
          BY <3>2 DEF Loader!Walk
        <5> HIDE DEF on_, arg
        <5>3. From(m, on_)
          <6> SUFFICES ASSUME NEW x \in OnTheWay(on_) PROVE m \in Loader!Needs(x)
            BY DEF From
          <6>1. CASE x = m
            BY <3>2, <6>1, NeedsIs
          <6>2. CASE x # m
            <7>1. x \in OnTheWay(w) /\ x \in Loader!Node
              BY <5>2, <6>2 DEF OnTheWay, Loader!Walk
            <7>2. n \in Loader!Needs(x)
              BY <7>1 DEF From
            <7> QED BY <3>2, <7>1, <7>2, NeedsOn
          <6> QED BY <6>1, <6>2
        <5>4. Walks(s, on_, m, F[k][m][1][on_])
          BY <1>6, <3>2, <3>3, <5>2, Zenon
        <5>5. /\ WalkOK(arg) /\ Broken(w.broken, arg)
              /\ OnTheWay(arg) \subseteq OnTheWay(on_) /\ m \in arg.processed
          BY <5>1, <5>2, <5>3, <5>4, Zenon DEF Walks
        <5>6. OnTheWay(arg) \subseteq OnTheWay(w)
          BY <5>2, <5>5 DEF OnTheWay
        <5> QED BY <5>5, <5>6
      <4> QED BY <4>2, <4>3, <4>4
    <3> HIDE DEF arg
    <3>5. ASSUME From(n, w)
          PROVE  LET r == F[k][n][i + 1][arg] IN
                 WalkOK(r) /\ Broken(w.broken, r) /\ OnTheWay(r) \subseteq OnTheWay(w) /\ n \in r.processed
      <4>1. arg \in OK /\ From(n, arg) /\ Broken(w.broken, arg) /\ OnTheWay(arg) \subseteq OnTheWay(w)
        BY <3>4, <3>5 DEF WalkOK, From
      <4> DEFINE r == F[k][n][i + 1][arg]
      <4>2. Walks(s, arg, n, r)
        BY <1>6, <3>3, <4>1, Zenon
      <4> HIDE DEF r
      <4>3. WalkOK(r) /\ Broken(arg.broken, r) /\ OnTheWay(r) \subseteq OnTheWay(arg) /\ n \in r.processed
        BY <4>1, <4>2, Zenon DEF Walks
      <4>4. Broken(w.broken, r) /\ OnTheWay(r) \subseteq OnTheWay(w)
        BY <4>1, <4>3 DEF Broken
      <4> QED BY <4>3, <4>4, Zenon DEF r
    <3>6. Walks(s, w, n, F[k][n][i + 1][arg])
      BY <3>5, Zenon DEF Walks
    <3> QED BY <2>1, <2>3, <3>6, Zenon
  <2> QED BY <2>2, <2>3
<1> HIDE DEF T
<1>7. N \in T
  <2>1. \A k \in 0 .. N : k \in T
    BY <1>0, <1>5, <1>6, UpTo
  <2>2. N \in 0 .. N
    BY <1>0
  <2> QED BY <2>1, <2>2
<1>8. w0 \in OK /\ 1 \in Nat \ {0}
  BY DEF WalkOK
<1> HIDE DEF OK
<1>9. Walks(s, w0, n0, F[N][n0][1][w0])
  BY <1>7, <1>8, Zenon DEF T
<1> QED BY <1>2, <1>9, Zenon DEF Walks

\* The steps of BreakCycles, over the calls it walks from.
CallSteps(s, calls) ==
    CHOOSE f : f = [k \in 0 .. Len(calls) |->
        IF k = 0 THEN [loaded |-> s.loaded, broken |-> s.broken, traced |-> {}, processed |-> {}]
        ELSE Loader!Walked(s, calls[k], [f[k - 1] EXCEPT !.traced = {calls[k]}, !.processed = {}])]

CallStep(s, calls, k, w) ==
    IF k = 0 THEN [loaded |-> s.loaded, broken |-> s.broken, traced |-> {}, processed |-> {}]
    ELSE Loader!Walked(s, calls[k], [w EXCEPT !.traced = {calls[k]}, !.processed = {}])

LEMMA CallIs ==
    ASSUME NEW s, NEW calls, Len(calls) \in Nat
    PROVE  CallSteps(s, calls) = [k \in 0 .. Len(calls) |-> CallStep(s, calls, k, CallSteps(s, calls)[k - 1])]
<1> DEFINE N == Len(calls)
           first == [loaded |-> s.loaded, broken |-> s.broken, traced |-> {}, processed |-> {}]
<1>0. N \in Nat
  OBVIOUS
<1> HIDE DEF N
<1> DEFINE At(h, k) == IF k = 0 THEN first
                       ELSE Loader!Walked(s, calls[k], [h EXCEPT !.traced = {calls[k]}, !.processed = {}])
           Is(f, j) == f = [k \in 0 .. j |-> At(f[k - 1], k)]
           good == {j \in Nat : \E f : Is(f, j)}
<1>1. \A h : At(h, 0) = first
  BY Zenon
<1> HIDE DEF At, first
<1>2. 0 \in good
  <2> DEFINE f == [k \in 0 .. 0 |-> first]
  <2>1. \A k \in 0 .. 0 : At(f[k - 1], k) = first
    <3>1. \A k \in 0 .. 0 : k = 0
      OBVIOUS
    <3> HIDE DEF f
    <3> QED BY <1>1, <3>1
  <2>2. f = [k \in 0 .. 0 |-> f[k]] /\ \A k \in 0 .. 0 : f[k] = first
    OBVIOUS
  <2> HIDE DEF f
  <2>3. Is(f, 0)
    BY <2>1, <2>2, Zenon
  <2> HIDE DEF Is
  <2> QED BY <2>3
<1>3. ASSUME NEW j \in Nat, j \in good PROVE j + 1 \in good
  <2>1. PICK f : Is(f, j)
    BY <1>3
  <2> DEFINE last == At(f[j + 1 - 1], j + 1)
             g == [k \in 0 .. j + 1 |-> IF k = j + 1 THEN last ELSE f[k]]
  <2>2. \A k \in 0 .. j + 1 : g[k] = At(g[k - 1], k)
    <3>1. \A k \in 0 .. j : f[k] = At(f[k - 1], k)
      BY <2>1
    <3>2. g[j + 1] = last /\ (\A k \in 0 .. j : g[k] = f[k])
      <4> HIDE DEF last
      <4> QED OBVIOUS
    <3> HIDE DEF g
    <3>3. \A k \in 0 .. j + 1 : At(g[k - 1], k) = At(f[k - 1], k)
      <4> SUFFICES ASSUME NEW k \in 0 .. j + 1 PROVE At(g[k - 1], k) = At(f[k - 1], k)
        OBVIOUS
      <4>1. k # 0 => k - 1 \in 0 .. j
        OBVIOUS
      <4>2. k # 0 => g[k - 1] = f[k - 1]
        BY <3>2, <4>1
      <4> QED BY <1>1, <4>2
    <3>4. \A k \in 0 .. j + 1 : k = j + 1 \/ k \in 0 .. j
      OBVIOUS
    <3> QED BY <3>1, <3>2, <3>3, <3>4 DEF last
  <2>3. Is(g, j + 1)
    <3> HIDE DEF last
    <3>1. g = [k \in 0 .. j + 1 |-> g[k]]
      OBVIOUS
    <3> HIDE DEF g
    <3> QED BY <2>2, <3>1, Zenon
  <2>4. j + 1 \in Nat
    OBVIOUS
  <2> HIDE DEF Is
  <2> QED BY <2>3, <2>4, Zenon
<1>4. N \in good
  <2>1. \A j \in 0 .. N - 1 : j \in Nat
    BY <1>0
  <2>2. N \in 0 .. N
    BY <1>0
  <2> HIDE DEF good
  <2>3. \A j \in 0 .. N : j \in good
    BY <1>0, <1>2, <1>3, <2>1, UpTo
  <2> QED BY <2>2, <2>3
<1> HIDE DEF good
<1>5. \E f : Is(f, N)
  BY <1>4, Zenon DEF good
<1>6. \E f : f = [k \in 0 .. N |->
        IF k = 0 THEN [loaded |-> s.loaded, broken |-> s.broken, traced |-> {}, processed |-> {}]
        ELSE Loader!Walked(s, calls[k], [f[k - 1] EXCEPT !.traced = {calls[k]}, !.processed = {}])]
  BY <1>5, Zenon DEF At, first
<1>7. CallSteps(s, calls) = [k \in 0 .. N |->
        IF k = 0 THEN [loaded |-> s.loaded, broken |-> s.broken, traced |-> {}, processed |-> {}]
        ELSE Loader!Walked(s, calls[k],
                           [CallSteps(s, calls)[k - 1] EXCEPT !.traced = {calls[k]}, !.processed = {}])]
  BY <1>6, Zenon DEF CallSteps, N
<1> QED BY <1>7, Zenon DEF CallStep, N

\* Cycles are broken where they are, and stay broken.
LEMMA BreaksAre ==
    ASSUME NEW s, LoadOK(s), NEW calls, Len(calls) \in Nat,
           \A k \in 1 .. Len(calls) : calls[k] \in Loader!Node
    PROVE  LET b == Loader!BreakCycles(s, calls) IN
           b \in [Loader!Node -> SUBSET Mod] /\ InCycles(b) /\ \A n \in Loader!Node : s.broken[n] \subseteq b[n]
<1> DEFINE N == Len(calls)
           F == CallSteps(s, calls)
           first == [loaded |-> s.loaded, broken |-> s.broken, traced |-> {}, processed |-> {}]
<1>0. N \in Nat
  OBVIOUS
<1>1. F = [k \in 0 .. N |-> CallStep(s, calls, k, F[k - 1])]
  BY CallIs
<1>2. Loader!BreakCycles(s, calls) = F[N].broken
  BY Zenon DEF Loader!BreakCycles, CallSteps
<1> HIDE DEF F, N
<1>3. \A k \in 0 .. N : F[k] = CallStep(s, calls, k, F[k - 1])
  BY <1>1, Zenon
<1>4. s \in Load /\ Scripts(s) /\ Ran(s) /\ Blamed(s)
  BY DEF LoadOK
<1> DEFINE T == {k \in 0 .. N : WalkOK(F[k]) /\ Broken(s.broken, F[k])}
<1>5. 0 \in T
  <2>1. 0 \in 0 .. N
    BY <1>0
  <2>2. F[0] = first
    <3>1. F[0] = CallStep(s, calls, 0, F[0 - 1])
      BY <1>3, <2>1, Zenon
    <3> QED BY <3>1, Zenon DEF CallStep
  <2>3. first \in Loader!Walk /\ first.broken = s.broken
    BY <1>4 DEF Loader!Walk, Load, first
  <2>4. WalkOK(first) /\ Broken(s.broken, first)
    BY <1>4, <2>3 DEF WalkOK, Broken, Ran
  <2> QED BY <2>1, <2>2, <2>4
<1>6. ASSUME NEW k \in 0 .. N - 1, k \in T PROVE k + 1 \in T
  <2> DEFINE l == k + 1
             c == calls[l]
             w == [F[k] EXCEPT !.traced = {c}, !.processed = {}]
             r == Loader!Walked(s, c, w)
  <2>1. l \in 0 .. N /\ l # 0 /\ l - 1 = k /\ l \in 1 .. N
    BY <1>0
  <2>2. c \in Loader!Node
    BY <2>1 DEF N
  <2> HIDE DEF l
  <2>3. F[l] = CallStep(s, calls, l, F[k])
    BY <1>3, <2>1, Zenon
  <2>4. F[l] = r
    BY <2>1, <2>3, Zenon DEF CallStep
  <2> HIDE DEF c
  <2>5. WalkOK(F[k]) /\ Broken(s.broken, F[k])
    BY <1>6
  <2>6. w \in Loader!Walk /\ w.broken = F[k].broken /\ w.traced = {c} /\ w.processed = {}
    BY <2>2, <2>5 DEF WalkOK, Loader!Walk
  <2> HIDE DEF w
  <2>7. WalkOK(w) /\ Broken(s.broken, w)
    BY <2>5, <2>6 DEF WalkOK, Broken
  <2>8. From(c, w)
    BY <2>2, <2>6, NeedsIs DEF From, OnTheWay
  <2>9. WalkOK(r) /\ Broken(w.broken, r)
    BY <1>4, <2>2, <2>7, <2>8, WalkedIs
  <2> HIDE DEF r
  <2>10. Broken(s.broken, r)
    BY <2>7, <2>9 DEF Broken
  <2>11. l \in T
    BY <2>1, <2>4, <2>9, <2>10
  <2> QED BY <2>11 DEF l
<1> HIDE DEF T
<1>7. N \in T
  <2>1. \A k \in 0 .. N : k \in T
    BY <1>0, <1>5, <1>6, UpTo
  <2>2. N \in 0 .. N
    BY <1>0
  <2> QED BY <2>1, <2>2
<1>8. WalkOK(F[N]) /\ Broken(s.broken, F[N])
  BY <1>7 DEF T
<1>9. F[N].broken \in [Loader!Node -> SUBSET Mod] /\ InCycles(F[N].broken)
      /\ \A n \in Loader!Node : s.broken[n] \subseteq F[N].broken[n]
  BY <1>8 DEF WalkOK, Broken, Loader!Walk
<1> QED BY <1>2, <1>9, Zenon

LEMMA LoadBreaks ==
    ASSUME NEW s, LoadOK(s), NEW t \in Loader!CycleBreaks(s)
    PROVE  LoadOK(t)
<1> DEFINE X == Loader!Waiting(s) \cap Loader!Caller
<1>1. s \in Load /\ Scripts(s) /\ Ran(s) /\ Blamed(s)
  BY DEF LoadOK
<1>2. PICK calls \in Loader!SetToSeqs(X) :
          t = Loader!Settle([s EXCEPT !.broken = Loader!BreakCycles(s, calls)])
  BY DEF Loader!CycleBreaks
<1>3. calls \in [1 .. Cardinality(X) -> X]
  BY <1>2 DEF Loader!SetToSeqs, Loader!Cardinality, Cardinality
<1>4. X \subseteq Loader!Node /\ Cardinality(X) \in Nat
  <2>1. X \subseteq Loader!Node
    BY NodesAre
  <2>2. IsFiniteSet(X)
    BY <2>1, NodesFinite, FS_Subset
  <2> QED BY <2>1, <2>2, FS_CardinalityType
<1> HIDE DEF X
<1>5. Len(calls) \in Nat /\ \A k \in 1 .. Len(calls) : calls[k] \in Loader!Node
  BY <1>3, <1>4
<1> DEFINE b_ == Loader!BreakCycles(s, calls)
           u == [s EXCEPT !.broken = b_]
<1>6. b_ \in [Loader!Node -> SUBSET Mod] /\ InCycles(b_) /\ \A n \in Loader!Node : s.broken[n] \subseteq b_[n]
  BY <1>5, BreaksAre
<1> HIDE DEF b_
<1>7. /\ u \in Load /\ u.told = s.told /\ u.listens = s.listens /\ u.inited = s.inited /\ u.loaded = s.loaded
      /\ u.broken = b_ /\ u.errored = s.errored /\ u.fetched = s.fetched /\ u.onWire = s.onWire
  BY <1>1, <1>6 DEF Load
<1>8. t = Loader!Settle(u)
  BY <1>2 DEF b_
<1> HIDE DEF u
<1>9. Scripts(u) /\ Blamed(u)
  BY <1>1, <1>7 DEF Scripts, Blamed, Failing
<1>10. Ran(u)
  <2>1. Complete(u.loaded, b_)
    <3> SUFFICES ASSUME NEW n \in s.loaded PROVE Loader!DepsOf(n) \subseteq b_[n] \cup s.loaded
      BY <1>7 DEF Complete
    <3>1. n \in Loader!Node /\ Loader!DepsOf(n) \subseteq s.broken[n] \cup s.loaded
      BY <1>1 DEF Load, Ran, Complete
    <3> QED BY <1>6, <3>1
  <2> QED BY <1>1, <1>6, <1>7, <2>1 DEF Ran
<1> QED BY <1>7, <1>8, <1>9, <1>10, LoadSettles DEF LoadOK

\* What is not part of the invariant changes freely.
LEMMA LoadTimes ==
    ASSUME NEW s, LoadOK(s), NEW b \in BOOLEAN
    PROVE  LoadOK([s EXCEPT !.timer = b]) /\ LoadOK([s EXCEPT !.checking = b])
<1>1. s \in Load /\ Scripts(s) /\ Ran(s) /\ Blamed(s)
  BY DEF LoadOK
<1>2. ASSUME NEW t \in Load, t.told = s.told, t.listens = s.listens, t.inited = s.inited, t.loaded = s.loaded,
             t.broken = s.broken, t.errored = s.errored, t.fetched = s.fetched, t.onWire = s.onWire
      PROVE  LoadOK(t)
  BY <1>1, <1>2 DEF LoadOK, Scripts, Ran, Blamed, Failing
<1>3. LoadOK([s EXCEPT !.timer = b])
  <2> DEFINE t == [s EXCEPT !.timer = b]
  <2>1. /\ t \in Load /\ t.told = s.told /\ t.listens = s.listens /\ t.inited = s.inited /\ t.loaded = s.loaded
        /\ t.broken = s.broken /\ t.errored = s.errored /\ t.fetched = s.fetched /\ t.onWire = s.onWire
    BY <1>1 DEF Load
  <2> HIDE DEF t
  <2>2. LoadOK(t)
    BY <1>2, <2>1
  <2> QED BY <2>2 DEF t
<1>4. LoadOK([s EXCEPT !.checking = b])
  <2> DEFINE t == [s EXCEPT !.checking = b]
  <2>1. /\ t \in Load /\ t.told = s.told /\ t.listens = s.listens /\ t.inited = s.inited /\ t.loaded = s.loaded
        /\ t.broken = s.broken /\ t.errored = s.errored /\ t.fetched = s.fetched /\ t.onWire = s.onWire
    BY <1>1 DEF Load
  <2> HIDE DEF t
  <2>2. LoadOK(t)
    BY <1>2, <2>1
  <2> QED BY <2>2 DEF t
<1> QED BY <1>3, <1>4

\* checkLoaded gives up what has not come, or breaks cycles.
LEMMA LoadChecks ==
    ASSUME NEW s, LoadOK(s), NEW expired, NEW t \in Loader!CheckLoaded(s, expired)
    PROVE  LoadOK(t)
<1> DEFINE ms == Loader!Loading(s)
<1>1. CASE s.checking
  BY <1>1 DEF Loader!CheckLoaded
<1>2. CASE ~s.checking /\ expired /\ ms # {}
  <2> DEFINE u == [s EXCEPT !.checking = TRUE]
  <2>1. t = Loader!Fail(u, ms)
    BY <1>2 DEF Loader!CheckLoaded
  <2>2. LoadOK(u) /\ u.inited = s.inited
    BY LoadTimes DEF LoadOK, Load
  <2>3. ms \in SUBSET Mod /\ ms \cap s.inited = {}
    BY DEF Loader!Loading
  <2> HIDE DEF u, ms
  <2> QED BY <2>1, <2>2, <2>3, LoadFails
<1>3. CASE ~s.checking /\ ~(expired /\ ms # {})
  <2>1. PICK u \in Loader!Outcomes(s) : t = [u EXCEPT !.timer = @ \/ ms # {}]
    BY <1>3 DEF Loader!CheckLoaded
  <2>2. LoadOK(u)
    BY LoadBreaks DEF Loader!Outcomes
  <2> DEFINE b == u.timer \/ ms # {}
  <2>3. b \in BOOLEAN
    OBVIOUS
  <2>4. t = [u EXCEPT !.timer = b]
    BY <2>1
  <2> HIDE DEF b
  <2> QED BY <2>2, <2>3, <2>4, LoadTimes
<1> QED BY <1>1, <1>2, <1>3

LEMMA LoadBecomes ==
    ASSUME NEW s, LoadOK(s), Loader!Become(s) PROVE LoadInv'
<1>1. s \in Load
  BY DEF LoadOK
<1>2. Loader!S' = s
  <2>1. s = [ticks |-> s.ticks, enabled |-> s.enabled, inited |-> s.inited, loaded |-> s.loaded,
             broken |-> s.broken, errored |-> s.errored, listens |-> s.listens, told |-> s.told,
             fetched |-> s.fetched, onWire |-> s.onWire, timer |-> s.timer, checking |-> s.checking]
    BY <1>1 DEF Load
  <2>2. Loader!S' = [ticks |-> s.ticks, enabled |-> s.enabled, inited |-> s.inited, loaded |-> s.loaded,
             broken |-> s.broken, errored |-> s.errored, listens |-> s.listens, told |-> s.told,
             fetched |-> s.fetched, onWire |-> s.onWire, timer |-> s.timer, checking |-> s.checking]
    BY Zenon DEF Loader!S, Loader!Become
  <2> QED BY <2>1, <2>2, Zenon
<1>3. LoadInv' <=> LoadOK(Loader!S')
  BY DEF LoadInv, LoadOK, Scripts, Ran, Blamed, Complete, InCycles, Failing, Load
<1> QED BY <1>2, <1>3

LEMMA LoadInit == ASSUME Loader!Init PROVE LoadInv
<1> DEFINE s == Loader!S
<1>1. /\ s \in Load /\ s.told = {} /\ s.listens = {} /\ s.inited = {} /\ s.loaded = {}
      /\ s.broken = [n \in Loader!Node |-> {}] /\ s.errored = {} /\ s.fetched = {} /\ s.onWire = {}
  BY DEF Loader!Init, Loader!S, Load
<1> HIDE DEF s
<1>2. Scripts(s) /\ Ran(s) /\ Blamed(s)
  BY <1>1 DEF Scripts, Ran, Complete, InCycles, Blamed
<1>3. LoadOK(s)
  BY <1>1, <1>2 DEF LoadOK
<1> QED BY <1>3 DEF LoadInv, s

LEMMA LoadNext == ASSUME LoadInv, Loader!Next PROVE LoadInv'
<1> DEFINE s == Loader!S
<1>1. LoadOK(s)
  BY DEF LoadInv
<1>2. s \in Load /\ Scripts(s) /\ Ran(s) /\ Blamed(s)
  BY <1>1 DEF LoadOK
<1>3. s.ticks = ticks /\ s.onWire = onWire /\ s.enabled = enabled
  BY DEF Loader!S
<1> HIDE DEF s
<1>4. ASSUME NEW t \in Load, t.told = s.told, t.listens = s.listens, t.inited = s.inited, t.loaded = s.loaded,
             t.broken = s.broken, t.errored = s.errored, t.fetched = s.fetched, t.onWire \subseteq s.onWire
      PROVE  LoadOK(t)
  <2>1. Scripts(t)
    BY <1>2, <1>4 DEF Scripts
  <2>2. Ran(t) /\ Blamed(t)
    BY <1>2, <1>4 DEF Ran, Blamed, Failing
  <2> QED BY <1>4, <2>1, <2>2 DEF LoadOK
<1>5. ASSUME NEW r \in Req, Loader!Require(r) PROVE LoadInv'
  <2> DEFINE t == [s EXCEPT !.ticks = @ \cup {r}]
  <2>1. Loader!Become(t)
    BY <1>5, Zenon DEF Loader!Require, s
  <2>2. r \in Loader!Caller
    BY DEF Loader!Caller
  <2>3. /\ t \in Load /\ t.told = s.told /\ t.listens = s.listens /\ t.inited = s.inited /\ t.loaded = s.loaded
        /\ t.broken = s.broken /\ t.errored = s.errored /\ t.fetched = s.fetched /\ t.onWire = s.onWire
    BY <1>2, <2>2 DEF Load
  <2> HIDE DEF t
  <2>4. LoadOK(t)
    BY <1>4, <2>3
  <2> QED BY <2>1, <2>4, LoadBecomes
<1>6. ASSUME NEW c \in Loader!Caller, Loader!Tick(c) PROVE LoadInv'
  <2> DEFINE t == [s EXCEPT !.ticks = @ \ {c}, !.enabled = @ \cup {c}]
  <2>1. PICK i \in Loader!Inited(t, c) : \E u \in Loader!CheckLoaded(i, FALSE) : Loader!Become(u)
    BY <1>6, Zenon DEF Loader!Tick, s
  <2>2. c \in Loader!Node /\ c \notin Mod
    BY NodesAre
  <2>3. /\ t \in Load /\ t.told = s.told /\ t.listens = s.listens /\ t.inited = s.inited /\ t.loaded = s.loaded
        /\ t.broken = s.broken /\ t.errored = s.errored /\ t.fetched = s.fetched /\ t.onWire = s.onWire
    BY <1>2, <2>2 DEF Load
  <2> HIDE DEF t
  <2>4. LoadOK(t)
    BY <1>4, <2>3
  <2>5. LoadOK(i)
    BY <2>1, <2>2, <2>4, LoadInits
  <2> QED BY <2>1, <2>5, LoadChecks, LoadBecomes
<1>7. ASSUME NEW m \in Mod, Loader!ScriptLoads(m) PROVE LoadInv'
  <2> DEFINE t == [s EXCEPT !.onWire = @ \ {m}]
  <2>1. PICK expired \in Loader!Expirations, i \in Loader!Inited(t, m) :
            \E u \in Loader!CheckLoaded(i, expired) : Loader!Become(u)
    BY <1>7, Zenon DEF Loader!ScriptLoads, s
  <2>2. m \in s.onWire
    BY <1>3, <1>7 DEF Loader!ScriptLoads
  <2>3. /\ t \in Load /\ t.told = s.told /\ t.listens = s.listens /\ t.inited = s.inited /\ t.loaded = s.loaded
        /\ t.broken = s.broken /\ t.errored = s.errored /\ t.fetched = s.fetched /\ t.onWire = s.onWire \ {m}
    BY <1>2 DEF Load
  <2> HIDE DEF t
  <2>4. LoadOK(t)
    BY <1>4, <2>3
  <2>5. m \in t.fetched \ t.onWire /\ m \in Loader!Node
    BY <1>2, <2>2, <2>3, NodesAre DEF Scripts
  <2>6. LoadOK(i)
    BY <2>1, <2>4, <2>5, LoadInits
  <2> QED BY <2>1, <2>6, LoadChecks, LoadBecomes
<1>8. ASSUME NEW m \in Mod, Loader!ScriptFails(m) PROVE LoadInv'
  <2> DEFINE t == [s EXCEPT !.onWire = @ \ {m}]
  <2>1. m \in s.onWire /\ Loader!Become(Loader!Fail(t, {m}))
    BY <1>3, <1>8, Zenon DEF Loader!ScriptFails, s
  <2>2. /\ t \in Load /\ t.told = s.told /\ t.listens = s.listens /\ t.inited = s.inited /\ t.loaded = s.loaded
        /\ t.broken = s.broken /\ t.errored = s.errored /\ t.fetched = s.fetched /\ t.onWire = s.onWire \ {m}
    BY <1>2 DEF Load
  <2> HIDE DEF t
  <2>3. LoadOK(t)
    BY <1>4, <2>2
  <2>4. {m} \in SUBSET Mod /\ {m} \cap t.inited = {}
    BY <1>2, <2>1, <2>2 DEF Scripts
  <2> QED BY <2>1, <2>3, <2>4, LoadFails, LoadBecomes
<1>9. ASSUME Loader!Timer PROVE LoadInv'
  <2> DEFINE t == [s EXCEPT !.timer = FALSE]
  <2>1. PICK expired \in Loader!Expirations : \E u \in Loader!CheckLoaded(t, expired) : Loader!Become(u)
    BY <1>9, Zenon DEF Loader!Timer, s
  <2>2. LoadOK(t)
    BY <1>1, LoadTimes
  <2> HIDE DEF t
  <2> QED BY <2>1, <2>2, LoadChecks, LoadBecomes
<1> QED BY <1>5, <1>6, <1>7, <1>8, <1>9 DEF Loader!Next

LEMMA LoadRight == ASSUME LoadInv PROVE CallbacksRight
<1>1. /\ loaderLoaded \in SUBSET Loader!Node /\ broken \in [Loader!Node -> SUBSET Mod] /\ told \in SUBSET Req
      /\ loaderLoaded \cap errored = {} /\ Complete(loaderLoaded, broken) /\ InCycles(broken)
      /\ \A r \in told : Loader!Needs(r) \cap errored # {}
  BY DEF LoadInv, LoadOK, Load, Ran, Blamed, Failing, Loader!S
<1>2. Loader!DependenciesFirst
  BY <1>1 DEF Loader!DependenciesFirst, Complete, InCycles
<1>3. Loader!ErrbackMeansFailure
  <2> SUFFICES ASSUME NEW r \in told, r \in loaderLoaded, \A n \in Loader!Needs(r) : broken[n] = {} PROVE FALSE
    BY <1>1 DEF Loader!ErrbackMeansFailure
  <2> DEFINE D == Loader!Needs(r) \cap loaderLoaded
  <2>1. r \in Loader!Node
    BY <1>1
  <2>2. r \in D
    BY <2>1, NeedsIs
  <2>3. ASSUME NEW x \in D PROVE Loader!DepsOf(x) \subseteq D
    <3>1. Loader!DepsOf(x) \subseteq broken[x] \cup loaderLoaded
      BY <1>1 DEF Complete
    <3>2. Loader!DepsOf(x) \subseteq Loader!Needs(r)
      BY <2>1, NeedsIs
    <3> QED BY <3>1, <3>2
  <2>4. Loader!Needs(r) \subseteq D
    BY <2>1, <2>2, <2>3, NeedsIs
  <2> QED BY <1>1, <2>4
<1> QED BY <1>2, <1>3 DEF CallbacksRight

\* A factory or a callback runs after everything it depends on, but for what a
\* cycle takes as matched, and an errback only when something the call needs
\* has failed, however scripts come, fail or are late and whichever cycles are
\* broken (Module.check, onError, checkLoaded and breakCycle of require.js).
THEOREM CallbacksAlwaysRight == Spec => []CallbacksRight
<1>1. Init => LoadInv
  BY LoadInit DEF Init
<1>2. LoadInv /\ [Next]_vars => LoadInv'
  <2>1. [Next]_vars => Loader!Next \/ UNCHANGED loaderVars
    BY Zenon DEF Next, vars
  <2>2. ASSUME LoadInv, UNCHANGED loaderVars PROVE LoadInv'
    <3>1. Loader!S' = Loader!S
      BY <2>2 DEF loaderVars, Loader!S
    <3>2. LoadInv' <=> LoadOK(Loader!S')
      BY DEF LoadInv, LoadOK, Scripts, Ran, Blamed, Complete, InCycles, Failing, Load
    <3> QED BY <2>2, <3>1, <3>2 DEF LoadInv
  <2> QED BY <2>1, <2>2, LoadNext
<1>3. LoadInv => CallbacksRight
  BY LoadRight
<1> QED BY <1>1, <1>2, <1>3, PTL DEF Spec
=============================================================================
