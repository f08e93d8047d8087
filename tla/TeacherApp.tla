----------------------------- MODULE TeacherApp -----------------------------
(***************************************************************************)
(* The teachers' page: one Framework7 view that loads pages by Ajax,       *)
(* prepares them with more Ajax, animates them in and out, and lets a      *)
(* finger swipe back to the page before (framework7.js, "Views", "XHR",    *)
(* "Navigation / Router"; teacher.js, teacher_router.js).                  *)
(*                                                                         *)
(* Everything runs on one thread.  What interleaves is what comes back:    *)
(* answers of the server, ends of animations, and the finger.              *)
(***************************************************************************)
EXTENDS Integers, Sequences, SequencesExt, FiniteSets

CONSTANTS
    NULL,
    Page,        \* page elements, a set of positive integers
    MaxHistory,  \* bound: entries of view.history
    MaxWire,     \* bound: requests for data in flight
    MaxPosts,    \* bound: posts of the form in flight
    Failures     \* ways in which requests fail: a subset of {"http", "network", "data"}

\* Beside two pages there is always another, and NULL is no pair of them.
PagesAssumption ==
    /\ 1 \in Page /\ \A p, q \in Page : \E r \in Page : r \notin {p, q}
    /\ NULL \notin [active : Page, previous : Page, changed : BOOLEAN]

Url == {"root", "course", "edit"}
Where == {"left", "center", "right", "toLeft", "toCenter", "toRight"}

VARIABLES
    view,     \* pages and bookkeeping of the view
    wire,     \* requests in flight for pages and for their data
    cache,    \* app.cache: urls of pages kept
    shown,    \* the loading indicator covers the screen
    touch,    \* the finger on the view: NULL or what it holds
    swipe,    \* released pages moving to their place: NULL or which
    posting,  \* how often the form is being posted
    stored,   \* its data is in the local storage
    crossed,  \* history: a load began with a finger on the view
    lost      \* history: how requests failed

vars == <<view, wire, cache, shown, touch, swipe, posting, stored, crossed, lost>>

-----------------------------------------------------------------------------
(* The view.  dom: its pages in document order; bars: their navbars; url:  *)
(* what each page shows; at: its page-on-... and page-from-... classes;    *)
(* current: view.url; active: view.activePage; free: allowPageChange;      *)
(* anim: animations whose end is awaited.                                  *)

Top(v) == v.dom[Len(v.dom)]
Previous(v) == v.history[Len(v.history) - 1]

Held == (IF touch = NULL THEN {} ELSE {touch.active, touch.previous})
        \cup (IF swipe = NULL THEN {} ELSE {swipe.active, swipe.previous})

Fresh(v) == CHOOSE p \in Page :
    p \notin ToSet(v.dom) \cup Held \cup UNION {{a.new, a.old} : a \in v.anim}

Without(s, p) == IF p \in ToSet(s) THEN RemoveAt(s, CHOOSE i \in DOMAIN s : s[i] = p) ELSE s

\* pageRemoveCallback, navbarRemoveCallback: these pages and navbars are left.
Removed(v, dom, bars) == [v EXCEPT !.dom = dom, !.bars = bars,
    !.at = [p \in Page |-> IF p \in ToSet(v.dom) \ ToSet(dom) THEN {} ELSE v.at[p]]]

Moving(v, left, right, op) == [v EXCEPT
    !.at[left] = IF op = "load" THEN {"toLeft"} ELSE {"toCenter"},
    !.at[right] = IF op = "load" THEN {"toCenter"} ELSE {"toRight"},
    !.anim = @ \cup {[op |-> op, new |-> IF op = "load" THEN right ELSE left,
                                 old |-> IF op = "load" THEN left ELSE right]}]

\* pageInitCallback and pageAnimCallback('before'): the page becomes view.activePage.
Inited(v, p) == [v EXCEPT !.active = p]
Animates(v, p) == [v EXCEPT !.active = p]

KeptTwo(s) == SubSeq(s, IF Len(s) > 1 THEN Len(s) - 1 ELSE 1, Len(s))  \* mutant
Kept(s) == SubSeq(s, Len(s), Len(s))

Entered(v, new, u) == Inited([v EXCEPT
    !.dom = Append(@, new), !.bars = Append(@, new), !.url[new] = u,
    !.current = u, !.history = Append(@, u)], new)

\* router._load: the pages before the last one go, the new one enters from the right.
Loaded(v, u) ==
    LET new == Fresh(v)
        entered == Entered(Removed(v, Kept(v.dom), Kept(v.bars)), new, u)
    IN  Moving(Animates(entered, new), Top(v), new, "load")

InsertedLeft(v, u) ==
    LET new == Fresh(v)
        before(s) == InsertAt(s, Len(s), new)
    IN  [v EXCEPT !.dom = before(@), !.bars = before(@), !.url[new] = u, !.at[new] = {"left"}]

AnimateBack(v) ==
    LET new == v.dom[Len(v.dom) - 1]
    IN  Moving(Animates([v EXCEPT !.current = Previous(v)], new), new, Top(v), "back")

\* router._back: with a page on the left, go to it; otherwise to the page just
\* loaded.  Preloading puts that page on the left and stops there.
Backed(v, op, u) ==
    LET two == IF Len(v.dom) > 1 THEN v ELSE InsertedLeft(v, u)
    IN  IF op = "preload" THEN [two EXCEPT !.free = TRUE] ELSE AnimateBack(two)

Arrive(v, op, u) == IF op = "load" THEN Loaded(v, u) ELSE Backed(v, op, u)

-----------------------------------------------------------------------------
(* Requests.  An outcome is a view and the requests in flight after it.    *)

Out(v, w) == [view |-> v, wire |-> w]
Request(step, op, u) == [step |-> step, op |-> op, url |-> u]
Shows(w) == \E i \in DOMAIN w : w[i].step = "page"

\* xt_router: a course always asks for its data, the form unless it is stored.
Prepared(u) == u = "root" \/ (u = "edit" /\ stored)

Preprocess(v, w, op, u) ==
    IF Prepared(u)
    THEN Out(Arrive(v, op, u), w)
    ELSE Out(v, Append(w, Request("data", op, u)))

\* view.xhr: one page is asked for at a time.
Abort(w) == IF Shows(w) THEN RemoveAt(w, CHOOSE i \in DOMAIN w : w[i].step = "page") ELSE w

\* app.get: from the cache unless the entry is missing or too old.
Get(v, w, op, u) ==
    {Out([v EXCEPT !.free = FALSE], Append(Abort(w), Request("page", op, u)))}
    \cup IF u \in cache THEN {Preprocess([v EXCEPT !.free = FALSE], Abort(w), op, u)} ELSE {}

RouterLoad(v, w, u) ==
    IF ~v.free \/ v.current = u THEN {Out(v, w)} ELSE Get(v, w, "load", u)

RouterBack(v, w, op) ==
    IF ~v.free THEN {Out(v, w)}
    ELSE IF Len(v.dom) > 1 THEN {Out(Backed([v EXCEPT !.free = FALSE], op, NULL), Abort(w))}
    ELSE IF Len(v.history) < 2 THEN {Out(v, Abort(w))}
    ELSE Get(v, w, op, Previous(v))

\* router.afterBack: the old page goes, the url is popped, the page before is
\* preloaded.
AfterBack(v, w, old, new) ==
    LET gone == Removed(v, Without(v.dom, old), Without(v.bars, old))
        back == [gone EXCEPT !.at[new] = (@ \ {"left", "toCenter"}) \cup {"center"},
                             !.free = TRUE, !.history = SubSeq(@, 1, Len(@) - 1)]
    IN  RouterBack(back, w, "preload")

Become(o) == view' = o.view /\ wire' = o.wire

\* beforeSend shows the indicator, whenever a page is really asked for.
ShownAfter(o) == shown' = (shown \/ (Shows(o.wire) /\ ~Shows(wire)))

-----------------------------------------------------------------------------
Init ==
    /\ view = [dom |-> <<1>>, bars |-> <<1>>, url |-> [p \in Page |-> "root"],
               at |-> [p \in Page |-> IF p = 1 THEN {"center"} ELSE {}],
               history |-> <<"root">>, current |-> "root", active |-> 1, free |-> FALSE, anim |-> {}]
    /\ wire = <<Request("page", "load", "course")>>
    /\ cache = {} /\ shown = TRUE
    /\ touch = NULL /\ swipe = NULL
    /\ posting = 0 /\ stored = FALSE
    /\ crossed = FALSE /\ lost = {}

\* A page arrives: it is cached and prepared, then onAjaxComplete.
PageArrives ==
    \E i \in DOMAIN wire :
        /\ wire[i].step = "page"
        /\ UNCHANGED <<touch, swipe, posting, stored, crossed, lost>>
        /\ Become(Preprocess(view, RemoveAt(wire, i), wire[i].op, wire[i].url))
        /\ cache' = cache \cup {wire[i].url}
        /\ shown' = FALSE

\* An error status calls error and complete, a network error calls only error.
Completes(how) == how = "http"

Freed(v) == [v EXCEPT !.free = TRUE]

PageFails ==
    \E i \in DOMAIN wire, how \in Failures \cap {"http", "network"} :
        /\ wire[i].step = "page"
        /\ view' = Freed(view)
        /\ wire' = RemoveAt(wire, i)
        /\ shown' = (shown /\ ~Completes(how))
        /\ lost' = lost \cup {how}
        /\ UNCHANGED <<cache, touch, swipe, posting, stored, crossed>>

DataArrives ==
    \E i \in DOMAIN wire :
        /\ wire[i].step = "data"
        /\ Become(Out(Arrive(view, wire[i].op, wire[i].url), RemoveAt(wire, i)))
        /\ UNCHANGED <<cache, shown, touch, swipe, posting, stored, crossed, lost>>

\* $$.get has no error callback: next is never called.
DataFails ==
    \E i \in DOMAIN wire :
        /\ wire[i].step = "data" /\ "data" \in Failures
        /\ wire' = RemoveAt(wire, i)
        /\ lost' = lost \cup {"data"}
        /\ UNCHANGED <<view, cache, shown, touch, swipe, posting, stored, crossed>>

LoadEnd(a) ==
    /\ a.op = "load"
    /\ view' = [view EXCEPT !.anim = @ \ {a}, !.free = TRUE,
           !.at = [p \in Page |-> CASE p = a.new -> (@[p] \ {"toCenter", "left", "right"}) \cup {"center"}
                                    [] p = a.old -> (@[p] \ {"toLeft", "center", "right"}) \cup {"left"}
                                    [] OTHER -> @[p]]]
    /\ UNCHANGED <<wire, shown>>

BackEnd(a) ==
    /\ a.op = "back"
    /\ \E o \in AfterBack([view EXCEPT !.anim = @ \ {a}], wire, a.old, a.new) :
           Become(o) /\ ShownAfter(o)

\* animationEnd of the page that comes; a page taken out of the document has none.
AnimationEnd ==
    /\ \E a \in view.anim :
           /\ a.new \in ToSet(view.dom)
           /\ LoadEnd(a) \/ BackEnd(a)
    /\ UNCHANGED <<cache, touch, swipe, posting, stored, crossed, lost>>

-----------------------------------------------------------------------------
(* The user: links, the form, and one finger.  Under the indicator nothing *)
(* can be tapped.  Once a load crossed a swipe, what the user does next is *)
(* not explored.                                                           *)

Sees(u) == ~shown /\ touch = NULL /\ ~crossed /\ view.url[Top(view)] = u /\ "center" \in view.at[Top(view)]

\* Tapping userinfo_to_edituserinfo: mainView.router.loadPage('edituserinfo.html').
ToEdit ==
    /\ Sees("course") /\ Len(view.history) < MaxHistory
    /\ UNCHANGED <<cache, touch, swipe, posting, stored, crossed, lost>>
    /\ \E o \in RouterLoad(view, wire, "edit") :
           /\ Become(o) /\ ShownAfter(o)

BackLink ==
    /\ Sees("edit") /\ view.free
    /\ UNCHANGED <<cache, touch, swipe, posting, stored, crossed, lost>>
    /\ \E o \in RouterBack(view, wire, "back") : Become(o) /\ ShownAfter(o)

\* The form is posted with each tap, whether a post is on its way or not.
Confirm ==
    /\ Sees("edit") /\ posting < MaxPosts
    /\ posting' = posting + 1
    /\ UNCHANGED <<view, wire, cache, shown, touch, swipe, stored, crossed, lost>>

\* The post is answered: store the form, loadPage('course.html').
Posted ==
    /\ posting > 0 /\ posting' = posting - 1
    /\ Len(view.history) < MaxHistory /\ Len(wire) < MaxWire
    /\ stored' = TRUE
    /\ \E o \in RouterLoad(view, wire, "course") :
           /\ Become(o) /\ ShownAfter(o)
           /\ crossed' = (crossed \/ (touch # NULL /\ view.free /\ ~o.view.free))
    /\ UNCHANGED <<cache, touch, swipe, lost>>

PostRefused ==
    /\ posting > 0 /\ posting' = posting - 1
    /\ UNCHANGED <<view, wire, cache, shown, touch, swipe, stored, crossed, lost>>

TouchStart ==
    /\ ~shown /\ ~crossed /\ touch = NULL /\ swipe = NULL /\ view.free
    /\ touch' = [moved |-> FALSE, active |-> Top(view), previous |-> Top(view)]
    /\ UNCHANGED <<view, wire, cache, shown, swipe, posting, stored, crossed, lost>>

\* The first move finds the page on the left and holds it, or lets go.
TouchMove ==
    /\ touch # NULL /\ ~touch.moved
    /\ LET left == {p \in ToSet(view.dom) : "left" \in view.at[p]}
       IN  touch' = IF left = {} THEN NULL
                    ELSE [touch EXCEPT !.moved = TRUE, !.previous = CHOOSE p \in left : TRUE]
    /\ UNCHANGED <<view, wire, cache, shown, swipe, posting, stored, crossed, lost>>

\* The finger is lifted: without a move, or back where it was, nothing happens.
TouchEnd ==
    /\ touch # NULL /\ touch' = NULL
    /\ UNCHANGED <<view, wire, cache, shown, swipe, posting, stored, crossed, lost>>

\* Lifted far enough (changed) or not, the pages slide to their place.
Release(changed) ==
    /\ touch # NULL /\ touch.moved /\ touch' = NULL
    /\ swipe' = [active |-> touch.active, previous |-> touch.previous, changed |-> changed]
    /\ LET slid == [view EXCEPT !.current = Previous(view),
                        !.at = [p \in Page |->
                            CASE p = touch.active -> (@[p] \ {"center"}) \cup {"right"}
                              [] p = touch.previous -> (@[p] \ {"left"}) \cup {"center"}
                              [] OTHER -> @[p]]]
       IN  view' = [(IF changed THEN Animates(slid, touch.previous) ELSE view) EXCEPT !.free = FALSE]
    /\ UNCHANGED <<wire, cache, shown, posting, stored, crossed, lost>>

TransitionEnd ==
    /\ swipe # NULL /\ swipe' = NULL
    /\ swipe.active \in ToSet(view.dom)
    /\ UNCHANGED <<cache, touch, posting, stored, crossed, lost>>
    /\ \/ /\ ~swipe.changed
          /\ view' = [view EXCEPT !.free = TRUE]
          /\ UNCHANGED <<wire, shown>>
       \/ /\ swipe.changed
          /\ \E o \in AfterBack(view, wire, swipe.active, swipe.previous) :
                 Become(o) /\ ShownAfter(o)

Answers == PageArrives \/ PageFails \/ DataArrives \/ DataFails
Ends == AnimationEnd \/ TransitionEnd
User == ToEdit \/ BackLink \/ Confirm \/ TouchStart \/ TouchMove
        \/ TouchEnd \/ \E changed \in BOOLEAN : Release(changed)

Next == Answers \/ Ends \/ User \/ Posted \/ PostRefused

Spec == Init /\ [][Next]_vars

\* Requests are answered or fail, animations end.
FairSpec == Spec /\ WF_vars(PageArrives \/ PageFails) /\ WF_vars(DataArrives \/ DataFails)
                 /\ WF_vars(AnimationEnd) /\ WF_vars(TransitionEnd)

-----------------------------------------------------------------------------
TypeOK ==
    /\ view.dom \in Seq(Page) /\ view.bars \in Seq(Page) /\ view.history \in Seq(Url)
    /\ view.url \in [Page -> Url] /\ view.at \in [Page -> SUBSET Where]
    /\ view.current \in Url /\ view.active \in Page /\ view.free \in BOOLEAN
    /\ \A i \in DOMAIN wire : wire[i] \in [step : {"page", "data"}, op : {"load", "back", "preload"}, url : Url]
    /\ cache \subseteq Url /\ lost \subseteq Failures
    /\ posting \in 0..MaxPosts /\ {shown, stored, crossed} \subseteq BOOLEAN

\* When nothing is going on, what is seen, the address of the view and its
\* history agree, the page on the left is the one before, and each page has
\* its own navbar - provided no load began under a finger.
Settled ==
    view.free /\ view.anim = {} /\ touch = NULL /\ swipe = NULL /\ ~crossed =>
        /\ view.bars = view.dom
        /\ view.at[Top(view)] = {"center"}
        /\ view.active = Top(view) /\ view.current = view.url[view.active]
        /\ view.current = view.history[Len(view.history)]
        /\ Len(view.dom) > 1 => /\ Len(view.dom) = 2 /\ view.at[view.dom[1]] = {"left"}
                                /\ view.url[view.dom[1]] = Previous(view)

\* The indicator covers the screen only while a page is awaited, or after a
\* network error, which calls no onAjaxComplete, or aborted under a finger.
IndicatorMeansLoading == shown => Shows(wire) \/ "network" \in lost \/ crossed

\* The view lets pages change again, unless data of a page was lost.
FreeAgain == ~view.free ~> (view.free \/ "data" \in lost \/ crossed)
=============================================================================
