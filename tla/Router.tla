------------------------------- MODULE Router -------------------------------
(***************************************************************************)
(* Backbone's Router and History (backbone.js): a fragment of the address  *)
(* is mapped to the first of the routes that matches it, and the address   *)
(* follows the page.  The user, too, moves the address: by links, and back *)
(* and forward; the page hears of it later, or looks every 50 ms.  Nothing *)
(* of old Internet Explorer's frame, fragments need no encoding.           *)
(***************************************************************************)
EXTENDS Integers, Sequences, SequencesExt

CONSTANTS
    NULL,
    Fragment,   \* fragments of the address
    First,      \* the one the page is opened at
    Routes,     \* router.routes, in order: [name, matches, to], see Run
    Later,      \* a route added while the page is used
    MaxEntries, \* entries of the browser's history
    MaxEvents   \* events of the browser not heard yet

\* where a page leads that the handlers hs are asked for
Picked(hs, f) == {k \in DOMAIN hs : f \in hs[k].matches}
Led(hs, f) ==
    IF Picked(hs, f) = {} THEN NULL
    ELSE hs[CHOOSE k \in Picked(hs, f) : \A j \in Picked(hs, f) : k <= j].to

RouterAssumption ==
    /\ First \in Fragment /\ NULL \notin Fragment
    /\ Routes \in Seq([name : STRING, matches : SUBSET Fragment, to : Fragment \cup {NULL}])
    /\ Later \in [name : STRING, matches : SUBSET Fragment, to : Fragment \cup {NULL}]
    /\ \A hs \in {Routes, <<Later>> \o Routes}, f \in Fragment :
          Led(hs, f) # NULL => Led(hs, Led(hs, f)) = NULL

VARIABLES
    mode,       \* how changes are noticed: "push", "hash", "poll"
    started,    \* History.started
    fragment,   \* history.fragment
    handlers,   \* history.handlers
    entries, at,\* external: the browser's history and where in it the page is
    events,     \* popstate or hashchange events to come
    loaded,     \* the fragment loadUrl was last called for
    shown,      \* the route that ran last
    quiet       \* history: the fragment was set by navigate without trigger

routerVars == <<mode, started, fragment, handlers, entries, at, events, loaded, shown, quiet>>

Here == entries[at]
B == [entries |-> entries, at |-> at, events |-> events, fragment |-> fragment,
      loaded |-> loaded, shown |-> shown, quiet |-> quiet]
Become(page) == \E b \in {page} :
    /\ entries' = b.entries /\ at' = b.at /\ events' = b.events /\ fragment' = b.fragment
    /\ loaded' = b.loaded /\ shown' = b.shown /\ quiet' = b.quiet
    /\ Len(b.entries) <= MaxEntries /\ b.events <= MaxEvents

-----------------------------------------------------------------------------
\* route: what is added later is tried first.
Route(hs, r) == <<r>> \o hs

\* The routes are popped off the end, and each is put in front of those that
\* were declared after it.
BindRoutes == Routes

Matching(f) == Picked(handlers, f)

\* Putting a fragment in the address: in place of the entry, or after it.  A
\* change of the hash is an event, pushState is none.
Addressed(b, f, replace) ==
    LET b1 == IF replace THEN [b EXCEPT !.entries[b.at] = f]
              ELSE [b EXCEPT !.entries = Append(SubSeq(@, 1, b.at), f), !.at = @ + 1]
    IN  [b1 EXCEPT !.events = IF mode = "hash" THEN @ + 1 ELSE @]

\* navigate, up to the call of loadUrl.
Navigated(b, f, replace) ==
    Addressed([b EXCEPT !.fragment = f, !.quiet = TRUE], f, replace)

\* A fragment that is loaded runs its route; the route may go elsewhere, with
\* trigger and replace, which loads that.
LoadsOnly(b, f) == [b EXCEPT !.loaded = f, !.quiet = FALSE]  \* mutant
Loads(b, f) == [b EXCEPT !.fragment = f, !.loaded = f, !.quiet = FALSE]
Runs(b, f) ==
    IF Matching(f) = {} THEN b
    ELSE LET h == handlers[CHOOSE k \in Matching(f) : \A j \in Matching(f) : k <= j]
         IN  [b EXCEPT !.shown = h.name]
Goes(f) == Led(handlers, f)

\* loadUrl; a route goes elsewhere once.
LoadUrl(b, f) ==
    LET b1 == Runs(Loads(b, f), f)
        to == Goes(f)
    IN  IF to = NULL \/ to = f THEN b1
        ELSE Runs(Loads(Navigated(b1, to, TRUE), to), to)

-----------------------------------------------------------------------------
\* start: the page is opened at First.
Init ==
    /\ mode \in {"push", "hash", "poll"} /\ started = FALSE
    /\ handlers = BindRoutes /\ entries = <<First>> /\ at = 1 /\ events = 0
    /\ fragment = NULL /\ loaded = NULL /\ shown = NULL /\ quiet = FALSE

\* start, silently or not; the events of the time before are not heard.
Start(silent) ==
    /\ ~started /\ started' = TRUE
    /\ LET b == [B EXCEPT !.fragment = Here, !.events = 0, !.quiet = silent]
       IN  Become(IF silent THEN b ELSE LoadUrl(b, Here))
    /\ UNCHANGED <<mode, handlers>>

Stop ==
    /\ started /\ started' = FALSE /\ Become([B EXCEPT !.events = 0])
    /\ UNCHANGED <<mode, handlers>>

Navigate(f, trigger, replace) ==
    /\ started /\ fragment # f
    /\ LET b == Navigated(B, f, replace) IN Become(IF trigger THEN LoadUrl(b, f) ELSE b)
    /\ UNCHANGED <<mode, started, handlers>>

\* checkUrl, on an event or by the interval.
Checked(b) == IF Here = fragment THEN b ELSE LoadUrl(b, Here)
Heard ==
    /\ started /\ mode # "poll" /\ events > 0 /\ Become(Checked([B EXCEPT !.events = @ - 1]))
    /\ UNCHANGED <<mode, started, handlers>>
Interval ==
    /\ started /\ mode = "poll" /\ Become(Checked(B)) /\ UNCHANGED <<mode, started, handlers>>

RouteAdded ==
    /\ Later \notin Range(handlers) /\ handlers' = Route(handlers, Later)
    /\ UNCHANGED <<mode, started, fragment, entries, at, events, loaded, shown, quiet>>

\* The user's moves.
Told(b) == IF started /\ mode # "poll" THEN [b EXCEPT !.events = @ + 1] ELSE b
Link(f) ==
    /\ f # Here /\ Become(Told([B EXCEPT !.entries = Append(SubSeq(@, 1, at), f), !.at = @ + 1]))
    /\ UNCHANGED <<mode, started, handlers>>
Travel(to) ==
    /\ to \in DOMAIN entries \ {at} /\ Become(Told([B EXCEPT !.at = to]))
    /\ UNCHANGED <<mode, started, handlers>>

Next ==
    \/ \E silent \in BOOLEAN : Start(silent)
    \/ Stop \/ Heard \/ Interval \/ RouteAdded
    \/ \E f \in Fragment, trigger, replace \in BOOLEAN : Navigate(f, trigger, replace)
    \/ \E f \in Fragment : Link(f)
    \/ \E to \in 1..MaxEntries : Travel(to)

Spec == Init /\ [][Next]_routerVars /\ WF_routerVars(Heard) /\ WF_routerVars(Interval)

-----------------------------------------------------------------------------
\* With no event to come the history knows the address, whatever the user and
\* the page did at once.
InStep == started /\ mode # "poll" /\ events = 0 => fragment = Here

\* What ran last is the route of the address, the first one declared or one
\* added later, and never one that goes elsewhere; unless the page chose not
\* to run it.
RouteShown ==
    started /\ mode # "poll" /\ events = 0 /\ ~quiet =>
        /\ loaded = Here
        /\ LET declared == {k \in DOMAIN Routes : Here \in Routes[k].matches}
               first == {Routes[k] : k \in {k \in declared : \A j \in declared : k <= j}}
           IN  declared # {} =>
                   \E r \in first \cup {Later} : r.name = shown /\ Here \in r.matches /\ r.to = NULL

\* An address the page did not make itself comes to be known.
AddressKnown == (started /\ fragment # Here) ~> (~started \/ fragment = Here)
=============================================================================
