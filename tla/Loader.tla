------------------------------- MODULE Loader -------------------------------
(***************************************************************************)
(* How RequireJS loads the modules of a page (require.js, newContext):     *)
(* scripts are fetched in any order, a factory runs when its dependencies  *)
(* are defined, cycles are broken when nothing is left to load, and what   *)
(* does not come in waitSeconds is given up.  Factories themselves do not  *)
(* fail; loader plugins, bundles and fallback paths are left out.          *)
(***************************************************************************)
EXTENDS Naturals, Sequences, SequencesExt, FiniteSets

CONSTANTS
    Mod,       \* modules, a script each
    Req,       \* top-level calls of require, each with an errback
    deps,      \* [Mod \cup Req -> Seq(Mod)]
    Shim,      \* modules of the shim config: their script is fetched after deps
    Failures   \* what may happen to scripts: a subset of {"error", "timeout"}

\* fetch makes a call of require of its own for the dependencies of a shim.
Loads(m) == <<m>>
Caller == Req \cup {Loads(m) : m \in Shim}
Deps(n) == IF n \in Mod \cup Req THEN deps[n] ELSE deps[CHOOSE m \in Shim : Loads(m) = n]
DepsOf(n) == ToSet(Deps(n))
Node == Mod \cup Caller

\* A call has no name that a module has, and nothing needs more than all modules.
LoaderAssumption ==
    /\ IsFiniteSet(Mod) /\ IsFiniteSet(Req) /\ Shim \subseteq Mod
    /\ Mod \cap Caller = {} /\ Req \cap {Loads(m) : m \in Shim} = {}
    /\ deps \in [Mod \cup Req -> Seq(Mod)]
    /\ \A n \in Mod \cup Req : Len(deps[n]) <= Cardinality(Mod)

VARIABLES
    ticks,     \* calls of require that wait for their tick
    enabled,   \* modules and calls that are wanted
    inited,    \* those whose dependencies are known
    loaded,    \* context.defined, and the calls whose callback has run
    broken,    \* dependencies matched, undefined, to break a cycle
    errored,   \* modules with an error
    listens,   \* <<n, m>>: n is told of the error of m
    told,      \* calls whose errback has run
    fetched,   \* urlFetched: scripts that were asked for
    onWire,    \* scripts still to come
    timer,     \* checkLoadedTimeoutId
    checking   \* inCheckLoaded

loaderVars == <<ticks, enabled, inited, loaded, broken, errored, listens, told,
                fetched, onWire, timer, checking>>

S == [ticks |-> ticks, enabled |-> enabled, inited |-> inited, loaded |-> loaded,
      broken |-> broken, errored |-> errored, listens |-> listens, told |-> told,
      fetched |-> fetched, onWire |-> onWire, timer |-> timer, checking |-> checking]

Become(s) ==
    /\ ticks' = s.ticks /\ enabled' = s.enabled /\ inited' = s.inited
    /\ loaded' = s.loaded /\ broken' = s.broken /\ errored' = s.errored
    /\ listens' = s.listens /\ told' = s.told /\ fetched' = s.fetched
    /\ onWire' = s.onWire /\ timer' = s.timer /\ checking' = s.checking

Init ==
    /\ ticks = {} /\ enabled = {} /\ inited = {} /\ loaded = {}
    /\ broken = [n \in Node |-> {}]
    /\ errored = {} /\ listens = {} /\ told = {}
    /\ fetched = {} /\ onWire = {} /\ timer = FALSE /\ checking = FALSE

\* What set becomes when grow has nothing more to add.
Limit(set, grow) ==
    LET grown[k \in 0..Cardinality(Node)] ==
            [X \in SUBSET Node |->
                IF k = 0 \/ grow[X] \subseteq X THEN X ELSE grown[k - 1][X \cup grow[X]]]
    IN  grown[Cardinality(Node)][set]

Closure(set, next) == Limit(set, [X \in SUBSET Node |-> UNION {next[n] : n \in X}])

-----------------------------------------------------------------------------
(* Module.enable, check, fetch, emit.  An operator gives the set of states *)
(* that may come out.                                                      *)

\* A module hears of its dependencies' errors if someone listened to its own
\* when its dependencies became known; a call made by fetch has no errback.
Hears(s, n) == n \in Req \/ (n \in Mod /\ \E p \in s.listens : p[2] = n)

\* Enabling n enables what it needs, and asks for the scripts that are not there.
Enable(s, n) ==
    LET wanted == Closure({n}, [x \in Node |-> IF x \in s.inited \cup {n} THEN DepsOf(x) ELSE {}])
        new == wanted \ s.enabled
        fetch == {m \in new \cap Mod : m \notin s.inited}
    IN  [s EXCEPT !.enabled = @ \cup wanted,
                  !.ticks = @ \cup {Loads(m) : m \in fetch \cap Shim},
                  !.onWire = @ \cup ((fetch \ Shim) \ s.fetched),
                  !.fetched = @ \cup (fetch \ Shim)]

\* ms have an error to tell: all who listen, directly or not, hear it once.
Tell(s, ms) ==
    LET heard == Closure(ms, [x \in Node |-> {n \in Mod \cup Req : <<n, x>> \in s.listens}])
    IN  [s EXCEPT !.told = @ \cup (heard \cap Req), !.listens = {p \in @ : p[2] \notin heard}]

Fail(s, ms) == Tell([s EXCEPT !.errored = @ \cup ms], ms)

\* Listening to a module that has failed already is to hear it at once.
Listens(s, n) ==
    IF ~Hears(s, n) THEN s
    ELSE LET heard == [s EXCEPT !.listens = @ \cup {<<n, m>> : m \in DepsOf(n) \ s.errored}]
         IN  IF DepsOf(n) \cap s.errored = {} THEN heard ELSE Tell(heard, {n})

MatchedEarly(s, n, done) == s.broken[n] \cup s.inited  \* mutant
Matched(s, n, done) == s.broken[n] \cup done

\* Every module or call whose dependencies are all matched runs, which may
\* complete others.
AllLoaded(s) ==
    LET CanRun(n, done) == /\ n \in s.enabled \ s.errored
                           /\ DepsOf(n) \subseteq Matched(s, n, done)
    IN  Limit(s.loaded, [done \in SUBSET Node |-> {n \in s.inited : CanRun(n, done)}])

Settle(s) ==
    LET all == AllLoaded(s)
        load == {m \in Shim : Loads(m) \in all \ s.loaded} \ s.fetched
    IN  [s EXCEPT !.loaded = all, !.onWire = @ \cup load, !.fetched = @ \cup load]

\* init: the dependencies of n are known.
Inited(s, n) ==
    IF n \in s.inited THEN {s}
    ELSE {Settle(t) : t \in {Enable(Listens(u, n), n) : u \in {[s EXCEPT !.inited = @ \cup {n}]}}}

-----------------------------------------------------------------------------
(* checkLoaded and breakCycle.                                             *)

Waiting(s) == (s.enabled \ s.loaded) \ s.errored
Loading(s) == {m \in Waiting(s) \cap Mod : m \notin s.inited}

\* breakCycle walks from n through what is not yet loaded.  A dependency met
\* again on the way is taken as matched, without a value; what can then run
\* runs at once.
Walk == [loaded : SUBSET Node, broken : [Node -> SUBSET Mod],
         traced : SUBSET Node, processed : SUBSET Node]

Run(s, w) == [w EXCEPT !.loaded = AllLoaded([s EXCEPT !.loaded = w.loaded, !.broken = w.broken])]
Met(s, w, n, m) == m \in w.loaded \cup w.processed \cup w.broken[n] \cup s.errored

\* The walk through from, whose dependencies are met one after the other.  No
\* module is walked through twice, which bounds its steps.
Steps == (Cardinality(Mod) + 1) * (Cardinality(Mod) + 1)
Walked(s, from, start) ==
    LET walk[d \in 0..Steps] == [n \in Node |-> [i \in Nat |-> [w \in Walk |->
            IF d = 0 \/ i > Len(Deps(n)) THEN [w EXCEPT !.processed = @ \cup {n}]
            ELSE LET m == Deps(n)[i]
                 IN  walk[d - 1][n][i + 1][
                        IF Met(s, w, n, m) THEN w
                        ELSE IF m \in w.traced THEN Run(s, [w EXCEPT !.broken[n] = @ \cup {m}])
                        ELSE walk[d - 1][m][1][[w EXCEPT !.traced = @ \cup {m}]]]]]]
    IN  walk[Steps][from][1][start]

BreakCycles(s, calls) ==
    LET all[k \in 0..Len(calls)] ==
            IF k = 0 THEN [loaded |-> s.loaded, broken |-> s.broken, traced |-> {}, processed |-> {}]
            ELSE Walked(s, calls[k], [all[k - 1] EXCEPT !.traced = {calls[k]}, !.processed = {}])
    IN  all[Len(calls)].broken

\* The calls are walked from in some order.
CycleBreaks(s) == {Settle(t) : t \in
    {[s EXCEPT !.broken = BreakCycles(s, calls)] : calls \in SetToSeqs(Waiting(s) \cap Caller)}}

Outcomes(s) == IF Loading(s) = {} THEN CycleBreaks(s) ELSE {s}

CheckLoaded(s, expired) ==
    IF s.checking THEN {s}
    ELSE IF expired /\ Loading(s) # {} THEN {Fail([s EXCEPT !.checking = TRUE], Loading(s))}
    ELSE {[t EXCEPT !.timer = @ \/ Loading(s) # {}] : t \in Outcomes(s)}

Expirations == IF "timeout" \in Failures THEN BOOLEAN ELSE {FALSE}

-----------------------------------------------------------------------------
\* A call of require waits for the next tick.
Require(r) ==
    /\ r \notin ticks \cup inited
    /\ Become([S EXCEPT !.ticks = @ \cup {r}])

Tick(c) ==
    /\ c \in ticks
    /\ \E i \in Inited([S EXCEPT !.ticks = @ \ {c}, !.enabled = @ \cup {c}], c) :
       \E s \in CheckLoaded(i, FALSE) : Become(s)

\* onScriptLoad: define, or the shim in its place, then completeLoad.
ScriptLoads(m) ==
    /\ m \in onWire
    /\ \E expired \in Expirations, i \in Inited([S EXCEPT !.onWire = @ \ {m}], m) :
       \E s \in CheckLoaded(i, expired) : Become(s)

ScriptFails(m) ==
    /\ m \in onWire /\ "error" \in Failures
    /\ Become(Fail([S EXCEPT !.onWire = @ \ {m}], {m}))

\* The script is late: checkLoaded runs every 50 ms while something loads.
Timer ==
    /\ timer
    /\ \E expired \in Expirations : \E s \in CheckLoaded([S EXCEPT !.timer = FALSE], expired) : Become(s)

Next ==
    \/ \E r \in Req : Require(r)
    \/ \E c \in Caller : Tick(c)
    \/ \E m \in Mod : ScriptLoads(m) \/ ScriptFails(m)
    \/ Timer

Fairness ==
    /\ WF_loaderVars(\E c \in Caller : Tick(c))
    /\ WF_loaderVars(\E m \in Mod : ScriptLoads(m) \/ ScriptFails(m))

Spec == Init /\ [][Next]_loaderVars /\ Fairness

-----------------------------------------------------------------------------
Needs(n) == Closure({n}, [x \in Node |-> DepsOf(x)])

\* A factory runs after those of all its dependencies, except that in a cycle
\* one of them comes without.
DependenciesFirst ==
    \A n \in loaded : \A m \in DepsOf(n) :
        m \in loaded \/ n \in Needs(m)

\* The calls of require get their modules in the end, cycles and all, unless a
\* script was lost.
Asked == (Req \cap (ticks \cup inited)) \ loaded
RequireAnswered == Asked # {} ~> (Asked = {} \/ errored # {})

\* The errback of a call runs only for a module it needs that has failed; its
\* callback runs as well only when a cycle was broken behind the failure.
ErrbackMeansFailure ==
    \A r \in told :
        /\ Needs(r) \cap errored # {}
        /\ r \in loaded => \E n \in Needs(r) : broken[n] # {}

\* "Do not bother if this call was a result of a cycle break" (require.js:644):
\* checkLoaded does its work whenever it is called from outside.
ChecksAgain == ~checking
=============================================================================
