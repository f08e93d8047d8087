----------------------------- MODULE MCLibraries ------------------------------
(***************************************************************************)
(* Libraries that have to end what they began: the loader of scripts, the  *)
(* history of the browser, uploads, the modals and the carousel of         *)
(* bootstrap.  They share no state, so the component named by on takes all *)
(* the steps.                                                              *)
(***************************************************************************)
EXTENDS Integers, TLC

CONSTANTS
    NULL,
    Mod, Req, deps, Shim, Failures,                            \* Loader
    Fragment, First, Routes, Later, MaxEntries, MaxEvents,     \* Router
    Upload, Vetoed, Setting, Size, Chunk,                      \* Uploads
    Modal, Backed, MaxBackdrops, MaxPad,                       \* BootstrapModal
    Items, Wraps, MaxWaits, MaxSlids,                          \* Carousel
    modA, modB, modC, modD, reqA, reqB, reqD                   \* modules and calls of the runs

VARIABLES
    on,
    ticks, enabled, inited, loaderLoaded, broken, errored, listens, told, fetched, onWire,
    timer, checking,
    mode, started, fragment, handlers, entries, routerAt, events, routerLoaded, shown, quiet,
    setting, upload, slots, chain, sending, running, global, batch,
    isShown, backdrop, originalBodyPad, displayed, hiding, backdrops, waits, modalOpen, pad,
    focus, odd,
    wrap, active, next, sliding, interval, paused, hovered, queue, slids, resumed

loaderVars == <<ticks, enabled, inited, loaderLoaded, broken, errored, listens, told, fetched,
                onWire, timer, checking>>
routerVars == <<mode, started, fragment, handlers, entries, routerAt, events, routerLoaded,
                shown, quiet>>
uploadsVars == <<setting, upload, slots, chain, sending, running, global, batch>>
modalVars == <<isShown, backdrop, originalBodyPad, displayed, hiding, backdrops, waits,
               modalOpen, pad, focus, odd>>
carouselVars == <<wrap, active, next, sliding, interval, paused, hovered, queue, slids,
                  resumed>>

Loader == INSTANCE Loader WITH loaded <- loaderLoaded

Router == INSTANCE Router WITH at <- routerAt, loaded <- routerLoaded

Uploads == INSTANCE Uploads

Modals == INSTANCE BootstrapModal

Carousel == INSTANCE Carousel

ASSUME AssumptionOfLoader == Loader!LoaderAssumption
ASSUME AssumptionOfRouter == Router!RouterAssumption
ASSUME AssumptionOfUploads == Uploads!UploadsAssumption
ASSUME AssumptionOfModals == Modals!ModalsAssumption
ASSUME AssumptionOfCarousel == Carousel!CarouselAssumption

Component == {"loader", "router", "uploads", "modal", "carousel"}

\* A component that takes no steps starts in one way.
Init ==
    /\ on \in Component
    /\ Loader!Init
    /\ Router!Init /\ (on # "router" => mode = "push")
    /\ Uploads!Init /\ (on # "uploads" => setting = CHOOSE s \in Setting : TRUE)
    /\ Modals!Init
    /\ Carousel!Init /\ (on # "carousel" => wrap = (TRUE \in Wraps) /\ interval)

Next ==
    \/ /\ on = "loader" /\ Loader!Next
       /\ UNCHANGED <<on, routerVars, uploadsVars, modalVars, carouselVars>>
    \/ /\ on = "router" /\ Router!Next
       /\ UNCHANGED <<on, loaderVars, uploadsVars, modalVars, carouselVars>>
    \/ /\ on = "uploads" /\ Uploads!Next
       /\ UNCHANGED <<on, loaderVars, routerVars, modalVars, carouselVars>>
    \/ /\ on = "modal" /\ Modals!Next
       /\ UNCHANGED <<on, loaderVars, routerVars, uploadsVars, carouselVars>>
    \/ /\ on = "carousel" /\ Carousel!Next
       /\ UNCHANGED <<on, loaderVars, routerVars, uploadsVars, modalVars>>

vars == <<on, loaderVars, routerVars, uploadsVars, modalVars, carouselVars>>

Spec ==
    /\ Init /\ [][Next]_vars
    /\ WF_loaderVars(on = "loader" /\ \E c \in Loader!Caller : Loader!Tick(c))
    /\ WF_loaderVars(on = "loader" /\ \E m \in Mod : Loader!ScriptLoads(m) \/ Loader!ScriptFails(m))
    /\ WF_routerVars(on = "router" /\ Router!Heard)
    /\ WF_routerVars(on = "router" /\ Router!Interval)
    /\ WF_uploadsVars(on = "uploads" /\ \E u \in Upload : Uploads!ChunkDone(u))
    /\ \A m \in Modal : WF_modalVars(on = "modal" /\ Modals!HideEnds(m))
    /\ \A m \in Modal :
          WF_modalVars(on = "modal" /\ \E w \in Modals!Wait : w.modal = m /\ Modals!BackdropEnds(w))
    /\ WF_carouselVars(on = "carousel" /\ Carousel!TransitionEnd)
    /\ WF_carouselVars(on = "carousel" /\ Carousel!Slid)

-----------------------------------------------------------------------------
\* Callbacks run after what they need, errbacks for what failed.
CallbacksRight == Loader!DependenciesFirst /\ Loader!ErrbackMeansFailure

\* The history knows the address, and its route is the one that ran last.
AddressShown == Router!InStep /\ Router!RouteShown

\* As many uploads are sent as the options allow, and the progress is theirs.
UploadsCounted == Uploads!Throttled /\ Uploads!ProgressAdds

\* Modals leave nothing behind: no backdrop, no body that does not scroll.
NothingLeft == Modals!HiddenIsGone /\ Modals!BodyRestored

\* The carousel keeps what it is asked for, and rests under the pointer.
CarouselObeys == Carousel!RequestsKept /\ Carousel!HoverHolds

\* What is asked for comes: modules, routes, uploads, modals, items.
Served ==
    /\ Loader!RequireAnswered /\ Router!AddressKnown /\ Uploads!WaitingIsSent
    /\ Modals!ShownAppears /\ Carousel!SlidingEnds

\* "set the following option to an integer greater than 0" (jquery.fileupload.js)
LimitKept == Uploads!LimitKept

-----------------------------------------------------------------------------
(* The runs.  Two modules need each other, one is behind a shim, and the   *)
(* options of uploads are used one at a time.                              *)

Deps == (reqA :> <<modA>>) @@ (reqB :> <<modB>>) @@ (reqD :> <<modD>>)
        @@ (modA :> <<modB, modC>>) @@ (modB :> <<modA>>) @@ (modC :> <<modD>>) @@ (modD :> <<>>)

RouteTable == <<[name |-> "old", matches |-> {"o"}, to |-> "x"],
                [name |-> "any", matches |-> {"o", "x", "y"}, to |-> NULL]>>
RouteOfY == [name |-> "later", matches |-> {"y"}, to |-> "x"]

UploadSettings == {[limit |-> 2, sequential |-> FALSE], [limit |-> 0, sequential |-> TRUE],
                   [limit |-> 1, sequential |-> FALSE]}
=============================================================================
