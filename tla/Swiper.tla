------------------------------- MODULE Swiper -------------------------------
(***************************************************************************)
(* The swiper of the cards (hack_swiper.js): slides in a row that follow a *)
(* finger and glide to a slide, in a loop or not, by themselves or not,    *)
(* while slides are added and removed and the window changes its size.     *)
(* One slide per view and per group, no free mode.  A slide is `size`      *)
(* long; a drag beyond the ends is held back to one unit.                  *)
(***************************************************************************)
EXTENDS Integers, Sequences, FiniteSets

CONSTANTS
    NULL,
    Setting,  \* to check: [loop, auto: "none", "stops", "stays", uses, slides, sizes]
    Slide, MaxSlides, MaxTimers

SwiperAssumption ==
    /\ Setting \subseteq [loop : BOOLEAN, auto : {"none", "stops", "stays"}, uses : SUBSET {"edit", "lock", "start"},
                          slides : Seq(Slide) \ {<<>>}, sizes : SUBSET (Nat \ {0})]
    /\ NULL \notin [moved : BOOLEAN, start : Int, diff : Int, current : Int] \cup [from : Int, to : Int]

VARIABLES
    opt,
    slides, size,    \* the slides without their duplicates
    active,          \* activeIndex, duplicates counted
    translate,
    isBeginning, isEnd,
    trans,           \* external: transition of the wrapper, [from, to], NULL for none
    animating,
    ends, resumes,   \* onTransitionEnd and autoplay wait for the end of a transition
    touch,           \* [moved, start, diff, current], NULL if not isTouched
    lock,            \* directions not allowed
    autoplaying, paused,
    timers, id,      \* live timeouts of autoplay, autoplayTimeoutId (0: undefined)
    loose,           \* history: what the finger holds has no slide to return to
    stuck,           \* history: let go where it was, between slides
    restarted        \* history: started again while paused

swiperVars == <<opt, slides, size, active, translate, isBeginning, isEnd, trans, animating, ends, resumes,
                touch, lock, autoplaying, paused, timers, id, loose, stuck, restarted>>

S == [slides |-> slides, size |-> size, active |-> active, translate |-> translate,
      isBeginning |-> isBeginning, isEnd |-> isEnd,
      trans |-> trans, animating |-> animating, ends |-> ends, resumes |-> resumes,
      touch |-> touch, lock |-> lock, autoplaying |-> autoplaying, paused |-> paused,
      timers |-> timers, id |-> id, loose |-> loose, stuck |-> stuck,
      restarted |-> restarted]
Become(s) ==
    /\ slides' = s.slides /\ size' = s.size /\ active' = s.active /\ translate' = s.translate
    /\ isBeginning' = s.isBeginning /\ isEnd' = s.isEnd
    /\ trans' = s.trans /\ animating' = s.animating /\ ends' = s.ends /\ resumes' = s.resumes
    /\ touch' = s.touch /\ lock' = s.lock /\ autoplaying' = s.autoplaying /\ paused' = s.paused
    /\ timers' = s.timers /\ id' = s.id /\ loose' = s.loose /\ stuck' = s.stuck
    /\ restarted' = s.restarted /\ UNCHANGED opt

Clamp(lo, n, hi) == IF n < lo THEN lo ELSE IF n > hi THEN hi ELSE n

-----------------------------------------------------------------------------
(* Slides and positions; in a loop one duplicate stands at either end.     *)

Looped == IF opt.loop THEN 1 ELSE 0
LastIndex(s) == Len(s.slides) + 2 * Looped - 1
Grid(s, i) == s.size * i
MaxTranslate(s) == -Grid(s, LastIndex(s))
Shown(s) ==
    IF opt.loop THEN s.slides[((s.active - 1) % Len(s.slides)) + 1] ELSE s.slides[s.active + 1]

\* getWrapperTranslate: where the slides are seen.
Seen(s) ==
    IF s.trans = NULL THEN {s.translate}
    ELSE (s.trans.from .. s.trans.to) \cup (s.trans.to .. s.trans.from)

\* updateActiveIndex
Nearest(s) ==
    LET half == (s.size - 2 * s.translate) \div (2 * s.size) IN Clamp(0, half, LastIndex(s))

(* Autoplay.                                                               *)

Autoplay(s) ==
    LET t == CHOOSE n \in 1..Cardinality(s.timers) + 1 : n \notin s.timers
    IN  [s EXCEPT !.timers = @ \cup {t}, !.id = t]
StopAutoplay(s) ==
    IF s.id = 0 THEN s ELSE [s EXCEPT !.timers = @ \ {s.id}, !.autoplaying = FALSE, !.id = 0]
PauseAutoplay(s, timed) ==
    LET c == [s EXCEPT !.timers = @ \ {s.id}]
    IN  IF s.paused THEN s ELSE IF timed THEN [c EXCEPT !.paused = TRUE, !.resumes = TRUE] ELSE Autoplay(c)
Resume(s) ==
    LET r == [s EXCEPT !.paused = FALSE] IN IF s.autoplaying THEN Autoplay(r) ELSE StopAutoplay(r)
Interrupted(s, timed, internal) ==
    IF opt.auto = "none" \/ ~s.autoplaying THEN s
    ELSE IF internal \/ opt.auto = "stays" THEN PauseAutoplay(s, timed) ELSE StopAutoplay(s)

(* slideTo: with speed 0 it jumps and ends at once, else it glides.        *)

UpdateProgress(s, t) ==
    LET one == MaxTranslate(s) = 0
    IN  [s EXCEPT !.isBeginning = one \/ t >= 0, !.isEnd = one \/ t <= MaxTranslate(s)]
Target(s, i) == Clamp(0, i, LastIndex(s))
Refuses(s, i) ==
    LET to == -Grid(s, i)
    IN  \/ "next" \in s.lock /\ to < s.translate /\ to < 0
        \/ "prev" \in s.lock /\ to > s.translate /\ to > MaxTranslate(s) /\ s.active # i
\* What moves the slides under the finger that drags them takes its slide away.
Dragging(s) == s.touch # NULL /\ s.touch.moved
Arrives(s, i) ==
    [s EXCEPT !.active = i, !.translate = -Grid(s, i), !.stuck = FALSE, !.loose = Dragging(s)]

JumpTo(s, i, internal) ==
    LET q == Target(s, i)
        a == UpdateProgress(Interrupted(s, FALSE, internal), -Grid(s, q))
    IN  IF Refuses(s, q) THEN a
        ELSE IF s.translate = -Grid(s, q) THEN Arrives(a, q)
        ELSE [Arrives(a, q) EXCEPT !.trans = NULL, !.animating = FALSE]
GlideTo(s, i, internal) ==
    LET q == Target(s, i)
        to == -Grid(s, q)
        a == UpdateProgress(Interrupted(s, TRUE, internal), to)
    IN  IF Refuses(s, q) THEN {a}
        ELSE IF s.translate = to THEN {Arrives(a, q)}
        ELSE {[Arrives(a, q) EXCEPT !.trans = IF p = to THEN NULL ELSE [from |-> p, to |-> to],
                                    !.animating = TRUE, !.ends = @ \/ ~s.animating] : p \in Seen(s)}

FixLoopShort(s) ==  \* mutant
    IF ~opt.loop THEN s
    ELSE IF s.active < 1 THEN JumpTo(s, Len(s.slides) - 1, TRUE)
    ELSE IF s.active > Len(s.slides) THEN JumpTo(s, 1, TRUE) ELSE s
FixLoop(s) ==
    IF ~opt.loop THEN s
    ELSE IF s.active < 1 THEN JumpTo(s, Len(s.slides), TRUE)
    ELSE IF s.active > Len(s.slides) THEN JumpTo(s, 1, TRUE) ELSE s
SlideNext(s, internal) ==
    IF opt.loop /\ s.animating THEN {s} ELSE LET f == FixLoop(s) IN GlideTo(f, f.active + 1, internal)
SlidePrev(s) ==
    IF opt.loop /\ s.animating THEN {s} ELSE LET f == FixLoop(s) IN GlideTo(f, f.active - 1, FALSE)

\* update(true): what slideTo leaves off the grid is at least brought inside.
ForceSetTranslate(s) ==
    LET t == Clamp(MaxTranslate(s), s.translate, 0)
        r == [s EXCEPT !.translate = t, !.trans = IF t = s.translate THEN @ ELSE NULL,
                       !.loose = @ \/ Dragging(s)]
    IN  [r EXCEPT !.active = Nearest(r)]
Update(s) ==
    LET j == JumpTo(UpdateProgress(s, s.translate), s.active, TRUE)
    IN  IF j.translate = s.translate THEN ForceSetTranslate(j) ELSE j

-----------------------------------------------------------------------------
Init ==
    /\ opt \in Setting /\ slides = opt.slides /\ size \in opt.sizes
    /\ active = Looped /\ translate = -size * Looped /\ trans = NULL /\ animating = FALSE
    /\ isBeginning = ~opt.loop /\ isEnd = (Len(slides) + 2 * Looped = 1)
    /\ ends = FALSE /\ resumes = FALSE /\ touch = NULL /\ lock = {} /\ paused = FALSE
    /\ autoplaying = (opt.auto # "none")
    /\ timers = IF opt.auto = "none" THEN {} ELSE {1}
    /\ id = IF opt.auto = "none" THEN 0 ELSE 1
    /\ loose = FALSE /\ stuck = FALSE /\ restarted = FALSE

(* A finger.                                                               *)

\* Another finger lets go what the first has dragged.
TouchStart ==
    Become([S EXCEPT !.touch = [moved |-> FALSE, start |-> 0, diff |-> 0, current |-> 0],
                     !.loose = @ \/ Dragging(S)])

\* The first move stops what glides.  The end of the transition is triggered
\* under one name made of five: nobody hears it.
Dragged(s, d) ==
    LET t == s.touch.start + d
        held == Clamp(MaxTranslate(s) - 1, t, 1)
        locked == \/ "next" \in s.lock /\ d <= 0 /\ held < s.touch.start
                  \/ "prev" \in s.lock /\ d > 0 /\ held > s.touch.start
        to == IF locked THEN s.touch.start ELSE held
    IN  [UpdateProgress(s, to) EXCEPT !.translate = to, !.trans = NULL, !.touch.diff = d, !.touch.current = to]
Caught(s) ==
    LET f == FixLoop(s)
    IN  {[Interrupted(f, TRUE, FALSE) EXCEPT !.touch.moved = TRUE, !.touch.start = p,
                                             !.loose = @ \/ f.trans # NULL] : p \in Seen(f)}

TouchMove(d) ==
    /\ touch # NULL
    /\ \E s \in IF touch.moved THEN {S} ELSE Caught(S) : Become(Dragged(s, d))

\* After a tap, or a move that leads nowhere, nothing moves; nor where the
\* directions are locked.
Goal(s, long) ==
    LET stop == Clamp(0, (-s.translate) \div s.size, LastIndex(s))
        rest == -2 * (s.translate + Grid(s, stop))
    IN  CASE s.touch.diff <= 0 /\ (~long \/ rest >= s.size) -> stop + 1
          [] s.touch.diff > 0 /\ long /\ rest > s.size -> stop + 1
          [] OTHER -> stop
TouchEnd(long) ==
    /\ touch # NULL
    /\ LET up == [S EXCEPT !.touch = NULL, !.loose = FALSE]
           to == Goal(S, long)
       IN  IF ~touch.moved \/ touch.diff = 0 \/ touch.current = touch.start
           THEN Become([up EXCEPT !.stuck = @ \/ loose])
           ELSE \E s \in GlideTo(up, to, FALSE) :
                    Become([s EXCEPT !.stuck = @ \/ Refuses(up, Target(up, to))])

(* The page, and the user at the buttons and bullets.                      *)

ClickNext == (opt.loop \/ ~isEnd) /\ \E s \in SlideNext(S, FALSE) : Become(s)
ClickPrev == (opt.loop \/ ~isBeginning) /\ \E s \in SlidePrev(S) : Become(s)
ClickIndex(i) == i \in 0..Len(slides) - 1 /\ \E s \in GlideTo(S, i + Looped, FALSE) : Become(s)

SetLock(l) == "lock" \in opt.uses /\ lock # l /\ Become([S EXCEPT !.lock = l])

StartAutoplay ==
    /\ "start" \in opt.uses /\ opt.auto # "none" /\ id = 0 /\ ~autoplaying /\ Cardinality(timers) < MaxTimers
    /\ Become(Autoplay([S EXCEPT !.autoplaying = TRUE, !.restarted = @ \/ paused]))
StopsAutoplay == "start" \in opt.uses /\ id # 0 /\ Become(StopAutoplay(S))

AppendSlide(x) ==
    /\ "edit" \in opt.uses /\ Len(slides) < MaxSlides
    /\ Become(Update([S EXCEPT !.slides = Append(@, x)]))
PrependSlide(x) ==
    /\ "edit" \in opt.uses /\ Len(slides) < MaxSlides
    /\ Become(JumpTo(Update([S EXCEPT !.slides = <<x>> \o @]), active + 1, FALSE))

\* Slides are counted from 0, without the duplicates.
ActiveAfter(i) == IF i < active /\ active > 0 THEN active - 1 ELSE active
RemoveSlide(i) ==
    /\ "edit" \in opt.uses /\ Len(slides) > 1 /\ i \in 0..Len(slides) - 1
    /\ LET left == [S EXCEPT !.slides = SubSeq(@, 1, i) \o SubSeq(@, i + 2, Len(@))]
       IN  Become(JumpTo(Update(left), ActiveAfter(i) + Looped, FALSE))

\* onResize, without the locks
ResizedKeeps(s, n) == [s EXCEPT !.size = n, !.lock = {}]  \* mutant
Resized(s, n) == LET t == [s EXCEPT !.size = n, !.lock = {}] IN JumpTo(t, t.active, TRUE)
Resize(n) ==
    /\ n # size
    /\ Become([Resized(S, n) EXCEPT !.lock = lock])

(* Timeouts and transitions; the delay of autoplay outlasts a transition.  *)

Timeout(t) ==
    /\ t \in timers /\ trans = NULL
    /\ LET s == [S EXCEPT !.timers = @ \ {t}]
       IN  \E r \in IF opt.loop THEN SlideNext(FixLoop(s), TRUE)
                    ELSE IF ~isEnd THEN SlideNext(s, TRUE)
                    ELSE GlideTo(s, 0, TRUE) : Become(r)

Ended(s) ==
    LET e == [s EXCEPT !.trans = NULL, !.ends = FALSE, !.resumes = FALSE,
                       !.animating = IF s.ends THEN FALSE ELSE @]
    IN  IF s.resumes THEN Resume(e) ELSE e
TransitionEnd == trans # NULL /\ Become(Ended(S))

Next ==
    \/ TouchStart \/ ClickNext \/ ClickPrev \/ StartAutoplay \/ StopsAutoplay \/ TransitionEnd
    \/ \E d \in -2..2 : TouchMove(d)
    \/ \E long \in BOOLEAN : TouchEnd(long)
    \/ \E i \in 0..MaxSlides - 1 : ClickIndex(i) \/ RemoveSlide(i)
    \/ \E x \in Slide \ {slides[i] : i \in DOMAIN slides} : AppendSlide(x) \/ PrependSlide(x)
    \/ \E l \in SUBSET {"next", "prev"} : SetLock(l)
    \/ \E n \in opt.sizes : Resize(n)
    \/ \E t \in timers : Timeout(t)

Spec == Init /\ [][Next]_swiperVars

-----------------------------------------------------------------------------
\* When nothing moves them, the slides stand at the active one, whatever
\* interrupted what.  Excepted is a finger that caught them in their glide, was
\* joined by another, or under which they were moved, and then let them go.
RestsAtSlide ==
    touch = NULL /\ trans = NULL /\ ~stuck => translate = -Grid(S, active)

\* Autoplay has one timeout at most, in whatever order it is paused, resumed,
\* stopped and started, but when it was started again while it was paused: then
\* the transition it had waited for sets another.
OneTimer == ~restarted => \A t, u \in timers : t = u

\* Adding or removing another slide does not change the slide that is shown.
KeepsPlace ==
    [][(slides' # slides /\ ~opt.loop /\ lock = {})
        => \/ Shown(S)' = Shown(S)
           \/ \A i \in DOMAIN slides' : slides'[i] # Shown(S)]_swiperVars

After(x) ==
    LET i == CHOOSE k \in DOMAIN slides : slides[k] = x
    IN  IF i = Len(slides) THEN slides[1] ELSE slides[i + 1]
\* In a loop the next slide is the one after, at the duplicates too.
NextIsNext ==
    [][(opt.loop /\ ClickNext /\ ~animating)
        => Shown(S)' = After(Shown(S))]_swiperVars
=============================================================================
