---------------------------- MODULE TickWatchdog ----------------------------
(* The watchdog of logging builds (main.c) and the stage it reports            *)
(* (diagnostics.c): the main thread publishes the surface creation and each    *)
(* tick in atomics, the watchdog wakes up every ten seconds and reads them one *)
(* by one.  Workers of the engine store stages too until the main thread has   *)
(* bound itself.  A tick may take any time, and need not return.               *)
EXTENDS Naturals

CONSTANTS
    Others,             \* threads of the engine that reach a stage
    Hang,               \* how long a tick must run to be reported
    Poll,               \* the watchdog's delay, in the same unit
    MaxTicks            \* bound on the ticks of a behaviour

ASSUME DelaysAssumption == Hang \in Nat \ {0} /\ Poll \in Nat \ {0}
ASSUME TicksAssumption == MaxTicks \in Nat

VARIABLES
    main,               \* the main thread's place
    started, active, surface,
    age,                \* time since native_tick_started_us, up to Hang
    bound, stage,
    other,              \* a worker between its look at `bound` and its store
    dog, nap,           \* the watchdog's place and the rest of its delay
    read,               \* the tick number it read at the top of its round
    report              \* the last report: what, of which tick, in which stage

tickVars == <<main, started, active, surface, age>>
stageVars == <<bound, stage, other>>
dogVars == <<dog, nap, read, report>>
watchVars == <<tickVars, stageVars, dogVars>>

NoReport == [what |-> "nothing", tick |-> 0, stage |-> "boot"]

WatchInit ==
    /\ main = "load" /\ started = 0 /\ active = FALSE /\ surface = FALSE
    /\ age = 0
    /\ bound = FALSE /\ stage = "boot"
    /\ other = [w \in Others |-> "run"]
    /\ dog = "none" /\ nap = Poll /\ read = 0 /\ report = NoReport

MainGoes(from, to) == main = from /\ main' = to

\* btd5_diag_bind_current_thread(), then the watchdog thread, which may fail to
\* start.
Bind(created) ==
    /\ MainGoes("load", "bound")
    /\ bound' = TRUE
    /\ dog' = IF created THEN "sleep" ELSE "none"
    /\ UNCHANGED <<started, active, surface, age, stage, other, nap, read, report>>

\* nativeSurfaceCreated()
SurfaceBegins ==
    /\ MainGoes("bound", "surface")
    /\ surface' = TRUE
    /\ UNCHANGED <<started, active, age, stageVars, dogVars>>

SurfaceEnds ==
    /\ MainGoes("surface", "between")
    /\ surface' = FALSE
    /\ UNCHANGED <<started, active, age, stageVars, dogVars>>

TickCounted ==
    /\ MainGoes("between", "counted")
    /\ started < MaxTicks /\ started' = started + 1
    /\ UNCHANGED <<active, surface, age, stageVars, dogVars>>

TickTimed ==
    /\ MainGoes("counted", "timed")
    /\ age' = 0
    /\ UNCHANGED <<started, active, surface, stageVars, dogVars>>

TickPublished ==
    /\ MainGoes("timed", "tick")
    /\ active' = TRUE
    /\ UNCHANGED <<started, surface, age, stageVars, dogVars>>

\* btd5_diag_set_stage() by the main thread, within a tick or at its end.
MainStage(s) ==
    /\ main \in {"surface", "tick"}
    /\ stage' = s
    /\ UNCHANGED <<tickVars, bound, other, dogVars>>

TickReturns ==
    /\ MainGoes("tick", "between")
    /\ stage' = "returned"
    /\ active' = FALSE
    /\ UNCHANGED <<started, surface, age, bound, other, dogVars>>

\* btd5_diag_set_stage() by another thread: nothing comes between the look and
\* the store of one thread, but the binding may.
OtherLooks(w) ==
    /\ other[w] = "run" /\ ~bound
    /\ other' = [other EXCEPT ![w] = "store"]
    /\ UNCHANGED <<tickVars, bound, stage, dogVars>>

OtherStores(w, s) ==
    /\ other[w] = "store"
    /\ other' = [other EXCEPT ![w] = "run"]
    /\ stage' = s
    /\ UNCHANGED <<tickVars, bound, dogVars>>

-----------------------------------------------------------------------------
TimePasses ==
    /\ age' = IF age < Hang THEN age + 1 ELSE age
    /\ nap' = IF dog = "sleep" /\ nap > 0 THEN nap - 1 ELSE nap
    /\ <<age, nap>> # <<age', nap'>>
    /\ UNCHANGED <<main, started, active, surface, stageVars, dog, read, report>>

DogGoes(from, to) == dog = from /\ dog' = to

DogWakes ==
    /\ nap = 0
    /\ DogGoes("sleep", "flags")
    /\ read' = started
    /\ UNCHANGED <<tickVars, stageVars, nap, report>>

\* The surface flag first, then the flag of the tick.
DogLooks ==
    /\ DogGoes("flags", IF surface THEN "surface" ELSE IF active THEN "elapsed" ELSE "flush")
    /\ UNCHANGED <<tickVars, stageVars, nap, read, report>>

\* Mutant: the time is measured from the watchdog's own delay.
DogMeasuresNothing ==
    /\ DogGoes("elapsed", "sleep")
    /\ nap' = Poll
    /\ UNCHANGED <<tickVars, stageVars, read, report>>

\* A tick in its first two seconds is left alone, and the log is not flushed.
DogMeasures ==
    /\ DogGoes("elapsed", IF age < Hang THEN "sleep" ELSE "hang")
    /\ nap' = IF age < Hang THEN Poll ELSE nap
    /\ UNCHANGED <<tickVars, stageVars, read, report>>

DogReports(what) ==
    /\ DogGoes(what, "flush")
    /\ report' = [what |-> what, tick |-> read, stage |-> stage]
    /\ UNCHANGED <<tickVars, stageVars, nap, read>>

DogFlushes ==
    /\ DogGoes("flush", "sleep")
    /\ nap' = Poll
    /\ UNCHANGED <<tickVars, stageVars, read, report>>

MainThreadStep ==
    \/ \E created \in BOOLEAN : Bind(created)
    \/ SurfaceBegins \/ SurfaceEnds
    \/ TickCounted \/ TickTimed \/ TickPublished \/ TickReturns
    \/ \E s \in {"enter", "cond_wait"} : MainStage(s)

DogStep ==
    \/ DogWakes \/ DogLooks \/ DogMeasures \/ DogFlushes
    \/ \E what \in {"surface", "hang"} : DogReports(what)

AllDone == main = "between" /\ started = MaxTicks /\ dog = "none" /\ UNCHANGED watchVars

WatchNext ==
    \/ AllDone
    \/ MainThreadStep \/ DogStep \/ TimePasses
    \/ \E w \in Others : OtherLooks(w) \/ OtherStores(w, "cond_wait")

\* Time passes and the watchdog is scheduled; the main thread owes nothing.
WatchFair == WF_watchVars(DogStep) /\ WF_watchVars(TimePasses)

WatchSpec == WatchInit /\ [][WatchNext]_watchVars /\ WatchFair

-----------------------------------------------------------------------------
Stages == {"boot", "enter", "cond_wait", "returned"}

WatchTypeOK ==
    /\ main \in {"load", "bound", "surface", "between", "counted", "timed", "tick"}
    /\ started \in 0..MaxTicks /\ active \in BOOLEAN /\ surface \in BOOLEAN
    /\ age \in 0..Hang
    /\ bound \in BOOLEAN /\ stage \in Stages
    /\ other \in [Others -> {"run", "store"}]
    /\ dog \in {"none", "sleep", "flags", "surface", "elapsed", "hang", "flush"}
    /\ nap \in 0..Poll /\ read \in 0..MaxTicks
    /\ report \in [what : {"nothing", "surface", "hang"}, tick : 0..MaxTicks, stage : Stages]

\* A tick that never returns is reported, under its own number, whatever the
\* watchdog had read of the ticks before it.
HangIsReported ==
    \A k \in 1..MaxTicks :
        (active /\ started = k /\ dog # "none") ~>
            (~active \/ started # k \/ (report.what = "hang" /\ report.tick = k))
=============================================================================
