------------------------------ MODULE PhaseProbe ------------------------------
(* The profiler of the logging package: which ticks are sampled (patch.c), the  *)
(* times taken around the calls that CallsiteBridge leads through it, the draw  *)
(* calls inside a sampled tick (glutil.c), and the heartbeat of main.c that     *)
(* reports and forgets the sums.  All of it runs on the main thread.            *)
EXTENDS Naturals

CONSTANTS
    Periodic,       \* BTD5_PHASE_PERIODIC_SAMPLE_TICKS
    Cooldown,       \* BTD5_PHASE_SLOW_SAMPLE_COOLDOWN
    SlowTick,       \* BTD5_PHASE_SLOW_TRIGGER_US
    CallTargets,        \* functions that the engine's virtual call may lead to
    NoTarget,
    MaxTick,        \* bound: ticks
    MaxNow          \* bound: time

ASSUME ProbeAssumption ==
    /\ Periodic \in Nat \ {0} /\ Cooldown \in Nat /\ SlowTick \in Nat
    /\ MaxTick \in Nat /\ MaxNow \in Nat
    /\ NoTarget \notin CallTargets

VARIABLES
    pnow,           \* sceKernelGetProcessTimeWide()
    tick,           \* the number of the tick
    within,         \* "between" ticks, "begun", in the "tick", the "engine" or the
                    \* "inner" call, "ended"
    tickBegan,      \* main.c's tick_started_us
    previous,       \* how long the tick before took
    probing,        \* phase_probe_active, the flag of the bridges, gl_profile_active
    slowSample,     \* phase_probe_slow_triggered
    sampleBegan,    \* phase_probe_tick_started_us
    lastSample,     \* phase_probe_last_sample_tick
    engineBegan, innerBegan, engineDone,
    sample,         \* the draw time of this sample
    stats,          \* native_phase_stats
    timed           \* timing_total_us

probeVars == <<pnow, tick, within, tickBegan, previous, probing, slowSample, sampleBegan,
               lastSample, engineBegan, innerBegan, engineDone, sample, stats, timed>>

NoTime == 0
Zeroed(target) ==
    [ticks |-> 0, total |-> 0, pre |-> 0, engine |-> 0, inner |-> 0, draw |-> 0,
     periodic |-> 0, slow |-> 0, target |-> target, changes |-> 0]

ProbeInit ==
    /\ pnow = 1 /\ tick = 0 /\ within = "between"
    /\ tickBegan = NoTime /\ previous = 0
    /\ probing = FALSE /\ slowSample = FALSE /\ sampleBegan = NoTime /\ lastSample = 0
    /\ engineBegan = NoTime /\ innerBegan = NoTime /\ engineDone = FALSE
    /\ sample = 0
    /\ stats = Zeroed(NoTarget)
    /\ timed = 0
-----------------------------------------------------------------------------
Elapses ==
    /\ pnow < MaxNow
    /\ pnow' = pnow + 1
    /\ UNCHANGED <<tick, within, tickBegan, previous, probing, slowSample, sampleBegan,
                   lastSample, engineBegan, innerBegan, engineDone, sample, stats, timed>>

\* main.c takes the time before it lets the probe begin, and after it has ended.
BeginTick ==
    /\ within = "between"
    /\ tick < MaxTick
    /\ tick' = tick + 1
    /\ tickBegan' = pnow
    /\ within' = "begun"
    /\ engineDone' = FALSE
    /\ UNCHANGED <<pnow, previous, probing, slowSample, sampleBegan, lastSample, engineBegan,
                   innerBegan, sample, stats, timed>>

\* The GL wrappers time the draw calls of a sampled tick; the sum starts at
\* nothing, is handed over at the end, and is forgotten.
GLProfileSampleBegin == sample' = 0 /\ probing' = TRUE
GLProfileSampleEnd ==
    /\ probing' = FALSE
    /\ stats' = [stats EXCEPT !.ticks = @ + 1, !.total = @ + (pnow - sampleBegan),
                              !.draw = @ + sample,
                              !.slow = IF slowSample THEN @ + 1 ELSE @,
                              !.periodic = IF slowSample THEN @ ELSE @ + 1]
    /\ sample' = 0

\* Every Periodic-th tick, and one after a slow tick unless one was sampled less
\* than Cooldown ticks ago.
ProbeBegin ==
    LET periodic == tick % Periodic = 0
        slow == previous >= SlowTick /\ (lastSample = 0 \/ tick - lastSample >= Cooldown)
    IN  /\ within = "begun"
        /\ within' = "tick"
        /\ IF periodic \/ slow
           THEN /\ lastSample' = tick
                /\ slowSample' = (slow /\ ~periodic)
                /\ sampleBegan' = pnow
                /\ GLProfileSampleBegin
           ELSE UNCHANGED <<lastSample, slowSample, sampleBegan, sample, probing>>
        /\ UNCHANGED <<pnow, tick, tickBegan, previous, engineBegan, innerBegan, engineDone,
                       stats, timed>>

\* The time before the engine's call, without the test of the flag.
EngineEnterAlways(target) ==
    /\ within = "tick" /\ ~engineDone
    /\ within' = "engine"
    /\ stats' = [stats EXCEPT !.pre = @ + (pnow - sampleBegan)]
    /\ engineBegan' = pnow
    /\ UNCHANGED <<pnow, tick, tickBegan, previous, probing, slowSample, sampleBegan,
                   lastSample, innerBegan, engineDone, sample, timed>>

\* btd5_engine_call_profile_enter(); nativeTick calls the engine once at most.
EngineEnter(target) ==
    /\ within = "tick" /\ ~engineDone
    /\ within' = "engine"
    /\ IF probing
       THEN /\ engineBegan' = pnow
            /\ stats' = [stats EXCEPT !.pre = @ + (pnow - sampleBegan), !.target = target,
                             !.changes = IF stats.target \in {NoTarget, target} THEN @ ELSE @ + 1]
       ELSE engineBegan' = NoTime /\ UNCHANGED stats
    /\ UNCHANGED <<pnow, tick, tickBegan, previous, probing, slowSample, sampleBegan,
                   lastSample, innerBegan, engineDone, sample, timed>>

InnerEnter ==
    /\ within = "engine"
    /\ within' = "inner"
    /\ innerBegan' = IF probing THEN pnow ELSE NoTime
    /\ UNCHANGED <<pnow, tick, tickBegan, previous, probing, slowSample, sampleBegan,
                   lastSample, engineBegan, engineDone, sample, stats, timed>>

InnerExit ==
    /\ within = "inner"
    /\ within' = "engine"
    /\ stats' = IF innerBegan = NoTime \/ ~probing THEN stats
                ELSE [stats EXCEPT !.inner = @ + (pnow - innerBegan)]
    /\ UNCHANGED <<pnow, tick, tickBegan, previous, probing, slowSample, sampleBegan,
                   lastSample, engineBegan, innerBegan, engineDone, sample, timed>>

EngineExit ==
    /\ within = "engine"
    /\ within' = "tick"
    /\ engineDone' = TRUE
    /\ stats' = IF engineBegan = NoTime \/ ~probing THEN stats
                ELSE [stats EXCEPT !.engine = @ + (pnow - engineBegan)]
    /\ UNCHANGED <<pnow, tick, tickBegan, previous, probing, slowSample, sampleBegan,
                   lastSample, engineBegan, innerBegan, sample, timed>>

\* glDrawArrays_soloader() and glDrawElements_soloader(), anywhere in a tick.
Draw ==
    /\ within \in {"tick", "engine", "inner"}
    /\ pnow < MaxNow
    /\ pnow' = pnow + 1
    /\ sample' = IF probing THEN sample + 1 ELSE sample
    /\ UNCHANGED <<tick, within, tickBegan, previous, probing, slowSample, sampleBegan,
                   lastSample, engineBegan, innerBegan, engineDone, stats, timed>>

ProbeEnd ==
    /\ within = "tick"
    /\ within' = "ended"
    /\ IF probing THEN GLProfileSampleEnd ELSE UNCHANGED <<probing, stats, sample>>
    /\ UNCHANGED <<pnow, tick, tickBegan, previous, slowSample, sampleBegan, lastSample,
                   engineBegan, innerBegan, engineDone, timed>>

EndTick ==
    /\ within = "ended"
    /\ within' = "between"
    /\ previous' = pnow - tickBegan
    /\ timed' = timed + (pnow - tickBegan)
    /\ UNCHANGED <<pnow, tick, tickBegan, probing, slowSample, sampleBegan, lastSample,
                   engineBegan, innerBegan, engineDone, sample, stats>>

\* The report takes the sums of the profiler and forgets its own; the target
\* survives, to tell a change in the next interval.  It follows every 60th tick
\* that ends ten seconds after the last report, here any tick.
TakeStats ==
    /\ within = "between"
    /\ stats' = Zeroed(stats.target)
    /\ timed' = 0
    /\ UNCHANGED <<pnow, tick, within, tickBegan, previous, probing, slowSample, sampleBegan,
                   lastSample, engineBegan, innerBegan, engineDone, sample>>

ProbeNext ==
    \/ Elapses \/ BeginTick \/ ProbeBegin \/ InnerEnter \/ InnerExit \/ EngineExit \/ Draw
    \/ ProbeEnd \/ EndTick
    \/ TakeStats
    \/ \E target \in CallTargets : EngineEnter(target)

ProbeSpec == ProbeInit /\ [][ProbeNext]_probeVars
-----------------------------------------------------------------------------
(* main.c 775-800 and 925: what the log calls exclusive or residual time is a  *)
(* difference of two sums.  Between ticks, whatever was sampled since the last *)
(* report, the update fits into the engine's call, the engine's call with what *)
(* comes before it into the sampled ticks, the draw calls too ("nested inside  *)
(* the sampled engine/frame phases, not additional frame time"), and the       *)
(* sampled ticks into all ticks; the samples are of one of the two kinds.      *)
NestedTimesFit ==
    within = "between" =>
        /\ stats.inner <= stats.engine
        /\ stats.pre + stats.engine <= stats.total
        /\ stats.draw <= stats.total
        /\ stats.total <= timed
        /\ stats.periodic + stats.slow = stats.ticks
=============================================================================
