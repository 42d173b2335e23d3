---------------------------- MODULE CallsiteBridge ----------------------------
(* The three places of version 4.7 where patch.c leads the engine through       *)
(* src/source/engine_callsite.S: the call of the engine, the call of the active *)
(* screen's update, and the preparation of a frame, whose delta is clamped.     *)
(* A register holds the name of a value: <<"r0">> is what r0 held at the site,  *)
(* <<"r0", "method">> a word found through it, <<"junk">> what a call may have  *)
(* left.  One action is the code from one call to the next.                     *)
EXTENDS Integers, Sequences

CONSTANTS
    Deltas,         \* frame deltas as the bits of a float, by their order
    OneFrame,       \* the bits of 1/30
    OneSecond       \* the bits of 1.0

ASSUME ClampAssumption ==
    /\ Deltas \subseteq Int
    /\ OneFrame \in Nat /\ OneSecond \in Nat /\ 0 < OneFrame /\ OneFrame < OneSecond

VARIABLES
    site,           \* "engine", "inner" or "frameDebt"
    cpc,            \* where the bridge stands
    regs,           \* r0 to r8
    sp,             \* the bytes that the bridge has pushed
    cstack,         \* what is pushed: the registers and the local words
    sampling,       \* btd5_engine_profile_sample_active
    delta           \* the word at [r5] of the frame site

bridgeVars == <<site, cpc, regs, sp, cstack, sampling, delta>>

Regs == {"r0", "r1", "r2", "r3", "r4", "r5", "r6", "r7", "r8"}
Saved == {"r4", "r5", "r6", "r7", "r8"}
AtSite == [r \in Regs |-> <<r>>]

CallsiteInit ==
    /\ site \in {"engine", "inner", "frameDebt"}
    /\ cpc = "site"
    /\ regs = AtSite
    /\ sp = 0
    /\ cstack = [kept |-> <<>>, started |-> <<>>, result |-> <<>>]
    /\ sampling \in BOOLEAN
    /\ delta \in Deltas

\* A call leaves r0 to r3 as it likes, r0 with its result, and keeps the others.
Called(result) ==
    [regs EXCEPT !["r0"] = result, !["r1"] = <<"junk">>, !["r2"] = <<"junk">>,
                 !["r3"] = <<"junk">>]

\* ldr r1,[r0]; ldr r1,[r1,#0x18], with r2 at the inner site.
Target == <<"r0", "method">>
Method(object) == Append(object, "method")
-----------------------------------------------------------------------------
\* The original instructions at the three sites, up to the call.
OriginalEngine == [AtSite EXCEPT !["r1"] = Target]
OriginalInner == [AtSite EXCEPT !["r1"] = <<"r5">>, !["r2"] = Target]
OriginalFrame ==
    [AtSite EXCEPT !["r0"] = <<"r4", "manager">>, !["r1"] = <<"delta", delta>>,
                   !["r5"] = <<"r6", "context">>]

Original ==
    CASE site = "engine" -> OriginalEngine
      [] site = "inner" -> OriginalInner
      [] site = "frameDebt" -> OriginalFrame

\* What the engine finds when it goes on: r0, and the registers a call keeps.
GoesOn(after) ==
    /\ \A r \in Saved : after[r] = Original[r]
    /\ after["r0"] = IF site = "engine" THEN <<"r5", "next">> ELSE <<"result">>
    /\ sp = 0
-----------------------------------------------------------------------------
\* The fast path: the flag is read, nothing is pushed.
CallUnsampled ==
    /\ cpc = "site" /\ site \in {"engine", "inner"} /\ ~sampling
    /\ regs' = IF site = "engine" THEN [regs EXCEPT !["r1"] = Method(regs["r0"])]
               ELSE [regs EXCEPT !["r2"] = Method(regs["r0"]), !["r1"] = regs["r5"]]
    /\ cpc' = "target"
    /\ UNCHANGED <<site, sp, cstack, sampling, delta>>

\* push {r4-r8, lr} and the local words; the arguments are kept in r4 to r7 and
\* profile_enter() is called.
PushEngine ==
    [regs EXCEPT !["r4"] = regs["r0"], !["r5"] = Method(regs["r0"]),
                 !["r6"] = regs["r2"], !["r7"] = regs["r3"], !["r1"] = Method(regs["r0"])]
PushInner ==
    [regs EXCEPT !["r4"] = regs["r0"], !["r6"] = Method(regs["r0"]),
                 !["r7"] = regs["r3"], !["r1"] = regs["r5"], !["r2"] = Method(regs["r0"])]

EnterSampled ==
    /\ cpc = "site" /\ site \in {"engine", "inner"} /\ sampling
    /\ regs' = IF site = "engine" THEN PushEngine ELSE PushInner
    /\ cstack' = [cstack EXCEPT !.kept = [r \in Saved |-> regs[r]]]
    /\ sp' = IF site = "engine" THEN 6 * 4 + 8 ELSE 6 * 4 + 16
    /\ cpc' = "enter"
    /\ UNCHANGED <<site, sampling, delta>>

\* profile_enter() has returned: its time goes to the stack, the arguments back
\* to their registers.  The inner bridge has left the context in r5, where the
\* other one keeps the target.
Restored(after) ==
    [after EXCEPT !["r0"] = after["r4"], !["r1"] = after["r5"], !["r2"] = after["r6"],
                  !["r3"] = after["r7"]]

CallSampled ==
    /\ cpc = "enter"
    /\ LET after == Called(<<"started">>)
       IN  /\ cstack' = [cstack EXCEPT !.started = after["r0"]]
           /\ regs' = Restored(after)
    /\ cpc' = "target"
    /\ UNCHANGED <<site, sp, sampling, delta>>

\* The target has returned.  The fast path loads r0 as the original did and goes
\* on; the other one keeps the result, if the engine wants it, and calls
\* profile_exit() with the time from the stack.
ReturnUnsampled ==
    /\ cpc = "target" /\ site \in {"engine", "inner"} /\ ~sampling
    /\ LET after == Called(<<"result">>)
       IN  regs' = IF site = "engine" THEN [after EXCEPT !["r0"] = Append(after["r5"], "next")]
                   ELSE after
    /\ cpc' = "continue"
    /\ UNCHANGED <<site, sp, cstack, sampling, delta>>

ExitSampled ==
    /\ cpc = "target" /\ site \in {"engine", "inner"} /\ sampling
    /\ LET after == Called(<<"result">>)
       IN  /\ cstack' = [cstack EXCEPT !.result = IF site = "inner" THEN after["r0"] ELSE @]
           /\ regs' = [after EXCEPT !["r0"] = cstack.started,
                                    !["r2"] = after[IF site = "engine" THEN "r5" ELSE "r6"]]
    /\ cpc' = "exit"
    /\ UNCHANGED <<site, sp, sampling, delta>>

\* pop {r4-r8, lr}; the engine's r0 is loaded with its own r5 again.
Popped(after) ==
    [r \in Regs |-> IF r \in Saved THEN cstack.kept[r] ELSE after[r]]

\* The load before the pop, through the r5 that holds the target.
LoadThenPop(after) == [Popped(after) EXCEPT !["r0"] = Append(after["r5"], "next")]
PopThenLoad(after) == [Popped(after) EXCEPT !["r0"] = Append(Popped(after)["r5"], "next")]

ReturnSampled ==
    /\ cpc = "exit"
    /\ LET after == Called(<<"junk">>)
       IN  regs' = IF site = "engine" THEN PopThenLoad(after)
                   ELSE [Popped(after) EXCEPT !["r0"] = cstack.result]
    /\ sp' = 0
    /\ cpc' = "continue"
    /\ UNCHANGED <<site, cstack, sampling, delta>>
-----------------------------------------------------------------------------
\* Above 1/30 and below one second; the comparisons are those of unsigned
\* integers, after the one with zero.
Clamped30(bits) == IF bits >= 0 /\ bits < OneSecond /\ bits > OneFrame THEN OneFrame ELSE bits

PrepareFrame ==
    /\ cpc = "site" /\ site = "frameDebt"
    /\ regs' = [regs EXCEPT !["r0"] = Append(regs["r4"], "manager"),
                            !["r5"] = Append(regs["r6"], "context"),
                            !["r1"] = <<"delta", Clamped30(delta)>>]
    /\ delta' = Clamped30(delta)
    /\ cpc' = "target"
    /\ UNCHANGED <<site, sp, cstack, sampling>>

\* The clamps are counted here, through r2 and r3, which the call has left as
\* junk; the count is for the log only and left out.
FramePrepared ==
    /\ cpc = "target" /\ site = "frameDebt"
    /\ regs' = Called(<<"result">>)
    /\ cpc' = "continue"
    /\ UNCHANGED <<site, sp, cstack, sampling, delta>>

\* The next tick reaches a site again, with a new delta; only the probe's begin
\* and end change the flag, and no bridge is under way then.
NextSite ==
    /\ cpc = "continue"
    /\ cpc' = "site"
    /\ site' \in {"engine", "inner", "frameDebt"}
    /\ regs' = AtSite
    /\ sampling' \in BOOLEAN
    /\ delta' \in Deltas
    /\ UNCHANGED <<sp, cstack>>

CallsiteNext ==
    \/ CallUnsampled \/ ReturnUnsampled
    \/ EnterSampled \/ CallSampled \/ ExitSampled \/ ReturnSampled
    \/ PrepareFrame \/ FramePrepared \/ NextSite

CallsiteSpec == CallsiteInit /\ [][CallsiteNext]_bridgeVars
-----------------------------------------------------------------------------
(* engine_callsite.S 4-13, 78-87, 154-168: the engine cannot tell that a site  *)
(* leads through a bridge.  The function called there finds the arguments of   *)
(* the original instructions and a stack aligned to eight bytes, and when the  *)
(* engine goes on, the result and every register that a call keeps are those   *)
(* of the original, sampled or not; the frame's delta is the only exception,   *)
(* and the register and the memory agree about it.                             *)
BridgesAreTransparent ==
    /\ cpc = "target" =>
          \A r \in {"r0", "r1", "r2", "r3"} : regs[r] = Original[r]
    /\ cpc = "exit" => regs["r0"] = <<"started">> /\ regs["r2"] = Target
    /\ cpc \in {"target", "enter", "exit"} => sp % 8 = 0
    /\ cpc = "continue" =>
          /\ GoesOn(regs)
          /\ site = "frameDebt" => delta <= OneFrame \/ delta >= OneSecond
=============================================================================
