---------------------------- MODULE ProfileProofs ----------------------------
(***************************************************************************)
(* Proofs about ProfileSync, for every number of threads, streams, slots   *)
(* and saves and every choice of the times.                                *)
(***************************************************************************)
EXTENDS ProfileSync, StreamProofs

(* A timestamp that gets older is still a timestamp. *)
LEMMA OlderType ==
    ASSUME NEW age \in Ages \cup {Never}
    PROVE  Older(age) \in Ages \cup {Never}
BY BoundsAssumption, NeverAssumption DEF Older, Ages

(* What a return from sync_profile_storage(), a move inside it and a call   *)
(* of it leave in the variables they change.                                *)
SyncTyped ==
    /\ syncPc \in [Callers -> SyncStates]
    /\ pending \in [Callers -> Nat]
    /\ synced \in BOOLEAN

LEMMA SyncReturnType ==
    ASSUME TypeOK, NEW c \in Callers, NEW ok \in BOOLEAN, SyncReturn(c, ok)
    PROVE  SyncTyped'
<1>1. synced' \in BOOLEAN
  BY DEF TypeOK, SyncReturn
<1>2. /\ syncPc' \in [Callers -> SyncStates]
      /\ pending' \in [Callers -> Nat]
  <2>1. /\ syncPc' = [syncPc EXCEPT ![c] = "out"]
        /\ pending' = [pending EXCEPT ![c] = 0]
    BY DEF SyncReturn
  <2>2. QED
    BY <2>1 DEF TypeOK, SyncStates
<1>3. QED
  BY <1>1, <1>2 DEF SyncTyped

LEMMA SyncGoesType ==
    ASSUME TypeOK, NEW c \in Callers, NEW to \in SyncStates, NEW seen \in Nat,
           SyncGoes(c, to, seen)
    PROVE  SyncTyped'
BY DEF TypeOK, SyncStates, SyncGoes, SyncTyped

LEMMA SyncCallType ==
    ASSUME TypeOK, NEW c \in Callers, NEW f \in BOOLEAN, SyncCall(c, f)
    PROVE  /\ syncPc' \in [Callers -> SyncStates]
           /\ force' \in [Callers -> BOOLEAN]
           /\ owed' \in BOOLEAN
<1>1. owed' \in BOOLEAN
  BY DEF TypeOK, SyncCall, AtRisk
<1>2. syncPc' \in [Callers -> SyncStates]
  BY DEF TypeOK, SyncCall, SyncStates
<1>3. force' \in [Callers -> BOOLEAN]
  BY DEF TypeOK, SyncCall
<1>4. QED
  BY <1>1, <1>2, <1>3

(* One step of sync_profile_storage() keeps every variable typed. *)
LEMMA SyncStepType ==
    ASSUME TypeOK, NEW c \in Callers, SyncStep(c)
    PROVE  TypeOK'
<1> USE DEF TypeOK, StreamsTypeOK, SyncTyped, streamVars, workerVars, mainVars
<1>1. CASE SyncEntry(c)
  <2>1. SyncTyped'
    BY <1>1, SyncGoesType, SyncReturnType DEF SyncEntry, SyncStates
  <2>2. QED
    BY <1>1, <2>1 DEF SyncEntry
<1>2. CASE SyncLock(c)
  <2>1. SyncTyped'
    BY <1>2, SyncGoesType, SyncReturnType DEF SyncLock, SyncStates, LockedGeneration
  <2>2. QED
    BY <1>2, <2>1 DEF SyncLock, Released
<1>3. CASE IoSyncOk(c)
  <2>1. SyncTyped'
    BY <1>3, SyncGoesType DEF IoSyncOk, SyncStates
  <2>2. QED
    BY <1>3, <2>1 DEF IoSyncOk
<1>4. CASE IoSyncFail(c)
  <2>1. SyncTyped'
    BY <1>4, SyncGoesType DEF IoSyncFail, SyncStates
  <2>2. QED
    BY <1>4, <2>1 DEF IoSyncFail
<1>5. CASE SyncStore(c)
  <2>1. SyncTyped'
    BY <1>5, SyncReturnType DEF SyncStore
  <2>2. committed' \in Nat /\ lastSync' \in Ages \cup {Never} /\ retryIn' \in 0..Retry
    BY <1>5, TimesAssumption, BoundsAssumption DEF SyncStore, SeenGeneration, Ages
  <2>3. QED
    BY <1>5, <2>1, <2>2 DEF SyncStore
<1>6. CASE SyncFailed(c)
  <2>1. SyncTyped'
    BY <1>6, SyncReturnType DEF SyncFailed
  <2>2. retryIn' \in 0..Retry
    BY <1>6, TimesAssumption DEF SyncFailed, Backoff
  <2>3. QED
    BY <1>6, <2>1, <2>2 DEF SyncFailed
<1>7. QED
  BY <1>1, <1>2, <1>3, <1>4, <1>5, <1>6 DEF SyncStep

(* One step of the worker's own loop keeps every variable typed. *)
LEMMA WorkerLoopType ==
    ASSUME TypeOK,
           \/ WorkerPoll \/ WorkerCompare \/ WorkerNow
           \/ WorkerClosed \/ WorkerDecide \/ WorkerSynced
    PROVE  TypeOK'
<1> USE BoundsAssumption
    DEF TypeOK, StreamsTypeOK, Ages, WorkerStates, streamVars, syncVars, mainVars
<1>1. CASE WorkerPoll
  BY <1>1 DEF WorkerPoll, Callers
<1>2. CASE WorkerCompare
  BY <1>2 DEF WorkerCompare, Callers
<1>3. CASE WorkerNow
  BY <1>3 DEF WorkerNow
<1>4. CASE WorkerClosed
  BY <1>4 DEF WorkerClosed
<1>5. CASE WorkerDecide
  <2>1. /\ syncPc' \in [Callers -> SyncStates]
        /\ force' \in [Callers -> BOOLEAN]
        /\ owed' \in BOOLEAN
    BY <1>5, SyncCallType DEF WorkerDecide, Callers
  <2>2. quiet' \in BOOLEAN
    BY <1>5 DEF WorkerDecide
  <2>3. wkPc' \in WorkerStates /\ nowAge' \in Ages
    BY <1>5 DEF WorkerDecide
  <2>4. QED
    BY <1>5, <2>1, <2>2, <2>3 DEF WorkerDecide
<1>6. CASE WorkerSynced
  BY <1>6 DEF WorkerSynced
<1>7. QED
  BY <1>1, <1>2, <1>3, <1>4, <1>5, <1>6

(* One step of the main loop keeps every variable typed. *)
MainLoop ==
    \/ MainLifecycle \/ MainPause \/ MainPaused \/ MainResumed \/ MainPolled
    \/ MainTicked \/ MainTickedFallback \/ MainFallbackDone \/ MainExitRequested
    \/ MainArmsWatchdog \/ MainExitPaused \/ MainExits \/ WatchdogExits

LEMMA MainLoopType ==
    ASSUME TypeOK, MainLoop
    PROVE  TypeOK'
<1> USE DEF TypeOK, StreamsTypeOK, MainStates, streamVars, syncVars, workerVars, mainVars,
            MainReturns, MainCommits, MainSynced
<1>1. CASE MainLifecycle
  BY <1>1 DEF MainLifecycle
<1>2. CASE MainPause \/ MainExitRequested \/ MainTickedFallback \/ MainExitPaused
  <2>1. /\ syncPc' \in [Callers -> SyncStates]
        /\ force' \in [Callers -> BOOLEAN]
        /\ owed' \in BOOLEAN
    BY <1>2, SyncCallType
       DEF MainPause, MainExitRequested, MainTickedFallback, MainExitPaused, Callers
  <2>2. QED
    BY <1>2, <2>1 DEF MainPause, MainExitRequested, MainTickedFallback, MainExitPaused
<1>3. CASE MainResumed \/ MainPolled \/ MainTicked
  <2>1. paused' \in BOOLEAN
    BY <1>3 DEF MainResumed, MainPolled, MainTicked
  <2>2. QED
    BY <1>3, <2>1 DEF MainResumed, MainPolled, MainTicked
<1>4. CASE MainPaused \/ MainFallbackDone \/ MainArmsWatchdog \/ MainExits
  <2>1. paused' \in BOOLEAN /\ watchdog' \in BOOLEAN /\ running' \in BOOLEAN
    BY <1>4 DEF MainPaused, MainFallbackDone, MainArmsWatchdog, MainExits
  <2>2. QED
    BY <1>4, <2>1 DEF MainPaused, MainFallbackDone, MainArmsWatchdog, MainExits
<1>5. CASE WatchdogExits
  <2>1. running' \in BOOLEAN
    BY <1>5 DEF WatchdogExits
  <2>2. QED
    BY <1>5, <2>1 DEF WatchdogExits
<1>6. QED
  BY <1>1, <1>2, <1>3, <1>4, <1>5 DEF MainLoop

(* Every step is one of these: the case split all step lemmas use. *)
LEMMA NextCases ==
    ASSUME Next
    PROVE  \/ Tick
           \/ \E c \in Callers : SyncStep(c)
           \/ WorkerPoll \/ WorkerCompare \/ WorkerNow \/ WorkerClosed
           \/ WorkerDecide \/ WorkerSynced
           \/ MainLoop
           \/ \E t \in Threads : EngineStep(t)
           \/ UNCHANGED vars
BY DEF Next, WorkerStep, MainStep, MainLoop, Callers, Stopped

LEMMA TypeStep == TypeOK /\ [Next]_vars => TypeOK'
<1> SUFFICES ASSUME TypeOK, [Next]_vars
             PROVE  TypeOK'
  OBVIOUS
<1>1. CASE Tick
  <2>1. /\ lastClosed' \in Ages \cup {Never}
        /\ lastSync' \in Ages \cup {Never}
        /\ dirtyAge' \in Ages \cup {Never}
    BY <1>1, OlderType DEF Tick, TypeOK, StreamsTypeOK
  <2>2. nowAge' \in Ages
    BY <1>1, TimesAssumption, BoundsAssumption DEF Tick, TypeOK, Ages
  <2>3. retryIn' \in 0..Retry
    BY <1>1, TimesAssumption DEF Tick, TypeOK
  <2>4. QED
    BY <1>1, <2>1, <2>2, <2>3 DEF Tick, TypeOK, StreamsTypeOK, mainVars
<1>2. ASSUME NEW c \in Callers, SyncStep(c)
      PROVE  TypeOK'
  BY <1>2, SyncStepType
<1>3. CASE \/ WorkerPoll \/ WorkerCompare \/ WorkerNow
           \/ WorkerClosed \/ WorkerDecide \/ WorkerSynced
  BY <1>3, WorkerLoopType
<1>4. CASE MainLoop
  BY <1>4, MainLoopType
<1>5. ASSUME NEW t \in Threads, EngineStep(t)
      PROVE  TypeOK'
  <2>1. StreamsTypeOK'
    BY <1>5, StreamStepType DEF EngineStep, TypeOK
  <2>2. QED
    BY <1>5, <2>1 DEF EngineStep, TypeOK, syncVars, workerVars, mainVars
<1>6. CASE UNCHANGED vars
  BY <1>6 DEF vars, TypeOK, StreamsTypeOK, streamVars, syncVars, workerVars, mainVars
<1>7. QED
  BY <1>1, <1>2, <1>3, <1>4, <1>5, <1>6, NextCases

LEMMA TypeInit == Init => TypeOK
<1> SUFFICES ASSUME Init
             PROVE  TypeOK
  OBVIOUS
<1>1. /\ force \in [Callers -> BOOLEAN] /\ synced \in BOOLEAN /\ quiet \in BOOLEAN
      /\ paused \in BOOLEAN /\ watchdog \in BOOLEAN /\ running \in BOOLEAN
      /\ owed \in BOOLEAN
  BY DEF Init
<1>2. QED
  BY <1>1, StreamsInitType, BoundsAssumption, TimesAssumption
     DEF Init, TypeOK, SyncStates, WorkerStates, MainStates, Ages, Callers

(* Type correctness of the whole storage bridge. *)
THEOREM TypeCorrect == Spec => []TypeOK
BY TypeInit, TypeStep, PTL DEF Spec

-----------------------------------------------------------------------------
(***************************************************************************)
(* Why a committed generation is durable.  The generation reported by a    *)
(* commit was read inside the critical section and before sceIoSync, so    *)
(* when the sync succeeds every save up to it is on the card, and later    *)
(* saves have larger numbers.  The critical section also orders commits.   *)
(***************************************************************************)
Critical == {"io", "store", "fail"}

SyncInv(c) ==
    /\ lock = c <=> syncPc[c] \in Critical
    /\ syncPc[c] \in Critical => committed <= pending[c] /\ pending[c] <= generation
    /\ syncPc[c] = "store" => \A g \in unsynced : g > pending[c]

(* A caller outside the states that wait for the call is not in the call. *)
CallInv ==
    /\ wkPc # "sync" => syncPc[Worker] = "out"
    /\ mainPc \notin {"pauseSync", "fallback", "exitSync", "exitSync2"} => syncPc[Main] = "out"

DurableInv ==
    /\ unsynced \subseteq 1..generation
    /\ committed <= generation
    /\ \A c \in Callers : SyncInv(c)
    /\ CallInv
    /\ CommittedIsDurable

LEMMA DurableInit == Init => DurableInv
BY CallersAssumption
   DEF Init, StreamsInit, DurableInv, SyncInv, CallInv, CommittedIsDurable, Callers, Critical

(* One step of sync_profile_storage(). *)
LEMMA DurableSyncStep ==
    ASSUME TypeOK, DurableInv, NEW c \in Callers, SyncStep(c)
    PROVE  DurableInv'
<1> USE CallersAssumption
    DEF TypeOK, StreamsTypeOK, DurableInv, SyncInv, CallInv, CommittedIsDurable, Callers, Critical,
        SyncGoes, SyncReturn, streamVars, workerVars, mainVars
<1>1. CASE SyncEntry(c)
  BY <1>1 DEF SyncEntry
<1>2. CASE SyncLock(c)
  <2>1. /\ syncPc[c] = "lock" /\ lock = Nobody
        /\ UNCHANGED <<generation, unsynced, committed, wkPc, mainPc>>
    BY <1>2 DEF SyncLock
  <2>2. CASE lock' = Nobody /\ \E ok \in BOOLEAN : SyncReturn(c, ok)
    BY <2>1, <2>2
  <2>3. CASE lock' = c /\ SyncGoes(c, "io", generation)
    BY <2>1, <2>3
  <2>4. QED
    BY <1>2, <2>1, <2>2, <2>3 DEF SyncLock, Released, LockedGeneration
<1>3. CASE IoSyncOk(c)
  BY <1>3 DEF IoSyncOk
<1>4. CASE IoSyncFail(c)
  BY <1>4 DEF IoSyncFail
<1>5. CASE SyncStore(c)
  BY <1>5 DEF SyncStore, SeenGeneration
<1>6. CASE SyncFailed(c)
  BY <1>6 DEF SyncFailed
<1>7. QED
  BY <1>1, <1>2, <1>3, <1>4, <1>5, <1>6 DEF SyncStep

(* The steps of the two loops and of time leave the storage state alone. *)
LEMMA DurableLoopStep ==
    ASSUME TypeOK, DurableInv,
           \/ Tick \/ MainLoop
           \/ WorkerPoll \/ WorkerCompare \/ WorkerNow
           \/ WorkerClosed \/ WorkerDecide \/ WorkerSynced
    PROVE  DurableInv'
<1> USE CallersAssumption
    DEF TypeOK, DurableInv, SyncInv, CallInv, CommittedIsDurable, Callers, Critical,
        SyncCall, streamVars, syncVars, workerVars, mainVars
<1>1. CASE Tick
  BY <1>1 DEF Tick
<1>2. CASE WorkerPoll
  BY <1>2 DEF WorkerPoll
<1>3. CASE WorkerCompare
  BY <1>3 DEF WorkerCompare
<1>4. CASE WorkerNow
  BY <1>4 DEF WorkerNow
<1>5. CASE WorkerClosed
  BY <1>5 DEF WorkerClosed
<1>6. CASE WorkerDecide
  BY <1>6 DEF WorkerDecide
<1>7. CASE WorkerSynced
  BY <1>7 DEF WorkerSynced
<1>8. CASE MainLoop
  <2>1. CASE MainLifecycle \/ WatchdogExits
    BY <2>1 DEF MainLifecycle, WatchdogExits
  <2>2. CASE MainPause \/ MainExitRequested \/ MainTickedFallback \/ MainExitPaused
    BY <2>2 DEF MainPause, MainExitRequested, MainTickedFallback, MainExitPaused, MainCommits
  <2>3. CASE MainResumed \/ MainPolled \/ MainTicked
    BY <2>3 DEF MainResumed, MainPolled, MainTicked, MainReturns
  <2>4. CASE MainPaused \/ MainFallbackDone \/ MainArmsWatchdog \/ MainExits
    BY <2>4 DEF MainPaused, MainFallbackDone, MainArmsWatchdog, MainExits, MainSynced
  <2>5. QED
    BY <1>8, <2>1, <2>2, <2>3, <2>4 DEF MainLoop
<1>9. QED
  BY <1>1, <1>2, <1>3, <1>4, <1>5, <1>6, <1>7, <1>8

(* A call of the stream bridge adds at most the next generation. *)
LEMMA StreamStepGeneration ==
    ASSUME StreamsTypeOK, NEW t \in Threads, StreamStep(t)
    PROVE  \/ UNCHANGED <<generation, unsynced>>
           \/ /\ generation' = generation + 1
              /\ unsynced' \in {unsynced, unsynced \cup {generation + 1}}
<1>1. ASSUME NEW s \in Streams, NEW kind \in {"profile", "other"}, Fopen(t, s, kind)
      PROVE  UNCHANGED <<generation, unsynced>>
  BY <1>1 DEF Fopen, storageVars
<1>2. ASSUME NEW ok \in BOOLEAN, Fclose(t, ok)
      PROVE  UNCHANGED <<generation, unsynced>>
  BY <1>2 DEF Fclose
<1>3. CASE TrackSlot(t) \/ CallFclose(t) \/ UntrackSlot(t) \/ Stamp(t)
  BY <1>3 DEF TrackSlot, CallFclose, UntrackSlot, Stamp, storageVars
<1>4. CASE Bump(t)
  BY <1>4 DEF Bump
<1>5. QED
  BY <1>1, <1>2, <1>3, <1>4 DEF StreamStep

LEMMA DurableEngineStep ==
    ASSUME TypeOK, DurableInv, NEW t \in Threads, EngineStep(t)
    PROVE  DurableInv'
<1>1. \/ UNCHANGED <<generation, unsynced>>
      \/ /\ generation' = generation + 1
         /\ unsynced' \in {unsynced, unsynced \cup {generation + 1}}
  BY StreamStepGeneration DEF EngineStep, TypeOK
<1>2. /\ committed' = committed /\ lock' = lock /\ syncPc' = syncPc /\ pending' = pending
      /\ wkPc' = wkPc /\ mainPc' = mainPc
  BY DEF EngineStep, syncVars, workerVars, mainVars
<1>3. generation \in Nat /\ committed \in Nat /\ pending \in [Callers -> Nat]
  BY DEF TypeOK, StreamsTypeOK
<1>a. /\ generation' \in {generation, generation + 1}
      /\ \A g \in unsynced' : g \in unsynced \/ (g = generation + 1 /\ g = generation')
  BY <1>1
<1>b. \A g \in unsynced : g \in Nat /\ 1 <= g /\ g <= generation /\ g > committed
  BY <1>3 DEF DurableInv, CommittedIsDurable
<1>4. unsynced' \subseteq 1..generation'
  BY <1>a, <1>b, <1>3
<1>5. committed' <= generation'
  BY <1>1, <1>2, <1>3 DEF DurableInv
<1>6. CommittedIsDurable'
  <2>1. committed <= generation
    BY DEF DurableInv
  <2>2. \A g \in unsynced' : g > committed
    BY <1>a, <1>b, <1>3, <2>1
  <2>3. QED
    BY <1>2, <2>2 DEF CommittedIsDurable
<1>7. CallInv'
  BY <1>2 DEF DurableInv, CallInv
<1>8. ASSUME NEW c \in Callers
      PROVE  SyncInv(c)'
  <2>1. SyncInv(c) /\ pending[c] \in Nat
    BY <1>3, <1>8 DEF DurableInv
  <2>2. pending[c] <= generation => pending[c] <= generation'
    BY <1>1, <1>3, <2>1
  <2>3. syncPc[c] = "store" => \A g \in unsynced' : g > pending[c]
    <3>1. syncPc[c] = "store" => pending[c] < generation + 1 /\ \A g \in unsynced : g > pending[c]
      BY <1>3, <2>1 DEF SyncInv, Critical
    <3>2. QED
      BY <1>1, <1>3, <2>1, <3>1
  <2>4. QED
    BY <1>2, <2>1, <2>2, <2>3 DEF SyncInv, Critical
<1>9. QED
  BY <1>4, <1>5, <1>6, <1>7, <1>8 DEF DurableInv

LEMMA DurableStep == TypeOK /\ DurableInv /\ [Next]_vars => DurableInv'
<1> SUFFICES ASSUME TypeOK, DurableInv, [Next]_vars
             PROVE  DurableInv'
  OBVIOUS
<1>1. CASE UNCHANGED vars
  BY <1>1 DEF vars, DurableInv, SyncInv, CallInv, CommittedIsDurable,
              streamVars, syncVars, workerVars, mainVars
<1>2. CASE Next
  BY <1>2, <1>1, NextCases, DurableSyncStep, DurableLoopStep, DurableEngineStep
<1>3. QED
  BY <1>1, <1>2

LEMMA DurableInvariant == Spec => []DurableInv
BY TypeCorrect, DurableInit, DurableStep, PTL DEF Spec

(* No save counted by the committed generation can be lost with the power. *)
THEOREM CommittedSurvives == Spec => []CommittedIsDurable
<1>1. DurableInv => CommittedIsDurable
  BY DEF DurableInv
<1>2. QED
  BY <1>1, DurableInvariant, PTL

(* The only step that changes the committed generation. *)
LEMMA CommittedSteps ==
    ASSUME TypeOK, DurableInv, Next
    PROVE  \/ committed' = committed
           \/ \E c \in Callers : SyncStore(c)
<1> USE DEF streamVars, syncVars, workerVars, mainVars
<1>1. CASE Tick
  BY <1>1 DEF Tick
<1>2. CASE \E c \in Callers : SyncStep(c)
  BY <1>2 DEF SyncStep, SyncEntry, SyncLock, IoSyncOk, IoSyncFail, SyncFailed
<1>3. CASE \/ WorkerPoll \/ WorkerCompare \/ WorkerNow
           \/ WorkerClosed \/ WorkerDecide \/ WorkerSynced
  BY <1>3 DEF WorkerPoll, WorkerCompare, WorkerNow, WorkerClosed, WorkerDecide, WorkerSynced
<1>4. CASE MainLoop
  BY <1>4 DEF MainLoop, MainLifecycle, MainPause, MainPaused, MainResumed, MainPolled,
              MainTicked, MainTickedFallback, MainFallbackDone, MainExitRequested,
              MainArmsWatchdog, MainExitPaused, MainExits, WatchdogExits,
              MainReturns, MainCommits, MainSynced
<1>5. CASE (\E t \in Threads : EngineStep(t)) \/ UNCHANGED vars
  BY <1>5 DEF EngineStep, vars
<1>6. QED
  BY <1>1, <1>2, <1>3, <1>4, <1>5, NextCases

LEMMA AdvanceStep ==
    ASSUME TypeOK, DurableInv, DurableInv', [Next]_vars
    PROVE  committed' >= committed /\ committed' <= generation'
<1>1. committed' <= generation'
  BY DEF DurableInv
<1>2. committed \in Nat
  BY DEF TypeOK
<1>3. CASE committed' = committed
  BY <1>1, <1>2, <1>3
<1>4. ASSUME NEW c \in Callers, SyncStore(c)
      PROVE  committed' >= committed
  BY <1>2, <1>4 DEF SyncStore, SeenGeneration, DurableInv, SyncInv, Critical, TypeOK
<1>5. CASE UNCHANGED vars
  BY <1>3, <1>5 DEF vars, syncVars
<1>6. QED
  BY <1>1, <1>3, <1>4, <1>5, CommittedSteps

(* The committed generation never falls back and never runs ahead. *)
THEOREM CommitsAdvance == Spec => CommittedAdvances
<1>1. TypeOK /\ DurableInv /\ DurableInv' /\ [Next]_vars
        => [committed' >= committed /\ committed' <= generation']_vars
  BY AdvanceStep
<1>2. QED
  BY <1>1, TypeCorrect, DurableInvariant, PTL DEF Spec, CommittedAdvances

-----------------------------------------------------------------------------
(***************************************************************************)
(* Why a forced commit that reports success has delivered: "owed" can only *)
(* rise when the main thread enters the call, and a forced call has no way *)
(* to return TRUE except through a sceIoSync() that succeeded.             *)
(***************************************************************************)
ForcedInv ==
    /\ syncPc[Main] = "store" => ~owed
    /\ ForcedCommitDelivers

LEMMA ForcedSyncStep ==
    ASSUME TypeOK, ForcedInv, NEW c \in Callers, SyncStep(c)
    PROVE  ForcedInv'
<1> USE CallersAssumption
    DEF TypeOK, ForcedInv, ForcedCommitDelivers, Callers, SyncGoes, SyncReturn
<1>1. CASE SyncEntry(c)
  BY <1>1 DEF SyncEntry, Commits
<1>2. CASE SyncLock(c)
  <2>1. syncPc[c] = "lock" /\ UNCHANGED <<force, owed>>
    BY <1>2 DEF SyncLock
  <2>2. CASE ~force[c] /\ \E ok \in BOOLEAN : SyncReturn(c, ok)
    BY <2>1, <2>2
  <2>3. CASE \E seen : SyncGoes(c, "io", seen)
    BY <2>1, <2>3
  <2>4. QED
    BY <1>2, <2>1, <2>2, <2>3 DEF SyncLock, Commits
<1>3. CASE IoSyncOk(c)
  BY <1>3 DEF IoSyncOk
<1>4. CASE IoSyncFail(c)
  BY <1>4 DEF IoSyncFail
<1>5. CASE SyncStore(c)
  BY <1>5 DEF SyncStore
<1>6. CASE SyncFailed(c)
  BY <1>6 DEF SyncFailed
<1>7. QED
  BY <1>1, <1>2, <1>3, <1>4, <1>5, <1>6 DEF SyncStep

(* Every other step leaves the call alone or starts a new one. *)
LEMMA ForcedOtherStep ==
    ASSUME TypeOK, ForcedInv,
           \/ UNCHANGED <<syncPc, force, synced, owed>>
           \/ \E c \in Callers, f \in BOOLEAN :
                 SyncCall(c, f) /\ (f => c = Main) /\ UNCHANGED synced
    PROVE  ForcedInv'
<1> USE CallersAssumption DEF TypeOK, ForcedInv, ForcedCommitDelivers, Callers
<1>1. CASE UNCHANGED <<syncPc, force, synced, owed>>
  BY <1>1
<1>2. ASSUME NEW f \in BOOLEAN, SyncCall(Main, f)
      PROVE  ForcedInv'
  BY <1>2 DEF SyncCall
<1>3. ASSUME SyncCall(Worker, FALSE), UNCHANGED synced
      PROVE  ForcedInv'
  BY <1>3 DEF SyncCall
<1>4. QED
  BY <1>1, <1>2, <1>3

LEMMA ForcedStep == TypeOK /\ ForcedInv /\ [Next]_vars => ForcedInv'
<1> SUFFICES ASSUME TypeOK, ForcedInv, [Next]_vars
             PROVE  ForcedInv'
  OBVIOUS
<1> USE DEF streamVars, syncVars, workerVars, mainVars
<1>1. CASE \E c \in Callers : SyncStep(c)
  BY <1>1, ForcedSyncStep
<1>2. CASE Tick \/ UNCHANGED vars \/ \E t \in Threads : EngineStep(t)
  BY <1>2, ForcedOtherStep DEF Tick, vars, EngineStep
<1>3. CASE WorkerPoll \/ WorkerCompare \/ WorkerNow \/ WorkerClosed \/ WorkerSynced
  BY <1>3, ForcedOtherStep DEF WorkerPoll, WorkerCompare, WorkerNow, WorkerClosed, WorkerSynced
<1>4. CASE WorkerDecide
  <2>1. \/ UNCHANGED <<syncPc, force, synced, owed>>
        \/ SyncCall(Worker, FALSE) /\ UNCHANGED synced
    BY <1>4 DEF WorkerDecide
  <2>2. QED
    BY <2>1, ForcedOtherStep DEF Callers
<1>5. CASE MainLoop
  <2>1. CASE MainPause \/ MainExitRequested \/ MainTickedFallback \/ MainExitPaused
    <3>1. \E f \in BOOLEAN : SyncCall(Main, f) /\ UNCHANGED synced
      BY <2>1 DEF MainPause, MainExitRequested, MainTickedFallback, MainExitPaused, MainCommits
    <3>2. QED
      BY <3>1, ForcedOtherStep DEF Callers
  <2>2. CASE ~(MainPause \/ MainExitRequested \/ MainTickedFallback \/ MainExitPaused)
    <3>1. UNCHANGED <<syncPc, force, synced, owed>>
      BY <1>5, <2>2 DEF MainLoop, MainLifecycle, MainPaused, MainResumed, MainPolled, MainTicked,
                        MainFallbackDone, MainArmsWatchdog, MainExits, WatchdogExits,
                        MainReturns, MainSynced
    <3>2. QED
      BY <3>1, ForcedOtherStep
  <2>3. QED
    BY <2>1, <2>2
<1>6. QED
  BY <1>1, <1>2, <1>3, <1>4, <1>5, NextCases

(* A forced commit that reports success leaves nothing of what it was asked *)
(* for in the write cache.                                                  *)
THEOREM ForcedDelivers == Spec => []ForcedCommitDelivers
<1>1. Init => ForcedInv
  BY CallersAssumption DEF Init, ForcedInv, ForcedCommitDelivers, Callers
<1>2. ForcedInv => ForcedCommitDelivers
  BY DEF ForcedInv
<1>3. QED
  BY <1>1, <1>2, TypeCorrect, ForcedStep, PTL DEF Spec

-----------------------------------------------------------------------------
(***************************************************************************)
(* The bridge implements DurableSave: the bump of the counter finishes a   *)
(* save, a successful sceIoSync() flushes, the end of a successful call    *)
(* announces, and every other step is invisible.                           *)
(***************************************************************************)
LEMMA PromiseInit == Init => Promise!DurableInit
BY DEF Init, StreamsInit, Promise!DurableInit

LEMMA PromiseQuietStep ==
    ASSUME UNCHANGED <<generation, unsynced, committed>>
    PROVE  [Promise!DurableNext]_(Promise!durableVars)
BY DEF Promise!durableVars

LEMMA PromiseSyncStep ==
    ASSUME TypeOK, DurableInv, NEW c \in Callers, SyncStep(c)
    PROVE  [Promise!DurableNext]_(Promise!durableVars)
<1>1. CASE IoSyncOk(c)
  BY <1>1 DEF IoSyncOk, Promise!DurableNext, Promise!Flush
<1>2. CASE SyncStore(c)
  <2>1. /\ committed' = pending[c]
        /\ UNCHANGED <<generation, unsynced>>
        /\ syncPc[c] = "store"
    BY <1>2 DEF SyncStore, SeenGeneration, streamVars
  <2>2. /\ committed <= pending[c] /\ pending[c] <= generation
        /\ \A g \in unsynced : g > pending[c]
    BY <2>1 DEF DurableInv, SyncInv, Critical
  <2>3. committed \in Nat /\ generation \in Nat /\ pending[c] \in Nat
    BY DEF TypeOK, StreamsTypeOK
  <2>4. QED
    BY <2>1, <2>2, <2>3 DEF Promise!DurableNext, Promise!Announce
<1>3. CASE SyncEntry(c) \/ SyncLock(c) \/ IoSyncFail(c) \/ SyncFailed(c)
  BY <1>3, PromiseQuietStep DEF SyncEntry, SyncLock, IoSyncFail, SyncFailed, streamVars
<1>4. QED
  BY <1>1, <1>2, <1>3 DEF SyncStep

LEMMA PromiseEngineStep ==
    ASSUME TypeOK, NEW t \in Threads, EngineStep(t)
    PROVE  [Promise!DurableNext]_(Promise!durableVars)
<1>1. UNCHANGED committed
  BY DEF EngineStep, syncVars
<1>2. CASE UNCHANGED <<generation, unsynced>>
  BY <1>1, <1>2, PromiseQuietStep
<1>3. CASE /\ generation' = generation + 1
           /\ unsynced' \in {unsynced, unsynced \cup {generation + 1}}
  BY <1>1, <1>3 DEF Promise!DurableNext, Promise!FinishSave
<1>4. QED
  BY <1>2, <1>3, StreamStepGeneration DEF EngineStep, TypeOK

LEMMA PromiseStep ==
    ASSUME TypeOK, DurableInv, [Next]_vars
    PROVE  [Promise!DurableNext]_(Promise!durableVars)
<1> USE DEF streamVars, syncVars, workerVars, mainVars
<1>1. CASE \E c \in Callers : SyncStep(c)
  BY <1>1, PromiseSyncStep
<1>2. CASE \E t \in Threads : EngineStep(t)
  BY <1>2, PromiseEngineStep
<1>3. CASE Tick \/ UNCHANGED vars
  BY <1>3, PromiseQuietStep DEF Tick, vars
<1>4. CASE \/ WorkerPoll \/ WorkerCompare \/ WorkerNow
           \/ WorkerClosed \/ WorkerDecide \/ WorkerSynced
  BY <1>4, PromiseQuietStep
     DEF WorkerPoll, WorkerCompare, WorkerNow, WorkerClosed, WorkerDecide, WorkerSynced
<1>5. CASE MainLoop
  BY <1>5, PromiseQuietStep
     DEF MainLoop, MainLifecycle, MainPause, MainPaused, MainResumed, MainPolled,
         MainTicked, MainTickedFallback, MainFallbackDone, MainExitRequested,
         MainArmsWatchdog, MainExitPaused, MainExits, WatchdogExits,
         MainReturns, MainCommits, MainSynced
<1>6. QED
  BY <1>1, <1>2, <1>3, <1>4, <1>5, NextCases

(* Every behaviour of the storage bridge is a behaviour of the promise. *)
THEOREM BridgeImplementsPromise == Spec => ImplementsDurableSave
<1>1. TypeOK /\ DurableInv /\ [Next]_vars => [Promise!DurableNext]_(Promise!durableVars)
  BY PromiseStep
<1>2. QED
  BY <1>1, PromiseInit, TypeCorrect, DurableInvariant, PTL
     DEF Spec, ImplementsDurableSave, Promise!DurableSpec

-----------------------------------------------------------------------------
(* Beside the commits too: the worker and the main loop do not touch the table, *)
(* which the engine goes on using through every commit and the exit.            *)
LEMMA BridgeQuiet ==
    ASSUME TypeOK, [Next]_vars, ~\E t \in Threads : StreamStep(t)
    PROVE  UNCHANGED tableVars
<1> USE DEF streamVars, tableVars
<1>1. CASE Tick
  BY <1>1 DEF Tick
<1>2. ASSUME NEW c \in Callers, SyncStep(c)
      PROVE  UNCHANGED tableVars
  BY <1>2 DEF SyncStep, SyncEntry, SyncLock, IoSyncOk, IoSyncFail, SyncStore, SyncFailed
<1>3. CASE \/ WorkerPoll \/ WorkerCompare \/ WorkerNow
           \/ WorkerClosed \/ WorkerDecide \/ WorkerSynced
  BY <1>3 DEF WorkerPoll, WorkerCompare, WorkerNow, WorkerClosed, WorkerDecide, WorkerSynced
<1>4. CASE MainLoop
  BY <1>4
     DEF MainLoop, MainLifecycle, MainPause, MainPaused, MainResumed, MainPolled,
         MainTicked, MainTickedFallback, MainFallbackDone, MainExitRequested,
         MainArmsWatchdog, MainExitPaused, MainExits, WatchdogExits,
         MainReturns, MainCommits, MainSynced
<1>5. ~\E t \in Threads : EngineStep(t)
  BY DEF EngineStep
<1>6. CASE UNCHANGED vars
  BY <1>6 DEF vars
<1>7. QED
  BY <1>1, <1>2, <1>3, <1>4, <1>5, <1>6, NextCases

THEOREM BridgeTableIsHonest == Spec => [](TableHoldsOpenSaves /\ RoomMeansTracked)
<1>1. Init => TableInv /\ CrowdInv
  BY TableInitInv, CrowdInit DEF Init
<1>2. ASSUME TypeOK, TypeOK', TableInv, CrowdInv, [Next]_vars
      PROVE  TableInv' /\ CrowdInv'
  <2>1. CASE \E t \in Threads : StreamStep(t)
    BY <1>2, <2>1, TableStep, CrowdStep
  <2>2. CASE ~\E t \in Threads : StreamStep(t)
    BY <1>2, <2>2, BridgeQuiet, TableQuiet DEF TypeOK
  <2>3. QED
    BY <2>1, <2>2
<1>3. TableInv /\ CrowdInv => TableHoldsOpenSaves /\ RoomMeansTracked
  BY CrowdImplies DEF TableInv
<1>4. QED
  BY <1>1, <1>2, <1>3, TypeCorrect, PTL DEF Spec
=============================================================================
