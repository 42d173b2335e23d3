----------------------------- MODULE ProfileSync -----------------------------
(***************************************************************************)
(* The write-back cache for profile saves of source/main.c over the stream *)
(* bridge of ProfileStreams: sync_profile_storage(), the worker thread     *)
(* that commits in the background, the synchronous fallback, the main      *)
(* loop's pause/resume lifecycle and the clean exit with its watchdog.     *)
(*                                                                         *)
(* Time is relative.  A stored timestamp is an age, the worker's local     *)
(* copies included, and Tick ages them all: subtracting two timestamps is  *)
(* subtracting two ages the other way round.  The subtraction itself is    *)
(* the code's, on unsigned words.                                          *)
(***************************************************************************)
EXTENDS ProfileStreams

CONSTANTS
    Main,         \* the thread of main(); the engine may save on it inside callbacks
    Worker,       \* the thread of profile_sync_worker()
    Nobody,       \* the free profile_sync_mutex
    Quiet,        \* PROFILE_SYNC_QUIET_US
    MinInterval,  \* PROFILE_SYNC_MIN_INTERVAL_US
    MaxDirty,     \* PROFILE_SYNC_MAX_DIRTY_US
    Retry,        \* the back-off after a failed sceIoSync (1 s)
    MaxStall,     \* bound: the ticks between the worker's reading the time and using it
    Word          \* 2^64

Callers == {Main, Worker}

ASSUME CallersAssumption ==
    Main \in Threads /\ Worker \notin Threads /\ Nobody \notin Callers
ASSUME TimesAssumption ==
    /\ Quiet \in Nat /\ MinInterval \in Nat /\ MaxDirty \in Nat
    /\ Retry \in Nat /\ MaxStall \in Nat
    /\ Word \in Nat /\ Word > 2 * AgeCap
    /\ AgeCap >= Quiet + MaxStall
    /\ AgeCap >= MinInterval + MaxStall
    /\ AgeCap >= MaxDirty + MaxStall

VARIABLES
    lock,         \* owner of profile_sync_mutex
    committed,    \* committed_profile_generation
    lastSync,     \* age of profile_last_sync_us
    retryIn,      \* ticks until profile_sync_retry_after_us
    syncPc,       \* where each caller is in sync_profile_storage()
    pending,      \* the generation that call saw (between calls: the worker's own "pending")
    force,        \* its "force" argument
    synced,       \* the result of the main thread's last sync_profile_storage()
    wkPc,         \* where profile_sync_worker() is in its loop
    nowAge,       \* age of the worker's "now"
    dirtyAge,     \* age of dirty_since_us
    quiet,        \* the worker's "quiet"
    mainPc,       \* where the main loop is
    paused,       \* lifecycle_paused
    workerUp,     \* profile_sync_worker_available
    watchdog,     \* clean_exit_watchdog() is running
    running,      \* the process exists
    owed          \* data at risk when a forced commit was requested is still at risk

syncVars == <<lock, committed, lastSync, retryIn, syncPc, pending, force, synced>>
workerVars == <<wkPc, nowAge, dirtyAge, quiet>>
mainVars == <<mainPc, paused, workerUp, watchdog, running>>
vars == <<streamVars, syncVars, workerVars, mainVars, owed>>

SyncStates == {"out", "entry", "lock", "io", "store", "fail"}
WorkerStates == {"sleep", "compare", "now", "closed", "last", "sync"}
MainStates == {"lifecycle", "pausing", "pauseSync", "resuming", "poll", "tick",
               "fallback", "exitSync", "exiting", "exitSync2", "exit"}
InCallback == {"pausing", "resuming", "poll", "tick", "exiting"}

TypeOK ==
    /\ StreamsTypeOK
    /\ lock \in Callers \cup {Nobody}
    /\ committed \in Nat
    /\ lastSync \in Ages \cup {Never}
    /\ retryIn \in 0..Retry
    /\ syncPc \in [Callers -> SyncStates]
    /\ pending \in [Callers -> Nat]
    /\ force \in [Callers -> BOOLEAN]
    /\ synced \in BOOLEAN
    /\ wkPc \in WorkerStates
    /\ nowAge \in Ages
    /\ dirtyAge \in Ages \cup {Never}
    /\ quiet \in BOOLEAN
    /\ mainPc \in MainStates
    /\ paused \in BOOLEAN
    /\ workerUp \in BOOLEAN
    /\ watchdog \in BOOLEAN
    /\ running \in BOOLEAN
    /\ owed \in BOOLEAN

(* start_profile_sync_worker(): pthread_create() may fail. *)
Init ==
    /\ StreamsInit
    /\ lock = Nobody
    /\ committed = 0
    /\ lastSync = Never
    /\ retryIn = 0
    /\ syncPc = [c \in Callers |-> "out"]
    /\ pending = [c \in Callers |-> 0]
    /\ force = [c \in Callers |-> FALSE]
    /\ synced = FALSE
    /\ wkPc = "sleep"
    /\ nowAge = 0
    /\ dirtyAge = Never
    /\ quiet = FALSE
    /\ mainPc = "lifecycle"
    /\ paused = FALSE
    /\ workerUp \in BOOLEAN
    /\ watchdog = FALSE
    /\ running = TRUE
    /\ owed = FALSE

AtRisk == unsynced # {} \/ closing # {} \/ stray

(* later - earlier on unsigned words, both given as ages. *)
Elapsed(earlier, later) == (earlier - later) % Word

Older(age) == IF age = Never \/ age = AgeCap THEN age ELSE age + 1

(* One unit of time.  The worker's "now" is in use from reading it until   *)
(* the mutex is released, and it is not kept for more than MaxStall ticks. *)
Tick ==
    /\ running
    /\ wkPc \in {"closed", "last"} => nowAge < MaxStall
    /\ lastClosed' = Older(lastClosed)
    /\ lastSync' = Older(lastSync)
    /\ retryIn' = IF retryIn = 0 THEN 0 ELSE retryIn - 1
    /\ nowAge' = IF wkPc \in {"closed", "last"} THEN nowAge + 1 ELSE nowAge
    /\ dirtyAge' = Older(dirtyAge)
    /\ UNCHANGED <<slots, holds, ioPc, ioStream, ioSlot, ioDone, ioKind, generation,
                   unsynced, closing, stray, crowd, lock, committed, syncPc, pending,
                   force, synced, wkPc, quiet, mainVars, owed>>

-----------------------------------------------------------------------------
(* sync_profile_storage(force, reason), called by the main thread and by   *)
(* the worker.  SyncCall and SyncReturn are the call's parts of a step: a  *)
(* call's locals end with it, and the worker discards its result.          *)
SyncCall(c, f) ==
    /\ syncPc' = [syncPc EXCEPT ![c] = "entry"]
    /\ force' = [force EXCEPT ![c] = f]
    /\ owed' = IF f THEN AtRisk ELSE owed

SyncReturn(c, ok) ==
    /\ syncPc' = [syncPc EXCEPT ![c] = "out"]
    /\ pending' = [pending EXCEPT ![c] = 0]
    /\ synced' = IF c = Main THEN ok ELSE synced

SyncGoes(c, to, seen) ==
    /\ syncPc' = [syncPc EXCEPT ![c] = to]
    /\ pending' = [pending EXCEPT ![c] = seen]
    /\ UNCHANGED synced

(* There is something to commit; mutant: "force" is not looked at. *)
CommitsPending(c) == generation # committed
Commits(c) == force[c] \/ generation # committed

(* The generation the critical section goes on with; mutant: the one read  *)
(* before the mutex was taken.                                             *)
StaleGeneration(c) == pending[c]
LockedGeneration(c) == generation

(* Who owns the mutex after the early return; mutant: it is kept. *)
KeptBy(c) == c
Released(c) == Nobody

(* The generation reported committed; mutant: the one current by then. *)
CurrentGeneration(c) == generation
SeenGeneration(c) == pending[c]

(* The back-off of a failed commit. *)
Backoff == Retry

(* The check without the mutex. *)
SyncEntry(c) ==
    /\ running
    /\ syncPc[c] = "entry"
    /\ IF Commits(c) THEN SyncGoes(c, "lock", generation) ELSE SyncReturn(c, TRUE)
    /\ UNCHANGED <<streamVars, lock, committed, lastSync, retryIn, force,
                   workerVars, mainVars, owed>>

(* The mutex is taken, generation, committed and time are read again, and  *)
(* the early returns give it back.                                         *)
SyncLock(c) ==
    /\ running
    /\ syncPc[c] = "lock"
    /\ lock = Nobody
    /\ \/ ~Commits(c) /\ SyncReturn(c, TRUE) /\ UNCHANGED lock
       \/ Commits(c) /\ ~force[c] /\ retryIn > 0 /\ SyncReturn(c, FALSE) /\ lock' = Released(c)
       \/ Commits(c) /\ (force[c] \/ retryIn = 0) /\ lock' = c
            /\ SyncGoes(c, "io", LockedGeneration(c))
    /\ UNCHANGED <<streamVars, committed, lastSync, retryIn, force,
                   workerVars, mainVars, owed>>

(* sceIoSync("ux0:") succeeds: what the write cache held at some instant   *)
(* of the call is on the card.                                             *)
IoSyncOk(c) ==
    /\ running
    /\ syncPc[c] = "io"
    /\ unsynced' = {} /\ closing' = {} /\ stray' = FALSE /\ owed' = FALSE
    /\ SyncGoes(c, "store", pending[c])
    /\ UNCHANGED <<slots, holds, ioPc, ioStream, ioSlot, ioDone, ioKind, generation,
                   lastClosed, crowd, lock, committed, lastSync, retryIn, force,
                   workerVars, mainVars>>

(* sceIoSync fails: the data stays where it was. *)
IoSyncFail(c) ==
    /\ running
    /\ syncPc[c] = "io"
    /\ SyncGoes(c, "fail", pending[c])
    /\ UNCHANGED <<streamVars, lock, committed, lastSync, retryIn, force,
                   workerVars, mainVars, owed>>

(* The success path: what was pending before sceIoSync is now committed. *)
SyncStore(c) ==
    /\ running
    /\ syncPc[c] = "store"
    /\ retryIn' = 0
    /\ lastSync' = 0
    /\ committed' = SeenGeneration(c)
    /\ lock' = Nobody
    /\ SyncReturn(c, TRUE)
    /\ UNCHANGED <<streamVars, force, workerVars, mainVars, owed>>

(* The failure path: unforced commits wait for the back-off. *)
SyncFailed(c) ==
    /\ running
    /\ syncPc[c] = "fail"
    /\ retryIn' = Backoff
    /\ lock' = Nobody
    /\ SyncReturn(c, FALSE)
    /\ UNCHANGED <<streamVars, committed, lastSync, force, workerVars, mainVars, owed>>

SyncStep(c) ==
    \/ SyncEntry(c) \/ SyncLock(c) \/ IoSyncOk(c) \/ IoSyncFail(c)
    \/ SyncStore(c) \/ SyncFailed(c)

-----------------------------------------------------------------------------
(* profile_sync_worker().  The poll delay is the step out of "sleep".      *)
WorkerPoll ==
    /\ running
    /\ wkPc = "sleep"
    /\ workerUp
    /\ pending' = [pending EXCEPT ![Worker] = generation]
    /\ wkPc' = "compare"
    /\ UNCHANGED <<streamVars, lock, committed, lastSync, retryIn, syncPc, force, synced,
                   nowAge, dirtyAge, quiet, mainVars, owed>>

WorkerCompare ==
    LET clean == pending[Worker] = committed
    IN  /\ running
        /\ wkPc = "compare"
        /\ wkPc' = IF clean THEN "sleep" ELSE "now"
        /\ dirtyAge' = IF clean THEN Never ELSE dirtyAge
        /\ pending' = [pending EXCEPT ![Worker] = 0]
        /\ UNCHANGED <<streamVars, lock, committed, lastSync, retryIn, syncPc, force, synced,
                       nowAge, quiet, mainVars, owed>>

WorkerNow ==
    /\ running
    /\ wkPc = "now"
    /\ wkPc' = "closed"
    /\ nowAge' = 0
    /\ dirtyAge' = IF dirtyAge = Never THEN 0 ELSE dirtyAge
    /\ UNCHANGED <<streamVars, syncVars, quiet, mainVars, owed>>

(* The close time is read after "now": a save closed in between is younger *)
(* than "now", and the unsigned difference wraps.                          *)
WorkerClosed ==
    /\ running
    /\ wkPc = "closed"
    /\ wkPc' = "last"
    /\ quiet' = (lastClosed # Never /\ Elapsed(lastClosed, nowAge) >= Quiet)
    /\ UNCHANGED <<streamVars, syncVars, nowAge, dirtyAge, mainVars, owed>>

(* profile_last_sync_us is read under the mutex, which a commit in flight  *)
(* holds, and the decision is taken.                                       *)
WorkerDecide ==
    LET interval == lastSync # Never => Elapsed(lastSync, nowAge) >= MinInterval
        maxAge == Elapsed(dirtyAge, nowAge) >= MaxDirty
        due == (quiet /\ interval) \/ maxAge
    IN  /\ running
        /\ wkPc = "last"
        /\ lock = Nobody
        /\ wkPc' = IF due THEN "sync" ELSE "sleep"
        /\ IF due THEN SyncCall(Worker, FALSE) ELSE UNCHANGED <<syncPc, force, owed>>
        /\ nowAge' = 0
        /\ quiet' = FALSE
        /\ UNCHANGED <<streamVars, lock, committed, lastSync, retryIn, pending, synced,
                       dirtyAge, mainVars>>

WorkerSynced ==
    /\ running
    /\ wkPc = "sync"
    /\ syncPc[Worker] = "out"
    /\ wkPc' = "sleep"
    /\ dirtyAge' = IF generation = committed THEN Never ELSE dirtyAge
    /\ UNCHANGED <<streamVars, syncVars, nowAge, quiet, mainVars, owed>>

WorkerStep ==
    WorkerPoll \/ WorkerCompare \/ WorkerNow \/ WorkerClosed \/ WorkerDecide
        \/ WorkerSynced \/ SyncStep(Worker)

-----------------------------------------------------------------------------
(* update_lifecycle().  A failed query, and a query that answers what is   *)
(* already known, leave "paused" alone; the paused loop only waits.        *)
MainLifecycle ==
    /\ running
    /\ mainPc = "lifecycle"
    /\ mainPc' \in IF paused THEN {"resuming"} ELSE {"poll", "pausing"}
    /\ UNCHANGED <<streamVars, syncVars, workerVars, paused, workerUp, watchdog,
                   running, owed>>

(* A native callback returns, and the loop goes on without a commit. *)
MainReturns(from, to) ==
    /\ running
    /\ mainPc = from
    /\ ioPc[Main] = "idle"
    /\ mainPc' = to
    /\ UNCHANGED <<streamVars, syncVars, workerVars, workerUp, watchdog, running, owed>>

(* A native callback returns, and the loop requests a commit. *)
MainCommits(from, to, f) ==
    /\ running
    /\ mainPc = from
    /\ ioPc[Main] = "idle"
    /\ mainPc' = to
    /\ SyncCall(Main, f)
    /\ UNCHANGED <<streamVars, lock, committed, lastSync, retryIn, pending, synced,
                   workerVars, paused, workerUp, watchdog, running>>

(* sync_profile_storage() has returned to the main loop. *)
MainSynced(from, to) ==
    /\ running
    /\ mainPc = from
    /\ syncPc[Main] = "out"
    /\ mainPc' = to
    /\ UNCHANGED <<streamVars, syncVars, workerVars, workerUp, owed>>

MainPause == MainCommits("pausing", "pauseSync", TRUE)
MainPaused ==
    /\ MainSynced("pauseSync", "lifecycle")
    /\ paused' = TRUE
    /\ UNCHANGED <<watchdog, running>>
MainResumed == MainReturns("resuming", "poll") /\ paused' = FALSE

(* controls_poll(); the exit request it may raise is consumed at once. *)
MainPolled == MainReturns("poll", "tick") /\ UNCHANGED paused
MainExitRequested == MainCommits("poll", "exitSync", TRUE)

(* native_tick(), then the fallback when the worker could not be started. *)
MainTicked == MainReturns("tick", "lifecycle") /\ workerUp /\ UNCHANGED paused
MainTickedFallback == MainCommits("tick", "fallback", FALSE) /\ ~workerUp
MainFallbackDone ==
    /\ MainSynced("fallback", "lifecycle")
    /\ UNCHANGED <<paused, watchdog, running>>

(* perform_clean_exit(): the result of the first commit is ignored, and    *)
(* the watchdog thread may fail to start.                                  *)
MainArmsWatchdog ==
    /\ MainSynced("exitSync", "exiting")
    /\ watchdog' \in BOOLEAN
    /\ UNCHANGED <<paused, running>>
MainExitPaused == MainCommits("exiting", "exitSync2", TRUE)
MainExits ==
    /\ MainSynced("exitSync2", "exit")
    /\ running' = FALSE
    /\ UNCHANGED <<paused, watchdog>>

(* clean_exit_watchdog(): its 3 s may end at any later moment. *)
WatchdogExits ==
    /\ running
    /\ watchdog
    /\ running' = FALSE
    /\ UNCHANGED <<streamVars, syncVars, workerVars, mainPc, paused, workerUp, watchdog, owed>>

MainStep ==
    \/ MainPause \/ MainPaused \/ MainResumed \/ MainPolled \/ MainTicked
    \/ MainTickedFallback \/ MainFallbackDone \/ MainExitRequested
    \/ MainArmsWatchdog \/ MainExitPaused \/ MainExits \/ SyncStep(Main)

(* The engine reads and writes files on its own threads at any time and on *)
(* the main thread inside native callbacks.                                *)
EngineStep(t) ==
    /\ running
    /\ t = Main => mainPc \in InCallback
    /\ StreamStep(t)
    /\ UNCHANGED <<syncVars, workerVars, mainVars, owed>>

(* The process is gone; nothing happens any more. *)
Stopped == ~running /\ UNCHANGED vars

Next ==
    \/ Tick
    \/ WorkerStep
    \/ MainLifecycle
    \/ MainStep
    \/ WatchdogExits
    \/ \E t \in Threads : EngineStep(t)
    \/ Stopped

Spec == Init /\ [][Next]_vars

CallbackReturns ==
    MainPause \/ MainResumed \/ MainPolled \/ MainExitRequested \/ MainTicked
        \/ MainTickedFallback \/ MainExitPaused

(* The engine gets on with a file it has opened on the main thread. *)
MainFinishesFile == EngineStep(Main) /\ ioPc[Main] # "idle"

(* What the scheduler and the card owe: threads that can run do run, time  *)
(* passes, a native callback returns and closes what it opened, and a card *)
(* asked again and again answers in the end.  The mutex owes nobody a turn. *)
Fairness ==
    /\ WF_vars(Tick)
    /\ WF_vars(WorkerStep)
    /\ WF_vars(MainLifecycle)
    /\ WF_vars(MainStep)
    /\ WF_vars(MainFinishesFile)
    /\ SF_vars(CallbackReturns)
    /\ SF_vars(\E c \in Callers : IoSyncOk(c))

FairSpec == Spec /\ Fairness

-----------------------------------------------------------------------------
(* "Autosave checkpoint N committed" is true: no save counted up to the     *)
(* committed generation is still only in the write cache, at any instant,   *)
(* so a power loss at any instant keeps them all.                           *)
CommittedIsDurable == \A g \in unsynced : g > committed

(* The committed generation never falls back, whichever of the two callers  *)
(* of sync_profile_storage() finishes last, and never runs ahead.           *)
CommittedAdvances == [][committed' >= committed /\ committed' <= generation']_vars

(* A forced commit (system UI pause, clean exit) that reports success has   *)
(* moved to the card all that was at risk when it was requested, saves that *)
(* no generation counts included.                                           *)
ForcedCommitDelivers ==
    (force[Main] /\ syncPc[Main] = "out" /\ synced) => ~owed

(* "Storage is committed before this watchdog starts." *)
WatchdogAfterCommit == [][(~watchdog /\ watchdog') => ~owed]_vars

(* Every save is committed in the end, although sceIoSync() may fail and    *)
(* back off, commits may collide and the worker's clock arithmetic may be   *)
(* off; without the worker, as long as the system UI is not left open.      *)
EverySaveCommitted ==
    \A g \in 1..MaxSaves :
        (generation >= g) ~> (committed >= g \/ ~running \/ (~workerUp /\ paused))

(* The bridge implements the promise. *)
Promise == INSTANCE DurableSave WITH
    saves <- generation, volatile <- unsynced, checkpoint <- committed

ImplementsDurableSave == Promise!DurableSpec
=============================================================================
