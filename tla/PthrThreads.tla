----------------------------- MODULE PthrThreads -----------------------------
(* The thread half of reimpl/pthr.c: the worker slots that the trampoline      *)
(* claims and gives back for the watchdog's report, the operation recorded     *)
(* around each blocking call, semaphores, pthread_once() and the bounded wait  *)
(* at the engine's start-up barrier.  Atomics are accessed one at a time; the  *)
(* native library and boost::barrier are external.                             *)
EXTENDS Naturals, FiniteSets

CONSTANTS
    MainThread,         \* the Vita main thread, which has no slot
    Workers,            \* the threads that pthread_create() can make
    MaxThreads,         \* PTHR_MAX_THREADS
    Party,              \* the threads that meet at the barrier
    MaxRounds,          \* bound on the times each of them goes there
    MaxTokens           \* bound on the value of the semaphore

ASSUME MaxThreadsAssumption == MaxThreads \in Nat
ASSUME MainAssumption ==
    MainThread \notin Workers /\ Party \subseteq Workers \cup {MainThread}
ASSUME NoThreadAssumption == 0 \notin Workers
ASSUME PartyAssumption == IsFiniteSet(Party) /\ Party # {}
ASSUME RoundsAssumption == MaxRounds \in Nat /\ MaxTokens \in Nat

AllThreads == Workers \cup {MainThread}
SlotIds == 1..MaxThreads
NoThread == 0

\* What a slot says of its thread.
Fields == {"start", "task", "invoke"}

VARIABLES
    pc,                 \* each thread's place
    at,                 \* the slot it looks at, and later its own (0: none)
    target,             \* the worker it joins
    ids,                \* android_thread_ids
    about,              \* whose start, task and invoke a slot holds
    op,                 \* android_thread_sync_ops
    tokens,             \* the value of the semaphore
    onceControl, onceRuns,
    barrier, seenRound, rounds

slotVars == <<ids, about, op>>
onceVars == <<onceControl, onceRuns>>
barrierVars == <<barrier, seenRound, rounds>>
threadVars == <<pc, at, target, slotVars, tokens, onceVars, barrierVars>>

ThreadsInit ==
    /\ pc = [t \in AllThreads |-> IF t = MainThread THEN "run" ELSE "none"]
    /\ at = [t \in AllThreads |-> 0]
    /\ target = [t \in AllThreads |-> t]
    /\ ids = [i \in SlotIds |-> NoThread]
    /\ about = [i \in SlotIds |-> [f \in Fields |-> NoThread]]
    /\ op = [i \in SlotIds |-> "none"]
    /\ tokens = 0
    /\ onceControl = 0 /\ onceRuns = 0
    /\ barrier = [missing |-> Cardinality(Party), generation |-> 0]
    /\ seenRound = [t \in AllThreads |-> 0]
    /\ rounds = [t \in AllThreads |-> 0]

Goto(t, from, to) == pc[t] = from /\ pc' = [pc EXCEPT ![t] = to]

-----------------------------------------------------------------------------
\* pthread_create_soloader(); a failure frees the start context and leaves
\* nothing behind.
Create(t, w) ==
    /\ pc[t] = "run" /\ pc[w] = "none"
    /\ pc' = [pc EXCEPT ![w] = "claim"]
    /\ at' = [at EXCEPT ![w] = 1]
    /\ UNCHANGED <<target, slotVars, tokens, onceVars, barrierVars>>

\* pthread_start_trampoline(): the compare-and-swap at one slot after another.
Claim(t) ==
    /\ pc[t] = "claim" /\ at[t] <= MaxThreads
    /\ IF ids[at[t]] = NoThread
       THEN /\ ids' = [ids EXCEPT ![at[t]] = t]
            /\ pc' = [pc EXCEPT ![t] = "start"]
            /\ UNCHANGED at
       ELSE at' = [at EXCEPT ![t] = @ + 1] /\ UNCHANGED <<ids, pc>>
    /\ UNCHANGED <<target, about, op, tokens, onceVars, barrierVars>>

\* Every slot is taken: the worker runs untracked.
NoSlot(t) ==
    /\ at[t] > MaxThreads
    /\ Goto(t, "claim", "run")
    /\ at' = [at EXCEPT ![t] = 0]
    /\ UNCHANGED <<target, slotVars, tokens, onceVars, barrierVars>>

Store(t, from, f, value, to) ==
    /\ Goto(t, from, to)
    /\ about' = [about EXCEPT ![at[t]][f] = value]
    /\ UNCHANGED <<at, target, ids, op, tokens, onceVars, barrierVars>>

\* The three stores after the claim.
Describe(t) ==
    \/ Store(t, "start", "start", t, "task")
    \/ Store(t, "task", "task", t, "invoke")
    \/ Store(t, "invoke", "invoke", t, "run")

\* Mutant: the id is given back before the fields are cleared.
ReturnUncleared(t) ==
    /\ t # MainThread
    /\ Goto(t, "run", IF at[t] = 0 THEN "none" ELSE "release")
    /\ UNCHANGED <<at, target, slotVars, tokens, onceVars, barrierVars>>

\* context.start() returns: the fields are cleared and the id comes last.
Return(t) ==
    /\ t # MainThread
    /\ Goto(t, "run", IF at[t] = 0 THEN "none" ELSE "clear")
    /\ UNCHANGED <<at, target, slotVars, tokens, onceVars, barrierVars>>

Clear(t) ==
    \/ Store(t, "clear", "start", NoThread, "clear_task")
    \/ Store(t, "clear_task", "task", NoThread, "clear_invoke")
    \/ Store(t, "clear_invoke", "invoke", NoThread, "clear_op")

ClearOp(t) ==
    /\ Goto(t, "clear_op", "release")
    /\ op' = [op EXCEPT ![at[t]] = "none"]
    /\ UNCHANGED <<at, target, ids, about, tokens, onceVars, barrierVars>>

Release(t) ==
    /\ Goto(t, "release", "none")
    /\ ids' = [ids EXCEPT ![at[t]] = NoThread]
    /\ at' = [at EXCEPT ![t] = 0]
    /\ UNCHANGED <<target, about, op, tokens, onceVars, barrierVars>>

\* pthread_exit() is the native one: the trampoline is not returned to and the
\* slot stays taken.
ExitNatively(t) ==
    /\ t # MainThread
    /\ Goto(t, "run", "none")
    /\ at' = [at EXCEPT ![t] = 0]
    /\ UNCHANGED <<target, slotVars, tokens, onceVars, barrierVars>>

-----------------------------------------------------------------------------
\* worker_sync_begin() and worker_sync_end(); a thread without a slot does neither.
SyncOp(t, o) == op' = IF at[t] = 0 THEN op ELSE [op EXCEPT ![at[t]] = o]

Block(t, o) == Goto(t, "run", o) /\ SyncOp(t, o)
Unblock(t, o) == Goto(t, o, "run") /\ SyncOp(t, "none")

\* pthread_join_soloader()
JoinBegin(t, w) ==
    /\ t # w /\ pc[w] # "none"
    /\ Block(t, "join")
    /\ target' = [target EXCEPT ![t] = w]
    /\ UNCHANGED <<at, ids, about, tokens, onceVars, barrierVars>>

JoinEnd(t) ==
    /\ pc[target[t]] = "none"
    /\ Unblock(t, "join")
    /\ target' = [target EXCEPT ![t] = t]
    /\ UNCHANGED <<at, ids, about, tokens, onceVars, barrierVars>>

SemPost(t) ==
    /\ pc[t] = "run" /\ tokens < MaxTokens
    /\ tokens' = tokens + 1
    /\ UNCHANGED <<pc, at, target, slotVars, onceVars, barrierVars>>

SemTryWait(t) ==
    /\ pc[t] = "run" /\ tokens > 0
    /\ tokens' = tokens - 1
    /\ UNCHANGED <<pc, at, target, slotVars, onceVars, barrierVars>>

SemWaitBegin(t, timed) ==
    /\ Block(t, IF timed THEN "sem_timedwait" ELSE "sem_wait")
    /\ UNCHANGED <<at, target, ids, about, tokens, onceVars, barrierVars>>

SemTaken(t) ==
    /\ \E o \in {"sem_wait", "sem_timedwait", "sem_late"} :
            Goto(t, o, "run")
    /\ SyncOp(t, "none")
    /\ tokens > 0 /\ tokens' = tokens - 1
    /\ UNCHANGED <<at, target, ids, about, onceVars, barrierVars>>

\* sem_timedwait_soloader() after its first millisecond: no deadline, or one
\* that is still ahead, ends the wait at once; one that has passed makes it
\* wait again, for the difference as an unsigned number.
SemTimedGivesUp(t) ==
    /\ Unblock(t, "sem_timedwait")
    /\ UNCHANGED <<at, target, ids, about, tokens, onceVars, barrierVars>>

SemTimedWaitsOn(t) ==
    /\ Goto(t, "sem_timedwait", "sem_late")
    /\ UNCHANGED <<at, target, slotVars, tokens, onceVars, barrierVars>>

SemLateTimesOut(t) ==
    /\ Unblock(t, "sem_late")
    /\ UNCHANGED <<at, target, ids, about, tokens, onceVars, barrierVars>>

\* pthread_once_soloader(): the exchange decides; a second caller goes on at
\* once, whether or not the routine has returned.
OnceTestAndSet(t) ==
    /\ Goto(t, "run", IF onceControl = 0 THEN "once" ELSE "run")
    /\ onceControl' = 1
    /\ UNCHANGED <<at, target, slotVars, tokens, onceRuns, barrierVars>>

OnceRoutine(t) ==
    /\ Goto(t, "once", "run")
    /\ onceRuns' = onceRuns + 1
    /\ UNCHANGED <<at, target, slotVars, tokens, onceControl, barrierVars>>

-----------------------------------------------------------------------------
\* boost::barrier::wait() under the barrier's mutex.  The last to come starts a
\* new generation and broadcasts; the native library may lose the wake-up of
\* any of the waiters.
AtBarrier(t) == pc[t] = "cond_wait"

BarrierLast(t, woken) ==
    /\ t \in Party /\ rounds[t] < MaxRounds
    /\ pc[t] = "run" /\ barrier.missing = 1
    /\ woken \subseteq {u \in AllThreads : AtBarrier(u)}
    /\ barrier' = [missing |-> Cardinality(Party), generation |-> barrier.generation + 1]
    /\ rounds' = [rounds EXCEPT ![t] = @ + 1]
    /\ pc' = [u \in AllThreads |-> IF u \in woken THEN "woken" ELSE pc[u]]
    /\ UNCHANGED <<at, target, slotVars, tokens, onceVars, seenRound>>

BarrierWait(t) ==
    /\ t \in Party /\ rounds[t] < MaxRounds
    /\ barrier.missing > 1
    /\ Block(t, "cond_wait")
    /\ barrier' = [barrier EXCEPT !.missing = @ - 1]
    /\ seenRound' = [seenRound EXCEPT ![t] = barrier.generation]
    /\ rounds' = [rounds EXCEPT ![t] = @ + 1]
    /\ UNCHANGED <<at, target, ids, about, tokens, onceVars>>

\* Mutant: the wait of the main thread is not bounded.
WorkersWaitEnds(t) ==
    /\ t # MainThread
    /\ Goto(t, "cond_wait", "woken")
    /\ UNCHANGED <<at, target, slotVars, tokens, onceVars, barrierVars>>

\* Mutant: the timeout reaches the engine, whose wait() it ends.
TimeoutEndsWait(t) ==
    /\ Goto(t, "cond_wait", "run") /\ SyncOp(t, "none")
    /\ UNCHANGED <<at, target, ids, about, tokens, onceVars, barrierVars>>

\* pthread_cond_wait_soloader() at the barrier's call site: after 250 ms the
\* wait ends as if the condition had woken it.
BoundedWaitEnds(t) ==
    /\ Goto(t, "cond_wait", "woken")
    /\ UNCHANGED <<at, target, slotVars, tokens, onceVars, barrierVars>>

\* The waiter has the mutex again: it looks at the generation and goes on or
\* waits once more.
BarrierCheck(t) ==
    /\ IF barrier.generation # seenRound[t]
       THEN Goto(t, "woken", "run") /\ SyncOp(t, "none")
       ELSE Goto(t, "woken", "cond_wait") /\ UNCHANGED op
    /\ UNCHANGED <<at, target, ids, about, tokens, onceVars, barrierVars>>

TrampolineStep(t) ==
    \/ Claim(t) \/ NoSlot(t) \/ Describe(t)
    \/ Return(t) \/ Clear(t) \/ ClearOp(t) \/ Release(t) \/ ExitNatively(t)

CallStep(t) ==
    \/ \E w \in Workers : Create(t, w) \/ JoinBegin(t, w)
    \/ JoinEnd(t)
    \/ SemPost(t) \/ SemTryWait(t)
    \/ \E timed \in BOOLEAN : SemWaitBegin(t, timed)
    \/ SemTaken(t) \/ SemTimedGivesUp(t) \/ SemTimedWaitsOn(t) \/ SemLateTimesOut(t)
    \/ OnceTestAndSet(t) \/ OnceRoutine(t)

BarrierStep(t) ==
    \/ \E woken \in SUBSET AllThreads : BarrierLast(t, woken)
    \/ BarrierWait(t) \/ BoundedWaitEnds(t) \/ BarrierCheck(t)

\* Two workers may wait for one another: what the engine does with its threads
\* is its own affair.
Stuck ==
    /\ \A t \in AllThreads : pc[t] \in {"none", "join", "sem_wait"}
    /\ UNCHANGED threadVars

ThreadsNext ==
    \/ Stuck
    \/ \E t \in AllThreads : TrampolineStep(t) \/ CallStep(t) \/ BarrierStep(t)

\* The 250 ms pass, and a woken thread gets its mutex and runs.
ThreadsFair ==
    \A t \in AllThreads : WF_threadVars(BoundedWaitEnds(t)) /\ WF_threadVars(BarrierCheck(t))

ThreadsSpec == ThreadsInit /\ [][ThreadsNext]_threadVars /\ ThreadsFair

-----------------------------------------------------------------------------
Blocked == {"join", "sem_wait", "sem_timedwait", "sem_late", "cond_wait", "woken"}

ThreadsTypeOK ==
    /\ pc \in [AllThreads -> Blocked \cup {"none", "claim", "start", "task", "invoke", "run",
                                        "clear", "clear_task", "clear_invoke", "clear_op",
                                        "release", "once"}]
    /\ at \in [AllThreads -> 0..MaxThreads + 1]
    /\ target \in [AllThreads -> AllThreads]
    /\ ids \in [SlotIds -> Workers \cup {NoThread}]
    /\ about \in [SlotIds -> [Fields -> Workers \cup {NoThread}]]
    /\ op \in [SlotIds -> Blocked \cup {"none"}]
    /\ tokens \in 0..MaxTokens
    /\ onceControl \in {0, 1} /\ onceRuns \in Nat
    /\ barrier \in [missing : 1..Cardinality(Party), generation : Nat]
    /\ seenRound \in [AllThreads -> Nat] /\ rounds \in [AllThreads -> 0..MaxRounds]

\* The watchdog's report of a hang can be trusted: what a slot says belongs to
\* the thread whose id it shows, a free slot says nothing, and a recorded
\* operation means that the thread is inside that call.
SlotFieldsOwned ==
    \A i \in SlotIds :
        /\ \A f \in Fields : about[i][f] \in {NoThread, ids[i]}
        /\ op[i] # "none" =>
            \E t \in Workers : ids[i] = t /\ at[t] = i /\ pc[t] \in Blocked

\* Inside the barrier's wait(), blocked or woken and about to look.
InBarrier(t) == pc[t] \in {"cond_wait", "woken"}

\* How often t has been let through the barrier.
Passed(t) == IF InBarrier(t) THEN rounds[t] - 1 ELSE rounds[t]

\* The bounded wait is no way around the start-up barrier: nobody of the party
\* gets past it more often than every other has come to it, although each wait
\* may end with nothing to wake it, and a thread may be back for the next round
\* before the others have left this one.
NobodyPassesEarly == \A t, u \in Party : Passed(t) <= rounds[u]

\* Once the last of the party has come to the start-up barrier every waiter
\* returns from wait(), though the broadcast may be lost on all of them and a
\* bounded wait that ends just before the last arrival sends its thread back:
\* nobody is woken and sent back for ever.
BarrierPassed ==
    \A t \in Party : (InBarrier(t) /\ barrier.generation # seenRound[t]) ~> ~InBarrier(t)
=============================================================================
