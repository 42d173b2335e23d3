----------------------------- MODULE PthrBridge -----------------------------
(***************************************************************************)
(* The mutexes and conditions of source/reimpl/pthr.c.  The four bytes of  *)
(* an Android object hold its static initializer until the bridge puts a   *)
(* pointer to a native object there; a registry under one lock remembers   *)
(* the objects that were bridged.  Once the word is a pointer the lock of  *)
(* the registry is no longer taken.                                        *)
(*                                                                         *)
(* The callers keep to POSIX: an object is initialised, destroyed or given *)
(* away as memory only while no other thread uses it.  Stores are seen in   *)
(* program order.                                                           *)
(***************************************************************************)
EXTENDS Naturals, FiniteSets

CONSTANTS
    Threads,
    Mutexes, Conds, \* the addresses of Android objects
    Reals,          \* the addresses calloc() gives to native objects
    Slots,          \* PTHR_MAX_OBJECTS
    Zero,           \* NULL, which is the normal static initializer
    Recursive,      \* the recursive or the error-checking static initializer
    Garbage,        \* memory that is neither an initializer nor a pointer of the bridge
    None,           \* no thread, no object
    Forgetful       \* whether memory is reused without pthread_mutex_destroy()

Objects == Mutexes \cup Conds
Calls == {"lock", "trylock", "unlock", "init", "destroy", "wait", "timedwait", "signal", "broadcast"}

ASSUME ObjectsAssumption == Mutexes \cap Conds = {}
Words == {Zero, Recursive, Garbage} \* what no native object's address is

ASSUME WordsAssumption == Words \cap Reals = {} /\ Zero # Recursive /\ Garbage \notin {Zero, Recursive}
ASSUME NoneAssumption == None \notin Threads \cup Objects \cup Reals \cup Calls
ASSUME SlotsAssumption == Slots \in Nat /\ Forgetful \in BOOLEAN

VARIABLES
    word,      \* the word of each object
    usable,    \* the objects a caller may use without initialising them first
    registry,  \* initializedObjects[]
    holder,    \* the thread in pthr_mutex
    native,    \* the state of each native object
    owner,     \* the thread that holds each native mutex
    pc, op,    \* where each thread is, in which call
    arg,       \* the object of its call
    with,      \* the mutex of a wait
    local,     \* real_ptr while it is built, and the native condition it waits on
    inside,    \* the mutexes whose lock call returned 0 to the thread (history)
    misused,   \* the objects used through a word that leads to no native object (history)
    refused    \* the usable objects a call returned EINVAL for (history)

callVars == <<op, arg, with>>
historyVars == <<misused, refused>>
vars == <<word, usable, registry, holder, native, owner, pc, callVars, local, inside, historyVars>>

Building == {"lookup", "init", "publish"}
Places == {"idle", "check", "enter", "recheck", "native", "waiting", "wake", "forget", "free", "clear"}
          \cup Building

SlotsSuffice == IsFiniteSet(registry) /\ Cardinality(registry) <= Slots

TypeOK ==
    /\ word \in [Objects -> Reals \cup Words]
    /\ usable \in SUBSET Objects
    /\ registry \in SUBSET Objects /\ SlotsSuffice
    /\ holder \in Threads \cup {None}
    /\ native \in [Reals -> {"free", "raw", "ready"}]
    /\ owner \in [Reals -> Threads \cup {None}]
    /\ pc \in [Threads -> Places]
    /\ op \in [Threads -> Calls \cup {None}]
    /\ arg \in [Threads -> Objects \cup {None}]
    /\ with \in [Threads -> Mutexes \cup {None}]
    /\ local \in [Threads -> Reals \cup {None}]
    /\ inside \in [Threads -> SUBSET Mutexes]
    /\ misused \in SUBSET Objects
    /\ refused \in SUBSET Objects

(* The static initializers of a mutex and of a condition. *)
Initializers(o) == IF o \in Mutexes THEN {Zero, Recursive} ELSE {Zero}

(* Static objects and memory that is yet to be initialised. *)
Init ==
    /\ usable \in SUBSET Objects
    /\ word \in [Objects -> Words]
    /\ \A o \in Objects : word[o] \in IF o \in usable THEN Initializers(o) ELSE {Garbage}
    /\ registry = {} /\ holder = None
    /\ native = [r \in Reals |-> "free"] /\ owner = [r \in Reals |-> None]
    /\ pc = [t \in Threads |-> "idle"] /\ op = [t \in Threads |-> None]
    /\ arg = [t \in Threads |-> None] /\ with = [t \in Threads |-> None]
    /\ local = [t \in Threads |-> None]
    /\ inside = [t \in Threads |-> {}]
    /\ misused = {} /\ refused = {}

Go(t, place) == pc' = [pc EXCEPT ![t] = place]

(* The call ends; what it was about is forgotten. *)
Return(t) ==
    /\ Go(t, "idle")
    /\ op' = [op EXCEPT ![t] = None]
    /\ arg' = [arg EXCEPT ![t] = None]
    /\ with' = [with EXCEPT ![t] = None]
    /\ local' = [local EXCEPT ![t] = None]

(* A word that is no static initializer is taken for a pointer. *)
HasReal(o) == word[o] \notin Initializers(o)
Fit(o) == word[o] \in Reals /\ native[word[o]] = "ready"

Users(o) == {t \in Threads : o \in {arg[t], with[t]} \cup inside[t]}

-----------------------------------------------------------------------------
(* The callers' side: which calls POSIX allows in this state. *)
Allowed(t, o, call, m) ==
    CASE call \in {"lock", "trylock"} -> o \in (Mutexes \cap usable) \ inside[t] /\ m = None
      [] call = "unlock" -> o \in inside[t] /\ m = None
      [] call = "init" -> o \notin usable /\ Users(o) = {} /\ m = None
      [] call = "destroy" -> o \in usable /\ Users(o) = {} /\ m = None
      [] call \in {"wait", "timedwait"} -> o \in Conds \cap usable /\ m \in inside[t]
      [] call \in {"signal", "broadcast"} -> o \in Conds \cap usable /\ m = None

Starts(call) == CASE call = "init" -> "enter" [] call = "destroy" -> "forget" [] OTHER -> "check"

Call(t) ==
    /\ pc[t] = "idle"
    /\ \E o \in Objects, call \in Calls, m \in Mutexes \cup {None} :
          /\ Allowed(t, o, call, m)
          /\ Go(t, Starts(call))
          /\ op' = [op EXCEPT ![t] = call]
          /\ arg' = [arg EXCEPT ![t] = o]
          /\ with' = [with EXCEPT ![t] = m]
          /\ usable' = IF call = "destroy" THEN usable \ {o} ELSE usable
    /\ UNCHANGED <<word, registry, holder, native, owner, local, inside, historyVars>>

(* The memory of a destroyed object becomes another object.  On Bionic the  *)
(* destruction of a mutex does nothing, and Forgetful callers leave it out. *)
Reuse(o) ==
    /\ Users(o) = {}
    /\ o \in usable => Forgetful
    /\ \/ /\ \E w \in Initializers(o) : word' = [word EXCEPT ![o] = w]
          /\ usable' = usable \cup {o}
       \/ /\ word' = [word EXCEPT ![o] = Garbage]
          /\ usable' = usable \ {o}
    /\ UNCHANGED <<registry, holder, native, owner, pc, callVars, local, inside, historyVars>>

-----------------------------------------------------------------------------
(* _mutex_t_has_real_ptr() and _cond_t_has_real_ptr() at the head of a      *)
(* call.  Only unlock does not initialise what it finds.                    *)
Check(t) ==
    /\ pc[t] = "check"
    /\ \/ HasReal(arg[t]) /\ Go(t, "native") /\ UNCHANGED <<callVars, local, refused>>
       \/ ~HasReal(arg[t]) /\ op[t] # "unlock" /\ Go(t, "enter") /\ UNCHANGED <<callVars, local, refused>>
       \/ /\ ~HasReal(arg[t]) /\ op[t] = "unlock"
          /\ Return(t)
          /\ refused' = refused \cup {arg[t]}
    /\ UNCHANGED <<word, usable, registry, holder, native, owner, inside, misused>>

(* PTHR_LOCK of the static initialization. *)
Enter(t) ==
    /\ pc[t] = "enter"
    /\ holder = None
    /\ holder' = t
    /\ Go(t, "lookup")
    /\ UNCHANGED <<word, usable, registry, native, owner, callVars, local, inside, historyVars>>

(* isObjectInitializedUnlocked(); mutant: nothing is ever found. *)
KnowsNothing(o) == FALSE
Knows(o) == o \in registry

(* The word while the native object is not yet initialised; mutant: it is   *)
(* published as soon as it is allocated.                                    *)
PublishedEarly(o, r) == [word EXCEPT ![o] = r]
Unpublished(o, r) == word

(* The lock after a failed initialization. *)
ReleasedLock(t) == None

Lookup(t) ==
    /\ pc[t] = "lookup"
    /\ \/ /\ Knows(arg[t])
          /\ holder' = None
          /\ Go(t, "recheck")
          /\ UNCHANGED <<word, native, callVars, local>>
       \/ /\ ~Knows(arg[t])
          /\ \E r \in Reals :
                /\ native[r] = "free"
                /\ native' = [native EXCEPT ![r] = "raw"]
                /\ local' = [local EXCEPT ![t] = r]
                /\ word' = Unpublished(arg[t], r)
          /\ Go(t, "init")
          /\ UNCHANGED <<holder, callVars>>
       \/ /\ ~Knows(arg[t])
          /\ holder' = ReleasedLock(t)
          /\ Return(t)
          /\ UNCHANGED <<word, native>>
    /\ UNCHANGED <<usable, registry, owner, inside, historyVars>>

(* pthread_mutex_init() or pthread_cond_init() of the native object. *)
NativeInit(t) ==
    /\ pc[t] = "init"
    /\ \/ /\ native' = [native EXCEPT ![local[t]] = "ready"]
          /\ Go(t, "publish")
          /\ UNCHANGED <<holder, callVars, local>>
       \/ /\ native' = [native EXCEPT ![local[t]] = "free"]
          /\ holder' = None
          /\ Return(t)
    /\ UNCHANGED <<word, usable, registry, owner, inside, historyVars>>

(* A native object no slot was found for; mutant: it is not given back. *)
Leaked(r) == native
Discarded(r) == [native EXCEPT ![r] = "free"]

(* A slot is left. *)
HasRoom == Cardinality(registry) < Slots

Publish(t) ==
    /\ pc[t] = "publish"
    /\ holder' = None
    /\ \/ /\ HasRoom
          /\ registry' = registry \cup {arg[t]}
          /\ word' = [word EXCEPT ![arg[t]] = local[t]]
          /\ local' = [local EXCEPT ![t] = None]
          /\ Go(t, "recheck")
          /\ UNCHANGED <<native, callVars>>
       \/ /\ ~HasRoom
          /\ native' = Discarded(local[t])
          /\ Return(t)
          /\ UNCHANGED <<registry, word>>
    /\ UNCHANGED <<usable, owner, inside, historyVars>>

(* After the initialization: the init calls return, the others look at the  *)
(* word again, but only for NULL.                                           *)
Recheck(t) ==
    /\ pc[t] = "recheck"
    /\ \/ /\ op[t] = "init"
          /\ Return(t)
          /\ usable' = usable \cup {arg[t]}
          /\ UNCHANGED refused
       \/ /\ op[t] # "init" /\ word[arg[t]] # Zero
          /\ Go(t, "native")
          /\ UNCHANGED <<callVars, local, usable, refused>>
       \/ /\ op[t] # "init" /\ word[arg[t]] = Zero
          /\ Return(t)
          /\ refused' = refused \cup {arg[t]}
          /\ UNCHANGED usable
    /\ UNCHANGED <<word, registry, holder, native, owner, inside, misused>>

-----------------------------------------------------------------------------
(* The native calls.  What a call on anything but an initialised native     *)
(* object does is undefined: it is noted and the call returns.              *)
Misuse(t) ==
    /\ pc[t] = "native"
    /\ ~Fit(arg[t])
    /\ misused' = misused \cup {arg[t]}
    /\ Return(t)
    /\ UNCHANGED <<word, usable, registry, holder, native, owner, inside, refused>>

At(t, calls) == pc[t] = "native" /\ Fit(arg[t]) /\ op[t] \in calls

Acquire(t, m) ==
    /\ owner[word[m]] = None
    /\ owner' = [owner EXCEPT ![word[m]] = t]
    /\ inside' = [inside EXCEPT ![t] = @ \cup {m}]

NativeLock(t) ==
    /\ At(t, {"lock", "trylock"})
    /\ \/ Acquire(t, arg[t])
       \/ op[t] = "trylock" /\ owner[word[arg[t]]] # None /\ UNCHANGED <<owner, inside>>
    /\ Return(t)
    /\ UNCHANGED <<word, usable, registry, holder, native, historyVars>>

NativeUnlock(t) ==
    /\ At(t, {"unlock"})
    /\ owner' = [owner EXCEPT ![word[arg[t]]] = None]
    /\ inside' = [inside EXCEPT ![t] = @ \ {arg[t]}]
    /\ Return(t)
    /\ UNCHANGED <<word, usable, registry, holder, native, historyVars>>

(* A wait gives its mutex back and sleeps in one step. *)
NativeWait(t) ==
    /\ At(t, {"wait", "timedwait"})
    /\ Fit(with[t])
    /\ owner' = [owner EXCEPT ![word[with[t]]] = None]
    /\ inside' = [inside EXCEPT ![t] = @ \ {with[t]}]
    /\ local' = [local EXCEPT ![t] = word[arg[t]]]
    /\ Go(t, "waiting")
    /\ UNCHANGED <<word, usable, registry, holder, native, callVars, historyVars>>

Sleepers(r) == {t \in Threads : pc[t] = "waiting" /\ local[t] = r}

(* A signal wakes a sleeper if there is one; a broadcast wakes them all, or *)
(* is lost on some, as the native library is known to do.                   *)
NativeSignal(t) ==
    /\ At(t, {"signal", "broadcast"})
    /\ \E woken \in SUBSET Sleepers(word[arg[t]]) :
          /\ op[t] = "signal" => Cardinality(woken) = (IF Sleepers(word[arg[t]]) = {} THEN 0 ELSE 1)
          /\ pc' = [u \in Threads |-> CASE u = t -> "idle" [] u \in woken -> "wake" [] OTHER -> pc[u]]
    /\ op' = [op EXCEPT ![t] = None]
    /\ arg' = [arg EXCEPT ![t] = None]
    /\ UNCHANGED <<word, usable, registry, holder, native, owner, with, local, inside, historyVars>>

(* The call with the word as the address of a native object.  Without       *)
(* Forgetful callers it is always a live one (NoMisuse).                    *)
NativeCall(t) ==
    /\ pc[t] = "native"
    /\ Misuse(t) \/ NativeLock(t) \/ NativeUnlock(t) \/ NativeWait(t) \/ NativeSignal(t)

(* pthread_cond_timedwait(), which is also what pthread_cond_wait() calls   *)
(* at the start-up barrier, ends by itself.                                 *)
Timeout(t) ==
    /\ pc[t] = "waiting" /\ op[t] = "timedwait"
    /\ Go(t, "wake")
    /\ UNCHANGED <<word, usable, registry, holder, native, owner, callVars, local, inside, historyVars>>

Wake(t) ==
    /\ pc[t] = "wake"
    /\ Fit(with[t])
    /\ Acquire(t, with[t])
    /\ Return(t)
    /\ UNCHANGED <<word, usable, registry, holder, native, historyVars>>

-----------------------------------------------------------------------------
(* forgetObjectUnlocked(); mutant: the entry stays. *)
Remembered(o) == registry
Forgotten(o) == registry \ {o}

(* pthread_mutex_destroy_soloader() and pthread_cond_destroy_soloader():    *)
(* the registry first, then the native object, then the word.  The question *)
(* and the removal take the lock twice; only this thread changes the answer.*)
Forget(t) ==
    /\ pc[t] = "forget"
    /\ holder = None
    /\ \/ /\ ~Knows(arg[t])
          /\ word' = [word EXCEPT ![arg[t]] = Zero]
          /\ Return(t)
          /\ UNCHANGED registry
       \/ /\ Knows(arg[t])
          /\ registry' = Forgotten(arg[t])
          /\ Go(t, "free")
          /\ UNCHANGED <<word, callVars, local>>
    /\ UNCHANGED <<usable, holder, native, owner, inside, historyVars>>

Free(t) ==
    /\ pc[t] = "free"
    /\ \/ /\ Fit(arg[t])
          /\ native' = [native EXCEPT ![word[arg[t]]] = "free"]
          /\ UNCHANGED misused
       \/ /\ ~Fit(arg[t])
          /\ misused' = misused \cup {arg[t]}
          /\ UNCHANGED native
    /\ Go(t, "clear")
    /\ UNCHANGED <<word, usable, registry, holder, owner, callVars, local, inside, refused>>

Clear(t) ==
    /\ pc[t] = "clear"
    /\ word' = [word EXCEPT ![arg[t]] = Zero]
    /\ Return(t)
    /\ UNCHANGED <<usable, registry, holder, native, owner, inside, historyVars>>

Step(t) ==
    \/ Call(t) \/ Check(t) \/ Enter(t) \/ Lookup(t) \/ NativeInit(t) \/ Publish(t) \/ Recheck(t)
    \/ NativeCall(t) \/ Timeout(t) \/ Wake(t) \/ Forget(t) \/ Free(t) \/ Clear(t)

Next == (\E t \in Threads : Step(t)) \/ (\E o \in Objects : Reuse(o))

Spec == Init /\ [][Next]_vars

-----------------------------------------------------------------------------
(* However many threads meet at the first use of an Android mutex, they    *)
(* lock one native mutex: no two of them are inside.  A call that reaches  *)
(* no native object (NoMisuse) puts nobody inside.                         *)
MutualExclusion ==
    \A t, u \in Threads : t # u => inside[t] \cap inside[u] = {}

(* No thread reaches a native object before it is initialised or after it  *)
(* is freed: "Publishing mutex->real_ptr before pthread_mutex_init          *)
(* completes lets a second Android thread observe a wrapper whose inner     *)
(* pointer is NULL."                                                        *)
NoMisuse == misused = {}

(* The registry knows exactly the objects whose word leads to a native      *)
(* object of their own.                                                     *)
InDestroy(o) == \E t \in Threads : arg[t] = o /\ pc[t] \in {"free", "clear"}
RegistryExact ==
    /\ \A o \in Objects : ~InDestroy(o) => (o \in registry <=> Fit(o))
    /\ \A o, p \in registry : word[o] = word[p] => o = p

(* Every native object is the one of an Android object or still being built *)
(* or freed, whichever initialization failed.                               *)
NothingLeaks ==
    \A r \in Reals : native[r] # "free" =>
        \/ \E o \in Objects : word[o] = r
        \/ \E t \in Threads : pc[t] \in Building /\ local[t] = r

(* The lock of the registry is given back on every path.  *)
HolderBuilds == holder # None => pc[holder] \in Building

(* A usable object is never refused with EINVAL: "Small values are Bionic's *)
(* three supported static initializers", and the error paths of the bridge  *)
(* are for memory and slots that ran out.                                   *)
UsableServed == refused = {}
=============================================================================
