----------------------------- MODULE PthrProofs -----------------------------
(***************************************************************************)
(* Theorems about PthrBridge, for any threads, objects and slots: first    *)
(* whether the callers destroy their objects or forget to, then for memory *)
(* that is reused only after the object in it was destroyed, when no call  *)
(* reaches a native object it should not.                                  *)
(***************************************************************************)
EXTENDS PthrBridge, FiniteSetTheorems, TLAPS

Waits == {"wait", "timedwait"}
Asleep == {"waiting", "wake"}

(* Where a thread may be in each call. *)
CallInv ==
    \A t \in Threads :
        /\ op[t] = None <=> pc[t] = "idle"
        /\ op[t] # None => arg[t] \in Objects
        /\ op[t] \in {"lock", "trylock", "unlock"} => arg[t] \in Mutexes
        /\ op[t] \in Waits => with[t] \in Mutexes
        /\ op[t] = "destroy" <=> pc[t] \in {"forget", "free", "clear"}
        /\ op[t] = "init" => pc[t] \in {"enter", "recheck"} \cup Building
        /\ op[t] = "unlock" => pc[t] \in {"check", "native"}
        /\ pc[t] \in Asleep => op[t] \in Waits

(* The thread in the registry's lock is the one that builds. *)
HolderInv == \A t \in Threads : holder = t <=> pc[t] \in Building

(* The objects whose word, if it is a pointer, leads to a live native object. *)
Linked(o) == o \in registry \/ \E t \in Threads : pc[t] = "free" /\ arg[t] = o
Clearing(o) == \E t \in Threads : pc[t] = "clear" /\ arg[t] = o

LinkInv ==
    /\ \A o \in Objects : word[o] \in Reals => Linked(o) \/ Clearing(o)
    /\ \A o \in Objects : Linked(o) /\ word[o] \in Reals => native[word[o]] = "ready"
    /\ \A o, p \in Objects : Linked(o) /\ Linked(p) /\ word[o] \in Reals /\ word[o] = word[p] => o = p
    /\ \A t \in Threads : pc[t] \in {"free", "clear"} => arg[t] \notin registry

(* A native object that is being built belongs to nobody yet. *)
BuildInv ==
    \A t \in Threads : pc[t] \in {"init", "publish"} =>
        /\ local[t] \in Reals
        /\ native[local[t]] = IF pc[t] = "init" THEN "raw" ELSE "ready"
        /\ arg[t] \notin registry
        /\ \A o \in Objects : Linked(o) => word[o] # local[t]

(* Nobody uses an object that is being initialised or destroyed. *)
ExclusiveInv ==
    \A t \in Threads : op[t] \in {"init", "destroy"} =>
        /\ arg[t] \notin usable
        /\ \A u \in Threads : arg[t] \notin inside[u]
        /\ \A u \in Threads : u # t => arg[t] # arg[u] /\ arg[t] # with[u]

(* A thread inside a mutex owns the native mutex its word leads to. *)
OwnerInv ==
    \A t \in Threads : \A m \in inside[t] :
        m \in registry /\ word[m] \in Reals /\ owner[word[m]] = t

(* A wait or an unlock is about a mutex the thread is inside of. *)
WaitInv ==
    \A t \in Threads :
        /\ op[t] \in Waits /\ pc[t] \notin Asleep => with[t] \in inside[t]
        /\ pc[t] \in Asleep => with[t] \in registry
        /\ op[t] = "unlock" => arg[t] \in inside[t]

IInv ==
    /\ TypeOK /\ CallInv /\ HolderInv
    /\ LinkInv /\ BuildInv
    /\ ExclusiveInv /\ OwnerInv /\ WaitInv

(* The words that are no pointer. *)
LEMMA WordsApart == /\ {Zero, Recursive, Garbage} \subseteq Words
                    /\ \A w \in Words : w \notin Reals
  BY WordsAssumption DEF Words

(* A call starts: what POSIX allows keeps initialised and destroyed objects  *)
(* to their one thread.                                                      *)
LEMMA CallStep == ASSUME IInv, NEW t \in Threads, Call(t) PROVE IInv'
<1> USE NoneAssumption
<1>1. PICK o \in Objects, call \in Calls, m \in Mutexes \cup {None} :
        /\ Allowed(t, o, call, m)
        /\ pc' = [pc EXCEPT ![t] = Starts(call)]
        /\ op' = [op EXCEPT ![t] = call]
        /\ arg' = [arg EXCEPT ![t] = o]
        /\ with' = [with EXCEPT ![t] = m]
        /\ usable' = IF call = "destroy" THEN usable \ {o} ELSE usable
  BY DEF Call, Go
<1>2. /\ pc[t] = "idle"
      /\ UNCHANGED <<word, registry, holder, native, owner, local, inside, misused, refused>>
  BY DEF Call, historyVars
<1>3. /\ call \in {"lock", "trylock"} => o \in Mutexes /\ o \in usable /\ m = None
      /\ call = "unlock" => o \in inside[t] /\ m = None
      /\ call = "init" => o \notin usable /\ Users(o) = {} /\ m = None
      /\ call = "destroy" => o \in usable /\ Users(o) = {} /\ m = None
      /\ call \in {"wait", "timedwait"} => o \in usable /\ m \in inside[t]
      /\ call \in {"signal", "broadcast"} => o \in usable /\ m = None
  BY <1>1 DEF Allowed, Calls
<1>4. \A u \in Threads : u # t =>
        pc'[u] = pc[u] /\ op'[u] = op[u] /\ arg'[u] = arg[u] /\ with'[u] = with[u]
  BY <1>1 DEF IInv, TypeOK
<1>5. /\ pc'[t] = Starts(call) /\ op'[t] = call /\ arg'[t] = o /\ with'[t] = m
      /\ Starts(call) \in {"check", "enter", "forget"}
      /\ Starts(call) = "enter" <=> call = "init"
      /\ Starts(call) = "forget" <=> call = "destroy"
  BY <1>1 DEF IInv, TypeOK, Starts, Calls
<1>6. SlotsSuffice'
  BY <1>2 DEF IInv, TypeOK, SlotsSuffice
<1>7. TypeOK'
  BY <1>1, <1>2, <1>5, <1>6 DEF IInv, TypeOK, Places
<1>8. CallInv'
  BY <1>2, <1>3, <1>4, <1>5 DEF IInv, TypeOK, CallInv, Building, Waits, Asleep, Calls
<1>9. HolderInv'
  BY <1>2, <1>4, <1>5 DEF IInv, HolderInv, Building
<1>10. \A p : /\ Linked(p)' <=> Linked(p)
              /\ Clearing(p)' <=> Clearing(p)
  BY <1>2, <1>4, <1>5 DEF Linked, Clearing
<1>11. LinkInv'
  BY <1>2, <1>4, <1>5, <1>10 DEF IInv, LinkInv
<1>12. BuildInv'
  BY <1>2, <1>4, <1>5, <1>10 DEF IInv, BuildInv
<1>13. ExclusiveInv'
  <2> SUFFICES ASSUME NEW e \in Threads, op'[e] \in {"init", "destroy"}
               PROVE  /\ arg'[e] \notin usable'
                      /\ \A u \in Threads : arg'[e] \notin inside[u]
                      /\ \A u \in Threads : u # e => arg'[e] # arg'[u] /\ arg'[e] # with'[u]
    BY <1>2 DEF ExclusiveInv
  <2>1. CASE e = t
    BY <2>1, <1>1, <1>3, <1>4, <1>5 DEF Users
  <2>2. CASE e # t
    <3>1. /\ arg[e] \in Objects /\ arg[e] \notin usable
          /\ \A u \in Threads : arg[e] \notin inside[u]
          /\ \A u \in Threads : u # e => arg[e] # arg[u] /\ arg[e] # with[u]
      BY <2>2, <1>4 DEF IInv, CallInv, ExclusiveInv, Calls
    <3>2. arg[e] # o /\ arg[e] # m
      BY <2>2, <3>1, <1>3 DEF Users, Calls, Objects
    <3> QED
      BY <2>2, <3>1, <3>2, <1>1, <1>4, <1>5
  <2> QED
    BY <2>1, <2>2
<1>14. OwnerInv'
  BY <1>2 DEF IInv, OwnerInv
<1>15. WaitInv'
  BY <1>2, <1>3, <1>4, <1>5 DEF IInv, WaitInv, Waits, Asleep
<1>16. QED
  BY <1>7, <1>8, <1>9, <1>11, <1>12, <1>13, <1>14, <1>15 DEF IInv

(* The look at the word at the head of a call moves nothing but the caller. *)
LEMMA CheckStep == ASSUME IInv, NEW t \in Threads, Check(t) PROVE IInv'
<1> USE NoneAssumption, WordsApart DEF Check, Go, Return, HasReal, Initializers, callVars
<1>1. SlotsSuffice'
  BY FS_AddElement, FS_RemoveElement, FS_CardinalityType, SlotsAssumption DEF IInv, TypeOK, SlotsSuffice
<1>2. TypeOK'
  BY <1>1 DEF IInv, TypeOK, CallInv, BuildInv, Places, Building, Waits, Asleep, Objects
<1>3. CallInv'
  BY SMTT(20) DEF IInv, TypeOK, CallInv, Building, Waits, Asleep, Objects, Calls
<1>4. HolderInv'
  BY SMTT(20) DEF IInv, TypeOK, CallInv, HolderInv, Building
<1>5. LinkInv'
  BY SMTT(20) DEF IInv, TypeOK, CallInv, HolderInv, ExclusiveInv, LinkInv, BuildInv, Linked, Clearing, Building
<1>6. BuildInv'
  BY SMTT(20) DEF IInv, TypeOK, CallInv, HolderInv, ExclusiveInv, LinkInv, BuildInv, Linked, Building
<1>7. ExclusiveInv'
  BY SMTT(20) DEF IInv, TypeOK, CallInv, ExclusiveInv, Waits, Asleep, Objects, Calls
<1>8. OwnerInv'
  BY SMTT(20) DEF IInv, TypeOK, CallInv, ExclusiveInv, LinkInv, BuildInv, OwnerInv, WaitInv, Linked, Clearing, Objects, Waits, Asleep
<1>9. WaitInv'
  BY SMTT(20) DEF IInv, TypeOK, CallInv, ExclusiveInv, OwnerInv, WaitInv, Waits, Asleep, Objects, Calls
<1>10. QED
  BY <1>2, <1>3, <1>4, <1>5, <1>6, <1>7, <1>8, <1>9 DEF IInv

(* Whoever takes the registry's lock finds it free. *)
LEMMA EnterStep == ASSUME IInv, NEW t \in Threads, Enter(t) PROVE IInv'
<1> USE NoneAssumption, WordsApart DEF Enter, Go, callVars, historyVars
<1>1. SlotsSuffice'
  BY FS_AddElement, FS_RemoveElement, FS_CardinalityType, SlotsAssumption DEF IInv, TypeOK, SlotsSuffice
<1>2. TypeOK'
  BY <1>1 DEF IInv, TypeOK, CallInv, BuildInv, Places, Building, Waits, Asleep, Objects
<1>3. CallInv'
  BY SMTT(20) DEF IInv, TypeOK, CallInv, Building, Waits, Asleep, Objects, Calls
<1>4. HolderInv'
  BY SMTT(20) DEF IInv, TypeOK, CallInv, HolderInv, Building
<1>5. LinkInv'
  BY SMTT(20) DEF IInv, TypeOK, CallInv, HolderInv, ExclusiveInv, LinkInv, BuildInv, Linked, Clearing, Building
<1>6. BuildInv'
  BY SMTT(20) DEF IInv, TypeOK, CallInv, HolderInv, ExclusiveInv, LinkInv, BuildInv, Linked, Building
<1>7. ExclusiveInv'
  BY SMTT(20) DEF IInv, TypeOK, CallInv, ExclusiveInv, Waits, Asleep, Objects, Calls
<1>8. OwnerInv'
  BY SMTT(20) DEF IInv, TypeOK, CallInv, ExclusiveInv, LinkInv, BuildInv, OwnerInv, WaitInv, Linked, Clearing, Objects, Waits, Asleep
<1>9. WaitInv'
  BY SMTT(20) DEF IInv, TypeOK, CallInv, ExclusiveInv, OwnerInv, WaitInv, Waits, Asleep, Objects, Calls
<1>10. QED
  BY <1>2, <1>3, <1>4, <1>5, <1>6, <1>7, <1>8, <1>9 DEF IInv

(* A native object is taken from free memory, so no linked word leads to it. *)
LEMMA LookupStep == ASSUME IInv, NEW t \in Threads, Lookup(t) PROVE IInv'
<1> USE NoneAssumption, WordsApart DEF Lookup, Go, Return, Knows, Unpublished, ReleasedLock, callVars, historyVars
<1>1. SlotsSuffice'
  BY FS_AddElement, FS_RemoveElement, FS_CardinalityType, SlotsAssumption DEF IInv, TypeOK, SlotsSuffice
<1>2. TypeOK'
  BY <1>1 DEF IInv, TypeOK, CallInv, BuildInv, Places, Building, Waits, Asleep, Objects
<1>3. CallInv'
  BY SMTT(20) DEF IInv, TypeOK, CallInv, Building, Waits, Asleep, Objects, Calls
<1>4. HolderInv'
  BY SMTT(20) DEF IInv, TypeOK, CallInv, HolderInv, Building
<1>5. LinkInv'
  BY SMTT(20) DEF IInv, TypeOK, CallInv, HolderInv, ExclusiveInv, LinkInv, BuildInv, Linked, Clearing, Building
<1>6. BuildInv'
  BY SMTT(20) DEF IInv, TypeOK, CallInv, HolderInv, ExclusiveInv, LinkInv, BuildInv, Linked, Building
<1>7. ExclusiveInv'
  BY SMTT(20) DEF IInv, TypeOK, CallInv, ExclusiveInv, Waits, Asleep, Objects, Calls
<1>8. OwnerInv'
  BY SMTT(20) DEF IInv, TypeOK, CallInv, ExclusiveInv, LinkInv, BuildInv, OwnerInv, WaitInv, Linked, Clearing, Objects, Waits, Asleep
<1>9. WaitInv'
  BY SMTT(20) DEF IInv, TypeOK, CallInv, ExclusiveInv, OwnerInv, WaitInv, Waits, Asleep, Objects, Calls
<1>10. QED
  BY <1>2, <1>3, <1>4, <1>5, <1>6, <1>7, <1>8, <1>9 DEF IInv

(* The object under construction gets ready or is given back before anyone sees it. *)
LEMMA NativeInitStep == ASSUME IInv, NEW t \in Threads, NativeInit(t) PROVE IInv'
<1> USE NoneAssumption, WordsApart DEF NativeInit, Go, Return, callVars, historyVars
<1>1. SlotsSuffice'
  BY FS_AddElement, FS_RemoveElement, FS_CardinalityType, SlotsAssumption DEF IInv, TypeOK, SlotsSuffice
<1>2. TypeOK'
  BY <1>1 DEF IInv, TypeOK, CallInv, BuildInv, Places, Building, Waits, Asleep, Objects
<1>3. CallInv'
  BY SMTT(20) DEF IInv, TypeOK, CallInv, Building, Waits, Asleep, Objects, Calls
<1>4. HolderInv'
  BY SMTT(20) DEF IInv, TypeOK, CallInv, HolderInv, Building
<1>5. LinkInv'
  BY SMTT(20) DEF IInv, TypeOK, CallInv, HolderInv, ExclusiveInv, LinkInv, BuildInv, Linked, Clearing, Building
<1>6. BuildInv'
  BY SMTT(20) DEF IInv, TypeOK, CallInv, HolderInv, ExclusiveInv, LinkInv, BuildInv, Linked, Building
<1>7. ExclusiveInv'
  BY SMTT(20) DEF IInv, TypeOK, CallInv, ExclusiveInv, Waits, Asleep, Objects, Calls
<1>8. OwnerInv'
  BY SMTT(20) DEF IInv, TypeOK, CallInv, ExclusiveInv, LinkInv, BuildInv, OwnerInv, WaitInv, Linked, Clearing, Objects, Waits, Asleep
<1>9. WaitInv'
  BY SMTT(20) DEF IInv, TypeOK, CallInv, ExclusiveInv, OwnerInv, WaitInv, Waits, Asleep, Objects, Calls
<1>10. QED
  BY <1>2, <1>3, <1>4, <1>5, <1>6, <1>7, <1>8, <1>9 DEF IInv

(* The word and the registry change together, to an object nobody else leads to. *)
LEMMA PublishStep == ASSUME IInv, NEW t \in Threads, Publish(t) PROVE IInv'
<1> USE NoneAssumption, WordsApart DEF Publish, Go, Return, HasRoom, Discarded, callVars, historyVars
<1>1. SlotsSuffice'
  BY FS_AddElement, FS_RemoveElement, FS_CardinalityType, SlotsAssumption DEF IInv, TypeOK, SlotsSuffice
<1>2. TypeOK'
  BY <1>1 DEF IInv, TypeOK, CallInv, BuildInv, Places, Building, Waits, Asleep, Objects
<1>3. CallInv'
  BY SMTT(20) DEF IInv, TypeOK, CallInv, Building, Waits, Asleep, Objects, Calls
<1>4. HolderInv'
  BY SMTT(20) DEF IInv, TypeOK, CallInv, HolderInv, Building
<1>5. LinkInv'
  BY SMTT(20) DEF IInv, TypeOK, CallInv, HolderInv, ExclusiveInv, LinkInv, BuildInv, Linked, Clearing, Building
<1>6. BuildInv'
  BY SMTT(20) DEF IInv, TypeOK, CallInv, HolderInv, ExclusiveInv, LinkInv, BuildInv, Linked, Building
<1>7. ExclusiveInv'
  BY SMTT(20) DEF IInv, TypeOK, CallInv, ExclusiveInv, Waits, Asleep, Objects, Calls
<1>8. OwnerInv'
  BY SMTT(20) DEF IInv, TypeOK, CallInv, ExclusiveInv, LinkInv, BuildInv, OwnerInv, WaitInv, Linked, Clearing, Objects, Waits, Asleep
<1>9. WaitInv'
  BY SMTT(20) DEF IInv, TypeOK, CallInv, ExclusiveInv, OwnerInv, WaitInv, Waits, Asleep, Objects, Calls
<1>10. QED
  BY <1>2, <1>3, <1>4, <1>5, <1>6, <1>7, <1>8, <1>9 DEF IInv

(* The end of the initialization; an init call makes its object usable. *)
LEMMA RecheckStep == ASSUME IInv, NEW t \in Threads, Recheck(t) PROVE IInv'
<1> USE NoneAssumption, WordsApart DEF Recheck, Go, Return, HasReal, Initializers, callVars
<1>1. SlotsSuffice'
  BY FS_AddElement, FS_RemoveElement, FS_CardinalityType, SlotsAssumption DEF IInv, TypeOK, SlotsSuffice
<1>2. TypeOK'
  BY <1>1 DEF IInv, TypeOK, CallInv, BuildInv, Places, Building, Waits, Asleep, Objects
<1>3. CallInv'
  BY SMTT(20) DEF IInv, TypeOK, CallInv, Building, Waits, Asleep, Objects, Calls
<1>4. HolderInv'
  BY SMTT(20) DEF IInv, TypeOK, CallInv, HolderInv, Building
<1>5. LinkInv'
  BY SMTT(20) DEF IInv, TypeOK, CallInv, HolderInv, ExclusiveInv, LinkInv, BuildInv, Linked, Clearing, Building
<1>6. BuildInv'
  BY SMTT(20) DEF IInv, TypeOK, CallInv, HolderInv, ExclusiveInv, LinkInv, BuildInv, Linked, Building
<1>7. ExclusiveInv'
  BY SMTT(20) DEF IInv, TypeOK, CallInv, ExclusiveInv, Waits, Asleep, Objects, Calls
<1>8. OwnerInv'
  BY SMTT(20) DEF IInv, TypeOK, CallInv, ExclusiveInv, LinkInv, BuildInv, OwnerInv, WaitInv, Linked, Clearing, Objects, Waits, Asleep
<1>9. WaitInv'
  BY SMTT(20) DEF IInv, TypeOK, CallInv, ExclusiveInv, OwnerInv, WaitInv, Waits, Asleep, Objects, Calls
<1>10. QED
  BY <1>2, <1>3, <1>4, <1>5, <1>6, <1>7, <1>8, <1>9 DEF IInv

(* A call on no native object changes nothing here. *)
LEMMA MisuseStep == ASSUME IInv, NEW t \in Threads, Misuse(t) PROVE IInv'
<1> USE NoneAssumption, WordsApart DEF Misuse, Return, Go
<1>1. SlotsSuffice'
  BY FS_AddElement, FS_RemoveElement, FS_CardinalityType, SlotsAssumption DEF IInv, TypeOK, SlotsSuffice
<1>2. TypeOK'
  BY <1>1 DEF IInv, TypeOK, CallInv, BuildInv, Places, Building, Waits, Asleep, Objects
<1>3. CallInv'
  BY SMTT(20) DEF IInv, TypeOK, CallInv, Building, Waits, Asleep, Objects, Calls
<1>4. HolderInv'
  BY SMTT(20) DEF IInv, TypeOK, CallInv, HolderInv, Building
<1>5. LinkInv'
  BY SMTT(20) DEF IInv, TypeOK, CallInv, HolderInv, ExclusiveInv, LinkInv, BuildInv, Linked, Clearing, Building
<1>6. BuildInv'
  BY SMTT(20) DEF IInv, TypeOK, CallInv, HolderInv, ExclusiveInv, LinkInv, BuildInv, Linked, Building
<1>7. ExclusiveInv'
  BY SMTT(20) DEF IInv, TypeOK, CallInv, ExclusiveInv, Waits, Asleep, Objects, Calls
<1>8. OwnerInv'
  BY SMTT(20) DEF IInv, TypeOK, CallInv, ExclusiveInv, LinkInv, BuildInv, OwnerInv, WaitInv, Linked, Clearing, Objects, Waits, Asleep
<1>9. WaitInv'
  BY SMTT(20) DEF IInv, TypeOK, CallInv, ExclusiveInv, OwnerInv, WaitInv, Waits, Asleep, Objects, Calls
<1>10. QED
  BY <1>2, <1>3, <1>4, <1>5, <1>6, <1>7, <1>8, <1>9 DEF IInv

(* A native mutex is given to one thread when nobody owns it. *)
LEMMA NativeLockStep == ASSUME IInv, NEW t \in Threads, NativeLock(t) PROVE IInv'
<1> USE NoneAssumption, WordsApart DEF NativeLock, Go, Return, At, Fit, Acquire, historyVars
<1>1. SlotsSuffice'
  BY FS_AddElement, FS_RemoveElement, FS_CardinalityType, SlotsAssumption DEF IInv, TypeOK, SlotsSuffice
<1>2. TypeOK'
  BY <1>1 DEF IInv, TypeOK, CallInv, BuildInv, Places, Building, Waits, Asleep, Objects
<1>3. CallInv'
  BY SMTT(20) DEF IInv, TypeOK, CallInv, Building, Waits, Asleep, Objects, Calls
<1>4. HolderInv'
  BY SMTT(20) DEF IInv, TypeOK, CallInv, HolderInv, Building
<1>5. LinkInv'
  BY SMTT(20) DEF IInv, TypeOK, CallInv, HolderInv, ExclusiveInv, LinkInv, BuildInv, Linked, Clearing, Building
<1>6. BuildInv'
  BY SMTT(20) DEF IInv, TypeOK, CallInv, HolderInv, ExclusiveInv, LinkInv, BuildInv, Linked, Building
<1>7. ExclusiveInv'
  BY SMTT(20) DEF IInv, TypeOK, CallInv, ExclusiveInv, Waits, Asleep, Objects, Calls
<1>8. OwnerInv'
  BY SMTT(20) DEF IInv, TypeOK, CallInv, ExclusiveInv, LinkInv, BuildInv, OwnerInv, WaitInv, Linked, Clearing, Objects, Waits, Asleep
<1>9. WaitInv'
  BY SMTT(20) DEF IInv, TypeOK, CallInv, ExclusiveInv, OwnerInv, WaitInv, Waits, Asleep, Objects, Calls
<1>10. QED
  BY <1>2, <1>3, <1>4, <1>5, <1>6, <1>7, <1>8, <1>9 DEF IInv

(* Only the owner unlocks. *)
LEMMA NativeUnlockStep == ASSUME IInv, NEW t \in Threads, NativeUnlock(t) PROVE IInv'
<1> USE NoneAssumption, WordsApart DEF NativeUnlock, Go, Return, At, Fit, historyVars
<1>1. SlotsSuffice'
  BY FS_AddElement, FS_RemoveElement, FS_CardinalityType, SlotsAssumption DEF IInv, TypeOK, SlotsSuffice
<1>2. TypeOK'
  BY <1>1 DEF IInv, TypeOK, CallInv, BuildInv, Places, Building, Waits, Asleep, Objects
<1>3. CallInv'
  BY SMTT(20) DEF IInv, TypeOK, CallInv, Building, Waits, Asleep, Objects, Calls
<1>4. HolderInv'
  BY SMTT(20) DEF IInv, TypeOK, CallInv, HolderInv, Building
<1>5. LinkInv'
  BY SMTT(20) DEF IInv, TypeOK, CallInv, HolderInv, ExclusiveInv, LinkInv, BuildInv, Linked, Clearing, Building
<1>6. BuildInv'
  BY SMTT(20) DEF IInv, TypeOK, CallInv, HolderInv, ExclusiveInv, LinkInv, BuildInv, Linked, Building
<1>7. ExclusiveInv'
  BY SMTT(20) DEF IInv, TypeOK, CallInv, ExclusiveInv, Waits, Asleep, Objects, Calls
<1>8. OwnerInv'
  BY SMTT(20) DEF IInv, TypeOK, CallInv, ExclusiveInv, LinkInv, BuildInv, OwnerInv, WaitInv, Linked, Clearing, Objects, Waits, Asleep
<1>9. WaitInv'
  BY SMTT(20) DEF IInv, TypeOK, CallInv, ExclusiveInv, OwnerInv, WaitInv, Waits, Asleep, Objects, Calls
<1>10. QED
  BY <1>2, <1>3, <1>4, <1>5, <1>6, <1>7, <1>8, <1>9 DEF IInv

(* A wait gives up a mutex its thread is inside of. *)
LEMMA NativeWaitStep == ASSUME IInv, NEW t \in Threads, NativeWait(t) PROVE IInv'
<1> USE NoneAssumption, WordsApart DEF NativeWait, Go, At, Fit, callVars, historyVars
<1>1. SlotsSuffice'
  BY FS_AddElement, FS_RemoveElement, FS_CardinalityType, SlotsAssumption DEF IInv, TypeOK, SlotsSuffice
<1>2. TypeOK'
  BY <1>1 DEF IInv, TypeOK, CallInv, BuildInv, Places, Building, Waits, Asleep, Objects
<1>3. CallInv'
  BY SMTT(20) DEF IInv, TypeOK, CallInv, Building, Waits, Asleep, Objects, Calls
<1>4. HolderInv'
  BY SMTT(20) DEF IInv, TypeOK, CallInv, HolderInv, Building
<1>5. LinkInv'
  BY SMTT(20) DEF IInv, TypeOK, CallInv, HolderInv, ExclusiveInv, LinkInv, BuildInv, Linked, Clearing, Building
<1>6. BuildInv'
  BY SMTT(20) DEF IInv, TypeOK, CallInv, HolderInv, ExclusiveInv, LinkInv, BuildInv, Linked, Building
<1>7. ExclusiveInv'
  BY SMTT(20) DEF IInv, TypeOK, CallInv, ExclusiveInv, Waits, Asleep, Objects, Calls
<1>8. OwnerInv'
  BY SMTT(20) DEF IInv, TypeOK, CallInv, ExclusiveInv, LinkInv, BuildInv, OwnerInv, WaitInv, Linked, Clearing, Objects, Waits, Asleep
<1>9. WaitInv'
  BY SMTT(20) DEF IInv, TypeOK, CallInv, ExclusiveInv, OwnerInv, WaitInv, Waits, Asleep, Objects, Calls
<1>10. QED
  BY <1>2, <1>3, <1>4, <1>5, <1>6, <1>7, <1>8, <1>9 DEF IInv

(* A signal moves sleepers to their wake-up and touches no mutex. *)
LEMMA NativeSignalStep == ASSUME IInv, NEW t \in Threads, NativeSignal(t) PROVE IInv'
<1> USE NoneAssumption, WordsApart DEF NativeSignal, At, Fit, Sleepers, historyVars
<1>1. SlotsSuffice'
  BY FS_AddElement, FS_RemoveElement, FS_CardinalityType, SlotsAssumption DEF IInv, TypeOK, SlotsSuffice
<1>2. TypeOK'
  BY <1>1 DEF IInv, TypeOK, CallInv, BuildInv, Places, Building, Waits, Asleep, Objects
<1>3. CallInv'
  BY SMTT(20) DEF IInv, TypeOK, CallInv, Building, Waits, Asleep, Objects, Calls
<1>4. HolderInv'
  BY SMTT(20) DEF IInv, TypeOK, CallInv, HolderInv, Building
<1>5. LinkInv'
  BY SMTT(20) DEF IInv, TypeOK, CallInv, HolderInv, ExclusiveInv, LinkInv, BuildInv, Linked, Clearing, Building
<1>6. BuildInv'
  BY SMTT(20) DEF IInv, TypeOK, CallInv, HolderInv, ExclusiveInv, LinkInv, BuildInv, Linked, Building
<1>7. ExclusiveInv'
  BY SMTT(20) DEF IInv, TypeOK, CallInv, ExclusiveInv, Waits, Asleep, Objects, Calls
<1>8. OwnerInv'
  BY SMTT(20) DEF IInv, TypeOK, CallInv, ExclusiveInv, LinkInv, BuildInv, OwnerInv, WaitInv, Linked, Clearing, Objects, Waits, Asleep
<1>9. WaitInv'
  BY SMTT(20) DEF IInv, TypeOK, CallInv, ExclusiveInv, OwnerInv, WaitInv, Waits, Asleep, Objects, Calls
<1>10. QED
  BY <1>2, <1>3, <1>4, <1>5, <1>6, <1>7, <1>8, <1>9 DEF IInv

(* A timed wait ends like a signalled one. *)
LEMMA TimeoutStep == ASSUME IInv, NEW t \in Threads, Timeout(t) PROVE IInv'
<1> USE NoneAssumption, WordsApart DEF Timeout, Go, callVars, historyVars
<1>1. SlotsSuffice'
  BY FS_AddElement, FS_RemoveElement, FS_CardinalityType, SlotsAssumption DEF IInv, TypeOK, SlotsSuffice
<1>2. TypeOK'
  BY <1>1 DEF IInv, TypeOK, CallInv, BuildInv, Places, Building, Waits, Asleep, Objects
<1>3. CallInv'
  BY SMTT(20) DEF IInv, TypeOK, CallInv, Building, Waits, Asleep, Objects, Calls
<1>4. HolderInv'
  BY SMTT(20) DEF IInv, TypeOK, CallInv, HolderInv, Building
<1>5. LinkInv'
  BY SMTT(20) DEF IInv, TypeOK, CallInv, HolderInv, ExclusiveInv, LinkInv, BuildInv, Linked, Clearing, Building
<1>6. BuildInv'
  BY SMTT(20) DEF IInv, TypeOK, CallInv, HolderInv, ExclusiveInv, LinkInv, BuildInv, Linked, Building
<1>7. ExclusiveInv'
  BY SMTT(20) DEF IInv, TypeOK, CallInv, ExclusiveInv, Waits, Asleep, Objects, Calls
<1>8. OwnerInv'
  BY SMTT(20) DEF IInv, TypeOK, CallInv, ExclusiveInv, LinkInv, BuildInv, OwnerInv, WaitInv, Linked, Clearing, Objects, Waits, Asleep
<1>9. WaitInv'
  BY SMTT(20) DEF IInv, TypeOK, CallInv, ExclusiveInv, OwnerInv, WaitInv, Waits, Asleep, Objects, Calls
<1>10. QED
  BY <1>2, <1>3, <1>4, <1>5, <1>6, <1>7, <1>8, <1>9 DEF IInv

(* A woken thread is inside again once nobody owns the native mutex. *)
LEMMA WakeStep == ASSUME IInv, NEW t \in Threads, Wake(t) PROVE IInv'
<1> USE NoneAssumption, WordsApart DEF Wake, Go, Return, Fit, Acquire, historyVars
<1>1. SlotsSuffice'
  BY FS_AddElement, FS_RemoveElement, FS_CardinalityType, SlotsAssumption DEF IInv, TypeOK, SlotsSuffice
<1>2. TypeOK'
  BY <1>1 DEF IInv, TypeOK, CallInv, BuildInv, Places, Building, Waits, Asleep, Objects
<1>3. CallInv'
  BY SMTT(20) DEF IInv, TypeOK, CallInv, Building, Waits, Asleep, Objects, Calls
<1>4. HolderInv'
  BY SMTT(20) DEF IInv, TypeOK, CallInv, HolderInv, Building
<1>5. LinkInv'
  BY SMTT(20) DEF IInv, TypeOK, CallInv, HolderInv, ExclusiveInv, LinkInv, BuildInv, Linked, Clearing, Building
<1>6. BuildInv'
  BY SMTT(20) DEF IInv, TypeOK, CallInv, HolderInv, ExclusiveInv, LinkInv, BuildInv, Linked, Building
<1>7. ExclusiveInv'
  BY SMTT(20) DEF IInv, TypeOK, CallInv, ExclusiveInv, Waits, Asleep, Objects, Calls
<1>8. OwnerInv'
  BY SMTT(20) DEF IInv, TypeOK, CallInv, ExclusiveInv, LinkInv, BuildInv, OwnerInv, WaitInv, Linked, Clearing, Objects, Waits, Asleep
<1>9. WaitInv'
  BY SMTT(20) DEF IInv, TypeOK, CallInv, ExclusiveInv, OwnerInv, WaitInv, Waits, Asleep, Objects, Calls
<1>10. QED
  BY <1>2, <1>3, <1>4, <1>5, <1>6, <1>7, <1>8, <1>9 DEF IInv

(* An object leaves the registry; its destroyer alone still leads to its native object. *)
LEMMA ForgetStep == ASSUME IInv, NEW t \in Threads, Forget(t) PROVE IInv'
<1> USE NoneAssumption, WordsApart DEF Forget, Go, Return, Knows, Forgotten, callVars, historyVars
<1>1. SlotsSuffice'
  BY FS_AddElement, FS_RemoveElement, FS_CardinalityType, SlotsAssumption DEF IInv, TypeOK, SlotsSuffice
<1>2. TypeOK'
  BY <1>1 DEF IInv, TypeOK, CallInv, BuildInv, Places, Building, Waits, Asleep, Objects
<1>3. CallInv'
  BY SMTT(20) DEF IInv, TypeOK, CallInv, Building, Waits, Asleep, Objects, Calls
<1>4. HolderInv'
  BY SMTT(20) DEF IInv, TypeOK, CallInv, HolderInv, Building
<1>5. LinkInv'
  BY SMTT(20) DEF IInv, TypeOK, CallInv, HolderInv, ExclusiveInv, LinkInv, BuildInv, Linked, Clearing, Building
<1>6. BuildInv'
  BY SMTT(20) DEF IInv, TypeOK, CallInv, HolderInv, ExclusiveInv, LinkInv, BuildInv, Linked, Building
<1>7. ExclusiveInv'
  BY SMTT(20) DEF IInv, TypeOK, CallInv, ExclusiveInv, Waits, Asleep, Objects, Calls
<1>8. OwnerInv'
  BY SMTT(20) DEF IInv, TypeOK, CallInv, ExclusiveInv, LinkInv, BuildInv, OwnerInv, WaitInv, Linked, Clearing, Objects, Waits, Asleep
<1>9. WaitInv'
  BY SMTT(20) DEF IInv, TypeOK, CallInv, ExclusiveInv, OwnerInv, WaitInv, Waits, Asleep, Objects, Calls
<1>10. QED
  BY <1>2, <1>3, <1>4, <1>5, <1>6, <1>7, <1>8, <1>9 DEF IInv

(* The native object is freed while its word stays; the object is no longer linked. *)
LEMMA FreeStep == ASSUME IInv, NEW t \in Threads, Free(t) PROVE IInv'
<1> USE NoneAssumption, WordsApart DEF Free, Go, Fit, callVars
<1>1. SlotsSuffice'
  BY FS_AddElement, FS_RemoveElement, FS_CardinalityType, SlotsAssumption DEF IInv, TypeOK, SlotsSuffice
<1>2. TypeOK'
  BY <1>1 DEF IInv, TypeOK, CallInv, BuildInv, Places, Building, Waits, Asleep, Objects
<1>3. CallInv'
  BY SMTT(20) DEF IInv, TypeOK, CallInv, Building, Waits, Asleep, Objects, Calls
<1>4. HolderInv'
  BY SMTT(20) DEF IInv, TypeOK, CallInv, HolderInv, Building
<1>5. LinkInv'
  BY SMTT(20) DEF IInv, TypeOK, CallInv, HolderInv, ExclusiveInv, LinkInv, BuildInv, Linked, Clearing, Building
<1>6. BuildInv'
  BY SMTT(20) DEF IInv, TypeOK, CallInv, HolderInv, ExclusiveInv, LinkInv, BuildInv, Linked, Building
<1>7. ExclusiveInv'
  BY SMTT(20) DEF IInv, TypeOK, CallInv, ExclusiveInv, Waits, Asleep, Objects, Calls
<1>8. OwnerInv'
  BY SMTT(20) DEF IInv, TypeOK, CallInv, ExclusiveInv, LinkInv, BuildInv, OwnerInv, WaitInv, Linked, Clearing, Objects, Waits, Asleep
<1>9. WaitInv'
  BY SMTT(20) DEF IInv, TypeOK, CallInv, ExclusiveInv, OwnerInv, WaitInv, Waits, Asleep, Objects, Calls
<1>10. QED
  BY <1>2, <1>3, <1>4, <1>5, <1>6, <1>7, <1>8, <1>9 DEF IInv

(* The word of the destroyed object leads nowhere again. *)
LEMMA ClearStep == ASSUME IInv, NEW t \in Threads, Clear(t) PROVE IInv'
<1> USE NoneAssumption, WordsApart DEF Clear, Go, Return, historyVars
<1>1. SlotsSuffice'
  BY FS_AddElement, FS_RemoveElement, FS_CardinalityType, SlotsAssumption DEF IInv, TypeOK, SlotsSuffice
<1>2. TypeOK'
  BY <1>1 DEF IInv, TypeOK, CallInv, BuildInv, Places, Building, Waits, Asleep, Objects
<1>3. CallInv'
  BY SMTT(20) DEF IInv, TypeOK, CallInv, Building, Waits, Asleep, Objects, Calls
<1>4. HolderInv'
  BY SMTT(20) DEF IInv, TypeOK, CallInv, HolderInv, Building
<1>5. LinkInv'
  BY SMTT(20) DEF IInv, TypeOK, CallInv, HolderInv, ExclusiveInv, LinkInv, BuildInv, Linked, Clearing, Building
<1>6. BuildInv'
  BY SMTT(20) DEF IInv, TypeOK, CallInv, HolderInv, ExclusiveInv, LinkInv, BuildInv, Linked, Building
<1>7. ExclusiveInv'
  BY SMTT(20) DEF IInv, TypeOK, CallInv, ExclusiveInv, Waits, Asleep, Objects, Calls
<1>8. OwnerInv'
  BY SMTT(20) DEF IInv, TypeOK, CallInv, ExclusiveInv, LinkInv, BuildInv, OwnerInv, WaitInv, Linked, Clearing, Objects, Waits, Asleep
<1>9. WaitInv'
  BY SMTT(20) DEF IInv, TypeOK, CallInv, ExclusiveInv, OwnerInv, WaitInv, Waits, Asleep, Objects, Calls
<1>10. QED
  BY <1>2, <1>3, <1>4, <1>5, <1>6, <1>7, <1>8, <1>9 DEF IInv

(* Memory is given another content only while no call is about it and nobody *)
(* is inside; a registered object then holds no pointer any more.            *)
LEMMA ReuseStep == ASSUME IInv, NEW o \in Objects, Reuse(o) PROVE IInv'
<1> USE NoneAssumption, WordsApart
<1>1. /\ \E w \in Words : word' = [word EXCEPT ![o] = w]
      /\ usable' \in {usable \cup {o}, usable \ {o}}
      /\ UNCHANGED <<registry, holder, native, owner, pc, op, arg, with, local, inside, misused, refused>>
      /\ \A t \in Threads : o # arg[t] /\ o # with[t] /\ o \notin inside[t]
  BY DEF Reuse, Users, Initializers, callVars, historyVars
<1>2. \A p \in Objects : word'[p] \in Reals => p # o /\ word'[p] = word[p]
  BY <1>1 DEF IInv, TypeOK
<1>3. \A p \in Objects : p # o => word'[p] = word[p]
  BY <1>1 DEF IInv, TypeOK
<1>4. SlotsSuffice'
  BY <1>1 DEF IInv, TypeOK, SlotsSuffice
<1>5. TypeOK'
  BY <1>1, <1>4 DEF IInv, TypeOK
<1>6. CallInv'
  BY <1>1 DEF IInv, CallInv, Building
<1>7. HolderInv'
  BY <1>1 DEF IInv, HolderInv, Building
<1>8. \A p : (Linked(p)' <=> Linked(p)) /\ (Clearing(p)' <=> Clearing(p))
  BY <1>1 DEF Linked, Clearing
<1>9. LinkInv'
  BY <1>1, <1>2, <1>8 DEF IInv, LinkInv
<1>10. BuildInv'
  BY <1>1, <1>2, <1>8 DEF IInv, BuildInv
<1>11. ExclusiveInv'
  BY <1>1 DEF IInv, ExclusiveInv
<1>12. OwnerInv'
  <2> SUFFICES ASSUME NEW t \in Threads, NEW m \in inside[t]
               PROVE  m \in registry /\ word'[m] \in Reals /\ owner[word'[m]] = t
    BY <1>1 DEF OwnerInv
  <2>1. m \in Objects /\ m # o
    BY <1>1 DEF IInv, TypeOK, Objects
  <2> QED
    BY <2>1, <1>3 DEF IInv, OwnerInv
<1>13. WaitInv'
  BY <1>1 DEF IInv, WaitInv
<1>14. QED
  BY <1>5, <1>6, <1>7, <1>9, <1>10, <1>11, <1>12, <1>13 DEF IInv

(* Nothing is registered, nobody calls and every native object is free. *)
LEMMA InitIInv == Init => IInv
<1> SUFFICES ASSUME Init PROVE IInv
  OBVIOUS
<1> USE NoneAssumption, WordsApart DEF Init, Initializers
<1>1. SlotsSuffice
  BY FS_EmptySet, SlotsAssumption DEF SlotsSuffice
<1>2. TypeOK
  BY <1>1 DEF TypeOK, Places
<1>3. CallInv /\ HolderInv /\ BuildInv
  BY DEF CallInv, HolderInv, BuildInv, Building, Waits, Asleep, Calls
<1>4. LinkInv
  BY DEF LinkInv, Linked
<1>5. ExclusiveInv /\ OwnerInv /\ WaitInv
  BY DEF ExclusiveInv, OwnerInv, WaitInv, Waits, Asleep, Calls
<1>6. QED
  BY <1>2, <1>3, <1>4, <1>5 DEF IInv

(* A step that changes nothing keeps the invariant. *)
LEMMA StutterStep == ASSUME IInv, UNCHANGED vars PROVE IInv'
  BY DEF vars, callVars, historyVars, IInv, TypeOK, SlotsSuffice, CallInv, HolderInv, LinkInv, Linked,
         Clearing, BuildInv, ExclusiveInv, OwnerInv, WaitInv, Building

(* The invariant is inductive, whatever the threads do and in any order. *)
LEMMA Inductive == IInv /\ [Next]_vars => IInv'
<1> SUFFICES ASSUME IInv, [Next]_vars PROVE IInv'
  OBVIOUS
<1>1. ASSUME NEW t \in Threads, Step(t) PROVE IInv'
  BY <1>1, CallStep, CheckStep, EnterStep, LookupStep, NativeInitStep, PublishStep, RecheckStep,
     MisuseStep, NativeLockStep, NativeUnlockStep, NativeWaitStep, NativeSignalStep, TimeoutStep,
     WakeStep, ForgetStep, FreeStep, ClearStep DEF Step, NativeCall
<1>2. ASSUME NEW o \in Objects, Reuse(o) PROVE IInv'
  BY <1>2, ReuseStep
<1>3. CASE UNCHANGED vars
  BY <1>3, StutterStep
<1>4. QED
  BY <1>1, <1>2, <1>3 DEF Next

(* The inductive invariant holds in every state of every behaviour. *)
LEMMA Invariance == Spec => []IInv
  BY InitIInv, Inductive, PTL DEF Spec

(* The variables of the bridge have their types; in particular              *)
(* initializedObjects[] never holds more than PTHR_MAX_OBJECTS entries.     *)
THEOREM TypeCorrect == Spec => []TypeOK
<1>1. IInv => TypeOK
  BY DEF IInv
<1>2. QED
  BY <1>1, Invariance, PTL

LEMMA OwnersExclude == IInv => MutualExclusion
<1> SUFFICES ASSUME IInv, NEW t \in Threads, NEW u \in Threads, t # u,
                    NEW m \in inside[t] \cap inside[u]
             PROVE  FALSE
  BY DEF MutualExclusion
<1>1. owner[word[m]] = t /\ owner[word[m]] = u
  BY DEF IInv, OwnerInv
<1> QED
  BY <1>1

(* Two threads are never inside one Android mutex: all of them lock the      *)
(* native mutex pthr.c created for it.  Callers may even forget to destroy,  *)
(* as far as calls that then reach no native object put nobody inside.       *)
THEOREM MutualExclusionHolds == Spec => []MutualExclusion
  BY OwnersExclude, Invariance, PTL

(* Every way out of the static initialization gives pthr_mutex back: only    *)
(* a thread that is building an object has it.                               *)
THEOREM RegistryLockReleased == Spec => []HolderBuilds
<1>1. IInv => HolderBuilds
  BY DEF IInv, TypeOK, HolderInv, HolderBuilds
<1>2. QED
  BY <1>1, Invariance, PTL
-----------------------------------------------------------------------------
(* With memory reused only after the object in it was destroyed.            *)

(* A registered object is in use, or on its way in or out. *)
RegisteredInv ==
    \A o \in registry :
        /\ word[o] \in Reals
        /\ o \in usable \/ \E t \in Threads : arg[t] = o /\ (op[t] = "init" \/ pc[t] = "forget")

(* A usable object that is not registered holds a static initializer. *)
StaticInv == \A o \in usable : o \notin registry => word[o] \in Initializers(o)

(* What a thread uses stays usable; what it is about to call is registered. *)
UserInv ==
    \A t \in Threads :
        /\ op[t] \notin {None, "init", "destroy"} => arg[t] \in usable
        /\ inside[t] \subseteq usable
        /\ pc[t] \in {"recheck", "native"} => arg[t] \in registry
        /\ pc[t] = "free" => word[arg[t]] \in Reals

UseInv == RegisteredInv /\ StaticInv /\ UserInv /\ NoMisuse /\ UsableServed

(* A call starts on an object it may use; a destroyed one has no user. *)
LEMMA CallUses == ASSUME IInv, UseInv, NEW t \in Threads, Call(t) PROVE UseInv'
<1> USE NoneAssumption, WordsApart
<1>1. PICK o \in Objects, call \in Calls, m \in Mutexes \cup {None} :
        /\ Allowed(t, o, call, m)
        /\ pc' = [pc EXCEPT ![t] = Starts(call)]
        /\ op' = [op EXCEPT ![t] = call]
        /\ arg' = [arg EXCEPT ![t] = o]
        /\ with' = [with EXCEPT ![t] = m]
        /\ usable' = IF call = "destroy" THEN usable \ {o} ELSE usable
  BY DEF Call, Go
<1>2. /\ pc[t] = "idle"
      /\ UNCHANGED <<word, registry, holder, native, owner, local, inside, misused, refused>>
  BY DEF Call, historyVars
<1>3. /\ call \in {"lock", "trylock", "wait", "timedwait", "signal", "broadcast"} => o \in usable
      /\ call = "unlock" => o \in inside[t]
      /\ call = "destroy" => Users(o) = {}
  BY <1>1 DEF Allowed, Calls
<1>4. \A u \in Threads : u # t =>
        pc'[u] = pc[u] /\ op'[u] = op[u] /\ arg'[u] = arg[u] /\ with'[u] = with[u]
  BY <1>1 DEF IInv, TypeOK
<1>5. /\ pc'[t] = Starts(call) /\ op'[t] = call /\ arg'[t] = o /\ with'[t] = m
      /\ Starts(call) \in {"check", "enter", "forget"}
      /\ call = "destroy" => Starts(call) = "forget"
  BY <1>1 DEF IInv, TypeOK, Starts, Calls
<1>6. op[t] = None
  BY <1>2 DEF IInv, CallInv
<1>7. RegisteredInv'
  <2> SUFFICES ASSUME NEW p \in registry
               PROVE  /\ word[p] \in Reals
                      /\ \/ p \in usable'
                         \/ \E u \in Threads : arg'[u] = p /\ (op'[u] = "init" \/ pc'[u] = "forget")
    BY <1>2 DEF RegisteredInv
  <2>1. CASE p \in usable
    BY <2>1, <1>1, <1>5 DEF UseInv, RegisteredInv
  <2>2. CASE p \notin usable
    <3>1. PICK u \in Threads : arg[u] = p /\ (op[u] = "init" \/ pc[u] = "forget")
      BY <2>2 DEF UseInv, RegisteredInv
    <3>2. u # t
      BY <3>1, <1>2, <1>6 DEF Calls
    <3>3. QED
      BY <3>1, <3>2, <1>4 DEF UseInv, RegisteredInv
  <2>3. QED
    BY <2>1, <2>2
<1>8. StaticInv'
  BY <1>1, <1>2 DEF UseInv, StaticInv, Initializers
<1>9. \A u \in Threads : inside[u] \subseteq usable'
  BY <1>1, <1>3 DEF UseInv, UserInv, Users
<1>10. UserInv'
  <2> SUFFICES ASSUME NEW u \in Threads
               PROVE  /\ op'[u] \notin {None, "init", "destroy"} => arg'[u] \in usable'
                      /\ inside[u] \subseteq usable'
                      /\ pc'[u] \in {"recheck", "native"} => arg'[u] \in registry
                      /\ pc'[u] = "free" => word[arg'[u]] \in Reals
    BY <1>2 DEF UserInv
  <2>1. CASE u = t
    BY <2>1, <1>1, <1>3, <1>5, <1>9 DEF Calls
  <2>2. CASE u # t
    <3>1. call = "destroy" => arg[u] # o
      BY <1>3 DEF Users
    <3>2. QED
      BY <2>2, <3>1, <1>1, <1>4, <1>9 DEF UseInv, UserInv
  <2>3. QED
    BY <2>1, <2>2
<1>11. (NoMisuse /\ UsableServed)'
  BY <1>2 DEF UseInv, NoMisuse, UsableServed
<1>12. QED
  BY <1>7, <1>8, <1>10, <1>11 DEF UseInv

(* Only unlock is refused at the head of a call, and never about a mutex that is held. *)
LEMMA CheckUses == ASSUME IInv, UseInv, NEW t \in Threads, Check(t) PROVE UseInv'
<1> USE NoneAssumption, WordsApart DEF Check, Go, Return, HasReal, Initializers, callVars, Fit
<1>1. RegisteredInv'
  BY SMTT(20) DEF IInv, TypeOK, CallInv, UseInv, RegisteredInv, UserInv, BuildInv, ExclusiveInv, LinkInv, Building, Calls
<1>2. StaticInv'
  BY SMTT(20) DEF IInv, TypeOK, CallInv, UseInv, RegisteredInv, StaticInv, UserInv, ExclusiveInv, WaitInv, OwnerInv, BuildInv, Waits, Asleep, Building, Calls
<1>3. UserInv'
  BY SMTT(20) DEF IInv, TypeOK, CallInv, UseInv, RegisteredInv, StaticInv, UserInv, ExclusiveInv, OwnerInv, WaitInv, Waits, Asleep, Building, Calls
<1>4. (NoMisuse /\ UsableServed)'
  BY SMTT(20) DEF IInv, TypeOK, CallInv, UseInv, RegisteredInv, UserInv, LinkInv, OwnerInv, WaitInv, NoMisuse, UsableServed, Linked, Objects, Waits, Calls
<1>5. QED
  BY <1>1, <1>2, <1>3, <1>4 DEF UseInv

(* The registry's lock is no part of what a user relies on. *)
LEMMA EnterUses == ASSUME IInv, UseInv, NEW t \in Threads, Enter(t) PROVE UseInv'
<1> USE NoneAssumption, WordsApart DEF Enter, Go, callVars, historyVars, Fit, Initializers
<1>1. RegisteredInv'
  BY SMTT(20) DEF IInv, TypeOK, CallInv, UseInv, RegisteredInv, UserInv, BuildInv, ExclusiveInv, LinkInv, Building, Calls
<1>2. StaticInv'
  BY SMTT(20) DEF IInv, TypeOK, CallInv, UseInv, RegisteredInv, StaticInv, UserInv, ExclusiveInv, WaitInv, OwnerInv, BuildInv, Waits, Asleep, Building, Calls
<1>3. UserInv'
  BY SMTT(20) DEF IInv, TypeOK, CallInv, UseInv, RegisteredInv, StaticInv, UserInv, ExclusiveInv, OwnerInv, WaitInv, Waits, Asleep, Building, Calls
<1>4. (NoMisuse /\ UsableServed)'
  BY SMTT(20) DEF IInv, TypeOK, CallInv, UseInv, RegisteredInv, UserInv, LinkInv, OwnerInv, WaitInv, NoMisuse, UsableServed, Linked, Objects, Waits, Calls
<1>5. QED
  BY <1>1, <1>2, <1>3, <1>4 DEF UseInv

(* A thread that finds its object registered may look at the word again. *)
LEMMA LookupUses == ASSUME IInv, UseInv, NEW t \in Threads, Lookup(t) PROVE UseInv'
<1> USE NoneAssumption, WordsApart DEF Lookup, Go, Return, Knows, Unpublished, ReleasedLock, callVars, historyVars, Fit, HasReal, Initializers
<1>1. RegisteredInv'
  BY SMTT(20) DEF IInv, TypeOK, CallInv, UseInv, RegisteredInv, UserInv, BuildInv, ExclusiveInv, LinkInv, Building, Calls
<1>2. StaticInv'
  BY SMTT(20) DEF IInv, TypeOK, CallInv, UseInv, RegisteredInv, StaticInv, UserInv, ExclusiveInv, WaitInv, OwnerInv, BuildInv, Waits, Asleep, Building, Calls
<1>3. UserInv'
  BY SMTT(20) DEF IInv, TypeOK, CallInv, UseInv, RegisteredInv, StaticInv, UserInv, ExclusiveInv, OwnerInv, WaitInv, Waits, Asleep, Building, Calls
<1>4. (NoMisuse /\ UsableServed)'
  BY SMTT(20) DEF IInv, TypeOK, CallInv, UseInv, RegisteredInv, UserInv, LinkInv, OwnerInv, WaitInv, NoMisuse, UsableServed, Linked, Objects, Waits, Calls
<1>5. QED
  BY <1>1, <1>2, <1>3, <1>4 DEF UseInv

(* A failed initialization leaves the static initializer in place. *)
LEMMA NativeInitUses == ASSUME IInv, UseInv, NEW t \in Threads, NativeInit(t) PROVE UseInv'
<1> USE NoneAssumption, WordsApart DEF NativeInit, Go, Return, callVars, historyVars, Fit, Initializers
<1>1. RegisteredInv'
  BY SMTT(20) DEF IInv, TypeOK, CallInv, UseInv, RegisteredInv, UserInv, BuildInv, ExclusiveInv, LinkInv, Building, Calls
<1>2. StaticInv'
  BY SMTT(20) DEF IInv, TypeOK, CallInv, UseInv, RegisteredInv, StaticInv, UserInv, ExclusiveInv, WaitInv, OwnerInv, BuildInv, Waits, Asleep, Building, Calls
<1>3. UserInv'
  BY SMTT(20) DEF IInv, TypeOK, CallInv, UseInv, RegisteredInv, StaticInv, UserInv, ExclusiveInv, OwnerInv, WaitInv, Waits, Asleep, Building, Calls
<1>4. (NoMisuse /\ UsableServed)'
  BY SMTT(20) DEF IInv, TypeOK, CallInv, UseInv, RegisteredInv, UserInv, LinkInv, OwnerInv, WaitInv, NoMisuse, UsableServed, Linked, Objects, Waits, Calls
<1>5. QED
  BY <1>1, <1>2, <1>3, <1>4 DEF UseInv

(* The registered object gets its pointer in the same step. *)
LEMMA PublishUses == ASSUME IInv, UseInv, NEW t \in Threads, Publish(t) PROVE UseInv'
<1> USE NoneAssumption, WordsApart DEF Publish, Go, Return, HasRoom, Discarded, callVars, historyVars, Fit, Initializers
<1>1. RegisteredInv'
  BY SMTT(20) DEF IInv, TypeOK, CallInv, UseInv, RegisteredInv, UserInv, BuildInv, ExclusiveInv, LinkInv, Building, Calls
<1>2. StaticInv'
  BY SMTT(20) DEF IInv, TypeOK, CallInv, UseInv, RegisteredInv, StaticInv, UserInv, ExclusiveInv, WaitInv, OwnerInv, BuildInv, Waits, Asleep, Building, Calls
<1>3. UserInv'
  BY SMTT(20) DEF IInv, TypeOK, CallInv, UseInv, RegisteredInv, StaticInv, UserInv, ExclusiveInv, OwnerInv, WaitInv, Waits, Asleep, Building, Calls
<1>4. (NoMisuse /\ UsableServed)'
  BY SMTT(20) DEF IInv, TypeOK, CallInv, UseInv, RegisteredInv, UserInv, LinkInv, OwnerInv, WaitInv, NoMisuse, UsableServed, Linked, Objects, Waits, Calls
<1>5. QED
  BY <1>1, <1>2, <1>3, <1>4 DEF UseInv

(* The word of a registered object is no NULL: nobody is refused here. *)
LEMMA RecheckUses == ASSUME IInv, UseInv, NEW t \in Threads, Recheck(t) PROVE UseInv'
<1> USE NoneAssumption, WordsApart DEF Recheck, Go, Return, HasReal, Initializers, callVars, Fit
<1>1. RegisteredInv'
  BY SMTT(20) DEF IInv, TypeOK, CallInv, UseInv, RegisteredInv, UserInv, BuildInv, ExclusiveInv, LinkInv, Building, Calls
<1>2. StaticInv'
  BY SMTT(20) DEF IInv, TypeOK, CallInv, UseInv, RegisteredInv, StaticInv, UserInv, ExclusiveInv, WaitInv, OwnerInv, BuildInv, Waits, Asleep, Building, Calls
<1>3. UserInv'
  BY SMTT(20) DEF IInv, TypeOK, CallInv, UseInv, RegisteredInv, StaticInv, UserInv, ExclusiveInv, OwnerInv, WaitInv, Waits, Asleep, Building, Calls
<1>4. (NoMisuse /\ UsableServed)'
  BY SMTT(20) DEF IInv, TypeOK, CallInv, UseInv, RegisteredInv, UserInv, LinkInv, OwnerInv, WaitInv, NoMisuse, UsableServed, Linked, Objects, Waits, Calls
<1>5. QED
  BY <1>1, <1>2, <1>3, <1>4 DEF UseInv

(* A thread at its native call is on a registered object, so this never happens. *)
LEMMA MisuseUses == ASSUME IInv, UseInv, NEW t \in Threads, Misuse(t) PROVE UseInv'
<1> USE NoneAssumption, WordsApart DEF Misuse, Return, Go, Fit, Initializers
<1>1. RegisteredInv'
  BY SMTT(20) DEF IInv, TypeOK, CallInv, UseInv, RegisteredInv, UserInv, BuildInv, ExclusiveInv, LinkInv, Building, Calls
<1>2. StaticInv'
  BY SMTT(20) DEF IInv, TypeOK, CallInv, UseInv, RegisteredInv, StaticInv, UserInv, ExclusiveInv, WaitInv, OwnerInv, BuildInv, Waits, Asleep, Building, Calls
<1>3. UserInv'
  BY SMTT(20) DEF IInv, TypeOK, CallInv, UseInv, RegisteredInv, StaticInv, UserInv, ExclusiveInv, OwnerInv, WaitInv, Waits, Asleep, Building, Calls
<1>4. (NoMisuse /\ UsableServed)'
  BY SMTT(20) DEF IInv, TypeOK, CallInv, UseInv, RegisteredInv, UserInv, LinkInv, OwnerInv, WaitInv, NoMisuse, UsableServed, Linked, Objects, Waits, Calls
<1>5. QED
  BY <1>1, <1>2, <1>3, <1>4 DEF UseInv

(* A thread comes to be inside a usable mutex. *)
LEMMA NativeLockUses == ASSUME IInv, UseInv, NEW t \in Threads, NativeLock(t) PROVE UseInv'
<1> USE NoneAssumption, WordsApart DEF NativeLock, Go, Return, At, Fit, Acquire, historyVars, Initializers
<1>1. RegisteredInv'
  BY SMTT(20) DEF IInv, TypeOK, CallInv, UseInv, RegisteredInv, UserInv, BuildInv, ExclusiveInv, LinkInv, Building, Calls
<1>2. StaticInv'
  BY SMTT(20) DEF IInv, TypeOK, CallInv, UseInv, RegisteredInv, StaticInv, UserInv, ExclusiveInv, WaitInv, OwnerInv, BuildInv, Waits, Asleep, Building, Calls
<1>3. UserInv'
  BY SMTT(20) DEF IInv, TypeOK, CallInv, UseInv, RegisteredInv, StaticInv, UserInv, ExclusiveInv, OwnerInv, WaitInv, Waits, Asleep, Building, Calls
<1>4. (NoMisuse /\ UsableServed)'
  BY SMTT(20) DEF IInv, TypeOK, CallInv, UseInv, RegisteredInv, UserInv, LinkInv, OwnerInv, WaitInv, NoMisuse, UsableServed, Linked, Objects, Waits, Calls
<1>5. QED
  BY <1>1, <1>2, <1>3, <1>4 DEF UseInv

(* A thread leaves a mutex; nothing it relies on changes. *)
LEMMA NativeUnlockUses == ASSUME IInv, UseInv, NEW t \in Threads, NativeUnlock(t) PROVE UseInv'
<1> USE NoneAssumption, WordsApart DEF NativeUnlock, Go, Return, At, Fit, historyVars, Initializers
<1>1. RegisteredInv'
  BY SMTT(20) DEF IInv, TypeOK, CallInv, UseInv, RegisteredInv, UserInv, BuildInv, ExclusiveInv, LinkInv, Building, Calls
<1>2. StaticInv'
  BY SMTT(20) DEF IInv, TypeOK, CallInv, UseInv, RegisteredInv, StaticInv, UserInv, ExclusiveInv, WaitInv, OwnerInv, BuildInv, Waits, Asleep, Building, Calls
<1>3. UserInv'
  BY SMTT(20) DEF IInv, TypeOK, CallInv, UseInv, RegisteredInv, StaticInv, UserInv, ExclusiveInv, OwnerInv, WaitInv, Waits, Asleep, Building, Calls
<1>4. (NoMisuse /\ UsableServed)'
  BY SMTT(20) DEF IInv, TypeOK, CallInv, UseInv, RegisteredInv, UserInv, LinkInv, OwnerInv, WaitInv, NoMisuse, UsableServed, Linked, Objects, Waits, Calls
<1>5. QED
  BY <1>1, <1>2, <1>3, <1>4 DEF UseInv

(* The mutex of a wait is registered, and so is the condition. *)
LEMMA NativeWaitUses == ASSUME IInv, UseInv, NEW t \in Threads, NativeWait(t) PROVE UseInv'
<1> USE NoneAssumption, WordsApart DEF NativeWait, Go, At, Fit, callVars, historyVars, Initializers
<1>1. RegisteredInv'
  BY SMTT(20) DEF IInv, TypeOK, CallInv, UseInv, RegisteredInv, UserInv, BuildInv, ExclusiveInv, LinkInv, Building, Calls
<1>2. StaticInv'
  BY SMTT(20) DEF IInv, TypeOK, CallInv, UseInv, RegisteredInv, StaticInv, UserInv, ExclusiveInv, WaitInv, OwnerInv, BuildInv, Waits, Asleep, Building, Calls
<1>3. UserInv'
  BY SMTT(20) DEF IInv, TypeOK, CallInv, UseInv, RegisteredInv, StaticInv, UserInv, ExclusiveInv, OwnerInv, WaitInv, Waits, Asleep, Building, Calls
<1>4. (NoMisuse /\ UsableServed)'
  BY SMTT(20) DEF IInv, TypeOK, CallInv, UseInv, RegisteredInv, UserInv, LinkInv, OwnerInv, WaitInv, NoMisuse, UsableServed, Linked, Objects, Waits, Calls
<1>5. QED
  BY <1>1, <1>2, <1>3, <1>4 DEF UseInv

(* Waking a thread changes no object. *)
LEMMA NativeSignalUses == ASSUME IInv, UseInv, NEW t \in Threads, NativeSignal(t) PROVE UseInv'
<1> USE NoneAssumption, WordsApart DEF NativeSignal, At, Fit, Sleepers, historyVars, Initializers
<1>1. RegisteredInv'
  BY SMTT(20) DEF IInv, TypeOK, CallInv, UseInv, RegisteredInv, UserInv, BuildInv, ExclusiveInv, LinkInv, Building, Calls
<1>2. StaticInv'
  BY SMTT(20) DEF IInv, TypeOK, CallInv, UseInv, RegisteredInv, StaticInv, UserInv, ExclusiveInv, WaitInv, OwnerInv, BuildInv, Waits, Asleep, Building, Calls
<1>3. UserInv'
  BY SMTT(20) DEF IInv, TypeOK, CallInv, UseInv, RegisteredInv, StaticInv, UserInv, ExclusiveInv, OwnerInv, WaitInv, Waits, Asleep, Building, Calls
<1>4. (NoMisuse /\ UsableServed)'
  BY SMTT(20) DEF IInv, TypeOK, CallInv, UseInv, RegisteredInv, UserInv, LinkInv, OwnerInv, WaitInv, NoMisuse, UsableServed, Linked, Objects, Waits, Calls
<1>5. QED
  BY <1>1, <1>2, <1>3, <1>4 DEF UseInv

(* Neither does the end of a timed wait. *)
LEMMA TimeoutUses == ASSUME IInv, UseInv, NEW t \in Threads, Timeout(t) PROVE UseInv'
<1> USE NoneAssumption, WordsApart DEF Timeout, Go, callVars, historyVars, Fit, Initializers
<1>1. RegisteredInv'
  BY SMTT(20) DEF IInv, TypeOK, CallInv, UseInv, RegisteredInv, UserInv, BuildInv, ExclusiveInv, LinkInv, Building, Calls
<1>2. StaticInv'
  BY SMTT(20) DEF IInv, TypeOK, CallInv, UseInv, RegisteredInv, StaticInv, UserInv, ExclusiveInv, WaitInv, OwnerInv, BuildInv, Waits, Asleep, Building, Calls
<1>3. UserInv'
  BY SMTT(20) DEF IInv, TypeOK, CallInv, UseInv, RegisteredInv, StaticInv, UserInv, ExclusiveInv, OwnerInv, WaitInv, Waits, Asleep, Building, Calls
<1>4. (NoMisuse /\ UsableServed)'
  BY SMTT(20) DEF IInv, TypeOK, CallInv, UseInv, RegisteredInv, UserInv, LinkInv, OwnerInv, WaitInv, NoMisuse, UsableServed, Linked, Objects, Waits, Calls
<1>5. QED
  BY <1>1, <1>2, <1>3, <1>4 DEF UseInv

(* A woken thread finds its mutex usable. *)
LEMMA WakeUses == ASSUME IInv, UseInv, NEW t \in Threads, Wake(t) PROVE UseInv'
<1> USE NoneAssumption, WordsApart DEF Wake, Go, Return, Fit, Acquire, historyVars, Initializers
<1>1. RegisteredInv'
  BY SMTT(20) DEF IInv, TypeOK, CallInv, UseInv, RegisteredInv, UserInv, BuildInv, ExclusiveInv, LinkInv, Building, Calls
<1>2. StaticInv'
  BY SMTT(20) DEF IInv, TypeOK, CallInv, UseInv, RegisteredInv, StaticInv, UserInv, ExclusiveInv, WaitInv, OwnerInv, BuildInv, Waits, Asleep, Building, Calls
<1>3. UserInv'
  BY SMTT(20) DEF IInv, TypeOK, CallInv, UseInv, RegisteredInv, StaticInv, UserInv, ExclusiveInv, OwnerInv, WaitInv, Waits, Asleep, Building, Calls
<1>4. (NoMisuse /\ UsableServed)'
  BY SMTT(20) DEF IInv, TypeOK, CallInv, UseInv, RegisteredInv, UserInv, LinkInv, OwnerInv, WaitInv, NoMisuse, UsableServed, Linked, Objects, Waits, Calls
<1>5. QED
  BY <1>1, <1>2, <1>3, <1>4 DEF UseInv

(* The destroyed object is not usable, so its removal strands nobody. *)
LEMMA ForgetUses == ASSUME IInv, UseInv, NEW t \in Threads, Forget(t) PROVE UseInv'
<1> USE NoneAssumption, WordsApart DEF Forget, Go, Return, Knows, Forgotten, callVars, historyVars, Fit, Initializers
<1>1. RegisteredInv'
  BY SMTT(20) DEF IInv, TypeOK, CallInv, UseInv, RegisteredInv, UserInv, BuildInv, ExclusiveInv, LinkInv, Building, Calls
<1>2. StaticInv'
  BY SMTT(20) DEF IInv, TypeOK, CallInv, UseInv, RegisteredInv, StaticInv, UserInv, ExclusiveInv, WaitInv, OwnerInv, BuildInv, Waits, Asleep, Building, Calls
<1>3. UserInv'
  BY SMTT(20) DEF IInv, TypeOK, CallInv, UseInv, RegisteredInv, StaticInv, UserInv, ExclusiveInv, OwnerInv, WaitInv, Waits, Asleep, Building, Calls
<1>4. (NoMisuse /\ UsableServed)'
  BY SMTT(20) DEF IInv, TypeOK, CallInv, UseInv, RegisteredInv, UserInv, LinkInv, OwnerInv, WaitInv, NoMisuse, UsableServed, Linked, Objects, Waits, Calls
<1>5. QED
  BY <1>1, <1>2, <1>3, <1>4 DEF UseInv

(* The native object that is freed is a live one. *)
LEMMA FreeUses == ASSUME IInv, UseInv, NEW t \in Threads, Free(t) PROVE UseInv'
<1> USE NoneAssumption, WordsApart DEF Free, Go, Fit, callVars, Initializers
<1>1. RegisteredInv'
  BY SMTT(20) DEF IInv, TypeOK, CallInv, UseInv, RegisteredInv, UserInv, BuildInv, ExclusiveInv, LinkInv, Building, Calls
<1>2. StaticInv'
  BY SMTT(20) DEF IInv, TypeOK, CallInv, UseInv, RegisteredInv, StaticInv, UserInv, ExclusiveInv, WaitInv, OwnerInv, BuildInv, Waits, Asleep, Building, Calls
<1>3. UserInv'
  BY SMTT(20) DEF IInv, TypeOK, CallInv, UseInv, RegisteredInv, StaticInv, UserInv, ExclusiveInv, OwnerInv, WaitInv, Waits, Asleep, Building, Calls
<1>4. (NoMisuse /\ UsableServed)'
  BY SMTT(20) DEF IInv, TypeOK, CallInv, UseInv, RegisteredInv, UserInv, LinkInv, OwnerInv, WaitInv, NoMisuse, UsableServed, Linked, Objects, Waits, Calls
<1>5. QED
  BY <1>1, <1>2, <1>3, <1>4 DEF UseInv

(* The word that is cleared belongs to no usable object. *)
LEMMA ClearUses == ASSUME IInv, UseInv, NEW t \in Threads, Clear(t) PROVE UseInv'
<1> USE NoneAssumption, WordsApart DEF Clear, Go, Return, historyVars, Fit, Initializers
<1>1. RegisteredInv'
  BY SMTT(20) DEF IInv, TypeOK, CallInv, UseInv, RegisteredInv, UserInv, BuildInv, ExclusiveInv, LinkInv, Building, Calls
<1>2. StaticInv'
  BY SMTT(20) DEF IInv, TypeOK, CallInv, UseInv, RegisteredInv, StaticInv, UserInv, ExclusiveInv, WaitInv, OwnerInv, BuildInv, Waits, Asleep, Building, Calls
<1>3. UserInv'
  BY SMTT(20) DEF IInv, TypeOK, CallInv, UseInv, RegisteredInv, StaticInv, UserInv, ExclusiveInv, OwnerInv, WaitInv, Waits, Asleep, Building, Calls
<1>4. (NoMisuse /\ UsableServed)'
  BY SMTT(20) DEF IInv, TypeOK, CallInv, UseInv, RegisteredInv, UserInv, LinkInv, OwnerInv, WaitInv, NoMisuse, UsableServed, Linked, Objects, Waits, Calls
<1>5. QED
  BY <1>1, <1>2, <1>3, <1>4 DEF UseInv

(* Without Forgetful callers the memory of a usable object is left alone. *)
LEMMA ReuseUses == ASSUME ~Forgetful, IInv, UseInv, NEW o \in Objects, Reuse(o) PROVE UseInv'
<1> USE NoneAssumption, WordsApart
<1>1. /\ o \notin usable
      /\ \A t \in Threads : o # arg[t] /\ o # with[t] /\ o \notin inside[t]
      /\ UNCHANGED <<registry, pc, op, arg, with, inside, misused, refused>>
  BY DEF Reuse, Users, callVars, historyVars
<1>2. o \notin registry
  BY <1>1 DEF UseInv, RegisteredInv
<1>3. \/ word'[o] \in Initializers(o) /\ usable' = usable \cup {o}
      \/ usable' = usable \ {o}
  BY DEF Reuse, IInv, TypeOK
<1>4. \A p \in Objects : p # o => word'[p] = word[p]
  BY DEF Reuse, IInv, TypeOK
<1>5. RegisteredInv'
  BY <1>1, <1>2, <1>3, <1>4 DEF UseInv, RegisteredInv, IInv, TypeOK
<1>6. StaticInv'
  BY <1>1, <1>2, <1>3, <1>4 DEF UseInv, StaticInv, Initializers, IInv, TypeOK
<1>7. UserInv'
  BY <1>1, <1>3, <1>4 DEF UseInv, UserInv, IInv, TypeOK, CallInv
<1>8. (NoMisuse /\ UsableServed)'
  BY <1>1 DEF UseInv, NoMisuse, UsableServed
<1>9. QED
  BY <1>5, <1>6, <1>7, <1>8 DEF UseInv

(* At the start nothing is registered and usable objects are static. *)
LEMMA InitUses == Init => UseInv
  BY NoneAssumption, WordsApart DEF Init, UseInv, RegisteredInv, StaticInv, UserInv, NoMisuse, UsableServed,
     Calls

(* UseInv is inductive relative to IInv. *)
LEMMA UsesInductive == ~Forgetful /\ IInv /\ UseInv /\ [Next]_vars => UseInv'
<1> SUFFICES ASSUME ~Forgetful, IInv, UseInv, [Next]_vars PROVE UseInv'
  OBVIOUS
<1>1. ASSUME NEW t \in Threads, Step(t) PROVE UseInv'
  BY <1>1, CallUses, CheckUses, EnterUses, LookupUses, NativeInitUses, PublishUses, RecheckUses,
     MisuseUses, NativeLockUses, NativeUnlockUses, NativeWaitUses, NativeSignalUses, TimeoutUses,
     WakeUses, ForgetUses, FreeUses, ClearUses DEF Step, NativeCall
<1>2. ASSUME NEW o \in Objects, Reuse(o) PROVE UseInv'
  BY <1>2, ReuseUses
<1>3. CASE UNCHANGED vars
  BY <1>3 DEF vars, callVars, historyVars, UseInv, RegisteredInv, StaticInv, Initializers, UserInv,
     NoMisuse, UsableServed
<1>4. QED
  BY <1>1, <1>2, <1>3 DEF Next

(* What users rely on holds in every state, if objects are destroyed first. *)
LEMMA UsesInvariance == ASSUME ~Forgetful PROVE Spec => []UseInv
<1>1. IInv /\ UseInv /\ [Next]_vars => UseInv'
  BY UsesInductive
<1>2. QED
  BY <1>1, InitUses, Invariance, PTL DEF Spec

(* No thread reaches a native object before it is initialised or after it    *)
(* is freed, although the word is read without the lock (pthr.c:598).        *)
THEOREM NoMisuseHolds == ASSUME ~Forgetful PROVE Spec => []NoMisuse
<1>1. UseInv => NoMisuse
  BY DEF UseInv
<1>2. QED
  BY <1>1, UsesInvariance, PTL

(* A usable object is refused by no call, whoever loses the race to          *)
(* initialise it: EINVAL is not reached.                                     *)
THEOREM UsableServedHolds == ASSUME ~Forgetful PROVE Spec => []UsableServed
<1>1. UseInv => UsableServed
  BY DEF UseInv
<1>2. QED
  BY <1>1, UsesInvariance, PTL

(* initializedObjects[] holds exactly the objects whose word leads to a live *)
(* native object of their own, outside the two steps of a destruction.       *)
THEOREM RegistryExactHolds == ASSUME ~Forgetful PROVE Spec => []RegistryExact
<1>1. IInv /\ UseInv => RegistryExact
  <2> SUFFICES ASSUME IInv, UseInv PROVE RegistryExact
    OBVIOUS
  <2>1. \A o \in registry : o \in Objects /\ Fit(o)
    BY DEF IInv, TypeOK, UseInv, RegisteredInv, LinkInv, Linked, Fit
  <2>2. \A o \in Objects : ~InDestroy(o) /\ Fit(o) => o \in registry
    BY DEF IInv, LinkInv, Linked, Clearing, InDestroy, Fit
  <2>3. \A o, p \in registry : word[o] = word[p] => o = p
    BY <2>1 DEF IInv, LinkInv, Linked, Fit
  <2>4. QED
    BY <2>1, <2>2, <2>3 DEF RegistryExact
<1>2. QED
  BY <1>1, Invariance, UsesInvariance, PTL

(***************************************************************************)
(* Every native object in use belongs to a linked object or to a thread    *)
(* that still builds it.                                                   *)
(***************************************************************************)
LeakInv ==
    \A r \in Reals : native[r] # "free" =>
        \/ \E o \in Objects : Linked(o) /\ word[o] = r
        \/ \E t \in Threads : pc[t] \in {"init", "publish"} /\ local[t] = r

(* A step of a thread frees what it unlinks and links what it has built. *)
LEMMA LeakStep == ASSUME IInv, LeakInv, NEW t \in Threads, Step(t) PROVE LeakInv'
<1> USE NoneAssumption, WordsApart DEF IInv, TypeOK, CallInv, LinkInv, BuildInv, LeakInv, Linked, Building
<1>a. pc[t] \in {"publish", "forget", "clear"} => \A u \in Threads : pc[u] = "free" => arg[u] # arg[t]
  BY DEF ExclusiveInv, Calls
<1>1. CASE Call(t)
  BY SMTT(20), <1>1 DEF Call, Go, Allowed, Starts, Users, historyVars
<1>2. CASE Check(t)
  BY SMTT(20), <1>2 DEF Check, Go, Return, HasReal, Initializers, callVars
<1>3. CASE Enter(t)
  BY SMTT(20), <1>3 DEF Enter, Go, callVars, historyVars
<1>4. CASE Lookup(t)
  BY SMTT(20), <1>4 DEF Lookup, Go, Return, Knows, Unpublished, ReleasedLock, callVars, historyVars
<1>5. CASE NativeInit(t)
  BY SMTT(20), <1>5 DEF NativeInit, Go, Return, callVars, historyVars
<1>6. CASE Publish(t)
  BY SMTT(20), <1>a, <1>6 DEF Publish, Go, Return, HasRoom, Discarded, callVars, historyVars
<1>7. CASE Recheck(t)
  BY SMTT(20), <1>7 DEF Recheck, Go, Return, HasReal, Initializers, callVars
<1>8. CASE Misuse(t)
  BY SMTT(20), <1>8 DEF Misuse, Return, Go
<1>9. CASE NativeLock(t)
  BY SMTT(20), <1>9 DEF NativeLock, Go, Return, At, Fit, Acquire, historyVars
<1>10. CASE NativeUnlock(t)
  BY SMTT(20), <1>10 DEF NativeUnlock, Go, Return, At, Fit, historyVars
<1>11. CASE NativeWait(t)
  BY SMTT(20), <1>11 DEF NativeWait, Go, At, Fit, callVars, historyVars
<1>12. CASE NativeSignal(t)
  BY SMTT(20), <1>12 DEF NativeSignal, At, Fit, Sleepers, historyVars
<1>13. CASE Timeout(t)
  BY SMTT(20), <1>13 DEF Timeout, Go, callVars, historyVars
<1>14. CASE Wake(t)
  BY SMTT(20), <1>14 DEF Wake, Go, Return, Fit, Acquire, historyVars
<1>15. CASE Forget(t)
  BY SMTT(20), <1>a, <1>15 DEF Forget, Go, Return, Knows, Forgotten, callVars, historyVars
<1>16. CASE Free(t)
  BY SMTT(20), <1>16 DEF Free, Go, Fit, callVars
<1>17. CASE Clear(t)
  BY SMTT(20), <1>a, <1>17 DEF Clear, Go, Return, historyVars
<1>18. QED
  BY <1>1, <1>2, <1>3, <1>4, <1>5, <1>6, <1>7, <1>8, <1>9, <1>10, <1>11, <1>12, <1>13, <1>14, <1>15, <1>16, <1>17 DEF Step, NativeCall

(* Memory is reused when nothing is linked there any more. *)
LEMMA LeakReuse == ASSUME ~Forgetful, IInv, UseInv, LeakInv, NEW o \in Objects, Reuse(o) PROVE LeakInv'
<1>1. /\ o \notin usable /\ \A t \in Threads : o # arg[t]
      /\ UNCHANGED <<registry, native, pc, arg, local>>
  BY DEF Reuse, Users, callVars, historyVars
<1>2. \A p \in Objects : p # o => word'[p] = word[p]
  BY DEF Reuse, IInv, TypeOK
<1>3. ~Linked(o)
  BY <1>1 DEF UseInv, RegisteredInv, Linked
<1>4. QED
  BY <1>1, <1>2, <1>3 DEF LeakInv, Linked

(* No native object is lost, whichever allocation, native initialization or  *)
(* registration failed, and whatever was destroyed in between.               *)
THEOREM NothingLeaksHolds == ASSUME ~Forgetful PROVE Spec => []NothingLeaks
<1>1. Init => LeakInv
  BY DEF Init, LeakInv
<1>2. IInv /\ UseInv /\ LeakInv /\ [Next]_vars => LeakInv'
  <2> SUFFICES ASSUME IInv, UseInv, LeakInv, [Next]_vars PROVE LeakInv'
    OBVIOUS
  <2>1. CASE UNCHANGED vars
    BY <2>1 DEF vars, callVars, LeakInv, Linked
  <2>2. QED
    BY <2>1, LeakStep, LeakReuse DEF Next
<1>3. LeakInv => NothingLeaks
  BY DEF LeakInv, NothingLeaks, Building
<1>4. QED
  BY <1>1, <1>2, <1>3, Invariance, UsesInvariance, PTL DEF Spec
=============================================================================
