------------------------------ MODULE LiveProofs ------------------------------
(***************************************************************************)
(* Proofs about the music player, the worker slots and the barrier of the  *)
(* pthread bridge, and the tick watchdog, for any number of threads,       *)
(* handles, slots, commands, rounds and ticks.                             *)
(***************************************************************************)
EXTENDS MCLive, FiniteSetTheorems, TLAPS

(* What makes the decoder thread stop after one late grain.  While a command *)
(* that was the last to take effect has turned the active player off, the    *)
(* playing flag is clear; and a handle that has had its late grain is not    *)
(* about to be decoded: the decoder looks at the generation and at the       *)
(* active player first, or has found this handle active but not playing.     *)
LateInv ==
    /\ playing => activePlayer \notin off
    /\ AtMostOneLateGrain
    /\ \A h \in off : late[h] >= 1 /\ current = h =>
            \/ dPc \in {"generation", "player"}
            \/ dPc \in {"open", "failed", "ready"} /\ activePlayer = h

MusicInv == MusicTypeOK /\ LateInv

-----------------------------------------------------------------------------
LEMMA MusicInitInv == MusicInit => MusicInv
<1> SUFFICES ASSUME MusicInit
             PROVE  MusicInv
  OBVIOUS
<1>1. MusicTypeOK
  <2>1. off \subseteq Handles /\ late \in [Handles -> 0..2]
    BY DEF MusicInit
  <2>2. {playing, threadStarted, decoderOpen, atEnd, silent} \subseteq BOOLEAN
    BY DEF MusicInit
  <2>3. looping \in [Handles -> BOOLEAN]
    BY DEF MusicInit
  <2>4. QED
    BY <2>1, <2>2, <2>3 DEF MusicInit, MusicTypeOK, CallPlaces, DecoderPlaces
<1>2. LateInv
  BY NoPlayerAssumption DEF MusicInit, LateInv, AtMostOneLateGrain
<1>3. QED
  BY <1>1, <1>2 DEF MusicInv

(* Turning handles off forgets the grains they have played. *)
LEMMA TurnOffType ==
    ASSUME MusicTypeOK, NEW hs \in SUBSET Handles, TurnOff(hs)
    PROVE  /\ off' = off \cup hs /\ off' \subseteq Handles
           /\ late' \in [Handles -> 0..2] /\ \A h \in hs : late'[h] = 0
           /\ \A h \in Handles \ hs : late'[h] = late[h]
           /\ unheard' \in Handles \cup {NoPlayer}
           /\ fate' \in {"given", "taken", "spoilt"}
BY DEF MusicTypeOK, TurnOff, NothingAsked

(* A command's steps: its entry, and each atomic access after it. *)
LEMMA CommandType ==
    ASSUME MusicTypeOK, NEW c \in Commanders, Command(c) \/ CommandStep(c)
    PROVE  MusicTypeOK'
<1> USE DEF MusicTypeOK, CallPlaces, DecoderPlaces, Begin, Continue,
        callVars, sharedVars, decoderVars, decoderVarsButPlace, promiseVars
<1>1. ASSUME NEW h \in Handles, Load(c, h)
      PROVE  MusicTypeOK'
  BY <1>1 DEF Load
<1>2. ASSUME NEW h \in Handles, NEW loop \in BOOLEAN, Play(c, h, loop)
      PROVE  MusicTypeOK'
  BY <1>2 DEF Play
<1>3. ASSUME NEW h \in Handles, Pause(c, h)
      PROVE  MusicTypeOK'
  BY <1>3 DEF Pause
<1>4. ASSUME NEW h \in Handles, Unload(c, h)
      PROVE  MusicTypeOK'
  BY <1>4 DEF Unload
<1>5. ASSUME NEW loop \in BOOLEAN, Spawn(c, loop)
      PROVE  MusicTypeOK'
  BY <1>5 DEF Spawn
<1>6. CASE SpawnFails(c)
  BY <1>6 DEF SpawnFails, NothingAsked
<1>7. CASE PlayExchange(c)
  BY <1>7 DEF PlayExchange, NothingAsked
<1>8. CASE PlayBump(c)
  BY <1>8 DEF PlayBump
<1>9. CASE PlayStore(c)
  BY <1>9 DEF PlayStore, Valid
<1>10. CASE PauseStore(c)
  <2>1. \E hs \in SUBSET Handles : TurnOff(hs)
    BY <1>10 DEF PauseStore
  <2>2. /\ off' \subseteq Handles /\ late' \in [Handles -> 0..2]
        /\ unheard' \in Handles \cup {NoPlayer} /\ fate' \in {"given", "taken", "spoilt"}
    BY <2>1, TurnOffType
  <2>3. QED
    BY <1>10, <2>2 DEF PauseStore
<1>11. CASE UnloadExchange(c)
  <2>1. {cArg[c]} \in SUBSET Handles
    BY <1>11 DEF UnloadExchange
  <2>2. QED
    BY <1>11, <2>1, TurnOffType DEF UnloadExchange
<1>12. CASE UnloadStore(c)
  <2>1. /\ off' \subseteq Handles /\ late' \in [Handles -> 0..2]
        /\ unheard' \in Handles \cup {NoPlayer} /\ fate' \in {"given", "taken", "spoilt"}
    BY <1>12, TurnOffType DEF UnloadStore
  <2>2. QED
    BY <1>12, <2>1 DEF UnloadStore
<1>13. CASE UnloadBump(c)
  BY <1>13 DEF UnloadBump
<1>14. QED
  BY <1>1, <1>2, <1>3, <1>4, <1>5, <1>6, <1>7, <1>8, <1>9, <1>10, <1>11, <1>12, <1>13
     DEF Command, CommandStep

LEMMA DecoderType ==
    ASSUME MusicTypeOK, DecoderStep
    PROVE  MusicTypeOK'
<1> USE DEF MusicTypeOK, CallPlaces, DecoderPlaces, callVars, sharedVars, promiseVars, decoderVarsButPlace
<1>1. CASE ReadGeneration
  <2>1. fate' \in {"given", "taken", "spoilt"}
    <3>1. fate' = "taken" \/ fate' = fate
      BY <1>1 DEF ReadGeneration
    <3>2. QED
      BY <3>1
  <2>2. /\ silent' = FALSE /\ dPc' = "player" /\ seen' = playGeneration
        /\ UNCHANGED <<callVars, sharedVars, off, late, unheard, current, localGeneration,
                       decoderOpen, atEnd>>
    BY <1>1 DEF ReadGeneration
  <2>3. {playing', threadStarted', decoderOpen', atEnd', silent'} \subseteq BOOLEAN
    BY <2>2
  <2>4. {seen', localGeneration'} \subseteq 0..playGeneration'
    BY <2>2
  <2>5. QED
    BY <2>1, <2>2, <2>3, <2>4
<1>2. CASE ReadPlayer
  BY <1>2 DEF ReadPlayer, CloseDecoder
<1>3. ASSUME NEW ok \in BOOLEAN, Open(ok)
      PROVE  MusicTypeOK'
  BY <1>3 DEF Open
<1>4. CASE Ready
  BY <1>4 DEF Ready
<1>5. ASSUME NEW got \in {"whole", "rewound", "rest", "short"}, Decode(got)
      PROVE  MusicTypeOK'
  BY <1>5 DEF Decode, Filled, RunsDry
<1>6. CASE OpenFailed \/ TrackEnded \/ OutputFailed
  BY <1>6 DEF OpenFailed, TrackEnded, OutputFailed, ClearPlaying
<1>7. CASE CheckGeneration
  BY <1>7 DEF CheckGeneration
<1>8. ASSUME NEW ok \in BOOLEAN, Output(ok)
      PROVE  MusicTypeOK'
  BY <1>8 DEF Output, NothingAsked
<1>9. QED
  BY <1>1, <1>2, <1>3, <1>4, <1>5, <1>6, <1>7, <1>8 DEF DecoderStep

(* A command that turns a handle off begins its count anew, and one that    *)
(* sets the playing flag turns the active player on.                        *)
LEMMA CommandKeepsLate ==
    ASSUME MusicInv, NEW c \in Commanders, Command(c) \/ CommandStep(c)
    PROVE  LateInv'
<1> USE DEF MusicInv, LateInv, AtMostOneLateGrain, MusicTypeOK,
        callVars, sharedVars, decoderVars, decoderVarsButPlace, promiseVars
<1>1. ASSUME NEW h \in Handles,
             \/ Load(c, h) \/ Pause(c, h) \/ Unload(c, h)
             \/ \E loop \in BOOLEAN : Play(c, h, loop)
      PROVE  LateInv'
  BY <1>1 DEF Load, Play, Pause, Unload
<1>2. ASSUME NEW loop \in BOOLEAN, Spawn(c, loop)
      PROVE  LateInv'
  BY <1>2 DEF Spawn
<1>3. CASE SpawnFails(c) \/ PlayBump(c) \/ UnloadBump(c)
  BY <1>3 DEF SpawnFails, NothingAsked, PlayBump, UnloadBump
<1>4. CASE PlayExchange(c)
  BY <1>4 DEF PlayExchange, NothingAsked
<1>5. CASE PlayStore(c)
  BY <1>5 DEF PlayStore
<1>6. CASE PauseStore(c)
  BY <1>6 DEF PauseStore, TurnOff
<1>7. CASE UnloadExchange(c)
  <2>1. {cArg[c]} \in SUBSET Handles
    BY <1>7 DEF UnloadExchange, Continue
  <2>2. QED
    BY <1>7, <2>1, TurnOffType, NoPlayerAssumption DEF UnloadExchange
<1>8. CASE UnloadStore(c)
  BY <1>8 DEF UnloadStore, TurnOff
<1>9. QED
  BY <1>1, <1>2, <1>3, <1>4, <1>5, <1>6, <1>7, <1>8 DEF Command, CommandStep

(* The decoder thread hands a grain of a handle that is off over only if it *)
(* has not done so since, and then goes back to the top of its loop.        *)
LEMMA DecoderKeepsLate ==
    ASSUME MusicInv, DecoderStep
    PROVE  LateInv'
<1> USE DEF MusicInv, LateInv, AtMostOneLateGrain, MusicTypeOK,
        callVars, sharedVars, promiseVars, decoderVarsButPlace
<1>1. CASE ReadGeneration
  BY <1>1 DEF ReadGeneration
<1>2. CASE ReadPlayer
  BY <1>2 DEF ReadPlayer, Changed
<1>3. ASSUME NEW ok \in BOOLEAN, Open(ok)
      PROVE  LateInv'
  BY <1>3 DEF Open
<1>4. CASE Ready
  BY <1>4 DEF Ready
<1>5. ASSUME NEW got \in {"whole", "rewound", "rest", "short"}, Decode(got)
      PROVE  LateInv'
  BY <1>5 DEF Decode, Filled, RunsDry
<1>6. CASE OpenFailed \/ TrackEnded \/ OutputFailed
  BY <1>6 DEF OpenFailed, TrackEnded, OutputFailed, ClearPlaying
<1>7. CASE CheckGeneration
  BY <1>7 DEF CheckGeneration
<1>8. ASSUME NEW ok \in BOOLEAN, Output(ok)
      PROVE  LateInv'
  BY <1>8 DEF Output, NothingAsked
<1>9. QED
  BY <1>1, <1>2, <1>3, <1>4, <1>5, <1>6, <1>7, <1>8 DEF DecoderStep

LEMMA MusicStepInv ==
    ASSUME MusicInv, [MusicNext]_musicVars
    PROVE  MusicInv'
<1>1. CASE UNCHANGED musicVars \/ MusicDone
  BY <1>1 DEF MusicDone, musicVars, callVars, sharedVars, decoderVars, decoderVarsButPlace, promiseVars,
        MusicInv, LateInv, AtMostOneLateGrain, MusicTypeOK
<1>2. ASSUME NEW c \in Commanders, Command(c) \/ CommandStep(c)
      PROVE  MusicInv'
  BY <1>2, CommandType, CommandKeepsLate DEF MusicInv
<1>3. CASE DecoderStep
  BY <1>3, DecoderType, DecoderKeepsLate DEF MusicInv
<1>4. QED
  BY <1>1, <1>2, <1>3 DEF MusicNext

(* The variables of music.c keep their types; the generation the decoder    *)
(* has read is never ahead of the shared one.                               *)
THEOREM MusicTypeCorrect == MusicSpec => []MusicTypeOK
<1>1. MusicInv => MusicTypeOK
  BY DEF MusicInv
<1>2. MusicInv /\ [MusicNext]_musicVars => MusicInv'
  BY MusicStepInv
<1>3. QED
  BY <1>1, <1>2, MusicInitInv, PTL DEF MusicSpec

(* Whatever commands overlap, each of them that silences a track lets at    *)
(* most one grain of it through: the loop of music_thread() and the order   *)
(* of the exchanges and increments in the commands of music.c.              *)
THEOREM OneLateGrain == MusicSpec => []AtMostOneLateGrain
<1>1. MusicInv => AtMostOneLateGrain
  BY DEF MusicInv, LateInv
<1>2. MusicInv /\ [MusicNext]_musicVars => MusicInv'
  BY MusicStepInv
<1>3. QED
  BY <1>1, <1>2, MusicInitInv, PTL DEF MusicSpec
-----------------------------------------------------------------------------
(* Where a thread is in the trampoline between its claim and its return. *)
Followed == {"start", "task", "invoke", "clear", "clear_task", "clear_invoke", "clear_op",
            "release"}
(* The id in a slot is the one of the thread that looks after it, so that no *)
(* two threads write to one slot, and a slot is given back only once all it  *)
(* said of its thread is gone.                                               *)
SlotInv ==
    /\ at[MainThread] = 0 /\ pc[MainThread] \notin Followed \cup {"none", "claim"}
    /\ \A t \in AllThreads :
        /\ pc[t] = "none" => at[t] = 0
        /\ pc[t] = "claim" => at[t] # 0
        /\ pc[t] \in Followed => at[t] # 0
        /\ at[t] # 0 /\ pc[t] # "claim" => at[t] \in SlotIds /\ ids[at[t]] = t
        /\ pc[t] \in {"clear_task", "clear_invoke", "clear_op", "release"} =>
                about[at[t]]["start"] = NoThread
        /\ pc[t] \in {"clear_invoke", "clear_op", "release"} =>
                about[at[t]]["task"] = NoThread
        /\ pc[t] \in {"clear_op", "release"} => about[at[t]]["invoke"] = NoThread

ThreadsInv == ThreadsTypeOK /\ SlotInv /\ SlotFieldsOwned

LEMMA ThreadsInitInv == ThreadsInit => ThreadsInv
<1> SUFFICES ASSUME ThreadsInit
             PROVE  ThreadsInv
  OBVIOUS
<1>1. Cardinality(Party) \in Nat \ {0}
  BY PartyAssumption, FS_EmptySet, FS_CardinalityType
<1>2. ThreadsTypeOK
  BY <1>1, MaxThreadsAssumption, RoundsAssumption
     DEF ThreadsInit, ThreadsTypeOK, AllThreads, Blocked
<1>3. SlotInv
  BY MainAssumption DEF ThreadsInit, SlotInv, Followed, AllThreads, SlotIds
<1>4. SlotFieldsOwned
  BY DEF ThreadsInit, SlotFieldsOwned
<1>5. QED
  BY <1>2, <1>3, <1>4 DEF ThreadsInv

(* A step of t that leaves every slot as it is. *)
LEMMA PlaceChanges ==
    ASSUME ThreadsInv, NEW t \in AllThreads, NEW to, UNCHANGED slotVars,
           pc' = [pc EXCEPT ![t] = to], UNCHANGED at,
           pc[t] \notin {"none", "claim"}, to \notin {"none", "claim"} \cup Followed,
           pc[t] \in Blocked => to \in Blocked
    PROVE  SlotInv' /\ SlotFieldsOwned'
<1>1. SlotInv'
  BY DEF ThreadsInv, ThreadsTypeOK, SlotInv, slotVars, Followed, AllThreads
<1>2. SlotFieldsOwned'
  BY DEF ThreadsInv, ThreadsTypeOK, SlotFieldsOwned, slotVars, AllThreads
<1>3. QED
  BY <1>1, <1>2

(* A step of t into a blocking call, within it or out of it. *)
LEMMA OperationChanges ==
    ASSUME ThreadsInv, NEW t \in AllThreads, NEW to, NEW o \in Blocked \cup {"none"},
           UNCHANGED <<at, ids, about>>, SyncOp(t, o),
           pc' = [pc EXCEPT ![t] = to],
           pc[t] \notin {"none", "claim"}, to \notin {"none", "claim"} \cup Followed,
           o # "none" => to \in Blocked
    PROVE  SlotInv' /\ SlotFieldsOwned' /\ op' \in [SlotIds -> Blocked \cup {"none"}]
<1>1. op' \in [SlotIds -> Blocked \cup {"none"}]
  BY DEF ThreadsInv, ThreadsTypeOK, SyncOp
<1>2. SlotInv'
  BY DEF ThreadsInv, ThreadsTypeOK, SlotInv, Followed, AllThreads
<1>3. ASSUME NEW i \in SlotIds, op'[i] # "none"
      PROVE  \E u \in Workers : ids[i] = u /\ at[u] = i /\ pc'[u] \in Blocked
  <2>1. CASE at[t] = i
    <3>1. at[t] # 0 /\ ids[i] = t
      BY <2>1, MaxThreadsAssumption DEF ThreadsInv, SlotInv, SlotIds
    <3>2. op'[i] = o
      BY <2>1, <3>1 DEF ThreadsInv, ThreadsTypeOK, SyncOp
    <3>3. t \in Workers
      BY <3>1 DEF ThreadsInv, SlotInv, AllThreads
    <3>4. QED
      BY <1>3, <2>1, <3>1, <3>2, <3>3 DEF ThreadsInv, ThreadsTypeOK
  <2>2. CASE at[t] # i
    <3>1. op[i] # "none"
      BY <1>3, <2>2 DEF ThreadsInv, ThreadsTypeOK, SyncOp
    <3>2. QED
      BY <2>2, <3>1 DEF ThreadsInv, ThreadsTypeOK, SlotFieldsOwned, AllThreads
  <2>3. QED
    BY <2>1, <2>2
<1>4. SlotFieldsOwned'
  BY <1>3 DEF ThreadsInv, SlotFieldsOwned
<1>5. QED
  BY <1>1, <1>2, <1>4

-----------------------------------------------------------------------------
(* The trampoline's steps. *)
LEMMA ClaimKeeps ==
    ASSUME ThreadsInv, NEW t \in AllThreads, Claim(t) \/ NoSlot(t)
    PROVE  SlotInv' /\ SlotFieldsOwned'
<1> USE MaxThreadsAssumption, NoThreadAssumption
<1>1. t \in Workers
  BY DEF Claim, NoSlot, Goto, ThreadsInv, SlotInv, AllThreads
<1>2. CASE Claim(t) /\ ids[at[t]] = NoThread
  <2>1. at[t] \in SlotIds
    BY <1>2 DEF Claim, ThreadsInv, ThreadsTypeOK, SlotInv, SlotIds
  <2>2. SlotInv'
    BY <1>1, <1>2, <2>1 DEF Claim, ThreadsInv, ThreadsTypeOK, SlotInv, Followed, AllThreads,
            NoThread
  <2>3. SlotFieldsOwned'
    BY <1>1, <1>2, <2>1 DEF Claim, ThreadsInv, ThreadsTypeOK, SlotFieldsOwned, AllThreads,
            NoThread
  <2>4. QED
    BY <2>2, <2>3
<1>3. CASE Claim(t) /\ ids[at[t]] # NoThread
  <2>1. SlotInv'
    BY <1>1, <1>3 DEF Claim, ThreadsInv, ThreadsTypeOK, SlotInv, Followed, AllThreads
  <2>2. SlotFieldsOwned'
    BY <1>3 DEF Claim, ThreadsInv, ThreadsTypeOK, SlotFieldsOwned, AllThreads, Blocked
  <2>3. QED
    BY <2>1, <2>2
<1>4. CASE NoSlot(t)
  <2>1. SlotInv'
    BY <1>1, <1>4 DEF NoSlot, Goto, slotVars, ThreadsInv, ThreadsTypeOK, SlotInv, Followed,
            AllThreads
  <2>2. SlotFieldsOwned'
    BY <1>4 DEF NoSlot, Goto, slotVars, ThreadsInv, ThreadsTypeOK, SlotFieldsOwned,
            AllThreads, Blocked
  <2>3. QED
    BY <2>1, <2>2
<1>5. QED
  BY <1>2, <1>3, <1>4

(* A store to the slot by the thread whose id it shows. *)
LEMMA StoreKeeps ==
    ASSUME ThreadsInv, NEW t \in AllThreads, Describe(t) \/ Clear(t)
    PROVE  SlotInv' /\ SlotFieldsOwned' /\ about' \in [SlotIds -> [Fields -> Workers \cup {NoThread}]]
<1>1. /\ t \in Workers /\ at[t] \in SlotIds /\ ids[at[t]] = t /\ pc[t] \notin Blocked
      /\ pc[t] \in Followed
  BY DEF Describe, Clear, Store, Goto, ThreadsInv, SlotInv, Followed, AllThreads, Blocked
<1>2. PICK f \in Fields, value \in {t, NoThread}, from \in Followed, to \in Followed \cup {"run"} :
            /\ Store(t, from, f, value, to)
            /\ <<from, f, value, to>> \in
                    {<<"start", "start", t, "task">>, <<"task", "task", t, "invoke">>,
                     <<"invoke", "invoke", t, "run">>,
                     <<"clear", "start", NoThread, "clear_task">>,
                     <<"clear_task", "task", NoThread, "clear_invoke">>,
                     <<"clear_invoke", "invoke", NoThread, "clear_op">>}
  BY DEF Describe, Clear, Fields, Followed
<1>3. about' \in [SlotIds -> [Fields -> Workers \cup {NoThread}]]
  BY <1>1, <1>2 DEF Store, ThreadsInv, ThreadsTypeOK
<1>4. ASSUME NEW u \in AllThreads, u # t, at[u] # 0, pc[u] # "claim"
      PROVE  at[u] \in SlotIds /\ at[u] # at[t] /\ about'[at[u]] = about[at[u]]
  BY <1>1, <1>2, <1>4 DEF Store, ThreadsInv, ThreadsTypeOK, SlotInv
<1>5. SlotInv'
  BY <1>1, <1>2, <1>4 DEF Store, Goto, ThreadsInv, ThreadsTypeOK, SlotInv, Followed,
        AllThreads, Fields
<1>6. SlotFieldsOwned'
  BY <1>1, <1>2 DEF Store, Goto, ThreadsInv, ThreadsTypeOK, SlotFieldsOwned, AllThreads,
        Blocked
<1>7. QED
  BY <1>3, <1>5, <1>6

(* The way out: the trampoline's return, the native exit and a new thread. *)
LEMMA LeaveKeeps ==
    ASSUME ThreadsInv, NEW t \in AllThreads,
           Return(t) \/ ClearOp(t) \/ Release(t) \/ ExitNatively(t)
    PROVE  SlotInv' /\ SlotFieldsOwned' /\ op' \in [SlotIds -> Blocked \cup {"none"}]
<1> USE NoThreadAssumption
<1>1. t \in Workers
  BY DEF Return, ClearOp, Release, ExitNatively, Goto, ThreadsInv, SlotInv, AllThreads,
        Followed
<1>2. CASE Return(t)
  <2>1. SlotInv'
    BY <1>1, <1>2 DEF Return, Goto, slotVars, ThreadsInv, ThreadsTypeOK, SlotInv, Followed,
          AllThreads
  <2>2. SlotFieldsOwned'
    BY <1>2 DEF Return, Goto, slotVars, ThreadsInv, ThreadsTypeOK, SlotFieldsOwned,
          AllThreads, Blocked
  <2>3. QED
    BY <1>2, <2>1, <2>2 DEF Return, slotVars, ThreadsInv, ThreadsTypeOK
<1>3. CASE ClearOp(t)
  <2>1. SlotInv'
    BY <1>1, <1>3 DEF ClearOp, Goto, ThreadsInv, ThreadsTypeOK, SlotInv, Followed,
          AllThreads
  <2>2. SlotFieldsOwned'
    BY <1>3 DEF ClearOp, Goto, ThreadsInv, ThreadsTypeOK, SlotFieldsOwned,
          AllThreads, Blocked
  <2>3. QED
    BY <1>3, <2>1, <2>2 DEF ClearOp, ThreadsInv, ThreadsTypeOK
<1>4. CASE Release(t)
  <2>1. at[t] \in SlotIds /\ ids[at[t]] = t /\ \A f \in Fields : about[at[t]][f] = NoThread
    BY <1>4 DEF Release, Goto, ThreadsInv, SlotInv, Followed, Fields
  <2>2. \A u \in AllThreads : u # t /\ at[u] # 0 /\ pc[u] # "claim" => at[u] # at[t]
    BY <2>1 DEF ThreadsInv, SlotInv
  <2>3. SlotInv'
    BY <1>1, <1>4, <2>1, <2>2 DEF Release, Goto, ThreadsInv, ThreadsTypeOK, SlotInv, Followed,
          AllThreads
  <2>4. SlotFieldsOwned'
    BY <1>4, <2>1 DEF Release, Goto, ThreadsInv, ThreadsTypeOK, SlotFieldsOwned,
          AllThreads, Blocked
  <2>5. QED
    BY <1>4, <2>3, <2>4 DEF Release, ThreadsInv, ThreadsTypeOK
<1>5. CASE ExitNatively(t)
  <2>1. SlotInv'
    BY <1>1, <1>5 DEF ExitNatively, Goto, slotVars, ThreadsInv, ThreadsTypeOK, SlotInv,
          Followed, AllThreads
  <2>2. SlotFieldsOwned'
    BY <1>5 DEF ExitNatively, Goto, slotVars, ThreadsInv, ThreadsTypeOK, SlotFieldsOwned,
          AllThreads, Blocked
  <2>3. QED
    BY <1>5, <2>1, <2>2 DEF ExitNatively, slotVars, ThreadsInv, ThreadsTypeOK
<1>6. QED
  BY <1>2, <1>3, <1>4, <1>5

LEMMA CreateKeeps ==
    ASSUME ThreadsInv, NEW t \in AllThreads, NEW w \in Workers, Create(t, w)
    PROVE  SlotInv' /\ SlotFieldsOwned'
<1>1. SlotInv'
  BY MainAssumption DEF Create, slotVars, ThreadsInv, ThreadsTypeOK, SlotInv, Followed, AllThreads
<1>2. SlotFieldsOwned'
  BY DEF Create, slotVars, ThreadsInv, ThreadsTypeOK, SlotFieldsOwned, AllThreads, Blocked
<1>3. QED
  BY <1>1, <1>2

(* A blocking call begins, goes on or ends; the slot, if there is one, says  *)
(* so in the same step.                                                      *)
LEMMA CallKeeps ==
    ASSUME ThreadsInv, NEW t \in AllThreads, CallStep(t)
    PROVE  SlotInv' /\ SlotFieldsOwned' /\ op' \in [SlotIds -> Blocked \cup {"none"}]
<1> USE DEF Block, Unblock, Goto, Blocked, Followed, slotVars
<1>0. op \in [SlotIds -> Blocked \cup {"none"}]
  BY DEF ThreadsInv, ThreadsTypeOK
<1>1. ASSUME NEW w \in Workers, Create(t, w)
      PROVE  SlotInv' /\ SlotFieldsOwned' /\ op' = op
  BY <1>1, CreateKeeps DEF Create
<1>2. ASSUME NEW w \in Workers, JoinBegin(t, w)
      PROVE  SlotInv' /\ SlotFieldsOwned' /\ op' \in [SlotIds -> Blocked \cup {"none"}]
  BY <1>2, OperationChanges DEF JoinBegin
<1>3. CASE JoinEnd(t)
  BY <1>3, OperationChanges DEF JoinEnd
<1>4. CASE SemPost(t) \/ SemTryWait(t)
  BY <1>4, <1>0 DEF SemPost, SemTryWait, ThreadsInv, SlotInv, SlotFieldsOwned
<1>5. ASSUME NEW timed \in BOOLEAN, SemWaitBegin(t, timed)
      PROVE  SlotInv' /\ SlotFieldsOwned' /\ op' \in [SlotIds -> Blocked \cup {"none"}]
  BY <1>5, OperationChanges DEF SemWaitBegin
<1>6. CASE SemTaken(t)
  BY <1>6, OperationChanges DEF SemTaken
<1>7. CASE SemTimedGivesUp(t) \/ SemLateTimesOut(t)
  BY <1>7, OperationChanges DEF SemTimedGivesUp, SemLateTimesOut
<1>8. CASE SemTimedWaitsOn(t)
  BY <1>8, <1>0, PlaceChanges DEF SemTimedWaitsOn
<1>9. CASE OnceTestAndSet(t)
  BY <1>9, <1>0, PlaceChanges DEF OnceTestAndSet
<1>10. CASE OnceRoutine(t)
  BY <1>10, <1>0, PlaceChanges DEF OnceRoutine
<1>11. QED
  BY <1>0, <1>1, <1>2, <1>3, <1>4, <1>5, <1>6, <1>7, <1>8, <1>9, <1>10 DEF CallStep

LEMMA BarrierKeeps ==
    ASSUME ThreadsInv, NEW t \in AllThreads, BarrierStep(t)
    PROVE  SlotInv' /\ SlotFieldsOwned' /\ op' \in [SlotIds -> Blocked \cup {"none"}]
<1> USE DEF Block, Goto, Blocked, Followed, slotVars
<1>0. op \in [SlotIds -> Blocked \cup {"none"}]
  BY DEF ThreadsInv, ThreadsTypeOK
<1>1. ASSUME NEW woken \in SUBSET AllThreads, BarrierLast(t, woken)
      PROVE  SlotInv' /\ SlotFieldsOwned' /\ op' = op
  <2>1. \A u \in AllThreads :
            \/ pc'[u] = pc[u]
            \/ pc[u] = "cond_wait" /\ pc'[u] = "woken"
    BY <1>1 DEF BarrierLast, AtBarrier
  <2>2. SlotInv'
    BY <1>1, <2>1 DEF BarrierLast, ThreadsInv, ThreadsTypeOK, SlotInv, AllThreads
  <2>3. SlotFieldsOwned'
    BY <1>1, <2>1 DEF BarrierLast, ThreadsInv, ThreadsTypeOK, SlotFieldsOwned, AllThreads
  <2>4. QED
    BY <1>1, <2>2, <2>3 DEF BarrierLast
<1>2. CASE BarrierWait(t)
  BY <1>2, OperationChanges DEF BarrierWait
<1>3. CASE BoundedWaitEnds(t)
  BY <1>3, <1>0, PlaceChanges DEF BoundedWaitEnds
<1>4. CASE BarrierCheck(t)
  <2>1. CASE barrier.generation # seenRound[t]
    BY <1>4, <2>1, OperationChanges DEF BarrierCheck
  <2>2. CASE barrier.generation = seenRound[t]
    BY <1>4, <2>2, <1>0, PlaceChanges DEF BarrierCheck
  <2>3. QED
    BY <2>1, <2>2
<1>5. QED
  BY <1>0, <1>1, <1>2, <1>3, <1>4 DEF BarrierStep

-----------------------------------------------------------------------------
(* The variables keep their types: the slots' are above. *)
LEMMA TrampolineType ==
    ASSUME ThreadsInv, NEW t \in AllThreads, TrampolineStep(t)
    PROVE  ThreadsInv'
<1> USE MaxThreadsAssumption DEF ThreadsInv, slotVars, onceVars, barrierVars
<1>1. CASE Claim(t) \/ NoSlot(t)
  <2>1. t \in Workers
    BY <1>1 DEF Claim, NoSlot, Goto, SlotInv, AllThreads
  <2>2. ThreadsTypeOK'
    BY <1>1, <2>1 DEF Claim, NoSlot, Goto, ThreadsTypeOK
  <2>3. QED
    BY <1>1, <2>2, ClaimKeeps
<1>2. CASE Describe(t) \/ Clear(t)
  <2>1. ThreadsTypeOK'
    BY <1>2, StoreKeeps DEF Describe, Clear, Store, Goto, ThreadsTypeOK
  <2>2. QED
    BY <1>2, <2>1, StoreKeeps
<1>3. CASE Return(t) \/ ClearOp(t) \/ Release(t) \/ ExitNatively(t)
  <2>1. ThreadsTypeOK'
    BY <1>3, LeaveKeeps DEF Return, ClearOp, Release, ExitNatively, Goto, ThreadsTypeOK
  <2>2. QED
    BY <1>3, <2>1, LeaveKeeps
<1>4. QED
  BY <1>1, <1>2, <1>3 DEF TrampolineStep

LEMMA CallType ==
    ASSUME ThreadsInv, NEW t \in AllThreads, CallStep(t)
    PROVE  ThreadsInv'
<1>1. SlotInv' /\ SlotFieldsOwned' /\ op' \in [SlotIds -> Blocked \cup {"none"}]
  BY CallKeeps
<1> USE <1>1, MaxThreadsAssumption, RoundsAssumption
    DEF ThreadsInv, ThreadsTypeOK, slotVars, onceVars, barrierVars, Block, Unblock, Goto,
        Blocked
<1>2. ASSUME NEW w \in Workers, Create(t, w)
      PROVE  ThreadsTypeOK'
  <2>1. at' \in [AllThreads -> 0..MaxThreads + 1]
    <3>1. at' = [at EXCEPT ![w] = 1] /\ 1 \in 0..MaxThreads + 1
      BY <1>2 DEF Create
    <3>2. QED
      BY <3>1, Zenon
  <2>2. pc' \in [AllThreads -> Blocked \cup {"none", "claim", "start", "task", "invoke",
                "run", "clear", "clear_task", "clear_invoke", "clear_op", "release", "once"}]
    BY <1>2 DEF Create
  <2>3. QED
    BY <1>2, <2>1, <2>2 DEF Create
<1>3. ASSUME NEW w \in Workers, JoinBegin(t, w)
      PROVE  ThreadsTypeOK'
  BY <1>3 DEF JoinBegin, AllThreads
<1>4. CASE JoinEnd(t)
  BY <1>4 DEF JoinEnd
<1>5. CASE SemPost(t)
  BY <1>5 DEF SemPost
<1>6. CASE SemTryWait(t)
  BY <1>6 DEF SemTryWait
<1>7. ASSUME NEW timed \in BOOLEAN, SemWaitBegin(t, timed)
      PROVE  ThreadsTypeOK'
  BY <1>7 DEF SemWaitBegin
<1>8. CASE SemTaken(t)
  BY <1>8 DEF SemTaken
<1>9. CASE SemTimedGivesUp(t) \/ SemLateTimesOut(t)
  BY <1>9 DEF SemTimedGivesUp, SemLateTimesOut
<1>10. CASE SemTimedWaitsOn(t)
  BY <1>10 DEF SemTimedWaitsOn
<1>11. CASE OnceTestAndSet(t)
  BY <1>11 DEF OnceTestAndSet
<1>12. CASE OnceRoutine(t)
  BY <1>12 DEF OnceRoutine
<1>13. QED
  BY <1>2, <1>3, <1>4, <1>5, <1>6, <1>7, <1>8, <1>9, <1>10, <1>11, <1>12 DEF CallStep

LEMMA BarrierType ==
    ASSUME ThreadsInv, NEW t \in AllThreads, BarrierStep(t)
    PROVE  ThreadsInv'
<1>1. SlotInv' /\ SlotFieldsOwned' /\ op' \in [SlotIds -> Blocked \cup {"none"}]
  BY BarrierKeeps
<1>2. Cardinality(Party) \in Nat \ {0}
  BY PartyAssumption, FS_EmptySet, FS_CardinalityType
<1> USE <1>1, RoundsAssumption
    DEF ThreadsInv, ThreadsTypeOK, slotVars, onceVars, Block, Goto, Blocked
<1>3. ASSUME NEW woken \in SUBSET AllThreads, BarrierLast(t, woken)
      PROVE  ThreadsTypeOK'
  BY <1>2, <1>3 DEF BarrierLast
<1>4. CASE BarrierWait(t)
  <2>1. barrier' \in [missing : 1..Cardinality(Party), generation : Nat]
    BY <1>2, <1>4 DEF BarrierWait
  <2>2. QED
    BY <1>4, <2>1 DEF BarrierWait
<1>5. CASE BoundedWaitEnds(t)
  BY <1>5 DEF BoundedWaitEnds, barrierVars
<1>6. CASE BarrierCheck(t)
  BY <1>6 DEF BarrierCheck, barrierVars
<1>7. QED
  BY <1>3, <1>4, <1>5, <1>6 DEF BarrierStep

LEMMA ThreadsStepInv ==
    ASSUME ThreadsInv, [ThreadsNext]_threadVars
    PROVE  ThreadsInv'
<1>1. CASE UNCHANGED threadVars \/ Stuck
  BY <1>1 DEF Stuck, threadVars, slotVars, onceVars, barrierVars, ThreadsInv, ThreadsTypeOK,
        SlotInv, SlotFieldsOwned
<1>2. CASE \E t \in AllThreads : TrampolineStep(t) \/ CallStep(t) \/ BarrierStep(t)
  BY <1>2, TrampolineType, CallType, BarrierType
<1>3. QED
  BY <1>1, <1>2 DEF ThreadsNext

(* The thread half of pthr.c keeps the types of its variables. *)
THEOREM ThreadsTypeCorrect == ThreadsSpec => []ThreadsTypeOK
<1>1. ThreadsInv => ThreadsTypeOK
  BY DEF ThreadsInv
<1>2. ThreadsInv /\ [ThreadsNext]_threadVars => ThreadsInv'
  BY ThreadsStepInv
<1>3. QED
  BY <1>1, <1>2, ThreadsInitInv, PTL DEF ThreadsSpec

(* However claims, stores and returns of worker threads interleave, and     *)
(* however often pthread_exit() leaves a slot behind, the watchdog reads of *)
(* a slot only what belongs to the thread whose id it shows.                *)
THEOREM SlotsAreOwned == ThreadsSpec => []SlotFieldsOwned
<1>1. ThreadsInv => SlotFieldsOwned
  BY DEF ThreadsInv
<1>2. ThreadsInv /\ [ThreadsNext]_threadVars => ThreadsInv'
  BY ThreadsStepInv
<1>3. QED
  BY <1>1, <1>2, ThreadsInitInv, PTL DEF ThreadsSpec
-----------------------------------------------------------------------------
(* The start-up barrier.  Who waits there has come to the present round, or  *)
(* was let through it and has not looked at the generation yet.              *)
Waiting(t) == pc[t] \in {"cond_wait", "woken"}
Arrived == {t \in Party : Waiting(t) /\ seenRound[t] = barrier.generation}

(* The counter of the barrier is the number of those who have not come to    *)
(* the present round, and everybody has come to each round before it.        *)
BarrierInv ==
    /\ \A t \in AllThreads :
            Waiting(t) => t \in Party /\ seenRound[t] <= barrier.generation
    /\ \A t \in Party :
            rounds[t] = IF t \in Arrived THEN barrier.generation + 1 ELSE barrier.generation
    /\ barrier.missing + Cardinality(Arrived) = Cardinality(Party)

LEMMA PartyAreThreads == Party \subseteq AllThreads
BY MainAssumption DEF AllThreads

LEMMA ArrivedCount ==
    /\ IsFiniteSet(Arrived) /\ Arrived \subseteq Party
    /\ Cardinality(Arrived) \in Nat /\ Cardinality(Party) \in Nat
BY PartyAssumption, FS_Subset, FS_CardinalityType DEF Arrived

LEMMA BarrierInitInv == ThreadsInit => BarrierInv
<1> SUFFICES ASSUME ThreadsInit
             PROVE  BarrierInv
  OBVIOUS
<1>1. \A t \in AllThreads : ~Waiting(t)
  BY DEF ThreadsInit, Waiting
<1>2. Arrived = {}
  BY <1>1, PartyAreThreads DEF Arrived
<1>3. barrier.missing + Cardinality(Arrived) = Cardinality(Party)
  BY <1>2, ArrivedCount, FS_EmptySet DEF ThreadsInit
<1>4. \A t \in Party : rounds[t] = barrier.generation
  BY PartyAreThreads DEF ThreadsInit
<1>5. QED
  BY <1>1, <1>2, <1>3, <1>4 DEF BarrierInv

(* A step that neither begins nor ends anybody's wait at the barrier. *)
LEMMA ElsewhereKeeps ==
    ASSUME BarrierInv, UNCHANGED barrierVars,
           \A u \in AllThreads : Waiting(u)' <=> Waiting(u)
    PROVE  BarrierInv'
<1>1. Arrived' = Arrived
  BY PartyAreThreads DEF Arrived, barrierVars
<1>2. QED
  BY <1>1 DEF BarrierInv, barrierVars

LEMMA TrampolineStaysAway ==
    ASSUME ThreadsTypeOK, NEW t \in AllThreads, TrampolineStep(t)
    PROVE  UNCHANGED barrierVars /\ \A u \in AllThreads : Waiting(u)' <=> Waiting(u)
<1>1. UNCHANGED barrierVars
  BY DEF TrampolineStep, Claim, NoSlot, Describe, Return, Clear, Store, ClearOp, Release,
        ExitNatively
<1>2. UNCHANGED pc
          \/ \E to : pc' = [pc EXCEPT ![t] = to] /\ ~Waiting(t) /\ to \notin {"cond_wait", "woken"}
  BY DEF TrampolineStep, Claim, NoSlot, Describe, Return, Clear, Store, ClearOp, Release,
        ExitNatively, Goto, Waiting
<1>3. QED
  BY <1>1, <1>2 DEF Waiting, ThreadsTypeOK

LEMMA CallStaysAway ==
    ASSUME ThreadsTypeOK, NEW t \in AllThreads, CallStep(t)
    PROVE  UNCHANGED barrierVars /\ \A u \in AllThreads : Waiting(u)' <=> Waiting(u)
<1>1. UNCHANGED barrierVars
  BY DEF CallStep, Create, JoinBegin, JoinEnd, SemPost, SemTryWait, SemWaitBegin, SemTaken,
        SemTimedGivesUp, SemTimedWaitsOn, SemLateTimesOut, OnceTestAndSet, OnceRoutine
<1>2. UNCHANGED pc
          \/ \E u \in AllThreads : \E to :
                pc' = [pc EXCEPT ![u] = to] /\ ~Waiting(u) /\ to \notin {"cond_wait", "woken"}
  <2>1. ASSUME NEW w \in Workers, Create(t, w)
        PROVE  w \in AllThreads /\ pc' = [pc EXCEPT ![w] = "claim"] /\ ~Waiting(w)
    BY <2>1 DEF Create, Waiting, AllThreads
  <2>2. ASSUME ~(\E w \in Workers : Create(t, w))
        PROVE  UNCHANGED pc \/ \E to : pc' = [pc EXCEPT ![t] = to] /\ ~Waiting(t)
                                        /\ to \notin {"cond_wait", "woken"}
    BY <2>2 DEF CallStep, JoinBegin, JoinEnd, SemPost, SemTryWait, SemWaitBegin, SemTaken,
          SemTimedGivesUp, SemTimedWaitsOn, SemLateTimesOut, OnceTestAndSet, OnceRoutine,
          Block, Unblock, Goto, Waiting
  <2>3. QED
    BY <2>1, <2>2
<1>3. QED
  BY <1>1, <1>2 DEF Waiting, ThreadsTypeOK

(* The last to come finds that all others have; the new round has nobody. *)
LEMMA LastKeeps ==
    ASSUME ThreadsTypeOK, BarrierInv, NEW t \in AllThreads, NEW woken \in SUBSET AllThreads,
           BarrierLast(t, woken)
    PROVE  BarrierInv'
<1>1. t \in Party /\ t \notin Arrived
  BY DEF BarrierLast, Arrived, Waiting
<1>2. Arrived = Party \ {t}
  <2>1. Cardinality(Party \ {t}) = Cardinality(Party) - 1 /\ IsFiniteSet(Party \ {t})
    BY <1>1, PartyAssumption, FS_RemoveElement
  <2>2. Cardinality(Arrived) = Cardinality(Party \ {t})
    BY <2>1, ArrivedCount DEF BarrierLast, BarrierInv
  <2>3. Arrived \subseteq Party \ {t}
    BY <1>1, ArrivedCount
  <2>4. QED
    BY <2>1, <2>2, <2>3, FS_Subset
<1>3. \A u \in AllThreads : Waiting(u)' <=> Waiting(u)
  BY DEF BarrierLast, AtBarrier, Waiting, ThreadsTypeOK
<1>4. barrier' = [missing |-> Cardinality(Party), generation |-> barrier.generation + 1]
      /\ barrier.generation \in Nat
  BY DEF BarrierLast, ThreadsTypeOK
<1>5. \A u \in AllThreads :
          Waiting(u)' => u \in Party /\ seenRound'[u] <= barrier'.generation
                          /\ seenRound'[u] # barrier'.generation
  BY <1>3, <1>4 DEF BarrierLast, BarrierInv, ThreadsTypeOK
<1>6. Arrived' = {}
  BY <1>5, PartyAreThreads DEF Arrived
<1>7. barrier'.missing + Cardinality(Arrived)' = Cardinality(Party)
  BY <1>4, <1>6, ArrivedCount, FS_EmptySet
<1>8. \A u \in Party : rounds'[u] = barrier'.generation
  BY <1>1, <1>2, <1>4, PartyAreThreads DEF BarrierLast, BarrierInv, ThreadsTypeOK
<1>9. QED
  BY <1>5, <1>6, <1>7, <1>8 DEF BarrierInv

(* Anybody else is one more who has come. *)
LEMMA WaitKeeps ==
    ASSUME ThreadsTypeOK, BarrierInv, NEW t \in AllThreads, BarrierWait(t)
    PROVE  BarrierInv'
<1>1. t \in Party /\ ~Waiting(t) /\ t \notin Arrived
  BY DEF BarrierWait, Block, Goto, Arrived, Waiting
<1>2. \A u \in AllThreads :
          /\ u = t => Waiting(u)' /\ seenRound'[u] = barrier.generation
          /\ u # t => (Waiting(u)' <=> Waiting(u)) /\ seenRound'[u] = seenRound[u]
  BY DEF BarrierWait, Block, Goto, Waiting, ThreadsTypeOK
<1>3. barrier'.generation = barrier.generation /\ barrier'.missing = barrier.missing - 1
  BY DEF BarrierWait, ThreadsTypeOK
<1>4. Arrived' = Arrived \cup {t}
  BY <1>1, <1>2, <1>3, PartyAreThreads DEF Arrived
<1>5. Cardinality(Arrived)' = Cardinality(Arrived) + 1
  BY <1>1, <1>4, ArrivedCount, FS_AddElement
<1>6. barrier'.missing + Cardinality(Arrived)' = Cardinality(Party)
  BY <1>3, <1>5, ArrivedCount DEF BarrierInv, ThreadsTypeOK
<1>7. \A u \in Party : rounds'[u] = IF u = t THEN rounds[u] + 1 ELSE rounds[u]
  BY PartyAreThreads DEF BarrierWait, ThreadsTypeOK
<1>8. \A u \in Party :
          rounds'[u] = IF u \in Arrived' THEN barrier'.generation + 1 ELSE barrier'.generation
  BY <1>1, <1>3, <1>4, <1>7 DEF BarrierInv
<1>9. \A u \in AllThreads : Waiting(u)' => u \in Party /\ seenRound'[u] <= barrier'.generation
  BY <1>1, <1>2, <1>3 DEF BarrierInv, ThreadsTypeOK
<1>10. QED
  BY <1>6, <1>8, <1>9 DEF BarrierInv

(* A wait that ends leads back to the generation, and past it only if that   *)
(* is a new one: the thread was not among those who have come to this round. *)
LEMMA CheckKeeps ==
    ASSUME ThreadsTypeOK, BarrierInv, NEW t \in AllThreads,
           BoundedWaitEnds(t) \/ BarrierCheck(t)
    PROVE  BarrierInv'
<1>1. UNCHANGED barrierVars
  BY DEF BoundedWaitEnds, BarrierCheck
<1>2. CASE BarrierCheck(t) /\ barrier.generation # seenRound[t]
  <2>1. \A u \in AllThreads : u # t => (Waiting(u)' <=> Waiting(u))
    BY <1>2 DEF BarrierCheck, Goto, Waiting, ThreadsTypeOK
  <2>2. ~Waiting(t)'
    BY <1>2 DEF BarrierCheck, Goto, Waiting, ThreadsTypeOK
  <2>3. Arrived' = Arrived
    BY <1>1, <1>2, <2>1, <2>2, PartyAreThreads DEF Arrived, barrierVars
  <2>4. QED
    BY <1>1, <2>1, <2>2, <2>3 DEF BarrierInv, barrierVars
<1>3. CASE BoundedWaitEnds(t) \/ barrier.generation = seenRound[t]
  <2>1. \A u \in AllThreads : Waiting(u)' <=> Waiting(u)
    BY <1>3 DEF BoundedWaitEnds, BarrierCheck, Goto, Waiting, ThreadsTypeOK
  <2>2. QED
    BY <1>1, <2>1, ElsewhereKeeps
<1>4. QED
  BY <1>2, <1>3

LEMMA BarrierStepInv ==
    ASSUME ThreadsTypeOK, BarrierInv, [ThreadsNext]_threadVars
    PROVE  BarrierInv'
<1>1. CASE UNCHANGED threadVars \/ Stuck
  BY <1>1, ElsewhereKeeps DEF Stuck, threadVars, Waiting
<1>2. ASSUME NEW t \in AllThreads, TrampolineStep(t) \/ CallStep(t)
      PROVE  BarrierInv'
  BY <1>2, TrampolineStaysAway, CallStaysAway, ElsewhereKeeps
<1>3. ASSUME NEW t \in AllThreads, BarrierStep(t)
      PROVE  BarrierInv'
  BY <1>3, LastKeeps, WaitKeeps, CheckKeeps DEF BarrierStep
<1>4. QED
  BY <1>1, <1>2, <1>3 DEF ThreadsNext

LEMMA BarrierInvImplies ==
    ASSUME ThreadsTypeOK, BarrierInv
    PROVE  NobodyPassesEarly
<1>1. \A t \in Party : Passed(t) \in Int /\ Passed(t) <= barrier.generation
  BY PartyAreThreads DEF Passed, InBarrier, BarrierInv, Arrived, Waiting, ThreadsTypeOK
<1>2. \A u \in Party : rounds[u] \in Nat /\ barrier.generation <= rounds[u]
  BY PartyAreThreads DEF BarrierInv, ThreadsTypeOK
<1>3. QED
  BY <1>1, <1>2 DEF NobodyPassesEarly, ThreadsTypeOK

(* The bounded wait of pthread_cond_wait_soloader() lets nobody past the     *)
(* start-up barrier before everybody has come, for any number of threads,    *)
(* rounds, lost broadcasts and waits that end with nothing to wake them.     *)
THEOREM BarrierHolds == ThreadsSpec => []NobodyPassesEarly
<1>1. ThreadsTypeOK /\ BarrierInv => NobodyPassesEarly
  BY BarrierInvImplies
<1>2. ThreadsTypeOK /\ BarrierInv /\ [ThreadsNext]_threadVars => BarrierInv'
  BY BarrierStepInv
<1>3. QED
  BY <1>1, <1>2, ThreadsTypeCorrect, BarrierInitInv, PTL DEF ThreadsSpec
-----------------------------------------------------------------------------
(* The tick watchdog.  Its two flags are up while the main thread is inside  *)
(* what they stand for, and the numbers that it has read are of ticks that   *)
(* have begun, the reported one being no later than the one read last.       *)
WatchInv ==
    /\ WatchTypeOK
    /\ active <=> main = "tick"
    /\ surface <=> main = "surface"
    /\ report.tick <= read /\ read <= started

LEMMA WatchStepInv ==
    ASSUME WatchInv, [WatchNext]_watchVars
    PROVE  WatchInv'
<1> USE DelaysAssumption, TicksAssumption
    DEF WatchInv, WatchTypeOK, Stages, MainGoes, DogGoes, tickVars, stageVars, dogVars
<1>1. CASE UNCHANGED watchVars \/ AllDone
  BY <1>1 DEF watchVars, AllDone
<1>2. ASSUME NEW created \in BOOLEAN, Bind(created)
      PROVE  WatchInv'
  BY <1>2 DEF Bind
<1>3. CASE SurfaceBegins \/ SurfaceEnds
  <2>1. surface' \in BOOLEAN /\ (surface' <=> main' = "surface")
    BY <1>3, Zenon DEF SurfaceBegins, SurfaceEnds
  <2>2. active' \in BOOLEAN /\ (active' <=> main' = "tick")
    BY <1>3 DEF SurfaceBegins, SurfaceEnds
  <2>3. QED
    BY <1>3, <2>1, <2>2 DEF SurfaceBegins, SurfaceEnds
<1>4. CASE TickCounted
  BY <1>4 DEF TickCounted
<1>5. CASE TickTimed \/ TickPublished
  <2>1. CASE TickTimed
    <3>1. active' \in BOOLEAN /\ (active' <=> main' = "tick")
      BY <2>1 DEF TickTimed
    <3>2. QED
      BY <2>1, <3>1 DEF TickTimed
  <2>2. CASE TickPublished
    <3>1. active' \in BOOLEAN /\ (active' <=> main' = "tick")
      BY <2>2, Zenon DEF TickPublished
    <3>2. QED
      BY <2>2, <3>1 DEF TickPublished
  <2>3. QED
    BY <1>5, <2>1, <2>2
<1>6. CASE TickReturns
  BY <1>6 DEF TickReturns
<1>7. ASSUME NEW s \in {"enter", "cond_wait"}, MainStage(s)
      PROVE  WatchInv'
  BY <1>7 DEF MainStage
<1>8. CASE DogWakes
  BY <1>8 DEF DogWakes
<1>9. CASE DogLooks \/ DogFlushes
  BY <1>9 DEF DogLooks, DogFlushes
<1>10. CASE DogMeasures
  BY <1>10 DEF DogMeasures
<1>11. ASSUME NEW what \in {"surface", "hang"}, DogReports(what)
       PROVE  WatchInv'
  <2>1. report' \in [what : {"nothing", "surface", "hang"}, tick : 0..MaxTicks, stage : Stages]
        /\ report'.tick = read
    BY <1>11 DEF DogReports
  <2>2. read <= read
    OBVIOUS
  <2>3. QED
    BY <1>11, <2>1, <2>2 DEF DogReports
<1>12. CASE TimePasses
  <2>1. age' \in 0..Hang /\ nap' \in 0..Poll
    BY <1>12 DEF TimePasses
  <2>2. QED
    BY <1>12, <2>1 DEF TimePasses
<1>13. ASSUME NEW w \in Others, OtherLooks(w) \/ OtherStores(w, "cond_wait")
       PROVE  WatchInv'
  BY <1>13 DEF OtherLooks, OtherStores
<1>14. QED
  BY <1>1, <1>2, <1>3, <1>4, <1>5, <1>6, <1>7, <1>8, <1>9, <1>10, <1>11, <1>12, <1>13
     DEF WatchNext, MainThreadStep, DogStep

(* The tick watchdog's variables keep their types, for any delays, and what  *)
(* it reports is never a tick that has not begun.                            *)
THEOREM WatchTypeCorrect == WatchSpec => [](WatchTypeOK /\ report.tick <= started)
<1>1. WatchInit => WatchInv
  <2> SUFFICES ASSUME WatchInit
               PROVE  WatchInv
    OBVIOUS
  <2>1. WatchTypeOK
    <3>1. active \in BOOLEAN /\ surface \in BOOLEAN /\ bound \in BOOLEAN
      BY Zenon DEF WatchInit
    <3>2. /\ age \in 0..Hang /\ nap \in 0..Poll
          /\ started \in 0..MaxTicks /\ read \in 0..MaxTicks /\ 0 \in 0..MaxTicks
      BY DelaysAssumption, TicksAssumption DEF WatchInit
    <3>3. report \in [what : {"nothing", "surface", "hang"}, tick : 0..MaxTicks, stage : Stages]
      BY <3>2 DEF WatchInit, NoReport, Stages
    <3>4. QED
      BY <3>1, <3>2, <3>3 DEF WatchInit, WatchTypeOK, Stages
  <2>2. (active <=> main = "tick") /\ (surface <=> main = "surface")
    BY DEF WatchInit
  <2>3. report.tick <= read /\ read <= started
    BY DEF WatchInit, NoReport
  <2>4. QED
    BY <2>1, <2>2, <2>3 DEF WatchInv
<1>2. WatchInv => WatchTypeOK /\ report.tick <= started
  BY TicksAssumption DEF WatchInv, WatchTypeOK
<1>3. WatchInv /\ [WatchNext]_watchVars => WatchInv'
  BY WatchStepInv
<1>4. QED
  BY <1>1, <1>2, <1>3, PTL DEF WatchSpec
-----------------------------------------------------------------------------
(* The union that MCLive runs keeps the safety properties of its parts, for *)
(* whatever part a behaviour is about and without the fairness.             *)
THEOREM LiveIsSafe ==
    LiveSpec => [](AtMostOneLateGrain /\ SlotFieldsOwned /\ NobodyPassesEarly)
<1> DEFINE Inv == MusicInv /\ ThreadsInv /\ BarrierInv
<1>1. LiveInit => Inv
  BY MusicInitInv, ThreadsInitInv, BarrierInitInv DEF LiveInit
<1>2. ASSUME Inv, [LiveNext]_<<part, vars, musicVars, threadVars, watchVars>>
      PROVE  Inv'
  <2>1. [MusicNext]_musicVars /\ [ThreadsNext]_threadVars
    BY <1>2, Zenon DEF LiveNext
  <2>2. QED
    BY <1>2, <2>1, MusicStepInv, ThreadsStepInv, BarrierStepInv DEF ThreadsInv
<1>3. Inv => AtMostOneLateGrain /\ SlotFieldsOwned /\ NobodyPassesEarly
  BY BarrierInvImplies DEF MusicInv, LateInv, ThreadsInv
<1>4. QED
  BY <1>1, <1>2, <1>3, PTL DEF LiveSpec
=============================================================================
