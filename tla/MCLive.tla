-------------------------------- MODULE MCLive --------------------------------
(* The threads whose progress matters: those that commit saves, the music      *)
(* decoder, the engine's threads at the start-up barrier, and the tick         *)
(* watchdog.  They share no state and none waits for another, so a behaviour   *)
(* is one of a single part, with the fairness of that part.                    *)
EXTENDS MCProfileSync, MusicPlayer, PthrThreads, TickWatchdog

VARIABLE part

LiveInit ==
    /\ part \in {"saves", "music", "threads", "watchdog"}
    /\ Init /\ MusicInit /\ ThreadsInit /\ WatchInit
    /\ part # "saves" => workerUp

LiveNext ==
    /\ UNCHANGED part
    /\ \/ part = "saves" /\ Next /\ UNCHANGED <<musicVars, threadVars, watchVars>>
       \/ part = "music" /\ MusicNext /\ UNCHANGED <<vars, threadVars, watchVars>>
       \/ part = "threads" /\ ThreadsNext /\ UNCHANGED <<vars, musicVars, watchVars>>
       \/ part = "watchdog" /\ WatchNext /\ UNCHANGED <<vars, musicVars, threadVars>>

\* Fairness, MusicFair, ThreadsFair and WatchFair, each for the behaviours of
\* its part.
LiveFair ==
    /\ WF_vars(part = "saves" /\ Tick)
    /\ WF_vars(part = "saves" /\ WorkerStep)
    /\ WF_vars(part = "saves" /\ MainLifecycle)
    /\ WF_vars(part = "saves" /\ MainStep)
    /\ WF_vars(part = "saves" /\ MainFinishesFile)
    /\ SF_vars(part = "saves" /\ CallbackReturns)
    /\ SF_vars(part = "saves" /\ \E c \in Callers : IoSyncOk(c))
    /\ WF_musicVars(part = "music" /\ DecoderStep)
    /\ \A c \in Commanders : WF_musicVars(part = "music" /\ CommandStep(c))
    /\ \A t \in AllThreads : WF_threadVars(part = "threads" /\ BoundedWaitEnds(t))
    /\ \A t \in AllThreads : WF_threadVars(part = "threads" /\ BarrierCheck(t))
    /\ WF_watchVars(part = "watchdog" /\ DogStep)
    /\ WF_watchVars(part = "watchdog" /\ TimePasses)

LiveSpec ==
    LiveInit /\ [][LiveNext]_<<part, vars, musicVars, threadVars, watchVars>> /\ LiveFair
=============================================================================
