----------------------------- MODULE MusicPlayer -----------------------------
(* music.c: the engine's commands (load, play, pause, unload) and the decoder  *)
(* thread that carries them out.  The two sides share three atomics, the       *)
(* active player, the playing flag and the command generation, and no lock:    *)
(* every access is a step.  A track is a short sequence of grains; volume and  *)
(* sample data are left out.                                                   *)
EXTENDS Naturals, JavaMethods

CONSTANTS
    Commanders,         \* engine threads that give commands
    Handles,            \* the slots of music_handles[]
    NoPlayer,           \* NULL
    MaxCommands         \* bound on the commands of a behaviour

ASSUME NoPlayerAssumption == NoPlayer \notin Handles

VARIABLES
    slot,               \* state of each handle
    looping, activePlayer, playing, playGeneration, threadStarted,
    cPc, cArg,          \* each caller's place in its command, and the handle
    dPc,                \* the decoder thread's place in its loop
    seen,               \* the generation it read at the top of the loop
    current, localGeneration, decoderOpen,
    atEnd,              \* the decoder has come to the end of the file
    silent,             \* the grain it has filled holds no sample of the file
    off,                \* handles a command turned off
    late,               \* grains each has played since it was turned off last
    unheard,            \* the handle whose play command has not been heard yet
    fate,               \* of that command: "given", "taken" by an iteration of the
                        \* decoder begun since, "spoilt" by a clearing of the flag
    commands            \* commands given so far

callVars == <<cPc, cArg, commands>>
sharedVars == <<slot, looping, activePlayer, playing, playGeneration, threadStarted>>
decoderVarsButPlace == <<seen, current, localGeneration, decoderOpen, atEnd, silent>>
decoderVars == <<dPc, decoderVarsButPlace>>
promiseVars == <<off, late, unheard, fate>>
musicVars == <<callVars, sharedVars, decoderVars, promiseVars>>

MusicInit ==
    /\ slot = [h \in Handles |-> "free"]
    /\ looping = [h \in Handles |-> TRUE]
    /\ activePlayer = NoPlayer /\ playing = FALSE /\ playGeneration = 1
    /\ threadStarted = FALSE
    /\ cPc = [c \in Commanders |-> "idle"]
    /\ cArg = [c \in Commanders |-> NoPlayer]
    /\ dPc = "none" /\ seen = 0 /\ current = NoPlayer /\ localGeneration = 0
    /\ decoderOpen = FALSE /\ atEnd = FALSE /\ silent = FALSE
    /\ off = Handles /\ late = [h \in Handles |-> 0] /\ unheard = NoPlayer
    /\ fate = "given" /\ commands = 0

\* music_handle_valid()
Valid(h) == h # NoPlayer /\ slot[h] = "loaded"

Begin(c, h, pc) ==
    /\ cPc[c] = "idle" /\ commands < MaxCommands
    /\ commands' = commands + 1
    /\ cArg' = [cArg EXCEPT ![c] = h]
    /\ cPc' = [cPc EXCEPT ![c] = pc]

Continue(c, from, to) ==
    /\ cPc[c] = from
    /\ cPc' = [cPc EXCEPT ![c] = to]
    /\ UNCHANGED <<cArg, commands>>

NothingAsked == unheard' = NoPlayer /\ fate' = "given"

\* A command that h must be silent has taken effect.
TurnOff(hs) ==
    /\ off' = off \cup hs
    /\ late' = [h \in Handles |-> IF h \in hs THEN 0 ELSE late[h]]
    /\ IF unheard \in hs THEN NothingAsked ELSE UNCHANGED <<unheard, fate>>

-----------------------------------------------------------------------------
\* The slot is claimed with a compare-and-swap and given back when the file
\* is missing; an unloaded slot is never given out again.
Load(c, h) ==
    /\ slot[h] = "free"
    /\ Begin(c, h, "idle")
    /\ slot' = [slot EXCEPT ![h] = "loaded"]
    /\ UNCHANGED <<looping, activePlayer, playing, playGeneration, threadStarted,
                   decoderVars, promiseVars>>

Play(c, h, loop) ==
    /\ Valid(h)
    /\ Begin(c, h, IF threadStarted THEN "exchange" ELSE "spawn")
    /\ threadStarted' = TRUE
    /\ looping' = IF threadStarted THEN [looping EXCEPT ![h] = loop] ELSE looping
    /\ UNCHANGED <<slot, activePlayer, playing, playGeneration, decoderVars, promiseVars>>

\* ensure_music_thread(): the caller that won thread_started creates the thread.
Spawn(c, loop) ==
    /\ Continue(c, "spawn", "exchange")
    /\ dPc' = "generation"
    /\ looping' = [looping EXCEPT ![cArg[c]] = loop]
    /\ UNCHANGED <<slot, activePlayer, playing, playGeneration, threadStarted, seen,
                   current, localGeneration, decoderOpen, atEnd, silent, promiseVars>>

\* Nothing plays, not even for a caller that found thread_started set.
SpawnFails(c) ==
    /\ Continue(c, "spawn", "idle")
    /\ threadStarted' = FALSE
    /\ NothingAsked
    /\ UNCHANGED <<slot, looping, activePlayer, playing, playGeneration, decoderVars,
                   off, late>>

PlayExchange(c) ==
    LET h == cArg[c]
    IN  /\ Continue(c, "exchange", IF activePlayer = h THEN "playing" ELSE "bump")
        /\ activePlayer' = h
        /\ off' = Handles \ {h}
        /\ late' = [x \in Handles |-> 0]
        /\ NothingAsked
        /\ UNCHANGED <<slot, looping, playing, playGeneration, threadStarted, decoderVars>>

PlayBump(c) ==
    /\ Continue(c, "bump", "playing")
    /\ playGeneration' = playGeneration + 1
    /\ UNCHANGED <<slot, looping, activePlayer, playing, threadStarted,
                   decoderVars, promiseVars>>

\* The command is complete, and is to be heard unless a command of another
\* thread has overtaken it.
PlayStore(c) ==
    LET h == cArg[c]
        stands == activePlayer = h /\ Valid(h) /\ threadStarted
    IN  /\ Continue(c, "playing", "idle")
        /\ playing' = TRUE
        /\ off' = off \ {activePlayer}
        /\ late' = [x \in Handles |-> IF x = activePlayer THEN 0 ELSE late[x]]
        /\ unheard' = IF stands THEN h ELSE unheard
        /\ fate' = IF stands THEN "given" ELSE fate
        /\ UNCHANGED <<slot, looping, activePlayer, playGeneration, threadStarted,
                       decoderVars>>

Pause(c, h) ==
    /\ Valid(h) /\ activePlayer = h
    /\ Begin(c, h, "pause")
    /\ UNCHANGED <<sharedVars, decoderVars, promiseVars>>

PauseStore(c) ==
    /\ Continue(c, "pause", "idle")
    /\ playing' = FALSE
    /\ TurnOff(Handles)
    /\ UNCHANGED <<slot, looping, activePlayer, playGeneration, threadStarted, decoderVars>>

Unload(c, h) ==
    /\ Valid(h)
    /\ Begin(c, h, "unload")
    /\ slot' = [slot EXCEPT ![h] = "unloaded"]
    /\ UNCHANGED <<looping, activePlayer, playing, playGeneration, threadStarted,
                   decoderVars, promiseVars>>

UnloadExchange(c) ==
    LET mine == activePlayer = cArg[c]
    IN  /\ Continue(c, "unload", IF mine THEN "silence" ELSE "idle")
        /\ activePlayer' = IF mine THEN NoPlayer ELSE activePlayer
        /\ TurnOff({cArg[c]})
        /\ UNCHANGED <<slot, looping, playing, playGeneration, threadStarted, decoderVars>>

UnloadStore(c) ==
    /\ Continue(c, "silence", "forget")
    /\ playing' = FALSE
    /\ TurnOff(Handles)
    /\ UNCHANGED <<slot, looping, activePlayer, playGeneration, threadStarted, decoderVars>>

UnloadBump(c) ==
    /\ Continue(c, "forget", "idle")
    /\ playGeneration' = playGeneration + 1
    /\ UNCHANGED <<slot, looping, activePlayer, playing, threadStarted,
                   decoderVars, promiseVars>>

-----------------------------------------------------------------------------
ReadGeneration ==
    /\ dPc = "generation"
    /\ seen' = playGeneration
    /\ dPc' = "player"
    /\ silent' = FALSE
    /\ fate' = IF unheard # NoPlayer /\ fate = "given" THEN "taken" ELSE fate
    /\ UNCHANGED <<callVars, sharedVars, off, late, unheard, current, localGeneration,
                   decoderOpen, atEnd>>

\* Whether a command has come since; mutants: one of the two is not compared.
ChangedByCount == seen # localGeneration
ChangedByPlayer == activePlayer # current
Changed == seen # localGeneration \/ activePlayer # current

CloseDecoder == decoderOpen' = FALSE

ReadPlayer ==
    /\ dPc = "player"
    /\ IF Changed
       THEN /\ current' = activePlayer
            /\ localGeneration' = seen
            /\ CloseDecoder
            /\ dPc' = IF Valid(activePlayer) THEN "open" ELSE "ready"
       ELSE /\ dPc' = "ready"
            /\ UNCHANGED <<current, localGeneration, decoderOpen>>
    /\ UNCHANGED <<callVars, sharedVars, promiseVars, seen, atEnd, silent>>

\* The file, its channels and the audio port are as they should be, or one of
\* them is not and the track is given up.
Open(ok) ==
    /\ dPc = "open"
    /\ decoderOpen' = ok
    /\ atEnd' = FALSE
    /\ dPc' = IF ok THEN "ready" ELSE "failed"
    /\ UNCHANGED <<callVars, sharedVars, promiseVars, seen, current, localGeneration,
                   silent>>

Ready ==
    /\ dPc = "ready"
    /\ dPc' = IF decoderOpen /\ Valid(current) /\ playing THEN "decode" ELSE "generation"
    /\ UNCHANGED <<callVars, sharedVars, promiseVars, decoderVarsButPlace>>

\* A grain is read.  The file fills it, or ends in it and the looping track
\* starts again and fills the rest; or it runs dry, because the track does not
\* loop, cannot be rewound or is shorter than a grain.
Filled(read) ==
    /\ read = "whole" => ~atEnd
    /\ read = "rewound" => looping[current]
    /\ atEnd' \in BOOLEAN
    /\ silent' = FALSE
    /\ dPc' = "check"

RunsDry(read) ==
    /\ read = "short" => looping[current]
    /\ read = "rest" => ~looping[current]
    /\ atEnd' = TRUE
    /\ silent' \in (IF read = "short" THEN {FALSE, atEnd} ELSE {atEnd})
    /\ dPc' = "ended"

Decode(read) ==
    /\ dPc = "decode"
    /\ \/ read \in {"whole", "rewound"} /\ Filled(read)
       \/ read \in {"rest", "short"} /\ RunsDry(read)
    /\ UNCHANGED <<callVars, sharedVars, promiseVars, seen, current, localGeneration,
                   decoderOpen>>

\* The flag is cleared whatever was played meanwhile: a play command that came
\* while the decoder was in this iteration for the track before is lost.
ClearPlaying(from, to) ==
    /\ dPc = from
    /\ dPc' = to
    /\ playing' = FALSE
    /\ fate' = IF unheard # NoPlayer /\ (fate = "given" \/ current = unheard)
               THEN "spoilt" ELSE fate
    /\ UNCHANGED <<callVars, slot, looping, activePlayer, playGeneration, threadStarted,
                   off, late, unheard, decoderVarsButPlace>>

OpenFailed == ClearPlaying("failed", "generation")
TrackEnded == ClearPlaying("ended", "check")
OutputFailed == ClearPlaying("broken", "generation")

CheckGeneration ==
    /\ dPc = "check"
    /\ dPc' = IF localGeneration = playGeneration THEN "output" ELSE "generation"
    /\ UNCHANGED <<callVars, sharedVars, promiseVars, decoderVarsButPlace>>

Output(ok) ==
    /\ dPc = "output"
    /\ dPc' = IF ok THEN "generation" ELSE "broken"
    /\ IF ok
       THEN /\ late' = IF current \in off /\ late[current] < 2
                       THEN [late EXCEPT ![current] = @ + 1] ELSE late
            /\ IF current = unheard /\ ~silent THEN NothingAsked
               ELSE UNCHANGED <<unheard, fate>>
       ELSE UNCHANGED <<late, unheard, fate>>
    /\ UNCHANGED <<callVars, sharedVars, off, decoderVarsButPlace>>

-----------------------------------------------------------------------------
CommandStep(c) ==
    \/ \E loop \in BOOLEAN : Spawn(c, loop)
    \/ SpawnFails(c)
    \/ PlayExchange(c) \/ PlayBump(c) \/ PlayStore(c)
    \/ PauseStore(c)
    \/ UnloadExchange(c) \/ UnloadStore(c) \/ UnloadBump(c)

Command(c) ==
    \E h \in Handles :
        \/ Dispatches("object", LoadMusicId) /\ Load(c, h)
        \/ \E loop \in BOOLEAN : DispatchesVoid(PlayMusicId(loop)) /\ Play(c, h, loop)
        \/ DispatchesVoid(PauseMusicId) /\ Pause(c, h)
        \/ DispatchesVoid(UnloadMusicId) /\ Unload(c, h)

DecoderStep ==
    \/ ReadGeneration
    \/ ReadPlayer
    \/ \E ok \in BOOLEAN : Open(ok)
    \/ Ready
    \/ \E read \in {"whole", "rewound", "rest", "short"} : Decode(read)
    \/ OpenFailed \/ TrackEnded \/ OutputFailed
    \/ CheckGeneration
    \/ \E ok \in BOOLEAN : Output(ok)

\* The engine may stop giving commands before anything was played.
MusicDone ==
    /\ dPc = "none"
    /\ \A c \in Commanders : cPc[c] = "idle"
    /\ UNCHANGED musicVars

MusicNext ==
    \/ \E c \in Commanders : CommandStep(c) \/ Command(c)
    \/ DecoderStep \/ MusicDone

MusicFair ==
    /\ WF_musicVars(DecoderStep)
    /\ \A c \in Commanders : WF_musicVars(CommandStep(c))

MusicSpec == MusicInit /\ [][MusicNext]_musicVars /\ MusicFair

-----------------------------------------------------------------------------
CallPlaces == {"idle", "spawn", "exchange", "bump", "playing", "pause", "unload",
               "silence", "forget"}
DecoderPlaces == {"none", "generation", "player", "open", "failed", "ready", "decode",
                  "ended", "check", "output", "broken"}

MusicTypeOK ==
    /\ slot \in [Handles -> {"free", "loaded", "unloaded"}]
    /\ looping \in [Handles -> BOOLEAN]
    /\ {activePlayer, current, unheard} \subseteq Handles \cup {NoPlayer}
    /\ {playing, threadStarted, decoderOpen, atEnd, silent} \subseteq BOOLEAN
    /\ playGeneration \in Nat /\ {seen, localGeneration} \subseteq 0..playGeneration
    /\ cPc \in [Commanders -> CallPlaces]
    /\ cArg \in [Commanders -> Handles \cup {NoPlayer}]
    /\ \A c \in Commanders : cPc[c] # "idle" => cArg[c] \in Handles
    /\ commands \in Nat
    /\ dPc \in DecoderPlaces /\ (dPc = "none" => ~decoderOpen)
    /\ off \subseteq Handles /\ late \in [Handles -> 0..2]
    /\ fate \in {"given", "taken", "spoilt"}

\* Each command that silences a handle, a newer play, a pause or an unload,
\* lets at most one more grain of it through, wherever the decoder thread is
\* in its loop when the command takes effect: the generation and the active
\* player together tell it that what it has read is out of date.
AtMostOneLateGrain == \A h \in off : late[h] <= 1

\* The decoder opened the handle's file for the present command in vain, and
\* opens it no more: a play of the same handle changes neither of the two.
GivenUp(h) == /\ current = h /\ localGeneration = playGeneration
              /\ ~decoderOpen /\ dPc # "open"

\* A play command that no other command overtakes is heard, a sample of its
\* track reaches the port, but for these: its file cannot be opened, or could
\* not be for this handle before (GivenUp); the flag that it sets is cleared by
\* the iteration the decoder was in when the command came, which is the end of
\* the track before (music.c 144); it is cleared for its own track, whose output
\* fails or which has no sample left, being a one-shot track at its end, that
\* the same handle does not rewind (255), or a looping one that cannot be
\* rewound.  An iteration begun after the command loses it for no other reason.
PlayIsHeard ==
    \A h \in Handles :
        (unheard = h) ~> (unheard # h \/ fate = "spoilt" \/ GivenUp(h))
=============================================================================
