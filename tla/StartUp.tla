------------------------------- MODULE StartUp -------------------------------
(* From the start of the process to the tick loop and out again: the version   *)
(* picker and its one-shot choice file (game.c), the check of the data         *)
(* (main.c), config.txt of the version that was chosen (settings.c).  A file   *)
(* is a pair: what programs see, and what is on the card, which the system     *)
(* brings up to date when it likes and power loss falls back to.               *)
EXTENDS Naturals

CONSTANTS
    NoVersion,          \* 0
    MaxPicks,           \* bound on the answers of the picker
    MaxToggles,         \* bound on the changes of Low Graphics
    MaxLosses           \* bound on the losses of power

Versions == {"3.37", "4.7"}

ASSUME NoVersionAssumption == NoVersion \notin Versions
ASSUME PicksAssumption == MaxPicks \in Nat /\ MaxToggles \in Nat /\ MaxLosses \in Nat

VARIABLES
    proc,               \* the process's place; "off" when there is none
    libraries, assets,  \* the versions whose libnative.so, whose BTD5.jet is there
    genuine,            \* those whose libnative.so has the right size and CRC
    requested,          \* requested_version, then selected_version
    requestedBy,        \* the pick it comes from (0: none)
    choice,             \* .boot-version: its first character and the pick
    config,             \* config.txt of each version: its lines and Low Graphics
    low, applied,       \* setting_low_graphics, applied_low_graphics
    picks, toggles, losses,
    used,               \* picks that have been booted
    twice,              \* a pick was booted a second time
    promised,           \* what the last save asked for
    spoilt              \* versions whose last save was cut short or lost

memoryVars == <<requested, requestedBy, low, applied>>
installVars == <<libraries, assets, genuine>>
countVars == <<picks, toggles, losses>>
promiseVars == <<used, twice, promised, spoilt>>
startVars == <<proc, installVars, memoryVars, choice, config, countVars, promiseVars>>

NoFile == [text |-> "none", pick |-> 0]
NoLines == [lines |-> 0, low |-> FALSE]
Clean(content) == [seen |-> content, card |-> content]

StartUpInit ==
    /\ proc = "off"
    /\ libraries \in SUBSET Versions /\ assets \in SUBSET Versions
    /\ genuine \in SUBSET libraries
    /\ requested = NoVersion /\ requestedBy = 0 /\ low = FALSE /\ applied = FALSE
    /\ choice = Clean(NoFile)
    /\ config = [v \in Versions |-> Clean(NoLines)]
    /\ picks = 0 /\ toggles = 0 /\ losses = 0
    /\ used = {} /\ twice = FALSE
    /\ promised = [v \in Versions |-> FALSE] /\ spoilt = {}

Goto(from, to) == proc = from /\ proc' = to
SetChoice(content) == choice' = [choice EXCEPT !.seen = content]
SetConfig(v, content) == config' = [config EXCEPT ![v].seen = content]

-----------------------------------------------------------------------------
Start ==
    /\ Goto("off", "consume")
    /\ requested' = NoVersion /\ requestedBy' = 0
    /\ low' = FALSE /\ applied' = FALSE
    /\ UNCHANGED <<installVars, choice, config, countVars, promiseVars>>

\* consume_boot_choice() reads the file and closes it, ...
ReadChoice ==
    /\ Goto("consume", "remove")
    /\ LET readable == choice.seen.text \in Versions
       IN  /\ requested' = IF readable THEN choice.seen.text ELSE NoVersion
           /\ requestedBy' = IF readable THEN choice.seen.pick ELSE 0
    /\ UNCHANGED <<installVars, low, applied, choice, config, countVars, promiseVars>>

\* Mutant: the file stays.
KeepChoice ==
    /\ Goto("remove", "decide")
    /\ UNCHANGED <<installVars, memoryVars, choice, config, countVars, promiseVars>>

\* ... and removes it before anything is done with it.
RemoveChoice ==
    /\ Goto("remove", "decide")
    /\ SetChoice(NoFile)
    /\ UNCHANGED <<installVars, memoryVars, config, countVars, promiseVars>>

Select(v, pick) ==
    /\ Goto("decide", "validate")
    /\ requested' = v
    /\ used' = IF pick = 0 THEN used ELSE used \cup {pick}
    /\ twice' = (twice \/ pick \in used)
    /\ UNCHANGED <<installVars, requestedBy, low, applied, choice, config, countVars,
                   promised, spoilt>>

\* btd5_select_game_version(): the complete data sets, and what is booted.
Ready == libraries \cap assets

UseChoice ==
    /\ Ready = Versions /\ requested # NoVersion
    /\ Select(requested, requestedBy)

OnlyOneSet == \E v \in Versions : Ready = {v} /\ Select(v, 0)
NoSet == Ready = {} /\ Select("3.37", 0)

OpenPicker ==
    /\ Ready = Versions /\ requested = NoVersion
    /\ Goto("decide", "picker")
    /\ UNCHANGED <<installVars, memoryVars, choice, config, countVars, promiseVars>>

CancelPicker ==
    /\ Goto("picker", "off")
    /\ UNCHANGED <<installVars, memoryVars, choice, config, countVars, promiseVars>>

Pick(v) ==
    /\ Goto("picker", "create")
    /\ picks < MaxPicks /\ picks' = picks + 1
    /\ requested' = v /\ requestedBy' = picks'
    /\ UNCHANGED <<installVars, low, applied, choice, config, toggles, losses, promiseVars>>

\* relaunch_with_boot_choice(); a file that cannot be opened is fatal, and so
\* is a short write, which leaves what it wrote behind.
CreateChoice(opened) ==
    /\ Goto("create", IF opened THEN "write" ELSE "off")
    /\ IF opened THEN SetChoice([text |-> "empty", pick |-> requestedBy])
                 ELSE UNCHANGED choice
    /\ UNCHANGED <<installVars, memoryVars, config, countVars, promiseVars>>

WriteChoice(written) ==
    /\ Goto("write", IF written = 3 THEN "exec" ELSE "off")
    /\ IF written > 0 THEN SetChoice([text |-> requested, pick |-> requestedBy])
                      ELSE UNCHANGED choice
    /\ UNCHANGED <<installVars, memoryVars, config, countVars, promiseVars>>

\* sceAppMgrLoadExec(): a new process; if it fails the choice is withdrawn.
Relaunch ==
    /\ Goto("exec", "consume")
    /\ requested' = NoVersion /\ requestedBy' = 0
    /\ UNCHANGED <<installVars, low, applied, choice, config, countVars, promiseVars>>

RelaunchFails ==
    /\ Goto("exec", "off")
    /\ SetChoice(NoFile)
    /\ UNCHANGED <<installVars, memoryVars, config, countVars, promiseVars>>

\* btd5_verify_native_fingerprint(): the whole file is read, unless a read fails.
Fingerprint(v, readable) ==
    IF ~readable THEN "error" ELSE IF v \in genuine THEN "right" ELSE "wrong"

\* validate_game_data()
Validate(readable) ==
    /\ Goto("validate", "load")
    /\ requested \in Ready /\ Fingerprint(requested, readable) = "right"
    /\ UNCHANGED <<installVars, memoryVars, choice, config, countVars, promiseVars>>

\* fatal_error(): a message, and the process ends.
Fatal(at) ==
    /\ Goto(at, "off")
    /\ UNCHANGED <<installVars, memoryVars, choice, config, countVars, promiseVars>>

InvalidData(readable) ==
    /\ requested \notin Ready \/ Fingerprint(requested, readable) # "right"
    /\ Fatal("validate")

\* soloader_init_all() up to the settings: kubridge, the library in memory.
LoadModule ==
    /\ Goto("load", "settings")
    /\ UNCHANGED <<installVars, memoryVars, choice, config, countVars, promiseVars>>

LoadFails == Fatal("load")

-----------------------------------------------------------------------------
\* Mutant: one config.txt for both versions.
ConfigOfFirst(version) == config["3.37"].seen
ConfigOf(version) == config[version].seen

\* settings_reset()
LowByDefault == FALSE

\* parse_config_line() accepts a line that is there to its value: low_graphics is
\* the third, and what a cut write leaves of it says nothing.
Parsed(file) == IF file.lines = 3 THEN file.low ELSE LowByDefault

\* settings_load()
LoadSettings ==
    /\ Goto("settings", "link")
    /\ low' = Parsed(ConfigOf(requested))
    /\ applied' = low'
    /\ UNCHANGED <<installVars, requested, requestedBy, choice, config, countVars, promiseVars>>

\* The rest of soloader_init_all(), bind_game_api() and the first calls of the
\* engine, up to the tick loop; the pthread bridge may not start, and an export
\* of the library may be missing.
LinkModule ==
    /\ Goto("link", "running")
    /\ UNCHANGED <<installVars, memoryVars, choice, config, countVars, promiseVars>>

LinkFails == Fatal("link")

\* toggle_low_graphics() and the fopen() of settings_save(), which truncates.
Toggle(opened) ==
    /\ Goto("running", IF opened THEN "save" ELSE "running")
    /\ toggles < MaxToggles /\ toggles' = toggles + 1
    /\ low' = ~low
    /\ promised' = [promised EXCEPT ![requested] = low']
    /\ spoilt' = spoilt \cup {requested}
    /\ IF opened THEN SetConfig(requested, NoLines) ELSE UNCHANGED config
    /\ UNCHANGED <<installVars, requested, requestedBy, applied, choice, picks, losses,
                   used, twice>>

\* The lines reach the file when it is closed; a full card takes some of them.
FinishSave(lines) ==
    /\ Goto("save", "running")
    /\ SetConfig(requested, [lines |-> lines, low |-> low])
    /\ spoilt' = IF lines = 3 THEN spoilt \ {requested} ELSE spoilt
    /\ UNCHANGED <<installVars, memoryVars, choice, countVars, used, twice, promised>>

\* The clean exit, or the user closes the application.
Quit ==
    /\ proc # "off" /\ proc' = "off"
    /\ UNCHANGED <<installVars, memoryVars, choice, config, countVars, promiseVars>>

-----------------------------------------------------------------------------
WriteBack ==
    \/ /\ choice.card # choice.seen /\ choice' = Clean(choice.seen)
       /\ UNCHANGED <<proc, installVars, memoryVars, config, countVars, promiseVars>>
    \/ \E v \in Versions :
        /\ config[v].card # config[v].seen
        /\ config' = [config EXCEPT ![v] = Clean(@.seen)]
        /\ UNCHANGED <<proc, installVars, memoryVars, choice, countVars, promiseVars>>

PowerLoss ==
    /\ proc' = "off"
    /\ losses < MaxLosses /\ losses' = losses + 1
    /\ choice' = Clean(choice.card)
    /\ config' = [v \in Versions |-> Clean(config[v].card)]
    /\ spoilt' = spoilt \cup {v \in Versions : config[v].card # config[v].seen}
    /\ UNCHANGED <<installVars, memoryVars, picks, toggles, used, twice, promised>>

StartUpNext ==
    \/ Start \/ ReadChoice \/ RemoveChoice \/ UseChoice \/ OnlyOneSet \/ NoSet
    \/ OpenPicker \/ CancelPicker \/ Relaunch \/ RelaunchFails
    \/ \E v \in Versions : Pick(v)
    \/ \E opened \in BOOLEAN : CreateChoice(opened) \/ Toggle(opened)
    \/ \E n \in 0..3 : WriteChoice(n) \/ FinishSave(n)
    \/ \E readable \in BOOLEAN : Validate(readable) \/ InvalidData(readable)
    \/ LoadModule \/ LoadFails \/ LoadSettings \/ LinkModule \/ LinkFails \/ Quit
    \/ WriteBack \/ PowerLoss

StartUpSpec == StartUpInit /\ [][StartUpNext]_startVars

-----------------------------------------------------------------------------
ChoiceContents == [text : Versions \cup {"none", "empty"}, pick : 0..MaxPicks]
ConfigContents == [lines : 0..3, low : BOOLEAN]

StartUpTypeOK ==
    /\ proc \in {"off", "consume", "remove", "decide", "picker", "create", "write", "exec",
                 "validate", "load", "settings", "link", "running", "save"}
    /\ libraries \subseteq Versions /\ assets \subseteq Versions
    /\ genuine \subseteq libraries
    /\ requested \in Versions \cup {NoVersion} /\ requestedBy \in 0..MaxPicks
    /\ choice \in [seen : ChoiceContents, card : ChoiceContents]
    /\ config \in [Versions -> [seen : ConfigContents, card : ConfigContents]]
    /\ low \in BOOLEAN /\ applied \in BOOLEAN
    /\ picks \in 0..MaxPicks /\ toggles \in 0..MaxToggles /\ losses \in 0..MaxLosses
    /\ used \subseteq 1..MaxPicks /\ twice \in BOOLEAN
    /\ promised \in [Versions -> BOOLEAN] /\ spoilt \subseteq Versions

\* The selection is one-shot: an answer of the picker boots the game once,
\* whatever fails or ends on the way; only a removal that power loss undoes
\* makes it count again.
ChoiceUsedOnce == twice => losses > 0

\* The engine runs with the Low Graphics value that was saved last for its
\* version, unless that save was cut short or power was lost before the card
\* had it.
LowGraphicsKept ==
    proc = "running" /\ requested \notin spoilt => low = promised[requested]
=============================================================================
