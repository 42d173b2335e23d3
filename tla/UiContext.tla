------------------------------ MODULE UiContext ------------------------------
(* The screen the touch layer believes is active (src/source/reimpl/           *)
(* ui_context.c) and what a change of it does to a running gesture             *)
(* (controls.c, handle_ui_screen_change).  Once per frame the loader walks the *)
(* engine's tree of screens, read-only; between two walks the engine opens,    *)
(* closes and disables screens.  Objects are addresses: a closed screen's      *)
(* address may be taken by a new one.                                          *)
EXTENDS Naturals, Sequences, FiniteSets

CONSTANTS
    Manager, Addresses,   \* the screen manager and where screens may live
    NoScreen,             \* the null pointer
    Classes,              \* the RTTI class names
    Bases,                \* [Classes -> sequences of [base, virtual] records]
    Looks,                \* the [class, name] pairs the engine opens
    Fragments,            \* which name fragments a screen name contains
    MaxDepth, MaxPath,    \* UI_MAX_RTTI_DEPTH and UI_MAX_PATH
    MaxOpens              \* bound on the screens opened in a run

ASSUME ManagerAssumption ==
    Manager \notin Addresses /\ NoScreen \notin Addresses \cup {Manager}
ASSUME DepthAssumption == {MaxDepth, MaxPath} \subseteq Nat \ {0} /\ MaxOpens \in Nat

VARIABLES
    turn,        \* whose part of the frame runs: "poll", "input" or "engine"
    managerUp,   \* the manager's object can be found from the application slot
    screens,     \* what lives at an address: a [class, name, enabled, serial]
    kids,        \* the vector of child pointers of the manager and each screen
    opened,      \* screens opened so far
    context,     \* the static UiContextState
    held,        \* a finger or the cursor holds a pointer the engine knows
    visited,     \* the screens its gesture was delivered on
    reused       \* the address seen last was taken since, or during the gesture

uiVars == <<turn, managerUp, screens, kids, opened, context, held, visited, reused>>
treeVars == <<managerUp, screens, kids, opened, reused>>
-----------------------------------------------------------------------------
Nodes == Addresses \cup {Manager}
Pair == {"InGameBorders", "TowerPlacementScreen"}
Closed == [class |-> "none", name |-> "", enabled |-> FALSE, serial |-> 0]
ManagerObject == [class |-> "ScreenManager", name |-> "", enabled |-> TRUE, serial |-> 0]

Valid(s) == IF s = Manager THEN managerUp ELSE screens[s] # Closed
Object(s) == IF s = Manager THEN ManagerObject ELSE screens[s]

\* find_base_offset_r: the class itself or a non-virtual base, level by level.
HasBase[depth \in 0..MaxDepth, class \in Classes, target \in Classes] ==
    /\ depth < MaxDepth
    /\ \/ class = target
       \/ \E i \in DOMAIN Bases[class] :
              /\ ~Bases[class][i].virtual
              /\ HasBase[depth + 1, Bases[class][i].base, target]

DerivesFrom(s, targets) == \E t \in targets : HasBase[0, Object(s).class, t]

\* choose_active_child: the first child that takes input, else the first valid.
Foremost(places) == CHOOSE i \in places : \A j \in places : i <= j

ActiveChild(s) ==
    LET valid == {i \in DOMAIN kids[s] : Valid(kids[s][i])}
        taking == {i \in valid : screens[kids[s][i]].enabled}
    IN  CASE taking # {} -> kids[s][Foremost(taking)]
          [] taking = {} /\ valid # {} -> kids[s][Foremost(valid)]
          [] OTHER -> NoScreen

\* resolve_active_screen: from child to child, UI_MAX_PATH screens at most.
Walk(child) ==
    LET path[n \in 1..MaxPath] ==
            IF n = 1 THEN <<Manager>>
            ELSE LET next == child[path[n - 1][Len(path[n - 1])]]
                 IN  IF next = NoScreen THEN path[n - 1] ELSE Append(path[n - 1], next)
    IN  path[MaxPath]

ActivePath == Walk([s \in Nodes |-> ActiveChild(s)])
Deepest == ActivePath[Len(ActivePath)]

\* classify_one_screen: the type first, in this order, then the name.
Mentions(name, some) == Fragments[name] \cap some # {}

ByName(name) ==
    CASE Mentions(name, {"setting", "option"}) -> "settings"
      [] Mentions(name, {"pause"}) -> "pause"
      [] Mentions(name, {"mainmenu"}) -> "main"
      [] Mentions(name, {"popup", "alert", "confirm", "dialog"}) -> "popup"
      [] Mentions(name, {"gamehud", "gamescreen", "towerselection",
                         "towerupgrade", "target", "ingame"}) -> "game"
      [] name = "" -> "unknown"
      [] OTHER -> "menu"

ClassifyOne(s) ==
    CASE DerivesFrom(s, {"Settings"}) -> "settings"
      [] DerivesFrom(s, {"Pause"}) -> "pause"
      [] DerivesFrom(s, {"Main", "MainPhone"}) -> "main"
      [] DerivesFrom(s, {"Game", "GameHudPhone"}) -> "game"
      [] DerivesFrom(s, {"Popup", "Alert", "Confirmation", "GenericConfirmation"}) -> "popup"
      [] OTHER -> ByName(Object(s).name)

\* classify_path: the deepest screen with a context of its own decides.
Decided(contexts) ==
    LET telling == {i \in DOMAIN contexts : contexts[i] \notin {"menu", "unknown"}}
        deepest == CHOOSE i \in telling : \A j \in telling : j <= i
    IN  CASE telling # {} -> contexts[deepest]
          [] telling = {} /\ (\E i \in DOMAIN contexts : contexts[i] = "menu") -> "menu"
          [] OTHER -> "unknown"

ClassifyPath(path) == Decided([i \in DOMAIN path |-> ClassifyOne(path[i])])

\* Mutant: any change within the game keeps the gesture.
GameContinues(old, new) == old.context = "game" /\ new.context = "game"

\* placement_touch_continues
PlacementContinues(old, new) ==
    /\ old.context = "game" /\ new.context = "game"
    /\ {old.name, new.name} = Pair
-----------------------------------------------------------------------------
UiInit ==
    /\ turn = "poll"
    /\ managerUp = FALSE
    /\ screens = [a \in Addresses |-> Closed]
    /\ kids = [s \in Nodes |-> <<>>]
    /\ opened = 0
    /\ context = [active |-> NoScreen, context |-> "unknown", name |-> "", cancel |-> FALSE]
    /\ held = FALSE
    /\ visited = {}
    /\ reused = FALSE

Seen == [active |-> Deepest, context |-> ClassifyPath(ActivePath),
         name |-> Object(Deepest).name]

\* What a gesture is being delivered on, as the engine knows it.
Delivered == {[serial |-> Object(Deepest).serial, name |-> Seen.name,
               context |-> Seen.context]}

\* ui_context_update finds nothing new, or cannot scan the tree.
PollSame ==
    /\ turn = "poll"
    /\ ~managerUp \/ Deepest = context.active
    /\ turn' = "input"
    /\ visited' = IF held /\ managerUp THEN visited \cup Delivered ELSE visited
    /\ UNCHANGED <<managerUp, screens, kids, opened, context, held, reused>>

\* ui_context_update sees another screen and handle_ui_screen_change ends every
\* gesture unless the change is the placement drag's own.
PollChanged ==
    /\ turn = "poll"
    /\ managerUp /\ Deepest # context.active
    /\ turn' = "input"
    /\ LET continues == PlacementContinues(context, Seen)
       IN  /\ context' = [active |-> Seen.active, context |-> Seen.context,
                          name |-> Seen.name, cancel |-> ~continues]
           /\ held' = (held /\ continues)
           /\ visited' = IF held /\ continues THEN visited \cup Delivered ELSE {}
    /\ reused' = (reused /\ held')
    /\ UNCHANGED <<managerUp, screens, kids, opened>>

FingerDown ==
    /\ turn = "input"
    /\ ~held
    /\ held' = TRUE
    /\ visited' = IF managerUp THEN Delivered ELSE {}
    /\ turn' = "engine"
    /\ UNCHANGED <<treeVars, context>>

FingerUp ==
    /\ turn = "input"
    /\ held
    /\ held' = FALSE
    /\ visited' = {}
    /\ turn' = "engine"
    /\ UNCHANGED <<treeVars, context>>

NoInput ==
    /\ turn = "input"
    /\ turn' = "engine"
    /\ UNCHANGED <<treeVars, context, held, visited>>
-----------------------------------------------------------------------------
\* The engine's side: what libnative.so may do to the tree during a tick.
Engine == turn = "engine" /\ UNCHANGED <<turn, context, held, visited>>

ManagerAppears ==
    /\ Engine
    /\ ~managerUp
    /\ managerUp' = TRUE
    /\ UNCHANGED <<screens, kids, opened, reused>>

Linked(a) == \E s \in Nodes : \E i \in DOMAIN kids[s] : kids[s][i] = a

Open(a, parent) ==
    /\ Engine
    /\ managerUp /\ Valid(parent) /\ parent # a
    /\ screens[a] = Closed /\ ~Linked(a)
    /\ opened < MaxOpens
    /\ opened' = opened + 1
    /\ \E look \in Looks :
           screens' = [screens EXCEPT ![a] =
               [class |-> look.class, name |-> look.name, enabled |-> TRUE,
                serial |-> opened + 1]]
    /\ kids' = [kids EXCEPT ![parent] = Append(@, a), ![a] = <<>>]
    /\ reused' = (reused \/ a = context.active)
    /\ UNCHANGED managerUp

\* A screen's object may go before its parent's vector forgets the pointer.
Destroy(a) ==
    /\ Engine
    /\ screens[a] # Closed
    /\ screens' = [screens EXCEPT ![a] = Closed]
    /\ kids' = [kids EXCEPT ![a] = <<>>]
    /\ UNCHANGED <<managerUp, opened, reused>>

Unlink(a) ==
    /\ Engine
    /\ screens[a] = Closed
    /\ \E parent \in Nodes : \E i \in DOMAIN kids[parent] :
           /\ kids[parent][i] = a
           /\ kids' = [kids EXCEPT ![parent] =
                          SubSeq(@, 1, i - 1) \o SubSeq(@, i + 1, Len(@))]
    /\ UNCHANGED <<managerUp, screens, opened, reused>>

SetInput(a) ==
    /\ Engine
    /\ screens[a] # Closed
    /\ screens' = [screens EXCEPT ![a].enabled = ~@]
    /\ UNCHANGED <<managerUp, kids, opened, reused>>

TickEnds ==
    /\ turn = "engine"
    /\ turn' = "poll"
    /\ UNCHANGED <<treeVars, context, held, visited>>

UiNext ==
    \/ PollSame \/ PollChanged
    \/ FingerDown \/ FingerUp \/ NoInput
    \/ ManagerAppears \/ TickEnds
    \/ \E a \in Addresses :
           \/ \E parent \in Nodes : Open(a, parent)
           \/ Destroy(a) \/ Unlink(a) \/ SetInput(a)

UiSpec == UiInit /\ [][UiNext]_uiVars
-----------------------------------------------------------------------------
UiTypeOK ==
    /\ turn \in {"poll", "input", "engine"}
    /\ managerUp \in BOOLEAN /\ held \in BOOLEAN /\ reused \in BOOLEAN
    /\ opened \in 0..MaxOpens
    /\ kids \in [Nodes -> Seq(Addresses)]
    /\ context.active \in Nodes \cup {NoScreen}

(* ui_context.h 26-30 and controls.c 782-786: the active screen is a touch      *)
(* epoch boundary, so an old DOWN cannot confirm a new screen.  A gesture that *)
(* is still alive after a poll has been delivered on one screen only, or its   *)
(* way went back and forth between the borders and the tower placement of one  *)
(* game; the one exception is a new screen at the address seen last, which the *)
(* scan cannot tell from the old one.                                          *)
OldDownStaysOut ==
    held /\ managerUp /\ turn = "input" /\ ~reused =>
        \/ Cardinality({v.serial : v \in visited}) <= 1
        \/ \A v \in visited : v.name \in Pair /\ v.context = "game"
=============================================================================
