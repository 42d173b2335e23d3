------------------------------ MODULE PadCursor ------------------------------
(* The pad half of controls_poll(): Cross and R drive one synthetic pointer     *)
(* that gives way to the front touch, Circle cancels or goes back, Start goes   *)
(* back or, held, asks for the clean exit, Select or the tile toggle Low        *)
(* Graphics on the Settings screen.  A frame is a round of phases on the frame  *)
(* thread, the last of them the frame's swap, which draws the cursor or finds   *)
(* it idle; the front touch (TouchPipeline) is seen through `touch` and the     *)
(* activity flag only.  Coordinates are cut down to on and off the tile, the    *)
(* sticks to whether either is out of its dead zone.                            *)
EXTENDS Naturals, FiniteSets

CONSTANTS
    HoldFrames,         \* START_EXIT_HOLD_US, in steps of the clock
    MaxHeld             \* bound on the buttons held together

ASSUME HoldAssumption == HoldFrames \in Nat \ {0}

Buttons == {"cross", "r", "circle", "start", "select"}
TouchButtons == {"cross", "r"}

VARIABLES
    phase,              \* what the frame does next
    finger,             \* the contact in `touch`: none, live or suppressed
    activity,           \* front_touch_activity_this_poll
    settings,           \* the screen is Settings
    old, buttons,       \* old_buttons, current_buttons
    cursorDown, suppressed, circleSentBack,
    onTile, visible,    \* where the cursor is; cursor_visible
    startHeld,          \* now_us - start_pressed_at_us, or Idle
    exitTriggered, lowGraphics,
    gamePointer,        \* what the engine has been told of the pointer
    startOutcome        \* what the present Start press has led to

touchInVars == <<finger, activity>>
cursorVars == <<cursorDown, suppressed, gamePointer>>
viewVars == <<onTile, visible>>
holdVars == <<startHeld, exitTriggered, startOutcome>>
padVars == <<phase, touchInVars, settings, old, buttons, cursorVars, viewVars,
             circleSentBack, holdVars, lowGraphics>>

Idle == HoldFrames + 1
Pressed == buttons \ old
Released == old \ buttons
TouchHeld(b) == b \cap TouchButtons # {}

PadInit ==
    /\ phase = "screen"
    /\ finger = "none" /\ activity = FALSE /\ settings = FALSE
    /\ old = {} /\ buttons = {}
    /\ cursorDown = FALSE /\ suppressed = FALSE /\ circleSentBack = FALSE
    /\ onTile = FALSE /\ visible = TRUE
    /\ startHeld = Idle /\ exitTriggered = FALSE /\ lowGraphics = FALSE
    /\ gamePointer = "up" /\ startOutcome = "never"

Turn(from, to) == phase = from /\ phase' = to

\* The pointer events of the engine; one out of order would make it "broken".
Send(event) ==
    gamePointer' = CASE event = "down" /\ gamePointer = "up" -> "down"
                     [] event = "move" /\ gamePointer = "down" -> "down"
                     [] event \in {"up", "cancel"} /\ gamePointer = "down" -> "up"
                     [] OTHER -> "broken"

\* cancel_active_touches(), and whether there was anything to cancel.
Cancels == finger = "live" \/ cursorDown
CancelFinger == finger' = IF finger = "live" THEN "suppressed" ELSE finger
CancelCursor ==
    IF cursorDown THEN Send("cancel") /\ cursorDown' = FALSE
    ELSE UNCHANGED <<gamePointer, cursorDown>>
SuppressHeld == suppressed' = (suppressed \/ TouchHeld(buttons))
CancelAll == CancelFinger /\ CancelCursor /\ SuppressHeld

-----------------------------------------------------------------------------
\* ui_context_update() sees another screen; ui_context.c says whether the
\* touches belong to the old one.
ScreenChange(onSettings, cancelRequired) ==
    /\ Turn("screen", "touch")
    /\ settings' = onSettings
    /\ IF cancelRequired THEN CancelAll ELSE UNCHANGED <<finger, cursorVars>>
    /\ UNCHANGED <<activity, old, buttons, viewVars, circleSentBack, holdVars, lowGraphics>>

SameScreen ==
    /\ Turn("screen", "touch")
    /\ UNCHANGED <<touchInVars, settings, old, buttons, cursorVars, viewVars,
                   circleSentBack, holdVars, lowGraphics>>

\* poll_touch(): the finger lands, stays, leaves, or taps within the frame.
FrontTouch(now, tap) ==
    /\ Turn("touch", "synthetic")
    /\ now = "suppressed" => finger = "suppressed"
    /\ finger' = now
    /\ activity' = (tap \/ now # finger)
    /\ UNCHANGED <<settings, old, buttons, cursorVars, viewVars, circleSentBack,
                   holdVars, lowGraphics>>

\* cancel_synthetic_touches_for_front_touch(): who touches the glass needs no
\* cursor.
GivesWay == activity \/ finger # "none"

CancelSynthetic ==
    /\ Turn("synthetic", "sample")
    /\ IF GivesWay THEN CancelCursor ELSE UNCHANGED <<cursorDown, gamePointer>>
    /\ suppressed' = (suppressed \/ (GivesWay /\ cursorDown))
    /\ visible' = (visible /\ ~GivesWay)
    /\ UNCHANGED <<touchInVars, settings, old, buttons, onTile, circleSentBack,
                   holdVars, lowGraphics>>

-----------------------------------------------------------------------------
\* A sample that fails ends the poll with every button as it was; the clock
\* goes on.
PadSampleFails ==
    /\ Turn("sample", "draw")
    /\ UNCHANGED <<touchInVars, settings, old, buttons, cursorVars, viewVars,
                   circleSentBack, holdVars, lowGraphics>>

PadSample(now) ==
    /\ Turn("sample", "circle")
    /\ Cardinality(now) <= MaxHeld
    /\ old' = buttons
    /\ buttons' = now
    /\ UNCHANGED <<touchInVars, settings, cursorVars, viewVars, circleSentBack,
                   holdVars, lowGraphics>>

CircleButton ==
    /\ Turn("circle", "start")
    /\ IF "circle" \in Pressed
       THEN CancelAll /\ circleSentBack' = ~Cancels
       ELSE /\ circleSentBack' = (circleSentBack /\ "circle" \notin Released)
            /\ UNCHANGED <<finger, cursorVars>>
    /\ UNCHANGED <<activity, settings, old, buttons, viewVars, holdVars, lowGraphics>>

Later == {k \in 0..HoldFrames : k >= startHeld}

\* What a press leads to; a second outcome is one too many.
Decide(outcome) == startOutcome' = IF startOutcome = "none" THEN outcome ELSE "twice"

\* A press starts the clock; the exit is asked for once, while held or, after
\* a long frame, at the release; a shorter press is one Back.
StartPressed ==
    /\ "start" \in Pressed
    /\ CancelAll
    /\ startHeld' = 0 /\ exitTriggered' = FALSE /\ startOutcome' = "none"

StartHolds ==
    /\ "start" \in buttons \ Pressed
    /\ \E k \in Later :
        /\ startHeld' = k
        /\ IF k = HoldFrames /\ ~exitTriggered
           THEN exitTriggered' = TRUE /\ Decide("exit")
           ELSE UNCHANGED <<exitTriggered, startOutcome>>
    /\ UNCHANGED <<finger, cursorVars>>

LongEnough(k) == k = HoldFrames

\* Mutant: the release does not look whether the hold has led to the exit.
StartReleasedAgain ==
    /\ "start" \in Released
    /\ \E k \in Later :
        /\ exitTriggered' = LongEnough(k)
        /\ Decide(IF LongEnough(k) THEN "exit" ELSE "back")
    /\ startHeld' = Idle
    /\ UNCHANGED <<finger, cursorVars>>

StartReleased ==
    /\ "start" \in Released
    /\ \E k \in Later :
        IF exitTriggered THEN UNCHANGED <<exitTriggered, startOutcome>>
        ELSE IF LongEnough(k) THEN exitTriggered' = TRUE /\ Decide("exit")
        ELSE exitTriggered' = FALSE /\ Decide("back")
    /\ startHeld' = Idle
    /\ UNCHANGED <<finger, cursorVars>>

StartButton ==
    /\ Turn("start", "release")
    /\ \/ StartPressed \/ StartHolds \/ StartReleased
       \/ "start" \notin buttons \cup old /\ UNCHANGED <<finger, cursorVars, holdVars>>
    /\ UNCHANGED <<activity, settings, old, buttons, viewVars, circleSentBack, lowGraphics>>

-----------------------------------------------------------------------------
\* mark_cursor_activity(): the cursor is shown, and not idle before its timeout.
Marked == visible' = TRUE

\* The contact ends where it was before the sample moves the cursor.
Release ==
    /\ Turn("release", "select")
    /\ IF TouchHeld(old) /\ ~TouchHeld(buttons) /\ cursorDown
       THEN Send("up") /\ cursorDown' = FALSE /\ Marked
       ELSE UNCHANGED <<gamePointer, cursorDown, visible>>
    /\ suppressed' = (suppressed /\ TouchHeld(buttons))
    /\ UNCHANGED <<touchInVars, settings, old, buttons, onTile, circleSentBack,
                   holdVars, lowGraphics>>

SelectButton ==
    /\ Turn("select", "cursor")
    /\ IF "select" \in Pressed /\ settings
       THEN CancelAll /\ lowGraphics' = ~lowGraphics
       ELSE UNCHANGED <<finger, cursorVars, lowGraphics>>
    /\ UNCHANGED <<activity, settings, old, buttons, viewVars, circleSentBack, holdVars>>

\* Mutant: a finger on the glass does not count.
MayTouchAnyway == ~suppressed /\ ~cursorDown
MayTouch == ~suppressed /\ finger = "none" /\ ~cursorDown

\* The sticks move the cursor, Triangle centres it; then a press touches down,
\* or toggles the setting, or is swallowed until the buttons are let go.
Press(tile) ==
    IF settings /\ tile
    THEN /\ lowGraphics' = (lowGraphics # ("cross" \in Pressed /\ MayTouch))
         /\ suppressed' = TRUE
         /\ UNCHANGED <<cursorDown, gamePointer>>
    ELSE /\ IF MayTouch THEN Send("down") /\ cursorDown' = TRUE
            ELSE UNCHANGED <<cursorDown, gamePointer>>
         /\ suppressed' = ~MayTouch
         /\ UNCHANGED lowGraphics

Cursor(tile, moved, stirred) ==
    /\ Turn("cursor", "draw")
    /\ tile # onTile => moved
    /\ moved => stirred
    /\ onTile' = tile
    /\ IF TouchHeld(buttons) /\ ~TouchHeld(old)
       THEN Press(tile) /\ Marked
       ELSE /\ IF TouchHeld(buttons) /\ cursorDown /\ moved
               THEN Send("move") ELSE UNCHANGED gamePointer
            /\ suppressed' = (suppressed /\ TouchHeld(buttons))
            /\ visible' = (visible \/ stirred)
            /\ UNCHANGED <<cursorDown, lowGraphics>>
    /\ UNCHANGED <<touchInVars, settings, old, buttons, circleSentBack, holdVars>>

MayHide(timedOut) == visible /\ ~cursorDown /\ timedOut

\* controls_draw_cursor(): a cursor nobody has moved for long is not drawn.
DrawCursor(timedOut) ==
    /\ Turn("draw", "screen")
    /\ visible' = (visible /\ ~MayHide(timedOut))
    /\ UNCHANGED <<touchInVars, settings, old, buttons, cursorVars, onTile,
                   circleSentBack, holdVars, lowGraphics>>

PadNext ==
    \/ \E s, c \in BOOLEAN : ScreenChange(s, c)
    \/ SameScreen
    \/ \E now \in {"none", "live", "suppressed"}, tap \in BOOLEAN : FrontTouch(now, tap)
    \/ CancelSynthetic
    \/ PadSampleFails
    \/ \E now \in SUBSET Buttons : PadSample(now)
    \/ CircleButton
    \/ StartButton
    \/ Release
    \/ SelectButton
    \/ \E tile, moved, stirred \in BOOLEAN : Cursor(tile, moved, stirred)
    \/ \E timedOut \in BOOLEAN : DrawCursor(timedOut)

PadSpec == PadInit /\ [][PadNext]_padVars

-----------------------------------------------------------------------------
PadTypeOK ==
    /\ phase \in {"screen", "touch", "synthetic", "sample", "circle", "start", "release",
                  "select", "cursor", "draw"}
    /\ finger \in {"none", "live", "suppressed"}
    /\ {activity, settings, cursorDown, onTile, visible, suppressed, circleSentBack, exitTriggered,
        lowGraphics} \subseteq BOOLEAN
    /\ old \subseteq Buttons /\ buttons \subseteq Buttons
    /\ startHeld \in 0..Idle
    /\ gamePointer \in {"up", "down", "broken"}
    /\ startOutcome \in {"never", "none", "back", "exit", "twice"}

\* Between frames the synthetic pointer is down for the engine exactly when
\* the loader thinks so, and then a button is still held, was not swallowed,
\* no finger is on the glass, and the player is shown where it is: no order of
\* presses, cancellations, touches and timeouts within a frame leaves the
\* pointer stuck or unseen, or sends it an event it must not get.
PadPointerSound ==
    /\ gamePointer = IF cursorDown THEN "down" ELSE "up"
    /\ phase = "screen" /\ cursorDown =>
            TouchHeld(buttons) /\ ~suppressed /\ finger = "none" /\ visible
    /\ phase = "screen" /\ suppressed => TouchHeld(buttons)

\* One press of Start is a Back or an exit request, never both, never twice and
\* never lost, however long a frame lasts and whichever samples fail.
StartDecidesOnce ==
    startOutcome # "twice" /\ (startHeld = Idle => startOutcome # "none")
=============================================================================
