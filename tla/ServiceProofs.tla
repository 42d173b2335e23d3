----------------------------- MODULE ServiceProofs -----------------------------
(***************************************************************************)
(* Proofs about services that run beside the frame: the assets, the pad's   *)
(* pointer, the start of the process with its settings, the preferences,    *)
(* the screen that the touch layer takes to be active, the Java files by    *)
(* which the engine makes its directories, and the cache of GL's state; and *)
(* the union of the services, which is what TLC runs.                       *)
(***************************************************************************)
EXTENDS MCServices, StreamProofs, CalendarProofs, SequenceTheorems

(* The position an asset keeps for itself is the one of its stream, and the *)
(* diagnostic count is the number of streams that are open.                 *)
Handles == {a \in Assets : Opened(a)}

AssetInv ==
    /\ AssetTypeOK
    /\ \A a \in Assets : Opened(a) => asset[a].bytesRead = stream[a]
    /\ active = Cardinality(Handles)
    /\ NeverBeyondEnd

LEMMA HandlesBounded ==
    ASSUME NEW H \in SUBSET Assets
    PROVE  IsFiniteSet(H) /\ Cardinality(H) \in 0..Cardinality(Assets)
BY AssetsAssumption, FS_Subset, FS_CardinalityType

LEMMA HandlesCount ==
    /\ IsFiniteSet(Handles)
    /\ Cardinality(Handles) \in 0..Cardinality(Assets)
    /\ IsFiniteSet(Assets) /\ Cardinality(Assets) \in Nat
<1>1. Handles \subseteq Assets
  BY DEF Handles
<1>2. QED
  BY <1>1, AssetsAssumption, FS_Subset, FS_CardinalityType

LEMMA AssetInitInv == AssetInit => AssetInv
<1> SUFFICES ASSUME AssetInit
             PROVE  AssetInv
  OBVIOUS
<1>1. Handles = {}
  BY DEF AssetInit, Handles, Opened
<1>2. active = Cardinality(Handles)
  BY <1>1, FS_EmptySet DEF AssetInit
<1>3. AssetTypeOK
  <2>1. asset \in [Assets -> [state : {"closed", "opened", "descriptor"}, size : 0..MaxSize,
                             bytesRead : 0..MaxSeek]]
    BY SizesAssumption DEF AssetInit
  <2>2. QED
    BY <1>2, <2>1, HandlesCount, SizesAssumption DEF AssetInit, AssetTypeOK, NoRequest
<1>4. QED
  BY <1>2, <1>3 DEF AssetInit, AssetInv, Opened, NeverBeyondEnd

(* Opening and closing move one handle in or out of the count. *)
LEMMA HandleOpens ==
    ASSUME NEW a \in Assets, ~Opened(a), Handles' = Handles \cup {a}
    PROVE  Cardinality(Handles') = Cardinality(Handles) + 1
BY HandlesCount, FS_AddElement DEF Handles

LEMMA HandleCloses ==
    ASSUME NEW a \in Assets, Opened(a), Handles' = Handles \ {a}
    PROVE  Cardinality(Handles') = Cardinality(Handles) - 1
BY HandlesCount, FS_RemoveElement DEF Handles

(* A call that leaves the state of every handle as it is. *)
LEMMA HandlesStay ==
    ASSUME \A a \in Assets : asset'[a].state = asset[a].state
    PROVE  Handles' = Handles
BY DEF Handles, Opened

LEMMA AssetStepInv ==
    ASSUME AssetInv, [AssetNext]_assetVars
    PROVE  AssetInv'
<1> USE SizesAssumption DEF AssetInv, AssetTypeOK, NeverBeyondEnd, NoRequest
<1>0. /\ Cardinality(Handles) \in 0..Cardinality(Assets) /\ Cardinality(Assets) \in Nat
      /\ Cardinality(Handles') \in 0..Cardinality(Assets)
  <2>1. Handles \subseteq Assets /\ Handles' \subseteq Assets
    BY DEF Handles
  <2>2. QED
    BY <2>1, HandlesBounded, AssetsAssumption, FS_CardinalityType
<1>1. CASE UNCHANGED assetVars
  <2>1. Handles' = Handles
    BY <1>1, HandlesStay DEF assetVars
  <2>2. QED
    BY <1>0, <1>1, <2>1 DEF assetVars, Opened
<1>2. ASSUME NEW a \in Assets, NEW n \in 0..MaxSize, OpenAsset(a, n)
      PROVE  AssetInv'
  <2>1. Handles' = Handles \cup {a} /\ ~Opened(a)
    BY <1>2 DEF OpenAsset, Handles, Opened
  <2>2. active' = Cardinality(Handles')
    BY <1>2, <2>1, HandleOpens DEF OpenAsset
  <2>3. QED
    BY <1>0, <1>2, <2>2 DEF OpenAsset, Opened
<1>3. ASSUME NEW a \in Assets,
             \/ \E n \in 0..MaxCount : ReadNothing(a, n)
             \/ SeekFails(a) \/ GetRemainingLength(a) \/ GetLength(a)
      PROVE  AssetInv'
  <2>1. Handles' = Handles
    BY <1>3, HandlesStay DEF ReadNothing, SeekFails, GetRemainingLength, GetLength
  <2>2. UNCHANGED <<asset, stream, active, request>>
    BY <1>3 DEF ReadNothing, SeekFails, GetRemainingLength, GetLength
  <2>3. returned' \in -MaxSeek..MaxSeek
    BY <1>3 DEF ReadNothing, SeekFails, GetRemainingLength, GetLength, Opened
  <2>4. QED
    BY <1>0, <2>1, <2>2, <2>3 DEF Opened
<1>4. ASSUME NEW a \in Assets, NEW n \in 0..MaxCount, NEW got \in 0..n, ReadAsset(a, n, got)
      PROVE  AssetInv'
  <2>1. /\ stream[a] = asset[a].bytesRead /\ asset[a].size \in 0..MaxSize
        /\ stream[a] < asset[a].size
    BY <1>4 DEF ReadAsset, Opened
  <2>2. stream[a] + got \in 0..MaxSeek /\ got \in 0..MaxSeek
    BY <1>4, <2>1 DEF ReadAsset, Clamped, Least
  <2>3. /\ request' = [from |-> stream[a], count |-> Clamped(a, n), size |-> asset[a].size]
        /\ Clamped(a, n) \in 1..MaxCount
        /\ stream[a] + Clamped(a, n) <= asset[a].size
    BY <1>4, <2>1 DEF ReadAsset, Clamped, Least
  <2>4. Handles' = Handles
    BY <1>4, HandlesStay DEF ReadAsset
  <2>5. returned' \in -MaxSeek..MaxSeek
    BY <1>4, <2>2 DEF ReadAsset
  <2>6. /\ asset' = [asset EXCEPT ![a].bytesRead = stream[a] + got]
        /\ stream' = [stream EXCEPT ![a] = stream[a] + got] /\ active' = active
    BY <1>4, <2>1 DEF ReadAsset
  <2>7. AssetTypeOK'
    BY <1>0, <2>1, <2>2, <2>3, <2>5, <2>6
  <2>8. \A b \in Assets : Opened(b)' => asset'[b].bytesRead = stream'[b]
    BY <2>2, <2>6 DEF Opened
  <2>9. NeverBeyondEnd'
    BY <2>1, <2>3
  <2>10. QED
    BY <2>4, <2>6, <2>7, <2>8, <2>9
<1>5. ASSUME NEW a \in Assets, NEW offset \in -MaxSeek..MaxSeek, NEW origin \in Origins(a),
             SeekAsset(a, origin, offset)
      PROVE  AssetInv'
  <2>1. stream'[a] \in 0..MaxSeek
    BY <1>5 DEF SeekAsset, Origins
  <2>2. Handles' = Handles
    BY <1>5, HandlesStay DEF SeekAsset
  <2>3. QED
    BY <1>0, <1>5, <2>1, <2>2 DEF SeekAsset, Opened
<1>6. ASSUME NEW a \in Assets, OpenFileDescriptor(a) \/ CloseAsset(a)
      PROVE  AssetInv'
  <2>1. \A b \in Assets : Opened(b)' <=> b # a /\ Opened(b)
    BY <1>6 DEF OpenFileDescriptor, CloseAsset, Opened
  <2>2. Handles' = Handles \ {a}
    BY <2>1 DEF Handles
  <2>3. active' = IF Opened(a) THEN active - 1 ELSE active
    BY <1>6 DEF OpenFileDescriptor, CloseAsset
  <2>4. active' = Cardinality(Handles')
    <3>1. CASE Opened(a)
      BY <2>2, <2>3, <3>1, HandleCloses
    <3>2. CASE ~Opened(a)
      <4>1. Handles' = Handles
        BY <2>2, <3>2 DEF Handles
      <4>2. QED
        BY <2>3, <3>2, <4>1
    <3>3. QED
      BY <3>1, <3>2
  <2>5. /\ asset' \in [Assets -> [state : {"closed", "opened", "descriptor"},
                                  size : 0..MaxSize, bytesRead : 0..MaxSeek]]
        /\ stream' \in [Assets -> 0..MaxSeek]
        /\ \A b \in Assets : b # a => asset'[b] = asset[b] /\ stream'[b] = stream[b]
    BY <1>6 DEF OpenFileDescriptor, CloseAsset
  <2>6. request' = request /\ returned' \in -MaxSeek..MaxSeek
    BY <1>6 DEF OpenFileDescriptor, CloseAsset
  <2>7. QED
    BY <1>0, <2>1, <2>4, <2>5, <2>6
<1>7. QED
  BY <1>1, <1>2, <1>3, <1>4, <1>5, <1>6 DEF AssetNext

(* An asset never hands the stream a request that starts or ends beyond the *)
(* file, for any number of handles, sizes, seeks and short reads.           *)
THEOREM AssetsReadInside == AssetSpec => [](AssetTypeOK /\ NeverBeyondEnd)
<1>1. AssetInit => AssetInv
  BY AssetInitInv
<1>2. AssetInv /\ [AssetNext]_assetVars => AssetInv'
  BY AssetStepInv
<1>3. AssetInv => AssetTypeOK /\ NeverBeyondEnd
  BY DEF AssetInv
<1>4. QED
  BY <1>1, <1>2, <1>3, PTL DEF AssetSpec

-----------------------------------------------------------------------------
(* The pointer, phase by phase.  Until the sample a pointer that is down has  *)
(* its button held in `buttons`; from the sample to the release that is the   *)
(* button of the frame before; a finger that has just landed makes it give    *)
(* way before the sample.  `suppressed` outlives its button only as long as   *)
(* the release has not looked.                                                *)
BeforeSample == {"draw", "screen", "touch", "synthetic", "sample"}

PointerHeld ==
    cursorDown =>
        /\ ~suppressed /\ visible
        /\ phase # "synthetic" => finger = "none"
        /\ phase \in BeforeSample => TouchHeld(buttons)
        /\ phase \notin BeforeSample => TouchHeld(old)
        /\ phase \in {"select", "cursor"} => TouchHeld(buttons)

SuppressedHeld ==
    suppressed =>
        CASE phase \in BeforeSample \cup {"select", "cursor"} -> TouchHeld(buttons)
          [] phase = "circle" -> TouchHeld(old)
          [] OTHER -> TouchHeld(old) \/ TouchHeld(buttons)

PointerInv ==
    /\ PadTypeOK
    /\ gamePointer = IF cursorDown THEN "down" ELSE "up"
    /\ PointerHeld
    /\ SuppressedHeld

(* Start, phase by phase: the clock runs while `old`, between the sample and   *)
(* the handler, else `buttons`, holds the button; while it runs the press has  *)
(* led to nothing but the exit it has triggered.                               *)
StartInv ==
    /\ PadTypeOK
    /\ startHeld # Idle <=> "start" \in (IF phase \in {"circle", "start"} THEN old ELSE buttons)
    /\ startHeld # Idle => startOutcome = IF exitTriggered THEN "exit" ELSE "none"
    /\ startHeld = Idle => startOutcome \notin {"none", "twice"}

LEMMA StartStepType ==
    ASSUME PadTypeOK, gamePointer' \in {"up", "down", "broken"}, StartButton
    PROVE  PadTypeOK'
<1> USE HoldAssumption DEF PadTypeOK, viewVars
<1>1. startHeld' \in 0..Idle /\ exitTriggered' \in BOOLEAN
      /\ startOutcome' \in {"never", "none", "back", "exit", "twice"}
  <2>0. /\ \A k \in Later : k \in 0..Idle
        /\ 0 \in 0..Idle /\ Idle \in 0..Idle
        /\ exitTriggered \in BOOLEAN
    BY DEF Later, Idle
  <2>1. CASE StartPressed
    BY <2>0, <2>1 DEF StartPressed
  <2>2. CASE StartHolds
    BY <2>0, <2>2 DEF StartHolds, Decide
  <2>3. CASE StartReleased
    BY <2>0, <2>3 DEF StartReleased, Decide
  <2>4. CASE UNCHANGED holdVars
    BY <2>4 DEF holdVars
  <2>5. QED
    BY <2>1, <2>2, <2>3, <2>4 DEF StartButton
<1>2. /\ finger' \in {"none", "live", "suppressed"}
      /\ {cursorDown', suppressed'} \subseteq BOOLEAN
  BY DEF StartButton, StartPressed, StartHolds, StartReleased, cursorVars, CancelAll,
         CancelFinger, CancelCursor, SuppressHeld, TouchHeld
<1>3. phase' = "release"
      /\ UNCHANGED <<activity, settings, old, buttons, viewVars, circleSentBack, lowGraphics>>
  BY DEF StartButton, Turn
<1>4. QED
  BY <1>1, <1>2, <1>3

(* The pointer's inductive invariant and the hold's are kept by the phases of  *)
(* the frame one by one; only the type invariant is common to them.            *)
LEMMA PadStepType ==
    ASSUME PadTypeOK, gamePointer' \in {"up", "down", "broken"}, [PadNext]_padVars
    PROVE  PadTypeOK'
<1> USE HoldAssumption DEF PadTypeOK, touchInVars, cursorVars, viewVars, holdVars
<1>1. CASE UNCHANGED padVars
  BY <1>1 DEF padVars
<1>2. ASSUME NEW s \in BOOLEAN, NEW c \in BOOLEAN, ScreenChange(s, c)
      PROVE  PadTypeOK'
  BY <1>2 DEF ScreenChange, Turn, CancelAll, CancelFinger, CancelCursor, SuppressHeld, TouchHeld
<1>3. CASE SameScreen
  BY <1>3 DEF SameScreen, Turn
<1>4. ASSUME NEW now \in {"none", "live", "suppressed"}, NEW tap \in BOOLEAN,
             FrontTouch(now, tap)
      PROVE  PadTypeOK'
  BY <1>4 DEF FrontTouch, Turn
<1>5. CASE CancelSynthetic
  BY <1>5 DEF CancelSynthetic, Turn, CancelCursor, GivesWay
<1>6. CASE PadSampleFails
  BY <1>6 DEF PadSampleFails, Turn
<1>7. ASSUME NEW now \in SUBSET Buttons, PadSample(now)
      PROVE  PadTypeOK'
  BY <1>7 DEF PadSample, Turn
<1>8. CASE CircleButton
  BY <1>8 DEF CircleButton, Turn, CancelAll, CancelFinger, CancelCursor, SuppressHeld,
              TouchHeld, Cancels, Released
<1>9. CASE StartButton
  BY <1>9, StartStepType
<1>10. CASE Release
  BY <1>10 DEF Release, Turn, TouchHeld, Marked
<1>11. CASE SelectButton
  BY <1>11 DEF SelectButton, Turn, CancelAll, CancelFinger, CancelCursor, SuppressHeld, TouchHeld
<1>12. ASSUME NEW tile \in BOOLEAN, NEW moved \in BOOLEAN, NEW stirred \in BOOLEAN,
             Cursor(tile, moved, stirred)
       PROVE  PadTypeOK'
  BY <1>12 DEF Cursor, Turn, Press, MayTouch, TouchHeld, Marked
<1>13. ASSUME NEW timedOut \in BOOLEAN, DrawCursor(timedOut)
       PROVE  PadTypeOK'
  BY <1>13 DEF DrawCursor, Turn
<1>14. QED
  BY <1>1, <1>2, <1>3, <1>4, <1>5, <1>6, <1>7, <1>8, <1>9, <1>10, <1>11, <1>12, <1>13
  DEF PadNext

(* Cancelling everything lifts the pointer and swallows what is held.         *)
LEMMA CancelAllLifts ==
    ASSUME PadTypeOK, gamePointer = IF cursorDown THEN "down" ELSE "up", CancelAll
    PROVE  /\ gamePointer' = "up" /\ cursorDown' = FALSE
           /\ suppressed' = (suppressed \/ TouchHeld(buttons))
BY DEF PadTypeOK, CancelAll, CancelFinger, CancelCursor, SuppressHeld, Send

LEMMA PointerStepInv ==
    ASSUME PointerInv, [PadNext]_padVars
    PROVE  PointerInv'
<1> DEFINE Agree == gamePointer = IF cursorDown THEN "down" ELSE "up"
<1> USE DEF PointerHeld, SuppressedHeld, BeforeSample, viewVars
<1>0. PadTypeOK /\ Agree /\ PointerHeld /\ SuppressedHeld
  BY DEF PointerInv
<1>t. {cursorDown, suppressed} \subseteq BOOLEAN
  BY <1>0 DEF PadTypeOK
<1>1. CASE UNCHANGED padVars
  BY <1>0, <1>1, PadStepType DEF padVars, PadTypeOK, cursorVars, touchInVars, PointerInv
<1>2. ASSUME NEW s \in BOOLEAN, NEW c \in BOOLEAN, ScreenChange(s, c)
      PROVE  Agree' /\ PointerHeld' /\ SuppressedHeld'
  <2>1. phase = "screen" /\ phase' = "touch" /\ UNCHANGED <<old, buttons, viewVars>>
    BY <1>2 DEF ScreenChange, Turn
  <2>2. \/ CancelAll
        \/ UNCHANGED <<finger, cursorVars>>
    BY <1>2 DEF ScreenChange
  <2>3. CASE CancelAll
    BY <1>0, <1>t, <2>1, <2>3, CancelAllLifts
  <2>4. QED
    BY <1>0, <2>1, <2>2, <2>3 DEF cursorVars
<1>3. ASSUME SameScreen
      PROVE  Agree' /\ PointerHeld' /\ SuppressedHeld'
  BY <1>0, <1>3 DEF SameScreen, Turn, touchInVars, cursorVars
<1>4. ASSUME NEW now \in {"none", "live", "suppressed"}, NEW tap \in BOOLEAN,
             FrontTouch(now, tap)
      PROVE  Agree' /\ PointerHeld' /\ SuppressedHeld'
  BY <1>0, <1>4 DEF FrontTouch, Turn, cursorVars
<1>5. ASSUME CancelSynthetic
      PROVE  Agree' /\ PointerHeld' /\ SuppressedHeld'
  BY <1>0, <1>t, <1>5 DEF CancelSynthetic, Turn, CancelCursor, GivesWay, Send, touchInVars
<1>6. ASSUME PadSampleFails
      PROVE  Agree' /\ PointerHeld' /\ SuppressedHeld'
  BY <1>0, <1>6 DEF PadSampleFails, Turn, touchInVars, cursorVars
<1>7. ASSUME NEW now \in SUBSET Buttons, PadSample(now)
      PROVE  Agree' /\ PointerHeld' /\ SuppressedHeld'
  BY <1>0, <1>7 DEF PadSample, Turn, touchInVars, cursorVars
<1>8. ASSUME CircleButton
      PROVE  Agree' /\ PointerHeld' /\ SuppressedHeld'
  <2>1. phase = "circle" /\ phase' = "start" /\ UNCHANGED <<old, buttons, viewVars>>
    BY <1>8 DEF CircleButton, Turn
  <2>2. CancelAll \/ UNCHANGED <<finger, cursorVars>>
    BY <1>8 DEF CircleButton
  <2>3. CASE CancelAll
    BY <1>0, <1>t, <2>1, <2>3, CancelAllLifts
  <2>4. QED
    BY <1>0, <2>1, <2>2, <2>3 DEF cursorVars
<1>9. ASSUME StartButton
      PROVE  Agree' /\ PointerHeld' /\ SuppressedHeld'
  <2>1. phase = "start" /\ phase' = "release" /\ UNCHANGED <<old, buttons, viewVars>>
    BY <1>9 DEF StartButton, Turn
  <2>2. CancelAll \/ UNCHANGED <<finger, cursorVars>>
    BY <1>9 DEF StartButton, StartPressed, StartHolds, StartReleased
  <2>3. CASE CancelAll
    BY <1>0, <1>t, <2>1, <2>3, CancelAllLifts
  <2>4. QED
    BY <1>0, <2>1, <2>2, <2>3 DEF cursorVars
<1>10. ASSUME Release
      PROVE  Agree' /\ PointerHeld' /\ SuppressedHeld'
  BY <1>0, <1>t, <1>10 DEF Release, Turn, Send, Marked, touchInVars
<1>11. ASSUME SelectButton
      PROVE  Agree' /\ PointerHeld' /\ SuppressedHeld'
  <2>1. phase = "select" /\ phase' = "cursor" /\ UNCHANGED <<old, buttons, viewVars>>
    BY <1>11 DEF SelectButton, Turn
  <2>2. CancelAll \/ UNCHANGED <<finger, cursorVars>>
    BY <1>11 DEF SelectButton
  <2>3. CASE CancelAll
    BY <1>0, <1>t, <2>1, <2>3, CancelAllLifts
  <2>4. QED
    BY <1>0, <2>1, <2>2, <2>3 DEF cursorVars
<1>12. ASSUME NEW tile \in BOOLEAN, NEW moved \in BOOLEAN, NEW stirred \in BOOLEAN,
             Cursor(tile, moved, stirred)
       PROVE  Agree' /\ PointerHeld' /\ SuppressedHeld'
  <2>1. phase = "cursor" /\ phase' = "draw" /\ UNCHANGED <<old, buttons, finger>>
    BY <1>12 DEF Cursor, Turn, touchInVars
  <2>2. CASE TouchHeld(buttons) /\ ~TouchHeld(old)
    <3>1. ~cursorDown /\ gamePointer = "up" /\ Press(tile) /\ visible' = TRUE
      BY <1>0, <1>12, <2>1, <2>2 DEF Cursor, Marked
    <3>2. CASE settings /\ tile
      BY <2>1, <2>2, <3>1, <3>2 DEF Press
    <3>3. CASE ~(settings /\ tile)
      BY <2>1, <2>2, <3>1, <3>3 DEF Press, MayTouch, Send
    <3>4. QED
      BY <3>2, <3>3
  <2>3. CASE ~(TouchHeld(buttons) /\ ~TouchHeld(old))
    <3>1. /\ suppressed' = (suppressed /\ TouchHeld(buttons)) /\ cursorDown' = cursorDown
          /\ gamePointer' = gamePointer \/ (cursorDown /\ Send("move"))
          /\ visible => visible'
      BY <1>12, <2>3 DEF Cursor
    <3>2. Agree'
      BY <1>0, <1>t, <3>1 DEF Send
    <3>3. QED
      BY <1>0, <1>t, <2>1, <3>1, <3>2
  <2>4. QED
    BY <2>2, <2>3
<1>13. ASSUME NEW timedOut \in BOOLEAN, DrawCursor(timedOut)
       PROVE  Agree' /\ PointerHeld' /\ SuppressedHeld'
  BY <1>0, <1>13 DEF DrawCursor, MayHide, Turn, touchInVars, cursorVars
<1>14. CASE PadNext
  <2>1. Agree' /\ PointerHeld' /\ SuppressedHeld'
    BY <1>14, <1>2, <1>3, <1>4, <1>5, <1>6, <1>7, <1>8, <1>9, <1>10, <1>11, <1>12, <1>13
    DEF PadNext
  <2>2. PadTypeOK'
    BY <1>0, <1>14, <2>1, PadStepType
  <2>3. QED
    BY <2>1, <2>2 DEF PointerInv
<1>15. QED
  BY <1>1, <1>14

(* Each phase that leaves the hold alone leaves its invariant alone.          *)
LEMMA StartStepInv ==
    ASSUME StartInv, PadTypeOK', [PadNext]_padVars
    PROVE  StartInv'
<1> USE HoldAssumption DEF StartInv, Idle
<1>0. startHeld \in Nat /\ exitTriggered \in BOOLEAN /\ HoldFrames \in Nat
  BY DEF PadTypeOK
<1>1. CASE UNCHANGED padVars
  BY <1>1 DEF padVars, holdVars
<1>2. ASSUME \/ \E s, c \in BOOLEAN : ScreenChange(s, c)
             \/ SameScreen
             \/ \E now \in {"none", "live", "suppressed"}, tap \in BOOLEAN :
                    FrontTouch(now, tap)
             \/ CancelSynthetic \/ PadSampleFails \/ Release \/ SelectButton
             \/ \E tile, moved, stirred \in BOOLEAN : Cursor(tile, moved, stirred)
             \/ \E timedOut \in BOOLEAN : DrawCursor(timedOut)
      PROVE  StartInv'
  <2>1. /\ phase \notin {"circle", "start"} /\ phase' \notin {"circle", "start"}
        /\ UNCHANGED <<buttons, holdVars>>
    BY <1>2 DEF ScreenChange, SameScreen, FrontTouch, CancelSynthetic, PadSampleFails,
                Release, SelectButton, Cursor, DrawCursor, Turn
  <2>2. QED
    BY <2>1 DEF holdVars
<1>3. ASSUME NEW now \in SUBSET Buttons, PadSample(now)
      PROVE  StartInv'
  BY <1>3 DEF PadSample, Turn, holdVars
<1>4. CASE CircleButton
  BY <1>4 DEF CircleButton, Turn, holdVars
<1>5. CASE StartButton
  <2>1. phase = "start" /\ phase' = "release" /\ UNCHANGED <<old, buttons>>
    BY <1>5 DEF StartButton, Turn
  <2>2. CASE StartPressed
    BY <2>1, <2>2 DEF StartPressed, Pressed
  <2>3. CASE StartHolds
    <3>1. "start" \in buttons /\ "start" \in old /\ startHeld' \in 0..HoldFrames
      BY <2>3 DEF StartHolds, Pressed, Later
    <3>2. startOutcome' = IF exitTriggered' THEN "exit" ELSE "none"
      BY <1>0, <2>1, <2>3, <3>1 DEF StartHolds, Decide
    <3>3. QED
      BY <2>1, <3>1, <3>2
  <2>4. CASE StartReleased
    <3>1. "start" \in old /\ "start" \notin buttons /\ startHeld' = Idle
      BY <2>4 DEF StartReleased, Released
    <3>2. startOutcome' \in {"exit", "back"}
      BY <1>0, <2>1, <2>4, <3>1 DEF StartReleased, Decide
    <3>3. QED
      BY <2>1, <3>1, <3>2
  <2>5. CASE "start" \notin buttons \cup old /\ UNCHANGED holdVars
    BY <2>1, <2>5 DEF holdVars
  <2>6. QED
    BY <1>5, <2>2, <2>3, <2>4, <2>5 DEF StartButton
<1>6. QED
  BY <1>1, <1>2, <1>3, <1>4, <1>5 DEF PadNext

LEMMA PadInitInv == PadInit => PointerInv /\ StartInv
<1> SUFFICES ASSUME PadInit
             PROVE  PointerInv /\ StartInv
  OBVIOUS
<1>1. PadTypeOK
  <2>1. startHeld \in 0..Idle
    BY HoldAssumption DEF PadInit, Idle
  <2>2. QED
    BY <2>1 DEF PadInit, PadTypeOK
<1>2. QED
  BY <1>1 DEF PadInit, PointerInv, StartInv, PointerHeld, SuppressedHeld, Idle

(* The synthetic pointer is never stuck and the engine never gets an event of   *)
(* it out of order, for any length of the hold and any number of buttons.       *)
THEOREM PadPointerIsSound == PadSpec => []PadPointerSound
<1>1. PadInit => PointerInv
  BY PadInitInv
<1>2. PointerInv /\ [PadNext]_padVars => PointerInv'
  BY PointerStepInv
<1>3. PointerInv => PadPointerSound
  BY DEF PointerInv, PointerHeld, SuppressedHeld, PadPointerSound, BeforeSample
<1>4. QED
  BY <1>1, <1>2, <1>3, PTL DEF PadSpec

(* One press of Start has one outcome, however long a frame lasts.              *)
THEOREM StartHasOneOutcome == PadSpec => []StartDecidesOnce
<1>1. PadInit => PointerInv /\ StartInv
  BY PadInitInv
<1>2. PointerInv /\ StartInv /\ [PadNext]_padVars => PointerInv' /\ StartInv'
  BY PointerStepInv, StartStepInv DEF PointerInv
<1>3. StartInv => StartDecidesOnce
  BY DEF StartInv, StartDecidesOnce
<1>4. QED
  BY <1>1, <1>2, <1>3, PTL DEF PadSpec

-----------------------------------------------------------------------------
(* Without a loss of power an answer of the picker that is still on its way,   *)
(* in memory or in the file, has not booted anything yet, and once it is being *)
(* decided upon the file no longer holds it.                                   *)
PickInv ==
    /\ used \subseteq 1..picks
    /\ requestedBy <= picks /\ choice.seen.pick <= picks /\ choice.card.pick <= picks
    /\ proc \in {"create", "write", "exec"} => requested \in Versions
    /\ losses = 0 =>
        /\ ~twice
        /\ choice.seen.pick \notin used
        /\ proc \in {"remove", "decide", "create", "write", "exec"} => requestedBy \notin used
        /\ proc = "decide" => choice.seen.pick = 0

(* What a version's file would be read as is what was asked for last, unless   *)
(* that save was spoilt; a save that is under way is spoilt until it ends.     *)
ReadAs(v) == config[v].seen.lines = 3 /\ config[v].seen.low

GraphicsInv ==
    /\ \A v \in Versions \ spoilt : ReadAs(v) = promised[v]
    /\ proc \in {"load", "settings", "link", "running", "save"} => requested \in Versions
    /\ proc = "save" => low = promised[requested] /\ requested \in spoilt
    /\ proc \in {"link", "running"} /\ requested \notin spoilt => low = promised[requested]

StartUpInv == StartUpTypeOK /\ PickInv /\ GraphicsInv

LEMMA StartUpInitInv == StartUpInit => StartUpInv
<1> SUFFICES ASSUME StartUpInit
             PROVE  StartUpInv
  OBVIOUS
<1> USE NoVersionAssumption, PicksAssumption DEF StartUpInit, Clean, NoFile, NoLines
<1>1. choice \in [seen : ChoiceContents, card : ChoiceContents]
  BY DEF ChoiceContents
<1>2. config \in [Versions -> [seen : ConfigContents, card : ConfigContents]]
  BY DEF ConfigContents
<1>3. StartUpTypeOK
  <2>1. /\ libraries \subseteq Versions /\ assets \subseteq Versions
        /\ genuine \subseteq libraries
        /\ promised \in [Versions -> BOOLEAN] /\ spoilt \subseteq Versions
    OBVIOUS
  <2>2. /\ requestedBy \in 0..MaxPicks /\ picks \in 0..MaxPicks
        /\ toggles \in 0..MaxToggles /\ losses \in 0..MaxLosses
    OBVIOUS
  <2>3. /\ proc = "off" /\ requested = NoVersion /\ low = FALSE /\ applied = FALSE
        /\ used = {} /\ twice = FALSE
    OBVIOUS
  <2> HIDE DEF StartUpInit
  <2>4. QED
    BY <1>1, <1>2, <2>1, <2>2, <2>3 DEF StartUpTypeOK
<1>4. PickInv
  BY DEF PickInv
<1>5. GraphicsInv
  BY DEF GraphicsInv, ReadAs
<1>6. QED
  BY <1>3, <1>4, <1>5 DEF StartUpInv

(* The steps that only move the process from one place to another, or change   *)
(* what is remembered in memory.                                               *)
Passing ==
    \/ Start \/ ReadChoice \/ OpenPicker \/ CancelPicker \/ Relaunch
    \/ \E readable \in BOOLEAN : Validate(readable) \/ InvalidData(readable)
    \/ LoadModule \/ LoadFails \/ LoadSettings \/ LinkModule \/ LinkFails \/ Quit

LEMMA LowIsRead ==
    ASSUME StartUpInv, NEW v \in Versions
    PROVE  Parsed(ConfigOf(v)) = ReadAs(v) /\ ReadAs(v) \in BOOLEAN
<1>1. config[v].seen \in ConfigContents
  BY DEF StartUpInv, StartUpTypeOK
<1>2. config[v].seen.low \in BOOLEAN
  BY <1>1 DEF ConfigContents
<1>3. QED
  BY <1>2 DEF Parsed, LowByDefault, ConfigOf, ReadAs

LEMMA PassingKeeps ==
    ASSUME StartUpInv, Passing
    PROVE  StartUpInv'
<1> USE NoVersionAssumption, PicksAssumption
<1> USE DEF Passing, Start, ReadChoice, OpenPicker, CancelPicker, Relaunch, Validate,
            InvalidData, Fatal, LoadModule, LoadFails, LoadSettings, LinkModule, LinkFails,
            Quit, Goto
<1>0. UNCHANGED <<installVars, choice, config, countVars, promiseVars>>
  BY DEF memoryVars
<1>1. UNCHANGED <<libraries, assets, genuine, choice, config, picks, toggles, losses, used, twice,
                  promised, spoilt>>
  BY <1>0 DEF installVars, countVars, promiseVars
<1>2. StartUpTypeOK'
  <2>1. /\ requested' \in Versions \cup {NoVersion}
        /\ requestedBy' \in 0..MaxPicks
    BY DEF memoryVars, StartUpInv, StartUpTypeOK, ChoiceContents
  <2>2. low' \in BOOLEAN /\ applied' \in BOOLEAN
    <3>1. CASE LoadSettings
      BY <3>1, LowIsRead DEF StartUpInv, GraphicsInv
    <3>2. CASE ~LoadSettings
      <4> HIDE DEF LoadSettings
      <4>1. QED
        BY <3>2 DEF memoryVars, StartUpInv, StartUpTypeOK
    <3>3. QED
      BY <3>1, <3>2
  <2>3. proc' \in {"off", "consume", "remove", "decide", "picker", "create", "write", "exec",
                   "validate", "load", "settings", "link", "running", "save"}
    OBVIOUS
  <2>4. QED
    BY <1>1, <2>1, <2>2, <2>3 DEF StartUpInv, StartUpTypeOK
<1>3. PickInv'
  <2>1. /\ used \subseteq 1..picks /\ picks \in Nat
        /\ choice.seen.pick \in Nat /\ choice.card.pick \in Nat
        /\ 0 \notin used
    BY DEF StartUpInv, PickInv, StartUpTypeOK, ChoiceContents
  <2>2. requestedBy' \in {requestedBy, 0, choice.seen.pick}
    BY DEF memoryVars
  <2>3. proc' \in {"remove", "decide", "create", "write", "exec"} =>
            proc' = "remove" /\ requestedBy' \in {0, choice.seen.pick}
    OBVIOUS
  <2>4. QED
    BY <1>1, <2>1, <2>2, <2>3 DEF StartUpInv, PickInv
<1>4. GraphicsInv'
  <2>1. proc' \in {"load", "settings", "link", "running", "save"} =>
            \/ proc' \in {"load", "settings"} /\ requested' \in Versions
            \/ /\ proc' = "link" /\ requested' = requested /\ requested \in Versions
               /\ low' = ReadAs(requested)
            \/ /\ proc = "link" /\ proc' = "running"
               /\ requested' = requested /\ requested \in Versions /\ low' = low
    <3>1. CASE LoadSettings
      BY <3>1, LowIsRead DEF StartUpInv, GraphicsInv
    <3>2. CASE ~LoadSettings
      <4> HIDE DEF LoadSettings
      <4>1. QED
        BY <3>2 DEF StartUpInv, StartUpTypeOK, GraphicsInv, Ready, memoryVars
    <3>3. QED
      BY <3>1, <3>2
  <2>2. QED
    BY <1>1, <2>1 DEF StartUpInv, GraphicsInv, ReadAs
<1>5. QED
  BY <1>2, <1>3, <1>4 DEF StartUpInv

(* The steps that change the choice file or answer it.                         *)
Choosing ==
    \/ RemoveChoice \/ UseChoice \/ OnlyOneSet \/ NoSet \/ RelaunchFails
    \/ \E v \in Versions : Pick(v)
    \/ \E created \in BOOLEAN : CreateChoice(created)
    \/ \E n \in 0..3 : WriteChoice(n)

LEMMA ChoosingKeeps ==
    ASSUME StartUpInv, Choosing
    PROVE  StartUpInv'
<1> USE NoVersionAssumption, PicksAssumption
<1>t. StartUpTypeOK /\ PickInv /\ GraphicsInv
  BY DEF StartUpInv
<1>0. /\ picks \in Nat /\ used \subseteq 1..picks /\ 0 \notin used
      /\ requestedBy \in 0..MaxPicks /\ requestedBy <= picks
  BY <1>t DEF StartUpTypeOK, PickInv
<1>1. /\ UNCHANGED <<libraries, assets, genuine, config, low, applied, toggles, losses, promised, spoilt>>
      /\ proc' \in {"off", "decide", "create", "write", "exec", "validate"}
  BY DEF Choosing, RemoveChoice, UseChoice, OnlyOneSet, NoSet, Select, RelaunchFails, Pick,
         CreateChoice, WriteChoice, Goto, installVars, memoryVars, countVars, promiseVars
<1>2. GraphicsInv'
  BY <1>1, <1>t DEF GraphicsInv, ReadAs
<1>3. ASSUME NEW c \in ChoiceContents, SetChoice(c)
      PROVE  /\ choice' \in [seen : ChoiceContents, card : ChoiceContents]
             /\ choice'.seen = c /\ choice'.card = choice.card
  BY <1>3, <1>t DEF SetChoice, StartUpTypeOK
<1>4. ASSUME NEW c \in ChoiceContents, SetChoice(c) \/ choice' = choice,
             c.pick <= picks, losses = 0 => c.pick \notin used,
             UNCHANGED <<requested, requestedBy, picks, used, twice>>,
             losses = 0 /\ proc' \in {"decide", "create", "write", "exec"} =>
                requestedBy \notin used,
             proc' \in {"create", "write", "exec"} => requested \in Versions,
             losses = 0 /\ proc' = "decide" => choice'.seen.pick = 0
      PROVE  StartUpInv'
  <2>1. StartUpTypeOK'
    BY <1>1, <1>3, <1>4, <1>t DEF StartUpTypeOK
  <2>2. choice'.seen.pick \in {choice.seen.pick, c.pick} /\ choice'.card.pick = choice.card.pick
    BY <1>3, <1>4
  <2>3. PickInv'
    BY <1>1, <1>4, <2>2, <1>t DEF PickInv
  <2>4. QED
    BY <1>2, <2>1, <2>3 DEF StartUpInv
<1>5. CASE RemoveChoice \/ RelaunchFails
  <2>1. NoFile \in ChoiceContents /\ NoFile.pick = 0
    BY DEF NoFile, ChoiceContents
  <2>2. /\ SetChoice(NoFile)
        /\ UNCHANGED <<requested, requestedBy, picks, used, twice>>
        /\ \/ proc = "remove" /\ proc' = "decide"
           \/ proc' = "off"
    BY <1>5 DEF RemoveChoice, RelaunchFails, Goto, memoryVars, countVars, promiseVars
  <2>3. choice'.seen.pick = 0
    BY <1>3, <2>1, <2>2
  <2>4. QED
    BY <1>0, <1>1, <1>4, <1>t, <2>1, <2>2, <2>3 DEF PickInv
<1>6. ASSUME NEW created \in BOOLEAN, CreateChoice(created)
      PROVE  StartUpInv'
  <2> DEFINE c == [text |-> "empty", pick |-> requestedBy]
  <2>1. c \in ChoiceContents /\ c.pick = requestedBy
    BY <1>0 DEF ChoiceContents
  <2>2. /\ SetChoice(c) \/ choice' = choice
        /\ UNCHANGED <<requested, requestedBy, picks, used, twice>>
        /\ proc = "create" /\ proc' \in {"off", "write"}
    BY <1>6 DEF CreateChoice, Goto, memoryVars, countVars, promiseVars
  <2> HIDE DEF c
  <2>3. QED
    BY <1>0, <1>4, <1>t, <2>1, <2>2 DEF PickInv
<1>7. ASSUME NEW n \in 0..3, WriteChoice(n)
      PROVE  StartUpInv'
  <2> DEFINE c == [text |-> requested, pick |-> requestedBy]
  <2>1. c \in ChoiceContents /\ c.pick = requestedBy
    BY <1>0, <1>7, <1>t DEF ChoiceContents, WriteChoice, Goto, PickInv
  <2>2. /\ SetChoice(c) \/ choice' = choice
        /\ UNCHANGED <<requested, requestedBy, picks, used, twice>>
        /\ proc = "write" /\ proc' \in {"off", "exec"}
    BY <1>7 DEF WriteChoice, Goto, memoryVars, countVars, promiseVars
  <2> HIDE DEF c
  <2>3. QED
    BY <1>0, <1>4, <1>t, <2>1, <2>2 DEF PickInv
<1>8. ASSUME NEW v \in Versions, NEW pick \in {0, requestedBy}, Select(v, pick)
      PROVE  StartUpInv'
  <2>1. /\ proc = "decide" /\ proc' = "validate" /\ requested' = v
        /\ used' = IF pick = 0 THEN used ELSE used \cup {pick}
        /\ twice' = (twice \/ pick \in used)
        /\ UNCHANGED <<requestedBy, choice, picks, losses>>
    BY <1>8 DEF Select, Goto, countVars
  <2>2. StartUpTypeOK'
    BY <1>0, <1>1, <1>8, <2>1, <1>t DEF StartUpTypeOK
  <2>3. /\ used' \subseteq 1..picks
        /\ losses = 0 => requestedBy \notin used /\ ~twice /\ choice.seen.pick = 0
    <3>1. used' \subseteq 1..picks
      BY <1>0, <1>8, <2>1
    <3>2. losses = 0 => requestedBy \notin used /\ ~twice /\ choice.seen.pick = 0
      BY <2>1, <1>t DEF PickInv
    <3>3. QED
      BY <3>1, <3>2
  <2>4. losses = 0 => pick \notin used
    BY <1>0, <1>8, <2>3
  <2>5. PickInv'
    <3>1. /\ 0 \notin used' /\ losses' = losses
          /\ losses = 0 => ~twice'
      BY <1>0, <2>1, <2>3, <2>4, <1>8
    <3>2. /\ requestedBy' <= picks' /\ choice'.seen.pick <= picks' /\ choice'.card.pick <= picks'
          /\ used' \subseteq 1..picks'
      BY <2>1, <2>3, <1>t DEF PickInv
    <3>3. losses' = 0 => choice'.seen.pick \notin used'
      BY <2>1, <2>3, <3>1
    <3>4. proc' = "validate"
      BY <2>1
    <3>5. QED
      BY <3>1, <3>2, <3>3, <3>4 DEF PickInv
  <2>6. QED
    BY <1>2, <2>2, <2>5 DEF StartUpInv
<1>9. ASSUME NEW v \in Versions, Pick(v)
      PROVE  StartUpInv'
  <2>1. /\ proc' = "create" /\ requested' = v /\ requestedBy' = picks + 1
        /\ picks' = picks + 1 /\ picks < MaxPicks
        /\ UNCHANGED <<choice, used, twice>>
    BY <1>9 DEF Pick, Goto, promiseVars
  <2>2. StartUpTypeOK'
    BY <1>0, <1>1, <2>1, <1>t DEF StartUpTypeOK
  <2>3. /\ choice.seen.pick \in Nat /\ choice.card.pick \in Nat
    BY <1>t DEF StartUpTypeOK, ChoiceContents
  <2>4. PickInv'
    BY <1>0, <1>1, <2>1, <2>3, <1>t DEF PickInv
  <2>5. QED
    BY <1>2, <2>2, <2>4 DEF StartUpInv
<1>10. QED
  <2>1. UseChoice => requested \in Versions
    BY <1>t DEF UseChoice, StartUpTypeOK
  <2>2. "3.37" \in Versions
    BY DEF Versions
  <2>3. QED
    BY <1>5, <1>6, <1>7, <1>8, <1>9, <2>1, <2>2 DEF Choosing, UseChoice, OnlyOneSet, NoSet

(* The steps that write config.txt, and those of the card.                     *)
LEMMA ToggleKeeps ==
    ASSUME StartUpInv, NEW created \in BOOLEAN, Toggle(created)
    PROVE  StartUpInv'
<1> USE PicksAssumption
<1>t. StartUpTypeOK /\ PickInv /\ GraphicsInv
  BY DEF StartUpInv
<1>1. /\ requested \in Versions /\ proc' \in {"save", "running"}
      /\ toggles' \in 0..MaxToggles /\ low' = ~low
      /\ promised' = [promised EXCEPT ![requested] = low']
      /\ spoilt' = spoilt \cup {requested}
      /\ SetConfig(requested, NoLines) \/ config' = config
      /\ UNCHANGED <<libraries, assets, genuine, requested, requestedBy, applied, choice, picks, losses,
                     used, twice>>
  BY <1>t DEF Toggle, Goto, installVars, StartUpTypeOK, GraphicsInv
<1>2. /\ config' \in [Versions -> [seen : ConfigContents, card : ConfigContents]]
      /\ \A v \in Versions \ {requested} : config'[v] = config[v]
  <2>1. NoLines \in ConfigContents
    BY DEF ConfigContents, NoLines
  <2>2. QED
    BY <1>t, <1>1, <2>1 DEF SetConfig, StartUpTypeOK
<1>3. StartUpTypeOK'
  BY <1>t, <1>1, <1>2 DEF StartUpTypeOK
<1>4. PickInv'
  BY <1>t, <1>1 DEF PickInv
<1>5. GraphicsInv'
  BY <1>t, <1>1, <1>2 DEF GraphicsInv, ReadAs, StartUpTypeOK
<1>6. QED
  BY <1>3, <1>4, <1>5 DEF StartUpInv

LEMMA FinishSaveKeeps ==
    ASSUME StartUpInv, NEW n \in 0..3, FinishSave(n)
    PROVE  StartUpInv'
<1>t. StartUpTypeOK /\ PickInv /\ GraphicsInv
  BY DEF StartUpInv
<1>1. /\ requested \in Versions /\ proc = "save" /\ proc' = "running"
      /\ SetConfig(requested, [lines |-> n, low |-> low])
      /\ spoilt' = IF n = 3 THEN spoilt \ {requested} ELSE spoilt
      /\ UNCHANGED <<libraries, assets, genuine, requested, requestedBy, low, applied, choice, picks,
                     toggles, losses, used, twice, promised>>
  BY <1>t DEF FinishSave, Goto, installVars, memoryVars, countVars, GraphicsInv
<1>2. [lines |-> n, low |-> low] \in ConfigContents
  BY <1>t DEF StartUpTypeOK, ConfigContents
<1>3. /\ config' \in [Versions -> [seen : ConfigContents, card : ConfigContents]]
      /\ \A v \in Versions \ {requested} : config'[v] = config[v]
      /\ config'[requested].seen = [lines |-> n, low |-> low]
  BY <1>t, <1>1, <1>2 DEF SetConfig, StartUpTypeOK
<1>4. StartUpTypeOK'
  BY <1>t, <1>1, <1>3 DEF StartUpTypeOK
<1>5. PickInv'
  BY <1>t, <1>1 DEF PickInv
<1>6. ReadAs(requested)' <=> n = 3 /\ low
  BY <1>1, <1>3 DEF ReadAs
<1>7. GraphicsInv'
  BY <1>t, <1>1, <1>3, <1>6 DEF GraphicsInv, ReadAs, StartUpTypeOK
<1>8. QED
  BY <1>4, <1>5, <1>7 DEF StartUpInv

LEMMA CardKeeps ==
    ASSUME StartUpInv, WriteBack \/ PowerLoss
    PROVE  StartUpInv'
<1> USE PicksAssumption DEF Clean
<1>t. StartUpTypeOK /\ PickInv /\ GraphicsInv
  BY DEF StartUpInv
<1>1. CASE WriteBack
  <2>1. /\ UNCHANGED <<proc, libraries, assets, genuine, requested, requestedBy, low, applied, picks,
                       toggles, losses, used, twice, promised, spoilt>>
        /\ choice' \in [seen : ChoiceContents, card : ChoiceContents]
        /\ choice'.seen = choice.seen /\ choice'.card \in {choice.card, choice.seen}
    BY <1>t, <1>1 DEF WriteBack, installVars, memoryVars, countVars, promiseVars, StartUpTypeOK
  <2>2. /\ config' \in [Versions -> [seen : ConfigContents, card : ConfigContents]]
        /\ \A v \in Versions : config'[v].seen = config[v].seen
    BY <1>t, <1>1 DEF WriteBack, StartUpTypeOK
  <2>3. StartUpTypeOK'
    BY <1>t, <2>1, <2>2 DEF StartUpTypeOK
  <2>4. PickInv'
    BY <1>t, <2>1 DEF PickInv
  <2>5. GraphicsInv'
    BY <1>t, <2>1, <2>2 DEF GraphicsInv, ReadAs
  <2>6. QED
    BY <2>3, <2>4, <2>5 DEF StartUpInv
<1>2. CASE PowerLoss
  <2>1. /\ UNCHANGED <<libraries, assets, genuine, requested, requestedBy, low, applied, picks, toggles,
                       used, twice, promised>>
        /\ proc' = "off" /\ losses' = losses + 1 /\ losses' \in 0..MaxLosses /\ losses' # 0
        /\ choice' = [seen |-> choice.card, card |-> choice.card]
        /\ config' = [v \in Versions |-> [seen |-> config[v].card, card |-> config[v].card]]
        /\ spoilt' = spoilt \cup {v \in Versions : config[v].card # config[v].seen}
    BY <1>t, <1>2 DEF PowerLoss, installVars, memoryVars, StartUpTypeOK
  <2>2. StartUpTypeOK'
    BY <1>t, <2>1 DEF StartUpTypeOK
  <2>3. PickInv'
    BY <1>t, <2>1 DEF PickInv
  <2>4. GraphicsInv'
    BY <1>t, <2>1 DEF GraphicsInv, ReadAs
  <2>5. QED
    BY <2>2, <2>3, <2>4 DEF StartUpInv
<1>3. QED
  BY <1>1, <1>2

LEMMA StartUpStepInv ==
    ASSUME StartUpInv, [StartUpNext]_startVars
    PROVE  StartUpInv'
<1>1. CASE UNCHANGED startVars
  BY <1>1 DEF startVars, installVars, memoryVars, countVars, promiseVars, StartUpInv,
              StartUpTypeOK, PickInv, GraphicsInv, ReadAs
<1>2. CASE StartUpNext
  <2>1. \/ Passing \/ Choosing \/ WriteBack \/ PowerLoss
        \/ \E created \in BOOLEAN : Toggle(created)
        \/ \E n \in 0..3 : FinishSave(n)
    BY <1>2 DEF StartUpNext, Passing, Choosing
  <2>2. QED
    BY <2>1, PassingKeeps, ChoosingKeeps, CardKeeps, ToggleKeeps, FinishSaveKeeps
<1>3. QED
  BY <1>1, <1>2

(* For any number of answers and losses of power: an answer boots once, unless  *)
(* power loss has undone the removal of the file.                               *)
THEOREM ChoicesAreOneShot == StartUpSpec => []ChoiceUsedOnce
<1>1. StartUpInv => ChoiceUsedOnce
  BY PicksAssumption DEF StartUpInv, PickInv, StartUpTypeOK, ChoiceUsedOnce
<1>2. QED
  BY <1>1, StartUpInitInv, StartUpStepInv, PTL DEF StartUpSpec

(* The engine runs with what was saved last, unless the save was cut short.     *)
THEOREM GraphicsChoiceKept == StartUpSpec => []LowGraphicsKept
<1>1. StartUpInv => LowGraphicsKept
  BY DEF StartUpInv, GraphicsInv, LowGraphicsKept
<1>2. QED
  BY <1>1, StartUpInitInv, StartUpStepInv, PTL DEF StartUpSpec

-----------------------------------------------------------------------------
(* The table of preferences: what a search finds, and what a store leaves.     *)
LEMMA SmallestFound ==
    ASSUME NEW S \in SUBSET Nat, S # {}
    PROVE  Seqs!Min(S) \in S /\ \A y \in S : Seqs!Min(S) <= y
<1>1. \E x \in S : \A y \in S : x <= y
  BY LeastOne
<1>2. QED
  BY <1>1 DEF Seqs!Min

LEMMA IndexFinds ==
    ASSUME NEW table \in Seq(Entries), NEW k
    PROVE  \/ /\ Index(table, k) = 0
              /\ \A i \in 1..Len(table) : table[i].key # k
           \/ /\ Index(table, k) \in 1..Len(table)
              /\ table[Index(table, k)].key = k
              /\ \A i \in 1..Len(table) : table[i].key = k => Index(table, k) <= i
<1> DEFINE At == {i \in 1..Len(table) : table[i].key = k}
<1>1. Index(table, k) = IF At # {} THEN Seqs!Min(At) ELSE 0
  BY DEF Index, Seqs!SelectInSeq
<1>2. At \in SUBSET Nat
  OBVIOUS
<1>3. CASE At = {}
  BY <1>1, <1>3
<1>4. CASE At # {}
  <2> HIDE DEF At
  <2>1. Index(table, k) \in At /\ \A i \in At : Index(table, k) <= i
    BY <1>1, <1>2, <1>4, SmallestFound
  <2>2. QED
    BY <2>1 DEF At
<1>5. QED
  BY <1>3, <1>4

Lookup(table, k) ==
    IF Index(table, k) = 0 THEN Fallback ELSE table[Index(table, k)].value

LEMMA WithStores ==
    ASSUME NEW table \in Seq(Entries), NEW kk \in AllKeys, NEW v \in Values
    PROVE  LET new == With(table, [key |-> kk, value |-> v])
           IN  /\ new \in Seq(Entries)
               /\ Len(new) = IF Index(table, kk) # 0 THEN Len(table) ELSE Len(table) + 1
               /\ \A k \in Keys : Lookup(new, k) = IF k = kk THEN v ELSE Lookup(table, k)
<1> USE KeysAssumption DEF AllKeys
<1> DEFINE i == Index(table, kk)
           entry == [key |-> Kept(kk), value |-> v]
           new == With(table, [key |-> kk, value |-> v])
<1>1. new = IF i # 0 THEN [table EXCEPT ![i] = entry] ELSE Append(table, entry)
  <2> DEFINE e == [key |-> kk, value |-> v]
  <2>1. e.key = kk /\ [e EXCEPT !.key = Kept(e.key)] = entry
    OBVIOUS
  <2> HIDE DEF e, entry
  <2>2. With(table, e) = IF Index(table, e.key) # 0
                         THEN [table EXCEPT ![Index(table, e.key)] = [e EXCEPT !.key = Kept(e.key)]]
                         ELSE Append(table, [e EXCEPT !.key = Kept(e.key)])
    BY DEF With
  <2>3. new = With(table, e)
    BY DEF e
  <2>4. QED
    BY <2>1, <2>2, <2>3 DEF i
<1>2. entry \in Entries
  BY DEF Kept, Entries
<1>3. \A j \in 1..Len(table) : table[j].key \in Keys \cup {"none"}
  <2>1. \A e \in Entries : e.key \in Keys \cup {"none"}
    BY DEF Entries
  <2>2. \A j \in 1..Len(table) : table[j] \in Entries
    OBVIOUS
  <2>3. QED
    BY <2>1, <2>2
<1>a. /\ entry.key = Kept(kk) /\ entry.value = v
  OBVIOUS
<1> HIDE DEF new, entry, i
<1>4. CASE i # 0
  <2>1. i \in 1..Len(table) /\ table[i].key = kk
        /\ \A j \in 1..Len(table) : table[j].key = kk => i <= j
    BY <1>4, IndexFinds DEF i
  <2>2. Kept(kk) = kk
    BY <1>3, <2>1 DEF Kept
  <2>3. /\ new \in Seq(Entries) /\ Len(new) = Len(table)
        /\ \A j \in 1..Len(table) : new[j] = IF j = i THEN entry ELSE table[j]
    BY <1>1, <1>2, <1>4, <2>1
  <2>4. \A j \in 1..Len(table) : new[j].key = table[j].key
    BY <1>a, <2>1, <2>2, <2>3
  <2>5. \A k \in Keys : Index(new, k) = Index(table, k)
    <3>1. Len(table) \in Nat
      OBVIOUS
    <3>2. QED
      BY <2>3, <2>4, <3>1, IndexFinds
  <2>6. ASSUME NEW k \in Keys
        PROVE  Lookup(new, k) = IF k = kk THEN v ELSE Lookup(table, k)
    <3>1. CASE k = kk
      BY <1>4, <1>a, <2>1, <2>3, <2>5, <3>1 DEF Lookup, i
    <3>2. CASE k # kk
      <4>1. Index(table, k) = 0 \/ Index(table, k) \in (1..Len(table)) \ {i}
        BY <2>1, <3>2, IndexFinds
      <4>2. QED
        BY <2>3, <2>5, <3>2, <4>1 DEF Lookup
    <3>3. QED
      BY <3>1, <3>2
  <2>7. QED
    BY <1>4, <2>3, <2>6 DEF new, i
<1>5. CASE i = 0
  <2>1. \A j \in 1..Len(table) : table[j].key # kk
    BY <1>5, IndexFinds DEF i
  <2>2. /\ new \in Seq(Entries) /\ Len(new) = Len(table) + 1 /\ Len(table) \in Nat
        /\ \A j \in 1..Len(table) : new[j] = table[j]
        /\ new[Len(table) + 1] = entry
    BY <1>1, <1>2, <1>5
  <2>3. ASSUME NEW k \in Keys, k = kk
        PROVE  Lookup(new, k) = v
    <3>1. entry.key = k
      BY <1>a, <2>3 DEF Kept
    <3>2. Index(new, k) = Len(table) + 1
      BY <2>1, <2>2, <2>3, <3>1, IndexFinds
    <3>3. QED
      BY <1>a, <2>2, <3>2 DEF Lookup
  <2>4. ASSUME NEW k \in Keys, k # kk
        PROVE  Lookup(new, k) = Lookup(table, k)
    <3>1. entry.key # k
      BY <1>a, <2>4 DEF Kept
    <3>2. Index(new, k) = Index(table, k)
      BY <2>2, <3>1, IndexFinds
    <3>3. Index(table, k) = 0 \/ Index(table, k) \in 1..Len(table)
      BY IndexFinds
    <3>4. QED
      BY <2>2, <3>2, <3>3 DEF Lookup
  <2>5. QED
    BY <1>5, <2>2, <2>3, <2>4 DEF new, i
<1>6. QED
  BY <1>4, <1>5

(* While nothing is unsure a store is alone from its load to its sync, and     *)
(* carries the table of everything stored before with its own entry in it;     *)
(* before it has opened the file, and between stores, what programs see is     *)
(* what is on the card.                                                        *)
RoomyTables == {table \in Seq(Entries) : Len(table) <= MaxEntries}

PrefTypes ==
    /\ file \in [seen : RoomyTables, card : RoomyTables]
    /\ pc \in [Writers -> {"idle", "open", "write", "rest", "sync"}]
    /\ image \in [Writers -> RoomyTables]
    /\ storing \in [Writers -> [key : AllKeys \cup {"none"}, value : Values \cup {Fallback}]]
    /\ expected \in [Keys -> Values \cup {Fallback}]
    /\ unsure \in BOOLEAN

StoreAlone == \A t, u \in Writers : pc[t] # "idle" /\ pc[u] # "idle" => t = u

FileKept ==
    (\A t \in Writers : pc[t] \in {"idle", "open"}) =>
        /\ file.card = file.seen
        /\ \A k \in Keys : Lookup(file.seen, k) = expected[k]

ImageComplete ==
    \A t \in Writers : pc[t] # "idle" =>
        /\ \A k \in Keys : Lookup(image[t], k) =
                IF k = storing[t].key THEN storing[t].value ELSE expected[k]
        /\ pc[t] = "sync" => file.seen = image[t]

PrefInv == PrefTypes /\ (~unsure => StoreAlone /\ FileKept /\ ImageComplete)

LEMMA NothingStored ==
    /\ NoTable \in RoomyTables
    /\ \A k \in Keys : Lookup(NoTable, k) = Fallback
<1>1. NoTable \in Seq(Entries) /\ Len(NoTable) = 0
  BY DEF NoTable
<1>2. ASSUME NEW k \in Keys
      PROVE  Index(NoTable, k) = 0
  <2>1. 1..Len(NoTable) = {}
    BY <1>1
  <2>2. QED
    BY <1>1, <2>1, IndexFinds
<1>3. QED
  BY <1>1, <1>2, MaxAssumption DEF RoomyTables, Lookup

LEMMA TornTables ==
    ASSUME NEW table \in RoomyTables, NEW n
    PROVE  Torn(table, n) \in RoomyTables
<1>1. /\ Len(table) \in Nat /\ DOMAIN table = 1..Len(table)
      /\ \A i \in 1..Len(table) : table[i] \in Entries
  BY DEF RoomyTables
<1>2. Empty \in Entries
  BY DEF Empty, Entries
<1>3. Torn(table, n) \in [1..Len(table) -> Entries]
  BY <1>1, <1>2 DEF Torn
<1>4. Torn(table, n) \in Seq(Entries) /\ Len(Torn(table, n)) = Len(table)
  BY <1>1, <1>3, SeqDef
<1>5. QED
  BY <1>4 DEF RoomyTables

LEMMA PrefInitInv == PrefInit => PrefInv
<1> SUFFICES ASSUME PrefInit
             PROVE  PrefInv
  OBVIOUS
<1>1. PrefTypes
  BY NothingStored DEF PrefInit, PrefTypes, Empty, NoTable
<1>2. StoreAlone /\ FileKept /\ ImageComplete
  BY NothingStored DEF PrefInit, StoreAlone, FileKept, ImageComplete
<1>3. QED
  BY <1>1, <1>2 DEF PrefInv

LEMMA LoadKeeps ==
    ASSUME PrefInv, NEW t \in Writers, NEW k \in AllKeys, NEW v \in Values, Load(t, k, v)
    PROVE  PrefInv'
<1>t. PrefTypes
  BY DEF PrefInv
<1>0. /\ pc[t] = "idle" /\ UNCHANGED <<file, expected>>
      /\ unsure' = (unsure \/ ~Alone(t))
  BY DEF Load
<1>1. CASE ~HasRoom(file.seen, k)
  <2>1. UNCHANGED <<pc, image, storing>>
    BY <1>1 DEF Load
  <2>2. unsure' \in BOOLEAN /\ (~unsure' => ~unsure)
    BY <1>0, <1>t DEF PrefTypes
  <2>3. QED
    BY <1>0, <2>1, <2>2 DEF PrefInv, PrefTypes, StoreAlone, FileKept, ImageComplete
<1>2. CASE HasRoom(file.seen, k)
  <2> DEFINE e == [key |-> k, value |-> v]
             new == With(file.seen, e)
  <2>1. /\ pc' = [pc EXCEPT ![t] = "open"]
        /\ image' = [image EXCEPT ![t] = new]
        /\ storing' = [storing EXCEPT ![t] = e]
    BY <1>2 DEF Load
  <2>2. file.seen \in Seq(Entries) /\ Len(file.seen) <= MaxEntries /\ Len(file.seen) \in Nat
    BY <1>t DEF PrefTypes, RoomyTables
  <2>3. /\ new \in Seq(Entries)
        /\ Len(new) = IF Index(file.seen, k) # 0 THEN Len(file.seen) ELSE Len(file.seen) + 1
        /\ \A kk \in Keys : Lookup(new, kk) = IF kk = k THEN v ELSE Lookup(file.seen, kk)
    BY <2>2, WithStores
  <2>4. new \in RoomyTables
    BY <1>2, <2>2, <2>3, MaxAssumption DEF HasRoom, RoomyTables
  <2>5. e \in [key : AllKeys \cup {"none"}, value : Values \cup {Fallback}] /\ e.key = k /\ e.value = v
    OBVIOUS
  <2> HIDE DEF new, e
  <2>6. PrefTypes'
    BY <1>0, <1>t, <2>1, <2>4, <2>5 DEF PrefTypes
  <2>7. ASSUME ~unsure'
        PROVE  StoreAlone' /\ FileKept' /\ ImageComplete'
    <3>1. ~unsure /\ \A u \in Writers : pc[u] = "idle"
      BY <1>0, <1>t, <2>7 DEF Alone, PrefTypes
    <3>2. /\ file.card = file.seen
          /\ \A kk \in Keys : Lookup(file.seen, kk) = expected[kk]
      BY <3>1 DEF PrefInv, FileKept
    <3>3. /\ pc'[t] = "open" /\ image'[t] = new /\ storing'[t] = e
          /\ \A u \in Writers \ {t} : pc'[u] = "idle"
      BY <1>t, <2>1, <3>1 DEF PrefTypes
    <3>4. QED
      BY <1>0, <2>3, <2>5, <3>2, <3>3 DEF StoreAlone, FileKept, ImageComplete
  <2>8. QED
    BY <2>6, <2>7 DEF PrefInv
<1>3. QED
  BY <1>1, <1>2

(* From the fopen() to the sync.                                               *)
LEMMA StoreKeeps ==
    ASSUME PrefInv, NEW t \in Writers,
           \/ Truncate(t) \/ OpenFails(t) \/ SyncFile(t)
           \/ \E n \in 0..MaxEntries - 1 : WriteBlocks(t, n)
           \/ \E full \in BOOLEAN : WriteRest(t, full)
    PROVE  PrefInv'
<1>t. PrefTypes
  BY DEF PrefInv
<1>1. UNCHANGED <<image, storing>>
  BY DEF Truncate, OpenFails, SyncFile, WriteBlocks, WriteRest
<1>2. ASSUME NEW place \in {"write", "rest"}, NEW content \in RoomyTables,
             pc[t] # "idle", pc' = [pc EXCEPT ![t] = place], SeeFile(content),
             UNCHANGED <<expected, unsure>>
      PROVE  PrefInv'
  <2>1. PrefTypes'
    BY <1>1, <1>2, <1>t DEF PrefTypes, SeeFile
  <2>2. pc'[t] = place /\ \A u \in Writers \ {t} : pc'[u] = pc[u]
    BY <1>2, <1>t DEF PrefTypes
  <2>3. ~unsure => StoreAlone' /\ FileKept' /\ ImageComplete'
    BY <1>1, <1>2, <2>2 DEF PrefInv, StoreAlone, FileKept, ImageComplete
  <2>4. QED
    BY <1>2, <2>1, <2>3 DEF PrefInv
<1>3. CASE Truncate(t)
  BY <1>2, <1>3, NothingStored DEF Truncate
<1>4. CASE OpenFails(t)
  <2>1. /\ pc[t] = "open" /\ pc' = [pc EXCEPT ![t] = "idle"]
        /\ UNCHANGED <<file, expected, unsure>>
    BY <1>4 DEF OpenFails
  <2>2. PrefTypes'
    BY <1>1, <1>t, <2>1 DEF PrefTypes
  <2>3. pc'[t] = "idle" /\ \A u \in Writers \ {t} : pc'[u] = pc[u]
    BY <1>t, <2>1 DEF PrefTypes
  <2>4. ~unsure => StoreAlone' /\ FileKept' /\ ImageComplete'
    BY <1>1, <2>1, <2>3 DEF PrefInv, StoreAlone, FileKept, ImageComplete
  <2>5. QED
    BY <2>1, <2>2, <2>4 DEF PrefInv
<1>5. CASE SyncFile(t)
  <2>1. /\ pc[t] = "sync" /\ pc' = [pc EXCEPT ![t] = "idle"] /\ unsure' = unsure
        /\ file' = [file EXCEPT !.card = file.seen]
        /\ expected' = [k \in Keys |-> IF k = storing[t].key THEN storing[t].value
                                                             ELSE expected[k]]
    BY <1>5 DEF SyncFile
  <2>2. storing[t].value \in Values \cup {Fallback}
    BY <1>t DEF PrefTypes
  <2>3. PrefTypes'
    BY <1>1, <1>t, <2>1, <2>2 DEF PrefTypes
  <2>4. /\ pc'[t] = "idle" /\ \A u \in Writers \ {t} : pc'[u] = pc[u]
        /\ file'.card = file.seen /\ file'.seen = file.seen
    BY <1>t, <2>1 DEF PrefTypes
  <2>5. ~unsure => StoreAlone' /\ FileKept' /\ ImageComplete'
    BY <1>1, <2>1, <2>4 DEF PrefInv, StoreAlone, FileKept, ImageComplete
  <2>6. QED
    BY <2>1, <2>3, <2>5 DEF PrefInv
<1>6. ASSUME NEW n \in 0..MaxEntries - 1, WriteBlocks(t, n)
      PROVE  PrefInv'
  <2>1. Torn(image[t], n) \in RoomyTables
    BY <1>t, TornTables DEF PrefTypes
  <2>2. QED
    BY <1>2, <1>6, <2>1 DEF WriteBlocks
<1>7. ASSUME NEW full \in BOOLEAN, WriteRest(t, full)
      PROVE  PrefInv'
  <2>1. /\ pc[t] = "rest" /\ pc' = [pc EXCEPT ![t] = "sync"] /\ expected' = expected
        /\ unsure' = (unsure \/ full)
    BY <1>7 DEF WriteRest
  <2>a. IF full THEN file' = file ELSE SeeFile(image[t])
    BY <1>7 DEF WriteRest
  <2>2. PrefTypes'
    <3>1. file' \in [seen : RoomyTables, card : RoomyTables]
      BY <1>t, <2>a DEF PrefTypes, SeeFile
    <3>2. QED
      BY <1>1, <1>t, <2>1, <3>1 DEF PrefTypes
  <2>3. pc'[t] = "sync" /\ \A u \in Writers \ {t} : pc'[u] = pc[u]
    BY <1>t, <2>1 DEF PrefTypes
  <2>4. ~unsure' => ~unsure /\ file'.seen = image[t]
    BY <1>t, <2>1, <2>a DEF PrefTypes, SeeFile
  <2>5. ~unsure' => StoreAlone' /\ FileKept' /\ ImageComplete'
    BY <1>1, <2>1, <2>3, <2>4 DEF PrefInv, StoreAlone, FileKept, ImageComplete
  <2>6. QED
    BY <2>2, <2>5 DEF PrefInv
<1>8. QED
  BY <1>3, <1>4, <1>5, <1>6, <1>7

LEMMA PrefCardKeeps ==
    ASSUME PrefInv, PrefWriteBack \/ PrefPowerLoss
    PROVE  PrefInv'
<1>t. PrefTypes
  BY DEF PrefInv
<1>1. CASE PrefWriteBack
  <2>1. /\ file' = [file EXCEPT !.card = file.seen]
        /\ UNCHANGED <<pc, image, storing, expected, unsure>>
    BY <1>1 DEF PrefWriteBack
  <2>2. PrefTypes' /\ file'.seen = file.seen /\ file'.card = file.seen
    BY <1>t, <2>1 DEF PrefTypes
  <2>3. QED
    BY <2>1, <2>2 DEF PrefInv, StoreAlone, FileKept, ImageComplete
<1>2. CASE PrefPowerLoss
  <2>1. /\ file' = [file EXCEPT !.seen = file.card]
        /\ pc' = [t \in Writers |-> "idle"]
        /\ unsure' = (unsure \/ \E t \in Writers : pc[t] # "idle")
        /\ UNCHANGED <<image, storing, expected>>
    BY <1>2 DEF PrefPowerLoss
  <2>2. PrefTypes' /\ file'.seen = file.card /\ file'.card = file.card
    BY <1>t, <2>1 DEF PrefTypes
  <2>3. ~unsure' => ~unsure /\ \A t \in Writers : pc[t] = "idle"
    BY <1>t, <2>1 DEF PrefTypes
  <2>4. ~unsure' => StoreAlone' /\ FileKept' /\ ImageComplete'
    BY <2>1, <2>2, <2>3 DEF PrefInv, StoreAlone, FileKept, ImageComplete
  <2>5. QED
    BY <2>2, <2>4 DEF PrefInv
<1>3. QED
  BY <1>1, <1>2

LEMMA PrefStepInv ==
    ASSUME PrefInv, [PrefNext]_prefVars
    PROVE  PrefInv'
<1>1. CASE UNCHANGED prefVars
  BY <1>1 DEF prefVars, PrefInv, PrefTypes, StoreAlone, FileKept, ImageComplete
<1>2. CASE PrefNext
  BY <1>2, LoadKeeps, StoreKeeps, PrefCardKeeps DEF PrefNext
<1>3. QED
  BY <1>1, <1>2

(* For any number of threads, keys, stores and losses of power: what was stored *)
(* last is read back, unless stores overlapped or one was cut short.            *)
THEOREM PreferencesAreKept == PrefSpec => []PreferencesKept
<1>1. PrefInv => PreferencesKept
  BY DEF PrefInv, FileKept, PreferencesKept, Get, Lookup
<1>2. QED
  BY <1>1, PrefInitInv, PrefStepInv, PTL DEF PrefSpec

(* The file, each thread's copy of it and the store under way keep their types. *)
PrefCounts == stores \in 0..MaxStores /\ cuts \in 0..MaxCuts

THEOREM PrefTypeCorrect == PrefSpec => []PrefTypeOK
<1>1. PrefInit => PrefCounts
  BY StoresAssumption DEF PrefInit, PrefCounts
<1>2. PrefCounts /\ [PrefNext]_prefVars => PrefCounts'
  <2> SUFFICES ASSUME PrefCounts, [PrefNext]_prefVars
               PROVE  PrefCounts'
    OBVIOUS
  <2> DEFINE Counted == /\ \/ stores' = stores
                           \/ stores < MaxStores /\ stores' = stores + 1
                        /\ \/ cuts' = cuts
                           \/ cuts < MaxCuts /\ cuts' = cuts + 1
  <2>1. ASSUME UNCHANGED prefVars
        PROVE  Counted
    BY <2>1 DEF prefVars
  <2>2. ASSUME NEW t \in Writers, NEW k \in AllKeys, NEW v \in Values, Load(t, k, v)
        PROVE  Counted
    BY <2>2, Zenon DEF Load
  <2>3. ASSUME NEW t \in Writers,
               \/ Truncate(t) \/ OpenFails(t) \/ SyncFile(t)
               \/ \E n \in 0..MaxEntries - 1 : WriteBlocks(t, n)
               \/ \E full \in BOOLEAN : WriteRest(t, full)
        PROVE  Counted
    BY <2>3, Zenon DEF Truncate, OpenFails, SyncFile, WriteBlocks, WriteRest
  <2>4. ASSUME PrefWriteBack \/ PrefPowerLoss
        PROVE  Counted
    BY <2>4, Zenon DEF PrefWriteBack, PrefPowerLoss
  <2>5. Counted
    BY <2>1, <2>2, <2>3, <2>4, Zenon DEF PrefNext
  <2>6. QED
    BY <2>5, StoresAssumption DEF PrefCounts
<1>3. RoomyTables \subseteq Tables
  <2> SUFFICES ASSUME NEW table \in RoomyTables
               PROVE  table \in Tables
    OBVIOUS
  <2>1. Len(table) \in 0..MaxEntries /\ table \in [1..Len(table) -> Entries]
    BY MaxAssumption DEF RoomyTables
  <2>2. QED
    BY <2>1 DEF Tables
<1>4. PrefInv /\ PrefCounts => PrefTypeOK
  BY <1>3 DEF PrefInv, PrefTypes, PrefCounts, PrefTypeOK
<1>5. QED
  BY <1>1, <1>2, <1>4, PrefInitInv, PrefStepInv, PTL DEF PrefSpec

(* A table never has more entries than the array it is loaded into.            *)
THEOREM TablesHaveRoom ==
    PrefSpec => [](file \in [seen : RoomyTables, card : RoomyTables]
                    /\ image \in [Writers -> RoomyTables])
<1>1. PrefInv => /\ file \in [seen : RoomyTables, card : RoomyTables]
                 /\ image \in [Writers -> RoomyTables]
  BY DEF PrefInv, PrefTypes
<1>2. QED
  BY <1>1, PrefInitInv, PrefStepInv, PTL DEF PrefSpec
-----------------------------------------------------------------------------
(* The screens: the walk of resolve_active_screen(), and what a change of the  *)
(* active screen leaves of a gesture.                                          *)
Children == [Nodes -> Addresses \cup {NoScreen}]

(* A path from the manager on which each screen is the active child of the one *)
(* before it.                                                                  *)
Follows(child, path) ==
    /\ path \in Seq(Nodes) /\ path # <<>> /\ path[1] = Manager
    /\ \A i \in 2..Len(path) : path[i] = child[path[i - 1]] /\ path[i] # NoScreen

LEMMA Longer ==
    ASSUME NEW child \in Children, NEW path, Follows(child, path),
           NEW next, next = child[path[Len(path)]], next # NoScreen
    PROVE  Follows(child, Append(path, next))
<1>1. path \in Seq(Nodes) /\ Len(path) \in Nat \ {0} /\ path[Len(path)] \in Nodes
  BY DEF Follows
<1>2. next \in Nodes
  BY <1>1 DEF Children, Nodes
<1>3. /\ Append(path, next) \in Seq(Nodes) /\ Append(path, next) # <<>>
      /\ Len(Append(path, next)) = Len(path) + 1
      /\ Append(path, next)[Len(path) + 1] = next
      /\ \A i \in 1..Len(path) : Append(path, next)[i] = path[i]
  BY <1>1, <1>2
<1>4. QED
  BY <1>1, <1>3 DEF Follows

(* The walk ends at the tip of such a path. *)
LEMMA WalkFollows ==
    ASSUME NEW child \in Children
    PROVE  Follows(child, Walk(child))
<1> DEFINE Next(p) == LET next == child[p[Len(p)]]
                      IN  IF next = NoScreen THEN p ELSE Append(p, next)
           Eqn(f, k) == f = [n \in 1..k |-> IF n = 1 THEN <<Manager>> ELSE Next(f[n - 1])]
           Undefined == {k \in 0..MaxPath : ~ \E f : Eqn(f, k)}
<1>1. ASSUME NEW f, Eqn(f, MaxPath)
      PROVE  Follows(child, f[MaxPath])
  <2> DEFINE Astray == {n \in 1..MaxPath : ~Follows(child, f[n])}
  <2>1. SUFFICES ASSUME Astray # {}
                 PROVE  FALSE
    BY DepthAssumption
  <2>2. PICK n \in Astray : \A m \in Astray : n <= m
    <3>1. Astray \in SUBSET Nat
      BY DepthAssumption
    <3> HIDE DEF Astray
    <3>2. QED
      BY <2>1, <3>1, LeastOne
  <2>3. n # 1
    <3>1. f[1] = <<Manager>>
      BY <1>1, DepthAssumption
    <3>2. Follows(child, <<Manager>>)
      BY DEF Follows, Nodes
    <3>3. QED
      BY <3>1, <3>2
  <2>4. n - 1 \in 1..MaxPath /\ n - 1 \notin Astray
    BY <2>2, <2>3, DepthAssumption
  <2>5. Follows(child, f[n - 1])
    BY <2>4
  <2>6. f[n] = Next(f[n - 1])
    BY <1>1, <2>2, <2>3
  <2>7. Follows(child, f[n])
    BY <2>5, <2>6, Longer
  <2>8. QED
    BY <2>2, <2>7
<1>2. \E f : Eqn(f, MaxPath)
  <2> HIDE DEF Next, Eqn
  <2>1. SUFFICES ASSUME Undefined # {}
                 PROVE  FALSE
    <3>1. MaxPath \in 0..MaxPath
      BY DepthAssumption
    <3>2. QED
      BY <3>1
  <2>2. PICK k \in Undefined : \A m \in Undefined : k <= m
    <3>1. Undefined \in SUBSET Nat
      BY DepthAssumption
    <3> HIDE DEF Undefined
    <3>2. QED
      BY <2>1, <3>1, LeastOne
  <2>3. k # 0
    <3>1. Eqn([n \in 1..0 |-> <<>>], 0)
      BY DEF Eqn
    <3>2. QED
      BY <3>1
  <2>4. PICK f : Eqn(f, k - 1)
    <3>1. k - 1 \in 0..MaxPath /\ ~(k <= k - 1)
      BY <2>3, DepthAssumption
    <3>2. QED
      BY <2>2, <3>1
  <2> DEFINE g == [n \in 1..k |-> IF n = 1 THEN <<Manager>> ELSE Next(f[n - 1])]
  <2>5. \A n \in 1..k - 1 : g[n] = f[n]
    <3>1. k \in Nat
      BY DepthAssumption
    <3>2. f = [n \in 1..k - 1 |-> IF n = 1 THEN <<Manager>> ELSE Next(f[n - 1])]
      BY <2>4 DEF Eqn
    <3>3. QED
      BY <3>1, <3>2
  <2>6. \A n \in 1..k : n # 1 => n - 1 \in 1..k - 1
    BY <2>2, <2>3, DepthAssumption
  <2>7. Eqn(g, k)
    BY <2>5, <2>6 DEF Eqn
  <2>8. QED
    BY <2>2, <2>7
<1>3. QED
  <2> DEFINE f == CHOOSE f : Eqn(f, MaxPath)
  <2>1. Eqn(f, MaxPath)
    BY <1>2
  <2>2. Walk(child) = f[MaxPath]
    BY DEF Walk
  <2>3. QED
    BY <1>1, <2>1, <2>2
-----------------------------------------------------------------------------
ClassNames == {look.class : look \in Looks} \cup {"none"}
ScreenNames == {look.name : look \in Looks} \cup {""}
Screens == [class : ClassNames, name : ScreenNames, enabled : BOOLEAN, serial : Nat]

UiTypes ==
    /\ UiTypeOK
    /\ screens \in [Addresses -> Screens]

Under(s, c) == \E i \in DOMAIN kids[s] : kids[s][i] = c

(* A path of links from the manager. *)
Rooted(path) ==
    /\ path \in Seq(Nodes) /\ path # <<>> /\ path[1] = Manager
    /\ \A i \in 2..Len(path) : Under(path[i - 1], path[i])

TreeInv ==
    /\ \A s, t \in Nodes, c \in Addresses : Under(s, c) /\ Under(t, c) => s = t
    /\ \A a \in Addresses :
          IF screens[a] = Closed THEN kids[a] = <<>> ELSE screens[a].serial # 0

LEMMA OnePath ==
    ASSUME UiTypes, TreeInv, NEW p, NEW q, Rooted(p), Rooted(q), p[Len(p)] = q[Len(q)]
    PROVE  p = q
<1>1. p \in Seq(Nodes) /\ q \in Seq(Nodes) /\ Len(p) \in Nat \ {0} /\ Len(q) \in Nat \ {0}
  BY DEF Rooted
<1> DEFINE Apart == {d \in Nat : d < Len(p) /\ d < Len(q) /\ p[Len(p) - d] # q[Len(q) - d]}
<1>2. Apart = {}
  <2>1. SUFFICES ASSUME Apart # {}
                 PROVE  FALSE
    OBVIOUS
  <2>2. PICK d \in Apart : \A e \in Apart : d <= e
    <3>1. Apart \in SUBSET Nat
      OBVIOUS
    <3> HIDE DEF Apart
    <3>2. QED
      BY <2>1, <3>1, LeastOne
  <2>3. d # 0
    OBVIOUS
  <2> DEFINE i == Len(p) - d
             j == Len(q) - d
  <2>4. /\ i \in 1..Len(p) /\ i + 1 \in 2..Len(p) /\ j \in 1..Len(q) /\ j + 1 \in 2..Len(q)
        /\ p[i] # q[j]
    BY <1>1, <2>3
  <2>5. d - 1 \in Nat /\ d - 1 \notin Apart
    BY <2>2, <2>3
  <2>6. p[i + 1] = q[j + 1]
    BY <1>1, <2>5
  <2>7. Under(p[i], p[i + 1]) /\ Under(q[j], q[j + 1])
    BY <2>4 DEF Rooted
  <2>8. p[i] \in Nodes /\ q[j] \in Nodes
    BY <1>1, <2>4
  <2>9. p[i + 1] \in Addresses
    BY <2>7, <2>8 DEF Under, UiTypes, UiTypeOK
  <2>10. QED
    BY <2>4, <2>6, <2>7, <2>8, <2>9 DEF TreeInv
<1>3. ASSUME NEW r, NEW s, Rooted(r), Rooted(s), Len(r) < Len(s), r[1] = s[Len(s) - Len(r) + 1]
      PROVE  FALSE
  <2> DEFINE j == Len(s) - Len(r) + 1
  <2>1. s \in Seq(Nodes) /\ Len(r) \in Nat \ {0} /\ j \in 2..Len(s)
    BY <1>3 DEF Rooted
  <2>2. Under(s[j - 1], s[j]) /\ s[j - 1] \in Nodes
    BY <1>3, <2>1 DEF Rooted
  <2>3. s[j] \in Addresses
    BY <2>2 DEF Under, UiTypes, UiTypeOK
  <2>4. QED
    BY <1>3, <2>3, ManagerAssumption DEF Rooted
<1>4. Len(p) = Len(q)
  <2>1. CASE Len(p) < Len(q)
    <3>1. Len(p) - 1 \in Nat /\ Len(p) - 1 \notin Apart
      BY <1>1, <1>2
    <3>2. p[1] = q[Len(q) - Len(p) + 1]
      BY <1>1, <2>1, <3>1
    <3>3. QED
      BY <1>3, <2>1, <3>2
  <2>2. CASE Len(q) < Len(p)
    <3>1. Len(q) - 1 \in Nat /\ Len(q) - 1 \notin Apart
      BY <1>1, <1>2
    <3>2. q[1] = p[Len(p) - Len(q) + 1]
      BY <1>1, <2>2, <3>1
    <3>3. QED
      BY <1>3, <2>2, <3>2
  <2>3. QED
    BY <1>1, <2>1, <2>2
<1>5. ASSUME NEW i \in 1..Len(p)
      PROVE  p[i] = q[i]
  <2>1. Len(p) - i \in Nat /\ Len(p) - i \notin Apart
    BY <1>1, <1>2
  <2>2. QED
    BY <1>1, <1>4, <2>1
<1>6. QED
  BY <1>1, <1>4, <1>5

LEMMA SameClass ==
    ASSUME NEW s, Object(s)'.class = Object(s).class, Object(s)'.name = Object(s).name
    PROVE  ClassifyOne(s)' = ClassifyOne(s)
<1>1. ASSUME NEW targets
      PROVE  DerivesFrom(s, targets)' = DerivesFrom(s, targets)
  BY DEF DerivesFrom
<1>2. QED
  BY DEF ClassifyOne, DerivesFrom

LEMMA SameVerdict ==
    ASSUME NEW path \in Seq(Nodes), \A i \in DOMAIN path :
               Object(path[i])'.class = Object(path[i]).class
                   /\ Object(path[i])'.name = Object(path[i]).name
    PROVE  ClassifyPath(path)' = ClassifyPath(path)
<1>1. \A i \in DOMAIN path : ClassifyOne(path[i])' = ClassifyOne(path[i])
  BY SameClass
<1>2. QED
  BY <1>1 DEF ClassifyPath
-----------------------------------------------------------------------------
(* While nothing was opened at the address seen last, that address still holds *)
(* the object that the loader classified, and every way to it reads the same.  *)
SeenInv ==
    /\ managerUp \/ context.active = NoScreen
    /\ turn = "input" /\ managerUp => context.active = Deepest
    /\ ~reused /\ context.active \in Nodes /\ Valid(context.active) =>
          /\ context.name = Object(context.active).name
          /\ \A path : Rooted(path) /\ path[Len(path)] = context.active =>
                ClassifyPath(path) = context.context

(* A gesture that lives has been on the screen seen last alone, or the placement *)
(* pair is all that it and the loader have seen.                                *)
VisitedInv ==
    held /\ ~reused =>
        \/ /\ \A v \in visited : v.name = context.name /\ v.context = context.context
           /\ \A v, w \in visited : v.serial = w.serial
           /\ \A v \in visited : context.active \in Nodes /\ Valid(context.active) =>
                    v.serial = Object(context.active).serial
        \/ /\ \A v \in visited : v.name \in Pair /\ v.context = "game"
           /\ context.name \in Pair /\ context.context = "game"

UiInv == UiTypes /\ TreeInv /\ SeenInv /\ VisitedInv

LEMMA UiInitInv == UiInit => UiInv
<1> SUFFICES ASSUME UiInit
             PROVE  UiInv
  OBVIOUS
<1>1. UiTypes
  <2>1. Closed \in Screens
    BY DEF Closed, Screens, ClassNames, ScreenNames
  <2>2. <<>> \in Seq(Addresses)
    OBVIOUS
  <2>3. opened \in 0..MaxOpens
    <3>1. opened = 0
      BY DEF UiInit
    <3>2. QED
      BY <3>1, DepthAssumption
  <2>4. QED
    BY <2>1, <2>2, <2>3 DEF UiInit, UiTypes, UiTypeOK
<1>2. TreeInv
  <2>1. \A s \in Nodes : kids[s] = <<>>
    BY DEF UiInit
  <2>2. \A s \in Nodes : \A c : ~Under(s, c)
    BY <2>1 DEF Under
  <2>3. QED
    BY <2>1, <2>2 DEF UiInit, TreeInv, Nodes
<1>3. SeenInv
  BY ManagerAssumption DEF UiInit, SeenInv, Nodes
<1>4. VisitedInv
  BY DEF UiInit, VisitedInv
<1>5. QED
  BY <1>1, <1>2, <1>3, <1>4 DEF UiInv

(* The walk reaches a live screen over links, whichever children are active.   *)
LEMMA ActiveChildren ==
    ASSUME UiTypes, NEW s \in Nodes
    PROVE  /\ ActiveChild(s) \in Addresses \cup {NoScreen}
           /\ ActiveChild(s) # NoScreen => Under(s, ActiveChild(s)) /\ Valid(ActiveChild(s))
<1> DEFINE valid == {i \in DOMAIN kids[s] : Valid(kids[s][i])}
           taking == {i \in valid : screens[kids[s][i]].enabled}
<1>1. kids[s] \in Seq(Addresses) /\ DOMAIN kids[s] \in SUBSET Nat
  BY DEF UiTypes, UiTypeOK
<1>2. ASSUME NEW I \in SUBSET DOMAIN kids[s], I # {}
      PROVE  Foremost(I) \in I
  <2>1. \E x \in I : \A y \in I : x <= y
    BY <1>1, <1>2, LeastOne
  <2>2. QED
    BY <2>1 DEF Foremost
<1>3. /\ taking # {} => Foremost(taking) \in valid
      /\ valid # {} => Foremost(valid) \in valid
  BY <1>2
<1>4. \A i \in valid : kids[s][i] \in Addresses /\ Under(s, kids[s][i]) /\ Valid(kids[s][i])
  BY <1>1 DEF Under
<1>5. \/ taking # {} /\ ActiveChild(s) = kids[s][Foremost(taking)]
      \/ valid # {} /\ ActiveChild(s) = kids[s][Foremost(valid)]
      \/ ActiveChild(s) = NoScreen
  BY DEF ActiveChild
<1> HIDE DEF valid, taking
<1>6. QED
  BY <1>3, <1>4, <1>5

LEMMA ActivePathRooted ==
    ASSUME UiTypes, managerUp
    PROVE  Rooted(ActivePath) /\ Deepest \in Nodes /\ Valid(Deepest)
<1> DEFINE child == [s \in Nodes |-> ActiveChild(s)]
<1>1. child \in Children
  BY ActiveChildren DEF Children
<1>2. Follows(child, ActivePath)
  BY <1>1, WalkFollows DEF ActivePath
<1>3. /\ ActivePath \in Seq(Nodes) /\ ActivePath # <<>> /\ ActivePath[1] = Manager
      /\ Len(ActivePath) \in Nat \ {0}
      /\ \A i \in 2..Len(ActivePath) :
            /\ ActivePath[i - 1] \in Nodes /\ ActivePath[i] # NoScreen
            /\ ActivePath[i] = ActiveChild(ActivePath[i - 1])
  <2>1. ActivePath \in Seq(Nodes) /\ ActivePath # <<>> /\ ActivePath[1] = Manager
    BY <1>2 DEF Follows
  <2>2. Len(ActivePath) \in Nat \ {0}
    BY <2>1
  <2>3. ASSUME NEW i \in 2..Len(ActivePath)
        PROVE  /\ ActivePath[i - 1] \in Nodes /\ ActivePath[i] # NoScreen
               /\ ActivePath[i] = ActiveChild(ActivePath[i - 1])
    <3>1. ActivePath[i - 1] \in Nodes
      BY <2>1, <2>2
    <3>2. ActivePath[i] = child[ActivePath[i - 1]] /\ ActivePath[i] # NoScreen
      BY <1>2 DEF Follows
    <3>3. QED
      BY <3>1, <3>2
  <2>4. QED
    BY <2>1, <2>2, <2>3
<1>4. \A i \in 2..Len(ActivePath) :
            Under(ActivePath[i - 1], ActivePath[i]) /\ Valid(ActivePath[i])
  BY <1>3, ActiveChildren
<1>5. Valid(Manager)
  BY DEF Valid
<1>6. QED
  BY <1>3, <1>4, <1>5 DEF Rooted, Deepest

(* The engine turns no link round and adds none to a screen that lives.        *)
LEMMA PathAvoids ==
    ASSUME NEW a, NEW path, Rooted(path)', kids'[a] = <<>>, path[Len(path)] # a
    PROVE  \A i \in DOMAIN path : path[i] # a
<1> SUFFICES ASSUME NEW i \in DOMAIN path, path[i] = a
             PROVE  FALSE
  OBVIOUS
<1>1. path \in Seq(Nodes) /\ Len(path) \in Nat /\ i \in 1..Len(path) /\ i # Len(path)
  BY DEF Rooted
<1>2. Under(path[i], path[i + 1])'
  <2>1. i + 1 \in 2..Len(path) /\ (i + 1) - 1 = i
    BY <1>1
  <2>2. QED
    BY <2>1 DEF Rooted
<1>3. QED
  BY <1>2 DEF Under

LEMMA PathWas ==
    ASSUME NEW path, Rooted(path)',
           \A i \in 2..Len(path) : Under(path[i - 1], path[i])' => Under(path[i - 1], path[i])
    PROVE  Rooted(path)
BY DEF Rooted

LEMMA UiStepInv == UiInv /\ [UiNext]_uiVars => UiInv'
<1> SUFFICES ASSUME UiInv, [UiNext]_uiVars
             PROVE  UiInv'
  OBVIOUS
<1> USE DEF UiInv
<1>a. /\ UiTypes
      /\ screens \in [Addresses -> Screens] /\ kids \in [Nodes -> Seq(Addresses)]
      /\ managerUp \in BOOLEAN /\ held \in BOOLEAN /\ reused \in BOOLEAN
      /\ opened \in 0..MaxOpens /\ context.active \in Nodes \cup {NoScreen}
      /\ Addresses \subseteq Nodes /\ NoScreen \notin Nodes
  BY ManagerAssumption DEF UiTypes, UiTypeOK, Nodes
(* What the loader and the finger do leaves the engine's tree alone.           *)
<1>b. ASSUME UNCHANGED <<managerUp, screens, kids, opened>>
      PROVE  /\ TreeInv' /\ Deepest' = Deepest
             /\ \A s \in Nodes : Valid(s)' = Valid(s) /\ Object(s)' = Object(s)
             /\ \A path : Rooted(path)' =>
                    Rooted(path) /\ ClassifyPath(path)' = ClassifyPath(path)
  <2>1. \A s, c : Under(s, c)' <=> Under(s, c)
    BY <1>b DEF Under
  <2>2. TreeInv'
    BY <1>b, <2>1 DEF TreeInv
  <2>3. \A s : Valid(s)' = Valid(s) /\ Object(s)' = Object(s)
    BY <1>b DEF Valid, Object
  <2>4. \A s \in Nodes : ActiveChild(s)' = ActiveChild(s)
    BY <1>b, <2>3 DEF ActiveChild
  <2>5. ActivePath' = ActivePath
    BY <2>4 DEF ActivePath
  <2>6. Deepest' = Deepest
    BY <2>5 DEF Deepest
  <2>7. ASSUME NEW path, Rooted(path)'
        PROVE  Rooted(path) /\ ClassifyPath(path)' = ClassifyPath(path)
    <3>1. Rooted(path)
      BY <2>1, <2>7, PathWas
    <3>2. path \in Seq(Nodes)
      BY <3>1 DEF Rooted
    <3>3. QED
      BY <2>3, <3>1, <3>2, SameVerdict
  <2>8. QED
    BY <2>2, <2>3, <2>6, <2>7
(* What the loader has seen survives as long as the tree and its record do.    *)
<1>c. ASSUME UNCHANGED <<managerUp, screens, kids, opened, context>>, reused' = reused,
             turn' = "input" /\ managerUp' => context.active = Deepest
      PROVE  SeenInv'
  <2>1. ASSUME ~reused', context.active \in Nodes, Valid(context.active)'
        PROVE  /\ context.name = Object(context.active)'.name
               /\ \A path : Rooted(path)' /\ path[Len(path)] = context.active =>
                    ClassifyPath(path)' = context.context
    <3>1. ~reused /\ Valid(context.active)
      BY <1>b, <1>c, <2>1
    <3>2. QED
      BY <1>b, <1>c, <2>1, <3>1 DEF SeenInv
  <2>2. managerUp' \/ context'.active = NoScreen
    BY <1>c DEF SeenInv
  <2>3. turn' = "input" /\ managerUp' => context'.active = Deepest'
    BY <1>b, <1>c
  <2>4. QED
    BY <1>c, <2>1, <2>2, <2>3 DEF SeenInv
<1>d. ASSUME UNCHANGED <<managerUp, screens, kids, opened, context>>, reused' = reused,
             held' => held, held' => visited' = visited
      PROVE  VisitedInv'
  BY <1>a, <1>b, <1>d DEF VisitedInv
(* The poll tells of the screen that it reaches.                               *)
<1>e. ASSUME managerUp, context.active = Deepest, ~reused
      PROVE  /\ context.active \in Nodes /\ Valid(context.active)
             /\ \A v \in Delivered : /\ v.name = context.name /\ v.context = context.context
                                     /\ v.serial = Object(context.active).serial
  <2>1. Rooted(ActivePath) /\ context.active \in Nodes /\ Valid(context.active)
    BY <1>a, <1>e, ActivePathRooted
  <2>2. context.name = Object(Deepest).name /\ ClassifyPath(ActivePath) = context.context
    BY <1>e, <2>1 DEF SeenInv, Deepest
  <2>3. QED
    BY <1>e, <2>1, <2>2 DEF Delivered, Seen
<1>1. CASE PollSame
  <2> USE <1>1 DEF PollSame
  <2>1. UiTypes'
    BY <1>a DEF UiTypes, UiTypeOK
  <2>2. TreeInv' /\ SeenInv'
    BY <1>b, <1>c
  <2>3. VisitedInv'
    <3>1. CASE held /\ managerUp /\ ~reused
      <4>1. context.active = Deepest
        BY <3>1
      <4>2. visited' = visited \cup Delivered
        BY <3>1
      <4>3. \/ /\ \A v \in visited' : v.name = context.name /\ v.context = context.context
               /\ \A v \in visited' : v.serial = Object(context.active).serial
            \/ /\ \A v \in visited' : v.name \in Pair /\ v.context = "game"
               /\ context.name \in Pair /\ context.context = "game"
        BY <1>e, <3>1, <4>1, <4>2 DEF VisitedInv
      <4>4. Object(context.active)' = Object(context.active)
        BY <1>a, <1>b, <1>e, <3>1, <4>1
      <4>5. QED
        BY <4>3, <4>4 DEF VisitedInv
    <3>2. CASE ~(held /\ managerUp /\ ~reused)
      <4>1. ~held \/ reused \/ visited' = visited
        BY <1>a, <3>2
      <4>2. CASE ~held \/ reused
        BY <4>2 DEF VisitedInv
      <4>3. CASE visited' = visited
        BY <1>d, <4>3
      <4>4. QED
        BY <4>1, <4>2, <4>3
    <3>3. QED
      BY <3>1, <3>2
  <2>4. QED
    BY <2>1, <2>2, <2>3
<1>2. CASE PollChanged
  <2> USE <1>2 DEF PollChanged
  <2> DEFINE continues == PlacementContinues(context, Seen)
  <2>1. /\ context'.active = Deepest /\ context'.name = Object(Deepest).name
        /\ context'.context = ClassifyPath(ActivePath)
        /\ held' = (held /\ continues) /\ reused' = (reused /\ held')
        /\ turn' = "input" /\ UNCHANGED <<managerUp, screens, kids, opened>>
        /\ visited' = IF held /\ continues THEN visited \cup Delivered ELSE {}
    BY DEF Seen
  <2>2. Rooted(ActivePath) /\ Deepest \in Nodes /\ Valid(Deepest)
    BY <1>a, ActivePathRooted
  <2>3. UiTypes'
    <3>1. held' \in BOOLEAN /\ reused' \in BOOLEAN
      BY <1>a, <2>1 DEF PlacementContinues
    <3>2. QED
      BY <1>a, <2>1, <2>2, <3>1 DEF UiTypes, UiTypeOK
  <2>4. TreeInv'
    BY <1>b, <2>1
  <2>5. SeenInv'
    <3>1. ASSUME NEW path, Rooted(path)', path[Len(path)] = Deepest
          PROVE  ClassifyPath(path)' = ClassifyPath(ActivePath)
      <4>1. Rooted(path) /\ ClassifyPath(path)' = ClassifyPath(path)
        BY <1>b, <2>1, <3>1
      <4>2. path = ActivePath
        BY <1>a, <2>2, <3>1, <4>1, OnePath DEF Deepest
      <4>3. QED
        BY <4>1, <4>2
    <3>2. Deepest' = Deepest /\ Object(Deepest)' = Object(Deepest)
      BY <1>b, <2>1, <2>2
    <3>3. context'.active = Deepest' /\ context'.name = Object(context.active)'.name
      BY <2>1, <3>2
    <3>4. managerUp'
      BY <2>1
    <3>5. \A path : Rooted(path)' /\ path[Len(path)] = context'.active =>
                ClassifyPath(path)' = context'.context
      BY <2>1, <3>1
    <3>6. QED
      BY <3>3, <3>4, <3>5 DEF SeenInv
  <2>6. VisitedInv'
    <3>1. SUFFICES ASSUME held', ~reused'
                   PROVE  /\ \A v \in visited' : v.name \in Pair /\ v.context = "game"
                          /\ context'.name \in Pair /\ context'.context = "game"
      BY DEF VisitedInv
    <3>2. held /\ ~reused /\ continues /\ visited' = visited \cup Delivered
      BY <1>a, <2>1, <3>1
    <3>3. /\ context.context = "game" /\ context.name \in Pair
          /\ Seen.context = "game" /\ Seen.name \in Pair
      BY <3>2 DEF PlacementContinues
    <3>4. \A v \in visited : v.name \in Pair /\ v.context = "game"
      BY <3>2, <3>3 DEF VisitedInv
    <3>5. \A v \in Delivered : v.name \in Pair /\ v.context = "game"
      BY <3>3 DEF Delivered
    <3>6. QED
      BY <2>1, <3>2, <3>3, <3>4, <3>5 DEF Seen
  <2>7. QED
    BY <2>3, <2>4, <2>5, <2>6
<1>3. CASE FingerDown
  <2> USE <1>3 DEF FingerDown, treeVars
  <2>1. UiTypes'
    BY <1>a DEF UiTypes, UiTypeOK
  <2>2. TreeInv' /\ SeenInv'
    BY <1>b, <1>c
  <2>3. VisitedInv'
    <3>1. SUFFICES ASSUME ~reused, managerUp
                   PROVE  VisitedInv'
      <4>1. reused' = reused /\ (~managerUp => visited' = {})
        OBVIOUS
      <4>2. QED
        BY <1>a, <3>1, <4>1 DEF VisitedInv
    <3>2. context.active = Deepest /\ visited' = Delivered
      BY <3>1 DEF SeenInv
    <3>3. Object(context.active)' = Object(context.active)
      BY <1>b, <1>e, <3>1, <3>2
    <3>4. /\ \A v \in visited' : v.name = context.name /\ v.context = context.context
          /\ \A v \in visited' : v.serial = Object(context.active).serial
      BY <1>e, <3>1, <3>2
    <3>5. QED
      BY <3>3, <3>4 DEF VisitedInv
  <2>4. QED
    BY <2>1, <2>2, <2>3
<1>4. CASE FingerUp \/ NoInput \/ TickEnds
  <2> USE <1>4 DEF FingerUp, NoInput, TickEnds, treeVars
  <2>1. UiTypes'
    BY <1>a DEF UiTypes, UiTypeOK
  <2>2. TreeInv' /\ SeenInv'
    BY <1>b, <1>c
  <2>3. VisitedInv'
    BY <1>d
  <2>4. QED
    BY <2>1, <2>2, <2>3
(* The engine's steps: the gesture and the record stay as they are.            *)
<1>f. ASSUME turn' = "engine", UNCHANGED <<context, held, visited>>, reused => reused',
             managerUp' \/ context.active = NoScreen,
             ~reused' /\ context.active \in Nodes /\ Valid(context.active)'
                => /\ Valid(context.active)
                   /\ Object(context.active)'.name = Object(context.active).name
                   /\ Object(context.active)'.serial = Object(context.active).serial
                   /\ \A path : Rooted(path)' /\ path[Len(path)] = context.active =>
                         Rooted(path) /\ ClassifyPath(path)' = ClassifyPath(path)
      PROVE  SeenInv' /\ VisitedInv'
  <2>1. SeenInv'
    BY <1>f DEF SeenInv
  <2>2. VisitedInv'
    BY <1>a, <1>f DEF VisitedInv
  <2>3. QED
    BY <2>1, <2>2
(* A path that avoids the screen the engine worked on was there before.        *)
<1>g. ASSUME NEW a \in Addresses, NEW path, Rooted(path)', path[Len(path)] # a, kids'[a] = <<>>,
             \A s \in Nodes \ {a}, c \in Nodes \ {a} : Under(s, c)' => Under(s, c),
             \A s \in Nodes \ {a} : Object(s)' = Object(s)
      PROVE  Rooted(path) /\ ClassifyPath(path)' = ClassifyPath(path)
  <2>1. path \in Seq(Nodes) /\ \A i \in DOMAIN path : path[i] \in Nodes \ {a}
    <3>1. path \in Seq(Nodes)
      BY <1>g DEF Rooted
    <3>2. QED
      BY <1>g, <3>1, PathAvoids
  <2>2. \A i \in 2..Len(path) : i \in DOMAIN path /\ i - 1 \in DOMAIN path
    BY <2>1
  <2>3. Rooted(path)
    BY <1>g, <2>1, <2>2, PathWas
  <2>4. QED
    BY <1>g, <2>1, <2>3, SameVerdict
<1>5. CASE ManagerAppears
  <2> USE <1>5 DEF ManagerAppears, Engine
  <2>1. UiTypes' /\ TreeInv'
    BY <1>a DEF UiTypes, UiTypeOK, TreeInv, Under
  <2>2. context.active = NoScreen
    BY DEF SeenInv
  <2>3. SeenInv' /\ VisitedInv'
    BY <1>a, <1>f, <2>2
  <2>4. QED
    BY <2>1, <2>3
<1>6. ASSUME NEW a \in Addresses, NEW parent \in Nodes, Open(a, parent)
      PROVE  UiInv'
  <2>a. /\ turn' = "engine" /\ UNCHANGED <<turn, context, held, visited, managerUp>>
        /\ managerUp /\ Valid(parent) /\ parent # a /\ screens[a] = Closed /\ ~Linked(a)
        /\ opened < MaxOpens /\ opened' = opened + 1
        /\ reused' = (reused \/ a = context.active)
    BY <1>6 DEF Open, Engine
  <2>b. kids' = [kids EXCEPT ![parent] = Append(kids[parent], a), ![a] = <<>>]
    BY <1>6 DEF Open
  <2>1. PICK look \in Looks :
            screens' = [screens EXCEPT ![a] = [class |-> look.class, name |-> look.name,
                                               enabled |-> TRUE, serial |-> opened + 1]]
    BY <1>6 DEF Open
  <2>2. /\ screens'[a] \in Screens /\ screens'[a].serial # 0 /\ screens'[a] # Closed
        /\ \A b \in Addresses \ {a} : screens'[b] = screens[b]
    <3>1. screens'[a] = [class |-> look.class, name |-> look.name,
                         enabled |-> TRUE, serial |-> opened + 1]
      BY <1>a, <2>1
    <3>2. opened + 1 \in Nat \ {0}
      BY <1>a, <2>a, DepthAssumption
    <3>3. screens'[a] \in Screens
      <4>1. look.class \in ClassNames /\ look.name \in ScreenNames
        BY DEF ClassNames, ScreenNames
      <4>2. QED
        BY <3>1, <3>2, <4>1 DEF Screens
    <3>4. screens'[a].serial # 0
      BY <3>1, <3>2
    <3>5. QED
      BY <1>a, <2>1, <3>3, <3>4 DEF Closed
  <2>3. /\ kids'[a] = <<>> /\ kids'[parent] = Append(kids[parent], a)
        /\ \A s \in Nodes \ {a, parent} : kids'[s] = kids[s]
    BY <1>a, <2>a, <2>b
  <2>4. \A s \in Nodes : \A c : Under(s, c)' =>
            s # a /\ (Under(s, c) \/ (s = parent /\ c = a))
    <3>1. \A i \in DOMAIN kids'[parent] :
                \/ kids'[parent][i] = a
                \/ i \in DOMAIN kids[parent] /\ kids'[parent][i] = kids[parent][i]
      <4>1. kids[parent] \in Seq(Addresses) /\ kids'[parent] = Append(kids[parent], a)
        BY <1>a, <2>3
      <4>2. /\ DOMAIN kids'[parent] = 1..Len(kids[parent]) + 1
            /\ DOMAIN kids[parent] = 1..Len(kids[parent]) /\ Len(kids[parent]) \in Nat
            /\ kids'[parent][Len(kids[parent]) + 1] = a
            /\ \A i \in 1..Len(kids[parent]) : kids'[parent][i] = kids[parent][i]
        BY <4>1
      <4>3. QED
        BY <4>2
    <3>2. ASSUME NEW s \in Nodes, NEW c, Under(s, c)'
          PROVE  s # a /\ (Under(s, c) \/ (s = parent /\ c = a))
      <4>1. PICK i \in DOMAIN kids'[s] : kids'[s][i] = c
        BY <3>2 DEF Under
      <4>2. s # a
        BY <2>3, <4>1
      <4>3. CASE s = parent
        BY <3>1, <4>1, <4>2, <4>3 DEF Under
      <4>4. CASE s # parent
        BY <2>3, <4>1, <4>2, <4>4 DEF Under
      <4>5. QED
        BY <4>2, <4>3, <4>4
    <3>3. QED
      BY <3>2
  <2>5. \A s \in Nodes : ~Under(s, a)
    BY <2>a DEF Linked, Under
  <2>6. UiTypes'
    <3>1. screens' \in [Addresses -> Screens]
      BY <1>a, <2>1, <2>2
    <3>2. kids' \in [Nodes -> Seq(Addresses)]
      <4>1. Append(kids[parent], a) \in Seq(Addresses) /\ <<>> \in Seq(Addresses)
        BY <1>a
      <4>2. QED
        BY <1>a, <2>b, <4>1
    <3>3. opened' \in 0..MaxOpens /\ reused' \in BOOLEAN
      BY <1>a, <2>a, DepthAssumption
    <3>4. QED
      BY <1>a, <2>a, <3>1, <3>2, <3>3 DEF UiTypes, UiTypeOK
  <2>7. TreeInv'
    <3>1. \A s, t \in Nodes, c \in Addresses : Under(s, c)' /\ Under(t, c)' => s = t
      BY <2>4, <2>5 DEF TreeInv
    <3>2. ASSUME NEW b \in Addresses
          PROVE  IF screens'[b] = Closed THEN kids'[b] = <<>> ELSE screens'[b].serial # 0
      <4>1. CASE b = a
        BY <2>2, <4>1
      <4>2. CASE b # a
        <5>1. screens'[b] = screens[b] /\ (b = parent => screens[b] # Closed)
          BY <2>2, <2>a, <4>2, ManagerAssumption DEF Valid
        <5>2. b # parent => kids'[b] = kids[b]
          BY <1>a, <2>3, <4>2
        <5>3. QED
          BY <5>1, <5>2 DEF TreeInv
      <4>3. QED
        BY <4>1, <4>2
    <3>3. QED
      BY <3>1, <3>2 DEF TreeInv
  <2>8. \A s \in Nodes \ {a} : Object(s)' = Object(s) /\ Valid(s)' = Valid(s)
    BY <2>2, <2>a DEF Object, Valid, Nodes
  <2>9. ASSUME ~reused', context.active \in Nodes
        PROVE  context.active \in Nodes \ {a}
    BY <1>a, <2>a, <2>9
  <2>10. SeenInv' /\ VisitedInv'
    <3>1. ASSUME ~reused', context.active \in Nodes, NEW path, Rooted(path)',
                 path[Len(path)] = context.active
          PROVE  Rooted(path) /\ ClassifyPath(path)' = ClassifyPath(path)
      BY <1>g, <2>3, <2>4, <2>8, <2>9, <3>1
    <3>2. managerUp' /\ (reused => reused')
      BY <2>a
    <3>3. QED
      BY <1>f, <2>a, <2>8, <2>9, <3>1, <3>2
  <2>11. QED
    BY <2>6, <2>7, <2>10
<1>7. ASSUME NEW a \in Addresses, Destroy(a)
      PROVE  UiInv'
  <2> USE <1>7 DEF Destroy, Engine
  <2>1. /\ screens'[a] = Closed /\ kids'[a] = <<>>
        /\ \A b \in Addresses \ {a} : screens'[b] = screens[b]
        /\ \A s \in Nodes \ {a} : kids'[s] = kids[s]
    BY <1>a
  <2>2. \A s \in Nodes : \A c : Under(s, c)' => s # a /\ Under(s, c)
    BY <2>1 DEF Under
  <2>3. UiTypes'
    <3>a. Closed \in Screens
      BY DEF Closed, Screens, ClassNames, ScreenNames
    <3>1. Closed \in Screens /\ <<>> \in Seq(Addresses)
      BY <3>a
    <3>2. screens' \in [Addresses -> Screens] /\ kids' \in [Nodes -> Seq(Addresses)]
      BY <1>a, <3>1
    <3>3. QED
      BY <1>a, <3>2 DEF UiTypes, UiTypeOK
  <2>4. TreeInv'
    BY <1>a, <2>1, <2>2 DEF TreeInv
  <2>5. \A s \in Nodes \ {a} : Object(s)' = Object(s) /\ Valid(s)' = Valid(s)
    BY <2>1 DEF Object, Valid, Nodes
  <2>6. ~Valid(a)'
    BY <2>1, ManagerAssumption DEF Valid
  <2>7. SeenInv' /\ VisitedInv'
    <3>1. ASSUME context.active \in Nodes, Valid(context.active)', NEW path, Rooted(path)',
                 path[Len(path)] = context.active
          PROVE  Rooted(path) /\ ClassifyPath(path)' = ClassifyPath(path)
      BY <1>g, <2>1, <2>2, <2>5, <2>6, <3>1
    <3>2. managerUp' \/ context.active = NoScreen
      BY DEF SeenInv
    <3>3. QED
      BY <1>f, <2>5, <2>6, <3>1, <3>2
  <2>8. QED
    BY <2>3, <2>4, <2>7
<1>8. ASSUME NEW a \in Addresses, Unlink(a)
      PROVE  UiInv'
  <2>c. /\ turn' = "engine" /\ UNCHANGED <<turn, context, held, visited>>
        /\ UNCHANGED <<managerUp, screens, opened, reused>> /\ screens[a] = Closed
    BY <1>8 DEF Unlink, Engine
  <2>a. PICK parent \in Nodes : \E i \in DOMAIN kids[parent] :
            kids' = [kids EXCEPT ![parent] =
                        SubSeq(@, 1, i - 1) \o SubSeq(@, i + 1, Len(@))]
    BY <1>8 DEF Unlink
  <2>1. PICK i \in DOMAIN kids[parent] :
            kids' = [kids EXCEPT ![parent] =
                        SubSeq(@, 1, i - 1) \o SubSeq(@, i + 1, Len(@))]
    BY <2>a
  <2> DEFINE rest == SubSeq(kids[parent], 1, i - 1)
                        \o SubSeq(kids[parent], i + 1, Len(kids[parent]))
  <2>2. kids[parent] \in Seq(Addresses) /\ i \in 1..Len(kids[parent])
    BY <1>a
  <2>3. rest \in Seq(Addresses)
    BY <2>2
  <2>4. \A j \in DOMAIN rest : \E k \in DOMAIN kids[parent] : rest[j] = kids[parent][k]
    <3> DEFINE before == SubSeq(kids[parent], 1, i - 1)
               after == SubSeq(kids[parent], i + 1, Len(kids[parent]))
    <3>1. /\ before \in Seq(Addresses) /\ after \in Seq(Addresses)
          /\ Len(before) = i - 1 /\ Len(after) = Len(kids[parent]) - i
          /\ \A j \in 1..Len(before) : before[j] = kids[parent][j]
          /\ \A j \in 1..Len(after) : after[j] = kids[parent][i + j]
      BY <2>2
    <3>2. rest = before \o after
      BY DEF rest
    <3> HIDE DEF before, after, rest
    <3>3. SUFFICES ASSUME NEW j \in DOMAIN rest
                   PROVE  \E k \in DOMAIN kids[parent] : rest[j] = kids[parent][k]
      OBVIOUS
    <3>4. /\ j \in 1..Len(before) + Len(after)
          /\ rest[j] = IF j <= Len(before) THEN before[j] ELSE after[j - Len(before)]
      BY <3>1, <3>2, <3>3
    <3>5. CASE j <= Len(before)
      <4>1. j \in 1..Len(kids[parent]) /\ rest[j] = kids[parent][j]
        BY <2>2, <3>1, <3>4, <3>5
      <4>2. QED
        BY <2>2, <4>1
    <3>6. CASE ~(j <= Len(before))
      <4>0. Len(before) \in Nat /\ Len(after) \in Nat /\ j \in Nat
        BY <3>1, <3>4
      <4>1. j - Len(before) \in 1..Len(after) /\ rest[j] = after[j - Len(before)]
        BY <3>4, <3>6, <4>0
      <4>2. rest[j] = kids[parent][i + (j - Len(before))]
        BY <3>1, <4>1
      <4>3. i + (j - Len(before)) \in 1..Len(kids[parent])
        BY <2>2, <3>1, <4>1
      <4>4. QED
        BY <2>2, <4>2, <4>3
    <3>7. QED
      BY <3>5, <3>6
  <2>b. kids' = [kids EXCEPT ![parent] = rest]
    BY <2>1
  <2> HIDE DEF rest
  <2>5. kids'[parent] = rest /\ \A s \in Nodes \ {parent} : kids'[s] = kids[s]
    BY <1>a, <2>b
  <2>6. ASSUME NEW s \in Nodes, NEW c, Under(s, c)'
        PROVE  Under(s, c)
    <3>1. PICK j \in DOMAIN kids'[s] : kids'[s][j] = c
      BY <2>6 DEF Under
    <3>2. CASE s = parent
      BY <2>4, <2>5, <3>1, <3>2 DEF Under
    <3>3. CASE s # parent
      BY <2>5, <3>1, <3>3 DEF Under
    <3>4. QED
      BY <3>2, <3>3
  <2>7. UiTypes'
    <3>1. kids' \in [Nodes -> Seq(Addresses)]
      BY <1>a, <2>b, <2>3
    <3>2. QED
      BY <1>a, <2>c, <3>1 DEF UiTypes, UiTypeOK
  <2>8. TreeInv'
    <3>1. kids[parent] # <<>>
      BY <2>2
    <3>2. \A b \in Addresses : screens[b] = Closed => b # parent
      BY <3>1 DEF TreeInv
    <3>3. QED
      BY <1>a, <2>c, <2>5, <2>6, <3>2 DEF TreeInv
  <2>9. \A s : Object(s)' = Object(s) /\ Valid(s)' = Valid(s)
    BY <2>c DEF Object, Valid
  <2>10. ASSUME NEW path, Rooted(path)'
         PROVE  Rooted(path) /\ ClassifyPath(path)' = ClassifyPath(path)
    <3>1. path \in Seq(Nodes)
      BY <2>10 DEF Rooted
    <3>2. \A k \in 2..Len(path) : path[k - 1] \in Nodes
      BY <3>1
    <3>3. Rooted(path)
      BY <2>6, <2>10, <3>2, PathWas
    <3>4. QED
      BY <2>9, <3>1, <3>3, SameVerdict
  <2>11. SeenInv' /\ VisitedInv'
    <3>1. managerUp' \/ context.active = NoScreen
      BY <2>c DEF SeenInv
    <3>2. QED
      BY <1>f, <2>c, <2>9, <2>10, <3>1
  <2>12. QED
    BY <2>7, <2>8, <2>11
<1>9. ASSUME NEW a \in Addresses, SetInput(a)
      PROVE  UiInv'
  <2> USE <1>9 DEF SetInput, Engine
  <2>1. screens[a] \in Screens /\ screens[a] # Closed /\ screens[a].serial # 0
    BY <1>a DEF TreeInv
  <2>2. screens'[a] = [screens[a] EXCEPT !.enabled = ~screens[a].enabled]
    BY <1>a
  <2>3. /\ screens'[a] \in Screens /\ screens'[a].class = screens[a].class
        /\ screens'[a].name = screens[a].name /\ screens'[a].serial = screens[a].serial
    BY <2>1, <2>2 DEF Screens
  <2>4. screens'[a] # Closed /\ \A b \in Addresses \ {a} : screens'[b] = screens[b]
    BY <1>a, <2>1, <2>3 DEF Closed
  <2>5. \A s, c : Under(s, c)' = Under(s, c)
    BY DEF Under
  <2>6. UiTypes'
    <3>1. screens' \in [Addresses -> Screens]
      BY <1>a, <2>3
    <3>2. QED
      BY <1>a, <3>1 DEF UiTypes, UiTypeOK
  <2>7. TreeInv'
    BY <2>1, <2>3, <2>4, <2>5 DEF TreeInv
  <2>8. \A s \in Nodes : /\ Valid(s)' = Valid(s) /\ Object(s)'.class = Object(s).class
                         /\ Object(s)'.name = Object(s).name
                         /\ Object(s)'.serial = Object(s).serial
    BY <2>1, <2>3, <2>4 DEF Valid, Object, Nodes
  <2>9. ASSUME NEW path, Rooted(path)'
        PROVE  Rooted(path) /\ ClassifyPath(path)' = ClassifyPath(path)
    <3>1. path \in Seq(Nodes) /\ Rooted(path)
      BY <2>5, <2>9, PathWas DEF Rooted
    <3>2. \A i \in DOMAIN path : path[i] \in Nodes
      BY <3>1
    <3>3. QED
      BY <2>8, <3>1, <3>2, SameVerdict
  <2>10. SeenInv' /\ VisitedInv'
    <3>1. managerUp' \/ context.active = NoScreen
      BY DEF SeenInv
    <3>2. QED
      BY <1>f, <2>8, <2>9, <3>1
  <2>11. QED
    BY <2>6, <2>7, <2>10
<1>10. CASE UNCHANGED uiVars
  <2> USE <1>10 DEF uiVars
  <2>1. UiTypes'
    BY <1>a DEF UiTypes, UiTypeOK
  <2>2. turn' = "input" /\ managerUp' => context.active = Deepest
    BY DEF SeenInv
  <2>3. TreeInv' /\ SeenInv' /\ VisitedInv'
    BY <1>b, <1>c, <1>d, <2>2
  <2>4. QED
    BY <2>1, <2>3
<1>11. QED
  BY <1>1, <1>2, <1>3, <1>4, <1>5, <1>6, <1>7, <1>8, <1>9, <1>10 DEF UiNext

(* An old DOWN cannot confirm a new screen (ui_context.h 26-30, controls.c     *)
(* 782-786), for any screens, any depth and any number of them.                *)
THEOREM OldDownsStayOut == UiSpec => []OldDownStaysOut
<1>1. UiInv => OldDownStaysOut
  <2> SUFFICES ASSUME UiInv, held, ~reused
               PROVE  \/ Cardinality({v.serial : v \in visited}) <= 1
                      \/ \A v \in visited : v.name \in Pair /\ v.context = "game"
    BY DEF OldDownStaysOut
  <2> DEFINE serials == {v.serial : v \in visited}
  <2>1. CASE \A v, w \in visited : v.serial = w.serial
    <3>1. CASE serials = {}
      BY <3>1, FS_EmptySet
    <3>2. CASE serials # {}
      <4>1. PICK s : serials = {s}
        BY <2>1, <3>2
      <4> HIDE DEF serials
      <4>2. Cardinality({s}) = 1
        BY FS_Singleton
      <4>3. QED
        BY <4>1, <4>2 DEF serials
    <3>3. QED
      BY <3>1, <3>2
  <2>2. QED
    BY <2>1 DEF UiInv, VisitedInv
<1>2. QED
  BY <1>1, UiInitInv, UiStepInv, PTL DEF UiSpec

(* The loader's record of the active screen is a screen's address or none, and *)
(* the engine's tree keeps its shape.                                          *)
THEOREM ScreensTypeCorrect == UiSpec => []UiTypeOK
<1>1. UiInv => UiTypeOK
  BY DEF UiInv, UiTypes
<1>2. QED
  BY <1>1, UiInitInv, UiStepInv, PTL DEF UiSpec
-----------------------------------------------------------------------------
(* The loop of a conversion, after each piece. *)
Joins(out, pieces, room) ==
    /\ out[0] = <<>>
    /\ \A i \in 1..Len(pieces) :
          out[i] = IF Len(out[i - 1]) + Len(pieces[i]) <= room THEN out[i - 1] \o pieces[i]
                   ELSE out[i - 1]

LEMMA JoinedStepwise ==
    ASSUME NEW S, NEW pieces \in Seq(S), NEW room
    PROVE  \E out : Joins(out, pieces, room) /\ Joined(pieces, room) = out[Len(pieces)]
<1> DEFINE Next(before, piece) == IF Len(before) + Len(piece) <= room THEN before \o piece
                                  ELSE before
           Eqn(f, k) == f = [i \in 0..k |-> IF i = 0 THEN <<>> ELSE Next(f[i - 1], pieces[i])]
           Undefined == {k \in 0..Len(pieces) : ~(\E f : Eqn(f, k))}
<1>0. Len(pieces) \in Nat
  OBVIOUS
<1>1. \E f : Eqn(f, Len(pieces))
  <2> HIDE DEF Next, Eqn
  <2>1. SUFFICES ASSUME Undefined # {}
                 PROVE  FALSE
    <3>1. Len(pieces) \in 0..Len(pieces)
      BY <1>0
    <3>2. QED
      BY <3>1
  <2>2. PICK k \in Undefined : \A m \in Undefined : k <= m
    <3>1. Undefined \in SUBSET Nat
      BY <1>0
    <3> HIDE DEF Undefined
    <3>2. QED
      BY <2>1, <3>1, LeastOne
  <2>3. k # 0
    <3>1. Eqn([i \in 0..0 |-> <<>>], 0)
      BY DEF Eqn
    <3>2. QED
      BY <3>1
  <2>4. k \in Nat /\ k - 1 \in 0..Len(pieces) /\ ~(k <= k - 1)
    BY <1>0, <2>3
  <2>5. PICK f : Eqn(f, k - 1)
    BY <2>2, <2>4
  <2> DEFINE g == [i \in 0..k |-> IF i = 0 THEN <<>> ELSE Next(f[i - 1], pieces[i])]
  <2>6. \A i \in 0..k - 1 : g[i] = f[i]
    <3>1. f = [i \in 0..k - 1 |-> IF i = 0 THEN <<>> ELSE Next(f[i - 1], pieces[i])]
      BY <2>5 DEF Eqn
    <3>2. QED
      BY <2>4, <3>1
  <2>7. \A i \in 0..k : i # 0 => i - 1 \in 0..k - 1
    BY <2>4
  <2>8. Eqn(g, k)
    BY <2>6, <2>7 DEF Eqn
  <2>9. QED
    BY <2>2, <2>8
<1>2. QED
  <2> DEFINE f == CHOOSE f : Eqn(f, Len(pieces))
  <2>1. Eqn(f, Len(pieces))
    BY <1>1
  <2>2. Joined(pieces, room) = f[Len(pieces)]
    BY DEF Joined
  <2> HIDE DEF f
  <2>3. f = [i \in 0..Len(pieces) |-> IF i = 0 THEN <<>> ELSE Next(f[i - 1], pieces[i])]
    BY <2>1
  <2>4. f[0] = <<>>
    BY <1>0, <2>3
  <2>5. \A i \in 1..Len(pieces) : f[i] = Next(f[i - 1], pieces[i])
    BY <1>0, <2>3
  <2>6. Joins(f, pieces, room)
    BY <2>4, <2>5 DEF Joins
  <2>7. QED
    BY <2>2, <2>6

(* What a loop has put out it keeps. *)
LEMMA JoinsGrow ==
    ASSUME NEW S, NEW pieces \in Seq(Seq(S)), NEW room \in Nat, NEW out,
           Joins(out, pieces, room)
    PROVE  /\ \A i \in 0..Len(pieces) : out[i] \in Seq(S) /\ Len(out[i]) \in Nat
           /\ \A i, j \in 0..Len(pieces) : i <= j =>
                /\ Len(out[i]) <= Len(out[j])
                /\ \A k \in 1..Len(out[i]) : out[j][k] = out[i][k]
<1>0. Len(pieces) \in Nat /\ \A i \in 1..Len(pieces) : pieces[i] \in Seq(S)
  OBVIOUS
<1>1. \A i \in 0..Len(pieces) : out[i] \in Seq(S)
  <2> DEFINE Bad1 == {i \in 0..Len(pieces) : out[i] \notin Seq(S)}
  <2>1. SUFFICES ASSUME Bad1 # {}
                 PROVE  FALSE
    OBVIOUS
  <2>2. PICK i \in Bad1 : \A m \in Bad1 : i <= m
    <3>1. Bad1 \in SUBSET Nat
      BY <1>0
    <3> HIDE DEF Bad1
    <3>2. QED
      BY <2>1, <3>1, LeastOne
  <2>3. i # 0
    <3>1. out[0] \in Seq(S)
      <4>1. <<>> \in Seq(S)
        OBVIOUS
      <4>2. out[0] = <<>>
        BY DEF Joins
      <4>3. QED
        BY <4>1, <4>2
    <3>2. QED
      BY <3>1
  <2>4. i \in 1..Len(pieces) /\ i - 1 \in 0..Len(pieces) /\ ~(i <= i - 1)
    BY <1>0, <2>3
  <2>5. out[i - 1] \in Seq(S)
    BY <2>2, <2>4
  <2>6. out[i] \in Seq(S)
    <3>1. pieces[i] \in Seq(S)
      BY <1>0, <2>4
    <3>2. out[i - 1] \o pieces[i] \in Seq(S)
      BY <2>5, <3>1
    <3>3. out[i] \in {out[i - 1] \o pieces[i], out[i - 1]}
      BY <2>4 DEF Joins
    <3>4. QED
      BY <2>5, <3>2, <3>3
  <2>7. QED
    BY <2>6
<1>2. ASSUME NEW i \in 0..Len(pieces)
      PROVE  \A j \in 0..Len(pieces) : i <= j =>
                /\ Len(out[i]) <= Len(out[j])
                /\ \A k \in 1..Len(out[i]) : out[j][k] = out[i][k]
  <2> DEFINE Keeps(j) == /\ Len(out[i]) <= Len(out[j])
                         /\ \A k \in 1..Len(out[i]) : out[j][k] = out[i][k]
             Bad2 == {j \in i..Len(pieces) : ~Keeps(j)}
  <2>1. SUFFICES ASSUME Bad2 # {}
                 PROVE  FALSE
    BY <1>0
  <2>2. PICK j \in Bad2 : \A m \in Bad2 : j <= m
    <3>1. Bad2 \in SUBSET Nat
      BY <1>0
    <3> HIDE DEF Bad2
    <3>2. QED
      BY <2>1, <3>1, LeastOne
  <2>3. Len(out[i]) \in Nat
    BY <1>1
  <2>4. j # i
    BY <2>3
  <2>5. j \in 1..Len(pieces) /\ j - 1 \in i..Len(pieces) /\ ~(j <= j - 1)
    BY <1>0, <2>4
  <2>6. Keeps(j - 1)
    BY <2>2, <2>5
  <2>7. out[j - 1] \in Seq(S) /\ pieces[j] \in Seq(S)
    BY <1>0, <1>1, <2>5
  <2>8. \/ out[j] = out[j - 1] \o pieces[j]
        \/ out[j] = out[j - 1]
    BY <2>5 DEF Joins
  <2>9. /\ Len(out[j - 1]) <= Len(out[j])
        /\ \A k \in 1..Len(out[j - 1]) : out[j][k] = out[j - 1][k]
    <3> DEFINE sofar == out[j - 1]
               piece == pieces[j]
    <3>1. sofar \in Seq(S) /\ piece \in Seq(S) /\ out[j] \in {sofar \o piece, sofar}
      BY <2>7, <2>8
    <3> HIDE DEF sofar, piece
    <3>2. /\ Len(sofar) <= Len(sofar \o piece)
          /\ \A k \in 1..Len(sofar) : (sofar \o piece)[k] = sofar[k]
      BY <3>1
    <3>3. /\ Len(sofar) <= Len(out[j])
          /\ \A k \in 1..Len(sofar) : out[j][k] = sofar[k]
      BY <3>1, <3>2
    <3>4. QED
      BY <3>3 DEF sofar
  <2>10. Keeps(j)
    <3>1. Len(out[j - 1]) \in Nat /\ Len(out[j]) \in Nat
      BY <1>1, <2>5, <2>7
    <3>2. QED
      BY <2>3, <2>6, <2>9, <3>1
  <2>11. QED
    BY <2>10
<1>3. \A i, j \in 0..Len(pieces) : i <= j =>
         /\ Len(out[i]) <= Len(out[j])
         /\ \A k \in 1..Len(out[i]) : out[j][k] = out[i][k]
  BY <1>2, Zenon
<1>4. \A i \in 0..Len(pieces) : out[i] \in Seq(S) /\ Len(out[i]) \in Nat
  <2>1. \A s \in Seq(S) : Len(s) \in Nat
    OBVIOUS
  <2>2. QED
    BY <1>1, <2>1, Zenon
<1>5. QED
  BY <1>3, <1>4, Zenon
-----------------------------------------------------------------------------
(* A name goes to UTF-16 and back.  A code point is any string: the four named *)
(* here are strings too, which the provers cannot tell.                        *)
CodePoints == STRING \cup {Bad, "a", "e3", "e4"}
Units == CodePoints \X Nat
Eight(text) == [i \in DOMAIN text |-> Bytes(text[i])]
Sixteen(text) == [i \in DOMAIN text |-> Utf16(text[i])]
Points(units) == [i \in DOMAIN units |-> PointAt(units, i)]

LEMMA Pieces ==
    ASSUME NEW p \in CodePoints, NEW w \in Nat
    PROVE  /\ [i \in 1..w |-> <<p, i>>] \in Seq(Units)
           /\ Len([i \in 1..w |-> <<p, i>>]) = w
<1> DEFINE Unit(i) == <<p, i>>
           f == [i \in 1..w |-> Unit(i)]
<1>1. \A i \in 1..w : Unit(i) \in Units
  BY DEF Units
<1>2. f \in [1..w -> Units]
  <2> HIDE DEF Unit
  <2>1. QED
    BY <1>1
<1>3. f \in Seq(Units) /\ Len(f) = w
  <2> HIDE DEF f
  <2>1. QED
    BY <1>2
<1>4. QED
  BY <1>3

LEMMA Widths ==
    ASSUME NEW p \in CodePoints
    PROVE  /\ Width(p) \in 1..4 /\ UnitsOf(p) \in 1..2 /\ UnitsOf(p) <= Width(p)
           /\ Bytes(p) \in Seq(Units) /\ Len(Bytes(p)) = Width(p)
           /\ Utf16(p) \in Seq(Units) /\ Len(Utf16(p)) = UnitsOf(p)
           /\ \A i \in 1..UnitsOf(p) : Utf16(p)[i] = <<p, i>>
<1>1. Width(p) \in {1, 2, 3, 4}
  BY DEF Width
<1>2. UnitsOf(p) \in {1, 2} /\ UnitsOf(p) <= Width(p)
  <2>1. CASE Width(p) = 4
    BY <2>1 DEF UnitsOf
  <2>2. CASE Width(p) # 4
    <3>1. UnitsOf(p) = 1
      BY <2>2 DEF UnitsOf
    <3>2. QED
      BY <1>1, <3>1
  <2>3. QED
    BY <2>1, <2>2
<1>3. Width(p) \in Nat /\ UnitsOf(p) \in Nat
  BY <1>1, <1>2
<1>4. Bytes(p) \in Seq(Units) /\ Len(Bytes(p)) = Width(p)
  BY <1>3, Pieces DEF Bytes
<1>5. Utf16(p) \in Seq(Units) /\ Len(Utf16(p)) = UnitsOf(p)
  BY <1>3, Pieces DEF Utf16
<1>6. QED
  BY <1>1, <1>2, <1>4, <1>5 DEF Utf16

LEMMA PiecesOf ==
    ASSUME NEW text \in Seq(CodePoints)
    PROVE  /\ Eight(text) \in Seq(Seq(Units)) /\ Len(Eight(text)) = Len(text)
           /\ Sixteen(text) \in Seq(Seq(Units)) /\ Len(Sixteen(text)) = Len(text)
           /\ \A i \in 1..Len(text) :
                 /\ text[i] \in CodePoints
                 /\ Eight(text)[i] = Bytes(text[i]) /\ Sixteen(text)[i] = Utf16(text[i])
<1>1. DOMAIN text = 1..Len(text) /\ Len(text) \in Nat /\ \A i \in 1..Len(text) : text[i] \in CodePoints
  OBVIOUS
<1>2. \A i \in 1..Len(text) : Bytes(text[i]) \in Seq(Units) /\ Utf16(text[i]) \in Seq(Units)
  BY <1>1, Widths
<1>3. Eight(text) \in [1..Len(text) -> Seq(Units)] /\ Sixteen(text) \in [1..Len(text) -> Seq(Units)]
  BY <1>1, <1>2 DEF Eight, Sixteen
<1>4. QED
  BY <1>1, <1>3 DEF Eight, Sixteen

LEMMA Behind ==
    ASSUME NEW S, NEW s \in Seq(S), NEW t \in Seq(S), NEW r, r = s \o t
    PROVE  /\ Len(r) = Len(s) + Len(t)
           /\ \A k \in 1..Len(t) : r[Len(s) + k] = t[k]
<1>1. Len(s) \in Nat /\ Len(t) \in Nat
  OBVIOUS
<1>2. \A k \in 1..Len(t) : /\ Len(s) + k \in 1..Len(s) + Len(t) /\ ~(Len(s) + k <= Len(s))
                            /\ Len(s) + k - Len(s) = k
  BY <1>1
<1>3. QED
  BY <1>1, <1>2, ConcatProperties

(* Four bytes for each code point are enough. *)
LEMMA AllBytes ==
    ASSUME NEW text \in Seq(CodePoints), NEW f, Joins(f, Eight(text), 4 * Len(text))
    PROVE  \A n \in 1..Len(text) : /\ f[n] = f[n - 1] \o Bytes(text[n])
                                   /\ Len(f[n]) = Len(f[n - 1]) + Width(text[n])
<1> DEFINE N == Len(text)
           Long == {n \in 0..N : ~(Len(f[n]) <= 4 * n)}
<1>1. N \in Nat /\ 4 * N \in Nat /\ Len(Eight(text)) = N
  BY PiecesOf
<1>2. \A n \in 0..N : f[n] \in Seq(Units) /\ Len(f[n]) \in Nat
  BY <1>1, PiecesOf, JoinsGrow
<1>3. ASSUME NEW n \in 1..N, Len(f[n - 1]) <= 4 * (n - 1)
      PROVE  /\ f[n] = f[n - 1] \o Bytes(text[n])
             /\ Len(f[n]) = Len(f[n - 1]) + Width(text[n])
             /\ Len(f[n]) <= 4 * n
  <2>1. /\ Eight(text)[n] = Bytes(text[n]) /\ Bytes(text[n]) \in Seq(Units)
        /\ Len(Bytes(text[n])) = Width(text[n]) /\ Width(text[n]) \in 1..4
    BY <1>1, PiecesOf, Widths
  <2>2. n - 1 \in 0..N
    BY <1>1
  <2>3. Len(f[n - 1]) + Width(text[n]) <= 4 * N
    BY <1>1, <1>2, <1>3, <2>1, <2>2
  <2>4. f[n] = f[n - 1] \o Bytes(text[n])
    BY <1>1, <2>1, <2>3 DEF Joins
  <2>5. Len(f[n]) = Len(f[n - 1]) + Width(text[n])
    <3>1. f[n - 1] \in Seq(Units)
      BY <1>2, <2>2
    <3> DEFINE piece == Bytes(text[n])
               wide == Width(text[n])
    <3>2. piece \in Seq(Units) /\ Len(piece) = wide /\ f[n] = f[n - 1] \o piece
      BY <2>1, <2>4
    <3> HIDE DEF piece, wide
    <3>3. Len(f[n]) = Len(f[n - 1]) + wide
      BY <3>1, <3>2, Behind
    <3>4. QED
      BY <3>3 DEF wide
  <2>6. QED
    BY <1>2, <1>3, <2>1, <2>2, <2>4, <2>5
<1>4. Long = {}
  <2>1. SUFFICES ASSUME Long # {}
                 PROVE  FALSE
    OBVIOUS
  <2>2. PICK n \in Long : \A m \in Long : n <= m
    <3>1. Long \in SUBSET Nat
      BY <1>1
    <3> HIDE DEF Long
    <3>2. QED
      BY <2>1, <3>1, LeastOne
  <2>3. f[0] = <<>> /\ Len(<<>>) = 0
    BY DEF Joins
  <2>4. n # 0
    BY <2>3
  <2>5. n \in 1..N /\ n - 1 \in 0..N /\ ~(n <= n - 1)
    BY <1>1, <2>4
  <2>6. Len(f[n - 1]) <= 4 * (n - 1)
    BY <2>2, <2>5
  <2>7. QED
    BY <1>3, <2>5, <2>6
<1>5. \A n \in 1..N : n - 1 \in 0..N
  BY <1>1
<1>6. QED
  BY <1>3, <1>4, <1>5

(* Where all its bytes fit, so do its units. *)
UnitsFit(text, f, g) ==
    /\ \A n \in 0..Len(text) : n <= Len(g[n]) /\ Len(g[n]) <= Len(f[n])
    /\ \A n \in 1..Len(text) :
          /\ Len(g[n]) = Len(g[n - 1]) + UnitsOf(text[n])
          /\ \A k \in 1..UnitsOf(text[n]) :
                g[Len(text)][Len(g[n - 1]) + k] = <<text[n], k>>

LEMMA AllUnits ==
    ASSUME NEW text \in Seq(CodePoints), NEW f, Joins(f, Eight(text), 4 * Len(text)),
           NEW g, Joins(g, Sixteen(text), Len(f[Len(text)]))
    PROVE  UnitsFit(text, f, g)
<1> DEFINE N == Len(text)
           room == Len(f[N])
           Wrong == {n \in 0..N : ~(n <= Len(g[n]) /\ Len(g[n]) <= Len(f[n]))}
<1>1. N \in Nat /\ 4 * N \in Nat /\ Len(Eight(text)) = N /\ Len(Sixteen(text)) = N
  BY PiecesOf
<1>2. /\ \A n \in 0..N : f[n] \in Seq(Units) /\ Len(f[n]) \in Nat
      /\ \A n \in 0..N : Len(f[n]) <= Len(f[N])
  <2>1. Joins(f, Eight(text), 4 * N) /\ Eight(text) \in Seq(Seq(Units))
    BY PiecesOf
  <2>2. N \in 0..N /\ \A n \in 0..N : n <= N
    BY <1>1
  <2> HIDE DEF N
  <2>3. QED
    BY <1>1, <2>1, <2>2, JoinsGrow
<1>3. room \in Nat
  BY <1>1, <1>2
<1>4. /\ \A n \in 0..N : g[n] \in Seq(Units) /\ Len(g[n]) \in Nat
      /\ \A n \in 0..N : /\ Len(g[n]) <= Len(g[N])
                         /\ \A k \in 1..Len(g[n]) : g[N][k] = g[n][k]
  BY <1>1, <1>3, PiecesOf, JoinsGrow
<1>5. \A n \in 1..N : n \in 0..N /\ n - 1 \in 0..N /\ ~(n <= n - 1)
  BY <1>1
<1>6. ASSUME NEW n \in 1..N, n - 1 <= Len(g[n - 1]), Len(g[n - 1]) <= Len(f[n - 1])
      PROVE  /\ n <= Len(g[n]) /\ Len(g[n]) <= Len(f[n])
             /\ Len(g[n]) = Len(g[n - 1]) + UnitsOf(text[n])
             /\ \A k \in 1..UnitsOf(text[n]) : g[N][Len(g[n - 1]) + k] = <<text[n], k>>
  <2> DEFINE units == Utf16(text[n])
             w == UnitsOf(text[n])
  <2>1. /\ Sixteen(text)[n] = units /\ units \in Seq(Units) /\ Len(units) = w
        /\ w \in 1..2 /\ w <= Width(text[n]) /\ Width(text[n]) \in 1..4
        /\ \A k \in 1..w : units[k] = <<text[n], k>>
    BY <1>1, PiecesOf, Widths
  <2>2. Len(f[n]) = Len(f[n - 1]) + Width(text[n])
    BY AllBytes
  <2>3. /\ g[n - 1] \in Seq(Units) /\ Len(g[n - 1]) \in Nat /\ Len(f[n - 1]) \in Nat
        /\ Len(f[n]) \in Nat /\ Len(f[n]) <= room
    BY <1>2, <1>4, <1>5
  <2> HIDE DEF units, w, room, N
  <2>4. Len(g[n - 1]) + Len(units) <= room
    <3> DEFINE a == Len(g[n - 1])
               b == Len(f[n - 1])
               c == Len(f[n])
               wide == Width(text[n])
    <3>1. /\ a \in Nat /\ b \in Nat /\ c \in Nat /\ wide \in Nat /\ w \in Nat
          /\ a <= b /\ w <= wide /\ c = b + wide /\ c <= room /\ Len(units) = w
      BY <1>6, <2>1, <2>2, <2>3
    <3> HIDE DEF a, b, c, wide
    <3>2. a + w <= room
      BY <1>3, <3>1
    <3>3. QED
      BY <3>1, <3>2 DEF a
  <2>5. g[n] = g[n - 1] \o units
    <3>1. n \in 1..Len(Sixteen(text))
      BY <1>1
    <3>2. Joins(g, Sixteen(text), room)
      BY DEF room, N
    <3>3. QED
      BY <2>1, <2>4, <3>1, <3>2 DEF Joins
  <2>6. /\ Len(g[n]) = Len(g[n - 1]) + w
        /\ \A k \in 1..w : g[n][Len(g[n - 1]) + k] = units[k]
    BY <2>1, <2>3, <2>5, Behind
  <2>7. \A k \in 1..w : Len(g[n - 1]) + k \in 1..Len(g[n])
    BY <2>1, <2>3, <2>6
  <2>8. \A k \in 1..w : g[N][Len(g[n - 1]) + k] = <<text[n], k>>
    BY <1>4, <1>5, <2>1, <2>6, <2>7
  <2>9. n <= Len(g[n]) /\ Len(g[n]) <= Len(f[n])
    <3> DEFINE a == Len(g[n - 1])
               b == Len(f[n - 1])
               c == Len(f[n])
               e == Len(g[n])
               wide == Width(text[n])
    <3>1. /\ a \in Nat /\ b \in Nat /\ wide \in 1..4 /\ w \in 1..2
          /\ n - 1 <= a /\ a <= b /\ w <= wide /\ c = b + wide /\ e = a + w
      BY <1>6, <2>1, <2>2, <2>3, <2>6
    <3>2. n \in Nat
      BY <1>1
    <3> HIDE DEF a, b, c, e, wide
    <3>3. n <= e /\ e <= c
      BY <3>1, <3>2
    <3>4. QED
      BY <3>3 DEF c, e
  <2>10. QED
    BY <2>6, <2>8, <2>9 DEF w
<1>7. Wrong = {}
  <2>1. SUFFICES ASSUME Wrong # {}
                 PROVE  FALSE
    OBVIOUS
  <2>2. PICK n \in Wrong : \A m \in Wrong : n <= m
    <3>1. Wrong \in SUBSET Nat
      BY <1>1
    <3> HIDE DEF Wrong
    <3>2. QED
      BY <2>1, <3>1, LeastOne
  <2>3. f[0] = <<>> /\ g[0] = <<>> /\ Len(<<>>) = 0
    BY DEF Joins
  <2>4. n # 0
    BY <2>3
  <2>5. n \in 1..N
    BY <1>1, <2>4
  <2>6. n - 1 <= Len(g[n - 1]) /\ Len(g[n - 1]) <= Len(f[n - 1])
    BY <1>5, <2>2, <2>5
  <2>7. QED
    BY <1>6, <2>5, <2>6
<1>8. QED
  BY <1>5, <1>6, <1>7 DEF UnitsFit


LEMMA Surrogates ==
    ASSUME NEW p \in CodePoints
    PROVE  /\ High(<<p, 1>>) <=> UnitsOf(p) = 2
           /\ ~Low(<<p, 1>>) /\ Low(<<p, 2>>) /\ ~High(<<p, 2>>)
BY DEF High, Low

(* Every unit gives one code point or none. *)
LEMMA OnePoint ==
    ASSUME NEW units \in Seq(Units)
    PROVE  /\ Points(units) \in Seq(Seq(CodePoints)) /\ Len(Points(units)) = Len(units)
           /\ \A i \in 1..Len(units) :
                 /\ Points(units)[i] = PointAt(units, i)
                 /\ Len(PointAt(units, i)) <= 1
<1>1. DOMAIN units = 1..Len(units) /\ Len(units) \in Nat
  OBVIOUS
<1>2. ASSUME NEW i \in 1..Len(units)
      PROVE  PointAt(units, i) \in Seq(CodePoints) /\ Len(PointAt(units, i)) <= 1
  <2>1. units[i][1] \in CodePoints
    BY DEF Units
  <2>2. Bad \in CodePoints
    BY DEF CodePoints
  <2>3. PointAt(units, i) \in {<<>>, <<units[i][1]>>, <<Bad>>}
    BY DEF PointAt
  <2> DEFINE q == PointAt(units, i)
             p == units[i][1]
  <2> HIDE DEF q, p
  <2>4. \A x \in CodePoints : <<x>> \in Seq(CodePoints) /\ Len(<<x>>) <= 1
    OBVIOUS
  <2>5. <<>> \in Seq(CodePoints) /\ Len(<<>>) <= 1
    OBVIOUS
  <2>6. q \in Seq(CodePoints) /\ Len(q) <= 1
    BY <2>1, <2>2, <2>3, <2>4, <2>5 DEF q, p
  <2>7. QED
    BY <2>6 DEF q
<1>3. Points(units) \in [1..Len(units) -> Seq(CodePoints)]
  BY <1>1, <1>2 DEF Points
<1>4. QED
  BY <1>1, <1>2, <1>3 DEF Points

LEMMA NextPoint ==
    ASSUME NEW units \in Seq(Units), NEW d, Joins(d, Points(units), Len(units)),
           NEW i \in 1..Len(units), Len(d[i - 1]) <= i - 1
    PROVE  d[i] = d[i - 1] \o PointAt(units, i)
<1> DEFINE size == Len(units)
           point == PointAt(units, i)
           before == Len(d[i - 1])
           long == Len(point)
<1>1. /\ Points(units) \in Seq(Seq(CodePoints)) /\ Len(Points(units)) = size
      /\ Points(units)[i] = point /\ long <= 1 /\ point \in Seq(CodePoints)
  BY OnePoint
<1>2. size \in Nat /\ i - 1 \in 0..size /\ long \in Nat
  BY <1>1
<1>3. before \in Nat
  BY <1>1, <1>2, JoinsGrow
<1>4. before + long <= size
  <2> HIDE DEF before, long, size
  <2>1. i \in 1..size /\ before <= i - 1
    BY DEF size, before
  <2>2. QED
    BY <1>1, <1>2, <1>3, <2>1
<1>5. QED
  BY <1>1, <1>4 DEF Joins

(* What is left behind the units of a name does not change its code points. *)
PointsBack(text, g, d) ==
    \A n \in 0..Len(text) : /\ Len(d[Len(g[n])]) = n
                            /\ \A k \in 1..n : d[Len(g[n])][k] = text[k]

LEMMA UnitsBack ==
    ASSUME NEW text \in Seq(CodePoints), NEW f, Joins(f, Eight(text), 4 * Len(text)),
           NEW g, Joins(g, Sixteen(text), Len(f[Len(text)])),
           NEW units \in Seq(Units), Len(units) = Len(f[Len(text)]),
           \A k \in 1..Len(g[Len(text)]) : units[k] = g[Len(text)][k],
           NEW d, Joins(d, Points(units), Len(units))
    PROVE  PointsBack(text, g, d)
<1> DEFINE N == Len(text)
           size == Len(units)
           at(n) == Len(g[n])
           Back(n) == Len(d[at(n)]) = n /\ \A k \in 1..n : d[at(n)][k] = text[k]
           Wrong == {n \in 0..N : ~Back(n)}
<1>0. UnitsFit(text, f, g)
  BY AllUnits
<1>1. N \in Nat /\ size \in Nat
  OBVIOUS
<1>2. /\ \A n \in 0..N : at(n) \in Nat /\ at(n) <= size /\ n <= at(n)
      /\ \A n \in 0..N : at(n) <= at(N)
  <2>1. /\ Eight(text) \in Seq(Seq(Units)) /\ Len(Eight(text)) = N
        /\ Sixteen(text) \in Seq(Seq(Units)) /\ Len(Sixteen(text)) = N
        /\ 4 * N \in Nat /\ N \in 0..N /\ \A n \in 0..N : n <= N
    BY <1>1, PiecesOf
  <2>2. \A n \in 0..N : Len(f[n]) \in Nat /\ Len(f[n]) <= Len(f[N])
    BY <2>1, JoinsGrow
  <2>3. \A n \in 0..N : at(n) \in Nat /\ at(n) <= at(N)
    BY <2>1, <2>2, JoinsGrow
  <2>4. \A n \in 0..N : n <= at(n) /\ at(n) <= Len(f[n])
    BY <1>0 DEF UnitsFit
  <2> HIDE DEF at, N
  <2>5. \A n \in 0..N : at(n) <= size
    <3>1. SUFFICES ASSUME NEW n \in 0..N
                   PROVE  at(n) <= size
      OBVIOUS
    <3> DEFINE a == at(n)
               b == Len(f[n])
    <3>2. a \in Nat /\ b \in Nat /\ a <= b /\ b <= size
      BY <2>2, <2>3, <2>4 DEF N
    <3> HIDE DEF a, b
    <3>3. a <= size
      BY <1>1, <3>2
    <3>4. QED
      BY <3>3 DEF a
  <2>6. QED
    BY <2>3, <2>4, <2>5
<1>3. \A n \in 1..N : n \in 0..N /\ n - 1 \in 0..N /\ ~(n <= n - 1) /\ n - 1 + 1 = n
  BY <1>1
<1>4. /\ \A i \in 0..size : d[i] \in Seq(CodePoints) /\ Len(d[i]) \in Nat
      /\ Len(Points(units)) = size
  <2>1. Points(units) \in Seq(Seq(CodePoints)) /\ Len(Points(units)) = size
    BY OnePoint
  <2>2. QED
    BY <1>1, <2>1, JoinsGrow
<1>step. \A n \in 1..N : /\ Len(g[n]) = Len(g[n - 1]) + UnitsOf(text[n])
                           /\ \A k \in 1..UnitsOf(text[n]) :
                                 g[N][Len(g[n - 1]) + k] = <<text[n], k>>
  BY <1>0 DEF UnitsFit
<1>5. ASSUME NEW n \in 1..N, Back(n - 1)
      PROVE  Back(n)
  <2> DEFINE m == at(n - 1)
             p == text[n]
             w == UnitsOf(p)
  <2>1. /\ m \in Nat /\ m <= size /\ n - 1 <= m /\ at(n) <= size /\ at(n) <= at(N)
        /\ at(n) \in Nat /\ at(N) \in Nat
    BY <1>1, <1>2, <1>3
  <2>2. p \in CodePoints /\ w \in 1..2
    BY Widths
  <2>3. at(n) = m + w /\ \A k \in 1..w : g[N][m + k] = <<p, k>>
    BY <1>step, Zenon
  <2>4. \A k \in 1..w : units[m + k] = <<p, k>>
    <3>1. \A k \in 1..w : m + k \in 1..at(N)
      <4> HIDE DEF at, m, w
      <4>1. QED
        BY <2>1, <2>2, <2>3
    <3>2. \A k \in 1..at(N) : units[k] = g[N][k]
      OBVIOUS
    <3> HIDE DEF at, m, w, N
    <3>3. QED
      BY <2>3, <3>1, <3>2
  <2>5. (High(<<p, 1>>) <=> w = 2) /\ ~Low(<<p, 1>>) /\ Low(<<p, 2>>) /\ ~High(<<p, 2>>)
    BY <2>2, Surrogates
  <2> HIDE DEF at, m, p, w, N, size
  <2>6. m + 1 \in 1..size /\ units[m + 1] = <<p, 1>> /\ m + 1 - 1 = m
    BY <1>1, <2>1, <2>2, <2>3, <2>4
  <2>7. PointAt(units, m + 1) = <<p>>
    <3>1. CASE w = 1
      BY <2>5, <2>6, <3>1 DEF PointAt
    <3>2. CASE w = 2
      <4>1. units[m + 2] = <<p, 2>> /\ m + 1 < size /\ m + 1 + 1 = m + 2
        BY <1>1, <2>1, <2>3, <2>4, <3>2
      <4>2. High(units[m + 1]) /\ ~Low(units[m + 1]) /\ Low(units[m + 1 + 1])
        BY <2>5, <2>6, <3>2, <4>1
      <4>3. QED
        BY <2>6, <4>1, <4>2 DEF PointAt, size
    <3>3. QED
      BY <2>2, <3>1, <3>2
  <2>8. /\ m \in 0..size /\ d[m] \in Seq(CodePoints) /\ Len(d[m]) = n - 1
        /\ \A k \in 1..n - 1 : d[m][k] = text[k]
    BY <1>1, <1>4, <1>5, <2>1 DEF m
  <2>9. d[m + 1] = d[m] \o <<p>>
    <3>1. Len(d[m + 1 - 1]) <= m + 1 - 1
      BY <2>1, <2>6, <2>8
    <3>2. m + 1 \in 1..Len(units)
      BY <2>6 DEF size
    <3>3. QED
      <4> DEFINE i == m + 1
      <4>1. i \in 1..Len(units) /\ Len(d[i - 1]) <= i - 1
        BY <2>1, <3>1, <3>2
      <4> HIDE DEF i
      <4>2. d[i] = d[i - 1] \o PointAt(units, i)
        BY <4>1, NextPoint
      <4>3. QED
        <5>1. i = m + 1 /\ i - 1 = m
          BY <2>1 DEF i
        <5>2. QED
          BY <2>7, <4>2, <5>1, Zenon
  <2>10. /\ d[m + 1] \in Seq(CodePoints) /\ Len(d[m + 1]) = n
         /\ \A k \in 1..n : d[m + 1][k] = text[k]
    <3> DEFINE sofar == d[m]
    <3>1. sofar \in Seq(CodePoints) /\ Len(sofar) = n - 1 /\ d[m + 1] = Append(sofar, p)
      BY <2>2, <2>8, <2>9
    <3>2. \A k \in 1..n - 1 : sofar[k] = text[k]
      BY <2>8
    <3>3. n \in Nat /\ n >= 1
      BY <1>1
    <3> HIDE DEF sofar
    <3>4. d[m + 1] \in Seq(CodePoints) /\ Len(d[m + 1]) = n /\ d[m + 1][n] = p
      BY <2>2, <3>1, <3>3
    <3>5. \A k \in 1..n - 1 : d[m + 1][k] = sofar[k]
      BY <2>2, <3>1, <3>3
    <3>6. QED
      BY <3>2, <3>3, <3>4, <3>5 DEF p
  <2>11. CASE w = 1
    BY <2>3, <2>10, <2>11 DEF at
  <2>12. CASE w = 2
    <3>1. m + 2 \in 1..size /\ units[m + 2] = <<p, 2>> /\ m + 2 - 1 = m + 1 /\ m + 2 > 1
      BY <1>1, <2>1, <2>3, <2>4, <2>12
    <3>2. Low(units[m + 2]) /\ ~High(units[m + 2]) /\ High(units[m + 2 - 1])
      BY <2>5, <2>6, <2>12, <3>1
    <3>3. PointAt(units, m + 2) = <<>>
      <4> DEFINE i == m + 2
      <4>1. i \in Nat /\ Low(units[i]) /\ ~High(units[i]) /\ i > 1 /\ High(units[i - 1])
        BY <2>1, <3>1, <3>2
      <4> HIDE DEF i
      <4>2. PointAt(units, i) = <<>>
        BY <4>1 DEF PointAt
      <4>3. QED
        BY <4>2 DEF i
    <3>4. Len(d[m + 2 - 1]) <= m + 2 - 1
      BY <1>1, <2>1, <2>10, <3>1
    <3>5. d[m + 2] = d[m + 1] \o <<>>
      <4> DEFINE i == m + 2
      <4>1. i \in 1..Len(units) /\ Len(d[i - 1]) <= i - 1
        BY <2>1, <3>1, <3>4 DEF size
      <4> HIDE DEF i
      <4>2. d[i] = d[i - 1] \o PointAt(units, i)
        BY <4>1, NextPoint
      <4>3. QED
        <5>1. i = m + 2 /\ i - 1 = m + 1
          BY <2>1 DEF i
        <5>2. QED
          BY <3>3, <4>2, <5>1, Zenon
    <3>6. d[m + 2] = d[m + 1]
      BY <2>10, <3>5, ConcatEmptySeq
    <3>7. QED
      BY <2>3, <2>10, <2>12, <3>6 DEF at
  <2>13. QED
    BY <2>2, <2>11, <2>12
<1>6. Wrong = {}
  <2>1. SUFFICES ASSUME Wrong # {}
                 PROVE  FALSE
    OBVIOUS
  <2>2. PICK n \in Wrong : \A j \in Wrong : n <= j
    <3>1. Wrong \in SUBSET Nat
      BY <1>1
    <3> HIDE DEF Wrong
    <3>2. QED
      BY <2>1, <3>1, LeastOne
  <2>3. Back(0)
    <3>1. g[0] = <<>> /\ d[0] = <<>> /\ Len(<<>>) = 0
      BY DEF Joins
    <3>2. QED
      BY <3>1
  <2>4. n # 0
    BY <2>2, <2>3
  <2>5. n \in 1..N /\ n - 1 \in 0..N
    BY <1>1, <2>4
  <2>6. Back(n - 1)
    BY <1>3, <2>2, <2>5
  <2>7. QED
    BY <1>5, <2>2, <2>5, <2>6
<1>7. QED
  BY <1>6 DEF PointsBack


(* A longer text has the same bytes in front. *)
LEMMA BytesAgain ==
    ASSUME NEW text \in Seq(CodePoints), NEW longer \in Seq(CodePoints),
           Len(text) <= Len(longer), \A k \in 1..Len(text) : longer[k] = text[k],
           NEW f, Joins(f, Eight(text), 4 * Len(text)),
           NEW room \in Nat, Len(f[Len(text)]) <= room,
           NEW h, Joins(h, Eight(longer), room)
    PROVE  h[Len(text)] = f[Len(text)]
<1> DEFINE N == Len(text)
           Wrong == {n \in 0..N : h[n] # f[n]}
<1>1. /\ N \in Nat /\ 4 * N \in Nat /\ Len(longer) \in Nat /\ N <= Len(longer) /\ N \in 0..N
      /\ \A n \in 0..N : n <= N
  OBVIOUS
<1>2. \A n \in 0..N : Len(f[n]) \in Nat /\ Len(f[n]) <= Len(f[N])
  <2>1. Eight(text) \in Seq(Seq(Units)) /\ Len(Eight(text)) = N /\ Joins(f, Eight(text), 4 * N)
    BY PiecesOf
  <2> HIDE DEF N
  <2>2. QED
    BY <1>1, <2>1, JoinsGrow
<1>3. \A n \in 1..N : n \in 0..N /\ n - 1 \in 0..N /\ n \in 1..Len(longer) /\ ~(n <= n - 1)
  BY <1>1
<1>4. ASSUME NEW n \in 1..N, h[n - 1] = f[n - 1]
      PROVE  h[n] = f[n]
  <2> DEFINE piece == Bytes(text[n])
             wide == Width(text[n])
  <2>1. f[n] = f[n - 1] \o piece /\ Len(f[n]) = Len(f[n - 1]) + wide
    BY AllBytes
  <2>2. /\ Len(Eight(longer)) = Len(longer)
        /\ \A i \in 1..Len(longer) : Eight(longer)[i] = Bytes(longer[i])
    BY PiecesOf
  <2>3. n \in 1..Len(Eight(longer)) /\ Eight(longer)[n] = piece
    BY <1>3, <2>2
  <2>4. Len(piece) = wide
    BY PiecesOf, Widths
  <2>5. Len(f[n - 1]) + wide <= room
    <3> DEFINE a == Len(f[n])
               b == Len(f[N])
    <3>1. a \in Nat /\ b \in Nat /\ a <= b /\ b <= room /\ a = Len(f[n - 1]) + wide
      BY <1>1, <1>2, <1>3, <2>1
    <3> HIDE DEF a, b
    <3>2. a <= room
      BY <3>1
    <3>3. QED
      BY <3>1, <3>2
  <2> HIDE DEF piece, wide
  <2>6. h[n] = h[n - 1] \o piece
    BY <1>4, <2>3, <2>4, <2>5 DEF Joins
  <2>7. QED
    BY <1>4, <2>1, <2>6
<1>5. Wrong = {}
  <2>1. SUFFICES ASSUME Wrong # {}
                 PROVE  FALSE
    OBVIOUS
  <2>2. PICK n \in Wrong : \A j \in Wrong : n <= j
    <3>1. Wrong \in SUBSET Nat
      BY <1>1
    <3> HIDE DEF Wrong
    <3>2. QED
      BY <2>1, <3>1, LeastOne
  <2>3. h[0] = f[0]
    BY DEF Joins
  <2>4. n \in 1..N
    BY <1>1, <2>2, <2>3
  <2>5. h[n - 1] = f[n - 1]
    BY <1>3, <2>2, <2>4
  <2>6. QED
    BY <1>4, <2>2, <2>4, <2>5
<1>6. QED
  BY <1>1, <1>5

(* The string's characters are the name, whatever malloc left in its end.       *)
LEMMA NameSurvives ==
    ASSUME NEW text \in Seq(CodePoints), NEW string \in StringsOf(text)
    PROVE  /\ UTFChars(string) = Utf8(text) /\ Utf8(text) \in Seq(Units)
           /\ string \in Seq(Units)
<1> DEFINE N == Len(text)
<1>1. /\ N \in Nat /\ 4 * N \in Nat /\ N \in 0..N
      /\ Eight(text) \in Seq(Seq(Units)) /\ Len(Eight(text)) = N
      /\ Sixteen(text) \in Seq(Seq(Units)) /\ Len(Sixteen(text)) = N
  BY PiecesOf
<1>2. PICK f : Joins(f, Eight(text), 4 * N) /\ Utf8(text) = f[N]
  <2>1. Utf8(text) = Joined(Eight(text), 4 * N)
    BY DEF Utf8, EncodeUtf8, Eight
  <2> HIDE DEF N
  <2>2. QED
    BY <1>1, <2>1, JoinedStepwise
<1> DEFINE room == Len(f[N])
<1>3. f[N] \in Seq(Units) /\ room \in Nat /\ Len(Utf8(text)) = room
  <2> HIDE DEF N
  <2>1. f[N] \in Seq(Units)
    BY <1>1, <1>2, JoinsGrow
  <2>2. QED
    BY <1>2, <2>1
<1>4. PICK g : Joins(g, Sixteen(text), room) /\ EncodeUtf16(text, room) = g[N]
  <2>1. EncodeUtf16(text, room) = Joined(Sixteen(text), room)
    BY DEF EncodeUtf16, Sixteen
  <2> HIDE DEF N, room
  <2>2. QED
    BY <1>1, <1>3, <2>1, JoinedStepwise
<1>5. g[N] \in Seq(Units)
  <2> HIDE DEF N, room
  <2>1. QED
    BY <1>1, <1>3, <1>4, JoinsGrow
<1>6. Len(g[N]) \in 0..room
  <2>1. N <= Len(g[N]) /\ Len(g[N]) <= Len(f[N])
    <3>1. UnitsFit(text, f, g)
      BY <1>2, <1>4, AllUnits
    <3>2. QED
      BY <1>1, <3>1 DEF UnitsFit
  <2>2. QED
    BY <1>3, <1>5, <2>1
<1>7. /\ string \in Seq(Units) /\ Len(string) = room
      /\ \A k \in 1..Len(g[N]) : string[k] = g[N][k]
  <2>1. PICK left \in Leftovers : string = g[N] \o [i \in 1..room - Len(g[N]) |-> left]
    BY <1>3, <1>4 DEF StringsOf
  <2> DEFINE a == g[N]
             more == room - Len(a)
             b == [i \in 1..more |-> left]
  <2>2. left \in Units
    BY DEF Leftovers, Units, CodePoints
  <2>3. more \in Nat /\ Len(a) \in Nat /\ Len(a) + more = room
    BY <1>3, <1>5, <1>6
  <2> HIDE DEF more
  <2>4. b \in Seq(Units) /\ Len(b) = more
    BY <2>2, <2>3
  <2> HIDE DEF b, room, N
  <2>5. string = a \o b
    BY <2>1 DEF b, more
  <2>6. QED
    <3>1. a \in Seq(Units)
      BY <1>5
    <3> HIDE DEF a
    <3>2. /\ a \o b \in Seq(Units) /\ Len(a \o b) = room
          /\ \A k \in 1..Len(a) : (a \o b)[k] = a[k]
      BY <2>3, <2>4, <3>1
    <3>3. QED
      BY <2>5, <3>2 DEF a
<1>8. PICK d : Joins(d, Points(string), room) /\ DecodeUtf16(string) = d[room]
  <2>1. Points(string) \in Seq(Seq(CodePoints)) /\ Len(Points(string)) = room
    BY <1>7, OnePoint
  <2>2. DecodeUtf16(string) = Joined(Points(string), room)
    BY <1>7 DEF DecodeUtf16, Points
  <2> HIDE DEF room
  <2>3. QED
    BY <2>1, <2>2, JoinedStepwise
<1> DEFINE decoded == d[room]
<1>9. /\ decoded \in Seq(CodePoints) /\ N <= Len(decoded)
      /\ \A k \in 1..N : decoded[k] = text[k]
  <2>1. Points(string) \in Seq(Seq(CodePoints)) /\ Len(Points(string)) = room
    BY <1>7, OnePoint
  <2> DEFINE m == Len(g[N])
  <2>2. Len(d[m]) = N /\ \A k \in 1..N : d[m][k] = text[k]
    <3>1. PointsBack(text, g, d)
      BY <1>2, <1>4, <1>7, <1>8, UnitsBack
    <3>2. QED
      BY <1>1, <3>1 DEF PointsBack
  <2>3. m \in 0..room /\ room \in 0..room /\ m <= room
    BY <1>3, <1>6
  <2> HIDE DEF m, N, room
  <2>4. /\ decoded \in Seq(CodePoints) /\ Len(d[m]) <= Len(decoded)
        /\ \A k \in 1..Len(d[m]) : decoded[k] = d[m][k]
    BY <1>3, <1>8, <2>1, <2>3, JoinsGrow
  <2>5. QED
    BY <2>2, <2>4
<1>10. PICK h : Joins(h, Eight(decoded), room + 1)
                /\ EncodeUtf8(decoded, room + 1) = h[Len(decoded)]
  <2> HIDE DEF decoded, room
  <2>1. Eight(decoded) \in Seq(Seq(Units)) /\ Len(Eight(decoded)) = Len(decoded)
    BY <1>9, PiecesOf
  <2>2. EncodeUtf8(decoded, room + 1) = Joined(Eight(decoded), room + 1)
    BY DEF EncodeUtf8, Eight
  <2>3. QED
    BY <2>1, <2>2, JoinedStepwise
<1> DEFINE out == h[Len(decoded)]
<1>11. h[N] = f[N]
  <2>1. room + 1 \in Nat /\ room <= room + 1
    BY <1>3
  <2> HIDE DEF decoded
  <2>2. QED
    BY <1>2, <1>9, <1>10, <2>1, BytesAgain
<1>12. /\ out \in Seq(Units) /\ room <= Len(out)
       /\ \A k \in 1..room : out[k] = f[N][k]
  <2> HIDE DEF decoded
  <2>1. Eight(decoded) \in Seq(Seq(Units)) /\ Len(Eight(decoded)) = Len(decoded)
    BY <1>9, PiecesOf
  <2>2. room + 1 \in Nat /\ Len(decoded) \in 0..Len(decoded) /\ N \in 0..Len(decoded)
        /\ N <= Len(decoded)
    BY <1>1, <1>3, <1>9
  <2> HIDE DEF N
  <2>3. /\ out \in Seq(Units) /\ Len(h[N]) <= Len(out)
        /\ \A k \in 1..Len(h[N]) : out[k] = h[N][k]
    BY <1>10, <2>1, <2>2, JoinsGrow
  <2>4. QED
    BY <1>11, <2>3
<1>13. UTFChars(string) = SubSeq(out, 1, room)
  <2> HIDE DEF room
  <2>1. QED
    BY <1>7, <1>8, <1>10 DEF UTFChars
<1>14. SubSeq(out, 1, room) = f[N]
  <2> DEFINE name == f[N]
  <2>1. name \in Seq(Units) /\ room = Len(name) /\ \A k \in 1..room : out[k] = name[k]
    BY <1>3, <1>12
  <2> HIDE DEF name, out, room
  <2>2. /\ SubSeq(out, 1, room) \in Seq(Units) /\ Len(SubSeq(out, 1, room)) = room
        /\ \A k \in 1..room : SubSeq(out, 1, room)[k] = out[k]
    BY <1>3, <1>12
  <2>3. SubSeq(out, 1, room) = name
    BY <1>3, <2>1, <2>2, SeqEqual
  <2>4. QED
    BY <2>3 DEF name
<1>15. QED
  BY <1>2, <1>3, <1>7, <1>13, <1>14


(* A string holds the name it was made from until the File is constructed; the *)
(* thread's buffer holds the name of its newest File or nothing.               *)
JavaInv ==
    /\ given \in [Natives -> Seq(CodePoints)]
    /\ newest \in [Natives -> Seq(CodePoints)]
    /\ jstring \in [Natives -> Seq(Units)]
    /\ lastFilePath \in [Natives -> Seq(Units)]
    /\ files \in [Natives -> 0..MaxFiles]
    /\ JavaTypeOK
    /\ \A n \in Natives :
          /\ jstep[n] = "file" => jstring[n] \in StringsOf(given[n]) /\ files[n] < MaxFiles
          /\ lastFilePath[n] = <<>> \/ lastFilePath[n] = PathCut(Utf8(newest[n]))
    /\ MkdirsMakesItsFile

LEMMA PathCutFits ==
    ASSUME NEW path \in Seq(Units)
    PROVE  PathCut(path) \in Seq(Units) /\ Len(PathCut(path)) < PathBytes
<1>1. PathBytes \in Nat /\ PathBytes >= 1
  BY PathBytesAssumption
<1>2. CASE Len(path) < PathBytes
  BY <1>2 DEF PathCut
<1>3. CASE ~(Len(path) < PathBytes)
  <2>1. \A i \in 1..PathBytes - 1 : path[i] \in Units
    BY <1>1, <1>3
  <2>2. /\ SubSeq(path, 1, PathBytes - 1) \in Seq(Units)
        /\ Len(SubSeq(path, 1, PathBytes - 1)) < PathBytes
    BY <1>1, <2>1
  <2>3. QED
    BY <1>3, <2>2 DEF PathCut
<1>4. QED
  BY <1>2, <1>3

LEMMA WholePathMade ==
    ASSUME NEW path \in Seq(Units), path # <<>>
    PROVE  path \in Parents(path, Len(path) + 2)
<1>1. Len(path) \in Nat /\ Len(path) >= 1
  OBVIOUS
<1> DEFINE e == Len(path) + 1
<1>2. e \in Ends(path) /\ e < Len(path) + 2 /\ e - 1 = Len(path)
  BY <1>1 DEF Ends
<1>3. SubSeq(path, 1, Len(path)) = path
  BY SubSeqFull
<1> HIDE DEF e
<1>4. SubSeq(path, 1, e - 1) = path
  BY <1>2, <1>3, Zenon
<1>5. QED
  BY <1>2, <1>4, Zenon DEF Parents

LEMMA TextsSpelled == Texts \subseteq Seq(CodePoints)
<1>1. SUFFICES ASSUME NEW text \in Seq(STRING)
               PROVE  text \in Seq(CodePoints)
  BY TextsAssumption
<1>2. text \in [1..Len(text) -> CodePoints] /\ Len(text) \in Nat
  BY DEF CodePoints
<1>3. QED
  BY <1>2

(* The constructor's number is in the table that NewObject looks it up in. *)
LEMMA FileIsCalled == NewObject(FileInit)
<1>1. DOMAIN Registered = {"object", "int", "long", "double", "boolean", "void"}
  BY DEF Registered
<1>2. Registered["object"] = 100..118
  BY DEF Registered
<1>3. QED
  BY <1>1, <1>2 DEF NewObject, GetMethodID, MethodCall, Callable, FileInit

LEMMA JavaInitially == JavaInit => JavaInv
<1> SUFFICES ASSUME JavaInit
             PROVE  JavaInv
  OBVIOUS
<1>2. Len(<<>>) < PathBytes /\ 0 \in 0..MaxFiles
  BY PathBytesAssumption
<1>3. \A n \in Natives : /\ jstep[n] = "any" /\ made[n] = "none"
                         /\ lastFilePath[n] = <<>> /\ files[n] = 0
  BY DEF JavaInit
<1>4. /\ jstep \in [Natives -> {"any", "file"}]
      /\ made \in [Natives -> {"none", "true", "false"}]
  BY DEF JavaInit
<1>5. files \in [Natives -> 0..MaxFiles]
  BY <1>2 DEF JavaInit
<1>6. \A n \in Natives : Len(lastFilePath[n]) < PathBytes /\ files[n] <= MaxFiles
  BY <1>2, <1>3
<1>7. /\ given \in [Natives -> Seq(CodePoints)] /\ newest \in [Natives -> Seq(CodePoints)]
      /\ jstring \in [Natives -> Seq(Units)]
      /\ lastFilePath \in [Natives -> Seq(Units)]
  BY DEF JavaInit
<1>8. MkdirsMakesItsFile
  BY <1>3 DEF MkdirsMakesItsFile
<1>9. QED
  BY <1>3, <1>4, <1>5, <1>6, <1>7, <1>8 DEF JavaInv, JavaTypeOK

(* A File constructed leaves its own path in the buffer, or none. *)
LEMMA FileNamed ==
    ASSUME JavaInv, NEW n \in Natives, NEW left, Constructed(n),
           lastFilePath' = [lastFilePath EXCEPT ![n] = left],
           left \in Seq(Units), Len(left) < PathBytes,
           left = <<>> \/ left = PathCut(Utf8(given[n]))
    PROVE  JavaInv'
<1> USE DEF JavaInv, JavaTypeOK
<1>1. files[n] + 1 \in 0..MaxFiles
  BY PathBytesAssumption DEF Constructed
<1>2. /\ given' \in [Natives -> Seq(CodePoints)] /\ newest' \in [Natives -> Seq(CodePoints)]
      /\ jstring' \in [Natives -> Seq(Units)] /\ files' \in [Natives -> 0..MaxFiles]
      /\ lastFilePath' \in [Natives -> Seq(Units)]
      /\ jstep' \in [Natives -> {"any", "file"}]
      /\ made' \in [Natives -> {"none", "true", "false"}]
  BY <1>1 DEF Constructed
<1>3. /\ jstep'[n] = "any" /\ made'[n] = "none" /\ newest'[n] = given[n]
      /\ lastFilePath'[n] = left
      /\ UNCHANGED directories
  BY DEF Constructed
<1>4. ASSUME NEW o \in Natives \ {n}
      PROVE  /\ jstep'[o] = jstep[o] /\ made'[o] = made[o] /\ newest'[o] = newest[o]
             /\ lastFilePath'[o] = lastFilePath[o] /\ files'[o] = files[o]
             /\ given'[o] = given[o] /\ jstring'[o] = jstring[o]
  BY DEF Constructed
<1>5. \A o \in Natives : Len(lastFilePath'[o]) < PathBytes /\ files'[o] <= MaxFiles
  BY <1>1, <1>2, <1>3, <1>4
<1>6. \A o \in Natives :
          /\ jstep'[o] = "file" => jstring'[o] \in StringsOf(given'[o]) /\ files'[o] < MaxFiles
          /\ lastFilePath'[o] = <<>> \/ lastFilePath'[o] = PathCut(Utf8(newest'[o]))
  BY <1>3, <1>4
<1>7. MkdirsMakesItsFile'
  BY <1>3, <1>4 DEF MkdirsMakesItsFile
<1>8. QED
  BY <1>2, <1>5, <1>6, <1>7

(* mkdirs makes the directory that the buffer of its thread names. *)
LEMMA NamedIsMade ==
    ASSUME JavaInv, NEW n \in Natives, NEW handed, Mkdirs(n, handed)
    PROVE  JavaInv'
<1> USE DEF JavaInv, JavaTypeOK
<1> DEFINE path == lastFilePath[n]
           behind == Len(path) + 2
           name == Utf8(newest[n])
<1>1. PICK stop \in Ends(path) \cup {behind} :
          /\ directories' = directories \cup Parents(path, stop)
          /\ Calls(n, handed, IF stop = behind THEN "true" ELSE "false")
  BY DEF Mkdirs
<1>2. /\ UNCHANGED <<jstep, given, jstring, lastFilePath, files, newest>>
      /\ made' \in [Natives -> {"none", "true", "false"}]
      /\ \A o \in Natives \ {n} : made'[o] = made[o]
      /\ made'[n] = made[n] \/ (made'[n] = "true" => stop = behind)
  BY <1>1 DEF Calls
<1>3. directories \subseteq directories'
  BY <1>1
<1>4. path # <<>> /\ path \in Seq(Units)
  BY DEF Mkdirs
<1>5. path \in Parents(path, behind)
  BY <1>4, WholePathMade
<1>6. Len(name) < PathBytes => path = name
  BY <1>4 DEF PathCut
<1>7. made'[n] = "true" /\ Len(name) < PathBytes => name \in directories'
  BY <1>1, <1>2, <1>3, <1>5, <1>6 DEF MkdirsMakesItsFile
<1>8. MkdirsMakesItsFile'
  BY <1>2, <1>3, <1>7 DEF MkdirsMakesItsFile
<1>9. QED
  BY <1>2, <1>8

LEMMA JavaStep == JavaInv /\ [JavaNext]_javaVars => JavaInv'
<1> SUFFICES ASSUME JavaInv, [JavaNext]_javaVars
             PROVE  JavaInv'
  OBVIOUS
<1> USE DEF JavaInv, JavaTypeOK, MkdirsMakesItsFile
<1>1. ASSUME NEW n \in Natives, NewStringUTF(n)
      PROVE  JavaInv'
  <2> DEFINE Passed(text, string) == /\ given' = [given EXCEPT ![n] = text]
                                     /\ jstring' = [jstring EXCEPT ![n] = string]
  <2>1. PICK text \in Texts : \E string \in StringsOf(text) : Passed(text, string)
    BY <1>1 DEF NewStringUTF
  <2>2. PICK string \in StringsOf(text) : Passed(text, string)
    BY <2>1
  <2>3. text \in Seq(CodePoints) /\ string \in Seq(Units)
    BY TextsSpelled, NameSurvives
  <2>4. QED
    BY <1>1, <2>2, <2>3 DEF NewStringUTF
<1>2. ASSUME NEW n \in Natives, FileConstructor(n)
      PROVE  JavaInv'
  <2> DEFINE name == Utf8(given[n])
  <2>1. UTFChars(jstring[n]) = name /\ name \in Seq(Units)
    BY <1>2, NameSurvives DEF FileConstructor, Constructed
  <2>2. PathCut(name) \in Seq(Units) /\ Len(PathCut(name)) < PathBytes
    BY <2>1, PathCutFits
  <2>3. lastFilePath' = [lastFilePath EXCEPT ![n] = PathCut(name)]
    BY <1>2, <2>1, FileIsCalled DEF FileConstructor
  <2>4. Constructed(n)
    BY <1>2 DEF FileConstructor
  <2> QED
    BY <2>2, <2>3, <2>4, FileNamed
<1>3. ASSUME NEW n \in Natives, FileConstructorFails(n)
      PROVE  JavaInv'
  <2>1. <<>> \in Seq(Units) /\ Len(<<>>) < PathBytes
    BY PathBytesAssumption
  <2> QED
    BY <1>3, <2>1, FileNamed DEF FileConstructorFails
<1>4. ASSUME NEW n \in Natives, NEW handed, Mkdirs(n, handed)
      PROVE  JavaInv'
  BY <1>4, NamedIsMade
<1>5. ASSUME NEW n \in Natives, NEW handed, MkdirsRefused(n, handed)
      PROVE  JavaInv'
  BY <1>5 DEF MkdirsRefused, Calls
<1>6. CASE UNCHANGED javaVars
  BY <1>6 DEF javaVars
<1>7. QED
  BY <1>1, <1>2, <1>3, <1>4, <1>5, <1>6 DEF JavaNext

(* When mkdirs on the File that the thread constructed last reports success,   *)
(* the directory of the name passed to its constructor exists, whatever Files  *)
(* this and other threads constructed before, also when the constructor could  *)
(* not read the path, and whatever malloc left in the end of the string, for   *)
(* every buffer size and every set of paths; a name that the buffer cuts, and  *)
(* mkdirs on any other File, are out of its promise.                           *)
THEOREM MkdirsReportsItsFile == JavaSpec => []MkdirsMakesItsFile
<1>1. JavaInv => MkdirsMakesItsFile
  BY DEF JavaInv
<1>2. QED
  BY <1>1, JavaInitially, JavaStep, PTL DEF JavaSpec
-----------------------------------------------------------------------------
(* The GL cache, for every set of texture units, names, attributes and        *)
(* capabilities and whichever part of them is cached.                         *)

(* What the cache holds and has not forgotten is what the driver has. *)
CacheTrue ==
    /\ cache.unit \in {Unknown, gl.unit}
    /\ \A b \in CachedUnits \X Targets : cache.tex[b] \in {Unknown, gl.tex[b]}
    /\ \A r \in Cacheable : cache.reg[r] \in {Unknown, gl.reg[r]}
    /\ \A i \in CachedAttribs : cache.pointer[i] \in {Unknown, gl.pointer[i]}

(* A binding is cached only while the unit it was made in is known, and a   *)
(* pointer only while the array buffer is: a call the cache cannot place    *)
(* contradicts nothing the cache holds.                                     *)
CachePlaced ==
    /\ cache.unit = Unknown =>
            \A b \in CachedUnits \X Targets : cache.tex[b] = Unknown
    /\ cache.reg[<<"bound", "array">>] = Unknown =>
            \A i \in CachedAttribs : cache.pointer[i] = Unknown

CacheInv == GlTypeOK /\ CacheTrue /\ CachePlaced

-----------------------------------------------------------------------------
(* Setting what is set already changes nothing. *)
LEMMA SameEntry ==
    ASSUME NEW S, NEW T, NEW f \in [S -> T], NEW x \in S
    PROVE  [f EXCEPT ![x] = f[x]] = f
OBVIOUS

LEMMA SameUnit ==
    ASSUME gl \in Plain!States
    PROVE  Plain!AfterUnit(gl.unit) = gl
BY DEF Plain!States, Plain!AfterUnit

LEMMA SameTexture ==
    ASSUME gl \in Plain!States, NEW g \in Targets
    PROVE  Plain!AfterTexture(g, gl.tex[<<gl.unit, g>>]) = gl
<1>1. [gl.tex EXCEPT ![<<gl.unit, g>>] = gl.tex[<<gl.unit, g>>]] = gl.tex
  BY SameEntry DEF Plain!States, Targets
<1>2. QED
  BY <1>1 DEF Plain!States, Plain!AfterTexture

LEMMA SameRegister ==
    ASSUME gl \in Plain!States, NEW r \in Registers
    PROVE  Plain!AfterSet(r, gl.reg[r]) = gl
<1>1. [gl.reg EXCEPT ![r] = gl.reg[r]] = gl.reg
  BY SameEntry DEF Plain!States, Registers
<1>2. QED
  BY <1>1 DEF Plain!States, Plain!AfterSet

LEMMA SamePointer ==
    ASSUME gl \in Plain!States, NEW i \in Attribs, NEW p \in Names,
           gl.pointer[i] = [at |-> p, buffer |-> gl.reg[<<"bound", "array">>]]
    PROVE  Plain!AfterPointer(i, p) = gl
<1>1. [gl.pointer EXCEPT ![i] = gl.pointer[i]] = gl.pointer
  BY SameEntry DEF Plain!States
<1>2. QED
  BY <1>1 DEF Plain!States, Plain!AfterPointer

-----------------------------------------------------------------------------
(* A cache that has forgotten everything holds nothing false. *)
LEMMA ForgottenIsTrue ==
    ASSUME gl' \in Plain!States, cache' = Forgotten, calls' \in 0..MaxCalls
    PROVE  CacheInv'
BY DEF CacheInv, CacheTrue, CachePlaced, GlTypeOK, Forgotten

LEMMA GlInitInv == GlInit => CacheInv
<1> SUFFICES ASSUME GlInit
             PROVE  CacheInv
  OBVIOUS
<1>1. gl \in Plain!States
  BY ZeroAssumption DEF GlInit, Plain!Init, Plain!States, Plain!Pointers
<1>2. calls \in 0..MaxCalls
  BY BoundAssumption DEF GlInit
<1>3. QED
  BY <1>1, <1>2 DEF GlInit, CacheInv, CacheTrue, CachePlaced, GlTypeOK, Forgotten

(* The effects keep the driver's state typed. *)
LEMMA EffectTypes ==
    ASSUME gl \in Plain!States
    PROVE  /\ \A u \in TextureUnits : Plain!AfterUnit(u) \in Plain!States
           /\ \A g \in Targets, n \in Names : Plain!AfterTexture(g, n) \in Plain!States
           /\ \A r \in Registers, v \in Names : Plain!AfterSet(r, v) \in Plain!States
           /\ \A i \in Attribs, p \in Names : Plain!AfterPointer(i, p) \in Plain!States
           /\ \A n \in Names : /\ Plain!AfterDeleteTexture(n) \in Plain!States
                               /\ Plain!AfterOverlay(n) \in Plain!States
           /\ \A kinds \in Plain!Kinds, n \in Names :
                    Plain!AfterDelete(kinds, n) \in Plain!States
<1> USE ZeroAssumption DEF Plain!States
<1>1. ASSUME NEW u \in TextureUnits
      PROVE  Plain!AfterUnit(u) \in Plain!States
  BY DEF Plain!AfterUnit
<1>2. ASSUME NEW g \in Targets, NEW n \in Names
      PROVE  Plain!AfterTexture(g, n) \in Plain!States
  BY DEF Plain!AfterTexture, Targets
<1>3. ASSUME NEW r \in Registers, NEW v \in Names
      PROVE  Plain!AfterSet(r, v) \in Plain!States
  BY DEF Plain!AfterSet, Registers
<1>4. ASSUME NEW i \in Attribs, NEW p \in Names
      PROVE  Plain!AfterPointer(i, p) \in Plain!States
  <2>1. gl.reg[<<"bound", "array">>] \in Names
    BY DEF Plain!Registers, Plain!Objects, Plain!Buffers
  <2>2. QED
    BY <2>1 DEF Plain!AfterPointer, Plain!Pointers
<1>5. ASSUME NEW n \in Names
      PROVE  Plain!AfterDeleteTexture(n) \in Plain!States
  BY DEF Plain!AfterDeleteTexture
<1>6. ASSUME NEW n \in Names
      PROVE  Plain!AfterOverlay(n) \in Plain!States
  BY DEF Plain!AfterOverlay
<1>7. ASSUME NEW kinds \in Plain!Kinds, NEW n \in Names
      PROVE  Plain!AfterDelete(kinds, n) \in Plain!States
  BY DEF Plain!AfterDelete, Plain!Pointers
<1>8. QED
  BY <1>1, <1>2, <1>3, <1>4, <1>5, <1>6, <1>7

-----------------------------------------------------------------------------
(* A call the game makes through a wrapper: the invariant is kept, and the  *)
(* driver's state becomes what the call makes of it.                        *)
LEMMA ActiveTextureStep ==
    ASSUME CacheInv, NEW u \in TextureUnits, ActiveTexture(u)
    PROVE  CacheInv' /\ gl' = Plain!AfterUnit(u)
<1>1. gl' = Plain!AfterUnit(u)
  BY SameUnit, UnknownAssumption DEF CacheInv, CacheTrue, GlTypeOK, ActiveTexture
<1>2. GlTypeOK'
  BY <1>1, EffectTypes, BoundAssumption DEF CacheInv, GlTypeOK, ActiveTexture, Call
<1>3. CacheTrue'
  BY <1>1 DEF CacheInv, CacheTrue, GlTypeOK, ActiveTexture, Plain!AfterUnit, Plain!States
<1>4. CachePlaced'
  BY UnknownAssumption DEF CacheInv, CachePlaced, GlTypeOK, ActiveTexture
<1>5. QED
  BY <1>1, <1>2, <1>3, <1>4 DEF CacheInv

LEMMA BindTextureStep ==
    ASSUME CacheInv, NEW g \in Targets, NEW n \in Names, BindTexture(g, n)
    PROVE  CacheInv' /\ gl' = Plain!AfterTexture(g, n)
<1>1. ASSUME NEW b \in TextureSlot(g)
      PROVE  b = <<gl.unit, g>> /\ b \in CachedUnits \X Targets
  BY <1>1, UnknownAssumption, CachedAssumption
     DEF TextureSlot, CacheInv, CacheTrue, GlTypeOK
<1>2. gl' = Plain!AfterTexture(g, n)
  <2>1. CASE \E b \in TextureSlot(g) : cache.tex[b] = n
    <3>1. gl.tex[<<gl.unit, g>>] = n
      BY <1>1, <2>1, UnknownAssumption DEF CacheInv, CacheTrue, GlTypeOK
    <3>2. QED
      BY <2>1, <3>1, SameTexture DEF CacheInv, GlTypeOK, BindTexture
  <2>2. CASE ~ \E b \in TextureSlot(g) : cache.tex[b] = n
    BY <2>2 DEF BindTexture
  <2>3. QED
    BY <2>1, <2>2
<1>3. GlTypeOK'
  BY <1>2, EffectTypes, BoundAssumption DEF CacheInv, GlTypeOK, BindTexture, Call
<1>4. /\ gl'.tex = [gl.tex EXCEPT ![<<gl.unit, g>>] = n]
      /\ gl'.unit = gl.unit /\ gl'.reg = gl.reg /\ gl'.pointer = gl.pointer
  BY <1>2 DEF CacheInv, GlTypeOK, Plain!States, Plain!AfterTexture
<1>5. /\ cache'.tex = [b \in CachedUnits \X Targets |->
                            IF b \in TextureSlot(g) THEN n ELSE cache.tex[b]]
      /\ cache'.unit = cache.unit /\ cache'.reg = cache.reg
      /\ cache'.pointer = cache.pointer
  BY DEF CacheInv, GlTypeOK, BindTexture
<1>6. ASSUME NEW b \in CachedUnits \X Targets
      PROVE  /\ cache'.tex[b] \in {Unknown, gl'.tex[b]}
             /\ cache'.unit = Unknown => cache'.tex[b] = Unknown
  <2>1. b \in TextureUnits \X Targets
    BY CachedAssumption
  <2>2. gl.unit \in TextureUnits /\ gl.tex \in [TextureUnits \X Targets -> Names]
    BY DEF CacheInv, GlTypeOK, Plain!States, Targets
  <2>3. CASE b \in TextureSlot(g)
    <3>1. cache.unit # Unknown
      BY <2>3, CachedAssumption, UnknownAssumption DEF TextureSlot
    <3>2. QED
      BY <2>1, <2>2, <2>3, <3>1, <1>1, <1>4, <1>5
  <2>4. CASE b \notin TextureSlot(g)
    <3>1. b = <<gl.unit, g>> => cache.unit # gl.unit
      BY <2>4 DEF TextureSlot
    <3>2. b = <<gl.unit, g>> => cache.tex[b] = Unknown
      BY <3>1 DEF CacheInv, CacheTrue, CachePlaced
    <3>3. QED
      BY <2>1, <2>2, <2>4, <3>2, <1>4, <1>5 DEF CacheInv, CacheTrue, CachePlaced
  <2>5. QED
    BY <2>3, <2>4
<1>7. CacheTrue' /\ CachePlaced'
  BY <1>4, <1>5, <1>6 DEF CacheInv, CacheTrue, CachePlaced
<1>8. QED
  BY <1>2, <1>3, <1>7 DEF CacheInv

LEMMA SetRegisterStep ==
    ASSUME CacheInv, NEW r \in Registers, NEW v \in Names, SetRegister(r, v)
    PROVE  CacheInv' /\ gl' = Plain!AfterSet(r, v)
<1>1. gl' = Plain!AfterSet(r, v)
  <2>1. ASSUME Holds(r, v)
        PROVE  gl.reg[r] = v
    BY <2>1, UnknownAssumption DEF Holds, CacheInv, CacheTrue
  <2>2. QED
    BY <2>1, SameRegister DEF SetRegister, CacheInv, GlTypeOK
<1>2. GlTypeOK'
  BY <1>1, EffectTypes, BoundAssumption DEF CacheInv, GlTypeOK, SetRegister, Call
<1>3. /\ gl'.reg = [gl.reg EXCEPT ![r] = v]
      /\ gl'.unit = gl.unit /\ gl'.tex = gl.tex /\ gl'.pointer = gl.pointer
  BY <1>1 DEF CacheInv, GlTypeOK, Plain!States, Plain!AfterSet
<1>4. /\ cache'.reg = [q \in Cacheable |-> IF q = r THEN v ELSE cache.reg[q]]
      /\ cache'.unit = cache.unit /\ cache'.tex = cache.tex
      /\ cache'.pointer = cache.pointer
  BY DEF CacheInv, GlTypeOK, SetRegister
<1>5. gl.reg \in [Registers -> Names] /\ Cacheable \subseteq Registers
  BY DEF CacheInv, GlTypeOK, Plain!States, Registers, Cacheable
<1>6. <<"bound", "array">> \in Cacheable
  BY DEF Cacheable, Registers, Plain!Registers, Plain!Objects, Plain!Buffers
<1>7. CacheTrue'
  BY <1>3, <1>4, <1>5 DEF CacheInv, CacheTrue
<1>8. CachePlaced'
  BY <1>3, <1>4, <1>6, UnknownAssumption DEF CacheInv, CachePlaced
<1>9. QED
  BY <1>1, <1>2, <1>7, <1>8 DEF CacheInv

LEMMA VertexAttribPointerStep ==
    ASSUME CacheInv, NEW i \in Attribs, NEW p \in Names, VertexAttribPointer(i, p)
    PROVE  CacheInv' /\ gl' = Plain!AfterPointer(i, p)
<1> DEFINE buffer == cache.reg[<<"bound", "array">>]
           cacheable == i \in CachedAttribs /\ buffer # Unknown
           wanted == [at |-> p, buffer |-> buffer]
<1>1. <<"bound", "array">> \in Cacheable
  BY DEF Cacheable, Registers, Plain!Registers, Plain!Objects, Plain!Buffers
<1>2. cacheable => buffer = gl.reg[<<"bound", "array">>] /\ buffer \in Names
  BY <1>1 DEF CacheInv, CacheTrue, GlTypeOK
<1>3. cacheable => wanted # Unknown
  BY <1>2, UnknownAssumption
<1>4. gl' = Plain!AfterPointer(i, p)
  <2>1. CASE cacheable /\ cache.pointer[i] = wanted
    <3>1. gl.pointer[i] = [at |-> p, buffer |-> gl.reg[<<"bound", "array">>]]
      BY <1>2, <1>3, <2>1 DEF CacheInv, CacheTrue
    <3>2. QED
      BY <2>1, <3>1, SamePointer DEF VertexAttribPointer, CacheInv, GlTypeOK
  <2>2. CASE ~ (cacheable /\ cache.pointer[i] = wanted)
    BY <2>2 DEF VertexAttribPointer
  <2>3. QED
    BY <2>1, <2>2
<1>5. /\ gl'.pointer = [gl.pointer EXCEPT ![i] =
                            [at |-> p, buffer |-> gl.reg[<<"bound", "array">>]]]
      /\ gl'.unit = gl.unit /\ gl'.tex = gl.tex /\ gl'.reg = gl.reg
      /\ gl.pointer \in [Attribs -> Plain!Pointers]
  BY <1>4 DEF CacheInv, GlTypeOK, Plain!States, Plain!AfterPointer
<1>6. /\ cache'.pointer = [j \in CachedAttribs |->
                            IF cacheable /\ j = i THEN wanted ELSE cache.pointer[j]]
      /\ cache'.unit = cache.unit /\ cache'.tex = cache.tex
      /\ cache'.reg = cache.reg
  BY DEF CacheInv, GlTypeOK, VertexAttribPointer
<1>7. GlTypeOK'
  <2>1. gl' \in Plain!States /\ calls' \in 0..MaxCalls
    BY <1>4, EffectTypes, BoundAssumption DEF CacheInv, GlTypeOK, VertexAttribPointer, Call
  <2>2. cacheable => wanted \in Plain!Pointers
    BY <1>2 DEF Plain!Pointers
  <2>3. cache' \in [unit : TextureUnits \cup {Unknown},
                    tex : [CachedUnits \X Targets -> Names \cup {Unknown}],
                    reg : [Cacheable -> Names \cup {Unknown}],
                    pointer : [CachedAttribs -> Plain!Pointers \cup {Unknown}]]
    BY <2>2 DEF CacheInv, GlTypeOK, VertexAttribPointer
  <2>4. QED
    BY <2>1, <2>3 DEF GlTypeOK
<1>8. ASSUME NEW j \in CachedAttribs
      PROVE  /\ cache'.pointer[j] \in {Unknown, gl'.pointer[j]}
             /\ cache'.reg[<<"bound", "array">>] = Unknown =>
                    cache'.pointer[j] = Unknown
  <2>1. j \in Attribs
    BY CachedAssumption
  <2>2. CASE j = i /\ cacheable
    BY <1>2, <1>5, <1>6, <2>1, <2>2
  <2>3. CASE j = i /\ ~cacheable
    BY <1>6, <2>3 DEF CacheInv, CachePlaced
  <2>4. CASE j # i
    BY <1>5, <1>6, <2>1, <2>4 DEF CacheInv, CacheTrue, CachePlaced
  <2>5. QED
    BY <2>2, <2>3, <2>4
<1>9. CacheTrue' /\ CachePlaced'
  BY <1>5, <1>6, <1>8 DEF CacheInv, CacheTrue, CachePlaced
<1>10. QED
  BY <1>4, <1>7, <1>9 DEF CacheInv

-----------------------------------------------------------------------------
(* A deletion, the overlay or a new context: the cache forgets. *)
LEMMA DeletionStep ==
    ASSUME CacheInv, NEW n \in Names
    PROVE  /\ DeleteTextures(n) => CacheInv'
           /\ \A kinds \in Plain!Kinds : DeleteObjects(kinds, n) => CacheInv'
           /\ DrawOverlay(n) => CacheInv'
           /\ MakeCurrent => CacheInv'
<1>1. gl \in Plain!States /\ calls \in 0..MaxCalls
  BY DEF CacheInv, GlTypeOK
<1>2. ASSUME NEW c, Call(c)
      PROVE  calls' \in 0..MaxCalls
  BY <1>1, <1>2, BoundAssumption DEF Call
<1>3. CASE DeleteTextures(n)
  <2>1. gl' \in Plain!States
    BY <1>1, <1>3, EffectTypes DEF DeleteTextures
  <2>2. QED
    BY <1>2, <1>3, <2>1, ForgottenIsTrue DEF DeleteTextures
<1>4. ASSUME NEW kinds \in Plain!Kinds, DeleteObjects(kinds, n)
      PROVE  CacheInv'
  <2>1. gl' \in Plain!States
    BY <1>1, <1>4, EffectTypes DEF DeleteObjects
  <2>2. QED
    BY <1>2, <1>4, <2>1, ForgottenIsTrue DEF DeleteObjects
<1>5. CASE DrawOverlay(n)
  <2>1. gl' \in Plain!States
    BY <1>1, <1>5, EffectTypes DEF DrawOverlay
  <2>2. QED
    BY <1>2, <1>5, <2>1, ForgottenIsTrue DEF DrawOverlay
<1>6. CASE MakeCurrent
  BY <1>1, <1>2, <1>6, ForgottenIsTrue DEF MakeCurrent
<1>7. QED
  BY <1>3, <1>4, <1>5, <1>6

(* The wrappers of the single registers are SetRegister of a register. *)
LEMMA RegisterWrappers ==
    ASSUME NEW n \in Names
    PROVE  /\ \A k \in Plain!Buffers : BindBuffer(k, n) =>
                    \E r \in Registers : SetRegister(r, n)
           /\ BindFramebuffer(n) => \E r \in Registers : SetRegister(r, n)
           /\ BindRenderbuffer(n) => \E r \in Registers : SetRegister(r, n)
           /\ UseProgram(n) => \E r \in Registers : SetRegister(r, n)
           /\ \A c \in Caps : SetCapability(c, n) =>
                    \E r \in Registers : SetRegister(r, n)
           /\ \A i \in Attribs : SetVertexAttrib(i, n) =>
                    \E r \in Registers : SetRegister(r, n)
           /\ \A f \in FixedState : SetFixedState(f, n) =>
                    \E r \in Registers : SetRegister(r, n)
<1>1. /\ {"bound"} \X Plain!Objects \subseteq Registers
      /\ \A c \in Caps : <<"cap", c>> \in Registers
      /\ \A i \in Attribs : <<"attrib", i>> \in Registers
      /\ \A f \in FixedState : <<"fixed", f>> \in Registers
  BY DEF Registers, Plain!Registers
<1>2. /\ \A k \in Plain!Buffers : <<"bound", k>> \in Registers
      /\ \A k \in {"framebuffer", "renderbuffer", "program"} :
            <<"bound", k>> \in Registers
  BY <1>1 DEF Plain!Objects
<1>3. QED
  BY <1>1, <1>2 DEF BindBuffer, BindFramebuffer, BindRenderbuffer, UseProgram,
        SetCapability, SetVertexAttrib, SetFixedState

(* Every step keeps the invariant and is a step of PlainGL or leaves gl and *)
(* call alone.                                                              *)
LEMMA GlStepInv ==
    ASSUME CacheInv, [GlNext]_glVars
    PROVE  CacheInv' /\ [Plain!Next]_<<gl, call>>
<1>1. CASE UNCHANGED glVars
  BY <1>1 DEF glVars, CacheInv, CacheTrue, CachePlaced, GlTypeOK
<1>2. CASE GlDone
  BY <1>2 DEF GlDone, glVars, CacheInv, CacheTrue, CachePlaced, GlTypeOK
<1>3. ASSUME NEW u \in TextureUnits, ActiveTexture(u)
      PROVE  CacheInv' /\ Plain!Next
  <2>1. CacheInv' /\ gl' = Plain!AfterUnit(u)
    BY <1>3, ActiveTextureStep
  <2>2. call' = <<"unit", u>>
    BY <1>3 DEF ActiveTexture, Call
  <2>3. QED
    BY <2>1, <2>2 DEF Plain!Next
<1>4. ASSUME NEW g \in Targets, NEW n \in Names, BindTexture(g, n)
      PROVE  CacheInv' /\ Plain!Next
  <2>1. CacheInv' /\ gl' = Plain!AfterTexture(g, n)
    BY <1>4, BindTextureStep
  <2>2. call' = <<"tex", g, n>>
    BY <1>4 DEF BindTexture, Call
  <2>3. QED
    BY <2>1, <2>2 DEF Plain!Next, Targets
<1>5. ASSUME NEW r \in Registers, NEW n \in Names, SetRegister(r, n)
      PROVE  CacheInv' /\ Plain!Next
  <2>1. CacheInv' /\ gl' = Plain!AfterSet(r, n)
    BY <1>5, SetRegisterStep
  <2>2. call' = <<"set", r, n>>
    BY <1>5 DEF SetRegister, Call
  <2>3. QED
    BY <2>1, <2>2 DEF Plain!Next, Registers
<1>6. ASSUME NEW i \in Attribs, NEW n \in Names, VertexAttribPointer(i, n)
      PROVE  CacheInv' /\ Plain!Next
  <2>1. CacheInv' /\ gl' = Plain!AfterPointer(i, n)
    BY <1>6, VertexAttribPointerStep
  <2>2. call' = <<"pointer", i, n>>
    BY <1>6 DEF VertexAttribPointer, Call
  <2>3. QED
    BY <2>1, <2>2 DEF Plain!Next
<1>7. ASSUME NEW n \in Names \ {Zero},
             DeleteTextures(n) \/ \E kinds \in Plain!Kinds : DeleteObjects(kinds, n)
      PROVE  CacheInv' /\ Plain!Next
  <2>1. CacheInv'
    BY <1>7, DeletionStep
  <2>2. CASE DeleteTextures(n)
    BY <2>1, <2>2 DEF DeleteTextures, Call, Plain!Next
  <2>3. CASE \E kinds \in Plain!Kinds : DeleteObjects(kinds, n)
    BY <2>1, <2>3 DEF DeleteObjects, Call, Plain!Next
  <2>4. QED
    BY <1>7, <2>2, <2>3
<1>8. ASSUME NEW n \in Names, DrawOverlay(n)
      PROVE  CacheInv' /\ Plain!Next
  BY <1>8, DeletionStep DEF DrawOverlay, Call, Plain!Next
<1>9. ASSUME MakeCurrent
      PROVE  CacheInv' /\ Plain!Next
  BY <1>9, DeletionStep, ZeroAssumption DEF MakeCurrent, Call, Plain!Next
<1>10. CASE GlNext
  BY <1>2, <1>3, <1>4, <1>5, <1>6, <1>7, <1>8, <1>9, <1>10, RegisterWrappers
     DEF GlNext
<1>11. QED
  BY <1>1, <1>10

-----------------------------------------------------------------------------
(* The cache's variables keep their types, and what the cache holds is true *)
(* of the driver: glutil.c never remembers a binding the driver has not got.*)
THEOREM CacheTruthful == GlSpec => []CacheInv
<1>1. CacheInv /\ [GlNext]_glVars => CacheInv'
  BY GlStepInv
<1>2. QED
  BY GlInitInv, <1>1, PTL DEF GlSpec

(* What the wrappers of glutil.c leave out makes no difference: the game's  *)
(* calls have the effect they have in PlainGL.                              *)
THEOREM WrappersImplementGL == GlSpec => ImplementsPlainGL
<1>1. GlInit => Plain!Init
  BY DEF GlInit
<1>2. CacheInv /\ [GlNext]_glVars => [Plain!Next]_<<gl, call>>
  BY GlStepInv
<1>3. QED
  BY <1>1, <1>2, CacheTruthful, PTL DEF GlSpec, ImplementsPlainGL, Plain!Spec

-----------------------------------------------------------------------------
(* The union of the nine services.  What TLC explores in it is, part by part,  *)
(* what the part does alone: the others stay as they began.                    *)
LEMMA PartsBegin ==
    ServicesInit => /\ StreamsInit /\ StartUpInit /\ PrefInit /\ AssetInit /\ JavaInit
                    /\ CalendarInit /\ PadInit /\ UiInit /\ GlInit
BY DEF ServicesInit

LEMMA PartsGoOn ==
    ASSUME [ServicesNext]_<<part, streamVars, startVars, prefVars, assetVars, javaVars,
                            calendarVars, padVars, uiVars, glVars>>
    PROVE  /\ [StreamsNext]_streamVars /\ [StartUpNext]_startVars /\ [PrefNext]_prefVars
           /\ [AssetNext]_assetVars /\ [JavaNext]_javaVars /\ [CalendarNext]_calendarVars
           /\ [PadNext]_padVars /\ [UiNext]_uiVars /\ [GlNext]_glVars
BY Zenon DEF ServicesNext, Keep

THEOREM UnionIsItsParts ==
    ServicesSpec => /\ StreamsSpec /\ StartUpSpec /\ PrefSpec /\ AssetSpec /\ JavaSpec
                    /\ CalendarSpec /\ PadSpec /\ UiSpec /\ GlSpec
BY PartsBegin, PartsGoOn, PTL
   DEF ServicesSpec, StreamsSpec, StartUpSpec, PrefSpec, AssetSpec, JavaSpec, CalendarSpec,
       PadSpec, UiSpec, GlSpec

(* The type invariant that TLC checks on the union holds for all values of the *)
(* constants: each part keeps its own.                                         *)
THEOREM ServicesTypeCorrect == ServicesSpec => []ServicesTypeOK
<1>1. StartUpSpec => []StartUpTypeOK
  <2>1. StartUpInv => StartUpTypeOK
    BY DEF StartUpInv
  <2>2. QED
    BY <2>1, StartUpInitInv, StartUpStepInv, PTL DEF StartUpSpec
<1>2. JavaSpec => []JavaTypeOK
  <2>1. JavaInv => JavaTypeOK
    BY DEF JavaInv
  <2>2. QED
    BY <2>1, JavaInitially, JavaStep, PTL DEF JavaSpec
<1>3. PadSpec => []PadTypeOK
  <2>1. PointerInv => PadTypeOK
    BY DEF PointerInv
  <2>2. QED
    BY <2>1, PadInitInv, PointerStepInv, PTL DEF PadSpec
<1>4. GlSpec => []GlTypeOK
  <2>1. CacheInv => GlTypeOK
    BY DEF CacheInv
  <2>2. QED
    BY <2>1, CacheTruthful, PTL
<1> DEFINE Chosen == part \in {"saves", "start", "preferences", "assets", "java", "calendar",
                               "pad", "screens", "gl"}
<1>5. ServicesSpec => []Chosen
  <2>1. ServicesInit => Chosen
    BY DEF ServicesInit
  <2>2. Chosen /\ [ServicesNext]_<<part, streamVars, startVars, prefVars, assetVars, javaVars,
                                   calendarVars, padVars, uiVars, glVars>> => Chosen'
    BY DEF ServicesNext
  <2>3. QED
    BY <2>1, <2>2, PTL DEF ServicesSpec
<1>6. /\ StreamsTypeOK /\ StartUpTypeOK /\ PrefTypeOK /\ AssetTypeOK /\ JavaTypeOK
      /\ CalendarTypeOK /\ PadTypeOK /\ UiTypeOK /\ GlTypeOK
      /\ Chosen
      => ServicesTypeOK
  <2> SUFFICES ASSUME StreamsTypeOK, StartUpTypeOK, PrefTypeOK, AssetTypeOK, JavaTypeOK,
                      CalendarTypeOK, PadTypeOK, UiTypeOK, GlTypeOK, Chosen
               PROVE  ServicesTypeOK
    OBVIOUS
  <2>1. CASE part = "saves"
    BY <2>1 DEF ServicesTypeOK
  <2>2. CASE part = "start"
    BY <2>2 DEF ServicesTypeOK
  <2>3. CASE part = "preferences"
    BY <2>3 DEF ServicesTypeOK
  <2>4. CASE part = "assets"
    BY <2>4 DEF ServicesTypeOK
  <2>5. CASE part = "java"
    BY <2>5 DEF ServicesTypeOK
  <2>6. CASE part = "calendar"
    BY <2>6 DEF ServicesTypeOK
  <2>7. CASE part = "pad"
    BY <2>7 DEF ServicesTypeOK
  <2>8. CASE part = "screens"
    BY <2>8 DEF ServicesTypeOK
  <2>9. CASE part = "gl"
    BY <2>9 DEF ServicesTypeOK
  <2>10. QED
    BY <2>1, <2>2, <2>3, <2>4, <2>5, <2>6, <2>7, <2>8, <2>9
<1>7. QED
  BY <1>1, <1>2, <1>3, <1>4, <1>5, <1>6, UnionIsItsParts, StreamsTypeCorrect,
     PrefTypeCorrect, AssetsReadInside, CalendarTypeCorrect, ScreensTypeCorrect, PTL

(* What TLC checks of the services in their union holds there for all values of *)
(* the constants, as it does of each alone.                                     *)
THEOREM ServicesAreSafe ==
    ServicesSpec => /\ [](TableHoldsOpenSaves /\ RoomMeansTracked)
                    /\ [](ChoiceUsedOnce /\ LowGraphicsKept /\ PreferencesKept)
                    /\ [](NeverBeyondEnd /\ MkdirsMakesItsFile /\ DatesComeBack)
                    /\ [](PadPointerSound /\ StartDecidesOnce /\ OldDownStaysOut)
                    /\ ImplementsPlainGL
BY UnionIsItsParts, TableIsHonest, FullTableIsHonest, ChoicesAreOneShot, GraphicsChoiceKept,
   PreferencesAreKept, AssetsReadInside, MkdirsReportsItsFile, DatesAlwaysComeBack,
   PadPointerIsSound, StartHasOneOutcome, OldDownsStayOut, WrappersImplementGL, PTL
=============================================================================
