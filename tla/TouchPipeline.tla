---------------------------- MODULE TouchPipeline ----------------------------
(***************************************************************************)
(* The front touch pipeline of source/reimpl/controls.c.  A sampler thread *)
(* blocks on sceTouchRead(), sends the DOWN of a new contact at once while *)
(* the cached screen is InGameBorders, and queues the sample; the frame    *)
(* thread cancels and drops at a screen change, drains the queue in small  *)
(* batches, holds every release back for a frame, and replays the newest   *)
(* MOVE of a quick drag that the game has not picked up yet.               *)
(*                                                                         *)
(* A sample is a function from the contacts on the glass to their places.  *)
(* Pressure and the order of the reports are left out.  Only the frame     *)
(* thread writes the cached screen, the gestures and the deferred release. *)
(***************************************************************************)
EXTENDS Integers, Sequences, FiniteSets

CONSTANTS
    Fingers,       \* the contact ids; an id is not given out again while a sample with it is in flight
    Places,        \* the positions told apart
    Strip,         \* the places in the right-hand tower strip
    Tile,          \* the places on the Low Graphics tile of the Settings screen
    Near,          \* the pairs of places closer than TOUCH_DRAG_CANCEL_DISTANCE
    Capacity,      \* TOUCH_SAMPLE_QUEUE_CAPACITY
    PhaseLimit,    \* TOUCH_BATCH_PHASE_LIMIT
    PickupRetries, \* TOUCH_PICKUP_RETRY_FRAMES
    QuickRetries,  \* TOUCH_QUICK_DRAG_RETRY_FRAMES
    None,          \* no sample, no place
    MaxSamples,    \* bound on the samples of one behaviour
    MaxChanges     \* bound on its screen changes

ASSUME FingersAssumption == IsFiniteSet(Fingers)
ASSUME PlacesAssumption == Strip \subseteq Places /\ Tile \subseteq Places
ASSUME NearAssumption == Near \subseteq Places \X Places
ASSUME LimitsAssumption ==
    /\ Capacity \in Nat \ {0} /\ PhaseLimit \in Nat \ {0}
    /\ PickupRetries \in Nat /\ QuickRetries \in Nat
    /\ MaxSamples \in Nat /\ MaxChanges \in Nat

Samples == UNION {[held -> Places] : held \in SUBSET Fingers}
ASSUME NoneAssumption == None \notin Samples \cup Places

VARIABLES
    screen,      \* the cached UI context
    samplerUp,   \* touch_sampler_started
    smPc,        \* where touch_sampler_main() is in its loop
    previous,    \* its previous sample
    sample,      \* the sample it has just read, None while it waits
    early,       \* the new contacts of that sample whose immediate DOWN is still to be sent
    queue,       \* touch_sample_queue
    immediate,   \* touch_immediate_down[]
    framePc,     \* where controls_poll() is
    touchOld,    \* touch_old (and touch, which is equal between two samples)
    cancelled,   \* cancelled_touch_ids[]
    gesture,     \* touch_gestures[]
    deferred,    \* deferred_touch, None when it is not valid
    waits,       \* deferred_release_wait_frames
    phases,      \* delivered_phases
    down,        \* the pointers the game holds down (history, as all that follow)
    misfit,      \* the pointers that got an event their state does not allow
    fresh,       \* the pointers that got a DOWN or MOVE since this frame's poll began
    placing,     \* the contacts that were down in a frame of the placement screen
    lost,        \* the pointers whose early DOWN was followed by a loss of their samples
    untold,      \* the contacts the sampler saw and the frame thread has yet to process
    samples,     \* the samples so far
    changes      \* the screen changes so far

samplerVars == <<smPc, previous, sample, early>>
frameVars == <<screen, framePc, touchOld, cancelled, gesture, deferred, waits, phases, placing>>
gameVars == <<down, misfit, fresh>>
lossVars == <<lost, untold>>
countVars == <<samples, changes>>
vars == <<samplerUp, samplerVars, queue, immediate, frameVars, gameVars, lossVars, countVars>>

Screens == {"borders", "placement", "settings", "other"}
Larger(a, b) == IF a > b THEN a ELSE b
Nothing == [f \in {} |-> None]
NoGesture == [borders |-> FALSE, strip |-> FALSE, placement |-> FALSE, moved |-> FALSE,
              start |-> None]

(* controls_start_touch_sampler(): pthread_create() may fail. *)
SamplerStart ==
    /\ samplerUp \in BOOLEAN
    /\ smPc = "read" /\ previous = Nothing /\ sample = None /\ early = {}

Init ==
    /\ screen = "other"
    /\ SamplerStart
    /\ queue = <<>> /\ immediate = {}
    /\ framePc = "context" /\ touchOld = Nothing
    /\ cancelled = {} /\ gesture = [f \in Fingers |-> NoGesture]
    /\ deferred = None /\ waits = 0 /\ phases = 0
    /\ down = {} /\ misfit = {} /\ fresh = {} /\ placing = {}
    /\ lost = {} /\ untold = {}
    /\ samples = 0 /\ changes = 0

(* controls_handler_touch() for every pointer at once.  A DOWN fits a       *)
(* pointer that is up, every other event one that is down.                  *)
Tell(event, excused) ==
    /\ down' = {f \in Fingers : event[f] = "DOWN" \/ (f \in down /\ event[f] \in {"none", "MOVE"})}
    /\ misfit' = misfit \cup {f \in Fingers \ excused :
                                event[f] # "none" /\ ((event[f] = "DOWN") <=> (f \in down))}
    /\ fresh' = fresh \cup {f \in Fingers : event[f] \in {"DOWN", "MOVE"}}

TellAll(who, kind) == Tell([f \in Fingers |-> IF f \in who THEN kind ELSE "none"], {})

-----------------------------------------------------------------------------
(* Contacts a sample adds to, keeps from and takes from the frame thread's  *)
(* view; mutant of the last: an empty sample is taken for a failed read.    *)
New(s) == DOMAIN s \ DOMAIN touchOld
Shifted(s) == {f \in DOMAIN s \cap DOMAIN touchOld : s[f] # touchOld[f]}
GoneUnlessEmpty(s) == IF DOMAIN s = {} THEN {} ELSE DOMAIN touchOld \ DOMAIN s
Gone(s) == DOMAIN touchOld \ DOMAIN s

(* The contacts of the samples the frame thread has not processed. *)
Releasing == IF deferred = None THEN {} ELSE DOMAIN deferred
Waiting == Releasing \cup UNION {DOMAIN queue[i].data : i \in DOMAIN queue}
InFlight == DOMAIN previous \cup DOMAIN touchOld \cup Waiting

(* touch_topology_equal() and touch_reports_equal()                        *)
SameContacts(a, b) == DOMAIN a = DOMAIN b
SameReports(a, b) == a = b

(* The contacts of a sample that the sampler has not seen before.          *)
Begun(s) == DOMAIN s \ DOMAIN previous

(* sceTouchRead() returns a sample that differs from the previous one, and *)
(* the screen is looked at without a lock.                                 *)
SamplerRead ==
    /\ samplerUp
    /\ smPc = "read"
    /\ samples < MaxSamples
    /\ samples' = samples + 1
    /\ \E s \in Samples :
          /\ ~SameReports(previous, s)
          /\ Begun(s) \cap InFlight = {}
          /\ sample' = s
          /\ early' = IF screen = "borders" THEN Begun(s) ELSE {}
          /\ untold' = untold \cup Begun(s)
    /\ smPc' = IF early' = {} THEN "push" ELSE "down"
    /\ UNCHANGED <<samplerUp, previous, queue, immediate, frameVars, gameVars, lost, changes>>

(* touch_dispatch_immediate_game_down() for one contact: the flag is set   *)
(* and the DOWN is sent.  No other step tells the two apart.               *)
SamplerDown ==
    /\ smPc = "down"
    /\ \E f \in early :
          /\ immediate' = immediate \cup {f}
          /\ TellAll({f}, "DOWN")
          /\ early' = early \ {f}
    /\ smPc' = IF early' = {} THEN "push" ELSE "down"
    /\ UNCHANGED <<samplerUp, previous, sample, queue, frameVars, lossVars, countVars>>

(* A held sample replaces a held one of the same contacts at the end of    *)
(* the queue; mutant: every sample does.                                   *)
ReplacesAny(tail, s, held) == TRUE
Replaces(tail, s, held) == held /\ tail.held /\ SameContacts(tail.data, s)

Full(q) == Len(q) = Capacity

(* touch_sample_push(): the oldest sample makes room in a full queue.  An   *)
(* equal sample is never at the end of it: previous is, or nothing.        *)
SamplerPush ==
    LET held == SameContacts(previous, sample)
        entry == [data |-> sample, held |-> held]
        n == Len(queue)
        coalesces == n > 0 /\ Replaces(queue[n], sample, held)
        longer == Append(queue, entry)
        overflows == ~coalesces /\ Full(queue)
        unseen == IF overflows
                  THEN DOMAIN longer[1].data \ (DOMAIN touchOld \cup Releasing \cup DOMAIN longer[2].data)
                  ELSE {}
    IN  /\ smPc = "push"
        /\ queue' = CASE coalesces -> [queue EXCEPT ![n].data = sample]
                      [] overflows -> Tail(longer)
                      [] OTHER -> longer
        /\ previous' = sample
        /\ sample' = None
        /\ smPc' = "read"
        /\ lost' = lost \cup (unseen \cap immediate)
        /\ untold' = untold \ unseen
        /\ UNCHANGED <<samplerUp, early, immediate, frameVars, gameVars, countVars>>

-----------------------------------------------------------------------------
Continues(from, to) == {from, to} = {"borders", "placement"}

(* handle_ui_screen_change() without a cancellation: the contacts of a     *)
(* gesture that opened the placement screen; mutant: they are not marked.  *)
Unmarked(to) == gesture
MarkedPlacing(to) ==
    [f \in Fingers |-> IF to = "placement" /\ f \in DOMAIN touchOld
                       THEN [gesture[f] EXCEPT !.placement = TRUE] ELSE gesture[f]]

(* ui_context_update(): no change or a failed scan, the continuation of a  *)
(* placement gesture, or a new screen that ends every gesture.             *)
FrameContext ==
    /\ framePc = "context"
    /\ fresh' = {}
    /\ \E to \in Screens, changed \in BOOLEAN :
          /\ changed => changes < MaxChanges
          /\ changes' = IF changed THEN changes + 1 ELSE changes
          /\ screen' = IF changed THEN to ELSE screen
          /\ framePc' = IF changed /\ ~Continues(screen, to) THEN "cancel" ELSE "poll"
          /\ gesture' = IF changed /\ Continues(screen, to) THEN MarkedPlacing(to) ELSE gesture
    /\ placing' = IF screen' = "placement" THEN placing \cup DOMAIN touchOld ELSE placing
    /\ UNCHANGED <<samplerUp, samplerVars, queue, immediate, touchOld, cancelled, deferred,
                   waits, phases, down, misfit, lossVars, samples>>

(* cancel_active_touches(), as far as the front touch goes. *)
CancelActive ==
    /\ TellAll(DOMAIN touchOld \ cancelled, "CANCEL")
    /\ cancelled' = cancelled \cup DOMAIN touchOld

FrameCancel ==
    /\ framePc = "cancel"
    /\ CancelActive
    /\ framePc' = "drop"
    /\ UNCHANGED <<samplerUp, samplerVars, queue, immediate, screen, touchOld, gesture,
                   deferred, waits, phases, placing, lost, untold, countVars>>

(* touch_sample_drop_pending(): the queue under its mutex, the deferred    *)
(* release, then the flags of the early DOWNs without it.                  *)
FrameDrop ==
    /\ framePc = "drop"
    /\ queue' = <<>>
    /\ deferred' = None /\ waits' = 0
    /\ untold' = untold \ Waiting
    /\ lost' = lost \cup (Waiting \cap immediate)
    /\ framePc' = "clear"
    /\ UNCHANGED <<samplerUp, samplerVars, immediate, screen, touchOld, cancelled, gesture,
                   phases, placing, gameVars, countVars>>

FrameClear ==
    /\ framePc = "clear"
    /\ lost' = lost \cup immediate
    /\ immediate' = {}
    /\ framePc' = "poll"
    /\ UNCHANGED <<samplerUp, samplerVars, queue, screen, touchOld, cancelled, gesture,
                   deferred, waits, phases, placing, gameVars, untold, countVars>>

-----------------------------------------------------------------------------
(* A drag from the live map that the game has not answered with its        *)
(* placement screen.                                                       *)
PlacementSeen(f) == gesture[f].placement \/ screen = "placement"
Unclaimed(f) == gesture[f].borders /\ gesture[f].moved /\ ~PlacementSeen(f)

OnTile(s, f) == screen = "settings" /\ s[f] \in Tile

(* What process_touch_sample() tells the game.  A contact on the Low        *)
(* Graphics tile never reaches it.                                          *)
EventsOf(s) ==
    [f \in Fingers |->
        CASE f \in New(s) /\ OnTile(s, f) -> IF f \in immediate THEN "CANCEL" ELSE "none"
          [] f \in New(s) /\ ~OnTile(s, f) -> IF f \in immediate THEN "none" ELSE "DOWN"
          [] f \in Shifted(s) \ cancelled -> "MOVE"
          [] f \in Gone(s) \ cancelled ->
                IF Unclaimed(f) /\ screen = "borders" /\ ~gesture[f].strip
                THEN "CANCEL" ELSE "UP"
          [] OTHER -> "none"]

(* The flags left after the early DOWNs of a sample; mutant: they stay set. *)
FlagsKept(s) == immediate
FlagsTaken(s) == immediate \ New(s)

InStrip(place) == place \in Strip

GestureAfter(s, f) ==
    CASE f \in New(s) -> [borders |-> screen = "borders",
                          strip |-> screen = "borders" /\ InStrip(s[f]),
                          placement |-> screen = "placement", moved |-> FALSE, start |-> s[f]]
      [] f \in Shifted(s) \ cancelled ->
            [gesture[f] EXCEPT !.placement = PlacementSeen(f),
                               !.moved = @ \/ (gesture[f].start # s[f] /\ <<gesture[f].start, s[f]>> \notin Near)]
      [] f \in Gone(s) -> NoGesture
      [] OTHER -> gesture[f]

Process(s) ==
    /\ Tell(EventsOf(s), {})
    /\ cancelled' = (cancelled \ (New(s) \cup Gone(s))) \cup {f \in New(s) : OnTile(s, f)}
    /\ immediate' = FlagsTaken(s)
    /\ gesture' = [f \in Fingers |-> GestureAfter(s, f)]
    /\ touchOld' = s
    /\ untold' = untold \ New(s)
    /\ placing' = ((placing \ New(s)) \cap DOMAIN s) \cup (IF screen = "placement" THEN DOMAIN s ELSE {})

(* poll_touch() holds a release back while a drag is unclaimed and retries *)
(* are left (a strip drag also has a time limit), replaying its last MOVE. *)
Held == {f \in DOMAIN touchOld : screen = "borders" /\ Unclaimed(f)}
RetryLimit == IF \E f \in Held : gesture[f].strip THEN QuickRetries ELSE PickupRetries

(* The retries used after one more; mutant: they are not counted. *)
UncountedRetry == waits
CountedRetry == waits + 1

FrameHold ==
    /\ framePc = "poll" /\ samplerUp
    /\ deferred # None
    /\ Held # {}
    /\ waits < RetryLimit
    /\ Tell([f \in Fingers |-> IF f \in Held THEN "MOVE" ELSE "none"], cancelled)
    /\ waits' = CountedRetry
    /\ framePc' = "pad"
    /\ UNCHANGED <<samplerUp, samplerVars, queue, immediate, screen, touchOld, cancelled,
                   gesture, deferred, phases, placing, lossVars, countVars>>

(* The deferred release is delivered.  The guard of has_source_strip_drag  *)
(* and the clock decide whether the retries may be cut short.              *)
FrameRelease ==
    /\ framePc = "poll" /\ samplerUp
    /\ deferred # None
    /\ \/ Held = {}
       \/ waits >= RetryLimit
       \/ \E f \in Held : gesture[f].strip
    /\ Process(deferred)
    /\ deferred' = None /\ waits' = 0
    /\ framePc' = "pad"
    /\ UNCHANGED <<samplerUp, samplerVars, queue, screen, phases, lost, countVars>>

(* A sample that ends a contact waits for the next frame; mutant: never. *)
DefersNothing(s) == FALSE
Defers(s) == Gone(s) # {}

(* touch_sample_pop() takes the oldest sample, under the mutex. *)
SamplePop == queue # <<>> /\ queue' = Tail(queue)

(* What poll_touch() does with it: a sample of a batch, or the end of one. *)
FramePop ==
    LET s == queue[1].data
        counts == New(s) # {} \/ Shifted(s) \ cancelled # {} \/ Gone(s) # {}
        phase == IF counts THEN phases + 1 ELSE phases
        ends == phase >= PhaseLimit
    IN  /\ framePc = "poll" /\ samplerUp
        /\ deferred = None
        /\ SamplePop
        /\ \/ /\ Defers(s)
              /\ deferred' = s /\ waits' = 0 /\ phases' = 0
              /\ framePc' = "pad"
              /\ UNCHANGED <<immediate, touchOld, cancelled, gesture, placing, gameVars, untold>>
           \/ /\ ~Defers(s)
              /\ Process(s)
              /\ phases' = IF ends THEN 0 ELSE phase
              /\ framePc' = IF ends THEN "pad" ELSE "poll"
              /\ UNCHANGED <<deferred, waits>>
        /\ UNCHANGED <<samplerUp, samplerVars, screen, lost, countVars>>

FrameDrained ==
    /\ framePc = "poll" /\ samplerUp
    /\ deferred = None
    /\ queue = <<>>
    /\ phases' = 0
    /\ framePc' = "pad"
    /\ UNCHANGED <<samplerUp, samplerVars, queue, immediate, screen, touchOld, cancelled,
                   gesture, deferred, waits, placing, gameVars, lossVars, countVars>>

(* Without the sampler the panel is polled once per frame; a failed read    *)
(* changes nothing.                                                         *)
FramePeek ==
    /\ framePc = "poll" /\ ~samplerUp
    /\ \/ /\ samples < MaxSamples
          /\ samples' = samples + 1
          /\ \E s \in Samples : Process(s)
       \/ UNCHANGED <<immediate, touchOld, cancelled, gesture, placing, gameVars, untold, samples>>
    /\ framePc' = "pad"
    /\ UNCHANGED <<samplerUp, samplerVars, queue, screen, deferred, waits, phases, lost, changes>>

(* poll_pad(), as far as the front touch goes: Circle, Start and Select in  *)
(* Settings cancel what is held.  Then nativeTick() runs.                   *)
FramePad ==
    /\ framePc = "pad"
    /\ \/ CancelActive
       \/ UNCHANGED <<cancelled, gameVars>>
    /\ framePc' = "context"
    /\ UNCHANGED <<samplerUp, samplerVars, queue, immediate, screen, touchOld, gesture,
                   deferred, waits, phases, placing, lossVars, countVars>>

FrameStep ==
    \/ FrameContext \/ FrameCancel \/ FrameDrop \/ FrameClear
    \/ FrameHold \/ FrameRelease \/ FramePop \/ FrameDrained \/ FramePeek \/ FramePad

SamplerFinishes == SamplerDown \/ SamplerPush

Next == SamplerRead \/ SamplerFinishes \/ FrameStep

Spec == Init /\ [][Next]_vars

(* The main loop keeps polling and the sampler finishes what it has read.   *)
FairSpec == Spec /\ WF_vars(FrameStep) /\ WF_vars(SamplerFinishes)

-----------------------------------------------------------------------------
(* No contact is on the glass and every sample of the past is processed. *)
Settled ==
    /\ samplerUp
    /\ smPc = "read" /\ DOMAIN previous = {}
    /\ queue = <<>> /\ deferred = None
    /\ framePc = "context"

(* The two threads together send the game, for every pointer, one DOWN,     *)
(* then MOVEs, then one UP or CANCEL, whatever is cancelled in between.     *)
(* Left out: a pointer whose early DOWN lost its samples, and the replayed  *)
(* MOVE of SuppressedStaysIgnored.                                          *)
PointersFit == misfit \subseteq lost

(* When the fingers are gone and every sample is processed, a pointer is    *)
(* down in the game only if its samples were dropped behind its early DOWN, *)
(* at a screen change or by an overflow: touch_sample_drop_pending() clears *)
(* the flag of that DOWN (controls.c 277) and tells the game nothing, so    *)
(* such a pointer does stay down, until a later contact of its number ends. *)
NoStuckPointer == Settled => down \subseteq lost

(* A tap that begins and ends during one long frame is seen by the frame    *)
(* thread, unless a screen change or an overflow dropped it.                *)
NoTapLost == Settled => untold = {}

(* "A release captured during a low-FPS frame is never delivered in the     *)
(* same nativeTick as its DOWN/MOVE."                                       *)
ReleaseWaitsAFrame == [][\A f \in Gone(touchOld') \ cancelled : f \notin fresh]_vars

(* A drag that opened the placement screen, however briefly, is never ended *)
(* by a CANCEL at its release.                                              *)
PlacementCompletes ==
    [][\A f \in (placing \ cancelled) \cap Gone(touchOld') : EventsOf(touchOld')[f] = "UP"]_vars

(* The release of a finger reaches the game: the holding back of unclaimed  *)
(* drags and the batches of the frames come to an end.                      *)
ReleasesArrive ==
    \A f \in Fingers :
        f \in down ~> (f \notin down \/ f \in lost \/ f \in DOMAIN previous \/ ~samplerUp)

(* "Suppressed physical contacts stay ignored until the finger is lifted":  *)
(* a cancelled contact that is still on the glass gets no further event.    *)
SuppressedStaysIgnored ==
    [][\A f \in cancelled \cap DOMAIN touchOld \cap DOMAIN previous : f \notin fresh' \ fresh]_vars

(* "A currently held finger remains suppressed": a contact whose first      *)
(* samples were dropped at a screen change starts nothing on the new screen. *)
HeldFingerSuppressed == [][samplerUp => New(touchOld') \subseteq untold]_vars

(* "... until its physical UP arrives": a suppressed contact is not counted *)
(* as held once its finger is gone and all samples are processed.           *)
SuppressionEnds == Settled => DOMAIN touchOld = {}
=============================================================================
