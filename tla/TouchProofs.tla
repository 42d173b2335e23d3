---------------------------- MODULE TouchProofs ----------------------------
(* Theorems about TouchPipeline, for any contacts, places, queue length and   *)
(* number of retries: what the game is told of a pointer fits together, no    *)
(* pointer stays down, no tap is lost, a release waits a frame, and a drag    *)
(* that opened the placement screen is completed.                             *)
EXTENDS TouchPipeline, SequenceTheorems, TLAPS

Entries == [data : Samples, held : BOOLEAN]
Gestures == [borders : BOOLEAN, strip : BOOLEAN, placement : BOOLEAN, moved : BOOLEAN,
             start : Places \cup {None}]

TouchTypes ==
    /\ screen \in Screens /\ samplerUp \in BOOLEAN
    /\ smPc \in {"read", "down", "push"}
    /\ framePc \in {"context", "cancel", "drop", "clear", "poll", "pad"}
    /\ {previous, touchOld} \subseteq Samples
    /\ {sample, deferred} \subseteq Samples \cup {None}
    /\ queue \in Seq(Entries)
    /\ {early, immediate, cancelled, down, misfit, fresh, placing, lost, untold}
            \subseteq SUBSET Fingers
    /\ gesture \in [Fingers -> Gestures]
    /\ {waits, phases, samples, changes} \subseteq Nat

(* The contacts of the sample that the sampler has read and not pushed.        *)
Unpushed == IF sample = None THEN {} ELSE DOMAIN sample

(* The sampler's place in its loop tells what it holds.  A contact whose early *)
(* DOWN is still to be sent is in no sample that the frame thread can see.     *)
SamplerInv ==
    /\ smPc = "read" <=> sample = None
    /\ smPc = "down" <=> early # {}
    /\ early \subseteq Unpushed
    /\ early \cap (DOMAIN touchOld \cup Waiting) = {}
    /\ ~samplerUp => /\ smPc = "read" /\ queue = <<>> /\ deferred = None
                     /\ immediate = {} /\ untold = {}

(* A flag of an early DOWN, and a contact that the frame thread was not told   *)
(* of, belong to a contact whose first sample is still on its way.             *)
FlagsInv ==
    /\ immediate \ lost \subseteq Waiting \cup Unpushed
    /\ (immediate \ lost) \cap (DOMAIN touchOld \cup early) = {}
    /\ untold \subseteq Waiting \cup Unpushed
    /\ untold \cap DOMAIN touchOld = {}

(* What the game believes of a pointer is what the two threads have told it:   *)
(* down in the last processed sample, or by an early DOWN, and not cancelled.  *)
ViewInv ==
    /\ cancelled \subseteq DOMAIN touchOld
    /\ \A f \in Fingers \ lost :
          f \in down <=> f \in (DOMAIN touchOld \ cancelled) \cup (immediate \ DOMAIN touchOld)
    /\ misfit \subseteq lost

(* The newest sample on its way is the sampler's previous one; when none is,   *)
(* only contacts of that one are held and not cancelled.                       *)
LastInv ==
    /\ queue # <<>> => queue[Len(queue)].data = previous
    /\ queue = <<>> /\ deferred # None => deferred = previous
    /\ samplerUp /\ queue = <<>> /\ deferred = None =>
            DOMAIN touchOld \ cancelled \subseteq DOMAIN previous
    /\ framePc = "drop" => DOMAIN touchOld \subseteq cancelled

(* Until a held-back release is delivered, no contact of the last processed    *)
(* sample has had an event in this frame.                                      *)
FreshInv ==
    /\ framePc \in {"poll", "cancel"} /\ deferred # None => fresh \cap DOMAIN touchOld = {}
    /\ framePc = "clear" => deferred = None
    /\ framePc \in {"poll", "cancel", "drop", "clear"} /\ ~samplerUp => fresh = {}

(* A contact that was down in a frame of the placement screen is marked so,    *)
(* unless it is cancelled or about to be.                                      *)
PlacingInv ==
    /\ placing \subseteq DOMAIN touchOld
    /\ framePc # "cancel" =>
          /\ \A f \in placing \ cancelled : gesture[f].placement
          /\ screen = "placement" =>
                \A f \in DOMAIN touchOld \ cancelled : gesture[f].placement

TouchInv == TouchTypes /\ SamplerInv /\ FlagsInv /\ ViewInv /\ LastInv /\ FreshInv /\ PlacingInv
-----------------------------------------------------------------------------
(* The contacts of a queue.                                                    *)
Queued(q) == UNION {DOMAIN q[i].data : i \in DOMAIN q}

LEMMA SampleFacts ==
    ASSUME NEW s \in Samples
    PROVE  s # None /\ DOMAIN s \subseteq Fingers
BY NoneAssumption DEF Samples

LEMMA NothingIsSample == Nothing \in Samples /\ DOMAIN Nothing = {}
<1>1. Nothing = [f \in {} |-> None] /\ DOMAIN Nothing = {}
  BY DEF Nothing
<1>2. Nothing \in [{} -> Places]
  BY <1>1
<1>3. {} \in SUBSET Fingers
  OBVIOUS
<1>4. QED
  BY <1>1, <1>2, <1>3 DEF Samples

LEMMA WaitingParts == Waiting = Releasing \cup Queued(queue)
BY DEF Waiting, Queued

LEMMA QueuedEmpty == Queued(<<>>) = {}
BY DEF Queued

LEMMA QueuedMember ==
    ASSUME NEW q \in Seq(Entries), NEW f
    PROVE  f \in Queued(q) <=> \E i \in 1..Len(q) : f \in DOMAIN q[i].data
BY DEF Queued

LEMMA QueuedTail ==
    ASSUME NEW q \in Seq(Entries), q # <<>>
    PROVE  /\ Tail(q) \in Seq(Entries)
           /\ Queued(q) = DOMAIN q[1].data \cup Queued(Tail(q))
<1>1. /\ Tail(q) \in Seq(Entries) /\ Len(q) \in Nat \ {0} /\ Len(Tail(q)) = Len(q) - 1
      /\ \A i \in 1..Len(Tail(q)) : Tail(q)[i] = q[i + 1]
  OBVIOUS
<1>2. ASSUME NEW f
      PROVE  f \in Queued(q) <=> f \in DOMAIN q[1].data \/ f \in Queued(Tail(q))
  <2>1. CASE f \in Queued(q)
    <3>1. PICK i \in 1..Len(q) : f \in DOMAIN q[i].data
      BY <2>1, QueuedMember
    <3>2. CASE i = 1
      BY <2>1, <3>1, <3>2
    <3>3. CASE i # 1
      <4>1. i - 1 \in 1..Len(Tail(q)) /\ Tail(q)[i - 1] = q[i]
        BY <1>1, <3>3
      <4>2. QED
        BY <1>1, <2>1, <3>1, <4>1, QueuedMember
    <3>4. QED
      BY <3>2, <3>3
  <2>2. CASE f \in Queued(Tail(q))
    <3>1. PICK i \in 1..Len(Tail(q)) : f \in DOMAIN Tail(q)[i].data
      BY <1>1, <2>2, QueuedMember
    <3>2. i + 1 \in 1..Len(q) /\ Tail(q)[i] = q[i + 1]
      BY <1>1
    <3>3. QED
      BY <2>2, <3>1, <3>2, QueuedMember
  <2>3. CASE f \in DOMAIN q[1].data
    BY <1>1, <2>3, QueuedMember
  <2>4. QED
    BY <2>1, <2>2, <2>3
<1>3. QED
  BY <1>1, <1>2

LEMMA QueuedAppend ==
    ASSUME NEW q \in Seq(Entries), NEW e \in Entries
    PROVE  /\ Append(q, e) \in Seq(Entries)
           /\ Len(Append(q, e)) = Len(q) + 1
           /\ Append(q, e)[Len(q) + 1] = e
           /\ Queued(Append(q, e)) = Queued(q) \cup DOMAIN e.data
<1>1. /\ Append(q, e) \in Seq(Entries) /\ Len(q) \in Nat /\ Len(Append(q, e)) = Len(q) + 1
      /\ Append(q, e)[Len(q) + 1] = e
      /\ \A i \in 1..Len(q) : Append(q, e)[i] = q[i]
  OBVIOUS
<1>2. ASSUME NEW f
      PROVE  f \in Queued(Append(q, e)) <=> f \in Queued(q) \/ f \in DOMAIN e.data
  <2>1. 1..Len(Append(q, e)) = 1..Len(q) \cup {Len(q) + 1}
    BY <1>1
  <2>2. QED
    BY <1>1, <2>1, QueuedMember
<1>3. QED
  BY <1>1, <1>2

(* The newest entry's sample is replaced by one of the same contacts.          *)
LEMMA QueuedReplaced ==
    ASSUME NEW q \in Seq(Entries), NEW s \in Samples, Len(q) > 0,
           DOMAIN q[Len(q)].data = DOMAIN s
    PROVE  LET r == [q EXCEPT ![Len(q)].data = s]
           IN  /\ r \in Seq(Entries) /\ r # <<>>
               /\ r[Len(r)].data = s
               /\ Queued(r) = Queued(q)
<1> DEFINE r == [q EXCEPT ![Len(q)].data = s]
<1>1. Len(q) \in Nat \ {0} /\ q \in [1..Len(q) -> Entries] /\ Len(q) \in 1..Len(q)
  OBVIOUS
<1>2. [q[Len(q)] EXCEPT !.data = s] \in Entries
  BY <1>1 DEF Entries
<1>3. r \in [1..Len(q) -> Entries] /\ r[Len(q)] = [q[Len(q)] EXCEPT !.data = s]
  BY <1>1, <1>2
<1>4. r \in Seq(Entries) /\ Len(r) = Len(q)
  BY <1>1, <1>3
<1>5. r[Len(r)].data = s
  BY <1>1, <1>3, <1>4 DEF Entries
<1>6. \A i \in 1..Len(q) : DOMAIN r[i].data = DOMAIN q[i].data
  <2> TAKE i \in 1..Len(q)
  <2>1. CASE i = Len(q)
    BY <1>4, <1>5, <2>1
  <2>2. CASE i # Len(q)
    BY <1>1, <2>2
  <2>3. QED
    BY <2>1, <2>2
<1>7. Queued(r) = Queued(q)
  BY <1>4, <1>6, QueuedMember
<1>8. r # <<>>
  BY <1>1, <1>4
<1>9. QED
  BY <1>4, <1>5, <1>7, <1>8

-----------------------------------------------------------------------------
(* process_touch_sample() keeps the types, whatever sample it is given.        *)
LEMMA PlacesOfSample ==
    ASSUME NEW s \in Samples, NEW f \in DOMAIN s
    PROVE  s[f] \in Places
BY DEF Samples

LEMMA TellTypes ==
    ASSUME TouchTypes, NEW event, NEW excused, Tell(event, excused)
    PROVE  {down', misfit', fresh'} \subseteq SUBSET Fingers
BY DEF TouchTypes, Tell

LEMMA ProcessTypes ==
    ASSUME TouchTypes, NEW s \in Samples, Process(s)
    PROVE  /\ touchOld' \in Samples
           /\ {immediate', cancelled', down', misfit', fresh', placing', untold'}
                    \subseteq SUBSET Fingers
           /\ gesture' \in [Fingers -> Gestures]
<1>1. DOMAIN s \subseteq Fingers /\ DOMAIN touchOld \subseteq Fingers
  BY SampleFacts DEF TouchTypes
<1>2. {down', misfit', fresh'} \subseteq SUBSET Fingers
  BY TellTypes DEF Process
<1>3. cancelled' \in SUBSET Fingers /\ immediate' \in SUBSET Fingers
      /\ untold' \in SUBSET Fingers /\ placing' \in SUBSET Fingers
  BY <1>1 DEF Process, TouchTypes, New, Gone, FlagsTaken
<1>4. ASSUME NEW f \in Fingers
      PROVE  GestureAfter(s, f) \in Gestures
  <2>1. gesture[f] \in Gestures /\ NoGesture \in Gestures
    BY DEF TouchTypes, Gestures, NoGesture
  <2>2. CASE f \in New(s)
    <3>1. s[f] \in Places
      BY <2>2, PlacesOfSample DEF New
    <3>2. GestureAfter(s, f) =
              [borders |-> screen = "borders",
               strip |-> screen = "borders" /\ s[f] \in Strip,
               placement |-> screen = "placement", moved |-> FALSE, start |-> s[f]]
      BY <2>2 DEF GestureAfter, New, Shifted, Gone, InStrip
    <3>3. QED
      BY <3>1, <3>2 DEF Gestures
  <2>3. CASE f \in Shifted(s) \ cancelled
    <3>1. GestureAfter(s, f) =
            [gesture[f] EXCEPT !.placement = PlacementSeen(f),
               !.moved = @ \/ (gesture[f].start # s[f] /\ <<gesture[f].start, s[f]>> \notin Near)]
      BY <2>3 DEF GestureAfter, New, Shifted, Gone
    <3>2. PlacementSeen(f) \in BOOLEAN
      BY <2>1 DEF PlacementSeen, Gestures
    <3>3. QED
      BY <2>1, <3>1, <3>2 DEF Gestures
  <2>4. CASE f \in Gone(s)
    BY <2>1, <2>4 DEF GestureAfter, New, Shifted, Gone
  <2>5. CASE f \notin New(s) \cup (Shifted(s) \ cancelled) \cup Gone(s)
    BY <2>1, <2>5 DEF GestureAfter
  <2>6. QED
    BY <2>2, <2>3, <2>4, <2>5
<1>5. QED
  BY <1>2, <1>3, <1>4 DEF Process

LEMMA TouchInitTypes == Init => TouchTypes
<1>1. NoGesture \in Gestures
  BY DEF NoGesture, Gestures
<1>2. QED
  BY <1>1, NothingIsSample
     DEF Init, SamplerStart, TouchTypes, Screens

LEMMA FrameTypes ==
    ASSUME TouchTypes, FrameStep
    PROVE  TouchTypes'
<1>0. /\ DOMAIN touchOld \subseteq Fingers
      /\ \A s \in Samples : s # None
      /\ deferred # None => deferred \in Samples
  BY SampleFacts DEF TouchTypes
<1>1. CASE FrameContext
  <2>1. ASSUME NEW to PROVE MarkedPlacing(to) \in [Fingers -> Gestures]
    <3>1. \A f \in Fingers : /\ gesture[f] \in Gestures
                             /\ [gesture[f] EXCEPT !.placement = TRUE] \in Gestures
      BY DEF TouchTypes, Gestures
    <3>2. QED
      BY <3>1 DEF MarkedPlacing
  <2>2. gesture' \in [Fingers -> Gestures]
    BY <1>1, <2>1 DEF FrameContext, TouchTypes
  <2>3. screen' \in Screens /\ framePc' \in {"cancel", "poll"} /\ changes' \in Nat
    BY <1>1 DEF FrameContext, TouchTypes
  <2>4. placing' \in SUBSET Fingers /\ fresh' = {}
    BY <1>0, <1>1 DEF FrameContext, TouchTypes
  <2>5. QED
    BY <1>1, <2>2, <2>3, <2>4 DEF FrameContext, TouchTypes, samplerVars, lossVars
<1>2. CASE FrameCancel
  <2>1. {down', misfit', fresh'} \subseteq SUBSET Fingers
    BY <1>2, TellTypes DEF FrameCancel, CancelActive, TellAll
  <2>2. cancelled' \in SUBSET Fingers
    BY <1>0, <1>2 DEF FrameCancel, CancelActive, TouchTypes
  <2>3. QED
    BY <1>2, <2>1, <2>2 DEF FrameCancel, TouchTypes, samplerVars, countVars
<1>3. CASE FrameDrop
  <2>1. lost' \in SUBSET Fingers /\ untold' \in SUBSET Fingers
    BY <1>3 DEF FrameDrop, TouchTypes
  <2>2. QED
    BY <1>3, <2>1 DEF FrameDrop, TouchTypes, samplerVars, countVars, gameVars
<1>4. CASE FrameClear
  BY <1>4 DEF FrameClear, TouchTypes, samplerVars, countVars, gameVars
<1>5. CASE FrameHold
  <2>1. {down', misfit', fresh'} \subseteq SUBSET Fingers
    BY <1>5, TellTypes DEF FrameHold
  <2>2. QED
    BY <1>5, <2>1 DEF FrameHold, TouchTypes, samplerVars, countVars, lossVars, CountedRetry
<1>6. CASE FrameRelease
  <2>1. deferred \in Samples /\ Process(deferred)
    BY <1>0, <1>6 DEF FrameRelease
  <2>2. QED
    BY <1>6, <2>1, ProcessTypes DEF FrameRelease, TouchTypes, samplerVars, countVars
<1>7. CASE FramePop
  <2>1. queue \in Seq(Entries) /\ queue # <<>> /\ queue' = Tail(queue)
    BY <1>7 DEF FramePop, SamplePop, TouchTypes
  <2>2. queue' \in Seq(Entries) /\ queue[1] \in Entries
    BY <2>1, QueuedTail
  <2>3. queue[1].data \in Samples
    BY <2>2 DEF Entries
  <2>4. CASE Defers(queue[1].data) /\ deferred' = queue[1].data
    BY <1>7, <2>2, <2>3, <2>4 DEF FramePop, TouchTypes, samplerVars, countVars, gameVars
  <2>5. CASE Process(queue[1].data) /\ UNCHANGED <<deferred, waits>>
    BY <1>7, <2>2, <2>3, <2>5, ProcessTypes DEF FramePop, TouchTypes, samplerVars, countVars
  <2>6. QED
    BY <1>7, <2>4, <2>5 DEF FramePop
<1>8. CASE FrameDrained
  BY <1>8 DEF FrameDrained, TouchTypes, samplerVars, countVars, gameVars, lossVars
<1>9. CASE FramePeek
  <2>1. CASE \E s \in Samples : samples' = samples + 1 /\ Process(s)
    BY <1>9, <2>1, ProcessTypes DEF FramePeek, TouchTypes, samplerVars
  <2>2. CASE UNCHANGED <<immediate, touchOld, cancelled, gesture, placing, gameVars, untold, samples>>
    BY <1>9, <2>2 DEF FramePeek, TouchTypes, samplerVars, gameVars
  <2>3. QED
    BY <1>9, <2>1, <2>2 DEF FramePeek
<1>10. CASE FramePad
  <2>1. {down', misfit', fresh'} \subseteq SUBSET Fingers /\ cancelled' \in SUBSET Fingers
    BY <1>0, <1>10, TellTypes DEF FramePad, CancelActive, TellAll, TouchTypes, gameVars
  <2>2. QED
    BY <1>10, <2>1 DEF FramePad, TouchTypes, samplerVars, countVars, lossVars
<1>11. QED
  BY <1>1, <1>2, <1>3, <1>4, <1>5, <1>6, <1>7, <1>8, <1>9, <1>10 DEF FrameStep

-----------------------------------------------------------------------------
(* touch_sample_push(): the sample ends up at the end of the queue, and        *)
(* whoever leaves the queue by the overflow is known to the frame thread or is *)
(* written off.                                                                *)
LEMMA PushFacts ==
    ASSUME TouchTypes, SamplerInv, SamplerPush
    PROVE  /\ sample \in Samples
           /\ queue' \in Seq(Entries) /\ queue' # <<>>
           /\ queue'[Len(queue')].data = sample
           /\ DOMAIN sample \subseteq Queued(queue')
           /\ Queued(queue') \subseteq Queued(queue) \cup DOMAIN sample
           /\ \E unseen \in SUBSET Fingers :
                 /\ lost' = lost \cup (unseen \cap immediate)
                 /\ untold' = untold \ unseen
                 /\ Queued(queue) \subseteq
                        Queued(queue') \cup DOMAIN touchOld \cup Releasing \cup unseen
<1> DEFINE held == SameContacts(previous, sample)
           entry == [data |-> sample, held |-> held]
           n == Len(queue)
           coalesces == n > 0 /\ Replaces(queue[n], sample, held)
           longer == Append(queue, entry)
           overflows == ~coalesces /\ Full(queue)
           beyond == DOMAIN longer[1].data
                        \ (DOMAIN touchOld \cup Releasing \cup DOMAIN longer[2].data)
           unseen == IF overflows THEN beyond ELSE {}
<1>1. /\ sample \in Samples /\ DOMAIN sample \subseteq Fingers
      /\ queue \in Seq(Entries)
      /\ entry \in Entries /\ entry.data = sample
  BY SampleFacts DEF SamplerPush, SamplerInv, TouchTypes, Entries, SameContacts
<1>2. /\ queue' = CASE coalesces -> [queue EXCEPT ![n].data = sample]
                    [] overflows -> Tail(longer)
                    [] OTHER -> longer
      /\ lost' = lost \cup (unseen \cap immediate)
      /\ untold' = untold \ unseen
  BY DEF SamplerPush
<1> HIDE DEF entry
<1>3. /\ longer \in Seq(Entries) /\ Len(longer) = n + 1 /\ longer[n + 1] = entry
      /\ Queued(longer) = Queued(queue) \cup DOMAIN sample
      /\ n \in Nat
  BY <1>1, QueuedAppend
<1>4. CASE coalesces
  <2>1. n > 0 /\ DOMAIN queue[n].data = DOMAIN sample
    BY <1>4 DEF Replaces, SameContacts
  <2>2. queue' = [queue EXCEPT ![n].data = sample] /\ unseen = {}
    BY <1>2, <1>4
  <2>3. /\ queue' \in Seq(Entries) /\ queue' # <<>> /\ queue'[Len(queue')].data = sample
        /\ Queued(queue') = Queued(queue)
    BY <1>1, <2>1, <2>2, QueuedReplaced
  <2>4. DOMAIN sample \subseteq Queued(queue)
    BY <1>1, <1>3, <2>1, QueuedMember
  <2>5. QED
    BY <1>1, <1>2, <2>2, <2>3, <2>4
<1>5. CASE overflows
  <2>1. queue' = Tail(longer) /\ unseen = beyond /\ n = Capacity
    BY <1>2, <1>5 DEF Full
  <2>2. n \in Nat \ {0}
    BY <2>1, LimitsAssumption
  <2> HIDE DEF longer
  <2>3. longer # <<>>
    BY <1>3, <2>2
  <2>4. /\ queue' \in Seq(Entries) /\ Len(queue') = n /\ queue'[n] = entry
        /\ queue'[1] = longer[2]
    BY <1>3, <2>1, <2>2, <2>3
  <2>5. Queued(longer) = DOMAIN longer[1].data \cup Queued(queue')
    BY <1>3, <2>1, <2>3, QueuedTail
  <2>6. DOMAIN longer[2].data \subseteq Queued(queue') /\ DOMAIN sample \subseteq Queued(queue')
    <3>1. 1 \in 1..Len(queue') /\ n \in 1..Len(queue')
      BY <2>2, <2>4
    <3>2. queue'[n].data = sample
      BY <1>1, <2>4
    <3>3. \A f : f \in DOMAIN queue'[1].data \/ f \in DOMAIN queue'[n].data
                    => f \in Queued(queue')
      BY <2>4, <3>1, QueuedMember
    <3>4. QED
      BY <2>4, <3>2, <3>3
  <2>7. longer[1] \in Entries /\ longer[1].data \in Samples
    <3>1. 1 \in 1..Len(longer)
      BY <1>3
    <3>2. longer[1] \in Entries
      BY <1>3, <3>1
    <3>3. QED
      BY <3>2 DEF Entries
  <2>8. unseen \in SUBSET Fingers
    BY <2>1, <2>7, SampleFacts
  <2>9. Queued(queue) \subseteq Queued(queue') \cup DOMAIN touchOld \cup Releasing \cup unseen
    BY <1>3, <2>1, <2>5, <2>6
  <2>10. queue' # <<>> /\ queue'[Len(queue')].data = sample
    BY <1>1, <2>2, <2>4
  <2>11. Queued(queue') \subseteq Queued(queue) \cup DOMAIN sample
    BY <1>3, <2>5
  <2> HIDE DEF unseen
  <2>12. QED
    BY <1>1, <1>2, <2>4, <2>6, <2>8, <2>9, <2>10, <2>11
<1>6. CASE ~coalesces /\ ~overflows
  <2>1. queue' = longer /\ unseen = {}
    BY <1>2, <1>6
  <2> HIDE DEF longer
  <2>2. queue' # <<>> /\ queue'[Len(queue')].data = sample
    BY <1>1, <1>3, <2>1
  <2>3. QED
    BY <1>1, <1>2, <1>3, <2>1, <2>2
<1>7. QED
  BY <1>4, <1>5, <1>6

LEMMA SamplerTypes ==
    ASSUME TouchTypes, SamplerInv, SamplerRead \/ SamplerFinishes
    PROVE  TouchTypes'
<1>1. CASE SamplerRead
  <2>1. PICK s \in Samples :
            /\ sample' = s
            /\ early' = IF screen = "borders" THEN Begun(s) ELSE {}
            /\ untold' = untold \cup Begun(s)
    BY <1>1 DEF SamplerRead
  <2>2. Begun(s) \subseteq Fingers
    BY SampleFacts DEF Begun
  <2>3. early' \in SUBSET Fingers /\ untold' \in SUBSET Fingers
    BY <2>1, <2>2 DEF TouchTypes
  <2>4. smPc' \in {"down", "push"} /\ samples' \in Nat
    BY <1>1 DEF SamplerRead, TouchTypes
  <2>5. QED
    BY <1>1, <2>1, <2>3, <2>4 DEF SamplerRead, TouchTypes, frameVars, gameVars
<1>2. CASE SamplerDown
  <2>1. PICK f \in early : /\ immediate' = immediate \cup {f}
                           /\ TellAll({f}, "DOWN")
                           /\ early' = early \ {f}
    BY <1>2 DEF SamplerDown
  <2>2. {down', misfit', fresh'} \subseteq SUBSET Fingers
    BY <2>1, TellTypes DEF TellAll
  <2>3. immediate' \in SUBSET Fingers /\ early' \in SUBSET Fingers
    BY <2>1 DEF TouchTypes
  <2>4. smPc' \in {"down", "push"}
    BY <1>2 DEF SamplerDown
  <2>5. QED
    BY <1>2, <2>2, <2>3, <2>4 DEF SamplerDown, TouchTypes, frameVars, lossVars, countVars
<1>3. CASE SamplerPush
  <2>1. lost' \in SUBSET Fingers /\ untold' \in SUBSET Fingers
    BY <1>3, PushFacts DEF TouchTypes
  <2>2. /\ queue' \in Seq(Entries) /\ sample \in Samples
    BY <1>3, PushFacts
  <2>3. previous' = sample /\ sample' = None /\ smPc' = "read"
    BY <1>3 DEF SamplerPush
  <2>4. UNCHANGED <<samplerUp, early, immediate, frameVars, gameVars, countVars>>
    BY <1>3 DEF SamplerPush
  <2>5. QED
    BY <2>1, <2>2, <2>3, <2>4 DEF TouchTypes, frameVars, gameVars, countVars
<1>4. QED
  BY <1>1, <1>2, <1>3 DEF SamplerFinishes

-----------------------------------------------------------------------------
(* poll_touch() takes the samples that wait one by one: a step processes the   *)
(* oldest, or keeps it as the release of the next frame.                       *)
Takes(s) == Process(s) /\ DOMAIN s \subseteq Waiting /\ Waiting = Waiting' \cup DOMAIN s

Retires == UNCHANGED <<immediate, touchOld, untold>> /\ Waiting' = Waiting

LEMMA ReleaseTakes ==
    ASSUME TouchTypes, FrameRelease
    PROVE  Takes(deferred)
<1>1. deferred # None /\ deferred' = None /\ UNCHANGED queue /\ Process(deferred)
  BY DEF FrameRelease
<1>2. Releasing = DOMAIN deferred /\ Releasing' = {}
  BY <1>1 DEF Releasing
<1>3. Waiting = DOMAIN deferred \cup Queued(queue) /\ Waiting' = Queued(queue)
  BY <1>1, <1>2, WaitingParts DEF Waiting, Queued
<1>4. QED
  BY <1>1, <1>3 DEF Takes

LEMMA PopTakes ==
    ASSUME TouchTypes, FramePop
    PROVE  /\ queue # <<>> /\ queue' = Tail(queue) /\ deferred = None
           /\ queue[1] \in Entries /\ queue[1].data \in Samples
           /\ \/ Takes(queue[1].data) /\ ~Defers(queue[1].data) /\ deferred' = None
                 /\ framePc' \in {"poll", "pad"}
              \/ /\ Retires /\ Defers(queue[1].data) /\ deferred' = queue[1].data
                 /\ framePc' = "pad" /\ UNCHANGED <<cancelled, gesture, placing, gameVars>>
<1> DEFINE s == queue[1].data
<1>1. queue # <<>> /\ queue' = Tail(queue) /\ deferred = None /\ queue \in Seq(Entries)
  BY DEF FramePop, SamplePop, TouchTypes
<1>2. queue[1] \in Entries
  BY <1>1
<1>3. s \in Samples /\ s # None
  BY <1>2, SampleFacts DEF Entries
<1>4. Waiting = DOMAIN s \cup Queued(queue') /\ Waiting' = Releasing' \cup Queued(queue')
  <2>1. Releasing = {}
    BY <1>1 DEF Releasing
  <2>2. Waiting' = Releasing' \cup Queued(queue')
    BY WaitingParts DEF Waiting, Queued
  <2>3. QED
    BY <1>1, <2>1, <2>2, WaitingParts, QueuedTail
<1>5. CASE /\ Defers(s) /\ deferred' = s /\ framePc' = "pad"
           /\ UNCHANGED <<immediate, touchOld, cancelled, gesture, placing, gameVars, untold>>
  <2>1. Releasing' = DOMAIN s
    BY <1>3, <1>5 DEF Releasing
  <2>2. QED
    BY <1>1, <1>2, <1>3, <1>4, <1>5, <2>1 DEF Retires
<1>6. CASE /\ ~Defers(s) /\ Process(s) /\ UNCHANGED <<deferred, waits>>
           /\ framePc' \in {"poll", "pad"}
  <2>1. Releasing' = {} /\ deferred' = None
    BY <1>1, <1>6 DEF Releasing
  <2>2. Takes(s)
    BY <1>4, <1>6, <2>1 DEF Takes
  <2>3. QED
    BY <1>1, <1>2, <1>3, <1>6, <2>1, <2>2
<1>7. QED
  BY <1>5, <1>6 DEF FramePop

(* What every step of the frame thread leaves of the samples on their way.     *)
LEMMA FrameMoves ==
    ASSUME TouchTypes, SamplerInv, FrameStep
    PROVE  /\ UNCHANGED <<samplerUp, samplerVars>>
           /\ \/ /\ UNCHANGED <<queue, deferred, immediate, touchOld, untold, lost>>
                 /\ Waiting' = Waiting
              \/ FrameDrop /\ queue' = <<>> /\ deferred' = None /\ Waiting' = {}
              \/ FrameClear /\ Waiting' = Waiting
              \/ /\ \E s \in Samples : Takes(s)
                 /\ UNCHANGED lost
                 /\ samplerUp
              \/ Retires /\ UNCHANGED lost /\ samplerUp
              \/ /\ ~samplerUp /\ UNCHANGED <<queue, deferred, lost>> /\ Waiting' = Waiting
                 /\ \E s \in Samples : Process(s)
<1>1. ASSUME UNCHANGED <<queue, deferred>>
      PROVE  Waiting' = Waiting
  BY <1>1 DEF Waiting, Releasing
<1>2. CASE FrameContext \/ FrameCancel \/ FrameHold \/ FrameDrained \/ FramePad
  BY <1>1, <1>2 DEF FrameContext, FrameCancel, FrameHold, FrameDrained, FramePad,
                    samplerVars, lossVars
<1>3. CASE FrameDrop
  <2>1. queue' = <<>> /\ deferred' = None /\ UNCHANGED <<samplerUp, samplerVars>>
    BY <1>3 DEF FrameDrop
  <2>2. Waiting' = {}
    BY <2>1 DEF Waiting, Releasing
  <2>3. QED
    BY <1>3, <2>1, <2>2
<1>4. CASE FrameClear
  BY <1>1, <1>4 DEF FrameClear
<1>5. CASE FrameRelease
  <2>1. deferred \in Samples
    BY <1>5 DEF FrameRelease, TouchTypes
  <2>2. UNCHANGED <<samplerUp, samplerVars, lost>> /\ samplerUp
    BY <1>5 DEF FrameRelease
  <2>3. QED
    BY <1>5, <2>1, <2>2, ReleaseTakes
<1>6. CASE FramePop
  <2>1. UNCHANGED <<samplerUp, samplerVars, lost>> /\ samplerUp
    BY <1>6 DEF FramePop
  <2>2. QED
    BY <1>6, <2>1, PopTakes
<1>7. CASE FramePeek
  <2>1. UNCHANGED <<samplerUp, samplerVars, queue, deferred, lost>> /\ ~samplerUp
    BY <1>7 DEF FramePeek
  <2>2. \/ \E s \in Samples : Process(s)
        \/ UNCHANGED <<immediate, touchOld, untold>>
    BY <1>7 DEF FramePeek
  <2>3. QED
    BY <1>1, <2>1, <2>2
<1>8. QED
  BY <1>2, <1>3, <1>4, <1>5, <1>6, <1>7 DEF FrameStep

-----------------------------------------------------------------------------
(* The flags of early DOWNs and the untold contacts follow their samples.      *)
LEMMA ProcessFlags ==
    ASSUME NEW s \in Samples, Process(s)
    PROVE  /\ touchOld' = s
           /\ immediate' = immediate \ (DOMAIN s \ DOMAIN touchOld)
           /\ untold' = untold \ (DOMAIN s \ DOMAIN touchOld)
BY DEF Process, FlagsTaken, New

LEMMA FrameFlags ==
    ASSUME TouchTypes, SamplerInv, FlagsInv, FrameStep
    PROVE  SamplerInv' /\ FlagsInv'
<1>1. /\ UNCHANGED <<samplerUp, smPc, previous, sample, early>> /\ Unpushed' = Unpushed
  BY FrameMoves DEF samplerVars, Unpushed
<1>2. CASE /\ UNCHANGED <<queue, deferred, immediate, touchOld, untold, lost>>
           /\ Waiting' = Waiting
  BY <1>1, <1>2 DEF SamplerInv, FlagsInv
<1>3. CASE FrameDrop /\ queue' = <<>> /\ deferred' = None /\ Waiting' = {}
  <2>1. /\ untold' = untold \ Waiting /\ lost' = lost \cup (Waiting \cap immediate)
        /\ UNCHANGED <<immediate, touchOld>>
    BY <1>3 DEF FrameDrop
  <2>2. QED
    BY <1>1, <1>3, <2>1 DEF SamplerInv, FlagsInv
<1>4. CASE FrameClear /\ Waiting' = Waiting
  <2>1. immediate' = {} /\ UNCHANGED <<queue, deferred, touchOld, untold>>
    BY <1>4 DEF FrameClear
  <2>2. QED
    BY <1>1, <1>4, <2>1 DEF SamplerInv, FlagsInv
<1>5. ASSUME NEW s \in Samples, Takes(s), UNCHANGED lost, samplerUp
      PROVE  SamplerInv' /\ FlagsInv'
  <2>1. /\ touchOld' = s
        /\ immediate' = immediate \ (DOMAIN s \ DOMAIN touchOld)
        /\ untold' = untold \ (DOMAIN s \ DOMAIN touchOld)
        /\ DOMAIN s \subseteq Waiting /\ Waiting = Waiting' \cup DOMAIN s
    BY <1>5, ProcessFlags DEF Takes
  <2>2. SamplerInv'
    BY <1>1, <1>5, <2>1 DEF SamplerInv
  <2>3. FlagsInv'
    BY <1>1, <1>5, <2>1 DEF SamplerInv, FlagsInv
  <2>4. QED
    BY <2>2, <2>3
<1>6. CASE Retires /\ UNCHANGED lost /\ samplerUp
  BY <1>1, <1>6 DEF Retires, SamplerInv, FlagsInv
<1>7. ASSUME NEW s \in Samples, ~samplerUp, UNCHANGED <<queue, deferred, lost>>,
             Waiting' = Waiting, Process(s)
      PROVE  SamplerInv' /\ FlagsInv'
  <2>1. /\ smPc = "read" /\ queue = <<>> /\ deferred = None /\ immediate = {} /\ untold = {}
        /\ sample = None /\ early = {}
    BY <1>7 DEF SamplerInv
  <2>2. immediate' = {} /\ untold' = {}
    BY <1>7, <2>1, ProcessFlags
  <2>3. QED
    BY <1>1, <1>7, <2>1, <2>2 DEF SamplerInv, FlagsInv
<1>8. QED
  BY <1>2, <1>3, <1>4, <1>5, <1>6, <1>7, FrameMoves

LEMMA SamplerFlags ==
    ASSUME TouchTypes, SamplerInv, FlagsInv, SamplerRead \/ SamplerFinishes
    PROVE  SamplerInv' /\ FlagsInv'
<1>1. CASE SamplerRead
  <2>1. PICK s \in Samples :
            /\ Begun(s) \cap InFlight = {}
            /\ sample' = s
            /\ early' = IF screen = "borders" THEN Begun(s) ELSE {}
            /\ untold' = untold \cup Begun(s)
    BY <1>1 DEF SamplerRead
  <2>2. /\ samplerUp /\ smPc = "read"
        /\ smPc' = IF early' = {} THEN "push" ELSE "down"
        /\ UNCHANGED <<samplerUp, queue, immediate, touchOld, deferred, lost>>
    BY <1>1 DEF SamplerRead, frameVars
  <2>3. Waiting' = Waiting
    BY <2>2 DEF Waiting, Releasing
  <2>4. Unpushed = {} /\ Unpushed' = DOMAIN s /\ sample' # None
    BY <2>1, <2>2, SampleFacts DEF Unpushed, SamplerInv
  <2>5. Begun(s) \cap (DOMAIN touchOld \cup Waiting) = {} /\ Begun(s) \subseteq DOMAIN s
    BY <2>1 DEF InFlight, Begun
  <2>6. SamplerInv'
    BY <2>1, <2>2, <2>3, <2>4, <2>5 DEF SamplerInv
  <2>7. FlagsInv'
    BY <2>1, <2>2, <2>3, <2>4, <2>5 DEF FlagsInv
  <2>8. QED
    BY <2>6, <2>7
<1>2. CASE SamplerDown
  <2>1. PICK f \in early : immediate' = immediate \cup {f} /\ early' = early \ {f}
    BY <1>2 DEF SamplerDown
  <2>2. /\ smPc = "down" /\ smPc' = IF early' = {} THEN "push" ELSE "down"
        /\ UNCHANGED <<samplerUp, sample, queue, touchOld, deferred, lost, untold>>
    BY <1>2 DEF SamplerDown, frameVars, lossVars
  <2>3. Waiting' = Waiting /\ Unpushed' = Unpushed
    BY <2>2 DEF Waiting, Releasing, Unpushed
  <2>4. SamplerInv'
    BY <2>1, <2>2, <2>3 DEF SamplerInv
  <2>5. FlagsInv'
    BY <2>1, <2>2, <2>3 DEF SamplerInv, FlagsInv
  <2>6. QED
    BY <2>4, <2>5
<1>3. CASE SamplerPush
  <2>1. /\ smPc = "push" /\ smPc' = "read" /\ sample' = None
        /\ UNCHANGED <<samplerUp, early, immediate, touchOld, deferred>>
    BY <1>3 DEF SamplerPush, frameVars
  <2>2. early = {} /\ samplerUp /\ Unpushed = DOMAIN sample /\ Unpushed' = {}
    BY <2>1 DEF SamplerInv, Unpushed
  <2>3. PICK unseen \in SUBSET Fingers :
            /\ lost' = lost \cup (unseen \cap immediate)
            /\ untold' = untold \ unseen
            /\ Queued(queue) \subseteq Queued(queue') \cup DOMAIN touchOld \cup Releasing \cup unseen
    BY <1>3, PushFacts
  <2>4. /\ DOMAIN sample \subseteq Queued(queue')
        /\ Queued(queue') \subseteq Queued(queue) \cup DOMAIN sample
    BY <1>3, PushFacts
  <2>5. Waiting = Releasing \cup Queued(queue) /\ Waiting' = Releasing \cup Queued(queue')
    BY <2>1, WaitingParts DEF Waiting, Releasing, Queued
  <2>6. SamplerInv'
    BY <2>1, <2>2 DEF SamplerInv
  <2>7. FlagsInv'
    BY <2>1, <2>2, <2>3, <2>4, <2>5 DEF FlagsInv
  <2>8. QED
    BY <2>6, <2>7
<1>4. QED
  BY <1>1, <1>2, <1>3 DEF SamplerFinishes

-----------------------------------------------------------------------------
(* What process_touch_sample() tells of one contact, case by case.             *)
LEMMA EventFacts ==
    ASSUME NEW s \in Samples, NEW f \in Fingers
    PROVE  /\ f \in DOMAIN s \ DOMAIN touchOld /\ OnTile(s, f) =>
                  EventsOf(s)[f] = IF f \in immediate THEN "CANCEL" ELSE "none"
           /\ f \in DOMAIN s \ DOMAIN touchOld /\ ~OnTile(s, f) =>
                  EventsOf(s)[f] = IF f \in immediate THEN "none" ELSE "DOWN"
           /\ f \in DOMAIN s \cap DOMAIN touchOld =>
                  EventsOf(s)[f] \in IF f \in cancelled THEN {"none"} ELSE {"none", "MOVE"}
           /\ f \in DOMAIN touchOld \ DOMAIN s =>
                  EventsOf(s)[f] \in IF f \in cancelled THEN {"none"} ELSE {"CANCEL", "UP"}
           /\ f \notin DOMAIN touchOld \cup DOMAIN s => EventsOf(s)[f] = "none"
<1>1. CASE f \in New(s)
  BY <1>1 DEF EventsOf, New, Shifted, Gone
<1>2. CASE f \in Shifted(s) \ cancelled
  BY <1>2 DEF EventsOf, New, Shifted, Gone
<1>3. CASE f \in Gone(s) \ cancelled
  BY <1>3 DEF EventsOf, New, Shifted, Gone
<1>4. CASE f \notin New(s) \cup (Shifted(s) \ cancelled) \cup (Gone(s) \ cancelled)
  BY <1>4 DEF EventsOf, New, Shifted, Gone
<1>5. QED
  BY <1>1, <1>2, <1>3, <1>4

LEMMA ProcessView ==
    ASSUME TouchTypes, FlagsInv, ViewInv, NEW s \in Samples, Process(s), UNCHANGED lost
    PROVE  ViewInv'
<1>1. /\ touchOld' = s
      /\ immediate' = immediate \ (DOMAIN s \ DOMAIN touchOld)
  BY ProcessFlags
<1>2. /\ DOMAIN s \subseteq Fingers /\ DOMAIN touchOld \subseteq Fingers
      /\ {immediate, cancelled, down, misfit, lost} \subseteq SUBSET Fingers
  BY SampleFacts DEF TouchTypes
<1>3. cancelled' = (cancelled \ ((DOMAIN s \ DOMAIN touchOld) \cup (DOMAIN touchOld \ DOMAIN s)))
                        \cup {f \in DOMAIN s \ DOMAIN touchOld : OnTile(s, f)}
  BY DEF Process, New, Gone
<1>4. cancelled' \subseteq DOMAIN touchOld'
  BY <1>1, <1>3 DEF ViewInv
<1>5. PICK event : /\ event = EventsOf(s)
                   /\ down' = {f \in Fingers : event[f] = "DOWN" \/ (f \in down /\ event[f] \in {"none", "MOVE"})}
                   /\ misfit' = misfit \cup {f \in Fingers \ {} :
                                  event[f] # "none" /\ ((event[f] = "DOWN") <=> (f \in down))}
  BY DEF Process, Tell
<1>6. ASSUME NEW f \in Fingers \ lost
      PROVE  /\ f \in down' <=> f \in (DOMAIN touchOld' \ cancelled') \cup (immediate' \ DOMAIN touchOld')
             /\ ~(event[f] # "none" /\ ((event[f] = "DOWN") <=> (f \in down)))
  <2>1. f \in down <=> f \in (DOMAIN touchOld \ cancelled) \cup (immediate \ DOMAIN touchOld)
    BY DEF ViewInv
  <2>2. f \notin immediate \cap DOMAIN touchOld
    BY DEF FlagsInv
  <2>3. f \in down' <=> (event[f] = "DOWN" \/ (f \in down /\ event[f] \in {"none", "MOVE"}))
    BY <1>5
  <2>4. CASE f \in DOMAIN s \ DOMAIN touchOld /\ OnTile(s, f)
    <3>1. event[f] = IF f \in immediate THEN "CANCEL" ELSE "none"
      BY <1>5, <2>4, EventFacts
    <3>2. f \in cancelled' /\ f \in DOMAIN touchOld' /\ (f \in down <=> f \in immediate)
      BY <1>1, <1>3, <2>1, <2>4
    <3>3. QED
      BY <2>3, <3>1, <3>2
  <2>5. CASE f \in DOMAIN s \ DOMAIN touchOld /\ ~OnTile(s, f)
    <3>1. event[f] = IF f \in immediate THEN "none" ELSE "DOWN"
      BY <1>5, <2>5, EventFacts
    <3>2. f \notin cancelled' /\ f \in DOMAIN touchOld' /\ (f \in down <=> f \in immediate)
      BY <1>1, <1>3, <2>1, <2>5
    <3>3. QED
      BY <2>3, <3>1, <3>2
  <2>6. CASE f \in DOMAIN s \cap DOMAIN touchOld
    <3>1. event[f] \in IF f \in cancelled THEN {"none"} ELSE {"none", "MOVE"}
      BY <1>5, <2>6, EventFacts
    <3>2. (f \in cancelled' <=> f \in cancelled) /\ f \in DOMAIN touchOld'
          /\ (f \in down <=> f \notin cancelled)
      BY <1>1, <1>3, <2>1, <2>2, <2>6
    <3>3. QED
      BY <2>3, <3>1, <3>2
  <2>7. CASE f \in DOMAIN touchOld \ DOMAIN s
    <3>1. event[f] \in IF f \in cancelled THEN {"none"} ELSE {"CANCEL", "UP"}
      BY <1>5, <2>7, EventFacts
    <3>2. f \notin DOMAIN touchOld' /\ f \notin immediate' /\ (f \in down <=> f \notin cancelled)
      BY <1>1, <2>1, <2>2, <2>7
    <3>3. QED
      BY <2>3, <3>1, <3>2
  <2>8. CASE f \notin DOMAIN touchOld \cup DOMAIN s
    <3>1. event[f] = "none"
      BY <1>5, <2>8, EventFacts
    <3>2. f \notin DOMAIN touchOld' /\ (f \in immediate' <=> f \in immediate)
          /\ (f \in down <=> f \in immediate)
      BY <1>1, <2>1, <2>8
    <3>3. QED
      BY <2>3, <3>1, <3>2
  <2>9. QED
    BY <2>4, <2>5, <2>6, <2>7, <2>8
<1>7. misfit' \subseteq lost
  BY <1>2, <1>5, <1>6 DEF ViewInv
<1>8. QED
  BY <1>4, <1>6, <1>7 DEF ViewInv

(* cancel_active_touches(): every pointer that is down and not cancelled.      *)
LEMMA CancelView ==
    ASSUME TouchTypes, FlagsInv, ViewInv, CancelActive,
           UNCHANGED <<touchOld, immediate, lost>>
    PROVE  ViewInv' /\ DOMAIN touchOld' \subseteq cancelled'
<1>1. /\ DOMAIN touchOld \subseteq Fingers
      /\ {immediate, cancelled, down, misfit, lost} \subseteq SUBSET Fingers
  BY SampleFacts DEF TouchTypes
<1>2. cancelled' = DOMAIN touchOld
  BY DEF CancelActive, ViewInv
<1>3. /\ down' = down \ (DOMAIN touchOld \ cancelled)
      /\ misfit' = misfit \cup ((DOMAIN touchOld \ cancelled) \ down)
  <2> DEFINE who == DOMAIN touchOld \ cancelled
             event == [f \in Fingers |-> IF f \in who THEN "CANCEL" ELSE "none"]
  <2>1. /\ down' = {f \in Fingers : event[f] = "DOWN" \/ (f \in down /\ event[f] \in {"none", "MOVE"})}
        /\ misfit' = misfit \cup {f \in Fingers \ {} :
                        event[f] # "none" /\ ((event[f] = "DOWN") <=> (f \in down))}
    BY DEF CancelActive, TellAll, Tell
  <2>2. \A f \in Fingers : event[f] = IF f \in who THEN "CANCEL" ELSE "none"
    OBVIOUS
  <2> HIDE DEF event
  <2>3. QED
    BY <1>1, <2>1, <2>2
<1>4. QED
  BY <1>1, <1>2, <1>3 DEF ViewInv, FlagsInv

LEMMA FrameView ==
    ASSUME TouchTypes, SamplerInv, FlagsInv, ViewInv, FrameStep
    PROVE  ViewInv'
<1>1. CASE FrameContext \/ FrameDrained
  BY <1>1 DEF FrameContext, FrameDrained, ViewInv, lossVars, gameVars
<1>2. CASE FrameCancel
  BY <1>2, CancelView DEF FrameCancel
<1>3. CASE FrameDrop
  BY <1>3 DEF FrameDrop, ViewInv, gameVars
<1>4. CASE FrameClear
  BY <1>4 DEF FrameClear, ViewInv, gameVars
<1>5. CASE FrameHold
  <2>1. /\ UNCHANGED <<touchOld, immediate, lost, cancelled>>
        /\ Held \subseteq DOMAIN touchOld
    BY <1>5 DEF FrameHold, Held, lossVars
  <2>2. PICK event : /\ event = [f \in Fingers |-> IF f \in Held THEN "MOVE" ELSE "none"]
                     /\ down' = {f \in Fingers : event[f] = "DOWN" \/ (f \in down /\ event[f] \in {"none", "MOVE"})}
                     /\ misfit' = misfit \cup {f \in Fingers \ cancelled :
                            event[f] # "none" /\ ((event[f] = "DOWN") <=> (f \in down))}
    BY <1>5 DEF FrameHold, Tell
  <2>3. \A f \in Fingers : event[f] \in {"none", "MOVE"} /\ (f \notin Held => event[f] = "none")
    BY <2>2
  <2>4. down' = down
    BY <2>2, <2>3 DEF TouchTypes
  <2>5. misfit' \subseteq lost
    <3> SUFFICES ASSUME NEW f \in (Fingers \ cancelled) \ lost, event[f] # "none", f \notin down
                 PROVE  FALSE
      BY <2>2, <2>3 DEF ViewInv
    <3>1. f \in DOMAIN touchOld
      BY <2>1, <2>3
    <3>2. QED
      BY <3>1 DEF ViewInv
  <2>6. QED
    BY <2>1, <2>4, <2>5 DEF ViewInv
<1>6. CASE FrameRelease
  <2>1. deferred \in Samples /\ Process(deferred) /\ UNCHANGED lost
    BY <1>6 DEF FrameRelease, TouchTypes
  <2>2. QED
    BY <2>1, ProcessView
<1>7. CASE FramePop
  <2>1. UNCHANGED lost
    BY <1>7 DEF FramePop
  <2>2. CASE Takes(queue[1].data)
    BY <1>7, <2>1, <2>2, PopTakes, ProcessView DEF Takes
  <2>3. CASE Retires /\ UNCHANGED <<cancelled, gameVars>>
    BY <2>1, <2>3 DEF Retires, ViewInv, gameVars
  <2>4. QED
    BY <1>7, <2>2, <2>3, PopTakes
<1>8. CASE FramePeek
  <2>1. UNCHANGED lost
    BY <1>8 DEF FramePeek
  <2>2. CASE \E s \in Samples : Process(s)
    BY <2>1, <2>2, ProcessView
  <2>3. CASE UNCHANGED <<immediate, touchOld, cancelled, gameVars>>
    BY <2>1, <2>3 DEF ViewInv, gameVars
  <2>4. QED
    BY <1>8, <2>2, <2>3 DEF FramePeek
<1>9. CASE FramePad
  <2>1. UNCHANGED <<touchOld, immediate, lost>>
    BY <1>9 DEF FramePad, lossVars
  <2>2. CASE CancelActive
    BY <2>1, <2>2, CancelView
  <2>3. CASE UNCHANGED <<cancelled, gameVars>>
    BY <2>1, <2>3 DEF ViewInv, gameVars
  <2>4. QED
    BY <1>9, <2>2, <2>3 DEF FramePad
<1>10. QED
  BY <1>1, <1>2, <1>3, <1>4, <1>5, <1>6, <1>7, <1>8, <1>9 DEF FrameStep

LEMMA SamplerView ==
    ASSUME TouchTypes, SamplerInv, FlagsInv, ViewInv, SamplerRead \/ SamplerFinishes
    PROVE  ViewInv'
<1>1. CASE SamplerRead
  BY <1>1 DEF SamplerRead, ViewInv, frameVars, gameVars
<1>2. CASE SamplerDown
  <2>1. PICK f \in early : immediate' = immediate \cup {f} /\ TellAll({f}, "DOWN")
    BY <1>2 DEF SamplerDown
  <2>2. UNCHANGED <<touchOld, cancelled, lost>>
    BY <1>2 DEF SamplerDown, frameVars, lossVars
  <2>3. f \in Fingers /\ f \notin DOMAIN touchOld /\ f \notin immediate \ lost
    BY DEF SamplerInv, FlagsInv, TouchTypes
  <2>4. down' = down \cup {f} /\ misfit' = misfit \cup (IF f \in down THEN {f} ELSE {})
    <3> DEFINE event == [g \in Fingers |-> IF g \in {f} THEN "DOWN" ELSE "none"]
    <3>1. /\ down' = {g \in Fingers : event[g] = "DOWN" \/ (g \in down /\ event[g] \in {"none", "MOVE"})}
          /\ misfit' = misfit \cup {g \in Fingers \ {} :
                        event[g] # "none" /\ ((event[g] = "DOWN") <=> (g \in down))}
      BY <2>1 DEF TellAll, Tell
    <3>2. \A g \in Fingers : event[g] = IF g = f THEN "DOWN" ELSE "none"
      OBVIOUS
    <3> HIDE DEF event
    <3>3. QED
      BY <2>3, <3>1, <3>2 DEF TouchTypes
  <2>5. QED
    BY <2>1, <2>2, <2>3, <2>4 DEF ViewInv
<1>3. CASE SamplerPush
  <2>1. lost \subseteq lost' /\ UNCHANGED <<immediate, touchOld, cancelled, down, misfit>>
    BY <1>3 DEF SamplerPush, frameVars, gameVars
  <2>2. QED
    BY <2>1 DEF ViewInv
<1>4. QED
  BY <1>1, <1>2, <1>3 DEF SamplerFinishes

-----------------------------------------------------------------------------
(* The newest sample on its way is the sampler's previous one.                 *)
LEMMA FrameLast ==
    ASSUME TouchTypes, SamplerInv, FlagsInv, ViewInv, LastInv, FrameStep
    PROVE  LastInv'
<1>0. UNCHANGED <<samplerUp, previous>>
  BY FrameMoves DEF samplerVars
<1>1. CASE FrameContext \/ FrameClear \/ FrameHold \/ FrameDrained
  <2>1. /\ UNCHANGED <<queue, deferred, touchOld, cancelled>>
        /\ framePc' # "drop"
    BY <1>1 DEF FrameContext, FrameClear, FrameHold, FrameDrained
  <2>2. QED
    BY <1>0, <2>1 DEF LastInv
<1>2. CASE FrameCancel \/ (FramePad /\ CancelActive)
  <2>1. /\ UNCHANGED <<queue, deferred, touchOld>>
        /\ DOMAIN touchOld \subseteq cancelled'
    BY <1>2 DEF FrameCancel, FramePad, CancelActive
  <2>2. QED
    BY <1>0, <2>1 DEF LastInv
<1>3. CASE FramePad /\ ~CancelActive
  <2>1. UNCHANGED <<queue, deferred, touchOld, cancelled>> /\ framePc' = "context"
    BY <1>3 DEF FramePad
  <2>2. QED
    BY <1>0, <2>1 DEF LastInv
<1>4. CASE FrameDrop
  <2>1. /\ framePc = "drop" /\ framePc' = "clear" /\ queue' = <<>> /\ deferred' = None
        /\ UNCHANGED <<touchOld, cancelled>>
    BY <1>4 DEF FrameDrop
  <2>2. QED
    BY <1>0, <2>1 DEF LastInv
<1>5. CASE FrameRelease
  <2>1. /\ deferred # None /\ deferred' = None /\ framePc' = "pad" /\ UNCHANGED queue
        /\ Process(deferred)
    BY <1>5 DEF FrameRelease
  <2>2. touchOld' = deferred
    BY <2>1 DEF Process
  <2>3. QED
    BY <1>0, <2>1, <2>2 DEF LastInv
<1>6. CASE FramePop
  <2>1. /\ queue \in Seq(Entries) /\ queue # <<>> /\ queue' = Tail(queue) /\ deferred = None
    BY <1>6, PopTakes DEF TouchTypes
  <2>2. /\ Len(queue) \in Nat \ {0} /\ Len(queue') = Len(queue) - 1
        /\ \A i \in 1..Len(queue') : queue'[i] = queue[i + 1]
    BY <2>1
  <2>3. /\ queue' # <<>> => queue'[Len(queue')] = queue[Len(queue)]
        /\ queue' = <<>> => queue[1] = queue[Len(queue)]
    <3>1. queue' # <<>> => Len(queue') > 0
      BY <2>1
    <3>2. queue' = <<>> => Len(queue) = 1
      BY <2>2
    <3>3. QED
      BY <2>2, <3>1, <3>2
  <2>4. queue[Len(queue)].data = previous
    BY <2>1 DEF LastInv
  <2>5. \/ touchOld' = queue[1].data /\ deferred' = None /\ framePc' \in {"poll", "pad"}
        \/ deferred' = queue[1].data /\ deferred' # None /\ framePc' = "pad"
    BY <1>6, PopTakes, SampleFacts DEF Takes, Process
  <2>6. QED
    BY <1>0, <2>3, <2>4, <2>5 DEF LastInv
<1>7. CASE FramePeek
  <2>1. ~samplerUp /\ UNCHANGED <<queue, deferred>> /\ framePc' = "pad"
    BY <1>7 DEF FramePeek
  <2>2. QED
    BY <1>0, <2>1 DEF LastInv, SamplerInv
<1>8. QED
  BY <1>1, <1>2, <1>3, <1>4, <1>5, <1>6, <1>7 DEF FrameStep

LEMMA SamplerLast ==
    ASSUME TouchTypes, SamplerInv, LastInv, SamplerRead \/ SamplerFinishes
    PROVE  LastInv'
<1>1. CASE SamplerRead \/ SamplerDown
  BY <1>1 DEF SamplerRead, SamplerDown, LastInv, frameVars
<1>2. CASE SamplerPush
  <2>1. queue' # <<>> /\ queue'[Len(queue')].data = sample
    BY <1>2, PushFacts
  <2>2. previous' = sample /\ UNCHANGED <<samplerUp, framePc, touchOld, cancelled>>
    BY <1>2 DEF SamplerPush, frameVars
  <2>3. QED
    BY <2>1, <2>2 DEF LastInv
<1>3. QED
  BY <1>1, <1>2 DEF SamplerFinishes

-----------------------------------------------------------------------------
(* Who had an event in this frame.                                             *)
LEMMA FrameFresh ==
    ASSUME TouchTypes, SamplerInv, FreshInv, FrameStep
    PROVE  FreshInv'
<1>0. UNCHANGED samplerUp
  BY FrameMoves
<1>1. CASE FrameContext
  BY <1>0, <1>1 DEF FrameContext, FreshInv
<1>2. CASE FrameCancel
  <2>1. /\ framePc = "cancel" /\ framePc' = "drop"
        /\ TellAll(DOMAIN touchOld \ cancelled, "CANCEL")
    BY <1>2 DEF FrameCancel, CancelActive
  <2>2. fresh' = fresh
    <3> DEFINE event == [f \in Fingers |-> IF f \in DOMAIN touchOld \ cancelled THEN "CANCEL" ELSE "none"]
    <3>1. fresh' = fresh \cup {f \in Fingers : event[f] \in {"DOWN", "MOVE"}}
      BY <2>1 DEF TellAll, Tell
    <3>2. \A f \in Fingers : event[f] \notin {"DOWN", "MOVE"}
      OBVIOUS
    <3> HIDE DEF event
    <3>3. QED
      BY <3>1, <3>2
  <2>3. QED
    BY <1>0, <2>1, <2>2 DEF FreshInv
<1>3. CASE FrameDrop
  BY <1>0, <1>3 DEF FrameDrop, FreshInv, gameVars
<1>4. CASE FrameClear
  BY <1>0, <1>4 DEF FrameClear, FreshInv, gameVars
<1>5. CASE FrameHold \/ FrameRelease \/ FrameDrained \/ FramePeek \/ FramePad
  <2>1. framePc' \in {"pad", "context"}
    BY <1>5 DEF FrameHold, FrameRelease, FrameDrained, FramePeek, FramePad
  <2>2. QED
    BY <2>1 DEF FreshInv
<1>6. CASE FramePop
  <2>1. samplerUp
    BY <1>6 DEF FramePop
  <2>2. \/ deferred' = None /\ framePc' \in {"poll", "pad"}
        \/ framePc' = "pad"
    BY <1>6, PopTakes
  <2>3. QED
    BY <1>0, <2>1, <2>2 DEF FreshInv
<1>7. QED
  BY <1>1, <1>2, <1>3, <1>4, <1>5, <1>6 DEF FrameStep

LEMMA SamplerFresh ==
    ASSUME TouchTypes, SamplerInv, FreshInv, SamplerRead \/ SamplerFinishes
    PROVE  FreshInv'
<1>1. CASE SamplerRead \/ SamplerPush
  BY <1>1 DEF SamplerRead, SamplerPush, FreshInv, frameVars, gameVars
<1>2. CASE SamplerDown
  <2>1. PICK f \in early : TellAll({f}, "DOWN")
    BY <1>2 DEF SamplerDown
  <2>2. f \notin DOMAIN touchOld /\ samplerUp
    BY <1>2 DEF SamplerDown, SamplerInv
  <2>3. fresh' \subseteq fresh \cup {f}
    <3> DEFINE event == [g \in Fingers |-> IF g \in {f} THEN "DOWN" ELSE "none"]
    <3>1. fresh' = fresh \cup {g \in Fingers : event[g] \in {"DOWN", "MOVE"}}
      BY <2>1 DEF TellAll, Tell
    <3>2. \A g \in Fingers : g # f => event[g] \notin {"DOWN", "MOVE"}
      OBVIOUS
    <3> HIDE DEF event
    <3>3. QED
      BY <3>1, <3>2
  <2>4. UNCHANGED <<samplerUp, framePc, deferred, touchOld>>
    BY <1>2 DEF SamplerDown, frameVars
  <2>5. QED
    BY <2>2, <2>3, <2>4 DEF FreshInv
<1>3. QED
  BY <1>1, <1>2 DEF SamplerFinishes

-----------------------------------------------------------------------------
(* The marks of the gestures that the placement screen has seen.               *)
LEMMA ProcessPlacing ==
    ASSUME TouchTypes, PlacingInv, framePc # "cancel", NEW s \in Samples, Process(s),
           UNCHANGED screen
    PROVE  PlacingInv'
<1>1. /\ touchOld' = s
      /\ gesture' = [f \in Fingers |-> GestureAfter(s, f)]
      /\ placing' = ((placing \ New(s)) \cap DOMAIN s)
                        \cup (IF screen = "placement" THEN DOMAIN s ELSE {})
      /\ cancelled' = (cancelled \ (New(s) \cup Gone(s))) \cup {f \in New(s) : OnTile(s, f)}
  BY DEF Process
<1>2. DOMAIN s \subseteq Fingers
  BY SampleFacts
<1>3. ASSUME NEW f \in DOMAIN s, f \notin New(s), f \notin cancelled', gesture[f].placement
      PROVE  gesture'[f].placement
  <2>1. f \notin Gone(s) /\ f \notin cancelled /\ gesture[f] \in Gestures
    BY <1>1, <1>2, <1>3 DEF New, Gone, TouchTypes
  <2>2. CASE f \in Shifted(s)
    <3>1. GestureAfter(s, f) =
            [gesture[f] EXCEPT !.placement = PlacementSeen(f),
               !.moved = @ \/ (gesture[f].start # s[f] /\ <<gesture[f].start, s[f]>> \notin Near)]
      BY <1>3, <2>1, <2>2 DEF GestureAfter
    <3>2. PlacementSeen(f)
      BY <1>3 DEF PlacementSeen
    <3>3. QED
      BY <1>1, <1>2, <2>1, <3>1, <3>2 DEF Gestures
  <2>3. CASE f \notin Shifted(s)
    BY <1>1, <1>2, <1>3, <2>1, <2>3 DEF GestureAfter
  <2>4. QED
    BY <2>2, <2>3
<1>4. ASSUME NEW f \in New(s), screen = "placement"
      PROVE  gesture'[f].placement
  <2>1. f \in DOMAIN s /\ f \notin Shifted(s) /\ f \notin Gone(s)
    BY DEF New, Shifted, Gone
  <2>2. GestureAfter(s, f) =
          [borders |-> screen = "borders", strip |-> screen = "borders" /\ s[f] \in Strip,
           placement |-> screen = "placement", moved |-> FALSE, start |-> s[f]]
    BY <2>1 DEF GestureAfter, InStrip
  <2>3. gesture'[f] = GestureAfter(s, f)
    BY <1>1, <1>2, <2>1
  <2>4. GestureAfter(s, f).placement = (screen = "placement")
    BY <2>2
  <2>5. QED
    BY <1>4, <2>3, <2>4
<1>5. placing' \subseteq DOMAIN touchOld'
  BY <1>1
<1>6. ASSUME NEW f \in DOMAIN s \ cancelled', screen = "placement"
      PROVE  gesture'[f].placement
  <2>1. CASE f \in New(s)
    BY <1>4, <1>6, <2>1
  <2>2. CASE f \notin New(s)
    <3>1. f \in DOMAIN touchOld \ cancelled
      BY <1>1, <2>2 DEF New, Gone
    <3>2. QED
      BY <1>3, <1>6, <2>2, <3>1 DEF PlacingInv
  <2>3. QED
    BY <2>1, <2>2
<1>7. ASSUME NEW f \in placing' \ cancelled'
      PROVE  gesture'[f].placement
  <2>1. CASE screen = "placement"
    BY <1>1, <1>5, <1>6, <2>1
  <2>2. CASE screen # "placement"
    <3>1. f \in placing /\ f \in DOMAIN s /\ f \notin New(s) /\ f \notin cancelled
      BY <1>1, <2>2 DEF Gone
    <3>2. QED
      BY <1>3, <3>1 DEF PlacingInv
  <2>3. QED
    BY <2>1, <2>2
<1>8. QED
  BY <1>1, <1>5, <1>6, <1>7 DEF PlacingInv

LEMMA FramePlacing ==
    ASSUME TouchTypes, PlacingInv, FrameStep
    PROVE  PlacingInv'
<1>1. CASE FrameContext
  <2>1. PICK to \in Screens, changed \in BOOLEAN :
            /\ screen' = IF changed THEN to ELSE screen
            /\ framePc' = IF changed /\ ~Continues(screen, to) THEN "cancel" ELSE "poll"
            /\ gesture' = IF changed /\ Continues(screen, to) THEN MarkedPlacing(to) ELSE gesture
    BY <1>1 DEF FrameContext
  <2>2. /\ placing' = IF screen' = "placement" THEN placing \cup DOMAIN touchOld ELSE placing
        /\ framePc = "context"
        /\ UNCHANGED <<touchOld, cancelled>>
    BY <1>1 DEF FrameContext
  <2>3. DOMAIN touchOld \subseteq Fingers
    BY SampleFacts DEF TouchTypes
  <2>4. CASE changed /\ ~Continues(screen, to)
    BY <2>1, <2>2, <2>4 DEF PlacingInv
  <2>5. CASE ~changed
    BY <2>1, <2>2, <2>5 DEF PlacingInv
  <2>6. CASE changed /\ Continues(screen, to)
    <3>1. gesture' = MarkedPlacing(to) /\ screen' = to
      BY <2>1, <2>6
    <3>2. \A f \in DOMAIN touchOld :
              gesture'[f].placement = (to = "placement" \/ gesture[f].placement)
      <4> TAKE f \in DOMAIN touchOld
      <4>1. gesture[f] \in Gestures /\ f \in Fingers
        BY <2>3 DEF TouchTypes
      <4>2. gesture'[f] = IF to = "placement" THEN [gesture[f] EXCEPT !.placement = TRUE]
                          ELSE gesture[f]
        BY <3>1, <4>1 DEF MarkedPlacing
      <4>3. gesture[f].placement \in BOOLEAN
        BY <4>1 DEF Gestures
      <4>4. CASE to = "placement"
        BY <4>1, <4>2, <4>4 DEF Gestures
      <4>5. CASE to # "placement"
        BY <4>2, <4>3, <4>5
      <4>6. QED
        BY <4>4, <4>5
    <3>3. QED
      BY <2>2, <3>1, <3>2 DEF PlacingInv
  <2>7. QED
    BY <2>4, <2>5, <2>6
<1>2. CASE FrameCancel
  <2>1. cancelled' = cancelled \cup DOMAIN touchOld /\ UNCHANGED <<touchOld, placing>>
    BY <1>2 DEF FrameCancel, CancelActive
  <2>2. QED
    BY <2>1 DEF PlacingInv
<1>3. CASE FrameDrop \/ FrameClear \/ FrameHold \/ FrameDrained
  <2>1. /\ framePc # "cancel"
        /\ UNCHANGED <<screen, touchOld, cancelled, gesture, placing>>
    BY <1>3 DEF FrameDrop, FrameClear, FrameHold, FrameDrained
  <2>2. QED
    BY <2>1 DEF PlacingInv
<1>4. CASE FrameRelease
  <2>1. deferred \in Samples /\ Process(deferred) /\ framePc = "poll" /\ UNCHANGED screen
    BY <1>4 DEF FrameRelease, TouchTypes
  <2>2. QED
    BY <2>1, ProcessPlacing
<1>5. CASE FramePop
  <2>1. framePc = "poll" /\ UNCHANGED screen
    BY <1>5 DEF FramePop
  <2>2. CASE Takes(queue[1].data)
    BY <1>5, <2>1, <2>2, PopTakes, ProcessPlacing DEF Takes
  <2>3. CASE Retires /\ UNCHANGED <<cancelled, gesture, placing>>
    BY <2>1, <2>3 DEF Retires, PlacingInv
  <2>4. QED
    BY <1>5, <2>2, <2>3, PopTakes
<1>6. CASE FramePeek
  <2>1. framePc = "poll" /\ UNCHANGED screen
    BY <1>6 DEF FramePeek
  <2>2. CASE \E s \in Samples : Process(s)
    BY <2>1, <2>2, ProcessPlacing
  <2>3. CASE UNCHANGED <<touchOld, cancelled, gesture, placing>>
    BY <2>1, <2>3 DEF PlacingInv
  <2>4. QED
    BY <1>6, <2>2, <2>3 DEF FramePeek
<1>7. CASE FramePad
  <2>1. framePc = "pad" /\ cancelled \subseteq cancelled'
        /\ UNCHANGED <<screen, touchOld, gesture, placing>>
    BY <1>7 DEF FramePad, CancelActive
  <2>2. QED
    BY <2>1 DEF PlacingInv
<1>8. QED
  BY <1>1, <1>2, <1>3, <1>4, <1>5, <1>6, <1>7 DEF FrameStep

LEMMA SamplerPlacing ==
    ASSUME PlacingInv, SamplerRead \/ SamplerFinishes
    PROVE  PlacingInv'
<1>1. UNCHANGED frameVars
  BY DEF SamplerRead, SamplerFinishes, SamplerDown, SamplerPush
<1>2. QED
  BY <1>1 DEF PlacingInv, frameVars

-----------------------------------------------------------------------------
(* All parts together are inductive.                                           *)
LEMMA TouchInitInv == Init => TouchInv
<1> SUFFICES ASSUME Init PROVE TouchInv
  OBVIOUS
<1>1. TouchTypes
  BY TouchInitTypes
<1>2. /\ touchOld = Nothing /\ previous = Nothing /\ DOMAIN Nothing = {}
      /\ queue = <<>> /\ deferred = None /\ sample = None /\ smPc = "read" /\ framePc = "context"
      /\ early = {} /\ immediate = {} /\ untold = {} /\ cancelled = {} /\ down = {}
      /\ misfit = {} /\ placing = {}
  BY NothingIsSample DEF Init, SamplerStart
<1>3. Waiting = {} /\ Unpushed = {}
  BY <1>2 DEF Waiting, Releasing, Unpushed
<1>4. SamplerInv /\ FlagsInv
  BY <1>2, <1>3 DEF SamplerInv, FlagsInv
<1>5. ViewInv /\ LastInv /\ FreshInv /\ PlacingInv
  BY <1>2 DEF ViewInv, LastInv, FreshInv, PlacingInv
<1>6. QED
  BY <1>1, <1>4, <1>5 DEF TouchInv

LEMMA TouchStutters == TouchInv /\ UNCHANGED vars => TouchInv'
<1> SUFFICES ASSUME TouchInv, UNCHANGED vars PROVE TouchInv'
  OBVIOUS
<1> USE DEF vars, samplerVars, frameVars, gameVars, lossVars, countVars
<1>1. Waiting' = Waiting /\ Unpushed' = Unpushed
  BY DEF Waiting, Releasing, Unpushed
<1>2. TouchTypes'
  BY DEF TouchInv, TouchTypes
<1>3. SamplerInv' /\ FlagsInv'
  BY <1>1 DEF TouchInv, SamplerInv, FlagsInv
<1>4. ViewInv' /\ LastInv' /\ FreshInv' /\ PlacingInv'
  BY DEF TouchInv, ViewInv, LastInv, FreshInv, PlacingInv
<1>5. QED
  BY <1>2, <1>3, <1>4 DEF TouchInv

LEMMA TouchStep == TouchInv /\ [Next]_vars => TouchInv'
<1>1. ASSUME TouchInv, FrameStep PROVE TouchInv'
  BY <1>1, FrameTypes, FrameFlags, FrameView, FrameLast, FrameFresh, FramePlacing DEF TouchInv
<1>2. ASSUME TouchInv, SamplerRead \/ SamplerFinishes PROVE TouchInv'
  BY <1>2, SamplerTypes, SamplerFlags, SamplerView, SamplerLast, SamplerFresh, SamplerPlacing
     DEF TouchInv
<1>3. QED
  BY <1>1, <1>2, TouchStutters DEF Next

LEMMA TouchInvariant == Spec => []TouchInv
BY TouchInitInv, TouchStep, PTL DEF Spec

-----------------------------------------------------------------------------
(* The pipeline's variables keep their types, for any contacts and places.     *)
THEOREM TouchTypeCorrect == Spec => []TouchTypes
<1>1. TouchInv => TouchTypes
  BY DEF TouchInv
<1>2. QED
  BY <1>1, TouchInvariant, PTL

(* Two threads tell the game of every pointer: a DOWN, MOVEs, one end.  The    *)
(* only misfits are of pointers whose samples were lost after an early DOWN.   *)
THEOREM GesturesFit == Spec => []PointersFit
<1>1. TouchInv => PointersFit
  BY DEF TouchInv, ViewInv, PointersFit
<1>2. QED
  BY <1>1, TouchInvariant, PTL

(* When the fingers are gone and all samples are processed, the only pointers  *)
(* down are those whose samples were dropped behind an early DOWN: for the     *)
(* others the last sample that the frame thread has processed is the sampler's.*)
THEOREM PointersComeUp == Spec => []NoStuckPointer
<1>1. ASSUME TouchInv, Settled PROVE down \subseteq lost
  <2>1. /\ samplerUp /\ smPc = "read" /\ DOMAIN previous = {} /\ queue = <<>> /\ deferred = None
    BY <1>1 DEF Settled
  <2>2. sample = None /\ Waiting = {} /\ Unpushed = {}
    BY <1>1, <2>1 DEF TouchInv, SamplerInv, Waiting, Releasing, Unpushed
  <2>3. immediate \subseteq lost /\ DOMAIN touchOld \subseteq cancelled
    BY <1>1, <2>1, <2>2 DEF TouchInv, FlagsInv, LastInv
  <2>4. QED
    BY <1>1, <2>3 DEF TouchInv, TouchTypes, ViewInv
<1>2. TouchInv => NoStuckPointer
  BY <1>1 DEF NoStuckPointer
<1>3. QED
  BY <1>2, TouchInvariant, PTL

(* Every contact that the sampler saw is processed in the end, dropped at a    *)
(* screen change, or pushed out of a full queue: a tap is never overlooked.    *)
THEOREM TapsAreSeen == Spec => []NoTapLost
<1>1. ASSUME TouchInv, Settled PROVE untold = {}
  <2>1. sample = None /\ queue = <<>> /\ deferred = None
    BY <1>1 DEF Settled, TouchInv, SamplerInv
  <2>2. Waiting = {} /\ Unpushed = {}
    BY <2>1 DEF Waiting, Releasing, Unpushed
  <2>3. QED
    BY <1>1, <2>2 DEF TouchInv, FlagsInv
<1>2. TouchInv => NoTapLost
  BY <1>1 DEF NoTapLost
<1>3. QED
  BY <1>2, TouchInvariant, PTL

(* The step that ends a contact of the game is never in the frame of one of    *)
(* its DOWNs or MOVEs, whatever the sampler sends meanwhile.                   *)
THEOREM ReleasesWait == Spec => ReleaseWaitsAFrame
<1> DEFINE Waits == \A f \in Gone(touchOld') \ cancelled : f \notin fresh
<1>1. ASSUME TouchInv, Next PROVE Waits
  <2>1. ASSUME UNCHANGED touchOld PROVE Waits
    BY <2>1 DEF Gone
  <2>2. CASE SamplerRead \/ SamplerFinishes
    BY <2>1, <2>2 DEF SamplerRead, SamplerFinishes, SamplerDown, SamplerPush, frameVars
  <2>3. CASE FrameContext \/ FrameCancel \/ FrameDrop \/ FrameClear \/ FrameHold
                \/ FrameDrained \/ FramePad
    BY <2>1, <2>3 DEF FrameContext, FrameCancel, FrameDrop, FrameClear, FrameHold,
                      FrameDrained, FramePad
  <2>4. CASE FrameRelease
    <3>1. fresh \cap DOMAIN touchOld = {}
      BY <1>1, <2>4 DEF TouchInv, FreshInv, FrameRelease
    <3>2. QED
      BY <3>1 DEF Gone
  <2>5. CASE FramePop
    <3>1. CASE Takes(queue[1].data) /\ ~Defers(queue[1].data)
      BY <3>1 DEF Takes, Process, Defers
    <3>2. CASE Retires
      BY <2>1, <3>2 DEF Retires
    <3>3. QED
      BY <1>1, <2>5, <3>1, <3>2, PopTakes DEF TouchInv
  <2>6. CASE FramePeek
    BY <1>1, <2>6 DEF TouchInv, FreshInv, FramePeek
  <2>7. QED
    BY <1>1, <2>2, <2>3, <2>4, <2>5, <2>6 DEF Next, FrameStep
<1>2. TouchInv /\ [Next]_vars => [Waits]_vars
  BY <1>1
<1>3. QED
  BY <1>2, TouchInvariant, PTL DEF Spec, ReleaseWaitsAFrame

(* A drag that a frame of the placement screen has seen ends with UP: its mark *)
(* outlives the return to the map, however the samples are batched.            *)
THEOREM PlacementsComplete == Spec => PlacementCompletes
<1> DEFINE Completes ==
        \A f \in (placing \ cancelled) \cap Gone(touchOld') : EventsOf(touchOld')[f] = "UP"
<1>1. ASSUME TouchInv, Next PROVE Completes
  <2>1. CASE UNCHANGED touchOld
    BY <2>1 DEF Gone
  <2>2. CASE framePc = "poll" /\ UNCHANGED screen
    <3> SUFFICES ASSUME NEW f \in placing \ cancelled, f \in Gone(touchOld')
                 PROVE  EventsOf(touchOld')[f] = "UP"
      OBVIOUS
    <3>1. gesture[f].placement /\ f \in Fingers
      BY <1>1, <2>2 DEF TouchInv, PlacingInv, TouchTypes
    <3>2. ~Unclaimed(f)
      BY <3>1 DEF Unclaimed, PlacementSeen
    <3>3. f \notin New(touchOld') /\ f \notin Shifted(touchOld')
      BY DEF Gone, New, Shifted
    <3>4. QED
      BY <3>1, <3>2, <3>3 DEF EventsOf
  <2>3. CASE SamplerRead \/ SamplerFinishes
    BY <2>1, <2>3 DEF SamplerRead, SamplerFinishes, SamplerDown, SamplerPush, frameVars
  <2>4. CASE FrameContext \/ FrameCancel \/ FrameDrop \/ FrameClear \/ FrameHold
                \/ FrameDrained \/ FramePad
    BY <2>1, <2>4 DEF FrameContext, FrameCancel, FrameDrop, FrameClear, FrameHold,
                      FrameDrained, FramePad
  <2>5. CASE FrameRelease \/ FramePop \/ FramePeek
    BY <2>2, <2>5 DEF FrameRelease, FramePop, FramePeek
  <2>6. QED
    BY <1>1, <2>3, <2>4, <2>5 DEF Next, FrameStep
<1>2. TouchInv /\ [Next]_vars => [Completes]_vars
  BY <1>1
<1>3. QED
  BY <1>2, TouchInvariant, PTL DEF Spec, PlacementCompletes
=============================================================================
