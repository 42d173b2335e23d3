---------------------------- MODULE StreamProofs ----------------------------
(***************************************************************************)
(* Proofs about ProfileStreams: the table of open profile saves, for every *)
(* number of threads, streams, slots and saves.                            *)
(***************************************************************************)
EXTENDS ProfileStreams, FiniteSetTheorems, TLAPS

(* The number of open saves is a number: crowd compares such counts. *)
LEMMA OpenSavesCount ==
    ASSUME NEW h
    PROVE  Cardinality(OpenSaves(h)) \in Nat
<1>1. OpenSaves(h) \subseteq Streams
  BY DEF OpenSaves
<1>2. IsFiniteSet(OpenSaves(h))
  BY <1>1, StreamsAssumption, FS_Subset
<1>3. QED
  BY <1>2, FS_CardinalityType

(* Each call of the stream bridge keeps the stream variables typed. *)
LEMMA StreamStepType ==
    ASSUME StreamsTypeOK, NEW t \in Threads, StreamStep(t)
    PROVE  StreamsTypeOK'
<1> USE SlotCountAssumption, BoundsAssumption DEF StreamsTypeOK, Slots, Ages, IoStates
<1>1. ASSUME NEW s \in Streams, NEW kind \in {"profile", "other"}, Fopen(t, s, kind)
      PROVE  StreamsTypeOK'
  <2>1. crowd' \in Nat
    BY <1>1, OpenSavesCount DEF Fopen, Larger
  <2>2. QED
    BY <1>1, <2>1 DEF Fopen, storageVars
<1>2. CASE TrackSlot(t)
  BY <1>2 DEF TrackSlot, LastSlot, storageVars
<1>3. CASE CallFclose(t)
  BY <1>3 DEF CallFclose, storageVars
<1>4. CASE UntrackSlot(t)
  BY <1>4 DEF UntrackSlot, LastSlot, EmptiedSlot, storageVars
<1>5. ASSUME NEW ok \in BOOLEAN, Fclose(t, ok)
      PROVE  StreamsTypeOK'
  BY <1>5 DEF Fclose
<1>6. CASE Stamp(t)
  BY <1>6 DEF Stamp, CloseTime
<1>7. CASE Bump(t)
  BY <1>7 DEF Bump
<1>8. QED
  BY <1>1, <1>2, <1>3, <1>4, <1>5, <1>6, <1>7 DEF StreamStep

LEMMA StreamsInitType == StreamsInit => StreamsTypeOK
<1> SUFFICES ASSUME StreamsInit
             PROVE  StreamsTypeOK
  OBVIOUS
<1>1. ioDone \in [Threads -> BOOLEAN] /\ stray \in BOOLEAN
  BY DEF StreamsInit
<1>2. QED
  BY <1>1, SlotCountAssumption DEF StreamsInit, StreamsTypeOK, Slots, IoStates

-----------------------------------------------------------------------------
(* Who owns a stream, and where in the table it may be.  A thread whose scan   *)
(* for an empty slot goes on has not entered its stream yet; one that looks    *)
(* for its stream has not found it in the slots behind it; one that is about   *)
(* to give the FILE back has nothing in the table any more.                    *)
tableVars == <<slots, holds, ioPc, ioStream, ioSlot, ioKind, crowd>>

Owning == {"track", "held", "untrack", "fclose"}

StreamsOwned ==
    /\ \A t \in Threads : ioPc[t] \in Owning =>
          ioStream[t] \in Streams /\ holds[ioStream[t]] = ioKind[t]
    /\ \A t, u \in Threads :
          ioPc[t] \in Owning /\ ioPc[u] \in Owning /\ ioStream[t] = ioStream[u] => t = u

ScansOrdered ==
    \A t \in Threads :
        /\ ioPc[t] \notin {"track", "untrack"} => ioSlot[t] = 1
        /\ ioPc[t] = "track" => ioKind[t] = "profile"
        /\ ioPc[t] \in {"track", "fclose"} => ~Tracked(ioStream[t])
        /\ ioPc[t] = "untrack" => \A j \in Slots : j < ioSlot[t] => slots[j] # ioStream[t]

TableInv == StreamsTypeOK /\ StreamsOwned /\ ScansOrdered /\ TableHoldsOpenSaves

LEMMA TableInitInv == StreamsInit => TableInv
<1> SUFFICES ASSUME StreamsInit
             PROVE  TableInv
  OBVIOUS
<1>1. StreamsTypeOK
  BY StreamsInitType
<1>2. StreamsOwned /\ ScansOrdered /\ TableHoldsOpenSaves
  BY DEF StreamsInit, StreamsOwned, Owning, ScansOrdered, TableHoldsOpenSaves, Tracked
<1>3. QED
  BY <1>1, <1>2 DEF TableInv

(* A step that moves one thread on and leaves the table and the streams as they *)
(* are.                                                                         *)
LEMMA TableFopen ==
    ASSUME TableInv, NEW t \in Threads, NEW s \in Streams,
           NEW kind \in {"profile", "other"}, Fopen(t, s, kind)
    PROVE  StreamsOwned' /\ ScansOrdered' /\ TableHoldsOpenSaves'
<1> USE DEF Owning
<1>0. StreamsTypeOK /\ StreamsOwned /\ ScansOrdered /\ TableHoldsOpenSaves
  BY DEF TableInv
<1>1. /\ ioPc[t] = "idle" /\ holds[s] = "free"
      /\ holds' = [holds EXCEPT ![s] = kind]
      /\ ioPc' = [ioPc EXCEPT ![t] = IF kind = "profile" THEN "track" ELSE "held"]
      /\ ioStream' = [ioStream EXCEPT ![t] = s]
      /\ ioKind' = [ioKind EXCEPT ![t] = kind]
      /\ UNCHANGED <<slots, ioSlot>>
  BY DEF Fopen
<1>2. /\ holds'[s] = kind /\ \A r \in Streams \ {s} : holds'[r] = holds[r]
      /\ ioPc'[t] = IF kind = "profile" THEN "track" ELSE "held"
      /\ ioStream'[t] = s /\ ioKind'[t] = kind
      /\ \A u \in Threads \ {t} :
            ioPc'[u] = ioPc[u] /\ ioStream'[u] = ioStream[u] /\ ioKind'[u] = ioKind[u]
  BY <1>0, <1>1 DEF StreamsTypeOK
<1>3. \A u \in Threads : ioPc[u] \in Owning => ioStream[u] # s
  BY <1>0, <1>1 DEF StreamsOwned, StreamsTypeOK
<1>4. \A i \in Slots : slots[i] # s
  BY <1>0, <1>1, StreamsAssumption DEF TableHoldsOpenSaves
<1>5. StreamsOwned'
  BY <1>0, <1>2, <1>3 DEF StreamsOwned
<1>6. ScansOrdered'
  <2>1. ASSUME NEW u \in Threads \ {t}
        PROVE  /\ ioPc'[u] = ioPc[u] /\ ioStream'[u] = ioStream[u] /\ ioSlot'[u] = ioSlot[u]
               /\ ioKind'[u] = ioKind[u] /\ Tracked(ioStream[u])' = Tracked(ioStream[u])
    BY <1>1, <1>2 DEF Tracked
  <2>2. ioSlot'[t] = 1 /\ ~Tracked(ioStream[t])'
    BY <1>0, <1>1, <1>2, <1>4 DEF ScansOrdered, Tracked
  <2>3. QED
    BY <1>0, <1>1, <1>2, <2>1, <2>2 DEF ScansOrdered
<1>7. TableHoldsOpenSaves'
  <2>1. ASSUME NEW i \in Slots, slots'[i] # NoStream
        PROVE  /\ holds'[slots'[i]] = "profile"
               /\ \E u \in Threads : ioStream'[u] = slots'[i] /\ ioPc'[u] \in {"held", "untrack"}
    <3>1. /\ slots'[i] = slots[i] /\ slots[i] \in Streams \ {s} /\ holds[slots[i]] = "profile"
      BY <1>0, <1>1, <1>4, <2>1 DEF StreamsTypeOK, TableHoldsOpenSaves
    <3>2. PICK u \in Threads : ioStream[u] = slots[i] /\ ioPc[u] \in {"held", "untrack"}
      BY <1>0, <3>1, StreamsAssumption DEF TableHoldsOpenSaves
    <3>3. u # t
      BY <1>1, <3>2
    <3>4. QED
      BY <1>2, <3>1, <3>2, <3>3
  <2>2. QED
    BY <1>0, <1>1, <2>1 DEF TableHoldsOpenSaves
<1>8. QED
  BY <1>5, <1>6, <1>7

LEMMA TableTrack ==
    ASSUME TableInv, NEW t \in Threads, TrackSlot(t)
    PROVE  StreamsOwned' /\ ScansOrdered' /\ TableHoldsOpenSaves'
<1> USE StreamsAssumption, SlotCountAssumption DEF Owning, Slots
<1> DEFINE i == ioSlot[t]
           s == ioStream[t]
           ends == slots[i] = NoStream \/ LastSlot(i)
<1>0. StreamsTypeOK /\ StreamsOwned /\ ScansOrdered /\ TableHoldsOpenSaves
  BY DEF TableInv
<1>1. /\ ioPc[t] = "track" /\ i \in Slots
      /\ slots' = IF slots[i] = NoStream THEN [slots EXCEPT ![i] = s] ELSE slots
      /\ ioSlot' = [ioSlot EXCEPT ![t] = IF ends THEN 1 ELSE i + 1]
      /\ ioPc' = IF ends THEN [ioPc EXCEPT ![t] = "held"] ELSE ioPc
      /\ UNCHANGED <<holds, ioStream, ioKind>>
  BY <1>0 DEF TrackSlot, StreamsTypeOK
<1>2. /\ s \in Streams /\ holds[s] = "profile" /\ \A j \in Slots : slots[j] # s
      /\ \A u \in Threads \ {t} : ioPc[u] \in Owning => ioStream[u] # s
  BY <1>0, <1>1 DEF StreamsOwned, ScansOrdered, Tracked
<1>3. /\ ioPc'[t] = IF ends THEN "held" ELSE "track"
      /\ ioSlot'[t] = IF ends THEN 1 ELSE i + 1
      /\ \A u \in Threads \ {t} : ioPc'[u] = ioPc[u] /\ ioSlot'[u] = ioSlot[u]
  BY <1>0, <1>1 DEF StreamsTypeOK
<1>4. \A j \in Slots : slots'[j] = IF j = i /\ slots[i] = NoStream THEN s ELSE slots[j]
  BY <1>0, <1>1 DEF StreamsTypeOK
<1> HIDE DEF i, s
<1>5. StreamsOwned'
  BY <1>0, <1>1, <1>3 DEF StreamsOwned
<1>6. ScansOrdered'
  <2>1. ASSUME NEW u \in Threads \ {t}, ioPc[u] \in Owning
        PROVE  \A j \in Slots : slots'[j] = ioStream[u] => slots[j] = ioStream[u]
    BY <1>2, <1>4, <2>1
  <2>2. ASSUME NEW u \in Threads \ {t}
        PROVE  /\ ioPc'[u] \in {"track", "fclose"} => ~Tracked(ioStream[u])'
               /\ ioPc'[u] = "untrack" =>
                    \A j \in Slots : j < ioSlot'[u] => slots'[j] # ioStream'[u]
    BY <1>0, <1>1, <1>3, <2>1 DEF ScansOrdered, Tracked
  <2>3. ioPc'[t] = "track" => ~Tracked(ioStream[t])'
    BY <1>1, <1>2, <1>3, <1>4 DEF Tracked, s
  <2>4. QED
    BY <1>0, <1>1, <1>3, <2>2, <2>3 DEF ScansOrdered
<1>7. TableHoldsOpenSaves'
  <2>1. ASSUME NEW j \in Slots, slots'[j] # NoStream
        PROVE  /\ holds'[slots'[j]] = "profile"
               /\ \E u \in Threads : ioStream'[u] = slots'[j] /\ ioPc'[u] \in {"held", "untrack"}
    <3>1. CASE j = i /\ slots[i] = NoStream
      <4>1. slots'[j] = s /\ ioPc'[t] = "held" /\ ioStream'[t] = s
        BY <1>1, <1>3, <1>4, <3>1 DEF s
      <4>2. QED
        BY <1>1, <1>2, <4>1
    <3>2. CASE ~(j = i /\ slots[i] = NoStream)
      <4>1. slots'[j] = slots[j] /\ slots[j] # NoStream
        BY <1>4, <2>1, <3>2
      <4>2. PICK u \in Threads : ioStream[u] = slots[j] /\ ioPc[u] \in {"held", "untrack"}
        BY <1>0, <4>1 DEF TableHoldsOpenSaves
      <4>3. u # t
        BY <1>1, <4>2
      <4>4. QED
        BY <1>0, <1>1, <1>3, <4>1, <4>2, <4>3 DEF TableHoldsOpenSaves
    <3>3. QED
      BY <3>1, <3>2
  <2>2. QED
    BY <1>0, <1>2, <1>4, <2>1 DEF TableHoldsOpenSaves
<1>8. QED
  BY <1>5, <1>6, <1>7

LEMMA TableUntrack ==
    ASSUME TableInv, NEW t \in Threads, UntrackSlot(t)
    PROVE  StreamsOwned' /\ ScansOrdered' /\ TableHoldsOpenSaves'
<1> USE StreamsAssumption, SlotCountAssumption DEF Owning, Slots
<1> DEFINE i == ioSlot[t]
           s == ioStream[t]
           ends == slots[i] = s \/ LastSlot(i)
<1>0. StreamsTypeOK /\ StreamsOwned /\ ScansOrdered /\ TableHoldsOpenSaves
  BY DEF TableInv
<1>1. /\ ioPc[t] = "untrack" /\ i \in Slots
      /\ slots' = IF slots[i] = s THEN [slots EXCEPT ![i] = NoStream] ELSE slots
      /\ ioSlot' = [ioSlot EXCEPT ![t] = IF ends THEN 1 ELSE i + 1]
      /\ ioPc' = IF ends THEN [ioPc EXCEPT ![t] = "fclose"] ELSE ioPc
      /\ UNCHANGED <<holds, ioStream, ioKind>>
  BY <1>0 DEF UntrackSlot, StreamsTypeOK, EmptiedSlot
<1>2. s \in Streams /\ \A j \in Slots : j < i => slots[j] # s
  BY <1>0, <1>1 DEF StreamsOwned, ScansOrdered
<1>3. /\ ioPc'[t] = IF ends THEN "fclose" ELSE "untrack"
      /\ ioSlot'[t] = IF ends THEN 1 ELSE i + 1
      /\ \A u \in Threads \ {t} : ioPc'[u] = ioPc[u] /\ ioSlot'[u] = ioSlot[u]
  BY <1>0, <1>1 DEF StreamsTypeOK
<1>4. \A j \in Slots : slots'[j] = IF j = i /\ slots[i] = s THEN NoStream ELSE slots[j]
  BY <1>0, <1>1 DEF StreamsTypeOK
<1>5. ends => \A j \in Slots : slots'[j] # s
  <2>1. CASE slots[i] = s
    BY <1>0, <1>1, <1>2, <1>4, <2>1 DEF TableHoldsOpenSaves
  <2>2. CASE slots[i] # s /\ LastSlot(i)
    <3>1. \A j \in Slots : j < i \/ j = i
      BY <1>1, <2>2 DEF LastSlot
    <3>2. QED
      BY <1>2, <1>4, <2>2, <3>1
  <2>3. QED
    BY <2>1, <2>2
<1> HIDE DEF i, s, ends
<1>6. StreamsOwned'
  BY <1>0, <1>1, <1>3 DEF StreamsOwned
<1>7. ScansOrdered'
  <2>1. ASSUME NEW u \in Threads \ {t}, ioPc[u] \in Owning
        PROVE  \A j \in Slots : slots'[j] = ioStream[u] => slots[j] = ioStream[u]
    BY <1>0, <1>4, <2>1 DEF StreamsOwned
  <2>2. ASSUME NEW u \in Threads \ {t}
        PROVE  /\ ioPc'[u] \in {"track", "fclose"} => ~Tracked(ioStream[u])'
               /\ ioPc'[u] = "untrack" =>
                    \A j \in Slots : j < ioSlot'[u] => slots'[j] # ioStream'[u]
    BY <1>0, <1>1, <1>3, <2>1 DEF ScansOrdered, Tracked
  <2>3. ioPc'[t] = "fclose" => ~Tracked(ioStream[t])'
    BY <1>1, <1>3, <1>5 DEF Tracked, s
  <2>4. ioPc'[t] = "untrack" => \A j \in Slots : j < ioSlot'[t] => slots'[j] # ioStream'[t]
    <3>1. ASSUME ~ends, NEW j \in Slots, j < i + 1
          PROVE  slots[j] # s
      <4>1. j < i \/ j = i
        BY <1>1, <3>1
      <4>2. QED
        BY <1>2, <3>1, <4>1 DEF ends
    <3>2. QED
      BY <1>1, <1>2, <1>3, <1>4, <3>1 DEF s
  <2>5. QED
    BY <1>0, <1>1, <1>3, <2>2, <2>3, <2>4 DEF ScansOrdered
<1>8. TableHoldsOpenSaves'
  <2>1. ASSUME NEW j \in Slots, slots'[j] # NoStream
        PROVE  /\ holds'[slots'[j]] = "profile"
               /\ \E u \in Threads : ioStream'[u] = slots'[j] /\ ioPc'[u] \in {"held", "untrack"}
    <3>1. slots'[j] = slots[j] /\ slots[j] # NoStream
      BY <1>4, <2>1
    <3>2. PICK u \in Threads : ioStream[u] = slots[j] /\ ioPc[u] \in {"held", "untrack"}
      BY <1>0, <3>1 DEF TableHoldsOpenSaves
    <3>3. u = t => ~ends
      BY <1>4, <1>5, <2>1, <3>1, <3>2 DEF s
    <3>4. ioPc'[u] \in {"held", "untrack"}
      BY <1>1, <1>3, <3>2, <3>3
    <3>5. QED
      BY <1>0, <1>1, <3>1, <3>2, <3>4 DEF TableHoldsOpenSaves
  <2>2. QED
    BY <1>0, <1>4, <2>1 DEF TableHoldsOpenSaves
<1>9. QED
  BY <1>6, <1>7, <1>8

LEMMA TableClose ==
    ASSUME TableInv, NEW t \in Threads,
           CallFclose(t) \/ (\E ok \in BOOLEAN : Fclose(t, ok)) \/ Stamp(t) \/ Bump(t)
    PROVE  StreamsOwned' /\ ScansOrdered' /\ TableHoldsOpenSaves'
<1> USE StreamsAssumption DEF Owning
<1>0. StreamsTypeOK /\ StreamsOwned /\ ScansOrdered /\ TableHoldsOpenSaves
  BY DEF TableInv
<1>1. slots' = slots /\ ioSlot' = ioSlot /\ \A s : Tracked(s)' = Tracked(s)
  BY DEF CallFclose, Fclose, Stamp, Bump, Tracked
<1>2. \A u \in Threads \ {t} :
        ioPc'[u] = ioPc[u] /\ ioStream'[u] = ioStream[u] /\ ioKind'[u] = ioKind[u]
  BY <1>0 DEF CallFclose, Fclose, Stamp, Bump, StreamsTypeOK
<1>3. CASE CallFclose(t)
  <2>1. /\ ioPc[t] = "held" /\ ioPc'[t] = "untrack"
        /\ UNCHANGED <<holds, ioStream, ioKind>>
    BY <1>0, <1>3 DEF CallFclose, StreamsTypeOK
  <2>2. StreamsOwned'
    BY <1>0, <1>2, <2>1 DEF StreamsOwned
  <2>3. ScansOrdered'
    <3>1. ioSlot[t] = 1 /\ \A j \in Slots : ~(j < 1)
      BY <1>0, <2>1, SlotCountAssumption DEF ScansOrdered, Slots
    <3>2. QED
      BY <1>0, <1>1, <1>2, <2>1, <3>1 DEF ScansOrdered
  <2>4. TableHoldsOpenSaves'
    BY <1>0, <1>1, <1>2, <2>1 DEF TableHoldsOpenSaves
  <2>5. QED
    BY <2>2, <2>3, <2>4
<1>4. ASSUME NEW ok \in BOOLEAN, Fclose(t, ok)
      PROVE  StreamsOwned' /\ ScansOrdered' /\ TableHoldsOpenSaves'
  <2>1. /\ ioPc[t] = "fclose" /\ ioPc'[t] \in {"stamp", "idle"}
        /\ holds' = [holds EXCEPT ![ioStream[t]] = "free"]
    BY <1>0, <1>4 DEF Fclose, StreamsTypeOK
  <2>2. /\ ioStream[t] \in Streams /\ ~Tracked(ioStream[t])
        /\ \A u \in Threads \ {t} : ioPc[u] \in Owning =>
                /\ ioStream[u] # ioStream[t] /\ ioStream[u] \in Streams
                /\ holds'[ioStream[u]] = holds[ioStream[u]]
    BY <1>0, <2>1 DEF StreamsOwned, ScansOrdered, StreamsTypeOK
  <2>3. StreamsOwned'
    BY <1>0, <1>2, <2>1, <2>2 DEF StreamsOwned
  <2>4. ScansOrdered'
    BY <1>0, <1>1, <1>2, <2>1 DEF ScansOrdered
  <2>5. \A i \in Slots : slots[i] # NoStream => holds'[slots[i]] = holds[slots[i]]
    BY <1>0, <2>1, <2>2 DEF StreamsTypeOK, Tracked
  <2>6. TableHoldsOpenSaves'
    BY <1>0, <1>1, <1>2, <2>1, <2>2, <2>5 DEF TableHoldsOpenSaves, Tracked
  <2>7. QED
    BY <2>3, <2>4, <2>6
<1>5. CASE Stamp(t) \/ Bump(t)
  <2>1. /\ ioPc[t] \in {"stamp", "bump"} /\ ioPc'[t] \in {"bump", "idle"}
        /\ UNCHANGED <<holds, ioStream>>
    BY <1>0, <1>5 DEF Stamp, Bump, StreamsTypeOK
  <2>2. StreamsOwned'
    BY <1>0, <1>2, <2>1 DEF StreamsOwned
  <2>3. ScansOrdered'
    BY <1>0, <1>1, <1>2, <2>1 DEF ScansOrdered
  <2>4. TableHoldsOpenSaves'
    BY <1>0, <1>1, <1>2, <2>1 DEF TableHoldsOpenSaves
  <2>5. QED
    BY <2>2, <2>3, <2>4
<1>6. QED
  BY <1>3, <1>4, <1>5

LEMMA TableStep ==
    ASSUME TableInv, NEW t \in Threads, StreamStep(t)
    PROVE  TableInv'
<1>1. StreamsTypeOK'
  BY StreamStepType DEF TableInv
<1>2. StreamsOwned' /\ ScansOrdered' /\ TableHoldsOpenSaves'
  BY TableFopen, TableTrack, TableUntrack, TableClose DEF StreamStep
<1>3. QED
  BY <1>1, <1>2 DEF TableInv

(* Why a missing stream proves that the table was too small.  Beyond(i) are the *)
(* open saves that have got past the first i - 1 slots: entered in a later one,  *)
(* still looking from slot i on, or held without an entry.  While there is one,  *)
(* the first i - 1 slots have once been taken by other saves, all open together  *)
(* with those that are beyond: a scan gets past slot i only while another save   *)
(* is in it, which is then one that is no longer beyond.                         *)
Looking(t, i) == ioPc[t] = "track" /\ ioSlot[t] >= i
Unwatched(t) == ioPc[t] = "held" /\ ioKind[t] = "profile" /\ ~Tracked(ioStream[t])

Beyond(i) ==
    {s \in Streams :
        \/ \E j \in Slots : j >= i /\ slots[j] = s
        \/ \E t \in Threads : ioStream[t] = s /\ (Looking(t, i) \/ Unwatched(t))}

CrowdInv ==
    /\ Cardinality(OpenSaves(holds)) <= crowd
    /\ \A i \in 1..SlotCount + 1 :
            Beyond(i) # {} => i - 1 + Cardinality(Beyond(i)) <= crowd

LEMMA BeyondFinite ==
    ASSUME NEW S \in SUBSET Streams
    PROVE  IsFiniteSet(S) /\ Cardinality(S) \in Nat
BY StreamsAssumption, FS_Subset, FS_CardinalityType

LEMMA SmallerSet ==
    ASSUME NEW T \in SUBSET Streams, NEW S \in SUBSET T
    PROVE  Cardinality(S) <= Cardinality(T)
BY BeyondFinite, FS_Subset

(* Everything beyond a slot is an open save. *)
LEMMA BeyondOpen ==
    ASSUME TableInv, NEW i
    PROVE  Beyond(i) \subseteq OpenSaves(holds)
BY StreamsAssumption DEF TableInv, Beyond, OpenSaves, TableHoldsOpenSaves, StreamsOwned, ScansOrdered,
       Owning, Looking, Unwatched

LEMMA BeyondOpenNext ==
    ASSUME TableInv', NEW i
    PROVE  Beyond(i)' \subseteq OpenSaves(holds')
BY StreamsAssumption DEF TableInv, Beyond, OpenSaves, TableHoldsOpenSaves, StreamsOwned, ScansOrdered,
       Owning, Looking, Unwatched

(* A step after which no more saves are beyond a slot than before. *)
LEMMA CrowdShrinks ==
    ASSUME StreamsTypeOK, CrowdInv, NEW i \in 1..SlotCount + 1,
           Beyond(i)' \subseteq Beyond(i), crowd' = crowd
    PROVE  Beyond(i)' # {} => i - 1 + Cardinality(Beyond(i)') <= crowd'
<1> DEFINE B == Beyond(i)
           C == Beyond(i)'
<1>1. B \in SUBSET Streams /\ C \in SUBSET B
  BY DEF Beyond
<1>2. B # {} => i - 1 + Cardinality(B) <= crowd
  BY DEF CrowdInv
<1> HIDE DEF B, C
<1>3. Cardinality(C) <= Cardinality(B) /\ Cardinality(C) \in Nat /\ Cardinality(B) \in Nat
  BY <1>1, SmallerSet, BeyondFinite
<1>4. C # {} => i - 1 + Cardinality(C) <= crowd
  BY <1>1, <1>2, <1>3, SlotCountAssumption DEF StreamsTypeOK
<1>5. QED
  BY <1>4 DEF C

LEMMA CrowdFopen ==
    ASSUME TableInv, TableInv', CrowdInv, NEW t \in Threads, NEW s \in Streams,
           NEW kind \in {"profile", "other"}, Fopen(t, s, kind)
    PROVE  CrowdInv'
<1> USE SlotCountAssumption
<1>0. StreamsTypeOK /\ StreamsTypeOK' /\ crowd \in Nat /\ crowd' \in Nat
  BY DEF TableInv, StreamsTypeOK
<1>1. /\ ioPc[t] = "idle" /\ holds[s] = "free" /\ slots' = slots /\ ioSlot' = ioSlot
      /\ ioPc' = [ioPc EXCEPT ![t] = IF kind = "profile" THEN "track" ELSE "held"]
      /\ ioStream' = [ioStream EXCEPT ![t] = s]
      /\ ioKind' = [ioKind EXCEPT ![t] = kind]
      /\ crowd' = Larger(crowd, Cardinality(OpenSaves(holds')))
  BY DEF Fopen
<1>2. /\ ioPc'[t] = IF kind = "profile" THEN "track" ELSE "held"
      /\ ioStream'[t] = s /\ ioKind'[t] = kind
      /\ \A u \in Threads \ {t} :
            ioPc'[u] = ioPc[u] /\ ioStream'[u] = ioStream[u] /\ ioKind'[u] = ioKind[u]
  BY <1>0, <1>1 DEF StreamsTypeOK
<1>3. /\ Cardinality(OpenSaves(holds')) \in Nat
      /\ Cardinality(OpenSaves(holds')) <= crowd' /\ crowd <= crowd'
  BY <1>0, <1>1, OpenSavesCount DEF Larger
<1>4. ASSUME NEW i \in 1..SlotCount + 1, Beyond(i)' # {}
      PROVE  i - 1 + Cardinality(Beyond(i)') <= crowd'
  <2>1. CASE i = 1
    <3>1. Beyond(1)' \subseteq OpenSaves(holds')
      BY BeyondOpenNext
    <3>2. OpenSaves(holds') \in SUBSET Streams
      BY DEF OpenSaves
    <3>3. Cardinality(Beyond(1)') <= Cardinality(OpenSaves(holds')) /\ Cardinality(Beyond(1)') \in Nat
      BY <3>1, <3>2, SmallerSet, BeyondFinite
    <3>4. QED
      BY <1>0, <1>3, <2>1, <3>3
  <2>2. CASE i # 1
    <3>1. ioSlot'[t] = 1
      BY <1>1 DEF TableInv, ScansOrdered
    <3>2. \A u \in Threads : Looking(u, i)' => u # t /\ Looking(u, i)
      BY <1>1, <1>2, <2>2, <3>1 DEF Looking
    <3>3. \A u \in Threads : Unwatched(u)' => u # t /\ Unwatched(u)
      BY <1>1, <1>2 DEF Unwatched, Tracked
    <3>4. Beyond(i)' \subseteq Beyond(i)
      BY <1>1, <1>2, <3>2, <3>3 DEF Beyond
    <3>5. Beyond(i) \in SUBSET Streams /\ Beyond(i)' \in SUBSET Streams
      BY DEF Beyond
    <3>6. Cardinality(Beyond(i)') <= Cardinality(Beyond(i))
          /\ Cardinality(Beyond(i)') \in Nat /\ Cardinality(Beyond(i)) \in Nat
      BY <3>4, <3>5, SmallerSet, BeyondFinite
    <3>7. i - 1 + Cardinality(Beyond(i)) <= crowd
      BY <1>4, <3>4 DEF CrowdInv
    <3>8. QED
      BY <1>0, <1>3, <3>6, <3>7
  <2>3. QED
    BY <2>1, <2>2
<1>5. QED
  BY <1>3, <1>4 DEF CrowdInv

LEMMA CrowdTrack ==
    ASSUME TableInv, TableInv', CrowdInv, NEW t \in Threads, TrackSlot(t)
    PROVE  CrowdInv'
<1> USE SlotCountAssumption, StreamsAssumption DEF Slots
<1> DEFINE i == ioSlot[t]
           s == ioStream[t]
           ends == slots[i] = NoStream \/ LastSlot(i)
<1>0. StreamsTypeOK /\ crowd \in Nat
  BY DEF TableInv, StreamsTypeOK
<1>1. /\ ioPc[t] = "track" /\ i \in Slots
      /\ slots' = IF slots[i] = NoStream THEN [slots EXCEPT ![i] = s] ELSE slots
      /\ ioSlot' = [ioSlot EXCEPT ![t] = IF ends THEN 1 ELSE i + 1]
      /\ ioPc' = IF ends THEN [ioPc EXCEPT ![t] = "held"] ELSE ioPc
      /\ UNCHANGED <<holds, ioStream, ioKind, crowd>>
  BY <1>0 DEF TrackSlot, StreamsTypeOK
<1>2. /\ s \in Streams /\ \A j \in Slots : slots[j] # s
      /\ \A u \in Threads \ {t} : ioPc[u] \in Owning => ioStream[u] # s
  BY <1>1 DEF TableInv, StreamsOwned, ScansOrdered, Tracked, Owning
<1>3. /\ ioPc'[t] = IF ends THEN "held" ELSE "track"
      /\ ioSlot'[t] = IF ends THEN 1 ELSE i + 1
      /\ \A u \in Threads \ {t} : ioPc'[u] = ioPc[u] /\ ioSlot'[u] = ioSlot[u]
  BY <1>0, <1>1 DEF StreamsTypeOK
<1>4. \A j \in Slots : slots'[j] = IF j = i /\ slots[i] = NoStream THEN s ELSE slots[j]
  BY <1>0, <1>1 DEF StreamsTypeOK
<1>a. s \in Beyond(i) /\ \A k \in 1..i : s \in Beyond(k)
  BY <1>1, <1>2 DEF Beyond, Looking
<1> HIDE DEF i, s
<1>5. \A u \in Threads \ {t}, k \in 1..SlotCount + 1 :
        /\ Looking(u, k)' => Looking(u, k)
        /\ Unwatched(u)' => Unwatched(u)
  <2>1. \A u \in Threads \ {t} : ioPc[u] = "held" => (Tracked(ioStream[u])' <=> Tracked(ioStream[u]))
    <3>1. \A u \in Threads \ {t}, j \in Slots :
            ioPc[u] = "held" => (slots'[j] = ioStream[u] <=> slots[j] = ioStream[u])
      <4>1. \A u \in Threads : ioPc[u] = "held" => ioStream[u] \in Streams
        BY DEF TableInv, StreamsOwned, Owning
      <4>2. QED
        BY <1>2, <1>4, <4>1 DEF Owning
    <3>2. QED
      BY <1>1, <3>1 DEF Tracked
  <2>2. QED
    BY <1>1, <1>3, <2>1 DEF Looking, Unwatched
<1>6. ASSUME NEW k \in 1..SlotCount + 1
      PROVE  Beyond(k)' \subseteq Beyond(k) \cup {s}
  <2>1. ASSUME NEW r \in Streams, r # s, r \in Beyond(k)'
        PROVE  r \in Beyond(k)
    <3>1. CASE \E j \in Slots : j >= k /\ slots'[j] = r
      BY <1>4, <2>1, <3>1 DEF Beyond
    <3>2. CASE \E u \in Threads : ioStream'[u] = r /\ (Looking(u, k)' \/ Unwatched(u)')
      BY <1>1, <1>5, <2>1, <3>2 DEF Beyond, s
    <3>3. QED
      BY <2>1, <3>1, <3>2 DEF Beyond
  <2>2. QED
    BY <2>1 DEF Beyond
<1>7. ASSUME NEW k \in 1..SlotCount + 1,
             k > i, ~(slots[i] # NoStream /\ k = i + 1)
      PROVE  s \notin Beyond(k)'
  <2>1. \A j \in Slots : j >= k => slots'[j] # s
    BY <1>1, <1>2, <1>4, <1>7
  <2>2. ~Looking(t, k)' /\ ~Unwatched(t)'
    <3>1. CASE slots[i] = NoStream
      <4>1. slots'[i] = s /\ ioPc'[t] = "held" /\ ioStream'[t] = s
        BY <1>1, <1>3, <1>4, <3>1 DEF s
      <4>2. QED
        BY <1>1, <4>1 DEF Looking, Unwatched, Tracked
    <3>2. CASE slots[i] # NoStream
      <4>1. i + 1 \in 1..SlotCount + 1 /\ k > i + 1
        BY <1>1, <1>7, <3>2
      <4>2. i # SlotCount
        BY <1>1, <1>7, <4>1
      <4>3. ioPc'[t] = "track" /\ ioSlot'[t] = i + 1
        BY <1>3, <3>2, <4>2 DEF LastSlot
      <4>4. QED
        BY <1>1, <4>1, <4>3 DEF Looking, Unwatched
    <3>3. QED
      BY <3>1, <3>2
  <2>3. \A u \in Threads \ {t} : Looking(u, k)' \/ Unwatched(u)' => ioStream'[u] # s
    BY <1>1, <1>2, <1>5 DEF Looking, Unwatched, Owning
  <2>4. QED
    BY <2>1, <2>2, <2>3 DEF Beyond
<1>8. ASSUME NEW k \in 1..SlotCount + 1, Beyond(k)' # {}
      PROVE  k - 1 + Cardinality(Beyond(k)') <= crowd'
  <2>1. CASE k <= i \/ ~(slots[i] # NoStream /\ k = i + 1)
    <3>1. Beyond(k)' \subseteq Beyond(k)
      <4>1. CASE k <= i
        BY <1>1, <1>6, <1>a, <4>1
      <4>2. CASE ~(k <= i)
        <5>1. k > i
          BY <1>1, <4>2
        <5>2. QED
          BY <1>1, <1>6, <1>7, <2>1, <4>2, <5>1
      <4>3. QED
        BY <4>1, <4>2
    <3>2. QED
      BY <1>0, <1>1, <1>8, <3>1, CrowdShrinks
  <2>2. CASE slots[i] # NoStream /\ k = i + 1
    <3> DEFINE r == slots[i]
               B == Beyond(i)
               C == Beyond(i + 1)
    <3>1. r \in Streams /\ r # s /\ r \in B /\ s \in B
      BY <1>0, <1>1, <1>2, <1>a, <2>2 DEF StreamsTypeOK, Beyond
    <3>2. B \in SUBSET Streams /\ C \in SUBSET B
      <4>1. \A u \in Threads : Looking(u, i + 1) => Looking(u, i)
        BY <1>0, <1>1 DEF StreamsTypeOK, Looking
      <4>2. \A j \in Slots : j >= i + 1 => j >= i
        BY <1>1
      <4>3. QED
        BY <4>1, <4>2 DEF Beyond
    <3>3. r \notin C
      <4>1. \A j \in Slots : j >= i + 1 => slots[j] # r
        BY <1>1, <2>2 DEF TableInv, TableHoldsOpenSaves
      <4>2. PICK u \in Threads : ioStream[u] = r /\ ioPc[u] \in {"held", "untrack"}
        BY <1>1, <2>2 DEF TableInv, TableHoldsOpenSaves
      <4>3. Tracked(r)
        BY <1>1 DEF Tracked
      <4>4. \A v \in Threads : ioStream[v] = r => ~Looking(v, i + 1) /\ ~Unwatched(v)
        BY <4>2, <4>3 DEF TableInv, StreamsOwned, Owning, Looking, Unwatched
      <4>5. QED
        BY <4>1, <4>4 DEF Beyond
    <3>4. s \notin C
      <4>1. ~Looking(t, i + 1) /\ ~Unwatched(t)
        BY <1>1 DEF Looking, Unwatched, i
      <4>2. \A v \in Threads \ {t} : Looking(v, i + 1) \/ Unwatched(v) => ioStream[v] # s
        BY <1>2 DEF Looking, Unwatched, Owning
      <4>3. QED
        BY <1>2, <4>1, <4>2 DEF Beyond
    <3>5. Beyond(k)' \subseteq C \cup {s}
      BY <1>6, <2>2
    <3>6. i - 1 + Cardinality(B) <= crowd
      BY <1>1, <3>1 DEF CrowdInv
    <3> HIDE DEF r, B, C
    <3>7. C \cup {s} \in SUBSET Streams /\ (C \cup {s}) \cup {r} \in SUBSET B
      BY <1>2, <3>1, <3>2
    <3>8. Cardinality((C \cup {s}) \cup {r}) = Cardinality(C \cup {s}) + 1
      BY <3>1, <3>3, <3>7, BeyondFinite, FS_AddElement
    <3>9. Cardinality(C \cup {s}) + 1 <= Cardinality(B) /\ Cardinality(B) \in Nat
          /\ Cardinality(C \cup {s}) \in Nat
      BY <3>2, <3>7, <3>8, SmallerSet, BeyondFinite
    <3>10. Cardinality(Beyond(k)') <= Cardinality(C \cup {s}) /\ Cardinality(Beyond(k)') \in Nat
      BY <3>5, <3>7, SmallerSet, BeyondFinite
    <3>11. QED
      BY <1>0, <1>1, <2>2, <3>6, <3>9, <3>10
  <2>3. QED
    BY <2>1, <2>2
<1>9. Cardinality(OpenSaves(holds))' <= crowd'
  BY <1>1 DEF CrowdInv, OpenSaves
<1>10. QED
  BY <1>8, <1>9 DEF CrowdInv

(* A thread that lets go of its stream takes nothing beyond a slot. *)
LEMMA CrowdRelease ==
    ASSUME TableInv, TableInv', CrowdInv, NEW t \in Threads,
           \/ CallFclose(t) \/ UntrackSlot(t)
           \/ (\E ok \in BOOLEAN : Fclose(t, ok)) \/ Stamp(t) \/ Bump(t)
    PROVE  CrowdInv'
<1> USE StreamsAssumption
<1>0. StreamsTypeOK /\ crowd' = crowd /\ crowd \in Nat
  BY DEF TableInv, StreamsTypeOK, CallFclose, UntrackSlot, Fclose, Stamp, Bump
<1>1. /\ \A u \in Threads \ {t} : ioPc'[u] = ioPc[u] /\ ioStream'[u] = ioStream[u]
                                    /\ ioKind'[u] = ioKind[u] /\ ioSlot'[u] = ioSlot[u]
      /\ ioPc[t] # "track" /\ ioPc'[t] \notin {"track", "held"}
  BY <1>0 DEF StreamsTypeOK, CallFclose, UntrackSlot, Fclose, Stamp, Bump
<1>2. \A j \in Slots : \/ slots'[j] = slots[j]
                       \/ slots'[j] = NoStream /\ ioPc[t] = "untrack" /\ slots[j] = ioStream[t]
  BY <1>0 DEF StreamsTypeOK, CallFclose, UntrackSlot, EmptiedSlot, Fclose, Stamp, Bump
<1>3. ASSUME NEW u \in Threads, NEW i
      PROVE  /\ Looking(u, i)' => u # t /\ Looking(u, i)
             /\ Unwatched(u)' => u # t /\ Unwatched(u)
  <2>1. u # t /\ ioPc[u] = "held" => (Tracked(ioStream[u]) => Tracked(ioStream[u])')
    <3>1. u # t /\ ioPc[u] = "held" /\ ioPc[t] = "untrack" => ioStream[u] # ioStream[t]
      BY DEF TableInv, StreamsOwned, Owning
    <3>2. QED
      BY <1>1, <1>2, <3>1 DEF Tracked
  <2>2. QED
    BY <1>1, <2>1 DEF Looking, Unwatched
<1>4. \A i \in 1..SlotCount + 1 : Beyond(i)' \subseteq Beyond(i)
  BY <1>1, <1>2, <1>3 DEF Beyond
<1>5. OpenSaves(holds') \subseteq OpenSaves(holds)
  BY <1>0 DEF OpenSaves, StreamsTypeOK, CallFclose, UntrackSlot, Fclose, Stamp, Bump
<1>6. Cardinality(OpenSaves(holds')) <= crowd'
  <2>1. OpenSaves(holds) \in SUBSET Streams /\ OpenSaves(holds') \in SUBSET Streams
    BY DEF OpenSaves
  <2>2. QED
    BY <1>0, <1>5, <2>1, SmallerSet, BeyondFinite DEF CrowdInv
<1>7. QED
  BY <1>0, <1>4, <1>6, CrowdShrinks DEF CrowdInv

LEMMA CrowdStep ==
    ASSUME TableInv, CrowdInv, NEW t \in Threads, StreamStep(t)
    PROVE  CrowdInv'
BY TableStep, CrowdFopen, CrowdTrack, CrowdRelease DEF StreamStep

LEMMA CrowdInit == StreamsInit => CrowdInv
<1> SUFFICES ASSUME StreamsInit
             PROVE  CrowdInv
  OBVIOUS
<1>1. OpenSaves(holds) = {} /\ \A i : Beyond(i) = {}
  BY StreamsAssumption DEF StreamsInit, OpenSaves, Beyond, Looking, Unwatched
<1>2. QED
  BY <1>1, FS_EmptySet DEF StreamsInit, CrowdInv

LEMMA CrowdImplies ==
    ASSUME TableInv, CrowdInv
    PROVE  RoomMeansTracked
<1> SUFFICES ASSUME NEW t \in Threads, Unwatched(t)
             PROVE  crowd > SlotCount
  BY DEF RoomMeansTracked, Unwatched
<1> USE SlotCountAssumption
<1> DEFINE B == Beyond(SlotCount + 1)
<1>1. ioStream[t] \in B
  BY DEF Beyond, Unwatched, TableInv, StreamsOwned, Owning
<1>2. B \in SUBSET Streams /\ SlotCount + 1 \in 1..SlotCount + 1
  BY DEF Beyond
<1>3. SlotCount + 1 - 1 + Cardinality(B) <= crowd
  BY <1>1, <1>2 DEF CrowdInv
<1> HIDE DEF B
<1>4. Cardinality(B) \in Nat /\ Cardinality(B) # 0 /\ crowd \in Nat
  BY <1>1, <1>2, BeyondFinite, FS_EmptySet DEF TableInv, StreamsTypeOK
<1>5. QED
  BY <1>3, <1>4

LEMMA TableQuiet ==
    ASSUME TableInv, CrowdInv, StreamsTypeOK', UNCHANGED tableVars
    PROVE  TableInv' /\ CrowdInv'
BY DEF tableVars, TableInv, StreamsOwned, ScansOrdered, TableHoldsOpenSaves, Tracked, Owning,
       CrowdInv, Beyond, Looking, Unwatched, OpenSaves

LEMMA TableInvariant == StreamsSpec => [](TableInv /\ CrowdInv)
<1>1. ASSUME TableInv, CrowdInv, [StreamsNext]_streamVars
      PROVE  TableInv' /\ CrowdInv'
  <2>1. CASE \E t \in Threads : StreamStep(t)
    BY <1>1, <2>1, TableStep, CrowdStep
  <2>2. CASE UNCHANGED streamVars
    <3>1. StreamsTypeOK'
      BY <1>1, <2>2 DEF TableInv, StreamsTypeOK, streamVars
    <3>2. QED
      BY <1>1, <2>2, <3>1, TableQuiet DEF streamVars, tableVars
  <2>3. QED
    BY <1>1, <2>1, <2>2 DEF StreamsNext, StreamsDone
<1>2. QED
  BY <1>1, TableInitInv, CrowdInit, PTL DEF StreamsSpec

(* The stream bridge of io.c keeps its variables' types.                        *)
THEOREM StreamsTypeCorrect == StreamsSpec => []StreamsTypeOK
<1>1. TableInv => StreamsTypeOK
  BY DEF TableInv
<1>2. QED
  BY <1>1, TableInvariant, PTL

(* An entry of the table never outlives the FILE behind it, for any number of   *)
(* threads, streams and slots.                                                  *)
THEOREM TableIsHonest == StreamsSpec => []TableHoldsOpenSaves
<1>1. TableInv => TableHoldsOpenSaves
  BY DEF TableInv
<1>2. QED
  BY <1>1, TableInvariant, PTL

(* A save goes unwatched only if more saves than slots have been open at once.  *)
THEOREM FullTableIsHonest == StreamsSpec => []RoomMeansTracked
<1>1. TableInv /\ CrowdInv => RoomMeansTracked
  BY CrowdImplies
<1>2. QED
  BY <1>1, TableInvariant, PTL
=============================================================================
