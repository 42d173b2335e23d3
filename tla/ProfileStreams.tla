--------------------------- MODULE ProfileStreams ---------------------------
(***************************************************************************)
(* The stdio bridge of source/reimpl/io.c, as far as it watches the game's *)
(* Profile.save: fopen_soloader() enters a writable profile stream in a    *)
(* fixed table, fclose_soloader() takes it out again, and a successful     *)
(* fclose() of a stream that was in the table stamps the time and bumps    *)
(* the save generation that main.c commits.  The table is scanned slot by  *)
(* slot with one compare-and-swap per slot and no lock, so each CAS is a   *)
(* step here.  FILE addresses are reused by the C library once fclose()    *)
(* has returned, for profile saves and for other files alike.              *)
(*                                                                         *)
(* Timestamps are kept as ages: "lastClosed = 2" is a time two ticks ago.  *)
(***************************************************************************)
EXTENDS Integers, FiniteSets

CONSTANTS
    Threads,     \* the engine's threads that read and write files
    Streams,     \* the addresses the C library hands out as FILE *
    NoStream,    \* the empty table slot (0 in the code)
    Never,       \* a timestamp that has not been taken (0 in the code)
    SlotCount,   \* PROFILE_WRITE_STREAM_SLOTS
    MaxSaves,    \* bound on the saves of one behaviour
    AgeCap       \* bound: older timestamps are not told apart

ASSUME ThreadsAssumption == IsFiniteSet(Threads)
ASSUME StreamsAssumption == IsFiniteSet(Streams) /\ NoStream \notin Streams
ASSUME NeverAssumption == Never \notin Nat
ASSUME SlotCountAssumption == SlotCount \in Nat \ {0}
ASSUME BoundsAssumption == MaxSaves \in Nat /\ AgeCap \in Nat

VARIABLES
    slots,       \* profile_write_streams[]
    holds,       \* what the FILE at each address is: a profile save, another file, or free
    ioPc,        \* where each thread is in fopen_soloader()/fclose_soloader()
    ioStream,    \* the stream that call is about
    ioSlot,      \* the slot its scan looks at next
    ioDone,      \* completed_profile_write of its fclose_soloader()
    ioKind,      \* what the file it opened is (history, for the properties)
    generation,  \* profile_generation
    lastClosed,  \* age of profile_last_closed_us
    unsynced,    \* the generations whose data only the card's write cache holds
    closing,     \* threads whose closed save has no generation yet and is in that cache
    stray,       \* that cache holds profile data no generation will ever count
    crowd        \* the most profile saves that were open at once (history)

streamVars == <<slots, holds, ioPc, ioStream, ioSlot, ioDone, ioKind,
                generation, lastClosed, unsynced, closing, stray, crowd>>

Slots == 1..SlotCount
Ages == 0..AgeCap
IoStates == {"idle", "track", "held", "untrack", "fclose", "stamp", "bump"}

StreamsTypeOK ==
    /\ slots \in [Slots -> Streams \cup {NoStream}]
    /\ holds \in [Streams -> {"free", "profile", "other"}]
    /\ ioPc \in [Threads -> IoStates]
    /\ ioStream \in [Threads -> Streams \cup {NoStream}]
    /\ ioSlot \in [Threads -> Slots]
    /\ ioDone \in [Threads -> BOOLEAN]
    /\ ioKind \in [Threads -> {"profile", "other"}]
    /\ generation \in Nat
    /\ lastClosed \in Ages \cup {Never}
    /\ unsynced \in SUBSET Nat
    /\ closing \in SUBSET Threads
    /\ stray \in BOOLEAN
    /\ crowd \in Nat

StreamsInit ==
    /\ slots = [i \in Slots |-> NoStream]
    /\ holds = [s \in Streams |-> "free"]
    /\ ioPc = [t \in Threads |-> "idle"]
    /\ ioStream = [t \in Threads |-> NoStream]
    /\ ioSlot = [t \in Threads |-> 1]
    /\ ioDone = [t \in Threads |-> FALSE]
    /\ ioKind = [t \in Threads |-> "other"]
    /\ generation = 0
    /\ lastClosed = Never
    /\ unsynced = {}
    /\ closing = {}
    /\ stray = FALSE
    /\ crowd = 0

Larger(a, b) == IF a > b THEN a ELSE b
OpenSaves(h) == {s \in Streams : h[s] = "profile"}
Busy == {t \in Threads : ioPc[t] # "idle"}

storageVars == <<generation, lastClosed, unsynced, closing, stray>>

-----------------------------------------------------------------------------
(* fopen_soloader(): the C library picks a free address; only a writable   *)
(* Profile.save ("profile", the reads are "other") goes on to the table.   *)
Fopen(t, s, kind) ==
    /\ ioPc[t] = "idle"
    /\ holds[s] = "free"
    /\ generation + Cardinality(Busy) < MaxSaves
    /\ holds' = [holds EXCEPT ![s] = kind]
    /\ ioPc' = [ioPc EXCEPT ![t] = IF kind = "profile" THEN "track" ELSE "held"]
    /\ ioStream' = [ioStream EXCEPT ![t] = s]
    /\ ioKind' = [ioKind EXCEPT ![t] = kind]
    /\ crowd' = Larger(crowd, Cardinality(OpenSaves(holds')))
    /\ UNCHANGED <<slots, ioSlot, ioDone, storageVars>>

PastLastSlot(i) == i > SlotCount
LastSlot(i) == i = SlotCount

(* track_profile_write_stream(): one compare-and-swap of 0 by the stream.  *)
(* Past the last slot the stream stays open but nobody watches it.         *)
TrackSlot(t) ==
    LET i == ioSlot[t]
        empty == slots[i] = NoStream
        ends == empty \/ LastSlot(i)
    IN  /\ ioPc[t] = "track"
        /\ slots' = IF empty THEN [slots EXCEPT ![i] = ioStream[t]] ELSE slots
        /\ ioSlot' = [ioSlot EXCEPT ![t] = IF ends THEN 1 ELSE i + 1]
        /\ ioPc' = IF ends THEN [ioPc EXCEPT ![t] = "held"] ELSE ioPc
        /\ UNCHANGED <<holds, ioStream, ioDone, ioKind, crowd, storageVars>>

(* Mutant: the FILE is given back to the C library before it is untracked. *)
CallFcloseFreed(t) ==
    /\ ioPc[t] = "held"
    /\ ioPc' = [ioPc EXCEPT ![t] = "untrack"]
    /\ holds' = [holds EXCEPT ![ioStream[t]] = "free"]
    /\ UNCHANGED <<slots, ioStream, ioSlot, ioDone, ioKind, crowd, storageVars>>

(* fclose_soloader() is called with the stream. *)
CallFclose(t) ==
    /\ ioPc[t] = "held"
    /\ ioPc' = [ioPc EXCEPT ![t] = "untrack"]
    /\ UNCHANGED <<slots, holds, ioStream, ioSlot, ioDone, ioKind, crowd, storageVars>>

(* What a matching slot is set to; mutant: it keeps the stream. *)
StaleSlot(s) == s
EmptiedSlot(s) == NoStream

(* untrack_profile_write_stream(): one compare-and-swap of the stream by 0. *)
UntrackSlot(t) ==
    LET i == ioSlot[t]
        found == slots[i] = ioStream[t]
        ends == found \/ LastSlot(i)
    IN  /\ ioPc[t] = "untrack"
        /\ slots' = IF found THEN [slots EXCEPT ![i] = EmptiedSlot(ioStream[t])] ELSE slots
        /\ ioDone' = [ioDone EXCEPT ![t] = found]
        /\ ioSlot' = [ioSlot EXCEPT ![t] = IF ends THEN 1 ELSE i + 1]
        /\ ioPc' = IF ends THEN [ioPc EXCEPT ![t] = "fclose"] ELSE ioPc
        /\ UNCHANGED <<holds, ioStream, ioKind, crowd, storageVars>>

(* The C library's fclose() frees the address whatever it returns.  A save *)
(* that is not counted (never tracked, or fclose() failed) may still have  *)
(* left data in the write cache.                                           *)
Fclose(t, ok) ==
    LET counted == ioDone[t] /\ ok
    IN  /\ ioPc[t] = "fclose"
        /\ holds' = [holds EXCEPT ![ioStream[t]] = "free"]
        /\ ioPc' = [ioPc EXCEPT ![t] = IF counted THEN "stamp" ELSE "idle"]
        /\ closing' = IF counted THEN closing \cup {t} ELSE closing
        /\ stray' = (stray \/ (~counted /\ ioKind[t] = "profile"))
        /\ ioStream' = [ioStream EXCEPT ![t] = NoStream]
        /\ ioDone' = [ioDone EXCEPT ![t] = FALSE]
        /\ ioKind' = [ioKind EXCEPT ![t] = IF counted THEN @ ELSE "other"]
        /\ UNCHANGED <<slots, ioSlot, crowd, generation, lastClosed, unsynced>>

(* The time stored as profile_last_closed_us. *)
CloseTime == 0

(* profile_last_closed_us is stored before the generation is bumped. *)
Stamp(t) ==
    /\ ioPc[t] = "stamp"
    /\ lastClosed' = CloseTime
    /\ ioPc' = [ioPc EXCEPT ![t] = "bump"]
    /\ UNCHANGED <<slots, holds, ioStream, ioSlot, ioDone, ioKind, crowd,
                   generation, unsynced, closing, stray>>

(* atomic_fetch_add(&profile_generation, 1). *)
Bump(t) ==
    /\ ioPc[t] = "bump"
    /\ generation' = generation + 1
    /\ unsynced' = IF t \in closing THEN unsynced \cup {generation + 1} ELSE unsynced
    /\ closing' = closing \ {t}
    /\ ioPc' = [ioPc EXCEPT ![t] = "idle"]
    /\ ioKind' = [ioKind EXCEPT ![t] = "other"]
    /\ UNCHANGED <<slots, holds, ioStream, ioSlot, ioDone, crowd, lastClosed, stray>>

StreamStep(t) ==
    \/ \E s \in Streams, kind \in {"profile", "other"} : Fopen(t, s, kind)
    \/ TrackSlot(t)
    \/ CallFclose(t)
    \/ UntrackSlot(t)
    \/ \E ok \in BOOLEAN : Fclose(t, ok)
    \/ Stamp(t)
    \/ Bump(t)

(* Everything opened so far is closed and the bound on saves is reached. *)
StreamsDone ==
    /\ Busy = {}
    /\ generation >= MaxSaves
    /\ UNCHANGED streamVars

StreamsNext == (\E t \in Threads : StreamStep(t)) \/ StreamsDone

StreamsSpec == StreamsInit /\ [][StreamsNext]_streamVars

-----------------------------------------------------------------------------
Tracked(s) == \E i \in Slots : slots[i] = s

(* Every table entry is a profile save that a thread still has open, and no *)
(* stream is entered twice: an entry never outlives the FILE behind it, so  *)
(* a reused address is never mistaken for an open save.                     *)
TableHoldsOpenSaves ==
    /\ \A i \in Slots : slots[i] # NoStream =>
          /\ holds[slots[i]] = "profile"
          /\ \E t \in Threads : /\ ioStream[t] = slots[i]
                               /\ ioPc[t] \in {"held", "untrack"}
    /\ \A i, j \in Slots : (slots[i] # NoStream /\ slots[i] = slots[j]) => i = j

(* The warning "table is full" is honest: although the slots are scanned    *)
(* without a lock while others come and go, an open save is missing from    *)
(* the table only if more saves than slots have been open at once.          *)
RoomMeansTracked ==
    \A t \in Threads :
        (ioPc[t] = "held" /\ ioKind[t] = "profile" /\ ~Tracked(ioStream[t]))
            => crowd > SlotCount
=============================================================================
