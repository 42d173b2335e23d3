----------------------------- MODULE DurableSave -----------------------------
(***************************************************************************)
(* What the loader promises about Profile.save, without threads, streams,  *)
(* clocks or locks: finished saves are numbered, some of them would be     *)
(* lost with the power, and a checkpoint number is announced that never    *)
(* covers one of those and never falls back.                               *)
(***************************************************************************)
EXTENDS Integers

VARIABLES
    saves,       \* the number of finished saves
    volatile,    \* the finished saves a power loss would take
    checkpoint   \* "Autosave checkpoint N committed"

durableVars == <<saves, volatile, checkpoint>>

DurableInit == saves = 0 /\ volatile = {} /\ checkpoint = 0

(* A save finishes; it may already have reached the card. *)
FinishSave ==
    /\ saves' = saves + 1
    /\ volatile' \in {volatile, volatile \cup {saves + 1}}
    /\ UNCHANGED checkpoint

(* The card's write cache is flushed. *)
Flush == volatile' = {} /\ UNCHANGED <<saves, checkpoint>>

Announce ==
    /\ checkpoint' \in checkpoint..saves
    /\ \A n \in volatile : n > checkpoint'
    /\ UNCHANGED <<saves, volatile>>

DurableNext == FinishSave \/ Flush \/ Announce

DurableSpec == DurableInit /\ [][DurableNext]_durableVars
=============================================================================
