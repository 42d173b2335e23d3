---------------------------- MODULE MCProfileSync ----------------------------
(* The main thread and one engine thread save through a table of one slot. *)
EXTENDS ProfileSync
=============================================================================
