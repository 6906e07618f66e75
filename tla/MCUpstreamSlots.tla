-------------------------- MODULE MCUpstreamSlots ---------------------------
(***************************************************************************)
(* Instances of UpstreamSlots for TLC.                                     *)
(***************************************************************************)
EXTENDS UpstreamSlots, TLC

Alike == Permutations(Requests)
=============================================================================
