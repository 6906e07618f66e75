---------------------------- MODULE MCConfigEdit ----------------------------
(***************************************************************************)
(* Instances of ConfigEdit for TLC.                                        *)
(***************************************************************************)
EXTENDS ConfigEdit, TLC

Alike == Permutations(Editors)
=============================================================================
