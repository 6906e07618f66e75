----------------------------- MODULE MCNodeFiles -----------------------------
(***************************************************************************)
(* Instances of NodeFiles for TLC.                                         *)
(***************************************************************************)
EXTENDS NodeFiles

\* A private node with files, a public one with an application, and a client.
ThreeKinds ==
  {[command |-> "init", public |-> FALSE, upstream |-> FALSE],
   [command |-> "init", public |-> TRUE, upstream |-> TRUE], [command |-> "client-init"]}

Alike == Permutations(Makers)
=============================================================================
