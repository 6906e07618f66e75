----------------------------- MODULE MCAdmission -----------------------------
(***************************************************************************)
(* An instance of Admission for TLC.                                       *)
(***************************************************************************)
EXTENDS Admission, TLC

CONSTANTS c1, c2, c3, c4, p1, p2, p3

\* Two connections of the first peer and one of each other.
TwoOneOne == c1 :> p1 @@ c2 :> p1 @@ c3 :> p2 @@ c4 :> p3
=============================================================================
