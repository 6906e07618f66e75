--------------------------- MODULE MCPublishedFiles ---------------------------
(***************************************************************************)
(* An instance of PublishedFiles for TLC.                                  *)
(***************************************************************************)
EXTENDS PublishedFiles, TLC

CONSTANTS p1, p2, p3

Interchangeable == Permutations({p1, p2, p3})
=============================================================================
