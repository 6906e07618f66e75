--------------------------- MODULE MCServerLimits ---------------------------
(***************************************************************************)
(* The limits TLC tries: any two of them at a time at a boundary, the      *)
(* others not given.                                                       *)
(***************************************************************************)
EXTENDS ServerLimits

Boundary(f) ==
  {-1, 0, 1, Default[f] - 1, Default[f] + 1, FileDefault[f], FileCeiling[f], FileCeiling[f] + 1,
   Ceiling[f], Ceiling[f] + 1}

TwoGiven ==
  UNION {{[f \in Fields |-> IF f = a THEN x ELSE IF f = b THEN y ELSE 0] :
            x \in Boundary(a), y \in Boundary(b)} : a, b \in Fields}
=============================================================================
