------------------------------ MODULE MCSession ------------------------------
(***************************************************************************)
(* Instances of Session for TLC.                                           *)
(***************************************************************************)
EXTENDS Session, TLC

CONSTANTS c1, c2

\* A resource of two chunks, an empty one, one that shrank, one that grew, one
\* above the client's limit and one above the server's.
AllKinds ==
  {[size |-> 3, length |-> 3], [size |-> 0, length |-> 0],
   [size |-> 3, length |-> 1], [size |-> 1, length |-> 2],
   [size |-> 4, length |-> 4], [size |-> 5, length |-> 5]}
\* One resource of one chunk.
OneChunk == {[size |-> 1, length |-> 1]}
=============================================================================
