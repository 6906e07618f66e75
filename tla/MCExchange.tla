----------------------------- MODULE MCExchange -----------------------------
(***************************************************************************)
(* Instances of Exchange for TLC.                                          *)
(***************************************************************************)
EXTENDS Exchange

AllMethods   == {"GET", "HEAD", "POST"}
AllProviders == {"app", "files", "legacy"}
\* An empty answer, one of two chunks, one that shrank, one that grew, and one
\* above the client's limit.
AllReplies ==
  {[size |-> 0, length |-> 0], [size |-> 2, length |-> 2], [size |-> 2, length |-> 1],
   [size |-> 1, length |-> 2], [size |-> 3, length |-> 3]}
=============================================================================
