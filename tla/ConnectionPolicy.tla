-------------------------- MODULE ConnectionPolicy --------------------------
(***************************************************************************)
(* What a DEEP server promises about its connections, without counters,    *)
(* channels, clocks or goroutines: which connections it has admitted, which *)
(* of them it is serving, and whether it is still open.                    *)
(***************************************************************************)
EXTENDS Integers, FiniteSets

CONSTANTS Conns, PeerOf, MaxConnectionsPerPeer, MaxConnections

VARIABLES live, served, open

policyVars == <<live, served, open>>

SamePeer(c) == {d \in live : PeerOf[d] = PeerOf[c]}

PolicyInit == live = {} /\ served = {} /\ open = TRUE

\* A connection is admitted only while its peer is below its limit.
Admit(c) ==
  /\ open /\ c \notin live
  /\ Cardinality(SamePeer(c)) < MaxConnectionsPerPeer
  /\ live' = live \cup {c}
  /\ UNCHANGED <<served, open>>

\* An admitted connection is served only while the server has capacity.
Begin(c) ==
  /\ c \in live \ served
  /\ Cardinality(served) < MaxConnections
  /\ served' = served \cup {c}
  /\ UNCHANGED <<live, open>>

End(c) ==
  /\ c \in served
  /\ served' = served \ {c}
  /\ UNCHANGED <<live, open>>

\* A connection gives up its place only when it is no longer served.
Leave(c) ==
  /\ c \in live \ served
  /\ live' = live \ {c}
  /\ UNCHANGED <<served, open>>

\* The server closes once, and only when nothing is left.
Shut ==
  /\ open /\ live = {}
  /\ open' = FALSE
  /\ UNCHANGED <<live, served>>

PolicyNext ==
  \/ \E c \in Conns : Admit(c) \/ Begin(c) \/ End(c) \/ Leave(c)
  \/ Shut

PolicySpec == PolicyInit /\ [][PolicyNext]_policyVars
=============================================================================
