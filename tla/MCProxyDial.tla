----------------------------- MODULE MCProxyDial -----------------------------
(***************************************************************************)
(* An instance of ProxyDial for TLC.                                       *)
(***************************************************************************)
EXTENDS ProxyDial, TLC

CONSTANTS d1, d2

\* Two clients' identities, an expired one, and none.
Identity(k, c) == [pin |-> k, role |-> "client", current |-> c]

AllCredentials ==
  {d1 :> Identity("c1", TRUE) @@ d2 :> Identity(NoPin, TRUE),
   d1 :> Identity("c2", TRUE) @@ d2 :> Identity("c1", FALSE)}

Public  == {}
Private == {"c1"}

\* Public and private servers, the certificate of a client, and an expired one.
AllServers ==
  {[pin |-> k, role |-> "server", name |-> d, current |-> TRUE, allowed |-> a] :
     k \in Pins, d \in Dialers, a \in {Public, Private}}
  \cup {[pin |-> "k1", role |-> "client", name |-> d1, current |-> TRUE, allowed |-> Public],
        [pin |-> "k1", role |-> "server", name |-> d1, current |-> FALSE, allowed |-> Public]}
=============================================================================
