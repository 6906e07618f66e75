---------------------------- MODULE ServerLimits ----------------------------
(***************************************************************************)
(* The limits of a server: an operator gives them to a Server (library) or *)
(* in server.json (the command "deep serve", cmd/deep/config.go).  The     *)
(* command checks and completes them, and so does Server.configured        *)
(* (limits.go) afterwards, when the port is already open; their defaults   *)
(* and bounds differ.  Zero means "not given".  Times are in seconds,      *)
(* MaxBytes is in MiB.                                                     *)
(***************************************************************************)
EXTENDS Integers

CONSTANT Given   \* the limits an operator may give

VARIABLES
  origin,    \* "library" or "file"
  given,     \* the limits as the file, and then the Server, has them
  limits,    \* the limits that are used
  outcome    \* what has become of them

limitsVars == <<origin, given, limits, outcome>>

Fields ==
  {"Timeout", "HandshakeTimeout", "IdleTimeout", "SessionTimeout", "MaxConnections",
   "MaxConnectionsPerPeer", "MaxRequestsPerSession", "MaxBytes", "RequestsPerMinute"}

ASSUME GivenAssumption == Given \subseteq [Fields -> Int]

\* The largest value a Server may have; a peer may be allowed every connection.
Ceiling ==
  [Timeout |-> 3600, HandshakeTimeout |-> 60, IdleTimeout |-> 3600, SessionTimeout |-> 86400,
   MaxConnections |-> 4096, MaxConnectionsPerPeer |-> 4096, MaxRequestsPerSession |-> 1000000,
   MaxBytes |-> 1048576, RequestsPerMinute |-> 1000000]

\* The value of a limit that a Server was not given.
Default ==
  [Timeout |-> 30, HandshakeTimeout |-> 5, IdleTimeout |-> 30, SessionTimeout |-> 300,
   MaxConnections |-> 64, MaxConnectionsPerPeer |-> 16, MaxRequestsPerSession |-> 128,
   MaxBytes |-> 1024, RequestsPerMinute |-> 120]

\* The largest value in server.json, and the value of a limit it leaves out.
FileCeiling == [Ceiling EXCEPT !["IdleTimeout"] = 600]
FileDefault ==
  [Default EXCEPT !["SessionTimeout"] = 3600, !["MaxConnections"] = 128,
                  !["MaxRequestsPerSession"] = 1000]

Or(x, default) == IF x = 0 THEN default ELSE x
Lesser(x, y) == IF x <= y THEN x ELSE y

\* As Completed, but the default for a peer ignores MaxConnections.
CompletedFlat(s, d) == [f \in Fields |-> Or(s[f], d[f])]

\* The defaults d are filled in; the one for a peer fits MaxConnections.
Completed(s, d) ==
  [f \in Fields |->
     IF f = "MaxConnectionsPerPeer"
       THEN Or(s[f], Lesser(d[f], Or(s["MaxConnections"], d["MaxConnections"])))
       ELSE Or(s[f], d[f])]

PeersFit(s) == s["MaxConnectionsPerPeer"] <= s["MaxConnections"]

-----------------------------------------------------------------------------
(* loadServerConfig *)

\* As InRange, but only a negative limit is an error.
InRangeBelow(s) == \A f \in Fields : s[f] >= 0

InRange(s) == \A f \in Fields : s[f] \in 0 .. FileCeiling[f]

\* serveNode goes on to build a Server, or reports the file's error.
LoadServerConfig ==
  /\ outcome = "in file"
  /\ LET completed == Completed(given, FileDefault)
     IN  \/ /\ InRange(given) /\ PeersFit(completed)
            /\ given' = completed /\ outcome' = "given"
         \/ /\ ~ (InRange(given) /\ PeersFit(completed))
            /\ outcome' = "rejected" /\ UNCHANGED given
  /\ UNCHANGED <<origin, limits>>

-----------------------------------------------------------------------------
(* Server.configured *)

\* The final check, on completed limits.
Acceptable(s) ==
  /\ \A f \in Fields : s[f] <= Ceiling[f]
  /\ PeersFit(s)

\* MaxRequestsPerSession is unsigned: it cannot be negative and is not tested.
NotNegative(s) == \A f \in Fields \ {"MaxRequestsPerSession"} : s[f] >= 0

Configure ==
  /\ outcome = "given"
  /\ \/ /\ ~ NotNegative(given)
        /\ outcome' = "refused" /\ UNCHANGED limits
     \/ /\ NotNegative(given)
        /\ limits' = Completed(given, Default)
        /\ outcome' = IF Acceptable(limits') THEN "accepted" ELSE "refused"
  /\ UNCHANGED <<origin, given>>

LimitsInit ==
  /\ given \in {s \in Given : s["MaxRequestsPerSession"] >= 0}
  /\ limits = given
  /\ \/ origin = "library" /\ outcome = "given"
     \/ origin = "file" /\ outcome = "in file"

LimitsNext == LoadServerConfig \/ Configure

LimitsSpec == LimitsInit /\ [][LimitsNext]_limitsVars

-----------------------------------------------------------------------------
(* Every limit of a server that runs is positive and within its bound, and  *)
(* no peer is promised more connections than the server has: what Serve and *)
(* newPeerLimiter, which never check again, rely on (module Admission's     *)
(* LimitsAssumption among others).                                          *)
RunningLimitsSound ==
  outcome = "accepted" =>
    /\ \A f \in Fields : limits[f] \in 1 .. Ceiling[f]
    /\ limits["MaxConnectionsPerPeer"] <= limits["MaxConnections"]

(* Leaving a limit out is never what makes a Server refuse to start: it is  *)
(* refused only for a limit that was given and is out of its own bounds, or *)
(* for a peer limit above the connections there are.                        *)
DefaultsNeverRefuse ==
  outcome = "refused" =>
    \/ \E f \in Fields : given[f] # 0 /\ given[f] \notin 1 .. Ceiling[f]
    \/ given["MaxConnectionsPerPeer"] # 0
         /\ given["MaxConnectionsPerPeer"] > Or(given["MaxConnections"], Default["MaxConnections"])

(* Server.configured decides well: what runs is sound, and what is refused  *)
(* was wrong in a limit that somebody gave.                                 *)
ConfiguredWell == RunningLimitsSound /\ DefaultsNeverRefuse

(* The two layers agree: what "deep serve" accepts in server.json is never  *)
(* refused later, when its port is open, and the server runs with exactly   *)
(* the values and defaults of the file; no default of the library replaces  *)
(* one of them.                                                             *)
FileSettlesLimits ==
  origin = "file" => /\ outcome # "refused"
                     /\ outcome = "accepted" => limits = given
=============================================================================
