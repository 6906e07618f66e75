--------------------------- MODULE ProxyDialProofs ---------------------------
(***************************************************************************)
(* Proofs about ProxyDial, for any sets of dialers, proxies, keys and      *)
(* servers and any number of changes of the registry.                      *)
(***************************************************************************)
EXTENDS ProxyDial, TLAPS

Targets     == Addresses \cup {Direct}
Labels      == {"lookup", "child", "dial", "ask", "stop", "tls", "hello", "ok", "failed"}
Connections == {"none", "open", "closed"}
Hooks       == {"none", "armed", "running", "over"}
Children    == {"none", "running", "overdue", "held", "answered", "useless"}
Handles     == Dialers \X Operations

TypeOK ==
  /\ proxy \in Targets /\ routes \subseteq Dialers /\ changes \in 0..MaxChanges
  /\ pc \in [Dialers -> Labels]
  /\ op \in [Dialers -> Operations]
  /\ endpoint \in [Dialers -> Targets]
  /\ pin \in [Dialers -> Pins \cup {NoPin}]
  /\ conn \in [Handles -> Connections]
  /\ hook \in [Handles -> Hooks]
  /\ child \in [Dialers -> Children]
  /\ peer \in [Dialers -> SUBSET Servers]
  /\ chosen \in [Dialers -> Targets]
  /\ contacts \in [Dialers -> SUBSET Targets]

(* A dialer connects to its endpoint, which is the proxy if there was one   *)
(* at the lookup; before the lookup, and while its exec adapter runs, it    *)
(* has connected to nothing and runs no handshake.                          *)
RouteInv ==
  \A d \in Dialers :
    /\ contacts[d] \subseteq {endpoint[d]} /\ (chosen[d] # Direct => endpoint[d] = chosen[d])
    /\ pc[d] \in {"lookup", "child"} =>
         contacts[d] = {} /\ chosen[d] = Direct /\ op[d] = "connect"
    /\ op[d] = "resolve" => endpoint[d] # Direct
    /\ child[d] \in Busy => pc[d] = "child"

\* The connection and the timer of an operation; the timer may still close
\* the connection as long as it is pending.
Conn(d, o) == conn[<<d, o>>]
Hook(d, o) == hook[<<d, o>>]
Pending(d, o) == Hook(d, o) \in {"armed", "running"}
Untouched(d, o) == Conn(d, o) = "none" /\ Hook(d, o) = "none"

(* The connection and the timer of an operation by the stage of its dialer: *)
(* while a handshake waits, its connection is open exactly as long as its   *)
(* timer is pending, so a stream whose timer was stopped in time is open    *)
(* and nobody is left to close it; whatever ends a handshake closes the     *)
(* connection, and the first one is closed before the second one begins.    *)
HandshakeInv ==
  \A d \in Dialers :
    /\ pc[d] \in {"lookup", "child"} => \A o \in Operations : Untouched(d, o)
    /\ pc[d] = "dial" => Untouched(d, op[d])
    /\ pc[d] \in {"ask", "stop"} => (Conn(d, op[d]) = "open" <=> Pending(d, op[d]))
    /\ pc[d] \in {"tls", "hello", "ok"} =>
         op[d] = "connect" /\ Conn(d, "connect") = "open" /\ ~ Pending(d, "connect")
    /\ pc[d] = "failed" => \A o \in Operations : Conn(d, o) # "open" /\ Hook(d, o) # "armed"
    /\ op[d] = "connect" => Conn(d, "resolve") # "open" /\ ~ Pending(d, "resolve")
    /\ op[d] = "resolve" => Untouched(d, "connect")

(* The server of a stream that has come through TLS is the pinned one, and  *)
(* WELCOME comes only from a server that admits the client.                 *)
TrustInv ==
  \A d \in Dialers :
    pc[d] \in {"hello", "ok"} =>
      \E s \in Servers :
        /\ peer[d] = {s} /\ Authentic(d, s)
        /\ pc[d] = "ok" => Admits(s, d)

IndInv == TypeOK /\ RouteInv /\ HandshakeInv /\ TrustInv

-----------------------------------------------------------------------------
(* Changing the connection of one operation changes no other. *)
LEMMA ConnSet ==
  ASSUME TypeOK, NEW d \in Dialers, NEW o \in Operations, NEW v \in Connections,
         conn' = [conn EXCEPT ![<<d, o>>] = v]
  PROVE  /\ conn' \in [Handles -> Connections]
         /\ \A e \in Dialers, q \in Operations :
              Conn(e, q)' = IF e = d /\ q = o THEN v ELSE Conn(e, q)
<1>1. conn \in [Handles -> Connections]
  BY DEF TypeOK
<1> QED
  BY <1>1 DEF Conn, Handles

(* Changing the timer of one operation changes no other. *)
LEMMA HookSet ==
  ASSUME TypeOK, NEW d \in Dialers, NEW o \in Operations, NEW v \in Hooks,
         hook' = [hook EXCEPT ![<<d, o>>] = v]
  PROVE  /\ hook' \in [Handles -> Hooks]
         /\ \A e \in Dialers, q \in Operations :
              Hook(e, q)' = IF e = d /\ q = o THEN v ELSE Hook(e, q)
<1>1. hook \in [Handles -> Hooks]
  BY DEF TypeOK
<1> QED
  BY <1>1 DEF Hook, Handles

(* A step that leaves the connections alone leaves each of them alone. *)
LEMMA ConnKept ==
  ASSUME conn' = conn
  PROVE  \A e \in Dialers, q \in Operations : Conn(e, q)' = Conn(e, q)
BY DEF Conn

(* A step that leaves the timers alone leaves each of them alone. *)
LEMMA HookKept ==
  ASSUME hook' = hook
  PROVE  \A e \in Dialers, q \in Operations : Hook(e, q)' = Hook(e, q)
BY DEF Hook

(* Connections and timers have one of their values. *)
LEMMA HandleTypes ==
  ASSUME TypeOK
  PROVE  \A e \in Dialers, q \in Operations : Conn(e, q) \in Connections /\ Hook(e, q) \in Hooks
<1>1. conn \in [Handles -> Connections] /\ hook \in [Handles -> Hooks]
  BY DEF TypeOK
<1> QED
  BY <1>1 DEF Conn, Hook, Handles

(* An error closes the connection of the current operation and stops its    *)
(* timer if that has not started.                                           *)
LEMMA FailHandles ==
  ASSUME TypeOK, NEW d \in Dialers, Fail(d)
  PROVE  /\ conn' \in [Handles -> Connections] /\ hook' \in [Handles -> Hooks]
         /\ \A e \in Dialers, q \in Operations :
              /\ Conn(e, q)' = IF e = d /\ q = op[d] /\ Conn(e, q) = "open"
                               THEN "closed" ELSE Conn(e, q)
              /\ Hook(e, q)' = IF e = d /\ q = op[d] /\ Hook(e, q) = "armed"
                               THEN "over" ELSE Hook(e, q)
<1>1. op[d] \in Operations
  BY DEF TypeOK
<1>2. PICK o \in Operations : o = op[d]
  BY <1>1
<1>3. PICK c \in Connections : c = IF Conn(d, o) = "open" THEN "closed" ELSE Conn(d, o)
  BY HandleTypes DEF Connections
<1>4. PICK h \in Hooks : h = IF Hook(d, o) = "armed" THEN "over" ELSE Hook(d, o)
  BY HandleTypes DEF Hooks
<1>5. conn' = [conn EXCEPT ![<<d, o>>] = c] /\ hook' = [hook EXCEPT ![<<d, o>>] = h]
  BY <1>2, <1>3, <1>4 DEF Fail, Current, Conn, Hook
<1>6. /\ conn' \in [Handles -> Connections]
      /\ \A e \in Dialers, q \in Operations :
           Conn(e, q)' = IF e = d /\ q = o THEN c ELSE Conn(e, q)
  BY <1>5 DEF TypeOK, Conn, Handles
<1>7. /\ hook' \in [Handles -> Hooks]
      /\ \A e \in Dialers, q \in Operations :
           Hook(e, q)' = IF e = d /\ q = o THEN h ELSE Hook(e, q)
  BY <1>5 DEF TypeOK, Hook, Handles
<1> QED
  BY <1>2, <1>3, <1>4, <1>6, <1>7

(* The invariant holds before any dialer looks its authority up. *)
LEMMA InitInv == Init => IndInv
<1> SUFFICES ASSUME Init PROVE IndInv
  OBVIOUS
<1>1. TypeOK
  <2>1. conn \in [Handles -> Connections] /\ hook \in [Handles -> Hooks]
    BY DEF Init, Handles, Connections, Hooks
  <2> QED
    BY <2>1, DialAssumption DEF Init, TypeOK, Targets, Labels, Operations, Children
<1>2. RouteInv /\ TrustInv
  BY DEF Init, RouteInv, TrustInv, Busy
<1>3. \A d \in Dialers, o \in Operations : Untouched(d, o)
  BY DEF Init, Untouched, Conn, Hook
<1>4. HandshakeInv
  BY <1>3 DEF Init, HandshakeInv, Pending, Untouched, Operations
<1> QED
  BY <1>1, <1>2, <1>4 DEF IndInv

(* An error return keeps the invariant, wherever in the handshakes it is.   *)
LEMMA BreaksInv ==
  ASSUME IndInv, NEW d \in Dialers, Breaks(d)
  PROVE  IndInv'
<1> USE DEF Breaks, Goto, configVars, IndInv
<1>a. /\ conn' \in [Handles -> Connections] /\ hook' \in [Handles -> Hooks]
      /\ \A e \in Dialers, q \in Operations :
           /\ Conn(e, q)' = IF e = d /\ q = op[d] /\ Conn(e, q) = "open"
                            THEN "closed" ELSE Conn(e, q)
           /\ Hook(e, q)' = IF e = d /\ q = op[d] /\ Hook(e, q) = "armed"
                            THEN "over" ELSE Hook(e, q)
  BY FailHandles
<1>1. TypeOK'
  BY <1>a DEF TypeOK, Targets, Labels, Operations, Children, Fail
<1>2. RouteInv'
  BY DEF RouteInv, TypeOK, Targets, Labels, Operations, Children, Fail
<1>3. HandshakeInv'
  BY <1>a DEF HandshakeInv, Pending, Untouched, TypeOK, Targets, Labels, Operations, Children,
       Fail
<1>4. TrustInv'
  BY DEF TrustInv, Authentic, Admits, TypeOK, Targets, Labels, Operations, Children, Fail
<1> QED
  BY <1>1, <1>2, <1>3, <1>4

(* A lookup binds the dialer to the proxy of that moment, or to none. *)
LEMMA LookUpInv ==
  ASSUME IndInv, NEW d \in Dialers, LookUp(d)
  PROVE  IndInv'
<1> USE DEF LookUp, Named, Busy, Goto, configVars, IndInv
<1>a. /\ conn' \in [Handles -> Connections] /\ hook' \in [Handles -> Hooks]
      /\ \A e \in Dialers, q \in Operations :
           Conn(e, q)' = Conn(e, q) /\ Hook(e, q)' = Hook(e, q)
  BY ConnKept, HookKept DEF TypeOK
<1>1. TypeOK'
  BY <1>a, DialAssumption DEF TypeOK, Targets, Labels, Operations, Children
<1>2. RouteInv'
  BY DEF RouteInv, TypeOK, Targets, Labels, Operations, Children
<1>3. HandshakeInv'
  BY <1>a DEF RouteInv, HandshakeInv, Pending, Untouched, TypeOK, Targets, Labels, Operations,
       Children
<1>4. TrustInv'
  BY DEF TrustInv, Authentic, Admits, TypeOK, Targets, Labels, Operations, Children
<1> QED
  BY <1>1, <1>2, <1>3, <1>4

(* What becomes of the command of an exec adapter concerns its dialer only   *)
(* when Run returns.                                                        *)
LEMMA ChildInv ==
  ASSUME IndInv, NEW d \in Dialers,
         ChildExits(d) \/ TimeIsUp(d) \/ ChildKilled(d) \/ PipesClosed(d)
  PROVE  IndInv'
<1> USE DEF ChildExits, TimeIsUp, ChildKilled, PipesClosed, Child, Busy, configVars, IndInv
<1>a. /\ conn' \in [Handles -> Connections] /\ hook' \in [Handles -> Hooks]
      /\ \A e \in Dialers, q \in Operations :
           Conn(e, q)' = Conn(e, q) /\ Hook(e, q)' = Hook(e, q)
  BY ConnKept, HookKept DEF TypeOK
<1>1. TypeOK'
  BY <1>a, DialAssumption DEF TypeOK, Targets, Labels, Operations, Children
<1>2. RouteInv'
  BY DEF RouteInv, TypeOK, Targets, Labels, Operations, Children
<1>3. HandshakeInv'
  BY <1>a DEF RouteInv, HandshakeInv, Pending, Untouched, TypeOK, Targets, Labels, Operations,
       Children
<1>4. TrustInv'
  BY DEF TrustInv, Authentic, Admits, TypeOK, Targets, Labels, Operations, Children
<1> QED
  BY <1>1, <1>2, <1>3, <1>4

(* The command has been waited for, so no process is left. *)
LEMMA RunReturnsInv ==
  ASSUME IndInv, NEW d \in Dialers, RunReturns(d)
  PROVE  IndInv'
<1> USE DEF RunReturns, Named, Busy, Goto, configVars, IndInv
<1>a. /\ conn' \in [Handles -> Connections] /\ hook' \in [Handles -> Hooks]
      /\ \A e \in Dialers, q \in Operations :
           Conn(e, q)' = Conn(e, q) /\ Hook(e, q)' = Hook(e, q)
  BY ConnKept, HookKept DEF TypeOK
<1>1. TypeOK'
  BY <1>a, DialAssumption DEF TypeOK, Targets, Labels, Operations, Children
<1>2. RouteInv'
  BY DEF RouteInv, TypeOK, Targets, Labels, Operations, Children
<1>3. HandshakeInv'
  BY <1>a DEF RouteInv, HandshakeInv, Pending, Untouched, TypeOK, Targets, Labels, Operations,
       Children
<1>4. TrustInv'
  BY DEF TrustInv, Authentic, Admits, TypeOK, Targets, Labels, Operations, Children
<1> QED
  BY <1>1, <1>2, <1>3, <1>4

(* The answer of a proxy is read while its connection is open. *)
LEMMA AnswerInv ==
  ASSUME IndInv, NEW d \in Dialers, Answer(d)
  PROVE  IndInv'
<1> USE DEF Answer, Goto, configVars, IndInv
<1>a. /\ conn' \in [Handles -> Connections] /\ hook' \in [Handles -> Hooks]
      /\ \A e \in Dialers, q \in Operations :
           Conn(e, q)' = Conn(e, q) /\ Hook(e, q)' = Hook(e, q)
  BY ConnKept, HookKept DEF TypeOK
<1>1. TypeOK'
  BY <1>a, DialAssumption DEF TypeOK, Targets, Labels, Operations, Children
<1>2. RouteInv'
  BY DEF RouteInv, TypeOK, Targets, Labels, Operations, Children
<1>3. HandshakeInv'
  BY <1>a DEF RouteInv, HandshakeInv, Pending, Untouched, TypeOK, Targets, Labels, Operations,
       Children
<1>4. TrustInv'
  BY DEF TrustInv, Authentic, Admits, TypeOK, Targets, Labels, Operations, Children
<1> QED
  BY <1>1, <1>2, <1>3, <1>4

(* An identity that is not a current client's ends the dial. *)
LEMMA IdentityRefusedInv ==
  ASSUME IndInv, NEW d \in Dialers, IdentityRefused(d)
  PROVE  IndInv'
BY BreaksInv DEF IdentityRefused, Breaks

(* A refused handshake closes its own connection. *)
LEMMA RefusalInv ==
  ASSUME IndInv, NEW d \in Dialers, Refusal(d)
  PROVE  IndInv'
BY BreaksInv DEF Refusal, Breaks

(* A timer that has started means that the handshake fails. *)
LEMMA StopTooLateInv ==
  ASSUME IndInv, NEW d \in Dialers, StopTooLate(d)
  PROVE  IndInv'
BY BreaksInv DEF StopTooLate, Breaks

(* A new adapter matters to later lookups only. *)
LEMMA RegisterInv ==
  ASSUME IndInv, NEW d \in Dialers, Register(d)
  PROVE  IndInv'
<1> USE DEF Register, Goto, configVars, IndInv
<1>a. /\ conn' \in [Handles -> Connections] /\ hook' \in [Handles -> Hooks]
      /\ \A e \in Dialers, q \in Operations :
           Conn(e, q)' = Conn(e, q) /\ Hook(e, q)' = Hook(e, q)
  BY ConnKept, HookKept DEF TypeOK
<1>1. TypeOK'
  BY <1>a, DialAssumption DEF TypeOK, Targets, Labels, Operations, Children
<1>2. RouteInv'
  BY DEF RouteInv, TypeOK, Targets, Labels, Operations, Children
<1>3. HandshakeInv'
  BY <1>a DEF RouteInv, HandshakeInv, Pending, Untouched, TypeOK, Targets, Labels, Operations,
       Children
<1>4. TrustInv'
  BY DEF TrustInv, Authentic, Admits, TypeOK, Targets, Labels, Operations, Children
<1> QED
  BY <1>1, <1>2, <1>3, <1>4

(* A changed proxy matters to later lookups only. *)
LEMMA SetProxyInv ==
  ASSUME IndInv, NEW a \in Addresses \cup {Direct}, SetProxy(a)
  PROVE  IndInv'
<1> USE DEF SetProxy, Goto, configVars, IndInv
<1>a. /\ conn' \in [Handles -> Connections] /\ hook' \in [Handles -> Hooks]
      /\ \A e \in Dialers, q \in Operations :
           Conn(e, q)' = Conn(e, q) /\ Hook(e, q)' = Hook(e, q)
  BY ConnKept, HookKept DEF TypeOK
<1>1. TypeOK'
  BY <1>a, DialAssumption DEF TypeOK, Targets, Labels, Operations, Children
<1>2. RouteInv'
  BY DEF RouteInv, TypeOK, Targets, Labels, Operations, Children
<1>3. HandshakeInv'
  BY <1>a DEF RouteInv, HandshakeInv, Pending, Untouched, TypeOK, Targets, Labels, Operations,
       Children
<1>4. TrustInv'
  BY DEF TrustInv, Authentic, Admits, TypeOK, Targets, Labels, Operations, Children
<1> QED
  BY <1>1, <1>2, <1>3, <1>4

(* A connection is opened to the target of the lookup; that to a proxy has  *)
(* a timer.                                                                 *)
LEMMA ConnectInv ==
  ASSUME IndInv, NEW d \in Dialers, Connect(d)
  PROVE  IndInv'
<1> USE DEF Connect, Reaches, Goto, configVars, IndInv
<1>1. PICK o \in Operations : o = op[d]
  BY DEF TypeOK
<1>a. conn' = [conn EXCEPT ![<<d, o>>] = "open"]
  BY <1>1 DEF Current
<1>2. /\ conn' \in [Handles -> Connections]
      /\ \A e \in Dialers, q \in Operations :
           Conn(e, q)' = IF e = d /\ q = o THEN "open" ELSE Conn(e, q)
  BY <1>a, ConnSet DEF Connections
<1>3. /\ hook' \in [Handles -> Hooks]
      /\ \A e \in Dialers, q \in Operations :
           Hook(e, q)' = IF e = d /\ q = o /\ endpoint[d] # Direct THEN "armed" ELSE Hook(e, q)
  <2>1. CASE endpoint[d] # Direct
    BY <1>1, <2>1, HookSet DEF Current, Hooks
  <2>2. CASE endpoint[d] = Direct
    BY <2>2, HookKept DEF TypeOK
  <2> QED
    BY <2>1, <2>2
<1>4. TypeOK'
  BY <1>2, <1>3 DEF TypeOK, Targets, Labels, Operations, Children
<1>5. RouteInv'
  BY DEF RouteInv, TypeOK, Targets, Labels, Operations, Children
<1>6. op[d] = "resolve" => endpoint[d] # Direct
  BY DEF RouteInv, TypeOK
<1>7. HandshakeInv'
  BY <1>1, <1>2, <1>3, <1>6 DEF RouteInv, HandshakeInv, Pending, Untouched, TypeOK, Targets,
       Labels, Operations, Children
<1>8. TrustInv'
  BY DEF TrustInv, Authentic, Admits, TypeOK, Targets, Labels, Operations, Children
<1> QED
  BY <1>4, <1>5, <1>7, <1>8

(* A timer that is stopped in time leaves an open stream and cannot close   *)
(* it; the stream of the first handshake is closed before the second.       *)
LEMMA StopInv ==
  ASSUME IndInv, NEW d \in Dialers, Stop(d)
  PROVE  IndInv'
<1> USE DEF Stop, Goto, configVars, IndInv
<1>1. PICK o \in Operations : o = op[d]
  BY DEF TypeOK
<1>2. Hook(d, o) = "armed"
  BY <1>1 DEF Hook, Current
<1>a. hook' = [hook EXCEPT ![<<d, o>>] = "over"]
  BY <1>1 DEF Current
<1>3. /\ hook' \in [Handles -> Hooks]
      /\ \A e \in Dialers, q \in Operations :
           Hook(e, q)' = IF e = d /\ q = o THEN "over" ELSE Hook(e, q)
  BY <1>a, HookSet DEF Hooks
<1>4. /\ conn' \in [Handles -> Connections]
      /\ \A e \in Dialers, q \in Operations :
           Conn(e, q)' = IF e = d /\ q = o /\ o = "resolve" THEN "closed" ELSE Conn(e, q)
  <2>1. CASE o = "resolve"
    BY <1>1, <2>1, ConnSet DEF Current, Connections
  <2>2. CASE o = "connect"
    BY <1>1, <2>2, ConnKept DEF TypeOK
  <2> QED
    BY <2>1, <2>2 DEF Operations
<1>5. TypeOK'
  BY <1>3, <1>4 DEF TypeOK, Targets, Labels, Operations, Children
<1>6. RouteInv'
  BY DEF RouteInv, TypeOK, Targets, Labels, Operations, Children
<1>7. HandshakeInv'
  BY <1>1, <1>2, <1>3, <1>4 DEF HandshakeInv, Pending, Untouched, TypeOK, Targets, Labels,
       Operations, Children
<1>8. TrustInv'
  BY DEF TrustInv, Authentic, Admits, TypeOK, Targets, Labels, Operations, Children
<1> QED
  BY <1>5, <1>6, <1>7, <1>8

(* A timer starts while its own operation waits. *)
LEMMA TimerFiresInv ==
  ASSUME IndInv, NEW d \in Dialers, TimerFires(d)
  PROVE  IndInv'
<1> USE DEF TimerFires, configVars, IndInv
<1>1. PICK o \in Operations :
        hook[<<d, o>>] = "armed" /\ hook' = [hook EXCEPT ![<<d, o>>] = "running"]
  OBVIOUS
<1>2. Hook(d, o) = "armed"
  BY <1>1 DEF Hook
<1>3. /\ hook' \in [Handles -> Hooks]
      /\ \A e \in Dialers, q \in Operations :
           Hook(e, q)' = IF e = d /\ q = o THEN "running" ELSE Hook(e, q)
  BY <1>1, HookSet DEF Hooks
<1>4. /\ conn' \in [Handles -> Connections]
      /\ \A e \in Dialers, q \in Operations : Conn(e, q)' = Conn(e, q)
  BY ConnKept DEF TypeOK
<1>5. TypeOK'
  BY <1>3, <1>4 DEF TypeOK, Targets, Labels, Operations, Children
<1>6. RouteInv'
  BY DEF RouteInv
<1>7. HandshakeInv'
  BY <1>2, <1>3, <1>4 DEF HandshakeInv, Pending, Untouched, TypeOK, Targets, Labels, Operations,
       Children
<1>8. TrustInv'
  BY DEF TrustInv, Authentic, Admits
<1> QED
  BY <1>5, <1>6, <1>7, <1>8

(* A timer that runs closes the connection of its own operation, which can  *)
(* then not have been handed over.                                          *)
LEMMA TimerClosesInv ==
  ASSUME IndInv, NEW d \in Dialers, TimerCloses(d)
  PROVE  IndInv'
<1> USE DEF TimerCloses, configVars, IndInv
<1>1. PICK o \in Operations :
        /\ hook[<<d, o>>] = "running" /\ hook' = [hook EXCEPT ![<<d, o>>] = "over"]
        /\ conn' = [conn EXCEPT ![<<d, o>>] = "closed"]
  OBVIOUS
<1>2. Hook(d, o) = "running"
  BY <1>1 DEF Hook
<1>3. /\ hook' \in [Handles -> Hooks]
      /\ \A e \in Dialers, q \in Operations :
           Hook(e, q)' = IF e = d /\ q = o THEN "over" ELSE Hook(e, q)
  BY <1>1, HookSet DEF Hooks
<1>4. /\ conn' \in [Handles -> Connections]
      /\ \A e \in Dialers, q \in Operations :
           Conn(e, q)' = IF e = d /\ q = o THEN "closed" ELSE Conn(e, q)
  BY <1>1, ConnSet DEF Connections
<1>5. TypeOK'
  BY <1>3, <1>4 DEF TypeOK, Targets, Labels, Operations, Children
<1>6. RouteInv'
  BY DEF RouteInv
<1>7. HandshakeInv'
  BY <1>2, <1>3, <1>4 DEF HandshakeInv, Pending, Untouched, TypeOK, Targets, Labels, Operations,
       Children
<1>8. TrustInv'
  BY DEF TrustInv, Authentic, Admits
<1> QED
  BY <1>5, <1>6, <1>7, <1>8

(* Through TLS comes only the server with the pinned key; any other ends    *)
(* the dial.                                                                *)
LEMMA HandshakeTLSInv ==
  ASSUME IndInv, NEW d \in Dialers, HandshakeTLS(d)
  PROVE  IndInv'
<1> USE DEF HandshakeTLS, Goto, configVars, IndInv
<1>1. PICK s \in Servers :
        IF Authentic(d, s)
        THEN Goto(d, "hello") /\ peer' = [peer EXCEPT ![d] = {s}] /\ UNCHANGED <<conn, hook>>
        ELSE Fail(d) /\ UNCHANGED peer
  OBVIOUS
<1>2. CASE Authentic(d, s)
  <2>1. /\ conn' \in [Handles -> Connections] /\ hook' \in [Handles -> Hooks]
        /\ \A e \in Dialers, q \in Operations :
             Conn(e, q)' = Conn(e, q) /\ Hook(e, q)' = Hook(e, q)
    BY <1>1, <1>2, ConnKept, HookKept DEF TypeOK
  <2>2. TypeOK'
    BY <1>1, <1>2, <2>1 DEF TypeOK, Targets, Labels, Operations, Children
  <2>3. RouteInv'
    BY <1>1, <1>2 DEF RouteInv, TypeOK, Targets, Labels, Operations, Children
  <2>4. HandshakeInv'
    BY <1>1, <1>2, <2>1 DEF HandshakeInv, Pending, Untouched, TypeOK, Targets, Labels,
         Operations, Children
  <2>5. Authentic(d, s)'
    BY <1>2 DEF Authentic
  <2>6. TrustInv'
    BY <1>1, <1>2, <2>5 DEF TrustInv, Authentic, Admits, TypeOK, Targets, Labels, Operations, Children
  <2> QED
    BY <2>2, <2>3, <2>4, <2>6
<1>3. CASE Fail(d) /\ UNCHANGED peer
  BY <1>3, BreaksInv DEF Breaks
<1> QED
  BY <1>1, <1>2, <1>3

(* WELCOME comes only from a server that admits the client. *)
LEMMA WelcomeInv ==
  ASSUME IndInv, NEW d \in Dialers, Welcome(d)
  PROVE  IndInv'
<1> USE DEF Welcome, Goto, configVars, IndInv
<1>1. PICK s \in peer[d] :
        IF Admits(s, d) THEN Goto(d, "ok") /\ UNCHANGED <<conn, hook>> ELSE Fail(d)
  OBVIOUS
<1>2. CASE Admits(s, d)
  <2>1. /\ conn' \in [Handles -> Connections] /\ hook' \in [Handles -> Hooks]
        /\ \A e \in Dialers, q \in Operations :
             Conn(e, q)' = Conn(e, q) /\ Hook(e, q)' = Hook(e, q)
    BY <1>1, <1>2, ConnKept, HookKept DEF TypeOK
  <2>2. TypeOK'
    BY <1>1, <1>2, <2>1 DEF TypeOK, Targets, Labels, Operations, Children
  <2>3. RouteInv'
    BY <1>1, <1>2 DEF RouteInv, TypeOK, Targets, Labels, Operations, Children
  <2>4. HandshakeInv'
    BY <1>1, <1>2, <2>1 DEF HandshakeInv, Pending, Untouched, TypeOK, Targets, Labels,
         Operations, Children
  <2>5. TrustInv'
    BY <1>1, <1>2 DEF TrustInv, Authentic, Admits, TypeOK, Targets, Labels, Operations, Children
  <2> QED
    BY <2>2, <2>3, <2>4, <2>5
<1>3. CASE Fail(d)
  BY <1>3, BreaksInv DEF Breaks
<1> QED
  BY <1>1, <1>2, <1>3

-----------------------------------------------------------------------------
(* Every step keeps the invariant. *)
LEMMA NextInv == IndInv /\ [Next]_vars => IndInv'
<1> SUFFICES ASSUME IndInv, [Next]_vars PROVE IndInv'
  OBVIOUS
<1>1. ASSUME NEW d \in Dialers, Proceed(d) PROVE IndInv'
  BY <1>1, LookUpInv, RunReturnsInv, IdentityRefusedInv, ConnectInv, StopInv, StopTooLateInv,
     HandshakeTLSInv, WelcomeInv DEF Proceed
<1>2. ASSUME NEW d \in Dialers, Answered(d) PROVE IndInv'
  BY <1>2, AnswerInv, RefusalInv, ChildInv DEF Answered
<1>3. ASSUME NEW d \in Dialers,
             \/ TimeIsUp(d) \/ ChildKilled(d) \/ PipesClosed(d) \/ TimerFires(d)
             \/ TimerCloses(d) \/ Breaks(d) \/ Register(d)
      PROVE  IndInv'
  BY <1>3, ChildInv, TimerFiresInv, TimerClosesInv, BreaksInv, RegisterInv
<1>4. ASSUME NEW a \in Addresses \cup {Direct}, SetProxy(a) PROVE IndInv'
  BY <1>4, SetProxyInv
<1>5. CASE UNCHANGED vars
  <2> USE <1>5 DEF vars, configVars
  <2>1. TypeOK'
    BY DEF IndInv, TypeOK
  <2>2. RouteInv'
    BY DEF IndInv, RouteInv
  <2>3. HandshakeInv'
    BY DEF IndInv, HandshakeInv, Pending, Untouched, Conn, Hook
  <2>4. TrustInv'
    BY DEF IndInv, TrustInv, Authentic, Admits
  <2> QED
    BY <2>1, <2>2, <2>3, <2>4 DEF IndInv
<1> QED
  BY <1>1, <1>2, <1>3, <1>4, <1>5 DEF Next

(* The invariant behind the theorems holds in every reachable state. *)
LEMMA Invariance == Spec => []IndInv
BY InitInv, NextInv, PTL DEF Spec

(* For any dialers and proxies, and however often the registry changes: a   *)
(* dialer connects only to the proxy that Registry.Resolve found at its     *)
(* lookup, or to the endpoint of its adapter.                               *)
THEOREM NeverFallsBack == Spec => []NoFallback
<1>1. IndInv => NoFallback
  BY DEF IndInv, RouteInv, NoFallback
<1> QED
  BY <1>1, Invariance, PTL

(* A stream that proxyHandshake hands to Dial is open, and the timer of the *)
(* handshake cannot close it any more.                                      *)
THEOREM StreamHandedOverOpen == Spec => []HandedOverOpen
<1>1. IndInv => HandedOverOpen
  BY DEF IndInv, HandshakeInv, Pending, Conn, Hook, Current, HandedOverOpen
<1> QED
  BY <1>1, Invariance, PTL

(* A dial that has failed leaves no open connection, one that succeeded     *)
(* leaves that of its session only, and the command of an exec adapter and  *)
(* its pipes are gone when the dial goes on (the deferred Close of proxyHandshake and of  *)
(* Dial, command.Run).                                                      *)
THEOREM DialLeaksNothing == Spec => []NothingLeaked
<1>1. ASSUME IndInv PROVE NothingLeaked
  <2>1. ASSUME NEW d \in Dialers, NEW o \in Operations
        PROVE  /\ pc[d] = "failed" => Conn(d, o) # "open"
               /\ pc[d] = "ok" /\ o = "resolve" => Conn(d, o) # "open"
               /\ pc[d] # "child" => child[d] \notin Busy
    BY <1>1 DEF IndInv, HandshakeInv, RouteInv
  <2> QED
    BY <2>1 DEF Conn, NothingLeaked
<1> QED
  BY <1>1, Invariance, PTL

(* The server of a session that Dial returns has the key that was resolved, *)
(* is a current server of the authority and allows the client               *)
(* (ClientTLSConfig, ServerTLSConfigWithClientPins).                        *)
THEOREM SessionMutuallyTrusted == Spec => []MutualTrust
<1>1. IndInv => MutualTrust
  BY DEF IndInv, TrustInv, Authentic, Admits, validateIdentity, MutualTrust
<1> QED
  BY <1>1, Invariance, PTL
===============================================================================
