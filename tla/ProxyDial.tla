------------------------------ MODULE ProxyDial ------------------------------
(***************************************************************************)
(* From an authority to a stream whose server is authenticated: the        *)
(* Registry (adapters.go), the native proxy (proxy.go) and the first half  *)
(* of Client.Dial (client.go).  Several dialers share one registry, whose  *)
(* proxy is set and removed while they work.  A proxied dial runs          *)
(* proxyHandshake twice, to resolve and to connect, each with a connection *)
(* of its own and a timer (context.AfterFunc) that closes it.              *)
(*                                                                         *)
(* The proxies and the servers are external: a proxy may answer with any   *)
(* pin, connect to any server, refuse, or not answer.                      *)
(***************************************************************************)
EXTENDS Integers

CONSTANTS
  Dialers,      \* concurrent calls of Dial, each for an authority of its own
  Addresses,    \* addresses of proxies
  Pins,         \* keys of servers
  Servers,      \* whom a stream may end at: [pin, role, name, current, allowed],
                \* where a public server allows {}
  Credentials,  \* what the dialers may have as identities: each a function to
                \* [pin, role, current], with NoPin for none
  MaxChanges    \* how often the registry is changed

Direct == "direct"
NoPin  == "none"
ASSUME DialAssumption ==
  /\ Direct \notin Addresses /\ NoPin \notin Pins /\ MaxChanges \in Nat
  /\ \A s \in Servers : s.pin \in Pins /\ s.name \in Dialers /\ s.current \in BOOLEAN
  /\ \A c \in Credentials : \A d \in Dialers : c[d].current \in BOOLEAN

VARIABLES
  credential,   \* client.Identity of each dialer
  proxy,        \* registry.proxy, or Direct
  routes,       \* registry.networks: the dialers that have an adapter
  changes,      \* how often the registry was changed
  pc, op,       \* of a dialer: where it is, and "resolve" or "connect"
  endpoint,     \* where the endpoint it resolved points: Direct or an address
  pin,          \* the pin of that endpoint
  conn, hook,   \* of a dialer and an operation: its connection and its timer
  child,        \* of a dialer: the command of its exec adapter
  peer,         \* the server at the other end of the stream, once verified
  chosen,       \* history: the proxy at the time of the lookup, or Direct
  contacts      \* history: whom a dialer has connected to

configVars == <<credential, proxy, routes, changes>>
vars == <<configVars, pc, op, endpoint, pin, conn, hook, peer, child, chosen, contacts>>

Operations == {"resolve", "connect"}
Ended == {"ok", "failed"}
Goto(d, label) == pc' = [pc EXCEPT ![d] = label]
Current(d) == <<d, op[d]>>

\* An error return: the deferred functions stop the timer and close the
\* connection of the handshake (or, in Dial, the raw connection).
Fail(d) ==
  /\ Goto(d, "failed")
  /\ conn' = [conn EXCEPT ![Current(d)] = IF @ = "open" THEN "closed" ELSE @]
  /\ hook' = [hook EXCEPT ![Current(d)] = IF @ = "armed" THEN "over" ELSE @]

-----------------------------------------------------------------------------
(* Registry *)

\* Register refuses a network that has an adapter.
Register(d) ==
  /\ changes < MaxChanges /\ d \notin routes
  /\ routes' = routes \cup {d}
  /\ changes' = changes + 1
  /\ UNCHANGED <<credential, proxy, pc, op, endpoint, pin, conn, hook, peer, child, chosen, contacts>>

SetProxy(a) ==
  /\ changes < MaxChanges /\ a # proxy
  /\ proxy' = a
  /\ changes' = changes + 1
  /\ UNCHANGED <<credential, routes, pc, op, endpoint, pin, conn, hook, peer, child, chosen, contacts>>

\* An adapter names an endpoint: a server's address (transport tcp), or a
\* proxy's and an authority (transport deep-proxy); and the server's pin.
Named(d) ==
  \E p \in Pins, a \in Addresses \cup {Direct} :
    pin' = [pin EXCEPT ![d] = p] /\ endpoint' = [endpoint EXCEPT ![d] = a]

\* Registry.Resolve: under the read lock a proxy comes before any adapter; a
\* static adapter knows the endpoint, an exec adapter starts its command.  Or
\* there is no adapter, no such authority, or no dialer for the transport.
LookUp(d) ==
  /\ pc[d] = "lookup"
  /\ chosen' = [chosen EXCEPT ![d] = proxy]
  /\ \/ /\ proxy # Direct
        /\ op' = [op EXCEPT ![d] = "resolve"]
        /\ endpoint' = [endpoint EXCEPT ![d] = proxy]
        /\ Goto(d, "dial") /\ UNCHANGED <<pin, child>>
     \/ /\ proxy = Direct /\ d \in routes
        /\ Named(d)
        /\ Goto(d, "dial") /\ UNCHANGED <<op, child>>
     \/ /\ proxy = Direct /\ d \in routes
        /\ child' = [child EXCEPT ![d] = "running"]
        /\ Goto(d, "child") /\ UNCHANGED <<op, endpoint, pin>>
     \/ /\ proxy = Direct
        /\ Goto(d, "failed") /\ UNCHANGED <<op, endpoint, pin, child>>
  /\ UNCHANGED <<configVars, conn, hook, peer, contacts>>

-----------------------------------------------------------------------------
(* ExecAdapter.Resolve: the command is "running", "overdue" once its time   *)
(* is up, and "held" when the process has ended but one of its own still    *)
(* has its output open; it has "answered" with an endpoint or is "useless". *)

Child(d, from, to) ==
  /\ child[d] \in from
  /\ \E c \in to : child' = [child EXCEPT ![d] = c]
  /\ UNCHANGED <<configVars, pc, op, endpoint, pin, conn, hook, peer, chosen, contacts>>

\* The process ends by itself: useless with a status or too much output.
ChildExits(d) == Child(d, {"running", "overdue"}, {"answered", "useless", "held"})

\* The context is done ...
TimeIsUp(d) == Child(d, {"running"}, {"overdue"})

\* ... and exec.CommandContext kills the process.
ChildKilled(d) == Child(d, {"overdue"}, {"useless", "held"})

\* WaitDelay has passed: Run closes the pipes, and returns an error.
PipesClosed(d) == Child(d, {"held"}, {"useless"})

Busy == {"running", "overdue", "held"}

\* command.Run has waited for the process and its output; the endpoint is used
\* unless the context of the dial has ended meanwhile.
RunReturns(d) ==
  /\ pc[d] = "child" /\ child[d] \notin Busy
  /\ \/ child[d] = "answered" /\ Named(d) /\ Goto(d, "dial")
     \/ Goto(d, "failed") /\ UNCHANGED <<endpoint, pin>>
  /\ UNCHANGED <<configVars, op, conn, hook, peer, child, chosen, contacts>>

-----------------------------------------------------------------------------
(* proxyHandshake *)

\* As Reaches, but with the proxy of the moment.
ReachesCurrent(d) == proxy

\* The address a dialer connects to: the endpoint holds it since the lookup.
Reaches(d) == endpoint[d]

\* validateIdentity: a current certificate for that role.
validateIdentity(c, role) == c.role = role /\ c.current

\* ValidateClientIdentity, once the server is known and before it is dialled.
Presentable(d) ==
  op[d] = "connect" /\ credential[d].pin # NoPin => validateIdentity(credential[d], "client")

IdentityRefused(d) ==
  /\ pc[d] = "dial" /\ ~ Presentable(d)
  /\ Fail(d)
  /\ UNCHANGED <<configVars, op, endpoint, pin, peer, child, chosen, contacts>>

\* A connection is opened: to a proxy, with its timer, or straight to a server.
Connect(d) ==
  /\ pc[d] = "dial" /\ Presentable(d)
  /\ contacts' = [contacts EXCEPT ![d] = @ \cup {Reaches(d)}]
  /\ conn' = [conn EXCEPT ![Current(d)] = "open"]
  /\ \/ /\ endpoint[d] # Direct
        /\ hook' = [hook EXCEPT ![Current(d)] = "armed"]
        /\ Goto(d, "ask")
     \/ endpoint[d] = Direct /\ Goto(d, "tls") /\ UNCHANGED hook
  /\ UNCHANGED <<configVars, op, endpoint, pin, peer, child, chosen>>

\* The proxy's answer is read from the open connection and is acceptable: it
\* names the pin, and names it again when it has connected (DialProxy then
\* drops the answer).
Answer(d) ==
  /\ pc[d] = "ask" /\ conn[Current(d)] = "open"
  /\ \E p \in Pins :
       \/ op[d] = "resolve" /\ pin' = [pin EXCEPT ![d] = p]
       \/ op[d] = "connect" /\ p = pin[d] /\ UNCHANGED pin
  /\ Goto(d, "stop")
  /\ UNCHANGED <<configVars, op, endpoint, conn, hook, peer, child, chosen, contacts>>

\* The proxy refuses or answers with something else, another pin included.
Refusal(d) ==
  /\ pc[d] = "ask" /\ conn[Current(d)] = "open"
  /\ Fail(d)
  /\ UNCHANGED <<configVars, op, endpoint, pin, peer, child, chosen, contacts>>

\* As Stop, but the result of stop() is ignored.
StopRegardless(d) ==
  /\ pc[d] = "stop"
  /\ hook' = [hook EXCEPT ![Current(d)] = IF @ = "armed" THEN "over" ELSE @]
  /\ \/ /\ op[d] = "resolve"
        /\ conn' = [conn EXCEPT ![Current(d)] = "closed"]
        /\ op' = [op EXCEPT ![d] = "connect"]
        /\ Goto(d, "dial")
     \/ /\ op[d] = "connect"
        /\ Goto(d, "tls") /\ UNCHANGED <<conn, op>>
  /\ UNCHANGED <<configVars, endpoint, pin, peer, child, chosen, contacts>>

\* As Stop, but Resolve does not close the connection of its handshake.
StopKeepingConnection(d) ==
  /\ pc[d] = "stop" /\ hook[Current(d)] = "armed"
  /\ hook' = [hook EXCEPT ![Current(d)] = "over"]
  /\ \/ op[d] = "resolve" /\ op' = [op EXCEPT ![d] = "connect"] /\ Goto(d, "dial")
     \/ op[d] = "connect" /\ Goto(d, "tls") /\ UNCHANGED op
  /\ UNCHANGED <<configVars, endpoint, pin, conn, peer, child, chosen, contacts>>

\* stop() withdraws the timer in time, and the handshake succeeds: Resolve
\* closes the connection and Dial goes on to connect, or the stream is Dial's.
Stop(d) ==
  /\ pc[d] = "stop" /\ hook[Current(d)] = "armed"
  /\ hook' = [hook EXCEPT ![Current(d)] = "over"]
  /\ \/ /\ op[d] = "resolve"
        /\ conn' = [conn EXCEPT ![Current(d)] = "closed"]
        /\ op' = [op EXCEPT ![d] = "connect"]
        /\ Goto(d, "dial")
     \/ /\ op[d] = "connect"
        /\ Goto(d, "tls") /\ UNCHANGED <<conn, op>>
  /\ UNCHANGED <<configVars, endpoint, pin, peer, child, chosen, contacts>>

\* stop() comes too late: the function has started, and the handshake fails.
StopTooLate(d) ==
  /\ pc[d] = "stop" /\ hook[Current(d)] # "armed"
  /\ Fail(d)
  /\ UNCHANGED <<configVars, op, endpoint, pin, peer, child, chosen, contacts>>

\* Faulty variant: the handshake does not watch its context.
TimerNeverFires(d) == FALSE /\ UNCHANGED vars

\* The timer's function starts when the context is done ...
TimerFires(d) ==
  /\ \E o \in Operations :
       /\ hook[<<d, o>>] = "armed"
       /\ hook' = [hook EXCEPT ![<<d, o>>] = "running"]
  /\ UNCHANGED <<configVars, pc, op, endpoint, pin, conn, peer, child, chosen, contacts>>

\* ... and closes the connection, in a goroutine of its own.
TimerCloses(d) ==
  /\ \E o \in Operations :
       /\ hook[<<d, o>>] = "running"
       /\ hook' = [hook EXCEPT ![<<d, o>>] = "over"]
       /\ conn' = [conn EXCEPT ![<<d, o>>] = "closed"]
  /\ UNCHANGED <<configVars, pc, op, endpoint, pin, peer, child, chosen, contacts>>

\* A read or write on a closed connection, a deadline, the end of the caller's
\* context, or a failed connect.
Breaks(d) ==
  /\ pc[d] \in {"dial", "ask", "stop", "tls", "hello"}
  /\ Fail(d)
  /\ UNCHANGED <<configVars, op, endpoint, pin, peer, child, chosen, contacts>>

-----------------------------------------------------------------------------
(* Client.Dial: the TLS handshake.  Each side verifies the other in a       *)
(* callback; with TLS 1.3 the client is through before the server has seen  *)
(* the client's certificate.                                                *)

\* ClientTLSConfig: the pinned key, in a server's certificate for the authority.
Authentic(d, s) == s.pin = pin[d] /\ validateIdentity(s, "server") /\ s.name = d

\* A private server wants a client's certificate, and one it allows.
Allows(s, c) == s.allowed # {} => c.pin \in s.allowed /\ validateIdentity(c, "client")

\* ServerTLSConfig and ServerTLSConfigWithClientPins: the server finds its own
\* certificate fit for the name it was asked for, and the client's allowed.
Admits(s, d) == validateIdentity(s, "server") /\ s.name = d /\ Allows(s, credential[d])

HandshakeTLS(d) ==
  /\ pc[d] = "tls" /\ conn[Current(d)] = "open"
  /\ \E s \in Servers :
       IF Authentic(d, s)
       THEN Goto(d, "hello") /\ peer' = [peer EXCEPT ![d] = {s}] /\ UNCHANGED <<conn, hook>>
       ELSE Fail(d) /\ UNCHANGED peer
  /\ UNCHANGED <<configVars, op, endpoint, pin, child, chosen, contacts>>

\* Faulty variant: Dial returns as soon as its own handshake is complete.
SkipWelcome(d) ==
  /\ pc[d] = "hello" /\ conn[Current(d)] = "open"
  /\ Goto(d, "ok")
  /\ UNCHANGED <<configVars, op, endpoint, pin, conn, hook, peer, child, chosen, contacts>>

\* HELLO is answered by WELCOME, or by the alert of a server that refused.
Welcome(d) ==
  /\ pc[d] = "hello" /\ conn[Current(d)] = "open"
  /\ \E s \in peer[d] :
       IF Admits(s, d) THEN Goto(d, "ok") /\ UNCHANGED <<conn, hook>> ELSE Fail(d)
  /\ UNCHANGED <<configVars, op, endpoint, pin, peer, child, chosen, contacts>>

-----------------------------------------------------------------------------
Init ==
  /\ credential \in Credentials
  /\ proxy \in Addresses \cup {Direct}
  /\ routes \in SUBSET Dialers /\ changes = 0
  /\ pc = [d \in Dialers |-> "lookup"]
  /\ op = [d \in Dialers |-> "connect"]
  /\ endpoint = [d \in Dialers |-> Direct]
  /\ pin = [d \in Dialers |-> NoPin] /\ peer = [d \in Dialers |-> {}]
  /\ conn = [h \in Dialers \X Operations |-> "none"]
  /\ hook = [h \in Dialers \X Operations |-> "none"]
  /\ child = [d \in Dialers |-> "none"]
  /\ chosen = [d \in Dialers |-> Direct]
  /\ contacts = [d \in Dialers |-> {}]

\* The goroutine of dialer d runs.
Proceed(d) ==
  LookUp(d) \/ RunReturns(d) \/ IdentityRefused(d) \/ Connect(d) \/ Stop(d) \/ StopTooLate(d)
  \/ HandshakeTLS(d) \/ Welcome(d)

\* What comes from outside: the proxy or the command answers.
Answered(d) == Answer(d) \/ Refusal(d) \/ ChildExits(d)

Next ==
  \/ \E d \in Dialers :
       \/ Proceed(d) \/ Answered(d) \/ TimeIsUp(d) \/ ChildKilled(d) \/ PipesClosed(d)
       \/ TimerFires(d) \/ TimerCloses(d)
       \/ Breaks(d) \/ Register(d)
  \/ \E a \in Addresses \cup {Direct} : SetProxy(a)

Spec == Init /\ [][Next]_vars

(* Goroutines run, timers fire, processes can be killed, and a read from a  *)
(* closed connection fails.  Neither the proxy nor the command of an exec   *)
(* adapter need ever answer, nor its output end.  (That the server takes part in the TLS        *)
(* handshake is assumed here; module Session has the timer that ends it.)   *)
FairSpec ==
  /\ Spec
  /\ \A d \in Dialers :
       /\ WF_vars(Proceed(d)) /\ WF_vars(TimerFires(d)) /\ WF_vars(TimerCloses(d))
       /\ WF_vars(TimeIsUp(d)) /\ WF_vars(ChildKilled(d)) /\ WF_vars(PipesClosed(d))
       /\ WF_vars(Breaks(d) /\ conn[Current(d)] = "closed")

-----------------------------------------------------------------------------
(* Properties *)

(* "Proxy errors never fall back to direct adapters": a dialer that found a *)
(* proxy at its lookup connects to that proxy alone, however it fails and   *)
(* however often the setting changes meanwhile; resolution and connection   *)
(* never go through two proxies.  One that found none connects to the       *)
(* endpoint of its adapter alone.                                           *)
NoFallback ==
  \A d \in Dialers :
    contacts[d] \subseteq {endpoint[d]} /\ (chosen[d] # Direct => contacts[d] \subseteq {chosen[d]})

(* A stream that the proxy handshake hands over is open and stays open: the *)
(* timer of the handshake cannot close it any more.  (Compare               *)
(* ReusableAfterSuccess of module Session.)                                 *)
HandedOverOpen ==
  \A d \in Dialers :
    pc[d] \in {"tls", "hello", "ok"} =>
      conn[Current(d)] = "open" /\ hook[Current(d)] \notin {"armed", "running"}

(* A dial that ended has closed every connection it opened, but for the one *)
(* of the session it returns, and no dial leaves a process or the pipes of  *)
(* its output behind when it goes on from its exec adapter.                 *)
NothingLeaked ==
  \A d \in Dialers, o \in Operations :
    /\ pc[d] = "failed" => conn[<<d, o>>] # "open"
    /\ pc[d] = "ok" /\ o = "resolve" => conn[<<d, o>>] # "open"
    /\ pc[d] # "child" => child[d] \notin Busy

(* A session that Dial returns is trusted by both sides: the server has the *)
(* key that was resolved, whichever server the proxy connected the stream   *)
(* to, and is a current server of that authority; and it allows this        *)
(* client, although the client's part of the handshake ends before the      *)
(* server decides.                                                          *)
MutualTrust ==
  \A d \in Dialers :
    pc[d] = "ok" => \E s \in peer[d] :
      /\ s.pin = pin[d] /\ s.role = "server" /\ s.name = d /\ s.current
      /\ Allows(s, credential[d])

(* Dial returns even if the proxy accepts the connection and never answers, *)
(* or the command of an exec adapter never ends, or is killed and leaves a  *)
(* process that keeps its output open.                                      *)
DialEnds == \A d \in Dialers : <>(pc[d] \in Ended)
=============================================================================
