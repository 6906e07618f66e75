------------------------------ MODULE Admission ------------------------------
(***************************************************************************)
(* Connection admission and request rate limiting of a DEEP server:        *)
(* limits.go (the per-peer budgets) and the accept loop and the session    *)
(* worker of server.go, as far as they touch those budgets.                *)
(*                                                                         *)
(* One accept goroutine admits connections; every admitted connection has  *)
(* a worker goroutine.  They share the peerLimiter, whose methods run      *)
(* under one mutex and are therefore atomic steps, and the buffered        *)
(* channel "capacity".  The time a limiter method is given is read BEFORE  *)
(* its mutex is taken, in a step of its own, so it may be stale when used. *)
(***************************************************************************)
EXTENDS Integers, FiniteSets

CONSTANTS
  Conns,                   \* connection slots; a closed slot may be dialled again
  Peers,                   \* peer keys (the results of peerKey)
  PeerOf,                  \* the peer a connection comes from
  MaxConnectionsPerPeer,   \* peerLimiter.maximum
  MaxConnections,          \* cap(capacity)
  ConnectionsPerMinute,    \* maxConnectionsPerPeerMinute
  RequestsPerMinute,       \* peerLimiter.requests
  MaxRequestsPerSession,
  MaxTrackedPeers,
  Minute, Second,          \* the two durations limits.go compares with
  MaxTime                  \* bound of the clock

ASSUME ConnsAssumption == IsFiniteSet(Conns)
ASSUME PeersAssumption == IsFiniteSet(Peers) /\ PeerOf \in [Conns -> Peers]
ASSUME LimitsAssumption ==
  /\ MaxConnectionsPerPeer \in Nat \ {0}
  /\ MaxConnections \in Nat \ {0}
  /\ ConnectionsPerMinute \in Nat \ {0}
  /\ RequestsPerMinute \in Nat \ {0}
  /\ MaxRequestsPerSession \in Nat \ {0}
  /\ MaxTrackedPeers \in Nat \ {0}
ASSUME TimeAssumption ==
  /\ Minute \in Nat \ {0} /\ Second \in Nat \ {0} /\ Second <= Minute
  /\ MaxTime \in Nat

VARIABLES
  pc,         \* where the goroutine that owns each connection is
  at,         \* the time that goroutine read for its next limiter call
  count,      \* requestCount of each session
  capacity,   \* len(capacity)
  tracked,    \* the keys of peerLimiter.peers
  budget,     \* the peerBudget of every tracked peer
  lastPrune,
  now,        \* the clock
  serve,      \* Serve is accepting, waiting for its workers, or has returned
  cancelled,  \* the context of Serve is done
  listening,  \* the listener is open
  ledger      \* history: what was granted to each peer, kept apart from budget

connVars    == <<pc, at, count>>
limiterVars == <<tracked, budget, lastPrune>>
serveVars   == <<serve, cancelled, listening>>
vars == <<connVars, capacity, limiterVars, now, serveVars, ledger>>

-----------------------------------------------------------------------------
(* Where a connection is. The first three belong to the accept goroutine.  *)
AcceptStates  == {"accepted", "admitted", "refused"}
SlotStates    == {"session", "requesting", "transferring", "unwinding"}
WorkerStates  == SlotStates \cup {"freed"}
BudgetStates  == {"admitted", "refused"} \cup WorkerStates
States        == {"idle"} \cup AcceptStates \cup WorkerStates

\* Connections that acquire has admitted and release has not given back.
HoldsBudget(c) == pc[c] \in BudgetStates
\* Connections that have an element in the capacity channel.
HoldsSlot(c)   == pc[c] \in SlotStates

LiveOf(p) == {c \in Conns : PeerOf[c] = p /\ HoldsBudget(c)}
InSlots   == {c \in Conns : HoldsSlot(c)}

AcceptorIdle == \A c \in Conns : pc[c] \notin AcceptStates

Budgets == [active : Nat, window : Int, connections : Nat, requests : Nat]
Ledgers == [window : Int, connections : Nat, requests : Nat]

\* The zero time.Time of a limiter that never pruned is long before any clock.
Never     == 0 - Second
NoBudget  == [active |-> 0, window |-> 0, connections |-> 0, requests |-> 0]
NewBudget(t) == [active |-> 0, window |-> t, connections |-> 0, requests |-> 0]
NoLedger  == [window |-> Never - Minute, connections |-> 0, requests |-> 0]

-----------------------------------------------------------------------------
(* limits.go *)

\* Faulty variant: compares calendar minutes instead of the elapsed time.
ExpiredByCalendar(window, t) == t \div Minute # window \div Minute

Expired(window, t) == t - window >= Minute

\* Faulty variant: starts a new window and keeps the connection count.
ResetRequestsOnly(b, t) ==
  IF Expired(b.window, t) THEN [b EXCEPT !.window = t, !.requests = 0] ELSE b

ResetBudget(b, t) ==
  IF Expired(b.window, t)
    THEN [active |-> b.active, window |-> t, connections |-> 0, requests |-> 0]
    ELSE b

\* Faulty variants: a prune that forgets one of its two conditions.
EvictExpired(t)  == {q \in tracked : Expired(budget[q].window, t)}
EvictInactive(t) == {q \in tracked : budget[q].active = 0}

\* Entries that a prune at time t may delete.
Evictable(t) == {q \in tracked : budget[q].active = 0 /\ Expired(budget[q].window, t)}

TableFull == Cardinality(tracked) >= MaxTrackedPeers

Prunes(p, t) == p \notin tracked /\ TableFull /\ t - lastPrune >= Second

\* The tracked peers after acquire(p, t) has pruned, if it prunes.
Kept(p, t) == IF Prunes(p, t) THEN tracked \ Evictable(t) ELSE tracked

\* acquire finds the entry of p or has room for a new one.
HasRoom(p, t) == p \in tracked \/ Cardinality(Kept(p, t)) < MaxTrackedPeers

\* The entry acquire decides on, and its decision.
EntryOf(p, t) == IF p \in tracked THEN ResetBudget(budget[p], t) ELSE NewBudget(t)

Admits(p, t) ==
  /\ HasRoom(p, t)
  /\ EntryOf(p, t).active < MaxConnectionsPerPeer
  /\ EntryOf(p, t).connections < ConnectionsPerMinute

WithConnection(b) ==
  [active |-> b.active + 1, window |-> b.window,
   connections |-> b.connections + 1, requests |-> b.requests]

\* The table after acquire(p, t), with b as the entry of p if it has one.
StoreEntry(p, t, b) ==
  /\ tracked' = IF HasRoom(p, t) THEN Kept(p, t) \cup {p} ELSE Kept(p, t)
  /\ budget' = [q \in Peers |->
                  IF q = p /\ HasRoom(p, t) THEN b
                  ELSE IF q \in Kept(p, t) THEN budget[q] ELSE NoBudget]
  /\ lastPrune' = IF Prunes(p, t) THEN t ELSE lastPrune

\* History: a grant charged to the minute that starts at w.  The ledger opens
\* a new minute only when the old one is over, whatever the limiter thinks.
LedgerAt(p, w) ==
  IF w - ledger[p].window >= Minute
    THEN [window |-> w, connections |-> 0, requests |-> 0]
    ELSE ledger[p]

AcquireGrant(c) ==
  LET p == PeerOf[c]
      b == EntryOf(p, at[c])
  IN  /\ pc[c] = "accepted"
      /\ Admits(p, at[c])
      /\ StoreEntry(p, at[c], WithConnection(b))
      /\ ledger' = [ledger EXCEPT ![p] =
                      [LedgerAt(p, b.window) EXCEPT !.connections = @ + 1]]
      /\ pc' = [pc EXCEPT ![c] = "admitted"]
      /\ UNCHANGED <<at, count, capacity, now, serveVars>>

\* acquire returns false (having pruned, created or reset what it did on the
\* way) and Serve closes the connection.
AcquireRefuse(c) ==
  LET p == PeerOf[c]
  IN  /\ pc[c] = "accepted"
      /\ ~ Admits(p, at[c])
      /\ StoreEntry(p, at[c], EntryOf(p, at[c]))
      /\ pc' = [pc EXCEPT ![c] = "idle"]
      /\ UNCHANGED <<at, count, capacity, now, serveVars, ledger>>

\* Faulty variant: the accept loop closes a refused connection only.
ReleaseByWorkersOnly(c) ==
  /\ pc[c] \in {"refused", "freed"}
  /\ budget' = IF pc[c] = "freed" THEN [budget EXCEPT ![PeerOf[c]].active = @ - 1] ELSE budget
  /\ pc' = [pc EXCEPT ![c] = "idle"]
  /\ UNCHANGED <<at, count, capacity, tracked, lastPrune, now, serveVars, ledger>>

\* release: by the accept loop when the server is full, by a worker at its end.
Release(c) ==
  LET p == PeerOf[c]
  IN  /\ pc[c] \in {"refused", "freed"}
      /\ budget' = IF p \in tracked /\ budget[p].active > 0
                     THEN [budget EXCEPT ![p].active = @ - 1]
                     ELSE budget
      /\ pc' = [pc EXCEPT ![c] = "idle"]
      /\ UNCHANGED <<at, count, capacity, tracked, lastPrune, now, serveVars, ledger>>

\* allowRequest, granted: the request counts for the peer and for the session.
AllowRequest(c) ==
  LET p == PeerOf[c]
      b == ResetBudget(budget[p], at[c])
  IN  /\ pc[c] = "requesting"
      /\ p \in tracked
      /\ b.requests < RequestsPerMinute
      /\ budget' = [budget EXCEPT ![p] = [b EXCEPT !.requests = @ + 1]]
      /\ ledger' = [ledger EXCEPT ![p] =
                      [LedgerAt(p, b.window) EXCEPT !.requests = @ + 1]]
      /\ count' = [count EXCEPT ![c] = @ + 1]
      /\ pc' = [pc EXCEPT ![c] = "transferring"]
      /\ UNCHANGED <<at, capacity, tracked, lastPrune, now, serveVars>>

\* allowRequest, refused: RATE_LIMITED is sent and the session ends.
RateLimited(c) ==
  LET p == PeerOf[c]
      b == ResetBudget(budget[p], at[c])
  IN  /\ pc[c] = "requesting"
      /\ p \notin tracked \/ b.requests >= RequestsPerMinute
      /\ budget' = IF p \in tracked THEN [budget EXCEPT ![p] = b] ELSE budget
      /\ pc' = [pc EXCEPT ![c] = "unwinding"]
      /\ UNCHANGED <<at, count, capacity, tracked, lastPrune, now, serveVars, ledger>>

-----------------------------------------------------------------------------
(* server.go: the accept loop *)

\* Accept returns a connection and Serve reads the clock for acquire.
Accept(c) ==
  /\ serve = "running" /\ listening /\ AcceptorIdle
  /\ pc[c] = "idle"
  /\ pc' = [pc EXCEPT ![c] = "accepted"]
  /\ at' = [at EXCEPT ![c] = now]
  /\ UNCHANGED <<count, capacity, limiterVars, now, serveVars, ledger>>

\* Faulty variant: the worker starts without waiting for a slot.
StartUnlimited(c) ==
  /\ pc[c] = "admitted"
  /\ capacity' = capacity + 1
  /\ pc' = [pc EXCEPT ![c] = "session"]
  /\ count' = [count EXCEPT ![c] = 0]
  /\ UNCHANGED <<at, limiterVars, now, serveVars, ledger>>

StartWorker(c) ==
  /\ pc[c] = "admitted" /\ capacity < MaxConnections
  /\ capacity' = capacity + 1
  /\ pc' = [pc EXCEPT ![c] = "session"]
  /\ count' = [count EXCEPT ![c] = 0]
  /\ UNCHANGED <<at, limiterVars, now, serveVars, ledger>>

\* The default case of the select: no slot; release and close follow.
NoCapacity(c) ==
  /\ pc[c] = "admitted" /\ capacity >= MaxConnections
  /\ pc' = [pc EXCEPT ![c] = "refused"]
  /\ UNCHANGED <<at, count, capacity, limiterVars, now, serveVars, ledger>>

-----------------------------------------------------------------------------
(* server.go: a session worker *)

\* A valid REQUEST arrives within the session limit; the clock is read.
BeginRequest(c) ==
  /\ pc[c] = "session" /\ count[c] < MaxRequestsPerSession
  /\ pc' = [pc EXCEPT ![c] = "requesting"]
  /\ at' = [at EXCEPT ![c] = now]
  /\ UNCHANGED <<count, capacity, limiterVars, now, serveVars, ledger>>

FinishTransfer(c) ==
  /\ pc[c] = "transferring"
  /\ pc' = [pc EXCEPT ![c] = "session"]
  /\ UNCHANGED <<at, count, capacity, limiterVars, now, serveVars, ledger>>

\* serveConnection returns: CLOSE, SESSION_LIMIT, an error of the peer, the
\* network or the handler, one of the timeouts, or the cancelled context.
EndSession(c) ==
  /\ pc[c] \in {"session", "transferring"}
  /\ pc' = [pc EXCEPT ![c] = "unwinding"]
  /\ UNCHANGED <<at, count, capacity, limiterVars, now, serveVars, ledger>>

FreeCapacity(c) ==
  /\ pc[c] = "unwinding"
  /\ capacity' = capacity - 1
  /\ pc' = [pc EXCEPT ![c] = "freed"]
  /\ UNCHANGED <<at, count, limiterVars, now, serveVars, ledger>>

-----------------------------------------------------------------------------
(* server.go: the life of Serve *)

\* The caller cancels the context.
Cancel ==
  /\ ~ cancelled
  /\ cancelled' = TRUE
  /\ UNCHANGED <<connVars, capacity, limiterVars, now, serve, listening, ledger>>

\* Faulty variant: nothing closes the listener of a cancelled context.
ListenerStaysOpen == FALSE /\ UNCHANGED vars

\* The AfterFunc of the context closes the listener.
CloseListener ==
  /\ cancelled /\ listening
  /\ listening' = FALSE
  /\ UNCHANGED <<connVars, capacity, limiterVars, now, serve, cancelled, ledger>>

\* Accept fails, because the listener was closed or by an error of its own;
\* the deferred function cancels the context and closes the listener.
AcceptFails ==
  /\ serve = "running" /\ AcceptorIdle
  /\ serve' = "waiting" /\ cancelled' = TRUE /\ listening' = FALSE
  /\ UNCHANGED <<connVars, capacity, limiterVars, now, ledger>>

\* workers.Wait returns, and Serve with it.
ServeReturns ==
  /\ serve = "waiting"
  /\ \A c \in Conns : pc[c] \notin WorkerStates
  /\ serve' = "returned"
  /\ UNCHANGED <<connVars, capacity, limiterVars, now, cancelled, listening, ledger>>

Tick ==
  /\ now < MaxTime
  /\ now' = now + 1
  /\ UNCHANGED <<connVars, capacity, limiterVars, serveVars, ledger>>

\* Nothing of Serve is left once it has returned.
Terminated == serve = "returned" /\ UNCHANGED vars

-----------------------------------------------------------------------------
Init ==
  /\ pc = [c \in Conns |-> "idle"]
  /\ at = [c \in Conns |-> 0]
  /\ count = [c \in Conns |-> 0]
  /\ capacity = 0
  /\ tracked = {}
  /\ budget = [p \in Peers |-> NoBudget]
  /\ lastPrune = Never
  /\ now = 0
  /\ serve = "running" /\ cancelled = FALSE /\ listening = TRUE
  /\ ledger = [p \in Peers |-> NoLedger]

AcceptorStep(c) == AcquireGrant(c) \/ AcquireRefuse(c) \/ StartWorker(c) \/ NoCapacity(c)
WorkerStep(c)   == AllowRequest(c) \/ RateLimited(c) \/ FreeCapacity(c)

Next ==
  \/ \E c \in Conns :
       \/ Accept(c) \/ AcceptorStep(c) \/ Release(c)
       \/ BeginRequest(c) \/ WorkerStep(c) \/ FinishTransfer(c) \/ EndSession(c)
  \/ Cancel \/ CloseListener \/ AcceptFails \/ ServeReturns
  \/ Tick \/ Terminated

Spec == Init /\ [][Next]_vars

\* What the goroutine that owns connection c does by itself.
Runs(c) == AcceptorStep(c) \/ WorkerStep(c) \/ Release(c) \/ (cancelled /\ EndSession(c))

(* Goroutines that can run do run.  A session ends on its own only when the *)
(* context is done: that closes its connection, so its next read or write   *)
(* fails.  Nobody has to cancel, to dial or to send a request.              *)
Fairness ==
  /\ \A c \in Conns : WF_vars(Runs(c))
  /\ WF_vars(CloseListener)
  /\ WF_vars((~ listening /\ AcceptFails) \/ ServeReturns)

FairSpec == Spec /\ Fairness

-----------------------------------------------------------------------------
(* Properties *)

(* The variables have their types; in particular no counter goes negative. *)
TypeOK ==
  /\ pc \in [Conns -> States]
  /\ at \in [Conns -> Nat]
  /\ count \in [Conns -> 0 .. MaxRequestsPerSession]
  /\ capacity \in Nat
  /\ tracked \subseteq Peers
  /\ budget \in [Peers -> Budgets]
  /\ lastPrune \in Int
  /\ now \in 0 .. MaxTime
  /\ serve \in {"running", "waiting", "returned"}
  /\ cancelled \in BOOLEAN /\ listening \in BOOLEAN
  /\ ledger \in [Peers -> Ledgers]

(* The budget of a peer counts exactly its connections between acquire and *)
(* release, on every path through the accept loop and the worker: nothing  *)
(* leaks when the server is full, and nothing is given back twice.         *)
BudgetMatchesConnections ==
  \A p \in Peers : budget[p].active = Cardinality(LiveOf(p))

(* No peer has more than MaxConnectionsPerPeer connections admitted, and   *)
(* the server never runs more than MaxConnections workers, counting the    *)
(* goroutines themselves and not the counters that limit them.             *)
ConnectionLimits ==
  /\ \A p \in Peers : Cardinality(LiveOf(p)) <= MaxConnectionsPerPeer
  /\ Cardinality(InSlots) <= MaxConnections

(* "The map is bounded and evicts only inactive, expired entries": a peer  *)
(* with an admitted connection keeps its entry, so that allowRequest and   *)
(* release always find it, and there are at most MaxTrackedPeers entries.  *)
LivePeersTracked ==
  /\ \A c \in Conns : HoldsBudget(c) => PeerOf[c] \in tracked
  /\ Cardinality(tracked) <= MaxTrackedPeers

(* "Reconnecting does not reset rate limits": in the minutes the ledger    *)
(* separates, no peer is ever granted more connections or requests than    *)
(* the limits, over all its sessions and however its entry was evicted,    *)
(* recreated and reset with stale clock values in between.                 *)
RateLimitsHold ==
  \A p \in Peers : /\ ledger[p].connections <= ConnectionsPerMinute
                   /\ ledger[p].requests <= RequestsPerMinute

(* "Canceling ctx closes the listener and all its connections before       *)
(* returning": when Serve has returned no goroutine of it holds anything.  *)
ReturnedMeansDrained ==
  serve = "returned" =>
    /\ ~ listening
    /\ capacity = 0
    /\ \A c \in Conns : pc[c] = "idle"
    /\ \A p \in Peers : budget[p].active = 0

(* A window is only ever replaced by one that starts at least a minute     *)
(* later: a worker that read the clock before another goroutine reset the  *)
(* budget can neither move the window back nor reset it again.             *)
WindowStep ==
  \A p \in tracked \cap tracked' :
    budget'[p].window # budget[p].window =>
      budget'[p].window >= budget[p].window + Minute
WindowsAdvance == [][WindowStep]_vars

(* A connection refused by acquire is refused for one of the documented    *)
(* reasons, judged by the connections and grants themselves: the peer has  *)
(* its maximum of live connections, or used up its connections of the      *)
(* current minute, or it is new while the table is full and could not be   *)
(* pruned (pruned less than a second ago, or nothing is evictable).        *)
RefusalStep ==
  \A c \in Conns :
    LET p == PeerOf[c]
    IN  pc[c] = "accepted" /\ pc'[c] = "idle" =>
          \/ Cardinality(LiveOf(p)) >= MaxConnectionsPerPeer
          \/ /\ ledger[p].connections >= ConnectionsPerMinute
             /\ at[c] - ledger[p].window < Minute
          \/ /\ p \notin tracked /\ TableFull
             /\ at[c] - lastPrune < Second \/ Evictable(at[c]) = {}
RefusalsJustified == [][RefusalStep]_vars

(* The server's connections as the policy sees them. *)
Live == {c \in Conns : HoldsBudget(c)}
Policy == INSTANCE ConnectionPolicy
            WITH live <- Live, served <- InSlots, open <- serve # "returned"

(* The accept loop, the limiter and the workers together implement the     *)
(* connection policy: every step of theirs is one of its steps or none.    *)
ImplementsPolicy == Policy!PolicySpec

(* Once the context is done Serve returns, whatever its connections were   *)
(* doing: no worker, slot or budget is waited for for ever.                *)
CancelReturns == cancelled ~> serve = "returned"
=============================================================================
