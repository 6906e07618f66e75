--------------------------- MODULE AdmissionProofs ---------------------------
(***************************************************************************)
(* Proofs about Admission, for every set of connections and peers and      *)
(* every value of the limits.                                              *)
(***************************************************************************)
EXTENDS Admission, FiniteSetTheorems, TLAPS

-----------------------------------------------------------------------------
(* The inductive invariant *)

\* One connection at a time is in the hands of the accept goroutine.
OneAccepting ==
  \A c, d \in Conns : pc[c] \in AcceptStates /\ pc[d] \in AcceptStates => c = d

\* What the life of Serve implies for its goroutines.
ServeStages ==
  /\ serve # "running" => AcceptorIdle /\ ~ listening
  /\ serve = "returned" => \A c \in Conns : pc[c] \notin WorkerStates

\* The channel holds one element for each worker that has not freed its slot.
SlotsCounted ==
  /\ capacity = Cardinality(InSlots)
  /\ capacity <= MaxConnections

\* A request is only begun within the limit of its session.
SessionCounts == \A c \in Conns : pc[c] = "requesting" => count[c] < MaxRequestsPerSession

\* The counters of every entry respect the limits.
CountersBounded ==
  \A p \in Peers : /\ budget[p].active <= MaxConnectionsPerPeer
                   /\ budget[p].connections <= ConnectionsPerMinute
                   /\ budget[p].requests <= RequestsPerMinute

\* The table is bounded, and a peer outside of it holds nothing.
TableSound ==
  /\ Cardinality(tracked) <= MaxTrackedPeers
  /\ \A p \in Peers : p \notin tracked => budget[p] = NoBudget

\* The accept goroutine's clock values never run behind its last prune, and
\* no goroutine's clock value runs ahead of the clock.
ClockOrder == \A c \in Conns : pc[c] = "accepted" => at[c] >= lastPrune
PastTimes  == lastPrune <= now /\ \A c \in Conns : at[c] <= now

\* The ledger and an entry agree, unless the entry has started a new minute
\* in which nothing was granted yet; the minute of an evicted peer is over.
LedgerAgrees ==
  \A p \in Peers :
    IF p \in tracked
      THEN \/ /\ ledger[p].window = budget[p].window
              /\ ledger[p].connections = budget[p].connections
              /\ ledger[p].requests = budget[p].requests
           \/ /\ budget[p].window - ledger[p].window >= Minute
              /\ budget[p].connections = 0
              /\ budget[p].requests = 0
      ELSE lastPrune - ledger[p].window >= Minute

IndInv ==
  /\ TypeOK
  /\ OneAccepting /\ ServeStages
  /\ BudgetMatchesConnections /\ SlotsCounted
  /\ SessionCounts /\ CountersBounded /\ TableSound
  /\ ClockOrder /\ PastTimes
  /\ LedgerAgrees /\ RateLimitsHold

-----------------------------------------------------------------------------
(* Counting connections *)

\* Every set of connections is finite.
LEMMA LiveFinite ==
  /\ \A p : IsFiniteSet(LiveOf(p)) /\ Cardinality(LiveOf(p)) \in Nat
  /\ IsFiniteSet(InSlots) /\ Cardinality(InSlots) \in Nat
<1>1. ASSUME NEW p PROVE IsFiniteSet(LiveOf(p)) /\ Cardinality(LiveOf(p)) \in Nat
  <2>1. LiveOf(p) \in SUBSET Conns
    BY DEF LiveOf
  <2> QED
    BY <2>1, ConnsAssumption, FS_Subset, FS_CardinalityType
<1>2. IsFiniteSet(InSlots) /\ Cardinality(InSlots) \in Nat
  <2>1. InSlots \in SUBSET Conns
    BY DEF InSlots
  <2> QED
    BY <2>1, ConnsAssumption, FS_Subset, FS_CardinalityType
<1> QED
  BY <1>1, <1>2

\* A connection that moves to a state which holds a budget as much as its old
\* one did changes no peer's live connections.
LEMMA LiveSame ==
  ASSUME pc \in [Conns -> States], NEW c \in Conns, NEW s,
         pc' = [pc EXCEPT ![c] = s],
         pc[c] \in BudgetStates <=> s \in BudgetStates
  PROVE  \A p : LiveOf(p)' = LiveOf(p)
  BY DEF LiveOf, HoldsBudget

\* acquire's connection is the one new live connection of its peer.
LEMMA LiveAdd ==
  ASSUME pc \in [Conns -> States], NEW c \in Conns, NEW s \in BudgetStates,
         pc' = [pc EXCEPT ![c] = s], pc[c] \notin BudgetStates
  PROVE  /\ Cardinality(LiveOf(PeerOf[c]))' = Cardinality(LiveOf(PeerOf[c])) + 1
         /\ \A p : p # PeerOf[c] => LiveOf(p)' = LiveOf(p)
<1>1. LiveOf(PeerOf[c])' = LiveOf(PeerOf[c]) \cup {c}
  BY DEF LiveOf, HoldsBudget
<1>2. c \notin LiveOf(PeerOf[c])
  BY DEF LiveOf, HoldsBudget
<1>3. \A p : p # PeerOf[c] => LiveOf(p)' = LiveOf(p)
  BY DEF LiveOf, HoldsBudget
<1> QED
  BY <1>1, <1>2, <1>3, LiveFinite, FS_AddElement

\* release's connection is the one live connection its peer loses.
LEMMA LiveRemove ==
  ASSUME pc \in [Conns -> States], NEW c \in Conns, NEW s,
         s \notin BudgetStates,
         pc' = [pc EXCEPT ![c] = s], pc[c] \in BudgetStates
  PROVE  /\ Cardinality(LiveOf(PeerOf[c]))' = Cardinality(LiveOf(PeerOf[c])) - 1
         /\ \A p : p # PeerOf[c] => LiveOf(p)' = LiveOf(p)
<1>1. LiveOf(PeerOf[c])' = LiveOf(PeerOf[c]) \ {c}
  BY DEF LiveOf, HoldsBudget
<1>2. c \in LiveOf(PeerOf[c])
  BY DEF LiveOf, HoldsBudget
<1>3. \A p : p # PeerOf[c] => LiveOf(p)' = LiveOf(p)
  BY DEF LiveOf, HoldsBudget
<1> QED
  BY <1>1, <1>2, <1>3, LiveFinite, FS_RemoveElement

\* The same for the connections that hold a slot.
LEMMA SlotsSame ==
  ASSUME pc \in [Conns -> States], NEW c \in Conns, NEW s,
         pc' = [pc EXCEPT ![c] = s],
         pc[c] \in SlotStates <=> s \in SlotStates
  PROVE  InSlots' = InSlots
  BY DEF InSlots, HoldsSlot

(* A connection that enters the worker states takes one more slot.          *)
LEMMA SlotsAdd ==
  ASSUME pc \in [Conns -> States], NEW c \in Conns, NEW s \in SlotStates,
         pc' = [pc EXCEPT ![c] = s], pc[c] \notin SlotStates
  PROVE  /\ InSlots' = InSlots \cup {c}
         /\ Cardinality(InSlots)' = Cardinality(InSlots) + 1
<1>1. InSlots' = InSlots \cup {c} /\ c \notin InSlots
  BY DEF InSlots, HoldsSlot
<1> QED
  BY <1>1, LiveFinite, FS_AddElement

(* A connection that leaves the worker states gives one slot back.          *)
LEMMA SlotsRemove ==
  ASSUME pc \in [Conns -> States], NEW c \in Conns, NEW s,
         s \notin SlotStates,
         pc' = [pc EXCEPT ![c] = s], pc[c] \in SlotStates
  PROVE  /\ InSlots' = InSlots \ {c}
         /\ Cardinality(InSlots)' = Cardinality(InSlots) - 1
<1>1. InSlots' = InSlots \ {c} /\ c \in InSlots
  BY DEF InSlots, HoldsSlot
<1> QED
  BY <1>1, LiveFinite, FS_RemoveElement

-----------------------------------------------------------------------------
(* The limiter's table *)

(* The table of the limiter is finite.                                      *)
LEMMA TrackedFinite ==
  ASSUME tracked \subseteq Peers
  PROVE  IsFiniteSet(tracked) /\ Cardinality(tracked) \in Nat
  BY PeersAssumption, FS_Subset, FS_CardinalityType

\* resetBudget keeps the live connections and never raises a counter.
LEMMA ResetSound ==
  ASSUME NEW b \in Budgets, NEW t \in Int
  PROVE  /\ ResetBudget(b, t) \in Budgets
         /\ ResetBudget(b, t).active = b.active
         /\ \/ ResetBudget(b, t) = b /\ t - b.window < Minute
            \/ /\ t - b.window >= Minute
               /\ ResetBudget(b, t).window = t
               /\ ResetBudget(b, t).connections = 0
               /\ ResetBudget(b, t).requests = 0
<1>1. CASE t - b.window >= Minute
  <2>1. ResetBudget(b, t)
          = [active |-> b.active, window |-> t, connections |-> 0, requests |-> 0]
    BY <1>1 DEF ResetBudget, Expired
  <2> QED
    BY <1>1, <2>1 DEF Budgets
<1>2. CASE ~ (t - b.window >= Minute)
  <2>1. ResetBudget(b, t) = b
    BY <1>2 DEF ResetBudget, Expired
  <2> QED
    BY <1>2, <2>1, TimeAssumption DEF Budgets
<1> QED
  BY <1>1, <1>2

\* The entry acquire decides on is well formed and within the limits.
LEMMA EntrySound ==
  ASSUME TypeOK, TableSound, CountersBounded, NEW p \in Peers, NEW t \in Nat
  PROVE  /\ EntryOf(p, t) \in Budgets
         /\ EntryOf(p, t).active = budget[p].active
         /\ EntryOf(p, t).connections <= ConnectionsPerMinute
         /\ EntryOf(p, t).requests <= RequestsPerMinute
<1>1. budget[p] \in Budgets
  BY DEF TypeOK
<1>2. CASE p \in tracked
  <2>1. EntryOf(p, t) = ResetBudget(budget[p], t)
    BY <1>2 DEF EntryOf
  <2>2. t \in Int
    OBVIOUS
  <2>3. /\ ResetBudget(budget[p], t) \in Budgets
        /\ ResetBudget(budget[p], t).active = budget[p].active
        /\ \/ ResetBudget(budget[p], t) = budget[p]
           \/ /\ ResetBudget(budget[p], t).connections = 0
              /\ ResetBudget(budget[p], t).requests = 0
    BY <1>1, <2>2, ResetSound
  <2> QED
    BY <2>1, <2>3, LimitsAssumption DEF CountersBounded
<1>3. CASE p \notin tracked
  BY <1>1, <1>3, LimitsAssumption DEF EntryOf, NewBudget, NoBudget, Budgets, TableSound
<1> QED
  BY <1>2, <1>3

\* What acquire(p, t) does to the table: at most one entry is added, and only
\* inactive and expired entries are deleted.
LEMMA StoreSound ==
  ASSUME TypeOK, TableSound, NEW p \in Peers, NEW t \in Nat, t >= lastPrune,
         NEW b \in Budgets, StoreEntry(p, t, b)
  PROVE  /\ tracked' \subseteq Peers
         /\ Cardinality(tracked') <= MaxTrackedPeers
         /\ budget' \in [Peers -> Budgets]
         /\ lastPrune' \in Int /\ lastPrune' >= lastPrune /\ lastPrune' <= t
         /\ \A q \in Peers : q # p => budget'[q].active = budget[q].active
         /\ \A q \in Peers : q # p /\ q \in tracked' =>
                               q \in tracked /\ budget'[q] = budget[q]
         /\ \A q \in Peers : q \notin tracked' =>
              /\ budget'[q] = NoBudget
              /\ q \in tracked => t - budget[q].window >= Minute /\ lastPrune' = t
         /\ HasRoom(p, t) => p \in tracked' /\ budget'[p] = b
         /\ ~ HasRoom(p, t) => p \notin tracked' /\ p \notin tracked
<1> DEFINE K == Kept(p, t)
<1>t. TypeOK /\ tracked \subseteq Peers /\ budget \in [Peers -> Budgets] /\ lastPrune \in Int
  BY DEF TypeOK
<1>k. K \subseteq tracked /\ (p \in tracked => p \in K)
  BY DEF Kept, Prunes
<1>f. /\ IsFiniteSet(K) /\ Cardinality(K) \in Nat
      /\ Cardinality(K) <= Cardinality(tracked)
      /\ Cardinality(K) <= MaxTrackedPeers
  <2>1. IsFiniteSet(tracked) /\ Cardinality(tracked) \in Nat
    BY <1>t, TrackedFinite
  <2>2. IsFiniteSet(K) /\ Cardinality(K) <= Cardinality(tracked)
    BY <1>k, <2>1, FS_Subset
  <2> QED
    BY <2>1, <2>2, FS_CardinalityType, LimitsAssumption DEF TableSound
<1>e. \A q \in tracked : q \notin K =>
         budget[q].active = 0 /\ t - budget[q].window >= Minute /\ lastPrune' = t
  BY DEF Kept, Evictable, Expired, StoreEntry
<1>1. tracked' \subseteq Peers
  BY <1>t, <1>k DEF StoreEntry
<1>2. Cardinality(tracked') <= MaxTrackedPeers
  <2>1. CASE ~ HasRoom(p, t)
    BY <2>1, <1>f DEF StoreEntry
  <2>2. CASE HasRoom(p, t)
    <3>1. CASE p \in K
      <4>1. tracked' = K
        BY <2>2, <3>1 DEF StoreEntry
      <4> QED
        BY <4>1, <1>f
    <3>2. CASE p \notin K
      <4>1. Cardinality(K) < MaxTrackedPeers
        BY <2>2, <3>2, <1>k DEF HasRoom
      <4>2. tracked' = K \cup {p}
        BY <2>2 DEF StoreEntry
      <4>3. Cardinality(K \cup {p}) = Cardinality(K) + 1
        BY <1>f, <3>2, FS_AddElement
      <4> QED
        BY <4>1, <4>2, <4>3, <1>f, LimitsAssumption
    <3> QED
      BY <3>1, <3>2
  <2> QED
    BY <2>1, <2>2
<1>3. budget' \in [Peers -> Budgets]
  <2>1. NoBudget \in Budgets
    BY DEF NoBudget, Budgets
  <2> QED
    BY <2>1, <1>t DEF StoreEntry
<1>4. lastPrune' \in Int /\ lastPrune' >= lastPrune /\ lastPrune' <= t
  BY <1>t DEF StoreEntry
<1>5. ASSUME NEW q \in Peers, q # p
      PROVE  budget'[q].active = budget[q].active
  <2>1. CASE q \in K
    BY <2>1, <1>5 DEF StoreEntry
  <2>2. CASE q \notin K
    <3>1. budget'[q].active = 0
      BY <2>2, <1>5 DEF StoreEntry, NoBudget
    <3>2. budget[q].active = 0
      <4>1. CASE q \in tracked
        BY <4>1, <2>2, <1>e
      <4>2. CASE q \notin tracked
        BY <4>2 DEF TableSound, NoBudget
      <4> QED
        BY <4>1, <4>2
    <3> QED
      BY <3>1, <3>2
  <2> QED
    BY <2>1, <2>2
<1>6. \A q \in Peers : q # p /\ q \in tracked' => q \in tracked /\ budget'[q] = budget[q]
  BY <1>k DEF StoreEntry
<1>7. ASSUME NEW q \in Peers, q \notin tracked'
      PROVE  /\ budget'[q] = NoBudget
             /\ q \in tracked => t - budget[q].window >= Minute /\ lastPrune' = t
  <2>1. q \notin K
    BY <1>7 DEF StoreEntry
  <2>2. ~ (q = p /\ HasRoom(p, t))
    BY <1>7 DEF StoreEntry
  <2> QED
    BY <2>1, <2>2, <1>e DEF StoreEntry
<1>8. HasRoom(p, t) => p \in tracked' /\ budget'[p] = b
  BY DEF StoreEntry
<1>9. ~ HasRoom(p, t) => p \notin tracked' /\ p \notin tracked
  BY <1>k DEF StoreEntry, HasRoom
<1> QED
  BY <1>1, <1>2, <1>3, <1>4, <1>5, <1>6, <1>7, <1>8, <1>9

-----------------------------------------------------------------------------
(* Steps that leave the limiter alone *)

(* Steps that do not call the limiter keep what is said of its table.       *)
LEMMA LimiterUntouched ==
  ASSUME IndInv, UNCHANGED <<limiterVars, ledger>>
  PROVE  CountersBounded' /\ TableSound' /\ LedgerAgrees' /\ RateLimitsHold'
  BY DEF IndInv, limiterVars, CountersBounded, TableSound, LedgerAgrees, RateLimitsHold

(* Steps that move no connection keep the connections counted.              *)
LEMMA PcUntouched ==
  ASSUME IndInv, pc' = pc
  PROVE  /\ \A p : LiveOf(p)' = LiveOf(p)
         /\ InSlots' = InSlots
         /\ OneAccepting'
  BY DEF IndInv, LiveOf, HoldsBudget, InSlots, HoldsSlot, OneAccepting

(* Accept: the accept loop holds one connection and its clock value.        *)
LEMMA AcceptStep ==
  ASSUME IndInv, NEW c \in Conns, Accept(c)
  PROVE  IndInv'
<1> USE DEF Accept, limiterVars, serveVars
<1>0. TypeOK /\ pc[c] = "idle" /\ pc' = [pc EXCEPT ![c] = "accepted"]
  BY DEF IndInv
<1>1. TypeOK'
  BY <1>0 DEF TypeOK, States, AcceptStates
<1>2. OneAccepting'
  BY <1>0 DEF OneAccepting, AcceptorIdle, TypeOK
<1>3. ServeStages'
  BY <1>0 DEF IndInv, ServeStages
<1>4. BudgetMatchesConnections'
  <2>1. \A p : LiveOf(p)' = LiveOf(p)
    BY <1>0, LiveSame DEF TypeOK, BudgetStates, WorkerStates, SlotStates
  <2> QED
    BY <2>1 DEF IndInv, BudgetMatchesConnections
<1>5. SlotsCounted'
  <2>1. InSlots' = InSlots
    BY <1>0, SlotsSame DEF TypeOK, SlotStates
  <2> QED
    BY <2>1 DEF IndInv, SlotsCounted
<1>6. SessionCounts'
  BY <1>0 DEF IndInv, SessionCounts, TypeOK
<1>7. ClockOrder' /\ PastTimes'
  BY <1>0 DEF IndInv, ClockOrder, PastTimes, TypeOK
<1> QED
  BY <1>1, <1>2, <1>3, <1>4, <1>5, <1>6, <1>7, LimiterUntouched DEF IndInv

(* StartWorker: one more worker, one more element in capacity.              *)
LEMMA StartWorkerStep ==
  ASSUME IndInv, NEW c \in Conns, StartWorker(c)
  PROVE  IndInv'
<1> USE DEF StartWorker, limiterVars, serveVars
<1>0. TypeOK /\ pc[c] = "admitted" /\ pc' = [pc EXCEPT ![c] = "session"]
  BY DEF IndInv
<1>1. TypeOK'
  BY <1>0, LimitsAssumption DEF TypeOK, States, WorkerStates, SlotStates
<1>2. OneAccepting'
  BY <1>0 DEF IndInv, OneAccepting, AcceptStates, TypeOK
<1>3. ServeStages'
  BY <1>0 DEF IndInv, ServeStages, AcceptorIdle, AcceptStates, TypeOK
<1>4. BudgetMatchesConnections'
  <2>1. \A p : LiveOf(p)' = LiveOf(p)
    BY <1>0, LiveSame DEF TypeOK, BudgetStates, WorkerStates, SlotStates
  <2> QED
    BY <2>1 DEF IndInv, BudgetMatchesConnections
<1>5. SlotsCounted'
  <2>1. Cardinality(InSlots)' = Cardinality(InSlots) + 1
    BY <1>0, SlotsAdd DEF TypeOK, SlotStates
  <2> QED
    BY <2>1, <1>0, LimitsAssumption DEF IndInv, SlotsCounted, TypeOK
<1>6. SessionCounts'
  BY <1>0 DEF IndInv, SessionCounts, TypeOK
<1>7. ClockOrder' /\ PastTimes'
  BY <1>0 DEF IndInv, ClockOrder, PastTimes, TypeOK
<1> QED
  BY <1>1, <1>2, <1>3, <1>4, <1>5, <1>6, <1>7, LimiterUntouched DEF IndInv

(* NoCapacity: the connection keeps its budget until release.               *)
LEMMA NoCapacityStep ==
  ASSUME IndInv, NEW c \in Conns, NoCapacity(c)
  PROVE  IndInv'
<1> USE DEF NoCapacity, limiterVars, serveVars
<1>0. TypeOK /\ pc[c] = "admitted" /\ pc' = [pc EXCEPT ![c] = "refused"]
  BY DEF IndInv
<1>1. TypeOK'
  BY <1>0 DEF TypeOK, States, AcceptStates
<1>2. OneAccepting'
  BY <1>0 DEF IndInv, OneAccepting, AcceptStates, TypeOK
<1>3. ServeStages'
  BY <1>0 DEF IndInv, ServeStages, AcceptorIdle, AcceptStates, TypeOK
<1>4. BudgetMatchesConnections'
  <2>1. \A p : LiveOf(p)' = LiveOf(p)
    BY <1>0, LiveSame DEF TypeOK, BudgetStates
  <2> QED
    BY <2>1 DEF IndInv, BudgetMatchesConnections
<1>5. SlotsCounted'
  <2>1. InSlots' = InSlots
    BY <1>0, SlotsSame DEF TypeOK, SlotStates
  <2> QED
    BY <2>1 DEF IndInv, SlotsCounted
<1>6. SessionCounts'
  BY <1>0 DEF IndInv, SessionCounts, TypeOK
<1>7. ClockOrder' /\ PastTimes'
  BY <1>0 DEF IndInv, ClockOrder, PastTimes, TypeOK
<1> QED
  BY <1>1, <1>2, <1>3, <1>4, <1>5, <1>6, <1>7, LimiterUntouched DEF IndInv

\* BeginRequest, FinishTransfer and EndSession move a worker between states
\* in which it holds both its budget and its slot.
LEMMA SessionStep ==
  ASSUME IndInv, NEW c \in Conns,
         BeginRequest(c) \/ FinishTransfer(c) \/ EndSession(c)
  PROVE  IndInv'
<1> USE DEF BeginRequest, FinishTransfer, EndSession, limiterVars, serveVars
<1> PICK s \in SlotStates : pc' = [pc EXCEPT ![c] = s]
  BY DEF SlotStates
<1>0. /\ TypeOK /\ pc[c] \in SlotStates
      /\ s = "requesting" => count[c] < MaxRequestsPerSession /\ count' = count
      /\ UNCHANGED <<count, capacity, limiterVars, now, serveVars, ledger>>
      /\ at' \in [Conns -> Nat] /\ \A d \in Conns : d # c => at'[d] = at[d]
  <2>1. TypeOK /\ pc[c] \in SlotStates
    BY DEF IndInv, SlotStates
  <2>2. UNCHANGED <<count, capacity, limiterVars, now, serveVars, ledger>>
    OBVIOUS
  <2>3. at' \in [Conns -> Nat] /\ \A d \in Conns : d # c => at'[d] = at[d]
    BY <2>1 DEF TypeOK
  <2>4. s = "requesting" => count[c] < MaxRequestsPerSession
    BY <2>1 DEF TypeOK
  <2> QED
    BY <2>1, <2>2, <2>3, <2>4
<1>1. TypeOK'
  BY <1>0 DEF TypeOK, States, WorkerStates
<1>2. OneAccepting'
  BY <1>0 DEF IndInv, OneAccepting, AcceptStates, SlotStates, TypeOK
<1>3. ServeStages'
  BY <1>0 DEF IndInv, ServeStages, AcceptorIdle, AcceptStates, WorkerStates, SlotStates, TypeOK
<1>4. BudgetMatchesConnections'
  <2>1. \A p : LiveOf(p)' = LiveOf(p)
    BY <1>0, LiveSame DEF TypeOK, BudgetStates, WorkerStates
  <2> QED
    BY <2>1, <1>0 DEF IndInv, BudgetMatchesConnections
<1>5. SlotsCounted'
  <2>1. InSlots' = InSlots
    BY <1>0, SlotsSame DEF TypeOK
  <2> QED
    BY <2>1, <1>0 DEF IndInv, SlotsCounted
<1>6. SessionCounts'
  BY <1>0 DEF IndInv, SessionCounts, TypeOK
<1>7. ClockOrder' /\ PastTimes'
  BY <1>0 DEF IndInv, ClockOrder, PastTimes, SlotStates, TypeOK
<1> QED
  BY <1>0, <1>1, <1>2, <1>3, <1>4, <1>5, <1>6, <1>7, LimiterUntouched DEF IndInv

(* FreeCapacity: the deferred receive gives the worker's slot back.         *)
LEMMA FreeCapacityStep ==
  ASSUME IndInv, NEW c \in Conns, FreeCapacity(c)
  PROVE  IndInv'
<1> USE DEF FreeCapacity, limiterVars, serveVars
<1>0. TypeOK /\ pc[c] = "unwinding" /\ pc' = [pc EXCEPT ![c] = "freed"]
  BY DEF IndInv
<1>5. SlotsCounted' /\ capacity' \in Nat
  <2>1. Cardinality(InSlots)' = Cardinality(InSlots) - 1
    BY <1>0, SlotsRemove DEF TypeOK, SlotStates
  <2>2. Cardinality(InSlots)' \in Nat
    <3>1. InSlots' \in SUBSET Conns
      BY DEF InSlots
    <3> QED
      BY <3>1, ConnsAssumption, FS_Subset, FS_CardinalityType
  <2> QED
    BY <2>1, <2>2, <1>0, LimitsAssumption DEF IndInv, SlotsCounted, TypeOK
<1>1. TypeOK'
  BY <1>0, <1>5 DEF TypeOK, States, WorkerStates
<1>2. OneAccepting'
  BY <1>0 DEF IndInv, OneAccepting, AcceptStates, TypeOK
<1>3. ServeStages'
  BY <1>0 DEF IndInv, ServeStages, AcceptorIdle, AcceptStates, WorkerStates, SlotStates, TypeOK
<1>4. BudgetMatchesConnections'
  <2>1. \A p : LiveOf(p)' = LiveOf(p)
    BY <1>0, LiveSame DEF TypeOK, BudgetStates, WorkerStates, SlotStates
  <2> QED
    BY <2>1 DEF IndInv, BudgetMatchesConnections
<1>6. SessionCounts'
  BY <1>0 DEF IndInv, SessionCounts, TypeOK
<1>7. ClockOrder' /\ PastTimes'
  BY <1>0 DEF IndInv, ClockOrder, PastTimes, TypeOK
<1> QED
  BY <1>1, <1>2, <1>3, <1>4, <1>5, <1>6, <1>7, LimiterUntouched DEF IndInv

\* Steps of Serve itself and of the clock move no connection.
LEMMA ServeStep ==
  ASSUME IndInv, Cancel \/ CloseListener \/ AcceptFails \/ ServeReturns \/ Tick
  PROVE  IndInv'
<1> USE DEF Cancel, CloseListener, AcceptFails, ServeReturns, Tick, connVars, limiterVars
<1>0. /\ UNCHANGED <<pc, at, count, capacity, tracked, budget, lastPrune, ledger>>
      /\ TypeOK /\ now' \in 0 .. MaxTime /\ now' >= now
      /\ serve' \in {"running", "waiting", "returned"}
      /\ cancelled' \in BOOLEAN /\ listening' \in BOOLEAN
  <2>1. UNCHANGED <<pc, at, count, capacity, tracked, budget, lastPrune, ledger>>
    OBVIOUS
  <2>2. TypeOK /\ now' \in 0 .. MaxTime /\ now' >= now
    BY TimeAssumption DEF IndInv, TypeOK
  <2>3. serve' \in {"running", "waiting", "returned"}
    BY DEF IndInv, TypeOK, serveVars
  <2>4. cancelled' \in BOOLEAN /\ listening' \in BOOLEAN
    BY DEF IndInv, TypeOK, serveVars
  <2> QED
    BY <2>1, <2>2, <2>3, <2>4
<1>1. TypeOK'
  BY <1>0 DEF TypeOK
<1>2. OneAccepting' /\ BudgetMatchesConnections' /\ SlotsCounted'
  BY <1>0, PcUntouched DEF IndInv, BudgetMatchesConnections, SlotsCounted
<1>3. ServeStages'
  BY <1>0 DEF IndInv, ServeStages, AcceptorIdle, serveVars
<1>4. SessionCounts' /\ ClockOrder' /\ PastTimes'
  BY <1>0 DEF IndInv, SessionCounts, ClockOrder, PastTimes, TypeOK
<1> QED
  BY <1>0, <1>1, <1>2, <1>3, <1>4, LimiterUntouched DEF IndInv

-----------------------------------------------------------------------------
(* Steps of the limiter *)

\* The entry acquire works on belongs to the ledger's current minute with the
\* ledger's counts, or to a new minute in which nothing was granted.
LEMMA EntryLedger ==
  ASSUME IndInv, NEW p \in Peers, NEW t \in Nat, t >= lastPrune
  PROVE  \/ /\ p \in tracked
            /\ ledger[p].window = EntryOf(p, t).window
            /\ ledger[p].connections = EntryOf(p, t).connections
            /\ ledger[p].requests = EntryOf(p, t).requests
            /\ t - ledger[p].window < Minute
         \/ /\ EntryOf(p, t).window - ledger[p].window >= Minute
            /\ EntryOf(p, t).connections = 0
            /\ EntryOf(p, t).requests = 0
<1>0. /\ budget[p] \in Budgets /\ budget[p].window \in Int /\ ledger[p].window \in Int
      /\ t \in Int /\ lastPrune \in Int /\ Minute \in Int /\ Minute > 0
  BY TimeAssumption DEF IndInv, TypeOK, Budgets, Ledgers
<1>1. CASE p \notin tracked
  BY <1>0, <1>1 DEF EntryOf, NewBudget, IndInv, LedgerAgrees
<1>2. CASE p \in tracked
  <2>1. EntryOf(p, t) = ResetBudget(budget[p], t)
    BY <1>2 DEF EntryOf
  <2>2. \/ ResetBudget(budget[p], t) = budget[p] /\ t - budget[p].window < Minute
        \/ /\ t - budget[p].window >= Minute
           /\ ResetBudget(budget[p], t).window = t
           /\ ResetBudget(budget[p], t).connections = 0
           /\ ResetBudget(budget[p], t).requests = 0
    BY <1>0, ResetSound
  <2>3. \/ /\ ledger[p].window = budget[p].window
           /\ ledger[p].connections = budget[p].connections
           /\ ledger[p].requests = budget[p].requests
        \/ /\ budget[p].window - ledger[p].window >= Minute
           /\ budget[p].connections = 0
           /\ budget[p].requests = 0
    BY <1>2 DEF IndInv, LedgerAgrees
  <2> QED
    BY <1>0, <1>2, <2>1, <2>2, <2>3
<1> QED
  BY <1>1, <1>2

\* What the ledger of p is once a grant in minute w finds it there.
LEMMA LedgerAtSound ==
  ASSUME TypeOK, NEW p \in Peers, NEW w \in Int
  PROVE  /\ LedgerAt(p, w) \in Ledgers
         /\ \/ LedgerAt(p, w) = ledger[p] /\ w - ledger[p].window < Minute
            \/ /\ w - ledger[p].window >= Minute
               /\ LedgerAt(p, w).window = w
               /\ LedgerAt(p, w).connections = 0
               /\ LedgerAt(p, w).requests = 0
<1>0. ledger[p] \in Ledgers /\ ledger[p].window \in Int /\ Minute \in Int
  BY TimeAssumption DEF TypeOK, Ledgers
<1>1. CASE w - ledger[p].window >= Minute
  BY <1>0, <1>1 DEF LedgerAt, Ledgers
<1>2. CASE ~ (w - ledger[p].window >= Minute)
  BY <1>0, <1>2 DEF LedgerAt
<1> QED
  BY <1>1, <1>2

(* AcquireGrant: acquire may prune, create or reset, and counts one more.   *)
LEMMA AcquireGrantStep ==
  ASSUME IndInv, NEW c \in Conns, AcquireGrant(c)
  PROVE  IndInv'
<1> DEFINE p == PeerOf[c]
           t == at[c]
           e == EntryOf(p, t)
           b == WithConnection(e)
           l == LedgerAt(p, e.window)
<1>0. /\ TypeOK /\ p \in Peers /\ t \in Nat /\ t >= lastPrune
      /\ pc[c] = "accepted" /\ pc' = [pc EXCEPT ![c] = "admitted"]
      /\ Admits(p, t) /\ StoreEntry(p, t, b)
      /\ ledger' = [ledger EXCEPT ![p] = [l EXCEPT !.connections = @ + 1]]
      /\ UNCHANGED <<at, count, capacity, now, serve, cancelled, listening>>
  BY PeersAssumption DEF IndInv, TypeOK, AcquireGrant, ClockOrder, serveVars
<1>e. /\ e \in Budgets /\ e.active = budget[p].active
      /\ e.connections <= ConnectionsPerMinute /\ e.requests <= RequestsPerMinute
  BY <1>0, EntrySound DEF IndInv
<1>g. e.active < MaxConnectionsPerPeer /\ e.connections < ConnectionsPerMinute /\ HasRoom(p, t)
  BY <1>0 DEF Admits
<1>b. /\ b \in Budgets /\ b.active = e.active + 1 /\ b.window = e.window
      /\ b.connections = e.connections + 1 /\ b.requests = e.requests
  BY <1>e DEF WithConnection, Budgets
<1>s. /\ tracked' \subseteq Peers
      /\ Cardinality(tracked') <= MaxTrackedPeers
      /\ budget' \in [Peers -> Budgets]
      /\ lastPrune' \in Int /\ lastPrune' >= lastPrune /\ lastPrune' <= t
      /\ \A q \in Peers : q # p => budget'[q].active = budget[q].active
      /\ \A q \in Peers : q # p /\ q \in tracked' =>
                            q \in tracked /\ budget'[q] = budget[q]
      /\ \A q \in Peers : q \notin tracked' =>
           /\ budget'[q] = NoBudget
           /\ q \in tracked => t - budget[q].window >= Minute /\ lastPrune' = t
      /\ p \in tracked' /\ budget'[p] = b
  BY <1>0, <1>b, <1>g, StoreSound DEF IndInv
<1>l. /\ l \in Ledgers /\ l.window = e.window
      /\ l.connections = e.connections /\ l.requests = e.requests
  <2>1. e.window \in Int
    BY <1>e DEF Budgets
  <2>2. \/ /\ ledger[p].window = e.window
           /\ ledger[p].connections = e.connections
           /\ ledger[p].requests = e.requests
        \/ /\ e.window - ledger[p].window >= Minute
           /\ e.connections = 0
           /\ e.requests = 0
    BY <1>0, EntryLedger
  <2>3. /\ l \in Ledgers
        /\ \/ l = ledger[p] /\ e.window - ledger[p].window < Minute
           \/ /\ e.window - ledger[p].window >= Minute
              /\ l.window = e.window /\ l.connections = 0 /\ l.requests = 0
    BY <1>0, <2>1, LedgerAtSound
  <2>4. ledger[p].window \in Int /\ Minute \in Int /\ Minute > 0
    BY <1>0, TimeAssumption DEF TypeOK, Ledgers
  <2> QED
    BY <2>1, <2>2, <2>3, <2>4
<1>n. /\ ledger' \in [Peers -> Ledgers]
      /\ \A q \in Peers : q # p => ledger'[q] = ledger[q]
      /\ ledger'[p].window = e.window
      /\ ledger'[p].connections = e.connections + 1
      /\ ledger'[p].requests = e.requests
  <2>1. ledger'[p] = [l EXCEPT !.connections = @ + 1]
    BY <1>0 DEF TypeOK
  <2>2. [l EXCEPT !.connections = @ + 1] \in Ledgers
    BY <1>l DEF Ledgers
  <2> HIDE DEF p, e, l
  <2> QED
    BY <1>0, <1>l, <2>1, <2>2 DEF TypeOK, Ledgers
<1> HIDE DEF p, t, e, b, l
<1>1. TypeOK'
  BY <1>0, <1>s, <1>n DEF TypeOK, States, AcceptStates
<1>2. OneAccepting'
  BY <1>0 DEF IndInv, OneAccepting, AcceptStates, TypeOK
<1>3. ServeStages'
  BY <1>0 DEF IndInv, ServeStages, AcceptorIdle, AcceptStates, TypeOK
<1>4. BudgetMatchesConnections'
  <2>1. /\ Cardinality(LiveOf(p))' = Cardinality(LiveOf(p)) + 1
        /\ \A q : q # p => LiveOf(q)' = LiveOf(q)
    BY <1>0, LiveAdd DEF p, TypeOK, BudgetStates, WorkerStates, SlotStates
  <2>2. SUFFICES ASSUME NEW q \in Peers PROVE (budget[q].active = Cardinality(LiveOf(q)))'
    BY DEF BudgetMatchesConnections
  <2>3. CASE q = p
    BY <2>1, <2>3, <1>0, <1>s, <1>b, <1>e DEF IndInv, BudgetMatchesConnections
  <2>4. CASE q # p
    BY <2>1, <2>4, <1>s DEF IndInv, BudgetMatchesConnections
  <2> QED
    BY <2>3, <2>4
<1>5. SlotsCounted'
  <2>1. InSlots' = InSlots
    BY <1>0, SlotsSame DEF TypeOK, SlotStates
  <2> QED
    BY <2>1, <1>0 DEF IndInv, SlotsCounted
<1>6. SessionCounts'
  BY <1>0 DEF IndInv, SessionCounts, TypeOK
<1>7. ClockOrder' /\ PastTimes'
  <2>1. \A d \in Conns : pc'[d] # "accepted"
    BY <1>0 DEF IndInv, OneAccepting, AcceptStates, TypeOK
  <2>2. t <= now
    BY DEF IndInv, PastTimes, t
  <2> QED
    BY <2>1, <2>2, <1>0, <1>s DEF IndInv, ClockOrder, PastTimes, TypeOK
<1>8. CountersBounded'
  <2>1. SUFFICES ASSUME NEW q \in Peers
                 PROVE  /\ budget'[q].active <= MaxConnectionsPerPeer
                        /\ budget'[q].connections <= ConnectionsPerMinute
                        /\ budget'[q].requests <= RequestsPerMinute
    BY DEF CountersBounded
  <2>2. CASE q = p
    BY <2>2, <1>s, <1>b, <1>e, <1>g, LimitsAssumption DEF Budgets
  <2>3. CASE q # p /\ q \in tracked'
    BY <2>3, <1>s DEF IndInv, CountersBounded
  <2>4. CASE q \notin tracked'
    BY <2>4, <1>s, LimitsAssumption DEF NoBudget
  <2> QED
    BY <2>2, <2>3, <2>4
<1>9. TableSound'
  BY <1>s DEF TableSound
<1>10. LedgerAgrees'
  <2>1. ASSUME NEW q \in Peers, q \in tracked', q # p
        PROVE  \/ /\ ledger'[q].window = budget'[q].window
                  /\ ledger'[q].connections = budget'[q].connections
                  /\ ledger'[q].requests = budget'[q].requests
               \/ /\ budget'[q].window - ledger'[q].window >= Minute
                  /\ budget'[q].connections = 0
                  /\ budget'[q].requests = 0
    BY <2>1, <1>s, <1>n DEF IndInv, LedgerAgrees
  <2>2. ASSUME NEW q \in Peers, q \notin tracked'
        PROVE  lastPrune' - ledger'[q].window >= Minute
    <3>0. /\ ledger'[q] = ledger[q] /\ ledger[q].window \in Int /\ budget[q].window \in Int
          /\ lastPrune \in Int /\ Minute \in Int /\ Minute > 0 /\ t \in Int
      BY <2>2, <1>s, <1>n, <1>0, TimeAssumption DEF TypeOK, Ledgers, Budgets
    <3>1. CASE q \in tracked
      <4>1. ledger[q].window <= budget[q].window
        BY <3>0, <3>1 DEF IndInv, LedgerAgrees
      <4> QED
        BY <4>1, <3>0, <3>1, <2>2, <1>s
    <3>2. CASE q \notin tracked
      <4>1. lastPrune - ledger[q].window >= Minute
        BY <3>2 DEF IndInv, LedgerAgrees
      <4> QED
        BY <4>1, <3>0, <1>s
    <3> QED
      BY <3>1, <3>2
  <2> QED
    BY <2>1, <2>2, <1>s, <1>n, <1>b DEF LedgerAgrees
<1>11. RateLimitsHold'
  BY <1>s, <1>n, <1>e, <1>g, LimitsAssumption DEF IndInv, RateLimitsHold, Budgets
<1> QED
  BY <1>1, <1>2, <1>3, <1>4, <1>5, <1>6, <1>7, <1>8, <1>9, <1>10, <1>11 DEF IndInv

(* AcquireRefuse: acquire may prune, create or reset, and counts nothing.   *)
LEMMA AcquireRefuseStep ==
  ASSUME IndInv, NEW c \in Conns, AcquireRefuse(c)
  PROVE  IndInv'
<1> DEFINE p == PeerOf[c]
           t == at[c]
           e == EntryOf(p, t)
<1>0. /\ TypeOK /\ p \in Peers /\ t \in Nat /\ t >= lastPrune
      /\ pc[c] = "accepted" /\ pc' = [pc EXCEPT ![c] = "idle"]
      /\ StoreEntry(p, t, e)
      /\ UNCHANGED <<at, count, capacity, now, serve, cancelled, listening, ledger>>
  BY PeersAssumption DEF IndInv, TypeOK, AcquireRefuse, ClockOrder, serveVars
<1>e. /\ e \in Budgets /\ e.active = budget[p].active
      /\ e.connections <= ConnectionsPerMinute /\ e.requests <= RequestsPerMinute
  BY <1>0, EntrySound DEF IndInv
<1>s. /\ tracked' \subseteq Peers
      /\ Cardinality(tracked') <= MaxTrackedPeers
      /\ budget' \in [Peers -> Budgets]
      /\ lastPrune' \in Int /\ lastPrune' >= lastPrune /\ lastPrune' <= t
      /\ \A q \in Peers : q # p => budget'[q].active = budget[q].active
      /\ \A q \in Peers : q # p /\ q \in tracked' =>
                            q \in tracked /\ budget'[q] = budget[q]
      /\ \A q \in Peers : q \notin tracked' =>
           /\ budget'[q] = NoBudget
           /\ q \in tracked => t - budget[q].window >= Minute /\ lastPrune' = t
      /\ HasRoom(p, t) => p \in tracked' /\ budget'[p] = e
      /\ ~ HasRoom(p, t) => p \notin tracked' /\ p \notin tracked
  BY <1>0, <1>e, StoreSound DEF IndInv
<1>p. p \in tracked' => budget'[p] = e
  BY <1>s
<1>a. \A q \in Peers : budget'[q].active = budget[q].active
  <2>1. CASE HasRoom(p, t)
    BY <2>1, <1>s, <1>e
  <2>2. CASE ~ HasRoom(p, t)
    BY <2>2, <1>0, <1>s DEF IndInv, TableSound
  <2> QED
    BY <2>1, <2>2
<1>n. \/ /\ ledger[p].window = e.window
         /\ ledger[p].connections = e.connections
         /\ ledger[p].requests = e.requests
      \/ /\ e.window - ledger[p].window >= Minute
         /\ e.connections = 0
         /\ e.requests = 0
  BY <1>0, EntryLedger
<1> HIDE DEF p, t, e
<1>1. TypeOK'
  BY <1>0, <1>s DEF TypeOK, States
<1>2. OneAccepting'
  BY <1>0 DEF IndInv, OneAccepting, AcceptStates, TypeOK
<1>3. ServeStages'
  BY <1>0 DEF IndInv, ServeStages, AcceptorIdle, AcceptStates, WorkerStates, SlotStates, TypeOK
<1>4. BudgetMatchesConnections'
  <2>1. \A q : LiveOf(q)' = LiveOf(q)
    BY <1>0, LiveSame DEF TypeOK, BudgetStates, WorkerStates, SlotStates
  <2> QED
    BY <2>1, <1>a DEF IndInv, BudgetMatchesConnections
<1>5. SlotsCounted'
  <2>1. InSlots' = InSlots
    BY <1>0, SlotsSame DEF TypeOK, SlotStates
  <2> QED
    BY <2>1, <1>0 DEF IndInv, SlotsCounted
<1>6. SessionCounts'
  BY <1>0 DEF IndInv, SessionCounts, TypeOK
<1>7. ClockOrder' /\ PastTimes'
  <2>1. \A d \in Conns : pc'[d] # "accepted"
    BY <1>0 DEF IndInv, OneAccepting, AcceptStates, TypeOK
  <2>2. t <= now
    BY DEF IndInv, PastTimes, t
  <2> QED
    BY <2>1, <2>2, <1>0, <1>s DEF IndInv, ClockOrder, PastTimes, TypeOK
<1>8. CountersBounded'
  <2>1. SUFFICES ASSUME NEW q \in Peers
                 PROVE  /\ budget'[q].active <= MaxConnectionsPerPeer
                        /\ budget'[q].connections <= ConnectionsPerMinute
                        /\ budget'[q].requests <= RequestsPerMinute
    BY DEF CountersBounded
  <2>2. CASE q = p /\ q \in tracked'
    BY <2>2, <1>p, <1>a, <1>e, <1>0 DEF IndInv, CountersBounded
  <2>3. CASE q # p /\ q \in tracked'
    BY <2>3, <1>s DEF IndInv, CountersBounded
  <2>4. CASE q \notin tracked'
    BY <2>4, <1>s, LimitsAssumption DEF NoBudget
  <2> QED
    BY <2>2, <2>3, <2>4
<1>9. TableSound'
  BY <1>s DEF TableSound
<1>10. LedgerAgrees'
  <2>1. ASSUME NEW q \in Peers, q \in tracked', q # p
        PROVE  \/ /\ ledger'[q].window = budget'[q].window
                  /\ ledger'[q].connections = budget'[q].connections
                  /\ ledger'[q].requests = budget'[q].requests
               \/ /\ budget'[q].window - ledger'[q].window >= Minute
                  /\ budget'[q].connections = 0
                  /\ budget'[q].requests = 0
    BY <2>1, <1>s, <1>0 DEF IndInv, LedgerAgrees
  <2>2. ASSUME NEW q \in Peers, q \notin tracked'
        PROVE  lastPrune' - ledger'[q].window >= Minute
    <3>0. /\ ledger'[q] = ledger[q] /\ ledger[q].window \in Int /\ budget[q].window \in Int
          /\ lastPrune \in Int /\ Minute \in Int /\ Minute > 0 /\ t \in Int
      BY <2>2, <1>0, TimeAssumption DEF TypeOK, Ledgers, Budgets
    <3>1. CASE q \in tracked
      <4>1. ledger[q].window <= budget[q].window
        BY <3>0, <3>1 DEF IndInv, LedgerAgrees
      <4> QED
        BY <4>1, <3>0, <3>1, <2>2, <1>s
    <3>2. CASE q \notin tracked
      <4>1. lastPrune - ledger[q].window >= Minute
        BY <3>2 DEF IndInv, LedgerAgrees
      <4> QED
        BY <4>1, <3>0, <1>s
    <3> QED
      BY <3>1, <3>2
  <2> QED
    BY <2>1, <2>2, <1>p, <1>0, <1>n DEF LedgerAgrees
<1>11. RateLimitsHold'
  BY <1>0 DEF IndInv, RateLimitsHold
<1> QED
  BY <1>1, <1>2, <1>3, <1>4, <1>5, <1>6, <1>7, <1>8, <1>9, <1>10, <1>11 DEF IndInv

(* Release: the entry of the peer is still there and its count positive.    *)
LEMMA ReleaseStep ==
  ASSUME IndInv, NEW c \in Conns, Release(c)
  PROVE  IndInv'
<1> DEFINE p == PeerOf[c]
<1>0. /\ TypeOK /\ p \in Peers /\ budget[p] \in Budgets
      /\ pc[c] \in {"refused", "freed"} /\ pc' = [pc EXCEPT ![c] = "idle"]
      /\ UNCHANGED <<at, count, capacity, tracked, lastPrune, now, serve, cancelled, listening, ledger>>
  BY PeersAssumption DEF IndInv, TypeOK, Release, serveVars
<1>v. /\ Cardinality(LiveOf(p))' = Cardinality(LiveOf(p)) - 1
      /\ \A q : q # p => LiveOf(q)' = LiveOf(q)
  <2>1. "idle" \notin BudgetStates /\ pc[c] \in BudgetStates
    BY <1>0 DEF BudgetStates, WorkerStates, SlotStates
  <2>2. pc \in [Conns -> States]
    BY <1>0 DEF TypeOK
  <2> QED
    BY <1>0, <2>1, <2>2, LiveRemove
<1>a. budget[p].active > 0 /\ p \in tracked
  <2>1. c \in LiveOf(p)
    BY <1>0 DEF LiveOf, HoldsBudget, BudgetStates, WorkerStates
  <2>2. Cardinality(LiveOf(p)) # 0
    BY <2>1, LiveFinite, FS_EmptySet
  <2>3. budget[p].active > 0
    BY <2>2, <1>0, LiveFinite DEF IndInv, BudgetMatchesConnections
  <2> QED
    BY <2>3, <1>0 DEF IndInv, TableSound, NoBudget
<1>b. budget' = [budget EXCEPT ![p].active = @ - 1]
  BY <1>a DEF Release
<1>s. /\ budget' \in [Peers -> Budgets]
      /\ \A q \in Peers : q # p => budget'[q] = budget[q]
      /\ budget'[p].active = budget[p].active - 1
      /\ budget'[p].window = budget[p].window
      /\ budget'[p].connections = budget[p].connections
      /\ budget'[p].requests = budget[p].requests
  <2>1. budget'[p] = [budget[p] EXCEPT !.active = @ - 1]
    BY <1>0, <1>b DEF TypeOK
  <2>2. [budget[p] EXCEPT !.active = @ - 1] \in Budgets
    BY <1>0, <1>a DEF Budgets
  <2> HIDE DEF p
  <2>3. \A q \in Peers : q # p => budget'[q] = budget[q]
    BY <1>0, <1>b DEF TypeOK
  <2>4. /\ budget'[p].active = budget[p].active - 1
        /\ budget'[p].window = budget[p].window
        /\ budget'[p].connections = budget[p].connections
        /\ budget'[p].requests = budget[p].requests
    BY <1>0, <2>1 DEF Budgets
  <2>5. budget' \in [Peers -> Budgets]
    BY <1>0, <1>b, <2>1, <2>2, <2>3 DEF TypeOK
  <2> QED
    BY <2>3, <2>4, <2>5
<1> HIDE DEF p
<1>1. TypeOK'
  BY <1>0, <1>s DEF TypeOK, States
<1>2. OneAccepting'
  BY <1>0 DEF IndInv, OneAccepting, AcceptStates, TypeOK
<1>3. ServeStages'
  BY <1>0 DEF IndInv, ServeStages, AcceptorIdle, AcceptStates, WorkerStates, SlotStates, TypeOK
<1>4. BudgetMatchesConnections'
  BY <1>v, <1>s, <1>0 DEF IndInv, BudgetMatchesConnections
<1>5. SlotsCounted'
  <2>1. InSlots' = InSlots
    BY <1>0, SlotsSame DEF TypeOK, SlotStates
  <2> QED
    BY <2>1, <1>0 DEF IndInv, SlotsCounted
<1>6. SessionCounts'
  BY <1>0 DEF IndInv, SessionCounts, TypeOK
<1>7. ClockOrder' /\ PastTimes'
  BY <1>0 DEF IndInv, ClockOrder, PastTimes, TypeOK
<1>8. CountersBounded'
  BY <1>s, <1>0, LimitsAssumption DEF IndInv, CountersBounded, Budgets
<1>9. TableSound'
  BY <1>s, <1>0, <1>a DEF IndInv, TableSound
<1>10. LedgerAgrees' /\ RateLimitsHold'
  BY <1>s, <1>0 DEF IndInv, LedgerAgrees, RateLimitsHold
<1> QED
  BY <1>1, <1>2, <1>3, <1>4, <1>5, <1>6, <1>7, <1>8, <1>9, <1>10 DEF IndInv

\* A peer with a live connection has its entry: allowRequest finds it.
LEMMA LiveTracked ==
  ASSUME IndInv, NEW c \in Conns, HoldsBudget(c)
  PROVE  PeerOf[c] \in tracked
<1>0. PeerOf[c] \in Peers
  BY PeersAssumption
<1>1. Cardinality(LiveOf(PeerOf[c])) # 0
  <2>1. c \in LiveOf(PeerOf[c])
    BY DEF LiveOf
  <2> QED
    BY <2>1, LiveFinite, FS_EmptySet
<1> QED
  BY <1>0, <1>1 DEF IndInv, BudgetMatchesConnections, TableSound, NoBudget

\* Both answers of allowRequest: the budget of p becomes n, the ledger m.
LEMMA AllowStep ==
  ASSUME IndInv, NEW c \in Conns, NEW n \in Budgets, NEW m \in Ledgers,
         NEW s \in SlotStates,
         pc[c] = "requesting", pc' = [pc EXCEPT ![c] = s], s # "requesting",
         budget' = [budget EXCEPT ![PeerOf[c]] = n],
         ledger' = [ledger EXCEPT ![PeerOf[c]] = m],
         count' \in [Conns -> 0 .. MaxRequestsPerSession],
         \A d \in Conns : d # c => count'[d] = count[d],
         n.active = budget[PeerOf[c]].active,
         n.connections <= ConnectionsPerMinute, n.requests <= RequestsPerMinute,
         m.connections <= ConnectionsPerMinute, m.requests <= RequestsPerMinute,
         \/ /\ m.window = n.window
            /\ m.connections = n.connections
            /\ m.requests = n.requests
         \/ /\ n.window - m.window >= Minute
            /\ n.connections = 0
            /\ n.requests = 0,
         UNCHANGED <<at, capacity, tracked, lastPrune, now, serveVars>>
  PROVE  IndInv'
<1> DEFINE p == PeerOf[c]
<1>0. /\ TypeOK /\ p \in Peers /\ p \in tracked
      /\ UNCHANGED <<serve, cancelled, listening>>
  BY PeersAssumption, LiveTracked
     DEF IndInv, HoldsBudget, BudgetStates, WorkerStates, SlotStates, serveVars
<1>s. /\ budget' \in [Peers -> Budgets] /\ budget'[p] = n
      /\ ledger' \in [Peers -> Ledgers] /\ ledger'[p] = m
      /\ \A q \in Peers : q # p => budget'[q] = budget[q] /\ ledger'[q] = ledger[q]
  BY <1>0 DEF TypeOK
<1>p. n.active = budget[p].active
  OBVIOUS
<1> HIDE DEF p
<1>1. TypeOK'
  BY <1>0, <1>s DEF TypeOK, States, WorkerStates
<1>2. OneAccepting'
  BY <1>0 DEF IndInv, OneAccepting, AcceptStates, SlotStates, TypeOK
<1>3. ServeStages'
  BY <1>0 DEF IndInv, ServeStages, AcceptorIdle, AcceptStates, WorkerStates, SlotStates, TypeOK
<1>4. BudgetMatchesConnections'
  <2>1. \A q : LiveOf(q)' = LiveOf(q)
    BY <1>0, LiveSame DEF TypeOK, BudgetStates, WorkerStates, SlotStates
  <2> QED
    BY <2>1, <1>0, <1>s, <1>p DEF IndInv, BudgetMatchesConnections
<1>5. SlotsCounted'
  <2>1. InSlots' = InSlots
    BY <1>0, SlotsSame DEF TypeOK, SlotStates
  <2> QED
    BY <2>1 DEF IndInv, SlotsCounted
<1>6. SessionCounts'
  BY <1>0 DEF IndInv, SessionCounts, TypeOK
<1>7. ClockOrder' /\ PastTimes'
  BY <1>0 DEF IndInv, ClockOrder, PastTimes, SlotStates, TypeOK
<1>8. CountersBounded'
  BY <1>s, <1>p, <1>0 DEF IndInv, CountersBounded
<1>9. TableSound'
  BY <1>s, <1>0 DEF IndInv, TableSound
<1>10. LedgerAgrees'
  BY <1>s, <1>0 DEF IndInv, LedgerAgrees
<1>11. RateLimitsHold'
  BY <1>s, <1>0 DEF IndInv, RateLimitsHold
<1> QED
  BY <1>1, <1>2, <1>3, <1>4, <1>5, <1>6, <1>7, <1>8, <1>9, <1>10, <1>11 DEF IndInv

(* AllowRequest: one more request in the window of the budget.              *)
LEMMA AllowRequestStep ==
  ASSUME IndInv, NEW c \in Conns, AllowRequest(c)
  PROVE  IndInv'
<1> DEFINE p == PeerOf[c]
           b == ResetBudget(budget[p], at[c])
           n == [b EXCEPT !.requests = @ + 1]
           l == LedgerAt(p, b.window)
           m == [l EXCEPT !.requests = @ + 1]
<1>0. /\ TypeOK /\ p \in Peers /\ p \in tracked /\ budget[p] \in Budgets /\ at[c] \in Int
      /\ budget[p].window \in Int /\ ledger[p].window \in Int /\ ledger[p] \in Ledgers
      /\ Minute \in Int /\ Minute > 0
  BY PeersAssumption, TimeAssumption DEF IndInv, TypeOK, AllowRequest, Budgets, Ledgers
<1>b. /\ b \in Budgets /\ b.active = budget[p].active
      /\ \/ b = budget[p] /\ at[c] - budget[p].window < Minute
         \/ /\ at[c] - budget[p].window >= Minute
            /\ b.window = at[c] /\ b.connections = 0 /\ b.requests = 0
  BY <1>0, ResetSound
<1>g. b.requests < RequestsPerMinute /\ b.connections <= ConnectionsPerMinute
  BY <1>0, <1>b, LimitsAssumption DEF AllowRequest, IndInv, CountersBounded
<1>n. /\ n \in Budgets /\ n.active = b.active /\ n.window = b.window
      /\ n.connections = b.connections /\ n.requests = b.requests + 1
  BY <1>b DEF Budgets
<1>a. \/ /\ ledger[p].window = b.window
         /\ ledger[p].connections = b.connections
         /\ ledger[p].requests = b.requests
      \/ /\ b.window - ledger[p].window >= Minute
         /\ b.connections = 0
         /\ b.requests = 0
  <2>1. \/ /\ ledger[p].window = budget[p].window
           /\ ledger[p].connections = budget[p].connections
           /\ ledger[p].requests = budget[p].requests
        \/ /\ budget[p].window - ledger[p].window >= Minute
           /\ budget[p].connections = 0
           /\ budget[p].requests = 0
    BY <1>0 DEF IndInv, LedgerAgrees
  <2> QED
    BY <2>1, <1>0, <1>b
<1>l. /\ l \in Ledgers /\ l.window = b.window
      /\ l.connections = b.connections /\ l.requests = b.requests
  <2>1. b.window \in Int
    BY <1>b DEF Budgets
  <2>2. /\ l \in Ledgers
        /\ \/ l = ledger[p] /\ b.window - ledger[p].window < Minute
           \/ /\ b.window - ledger[p].window >= Minute
              /\ l.window = b.window /\ l.connections = 0 /\ l.requests = 0
    BY <1>0, <2>1, LedgerAtSound
  <2> QED
    BY <2>1, <2>2, <1>a, <1>0
<1>m. /\ m \in Ledgers /\ m.window = l.window
      /\ m.connections = l.connections /\ m.requests = l.requests + 1
  BY <1>l DEF Ledgers
<1>c. /\ count' \in [Conns -> 0 .. MaxRequestsPerSession]
      /\ \A d \in Conns : d # c => count'[d] = count[d]
  BY <1>0, LimitsAssumption DEF AllowRequest, IndInv, SessionCounts, TypeOK
<1>q. /\ n.connections <= ConnectionsPerMinute /\ n.requests <= RequestsPerMinute
      /\ m.connections <= ConnectionsPerMinute /\ m.requests <= RequestsPerMinute
      /\ m.window = n.window /\ m.connections = n.connections /\ m.requests = n.requests
  BY <1>n, <1>g, <1>l, <1>m, <1>b, LimitsAssumption DEF Budgets
<1>t. /\ pc[c] = "requesting" /\ pc' = [pc EXCEPT ![c] = "transferring"]
      /\ budget' = [budget EXCEPT ![PeerOf[c]] = n]
      /\ ledger' = [ledger EXCEPT ![PeerOf[c]] = m]
      /\ UNCHANGED <<at, capacity, tracked, lastPrune, now, serveVars>>
      /\ n.active = budget[PeerOf[c]].active
  BY <1>n, <1>b DEF AllowRequest
<1>u. "transferring" \in SlotStates
  BY DEF SlotStates
<1> HIDE DEF n, m
<1> QED
  BY <1>n, <1>m, <1>c, <1>q, <1>t, <1>u, AllowStep

(* RateLimited: the budget may start a new window all the same.             *)
LEMMA RateLimitedStep ==
  ASSUME IndInv, NEW c \in Conns, RateLimited(c)
  PROVE  IndInv'
<1> DEFINE p == PeerOf[c]
           b == ResetBudget(budget[p], at[c])
           m == ledger[p]
<1>0. /\ TypeOK /\ p \in Peers /\ p \in tracked /\ budget[p] \in Budgets /\ at[c] \in Int
      /\ budget[p].window \in Int /\ m.window \in Int /\ m \in Ledgers
      /\ Minute \in Int /\ Minute > 0
  <2>1. HoldsBudget(c)
    BY DEF RateLimited, HoldsBudget, BudgetStates, WorkerStates, SlotStates
  <2> QED
    BY <2>1, LiveTracked, PeersAssumption, TimeAssumption DEF IndInv, TypeOK, Budgets, Ledgers
<1>b. /\ b \in Budgets /\ b.active = budget[p].active
      /\ \/ b = budget[p] /\ at[c] - budget[p].window < Minute
         \/ /\ at[c] - budget[p].window >= Minute
            /\ b.window = at[c] /\ b.connections = 0 /\ b.requests = 0
  BY <1>0, ResetSound
<1>g. /\ b.requests <= RequestsPerMinute /\ b.connections <= ConnectionsPerMinute
      /\ m.requests <= RequestsPerMinute /\ m.connections <= ConnectionsPerMinute
  BY <1>0, <1>b, LimitsAssumption DEF IndInv, CountersBounded, RateLimitsHold
<1>a. \/ /\ m.window = b.window
         /\ m.connections = b.connections
         /\ m.requests = b.requests
      \/ /\ b.window - m.window >= Minute
         /\ b.connections = 0
         /\ b.requests = 0
  <2>1. \/ /\ m.window = budget[p].window
           /\ m.connections = budget[p].connections
           /\ m.requests = budget[p].requests
        \/ /\ budget[p].window - m.window >= Minute
           /\ budget[p].connections = 0
           /\ budget[p].requests = 0
    BY <1>0 DEF IndInv, LedgerAgrees
  <2> QED
    BY <2>1, <1>0, <1>b
<1>t. /\ pc[c] = "requesting" /\ pc' = [pc EXCEPT ![c] = "unwinding"]
      /\ budget' = [budget EXCEPT ![PeerOf[c]] = b]
      /\ ledger' = [ledger EXCEPT ![PeerOf[c]] = m]
      /\ UNCHANGED <<at, capacity, tracked, lastPrune, now, serveVars>>
      /\ count' \in [Conns -> 0 .. MaxRequestsPerSession]
      /\ \A d \in Conns : d # c => count'[d] = count[d]
  BY <1>0 DEF RateLimited, TypeOK
<1>u. "unwinding" \in SlotStates
  BY DEF SlotStates
<1> HIDE DEF b, m
<1> QED
  BY <1>0, <1>b, <1>g, <1>a, <1>t, <1>u, AllowStep

-----------------------------------------------------------------------------
(* The invariant *)

(* The invariant holds when Serve starts.                                   *)
LEMMA InitInv == Init => IndInv
<1> SUFFICES ASSUME Init PROVE IndInv
  OBVIOUS
<1> USE DEF Init
<1>1. TypeOK
  <2>1. NoBudget \in Budgets /\ NoLedger \in Ledgers
    BY TimeAssumption DEF Budgets, NoBudget, Ledgers, NoLedger, Never
  <2>2. /\ count \in [Conns -> 0 .. MaxRequestsPerSession] /\ now \in 0 .. MaxTime
        /\ lastPrune \in Int
    BY LimitsAssumption, TimeAssumption DEF Never
  <2>3. cancelled \in BOOLEAN /\ listening \in BOOLEAN
    OBVIOUS
  <2> QED
    BY <2>1, <2>2, <2>3 DEF TypeOK, States
<1>2. OneAccepting /\ ServeStages /\ SessionCounts
  BY DEF OneAccepting, ServeStages, SessionCounts, AcceptStates
<1>3. BudgetMatchesConnections
  <2>1. \A p : LiveOf(p) = {}
    BY DEF LiveOf, HoldsBudget, BudgetStates, WorkerStates, SlotStates
  <2> QED
    BY <2>1, FS_EmptySet DEF BudgetMatchesConnections, NoBudget
<1>4. SlotsCounted
  <2>1. InSlots = {}
    BY DEF InSlots, HoldsSlot, SlotStates
  <2> QED
    BY <2>1, FS_EmptySet, LimitsAssumption DEF SlotsCounted
<1>5. CountersBounded /\ RateLimitsHold
  BY LimitsAssumption DEF CountersBounded, RateLimitsHold, NoBudget, NoLedger
<1>6. TableSound
  BY FS_EmptySet, LimitsAssumption DEF TableSound
<1>7. ClockOrder /\ PastTimes
  BY TimeAssumption DEF ClockOrder, PastTimes, Never
<1>8. LedgerAgrees
  BY TimeAssumption DEF LedgerAgrees, NoLedger, Never
<1> QED
  BY <1>1, <1>2, <1>3, <1>4, <1>5, <1>6, <1>7, <1>8 DEF IndInv

(* A stuttering step keeps the invariant.                                   *)
LEMMA StutterStep ==
  ASSUME IndInv, UNCHANGED vars
  PROVE  IndInv'
<1> USE DEF vars, connVars, limiterVars, serveVars
<1>1. TypeOK'
  BY DEF IndInv, TypeOK
<1>2. OneAccepting' /\ BudgetMatchesConnections' /\ SlotsCounted'
  BY PcUntouched DEF IndInv, BudgetMatchesConnections, SlotsCounted
<1>3. ServeStages'
  BY DEF IndInv, ServeStages, AcceptorIdle
<1>4. SessionCounts' /\ ClockOrder' /\ PastTimes'
  BY DEF IndInv, SessionCounts, ClockOrder, PastTimes
<1> QED
  BY <1>1, <1>2, <1>3, <1>4, LimiterUntouched DEF IndInv

(* The invariant is inductive: one step for each action of Next.            *)
LEMMA NextInv == IndInv /\ [Next]_vars => IndInv'
<1> SUFFICES ASSUME IndInv, [Next]_vars PROVE IndInv'
  OBVIOUS
<1>1. ASSUME NEW c \in Conns, Accept(c) PROVE IndInv'
  BY <1>1, AcceptStep
<1>2. ASSUME NEW c \in Conns, AcceptorStep(c) PROVE IndInv'
  BY <1>2, AcquireGrantStep, AcquireRefuseStep, StartWorkerStep, NoCapacityStep DEF AcceptorStep
<1>3. ASSUME NEW c \in Conns, Release(c) PROVE IndInv'
  BY <1>3, ReleaseStep
<1>4. ASSUME NEW c \in Conns, WorkerStep(c) PROVE IndInv'
  BY <1>4, AllowRequestStep, RateLimitedStep, FreeCapacityStep DEF WorkerStep
<1>5. ASSUME NEW c \in Conns, BeginRequest(c) \/ FinishTransfer(c) \/ EndSession(c)
      PROVE  IndInv'
  BY <1>5, SessionStep
<1>6. CASE Cancel \/ CloseListener \/ AcceptFails \/ ServeReturns \/ Tick
  BY <1>6, ServeStep
<1>7. CASE Terminated \/ UNCHANGED vars
  BY <1>7, StutterStep DEF Terminated
<1> QED
  BY <1>1, <1>2, <1>3, <1>4, <1>5, <1>6, <1>7 DEF Next

(* The inductive invariant holds in every reachable state. *)
THEOREM InductiveInvariant == Spec => []IndInv
  BY InitInv, NextInv, PTL DEF Spec

-----------------------------------------------------------------------------
(* What follows from it *)

(* The variables of the limiter, the accept loop and the workers keep their *)
(* types: no counter of limits.go or of the capacity channel underflows.    *)
THEOREM TypeCorrect == Spec => []TypeOK
<1>1. IndInv => TypeOK
  BY DEF IndInv
<1> QED
  BY <1>1, InductiveInvariant, PTL

(* active of every peerBudget is exactly the number of the peer's           *)
(* connections between acquire and release.                                 *)
THEOREM BudgetExact == Spec => []BudgetMatchesConnections
<1>1. IndInv => BudgetMatchesConnections
  BY DEF IndInv
<1> QED
  BY <1>1, InductiveInvariant, PTL

(* Neither the per-peer limit of acquire nor the server-wide limit of the   *)
(* capacity channel is ever exceeded by the goroutines themselves.          *)
THEOREM LimitsRespected == Spec => []ConnectionLimits
<1>1. IndInv => ConnectionLimits
  BY DEF IndInv, ConnectionLimits, BudgetMatchesConnections, CountersBounded, SlotsCounted
<1> QED
  BY <1>1, InductiveInvariant, PTL

(* The pruning of acquire never takes the entry of a peer with a live       *)
(* connection, and the table stays within maxTrackedPeers.                  *)
THEOREM PruningSafe == Spec => []LivePeersTracked
<1>1. IndInv => LivePeersTracked
  <2> SUFFICES ASSUME IndInv PROVE LivePeersTracked
    OBVIOUS
  <2>1. \A c \in Conns : HoldsBudget(c) => PeerOf[c] \in tracked
    BY LiveTracked
  <2>2. Cardinality(tracked) <= MaxTrackedPeers
    BY DEF IndInv, TableSound
  <2> QED
    BY <2>1, <2>2 DEF LivePeersTracked
<1> QED
  BY <1>1, InductiveInvariant, PTL

(* No peer exceeds its connections or requests per minute by reconnecting,  *)
(* by having its entry evicted, or by a clock value read before a reset.    *)
THEOREM RatesRespected == Spec => []RateLimitsHold
<1>1. IndInv => RateLimitsHold
  BY DEF IndInv
<1> QED
  BY <1>1, InductiveInvariant, PTL

(* When Serve has returned, every goroutine has given everything back.      *)
THEOREM DrainedOnReturn == Spec => []ReturnedMeansDrained
<1>1. IndInv => ReturnedMeansDrained
  <2> SUFFICES ASSUME IndInv, serve = "returned"
               PROVE  /\ ~ listening /\ capacity = 0
                      /\ \A c \in Conns : pc[c] = "idle"
                      /\ \A p \in Peers : budget[p].active = 0
    BY DEF ReturnedMeansDrained
  <2>1. ~ listening /\ \A c \in Conns : pc[c] = "idle"
    BY DEF IndInv, ServeStages, AcceptorIdle, TypeOK, States
  <2>2. InSlots = {} /\ \A p : LiveOf(p) = {}
    BY <2>1 DEF InSlots, HoldsSlot, LiveOf, HoldsBudget, BudgetStates, WorkerStates, SlotStates
  <2> QED
    BY <2>1, <2>2, FS_EmptySet DEF IndInv, SlotsCounted, BudgetMatchesConnections
<1> QED
  BY <1>1, InductiveInvariant, PTL

-----------------------------------------------------------------------------
(* What the steps do *)

(* resetBudget never moves a window back or forward by less than a minute,  *)
(* whichever goroutine calls it with whatever stale clock value.            *)
THEOREM WindowsOnlyAdvance == Spec => WindowsAdvance
<1>1. IndInv /\ [Next]_vars => [WindowStep]_vars
  <2> SUFFICES ASSUME IndInv, Next, NEW p \in Peers, p \in tracked, p \in tracked',
                      budget'[p].window # budget[p].window
               PROVE  budget'[p].window >= budget[p].window + Minute
    BY DEF WindowStep, IndInv, TypeOK
  <2>0. budget[p] \in Budgets /\ budget[p].window \in Int /\ Minute \in Int
    BY TimeAssumption DEF IndInv, TypeOK, Budgets
  <2>1. ASSUME NEW c \in Conns, AcquireGrant(c) \/ AcquireRefuse(c)
        PROVE  budget'[p].window >= budget[p].window + Minute
    <3> DEFINE q == PeerOf[c]
    <3>1. at[c] \in Nat /\ at[c] \in Int
      BY DEF IndInv, TypeOK
    <3>2. PICK b : /\ StoreEntry(q, at[c], b)
                   /\ b.window = EntryOf(q, at[c]).window
      BY <2>1 DEF AcquireGrant, AcquireRefuse, WithConnection
    <3>3. CASE p = q /\ HasRoom(q, at[c])
      <4>1. budget'[p].window = EntryOf(p, at[c]).window
        BY <3>2, <3>3 DEF StoreEntry
      <4>2. EntryOf(p, at[c]) = ResetBudget(budget[p], at[c])
        BY DEF EntryOf
      <4>3. ResetBudget(budget[p], at[c]).window # budget[p].window
        BY <4>1, <4>2
      <4>4. /\ at[c] - budget[p].window >= Minute
            /\ ResetBudget(budget[p], at[c]).window = at[c]
        BY <4>3, <2>0, <3>1, ResetSound
      <4> QED
        BY <4>1, <4>2, <4>4, <2>0, <3>1
    <3>4. CASE ~ (p = q /\ HasRoom(q, at[c]))
      <4>1. p \in Kept(q, at[c])
        BY <3>2, <3>4 DEF StoreEntry
      <4>2. budget'[p] = budget[p]
        BY <3>2, <3>4, <4>1 DEF StoreEntry
      <4> QED
        BY <4>2
    <3> QED
      BY <3>3, <3>4
  <2>2. ASSUME NEW c \in Conns, AllowRequest(c) \/ RateLimited(c)
        PROVE  budget'[p].window >= budget[p].window + Minute
    <3>1. at[c] \in Int
      BY DEF IndInv, TypeOK
    <3>2. p = PeerOf[c] /\ budget'[p].window = ResetBudget(budget[p], at[c]).window
      <4>1. CASE AllowRequest(c)
        <5> DEFINE b == ResetBudget(budget[PeerOf[c]], at[c])
        <5>1. budget' = [budget EXCEPT ![PeerOf[c]] = [b EXCEPT !.requests = @ + 1]]
          BY <4>1 DEF AllowRequest
        <5>2. p = PeerOf[c]
          BY <5>1
        <5>3. b \in Budgets
          BY <5>2, <2>0, <3>1, ResetSound
        <5>4. budget'[p] = [b EXCEPT !.requests = @ + 1]
          BY <5>1, <5>2 DEF IndInv, TypeOK
        <5>5. [b EXCEPT !.requests = @ + 1].window = b.window
          BY <5>3 DEF Budgets
        <5> QED
          BY <5>2, <5>4, <5>5
      <4>2. CASE RateLimited(c)
        BY <4>2 DEF RateLimited, IndInv, TypeOK
      <4> QED
        BY <2>2, <4>1, <4>2
    <3>3. ResetBudget(budget[p], at[c]).window # budget[p].window
      BY <3>2
    <3>4. /\ at[c] - budget[p].window >= Minute
          /\ ResetBudget(budget[p], at[c]).window = at[c]
      BY <3>3, <2>0, <3>1, ResetSound
    <3> QED
      BY <3>1, <3>2, <3>4, <2>0
  <2>3. ASSUME NEW c \in Conns, Release(c)
        PROVE  FALSE
    <3>1. \/ budget' = budget
          \/ budget' = [budget EXCEPT ![PeerOf[c]].active = @ - 1]
      BY <2>3 DEF Release
    <3> QED
      BY <3>1, <2>0 DEF IndInv, TypeOK, Budgets
  <2>4. ASSUME UNCHANGED limiterVars
        PROVE  FALSE
    BY <2>4 DEF limiterVars
  <2>5. ASSUME NEW c \in Conns,
               \/ Accept(c) \/ StartWorker(c) \/ NoCapacity(c) \/ BeginRequest(c)
               \/ FreeCapacity(c) \/ FinishTransfer(c) \/ EndSession(c)
        PROVE  UNCHANGED limiterVars
    BY <2>5 DEF Accept, StartWorker, NoCapacity, BeginRequest, FreeCapacity,
                FinishTransfer, EndSession, limiterVars
  <2>6. ASSUME Cancel \/ CloseListener \/ AcceptFails \/ ServeReturns \/ Tick \/ Terminated
        PROVE  UNCHANGED limiterVars
    BY <2>6 DEF Cancel, CloseListener, AcceptFails, ServeReturns, Tick, Terminated,
                vars, limiterVars
  <2> QED
    BY <2>1, <2>2, <2>3, <2>4, <2>5, <2>6 DEF Next, AcceptorStep, WorkerStep
<1> QED
  BY <1>1, InductiveInvariant, PTL DEF Spec, WindowsAdvance

(* acquire refuses a connection only for a reason that holds of the         *)
(* connections and grants themselves.                                       *)
THEOREM RefusalsAreJustified == Spec => RefusalsJustified
<1>1. IndInv /\ [Next]_vars => [RefusalStep]_vars
  <2> SUFFICES ASSUME IndInv, Next, NEW c \in Conns, pc[c] = "accepted", pc'[c] = "idle"
               PROVE  \/ Cardinality(LiveOf(PeerOf[c])) >= MaxConnectionsPerPeer
                      \/ /\ ledger[PeerOf[c]].connections >= ConnectionsPerMinute
                         /\ at[c] - ledger[PeerOf[c]].window < Minute
                      \/ /\ PeerOf[c] \notin tracked /\ TableFull
                         /\ at[c] - lastPrune < Second \/ Evictable(at[c]) = {}
    BY DEF RefusalStep
  <2> DEFINE p == PeerOf[c]
             t == at[c]
  <2>0. /\ TypeOK /\ p \in Peers /\ t \in Nat /\ t >= lastPrune
    BY PeersAssumption DEF IndInv, TypeOK, ClockOrder
  <2>1. AcquireRefuse(c)
    <3>1. ASSUME NEW d \in Conns, d # c
          PROVE  /\ ~ Accept(d) /\ ~ AcceptorStep(d) /\ ~ Release(d) /\ ~ BeginRequest(d)
                 /\ ~ WorkerStep(d) /\ ~ FinishTransfer(d) /\ ~ EndSession(d)
      BY <3>1, <2>0 DEF TypeOK, Accept, AcceptorStep, AcquireGrant, AcquireRefuse, StartWorker,
         NoCapacity, Release, BeginRequest, WorkerStep, AllowRequest, RateLimited,
         FreeCapacity, FinishTransfer, EndSession
    <3>2. /\ ~ Accept(c) /\ ~ Release(c) /\ ~ BeginRequest(c)
          /\ ~ WorkerStep(c) /\ ~ FinishTransfer(c) /\ ~ EndSession(c)
      BY <2>0 DEF TypeOK, Accept, Release, BeginRequest, WorkerStep, AllowRequest, RateLimited,
         FreeCapacity, FinishTransfer, EndSession
    <3>3. ~ (Cancel \/ CloseListener \/ AcceptFails \/ ServeReturns \/ Tick \/ Terminated)
      BY DEF Cancel, CloseListener, AcceptFails, ServeReturns, Tick, Terminated, vars, connVars
    <3>4. AcceptorStep(c)
      BY <3>1, <3>2, <3>3 DEF Next
    <3>5. ~ AcquireGrant(c) /\ ~ StartWorker(c) /\ ~ NoCapacity(c)
      BY <2>0 DEF TypeOK, AcquireGrant, StartWorker, NoCapacity
    <3> QED
      BY <3>4, <3>5 DEF AcceptorStep
  <2>2. ~ Admits(p, t)
    BY <2>1 DEF AcquireRefuse
  <2>3. CASE ~ HasRoom(p, t)
    <3>1. p \notin tracked /\ ~ (Cardinality(Kept(p, t)) < MaxTrackedPeers)
      BY <2>3 DEF HasRoom
    <3>2. Cardinality(Kept(p, t)) <= Cardinality(tracked) /\ Cardinality(tracked) \in Nat
          /\ Cardinality(Kept(p, t)) \in Nat /\ (Kept(p, t) # tracked => Cardinality(Kept(p, t)) # Cardinality(tracked))
      <4>1. IsFiniteSet(tracked) /\ Cardinality(tracked) \in Nat
        BY <2>0, TrackedFinite DEF TypeOK
      <4>2. Kept(p, t) \in SUBSET tracked
        BY DEF Kept
      <4> QED
        BY <4>1, <4>2, FS_Subset, FS_CardinalityType
    <3>3. TableFull /\ Kept(p, t) = tracked
      BY <3>1, <3>2, LimitsAssumption DEF TableFull, IndInv, TableSound
    <3>4. CASE t - lastPrune < Second
      BY <3>1, <3>3, <3>4
    <3>5. CASE ~ (t - lastPrune < Second)
      <4>1. Prunes(p, t)
        BY <3>1, <3>3, <3>5, <2>0, TimeAssumption DEF Prunes, TypeOK
      <4>2. Evictable(t) = {}
        BY <4>1, <3>3 DEF Kept, Evictable
      <4> QED
        BY <4>2, <3>1, <3>3
    <3> QED
      BY <3>4, <3>5
  <2>4. CASE HasRoom(p, t)
    <3>1. /\ EntryOf(p, t) \in Budgets /\ EntryOf(p, t).active = budget[p].active
      BY <2>0, EntrySound DEF IndInv
    <3>2. \/ EntryOf(p, t).active >= MaxConnectionsPerPeer
          \/ EntryOf(p, t).connections >= ConnectionsPerMinute
      BY <2>2, <2>4, <3>1, LimitsAssumption DEF Admits, Budgets
    <3>3. CASE EntryOf(p, t).active >= MaxConnectionsPerPeer
      BY <3>1, <3>3, <2>0 DEF IndInv, BudgetMatchesConnections
    <3>4. CASE EntryOf(p, t).connections >= ConnectionsPerMinute
      <4>1. EntryOf(p, t).connections # 0
        BY <3>4, LimitsAssumption
      <4>2. /\ ledger[p].connections = EntryOf(p, t).connections
            /\ t - ledger[p].window < Minute
        BY <4>1, <2>0, EntryLedger
      <4> QED
        BY <4>2, <3>4
    <3> QED
      BY <3>2, <3>3, <3>4
  <2> QED
    BY <2>3, <2>4
<1> QED
  BY <1>1, InductiveInvariant, PTL DEF Spec, RefusalsJustified

-----------------------------------------------------------------------------
(* Admission implements the connection policy *)

\* The policy counts with the same Cardinality.
LEMMA SameCardinality ==
  ASSUME NEW S
  PROVE  Policy!Cardinality(S) = Cardinality(S)
  BY Zenon DEF Policy!Cardinality, Cardinality

(* The policy and the limiter count the same connections of a peer.         *)
LEMMA SamePeerIsLiveOf ==
  ASSUME NEW c \in Conns
  PROVE  Policy!SamePeer(c) = LiveOf(PeerOf[c])
  BY DEF Policy!SamePeer, Live, LiveOf

\* A step that changes no connection's hold and does not make Serve return is
\* invisible to the policy.
LEMMA PolicyStutter ==
  ASSUME Live' = Live, InSlots' = InSlots, serve' = serve
  PROVE  UNCHANGED Policy!policyVars
  BY DEF Policy!policyVars

(* How the move of one connection changes the policy's live connections.    *)
LEMMA LiveMoves ==
  ASSUME pc \in [Conns -> States], NEW c \in Conns, NEW s, pc' = [pc EXCEPT ![c] = s]
  PROVE  /\ (pc[c] \in BudgetStates <=> s \in BudgetStates) => Live' = Live
         /\ pc[c] \notin BudgetStates /\ s \in BudgetStates => Live' = Live \cup {c}
         /\ pc[c] \in BudgetStates /\ s \notin BudgetStates => Live' = Live \ {c}
  BY DEF Live, HoldsBudget

(* Every step of the server is a step of the policy, or none.               *)
LEMMA SimulationStep == IndInv /\ IndInv' /\ [Next]_vars => [Policy!PolicyNext]_(Policy!policyVars)
<1> SUFFICES ASSUME IndInv, IndInv', [Next]_vars
             PROVE  Policy!PolicyNext \/ UNCHANGED Policy!policyVars
  OBVIOUS
<1> USE DEF BudgetStates, WorkerStates, SlotStates
<1>0. pc \in [Conns -> States]
  BY DEF IndInv, TypeOK
<1>1. ASSUME NEW c \in Conns, AcquireGrant(c)
      PROVE  Policy!Admit(c)
  <2>1. pc[c] = "accepted" /\ pc' = [pc EXCEPT ![c] = "admitted"] /\ serve' = serve
    BY <1>1 DEF AcquireGrant, serveVars
  <2>2. Live' = Live \cup {c} /\ InSlots' = InSlots
    BY <2>1, <1>0, LiveMoves, SlotsSame
  <2>3. c \notin Live
    BY <2>1 DEF Live, HoldsBudget
  <2>4. Policy!Cardinality(Policy!SamePeer(c)) < MaxConnectionsPerPeer
    <3>1. PeerOf[c] \in Peers /\ at[c] \in Nat
      BY PeersAssumption DEF IndInv, TypeOK
    <3>2. EntryOf(PeerOf[c], at[c]).active = budget[PeerOf[c]].active
      BY <3>1, EntrySound DEF IndInv
    <3>3. EntryOf(PeerOf[c], at[c]).active < MaxConnectionsPerPeer
      BY <1>1 DEF AcquireGrant, Admits
    <3> QED
      BY <3>1, <3>2, <3>3, SamePeerIsLiveOf, SameCardinality DEF IndInv, BudgetMatchesConnections
  <2>5. serve # "returned" /\ serve' # "returned"
    BY <2>1 DEF IndInv, ServeStages, AcceptorIdle, AcceptStates
  <2>6. UNCHANGED <<InSlots, serve # "returned">>
    BY <2>1, <2>2
  <2> QED
    BY <2>2, <2>3, <2>4, <2>5, <2>6, Zenon DEF Policy!Admit
<1>2. ASSUME NEW c \in Conns, StartWorker(c)
      PROVE  Policy!Begin(c)
  <2>1. /\ pc[c] = "admitted" /\ pc' = [pc EXCEPT ![c] = "session"] /\ serve' = serve
        /\ capacity < MaxConnections
    BY <1>2 DEF StartWorker, serveVars
  <2>2. Live' = Live /\ InSlots' = InSlots \cup {c}
    BY <2>1, <1>0, LiveMoves, SlotsAdd
  <2>3. c \in Live /\ c \notin InSlots
    BY <2>1 DEF Live, HoldsBudget, InSlots, HoldsSlot
  <2>4. Policy!Cardinality(InSlots) < MaxConnections
    BY <2>1, SameCardinality DEF IndInv, SlotsCounted
  <2>5. c \in Live \ InSlots /\ UNCHANGED <<Live, serve # "returned">>
    BY <2>1, <2>2, <2>3
  <2> QED
    BY <2>2, <2>4, <2>5, Zenon DEF Policy!Begin
<1>3. ASSUME NEW c \in Conns, FreeCapacity(c)
      PROVE  Policy!End(c)
  <2>1. pc[c] = "unwinding" /\ pc' = [pc EXCEPT ![c] = "freed"] /\ serve' = serve
    BY <1>3 DEF FreeCapacity, serveVars
  <2>2. Live' = Live /\ InSlots' = InSlots \ {c}
    BY <2>1, <1>0, LiveMoves, SlotsRemove
  <2>3. c \in InSlots
    BY <2>1 DEF InSlots, HoldsSlot
  <2> QED
    BY <2>1, <2>2, <2>3 DEF Policy!End
<1>4. ASSUME NEW c \in Conns, Release(c)
      PROVE  Policy!Leave(c)
  <2>1. pc[c] \in {"refused", "freed"} /\ pc' = [pc EXCEPT ![c] = "idle"] /\ serve' = serve
    BY <1>4 DEF Release, serveVars
  <2>2. Live' = Live \ {c} /\ InSlots' = InSlots
    <3>1. pc[c] \in BudgetStates /\ "idle" \notin BudgetStates
      BY <2>1
    <3>2. pc[c] \notin SlotStates /\ "idle" \notin SlotStates
      BY <2>1
    <3>3. Live' = Live \ {c}
      BY <2>1, <3>1, <1>0, LiveMoves
    <3>4. InSlots' = InSlots
      BY <2>1, <3>2, <1>0, SlotsSame
    <3> QED
      BY <3>3, <3>4
  <2>3. c \in Live /\ c \notin InSlots
    BY <2>1 DEF Live, HoldsBudget, InSlots, HoldsSlot
  <2> QED
    BY <2>1, <2>2, <2>3 DEF Policy!Leave
<1>5. ASSUME NEW c \in Conns,
             \/ Accept(c) \/ AcquireRefuse(c) \/ NoCapacity(c) \/ BeginRequest(c)
             \/ AllowRequest(c) \/ RateLimited(c) \/ FinishTransfer(c) \/ EndSession(c)
      PROVE  UNCHANGED Policy!policyVars
  <2>1. PICK s : /\ pc' = [pc EXCEPT ![c] = s]
                 /\ pc[c] \in BudgetStates <=> s \in BudgetStates
                 /\ pc[c] \in SlotStates <=> s \in SlotStates
                 /\ serve' = serve
    BY <1>5 DEF Accept, AcquireRefuse, NoCapacity, BeginRequest, AllowRequest, RateLimited,
                FinishTransfer, EndSession, serveVars
  <2>2. Live' = Live /\ InSlots' = InSlots
    BY <2>1, <1>0, LiveMoves, SlotsSame
  <2> QED
    BY <2>1, <2>2, PolicyStutter
<1>6. ASSUME pc' = pc, serve' = serve \/ (serve # "returned" /\ serve' # "returned")
      PROVE  UNCHANGED Policy!policyVars
  BY <1>6 DEF Policy!policyVars, Live, HoldsBudget, InSlots, HoldsSlot
<1>7. CASE Cancel \/ CloseListener \/ AcceptFails \/ Tick \/ Terminated \/ UNCHANGED vars
  BY <1>6, <1>7 DEF Cancel, CloseListener, AcceptFails, Tick, Terminated,
                    vars, connVars, serveVars
<1>8. CASE ServeReturns
  <2>1. pc' = pc /\ serve = "waiting" /\ serve' = "returned"
    BY <1>8 DEF ServeReturns, connVars
  <2>2. \A c \in Conns : pc[c] \notin BudgetStates
    BY <1>8, <2>1, <1>0 DEF ServeReturns, IndInv, ServeStages, AcceptorIdle, AcceptStates
  <2>3. Live = {} /\ Live' = Live /\ InSlots' = InSlots
    BY <2>1, <2>2 DEF Live, HoldsBudget, InSlots, HoldsSlot
  <2> QED
    BY <2>1, <2>3 DEF Policy!Shut, Policy!PolicyNext
<1> QED
  BY <1>1, <1>2, <1>3, <1>4, <1>5, <1>7, <1>8
     DEF Next, AcceptorStep, WorkerStep, Policy!PolicyNext

(* The accept loop, the limiter and the workers implement ConnectionPolicy  *)
(* for every number of connections, peers and limits.                       *)
THEOREM AdmissionImplementsPolicy == Spec => ImplementsPolicy
<1>1. Init => Policy!PolicyInit
  BY DEF Init, Policy!PolicyInit, Live, HoldsBudget, InSlots, HoldsSlot,
         BudgetStates, WorkerStates, SlotStates
<1> QED
  BY <1>1, SimulationStep, InductiveInvariant, PTL
     DEF Spec, ImplementsPolicy, Policy!PolicySpec
=============================================================================
