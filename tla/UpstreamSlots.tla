---------------------------- MODULE UpstreamSlots ----------------------------
(***************************************************************************)
(* The concurrency limit of HTTPHandler (http_upstream.go): a request to   *)
(* the local application holds one of the handler's slots, a buffered      *)
(* channel, from before the call until the body of the answer is closed.   *)
(* The body is closed by the server that sends it (exchange of             *)
(* application.go, transfer of server.go), once by the deferred Close and  *)
(* once by the AfterFunc of the context if that is done; by then the slot  *)
(* may belong to another request.                                          *)
(***************************************************************************)
EXTENDS Integers, FiniteSets

CONSTANTS
  Requests,   \* the requests that reach the handler
  Slots       \* capacity of the channel h.slots

ASSUME SlotsAssumption == IsFiniteSet(Requests) /\ Slots \in Nat \ {0}

VARIABLES
  pc,        \* where each request is
  expired,   \* the requests whose context is done
  hook,      \* the AfterFunc that closes the body
  closed,    \* the bodies whose once has run
  used       \* len(h.slots)

slotsVars == <<pc, expired, hook, closed, used>>

Stages == {"new", "waiting", "calling", "returned", "sending", "closing", "done"}
Hooks  == {"none", "armed", "running", "over"}

\* The requests whose answer, a heldBody, has not been closed.
Held == {r \in Requests : pc[r] \in {"returned", "sending", "closing"} /\ r \notin closed}

\* The requests that own a slot.
Owners == {r \in Requests : pc[r] = "calling"} \cup Held

At(r, from, to) == pc[r] = from /\ pc' = [pc EXCEPT ![r] = to]

-----------------------------------------------------------------------------
(* HTTPHandler.Exchange *)

\* The checks of the request: a bad one is refused before it waits for a slot.
Submit(r) ==
  /\ \/ At(r, "new", "waiting")
     \/ At(r, "new", "done")
  /\ UNCHANGED <<expired, hook, closed, used>>

\* select: the send on h.slots.
TakeSlot(r) ==
  /\ At(r, "waiting", "calling")
  /\ used < Slots
  /\ used' = used + 1
  /\ UNCHANGED <<expired, hook, closed>>

\* select: the context is done first.
StopWaiting(r) ==
  /\ At(r, "waiting", "done")
  /\ r \in expired
  /\ UNCHANGED <<expired, hook, closed, used>>

\* As CallFails, but the error return does not give the slot back.
CallFailsHolding(r) ==
  /\ At(r, "calling", "done")
  /\ UNCHANGED <<expired, hook, closed, used>>

\* An error return: the deferred function finds the slot still owned.
CallFails(r) ==
  /\ At(r, "calling", "done")
  /\ used > 0
  /\ used' = used - 1
  /\ UNCHANGED <<expired, hook, closed>>

\* owned = false: from here on the slot belongs to the heldBody.
CallReturns(r) ==
  /\ At(r, "calling", "returned")
  /\ UNCHANGED <<expired, hook, closed, used>>

-----------------------------------------------------------------------------
(* heldBody.Close and the server that closes *)

\* As Close, but without once: every call takes a token out of the channel.
CloseAgain(r) ==
  /\ closed' = closed \cup {r}
  /\ used' = used - 1

\* once.Do(release): the first Close takes a token out of the channel (and
\* would block if there were none), the second does nothing.
Close(r) ==
  \/ r \in closed /\ UNCHANGED <<closed, used>>
  \/ r \notin closed /\ used > 0 /\ closed' = closed \cup {r} /\ used' = used - 1

\* HTTPHandler.Open closes the body of an answer that is not a 200 itself.
OpenRejects(r) ==
  /\ At(r, "returned", "done")
  /\ Close(r)
  /\ UNCHANGED <<expired, hook>>

\* The server registers the AfterFunc; if the context is already done the
\* function starts at once, in a goroutine of its own.
ArmHook(r) ==
  /\ At(r, "returned", "sending")
  /\ hook' = [hook EXCEPT ![r] = IF r \in expired THEN "running" ELSE "armed"]
  /\ UNCHANGED <<expired, closed, used>>

\* The answer is sent or sending it fails; the deferred stop() withdraws the
\* function, unless it has started.
StopHook(r) ==
  /\ At(r, "sending", "closing")
  /\ hook' = [hook EXCEPT ![r] = IF @ = "armed" THEN "over" ELSE @]
  /\ UNCHANGED <<expired, closed, used>>

\* The deferred Close of the server.
CloseBody(r) ==
  /\ At(r, "closing", "done")
  /\ Close(r)
  /\ UNCHANGED <<expired, hook>>

\* The goroutine of the AfterFunc, at any time after it was started.
HookCloses(r) ==
  /\ hook[r] = "running"
  /\ hook' = [hook EXCEPT ![r] = "over"]
  /\ Close(r)
  /\ UNCHANGED <<pc, expired>>

\* The transfer's time is up, or the session or the server ends.
ContextDone(r) ==
  /\ r \notin expired /\ pc[r] # "done"
  /\ expired' = expired \cup {r}
  /\ hook' = [hook EXCEPT ![r] = IF @ = "armed" THEN "running" ELSE @]
  /\ UNCHANGED <<pc, closed, used>>

-----------------------------------------------------------------------------
SlotsInit ==
  /\ pc = [r \in Requests |-> "new"]
  /\ expired = {}
  /\ hook = [r \in Requests |-> "none"]
  /\ closed = {}
  /\ used = 0

\* What the goroutine of request r does next.
Proceed(r) ==
  \/ Submit(r) \/ TakeSlot(r) \/ StopWaiting(r) \/ CallFails(r) \/ CallReturns(r)
  \/ OpenRejects(r) \/ ArmHook(r) \/ StopHook(r) \/ CloseBody(r)

SlotsFinished ==
  /\ \A r \in Requests : pc[r] = "done" /\ hook[r] # "running"
  /\ UNCHANGED slotsVars

SlotsNext ==
  \/ \E r \in Requests : Proceed(r) \/ HookCloses(r) \/ ContextDone(r)
  \/ SlotsFinished

SlotsSpec == SlotsInit /\ [][SlotsNext]_slotsVars

(* Goroutines run, and the call to the local application returns, because   *)
(* its context has a time limit.  Nothing is assumed of the channel's       *)
(* queue: a waiting request may be overtaken.                               *)
FairSlotsSpec ==
  /\ SlotsSpec
  /\ \A r \in Requests : WF_slotsVars(Proceed(r)) /\ WF_slotsVars(HookCloses(r))

-----------------------------------------------------------------------------
(* Properties *)

(* The variables have their types; the channel holds at most Slots tokens. *)
SlotsTypeOK ==
  /\ pc \in [Requests -> Stages]
  /\ expired \subseteq Requests
  /\ hook \in [Requests -> Hooks]
  /\ closed \subseteq Requests
  /\ used \in 0 .. Slots

(* The channel counts the owners: no path through Exchange, Open and the    *)
(* server, and no Close that comes a second time or late, leaks a slot or   *)
(* gives back the slot of another request.                                  *)
SlotsMatchOwners == used = Cardinality(Owners)

(* The local application never sees more than Slots calls at a time, and    *)
(* no more than Slots answers (16 MiB each) are held in memory.             *)
BackendLoadBounded == Cardinality(Owners) <= Slots

(* A Close never waits for a token: release is a receive from the channel,  *)
(* which would block the goroutine, and with it the once, if it were empty. *)
ReleaseNeverBlocks ==
  \A r \in Requests :
    r \notin closed /\ (pc[r] \in {"calling", "returned", "closing"} \/ hook[r] = "running")
      => used > 0

(* The slots are sound: they are counted exactly whatever closes a body and *)
(* when, the local application is never overloaded, and giving a slot back  *)
(* never blocks.                                                            *)
SlotsSound == SlotsMatchOwners /\ BackendLoadBounded /\ ReleaseNeverBlocks

(* Every request is over in the end, and its slot with it: requests that    *)
(* wait for a slot are not stranded by the ones that fail, expire or are    *)
(* closed twice.                                                            *)
AllServed == <>[](used = 0 /\ \A r \in Requests : pc[r] = "done")
=============================================================================
