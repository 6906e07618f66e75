------------------------------- MODULE Session -------------------------------
(***************************************************************************)
(* One DEEP session: client.go (Dial, Session.Fetch, Session.Close, called *)
(* by several goroutines that share the Session) and the conversation the  *)
(* server holds with it (serveConnection and transfer of server.go), over  *)
(* a reliable ordered connection that either side may close and the        *)
(* network may break.                                                      *)
(*                                                                         *)
(* Content is abstract: the k-th unit of the answer to request id is the   *)
(* pair <<id, k>>, a chunk is a sequence of at most MaxChunk units, and a  *)
(* digest is the content it was computed of.  What Exchange does is left   *)
(* to module Exchange.                                                     *)
(***************************************************************************)
EXTENDS Integers, Sequences

CONSTANTS
  Callers,                \* goroutines that share the session
  None,                   \* no goroutine
  IdSpace,                \* number of request IDs with the invalid 0: 2^32
  MaxChunk,               \* units of content in one DATA frame
  Bodies,                 \* what a handler may open: [size, length]
  ClientMaxBytes,
  ServerMaxBytes,
  SessionLimits,          \* values of the server's MaxRequestsPerSession
  MaxCalls                \* bound of the calls made on the session

ASSUME CallersAssumption == None \notin Callers
ASSUME NumbersAssumption ==
  /\ IdSpace \in Nat \ {0, 1}
  /\ MaxChunk \in Nat \ {0}
  /\ Bodies \subseteq [size : Nat, length : Nat]
  /\ ClientMaxBytes \in Nat /\ ServerMaxBytes \in Nat
  /\ SessionLimits \subseteq Nat \ {0} /\ MaxCalls \in Nat

VARIABLES
  \* The client's session
  dial,       \* how far Dial is
  closed,     \* Session.closed
  nextID,     \* Session.nextID
  lock,       \* the holder of Session.mutex
  cOpen,      \* the client has not closed its end of the connection
  straggler,  \* a context callback is running and will close the connection
  \* Its callers
  pc, id, size, got, result,
  done,       \* the context of the call is done
  hook,       \* the call's AfterFunc is registered and has not started
  calls,      \* number of calls made
  \* The dialling goroutine's context and AfterFunc
  dialDone, dialHook,
  \* The server's end
  srv, sOpen, lastID, count, sid, body, total,
  limit,      \* the server's MaxRequestsPerSession, fixed from the start
  \* The connection
  toServer, toClient, broken,
  \* History: the body the handler opened for each request
  opened

dialVars   == <<dial, dialDone, dialHook>>
sessVars   == <<closed, nextID, lock>>
callVars   == <<pc, id, size, got, result, done, hook, calls>>
serverVars == <<srv, sOpen, lastID, count, sid, body, total, limit, opened>>
wireVars   == <<toServer, toClient, broken>>
vars == <<dialVars, sessVars, cOpen, straggler, callVars, serverVars, wireVars>>

Ids == 1 .. (IdSpace - 1)
NoBody == [size |-> 0, length |-> 0]

-----------------------------------------------------------------------------
(* Frames and the connection *)

Hello         == [type |-> "HELLO", id |-> 0]
Welcome       == [type |-> "WELCOME", id |-> 0]
Request(i)    == [type |-> "REQUEST", id |-> i]
Response(i, n) == [type |-> "RESPONSE", id |-> i, size |-> n]
Data(i, b)    == [type |-> "DATA", id |-> i, body |-> b]
End(i, n, d)  == [type |-> "END", id |-> i, size |-> n, digest |-> d]
Error(i, c)   == [type |-> "ERROR", id |-> i, code |-> c]
CloseFrame    == [type |-> "CLOSE", id |-> 0]

\* The units first..last of the answer to request i.
Units(i, first, last) == [k \in 1 .. (last - first + 1) |-> <<i, first + k - 1>>]

\* A write reaches the peer unless the peer or the network is gone.
ToServer(f) == IF sOpen /\ ~ broken THEN Append(toServer, f) ELSE toServer
ToClient(f) == IF cOpen /\ ~ broken THEN Append(toClient, f) ELSE toClient

\* Reading finds the peer's end of stream, or the broken network.
ClientEOF == toClient = <<>> /\ (~ sOpen \/ broken)
ServerEOF == toServer = <<>> /\ (~ cOpen \/ broken)

\* connection.Close on the client: what was not read is gone.
CloseClient == cOpen' = FALSE /\ toClient' = <<>>
\* raw.Close on the server.
CloseServer == sOpen' = FALSE /\ toServer' = <<>> /\ srv' = "gone"

\* A callback that context.AfterFunc started closes the connection, however
\* late: stop() does not wait for it.
StragglerCloses ==
  /\ straggler
  /\ straggler' = FALSE
  /\ CloseClient
  /\ UNCHANGED <<dialVars, sessVars, callVars, serverVars, toServer, broken>>

\* The network fails; a suffix of what was on its way is lost.
NetworkFails ==
  /\ ~ broken /\ dial # "resolving"
  /\ broken' = TRUE
  /\ \E m \in 0 .. Len(toServer), n \in 0 .. Len(toClient) :
       toServer' = SubSeq(toServer, 1, m) /\ toClient' = SubSeq(toClient, 1, n)
  /\ UNCHANGED <<dialVars, sessVars, cOpen, straggler, callVars, serverVars>>

-----------------------------------------------------------------------------
(* Dial *)

\* Everything before the connection exists, and its failures.
DialConnect ==
  /\ dial = "resolving"
  /\ \/ dial' = "failed" /\ UNCHANGED <<cOpen, sOpen, dialHook, straggler, srv>>
     \/ /\ dial' = "handshake" /\ cOpen' = TRUE /\ sOpen' = TRUE /\ srv' = "handshake"
        /\ dialHook' = ~ dialDone /\ straggler' = dialDone
  /\ UNCHANGED <<dialDone, sessVars, callVars, lastID, count, sid, body, total, limit, opened, wireVars>>

\* The timeout passes or the caller cancels while Dial runs.
DialExpires ==
  /\ dial \notin {"ok", "failed"} /\ ~ dialDone
  /\ dialDone' = TRUE
  /\ dialHook' = FALSE /\ straggler' = (straggler \/ dialHook)
  /\ UNCHANGED <<dial, sessVars, cOpen, callVars, serverVars, wireVars>>

\* Any failure of Dial once it has a connection: stop, cancel, raw.Close.
DialFails ==
  /\ dial' = "failed" /\ dialHook' = FALSE
  /\ CloseClient

\* Both sides complete the TLS handshake; the client sends HELLO.
DialHandshake ==
  /\ dial = "handshake" /\ srv = "handshake" /\ cOpen /\ ~ broken
  /\ dial' = "welcome" /\ srv' = "hello"
  /\ toServer' = ToServer(Hello)
  /\ UNCHANGED <<dialDone, dialHook, sessVars, cOpen, straggler, callVars, sOpen, lastID, count,
                 sid, body, total, limit, opened, toClient, broken>>

\* The handshake or a later exchange fails: the connection was closed or
\* broken, or its deadline has passed.
DialError ==
  /\ dial \in {"handshake", "welcome"}
  /\ ~ cOpen \/ dialDone \/ ClientEOF
  /\ DialFails
  /\ UNCHANGED <<dialDone, sessVars, straggler, callVars, serverVars, toServer, broken>>

DialWelcome ==
  /\ dial = "welcome" /\ cOpen /\ toClient # <<>>
  /\ Head(toClient) = Welcome
  /\ toClient' = Tail(toClient)
  /\ dial' = "checking"
  /\ UNCHANGED <<dialDone, dialHook, sessVars, cOpen, straggler, callVars, serverVars, toServer, broken>>

\* The last ctx.Err() of Dial, and the reset of the deadline.
DialCheck ==
  /\ dial = "checking"
  /\ \/ /\ ~ dialDone /\ cOpen
        /\ dial' = "returning" /\ UNCHANGED <<dialHook, cOpen, toClient>>
     \/ /\ dialDone \/ ~ cOpen
        /\ DialFails
  /\ UNCHANGED <<dialDone, sessVars, straggler, callVars, serverVars, toServer, broken>>

\* Dial returns the session: stop() and cancel() run.
DialReturns ==
  /\ dial = "returning"
  /\ dial' = "ok" /\ dialHook' = FALSE
  /\ UNCHANGED <<dialDone, sessVars, cOpen, straggler, callVars, serverVars, wireVars>>

-----------------------------------------------------------------------------
(* Session.Fetch *)

\* A call ends: its AfterFunc is stopped, its lock (if any) is released.
Return(c, r) ==
  /\ pc' = [pc EXCEPT ![c] = "idle"]
  /\ result' = [result EXCEPT ![c] = r]
  /\ hook' = [hook EXCEPT ![c] = FALSE]
  /\ lock' = IF lock = c THEN None ELSE lock

\* Faulty variant: an error leaves the session as it is.
FailCallKeepsSession(c) ==
  /\ Return(c, "failed")
  /\ UNCHANGED <<closed, cOpen, toClient>>

\* A call ends with an error after it took charge of the connection: the
\* deferred function also marks the session closed and closes the connection.
FailCall(c) ==
  /\ Return(c, "failed")
  /\ closed' = TRUE
  /\ CloseClient

\* Faulty variant: Fetch does not care who holds the lock.
FetchBeginUnlocked(c) ==
  /\ dial = "ok" /\ pc[c] = "idle" /\ calls < MaxCalls
  /\ calls' = calls + 1
  /\ done' = [done EXCEPT ![c] = FALSE]
  /\ got' = [got EXCEPT ![c] = <<>>]
  /\ id' = [id EXCEPT ![c] = 0]
  /\ size' = [size EXCEPT ![c] = 0]
  /\ lock' = c /\ pc' = [pc EXCEPT ![c] = "checking"]
  /\ result' = [result EXCEPT ![c] = "none"]
  /\ UNCHANGED <<dialVars, closed, nextID, cOpen, straggler, hook, serverVars, wireVars>>

\* Fetch begins: TryLock.  The caller's context may be done already.
FetchBegin(c) ==
  /\ dial = "ok" /\ pc[c] = "idle" /\ calls < MaxCalls
  /\ calls' = calls + 1
  /\ \E d \in BOOLEAN : done' = [done EXCEPT ![c] = d]
  /\ got' = [got EXCEPT ![c] = <<>>]
  /\ id' = [id EXCEPT ![c] = 0]
  /\ size' = [size EXCEPT ![c] = 0]
  /\ \/ lock # None /\ Return(c, "busy")
     \/ /\ lock = None
        /\ lock' = c /\ pc' = [pc EXCEPT ![c] = "checking"]
        /\ result' = [result EXCEPT ![c] = "none"] /\ UNCHANGED hook
  /\ UNCHANGED <<dialVars, closed, nextID, cOpen, straggler, serverVars, wireVars>>

\* The checks under the lock that leave the session as it is.
FetchRejected(c) ==
  /\ pc[c] = "checking"
  /\ \/ closed /\ Return(c, "closed")
     \/ ~ closed /\ done[c] /\ Return(c, "cancelled")
     \/ ~ closed /\ ~ done[c] /\ nextID = 0 /\ Return(c, "exhausted")
  /\ UNCHANGED <<dialVars, closed, nextID, cOpen, straggler, id, size, got, done, calls,
                 serverVars, wireVars>>

\* Faulty variant: the exhausted ID space is not noticed.
FetchArmsAfterWrap(c) ==
  /\ pc[c] = "checking" /\ ~ closed /\ ~ done[c]
  /\ pc' = [pc EXCEPT ![c] = "sending"]
  /\ hook' = [hook EXCEPT ![c] = TRUE]
  /\ UNCHANGED <<dialVars, sessVars, cOpen, straggler, id, size, got, result, done, calls,
                 serverVars, wireVars>>

\* The checks pass and the AfterFunc is registered.
FetchArms(c) ==
  /\ pc[c] = "checking" /\ ~ closed /\ ~ done[c] /\ nextID # 0
  /\ pc' = [pc EXCEPT ![c] = "sending"]
  /\ hook' = [hook EXCEPT ![c] = TRUE]
  /\ UNCHANGED <<dialVars, sessVars, cOpen, straggler, id, size, got, result, done, calls,
                 serverVars, wireVars>>

\* Faulty variant: a call has no timeout.
NeverExpires(c) == pc[c] = "sending" /\ FALSE /\ UNCHANGED vars

\* The call's timeout passes or its caller cancels: a registered AfterFunc
\* starts in a goroutine of its own.
Expires(c) ==
  /\ pc[c] \notin {"idle", "swapped", "locked", "unlocked"} /\ ~ done[c]
  /\ done' = [done EXCEPT ![c] = TRUE]
  /\ hook' = [hook EXCEPT ![c] = FALSE]
  /\ straggler' = (straggler \/ hook[c])
  /\ UNCHANGED <<dialVars, sessVars, cOpen, pc, id, size, got, result, calls, serverVars, wireVars>>

\* The deadline is set, an ID is taken and the REQUEST is written.
FetchSends(c) ==
  /\ pc[c] = "sending" /\ cOpen
  /\ id' = [id EXCEPT ![c] = nextID]
  /\ nextID' = (nextID + 1) % IdSpace
  /\ toServer' = ToServer(Request(nextID))
  /\ pc' = [pc EXCEPT ![c] = "waiting"]
  /\ UNCHANGED <<dialVars, closed, lock, cOpen, straggler, size, got, result, done, hook, calls,
                 serverVars, toClient, broken>>

\* The frame Fetch reads next.
Incoming(c, state) == pc[c] = state /\ cOpen /\ toClient # <<>>

\* setDeadline, a write, a read or the destination fails: the connection was
\* closed or broken, the deadline has passed, or the writer returns an error.
FetchError(c) ==
  /\ \/ pc[c] = "sending" /\ (~ cOpen \/ done[c] \/ broken)
     \/ pc[c] \in {"waiting", "receiving"} /\ (~ cOpen \/ done[c] \/ ClientEOF)
     \/ Incoming(c, "receiving") /\ Head(toClient).type = "DATA"
     \/ pc[c] = "finishing" /\ (~ cOpen \/ done[c])
  /\ FailCall(c)
  /\ nextID' \in IF pc[c] = "sending" THEN {nextID, (nextID + 1) % IdSpace} ELSE {nextID}
  /\ UNCHANGED <<dialVars, straggler, id, size, got, done, calls, serverVars, toServer, broken>>

FetchResponse(c) ==
  LET f == Head(toClient)
  IN  /\ Incoming(c, "waiting")
      /\ f.type = "RESPONSE" /\ f.id = id[c] /\ f.size <= ClientMaxBytes
      /\ size' = [size EXCEPT ![c] = f.size]
      /\ pc' = [pc EXCEPT ![c] = "receiving"]
      /\ toClient' = Tail(toClient)
      /\ UNCHANGED <<dialVars, sessVars, cOpen, straggler, id, got, result, done, hook, calls,
                     serverVars, toServer, broken>>

FetchData(c) ==
  LET f == Head(toClient)
  IN  /\ Incoming(c, "receiving")
      /\ f.type = "DATA" /\ f.id = id[c]
      /\ Len(f.body) <= size[c] - Len(got[c])
      /\ got' = [got EXCEPT ![c] = @ \o f.body]
      /\ toClient' = Tail(toClient)
      /\ UNCHANGED <<dialVars, sessVars, cOpen, straggler, pc, id, size, result, done, hook, calls,
                     serverVars, toServer, broken>>

\* END agrees with what was announced and received.
Verified(c, f) == Len(got[c]) = size[c] /\ f.size = Len(got[c]) /\ f.digest = got[c]

FetchEnd(c) ==
  LET f == Head(toClient)
  IN  /\ Incoming(c, "receiving")
      /\ f.type = "END" /\ f.id = id[c] /\ Verified(c, f)
      /\ pc' = [pc EXCEPT ![c] = "finishing"]
      /\ toClient' = Tail(toClient)
      /\ UNCHANGED <<dialVars, sessVars, cOpen, straggler, id, size, got, result, done, hook, calls,
                     serverVars, toServer, broken>>

\* Every other frame, an ERROR of the server or a resource above the client's
\* limit makes the call fail.
FetchRefuses(c) ==
  LET f == Head(toClient)
  IN  /\ \/ /\ Incoming(c, "waiting")
            /\ ~ (f.type = "RESPONSE" /\ f.id = id[c] /\ f.size <= ClientMaxBytes)
         \/ /\ Incoming(c, "receiving")
            /\ ~ (f.type = "DATA" /\ f.id = id[c] /\ Len(f.body) <= size[c] - Len(got[c]))
            /\ ~ (f.type = "END" /\ f.id = id[c] /\ Verified(c, f))
      /\ FailCall(c)
      /\ UNCHANGED <<dialVars, nextID, straggler, id, size, got, done, calls, serverVars, toServer, broken>>

\* ctx.Err() is nil and the deadline is cleared: the result is decided.
FetchDecides(c) ==
  /\ pc[c] = "finishing" /\ ~ done[c] /\ cOpen
  /\ pc' = [pc EXCEPT ![c] = "returning"]
  /\ UNCHANGED <<dialVars, sessVars, cOpen, straggler, id, size, got, result, done, hook, calls,
                 serverVars, wireVars>>

\* The deferred calls of a successful Fetch.
FetchReturns(c) ==
  /\ pc[c] = "returning"
  /\ Return(c, "ok")
  /\ UNCHANGED <<dialVars, closed, nextID, cOpen, straggler, id, size, got, done, calls,
                 serverVars, wireVars>>

-----------------------------------------------------------------------------
(* Session.Close *)

\* closed.Swap(true): a second Close returns at once.
CloseBegin(c) ==
  /\ dial = "ok" /\ pc[c] = "idle" /\ calls < MaxCalls
  /\ calls' = calls + 1
  /\ closed' = TRUE
  /\ result' = [result EXCEPT ![c] = "none"]
  /\ pc' = [pc EXCEPT ![c] = IF closed THEN "idle" ELSE "swapped"]
  /\ got' = [got EXCEPT ![c] = <<>>]
  /\ id' = [id EXCEPT ![c] = 0]
  /\ size' = [size EXCEPT ![c] = 0]
  /\ UNCHANGED <<dialVars, nextID, lock, cOpen, straggler, done, hook, serverVars, wireVars>>

CloseTryLock(c) ==
  /\ pc[c] = "swapped"
  /\ \/ lock = None /\ lock' = c /\ pc' = [pc EXCEPT ![c] = "locked"]
     \/ lock # None /\ lock' = lock /\ pc' = [pc EXCEPT ![c] = "unlocked"]
  /\ UNCHANGED <<dialVars, closed, nextID, cOpen, straggler, id, size, got, result, done, hook,
                 calls, serverVars, wireVars>>

\* CLOSE is written if the connection takes it, and the lock is released.
CloseSends(c) ==
  /\ pc[c] = "locked"
  /\ toServer' = IF cOpen THEN ToServer(CloseFrame) ELSE toServer
  /\ lock' = None
  /\ pc' = [pc EXCEPT ![c] = "unlocked"]
  /\ UNCHANGED <<dialVars, closed, nextID, cOpen, straggler, id, size, got, result, done, hook,
                 calls, serverVars, toClient, broken>>

\* Faulty variant: Close relies on the CLOSE frame alone.
CloseLeavesConnection(c) ==
  /\ pc[c] = "unlocked"
  /\ pc' = [pc EXCEPT ![c] = "idle"]
  /\ UNCHANGED <<dialVars, sessVars, cOpen, straggler, id, size, got, result, done, hook, calls,
                 serverVars, wireVars>>

CloseReturns(c) ==
  /\ pc[c] = "unlocked"
  /\ pc' = [pc EXCEPT ![c] = "idle"]
  /\ CloseClient
  /\ UNCHANGED <<dialVars, sessVars, straggler, id, size, got, result, done, hook, calls,
                 serverVars, toServer, broken>>

-----------------------------------------------------------------------------
(* The server's end: serveConnection and transfer *)

\* sendError, and the return that closes the connection.
ServerFails(i, code) ==
  /\ toClient' = ToClient(Error(i, code))
  /\ CloseServer

ServerHello ==
  /\ srv = "hello" /\ toServer # <<>> /\ Head(toServer) = Hello
  /\ toServer' = Tail(toServer)
  /\ toClient' = ToClient(Welcome)
  /\ srv' = "idle"
  /\ UNCHANGED <<dialVars, sessVars, cOpen, straggler, callVars, sOpen, lastID, count, sid, body,
                 total, limit, opened, broken>>

\* The frame the server reads between requests.
Arriving == srv = "idle" /\ toServer # <<>>

\* The codes with which the server may turn down frame f.  Whether the peer
\* is rate limited depends on its other sessions: see module Admission.
Refusals(f) ==
  IF f.type # "REQUEST" \/ f.id <= lastID THEN {"PROTOCOL_ERROR"}
  ELSE IF count >= limit THEN {"SESSION_LIMIT"}
  ELSE {"RATE_LIMITED"}

ServerRefuses ==
  LET f == Head(toServer)
  IN  /\ Arriving /\ f.type # "CLOSE"
      /\ \E code \in Refusals(f) : ServerFails(f.id, code)
      /\ lastID' = IF f.type = "REQUEST" /\ f.id > lastID THEN f.id ELSE lastID
      /\ UNCHANGED <<dialVars, sessVars, cOpen, straggler, callVars, count, sid, body, total,
                     limit, opened, broken>>

ServerAccepts ==
  LET f == Head(toServer)
  IN  /\ Arriving
      /\ f.type = "REQUEST" /\ f.id > lastID /\ count < limit
      /\ toServer' = Tail(toServer)
      /\ lastID' = f.id /\ sid' = f.id
      /\ count' = count + 1
      /\ srv' = "opening"
      /\ UNCHANGED <<dialVars, sessVars, cOpen, straggler, callVars, sOpen, body, total, limit, opened,
                     toClient, broken>>

ServerClosed ==
  /\ Arriving /\ Head(toServer).type = "CLOSE"
  /\ CloseServer
  /\ UNCHANGED <<dialVars, sessVars, cOpen, straggler, callVars, lastID, count, sid, body, total,
                 limit, opened, toClient, broken>>

\* Handler.Open fails, or opens a resource above the server's limit.
ServerCannotOpen ==
  /\ srv = "opening"
  /\ \/ \E code \in {"NOT_FOUND", "INTERNAL_ERROR"} : ServerFails(sid, code)
     \/ /\ \E b \in Bodies : b.size > ServerMaxBytes
        /\ ServerFails(sid, "TOO_LARGE")
  /\ UNCHANGED <<dialVars, sessVars, cOpen, straggler, callVars, lastID, count, sid, body, total,
                 limit, opened, broken>>

ServerOpens ==
  /\ srv = "opening"
  /\ \E b \in Bodies :
       /\ b.size <= ServerMaxBytes
       /\ body' = b
       /\ opened' = [opened EXCEPT ![sid] = b]
       /\ toClient' = ToClient(Response(sid, b.size))
  /\ total' = 0
  /\ srv' = "sending"
  /\ UNCHANGED <<dialVars, sessVars, cOpen, straggler, callVars, sOpen, lastID, count, sid,
                 limit, toServer, broken>>

\* The size of the next read of the copy loop.
ChunkLength == IF body.size - total < MaxChunk THEN body.size - total ELSE MaxChunk

ServerSendsData ==
  /\ srv = "sending" /\ total < body.size
  /\ total + ChunkLength <= body.length
  /\ toClient' = ToClient(Data(sid, Units(sid, total + 1, total + ChunkLength)))
  /\ total' = total + ChunkLength
  /\ UNCHANGED <<dialVars, sessVars, cOpen, straggler, callVars, srv, sOpen, lastID, count, sid,
                 body, limit, opened, toServer, broken>>

\* Faulty variant: END is sent without looking for an extra byte.
EndWithoutProbe ==
  /\ srv = "sending" /\ total = body.size
  /\ toClient' = ToClient(End(sid, total, Units(sid, 1, total)))
  /\ srv' = "idle"
  /\ UNCHANGED <<dialVars, sessVars, cOpen, straggler, callVars, sOpen, lastID, count, sid,
                 body, total, limit, opened, toServer, broken>>

\* The body must end exactly at its announced size.
ServerSendsEnd ==
  /\ srv = "sending" /\ total = body.size
  /\ body.length = total
  /\ toClient' = ToClient(End(sid, total, Units(sid, 1, total)))
  /\ srv' = "idle"
  /\ UNCHANGED <<dialVars, sessVars, cOpen, straggler, callVars, sOpen, lastID, count, sid,
                 body, total, limit, opened, toServer, broken>>

\* The body ends before its announced size, or goes on after it.
ServerFindsChange ==
  /\ srv = "sending"
  /\ \/ total < body.size /\ total + ChunkLength > body.length
     \/ total = body.size /\ body.length > total
  /\ ServerFails(sid, "RESOURCE_CHANGED")
  /\ UNCHANGED <<dialVars, sessVars, cOpen, straggler, callVars, lastID, count, sid, body, total,
                 limit, opened, broken>>

\* The transfer's timeout: either the loop sees ctx.Err() first, or the
\* AfterFunc has closed the body and the next read of it fails.
ServerTimesOut ==
  /\ srv = "sending"
  /\ \E code \in (IF total < body.size THEN {"INTERNAL_ERROR"} ELSE {}) \cup {"RESOURCE_CHANGED"} :
       ServerFails(sid, code)
  /\ UNCHANGED <<dialVars, sessVars, cOpen, straggler, callVars, lastID, count, sid, body, total,
                 limit, opened, broken>>

\* The server returns without a word: end of stream, a failed write, or its
\* handshake, idle or session timeout, or the end of Serve.
ServerGivesUp ==
  /\ srv \notin {"none", "gone"}
  /\ CloseServer
  /\ UNCHANGED <<dialVars, sessVars, cOpen, straggler, callVars, lastID, count, sid, body, total,
                 limit, opened, toClient, broken>>

-----------------------------------------------------------------------------
Init ==
  /\ dial = "resolving" /\ dialDone = FALSE /\ dialHook = FALSE
  /\ closed = FALSE /\ nextID = 1 /\ lock = None
  /\ cOpen = FALSE /\ straggler = FALSE
  /\ pc = [c \in Callers |-> "idle"]
  /\ id = [c \in Callers |-> 0]
  /\ size = [c \in Callers |-> 0]
  /\ got = [c \in Callers |-> <<>>]
  /\ result = [c \in Callers |-> "none"]
  /\ done = [c \in Callers |-> FALSE]
  /\ hook = [c \in Callers |-> FALSE]
  /\ calls = 0
  /\ srv = "none" /\ sOpen = FALSE /\ lastID = 0 /\ count = 0 /\ sid = 0
  /\ body = NoBody /\ total = 0 /\ limit \in SessionLimits
  /\ opened = [i \in Ids |-> NoBody]
  /\ toServer = <<>> /\ toClient = <<>> /\ broken = FALSE

DialStep == DialConnect \/ DialHandshake \/ DialError \/ DialWelcome \/ DialCheck \/ DialReturns

FetchStep(c) ==
  \/ FetchRejected(c) \/ FetchArms(c) \/ FetchSends(c) \/ FetchError(c)
  \/ FetchResponse(c) \/ FetchData(c) \/ FetchEnd(c) \/ FetchRefuses(c)
  \/ FetchDecides(c) \/ FetchReturns(c)

CloseStep(c) == CloseTryLock(c) \/ CloseSends(c) \/ CloseReturns(c)

ServerStep ==
  \/ ServerHello \/ ServerRefuses \/ ServerAccepts \/ ServerClosed
  \/ ServerCannotOpen \/ ServerOpens \/ ServerSendsData \/ ServerSendsEnd
  \/ ServerFindsChange \/ ServerTimesOut \/ ServerGivesUp

\* A read of the server finds that the client has closed the connection and
\* that nothing it sent is left.
ServerReadsEnd ==
  srv \in {"handshake", "hello", "idle"} /\ ~ cOpen /\ toServer = <<>> /\ ServerGivesUp

\* What the server's goroutine does by itself: it handles what arrives, its
\* handler returns, it goes on with an answer, and a read ends.  None of its
\* timeouts is among it.
ServerProceeds ==
  \/ ServerHello \/ ServerRefuses \/ ServerAccepts \/ ServerClosed
  \/ ServerCannotOpen \/ ServerOpens \/ ServerSendsData \/ ServerSendsEnd
  \/ ServerFindsChange \/ ServerReadsEnd

\* Everyone is done: the calls are made and no step of anyone is left.
Finished ==
  /\ dial \in {"ok", "failed"} /\ srv \in {"none", "gone"}
  /\ \A c \in Callers : pc[c] = "idle"
  /\ dial = "ok" => calls = MaxCalls
  /\ UNCHANGED vars

Next ==
  \/ DialStep \/ DialExpires
  \/ \E c \in Callers :
       FetchBegin(c) \/ FetchStep(c) \/ Expires(c) \/ CloseBegin(c) \/ CloseStep(c)
  \/ ServerStep
  \/ StragglerCloses \/ NetworkFails
  \/ Finished

Spec == Init /\ [][Next]_vars

(* A goroutine of the client that can run does, and every call has a        *)
(* timeout, so its context is done eventually.  Nobody has to start a call, *)
(* the server owes the client nothing and the network never has to fail.    *)
ClientFairness ==
  /\ WF_vars(DialStep) /\ WF_vars(DialExpires)
  /\ \A c \in Callers : /\ WF_vars(FetchStep(c))
                        /\ WF_vars(CloseStep(c))
                        /\ WF_vars(Expires(c))
  /\ WF_vars(StragglerCloses)

ClientFairSpec == Spec /\ ClientFairness

-----------------------------------------------------------------------------
(* Properties *)

Results == {"none", "ok", "busy", "closed", "cancelled", "exhausted", "failed"}

(* The variables have their types; nextID stays a request ID or becomes 0. *)
TypeOK ==
  /\ dial \in {"resolving", "handshake", "welcome", "checking", "returning", "ok", "failed"}
  /\ dialDone \in BOOLEAN /\ dialHook \in BOOLEAN
  /\ closed \in BOOLEAN /\ nextID \in 0 .. (IdSpace - 1) /\ lock \in Callers \cup {None}
  /\ cOpen \in BOOLEAN /\ straggler \in BOOLEAN
  /\ pc \in [Callers -> {"idle", "checking", "sending", "waiting", "receiving", "finishing",
                         "returning", "swapped", "locked", "unlocked"}]
  /\ id \in [Callers -> 0 .. (IdSpace - 1)]
  /\ size \in [Callers -> Nat]
  /\ \A c \in Callers : Len(got[c]) <= size[c]
  /\ result \in [Callers -> Results]
  /\ done \in [Callers -> BOOLEAN] /\ hook \in [Callers -> BOOLEAN]
  /\ calls \in 0 .. MaxCalls
  /\ srv \in {"none", "handshake", "hello", "idle", "opening", "sending", "gone"}
  /\ sOpen \in BOOLEAN /\ broken \in BOOLEAN
  /\ lastID \in 0 .. (IdSpace - 1) /\ sid \in 0 .. (IdSpace - 1)
  /\ limit \in SessionLimits /\ count \in 0 .. limit
  /\ opened \in [Ids -> [size : Nat, length : Nat]]

(* A Fetch that reports success has written to its destination exactly the *)
(* content the handler opened for that request, all of it and nothing of   *)
(* any other request, whatever was cancelled, timed out or closed around   *)
(* it on the same session.                                                 *)
DeliveredExactly ==
  \A c \in Callers :
    result[c] = "ok" => /\ id[c] \in Ids
                        /\ got[c] = Units(id[c], 1, opened[id[c]].length)

(* A conforming client never provokes PROTOCOL_ERROR: its goroutines cannot *)
(* make it reuse an ID, wrap around to 0, pipeline, or speak after CLOSE.   *)
NoProtocolError ==
  \A k \in 1 .. Len(toClient) :
    toClient[k].type = "ERROR" => toClient[k].code # "PROTOCOL_ERROR"

(* "Only one request can be active": there is never more than one frame of *)
(* the client on its way, and none while the server works on a request.    *)
ConversationOrdered ==
  /\ Len(toServer) <= 1
  /\ srv \in {"opening", "sending"} => toServer = <<>>

(* A session that may be used again is at rest: nothing of an earlier call *)
(* is on its way in either direction and the server is between requests,   *)
(* so no call can read an answer that was meant for another.               *)
SessionAtRest ==
  dial = "ok" /\ ~ closed /\ lock = None /\ cOpen =>
    toClient = <<>> /\ toServer = <<>> /\ srv \in {"idle", "gone"}

(* Every call on the session returns: Fetch and Close block neither each    *)
(* other nor themselves, whatever the server and the network do.            *)
CallsReturn == \A c \in Callers : pc[c] # "idle" ~> pc[c] = "idle"

(* Once a call has failed, or Close was called, the connection is closed    *)
(* and the server ends its session for that reason, whatever it was doing   *)
(* and without one of its timeouts.  Assumed of it is only that its         *)
(* goroutine runs, that Handler.Open returns and that a read of a           *)
(* connection which the client has closed ends: to get there the server has *)
(* to finish the request it works on and come back to its read.             *)
ServerFollows == WF_vars(ServerProceeds) => (closed ~> (~ cOpen /\ srv = "gone"))

(* "The session can be reused for successful FETCHes of the same authority" *)
(* (client.go): after a successful Fetch, as long as no call has failed and  *)
(* Close was not called, a session between calls has its connection.        *)
ReusableAfterSuccess ==
  /\ \E c \in Callers : result[c] = "ok"
  /\ ~ dialDone /\ ~ closed /\ lock = None
  => cOpen
=============================================================================
