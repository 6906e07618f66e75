------------------------------ MODULE Exchange ------------------------------
(***************************************************************************)
(* One application request (profile app/1): the command "deep request"     *)
(* (requestResource of cmd/deep/request.go), which calls Session.Exchange  *)
(* and may fall back to FETCH, and the server's exchange, both of          *)
(* application.go.  The session around them is module Session; here the    *)
(* point is the order of upload, verification, handler and answer.         *)
(*                                                                         *)
(* Content is abstract: chunk k of the upload is k, chunk k of the answer  *)
(* of the n-th handler run is <<n, k>>, a digest is the content itself.    *)
(***************************************************************************)
EXTENDS Integers, Sequences

CONSTANTS
  Methods,      \* methods of the request, among GET, HEAD and writes
  Providers,    \* "app": an ApplicationHandler; "files": a ResourceHandler
                \* only; "legacy": a server that predates app/1
  MaxUpload,    \* chunks of the largest upload
  Replies,      \* answers of a handler: [size, length]
  ClientLimit   \* chunks the client accepts

ASSUME ExchangeAssumption ==
  /\ MaxUpload \in Nat /\ ClientLimit \in Nat
  /\ Replies \subseteq [size : Nat, length : Nat]

VARIABLES
  method, upload, provider,      \* the request, and the server it goes to
  op,                            \* the operation under way: EXCHANGE, then perhaps FETCH
  cpc, sent, want, got,          \* the client
  cOpen,                         \* the client's end of the connection is open
  timer,                         \* the call's context: "set", "passed" once it is
                                 \* done, "called" once its callback has run
  spc, received, reply, replied, \* the server
  toServer, toClient, broken,    \* the connection
  runs                           \* history: every call of the handler

requestVars == <<method, upload, provider>>
clientVars  == <<op, cpc, sent, want, got, cOpen, timer>>
serverVars  == <<spc, received, reply, replied, runs>>
vars == <<requestVars, clientVars, serverVars, toServer, toClient, broken>>

BodyFree  == {"GET", "HEAD"}
NoReply   == [size |-> 0, length |-> 0]
Notice    == [size |-> 1, length |-> 1]
Chunks(n) == [k \in 1 .. n |-> k]
Answer(n, len) == [k \in 1 .. len |-> <<n, k>>]
Active    == cpc \notin {"ok", "failed"}

-----------------------------------------------------------------------------
(* The connection *)

ToServer(f) == IF spc # "gone" /\ ~ broken THEN Append(toServer, f) ELSE toServer
ToClient(f) == IF cOpen /\ ~ broken THEN Append(toClient, f) ELSE toClient

NetworkFails ==
  /\ ~ broken /\ Active
  /\ broken' = TRUE
  /\ \E m \in 0 .. Len(toServer), n \in 0 .. Len(toClient) :
       toServer' = SubSeq(toServer, 1, m) /\ toClient' = SubSeq(toClient, 1, n)
  /\ UNCHANGED <<requestVars, clientVars, serverVars>>

-----------------------------------------------------------------------------
(* The client: Session.Exchange and requestResource *)

\* Dial (module Session), and the first REQUEST of the call.
ClientSends ==
  /\ cpc = "start" /\ cOpen
  /\ toServer' = ToServer([type |-> "REQUEST", operation |-> op])
  /\ cpc' = IF op = "EXCHANGE" THEN "continue" ELSE "response"
  /\ UNCHANGED <<requestVars, op, sent, want, got, cOpen, timer, serverVars, toClient, broken>>

\* CONTINUE: the second REQUEST carries the method and the size of the body.
ClientContinues ==
  /\ cpc = "continue" /\ toClient # <<>> /\ Head(toClient).type = "CONTINUE"
  /\ toClient' = Tail(toClient)
  /\ toServer' = ToServer([type |-> "REQUEST", method |-> method, size |-> upload])
  /\ cpc' = "upload"
  /\ UNCHANGED <<requestVars, op, sent, want, got, cOpen, timer, serverVars, broken>>

\* sendBody of the client; it reads nothing until END is sent, and looks at the
\* context before every chunk.
ClientUploads ==
  /\ cpc = "upload" /\ cOpen
  /\ \/ /\ sent < upload /\ timer = "set"
        /\ toServer' = ToServer([type |-> "DATA", body |-> sent + 1])
        /\ sent' = sent + 1 /\ UNCHANGED cpc
     \/ /\ sent = upload
        /\ toServer' = ToServer([type |-> "END", size |-> upload, digest |-> Chunks(upload)])
        /\ cpc' = "response" /\ UNCHANGED sent
  /\ UNCHANGED <<requestVars, op, want, got, cOpen, timer, serverVars, toClient, broken>>

\* A RESPONSE the client accepts: within its limit, and empty for HEAD.
Acceptable(f) == f.size <= ClientLimit /\ (op = "EXCHANGE" /\ method = "HEAD" => f.size = 0)

ClientResponse ==
  LET f == Head(toClient)
  IN  /\ cpc = "response" /\ toClient # <<>>
      /\ f.type = "RESPONSE" /\ Acceptable(f)
      /\ want' = f.size
      /\ cpc' = "receiving"
      /\ toClient' = Tail(toClient)
      /\ UNCHANGED <<requestVars, op, sent, got, cOpen, timer, serverVars, toServer, broken>>

\* receiveBody of the client: a verified END counts if the context is not done.
ClientReceives ==
  LET f == Head(toClient)
  IN  /\ cpc = "receiving" /\ toClient # <<>>
      /\ \/ /\ f.type = "DATA" /\ Len(got) < want
            /\ got' = Append(got, f.body) /\ UNCHANGED <<cpc, cOpen>>
         \/ /\ f.type = "END" /\ Len(got) = want /\ f.size = want /\ f.digest = got
            /\ timer = "set"
            /\ cpc' = "ok" /\ cOpen' = FALSE /\ UNCHANGED got
      /\ toClient' = Tail(toClient)
      /\ UNCHANGED <<requestVars, op, sent, want, timer, serverVars, toServer, broken>>

\* The call returned an error and its connection is closed.
CallFailed ==
  /\ cpc' = "failed" /\ cOpen' = FALSE
  /\ toClient' = <<>>
  /\ UNCHANGED <<op, sent, want, got, timer>>

\* The time limit of the call passes, or its caller cancels it.
CallExpires ==
  /\ Active /\ timer = "set"
  /\ timer' = "passed"
  /\ UNCHANGED <<requestVars, op, cpc, sent, want, got, cOpen, serverVars, toServer, toClient, broken>>

\* As CallbackCloses, but the callback only cancels and closes nothing.
CallbackCancels ==
  /\ Active /\ timer = "passed"
  /\ timer' = "called"
  /\ UNCHANGED <<requestVars, op, cpc, sent, want, got, cOpen, serverVars, toServer, toClient, broken>>

\* The callback of context.AfterFunc, on a goroutine of its own.
CallbackCloses ==
  /\ Active /\ timer = "passed"
  /\ timer' = "called"
  /\ cOpen' = FALSE /\ toClient' = <<>>
  /\ UNCHANGED <<requestVars, op, cpc, sent, want, got, serverVars, toServer, broken>>

\* Dial fails, or a read or write does: on a connection that was closed, whose
\* deadline has passed, or whose other end or network is gone.
ClientFails ==
  /\ Active
  /\ cpc = "start" \/ ~ cOpen \/ timer # "set" \/ spc = "gone" \/ broken
  /\ CallFailed
  /\ UNCHANGED <<requestVars, serverVars, toServer, broken>>

\* As FallsBack, but for every method.
FallsBackAlways(code) == op = "EXCHANGE" /\ code = "UNSUPPORTED_OPERATION"

\* requestResource: a GET whose EXCHANGE was answered by this error code goes
\* on with FETCH, on a new connection, with a new time limit and an empty buffer.
FallsBack(code) == op = "EXCHANGE" /\ method = "GET" /\ code = "UNSUPPORTED_OPERATION"

ClientFallsBack ==
  /\ cpc \in {"continue", "response", "receiving"} /\ toClient # <<>>
  /\ Head(toClient).type = "ERROR" /\ FallsBack(Head(toClient).code)
  /\ op' = "FETCH" /\ cpc' = "start" /\ cOpen' = TRUE /\ timer' = "set"
  /\ sent' = 0 /\ want' = 0 /\ got' = <<>>
  /\ spc' = "idle" /\ received' = <<>> /\ reply' = NoReply /\ replied' = 0
  /\ toServer' = <<>> /\ toClient' = <<>> /\ broken' = FALSE
  /\ UNCHANGED <<requestVars, runs>>

\* Any other ERROR, or an unacceptable RESPONSE, is the command's error.
ClientRefused ==
  LET f == Head(toClient)
  IN  /\ cpc \in {"continue", "response", "receiving"} /\ toClient # <<>>
      /\ \/ f.type = "ERROR" /\ ~ FallsBack(f.code)
         \/ f.type = "RESPONSE" /\ ~ Acceptable(f)
      /\ CallFailed
      /\ UNCHANGED <<requestVars, serverVars, toServer, broken>>

-----------------------------------------------------------------------------
(* The server: serveConnection, exchange and transfer *)

\* sendError, and the return that closes the connection.
ServerFails(code) ==
  /\ toClient' = ToClient([type |-> "ERROR", code |-> code])
  /\ spc' = "gone" /\ toServer' = <<>>

ServerRequest ==
  /\ spc = "idle" /\ toServer # <<>>
  /\ \/ /\ op = "EXCHANGE" /\ provider = "legacy"
        /\ ServerFails("UNSUPPORTED_OPERATION")
     \/ /\ op = "EXCHANGE" /\ provider # "legacy"
        /\ toServer' = Tail(toServer)
        /\ toClient' = ToClient([type |-> "CONTINUE"])
        /\ spc' = "metadata"
     \/ /\ op = "FETCH"
        /\ toServer' = Tail(toServer)
        /\ spc' = "opening" /\ UNCHANGED toClient
  /\ UNCHANGED <<requestVars, clientVars, received, reply, replied, runs, broken>>

ServerMetadata ==
  /\ spc = "metadata" /\ toServer # <<>> /\ Head(toServer).type = "REQUEST"
  /\ toServer' = Tail(toServer)
  /\ spc' = "upload"
  /\ UNCHANGED <<requestVars, clientVars, received, reply, replied, runs, toClient, broken>>

\* As ServerReceives, but the end of the stream ends the upload too.
ServerReceivesPart ==
  LET f == Head(toServer)
  IN  /\ spc = "upload"
      /\ \/ toServer # <<>> /\ f.type = "DATA" /\ Len(received) < upload
            /\ received' = Append(received, f.body)
            /\ toServer' = Tail(toServer) /\ UNCHANGED spc
         \/ /\ broken \/ ~ cOpen
            /\ toServer = <<>>
            /\ spc' = "handling" /\ UNCHANGED <<received, toServer>>
      /\ UNCHANGED <<requestVars, clientVars, reply, replied, runs, toClient, broken>>

\* receiveBody of the server: the handler waits for a verified END.
ServerReceives ==
  LET f == Head(toServer)
  IN  /\ spc = "upload" /\ toServer # <<>>
      /\ \/ f.type = "DATA" /\ Len(received) < upload /\ received' = Append(received, f.body)
            /\ UNCHANGED spc
         \/ /\ f.type = "END" /\ Len(received) = upload
            /\ f.size = upload /\ f.digest = received
            /\ spc' = "handling" /\ UNCHANGED received
      /\ toServer' = Tail(toServer)
      /\ UNCHANGED <<requestVars, clientVars, reply, replied, runs, toClient, broken>>

\* The handler is called: Exchange of an application, or Open.
Run == Append(runs, [op |-> op, method |-> method, body |-> received])

HandlerAnswers ==
  /\ spc = "opening" \/ (spc = "handling" /\ (provider = "app" \/ method \in BodyFree))
  /\ runs' = Run
  /\ \E r \in Replies :
       LET shown == IF spc = "handling" /\ method = "HEAD" THEN NoReply ELSE r
       IN  /\ reply' = shown
           /\ toClient' = ToClient([type |-> "RESPONSE", size |-> shown.size])
  /\ spc' = "sending" /\ replied' = 0
  /\ UNCHANGED <<requestVars, clientVars, received, toServer, broken>>

HandlerFails ==
  /\ spc = "opening" \/ (spc = "handling" /\ (provider = "app" \/ method \in BodyFree))
  /\ runs' = Run
  /\ \E code \in {"NOT_FOUND", "INTERNAL_ERROR", "UNSUPPORTED_OPERATION"} :
       ServerFails(code)
  /\ UNCHANGED <<requestVars, clientVars, received, reply, replied, broken>>

\* A write to a server without an application is answered 405, with a line of
\* text for its body, by the server itself.
MethodNotAllowed ==
  /\ spc = "handling" /\ provider # "app" /\ method \notin BodyFree
  /\ reply' = Notice /\ replied' = 0
  /\ toClient' = ToClient([type |-> "RESPONSE", size |-> Notice.size])
  /\ spc' = "sending"
  /\ UNCHANGED <<requestVars, clientVars, received, runs, toServer, broken>>

\* sendBody of the server (and the copy loop of transfer).
ServerSendsData ==
  /\ spc = "sending" /\ replied < reply.size /\ replied < reply.length
  /\ toClient' = ToClient([type |-> "DATA", body |-> <<Len(runs), replied + 1>>])
  /\ replied' = replied + 1
  /\ UNCHANGED <<requestVars, clientVars, spc, received, reply, runs, toServer, broken>>

\* As ServerSendsEnd, but without the probe for one more byte.
EndWithoutProbe ==
  /\ spc = "sending" /\ replied = reply.size
  /\ toClient' = ToClient([type |-> "END", size |-> replied, digest |-> Answer(Len(runs), replied)])
  /\ spc' = "idle"
  /\ UNCHANGED <<requestVars, clientVars, received, reply, replied, runs, toServer, broken>>

ServerSendsEnd ==
  /\ spc = "sending" /\ replied = reply.size /\ replied = reply.length
  /\ toClient' = ToClient([type |-> "END", size |-> replied, digest |-> Answer(Len(runs), replied)])
  /\ spc' = "idle"
  /\ UNCHANGED <<requestVars, clientVars, received, reply, replied, runs, toServer, broken>>

ServerFindsChange ==
  /\ spc = "sending"
  /\ \/ replied < reply.size /\ replied = reply.length
     \/ replied = reply.size /\ replied < reply.length
  /\ ServerFails("RESOURCE_CHANGED")
  /\ UNCHANGED <<requestVars, clientVars, received, reply, replied, runs, broken>>

\* The transfer times out and the error is still delivered.
ServerTimesOut ==
  /\ spc \in {"metadata", "upload", "sending"}
  /\ ServerFails("INTERNAL_ERROR")
  /\ UNCHANGED <<requestVars, clientVars, received, reply, replied, runs, broken>>

\* End of stream, a failed write, a session timeout or the end of Serve.
ServerGivesUp ==
  /\ spc # "gone"
  /\ spc' = "gone" /\ toServer' = <<>>
  /\ UNCHANGED <<requestVars, clientVars, received, reply, replied, runs, toClient, broken>>

-----------------------------------------------------------------------------
Init ==
  /\ method \in Methods /\ provider \in Providers
  /\ upload \in IF method \in BodyFree THEN {0} ELSE 0 .. MaxUpload
  /\ op = "EXCHANGE" /\ cpc = "start" /\ sent = 0 /\ want = 0 /\ got = <<>>
  /\ cOpen = TRUE /\ timer = "set"
  /\ spc = "idle" /\ received = <<>> /\ reply = NoReply /\ replied = 0
  /\ toServer = <<>> /\ toClient = <<>> /\ broken = FALSE
  /\ runs = <<>>

ClientStep ==
  \/ ClientSends \/ ClientContinues \/ ClientUploads \/ ClientResponse \/ ClientReceives
  \/ ClientFallsBack \/ ClientRefused

ServerStep ==
  \/ ServerRequest \/ ServerMetadata \/ ServerReceives
  \/ HandlerAnswers \/ HandlerFails \/ MethodNotAllowed
  \/ ServerSendsData \/ ServerSendsEnd \/ ServerFindsChange \/ ServerTimesOut \/ ServerGivesUp

Finished == ~ Active /\ spc = "gone" /\ UNCHANGED vars

Next ==
  \/ ClientStep \/ CallExpires \/ CallbackCloses \/ ClientFails \/ ServerStep
  \/ NetworkFails \/ Finished

Spec == Init /\ [][Next]_vars

(* Time passes, the goroutine of a callback runs, and a read or write of a  *)
(* closed connection returns.  Nothing is assumed of the server, of the     *)
(* network, or of a read or write of a connection that is still open.       *)
FairSpec ==
  Spec /\ WF_vars(CallExpires) /\ WF_vars(CallbackCloses) /\ WF_vars(~ cOpen /\ ClientFails)

-----------------------------------------------------------------------------
(* Properties *)

(* The variables have their types. *)
TypeOK ==
  /\ op \in {"EXCHANGE", "FETCH"}
  /\ cpc \in {"start", "continue", "upload", "response", "receiving", "ok", "failed"}
  /\ sent \in 0 .. upload /\ want \in Nat /\ Len(got) <= want
  /\ spc \in {"idle", "metadata", "upload", "handling", "opening", "sending", "gone"}
  /\ Len(received) <= upload /\ replied \in 0 .. reply.size
  /\ cOpen \in BOOLEAN /\ broken \in BOOLEAN /\ timer \in {"set", "passed", "called"}

(* "Never retry a write": whatever fails, times out or gets lost, and       *)
(* whichever errors the server reports, the handler is called at most once  *)
(* for a request that is not a GET.                                         *)
WritesRunOnce == method # "GET" => Len(runs) <= 1

(* A handler only ever sees the complete upload of the client: a truncated, *)
(* cancelled or timed out upload never reaches it.                          *)
HandlerSeesWholeUpload ==
  \A n \in 1 .. Len(runs) : runs[n].op = "EXCHANGE" => runs[n].body = Chunks(upload)

(* When the command succeeds its output is the complete answer of the last  *)
(* handler run (nothing for HEAD, the notice of a refused write), and what  *)
(* an application answers was run by it: success is never reported for a    *)
(* request that was not executed.                                           *)
SuccessMeansServed ==
  cpc = "ok" =>
    /\ got = Answer(Len(runs), reply.length) /\ reply.length = reply.size
    /\ method = "HEAD" /\ op = "EXCHANGE" => got = <<>>
    /\ provider = "app" => runs # <<>> /\ runs[Len(runs)].op = op

(* The request is answered or fails.  At whichever point the server stops   *)
(* answering or reading, and in whichever read or write the call is         *)
(* blocked, the end of the context reaches it through the callback that     *)
(* closes its connection (application.go:215), again for a FETCH after the  *)
(* fallback, which has a limit and a callback of its own.                   *)
CommandEnds == <>(cpc \in {"ok", "failed"})
=============================================================================
