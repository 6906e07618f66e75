------------------------------ MODULE AppProofs ------------------------------
(***************************************************************************)
(* Proofs about the application profile: Exchange, for any methods,        *)
(* uploads and answers and any limit of the client, and UpstreamSlots, for *)
(* any finite set of requests and any number of slots.                     *)
(***************************************************************************)
EXTENDS Exchange, UpstreamSlots, SequenceTheorems, FiniteSetTheorems, TLAPS

Ops == {"EXCHANGE", "FETCH"}

\* The client has not sent all of its request.
Uploading == {"start", "continue", "upload"}

Codes == {"UNSUPPORTED_OPERATION", "NOT_FOUND", "INTERNAL_ERROR", "RESOURCE_CHANGED"}

\* What the client sends.
ClientFrames ==
  {[type |-> "REQUEST", operation |-> o] : o \in Ops}
    \cup {[type |-> "REQUEST", method |-> m, size |-> n] : m \in Methods, n \in Nat}
    \cup {[type |-> "DATA", body |-> n] : n \in Nat}
    \cup {[type |-> "END", size |-> n, digest |-> Chunks(n)] : n \in Nat}

\* What a server sends.
ServerFrames ==
  {[type |-> "CONTINUE"]} \cup {[type |-> "RESPONSE", size |-> n] : n \in Nat}
    \cup {[type |-> "DATA", body |-> b] : b \in Nat \X Nat}
    \cup {[type |-> "END", size |-> n, digest |-> Answer(m, n)] : m \in Nat, n \in Nat}
    \cup {[type |-> "ERROR", code |-> c] : c \in Codes}

Types ==
  /\ method \in Methods /\ upload \in Nat /\ op \in Ops
  /\ cpc \in {"start", "continue", "upload", "response", "receiving", "ok", "failed"}
  /\ sent \in Nat /\ want \in Nat
  /\ spc \in {"idle", "metadata", "upload", "handling", "opening", "sending", "gone"}
  /\ received \in Seq(Nat) /\ reply \in [size : Nat, length : Nat] /\ replied \in Nat
  /\ runs \in Seq([op : Ops, method : Methods, body : Seq(Nat)])
  /\ toServer \in Seq(ClientFrames) /\ toClient \in Seq(ServerFrames)

(* Only a GET goes on with FETCH, and nothing is accepted as the content of *)
(* HEAD.                                                                    *)
ClientInv ==
  /\ cpc \in {"continue", "upload"} => op = "EXCHANGE"
  /\ op = "FETCH" => method = "GET"
  /\ cpc = "start" => spc \in {"idle", "gone"} /\ toServer = <<>> /\ toClient = <<>>
  /\ cpc = "receiving" /\ op = "EXCHANGE" /\ method = "HEAD" => want = 0

\* What an application answers was run by it.
Ran == provider = "app" => runs # <<>> /\ runs[Len(runs)].op = op

(* The server calls the handler once it has read the whole request, of      *)
(* which it then finds nothing more on the connection.                      *)
ServerInv ==
  /\ spc \in {"metadata", "upload", "handling"} => op = "EXCHANGE" /\ runs = <<>>
  /\ spc = "opening" => op = "FETCH"
  /\ spc \in {"handling", "opening", "sending"} => toServer = <<>> /\ cpc \notin Uploading
  /\ spc = "handling" => received = Chunks(upload)
  /\ spc = "sending" => Ran
  /\ spc = "idle" => /\ cpc # "upload"
                     /\ \/ toServer = <<>>
                        \/ toServer = <<[type |-> "REQUEST", operation |-> op]>>
  /\ spc = "idle" /\ (cpc \in Uploading \/ toServer # <<>>) =>
       toClient = <<>> /\ (op = "EXCHANGE" => runs = <<>>)

(* END is the last frame of an upload, and has the digest of all of it. *)
UploadInv ==
  \A k \in 1 .. Len(toServer) :
    toServer[k].type = "END" =>
      k = Len(toServer) /\ cpc \notin Uploading /\ toServer[k].digest = Chunks(upload)

\* The answer was sent and nothing happens after it.
Served == cpc \notin Uploading /\ toServer = <<>> /\ spc \in {"idle", "gone"} /\ Ran

(* END is sent after the answer, and has the digest of all of it. *)
EndInv ==
  \A k \in 1 .. Len(toClient) :
    LET f == toClient[k]
    IN  f.type = "END" => /\ Served
                          /\ f.digest = Answer(Len(runs), reply.length)
                          /\ f.size = reply.length /\ reply.length = reply.size

OkInv ==
  cpc = "ok" => /\ Served
                /\ got = Answer(Len(runs), reply.length) /\ reply.length = reply.size
                /\ method = "HEAD" /\ op = "EXCHANGE" => reply.length = 0

(* EXCHANGE calls the handler once, with the whole upload. *)
RunsInv == (op = "EXCHANGE" => Len(runs) <= 1) /\ HandlerSeesWholeUpload

IndInv ==
  Types /\ ClientInv /\ ServerInv /\ UploadInv /\ EndInv /\ OkInv /\ RunsInv

-----------------------------------------------------------------------------
(* Frames and the connection *)

(* The content of a DATA frame of the client is a chunk. *)
LEMMA DataFrame ==
  ASSUME NEW f \in ClientFrames, f.type = "DATA"
  PROVE  f.body \in Nat
BY DEF ClientFrames

(* The size that a RESPONSE announces is a number. *)
LEMMA ResponseFrame ==
  ASSUME NEW f \in ServerFrames, f.type = "RESPONSE"
  PROVE  f.size \in Nat
BY DEF ServerFrames

(* A write of the client adds its frame at the end, or nothing. *)
LEMMA ToServerAdds ==
  ASSUME Types, NEW f \in ClientFrames, toServer' = ToServer(f)
  PROVE  /\ toServer' \in Seq(ClientFrames)
         /\ \/ toServer' = toServer
            \/ /\ spc # "gone"
               /\ Len(toServer') = Len(toServer) + 1 /\ toServer'[Len(toServer) + 1] = f
               /\ \A k \in 1 .. Len(toServer) : toServer'[k] = toServer[k]
<1>1. toServer \in Seq(ClientFrames)
  BY DEF Types
<1>2. toServer' = toServer \/ (spc # "gone" /\ toServer' = Append(toServer, f))
  BY DEF ToServer
<1> QED
  BY <1>1, <1>2

(* A write of the server adds its frame at the end, or nothing. *)
LEMMA ToClientAdds ==
  ASSUME Types, NEW f \in ServerFrames, toClient' = ToClient(f)
  PROVE  /\ toClient' \in Seq(ServerFrames)
         /\ \/ toClient' = toClient
            \/ /\ Len(toClient') = Len(toClient) + 1 /\ toClient'[Len(toClient) + 1] = f
               /\ \A k \in 1 .. Len(toClient) : toClient'[k] = toClient[k]
<1>1. toClient \in Seq(ServerFrames)
  BY DEF Types
<1>2. toClient' = toClient \/ toClient' = Append(toClient, f)
  BY DEF ToClient
<1> QED
  BY <1>1, <1>2

(* A client that has not sent all of its request adds a frame to it. *)
LEMMA UploadAdds ==
  ASSUME Types, UploadInv, cpc \in Uploading, NEW f \in ClientFrames, toServer' = ToServer(f),
         upload' = upload,
         f.type = "END" => cpc' \notin Uploading /\ f.digest = Chunks(upload)
  PROVE  UploadInv' /\ toServer' \in Seq(ClientFrames)
<1>1. \A k \in 1 .. Len(toServer) : toServer[k].type # "END"
  BY DEF UploadInv
<1>2. toServer \in Seq(ClientFrames) /\ Len(toServer) \in Nat
  BY DEF Types
<1>3. /\ toServer' \in Seq(ClientFrames)
      /\ \/ toServer' = toServer
         \/ /\ Len(toServer') = Len(toServer) + 1 /\ toServer'[Len(toServer) + 1] = f
            /\ \A k \in 1 .. Len(toServer) : toServer'[k] = toServer[k]
  BY ToServerAdds
<1>4. ASSUME NEW k \in 1 .. Len(toServer'), toServer'[k].type = "END"
      PROVE  k = Len(toServer') /\ toServer'[k] = f
  BY <1>1, <1>2, <1>3, <1>4
<1> QED
  BY <1>3, <1>4 DEF UploadInv

(* An upload that is on its way stays what it is. *)
LEMMA UploadKept ==
  ASSUME UploadInv, toServer' \in {toServer, <<>>}, upload' = upload,
         cpc' = cpc \/ cpc' \notin Uploading
  PROVE  UploadInv'
BY DEF UploadInv

(* Reading a frame leaves the others. *)
LEMMA UploadTail ==
  ASSUME Types, UploadInv, toServer # <<>>, toServer' = Tail(toServer), upload' = upload,
         cpc' = cpc
  PROVE  UploadInv' /\ toServer' \in Seq(ClientFrames)
<1>1. toServer \in Seq(ClientFrames)
  BY DEF Types
<1>2. /\ toServer' \in Seq(ClientFrames) /\ Len(toServer') = Len(toServer) - 1
      /\ \A k \in 1 .. Len(toServer') : toServer'[k] = toServer[k + 1]
  BY <1>1
<1>3. Len(toServer) \in Nat /\ Len(toServer') \in Nat
  BY <1>1, <1>2
<1>4. \A n, m \in Nat : m = n - 1 =>
        \A k \in 1 .. m : k + 1 \in 1 .. n /\ (k + 1 = n => k = m)
  OBVIOUS
<1>5. \A k \in 1 .. Len(toServer') :
        k + 1 \in 1 .. Len(toServer) /\ (k + 1 = Len(toServer) => k = Len(toServer'))
  BY ONLY <1>2, <1>3, <1>4
<1> QED
  BY <1>2, <1>5 DEF UploadInv

(* A suffix that is lost takes END with it. *)
LEMMA UploadPrefix ==
  ASSUME Types, UploadInv, NEW n \in 0 .. Len(toServer), toServer' = SubSeq(toServer, 1, n),
         upload' = upload, cpc' = cpc
  PROVE  UploadInv' /\ toServer' \in Seq(ClientFrames)
<1>1. toServer \in Seq(ClientFrames)
  BY DEF Types
<1>2. /\ toServer' \in Seq(ClientFrames) /\ Len(toServer') = n
      /\ \A k \in 1 .. n : toServer'[k] = toServer[k]
  BY <1>1
<1> QED
  BY <1>1, <1>2 DEF UploadInv

\* No END of the server is on its way.
NoEnd == \A k \in 1 .. Len(toClient) : toClient[k].type # "END"

(* Before the whole answer was sent, no END is on its way. *)
LEMMA NoEndYet ==
  ASSUME EndInv, ~ Served
  PROVE  NoEnd
BY DEF EndInv, NoEnd

(* Any other frame than END leaves none on its way. *)
LEMMA EndOther ==
  ASSUME Types, NoEnd, NEW f \in ServerFrames, f.type # "END", toClient' = ToClient(f)
  PROVE  EndInv' /\ toClient' \in Seq(ServerFrames)
<1>1. toClient \in Seq(ServerFrames)
  BY DEF Types
<1> QED
  BY <1>1, ToClientAdds DEF EndInv, NoEnd

(* An empty connection carries no END. *)
LEMMA EndEmpty ==
  ASSUME toClient' = <<>>
  PROVE  EndInv' /\ toClient' \in Seq(ServerFrames)
BY DEF EndInv

\* What an END on its way is about is left alone.
AnswerStays ==
  /\ UNCHANGED <<provider, op, runs, reply>>
  /\ toServer' \in {toServer, <<>>} /\ spc' \in {spc, "gone"}
  /\ cpc' = cpc \/ cpc' \notin Uploading

(* Once the answer was sent it stays so. *)
LEMMA ServedStays ==
  ASSUME Served, AnswerStays
  PROVE  Served'
BY DEF Served, AnswerStays, Ran

(* Frames are read in order, and what the network loses is a suffix. *)
LEMMA EndKept ==
  ASSUME Types, EndInv, AnswerStays,
         \/ toClient' = toClient
         \/ toClient # <<>> /\ toClient' = Tail(toClient)
         \/ \E n \in 0 .. Len(toClient) : toClient' = SubSeq(toClient, 1, n)
  PROVE  EndInv' /\ toClient' \in Seq(ServerFrames)
<1>1. toClient \in Seq(ServerFrames)
  BY DEF Types
<1>2. /\ toClient' \in Seq(ServerFrames)
      /\ \A k \in 1 .. Len(toClient') : \E j \in 1 .. Len(toClient) : toClient'[k] = toClient[j]
  <2>1. CASE toClient' = toClient
    BY <1>1, <2>1
  <2>2. CASE toClient # <<>> /\ toClient' = Tail(toClient)
    <3>1. /\ toClient' \in Seq(ServerFrames) /\ Len(toClient') = Len(toClient) - 1
          /\ \A k \in 1 .. Len(toClient') : toClient'[k] = toClient[k + 1]
      BY <1>1, <2>2
    <3>2. Len(toClient) \in Nat /\ Len(toClient') \in Nat
      BY <1>1, <3>1
    <3>3. \A k \in 1 .. Len(toClient') : k + 1 \in 1 .. Len(toClient)
      BY ONLY <3>1, <3>2
    <3> QED
      BY <3>1, <3>3
  <2>3. ASSUME NEW n \in 0 .. Len(toClient), toClient' = SubSeq(toClient, 1, n)
        PROVE  /\ toClient' \in Seq(ServerFrames)
               /\ \A k \in 1 .. Len(toClient') :
                    \E j \in 1 .. Len(toClient) : toClient'[k] = toClient[j]
    <3>1. /\ toClient' \in Seq(ServerFrames) /\ Len(toClient') = n
          /\ \A k \in 1 .. n : toClient'[k] = toClient[k]
      BY <1>1, <2>3
    <3>2. \A k \in 1 .. n : k \in 1 .. Len(toClient)
      BY <1>1
    <3> QED
      BY <3>1, <3>2
  <2> QED
    BY <2>1, <2>2, <2>3
<1>3. UNCHANGED <<runs, reply>>
  BY DEF AnswerStays
<1>4. ASSUME NEW k \in 1 .. Len(toClient'), toClient'[k].type = "END"
      PROVE  /\ Served'
             /\ toClient'[k].digest = Answer(Len(runs), reply.length)
             /\ toClient'[k].size = reply.length /\ reply.length = reply.size
  <2>1. PICK j \in 1 .. Len(toClient) : toClient'[k] = toClient[j]
    BY <1>2
  <2> QED
    BY <1>4, <2>1, ServedStays DEF EndInv
<1> QED
  BY <1>2, <1>3, <1>4 DEF EndInv

-----------------------------------------------------------------------------
(* The invariant holds before the command begins. *)
LEMMA InitInv == Init => IndInv
<1> SUFFICES ASSUME Init PROVE IndInv
  OBVIOUS
<1>1. upload \in Nat
  BY ExchangeAssumption DEF Init
<1>2. Types
  BY <1>1 DEF Init, Types, Ops, NoReply
<1>3. ClientInv /\ UploadInv /\ EndInv /\ OkInv
  BY DEF Init, ClientInv, UploadInv, EndInv, OkInv
<1>4. ServerInv
  BY DEF Init, ServerInv, Uploading
<1>5. RunsInv
  BY DEF Init, RunsInv, HandlerSeesWholeUpload
<1> QED
  BY <1>2, <1>3, <1>4, <1>5 DEF IndInv

(* The first REQUEST goes to a server that has nothing to do. *)
LEMMA ClientSendsInv ==
  ASSUME IndInv, ClientSends
  PROVE  IndInv'
<1> USE DEF ClientSends, requestVars, clientVars, serverVars, IndInv
<1> DEFINE f == [type |-> "REQUEST", operation |-> op]
<1>a. f \in ClientFrames /\ f.type # "END"
  BY DEF ClientFrames, Types
<1>b. toServer = <<>> /\ toClient = <<>> /\ spc \in {"idle", "gone"}
  BY DEF ClientInv
<1>c. toServer' = <<>> \/ (spc = "idle" /\ toServer' = <<f>>)
  BY <1>b DEF ToServer
<1>d. cpc' \in {"continue", "response"} /\ (cpc' = "continue" => op = "EXCHANGE")
  OBVIOUS
<1>u. UploadInv' /\ toServer' \in Seq(ClientFrames)
  BY <1>a, UploadAdds DEF Uploading
<1>e. EndInv' /\ toClient' \in Seq(ServerFrames)
  BY <1>b, EndEmpty
<1>g. op = "EXCHANGE" /\ spc = "idle" => runs = <<>>
  BY DEF ServerInv, Uploading
<1>z. UploadInv' /\ toServer' \in Seq(ClientFrames) /\ EndInv' /\ toClient' \in Seq(ServerFrames)
  BY <1>u, <1>e
<1>1. Types'
  BY <1>z DEF Types, Ops
<1>2. ClientInv'
  BY <1>d DEF ClientInv, Types
<1>3. ServerInv'
  BY <1>b, <1>c, <1>d, <1>g DEF ServerInv, Ran, Uploading, Types
<1>4. UploadInv'
  BY <1>z
<1>5. EndInv'
  BY <1>z
<1>6. OkInv'
  BY DEF OkInv, Served, Ran, Uploading
<1>7. RunsInv'
  BY DEF RunsInv, HandlerSeesWholeUpload
<1> QED
  BY <1>1, <1>2, <1>3, <1>4, <1>5, <1>6, <1>7

(* The second REQUEST goes to a server that waits for it. *)
LEMMA ClientContinuesInv ==
  ASSUME IndInv, ClientContinues
  PROVE  IndInv'
<1> USE DEF ClientContinues, requestVars, clientVars, serverVars, IndInv
<1> DEFINE f == [type |-> "REQUEST", method |-> method, size |-> upload]
<1>a. f \in ClientFrames /\ f.type # "END"
  BY DEF ClientFrames, Types
<1>b. cpc = "continue" /\ cpc' = "upload" /\ toClient # <<>> /\ toClient' = Tail(toClient)
  OBVIOUS
<1>c. spc \in {"metadata", "upload", "gone"} /\ op = "EXCHANGE"
  BY <1>b DEF ServerInv, ClientInv, Uploading, Types
<1>u. UploadInv' /\ toServer' \in Seq(ClientFrames)
  BY <1>a, UploadAdds DEF Uploading
<1>d. NoEnd
  BY NoEndYet DEF Served, Uploading
<1>e. EndInv' /\ toClient' \in Seq(ServerFrames)
  <2>1. toClient \in Seq(ServerFrames)
    BY DEF Types
  <2>2. /\ toClient' \in Seq(ServerFrames) /\ Len(toClient') = Len(toClient) - 1
        /\ \A k \in 1 .. Len(toClient') : toClient'[k] = toClient[k + 1]
    BY <1>b, <2>1
  <2>3. Len(toClient) \in Nat /\ Len(toClient') \in Nat
    BY <2>1, <2>2
  <2>4. \A k \in 1 .. Len(toClient') : k + 1 \in 1 .. Len(toClient)
    BY ONLY <2>2, <2>3
  <2> QED
    BY <1>d, <2>2, <2>4 DEF EndInv, NoEnd
<1>z. UploadInv' /\ toServer' \in Seq(ClientFrames) /\ EndInv' /\ toClient' \in Seq(ServerFrames)
  BY <1>u, <1>e
<1>1. Types'
  BY <1>z DEF Types, Ops
<1>2. ClientInv'
  BY <1>b, <1>c DEF ClientInv, Types
<1>3. ServerInv'
  BY <1>c DEF ServerInv
<1>4. UploadInv'
  BY <1>z
<1>5. EndInv'
  BY <1>z
<1>6. OkInv'
  BY <1>b DEF OkInv
<1>7. RunsInv'
  BY DEF RunsInv, HandlerSeesWholeUpload
<1> QED
  BY <1>1, <1>2, <1>3, <1>4, <1>5, <1>6, <1>7

(* The upload goes to a server that reads it. *)
LEMMA ClientUploadsInv ==
  ASSUME IndInv, ClientUploads
  PROVE  IndInv'
<1> USE DEF requestVars, clientVars, serverVars, IndInv
<1>a. /\ cpc = "upload" /\ cpc' \in {"upload", "response"}
      /\ UNCHANGED <<requestVars, op, want, got, cOpen, timer, serverVars, toClient, broken>>
  BY DEF ClientUploads
<1>b. PICK f \in ClientFrames :
        /\ toServer' = ToServer(f)
        /\ f.type = "END" => cpc' = "response" /\ f.digest = Chunks(upload)
  <2>1. CASE sent < upload
    <3>1. [type |-> "DATA", body |-> sent + 1] \in ClientFrames
      BY DEF ClientFrames, Types
    <3> QED
      BY <2>1, <3>1 DEF ClientUploads, Types
  <2>2. CASE ~ (sent < upload)
    <3>1. [type |-> "END", size |-> upload, digest |-> Chunks(upload)] \in ClientFrames
      BY DEF ClientFrames, Types
    <3> QED
      BY <2>2, <3>1 DEF ClientUploads, Types
  <2> QED
    BY <2>1, <2>2
<1>c. spc \in {"metadata", "upload", "gone"} /\ op = "EXCHANGE" /\ sent' \in Nat
  BY <1>a DEF ServerInv, ClientInv, Uploading, Types, ClientUploads
<1>u. UploadInv' /\ toServer' \in Seq(ClientFrames)
  BY <1>a, <1>b, UploadAdds DEF Uploading
<1>d. NoEnd
  BY <1>a, NoEndYet DEF Served, Uploading
<1>e. EndInv' /\ toClient' \in Seq(ServerFrames)
  BY <1>a, <1>d DEF EndInv, NoEnd, Types
<1>z. UploadInv' /\ toServer' \in Seq(ClientFrames) /\ EndInv' /\ toClient' \in Seq(ServerFrames)
  BY <1>u, <1>e
<1> USE <1>a
<1>1. Types'
  BY <1>c, <1>z DEF Types
<1>2. ClientInv'
  BY <1>c DEF ClientInv, Types
<1>3. ServerInv'
  BY <1>c DEF ServerInv
<1>4. UploadInv'
  BY <1>z
<1>5. EndInv'
  BY <1>z
<1>6. OkInv'
  BY DEF OkInv
<1>7. RunsInv'
  BY DEF RunsInv, HandlerSeesWholeUpload
<1> QED
  BY <1>1, <1>2, <1>3, <1>4, <1>5, <1>6, <1>7

(* The announcement of an answer is read. *)
LEMMA ClientResponseInv ==
  ASSUME IndInv, ClientResponse
  PROVE  IndInv'
<1> USE DEF ClientResponse, requestVars, clientVars, serverVars, IndInv
<1>s. AnswerStays
  BY DEF AnswerStays, Uploading
<1>e. EndInv' /\ toClient' \in Seq(ServerFrames)
  BY <1>s, EndKept
<1>u. UploadInv'
  BY UploadKept DEF Uploading
<1>z. UploadInv' /\ EndInv' /\ toClient' \in Seq(ServerFrames)
  BY <1>u, <1>e
<1>r. want' \in Nat
  <2>1. Head(toClient) \in ServerFrames
    BY DEF Types
  <2> QED
    BY <2>1, ResponseFrame
<1>1. Types'
  BY <1>z, <1>r DEF Types, Ops
<1>2. ClientInv'
  BY DEF ClientInv, Types, Acceptable
<1>3. ServerInv'
  BY DEF ServerInv, Ran, Uploading, Types
<1>4. UploadInv'
  BY <1>z
<1>5. EndInv'
  BY <1>z
<1>6. OkInv'
  BY DEF OkInv
<1>7. RunsInv'
  BY DEF RunsInv, HandlerSeesWholeUpload
<1> QED
  BY <1>1, <1>2, <1>3, <1>4, <1>5, <1>6, <1>7

(* The answer is read, and END agrees with all of it. *)
LEMMA ClientReceivesInv ==
  ASSUME IndInv, ClientReceives
  PROVE  IndInv'
<1> USE DEF ClientReceives, requestVars, clientVars, serverVars, IndInv
<1>s. AnswerStays
  BY DEF AnswerStays, Uploading
<1>e. EndInv' /\ toClient' \in Seq(ServerFrames)
  BY <1>s, EndKept
<1>u. UploadInv'
  BY UploadKept DEF Uploading
<1>z. UploadInv' /\ EndInv' /\ toClient' \in Seq(ServerFrames)
  BY <1>u, <1>e
<1>r. ASSUME cpc' = "ok" PROVE OkInv'
  <2>1. /\ toClient \in Seq(ServerFrames) /\ toClient # <<>> /\ cpc = "receiving"
        /\ Head(toClient).type = "END" /\ Head(toClient).size = want
        /\ Head(toClient).digest = got /\ got' = got
    BY <1>r DEF Types
  <2>2. 1 \in 1 .. Len(toClient) /\ Head(toClient) = toClient[1]
    BY <2>1
  <2>3. /\ Served /\ got = Answer(Len(runs), reply.length)
        /\ want = reply.length /\ reply.length = reply.size
    BY <2>1, <2>2 DEF EndInv
  <2>4. Served'
    BY <2>3, <1>s, ServedStays
  <2>5. method = "HEAD" /\ op = "EXCHANGE" => want = 0
    BY <2>1 DEF ClientInv
  <2> QED
    BY <2>1, <2>3, <2>4, <2>5 DEF OkInv
<1>t. cpc' # "ok" => OkInv'
  BY DEF OkInv
<1>1. Types'
  BY <1>z DEF Types, Ops
<1>2. ClientInv'
  BY DEF ClientInv, Types
<1>3. ServerInv'
  BY DEF ServerInv, Ran, Uploading, Types
<1>4. UploadInv'
  BY <1>z
<1>5. EndInv'
  BY <1>z
<1>6. OkInv'
  BY <1>r, <1>t
<1>7. RunsInv'
  BY DEF RunsInv, HandlerSeesWholeUpload
<1> QED
  BY <1>1, <1>2, <1>3, <1>4, <1>5, <1>6, <1>7

(* A call that fails or is refused reads nothing more. *)
LEMMA ClientFailsInv ==
  ASSUME IndInv, ClientFails \/ ClientRefused
  PROVE  IndInv'
<1> USE DEF ClientFails, ClientRefused, CallFailed, requestVars, clientVars, serverVars, IndInv
<1>e. EndInv' /\ toClient' \in Seq(ServerFrames)
  BY EndEmpty
<1>u. UploadInv'
  BY UploadKept DEF Uploading
<1>z. UploadInv' /\ EndInv' /\ toClient' \in Seq(ServerFrames)
  BY <1>u, <1>e
<1>1. Types'
  BY <1>z DEF Types, Ops
<1>2. ClientInv'
  BY DEF ClientInv, Types
<1>3. ServerInv'
  BY DEF ServerInv, Ran, Uploading, Types
<1>4. UploadInv'
  BY <1>z
<1>5. EndInv'
  BY <1>z
<1>6. OkInv'
  BY DEF OkInv
<1>7. RunsInv'
  BY DEF RunsInv, HandlerSeesWholeUpload
<1> QED
  BY <1>1, <1>2, <1>3, <1>4, <1>5, <1>6, <1>7

(* The end of the context closes the connection and decides nothing else. *)
LEMMA CallEndsInv ==
  ASSUME IndInv, CallExpires \/ CallbackCloses
  PROVE  IndInv'
<1> USE DEF requestVars, serverVars, IndInv
<1>a. /\ UNCHANGED <<requestVars, op, cpc, sent, want, got, serverVars, toServer, broken>>
      /\ toClient' \in {toClient, <<>>}
  BY DEF CallExpires, CallbackCloses
<1>z. EndInv' /\ toClient' \in Seq(ServerFrames)
  <2>1. CASE toClient' = toClient
    BY <1>a, <2>1, EndKept DEF AnswerStays
  <2>2. CASE toClient' = <<>>
    BY <2>2, EndEmpty
  <2> QED
    BY <1>a, <2>1, <2>2
<1>u. UploadInv'
  BY <1>a, UploadKept
<1>1. Types'
  BY <1>a, <1>z DEF Types
<1>2. ClientInv'
  BY <1>a DEF ClientInv
<1>3. ServerInv'
  BY <1>a DEF ServerInv, Ran
<1>6. OkInv'
  BY <1>a DEF OkInv, Served, Ran
<1>7. RunsInv'
  BY <1>a DEF RunsInv, HandlerSeesWholeUpload
<1> QED
  BY <1>1, <1>2, <1>3, <1>u, <1>z, <1>6, <1>7

(* A GET that goes on with FETCH starts again on a new connection. *)
LEMMA ClientFallsBackInv ==
  ASSUME IndInv, ClientFallsBack
  PROVE  IndInv'
<1> USE DEF ClientFallsBack, requestVars, clientVars, serverVars, IndInv
<1>a. op = "EXCHANGE" /\ method = "GET"
  BY DEF FallsBack
<1>b. UploadInv' /\ toServer' = <<>>
  BY DEF UploadInv
<1>e. EndInv' /\ toClient' \in Seq(ServerFrames)
  BY EndEmpty
<1>z. UploadInv' /\ EndInv' /\ toServer' = <<>> /\ toClient' \in Seq(ServerFrames)
  BY <1>b, <1>e
<1>1. Types'
  BY <1>z DEF Types, Ops, NoReply
<1>2. ClientInv'
  BY <1>a DEF ClientInv, Types
<1>3. ServerInv'
  BY DEF ServerInv, Ran, Uploading, Types
<1>4. UploadInv'
  BY <1>z
<1>5. EndInv'
  BY <1>z
<1>6. OkInv'
  BY DEF OkInv
<1>7. RunsInv'
  BY DEF RunsInv, HandlerSeesWholeUpload
<1> QED
  BY <1>1, <1>2, <1>3, <1>4, <1>5, <1>6, <1>7

(* An ERROR that is sent before the answer is complete. *)
LEMMA ErrorSent ==
  ASSUME Types, NoEnd, UploadInv, NEW code \in Codes, ServerFails(code), UNCHANGED <<upload, cpc>>
  PROVE  /\ EndInv' /\ toClient' \in Seq(ServerFrames) /\ UploadInv' /\ toServer' = <<>>
         /\ spc' = "gone"
<1>1. [type |-> "ERROR", code |-> code] \in ServerFrames
  BY DEF ServerFrames
<1>2. [type |-> "ERROR", code |-> code].type # "END"
  OBVIOUS
<1> QED
  BY <1>1, <1>2, EndOther, UploadKept DEF ServerFails

(* The first frame of an operation is read before anything was answered. *)
LEMMA ServerRequestInv ==
  ASSUME IndInv, ServerRequest
  PROVE  IndInv'
<1> USE DEF requestVars, clientVars, serverVars, IndInv
<1>a. /\ spc = "idle" /\ toServer # <<>>
      /\ UNCHANGED <<requestVars, clientVars, received, reply, replied, runs, broken>>
  BY DEF ServerRequest
<1>b. /\ toServer = <<[type |-> "REQUEST", operation |-> op]>> /\ toClient = <<>>
      /\ (op = "EXCHANGE" => runs = <<>>) /\ cpc \notin {"start", "upload", "ok"}
  BY <1>a DEF ServerInv, ClientInv, OkInv, Served
<1>c. NoEnd
  BY <1>b DEF NoEnd
<1>d. Tail(toServer) = <<>>
  BY <1>b
<1>g. /\ EndInv' /\ toClient' \in Seq(ServerFrames) /\ UploadInv' /\ toServer' = <<>>
      /\ \/ spc' = "gone"
         \/ op = "EXCHANGE" /\ spc' = "metadata"
         \/ op = "FETCH" /\ spc' = "opening"
  <2>1. CASE ServerFails("UNSUPPORTED_OPERATION")
    BY <1>a, <1>c, <2>1, ErrorSent DEF Codes
  <2>2. CASE /\ op = "EXCHANGE" /\ toServer' = Tail(toServer)
             /\ toClient' = ToClient([type |-> "CONTINUE"]) /\ spc' = "metadata"
    <3>1. [type |-> "CONTINUE"] \in ServerFrames
      BY DEF ServerFrames
    <3>2. [type |-> "CONTINUE"].type # "END"
      OBVIOUS
    <3> QED
      BY <1>a, <1>c, <1>d, <2>2, <3>1, <3>2, EndOther, UploadKept
  <2>3. CASE op = "FETCH" /\ toServer' = Tail(toServer) /\ spc' = "opening" /\ UNCHANGED toClient
    BY <1>a, <1>b, <1>d, <2>3, EndEmpty, UploadKept
  <2> QED
    BY <2>1, <2>2, <2>3 DEF ServerRequest
<1> USE <1>a, <1>b
<1>1. Types'
  BY <1>g DEF Types, Ops
<1>2. ClientInv'
  BY <1>g DEF ClientInv
<1>3. ServerInv'
  BY <1>g DEF ServerInv, ClientInv, Uploading
<1>4. UploadInv'
  BY <1>g
<1>5. EndInv'
  BY <1>g
<1>6. OkInv'
  BY DEF OkInv
<1>7. RunsInv'
  BY DEF RunsInv, HandlerSeesWholeUpload
<1> QED
  BY <1>1, <1>2, <1>3, <1>4, <1>5, <1>6, <1>7

(* The second REQUEST is read. *)
LEMMA ServerMetadataInv ==
  ASSUME IndInv, ServerMetadata
  PROVE  IndInv'
<1> USE DEF ServerMetadata, requestVars, clientVars, serverVars, IndInv
<1>u. UploadInv' /\ toServer' \in Seq(ClientFrames)
  BY UploadTail
<1>e. EndInv' /\ toClient' \in Seq(ServerFrames)
  <2>1. NoEnd
    BY NoEndYet DEF Served
  <2> QED
    BY <2>1 DEF EndInv, NoEnd, Types
<1>z. UploadInv' /\ toServer' \in Seq(ClientFrames) /\ EndInv' /\ toClient' \in Seq(ServerFrames)
  BY <1>u, <1>e
<1>1. Types'
  BY <1>z DEF Types, Ops
<1>2. ClientInv'
  BY DEF ClientInv, Types
<1>3. ServerInv'
  BY DEF ServerInv
<1>4. UploadInv'
  BY <1>z
<1>5. EndInv'
  BY <1>z
<1>6. OkInv'
  BY DEF OkInv, Served
<1>7. RunsInv'
  BY DEF RunsInv, HandlerSeesWholeUpload
<1> QED
  BY <1>1, <1>2, <1>3, <1>4, <1>5, <1>6, <1>7

(* The handler waits for END, which is the last frame and has the digest of the upload. *)
LEMMA ServerReceivesInv ==
  ASSUME IndInv, ServerReceives
  PROVE  IndInv'
<1> USE DEF ServerReceives, requestVars, clientVars, serverVars, IndInv
<1>u. UploadInv' /\ toServer' \in Seq(ClientFrames)
  BY UploadTail
<1>e. EndInv' /\ toClient' \in Seq(ServerFrames)
  <2>1. NoEnd
    BY NoEndYet DEF Served
  <2> QED
    BY <2>1 DEF EndInv, NoEnd, Types
<1>z. UploadInv' /\ toServer' \in Seq(ClientFrames) /\ EndInv' /\ toClient' \in Seq(ServerFrames)
  BY <1>u, <1>e
<1>d. received' \in Seq(Nat)
  <2>1. Head(toServer) \in ClientFrames
    BY DEF Types
  <2>2. CASE Head(toServer).type = "DATA"
    <3>1. Head(toServer).body \in Nat /\ received \in Seq(Nat)
      BY <2>1, <2>2, DataFrame DEF Types
    <3>2. received' = Append(received, Head(toServer).body)
      BY <2>2
    <3> QED
      BY <3>1, <3>2
  <2>3. CASE Head(toServer).type # "DATA"
    BY <2>3 DEF Types
  <2> QED
    BY <2>2, <2>3
<1>h. ASSUME spc' = "handling"
      PROVE  toServer' = <<>> /\ cpc \notin Uploading /\ received' = Chunks(upload)
  <2>1. /\ toServer \in Seq(ClientFrames) /\ toServer # <<>> /\ toServer' = Tail(toServer)
        /\ Head(toServer).type = "END" /\ Head(toServer).digest = received /\ received' = received
    BY <1>h DEF Types
  <2>2. 1 \in 1 .. Len(toServer) /\ Head(toServer) = toServer[1]
    BY <2>1
  <2>3. Len(toServer) = 1 /\ cpc \notin Uploading /\ received = Chunks(upload)
    BY <2>1, <2>2 DEF UploadInv
  <2>4. toServer' = <<>>
    BY <2>1, <2>3
  <2> QED
    BY <2>1, <2>3, <2>4
<1>i. spc' \in {"upload", "handling"}
  OBVIOUS
<1>1. Types'
  BY <1>z, <1>d, <1>i DEF Types, Ops
<1>2. ClientInv'
  BY DEF ClientInv
<1>3. ServerInv'
  BY <1>h, <1>i DEF ServerInv
<1>4. UploadInv'
  BY <1>z
<1>5. EndInv'
  BY <1>z
<1>6. OkInv'
  BY DEF OkInv, Served
<1>7. RunsInv'
  BY DEF RunsInv, HandlerSeesWholeUpload
<1> QED
  BY <1>1, <1>2, <1>3, <1>4, <1>5, <1>6, <1>7

(* The handler is called with the whole upload, and its answer is announced. *)
LEMMA HandlerAnswersInv ==
  ASSUME IndInv, HandlerAnswers
  PROVE  IndInv'
<1> USE DEF requestVars, clientVars, serverVars, IndInv
<1>a. /\ spc \in {"opening", "handling"} /\ runs' = Run
      /\ UNCHANGED <<requestVars, clientVars, received, broken>>
  BY DEF HandlerAnswers
<1>b. NoEnd
  BY <1>a, NoEndYet DEF Served
<1>c. toServer = <<>> /\ cpc \notin Uploading /\ cpc # "ok"
  BY <1>a DEF ServerInv, OkInv, Served
<1> DEFINE r == [op |-> op, method |-> method, body |-> received]
<1>d. r \in [op : Ops, method : Methods, body : Seq(Nat)] /\ runs' = Append(runs, r)
  BY <1>a DEF Types, Run
<1>g. /\ runs' \in Seq([op : Ops, method : Methods, body : Seq(Nat)])
      /\ Len(runs') = Len(runs) + 1 /\ runs'[Len(runs')] = r
      /\ \A n \in 1 .. Len(runs) : runs'[n] = runs[n]
  BY <1>d DEF Types
<1>h. runs' # <<>> /\ runs'[Len(runs')].op = op
  <2>1. Len(runs) \in Nat
    BY DEF Types
  <2>2. runs' # <<>>
    BY ONLY <1>g, <2>1
  <2>3. r.op = op
    OBVIOUS
  <2> QED
    BY <1>g, <2>2, <2>3
<1>i. op = "EXCHANGE" => Len(runs') = 1 /\ received = Chunks(upload)
  BY <1>a, <1>g DEF ServerInv, Types
<1>j. RunsInv'
  <2>1. Len(runs) \in Nat
    BY DEF Types
  <2>2. ASSUME NEW n \in 1 .. Len(runs'), runs'[n].op = "EXCHANGE"
        PROVE  runs'[n].body = Chunks(upload)
    <3>1. CASE n \in 1 .. Len(runs)
      BY <1>g, <2>2, <3>1 DEF RunsInv, HandlerSeesWholeUpload
    <3>2. CASE n \notin 1 .. Len(runs)
      <4>1. n = Len(runs')
        BY <1>g, <2>1, <3>2
      <4>2. runs'[n] = r
        BY <1>g, <4>1
      <4> QED
        BY <1>i, <2>2, <4>2
    <3> QED
      BY <3>1, <3>2
  <2>3. op = "EXCHANGE" => Len(runs') <= 1
    BY ONLY <1>i
  <2> QED
    BY <1>a, <2>2, <2>3 DEF RunsInv, HandlerSeesWholeUpload
<1>k. PICK shown \in [size : Nat, length : Nat] :
        reply' = shown /\ toClient' = ToClient([type |-> "RESPONSE", size |-> shown.size])
  <2>1. NoReply \in [size : Nat, length : Nat]
    BY DEF NoReply
  <2> QED
    BY <2>1, ExchangeAssumption DEF HandlerAnswers
<1>e. EndInv' /\ toClient' \in Seq(ServerFrames)
  <2>1. [type |-> "RESPONSE", size |-> shown.size] \in ServerFrames
    BY DEF ServerFrames
  <2>2. [type |-> "RESPONSE", size |-> shown.size].type # "END"
    OBVIOUS
  <2> QED
    BY <1>b, <1>k, <2>1, <2>2, EndOther
<1>l. spc' = "sending" /\ replied' = 0 /\ toServer' = toServer
  BY DEF HandlerAnswers
<1>u. UploadInv'
  BY <1>a, <1>l, UploadKept
<1>z. UploadInv' /\ EndInv' /\ toClient' \in Seq(ServerFrames)
  BY <1>u, <1>e
<1> HIDE DEF r
<1> USE <1>a, <1>c, <1>l
<1>1. Types'
  BY <1>g, <1>k, <1>z DEF Types
<1>2. ClientInv'
  BY DEF ClientInv, Uploading
<1>3. ServerInv'
  BY <1>h DEF ServerInv, Ran
<1>4. UploadInv'
  BY <1>z
<1>5. EndInv'
  BY <1>z
<1>6. OkInv'
  BY DEF OkInv
<1>7. RunsInv'
  BY <1>j
<1> QED
  BY <1>1, <1>2, <1>3, <1>4, <1>5, <1>6, <1>7

(* The handler is called with the whole upload, and fails. *)
LEMMA HandlerFailsInv ==
  ASSUME IndInv, HandlerFails
  PROVE  IndInv'
<1> USE DEF requestVars, clientVars, serverVars, IndInv
<1>a. /\ spc \in {"opening", "handling"} /\ runs' = Run
      /\ UNCHANGED <<requestVars, clientVars, received, broken>>
  BY DEF HandlerFails
<1>b. NoEnd
  BY <1>a, NoEndYet DEF Served
<1>c. toServer = <<>> /\ cpc \notin Uploading /\ cpc # "ok"
  BY <1>a DEF ServerInv, OkInv, Served
<1> DEFINE r == [op |-> op, method |-> method, body |-> received]
<1>d. r \in [op : Ops, method : Methods, body : Seq(Nat)] /\ runs' = Append(runs, r)
  BY <1>a DEF Types, Run
<1>g. /\ runs' \in Seq([op : Ops, method : Methods, body : Seq(Nat)])
      /\ Len(runs') = Len(runs) + 1 /\ runs'[Len(runs')] = r
      /\ \A n \in 1 .. Len(runs) : runs'[n] = runs[n]
  BY <1>d DEF Types
<1>h. runs' # <<>> /\ runs'[Len(runs')].op = op
  <2>1. Len(runs) \in Nat
    BY DEF Types
  <2>2. runs' # <<>>
    BY ONLY <1>g, <2>1
  <2>3. r.op = op
    OBVIOUS
  <2> QED
    BY <1>g, <2>2, <2>3
<1>i. op = "EXCHANGE" => Len(runs') = 1 /\ received = Chunks(upload)
  BY <1>a, <1>g DEF ServerInv, Types
<1>j. RunsInv'
  <2>1. Len(runs) \in Nat
    BY DEF Types
  <2>2. ASSUME NEW n \in 1 .. Len(runs'), runs'[n].op = "EXCHANGE"
        PROVE  runs'[n].body = Chunks(upload)
    <3>1. CASE n \in 1 .. Len(runs)
      BY <1>g, <2>2, <3>1 DEF RunsInv, HandlerSeesWholeUpload
    <3>2. CASE n \notin 1 .. Len(runs)
      <4>1. n = Len(runs')
        BY <1>g, <2>1, <3>2
      <4>2. runs'[n] = r
        BY <1>g, <4>1
      <4> QED
        BY <1>i, <2>2, <4>2
    <3> QED
      BY <3>1, <3>2
  <2>3. op = "EXCHANGE" => Len(runs') <= 1
    BY ONLY <1>i
  <2> QED
    BY <1>a, <2>2, <2>3 DEF RunsInv, HandlerSeesWholeUpload
<1>k. PICK code \in Codes : ServerFails(code)
  BY DEF HandlerFails, Codes
<1>z. /\ EndInv' /\ toClient' \in Seq(ServerFrames) /\ UploadInv' /\ toServer' = <<>>
      /\ spc' = "gone"
  BY <1>a, <1>b, <1>k, ErrorSent
<1>l. UNCHANGED <<reply, replied>>
  BY DEF HandlerFails
<1> HIDE DEF r
<1> USE <1>a, <1>c, <1>l
<1>1. Types'
  BY <1>g, <1>z DEF Types
<1>2. ClientInv'
  BY <1>z DEF ClientInv, Uploading
<1>3. ServerInv'
  BY <1>z DEF ServerInv
<1>4. UploadInv'
  BY <1>z
<1>5. EndInv'
  BY <1>z
<1>6. OkInv'
  BY DEF OkInv
<1>7. RunsInv'
  BY <1>j
<1> QED
  BY <1>1, <1>2, <1>3, <1>4, <1>5, <1>6, <1>7

(* A write that is turned down by the server itself runs nothing. *)
LEMMA MethodNotAllowedInv ==
  ASSUME IndInv, MethodNotAllowed
  PROVE  IndInv'
<1> USE DEF MethodNotAllowed, requestVars, clientVars, serverVars, IndInv
<1>a. toServer = <<>> /\ cpc \notin Uploading /\ cpc # "ok" /\ NoEnd
  BY NoEndYet DEF ServerInv, OkInv, Served
<1>b. Notice \in [size : Nat, length : Nat] /\ Notice.size \in Nat
  BY DEF Notice
<1>e. EndInv' /\ toClient' \in Seq(ServerFrames)
  <2>1. [type |-> "RESPONSE", size |-> Notice.size] \in ServerFrames
    BY <1>b DEF ServerFrames
  <2>2. [type |-> "RESPONSE", size |-> Notice.size].type # "END"
    OBVIOUS
  <2> QED
    BY <1>a, <2>1, <2>2, EndOther
<1>u. UploadInv'
  BY UploadKept
<1>z. UploadInv' /\ EndInv' /\ toClient' \in Seq(ServerFrames)
  BY <1>u, <1>e
<1>1. Types'
  BY <1>z, <1>b DEF Types, Ops
<1>2. ClientInv'
  BY <1>a DEF ClientInv, Uploading
<1>3. ServerInv'
  BY <1>a DEF ServerInv, Ran
<1>4. UploadInv'
  BY <1>z
<1>5. EndInv'
  BY <1>z
<1>6. OkInv'
  BY <1>a DEF OkInv
<1>7. RunsInv'
  BY DEF RunsInv, HandlerSeesWholeUpload
<1> QED
  BY <1>1, <1>2, <1>3, <1>4, <1>5, <1>6, <1>7

(* Content is sent. *)
LEMMA ServerSendsDataInv ==
  ASSUME IndInv, ServerSendsData
  PROVE  IndInv'
<1> USE DEF ServerSendsData, requestVars, clientVars, serverVars, IndInv
<1>a. cpc # "ok" /\ NoEnd
  BY NoEndYet DEF OkInv, Served
<1>b. replied' \in Nat
  BY DEF Types
<1>e. EndInv' /\ toClient' \in Seq(ServerFrames)
  <2> DEFINE f == [type |-> "DATA", body |-> <<Len(runs), replied + 1>>]
  <2>1. f \in ServerFrames
    <3>1. <<Len(runs), replied + 1>> \in Nat \X Nat
      BY DEF Types
    <3> QED
      BY <3>1 DEF ServerFrames
  <2>2. f.type # "END"
    OBVIOUS
  <2> HIDE DEF f
  <2> QED
    BY <1>a, <2>1, <2>2, EndOther DEF f
<1>u. UploadInv'
  BY UploadKept
<1>z. UploadInv' /\ EndInv' /\ toClient' \in Seq(ServerFrames)
  BY <1>u, <1>e
<1>1. Types'
  BY <1>z, <1>b DEF Types, Ops
<1>2. ClientInv'
  BY DEF ClientInv
<1>3. ServerInv'
  BY DEF ServerInv, Ran
<1>4. UploadInv'
  BY <1>z
<1>5. EndInv'
  BY <1>z
<1>6. OkInv'
  BY <1>a DEF OkInv
<1>7. RunsInv'
  BY DEF RunsInv, HandlerSeesWholeUpload
<1> QED
  BY <1>1, <1>2, <1>3, <1>4, <1>5, <1>6, <1>7

(* END is sent when the answer is complete, with the digest of all of it. *)
LEMMA ServerSendsEndInv ==
  ASSUME IndInv, ServerSendsEnd
  PROVE  IndInv'
<1> USE DEF requestVars, clientVars, serverVars, IndInv
<1> DEFINE f == [type |-> "END", size |-> replied, digest |-> Answer(Len(runs), replied)]
<1>a. /\ spc = "sending" /\ replied = reply.size /\ replied = reply.length
      /\ toClient' = ToClient(f) /\ spc' = "idle"
      /\ UNCHANGED <<requestVars, clientVars, received, reply, replied, runs, toServer, broken>>
  BY DEF ServerSendsEnd
<1>b. /\ toServer = <<>> /\ cpc \notin Uploading /\ cpc # "ok" /\ Ran /\ NoEnd
  BY <1>a, NoEndYet DEF ServerInv, OkInv, Served
<1>c. /\ f \in ServerFrames /\ f.size = reply.length /\ reply.length = reply.size
      /\ f.digest = Answer(Len(runs), reply.length)
  BY <1>a DEF ServerFrames, Types
<1> HIDE DEF f
<1>d. Served'
  BY <1>a, <1>b DEF Served, Ran
<1>g. toClient \in Seq(ServerFrames) /\ Len(toClient) \in Nat
  BY DEF Types
<1>h. /\ toClient' \in Seq(ServerFrames)
      /\ \/ toClient' = toClient
         \/ /\ Len(toClient') = Len(toClient) + 1 /\ toClient'[Len(toClient) + 1] = f
            /\ \A k \in 1 .. Len(toClient) : toClient'[k] = toClient[k]
  BY <1>a, <1>c, ToClientAdds
<1>i. ASSUME NEW k \in 1 .. Len(toClient'), toClient'[k].type = "END"
      PROVE  toClient'[k] = f
  BY <1>b, <1>g, <1>h, <1>i DEF NoEnd
<1>e. EndInv'
  BY <1>a, <1>c, <1>d, <1>i DEF EndInv
<1>u. UploadInv'
  BY <1>a, UploadKept
<1>z. UploadInv' /\ EndInv' /\ toClient' \in Seq(ServerFrames)
  BY <1>u, <1>e, <1>h
<1> USE <1>a, <1>b
<1>1. Types'
  BY <1>z DEF Types, Ops
<1>2. ClientInv'
  BY DEF ClientInv, Uploading
<1>3. ServerInv'
  BY DEF ServerInv, Uploading
<1>4. UploadInv'
  BY <1>z
<1>5. EndInv'
  BY <1>z
<1>6. OkInv'
  BY DEF OkInv
<1>7. RunsInv'
  BY DEF RunsInv, HandlerSeesWholeUpload
<1> QED
  BY <1>1, <1>2, <1>3, <1>4, <1>5, <1>6, <1>7

(* An answer that is not what was announced ends in ERROR. *)
LEMMA ServerFindsChangeInv ==
  ASSUME IndInv, ServerFindsChange
  PROVE  IndInv'
<1> USE DEF requestVars, clientVars, serverVars, IndInv
<1>a. /\ spc \in {"metadata", "upload", "sending"}
      /\ UNCHANGED <<requestVars, clientVars, received, reply, replied, runs, broken>>
  BY DEF ServerFindsChange
<1>b. PICK code \in Codes : ServerFails(code)
  BY DEF ServerFindsChange, Codes
<1>c. cpc # "ok" /\ NoEnd
  BY <1>a, NoEndYet DEF OkInv, Served
<1>z. /\ EndInv' /\ toClient' \in Seq(ServerFrames) /\ UploadInv' /\ toServer' = <<>>
      /\ spc' = "gone"
  BY <1>a, <1>b, <1>c, ErrorSent
<1> USE <1>a, <1>c
<1>1. Types'
  BY <1>z DEF Types, Ops
<1>2. ClientInv'
  BY <1>z DEF ClientInv
<1>3. ServerInv'
  BY <1>z DEF ServerInv
<1>4. UploadInv'
  BY <1>z
<1>5. EndInv'
  BY <1>z
<1>6. OkInv'
  BY DEF OkInv
<1>7. RunsInv'
  BY DEF RunsInv, HandlerSeesWholeUpload
<1> QED
  BY <1>1, <1>2, <1>3, <1>4, <1>5, <1>6, <1>7

(* A timeout of the server ends in ERROR. *)
LEMMA ServerTimesOutInv ==
  ASSUME IndInv, ServerTimesOut
  PROVE  IndInv'
<1> USE DEF requestVars, clientVars, serverVars, IndInv
<1>a. /\ spc \in {"metadata", "upload", "sending"}
      /\ UNCHANGED <<requestVars, clientVars, received, reply, replied, runs, broken>>
  BY DEF ServerTimesOut
<1>b. PICK code \in Codes : ServerFails(code)
  BY DEF ServerTimesOut, Codes
<1>c. cpc # "ok" /\ NoEnd
  BY <1>a, NoEndYet DEF OkInv, Served
<1>z. /\ EndInv' /\ toClient' \in Seq(ServerFrames) /\ UploadInv' /\ toServer' = <<>>
      /\ spc' = "gone"
  BY <1>a, <1>b, <1>c, ErrorSent
<1> USE <1>a, <1>c
<1>1. Types'
  BY <1>z DEF Types, Ops
<1>2. ClientInv'
  BY <1>z DEF ClientInv
<1>3. ServerInv'
  BY <1>z DEF ServerInv
<1>4. UploadInv'
  BY <1>z
<1>5. EndInv'
  BY <1>z
<1>6. OkInv'
  BY DEF OkInv
<1>7. RunsInv'
  BY DEF RunsInv, HandlerSeesWholeUpload
<1> QED
  BY <1>1, <1>2, <1>3, <1>4, <1>5, <1>6, <1>7

(* The server may end at any time. *)
LEMMA ServerGivesUpInv ==
  ASSUME IndInv, ServerGivesUp
  PROVE  IndInv'
<1> USE DEF ServerGivesUp, requestVars, clientVars, serverVars, IndInv
<1>s. AnswerStays
  BY DEF AnswerStays
<1>e. EndInv' /\ toClient' \in Seq(ServerFrames)
  BY <1>s, EndKept
<1>u. UploadInv'
  BY UploadKept
<1>z. UploadInv' /\ EndInv' /\ toClient' \in Seq(ServerFrames)
  BY <1>u, <1>e
<1>1. Types'
  BY <1>z DEF Types, Ops
<1>2. ClientInv'
  BY DEF ClientInv, Types
<1>3. ServerInv'
  BY DEF ServerInv
<1>4. UploadInv'
  BY <1>z
<1>5. EndInv'
  BY <1>z
<1>6. OkInv'
  BY DEF OkInv, Served, Ran, Uploading
<1>7. RunsInv'
  BY DEF RunsInv, HandlerSeesWholeUpload
<1> QED
  BY <1>1, <1>2, <1>3, <1>4, <1>5, <1>6, <1>7

(* What the network loses is the end of what was on its way. *)
LEMMA NetworkFailsInv ==
  ASSUME IndInv, NetworkFails
  PROVE  IndInv'
<1> USE DEF requestVars, clientVars, serverVars, IndInv
<1>a. UNCHANGED <<requestVars, clientVars, serverVars>>
  BY DEF NetworkFails
<1>b. PICK m \in 0 .. Len(toServer), n \in 0 .. Len(toClient) :
        toServer' = SubSeq(toServer, 1, m) /\ toClient' = SubSeq(toClient, 1, n)
  BY DEF NetworkFails
<1>u. UploadInv' /\ toServer' \in Seq(ClientFrames)
  BY <1>a, <1>b, UploadPrefix
<1>c. toServer = <<>> => toServer' = <<>>
  BY <1>b
<1>d. toClient = <<>> => toClient' = <<>>
  BY <1>b
<1>g. \A f : toServer = <<f>> => toServer' \in {<<>>, <<f>>}
  <2> SUFFICES ASSUME NEW f, toServer = <<f>>
               PROVE  toServer' \in {<<>>, <<f>>}
    OBVIOUS
  <2>1. Len(toServer) = 1
    OBVIOUS
  <2>2. m = 0 \/ m = 1
    BY ONLY <2>1, m \in 0 .. Len(toServer)
  <2>3. CASE m = 0
    BY <1>b, <2>3
  <2>4. CASE m = 1
    <3>1. toServer \in Seq(ClientFrames)
      BY DEF Types
    <3>2. toServer' = toServer
      BY <1>b, <2>1, <2>4, <3>1, SubSeqFull
    <3> QED
      BY <3>2
  <2> QED
    BY <2>2, <2>3, <2>4
<1>h. toClient' \in Seq(ServerFrames) /\ EndInv'
  <2>1. CASE toServer = <<>>
    <3>1. AnswerStays
      BY <1>a, <1>c, <2>1 DEF AnswerStays
    <3> QED
      BY <1>b, <3>1, EndKept
  <2>2. CASE toServer # <<>>
    <3>1. NoEnd
      BY <2>2, NoEndYet DEF Served
    <3>2. toClient \in Seq(ServerFrames)
      BY DEF Types
    <3>3. /\ toClient' \in Seq(ServerFrames) /\ Len(toClient') = n
          /\ \A k \in 1 .. n : toClient'[k] = toClient[k]
      BY <1>b, <3>2
    <3> QED
      BY <3>1, <3>2, <3>3 DEF NoEnd, EndInv
  <2> QED
    BY <2>1, <2>2
<1>z. UploadInv' /\ toServer' \in Seq(ClientFrames) /\ EndInv' /\ toClient' \in Seq(ServerFrames)
  BY <1>u, <1>h
<1> USE <1>a
<1>1. Types'
  BY <1>z DEF Types, Ops
<1>2. ClientInv'
  BY <1>c, <1>d DEF ClientInv
<1>3. ServerInv'
  BY <1>c, <1>d, <1>g DEF ServerInv, Ran
<1>4. UploadInv'
  BY <1>z
<1>5. EndInv'
  BY <1>z
<1>6. OkInv'
  BY <1>c DEF OkInv, Served, Ran
<1>7. RunsInv'
  BY DEF RunsInv, HandlerSeesWholeUpload
<1> QED
  BY <1>1, <1>2, <1>3, <1>4, <1>5, <1>6, <1>7

(* Every step keeps the invariant. *)
LEMMA NextInv == IndInv /\ [Next]_vars => IndInv'
<1> SUFFICES ASSUME IndInv, [Next]_vars PROVE IndInv'
  OBVIOUS
<1>1. CASE ClientStep \/ CallExpires \/ CallbackCloses \/ ClientFails
  BY <1>1, ClientSendsInv, ClientContinuesInv, ClientUploadsInv, ClientResponseInv,
     ClientReceivesInv, ClientFallsBackInv, ClientFailsInv, CallEndsInv DEF ClientStep
<1>2. CASE ServerStep
  BY <1>2, ServerRequestInv, ServerMetadataInv, ServerReceivesInv, HandlerAnswersInv,
     HandlerFailsInv, MethodNotAllowedInv, ServerSendsDataInv, ServerSendsEndInv,
     ServerFindsChangeInv, ServerTimesOutInv, ServerGivesUpInv DEF ServerStep
<1>3. CASE NetworkFails
  BY <1>3, NetworkFailsInv
<1>4. CASE UNCHANGED vars
  BY <1>4 DEF vars, requestVars, clientVars, serverVars, IndInv, Types, ClientInv, ServerInv,
              UploadInv, EndInv, OkInv, RunsInv, HandlerSeesWholeUpload, Served, Ran
<1> QED
  BY <1>1, <1>2, <1>3, <1>4 DEF Next, Finished

(* The invariant behind the theorems holds in every reachable state. *)
LEMMA Invariance == Spec => []IndInv
<1> QED
  BY InitInv, NextInv, PTL DEF Spec

-----------------------------------------------------------------------------
(* A request that is not a GET is executed at most once: requestResource    *)
(* (cmd/deep/request.go) falls back for GET alone, and exchange             *)
(* (application.go) calls the handler once.                                 *)
THEOREM WritesNeverRepeated == Spec => []WritesRunOnce
<1>1. IndInv => WritesRunOnce
  BY DEF IndInv, Types, Ops, ClientInv, RunsInv, WritesRunOnce
<1> QED
  BY <1>1, Invariance, PTL

(* The handler of an application (exchange of application.go) is only ever  *)
(* called with the complete, verified upload of the client.                 *)
THEOREM UploadReachesHandlerWhole == Spec => []HandlerSeesWholeUpload
<1>1. IndInv => HandlerSeesWholeUpload
  BY DEF IndInv, RunsInv
<1> QED
  BY <1>1, Invariance, PTL

(* When "deep request" (cmd/deep/request.go) succeeds, its output is the    *)
(* complete answer of the last handler run, and an application's request    *)
(* was executed.                                                            *)
THEOREM SuccessIsServed == Spec => []SuccessMeansServed
<1>1. IndInv => SuccessMeansServed
  <2> SUFFICES ASSUME IndInv, cpc = "ok" PROVE SuccessMeansServed
    BY DEF SuccessMeansServed
  <2>1. /\ got = Answer(Len(runs), reply.length) /\ reply.length = reply.size /\ Ran
        /\ method = "HEAD" /\ op = "EXCHANGE" => reply.length = 0
    BY DEF IndInv, OkInv, Served
  <2>2. Answer(Len(runs), 0) = <<>>
    BY DEF Answer
  <2> QED
    BY <2>1, <2>2 DEF SuccessMeansServed, Ran
<1> QED
  BY <1>1, Invariance, PTL

-----------------------------------------------------------------------------
(* The rest of the types *)

(* Neither side takes more of a body than was announced to it. *)
Amounts ==
  /\ sent <= upload
  /\ got \in Seq(Nat \X Nat) /\ Len(got) <= want
  /\ cpc \in Uploading \cup {"response"} => got = <<>>
  /\ Len(received) <= upload /\ replied <= reply.size
  /\ cOpen \in BOOLEAN /\ broken \in BOOLEAN /\ timer \in {"set", "passed", "called"}

(* receiveBody and sendBody (application.go) keep to the announced sizes. *)
LEMMA AmountsNext == IndInv /\ Amounts /\ [Next]_vars => Amounts'
<1> SUFFICES ASSUME IndInv, Amounts, [Next]_vars PROVE Amounts'
  OBVIOUS
<1>t. Types
  BY DEF IndInv
<1> USE <1>t DEF requestVars, clientVars, serverVars
<1>1. CASE ClientSends \/ ClientContinues
  BY <1>1 DEF ClientSends, ClientContinues, Amounts, Uploading
<1>2. CASE ClientUploads
  BY <1>2 DEF ClientUploads, Amounts, Uploading, Types
<1>3. CASE ClientResponse
  <2>1. Head(toClient) \in ServerFrames
    BY <1>3 DEF ClientResponse, Types
  <2>2. want' \in Nat /\ got = <<>> /\ cpc' = "receiving" /\ got' = got
    BY <1>3, <2>1, ResponseFrame DEF ClientResponse, Amounts
  <2>3. UNCHANGED <<sent, upload, received, replied, reply, cOpen, timer, broken>>
    BY <1>3 DEF ClientResponse
  <2> QED
    BY <2>2, <2>3 DEF Amounts, Uploading
<1>4. CASE ClientReceives
  <2>1. UNCHANGED <<sent, upload, want, received, replied, reply, timer, broken>> /\ cOpen' \in BOOLEAN
    BY <1>4 DEF ClientReceives, Amounts
  <2>2. cpc' \in {"receiving", "ok"}
    BY <1>4 DEF ClientReceives
  <2>3. got' \in Seq(Nat \X Nat) /\ Len(got') <= want
    <3>1. CASE got' = got
      BY <3>1 DEF Amounts
    <3>2. CASE got' # got
      <4>1. /\ Head(toClient) \in ServerFrames /\ Head(toClient).type = "DATA"
            /\ got' = Append(got, Head(toClient).body) /\ Len(got) < want
        BY <1>4, <3>2 DEF ClientReceives, Types
      <4>2. Head(toClient).body \in Nat \X Nat
        BY <4>1 DEF ServerFrames
      <4>3. got \in Seq(Nat \X Nat) /\ want \in Nat
        BY DEF Amounts, Types
      <4> QED
        BY <4>1, <4>2, <4>3
    <3> QED
      BY <3>1, <3>2
  <2> QED
    BY <2>1, <2>2, <2>3 DEF Amounts, Uploading
<1>5. CASE ClientFallsBack
  <2>1. /\ sent' = 0 /\ want' = 0 /\ got' = <<>> /\ received' = <<>> /\ replied' = 0
        /\ reply'.size = 0 /\ broken' = FALSE /\ cOpen' = TRUE /\ timer' = "set" /\ upload' = upload
    BY <1>5 DEF ClientFallsBack, NoReply
  <2>2. cOpen' \in BOOLEAN /\ broken' \in BOOLEAN /\ timer' \in {"set", "passed", "called"}
    BY <2>1
  <2>3. upload' \in Nat
    BY <2>1 DEF Types
  <2>4. sent' <= upload' /\ replied' <= reply'.size
    BY <2>1, <2>3
  <2>5. Len(got') <= want' /\ Len(received') <= upload' /\ got' \in Seq(Nat \X Nat)
    BY <2>1, <2>3
  <2> QED
    BY <2>1, <2>2, <2>4, <2>5 DEF Amounts
<1>6. CASE ClientRefused \/ ClientFails \/ CallExpires \/ CallbackCloses
  BY <1>6 DEF ClientRefused, ClientFails, CallFailed, CallExpires, CallbackCloses, Amounts, Uploading
<1>7. CASE ServerReceives
  <2>1. UNCHANGED <<sent, upload, want, got, cpc, replied, reply, cOpen, timer, broken>>
    BY <1>7 DEF ServerReceives
  <2>2. Len(received') <= upload
    <3>1. CASE received' = received
      BY <3>1 DEF Amounts
    <3>2. CASE received' # received
      <4>1. /\ Head(toServer) \in ClientFrames /\ Head(toServer).type = "DATA"
            /\ received' = Append(received, Head(toServer).body) /\ Len(received) < upload
        BY <1>7, <3>2 DEF ServerReceives, Types
      <4>2. Head(toServer).body \in Nat
        BY <4>1, DataFrame
      <4>3. received \in Seq(Nat) /\ upload \in Nat
        BY DEF Types
      <4> QED
        BY <4>1, <4>2, <4>3
    <3> QED
      BY <3>1, <3>2
  <2> QED
    BY <2>1, <2>2 DEF Amounts
<1>8. CASE HandlerAnswers \/ MethodNotAllowed
  <2>1. replied' = 0 /\ reply'.size \in Nat
    <3>1. NoReply.size \in Nat /\ Notice.size \in Nat
      BY DEF NoReply, Notice
    <3>2. \A r \in Replies : r.size \in Nat
      BY ExchangeAssumption
    <3> QED
      BY <1>8, <3>1, <3>2 DEF HandlerAnswers, MethodNotAllowed
  <2>2. UNCHANGED <<sent, upload, want, got, cpc, received, cOpen, timer, broken>>
    BY <1>8 DEF HandlerAnswers, MethodNotAllowed
  <2> QED
    BY <2>1, <2>2 DEF Amounts
<1>9. CASE ServerSendsData
  BY <1>9 DEF ServerSendsData, Amounts, Types
<1>10. CASE \/ ServerRequest \/ ServerMetadata \/ HandlerFails \/ ServerSendsEnd
            \/ ServerFindsChange \/ ServerTimesOut \/ ServerGivesUp
  BY <1>10 DEF ServerRequest, ServerMetadata, HandlerFails, ServerSendsEnd, ServerFindsChange,
               ServerTimesOut, ServerGivesUp, Amounts
<1>11. CASE NetworkFails
  BY <1>11 DEF NetworkFails, Amounts
<1>12. CASE UNCHANGED vars
  BY <1>12 DEF vars, Amounts
<1> QED
  BY <1>1, <1>2, <1>3, <1>4, <1>5, <1>6, <1>7, <1>8, <1>9, <1>10, <1>11, <1>12
     DEF Next, ClientStep, ServerStep, Finished

(* The variables keep their types: the client never holds more of an answer *)
(* than RESPONSE announced, and the server (receiveBody of application.go)  *)
(* never more of an upload than the second REQUEST did.                     *)
THEOREM TypeCorrect == Spec => []TypeOK
<1>1. Init => Amounts
  <2> SUFFICES ASSUME Init PROVE Amounts
    OBVIOUS
  <2>1. upload \in Nat /\ sent = 0 /\ received = <<>>
    BY ExchangeAssumption DEF Init
  <2>2. got = <<>> /\ want = 0 /\ replied = 0 /\ reply.size = 0
    BY DEF Init, NoReply
  <2>3. cOpen \in BOOLEAN /\ broken \in BOOLEAN /\ timer = "set"
    BY DEF Init
  <2> QED
    BY <2>1, <2>2, <2>3 DEF Amounts
<1>2. IndInv /\ Amounts => TypeOK
  BY DEF IndInv, Types, Ops, Amounts, TypeOK
<1> QED
  BY <1>1, <1>2, AmountsNext, Invariance, PTL DEF Spec

-----------------------------------------------------------------------------
(* The slots of the local application *)

(* Where a request is while its AfterFunc can still run, and where its body *)
(* can be closed: a running AfterFunc of a finished request finds the body  *)
(* closed.                                                                  *)
HooksOrdered ==
  \A r \in Requests :
    /\ hook[r] = "armed" => pc[r] = "sending"
    /\ hook[r] = "running" => pc[r] \in {"sending", "closing", "done"}
    /\ hook[r] = "running" /\ pc[r] = "done" => r \in closed
    /\ r \in closed => pc[r] \in {"sending", "closing", "done"}

SlotsInv == SlotsTypeOK /\ SlotsMatchOwners /\ HooksOrdered

-----------------------------------------------------------------------------
(* The owners are finitely many. *)
LEMMA OwnersFinite == IsFiniteSet(Owners) /\ IsFiniteSet(Owners')
<1>1. Owners \subseteq Requests /\ Owners' \subseteq Requests
  BY DEF Owners, Held
<1> QED
  BY <1>1, FS_Subset, SlotsAssumption

(* One owner more is one more to count. *)
LEMMA OwnerAdded ==
  ASSUME NEW r, r \notin Owners, Owners' = Owners \cup {r}
  PROVE  Cardinality(Owners') = Cardinality(Owners) + 1 /\ Cardinality(Owners) \in Nat
BY OwnersFinite, FS_AddElement, FS_CardinalityType

(* One owner less is one less to count, and there was one. *)
LEMMA OwnerRemoved ==
  ASSUME NEW r, r \in Owners, Owners' = Owners \ {r}
  PROVE  /\ Cardinality(Owners') = Cardinality(Owners) - 1
         /\ Cardinality(Owners) \in Nat /\ Cardinality(Owners) > 0
<1>1. Cardinality(Owners) \in Nat /\ Cardinality(Owners') \in Nat
  BY OwnersFinite, FS_CardinalityType
<1>2. Cardinality(Owners') = Cardinality(Owners) - 1
  BY OwnersFinite, FS_RemoveElement
<1> QED
  BY <1>1, <1>2

(* A step that leaves the owners alone leaves their number alone. *)
LEMMA OwnersKept ==
  ASSUME Owners' = Owners, used' = used, SlotsMatchOwners
  PROVE  SlotsMatchOwners'
BY DEF SlotsMatchOwners

-----------------------------------------------------------------------------
(* The invariant holds initially: no request owns a slot. *)
LEMMA SlotsInitInv == SlotsInit => SlotsInv
<1> SUFFICES ASSUME SlotsInit PROVE SlotsInv
  OBVIOUS
<1>1. SlotsTypeOK
  BY SlotsAssumption DEF SlotsInit, SlotsTypeOK, Stages, Hooks
<1>2. Owners = {}
  BY DEF SlotsInit, Owners, Held
<1>3. SlotsMatchOwners
  BY <1>2, FS_EmptySet DEF SlotsInit, SlotsMatchOwners
<1>4. HooksOrdered
  BY DEF SlotsInit, HooksOrdered
<1> QED
  BY <1>1, <1>3, <1>4 DEF SlotsInv

(* Taking a slot makes an owner. *)
LEMMA TakeSlotStep ==
  ASSUME SlotsInv, NEW r \in Requests, TakeSlot(r)
  PROVE  SlotsInv'
<1> USE DEF TakeSlot, At
<1>1. SlotsTypeOK'
  BY SlotsAssumption DEF SlotsInv, SlotsTypeOK, Stages
<1>2. r \notin Owners /\ Owners' = Owners \cup {r}
  BY DEF SlotsInv, SlotsTypeOK, Owners, Held
<1>3. SlotsMatchOwners'
  BY <1>2, OwnerAdded DEF SlotsInv, SlotsMatchOwners
<1>4. HooksOrdered'
  BY DEF SlotsInv, SlotsTypeOK, HooksOrdered
<1> QED
  BY <1>1, <1>3, <1>4 DEF SlotsInv

(* A failed call gives its own slot back. *)
LEMMA CallFailsStep ==
  ASSUME SlotsInv, NEW r \in Requests, CallFails(r)
  PROVE  SlotsInv'
<1> USE DEF CallFails, At
<1>1. SlotsTypeOK'
  BY SlotsAssumption DEF SlotsInv, SlotsTypeOK, Stages
<1>2. r \in Owners /\ Owners' = Owners \ {r}
  BY DEF SlotsInv, SlotsTypeOK, Owners, Held
<1>3. SlotsMatchOwners'
  BY <1>2, OwnerRemoved DEF SlotsInv, SlotsMatchOwners
<1>4. HooksOrdered'
  BY DEF SlotsInv, SlotsTypeOK, HooksOrdered
<1> QED
  BY <1>1, <1>3, <1>4 DEF SlotsInv

(* Steps that take no slot and give none back. *)
LEMMA QuietStep ==
  ASSUME SlotsInv, NEW r \in Requests,
         \/ Submit(r) \/ StopWaiting(r) \/ CallReturns(r)
         \/ ArmHook(r) \/ StopHook(r) \/ ContextDone(r)
  PROVE  SlotsInv'
<1> USE DEF At
<1>1. SlotsTypeOK'
  BY DEF SlotsInv, SlotsTypeOK, Stages, Hooks, Submit, StopWaiting, CallReturns, ArmHook, StopHook,
         ContextDone
<1>2. Owners' = Owners /\ used' = used
  BY DEF SlotsInv, SlotsTypeOK, HooksOrdered, Owners, Held, Submit, StopWaiting, CallReturns, ArmHook,
         StopHook, ContextDone
<1>3. SlotsMatchOwners'
  BY <1>2, OwnersKept DEF SlotsInv
<1>4. HooksOrdered'
  BY DEF SlotsInv, SlotsTypeOK, Hooks, HooksOrdered, Submit, StopWaiting, CallReturns, ArmHook,
         StopHook, ContextDone
<1> QED
  BY <1>1, <1>3, <1>4 DEF SlotsInv

(* Every Close: the first one of a body gives back the slot of that body,   *)
(* and any later one changes nothing.                                       *)
LEMMA CloseStep ==
  ASSUME SlotsInv, NEW r \in Requests, OpenRejects(r) \/ CloseBody(r) \/ HookCloses(r)
  PROVE  SlotsInv'
<1>1. SlotsTypeOK'
  BY SlotsAssumption DEF SlotsInv, SlotsTypeOK, Stages, Hooks, OpenRejects, CloseBody, HookCloses, Close, At
<1>2. HooksOrdered'
  BY DEF SlotsInv, SlotsTypeOK, Hooks, HooksOrdered, OpenRejects, CloseBody, HookCloses, Close, At
<1>3. pc[r] \in {"returned", "closing"} \/ hook[r] = "running"
  BY DEF OpenRejects, CloseBody, HookCloses, At
<1>4. SlotsMatchOwners'
  <2>1. CASE r \in closed
    <3>1. Owners' = Owners /\ used' = used
      BY <2>1 DEF SlotsInv, SlotsTypeOK, HooksOrdered, Owners, Held, OpenRejects, CloseBody, HookCloses,
                  Close, At
    <3> QED
      BY <3>1, OwnersKept DEF SlotsInv
  <2>2. CASE r \notin closed
    <3>1. r \in Owners
      BY <1>3, <2>2 DEF SlotsInv, HooksOrdered, Owners, Held
    <3>2. Owners' = Owners \ {r} /\ used' = used - 1
      BY <2>2 DEF SlotsInv, SlotsTypeOK, HooksOrdered, Owners, Held, OpenRejects, CloseBody, HookCloses,
                  Close, At
    <3> QED
      BY <3>1, <3>2, OwnerRemoved DEF SlotsInv, SlotsMatchOwners
  <2> QED
    BY <2>1, <2>2
<1> QED
  BY <1>1, <1>2, <1>4 DEF SlotsInv

(* The invariant is inductive. *)
LEMMA SlotsNextInv == SlotsInv /\ [SlotsNext]_slotsVars => SlotsInv'
<1> SUFFICES ASSUME SlotsInv, [SlotsNext]_slotsVars PROVE SlotsInv'
  OBVIOUS
<1>1. CASE \E r \in Requests : Proceed(r) \/ HookCloses(r) \/ ContextDone(r)
  <2>1. PICK r \in Requests : Proceed(r) \/ HookCloses(r) \/ ContextDone(r)
    BY <1>1
  <2> QED
    BY <2>1, TakeSlotStep, CallFailsStep, QuietStep, CloseStep DEF Proceed
<1>2. CASE SlotsFinished \/ UNCHANGED slotsVars
  <2>1. UNCHANGED slotsVars
    BY <1>2 DEF SlotsFinished
  <2>2. Owners' = Owners /\ used' = used
    BY <2>1 DEF slotsVars, Owners, Held
  <2> QED
    BY <2>1, <2>2, OwnersKept DEF SlotsInv, slotsVars, SlotsTypeOK, HooksOrdered
<1> QED
  BY <1>1, <1>2 DEF SlotsNext

(* The inductive invariant holds of every behaviour. *)
THEOREM SlotsInvariant == SlotsSpec => []SlotsInv
BY SlotsInitInv, SlotsNextInv, PTL DEF SlotsSpec

-----------------------------------------------------------------------------
(* The types, and that the channel never holds more than Slots tokens. *)
THEOREM SlotsTypeCorrect == SlotsSpec => []SlotsTypeOK
BY SlotsInvariant, PTL DEF SlotsInv

(* No slot of the local application's limit is leaked, and none is given    *)
(* back for another request by a second or a late Close of a body.          *)
THEOREM SlotsExact == SlotsSpec => []SlotsMatchOwners
BY SlotsInvariant, PTL DEF SlotsInv

(* The local application never has more than Slots requests or unread       *)
(* answers.                                                                 *)
THEOREM LoadBounded == SlotsSpec => []BackendLoadBounded
<1>1. SlotsInv => BackendLoadBounded
  BY DEF SlotsInv, SlotsTypeOK, SlotsMatchOwners, BackendLoadBounded
<1> QED
  BY <1>1, SlotsInvariant, PTL

(* The receive that gives a slot back always finds a token. *)
THEOREM ReleaseImmediate == SlotsSpec => []ReleaseNeverBlocks
<1>1. SlotsInv => ReleaseNeverBlocks
  <2> SUFFICES ASSUME SlotsInv, NEW r \in Requests, r \notin closed,
                      pc[r] \in {"calling", "returned", "closing"} \/ hook[r] = "running"
               PROVE  used > 0
    BY DEF ReleaseNeverBlocks
  <2>1. r \in Owners
    BY DEF SlotsInv, HooksOrdered, Owners, Held
  <2>2. Cardinality(Owners) # 0 /\ Cardinality(Owners) \in Nat
    BY <2>1, OwnersFinite, FS_CardinalityType, FS_EmptySet
  <2> QED
    BY <2>2 DEF SlotsInv, SlotsMatchOwners
<1> QED
  BY <1>1, SlotsInvariant, PTL

(* The slots are counted exactly, bound the load, and are given back at     *)
(* once, however late and often a body is closed.                           *)
THEOREM SlotsAreSound == SlotsSpec => []SlotsSound
BY SlotsExact, LoadBounded, ReleaseImmediate, PTL DEF SlotsSound
=============================================================================
