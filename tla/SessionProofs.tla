---------------------------- MODULE SessionProofs ----------------------------
(***************************************************************************)
(* Proofs about Session, for any number of goroutines, any size of the ID  *)
(* space and of a frame, any resources and limits and any number of calls. *)
(***************************************************************************)
EXTENDS Session, SequenceTheorems, TLAPS

Labels  == {"idle", "checking", "sending", "waiting", "receiving", "finishing", "returning",
            "swapped", "locked", "unlocked"}
Busy    == {"checking", "sending", "waiting", "receiving", "finishing", "returning", "locked"}
Closing == {"swapped", "locked", "unlocked"}
Body    == [size : Nat, length : Nat]

\* The errors a server reports to a client that keeps to the protocol.
Codes == {"SESSION_LIMIT", "RATE_LIMITED", "NOT_FOUND", "INTERNAL_ERROR", "TOO_LARGE",
          "RESOURCE_CHANGED"}

\* What a server sends.
ServerFrames ==
  {Welcome} \cup {Response(i, n) : i \in Ids, n \in Nat}
    \cup {Data(i, Units(i, first, last)) : i \in Ids, first \in Nat, last \in Nat}
    \cup {End(i, n, Units(i, 1, n)) : i \in Ids, n \in Nat}
    \cup {Error(i, code) : i \in Ids, code \in Codes}

Types ==
  /\ dial \in {"resolving", "handshake", "welcome", "checking", "returning", "ok", "failed"}
  /\ nextID \in 0 .. (IdSpace - 1) /\ lock \in Callers \cup {None}
  /\ pc \in [Callers -> Labels]
  /\ id \in [Callers -> 0 .. (IdSpace - 1)]
  /\ result \in [Callers -> Results]
  /\ got \in [Callers -> Seq(Ids \X Nat)]
  /\ srv \in {"none", "handshake", "hello", "idle", "opening", "sending", "gone"}
  /\ lastID \in 0 .. (IdSpace - 1) /\ sid \in 0 .. (IdSpace - 1)
  /\ body \in Body /\ total \in Nat
  /\ opened \in [Ids -> Body]
  /\ toClient \in Seq(ServerFrames)

(* The mutex is held by the goroutine between TryLock and Unlock, and the   *)
(* atomic Swap lets only one goroutine through to close the session.  Who   *)
(* is about to send has an ID to send, and a result is kept between calls.  *)
LockInv ==
  /\ \A c \in Callers : pc[c] \in Busy <=> lock = c
  /\ \A c \in Callers : pc[c] \in Closing => closed
  /\ \A c, d \in Callers : pc[c] \in Closing /\ pc[d] \in Closing => c = d
  /\ \A c \in Callers : /\ pc[c] = "sending" => nextID # 0
                        /\ result[c] = "ok" => pc[c] = "idle"

\* Nothing is on its way, and the server is between requests.
Rest == toServer = <<>> /\ toClient = <<>> /\ srv \in {"idle", "gone"}

(* Before Dial returns there is no call, and the two sides only exchange    *)
(* HELLO and WELCOME.                                                       *)
DialInv ==
  /\ dial # "ok" => \A c \in Callers : pc[c] = "idle" /\ result[c] # "ok"
  /\ dial = "resolving" => toServer = <<>> /\ toClient = <<>> /\ srv = "none"
  /\ dial = "handshake" => toServer = <<>> /\ toClient = <<>> /\ srv \in {"handshake", "gone"}
  /\ dial = "welcome" =>
       \/ srv = "hello" /\ toClient = <<>>
       \/ srv \in {"idle", "gone"} /\ toServer = <<>> /\ toClient \in {<<>>, <<Welcome>>}
  /\ dial \in {"checking", "returning"} /\ cOpen => Rest

(* At most one frame of the client is on its way, the one that the server   *)
(* waits for; a REQUEST has an ID that is new to the server.                *)
RequestInv ==
  /\ sOpen <=> srv \notin {"none", "gone"}
  /\ nextID # 0 => lastID < nextID
  /\ \/ toServer = <<>>
     \/ srv = "hello" /\ toServer = <<Hello>>
     \/ srv = "idle" /\ toServer = <<CloseFrame>>
     \/ /\ srv = "idle"
        /\ \E i \in Ids : /\ lastID < i /\ (nextID # 0 => i < nextID)
                          /\ toServer = <<Request(i)>>

(* The server answers the last request it has accepted, from the body it    *)
(* has opened for it.                                                       *)
ServingInv ==
  /\ srv \in {"opening", "sending"} => sid \in Ids /\ sid = lastID
  /\ srv = "sending" => body = opened[sid]

(* END is the last frame of an answer: it has the digest of the whole body, *)
(* and the server is between requests until the client has read it.         *)
EndInv ==
  \A k \in 1 .. Len(toClient) :
    LET f == toClient[k]
    IN  f.type = "END" =>
          /\ k = Len(toClient) /\ toServer = <<>> /\ srv \in {"idle", "gone"}
          /\ f.id \in Ids /\ f.id <= lastID
          /\ f.digest = Units(f.id, 1, opened[f.id].length)

(* The session is at rest before a request is sent, after its END was read, *)
(* and between calls, unless Close has taken its turn.                      *)
RestInv ==
  cOpen /\ dial = "ok" =>
    /\ \A c \in Callers : pc[c] \in {"sending", "finishing", "returning", "locked"} => Rest
    /\ (\A c \in Callers : pc[c] \notin {"waiting", "receiving", "unlocked"}) => Rest

\* A Fetch that has verified END, and perhaps returned.
Verifies(c) == result[c] = "ok" \/ pc[c] \in {"finishing", "returning"}

(* What a Fetch has verified is the body opened for its request, which the  *)
(* server will not open again under that ID.                                *)
DeliveredInv ==
  \A c \in Callers :
    Verifies(c) => /\ id[c] \in Ids /\ id[c] <= lastID
                   /\ srv = "opening" => id[c] # sid
                   /\ got[c] = Units(id[c], 1, opened[id[c]].length)

IndInv ==
  /\ Types /\ LockInv /\ DialInv /\ RequestInv /\ ServingInv /\ EndInv /\ RestInv /\ DeliveredInv

-----------------------------------------------------------------------------
(* Frames and sequences of frames *)

(* The units of a request, as a sequence. *)
LEMMA UnitsType ==
  ASSUME NEW i \in Ids, NEW first \in Nat, NEW last \in Nat
  PROVE  Units(i, first, last) \in Seq(Ids \X Nat)
<1>1. Units(i, first, last) \in [1 .. (last - first + 1) -> Ids \X Nat]
  BY DEF Units
<1>2. CASE last - first + 1 \in Nat
  BY <1>1, <1>2
<1>3. CASE last - first + 1 \notin Nat
  <2>1. 1 .. (last - first + 1) = 1 .. 0
    BY <1>3
  <2> QED
    BY <1>1, <2>1
<1> QED
  BY <1>2, <1>3

(* Request IDs are taken one after the other until the space is used up;    *)
(* then nextID stays 0.                                                     *)
LEMMA IdAfter ==
  ASSUME NEW n \in 1 .. (IdSpace - 1)
  PROVE  (n + 1) % IdSpace = IF n + 1 = IdSpace THEN 0 ELSE n + 1
BY NumbersAssumption

(* The content of a DATA frame is a sequence of units. *)
LEMMA DataFrame ==
  ASSUME NEW f \in ServerFrames, f.type = "DATA"
  PROVE  f.body \in Seq(Ids \X Nat)
<1>1. PICK i \in Ids, first \in Nat, last \in Nat : f = Data(i, Units(i, first, last))
  BY DEF ServerFrames, Welcome, Response, Data, End, Error
<1>2. f.body = Units(i, first, last)
  BY <1>1 DEF Data
<1> QED
  BY <1>2, UnitsType

\* No END is on its way.
NoEnd == \A k \in 1 .. Len(toClient) : toClient[k].type # "END"

(* While the server works on a request, no END is on its way. *)
LEMMA NoEndYet ==
  ASSUME EndInv, toServer # <<>> \/ srv \notin {"idle", "gone"}
  PROVE  NoEnd
BY DEF EndInv, NoEnd

(* A write of the server adds its frame at the end, or nothing. *)
LEMMA ToClientAdds ==
  ASSUME Types, NEW f \in ServerFrames, toClient' = ToClient(f)
  PROVE  /\ toClient' \in Seq(ServerFrames)
         /\ \/ toClient' = toClient
            \/ /\ Len(toClient') = Len(toClient) + 1 /\ toClient'[Len(toClient) + 1] = f
               /\ \A k \in 1 .. Len(toClient) : toClient'[k] = toClient[k]
<1>1. toClient \in Seq(ServerFrames)
  BY DEF Types
<1>2. toClient' = toClient \/ toClient' = Append(toClient, f)
  BY DEF ToClient
<1> QED
  BY <1>1, <1>2

(* Any other frame than END leaves none on its way. *)
LEMMA EndInvOther ==
  ASSUME Types, NoEnd, NEW f \in ServerFrames, f.type # "END", toClient' = ToClient(f)
  PROVE  EndInv' /\ toClient' \in Seq(ServerFrames)
<1>1. toClient \in Seq(ServerFrames)
  BY DEF Types
<1> QED
  BY <1>1, ToClientAdds DEF EndInv, NoEnd

(* An empty connection carries no END. *)
LEMMA EndInvEmpty ==
  ASSUME toClient' = <<>>
  PROVE  EndInv' /\ toClient' \in Seq(ServerFrames)
BY DEF EndInv

(* Reading a frame leaves the others. *)
LEMMA EndInvTail ==
  ASSUME Types, EndInv, toClient # <<>>, toClient' = Tail(toClient), UNCHANGED serverVars,
         toServer' = toServer
  PROVE  EndInv' /\ toClient' \in Seq(ServerFrames)
<1>1. toClient \in Seq(ServerFrames)
  BY DEF Types
<1>2. /\ toClient' \in Seq(ServerFrames) /\ Len(toClient') = Len(toClient) - 1
      /\ \A k \in 1 .. Len(toClient') : toClient'[k] = toClient[k + 1]
  BY <1>1
<1>3. Len(toClient) \in Nat /\ Len(toClient') \in Nat
  BY <1>1, <1>2
<1>4. \A n, m \in Nat : m = n - 1 =>
        \A k \in 1 .. m : k + 1 \in 1 .. n /\ (k + 1 = n => k = m)
  OBVIOUS
<1>5. \A k \in 1 .. Len(toClient') :
        k + 1 \in 1 .. Len(toClient) /\ (k + 1 = Len(toClient) => k = Len(toClient'))
  BY ONLY <1>2, <1>3, <1>4
<1> QED
  BY <1>2, <1>5 DEF EndInv, serverVars

(* The server may end, and the client's frame be lost, around an END. *)
LEMMA EndInvKept ==
  ASSUME EndInv, UNCHANGED <<toClient, opened, lastID>>,
         toServer' \in {toServer, <<>>}, srv' \in {srv, "gone"}
  PROVE  EndInv'
BY DEF EndInv

(* A suffix that is lost takes END with it. *)
LEMMA EndInvPrefix ==
  ASSUME Types, EndInv, UNCHANGED serverVars, toServer' \in {toServer, <<>>},
         NEW n \in 0 .. Len(toClient), toClient' = SubSeq(toClient, 1, n)
  PROVE  EndInv' /\ toClient' \in Seq(ServerFrames)
<1>1. toClient \in Seq(ServerFrames)
  BY DEF Types
<1>2. /\ toClient' \in Seq(ServerFrames) /\ Len(toClient') = n
      /\ \A k \in 1 .. n : toClient'[k] = toClient[k]
  BY <1>1
<1> QED
  BY <1>1, <1>2 DEF EndInv, serverVars

-----------------------------------------------------------------------------
(* The invariant holds before Dial begins. *)
LEMMA InitInv == Init => IndInv
<1> SUFFICES ASSUME Init PROVE IndInv
  OBVIOUS
<1>1. Types
  BY CallersAssumption, NumbersAssumption
     DEF Init, Types, Labels, Results, Ids, NoBody, Body
<1>2. LockInv /\ DialInv
  BY CallersAssumption DEF Init, LockInv, DialInv, Busy, Closing
<1>3. RequestInv /\ ServingInv /\ EndInv
  BY DEF Init, RequestInv, ServingInv, EndInv
<1>4. RestInv /\ DeliveredInv
  BY DEF Init, RestInv, DeliveredInv, Verifies
<1> QED
  BY <1>1, <1>2, <1>3, <1>4 DEF IndInv

(* Fetch takes the mutex if it is free, and returns at once if not. *)
LEMMA FetchBeginInv ==
  ASSUME IndInv, NEW c \in Callers, FetchBegin(c)
  PROVE  IndInv'
<1> USE DEF dialVars, sessVars, callVars, serverVars, wireVars, IndInv
<1>a. /\ dial = "ok" /\ pc[c] = "idle" /\ lock # c
      /\ got' = [got EXCEPT ![c] = <<>>] /\ id' = [id EXCEPT ![c] = 0]
      /\ UNCHANGED <<dialVars, closed, nextID, cOpen, straggler, serverVars, wireVars>>
  BY DEF FetchBegin, LockInv, Busy
<1>b. \/ /\ pc' = [pc EXCEPT ![c] = "idle"] /\ result' = [result EXCEPT ![c] = "busy"]
         /\ lock' = lock
      \/ /\ pc' = [pc EXCEPT ![c] = "checking"] /\ result' = [result EXCEPT ![c] = "none"]
         /\ lock = None /\ lock' = c
  BY <1>a DEF FetchBegin, Return
<1>c. lock' \in Callers \cup {None} /\ pc' \in [Callers -> Labels] /\ result' \in [Callers -> Results]
  BY <1>b DEF Types, Labels, Results
<1>d. got' \in [Callers -> Seq(Ids \X Nat)] /\ id' \in [Callers -> 0 .. (IdSpace - 1)]
  BY <1>a, NumbersAssumption DEF Types
<1>e. ASSUME NEW d \in Callers
      PROVE  /\ pc'[d] \in Busy <=> lock' = d
             /\ pc'[d] \in Closing => pc[d] \in Closing
             /\ pc'[d] = "sending" => pc[d] = "sending"
  BY <1>a, <1>b, CallersAssumption DEF Types, LockInv, Busy, Closing
<1>f. ASSUME NEW d \in Callers, result'[d] = "ok" PROVE pc'[d] = "idle"
  BY <1>b, <1>f DEF Types, LockInv
<1> USE <1>a, <1>b
<1>1. Types'
  BY <1>c, <1>d DEF Types
<1>2. LockInv'
  BY <1>e, <1>f DEF LockInv
<1>3. DialInv'
  BY DEF DialInv, Rest, Types
<1>4. RequestInv'
  BY DEF RequestInv
<1>5. ServingInv'
  BY DEF ServingInv
<1>6. EndInv'
  BY EndInvKept
<1>7. RestInv'
  BY DEF RestInv, Rest, LockInv, DialInv, Types, Labels, Busy, Closing
<1>8. DeliveredInv'
  BY DEF DeliveredInv, Verifies, Types
<1> QED
  BY <1>1, <1>2, <1>3, <1>4, <1>5, <1>6, <1>7, <1>8

(* A call that is turned down under the lock leaves the session as it was. *)
LEMMA FetchRejectedInv ==
  ASSUME IndInv, NEW c \in Callers, FetchRejected(c)
  PROVE  IndInv'
<1> USE DEF FetchRejected, Return, dialVars, sessVars, callVars, serverVars, wireVars, IndInv
<1>1. Types'
  BY DEF Types, Labels, Results
<1>2. LockInv'
  BY CallersAssumption DEF LockInv, Types, Labels, Busy, Closing
<1>3. DialInv'
  BY DEF DialInv, Rest, Types
<1>4. RequestInv'
  BY DEF RequestInv
<1>5. ServingInv'
  BY DEF ServingInv
<1>6. EndInv'
  BY EndInvKept
<1>7. RestInv'
  BY DEF RestInv, Rest, LockInv, DialInv, Types, Labels, Busy, Closing
<1>8. DeliveredInv'
  BY DEF DeliveredInv, Verifies, Types
<1> QED
  BY <1>1, <1>2, <1>3, <1>4, <1>5, <1>6, <1>7, <1>8

(* A call that may proceed finds the session at rest. *)
LEMMA FetchArmsInv ==
  ASSUME IndInv, NEW c \in Callers, FetchArms(c)
  PROVE  IndInv'
<1> USE DEF FetchArms, dialVars, sessVars, callVars, serverVars, wireVars, IndInv
<1>1. Types'
  BY DEF Types, Labels, Results
<1>2. LockInv'
  BY CallersAssumption DEF LockInv, Types, Labels, Busy, Closing
<1>3. DialInv'
  BY DEF DialInv, Rest, Types
<1>4. RequestInv'
  BY DEF RequestInv
<1>5. ServingInv'
  BY DEF ServingInv
<1>6. EndInv'
  BY EndInvKept
<1>7. RestInv'
  BY DEF RestInv, Rest, LockInv, DialInv, Types, Labels, Busy, Closing
<1>8. DeliveredInv'
  BY DEF DeliveredInv, Verifies, Types
<1> QED
  BY <1>1, <1>2, <1>3, <1>4, <1>5, <1>6, <1>7, <1>8

(* The end of a context starts a callback and changes nothing else. *)
LEMMA ExpiresInv ==
  ASSUME IndInv, NEW c \in Callers, Expires(c)
  PROVE  IndInv'
<1> USE DEF Expires, dialVars, sessVars, callVars, serverVars, wireVars, IndInv
<1>1. Types'
  BY DEF Types, Labels, Results
<1>2. LockInv'
  BY CallersAssumption DEF LockInv, Types, Labels, Busy, Closing
<1>3. DialInv'
  BY DEF DialInv, Rest, Types
<1>4. RequestInv'
  BY DEF RequestInv
<1>5. ServingInv'
  BY DEF ServingInv
<1>6. EndInv'
  BY EndInvKept
<1>7. RestInv'
  BY DEF RestInv, Rest, LockInv, DialInv, Types, Labels, Busy, Closing
<1>8. DeliveredInv'
  BY DEF DeliveredInv, Verifies, Types
<1> QED
  BY <1>1, <1>2, <1>3, <1>4, <1>5, <1>6, <1>7, <1>8

(* A verified answer leaves the session at rest. *)
LEMMA FetchDecidesInv ==
  ASSUME IndInv, NEW c \in Callers, FetchDecides(c)
  PROVE  IndInv'
<1> USE DEF FetchDecides, dialVars, sessVars, callVars, serverVars, wireVars, IndInv
<1>1. Types'
  BY DEF Types, Labels, Results
<1>2. LockInv'
  BY CallersAssumption DEF LockInv, Types, Labels, Busy, Closing
<1>3. DialInv'
  BY DEF DialInv, Rest, Types
<1>4. RequestInv'
  BY DEF RequestInv
<1>5. ServingInv'
  BY DEF ServingInv
<1>6. EndInv'
  BY EndInvKept
<1>7. RestInv'
  BY DEF RestInv, Rest, LockInv, DialInv, Types, Labels, Busy, Closing
<1>8. DeliveredInv'
  BY DEF DeliveredInv, Verifies, Types
<1> QED
  BY <1>1, <1>2, <1>3, <1>4, <1>5, <1>6, <1>7, <1>8

(* A successful Fetch leaves the session at rest. *)
LEMMA FetchReturnsInv ==
  ASSUME IndInv, NEW c \in Callers, FetchReturns(c)
  PROVE  IndInv'
<1> USE DEF FetchReturns, Return, dialVars, sessVars, callVars, serverVars, wireVars, IndInv
<1>1. Types'
  BY DEF Types, Labels, Results
<1>2. LockInv'
  BY CallersAssumption DEF LockInv, Types, Labels, Busy, Closing
<1>3. DialInv'
  BY DEF DialInv, Rest, Types
<1>4. RequestInv'
  BY DEF RequestInv
<1>5. ServingInv'
  BY DEF ServingInv
<1>6. EndInv'
  BY EndInvKept
<1>7. RestInv'
  BY DEF RestInv, Rest, LockInv, DialInv, Types, Labels, Busy, Closing
<1>8. DeliveredInv'
  BY DEF DeliveredInv, Verifies, Types
<1> QED
  BY <1>1, <1>2, <1>3, <1>4, <1>5, <1>6, <1>7, <1>8

(* Only one Close gets past the Swap. *)
LEMMA CloseBeginInv ==
  ASSUME IndInv, NEW c \in Callers, CloseBegin(c)
  PROVE  IndInv'
<1> USE DEF CloseBegin, dialVars, sessVars, callVars, serverVars, wireVars, IndInv
<1>1. Types'
  BY NumbersAssumption DEF Types, Labels, Results
<1>2. LockInv'
  BY CallersAssumption DEF LockInv, Types, Labels, Busy, Closing
<1>3. DialInv'
  BY DEF DialInv, Rest, Types
<1>4. RequestInv'
  BY DEF RequestInv
<1>5. ServingInv'
  BY DEF ServingInv
<1>6. EndInv'
  BY EndInvKept
<1>7. RestInv'
  BY DEF RestInv, Rest, LockInv, DialInv, Types, Labels, Busy, Closing
<1>8. DeliveredInv'
  BY DEF DeliveredInv, Verifies, Types
<1> QED
  BY <1>1, <1>2, <1>3, <1>4, <1>5, <1>6, <1>7, <1>8

(* Close takes the mutex only from a session at rest. *)
LEMMA CloseTryLockInv ==
  ASSUME IndInv, NEW c \in Callers, CloseTryLock(c)
  PROVE  IndInv'
<1> USE DEF CloseTryLock, dialVars, sessVars, callVars, serverVars, wireVars, IndInv
<1>a. /\ closed /\ lock # c
      /\ \A d \in Callers \ {c} : pc[d] \notin Closing
      /\ lock = None => \A d \in Callers : pc[d] \notin Busy
  BY CallersAssumption DEF LockInv, Busy, Closing
<1>b. /\ \A d \in Callers : pc'[d] \in Busy <=> lock' = d
      /\ \A d \in Callers : pc'[d] = "sending" => nextID' # 0
      /\ \A d \in Callers : result'[d] = "ok" => pc'[d] = "idle"
  BY CallersAssumption DEF LockInv, Types, Busy
<1>c. \A d, e \in Callers : pc'[d] \in Closing /\ pc'[e] \in Closing => d = e
  BY <1>a DEF Types, Closing
<1>1. Types'
  BY DEF Types, Labels, Results
<1>2. LockInv'
  BY <1>a, <1>b, <1>c DEF LockInv
<1>3. DialInv'
  BY DEF DialInv, Rest, Types
<1>4. RequestInv'
  BY DEF RequestInv
<1>5. ServingInv'
  BY DEF ServingInv
<1>6. EndInv'
  BY EndInvKept
<1>7. RestInv'
  BY <1>a DEF RestInv, Rest, Types, Labels, Busy, Closing
<1>8. DeliveredInv'
  BY DEF DeliveredInv, Verifies, Types
<1> QED
  BY <1>1, <1>2, <1>3, <1>4, <1>5, <1>6, <1>7, <1>8

(* A REQUEST is written to a session at rest, with an ID the server has not seen. *)
LEMMA FetchSendsInv ==
  ASSUME IndInv, NEW c \in Callers, FetchSends(c)
  PROVE  IndInv'
<1> USE DEF FetchSends, dialVars, sessVars, callVars, serverVars, wireVars, IndInv
<1>a. dial = "ok" /\ cOpen /\ pc[c] = "sending"
  BY DEF DialInv, Types
<1>b. Rest /\ nextID \in Ids /\ lastID < nextID
  BY <1>a, NumbersAssumption DEF RestInv, LockInv, RequestInv, Types, Ids
<1>c. toServer' = <<>> \/ (srv = "idle" /\ toServer' = <<Request(nextID)>>)
  BY <1>b DEF Rest, ToServer, RequestInv
<1>d. nextID' \in 0 .. (IdSpace - 1) /\ (nextID' # 0 => nextID < nextID')
  BY <1>b, IdAfter, NumbersAssumption DEF Ids
<1>1. Types'
  BY <1>d DEF Types, Labels
<1>2. LockInv'
  BY <1>a DEF LockInv, Types, Busy, Closing
<1>3. DialInv'
  BY <1>a DEF DialInv
<1>4. RequestInv'
  BY <1>b, <1>c, <1>d, NumbersAssumption DEF RequestInv, Rest, Types, Ids
<1>5. ServingInv'
  BY DEF ServingInv
<1>6. EndInv'
  BY <1>b, EndInvEmpty DEF Rest
<1>7. RestInv'
  BY <1>a DEF RestInv, LockInv, Types, Busy
<1>8. DeliveredInv'
  BY <1>a DEF DeliveredInv, Verifies, LockInv, Types
<1> QED
  BY <1>1, <1>2, <1>3, <1>4, <1>5, <1>6, <1>7, <1>8

(* The announcement of an answer is read. *)
LEMMA FetchResponseInv ==
  ASSUME IndInv, NEW c \in Callers, FetchResponse(c)
  PROVE  IndInv'
<1> USE DEF FetchResponse, Incoming, dialVars, sessVars, callVars, serverVars, wireVars, IndInv
<1>a. EndInv' /\ toClient' \in Seq(ServerFrames)
  BY EndInvTail
<1>b. dial = "ok"
  BY DEF DialInv
<1>1. Types'
  BY <1>a DEF Types, Labels
<1>2. LockInv'
  BY CallersAssumption DEF LockInv, Types, Labels, Busy, Closing
<1>3. DialInv'
  BY <1>b DEF DialInv, Rest, Types
<1>4. RequestInv'
  BY DEF RequestInv
<1>5. ServingInv'
  BY DEF ServingInv
<1>6. EndInv'
  BY <1>a
<1>7. RestInv'
  BY DEF RestInv, Rest, LockInv, DialInv, Types, Labels, Busy, Closing
<1>8. DeliveredInv'
  BY DEF DeliveredInv, Verifies, Types
<1> QED
  BY <1>1, <1>2, <1>3, <1>4, <1>5, <1>6, <1>7, <1>8

(* Content is read. *)
LEMMA FetchDataInv ==
  ASSUME IndInv, NEW c \in Callers, FetchData(c)
  PROVE  IndInv'
<1> USE DEF FetchData, Incoming, dialVars, sessVars, callVars, serverVars, wireVars, IndInv
<1>a. EndInv' /\ toClient' \in Seq(ServerFrames)
  BY EndInvTail
<1>b. dial = "ok"
  BY DEF DialInv
<1>c. got' \in [Callers -> Seq(Ids \X Nat)]
  <2>1. Head(toClient) \in ServerFrames
    BY DEF Types
  <2>2. Head(toClient).body \in Seq(Ids \X Nat)
    BY <2>1, DataFrame
  <2>3. got[c] \o Head(toClient).body \in Seq(Ids \X Nat)
    BY <2>2, ConcatProperties DEF Types
  <2> QED
    BY <2>3 DEF Types
<1>1. Types'
  BY <1>a, <1>c DEF Types, Labels
<1>2. LockInv'
  BY CallersAssumption DEF LockInv, Types, Labels, Busy, Closing
<1>3. DialInv'
  BY <1>b DEF DialInv, Rest, Types
<1>4. RequestInv'
  BY DEF RequestInv
<1>5. ServingInv'
  BY DEF ServingInv
<1>6. EndInv'
  BY <1>a
<1>7. RestInv'
  BY DEF RestInv, Rest, LockInv, DialInv, Types, Labels, Busy, Closing
<1>8. DeliveredInv'
  BY DEF DeliveredInv, Verifies, Types, LockInv
<1> QED
  BY <1>1, <1>2, <1>3, <1>4, <1>5, <1>6, <1>7, <1>8

(* END is read: it was the last frame, and agrees with what was received. *)
LEMMA FetchEndInv ==
  ASSUME IndInv, NEW c \in Callers, FetchEnd(c)
  PROVE  IndInv'
<1> USE DEF FetchEnd, Incoming, dialVars, sessVars, callVars, serverVars, wireVars, IndInv
<1>a. dial = "ok" /\ cOpen /\ toClient \in Seq(ServerFrames) /\ toClient # <<>>
  BY DEF DialInv, Types
<1>b. 1 \in 1 .. Len(toClient) /\ Head(toClient) = toClient[1]
  BY <1>a
<1>c. /\ Len(toClient) = 1 /\ toServer = <<>> /\ srv \in {"idle", "gone"}
      /\ id[c] \in Ids /\ id[c] <= lastID
      /\ got[c] = Units(id[c], 1, opened[id[c]].length)
  BY <1>b DEF EndInv, Verified
<1>d. toClient' = <<>>
  BY <1>a, <1>c
<1>e. EndInv' /\ toClient' \in Seq(ServerFrames)
  BY <1>d, EndInvEmpty
<1>1. Types'
  BY <1>e DEF Types, Labels
<1>2. LockInv'
  BY CallersAssumption DEF LockInv, Types, Labels, Busy, Closing
<1>3. DialInv'
  BY <1>a DEF DialInv, Rest, Types
<1>4. RequestInv'
  BY DEF RequestInv
<1>5. ServingInv'
  BY DEF ServingInv
<1>6. EndInv'
  BY <1>e
<1>7. RestInv'
  BY <1>c, <1>d DEF RestInv, Rest
<1>8. DeliveredInv'
  BY <1>c DEF DeliveredInv, Verifies, Types
<1> QED
  BY <1>1, <1>2, <1>3, <1>4, <1>5, <1>6, <1>7, <1>8

(* CLOSE is written to a session at rest. *)
LEMMA CloseSendsInv ==
  ASSUME IndInv, NEW c \in Callers, CloseSends(c)
  PROVE  IndInv'
<1> USE DEF CloseSends, dialVars, sessVars, callVars, serverVars, wireVars, IndInv
<1>a. dial = "ok" /\ lock = c /\ (cOpen => Rest)
  BY DEF DialInv, RestInv, LockInv, Busy
<1>b. toServer' = toServer \/ (srv = "idle" /\ toServer' = <<CloseFrame>> /\ toClient = <<>>)
  <2>1. CASE cOpen
    BY <1>a, <2>1 DEF Rest, ToServer, RequestInv
  <2>2. CASE ~ cOpen
    BY <2>2
  <2> QED
    BY <2>1, <2>2
<1>c. EndInv'
  <2>1. CASE toServer' = toServer
    BY <2>1, EndInvKept
  <2>2. CASE toServer' # toServer
    BY <1>b, <2>2, EndInvEmpty
  <2> QED
    BY <2>1, <2>2
<1>d. pc'[c] = "unlocked"
  BY DEF Types
<1>1. Types'
  BY DEF Types, Labels, Results
<1>2. LockInv'
  BY <1>a, CallersAssumption DEF LockInv, Types, Busy, Closing
<1>3. DialInv'
  BY <1>a DEF DialInv
<1>4. RequestInv'
  BY <1>b DEF RequestInv
<1>5. ServingInv'
  BY DEF ServingInv
<1>6. EndInv'
  BY <1>c
<1>7. RestInv'
  BY <1>a, <1>d DEF RestInv, LockInv, Types, Busy
<1>8. DeliveredInv'
  BY DEF DeliveredInv, Verifies, Types
<1> QED
  BY <1>1, <1>2, <1>3, <1>4, <1>5, <1>6, <1>7, <1>8

(* Close closes the connection. *)
LEMMA CloseReturnsInv ==
  ASSUME IndInv, NEW c \in Callers, CloseReturns(c)
  PROVE  IndInv'
<1> USE DEF CloseReturns, CloseClient, dialVars, sessVars, callVars, serverVars, wireVars, IndInv
<1>1. Types'
  BY EndInvEmpty DEF Types, Labels
<1>2. LockInv'
  BY CallersAssumption DEF LockInv, Types, Labels, Busy, Closing
<1>3. DialInv'
  BY DEF DialInv, Rest, Types
<1>4. RequestInv'
  BY DEF RequestInv
<1>5. ServingInv'
  BY DEF ServingInv
<1>6. EndInv'
  BY EndInvEmpty
<1>7. RestInv'
  BY DEF RestInv
<1>8. DeliveredInv'
  BY DEF DeliveredInv, Verifies, Types
<1> QED
  BY <1>1, <1>2, <1>3, <1>4, <1>5, <1>6, <1>7, <1>8

(* A call that fails closes the connection. *)
LEMMA FetchErrorInv ==
  ASSUME IndInv, NEW c \in Callers, FetchError(c)
  PROVE  IndInv'
<1> USE DEF FetchError, FailCall, CloseClient, Return, Incoming, dialVars, sessVars, callVars,
         serverVars, wireVars, IndInv
<1>a. dial = "ok" /\ lock = c
  BY DEF DialInv, LockInv, Busy
<1>b. nextID' \in 0 .. (IdSpace - 1) /\ (nextID' # 0 => nextID # 0 /\ nextID <= nextID')
  <2>1. CASE pc[c] = "sending"
    <3>1. nextID \in 1 .. (IdSpace - 1)
      BY <2>1, NumbersAssumption DEF LockInv, Types
    <3>2. nextID' \in {nextID, (nextID + 1) % IdSpace}
      BY <2>1
    <3> QED
      BY <3>1, <3>2, IdAfter, NumbersAssumption
  <2>2. CASE pc[c] # "sending"
    BY <2>2, NumbersAssumption DEF Types
  <2> QED
    BY <2>1, <2>2
<1>1. Types'
  BY <1>b, EndInvEmpty DEF Types, Labels, Results
<1>2. LockInv'
  BY CallersAssumption, <1>a DEF LockInv, Types, Labels, Busy, Closing
<1>3. DialInv'
  BY <1>a DEF DialInv
<1>4. RequestInv'
  BY <1>b DEF RequestInv, Types, Ids
<1>5. ServingInv'
  BY DEF ServingInv
<1>6. EndInv'
  BY EndInvEmpty
<1>7. RestInv'
  BY DEF RestInv
<1>8. DeliveredInv'
  BY DEF DeliveredInv, Verifies, Types
<1> QED
  BY <1>1, <1>2, <1>3, <1>4, <1>5, <1>6, <1>7, <1>8

(* A call that is refused closes the connection. *)
LEMMA FetchRefusesInv ==
  ASSUME IndInv, NEW c \in Callers, FetchRefuses(c)
  PROVE  IndInv'
<1> USE DEF FetchRefuses, FailCall, CloseClient, Return, Incoming, dialVars, sessVars, callVars,
         serverVars, wireVars, IndInv
<1>a. dial = "ok" /\ lock = c
  BY DEF DialInv, LockInv, Busy
<1>1. Types'
  BY EndInvEmpty DEF Types, Labels, Results
<1>2. LockInv'
  BY CallersAssumption, <1>a DEF LockInv, Types, Labels, Busy, Closing
<1>3. DialInv'
  BY <1>a DEF DialInv
<1>4. RequestInv'
  BY DEF RequestInv
<1>5. ServingInv'
  BY DEF ServingInv
<1>6. EndInv'
  BY EndInvEmpty
<1>7. RestInv'
  BY DEF RestInv
<1>8. DeliveredInv'
  BY DEF DeliveredInv, Verifies, Types
<1> QED
  BY <1>1, <1>2, <1>3, <1>4, <1>5, <1>6, <1>7, <1>8

(* A late callback of a context closes the connection. *)
LEMMA StragglerClosesInv ==
  ASSUME IndInv, StragglerCloses
  PROVE  IndInv'
<1> USE DEF StragglerCloses, CloseClient, dialVars, sessVars, callVars, serverVars, wireVars,
         IndInv
<1>1. Types'
  BY EndInvEmpty DEF Types
<1>2. LockInv'
  BY CallersAssumption DEF LockInv, Types, Labels, Busy, Closing
<1>3. DialInv'
  BY DEF DialInv, Rest, Types
<1>4. RequestInv'
  BY DEF RequestInv
<1>5. ServingInv'
  BY DEF ServingInv
<1>6. EndInv'
  BY EndInvEmpty
<1>7. RestInv'
  BY DEF RestInv
<1>8. DeliveredInv'
  BY DEF DeliveredInv, Verifies, Types
<1> QED
  BY <1>1, <1>2, <1>3, <1>4, <1>5, <1>6, <1>7, <1>8

(* The connection exists once Dial has resolved the authority. *)
LEMMA DialConnectInv ==
  ASSUME IndInv, DialConnect
  PROVE  IndInv'
<1> USE DEF DialConnect, dialVars, sessVars, callVars, serverVars, wireVars, IndInv
<1>a. toServer = <<>> /\ toClient' = <<>> /\ srv = "none" /\ toServer' = <<>>
  BY DEF DialInv
<1>b. \/ dial' = "failed" /\ srv' = srv /\ sOpen' = sOpen
      \/ dial' = "handshake" /\ srv' = "handshake" /\ sOpen' = TRUE
  OBVIOUS
<1>c. sOpen' <=> srv' \notin {"none", "gone"}
  <2>1. CASE dial' = "failed"
    BY <1>b, <2>1 DEF RequestInv
  <2>2. CASE dial' = "handshake"
    BY <1>b, <2>2
  <2> QED
    BY <1>b, <2>1, <2>2
<1>1. Types'
  BY DEF Types, Labels, Results
<1>2. LockInv'
  BY CallersAssumption DEF LockInv, Types, Labels, Busy, Closing
<1>3. DialInv'
  BY DEF DialInv, Rest, Types
<1>4. RequestInv'
  BY <1>a, <1>c DEF RequestInv
<1>5. ServingInv'
  BY DEF ServingInv
<1>6. EndInv'
  BY <1>a, EndInvEmpty
<1>7. RestInv'
  BY DEF RestInv, Rest, LockInv, DialInv, Types, Labels, Busy, Closing
<1>8. DeliveredInv'
  BY DEF DeliveredInv, Verifies, Types
<1> QED
  BY <1>1, <1>2, <1>3, <1>4, <1>5, <1>6, <1>7, <1>8

(* The end of the context of Dial starts a callback. *)
LEMMA DialExpiresInv ==
  ASSUME IndInv, DialExpires
  PROVE  IndInv'
<1> USE DEF DialExpires, dialVars, sessVars, callVars, serverVars, wireVars, IndInv
<1>1. Types'
  BY DEF Types, Labels, Results
<1>2. LockInv'
  BY CallersAssumption DEF LockInv, Types, Labels, Busy, Closing
<1>3. DialInv'
  BY DEF DialInv, Rest, Types
<1>4. RequestInv'
  BY DEF RequestInv
<1>5. ServingInv'
  BY DEF ServingInv
<1>6. EndInv'
  BY EndInvKept
<1>7. RestInv'
  BY DEF RestInv, Rest, LockInv, DialInv, Types, Labels, Busy, Closing
<1>8. DeliveredInv'
  BY DEF DeliveredInv, Verifies, Types
<1> QED
  BY <1>1, <1>2, <1>3, <1>4, <1>5, <1>6, <1>7, <1>8

(* The client speaks first. *)
LEMMA DialHandshakeInv ==
  ASSUME IndInv, DialHandshake
  PROVE  IndInv'
<1> USE DEF DialHandshake, dialVars, sessVars, callVars, serverVars, wireVars, IndInv
<1>a. toServer' = <<>> \/ toServer' = <<Hello>>
  BY DEF DialInv, ToServer
<1>b. toClient' = <<>>
  BY DEF DialInv
<1>1. Types'
  BY DEF Types, Labels, Results
<1>2. LockInv'
  BY CallersAssumption DEF LockInv, Types, Labels, Busy, Closing
<1>3. DialInv'
  BY <1>b DEF DialInv
<1>4. RequestInv'
  BY <1>a DEF RequestInv
<1>5. ServingInv'
  BY DEF ServingInv
<1>6. EndInv'
  BY <1>b, EndInvEmpty
<1>7. RestInv'
  BY DEF RestInv, Rest, LockInv, DialInv, Types, Labels, Busy, Closing
<1>8. DeliveredInv'
  BY DEF DeliveredInv, Verifies, Types
<1> QED
  BY <1>1, <1>2, <1>3, <1>4, <1>5, <1>6, <1>7, <1>8

(* A Dial that fails closes the connection. *)
LEMMA DialErrorInv ==
  ASSUME IndInv, DialError
  PROVE  IndInv'
<1> USE DEF DialError, DialFails, CloseClient, dialVars, sessVars, callVars, serverVars,
         wireVars, IndInv
<1>1. Types'
  BY EndInvEmpty DEF Types
<1>2. LockInv'
  BY CallersAssumption DEF LockInv, Types, Labels, Busy, Closing
<1>3. DialInv'
  BY DEF DialInv, Rest, Types
<1>4. RequestInv'
  BY DEF RequestInv
<1>5. ServingInv'
  BY DEF ServingInv
<1>6. EndInv'
  BY EndInvEmpty
<1>7. RestInv'
  BY DEF RestInv
<1>8. DeliveredInv'
  BY DEF DeliveredInv, Verifies, Types
<1> QED
  BY <1>1, <1>2, <1>3, <1>4, <1>5, <1>6, <1>7, <1>8

(* WELCOME is the only frame that Dial reads. *)
LEMMA DialWelcomeInv ==
  ASSUME IndInv, DialWelcome
  PROVE  IndInv'
<1> USE DEF DialWelcome, dialVars, sessVars, callVars, serverVars, wireVars, IndInv
<1>a. toClient = <<Welcome>> /\ toServer = <<>> /\ srv \in {"idle", "gone"}
  BY DEF DialInv
<1>b. toClient' = <<>>
  BY <1>a
<1>1. Types'
  BY <1>b, EndInvEmpty DEF Types
<1>2. LockInv'
  BY CallersAssumption DEF LockInv, Types, Labels, Busy, Closing
<1>3. DialInv'
  BY <1>a, <1>b DEF DialInv, Rest
<1>4. RequestInv'
  BY DEF RequestInv
<1>5. ServingInv'
  BY DEF ServingInv
<1>6. EndInv'
  BY <1>b, EndInvEmpty
<1>7. RestInv'
  BY DEF RestInv
<1>8. DeliveredInv'
  BY DEF DeliveredInv, Verifies, Types
<1> QED
  BY <1>1, <1>2, <1>3, <1>4, <1>5, <1>6, <1>7, <1>8

(* Dial hands over a session at rest, or closes it. *)
LEMMA DialCheckInv ==
  ASSUME IndInv, DialCheck
  PROVE  IndInv'
<1> USE DEF DialCheck, DialFails, CloseClient, dialVars, sessVars, callVars, serverVars,
         wireVars, IndInv
<1>a. toClient' \in {toClient, <<>>}
  OBVIOUS
<1>b. EndInv' /\ toClient' \in Seq(ServerFrames)
  BY <1>a, EndInvEmpty, EndInvKept DEF Types
<1>1. Types'
  BY <1>b DEF Types
<1>2. LockInv'
  BY CallersAssumption DEF LockInv, Types, Labels, Busy, Closing
<1>3. DialInv'
  BY DEF DialInv, Rest, Types
<1>4. RequestInv'
  BY DEF RequestInv
<1>5. ServingInv'
  BY DEF ServingInv
<1>6. EndInv'
  BY <1>b
<1>7. RestInv'
  BY DEF RestInv
<1>8. DeliveredInv'
  BY DEF DeliveredInv, Verifies, Types
<1> QED
  BY <1>1, <1>2, <1>3, <1>4, <1>5, <1>6, <1>7, <1>8

(* Dial returns a session at rest. *)
LEMMA DialReturnsInv ==
  ASSUME IndInv, DialReturns
  PROVE  IndInv'
<1> USE DEF DialReturns, dialVars, sessVars, callVars, serverVars, wireVars, IndInv
<1>1. Types'
  BY DEF Types, Labels, Results
<1>2. LockInv'
  BY CallersAssumption DEF LockInv, Types, Labels, Busy, Closing
<1>3. DialInv'
  BY DEF DialInv, Rest, Types
<1>4. RequestInv'
  BY DEF RequestInv
<1>5. ServingInv'
  BY DEF ServingInv
<1>6. EndInv'
  BY EndInvKept
<1>7. RestInv'
  BY DEF RestInv, Rest, LockInv, DialInv, Types, Labels, Busy, Closing
<1>8. DeliveredInv'
  BY DEF DeliveredInv, Verifies, Types
<1> QED
  BY <1>1, <1>2, <1>3, <1>4, <1>5, <1>6, <1>7, <1>8

(* While the server has something to do, Dial is not at its end and no call *)
(* is at rest.                                                              *)
LEMMA ServerWorks ==
  ASSUME DialInv, RestInv, UNCHANGED <<dial, cOpen, pc, result>>,
         srv \in {"opening", "sending"} \/ (srv = "idle" /\ toServer # <<>>)
  PROVE  DialInv' /\ RestInv'
<1>1. ~ Rest
  BY DEF Rest
<1>2. dial \in {"checking", "returning"} => ~ cOpen
  BY <1>1 DEF DialInv
<1>3. DialInv'
  BY <1>2 DEF DialInv
<1>4. RestInv'
  BY <1>1 DEF RestInv
<1> QED
  BY <1>3, <1>4

(* The frame that the server reads between requests, unless it is CLOSE. *)
LEMMA NewRequest ==
  ASSUME Types, RequestInv, Arriving, Head(toServer).type # "CLOSE"
  PROVE  /\ Head(toServer).type = "REQUEST" /\ Head(toServer).id \in Ids
         /\ lastID < Head(toServer).id
         /\ nextID # 0 => Head(toServer).id < nextID
         /\ Tail(toServer) = <<>>
<1>1. toServer # <<CloseFrame>>
  BY DEF CloseFrame
<1>2. PICK i \in Ids : /\ lastID < i /\ (nextID # 0 => i < nextID)
                        /\ toServer = <<Request(i)>>
  BY <1>1 DEF RequestInv, Arriving
<1>3. Head(toServer) = Request(i) /\ Tail(toServer) = <<>>
  BY <1>2
<1> QED
  BY <1>2, <1>3 DEF Request

(* An ERROR that is sent in the middle of a request. *)
LEMMA ErrorSent ==
  ASSUME Types, NoEnd, NEW i \in Ids, NEW code \in Codes, ServerFails(i, code)
  PROVE  EndInv' /\ toClient' \in Seq(ServerFrames)
<1>1. Error(i, code) \in ServerFrames /\ Error(i, code).type # "END"
  BY DEF ServerFrames, Error
<1> QED
  BY <1>1, EndInvOther DEF ServerFails

(* The server answers HELLO with WELCOME. *)
LEMMA ServerHelloInv ==
  ASSUME IndInv, ServerHello
  PROVE  IndInv'
<1> USE DEF ServerHello, dialVars, sessVars, callVars, serverVars, wireVars, IndInv
<1>a. toServer = <<Hello>> /\ ~ Rest /\ toServer' = <<>>
  <2>1. srv = "hello" /\ toServer # <<>> /\ toServer' = Tail(toServer)
    OBVIOUS
  <2>2. toServer = <<Hello>>
    BY ONLY <2>1, RequestInv DEF RequestInv
  <2>3. toServer' = <<>>
    BY ONLY <2>1, <2>2
  <2> QED
    BY <2>1, <2>2, <2>3 DEF Rest
<1>b. Welcome \in ServerFrames /\ Welcome.type # "END"
  BY DEF ServerFrames, Welcome
<1>c. NoEnd
  BY NoEndYet
<1>z. EndInv' /\ toClient' \in Seq(ServerFrames)
  BY <1>b, <1>c, EndInvOther
<1>d. dial = "welcome" => toClient' \in {<<>>, <<Welcome>>}
  BY DEF DialInv, ToClient
<1>1. Types'
  BY <1>z DEF Types
<1>2. LockInv'
  BY CallersAssumption DEF LockInv, Types, Labels, Busy, Closing
<1>3. DialInv'
  BY <1>a, <1>d DEF DialInv
<1>4. RequestInv'
  BY <1>a DEF RequestInv
<1>5. ServingInv'
  BY DEF ServingInv
<1>6. EndInv'
  BY <1>z
<1>7. RestInv'
  BY <1>a DEF RestInv
<1>8. DeliveredInv'
  BY DEF DeliveredInv, Verifies, Types
<1> QED
  BY <1>1, <1>2, <1>3, <1>4, <1>5, <1>6, <1>7, <1>8

(* A request that is turned down ends the session. *)
LEMMA ServerRefusesInv ==
  ASSUME IndInv, ServerRefuses
  PROVE  IndInv'
<1> USE DEF CloseServer, dialVars, sessVars, callVars, serverVars, wireVars, IndInv
<1> DEFINE i == Head(toServer).id
<1>a. /\ Arriving /\ Head(toServer).type # "CLOSE"
      /\ \E code \in Refusals(Head(toServer)) : ServerFails(i, code)
      /\ lastID' = IF Head(toServer).type = "REQUEST" /\ i > lastID THEN i ELSE lastID
      /\ UNCHANGED <<dialVars, sessVars, cOpen, straggler, callVars, count, sid, body, total,
                     limit, opened, broken>>
  BY DEF ServerRefuses
<1>b. /\ Head(toServer).type = "REQUEST" /\ i \in Ids /\ lastID < i
      /\ nextID # 0 => i < nextID
  BY <1>a, NewRequest
<1>c. lastID \in Nat /\ ~ (i <= lastID) /\ lastID' = i
  BY <1>a, <1>b DEF Types, Ids
<1>d. PICK code \in Codes : ServerFails(i, code)
  BY <1>a, <1>b, <1>c DEF Refusals, Codes
<1>e. NoEnd
  BY <1>a, NoEndYet DEF Arriving
<1>z. EndInv' /\ toClient' \in Seq(ServerFrames)
  BY <1>b, <1>d, <1>e, ErrorSent
<1>f. toServer' = <<>> /\ srv' = "gone" /\ sOpen' = FALSE
  BY <1>d DEF ServerFails
<1>y. DialInv' /\ RestInv'
  BY <1>a, ServerWorks DEF Arriving
<1> USE <1>a
<1> HIDE DEF i
<1>1. Types'
  BY <1>b, <1>c, <1>f, <1>z DEF Types, Ids
<1>2. LockInv'
  BY CallersAssumption DEF LockInv, Types, Labels, Busy, Closing
<1>3. DialInv'
  BY <1>y
<1>4. RequestInv'
  BY <1>b, <1>c, <1>f DEF RequestInv
<1>5. ServingInv'
  BY <1>f DEF ServingInv
<1>6. EndInv'
  BY <1>z
<1>7. RestInv'
  BY <1>y
<1>8. DeliveredInv'
  BY <1>b, <1>c, <1>f DEF DeliveredInv, Verifies, Types, Ids
<1> QED
  BY <1>1, <1>2, <1>3, <1>4, <1>5, <1>6, <1>7, <1>8

(* A request that is accepted has an ID above all that were answered. *)
LEMMA ServerAcceptsInv ==
  ASSUME IndInv, ServerAccepts
  PROVE  IndInv'
<1> USE DEF ServerAccepts, dialVars, sessVars, callVars, serverVars, wireVars, IndInv
<1> DEFINE i == Head(toServer).id
<1>a. /\ i \in Ids /\ lastID < i /\ (nextID # 0 => i < nextID)
      /\ toServer' = <<>> /\ lastID' = i /\ sid' = i /\ srv' = "opening"
  BY NewRequest
<1>b. NoEnd
  BY NoEndYet DEF Arriving
<1>z. EndInv' /\ toClient' \in Seq(ServerFrames)
  BY <1>b DEF EndInv, NoEnd, Types
<1>y. DialInv' /\ RestInv'
  BY ServerWorks DEF Arriving
<1>c. sOpen' /\ UNCHANGED <<pc, id, got, result, opened, nextID>>
  BY DEF RequestInv, Arriving
<1> HIDE DEF i
<1>1. Types'
  BY <1>a, <1>z DEF Types, Ids
<1>2. LockInv'
  BY CallersAssumption DEF LockInv, Types, Labels, Busy, Closing
<1>3. DialInv'
  BY <1>y
<1>4. RequestInv'
  BY <1>a, <1>c DEF RequestInv
<1>5. ServingInv'
  BY <1>a DEF ServingInv
<1>6. EndInv'
  BY <1>z
<1>7. RestInv'
  BY <1>y
<1>8. DeliveredInv'
  BY <1>a, <1>c DEF DeliveredInv, Verifies, Types, Ids
<1> QED
  BY <1>1, <1>2, <1>3, <1>4, <1>5, <1>6, <1>7, <1>8

(* CLOSE ends the session. *)
LEMMA ServerClosedInv ==
  ASSUME IndInv, ServerClosed
  PROVE  IndInv'
<1> USE DEF ServerClosed, CloseServer, Arriving, dialVars, sessVars, callVars, serverVars,
         wireVars, IndInv
<1>y. DialInv' /\ RestInv'
  BY ServerWorks
<1>1. Types'
  BY DEF Types, Labels, Results
<1>2. LockInv'
  BY CallersAssumption DEF LockInv, Types, Labels, Busy, Closing
<1>3. DialInv'
  BY <1>y
<1>4. RequestInv'
  BY DEF RequestInv
<1>5. ServingInv'
  BY DEF ServingInv
<1>6. EndInv'
  BY EndInvKept
<1>7. RestInv'
  BY <1>y
<1>8. DeliveredInv'
  BY DEF DeliveredInv, Verifies, Types
<1> QED
  BY <1>1, <1>2, <1>3, <1>4, <1>5, <1>6, <1>7, <1>8

(* A request that cannot be answered ends the session. *)
LEMMA ServerCannotOpenInv ==
  ASSUME IndInv, ServerCannotOpen
  PROVE  IndInv'
<1> USE DEF CloseServer, dialVars, sessVars, callVars, serverVars, wireVars, IndInv
<1>a. /\ srv = "opening"
      /\ UNCHANGED <<dialVars, sessVars, cOpen, straggler, callVars, lastID, count, sid, body,
                     total, limit, opened, broken>>
  BY DEF ServerCannotOpen
<1>b. PICK code \in Codes : ServerFails(sid, code)
  BY DEF ServerCannotOpen, Codes
<1>c. sid \in Ids /\ NoEnd
  BY <1>a, NoEndYet DEF ServingInv
<1>z. EndInv' /\ toClient' \in Seq(ServerFrames)
  BY <1>b, <1>c, ErrorSent
<1>d. toServer' = <<>> /\ srv' = "gone" /\ sOpen' = FALSE
  BY <1>b DEF ServerFails
<1>y. DialInv' /\ RestInv'
  BY <1>a, ServerWorks
<1> USE <1>a, <1>d
<1>1. Types'
  BY <1>z DEF Types
<1>2. LockInv'
  BY CallersAssumption DEF LockInv, Types, Labels, Busy, Closing
<1>3. DialInv'
  BY <1>y
<1>4. RequestInv'
  BY DEF RequestInv
<1>5. ServingInv'
  BY DEF ServingInv
<1>6. EndInv'
  BY <1>z
<1>7. RestInv'
  BY <1>y
<1>8. DeliveredInv'
  BY DEF DeliveredInv, Verifies, Types
<1> QED
  BY <1>1, <1>2, <1>3, <1>4, <1>5, <1>6, <1>7, <1>8

(* A body is opened for a request that has no answer yet. *)
LEMMA ServerOpensInv ==
  ASSUME IndInv, ServerOpens
  PROVE  IndInv'
<1> USE DEF dialVars, sessVars, callVars, serverVars, wireVars, IndInv
<1>a. /\ srv = "opening" /\ srv' = "sending" /\ total' = 0
      /\ UNCHANGED <<dialVars, sessVars, cOpen, straggler, callVars, sOpen, lastID, count, sid,
                     limit, toServer, broken>>
  BY DEF ServerOpens
<1>b. PICK b \in Bodies : /\ body' = b /\ opened' = [opened EXCEPT ![sid] = b]
                          /\ toClient' = ToClient(Response(sid, b.size))
  BY DEF ServerOpens
<1>c. sid \in Ids /\ NoEnd
  BY <1>a, NoEndYet DEF ServingInv
<1>d. b \in Body /\ b.size \in Nat
  BY NumbersAssumption DEF Body
<1>e. Response(sid, b.size) \in ServerFrames /\ Response(sid, b.size).type # "END"
  BY <1>c, <1>d DEF ServerFrames, Response
<1>z. EndInv' /\ toClient' \in Seq(ServerFrames)
  BY <1>b, <1>c, <1>e, EndInvOther
<1>y. DialInv' /\ RestInv'
  BY <1>a, ServerWorks
<1> USE <1>a, <1>b
<1>1. Types'
  BY <1>c, <1>d, <1>z DEF Types
<1>2. LockInv'
  BY CallersAssumption DEF LockInv, Types, Labels, Busy, Closing
<1>3. DialInv'
  BY <1>y
<1>4. RequestInv'
  BY DEF RequestInv
<1>5. ServingInv'
  BY <1>c DEF ServingInv, Types
<1>6. EndInv'
  BY <1>z
<1>7. RestInv'
  BY <1>y
<1>8. DeliveredInv'
  BY <1>c DEF DeliveredInv, Verifies, Types
<1> QED
  BY <1>1, <1>2, <1>3, <1>4, <1>5, <1>6, <1>7, <1>8

(* Content is sent. *)
LEMMA ServerSendsDataInv ==
  ASSUME IndInv, ServerSendsData
  PROVE  IndInv'
<1> USE DEF dialVars, sessVars, callVars, serverVars, wireVars, IndInv
<1>a. /\ srv = "sending" /\ total < body.size /\ total' = total + ChunkLength
      /\ toClient' = ToClient(Data(sid, Units(sid, total + 1, total + ChunkLength)))
      /\ UNCHANGED <<dialVars, sessVars, cOpen, straggler, callVars, srv, sOpen, lastID, count, sid,
                     body, limit, opened, toServer, broken>>
  BY DEF ServerSendsData
<1>b. total' \in Nat /\ total + 1 \in Nat /\ total + ChunkLength \in Nat
  BY <1>a, NumbersAssumption DEF Types, Body, ChunkLength
<1>c. sid \in Ids /\ NoEnd
  BY <1>a, NoEndYet DEF ServingInv
<1> DEFINE f == Data(sid, Units(sid, total + 1, total + ChunkLength))
<1>d. f \in ServerFrames /\ f.type # "END"
  BY <1>b, <1>c DEF ServerFrames, Data
<1>z. EndInv' /\ toClient' \in Seq(ServerFrames)
  BY <1>a, <1>c, <1>d, EndInvOther
<1>y. DialInv' /\ RestInv'
  BY <1>a, ServerWorks
<1> USE <1>a
<1>1. Types'
  BY <1>b, <1>z DEF Types
<1>2. LockInv'
  BY CallersAssumption DEF LockInv, Types, Labels, Busy, Closing
<1>3. DialInv'
  BY <1>y
<1>4. RequestInv'
  BY DEF RequestInv
<1>5. ServingInv'
  BY DEF ServingInv
<1>6. EndInv'
  BY <1>z
<1>7. RestInv'
  BY <1>y
<1>8. DeliveredInv'
  BY DEF DeliveredInv, Verifies, Types
<1> QED
  BY <1>1, <1>2, <1>3, <1>4, <1>5, <1>6, <1>7, <1>8

(* END is sent when the body has ended, with the digest of all of it. *)
LEMMA ServerSendsEndInv ==
  ASSUME IndInv, ServerSendsEnd
  PROVE  IndInv'
<1> USE DEF dialVars, sessVars, callVars, serverVars, wireVars, IndInv
<1> DEFINE f == End(sid, total, Units(sid, 1, total))
<1>a. /\ srv = "sending" /\ body.length = total /\ toClient' = ToClient(f) /\ srv' = "idle"
      /\ UNCHANGED <<dialVars, sessVars, cOpen, straggler, callVars, sOpen, lastID, count, sid,
                     body, total, limit, opened, toServer, broken>>
  BY DEF ServerSendsEnd
<1>b. /\ sid \in Ids /\ sid <= lastID /\ toServer = <<>> /\ total = opened[sid].length
      /\ total \in Nat /\ NoEnd
  BY <1>a, NoEndYet DEF ServingInv, RequestInv, Types, Ids
<1>c. /\ f \in ServerFrames /\ f.id = sid
      /\ f.digest = Units(sid, 1, opened[sid].length)
  BY <1>b DEF ServerFrames, End
<1> HIDE DEF f
<1>d. toClient \in Seq(ServerFrames) /\ Len(toClient) \in Nat
  BY DEF Types
<1>e. /\ toClient' \in Seq(ServerFrames)
      /\ \/ toClient' = toClient
         \/ /\ Len(toClient') = Len(toClient) + 1 /\ toClient'[Len(toClient) + 1] = f
            /\ \A k \in 1 .. Len(toClient) : toClient'[k] = toClient[k]
  BY <1>a, <1>c, ToClientAdds
<1>g. ASSUME NEW k \in 1 .. Len(toClient'), toClient'[k].type = "END"
      PROVE  k = Len(toClient') /\ toClient'[k] = f
  BY <1>b, <1>d, <1>e, <1>g DEF NoEnd
<1>z. EndInv' /\ toClient' \in Seq(ServerFrames)
  BY <1>a, <1>b, <1>c, <1>e, <1>g DEF EndInv
<1>y. DialInv' /\ RestInv'
  BY <1>a, ServerWorks
<1> USE <1>a
<1>1. Types'
  BY <1>z DEF Types
<1>2. LockInv'
  BY CallersAssumption DEF LockInv, Types, Labels, Busy, Closing
<1>3. DialInv'
  BY <1>y
<1>4. RequestInv'
  BY DEF RequestInv
<1>5. ServingInv'
  BY DEF ServingInv
<1>6. EndInv'
  BY <1>z
<1>7. RestInv'
  BY <1>y
<1>8. DeliveredInv'
  BY DEF DeliveredInv, Verifies, Types
<1> QED
  BY <1>1, <1>2, <1>3, <1>4, <1>5, <1>6, <1>7, <1>8

(* A body that is not what was announced ends the session. *)
LEMMA ServerFindsChangeInv ==
  ASSUME IndInv, ServerFindsChange
  PROVE  IndInv'
<1> USE DEF CloseServer, dialVars, sessVars, callVars, serverVars, wireVars, IndInv
<1>a. /\ srv = "sending"
      /\ UNCHANGED <<dialVars, sessVars, cOpen, straggler, callVars, lastID, count, sid, body,
                     total, limit, opened, broken>>
  BY DEF ServerFindsChange
<1>b. PICK code \in Codes : ServerFails(sid, code)
  BY DEF ServerFindsChange, Codes
<1>c. sid \in Ids /\ NoEnd
  BY <1>a, NoEndYet DEF ServingInv
<1>z. EndInv' /\ toClient' \in Seq(ServerFrames)
  BY <1>b, <1>c, ErrorSent
<1>d. toServer' = <<>> /\ srv' = "gone" /\ sOpen' = FALSE
  BY <1>b DEF ServerFails
<1>y. DialInv' /\ RestInv'
  BY <1>a, ServerWorks
<1> USE <1>a, <1>d
<1>1. Types'
  BY <1>z DEF Types
<1>2. LockInv'
  BY CallersAssumption DEF LockInv, Types, Labels, Busy, Closing
<1>3. DialInv'
  BY <1>y
<1>4. RequestInv'
  BY DEF RequestInv
<1>5. ServingInv'
  BY DEF ServingInv
<1>6. EndInv'
  BY <1>z
<1>7. RestInv'
  BY <1>y
<1>8. DeliveredInv'
  BY DEF DeliveredInv, Verifies, Types
<1> QED
  BY <1>1, <1>2, <1>3, <1>4, <1>5, <1>6, <1>7, <1>8

(* The timeout of a transfer ends the session. *)
LEMMA ServerTimesOutInv ==
  ASSUME IndInv, ServerTimesOut
  PROVE  IndInv'
<1> USE DEF CloseServer, dialVars, sessVars, callVars, serverVars, wireVars, IndInv
<1>a. /\ srv = "sending"
      /\ UNCHANGED <<dialVars, sessVars, cOpen, straggler, callVars, lastID, count, sid, body,
                     total, limit, opened, broken>>
  BY DEF ServerTimesOut
<1>b. PICK code \in Codes : ServerFails(sid, code)
  BY DEF ServerTimesOut, Codes
<1>c. sid \in Ids /\ NoEnd
  BY <1>a, NoEndYet DEF ServingInv
<1>z. EndInv' /\ toClient' \in Seq(ServerFrames)
  BY <1>b, <1>c, ErrorSent
<1>d. toServer' = <<>> /\ srv' = "gone" /\ sOpen' = FALSE
  BY <1>b DEF ServerFails
<1>y. DialInv' /\ RestInv'
  BY <1>a, ServerWorks
<1> USE <1>a, <1>d
<1>1. Types'
  BY <1>z DEF Types
<1>2. LockInv'
  BY CallersAssumption DEF LockInv, Types, Labels, Busy, Closing
<1>3. DialInv'
  BY <1>y
<1>4. RequestInv'
  BY DEF RequestInv
<1>5. ServingInv'
  BY DEF ServingInv
<1>6. EndInv'
  BY <1>z
<1>7. RestInv'
  BY <1>y
<1>8. DeliveredInv'
  BY DEF DeliveredInv, Verifies, Types
<1> QED
  BY <1>1, <1>2, <1>3, <1>4, <1>5, <1>6, <1>7, <1>8

(* The server may end at any time. *)
LEMMA ServerGivesUpInv ==
  ASSUME IndInv, ServerGivesUp
  PROVE  IndInv'
<1> USE DEF ServerGivesUp, CloseServer, dialVars, sessVars, callVars, serverVars, wireVars, IndInv
<1>1. Types'
  BY DEF Types, Labels, Results
<1>2. LockInv'
  BY CallersAssumption DEF LockInv, Types, Labels, Busy, Closing
<1>3. DialInv'
  BY DEF DialInv, Rest
<1>4. RequestInv'
  BY DEF RequestInv
<1>5. ServingInv'
  BY DEF ServingInv
<1>6. EndInv'
  BY EndInvKept
<1>7. RestInv'
  BY DEF RestInv, Rest
<1>8. DeliveredInv'
  BY DEF DeliveredInv, Verifies, Types
<1> QED
  BY <1>1, <1>2, <1>3, <1>4, <1>5, <1>6, <1>7, <1>8

(* What the network loses is the end of what was on its way. *)
LEMMA NetworkFailsInv ==
  ASSUME IndInv, NetworkFails
  PROVE  IndInv'
<1> USE DEF dialVars, sessVars, callVars, serverVars, wireVars, IndInv
<1>a. UNCHANGED <<dialVars, sessVars, cOpen, straggler, callVars, serverVars>>
  BY DEF NetworkFails
<1>b. PICK m \in 0 .. Len(toServer), n \in 0 .. Len(toClient) :
        toServer' = SubSeq(toServer, 1, m) /\ toClient' = SubSeq(toClient, 1, n)
  BY DEF NetworkFails
<1>c. toServer' \in {toServer, <<>>}
  <2>1. PICK f : toServer = <<>> \/ toServer = <<f>>
    BY DEF RequestInv
  <2> QED
    BY <1>b, <2>1
<1>z. EndInv' /\ toClient' \in Seq(ServerFrames)
  BY <1>a, <1>b, <1>c, EndInvPrefix
<1>d. toClient = <<>> => toClient' = <<>>
  BY <1>b
<1>e. \A f : toClient = <<f>> => toClient' \in {<<>>, <<f>>}
  <2> SUFFICES ASSUME NEW f, toClient = <<f>>
               PROVE  toClient' \in {<<>>, <<f>>}
    OBVIOUS
  <2>1. Len(toClient) = 1
    OBVIOUS
  <2>2. n = 0 \/ n = 1
    BY ONLY <2>1, n \in 0 .. Len(toClient)
  <2>3. CASE n = 0
    BY <1>b, <2>3
  <2>4. CASE n = 1
    <3>1. toClient \in Seq(ServerFrames)
      BY DEF Types
    <3>2. toClient' = toClient
      BY <1>b, <2>1, <2>4, <3>1, SubSeqFull
    <3> QED
      BY <3>2
  <2> QED
    BY <2>2, <2>3, <2>4
<1>f. toServer = <<>> => toServer' = <<>>
  BY <1>c
<1> USE <1>a
<1>1. Types'
  BY <1>z DEF Types
<1>2. LockInv'
  BY CallersAssumption DEF LockInv, Types, Labels, Busy, Closing
<1>3. DialInv'
  BY <1>c, <1>d, <1>e, <1>f DEF DialInv, Rest
<1>4. RequestInv'
  BY <1>c DEF RequestInv
<1>5. ServingInv'
  BY DEF ServingInv
<1>6. EndInv'
  BY <1>z
<1>7. RestInv'
  BY <1>d, <1>f DEF RestInv, Rest
<1>8. DeliveredInv'
  BY DEF DeliveredInv, Verifies, Types
<1> QED
  BY <1>1, <1>2, <1>3, <1>4, <1>5, <1>6, <1>7, <1>8

(* Every step keeps the invariant. *)
LEMMA NextInv == IndInv /\ [Next]_vars => IndInv'
<1> SUFFICES ASSUME IndInv, [Next]_vars PROVE IndInv'
  OBVIOUS
<1>1. CASE DialStep
  BY <1>1, DialConnectInv, DialHandshakeInv, DialErrorInv, DialWelcomeInv, DialCheckInv,
     DialReturnsInv DEF DialStep
<1>2. CASE DialExpires
  BY <1>2, DialExpiresInv
<1>3. ASSUME NEW c \in Callers,
             FetchBegin(c) \/ FetchStep(c) \/ Expires(c) \/ CloseBegin(c) \/ CloseStep(c)
      PROVE  IndInv'
  <2>1. CASE FetchBegin(c) \/ Expires(c) \/ CloseBegin(c)
    BY <2>1, FetchBeginInv, ExpiresInv, CloseBeginInv
  <2>2. CASE FetchStep(c)
    BY <2>2, FetchRejectedInv, FetchArmsInv, FetchSendsInv, FetchErrorInv, FetchResponseInv,
       FetchDataInv, FetchEndInv, FetchRefusesInv, FetchDecidesInv, FetchReturnsInv
       DEF FetchStep
  <2>3. CASE CloseStep(c)
    BY <2>3, CloseTryLockInv, CloseSendsInv, CloseReturnsInv DEF CloseStep
  <2> QED
    BY <1>3, <2>1, <2>2, <2>3
<1>4. CASE ServerStep
  BY <1>4, ServerHelloInv, ServerRefusesInv, ServerAcceptsInv, ServerClosedInv,
     ServerCannotOpenInv, ServerOpensInv, ServerSendsDataInv, ServerSendsEndInv,
     ServerFindsChangeInv, ServerTimesOutInv, ServerGivesUpInv DEF ServerStep
<1>5. CASE StragglerCloses \/ NetworkFails
  BY <1>5, StragglerClosesInv, NetworkFailsInv
<1>6. CASE UNCHANGED vars
  <2> USE <1>6 DEF vars, dialVars, sessVars, callVars, serverVars, wireVars, IndInv
  <2>1. Types' /\ LockInv' /\ ServingInv'
    BY DEF Types, LockInv, ServingInv
  <2>2. RequestInv' /\ EndInv'
    BY DEF RequestInv, EndInv
  <2>3. DialInv' /\ RestInv'
    BY DEF DialInv, RestInv, Rest
  <2>4. DeliveredInv'
    BY DEF DeliveredInv, Verifies
  <2> QED
    BY <2>1, <2>2, <2>3, <2>4
<1> QED
  BY <1>1, <1>2, <1>3, <1>4, <1>5, <1>6 DEF Next, Finished

(* The invariant behind the theorems holds in every reachable state. *)
LEMMA Invariance == Spec => []IndInv
<1> QED
  BY InitInv, NextInv, PTL DEF Spec

-----------------------------------------------------------------------------
(* A Fetch (client.go) that returns nil has written exactly the bytes that  *)
(* the handler opened for that request, all of them and nothing of another  *)
(* answer, whatever callers, Close, late context callbacks, the server's    *)
(* transfer (server.go) and the network do meanwhile.                       *)
THEOREM FetchDeliversExactly == Spec => []DeliveredExactly
<1>1. IndInv => DeliveredExactly
  BY DEF IndInv, DeliveredInv, Verifies, DeliveredExactly
<1> QED
  BY <1>1, Invariance, PTL

(* serveConnection (server.go) never finds a protocol error in what the     *)
(* goroutines of one Session (client.go) send: IDs rise and do not wrap.    *)
THEOREM ClientKeepsProtocol == Spec => []NoProtocolError
<1>1. IndInv => NoProtocolError
  <2> SUFFICES ASSUME IndInv, NEW k \in 1 .. Len(toClient), toClient[k].type = "ERROR"
               PROVE  toClient[k].code # "PROTOCOL_ERROR"
    BY DEF NoProtocolError
  <2>1. toClient[k] \in ServerFrames
    BY DEF IndInv, Types
  <2>2. PICK i \in Ids, code \in Codes : toClient[k] = Error(i, code)
    BY <2>1 DEF ServerFrames, Welcome, Response, Data, End, Error
  <2> QED
    BY <2>2 DEF Error, Codes
<1> QED
  BY <1>1, Invariance, PTL

(* One request at a time: the mutex of Session (client.go) leaves at most   *)
(* one frame of the client unread, and none while transfer (server.go) runs.*)
THEOREM OneRequestAtATime == Spec => []ConversationOrdered
<1>1. IndInv => ConversationOrdered
  <2> SUFFICES ASSUME IndInv PROVE ConversationOrdered
    OBVIOUS
  <2>1. PICK f : toServer = <<>> \/ toServer = <<f>>
    BY DEF IndInv, RequestInv
  <2>2. srv \in {"opening", "sending"} => toServer = <<>>
    BY DEF IndInv, RequestInv
  <2>3. Len(toServer) <= 1
    <3>1. CASE toServer = <<>>
      BY <3>1
    <3>2. CASE toServer = <<f>>
      BY <3>2
    <3> QED
      BY <2>1, <3>1, <3>2
  <2> QED
    BY <2>2, <2>3 DEF ConversationOrdered
<1> QED
  BY <1>1, Invariance, PTL

(* A session that is open and unlocked between calls (client.go) has nothing*)
(* of an earlier call on its way, so no Fetch reads the answer of another.  *)
THEOREM SessionRestsBetweenCalls == Spec => []SessionAtRest
<1>1. IndInv => SessionAtRest
  <2> SUFFICES ASSUME IndInv, dial = "ok", ~ closed, lock = None, cOpen PROVE Rest
    BY DEF SessionAtRest, Rest
  <2>1. ASSUME NEW c \in Callers
        PROVE  pc[c] \notin {"waiting", "receiving", "unlocked"}
    BY CallersAssumption DEF IndInv, LockInv, Busy, Closing
  <2> QED
    BY <2>1 DEF IndInv, RestInv
<1> QED
  BY <1>1, Invariance, PTL

-----------------------------------------------------------------------------
(* The rest of the types *)

Flags ==
  /\ dialDone \in BOOLEAN /\ dialHook \in BOOLEAN /\ closed \in BOOLEAN /\ cOpen \in BOOLEAN
  /\ straggler \in BOOLEAN /\ sOpen \in BOOLEAN /\ broken \in BOOLEAN
  /\ done \in [Callers -> BOOLEAN] /\ hook \in [Callers -> BOOLEAN]

Counters == calls \in 0 .. MaxCalls /\ limit \in SessionLimits /\ count \in 0 .. limit

(* What was received never exceeds what was announced; before that it is    *)
(* empty.                                                                   *)
SizeInv ==
  /\ size \in [Callers -> Nat]
  /\ \A c \in Callers : /\ Len(got[c]) <= size[c]
                        /\ pc[c] \in {"checking", "sending", "waiting"} => got[c] = <<>>

(* The flags stay Boolean, and the counters within their bounds. *)
LEMMA FlagsInv == IndInv /\ Flags /\ Counters /\ [Next]_vars => Flags' /\ Counters'
<1> SUFFICES ASSUME IndInv, Flags, Counters, [Next]_vars PROVE Flags' /\ Counters'
  OBVIOUS
<1> USE DEF vars, dialVars, sessVars, callVars, serverVars, wireVars
<1>1. CASE DialStep \/ DialExpires
  BY <1>1 DEF DialStep, DialConnect, DialHandshake, DialError, DialWelcome, DialCheck,
       DialReturns,
              DialExpires, DialFails, CloseClient, Flags, Counters
<1>2. ASSUME NEW c \in Callers,
             FetchBegin(c) \/ FetchStep(c) \/ Expires(c) \/ CloseBegin(c) \/ CloseStep(c)
      PROVE  Flags' /\ Counters'
  <2>1. CASE FetchBegin(c)
    <3>1. calls' = calls + 1 /\ calls < MaxCalls /\ UNCHANGED <<limit, count>>
      BY <2>1 DEF FetchBegin
    <3>2. Counters'
      BY <3>1, NumbersAssumption DEF Counters
    <3>3. /\ UNCHANGED <<dialDone, dialHook, closed, cOpen, straggler, sOpen, broken>>
          /\ \E d \in BOOLEAN : done' = [done EXCEPT ![c] = d]
          /\ hook' = hook \/ hook' = [hook EXCEPT ![c] = FALSE]
      BY <2>1 DEF FetchBegin, Return
    <3> QED
      BY <3>2, <3>3 DEF Flags
  <2>2. CASE FetchStep(c)
    <3>1. CASE FetchRejected(c) \/ FetchReturns(c) \/ FetchArms(c)
      BY <3>1 DEF FetchRejected, FetchReturns, FetchArms, Return, Flags, Counters
    <3>2. CASE FetchError(c) \/ FetchRefuses(c)
      BY <3>2 DEF FetchError, FetchRefuses, FailCall, Return, CloseClient, Flags, Counters
    <3>3. CASE \/ FetchSends(c) \/ FetchResponse(c) \/ FetchData(c) \/ FetchEnd(c)
               \/ FetchDecides(c)
      BY <3>3 DEF FetchSends, FetchResponse, FetchData, FetchEnd, FetchDecides, Flags, Counters
    <3> QED
      BY <2>2, <3>1, <3>2, <3>3 DEF FetchStep
  <2>3. CASE Expires(c)
    BY <2>3 DEF Expires, Flags, Counters
  <2>4. CASE CloseBegin(c)
    BY <2>4, NumbersAssumption DEF CloseBegin, Flags, Counters
  <2>5. CASE CloseStep(c)
    BY <2>5 DEF CloseStep, CloseTryLock, CloseSends, CloseReturns, CloseClient, Flags, Counters
  <2> QED
    BY <1>2, <2>1, <2>2, <2>3, <2>4, <2>5
<1>3. CASE ServerAccepts
  BY <1>3, NumbersAssumption DEF ServerAccepts, Flags, Counters
<1>4. CASE ServerStep /\ ~ ServerAccepts
  BY <1>4 DEF ServerStep, ServerHello, ServerRefuses, ServerClosed, ServerCannotOpen, ServerOpens,
              ServerSendsData, ServerSendsEnd, ServerFindsChange, ServerTimesOut, ServerGivesUp,
              ServerFails, CloseServer, Flags, Counters
<1>5. CASE StragglerCloses \/ NetworkFails
  BY <1>5 DEF StragglerCloses, NetworkFails, CloseClient, Flags, Counters
<1>6. CASE UNCHANGED vars
  BY <1>6 DEF Flags, Counters
<1> QED
  BY <1>1, <1>2, <1>3, <1>4, <1>5, <1>6 DEF Next, Finished

(* The size that a RESPONSE announces is a number. *)
LEMMA ResponseFrame ==
  ASSUME NEW f \in ServerFrames, f.type = "RESPONSE"
  PROVE  f.size \in Nat
<1>1. PICK i \in Ids, n \in Nat : f = Response(i, n)
  BY DEF ServerFrames, Welcome, Response, Data, End, Error
<1> QED
  BY <1>1 DEF Response

(* Fetch (client.go) reads at most as much content as was announced. *)
LEMMA SizeNext == IndInv /\ SizeInv /\ [Next]_vars => SizeInv'
<1> SUFFICES ASSUME IndInv, SizeInv, [Next]_vars PROVE SizeInv'
  OBVIOUS
<1> USE DEF dialVars, sessVars, callVars, serverVars, wireVars
<1>1. CASE UNCHANGED <<pc, size, got>>
  BY <1>1 DEF SizeInv
<1>2. CASE DialStep \/ DialExpires \/ StragglerCloses \/ NetworkFails \/ UNCHANGED vars
  <2>1. UNCHANGED <<pc, size, got>>
    BY <1>2 DEF DialStep, DialConnect, DialHandshake, DialError, DialWelcome, DialCheck,
                DialReturns, DialExpires, StragglerCloses, NetworkFails, vars
  <2> QED
    BY <1>1, <2>1
<1>3. CASE ServerStep
  <2>1. UNCHANGED <<pc, size, got>>
    BY <1>3 DEF ServerStep, ServerHello, ServerRefuses, ServerAccepts, ServerClosed,
                ServerCannotOpen, ServerOpens, ServerSendsData, ServerSendsEnd, ServerFindsChange,
                ServerTimesOut, ServerGivesUp
  <2> QED
    BY <1>1, <2>1
<1>4. ASSUME NEW c \in Callers,
             FetchBegin(c) \/ FetchStep(c) \/ Expires(c) \/ CloseBegin(c) \/ CloseStep(c)
      PROVE  SizeInv'
  <2>1. Types
    BY DEF IndInv
  <2>2. CASE FetchBegin(c) \/ CloseBegin(c)
    <3>1. got' = [got EXCEPT ![c] = <<>>] /\ size' = [size EXCEPT ![c] = 0]
      BY <2>2 DEF FetchBegin, CloseBegin
    <3>2. \E label : pc' = [pc EXCEPT ![c] = label]
      BY <2>2 DEF FetchBegin, CloseBegin, Return
    <3> QED
      BY <2>1, <3>1, <3>2 DEF SizeInv, Types
  <2>3. CASE FetchResponse(c)
    <3>1. Head(toClient) \in ServerFrames /\ Head(toClient).type = "RESPONSE"
      BY <2>1, <2>3 DEF FetchResponse, Incoming, Types
    <3>2. Head(toClient).size \in Nat
      BY <3>1, ResponseFrame
    <3> QED
      BY <2>1, <2>3, <3>2 DEF FetchResponse, Incoming, SizeInv, Types
  <2>4. CASE FetchData(c)
    <3>1. Head(toClient) \in ServerFrames /\ Head(toClient).type = "DATA"
      BY <2>1, <2>4 DEF FetchData, Incoming, Types
    <3>2. Head(toClient).body \in Seq(Ids \X Nat) /\ got[c] \in Seq(Ids \X Nat)
      BY <2>1, <3>1, DataFrame DEF Types
    <3>3. /\ got' = [got EXCEPT ![c] = got[c] \o Head(toClient).body]
          /\ pc[c] = "receiving" /\ UNCHANGED <<pc, size>>
          /\ Len(Head(toClient).body) <= size[c] - Len(got[c])
      BY <2>4 DEF FetchData, Incoming
    <3>4. Len(got[c] \o Head(toClient).body) = Len(got[c]) + Len(Head(toClient).body)
      BY <3>2, ConcatProperties
    <3>5. Len(got[c] \o Head(toClient).body) <= size[c]
      <4>1. /\ Len(got[c]) \in Nat /\ Len(Head(toClient).body) \in Nat
            /\ size[c] \in Nat
        BY <3>2, LenProperties DEF SizeInv
      <4>2. Len(Head(toClient).body) <= size[c] - Len(got[c])
        BY <3>3
      <4>3. \A a, b, n \in Nat : b <= n - a => a + b <= n
        OBVIOUS
      <4> QED
        BY ONLY <3>4, <4>1, <4>2, <4>3
    <3> QED
      BY <2>1, <3>3, <3>5 DEF SizeInv, Types
  <2>5. CASE \/ FetchRejected(c) \/ FetchError(c) \/ FetchEnd(c) \/ FetchRefuses(c)
             \/ FetchDecides(c) \/ FetchReturns(c) \/ CloseStep(c)
    <3>1. UNCHANGED <<size, got>>
      BY <2>5 DEF FetchRejected, FetchError, FetchEnd, FetchRefuses, FetchDecides, FetchReturns,
                  CloseStep, CloseTryLock, CloseSends, CloseReturns
    <3>2. \E label \in {"idle", "finishing", "returning", "locked", "unlocked"} :
            pc' = [pc EXCEPT ![c] = label]
      BY <2>5 DEF FetchRejected, FetchError, FetchEnd, FetchRefuses, FetchDecides, FetchReturns,
                  CloseStep, CloseTryLock, CloseSends, CloseReturns, FailCall, Return
    <3> QED
      BY <2>1, <3>1, <3>2 DEF SizeInv, Types
  <2>6. CASE FetchArms(c) \/ FetchSends(c) \/ Expires(c)
    BY <2>1, <2>6 DEF FetchArms, FetchSends, Expires, SizeInv, Types
  <2> QED
    BY <1>4, <2>2, <2>3, <2>4, <2>5, <2>6 DEF FetchStep
<1> QED
  BY <1>2, <1>3, <1>4 DEF Next, Finished

(* The variables of the session keep their types: nextID, which the code    *)
(* lets wrap around to 0 (client.go), the ID the server keeps (server.go),  *)
(* the requests of a session within MaxRequestsPerSession, and the content  *)
(* of a call within its announced size.                                     *)
THEOREM TypeCorrect == Spec => []TypeOK
<1>1. Init => Flags /\ Counters /\ SizeInv
  <2> SUFFICES ASSUME Init PROVE Flags /\ Counters /\ SizeInv
    OBVIOUS
  <2>1. Flags
    BY DEF Init, Flags
  <2>2. Counters
    BY NumbersAssumption DEF Init, Counters
  <2>3. SizeInv
    BY DEF Init, SizeInv
  <2> QED
    BY <2>1, <2>2, <2>3
<1>2. IndInv /\ Flags /\ Counters /\ SizeInv => TypeOK
  BY DEF IndInv, Types, Flags, Counters, SizeInv, TypeOK, Labels, Body
<1> QED
  BY <1>1, <1>2, FlagsInv, SizeNext, Invariance, PTL DEF Spec

===============================================================================
