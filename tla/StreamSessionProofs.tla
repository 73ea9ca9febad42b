------------------------- MODULE StreamSessionProofs -------------------------
(***************************************************************************)
(* Client and server mean the same session: what a handshake leaves on the *)
(* wire, the counts the client claims, and the stanzas it hands to the     *)
(* router, which are those of InOrderDelivery.                             *)
(***************************************************************************)
EXTENDS StreamManagementProofs

Asks(m) == m.t \in {"resume", "enable"}

(* At most one request for a session is on its way.  It is the one of the  *)
(* current phase, and nothing has been answered on this connection yet.    *)
Requests ==
  /\ \A i, j \in 1 .. Len(toServer) : Asks(toServer[i]) /\ Asks(toServer[j]) => i = j
  /\ \A i \in 1 .. Len(toServer) : Asks(toServer[i]) =>
       /\ toClient = <<>> /\ ~srv.active
       /\ \/ phase = "resuming" /\ toServer[i] = SMResume(smId, inbound)
          \/ phase = "enabling" /\ toServer[i] = SMEnable(count.enables)
  /\ \A i \in 1 .. Len(toServer) : toServer[i].t = "a" => phase = "running"
  /\ ~connUp => toServer = <<>> /\ ~srv.active

(* What the reply to such a request means.                                 *)
Replies ==
  /\ phase = "auth" => toClient = <<>> /\ ~srv.active
  /\ phase = "resuming" => smId # 0
  /\ phase \in {"resuming", "enabling"} /\ srv.active => toClient # <<>>
  /\ phase = "resuming" /\ toClient # <<>> =>
       /\ Head(toClient) = SMFailed => Len(toClient) = 1 /\ ~srv.active
       /\ Head(toClient).t = "resumed" /\ Head(toClient).n = smId =>
            srv.sid = smId /\ (connUp => srv.active)
  /\ phase = "enabling" /\ toClient # <<>> /\ Head(toClient).t = "enabled" =>
       srv.sid = count.enables /\ Head(toClient).n \in {0, srv.sid} /\ (connUp => srv.active)

(* Sessions are numbered by the requests to enable, so a new one is new.   *)
Sessions ==
  /\ smId \in {0, queueObj}
  /\ queueObj <= count.enables /\ srv.sid <= count.enables
  /\ phase = "enabling" => queueObj < count.enables
  /\ phase = "enabling" /\ srv.sid = count.enables => srv.acked = 0
  /\ phase \in {"setup", "running", "dead"} =>
       queueObj = srv.sid /\ queueObj # 0 /\ (connUp => srv.active)
  /\ queueObj = 0 => inbound = 0
  /\ srv.sid = 0 => ~srv.live /\ ~srv.active /\ srv.sent = 0 /\ srv.acked = 0
  /\ srv.sent <= MaxInbound

(* What the next stanza read will be counted after.                        *)
Base == IF phase = "enabling" THEN 0 ELSE inbound

StzIn(ch) == {i \in 1 .. Len(ch) : ch[i].t = "stz"}

(* The stanzas on their way to the client are the next ones of the         *)
(* session, and as long as the connection works the last one sent is the   *)
(* last of them.                                                           *)
InStep(ch, base, last, whole) ==
  /\ \A i \in StzIn(ch) :
       /\ (\A j \in StzIn(ch) : i <= j) => ch[i].n = base + 1
       /\ ch[i].n <= last
       /\ whole /\ (\A j \in StzIn(ch) : j <= i) => ch[i].n = last
  /\ \A i, j \in StzIn(ch) : i < j /\ (\A k \in StzIn(ch) : k <= i \/ j <= k) =>
       ch[j].n = ch[i].n + 1
  /\ whole /\ StzIn(ch) = {} => base = last

Stream ==
  phase \in {"resuming", "enabling", "setup", "running"} =>
    InStep(toClient, Base, srv.sent, srv.active)

RoutedInOrder == Len(routed) = inbound /\ \A i \in 1 .. Len(routed) : routed[i] = i

SessionInv ==
  /\ TypeOK
  /\ Requests /\ Replies /\ Sessions /\ Stream /\ RoutedInOrder /\ ClaimsAreSound

-----------------------------------------------------------------------------
(* Types, as the lemmas below use them.                                    *)

Typed ==
  /\ toServer \in Seq(Msg) /\ toClient \in Seq(Msg) /\ routed \in Seq(Nat)
  /\ smId \in Nat /\ inbound \in Nat /\ queueObj \in Nat /\ phase \in Phases
  /\ connUp \in BOOLEAN /\ resumed \in BOOLEAN
  /\ count \in [sends : Nat, requests : Nat, dials : Nat, enables : Nat]
  /\ srv \in [sid : Nat, live : BOOLEAN, active : BOOLEAN, h : Nat, sent : Nat, acked : Nat]

LEMMA TypeOKTyped == TypeOK => Typed
<1> SUFFICES ASSUME TypeOK PROVE Typed
  OBVIOUS
<1>1. ClientTypeOK /\ NetTypeOK /\ ServerTypeOK /\ CountTypeOK
  BY DEF TypeOK
<1>2. count \in [sends : Nat, requests : Nat, dials : Nat, enables : Nat]
  BY <1>1, BoundsAssumption DEF CountTypeOK
<1> QED BY <1>1, <1>2 DEF Typed, ClientTypeOK, NetTypeOK, ServerTypeOK

LEMMA SequenceEnds ==
  ASSUME NEW ch \in Seq(Msg), ch # <<>>
  PROVE  /\ Head(ch) = ch[1] /\ 1 \in 1 .. Len(ch) /\ Tail(ch) \in Seq(Msg)
         /\ Len(Tail(ch)) = Len(ch) - 1
         /\ \A i \in 1 .. Len(Tail(ch)) : i + 1 \in 1 .. Len(ch) /\ Tail(ch)[i] = ch[i + 1]
OBVIOUS

(* What a write leaves on its way to the server.                           *)
LEMMA Written ==
  ASSUME NEW m \in Msg, toServer \in Seq(Msg), Write(m)
  PROVE  /\ ~connUp => toServer' = toServer
         /\ \A i \in 1 .. Len(toServer') :
              \/ i \in 1 .. Len(toServer) /\ toServer'[i] = toServer[i]
              \/ i = Len(toServer) + 1 /\ toServer'[i] = m
<1>1. CASE connUp
  BY <1>1 DEF Write
<1>2. CASE ~connUp
  BY <1>2 DEF Write
<1> QED BY <1>1, <1>2

-----------------------------------------------------------------------------
(* Requests for a session.                                                 *)

NoAsk == \A i \in 1 .. Len(toServer) : ~Asks(toServer[i])

LEMMA NoAskHere ==
  ASSUME Requests, phase \notin {"resuming", "enabling"} \/ toClient # <<>> \/ srv.active
  PROVE  NoAsk
BY DEF Requests, NoAsk

LEMMA NoClaimsHere ==
  ASSUME Requests, NoAsk, phase # "running"
  PROVE  Claims = {}
BY DEF Requests, NoAsk, Claims, Asks

(* The request the server reads is the only one, and the latest.           *)
LEMMA AskServed ==
  ASSUME Typed, Requests, toServer # <<>>, Asks(Head(toServer))
  PROVE  /\ toClient = <<>> /\ ~srv.active
         /\ \A i \in 1 .. Len(Tail(toServer)) : ~Asks(Tail(toServer)[i])
         /\ \/ phase = "resuming" /\ Head(toServer) = SMResume(smId, inbound)
            \/ phase = "enabling" /\ Head(toServer) = SMEnable(count.enables)
<1>1. /\ Head(toServer) = toServer[1] /\ 1 \in 1 .. Len(toServer)
      /\ \A i \in 1 .. Len(Tail(toServer)) :
           i + 1 \in 1 .. Len(toServer) /\ Tail(toServer)[i] = toServer[i + 1] /\ i \in Nat
  BY SequenceEnds DEF Typed
<1>2. ASSUME NEW i \in 1 .. Len(Tail(toServer)) PROVE ~Asks(Tail(toServer)[i])
  <2>1. i + 1 # 1
    BY <1>1
  <2> QED BY <1>1, <2>1 DEF Requests
<1> QED BY <1>1, <1>2 DEF Requests

(* Requests after a step that leaves none on its way.                      *)
LEMMA RequestsGone ==
  ASSUME \A i \in 1 .. Len(toServer') : ~Asks(toServer'[i]) /\ toServer'[i].t # "a",
         ~connUp' => toServer' = <<>> /\ ~srv'.active
  PROVE  Requests'
BY DEF Requests

(* Requests after a step that writes nothing but stanzas and requests for  *)
(* acknowledgement.                                                        *)
LEMMA RequestsWrite ==
  ASSUME Typed, Requests, NEW m \in Msg, ~Asks(m), m.t # "a", Write(m),
         UNCHANGED <<phase, smId, inbound, connUp, toClient, srv, count.enables>>
  PROVE  Requests'
<1>1. /\ ~connUp => toServer' = toServer
      /\ \A i \in 1 .. Len(toServer') :
           \/ i \in 1 .. Len(toServer) /\ toServer'[i] = toServer[i]
           \/ i = Len(toServer) + 1 /\ toServer'[i] = m
  BY Written DEF Typed
<1>2. \A i \in 1 .. Len(toServer') : Asks(toServer'[i]) \/ toServer'[i].t = "a" =>
        i \in 1 .. Len(toServer) /\ toServer'[i] = toServer[i]
  BY <1>1
<1> QED BY <1>1, <1>2 DEF Requests, SMResume, SMEnable

LEMMA RequestsServe ==
  ASSUME Typed, Requests, toServer # <<>>, toServer' = Tail(toServer), connUp' = TRUE,
         UNCHANGED phase, NoAsk \/ Asks(Head(toServer))
  PROVE  Requests'
<1>1. /\ Tail(toServer) \in Seq(Msg)
      /\ \A i \in 1 .. Len(Tail(toServer)) :
           i + 1 \in 1 .. Len(toServer) /\ Tail(toServer)[i] = toServer[i + 1]
  BY SequenceEnds DEF Typed
<1>a. \A i \in 1 .. Len(toServer') : toServer'[i].t = "a" => phase' = "running"
  BY <1>1 DEF Requests
<1>2. \A i \in 1 .. Len(toServer') : ~Asks(toServer'[i])
  BY <1>1, AskServed DEF NoAsk
<1> QED BY <1>a, <1>2 DEF Requests

LEMMA RequestsStep ==
  ASSUME SessionInv, [Next]_vars
  PROVE  Requests'
<1>0. Typed /\ Requests /\ Replies
  BY TypeOKTyped DEF SessionInv
<1>1. CASE UNCHANGED <<phase, smId, inbound, connUp, toServer, toClient, srv, count>>
  BY <1>0, <1>1 DEF Requests, SMResume, SMEnable
<1>2. CASE Dial \/ NegotiationFails \/ SessionLost \/ ResumeError \/ ReadEnableFailed
           \/ EnableError \/ ConnectionLost
  <2>1. toServer' = <<>> /\ srv' = [srv EXCEPT !.active = FALSE]
    BY <1>2 DEF Dial, NegotiationFails, SessionLost, ResumeError, ReadEnableFailed,
                EnableError, ConnectionLost, CloseConnection
  <2>2. ~srv'.active
    BY <1>0, <2>1 DEF Typed
  <2> QED BY <2>1, <2>2 DEF Requests
<1>3. CASE BeginResume
  <2>1. NoAsk /\ (\A i \in 1 .. Len(toServer) : toServer[i].t # "a") /\ toClient = <<>> /\ ~srv.active
    BY <1>0, <1>3, NoAskHere DEF BeginResume, Requests, Replies
  <2>2. SMResume(smId, inbound) \in Msg
    BY <1>0, MessagesTyped DEF Typed
  <2>3. phase' = "resuming" /\ UNCHANGED <<smId, inbound, connUp, toClient, srv>>
        /\ Write(SMResume(smId, inbound))
    BY <1>3 DEF BeginResume, KeepSMState, srvVars
  <2>4. /\ ~connUp => toServer' = toServer
        /\ \A i \in 1 .. Len(toServer') :
             \/ i \in 1 .. Len(toServer) /\ toServer'[i] = toServer[i]
             \/ i = Len(toServer) + 1 /\ toServer'[i] = SMResume(smId, inbound)
    BY <1>0, <2>2, <2>3, Written DEF Typed
  <2> QED BY <1>0, <2>1, <2>3, <2>4 DEF Requests, NoAsk, SMResume
<1>4. CASE BeginEnable \/ ReadResumeFailed
  <2>0. NoAsk /\ toClient' = <<>> /\ ~srv'.active /\ phase # "running"
    <3>1. CASE BeginEnable
      BY <1>0, <3>1, NoAskHere DEF BeginEnable, Replies, srvVars
    <3>2. CASE ReadResumeFailed
      <4>1. phase = "resuming" /\ toClient # <<>> /\ Head(toClient) = SMFailed
            /\ toClient' = Tail(toClient) /\ srv' = srv
        BY <3>2 DEF ReadResumeFailed, srvVars
      <4>2. Len(toClient) = 1 /\ ~srv.active
        BY <1>0, <4>1 DEF Replies
      <4>3. Tail(toClient) = <<>>
        <5>1. toClient \in Seq(Msg) /\ Tail(toClient) \in Seq(Msg) /\ Len(Tail(toClient)) = 0
          BY <1>0, <4>1, <4>2, SequenceEnds DEF Typed
        <5> QED BY <5>1, EmptySeq
      <4> QED BY <1>0, <4>1, <4>2, <4>3, NoAskHere
    <3> QED BY <1>4, <3>1, <3>2
  <2>1. \A i \in 1 .. Len(toServer) : toServer[i].t # "a"
    BY <1>0, <2>0 DEF Requests
  <2> DEFINE e == SMEnable(count.enables + 1)
  <2>2. e \in Msg
    <3>1. count.enables + 1 \in Nat
      BY <1>0 DEF Typed
    <3> QED BY <3>1, MessagesTyped
  <2>3. phase' = "enabling" /\ connUp' = connUp /\ Write(e)
        /\ count' = [count EXCEPT !.enables = @ + 1]
    BY <1>4 DEF BeginEnable, ReadResumeFailed, WriteEnable
  <2>4. e = SMEnable(count.enables)'
    BY <1>0, <2>3 DEF Typed, SMEnable
  <2>e. e.t = "enable"
    BY DEF SMEnable
  <2> HIDE DEF e
  <2>5. /\ ~connUp => toServer' = toServer
        /\ \A i \in 1 .. Len(toServer') :
             \/ i \in 1 .. Len(toServer) /\ toServer'[i] = toServer[i]
             \/ i = Len(toServer) + 1 /\ toServer'[i] = e
    BY <1>0, <2>2, <2>3, Written DEF Typed
  <2> QED BY <1>0, <2>0, <2>1, <2>3, <2>4, <2>e, <2>5 DEF Requests, NoAsk
<1>5. CASE ReadResumed \/ ReadEnabled
  <2>1. NoAsk /\ UNCHANGED <<toServer, connUp, srv>> /\ phase # "running"
    BY <1>0, <1>5, NoAskHere DEF ReadResumed, ReadEnabled, srvVars
  <2>2. \A i \in 1 .. Len(toServer) : toServer[i].t # "a"
    BY <1>0, <2>1 DEF Requests
  <2> QED BY <1>0, <2>1, <2>2 DEF Requests, NoAsk
<1>6. CASE PostSessionSetup \/ SetupFails
  <2>1. NoAsk /\ phase = "setup"
    BY <1>0, <1>6, NoAskHere DEF PostSessionSetup, SetupFails
  <2>2. \A i \in 1 .. Len(toServer) : toServer[i].t # "a"
    BY <1>0, <2>1 DEF Requests
  <2>3. UNCHANGED <<connUp, srv>> /\ (UNCHANGED toServer \/ Write(InitialPresence))
    BY <1>6 DEF PostSessionSetup, SetupFails, srvVars
  <2>4. CASE UNCHANGED toServer
    BY <1>0, <2>1, <2>2, <2>3, <2>4 DEF Requests, NoAsk
  <2>5. CASE Write(InitialPresence)
    <3>1. /\ ~connUp => toServer' = toServer
          /\ \A i \in 1 .. Len(toServer') :
               \/ i \in 1 .. Len(toServer) /\ toServer'[i] = toServer[i]
               \/ i = Len(toServer) + 1 /\ toServer'[i] = InitialPresence
      BY <1>0, <2>5, ConstantMessagesTyped, Written DEF Typed
    <3>2. InitialPresence.t = "stz"
      BY DEF InitialPresence, Stz
    <3>3. \A i \in 1 .. Len(toServer') : ~Asks(toServer'[i]) /\ toServer'[i].t # "a"
      BY <2>1, <2>2, <3>1, <3>2 DEF NoAsk, Asks
    <3> QED BY <1>0, <2>3, <3>1, <3>3 DEF Requests
  <2> QED BY <2>3, <2>4, <2>5
<1>7. CASE RecvStanza \/ RecvAnswer \/ RecvRequest
  <2>1. NoAsk /\ phase = "running" /\ UNCHANGED <<phase, connUp, srv>>
        /\ (UNCHANGED toServer \/ Write(SMAnswer(inbound)))
    BY <1>0, <1>7, NoAskHere DEF RecvStanza, RecvAnswer, RecvRequest, Reading, srvVars, clientVars
  <2>2. CASE UNCHANGED toServer
    BY <1>0, <2>1, <2>2 DEF Requests, NoAsk
  <2>3. CASE Write(SMAnswer(inbound))
    <3>1. SMAnswer(inbound) \in Msg /\ SMAnswer(inbound).t = "a"
      BY <1>0, MessagesTyped DEF Typed, SMAnswer
    <3>2. /\ ~connUp => toServer' = toServer
          /\ \A i \in 1 .. Len(toServer') :
               \/ i \in 1 .. Len(toServer) /\ toServer'[i] = toServer[i]
               \/ i = Len(toServer) + 1 /\ toServer'[i] = SMAnswer(inbound)
      BY <1>0, <2>3, <3>1, Written DEF Typed
    <3>3. \A i \in 1 .. Len(toServer') : ~Asks(toServer'[i])
      BY <2>1, <3>1, <3>2 DEF NoAsk, Asks
    <3> QED BY <1>0, <2>1, <3>2, <3>3 DEF Requests
  <2> QED BY <2>1, <2>2, <2>3
<1>8. CASE RecvRequestFails \/ RecvError
  <2>1. ~connUp /\ UNCHANGED <<toServer, connUp, srv>>
    BY <1>8 DEF RecvRequestFails, RecvError, netVars, srvVars
  <2>2. toServer' = <<>> /\ ~srv'.active
    BY <1>0, <2>1 DEF Requests
  <2> QED BY <2>2 DEF Requests
<1>9. CASE ResendOne \/ ResendDone \/ SendRequest \/ \E s \in Senders : SendWrite(s)
  <2>1. PICK m \in Msg : m.t \in {"stz", "r"} /\ Write(m)
    <3>1. CASE ResendOne
      <4>1. pending \in Seq(Nat) /\ pending # <<>> /\ Write(Stz(Head(pending)))
        BY <3>1 DEF ResendOne, SessionInv, TypeOK, SendTypeOK
      <4>2. Head(pending) \in Nat
        BY <4>1
      <4> QED BY <4>1, <4>2, MessagesTyped DEF Stz
    <3>2. CASE ResendDone \/ SendRequest
      BY <3>2, ConstantMessagesTyped DEF ResendDone, SendRequest, SMRequest
    <3>3. CASE \E s \in Senders : SendWrite(s)
      <4>1. PICK s \in Senders : SendWrite(s)
        BY <3>3
      <4>2. sender[s].stz \in Nat
        BY DEF SessionInv, TypeOK, SendTypeOK, Call
      <4> QED BY <4>1, <4>2, MessagesTyped DEF SendWrite, Stz
    <3> QED BY <1>9, <3>1, <3>2, <3>3
  <2>2. UNCHANGED <<phase, smId, inbound, connUp, toClient, srv>> /\ count'.enables = count.enables
    <3>1. CASE SendRequest
      BY <1>0, <3>1 DEF Typed, SendRequest, clientVars, srvVars
    <3>2. CASE ~SendRequest
      BY <1>9, <3>2 DEF ResendOne, ResendDone, SendWrite, clientVars, srvVars
    <3> QED BY <3>1, <3>2
  <2>3. ~Asks(m) /\ m.t # "a"
    BY <2>1 DEF Asks
  <2> QED BY <1>0, <2>1, <2>2, <2>3, RequestsWrite
<1>10. CASE ServerStanza \/ ServerAnswers \/ ServerAcked
  <2>1. toServer # <<>> /\ toServer' = Tail(toServer) /\ connUp' = TRUE /\ srv.active
        /\ UNCHANGED phase
    BY <1>10 DEF ServerStanza, ServerAnswers, ServerAcked, Serve, clientVars
  <2>2. NoAsk
    BY <1>0, <2>1, NoAskHere
  <2> QED BY <1>0, <2>1, <2>2, RequestsServe
<1>11. CASE ServerResumes \/ ServerRefusesResume \/ ServerMismatch \/ ServerEnables
            \/ ServerRefusesEnable
  <2>1. toServer # <<>> /\ toServer' = Tail(toServer) /\ connUp' = TRUE
        /\ UNCHANGED phase /\ Asks(Head(toServer))
    BY <1>11 DEF ServerResumes, ServerRefusesResume, ServerMismatch, ServerEnables,
                 ServerRefusesEnable, Serve, clientVars, Asks
  <2> QED BY <1>0, <2>1, RequestsServe
<1>12. CASE ServerSends \/ ServerRequests
  <2>1. connUp /\ srv.active /\ UNCHANGED <<phase, connUp, toServer>>
    BY <1>12 DEF ServerSends, ServerRequests, clientVars
  <2>2. NoAsk
    BY <1>0, <2>1, NoAskHere
  <2> QED BY <1>0, <2>1, <2>2 DEF Requests, NoAsk
<1>13. CASE ServerForgets
  <2>1. ~connUp /\ UNCHANGED <<toServer, connUp>> /\ srv'.active = srv.active
    BY <1>0, <1>13 DEF Typed, ServerForgets, netVars
  <2> QED BY <1>0, <2>1 DEF Requests
<1>14. CASE ResendFails \/ UNCHANGED vars \/ \E s \in Senders : SendAppend(s) \/ SendPush(s)
  BY <1>1, <1>14 DEF ResendFails, SendAppend, SendPush, vars, clientVars, netVars, srvVars
<1>15. CASE \E s \in Senders : SendStart(s)
  <2>1. UNCHANGED <<phase, smId, inbound, connUp, toServer, toClient, srv>>
        /\ count'.enables = count.enables
    BY <1>0, <1>15 DEF Typed, SendStart, clientVars, netVars, srvVars
  <2> QED BY <1>0, <2>1 DEF Requests, SMResume, SMEnable
<1> QED
  BY <1>2, <1>3, <1>4, <1>5, <1>6, <1>7, <1>8, <1>9, <1>10, <1>11, <1>12, <1>13, <1>14, <1>15
  DEF Next, Connecting, Receiving, Sending, Server

-----------------------------------------------------------------------------
(* Replies.                                                                *)

LEMMA HeadStays ==
  ASSUME NEW ch \in Seq(Msg), NEW ms \in Seq(Msg), ch # <<>>
  PROVE  ch \o ms # <<>> /\ Head(ch \o ms) = Head(ch)
OBVIOUS

LEMMA HeadOfReply ==
  ASSUME NEW m \in Msg, NEW ms \in Seq(Msg)
  PROVE  /\ <<>> \o <<m>> = <<m>> /\ Head(<<m>>) = m /\ Len(<<m>>) = 1 /\ <<m>> # <<>>
         /\ <<>> \o (<<m>> \o ms) # <<>> /\ Head(<<>> \o (<<m>> \o ms)) = m
OBVIOUS

(* What the server sends again when it resumes a session.                  *)
LEMMA ResumeReply ==
  ASSUME Typed, ServerResumes
  PROVE  \E ms \in Seq(Msg) :
           /\ toClient' = toClient \o (<<SMResumed(srv.sid, srv.h)>> \o ms)
           /\ Len(ms) = (IF Head(toServer).h < srv.sent THEN srv.sent - Head(toServer).h ELSE 0)
           /\ \A i \in 1 .. Len(ms) : ms[i] = Stz(Head(toServer).h + i)
<1> DEFINE h == Head(toServer).h
           k == IF h < srv.sent THEN srv.sent - h ELSE 0
           ms == [i \in 1 .. k |-> Stz(h + i)]
<1>1. h \in Nat /\ k \in Nat
  <2>1. toServer # <<>>
    BY DEF ServerResumes, Serve
  <2>2. h \in Nat
    BY <2>1, HeadTyped DEF Typed
  <2> HIDE DEF h
  <2> QED BY <2>2 DEF Typed
<1>2. \A i \in 1 .. k : Stz(h + i) \in Msg
  <2> SUFFICES ASSUME NEW i \in 1 .. k PROVE Stz(h + i) \in Msg
    OBVIOUS
  <2>1. h + i \in Nat
    BY <1>1
  <2> QED BY <2>1, MessagesTyped
<1>3. ms \in Seq(Msg) /\ Len(ms) = k /\ \A i \in 1 .. Len(ms) : ms[i] = Stz(h + i)
  <2> HIDE DEF h, k
  <2> QED BY <1>1, <1>2
<1>4. toClient' = toClient \o (<<SMResumed(srv.sid, srv.h)>> \o ms)
  BY DEF ServerResumes, Reply
<1> HIDE DEF ms
<1> QED BY <1>3, <1>4

LEMMA RepliesStep ==
  ASSUME SessionInv, [Next]_vars
  PROVE  Replies'
<1>0. Typed /\ Requests /\ Replies /\ Sessions
  BY TypeOKTyped DEF SessionInv
<1>1. CASE UNCHANGED <<phase, smId, connUp, toClient, srv, count.enables>>
  BY <1>0, <1>1 DEF Replies
<1>2. CASE phase' \notin {"auth", "resuming", "enabling"}
  BY <1>2 DEF Replies
<1>3. CASE Dial
  <2>1. phase' = "auth" /\ toClient' = <<>> /\ srv' = [srv EXCEPT !.active = FALSE]
    BY <1>3 DEF Dial
  <2>2. ~srv'.active
    BY <1>0, <2>1 DEF Typed
  <2> QED BY <2>1, <2>2 DEF Replies
<1>4. CASE BeginResume \/ BeginEnable \/ ReadResumeFailed
  <2>1. phase' \in {"resuming", "enabling"} /\ (phase' = "resuming" => smId' # 0)
    BY <1>4 DEF BeginResume, BeginEnable, ReadResumeFailed, WriteEnable, KeepSMState
  <2>2. toClient' = <<>> /\ ~srv'.active
    <3>1. CASE BeginResume \/ BeginEnable
      BY <1>0, <3>1 DEF BeginResume, BeginEnable, Replies, srvVars
    <3>2. CASE ReadResumeFailed
      <4>1. phase = "resuming" /\ toClient # <<>> /\ Head(toClient) = SMFailed
            /\ toClient' = Tail(toClient) /\ srv' = srv
        BY <3>2 DEF ReadResumeFailed, srvVars
      <4>2. Len(toClient) = 1 /\ ~srv.active
        BY <1>0, <4>1 DEF Replies
      <4>3. toClient \in Seq(Msg) /\ Tail(toClient) \in Seq(Msg) /\ Len(Tail(toClient)) = 0
        BY <1>0, <4>1, <4>2, SequenceEnds DEF Typed
      <4> QED BY <4>1, <4>2, <4>3, EmptySeq
    <3> QED BY <1>4, <3>1, <3>2
  <2> QED BY <2>1, <2>2 DEF Replies
<1>5. CASE ServerStanza \/ ServerAcked
  <2>1. UNCHANGED <<phase, smId, toClient>> /\ connUp' = connUp /\ count' = count
        /\ srv.active /\ connUp
    BY <1>5 DEF ServerStanza, ServerAcked, Serve, clientVars
  <2>2. srv'.active = srv.active /\ srv'.sid = srv.sid
    BY <1>0, <1>5 DEF Typed, ServerStanza, ServerAcked
  <2> QED BY <1>0, <2>1, <2>2 DEF Replies
<1>6. CASE ServerAnswers \/ ServerSends \/ ServerRequests
  <2>1. UNCHANGED <<phase, smId>> /\ srv.active /\ connUp
    BY <1>6 DEF ServerAnswers, ServerSends, ServerRequests, Serve, clientVars
  <2>2. srv'.active /\ srv'.sid = srv.sid
    BY <1>0, <1>6, <2>1 DEF Typed, ServerAnswers, ServerSends, ServerRequests, srvVars
  <2>3. count'.enables = count.enables
    BY <1>0, <1>6 DEF Typed, ServerAnswers, ServerSends, ServerRequests, Serve
  <2>4. \E ms \in Seq(Msg) : toClient' = toClient \o ms
    <3>1. srv.h \in Nat /\ srv.sent + 1 \in Nat
      BY <1>0 DEF Typed
    <3>2. SMAnswer(srv.h) \in Msg /\ Stz(srv.sent + 1) \in Msg /\ SMRequest \in Msg
      BY <3>1, MessagesTyped, ConstantMessagesTyped
    <3>3. <<SMAnswer(srv.h)>> \in Seq(Msg) /\ <<Stz(srv.sent + 1)>> \in Seq(Msg)
          /\ <<SMRequest>> \in Seq(Msg)
      BY <3>2
    <3> QED BY <1>6, <3>3 DEF ServerAnswers, ServerSends, ServerRequests, Reply
  <2>5. phase \in {"resuming", "enabling"} =>
          toClient # <<>> /\ toClient' # <<>> /\ Head(toClient') = Head(toClient)
    BY <1>0, <2>1, <2>4, HeadStays DEF Replies, Typed
  <2>6. phase # "auth"
    BY <1>0, <2>1 DEF Replies
  <2>7. phase = "resuming" => Head(toClient) # SMFailed
    BY <1>0, <2>1, <2>5 DEF Replies
  <2> QED BY <1>0, <2>1, <2>2, <2>3, <2>5, <2>6, <2>7 DEF Replies
<1>7. CASE ServerResumes \/ ServerRefusesResume \/ ServerMismatch
  <2>1. toServer # <<>> /\ Head(toServer).t = "resume" /\ UNCHANGED <<phase, smId>>
        /\ connUp' = TRUE
    BY <1>7 DEF ServerResumes, ServerRefusesResume, ServerMismatch, Serve, clientVars
  <2>2. Asks(Head(toServer))
    BY <2>1 DEF Asks
  <2>3. toClient = <<>> /\ ~srv.active /\ phase = "resuming"
        /\ Head(toServer) = SMResume(smId, inbound)
    BY <1>0, <2>1, <2>2, AskServed DEF SMEnable
  <2>4. Head(toServer).n = smId /\ smId # 0
    BY <1>0, <2>3 DEF SMResume, Replies
  <2>5. CASE ServerResumes
    <3>1. srv'.active /\ srv'.sid = srv.sid /\ srv.sid = smId
      BY <1>0, <2>4, <2>5 DEF ServerResumes, Typed
    <3>2. SMResumed(srv.sid, srv.h) \in Msg
      BY <1>0, MessagesTyped DEF Typed
    <3>3. toClient' # <<>> /\ Head(toClient') = SMResumed(srv.sid, srv.h)
      BY <1>0, <2>3, <2>5, <3>2, ResumeReply, HeadOfReply
    <3>4. SMResumed(srv.sid, srv.h) # SMFailed
      BY DEF SMResumed, SMFailed
    <3> QED BY <2>1, <2>3, <2>4, <3>1, <3>3, <3>4 DEF Replies
  <2>6. CASE ServerRefusesResume
    <3>1. toClient' = <<>> \o <<SMFailed>> /\ srv' = [srv EXCEPT !.live = FALSE]
      BY <2>3, <2>6 DEF ServerRefusesResume, Reply
    <3>2. toClient' # <<>> /\ Head(toClient') = SMFailed /\ Len(toClient') = 1 /\ <<>> \in Seq(Msg)
      BY <3>1, ConstantMessagesTyped, HeadOfReply
    <3>3. ~srv'.active
      BY <1>0, <2>3, <3>1 DEF Typed
    <3>4. SMFailed.t # "resumed"
      BY DEF SMFailed
    <3> QED BY <2>1, <2>3, <2>4, <3>2, <3>3, <3>4 DEF Replies
  <2>7. CASE ServerMismatch
    <3> DEFINE m == SMResumed(smId + 1, 0)
    <3>1. toClient' = <<>> \o <<m>> /\ srv' = [srv EXCEPT !.live = FALSE]
      BY <2>3, <2>4, <2>7 DEF ServerMismatch, Reply
    <3>2. m \in Msg
      <4>1. smId + 1 \in Nat
        BY <1>0 DEF Typed
      <4> QED BY <4>1, MessagesTyped
    <3>3. m.n # smId /\ m # SMFailed
      BY <1>0 DEF SMResumed, SMFailed, Typed
    <3>4. ~srv'.active
      BY <1>0, <2>3, <3>1 DEF Typed
    <3> HIDE DEF m
    <3>5. toClient' # <<>> /\ Head(toClient') = m
      BY <3>1, <3>2, HeadOfReply
    <3> QED BY <2>1, <2>3, <2>4, <3>3, <3>4, <3>5 DEF Replies
  <2> QED BY <1>7, <2>5, <2>6, <2>7
<1>8. CASE ServerEnables \/ ServerRefusesEnable
  <2>1. toServer # <<>> /\ Head(toServer).t = "enable" /\ UNCHANGED <<phase, smId, count>>
        /\ connUp' = TRUE
    BY <1>8 DEF ServerEnables, ServerRefusesEnable, Serve, clientVars
  <2>2. Asks(Head(toServer))
    BY <2>1 DEF Asks
  <2>3. toClient = <<>> /\ ~srv.active /\ phase = "enabling"
        /\ Head(toServer) = SMEnable(count.enables)
    BY <1>0, <2>1, <2>2, AskServed DEF SMResume
  <2>4. Head(toServer).n = count.enables
    BY <2>3 DEF SMEnable
  <2>5. CASE ServerEnables
    <3>1. PICK res \in BOOLEAN :
            /\ srv' = [sid |-> count.enables, live |-> res, active |-> TRUE,
                       h |-> 0, sent |-> 0, acked |-> 0]
            /\ toClient' = <<>> \o <<SMEnabled(IF res THEN count.enables ELSE 0, res)>>
      BY <2>3, <2>4, <2>5 DEF ServerEnables, Reply
    <3> DEFINE m == SMEnabled(IF res THEN count.enables ELSE 0, res)
    <3>2. m \in Msg /\ m.n \in {0, count.enables}
      <4>1. (IF res THEN count.enables ELSE 0) \in Nat
        BY <1>0 DEF Typed
      <4> QED BY <4>1, MessagesTyped DEF SMEnabled
    <3>3. srv'.sid = count.enables /\ srv'.active
      BY <3>1
    <3>4. toClient' = <<>> \o <<m>>
      BY <3>1
    <3> HIDE DEF m
    <3>5. toClient' # <<>> /\ Head(toClient') = m
      BY <3>2, <3>4, HeadOfReply
    <3> QED BY <2>1, <2>3, <3>2, <3>3, <3>5 DEF Replies
  <2>6. CASE ServerRefusesEnable
    <3>1. PICK m \in {SMFailed, SMRequest} : toClient' = <<>> \o <<m>>
      BY <2>3, <2>6 DEF ServerRefusesEnable, Reply
    <3>2. m \in Msg /\ m.t # "enabled" /\ srv' = srv
      BY <2>6, ConstantMessagesTyped DEF SMFailed, SMRequest, ServerRefusesEnable, srvVars
    <3>3. toClient' # <<>> /\ Head(toClient') = m
      BY <3>1, <3>2, HeadOfReply
    <3> QED BY <2>1, <2>3, <3>2, <3>3 DEF Replies
  <2> QED BY <1>8, <2>5, <2>6
<1>9. CASE ConnectionLost
  <2>1. connUp' = FALSE /\ toClient' \in {toClient, <<>>} /\ srv' = [srv EXCEPT !.active = FALSE]
        /\ UNCHANGED <<phase, smId, count>>
    BY <1>9 DEF ConnectionLost, clientVars
  <2>2. ~srv'.active /\ srv'.sid = srv.sid
    BY <1>0, <2>1 DEF Typed
  <2> QED BY <1>0, <2>1, <2>2 DEF Replies
<1>10. CASE ServerForgets
  <2>1. UNCHANGED <<phase, smId, toClient>> /\ connUp' = connUp /\ count' = count
    BY <1>10 DEF ServerForgets, clientVars, netVars
  <2>2. srv'.active = srv.active /\ srv'.sid = srv.sid
    BY <1>0, <1>10 DEF Typed, ServerForgets
  <2> QED BY <1>0, <2>1, <2>2 DEF Replies
<1>11. CASE NegotiationFails \/ SessionLost \/ ReadResumed \/ ResumeError \/ ReadEnabled
            \/ ReadEnableFailed \/ EnableError \/ PostSessionSetup \/ SetupFails
            \/ RecvRequestFails \/ RecvError
  BY <1>2, <1>11
  DEF NegotiationFails, SessionLost, ReadResumed, ResumeError, ReadEnabled, ReadEnableFailed,
      EnableError, PostSessionSetup, SetupFails, RecvRequestFails, RecvError
<1>12. CASE RecvStanza \/ RecvRequest \/ RecvAnswer \/ SendRequest
  BY <1>2, <1>12 DEF RecvStanza, RecvRequest, RecvAnswer, SendRequest, Reading, clientVars
<1>13. CASE ResendOne \/ ResendDone \/ ResendFails
            \/ \E s \in Senders : SendStart(s) \/ SendAppend(s) \/ SendPush(s) \/ SendWrite(s)
  <2>1. UNCHANGED <<phase, smId, toClient, srv>> /\ connUp' = connUp
    BY <1>13 DEF ResendOne, ResendDone, ResendFails, SendStart, SendAppend, SendPush, SendWrite,
                 clientVars, netVars, srvVars
  <2>2. count'.enables = count.enables
    BY <1>0, <1>13 DEF Typed, ResendOne, ResendDone, ResendFails, SendStart, SendAppend, SendPush, SendWrite
  <2> QED BY <1>0, <2>1, <2>2 DEF Replies
<1>14. CASE UNCHANGED vars
  BY <1>1, <1>14 DEF vars, clientVars, netVars, srvVars
<1> QED
  BY <1>3, <1>4, <1>5, <1>6, <1>7, <1>8, <1>9, <1>10, <1>11, <1>12, <1>13, <1>14
  DEF Next, Connecting, Receiving, Sending, Server

-----------------------------------------------------------------------------
(* Sessions.                                                               *)

(* What a step that leaves the client's session alone may do.              *)
LEMMA SessionsStay ==
  ASSUME Typed, Sessions, UNCHANGED <<queueObj, smId, inbound>>,
         count'.enables = count.enables, srv'.sid = srv.sid, srv'.sent = srv.sent,
         srv'.acked = srv.acked, srv'.live => srv.live, srv'.active => srv.active,
         phase' = "enabling" => phase = "enabling",
         phase' \in {"setup", "running", "dead"} =>
           phase \in {"setup", "running", "dead"} /\ (connUp' => connUp /\ srv'.active = srv.active)
  PROVE  Sessions'
BY DEF Sessions

LEMMA SessionsStep ==
  ASSUME SessionInv, [Next]_vars
  PROVE  Sessions'
<1>0. Typed /\ Requests /\ Replies /\ Sessions
  BY TypeOKTyped DEF SessionInv
<1>1. CASE Dial \/ NegotiationFails \/ EnableError
  <2>1. UNCHANGED <<queueObj, smId, inbound>> /\ srv' = [srv EXCEPT !.active = FALSE]
        /\ phase' \in {"auth", "idle"}
    BY <1>1 DEF Dial, NegotiationFails, EnableError, KeepSMState, CloseConnection
  <2>2. count'.enables = count.enables
    BY <1>0, <1>1 DEF Typed, Dial, NegotiationFails, EnableError
  <2>3. srv'.sid = srv.sid /\ srv'.sent = srv.sent /\ srv'.acked = srv.acked
        /\ srv'.live = srv.live /\ ~srv'.active
    BY <1>0, <2>1 DEF Typed
  <2> QED BY <1>0, <2>1, <2>2, <2>3, SessionsStay
<1>2. CASE SessionLost \/ ResumeError
  <2>1. smId' = 0 /\ queueObj' = 0 /\ inbound' = 0 /\ srv' = [srv EXCEPT !.active = FALSE]
        /\ phase' = "idle" /\ count' = count
    BY <1>2 DEF SessionLost, ResumeError, ClearSMState, CloseConnection
  <2>2. srv'.sid = srv.sid /\ srv'.sent = srv.sent /\ srv'.acked = srv.acked
        /\ srv'.live = srv.live /\ ~srv'.active
    BY <1>0, <2>1 DEF Typed
  <2> QED BY <1>0, <2>1, <2>2 DEF Sessions, Typed
<1>3. CASE BeginResume
  <2>1. UNCHANGED <<queueObj, smId, inbound, srv, count>> /\ phase' = "resuming"
    BY <1>3 DEF BeginResume, KeepSMState, srvVars
  <2> QED BY <1>0, <2>1, SessionsStay
<1>4. CASE BeginEnable
  <2>1. UNCHANGED <<queueObj, smId, inbound, srv>> /\ phase' = "enabling"
        /\ count' = [count EXCEPT !.enables = @ + 1]
    BY <1>4 DEF BeginEnable, WriteEnable, KeepSMState, srvVars
  <2>2. count'.enables = count.enables + 1
    BY <1>0, <2>1 DEF Typed
  <2> QED BY <1>0, <2>1, <2>2 DEF Sessions, Typed
<1>5. CASE ReadResumeFailed
  <2>1. smId' = 0 /\ queueObj' = 0 /\ inbound' = 0 /\ srv' = srv
        /\ phase' = "enabling" /\ count' = [count EXCEPT !.enables = @ + 1]
    BY <1>5 DEF ReadResumeFailed, WriteEnable, ClearSMState, srvVars
  <2>2. count'.enables = count.enables + 1
    BY <1>0, <2>1 DEF Typed
  <2> QED BY <1>0, <2>1, <2>2 DEF Sessions, Typed
<1>6. CASE ReadResumed
  <2>1. UNCHANGED <<queueObj, smId, inbound, srv, count>> /\ phase' = "setup"
        /\ connUp' = connUp
    BY <1>6 DEF ReadResumed, srvVars
  <2>2. srv.sid = smId /\ smId # 0 /\ (connUp => srv.active)
    BY <1>0, <1>6 DEF ReadResumed, Replies
  <2> QED BY <1>0, <2>1, <2>2 DEF Sessions
<1>7. CASE ReadEnabled
  <2>1. smId' = Head(toClient).n /\ queueObj' = count.enables /\ inbound' = 0
        /\ UNCHANGED <<srv, count>> /\ phase' = "setup" /\ connUp' = connUp
    BY <1>7 DEF ReadEnabled, NewSMState, srvVars
  <2>2. srv.sid = count.enables /\ Head(toClient).n \in {0, srv.sid} /\ (connUp => srv.active)
    BY <1>0, <1>7 DEF ReadEnabled, Replies
  <2>3. count.enables # 0
    BY <1>0, <1>7 DEF ReadEnabled, Sessions, Typed
  <2> QED BY <1>0, <2>1, <2>2, <2>3 DEF Sessions, Typed
<1>8. CASE ReadEnableFailed
  <2>1. smId' = 0 /\ queueObj' = count.enables /\ inbound' = 0
        /\ count' = count /\ phase' = "idle" /\ srv' = [srv EXCEPT !.active = FALSE]
    BY <1>8 DEF ReadEnableFailed, NewSMState, CloseConnection
  <2>2. srv'.sid = srv.sid /\ srv'.sent = srv.sent /\ srv'.acked = srv.acked
        /\ srv'.live = srv.live /\ ~srv'.active
    BY <1>0, <2>1 DEF Typed
  <2> QED BY <1>0, <2>1, <2>2 DEF Sessions, Typed
<1>9. CASE PostSessionSetup \/ SetupFails
  <2>1. UNCHANGED <<queueObj, smId, inbound, srv, count>> /\ connUp' = connUp
        /\ phase = "setup" /\ phase' \in {"running", "idle"}
    BY <1>9 DEF PostSessionSetup, SetupFails, KeepSMState, srvVars
  <2> QED BY <1>0, <2>1, SessionsStay
<1>10. CASE RecvStanza
  <2>1. UNCHANGED <<queueObj, smId, srv, count, phase>> /\ connUp' = connUp
        /\ phase = "running"
    BY <1>10 DEF RecvStanza, Reading, srvVars
  <2> QED BY <1>0, <2>1 DEF Sessions
<1>11. CASE RecvRequestFails \/ RecvError
  <2>1. UNCHANGED <<queueObj, smId, inbound, srv, count>> /\ connUp' = connUp
        /\ phase = "running" /\ phase' \in {"dead", "idle"}
    BY <1>11 DEF RecvRequestFails, RecvError, Reading, KeepSMState, srvVars, netVars
  <2> QED BY <1>0, <2>1, SessionsStay
<1>12. CASE RecvRequest \/ RecvAnswer
  <2>1. UNCHANGED <<queueObj, smId, inbound, srv, count, phase>> /\ connUp' = connUp
    BY <1>12 DEF RecvRequest, RecvAnswer, clientVars, srvVars
  <2> QED BY <1>0, <2>1, SessionsStay
<1>13. CASE ResendOne \/ ResendDone \/ ResendFails \/ Sending
  <2>1. UNCHANGED <<queueObj, smId, inbound, srv, phase>> /\ connUp' = connUp
    BY <1>13 DEF ResendOne, ResendDone, ResendFails, Sending, SendRequest, SendStart, SendAppend,
                 SendPush, SendWrite, clientVars, netVars, srvVars
  <2>2. count'.enables = count.enables
    BY <1>0, <1>13 DEF Typed, ResendOne, ResendDone, ResendFails, Sending, SendRequest,
                       SendStart, SendAppend, SendPush, SendWrite
  <2> QED BY <1>0, <2>1, <2>2, SessionsStay
<1>14. CASE ServerStanza \/ ServerAnswers \/ ServerRefusesResume \/ ServerMismatch
            \/ ServerRefusesEnable \/ ServerForgets \/ ServerRequests
  <2>1. UNCHANGED <<queueObj, smId, inbound, phase>> /\ connUp' = connUp
    BY <1>14 DEF ServerStanza, ServerAnswers, ServerRefusesResume, ServerMismatch,
                 ServerRefusesEnable, ServerForgets, ServerRequests, Serve, clientVars, netVars
  <2>2. count'.enables = count.enables
    BY <1>0, <1>14 DEF Typed, ServerStanza, ServerAnswers, ServerRefusesResume, ServerMismatch,
                 ServerRefusesEnable, ServerForgets, ServerRequests, Serve
  <2>3. srv'.sid = srv.sid /\ srv'.sent = srv.sent /\ srv'.acked = srv.acked
        /\ (srv'.live => srv.live) /\ srv'.active = srv.active
    BY <1>0, <1>14 DEF Typed, ServerStanza, ServerAnswers, ServerRefusesResume, ServerMismatch,
                 ServerRefusesEnable, ServerForgets, ServerRequests, srvVars
  <2> QED BY <1>0, <2>1, <2>2, <2>3, SessionsStay
<1>15. CASE ServerAcked
  <2>1. UNCHANGED <<queueObj, smId, inbound, phase, count>> /\ connUp' = connUp
        /\ toServer # <<>> /\ Head(toServer).t = "a" /\ srv.active
        /\ srv' = [srv EXCEPT !.acked = Head(toServer).h]
    BY <1>15 DEF ServerAcked, Serve, clientVars
  <2>2. phase = "running"
    BY <1>0, <2>1, SequenceEnds DEF Requests, Typed
  <2>3. srv'.sid = srv.sid /\ srv'.sent = srv.sent /\ srv'.live = srv.live
        /\ srv'.active = srv.active
    BY <1>0, <2>1 DEF Typed
  <2> QED BY <1>0, <2>1, <2>2, <2>3 DEF Sessions
<1>16. CASE ServerResumes
  <2>1. UNCHANGED <<queueObj, smId, inbound, phase, count>> /\ connUp' = connUp /\ srv.live
        /\ toServer # <<>> /\ Head(toServer).t = "resume"
        /\ srv' = [srv EXCEPT !.active = TRUE, !.acked = Head(toServer).h]
    BY <1>16 DEF ServerResumes, Serve, clientVars
  <2>2. phase = "resuming"
    <3>1. Asks(Head(toServer))
      BY <2>1 DEF Asks
    <3> QED BY <1>0, <2>1, <3>1, AskServed DEF SMEnable
  <2>3. srv'.sid = srv.sid /\ srv'.sent = srv.sent /\ srv'.live = srv.live
    BY <1>0, <2>1 DEF Typed
  <2> QED BY <1>0, <2>1, <2>2, <2>3 DEF Sessions
<1>17. CASE ServerEnables
  <2>1. UNCHANGED <<queueObj, smId, inbound, phase, count>> /\ connUp' = connUp
        /\ toServer # <<>> /\ Head(toServer).t = "enable"
        /\ srv'.sid = Head(toServer).n /\ srv'.sent = 0 /\ srv'.acked = 0
    BY <1>17 DEF ServerEnables, Serve, clientVars
  <2>2. phase = "enabling" /\ Head(toServer).n = count.enables
    <3>1. Asks(Head(toServer))
      BY <2>1 DEF Asks
    <3> QED BY <1>0, <2>1, <3>1, AskServed DEF SMEnable, SMResume
  <2> QED BY <1>0, <2>1, <2>2, BoundsAssumption DEF Sessions, Typed
<1>18. CASE ServerSends
  <2>1. UNCHANGED <<queueObj, smId, inbound, phase, count>> /\ connUp' = connUp
        /\ srv.active /\ srv.sent < MaxInbound /\ srv' = [srv EXCEPT !.sent = @ + 1]
    BY <1>18 DEF ServerSends, clientVars
  <2>2. srv'.sid = srv.sid /\ srv'.live = srv.live /\ srv'.active = srv.active
        /\ srv'.acked = srv.acked /\ srv'.sent = srv.sent + 1
    BY <1>0, <2>1 DEF Typed
  <2>3. srv.sid # 0
    BY <1>0, <2>1 DEF Sessions
  <2>4. srv'.sent <= MaxInbound
    <3>1. srv.sent \in Nat /\ MaxInbound \in Nat
      BY <1>0, BoundsAssumption DEF Typed
    <3> QED BY <2>1, <2>2, <3>1
  <2> QED BY <1>0, <2>1, <2>2, <2>3, <2>4 DEF Sessions
<1>19. CASE ConnectionLost
  <2>1. UNCHANGED <<queueObj, smId, inbound, phase, count>> /\ connUp' = FALSE
        /\ srv' = [srv EXCEPT !.active = FALSE]
    BY <1>19 DEF ConnectionLost, clientVars
  <2>2. srv'.sid = srv.sid /\ srv'.sent = srv.sent /\ srv'.acked = srv.acked
        /\ srv'.live = srv.live /\ ~srv'.active
    BY <1>0, <2>1 DEF Typed
  <2> QED BY <1>0, <2>1, <2>2, SessionsStay
<1>20. CASE UNCHANGED vars
  <2>1. UNCHANGED <<queueObj, smId, inbound, srv, count, phase>> /\ connUp' = connUp
    BY <1>20 DEF vars, clientVars, srvVars, netVars
  <2> QED BY <1>0, <2>1, SessionsStay
<1> QED
  BY <1>1, <1>2, <1>3, <1>4, <1>5, <1>6, <1>7, <1>8, <1>9, <1>10, <1>11, <1>12, <1>13, <1>14,
     <1>15, <1>16, <1>17, <1>18, <1>19, <1>20
  DEF Next, Connecting, Receiving, Server

-----------------------------------------------------------------------------
(* The stanzas on their way to the client.                                 *)

LEMMA StzInTail ==
  ASSUME NEW ch \in Seq(Msg), ch # <<>>
  PROVE  /\ \A i \in StzIn(Tail(ch)) : i \in Nat /\ i >= 1 /\ i + 1 \in StzIn(ch)
                                       /\ Tail(ch)[i] = ch[i + 1]
         /\ \A j \in StzIn(ch) : j \in Nat /\ j >= 1 /\ (j = 1 \/ j - 1 \in StzIn(Tail(ch)))
         /\ 1 \in StzIn(ch) <=> Head(ch).t = "stz"
         /\ ch[1] = Head(ch)
BY SequenceEnds DEF StzIn

LEMMA StzInAppend ==
  ASSUME NEW ch \in Seq(Msg), NEW m \in Msg
  PROVE  /\ ch \o <<m>> \in Seq(Msg)
         /\ \A i \in StzIn(ch) : i \in 1 .. Len(ch) /\ i \in StzIn(ch \o <<m>>)
                                 /\ (ch \o <<m>>)[i] = ch[i]
         /\ \A i \in StzIn(ch \o <<m>>) : i \in StzIn(ch) \/ i = Len(ch) + 1
         /\ Len(ch) + 1 \in StzIn(ch \o <<m>>) <=> m.t = "stz"
         /\ (ch \o <<m>>)[Len(ch) + 1] = m
<1>1. /\ ch \o <<m>> \in Seq(Msg) /\ Len(ch \o <<m>>) = Len(ch) + 1
      /\ (ch \o <<m>>)[Len(ch) + 1] = m
      /\ \A i \in 1 .. Len(ch) : (ch \o <<m>>)[i] = ch[i]
  OBVIOUS
<1> QED BY <1>1 DEF StzIn

LEMMA InStepTailOther ==
  ASSUME NEW ch \in Seq(Msg), ch # <<>>, Head(ch).t # "stz",
         NEW base, NEW last, NEW whole, InStep(ch, base, last, whole)
  PROVE  InStep(Tail(ch), base, last, whole)
<1> DEFINE T == StzIn(Tail(ch))
           S == StzIn(ch)
<1>1. /\ \A i \in T : i \in Nat /\ i >= 1 /\ i + 1 \in S /\ Tail(ch)[i] = ch[i + 1]
      /\ \A j \in S : j \in Nat /\ j >= 2 /\ j - 1 \in T
  <2>1. /\ \A i \in T : i \in Nat /\ i >= 1 /\ i + 1 \in S /\ Tail(ch)[i] = ch[i + 1]
        /\ \A j \in S : j \in Nat /\ j >= 1 /\ (j = 1 \/ j - 1 \in T)
        /\ 1 \notin S
    BY StzInTail
  <2> HIDE DEF T, S
  <2>2. ASSUME NEW j \in S PROVE j \in Nat /\ j >= 2 /\ j - 1 \in T
    <3>1. j # 1 /\ j \in Nat /\ j >= 1
      BY <2>1
    <3> QED BY <2>1, <3>1
  <2> QED BY <2>1, <2>2
<1>2. /\ \A i \in S :
           /\ (\A j \in S : i <= j) => ch[i].n = base + 1
           /\ ch[i].n <= last
           /\ whole /\ (\A j \in S : j <= i) => ch[i].n = last
      /\ \A i, j \in S : i < j /\ (\A k \in S : k <= i \/ j <= k) => ch[j].n = ch[i].n + 1
      /\ whole /\ S = {} => base = last
  BY DEF InStep
<1> HIDE DEF T, S
<1>3. ASSUME NEW i \in T
      PROVE  /\ (\A j \in T : i <= j) => Tail(ch)[i].n = base + 1
             /\ Tail(ch)[i].n <= last
             /\ whole /\ (\A j \in T : j <= i) => Tail(ch)[i].n = last
  <2>1. (\A j \in T : i <= j) => \A j \in S : i + 1 <= j
    <3> SUFFICES ASSUME \A j \in T : i <= j, NEW j \in S PROVE i + 1 <= j
      OBVIOUS
    <3>1. i <= j - 1 /\ i \in Nat /\ j \in Nat
      BY <1>1
    <3> QED BY <3>1
  <2>2. (\A j \in T : j <= i) => \A j \in S : j <= i + 1
    <3> SUFFICES ASSUME \A j \in T : j <= i, NEW j \in S PROVE j <= i + 1
      OBVIOUS
    <3>1. j - 1 <= i /\ i \in Nat /\ j \in Nat
      BY <1>1
    <3> QED BY <3>1
  <2>3. i + 1 \in S /\ Tail(ch)[i] = ch[i + 1]
    BY <1>1
  <2> QED BY <1>2, <2>1, <2>2, <2>3
<1>4. ASSUME NEW i \in T, NEW j \in T, i < j, \A k \in T : k <= i \/ j <= k
      PROVE  Tail(ch)[j].n = Tail(ch)[i].n + 1
  <2>1. \A k \in S : k <= i + 1 \/ j + 1 <= k
    <3> SUFFICES ASSUME NEW k \in S PROVE k <= i + 1 \/ j + 1 <= k
      OBVIOUS
    <3>1. (k - 1 <= i \/ j <= k - 1) /\ i \in Nat /\ j \in Nat /\ k \in Nat
      BY <1>1, <1>4
    <3> QED BY <3>1
  <2>2. i + 1 \in S /\ j + 1 \in S /\ i \in Nat /\ j \in Nat
        /\ Tail(ch)[i] = ch[i + 1] /\ Tail(ch)[j] = ch[j + 1]
    BY <1>1
  <2>3. i + 1 < j + 1
    BY <1>4, <2>2
  <2>4. ch[j + 1].n = ch[i + 1].n + 1
    BY <1>2, <2>1, <2>2, <2>3, Zenon
  <2> QED BY <2>2, <2>4
<1>5. whole /\ T = {} => base = last
  BY <1>1, <1>2
<1> QED BY <1>3, <1>4, <1>5 DEF InStep, T

LEMMA InStepTailStanza ==
  ASSUME NEW ch \in Seq(Msg), ch # <<>>, Head(ch).t = "stz",
         NEW base \in Nat, NEW last \in Nat, NEW whole, InStep(ch, base, last, whole)
  PROVE  /\ Head(ch).n = base + 1 /\ base + 1 <= last
         /\ InStep(Tail(ch), base + 1, last, whole)
<1> DEFINE T == StzIn(Tail(ch))
           S == StzIn(ch)
<1>1. /\ \A i \in T : i \in Nat /\ i >= 1 /\ i + 1 \in S /\ Tail(ch)[i] = ch[i + 1]
      /\ \A j \in S : j \in Nat /\ j >= 1 /\ (j = 1 \/ j - 1 \in T)
      /\ 1 \in S /\ ch[1] = Head(ch)
  BY StzInTail
<1>2. /\ \A i \in S :
           /\ (\A j \in S : i <= j) => ch[i].n = base + 1
           /\ ch[i].n <= last
           /\ whole /\ (\A j \in S : j <= i) => ch[i].n = last
      /\ \A i, j \in S : i < j /\ (\A k \in S : k <= i \/ j <= k) => ch[j].n = ch[i].n + 1
      /\ whole /\ S = {} => base = last
  BY DEF InStep
<1> HIDE DEF T, S
<1>a. ch[1].n = base + 1 /\ base + 1 <= last
  <2>1. \A j \in S : 1 <= j
    BY <1>1
  <2> QED BY <1>1, <1>2, <2>1
<1>3. ASSUME NEW i \in T
      PROVE  /\ (\A j \in T : i <= j) => Tail(ch)[i].n = (base + 1) + 1
             /\ Tail(ch)[i].n <= last
             /\ whole /\ (\A j \in T : j <= i) => Tail(ch)[i].n = last
  <2>0. i \in Nat /\ i >= 1 /\ i + 1 \in S /\ Tail(ch)[i] = ch[i + 1]
    BY <1>1
  <2>1. (\A j \in T : i <= j) => \A k \in S : k <= 1 \/ i + 1 <= k
    <3> SUFFICES ASSUME \A j \in T : i <= j, NEW k \in S PROVE k <= 1 \/ i + 1 <= k
      OBVIOUS
    <3>1. k = 1 \/ (i <= k - 1 /\ k \in Nat)
      BY <1>1
    <3> QED BY <2>0, <3>1
  <2>2. (\A j \in T : j <= i) => \A j \in S : j <= i + 1
    <3> SUFFICES ASSUME \A j \in T : j <= i, NEW j \in S PROVE j <= i + 1
      OBVIOUS
    <3>1. j = 1 \/ (j - 1 <= i /\ j \in Nat)
      BY <1>1
    <3> QED BY <2>0, <3>1
  <2>3. (\A j \in T : i <= j) => ch[i + 1].n = ch[1].n + 1
    <3>1. 1 < i + 1
      BY <2>0
    <3> QED BY <1>1, <1>2, <2>0, <2>1, <3>1
  <2> QED BY <1>2, <1>a, <2>0, <2>2, <2>3
<1>4. ASSUME NEW i \in T, NEW j \in T, i < j, \A k \in T : k <= i \/ j <= k
      PROVE  Tail(ch)[j].n = Tail(ch)[i].n + 1
  <2>1. \A k \in S : k <= i + 1 \/ j + 1 <= k
    <3> SUFFICES ASSUME NEW k \in S PROVE k <= i + 1 \/ j + 1 <= k
      OBVIOUS
    <3>1. (k = 1 \/ k - 1 <= i \/ j <= k - 1) /\ i \in Nat /\ j \in Nat /\ k \in Nat
      BY <1>1, <1>4
    <3> QED BY <3>1
  <2>2. i + 1 \in S /\ j + 1 \in S /\ i \in Nat /\ j \in Nat
        /\ Tail(ch)[i] = ch[i + 1] /\ Tail(ch)[j] = ch[j + 1]
    BY <1>1
  <2>3. i + 1 < j + 1
    BY <1>4, <2>2
  <2>4. ch[j + 1].n = ch[i + 1].n + 1
    BY <1>2, <2>1, <2>2, <2>3, Zenon
  <2> QED BY <2>2, <2>4
<1>5. ASSUME whole, T = {} PROVE base + 1 = last
  <2>1. \A j \in S : j <= 1
    BY <1>1, <1>5
  <2> QED BY <1>1, <1>2, <1>5, <1>a, <2>1
<1>6. InStep(Tail(ch), base + 1, last, whole)
  BY <1>3, <1>4, <1>5 DEF InStep, T
<1> QED BY <1>1, <1>a, <1>6

LEMMA InStepAppendOther ==
  ASSUME NEW ch \in Seq(Msg), NEW m \in Msg, m.t # "stz",
         NEW base, NEW last, NEW whole, InStep(ch, base, last, whole)
  PROVE  InStep(ch \o <<m>>, base, last, whole)
<1>1. StzIn(ch \o <<m>>) = StzIn(ch) /\ \A i \in StzIn(ch) : (ch \o <<m>>)[i] = ch[i]
  <2> DEFINE e == Len(ch) + 1
             c == ch \o <<m>>
  <2>1. /\ \A i \in StzIn(ch) : i \in StzIn(c) /\ c[i] = ch[i]
        /\ \A i \in StzIn(c) : i \in StzIn(ch) \/ i = e
        /\ e \notin StzIn(c)
    BY StzInAppend
  <2> HIDE DEF e, c
  <2>2. StzIn(c) = StzIn(ch) /\ \A i \in StzIn(ch) : c[i] = ch[i]
    BY <2>1
  <2> QED BY <2>2 DEF c
<1> QED BY <1>1 DEF InStep

LEMMA InStepAppendStanza ==
  ASSUME NEW ch \in Seq(Msg), NEW base \in Nat, NEW last \in Nat, InStep(ch, base, last, TRUE)
  PROVE  InStep(ch \o <<Stz(last + 1)>>, base, last + 1, TRUE)
<1> DEFINE m == Stz(last + 1)
           c == ch \o <<m>>
           T == StzIn(c)
           S == StzIn(ch)
           e == Len(ch) + 1
<1>0. m \in Msg /\ m.t = "stz" /\ m.n = last + 1
  <2>1. last + 1 \in Nat
    OBVIOUS
  <2> QED BY <2>1, MessagesTyped DEF Stz
<1>1. /\ \A i \in S : i \in Nat /\ i < e /\ i \in T /\ c[i] = ch[i] /\ ch[i].n \in Nat
      /\ \A i \in T : i \in S \/ i = e
      /\ e \in T /\ c[e] = m /\ e \in Nat
  <2> HIDE DEF m
  <2>1. \A i \in 1 .. Len(ch) : i \in Nat /\ i < e /\ ch[i].n \in Nat
    <3>1. ASSUME NEW i \in 1 .. Len(ch) PROVE ch[i] \in Msg /\ i \in Nat /\ i < e
      OBVIOUS
    <3>2. \A x \in Msg : x.n \in Nat
      BY DEF Msg
    <3> QED BY <3>1, <3>2
  <2> HIDE DEF e
  <2> QED BY <1>0, <2>1, StzInAppend DEF e
<1>2. /\ \A i \in S :
           /\ (\A j \in S : i <= j) => ch[i].n = base + 1
           /\ ch[i].n <= last
           /\ (\A j \in S : j <= i) => ch[i].n = last
      /\ \A i, j \in S : i < j /\ (\A k \in S : k <= i \/ j <= k) => ch[j].n = ch[i].n + 1
      /\ S = {} => base = last
  BY DEF InStep
<1> HIDE DEF m, c, T, S, e
<1>3. ASSUME NEW i \in T
      PROVE  /\ (\A j \in T : i <= j) => c[i].n = base + 1
             /\ c[i].n <= last + 1
             /\ (\A j \in T : j <= i) => c[i].n = last + 1
  <2>1. CASE i \in S
    <3>1. ~(\A j \in T : j <= i)
      BY <1>1, <2>1
    <3>2. c[i] = ch[i] /\ ch[i].n <= last + 1
      <4>1. ch[i].n <= last /\ ch[i].n \in Nat /\ c[i] = ch[i]
        BY <1>1, <1>2, <2>1
      <4> QED BY <4>1
    <3>3. (\A j \in T : i <= j) => \A j \in S : i <= j
      BY <1>1
    <3> QED BY <1>2, <2>1, <3>1, <3>2, <3>3
  <2>2. CASE i = e
    <3>1. c[i].n = last + 1
      BY <1>0, <1>1, <2>2
    <3>2. (\A j \in T : i <= j) => S = {}
      BY <1>1, <2>2
    <3> QED BY <1>2, <3>1, <3>2
  <2> QED BY <1>1, <2>1, <2>2
<1>4. ASSUME NEW i \in T, NEW j \in T, i < j, \A k \in T : k <= i \/ j <= k
      PROVE  c[j].n = c[i].n + 1
  <2>1. i \in S
    BY <1>1, <1>4
  <2>2. CASE j \in S
    BY <1>1, <1>2, <1>4, <2>1, <2>2
  <2>3. CASE j = e
    <3>1. \A k \in S : k <= i
      <4> SUFFICES ASSUME NEW k \in S PROVE k <= i
        OBVIOUS
      <4>1. k \in T /\ k < e /\ k \in Nat
        BY <1>1
      <4> QED BY <1>1, <1>4, <2>3, <4>1
    <3>2. ch[i].n = last /\ c[i] = ch[i]
      BY <1>1, <1>2, <2>1, <3>1
    <3> QED BY <1>0, <1>1, <2>3, <3>2
  <2> QED BY <1>1, <2>2, <2>3
<1>5. InStep(c, base, last + 1, TRUE)
  BY <1>1, <1>3, <1>4 DEF InStep, T
<1> QED BY <1>5 DEF c, m

(* A resumed session starts with the stanzas the client has not counted.   *)
LEMMA InStepResume ==
  ASSUME NEW m \in Msg, m.t # "stz", NEW ms \in Seq(Msg), NEW h \in Nat, NEW last \in Nat,
         h <= last, Len(ms) = (IF h < last THEN last - h ELSE 0),
         \A i \in 1 .. Len(ms) : ms[i] = Stz(h + i), NEW whole
  PROVE  InStep(<<>> \o (<<m>> \o ms), h, last, whole)
<1> DEFINE c == <<>> \o (<<m>> \o ms)
<1>1. /\ Len(c) = Len(ms) + 1 /\ c[1] = m /\ Len(ms) \in Nat
      /\ \A i \in 1 .. Len(ms) : c[i + 1] = ms[i]
  OBVIOUS
<1> HIDE DEF c
<1>0. Len(ms) = last - h
  OBVIOUS
<1>2. \A i \in 2 .. Len(c) : c[i].t = "stz" /\ c[i].n = h + i - 1
  <2> SUFFICES ASSUME NEW i \in 2 .. Len(c) PROVE c[i].t = "stz" /\ c[i].n = h + i - 1
    OBVIOUS
  <2>1. i - 1 \in 1 .. Len(ms) /\ (i - 1) + 1 = i
    BY <1>1
  <2>2. c[i] = Stz(h + (i - 1))
    BY <1>1, <2>1
  <2> QED BY <2>1, <2>2 DEF Stz
<1>3. StzIn(c) = 2 .. Len(c)
  BY <1>1, <1>2 DEF StzIn
<1>4. ASSUME NEW i \in 2 .. Len(c)
      PROVE  /\ (\A j \in 2 .. Len(c) : i <= j) => i = 2
             /\ c[i].n <= last
             /\ (\A j \in 2 .. Len(c) : j <= i) => i = Len(c)
  <2>1. c[i].n = h + i - 1 /\ 2 \in 2 .. Len(c) /\ Len(c) \in 2 .. Len(c)
    BY <1>1, <1>2
  <2>2. h + i - 1 <= last
    BY <1>0, <1>1
  <2>3. 2 <= i /\ i <= Len(c) /\ i \in Nat /\ Len(c) \in Nat
    BY <1>1
  <2>4. (\A j \in 2 .. Len(c) : i <= j) => i = 2
    <3>1. (\A j \in 2 .. Len(c) : i <= j) => i <= 2
      BY <2>1
    <3> QED BY <2>3, <3>1
  <2>5. c[i].n <= last
    BY <2>1, <2>2
  <2>6. (\A j \in 2 .. Len(c) : j <= i) => i = Len(c)
    <3>1. (\A j \in 2 .. Len(c) : j <= i) => Len(c) <= i
      BY <2>1
    <3> QED BY <2>3, <3>1
  <2> QED BY <2>4, <2>5, <2>6
<1>5. ASSUME NEW i \in 2 .. Len(c), NEW j \in 2 .. Len(c), i < j,
             \A k \in 2 .. Len(c) : k <= i \/ j <= k
      PROVE  c[j].n = c[i].n + 1
  <2>1. i + 1 \in 2 .. Len(c)
    BY <1>1, <1>5
  <2>2. j = i + 1
    BY <1>1, <1>5, <2>1
  <2> QED BY <1>2, <2>2
<1>6. 2 .. Len(c) = {} => h = last
  <2> SUFFICES ASSUME h # last PROVE 2 \in 2 .. Len(c)
    OBVIOUS
  <2> QED BY <1>0, <1>1
<1>7. ASSUME NEW i \in 2 .. Len(c)
      PROVE  /\ (\A j \in 2 .. Len(c) : i <= j) => c[i].n = h + 1
             /\ whole /\ (\A j \in 2 .. Len(c) : j <= i) => c[i].n = last
  <2>1. c[i].n = h + i - 1
    BY <1>2
  <2>2. i = 2 => c[i].n = h + 1
    BY <2>1
  <2>3. i = Len(c) => c[i].n = last
    BY <1>0, <1>1, <2>1
  <2> QED BY <1>4, <2>2, <2>3
<1>8. InStep(c, h, last, whole)
  BY <1>3, <1>4, <1>5, <1>6, <1>7 DEF InStep
<1> QED BY <1>8 DEF c

(* With nothing but other elements on the way, nothing is out of step.     *)
LEMMA InStepNone ==
  ASSUME NEW base, NEW last, NEW m \in Msg, m.t # "stz"
  PROVE  /\ InStep(<<>>, base, last, FALSE) /\ InStep(<<m>>, base, last, FALSE)
         /\ InStep(<<m>>, base, base, TRUE)
<1>1. StzIn(<<>>) = {} /\ StzIn(<<m>>) = {}
  BY DEF StzIn
<1> QED BY <1>1 DEF InStep

LEMMA InStepBroken ==
  ASSUME NEW ch, NEW base, NEW last, NEW whole, InStep(ch, base, last, whole)
  PROVE  InStep(ch, base, last, FALSE)
BY DEF InStep

LEMMA StreamStep ==
  ASSUME SessionInv, [Next]_vars
  PROVE  Stream'
<1>0. Typed /\ Requests /\ Replies /\ Sessions /\ Stream /\ ClaimsAreSound
  BY TypeOKTyped DEF SessionInv
<1>t. toClient \in Seq(Msg) /\ inbound \in Nat /\ srv.sent \in Nat /\ srv.active \in BOOLEAN
  BY <1>0 DEF Typed
<1>1. CASE phase' \notin {"resuming", "enabling", "setup", "running"}
  BY <1>1 DEF Stream
<1>2. CASE UNCHANGED <<phase, inbound, toClient>> /\ srv'.sent = srv.sent
           /\ srv'.active = srv.active
  BY <1>0, <1>2 DEF Stream, Base
<1>3. CASE BeginResume \/ BeginEnable
  <2>1. toClient' = toClient /\ srv' = srv /\ phase = "auth"
    BY <1>3 DEF BeginResume, BeginEnable, srvVars
  <2>2. toClient' = <<>> /\ srv'.active = FALSE
    BY <1>0, <1>t, <2>1 DEF Replies
  <2>3. InStep(<<>>, Base', srv'.sent, FALSE)
    BY ConstantMessagesTyped, InStepNone DEF SMFailed
  <2> QED BY <2>2, <2>3 DEF Stream
<1>4. CASE ReadResumeFailed
  <2>1. phase = "resuming" /\ toClient # <<>> /\ Head(toClient) = SMFailed
        /\ toClient' = Tail(toClient) /\ srv' = srv
    BY <1>4 DEF ReadResumeFailed, srvVars
  <2>2. Len(toClient) = 1 /\ ~srv.active
    BY <1>0, <2>1 DEF Replies
  <2>3. toClient \in Seq(Msg) /\ Tail(toClient) \in Seq(Msg) /\ Len(Tail(toClient)) = 0
    BY <1>0, <2>1, <2>2, SequenceEnds DEF Typed
  <2>4. toClient' = <<>> /\ srv'.active = FALSE
    BY <1>t, <2>1, <2>2, <2>3, EmptySeq
  <2>5. InStep(<<>>, Base', srv'.sent, FALSE)
    BY ConstantMessagesTyped, InStepNone DEF SMFailed
  <2> QED BY <2>4, <2>5 DEF Stream
<1>5. CASE ReadResumed \/ ReadEnabled
  <2>1. toClient # <<>> /\ toClient' = Tail(toClient) /\ srv' = srv
        /\ phase \in {"resuming", "enabling"} /\ phase' = "setup"
        /\ Head(toClient).t \in {"resumed", "enabled"} /\ inbound' = Base
    BY <1>5 DEF ReadResumed, ReadEnabled, NewSMState, srvVars, Base
  <2>2. InStep(Tail(toClient), Base, srv.sent, srv.active)
    BY <1>0, <1>t, <2>1, InStepTailOther DEF Stream
  <2>3. Base' = Base
    BY <2>1 DEF Base
  <2> QED BY <2>1, <2>2, <2>3 DEF Stream
<1>6. CASE PostSessionSetup
  <2>1. UNCHANGED <<inbound, toClient, srv>> /\ phase = "setup" /\ phase' = "running"
    BY <1>6 DEF PostSessionSetup, KeepSMState, srvVars
  <2> QED BY <1>0, <2>1 DEF Stream, Base
<1>7. CASE RecvStanza
  <2>1. toClient # <<>> /\ toClient' = Tail(toClient) /\ Head(toClient).t = "stz"
        /\ phase = "running" /\ phase' = "running" /\ srv' = srv /\ inbound' = inbound + 1
    BY <1>7 DEF RecvStanza, Reading, srvVars
  <2>2. InStep(toClient, inbound, srv.sent, srv.active)
    BY <1>0, <2>1 DEF Stream, Base
  <2>3. InStep(Tail(toClient), inbound + 1, srv.sent, srv.active)
    BY <1>t, <2>1, <2>2, InStepTailStanza
  <2> QED BY <2>1, <2>3 DEF Stream, Base
<1>8. CASE RecvRequest \/ RecvAnswer
  <2>1. toClient # <<>> /\ toClient' = Tail(toClient) /\ Head(toClient).t # "stz"
        /\ phase = "running" /\ UNCHANGED <<phase, srv, inbound>>
    BY <1>8 DEF RecvRequest, RecvAnswer, Reading, clientVars, srvVars
  <2>2. InStep(Tail(toClient), Base, srv.sent, srv.active)
    BY <1>0, <1>t, <2>1, InStepTailOther DEF Stream
  <2> QED BY <2>1, <2>2 DEF Stream, Base
<1>9. CASE ServerAnswers \/ ServerRequests
  <2>1. UNCHANGED <<phase, inbound, srv>>
    BY <1>9 DEF ServerAnswers, ServerRequests, Serve, clientVars, srvVars
  <2>2. PICK m \in Msg : m.t # "stz" /\ toClient' = toClient \o <<m>>
    <3>1. SMAnswer(srv.h) \in Msg
      BY <1>0, MessagesTyped DEF Typed
    <3> QED BY <1>9, <3>1, ConstantMessagesTyped
            DEF ServerAnswers, ServerRequests, Reply, SMAnswer, SMRequest
  <2>3. phase \in {"resuming", "enabling", "setup", "running"} =>
          InStep(toClient \o <<m>>, Base, srv.sent, srv.active)
    BY <1>0, <1>t, <2>2, InStepAppendOther DEF Stream
  <2> QED BY <2>1, <2>2, <2>3 DEF Stream, Base
<1>10. CASE ServerSends
  <2>1. UNCHANGED <<phase, inbound>> /\ srv.active = TRUE /\ toClient' = toClient \o <<Stz(srv.sent + 1)>>
        /\ srv' = [srv EXCEPT !.sent = @ + 1]
    BY <1>10, <1>t DEF ServerSends, clientVars, Reply
  <2>2. srv'.active = TRUE /\ srv'.sent = srv.sent + 1
    BY <1>0, <2>1 DEF Typed
  <2>3. Base \in Nat
    BY <1>t DEF Base
  <2>4. phase \in {"resuming", "enabling", "setup", "running"} =>
          InStep(toClient \o <<Stz(srv.sent + 1)>>, Base, srv.sent + 1, TRUE)
    BY <1>0, <1>t, <2>1, <2>3, InStepAppendStanza DEF Stream
  <2> QED BY <2>1, <2>2, <2>4 DEF Stream, Base
<1>11. CASE ServerResumes \/ ServerRefusesResume \/ ServerMismatch
  <2>1. toServer # <<>> /\ Head(toServer).t = "resume" /\ UNCHANGED <<phase, inbound>>
    BY <1>11 DEF ServerResumes, ServerRefusesResume, ServerMismatch, Serve, clientVars
  <2>2. Asks(Head(toServer))
    BY <2>1 DEF Asks
  <2>3. toClient = <<>> /\ ~srv.active /\ phase = "resuming"
        /\ Head(toServer) = SMResume(smId, inbound)
    BY <1>0, <2>1, <2>2, AskServed DEF SMEnable
  <2>4. Head(toServer).n = smId /\ smId # 0 /\ Head(toServer).h = inbound
    BY <1>0, <2>3 DEF SMResume, Replies
  <2>5. CASE ServerResumes
    <3> DEFINE m == SMResumed(srv.sid, srv.h)
    <3>1. m \in Msg /\ m.t # "stz"
      BY <1>0, MessagesTyped DEF Typed, SMResumed
    <3>2. PICK ms \in Seq(Msg) :
             /\ toClient' = <<>> \o (<<m>> \o ms)
             /\ Len(ms) = (IF inbound < srv.sent THEN srv.sent - inbound ELSE 0)
             /\ \A i \in 1 .. Len(ms) : ms[i] = Stz(inbound + i)
      BY <1>0, <2>3, <2>4, <2>5, ResumeReply
    <3>3. srv'.sent = srv.sent /\ srv.sid = smId
      BY <1>0, <2>4, <2>5 DEF ServerResumes, Typed
    <3>4. inbound <= srv.sent
      BY <1>0, <2>4, <3>3 DEF Sessions, ClaimsAreSound
    <3> HIDE DEF m
    <3>5. InStep(toClient', inbound, srv.sent, srv'.active)
      BY <1>t, <3>1, <3>2, <3>4, InStepResume
    <3> QED BY <2>1, <2>3, <3>3, <3>5 DEF Stream, Base
  <2>6. CASE ServerRefusesResume \/ ServerMismatch
    <3>1. PICK m \in Msg : m.t # "stz" /\ toClient' = <<>> \o <<m>>
      <4>1. smId + 1 \in Nat
        BY <1>0 DEF Typed
      <4>2. SMResumed(smId + 1, 0) \in Msg /\ SMResumed(smId + 1, 0).t # "stz"
        BY <4>1, MessagesTyped DEF SMResumed
      <4>3. SMFailed \in Msg /\ SMFailed.t # "stz"
        BY ConstantMessagesTyped DEF SMFailed
      <4> QED BY <2>3, <2>4, <2>6, <4>2, <4>3 DEF ServerRefusesResume, ServerMismatch, Reply
    <3>2. srv'.active = FALSE /\ srv'.sent = srv.sent
      BY <1>0, <1>t, <2>3, <2>6 DEF ServerRefusesResume, ServerMismatch, Typed
    <3>3. toClient' = <<m>>
      BY <3>1
    <3>4. InStep(<<m>>, Base', srv'.sent, FALSE)
      BY <3>1, InStepNone
    <3> QED BY <3>2, <3>3, <3>4 DEF Stream
  <2> QED BY <1>11, <2>5, <2>6
<1>12. CASE ServerEnables \/ ServerRefusesEnable
  <2>1. toServer # <<>> /\ Head(toServer).t = "enable" /\ UNCHANGED phase
    BY <1>12 DEF ServerEnables, ServerRefusesEnable, Serve, clientVars
  <2>2. Asks(Head(toServer))
    BY <2>1 DEF Asks
  <2>3. toClient = <<>> /\ ~srv.active /\ phase = "enabling"
    BY <1>0, <2>1, <2>2, AskServed DEF SMResume
  <2>4. PICK m \in Msg : m.t # "stz" /\ toClient' = <<>> \o <<m>>
    <3>1. CASE ServerEnables
      <4>1. PICK res \in BOOLEAN :
              toClient' = <<>> \o <<SMEnabled(IF res THEN Head(toServer).n ELSE 0, res)>>
        BY <2>3, <3>1 DEF ServerEnables, Reply
      <4>2. (IF res THEN Head(toServer).n ELSE 0) \in Nat
        BY <1>0, <2>1, HeadTyped DEF Typed
      <4>3. SMEnabled(IF res THEN Head(toServer).n ELSE 0, res) \in Msg
        BY <4>2, MessagesTyped
      <4> QED BY <4>1, <4>3 DEF SMEnabled
    <3>2. CASE ServerRefusesEnable
      BY <2>3, <3>2, ConstantMessagesTyped DEF ServerRefusesEnable, Reply, SMFailed, SMRequest
    <3> QED BY <1>12, <3>1, <3>2
  <2>5. toClient' = <<m>>
    BY <2>4
  <2>6. CASE ServerEnables
    <3>1. srv'.sent = 0 /\ srv'.active = TRUE
      BY <2>6 DEF ServerEnables
    <3>2. Base' = 0
      BY <2>1, <2>3 DEF Base
    <3>3. InStep(<<m>>, 0, 0, TRUE)
      BY <2>4, InStepNone
    <3> QED BY <2>5, <3>1, <3>2, <3>3 DEF Stream
  <2>7. CASE ServerRefusesEnable
    <3>1. srv'.active = FALSE
      BY <1>t, <2>3, <2>7 DEF ServerRefusesEnable, srvVars
    <3>2. InStep(<<m>>, Base', srv'.sent, FALSE)
      BY <2>4, InStepNone
    <3> QED BY <2>5, <3>1, <3>2 DEF Stream
  <2> QED BY <1>12, <2>6, <2>7
<1>13. CASE ConnectionLost
  <2>1. UNCHANGED <<phase, inbound>> /\ toClient' \in {toClient, <<>>}
        /\ srv' = [srv EXCEPT !.active = FALSE]
    BY <1>13 DEF ConnectionLost, clientVars
  <2>2. srv'.active = FALSE /\ srv'.sent = srv.sent
    BY <1>0, <2>1 DEF Typed
  <2>3. phase \in {"resuming", "enabling", "setup", "running"} =>
          InStep(toClient, Base, srv.sent, FALSE)
    BY <1>0, <1>t, InStepBroken DEF Stream
  <2>4. InStep(<<>>, Base, srv.sent, FALSE)
    BY ConstantMessagesTyped, InStepNone DEF SMFailed
  <2> QED BY <2>1, <2>2, <2>3, <2>4 DEF Stream, Base
<1>14. CASE ServerStanza \/ ServerAcked \/ ServerForgets
  <2>1. UNCHANGED <<phase, inbound, toClient>>
    BY <1>14 DEF ServerStanza, ServerAcked, ServerForgets, Serve, clientVars, netVars
  <2>2. srv'.sent = srv.sent /\ srv'.active = srv.active
    BY <1>0, <1>14 DEF Typed, ServerStanza, ServerAcked, ServerForgets
  <2> QED BY <1>2, <2>1, <2>2
<1>15. CASE ResendOne \/ ResendDone \/ ResendFails \/ Sending \/ UNCHANGED vars
  <2>1. UNCHANGED <<phase, inbound, toClient, srv>>
    BY <1>15 DEF ResendOne, ResendDone, ResendFails, Sending, SendRequest, SendStart, SendAppend, SendPush,
                 SendWrite, vars, clientVars, netVars, srvVars
  <2> QED BY <1>2, <2>1
<1>16. CASE Dial \/ NegotiationFails \/ SessionLost \/ ResumeError \/ ReadEnableFailed
            \/ EnableError \/ SetupFails \/ RecvRequestFails \/ RecvError
  BY <1>1, <1>16 DEF Dial, NegotiationFails, SessionLost, ResumeError, ReadEnableFailed,
                     EnableError, SetupFails, RecvRequestFails, RecvError
<1> QED
  BY <1>3, <1>4, <1>5, <1>6, <1>7, <1>8, <1>9, <1>10, <1>11, <1>12, <1>13, <1>14, <1>15, <1>16
  DEF Next, Connecting, Receiving, Server

-----------------------------------------------------------------------------
(* What was handed to the router.                                          *)

(* The stanza recv reads is the next one of the session, and was sent.     *)
LEMMA NextStanza ==
  ASSUME Typed, Stream, RecvStanza
  PROVE  Head(toClient).n = inbound + 1 /\ inbound + 1 <= srv.sent
<1>1. toClient # <<>> /\ Head(toClient).t = "stz" /\ phase = "running"
  BY DEF RecvStanza, Reading
<1>2. InStep(toClient, inbound, srv.sent, srv.active)
  BY <1>1 DEF Stream, Base
<1> QED BY <1>1, <1>2, InStepTailStanza DEF Typed

LEMMA RoutedStep ==
  ASSUME SessionInv, [Next]_vars
  PROVE  RoutedInOrder'
<1>0. Typed /\ Stream /\ RoutedInOrder
  BY TypeOKTyped DEF SessionInv
<1>1. CASE UNCHANGED <<inbound, routed>>
  BY <1>0, <1>1 DEF RoutedInOrder
<1>2. CASE inbound' = 0 /\ routed' = <<>>
  BY <1>2 DEF RoutedInOrder
<1>3. CASE RecvStanza
  <2>1. inbound' = inbound + 1 /\ routed' = Append(routed, inbound + 1)
    BY <1>0, <1>3, NextStanza DEF RecvStanza
  <2>2. routed \in Seq(Nat) /\ inbound \in Nat /\ Len(routed) = inbound
    BY <1>0 DEF Typed, RoutedInOrder
  <2>3. Len(routed') = inbound + 1 /\ routed'[inbound + 1] = inbound + 1
        /\ \A i \in 1 .. Len(routed) : routed'[i] = routed[i]
    BY <2>1, <2>2
  <2>4. ASSUME NEW i \in 1 .. Len(routed') PROVE routed'[i] = i
    <3>1. i \in 1 .. Len(routed) \/ i = inbound + 1
      BY <2>2, <2>3
    <3> QED BY <1>0, <2>3, <3>1 DEF RoutedInOrder
  <2> QED BY <2>1, <2>3, <2>4 DEF RoutedInOrder
<1>4. CASE Connecting
  BY <1>1, <1>2, <1>4
  DEF Connecting, Dial, NegotiationFails, SessionLost, BeginResume, BeginEnable, ReadResumed,
      ReadResumeFailed, ResumeError, ReadEnabled, ReadEnableFailed, EnableError,
      PostSessionSetup, SetupFails, KeepSMState, ClearSMState, NewSMState
<1>5. CASE Receiving /\ ~RecvStanza
  BY <1>1, <1>5
  DEF Receiving, RecvRequest, RecvRequestFails, RecvAnswer, ResendOne, ResendDone, ResendFails,
      RecvError, KeepSMState, clientVars
<1>6. CASE Sending \/ ConnectionLost \/ UNCHANGED vars
  BY <1>1, <1>6
  DEF Sending, SendRequest, SendStart, SendAppend, SendPush, SendWrite, ConnectionLost, vars, clientVars
<1>7. CASE Server
  BY <1>1, <1>7
  DEF Server, ServerStanza, ServerAnswers, ServerAcked, ServerResumes, ServerRefusesResume,
      ServerMismatch, ServerEnables, ServerRefusesEnable, ServerSends, ServerRequests,
      ServerForgets, Serve, clientVars
<1> QED BY <1>3, <1>4, <1>5, <1>6, <1>7 DEF Next

-----------------------------------------------------------------------------
(* What the client claims to have counted.                                 *)

LEMMA NoClaimsLeft ==
  ASSUME Claims' = {}, queueObj' = srv'.sid => srv'.acked <= inbound' /\ inbound' <= srv'.sent
  PROVE  ClaimsAreSound'
BY DEF ClaimsAreSound

(* The claims on their way after a write that adds none.                   *)
LEMMA ClaimsWrite ==
  ASSUME Typed, NEW m \in Msg, m.t \notin {"a", "resume"}, Write(m)
  PROVE  \A i \in Claims' : i \in Claims /\ toServer'[i] = toServer[i]
<1>1. \A i \in 1 .. Len(toServer') :
        \/ i \in 1 .. Len(toServer) /\ toServer'[i] = toServer[i]
        \/ i = Len(toServer) + 1 /\ toServer'[i] = m
  BY Written DEF Typed
<1> QED BY <1>1 DEF Claims

(* The claims on their way once the server has read one element.           *)
LEMMA ClaimsServed ==
  ASSUME Typed, toServer # <<>>, toServer' = Tail(toServer)
  PROVE  \A i \in Claims' : i \in Nat /\ i > 0 /\ i + 1 \in Claims /\ toServer'[i] = toServer[i + 1]
<1>1. \A i \in 1 .. Len(Tail(toServer)) :
        i \in Nat /\ i > 0 /\ i + 1 \in 1 .. Len(toServer) /\ Tail(toServer)[i] = toServer[i + 1]
  BY SequenceEnds DEF Typed
<1> QED BY <1>1 DEF Claims

LEMMA ClaimsStep ==
  ASSUME SessionInv, [Next]_vars
  PROVE  ClaimsAreSound'
<1>0. Typed /\ Requests /\ Replies /\ Sessions /\ Stream /\ ClaimsAreSound
  BY TypeOKTyped DEF SessionInv
<1>t. inbound \in Nat /\ srv.sent \in Nat /\ srv.acked \in Nat
  BY <1>0 DEF Typed
<1>1. ASSUME UNCHANGED <<inbound, queueObj>>, srv'.sid = srv.sid, srv'.sent = srv.sent,
             srv'.acked = srv.acked, \A i \in Claims' : i \in Claims /\ toServer'[i] = toServer[i]
      PROVE  ClaimsAreSound'
  BY <1>0, <1>1 DEF ClaimsAreSound
<1>2. CASE UNCHANGED <<inbound, queueObj, toServer, srv>>
  BY <1>0, <1>2 DEF ClaimsAreSound, Claims
<1>3. CASE Dial \/ NegotiationFails \/ EnableError \/ ConnectionLost
  <2>1. UNCHANGED <<inbound, queueObj>> /\ srv' = [srv EXCEPT !.active = FALSE] /\ toServer' = <<>>
    BY <1>3 DEF Dial, NegotiationFails, EnableError, ConnectionLost, KeepSMState,
                CloseConnection, clientVars
  <2>2. srv'.sid = srv.sid /\ srv'.sent = srv.sent /\ srv'.acked = srv.acked
    BY <1>0, <2>1 DEF Typed
  <2>3. Claims' = {}
    BY <2>1 DEF Claims
  <2> QED BY <1>0, <2>1, <2>2, <2>3, NoClaimsLeft DEF ClaimsAreSound
<1>4. CASE SessionLost \/ ResumeError
  <2>1. inbound' = 0 /\ queueObj' = 0 /\ srv' = [srv EXCEPT !.active = FALSE] /\ toServer' = <<>>
    BY <1>4 DEF SessionLost, ResumeError, ClearSMState, CloseConnection
  <2>2. srv'.sid = srv.sid /\ srv'.sent = srv.sent /\ srv'.acked = srv.acked
    BY <1>0, <2>1 DEF Typed
  <2>3. Claims' = {}
    BY <2>1 DEF Claims
  <2> QED BY <1>0, <2>1, <2>2, <2>3, NoClaimsLeft DEF Sessions
<1>5. CASE BeginResume
  <2>1. NoAsk /\ phase # "running"
    BY <1>0, <1>5, NoAskHere DEF BeginResume
  <2>2. Claims = {}
    BY <1>0, <2>1, NoClaimsHere
  <2>3. UNCHANGED <<inbound, queueObj, srv>> /\ Write(SMResume(smId, inbound))
    BY <1>5 DEF BeginResume, KeepSMState, srvVars
  <2>4. SMResume(smId, inbound) \in Msg /\ SMResume(smId, inbound).h = inbound
    BY <1>0, MessagesTyped DEF Typed, SMResume
  <2>5. \A i \in Claims' : i = Len(toServer) + 1 /\ toServer'[i] = SMResume(smId, inbound)
    <3>1. \A i \in 1 .. Len(toServer') :
            \/ i \in 1 .. Len(toServer) /\ toServer'[i] = toServer[i]
            \/ i = Len(toServer) + 1 /\ toServer'[i] = SMResume(smId, inbound)
      BY <1>0, <2>3, <2>4, Written DEF Typed
    <3> QED BY <2>2, <3>1 DEF Claims
  <2>6. queueObj' = srv'.sid => inbound \in srv'.acked .. inbound
    BY <1>0, <1>t, <2>3 DEF ClaimsAreSound
  <2> QED BY <1>0, <1>t, <2>3, <2>4, <2>5, <2>6 DEF ClaimsAreSound
<1>6. CASE BeginEnable
  <2>1. UNCHANGED <<inbound, queueObj, srv>> /\ Write(SMEnable(count.enables + 1))
    BY <1>6 DEF BeginEnable, WriteEnable, KeepSMState, srvVars
  <2>2. SMEnable(count.enables + 1) \in Msg /\ SMEnable(count.enables + 1).t = "enable"
    <3>1. count.enables + 1 \in Nat
      BY <1>0 DEF Typed
    <3> QED BY <3>1, MessagesTyped DEF SMEnable
  <2>3. \A i \in Claims' : i \in Claims /\ toServer'[i] = toServer[i]
    BY <1>0, <2>1, <2>2, ClaimsWrite
  <2> QED BY <1>1, <2>1, <2>3
<1>7. CASE ReadResumeFailed
  <2>1. NoAsk /\ phase # "running"
    BY <1>0, <1>7, NoAskHere DEF ReadResumeFailed
  <2>2. Claims = {}
    BY <1>0, <2>1, NoClaimsHere
  <2>3. inbound' = 0 /\ queueObj' = 0 /\ srv' = srv /\ Write(SMEnable(count.enables + 1))
    BY <1>7 DEF ReadResumeFailed, WriteEnable, ClearSMState, srvVars
  <2>4. SMEnable(count.enables + 1) \in Msg /\ SMEnable(count.enables + 1).t = "enable"
    <3>1. count.enables + 1 \in Nat
      BY <1>0 DEF Typed
    <3> QED BY <3>1, MessagesTyped DEF SMEnable
  <2>5. Claims' = {}
    BY <1>0, <2>2, <2>3, <2>4, ClaimsWrite
  <2> QED BY <1>0, <2>3, <2>5, NoClaimsLeft DEF Sessions
<1>8. CASE ReadEnabled
  <2>1. NoAsk /\ phase = "enabling"
    BY <1>0, <1>8, NoAskHere DEF ReadEnabled
  <2>2. Claims = {}
    BY <1>0, <2>1, NoClaimsHere
  <2>3. inbound' = 0 /\ queueObj' = count.enables /\ UNCHANGED <<srv, toServer>>
    BY <1>8 DEF ReadEnabled, NewSMState, srvVars
  <2>4. Claims' = {}
    BY <2>2, <2>3 DEF Claims
  <2> QED BY <1>0, <1>t, <2>1, <2>3, <2>4, NoClaimsLeft DEF Sessions
<1>9. CASE ReadEnableFailed
  <2>1. inbound' = 0 /\ queueObj' = count.enables /\ srv' = [srv EXCEPT !.active = FALSE]
        /\ toServer' = <<>> /\ phase = "enabling"
    BY <1>9 DEF ReadEnableFailed, NewSMState, CloseConnection
  <2>2. srv'.sid = srv.sid /\ srv'.sent = srv.sent /\ srv'.acked = srv.acked
    BY <1>0, <2>1 DEF Typed
  <2>3. Claims' = {}
    BY <2>1 DEF Claims
  <2> QED BY <1>0, <1>t, <2>1, <2>2, <2>3, NoClaimsLeft DEF Sessions
<1>10. CASE PostSessionSetup \/ SetupFails
  <2>1. UNCHANGED <<inbound, queueObj, srv>> /\ (UNCHANGED toServer \/ Write(InitialPresence))
    BY <1>10 DEF PostSessionSetup, SetupFails, KeepSMState, srvVars
  <2>2. CASE UNCHANGED toServer
    BY <1>2, <2>1, <2>2
  <2>3. CASE Write(InitialPresence)
    <3>1. InitialPresence \in Msg /\ InitialPresence.t = "stz"
      BY ConstantMessagesTyped DEF InitialPresence, Stz
    <3>2. \A i \in Claims' : i \in Claims /\ toServer'[i] = toServer[i]
      BY <1>0, <2>3, <3>1, ClaimsWrite
    <3> QED BY <1>1, <2>1, <3>2
  <2> QED BY <2>1, <2>2, <2>3
<1>11. CASE RecvStanza
  <2>1. UNCHANGED <<queueObj, srv, toServer>> /\ inbound' = inbound + 1
    BY <1>11 DEF RecvStanza, srvVars
  <2>2. inbound + 1 <= srv.sent
    BY <1>0, <1>11, NextStanza
  <2>3. Claims' = Claims
    BY <2>1 DEF Claims
  <2>4. queueObj = srv.sid =>
          /\ srv.acked <= inbound + 1
          /\ \A i \in Claims : toServer[i].h \in srv.acked .. inbound + 1
          /\ \A i, j \in Claims : i < j => toServer[i].h <= toServer[j].h
    BY <1>0, <1>t DEF ClaimsAreSound
  <2> QED BY <2>1, <2>2, <2>3, <2>4 DEF ClaimsAreSound
<1>12. CASE RecvRequest
  <2>1. UNCHANGED <<queueObj, srv, inbound>> /\ Write(SMAnswer(inbound))
    BY <1>12 DEF RecvRequest, clientVars, srvVars
  <2>2. SMAnswer(inbound) \in Msg /\ SMAnswer(inbound).h = inbound
    BY <1>0, MessagesTyped DEF Typed, SMAnswer
  <2>3. \A i \in Claims' :
          \/ i \in Claims /\ toServer'[i] = toServer[i]
          \/ i = Len(toServer) + 1 /\ toServer'[i].h = inbound
    <3>1. \A i \in 1 .. Len(toServer') :
            \/ i \in 1 .. Len(toServer) /\ toServer'[i] = toServer[i]
            \/ i = Len(toServer) + 1 /\ toServer'[i] = SMAnswer(inbound)
      BY <1>0, <2>1, <2>2, Written DEF Typed
    <3> QED BY <2>2, <3>1 DEF Claims
  <2>4. \A i \in Claims : i \in Nat /\ i < Len(toServer) + 1
    BY <1>0 DEF Claims, Typed
  <2> SUFFICES ASSUME queueObj = srv.sid
               PROVE  /\ srv.acked <= inbound /\ inbound <= srv.sent
                      /\ \A i \in Claims' : toServer'[i].h \in srv.acked .. inbound
                      /\ \A i, j \in Claims' : i < j => toServer'[i].h <= toServer'[j].h
    BY <2>1 DEF ClaimsAreSound
  <2>5. /\ srv.acked <= inbound /\ inbound <= srv.sent
        /\ \A i \in Claims : toServer[i].h \in srv.acked .. inbound
        /\ \A i, j \in Claims : i < j => toServer[i].h <= toServer[j].h
    BY <1>0 DEF ClaimsAreSound
  <2>6. \A i \in Claims' : toServer'[i].h \in srv.acked .. inbound
    BY <1>t, <2>3, <2>5
  <2>7. ASSUME NEW i \in Claims', NEW j \in Claims', i < j
        PROVE  toServer'[i].h <= toServer'[j].h
    <3>1. CASE j \in Claims /\ toServer'[j] = toServer[j]
      <4>1. i # Len(toServer) + 1
        <5>1. j < Len(toServer) + 1 /\ j \in Nat /\ Len(toServer) + 1 \in Nat
          BY <1>0, <2>4, <3>1 DEF Typed
        <5> QED BY <2>7, <5>1
      <4> QED BY <2>3, <2>5, <2>7, <3>1, <4>1
    <3>2. CASE toServer'[j].h = inbound
      BY <1>t, <2>6, <3>2
    <3> QED BY <2>3, <3>1, <3>2
  <2> QED BY <2>5, <2>6, <2>7
<1>13. CASE ResendOne \/ ResendDone \/ SendRequest \/ \E s \in Senders : SendWrite(s)
  <2>1. PICK m \in Msg : m.t \in {"stz", "r"} /\ Write(m)
    <3>1. CASE ResendOne
      <4>1. pending \in Seq(Nat) /\ pending # <<>> /\ Write(Stz(Head(pending)))
        BY <3>1 DEF ResendOne, SessionInv, TypeOK, SendTypeOK
      <4>2. Head(pending) \in Nat
        BY <4>1
      <4> QED BY <4>1, <4>2, MessagesTyped DEF Stz
    <3>2. CASE ResendDone \/ SendRequest
      BY <3>2, ConstantMessagesTyped DEF ResendDone, SendRequest, SMRequest
    <3>3. CASE \E s \in Senders : SendWrite(s)
      <4>1. PICK s \in Senders : SendWrite(s)
        BY <3>3
      <4>2. sender[s].stz \in Nat
        BY DEF SessionInv, TypeOK, SendTypeOK, Call
      <4> QED BY <4>1, <4>2, MessagesTyped DEF SendWrite, Stz
    <3> QED BY <1>13, <3>1, <3>2, <3>3
  <2>2. UNCHANGED <<inbound, queueObj, srv>>
    BY <1>13 DEF ResendOne, ResendDone, SendRequest, SendWrite, clientVars, srvVars
  <2>3. \A i \in Claims' : i \in Claims /\ toServer'[i] = toServer[i]
    BY <1>0, <2>1, ClaimsWrite
  <2> QED BY <1>1, <2>2, <2>3
<1>14. CASE ServerStanza \/ ServerAnswers \/ ServerRefusesResume \/ ServerMismatch
            \/ ServerRefusesEnable
  <2>1. UNCHANGED <<inbound, queueObj>> /\ toServer # <<>> /\ toServer' = Tail(toServer)
    BY <1>14 DEF ServerStanza, ServerAnswers, ServerRefusesResume, ServerMismatch,
                 ServerRefusesEnable, Serve, clientVars
  <2>2. srv'.sid = srv.sid /\ srv'.sent = srv.sent /\ srv'.acked = srv.acked
    BY <1>0, <1>14 DEF Typed, ServerStanza, ServerAnswers, ServerRefusesResume, ServerMismatch,
                 ServerRefusesEnable, srvVars
  <2>3. \A i \in Claims' : i \in Nat /\ i + 1 \in Claims /\ toServer'[i] = toServer[i + 1]
    BY <1>0, <2>1, ClaimsServed
  <2>4. \A i, j \in Claims' : i < j => i + 1 < j + 1
    BY <2>3
  <2> QED BY <1>0, <2>1, <2>2, <2>3, <2>4 DEF ClaimsAreSound
<1>15. CASE ServerAcked
  <2>1. UNCHANGED <<inbound, queueObj>> /\ toServer # <<>> /\ toServer' = Tail(toServer)
        /\ Head(toServer).t = "a" /\ srv' = [srv EXCEPT !.acked = Head(toServer).h]
    BY <1>15 DEF ServerAcked, Serve, clientVars
  <2>2. srv'.sid = srv.sid /\ srv'.sent = srv.sent /\ srv'.acked = toServer[1].h
    BY <1>0, <2>1, SequenceEnds DEF Typed
  <2>3. \A i \in Claims' : i \in Nat /\ i > 0 /\ i + 1 \in Claims /\ toServer'[i] = toServer[i + 1]
    BY <1>0, <2>1, ClaimsServed
  <2>4. 1 \in Claims
    BY <1>0, <2>1, SequenceEnds DEF Typed, Claims
  <2>5. (\A i, j \in Claims' : i < j => i + 1 < j + 1) /\ \A i \in Claims' : 1 < i + 1
    BY <2>3
  <2> SUFFICES ASSUME queueObj = srv.sid
               PROVE  /\ toServer[1].h <= inbound /\ inbound <= srv.sent
                      /\ \A i \in Claims' : toServer'[i].h \in toServer[1].h .. inbound
                      /\ \A i, j \in Claims' : i < j => toServer'[i].h <= toServer'[j].h
    BY <2>1, <2>2 DEF ClaimsAreSound
  <2>6. /\ srv.acked <= inbound /\ inbound <= srv.sent
        /\ \A i \in Claims : toServer[i].h \in srv.acked .. inbound
        /\ \A i, j \in Claims : i < j => toServer[i].h <= toServer[j].h
    BY <1>0 DEF ClaimsAreSound
  <2>7. toServer[1].h <= inbound /\ toServer[1].h \in Nat
    BY <1>t, <2>4, <2>6
  <2>8. ASSUME NEW i \in Claims' PROVE toServer'[i].h \in toServer[1].h .. inbound
    <3>1. toServer[1].h <= toServer[i + 1].h /\ toServer[i + 1].h \in srv.acked .. inbound
      BY <2>3, <2>4, <2>5, <2>6
    <3> QED BY <1>t, <2>3, <2>7, <3>1
  <2>9. \A i, j \in Claims' : i < j => toServer'[i].h <= toServer'[j].h
    BY <2>3, <2>5, <2>6
  <2> QED BY <2>6, <2>7, <2>8, <2>9
<1>16. CASE ServerResumes
  <2>1. UNCHANGED <<inbound, queueObj>> /\ toServer # <<>> /\ toServer' = Tail(toServer)
        /\ Head(toServer).t = "resume" /\ srv.sid = Head(toServer).n
        /\ srv' = [srv EXCEPT !.active = TRUE, !.acked = Head(toServer).h]
    BY <1>16 DEF ServerResumes, Serve, clientVars
  <2>2. Asks(Head(toServer))
    BY <2>1 DEF Asks
  <2>3. phase = "resuming" /\ Head(toServer) = SMResume(smId, inbound)
        /\ \A i \in 1 .. Len(toServer') : ~Asks(toServer'[i])
    BY <1>0, <2>1, <2>2, AskServed DEF SMEnable
  <2>4. Head(toServer).h = inbound
    BY <2>3 DEF SMResume
  <2>5. srv'.sid = srv.sid /\ srv'.sent = srv.sent /\ srv'.acked = inbound
    BY <1>0, <2>1, <2>4 DEF Typed
  <2>6. Claims' = {}
    <3>1. \A i \in Claims' : i + 1 \in Claims /\ toServer'[i] = toServer[i + 1]
      BY <1>0, <2>1, ClaimsServed
    <3>2. \A i \in Claims : toServer[i].t = "resume"
      BY <1>0, <2>3 DEF Claims, Requests
    <3>3. Claims' \subseteq 1 .. Len(toServer')
      BY DEF Claims
    <3> QED BY <2>3, <3>1, <3>2, <3>3 DEF Asks
  <2> QED BY <1>0, <1>t, <2>1, <2>5, <2>6, NoClaimsLeft DEF ClaimsAreSound
<1>17. CASE ServerEnables
  <2>1. queueObj' = queueObj /\ toServer # <<>> /\ Head(toServer).t = "enable"
        /\ srv'.sid = Head(toServer).n
    BY <1>17 DEF ServerEnables, Serve, clientVars
  <2>2. phase = "enabling" /\ Head(toServer).n = count.enables
    <3>1. Asks(Head(toServer))
      BY <2>1 DEF Asks
    <3> QED BY <1>0, <2>1, <3>1, AskServed DEF SMEnable, SMResume
  <2>3. queueObj # count.enables
    BY <1>0, <2>2 DEF Sessions, Typed
  <2> QED BY <2>1, <2>2, <2>3 DEF ClaimsAreSound
<1>18. CASE ServerSends
  <2>1. UNCHANGED <<inbound, queueObj, toServer>> /\ srv' = [srv EXCEPT !.sent = @ + 1]
    BY <1>18 DEF ServerSends, clientVars
  <2>2. srv'.sid = srv.sid /\ srv'.acked = srv.acked /\ srv'.sent = srv.sent + 1
    BY <1>0, <2>1 DEF Typed
  <2>3. inbound <= srv.sent => inbound <= srv.sent + 1
    BY <1>t
  <2>4. Claims' = Claims
    BY <2>1 DEF Claims
  <2> QED BY <1>0, <2>1, <2>2, <2>3, <2>4 DEF ClaimsAreSound
<1>19. CASE ServerForgets
  <2>1. UNCHANGED <<inbound, queueObj, toServer>> /\ srv' = [srv EXCEPT !.live = FALSE]
    BY <1>19 DEF ServerForgets, clientVars, netVars
  <2>2. srv'.sid = srv.sid /\ srv'.acked = srv.acked /\ srv'.sent = srv.sent
    BY <1>0, <2>1 DEF Typed
  <2>3. Claims' = Claims
    BY <2>1 DEF Claims
  <2> QED BY <1>0, <2>1, <2>2, <2>3 DEF ClaimsAreSound
<1>20. CASE ReadResumed \/ RecvRequestFails \/ RecvAnswer \/ ResendFails \/ RecvError
            \/ ServerRequests \/ UNCHANGED vars
            \/ \E s \in Senders : SendStart(s) \/ SendAppend(s) \/ SendPush(s)
  BY <1>2, <1>20
  DEF ReadResumed, RecvRequestFails, RecvAnswer, ResendFails, RecvError, ServerRequests,
      SendStart, SendAppend, SendPush, KeepSMState, vars, clientVars, netVars, srvVars
<1> QED
  BY <1>3, <1>4, <1>5, <1>6, <1>7, <1>8, <1>9, <1>10, <1>11, <1>12, <1>13, <1>14, <1>15,
     <1>16, <1>17, <1>18, <1>19, <1>20
  DEF Next, Connecting, Receiving, Sending, Server

-----------------------------------------------------------------------------

LEMMA InitSessionInv == Init => SessionInv
<1> SUFFICES ASSUME Init PROVE SessionInv
  OBVIOUS
<1> USE DEF Init
<1>1. TypeOK
  BY InitTypeOK
<1>2. Requests /\ Replies
  BY DEF Requests, Replies
<1>3. Sessions
  BY BoundsAssumption DEF Sessions
<1>4. Stream /\ RoutedInOrder
  BY DEF Stream, RoutedInOrder
<1>5. ClaimsAreSound
  BY DEF ClaimsAreSound, Claims
<1> QED BY <1>1, <1>2, <1>3, <1>4, <1>5 DEF SessionInv

LEMMA NextSessionInv == SessionInv /\ [Next]_vars => SessionInv'
<1> SUFFICES ASSUME SessionInv, [Next]_vars PROVE SessionInv'
  OBVIOUS
<1>1. TypeOK'
  BY NextTypeOK DEF SessionInv
<1> QED BY <1>1, RequestsStep, RepliesStep, SessionsStep, StreamStep, RoutedStep, ClaimsStep
        DEF SessionInv

THEOREM SessionInvariance == Spec => []SessionInv
<1> QED BY InitSessionInv, NextSessionInv, PTL DEF Spec

(* While recv runs on a working connection, client and server mean the     *)
(* same session, after any number of resumptions, refusals, mismatched     *)
(* replies and lost connections (Session.resume, EnableStreamManagement).  *)
THEOREM SessionsAgree == Spec => []SameSession
<1>1. SessionInv => SameSession
  BY DEF SessionInv, Sessions, SameSession
<1> QED BY <1>1, SessionInvariance, PTL

(* The counts the client sends in <a/> and <resume/> never decrease and    *)
(* never cover a stanza the server has not sent in that session.           *)
THEOREM CountsAreSound == Spec => []ClaimsAreSound
<1>1. SessionInv => ClaimsAreSound
  BY DEF SessionInv
<1> QED BY <1>1, SessionInvariance, PTL

-----------------------------------------------------------------------------
(* The client implements InOrderDelivery.                                  *)

SentInSession == IF queueObj = srv.sid THEN srv.sent ELSE MaxInbound

LEMMA InitDelivers == Init => Delivery!Init
BY DEF Init, Delivery!Init

LEMMA StepDelivers ==
  ASSUME SessionInv, [Next]_vars
  PROVE  [Delivery!Next]_<<queueObj, SentInSession, routed>>
<1>0. Typed /\ Requests /\ Sessions /\ Stream /\ RoutedInOrder
  BY TypeOKTyped DEF SessionInv
<1>1. CASE UNCHANGED <<queueObj, routed>> /\ srv'.sid = srv.sid /\ srv'.sent = srv.sent
  BY <1>1 DEF SentInSession
<1>2. CASE queueObj' # queueObj /\ routed' = <<>>
  <2>1. SentInSession' \in Nat
    <3>1. ServerTypeOK'
      BY ServerType DEF SessionInv
    <3> QED BY <3>1, BoundsAssumption DEF SentInSession, ServerTypeOK
  <2> QED BY <1>2, <2>1 DEF Delivery!Next, Delivery!NewSession, SentInSession
<1>3. CASE queueObj' = 0 /\ routed' = <<>> /\ srv'.sid = srv.sid /\ srv'.sent = srv.sent
  <2>1. CASE queueObj = 0
    <3>1. routed = <<>>
      <4>1. routed \in Seq(Nat) /\ Len(routed) = 0
        BY <1>0, <2>1 DEF Typed, Sessions, RoutedInOrder
      <4> QED BY <4>1, EmptySeq
    <3> QED BY <1>1, <1>3, <2>1, <3>1
  <2>2. CASE queueObj # 0
    BY <1>2, <1>3, <2>2
  <2> QED BY <2>1, <2>2
<1>4. CASE RecvStanza
  <2>1. phase = "running" /\ UNCHANGED <<queueObj, srv>> /\ routed' = Append(routed, inbound + 1)
        /\ inbound + 1 <= srv.sent
    BY <1>0, <1>4, NextStanza DEF RecvStanza, Reading, srvVars
  <2>2. queueObj = srv.sid
    BY <1>0, <2>1 DEF Sessions
  <2>3. Len(routed) = inbound /\ inbound < srv.sent
    BY <1>0, <2>1 DEF RoutedInOrder, Typed
  <2> QED BY <2>1, <2>2, <2>3 DEF Delivery!Next, Delivery!Deliver, SentInSession
<1>5. CASE ServerSends
  <2>1. UNCHANGED <<queueObj, routed>> /\ srv' = [srv EXCEPT !.sent = @ + 1]
    BY <1>5 DEF ServerSends, clientVars
  <2>2. srv'.sid = srv.sid /\ srv'.sent = srv.sent + 1 /\ srv.sent \in Nat
    BY <1>0, <2>1 DEF Typed
  <2>3. CASE queueObj = srv.sid
    <3>1. srv.sent + 1 \in Nat /\ srv.sent + 1 > srv.sent
      BY <2>2
    <3> QED BY <2>1, <2>2, <2>3, <3>1 DEF Delivery!Next, Delivery!Send, SentInSession
  <2>4. CASE queueObj # srv.sid
    BY <2>1, <2>2, <2>4 DEF SentInSession
  <2> QED BY <2>3, <2>4
<1>6. CASE ServerEnables
  <2>1. UNCHANGED <<queueObj, routed>> /\ toServer # <<>> /\ Head(toServer).t = "enable"
        /\ srv'.sid = Head(toServer).n
    BY <1>6 DEF ServerEnables, Serve, clientVars
  <2>2. phase = "enabling" /\ Head(toServer).n = count.enables
    <3>1. Asks(Head(toServer))
      BY <2>1 DEF Asks
    <3> QED BY <1>0, <2>1, <3>1, AskServed DEF SMEnable, SMResume
  <2>3. SentInSession' = MaxInbound
    BY <1>0, <2>1, <2>2 DEF Sessions, Typed, SentInSession
  <2>4. CASE SentInSession = MaxInbound
    BY <2>1, <2>3, <2>4
  <2>5. CASE SentInSession # MaxInbound
    <3>1. SentInSession \in Nat /\ SentInSession <= MaxInbound
      BY <1>0, BoundsAssumption DEF Sessions, Typed, SentInSession
    <3>2. MaxInbound > SentInSession
      BY <2>5, <3>1, BoundsAssumption
    <3> QED BY <2>1, <2>3, <3>2, BoundsAssumption DEF Delivery!Next, Delivery!Send, SentInSession
  <2> QED BY <2>4, <2>5
<1>7. CASE SessionLost \/ ResumeError \/ ReadResumeFailed
  <2>1. queueObj' = 0 /\ routed' = <<>>
    BY <1>7 DEF SessionLost, ResumeError, ReadResumeFailed, ClearSMState
  <2>2. srv'.sid = srv.sid /\ srv'.sent = srv.sent
    BY <1>0, <1>7 DEF Typed, SessionLost, ResumeError, ReadResumeFailed, CloseConnection, srvVars
  <2> QED BY <1>3, <2>1, <2>2
<1>8. CASE ReadEnabled \/ ReadEnableFailed
  <2>1. queueObj' = count.enables /\ routed' = <<>> /\ phase = "enabling"
    BY <1>8 DEF ReadEnabled, ReadEnableFailed, NewSMState
  <2>2. queueObj # count.enables
    BY <1>0, <2>1 DEF Sessions, Typed
  <2> QED BY <1>2, <2>1, <2>2
<1>9. CASE Dial \/ NegotiationFails \/ EnableError \/ BeginResume \/ BeginEnable \/ ReadResumed
           \/ PostSessionSetup \/ SetupFails \/ ConnectionLost
  <2>1. UNCHANGED <<queueObj, routed>>
    BY <1>9 DEF Dial, NegotiationFails, EnableError, BeginResume, BeginEnable, ReadResumed,
                PostSessionSetup, SetupFails, ConnectionLost, KeepSMState, clientVars
  <2>2. srv' \in {srv, [srv EXCEPT !.active = FALSE]}
    BY <1>9 DEF Dial, NegotiationFails, EnableError, BeginResume, BeginEnable, ReadResumed,
                PostSessionSetup, SetupFails, ConnectionLost, CloseConnection, srvVars
  <2>3. srv'.sid = srv.sid /\ srv'.sent = srv.sent
    BY <1>0, <2>2 DEF Typed
  <2> QED BY <1>1, <2>1, <2>3
<1>10. CASE Receiving /\ ~RecvStanza
  <2>1. UNCHANGED <<queueObj, routed, srv>>
    BY <1>10 DEF Receiving, RecvRequest, RecvRequestFails, RecvAnswer, ResendOne, ResendDone,
                 ResendFails, RecvError, KeepSMState, clientVars, srvVars
  <2> QED BY <1>1, <2>1
<1>11. CASE Sending \/ UNCHANGED vars
  <2>1. UNCHANGED <<queueObj, routed, srv>>
    BY <1>11 DEF Sending, SendRequest, SendStart, SendAppend, SendPush, SendWrite, vars, clientVars, srvVars
  <2> QED BY <1>1, <2>1
<1>12. CASE Server /\ ~ServerSends /\ ~ServerEnables
  <2>1. UNCHANGED <<queueObj, routed>>
    BY <1>12 DEF Server, ServerStanza, ServerAnswers, ServerAcked, ServerResumes,
                 ServerRefusesResume, ServerMismatch, ServerRefusesEnable, ServerRequests,
                 ServerForgets, Serve, clientVars
  <2>2. srv'.sid = srv.sid /\ srv'.sent = srv.sent
    BY <1>0, <1>12 DEF Typed, Server, ServerStanza, ServerAnswers, ServerAcked, ServerResumes,
                 ServerRefusesResume, ServerMismatch, ServerRefusesEnable, ServerRequests,
                 ServerForgets, srvVars
  <2> QED BY <1>1, <2>1, <2>2
<1> QED
  BY <1>4, <1>5, <1>6, <1>7, <1>8, <1>9, <1>10, <1>11, <1>12 DEF Next, Connecting

(* What recv hands to the router is what the server sent in the session,   *)
(* in order and each stanza once, resumptions included: every step of the  *)
(* client and the server is a step of InOrderDelivery or none.             *)
THEOREM DeliveryRefined == Spec => DeliverySpec
<1>1. SessionInv /\ [Next]_vars => [Delivery!Next]_<<queueObj, SentInSession, routed>>
  BY StepDelivers
<1>2. Spec => Delivery!Init /\ [][Delivery!Next]_<<queueObj, SentInSession, routed>>
  BY <1>1, InitDelivers, SessionInvariance, PTL DEF Spec
<1> QED BY <1>2 DEF DeliverySpec, Delivery!Spec, SentInSession

=============================================================================
