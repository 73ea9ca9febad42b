-------------------------- MODULE StreamManagement --------------------------
(***************************************************************************)
(* XEP-0198 stream management as the client does it: Session.resume and    *)
(* Session.EnableStreamManagement while a connection is negotiated, Send / *)
(* SendRaw storing stanzas in the UnAckQueue from any number of            *)
(* goroutines, recv counting what arrives and answering acknowledgement    *)
(* requests, SendMissingStz on every answer, and the connection that can   *)
(* be lost between any two of these steps.                                 *)
(*                                                                         *)
(* The server is not in the repository.  It is modelled from how src/ uses *)
(* it: it counts the stanzas of a session it handles, answers <r/> with    *)
(* that count, and after <resumed/> sends again what the client's count    *)
(* does not cover.  TLS, SASL and binding are one step here.  One          *)
(* goroutine at a time connects.                                           *)
(***************************************************************************)
EXTENDS UnAckQueue

CONSTANTS
  Senders,      \* goroutines of the application that call Send or SendRaw
  MaxSends,     \* stanzas the application sends
  MaxInbound,   \* stanzas the server sends in one session
  MaxRequests,  \* acknowledgement requests by the application or the server
  MaxDials      \* connections opened

ASSUME BoundsAssumption ==
  /\ MaxSends \in Nat
  /\ MaxInbound \in Nat
  /\ MaxRequests \in Nat
  /\ MaxDials \in Nat

VARIABLES
  phase,      \* where Connect or Resume, then recv, is
  canResume,  \* config.StreamManagementResume
  resumed,    \* Session.Resumed
  smId,       \* Session.SMState.Id, 0 for ""
  inbound,    \* Session.SMState.Inbound
  queueObj,   \* which UnAckQueue SMState points to, 0 for nil
  uaq,        \* its Uslice
  sender,     \* local state of each Send in progress
  pending,    \* what SendMissingStz has still to write
  resending,  \* recv is inside SendMissingStz
  connUp,     \* the TCP connection works
  toServer,   \* bytes written, not yet read by the server
  toClient,   \* bytes written by the server, not yet read by recv
  srv,        \* the server's stream management session
  handled,    \* stanzas the server has handled, over all sessions
  fate,       \* for each stanza of the application, what became of it
  routed,     \* serials recv handed to the router in this session
  count       \* bounded counters: sends, requests, dials, enables

clientVars == <<phase, canResume, resumed, smId, inbound, queueObj, uaq, routed>>
sendVars   == <<sender, fate>>
resendVars == <<pending, resending>>
netVars    == <<connUp, toServer, toClient>>
srvVars    == <<srv, handled>>
vars == <<clientVars, sendVars, resendVars, netVars, srvVars, count>>

-----------------------------------------------------------------------------
(* Messages: t is the element, n a stanza or a session, h a counter.       *)

Types == {"stz", "r", "a", "resume", "resumed", "enable", "enabled", "failed"}
Msg   == [t : Types, n : Nat, h : Nat]

Stz(n)        == [t |-> "stz", n |-> n, h |-> 0]
SMRequest     == [t |-> "r", n |-> 0, h |-> 0]
SMAnswer(h)   == [t |-> "a", n |-> 0, h |-> h]
SMResume(n,h) == [t |-> "resume", n |-> n, h |-> h]
SMResumed(n,h) == [t |-> "resumed", n |-> n, h |-> h]
SMEnable(n)   == [t |-> "enable", n |-> n, h |-> 0]
SMEnabled(n, res) == [t |-> "enabled", n |-> n, h |-> IF res THEN 1 ELSE 0]
SMFailed      == [t |-> "failed", n |-> 0, h |-> 0]

InitialPresence == Stz(0)

NoCall == [pc |-> "idle", idx |-> 0, seen |-> <<>>, obj |-> 0, stz |-> 0]

(* transport.Write: what is written to a broken connection is lost.        *)
Write(m) == toServer' = IF connUp THEN Append(toServer, m) ELSE toServer

Phases == {"idle", "auth", "resuming", "enabling", "setup", "running", "dead"}

Call  == [pc : {"idle", "append", "push", "write"}, idx : Nat, seen : Seq(Entry),
          obj : Nat, stz : Nat]
Fates == {"new", "queued", "acked", "abandoned"}

ClientTypeOK ==
  /\ phase \in Phases
  /\ canResume \in BOOLEAN
  /\ resumed \in BOOLEAN
  /\ smId \in Nat
  /\ inbound \in Nat
  /\ queueObj \in Nat
  /\ uaq \in Seq(Entry)
  /\ routed \in Seq(Nat)

SendTypeOK ==
  /\ sender \in [Senders -> Call]
  /\ fate \in [1 .. MaxSends -> Fates]
  /\ pending \in Seq(Nat)
  /\ resending \in BOOLEAN

NetTypeOK ==
  /\ connUp \in BOOLEAN
  /\ toServer \in Seq(Msg)
  /\ toClient \in Seq(Msg)

ServerTypeOK ==
  /\ srv \in [sid : Nat, live : BOOLEAN, active : BOOLEAN, h : Nat, sent : Nat, acked : Nat]
  /\ handled \in SUBSET Nat

CountTypeOK ==
  count \in [sends : 0 .. MaxSends, requests : 0 .. MaxRequests,
             dials : 0 .. MaxDials, enables : Nat]

TypeOK == ClientTypeOK /\ SendTypeOK /\ NetTypeOK /\ ServerTypeOK /\ CountTypeOK

Init ==
  /\ phase = "idle"
  /\ canResume \in BOOLEAN
  /\ resumed = FALSE
  /\ smId = 0 /\ inbound = 0 /\ queueObj = 0 /\ uaq = NewUnAckQueue
  /\ sender = [s \in Senders |-> NoCall]
  /\ pending = <<>> /\ resending = FALSE
  /\ connUp = FALSE /\ toServer = <<>> /\ toClient = <<>>
  /\ srv = [sid |-> 0, live |-> FALSE, active |-> FALSE,
            h |-> 0, sent |-> 0, acked |-> 0]
  /\ handled = {}
  /\ fate = [n \in 1 .. MaxSends |-> "new"]
  /\ routed = <<>>
  /\ count = [sends |-> 0, requests |-> 0, dials |-> 0, enables |-> 0]

-----------------------------------------------------------------------------
(* Connect and Resume: connect, NewSession, postSessionSetup, startRuntime *)

Abandon(f) == [n \in DOMAIN f |-> IF f[n] = "queued" THEN "abandoned" ELSE f[n]]

(* s.SMState = SMState{}                                                   *)
ClearSMState ==
  /\ smId' = 0 /\ inbound' = 0 /\ queueObj' = 0 /\ uaq' = NewUnAckQueue
  /\ fate' = Abandon(fate) /\ routed' = <<>>

KeepSMState == UNCHANGED <<smId, inbound, queueObj, uaq, fate, routed>>

CloseConnection ==
  /\ connUp' = FALSE /\ toServer' = <<>> /\ toClient' = <<>>
  /\ srv' = [srv EXCEPT !.active = FALSE]

(* transport.Connect, the stream header, TLS and SASL.                     *)
Dial ==
  /\ phase = "idle" /\ count.dials < MaxDials
  /\ phase' = "auth"
  /\ resumed' = FALSE
  /\ connUp' = TRUE /\ toServer' = <<>> /\ toClient' = <<>>
  /\ srv' = [srv EXCEPT !.active = FALSE]
  /\ count' = [count EXCEPT !.dials = @ + 1]
  /\ KeepSMState
  /\ UNCHANGED <<canResume, sender, resendVars, handled>>

(* NewSession returns the session with an error: auth or reset failed, or  *)
(* bind or <enable/> could not be written.  c.Session keeps its SMState.   *)
NegotiationFails ==
  /\ phase = "auth"
  /\ phase' = "idle"
  /\ CloseConnection
  /\ KeepSMState
  /\ UNCHANGED <<canResume, resumed, sender, resendVars, handled, count>>

(* NewSession returns nil: no stream features, or no TLS.  connect assigns *)
(* that to c.Session, so what stream management knew is gone.              *)
SessionLost ==
  /\ phase = "auth"
  /\ phase' = "idle"
  /\ CloseConnection
  /\ ClearSMState
  /\ UNCHANGED <<canResume, resumed, sender, resendVars, handled, count>>

(* Session.resume writes <resume/> when a resumable session is known.      *)
BeginResume ==
  /\ phase = "auth" /\ canResume /\ smId # 0
  /\ phase' = "resuming"
  /\ Write(SMResume(smId, inbound))
  /\ KeepSMState
  /\ UNCHANGED <<canResume, resumed, sender, resendVars, connUp, toClient, srvVars, count>>

(* bind, rfc3921Session, and EnableStreamManagement writing <enable/>.     *)
WriteEnable ==
  /\ phase' = "enabling"
  /\ Write(SMEnable(count.enables + 1))
  /\ count' = [count EXCEPT !.enables = @ + 1]

BeginEnable ==
  /\ phase = "auth" /\ ~(canResume /\ smId # 0)
  /\ WriteEnable
  /\ KeepSMState
  /\ UNCHANGED <<canResume, resumed, sender, resendVars, connUp, toClient,
                 srvVars>>

(* <resumed/> for this session: the entries the server's count covers are  *)
(* dropped.  The others stay queued; nothing is sent here.                 *)
AckedBy(h) == {uaq[i].stz : i \in {j \in 1 .. Len(uaq) : uaq[j].id <= h}}

Acknowledge(h) ==
  /\ uaq' = TrimAcked(uaq, h)
  /\ fate' = [n \in DOMAIN fate |-> IF n \in AckedBy(h) THEN "acked" ELSE fate[n]]

(* Faulty variant: takes the <resumed/> of any session. *)
ReadResumedAnyId ==
  /\ phase = "resuming" /\ toClient # <<>> /\ Head(toClient).t = "resumed"
  /\ Acknowledge(Head(toClient).h)
  /\ resumed' = TRUE
  /\ phase' = "setup"
  /\ toClient' = Tail(toClient)
  /\ UNCHANGED <<canResume, smId, inbound, queueObj, routed, sender, resendVars,
                 connUp, toServer, srvVars, count>>

ReadResumed ==
  /\ phase = "resuming" /\ toClient # <<>>
  /\ Head(toClient).t = "resumed" /\ Head(toClient).n = smId
  /\ Acknowledge(Head(toClient).h)
  /\ resumed' = TRUE
  /\ phase' = "setup"
  /\ toClient' = Tail(toClient)
  /\ UNCHANGED <<canResume, smId, inbound, queueObj, sender, resendVars, connUp,
                 toServer, srvVars, routed, count>>

(* <failed/>: the SMState is cleared and the session is bound anew.        *)
ReadResumeFailed ==
  /\ phase = "resuming" /\ toClient # <<>> /\ Head(toClient) = SMFailed
  /\ ClearSMState
  /\ WriteEnable
  /\ toClient' = Tail(toClient)
  /\ UNCHANGED <<canResume, resumed, sender, resendVars, connUp, srvVars>>

(* Anything else, another session's id and a read error included, is an    *)
(* error that clears the SMState too.                                      *)
ResumeError ==
  /\ phase = "resuming"
  /\ \/ ~connUp
     \/ /\ toClient # <<>>
        /\ Head(toClient) # SMFailed
        /\ ~(Head(toClient).t = "resumed" /\ Head(toClient).n = smId)
  /\ phase' = "idle"
  /\ CloseConnection
  /\ ClearSMState
  /\ UNCHANGED <<canResume, resumed, sender, resendVars, handled, count>>

(* Faulty variant: the counter survives the session. *)
NewSMStateInboundKept(id) ==
  /\ smId' = id /\ inbound' = inbound /\ queueObj' = count.enables
  /\ uaq' = NewUnAckQueue /\ fate' = Abandon(fate) /\ routed' = <<>>

(* A new SMState with the queue EnableStreamManagement made.               *)
NewSMState(id) ==
  /\ smId' = id /\ inbound' = 0 /\ queueObj' = count.enables
  /\ uaq' = NewUnAckQueue /\ fate' = Abandon(fate) /\ routed' = <<>>

(* <enabled/>: the server says whether the session can be resumed.         *)
ReadEnabled ==
  /\ phase = "enabling" /\ toClient # <<>> /\ Head(toClient).t = "enabled"
  /\ canResume' = (Head(toClient).h = 1)
  /\ NewSMState(Head(toClient).n)
  /\ phase' = "setup"
  /\ toClient' = Tail(toClient)
  /\ UNCHANGED <<resumed, sender, resendVars, connUp, toServer, srvVars, count>>

(* <failed/> to <enable/>: the new queue is kept, the connection is not.   *)
ReadEnableFailed ==
  /\ phase = "enabling" /\ toClient # <<>> /\ Head(toClient) = SMFailed
  /\ NewSMState(0)
  /\ phase' = "idle"
  /\ CloseConnection
  /\ UNCHANGED <<canResume, resumed, sender, resendVars, handled, count>>

EnableError ==
  /\ phase = "enabling"
  /\ \/ ~connUp
     \/ toClient # <<>> /\ Head(toClient).t # "enabled" /\ Head(toClient) # SMFailed
  /\ phase' = "idle"
  /\ CloseConnection
  /\ KeepSMState
  /\ UNCHANGED <<canResume, resumed, sender, resendVars, handled, count>>

(* postSessionSetup and startRuntime.  A new session announces itself with *)
(* a presence that is written past the queue.                              *)
PostSessionSetup ==
  /\ phase = "setup"
  /\ IF resumed THEN UNCHANGED toServer ELSE Write(InitialPresence)
  /\ phase' = "running"
  /\ KeepSMState
  /\ UNCHANGED <<canResume, resumed, sender, resendVars, connUp, toClient, srvVars, count>>

(* The presence cannot be written or the application's hook fails: Connect *)
(* or Resume returns before startRuntime and leaves the connection as it is. *)
SetupFails ==
  /\ phase = "setup"
  /\ IF resumed THEN UNCHANGED toServer ELSE Write(InitialPresence)
  /\ phase' = "idle"
  /\ KeepSMState
  /\ UNCHANGED <<canResume, resumed, sender, resendVars, connUp, toClient, srvVars, count>>

-----------------------------------------------------------------------------
(* recv.  A broken connection may still have bytes to read, so each read   *)
(* happens as long as toClient is not empty.                               *)

Reading(t) ==
  /\ phase = "running" /\ ~resending
  /\ toClient # <<>> /\ Head(toClient).t = t
  /\ toClient' = Tail(toClient)

(* Faulty variant: a stanza is not counted. *)
RecvStanzaUncounted ==
  /\ Reading("stz")
  /\ routed' = Append(routed, Head(toClient).n)
  /\ UNCHANGED <<phase, canResume, resumed, smId, inbound, queueObj, uaq, sendVars,
                 resendVars, connUp, toServer, srvVars, count>>

RecvStanza ==
  /\ Reading("stz")
  /\ inbound' = inbound + 1
  /\ routed' = Append(routed, Head(toClient).n)
  /\ UNCHANGED <<phase, canResume, resumed, smId, queueObj, uaq, sendVars, resendVars,
                 connUp, toServer, srvVars, count>>

RecvRequest ==
  /\ Reading("r")
  /\ Write(SMAnswer(inbound))
  /\ UNCHANGED <<clientVars, sendVars, resendVars, connUp, srvVars, count>>

(* The answer cannot be written: recv returns and tells nobody, so nothing *)
(* reconnects.                                                             *)
RecvRequestFails ==
  /\ ~connUp
  /\ Reading("r")
  /\ phase' = "dead"
  /\ UNCHANGED <<canResume, resumed, smId, inbound, queueObj, uaq, sendVars, resendVars,
                 connUp, toServer, srvVars, routed, count>>

(* SendMissingStz under the lock: drop what is acknowledged, copy the rest. *)
RecvAnswer ==
  /\ Reading("a")
  /\ LET h == Head(toClient).h
         left == TrimAcked(uaq, h)
     IN /\ Acknowledge(h)
        /\ pending' = [i \in 1 .. Len(left) |-> left[i].stz]
        /\ resending' = (left # <<>>)
  /\ UNCHANGED <<phase, canResume, resumed, smId, inbound, queueObj, sender,
                 connUp, toServer, srvVars, routed, count>>

(* SendMissingStz after the lock: one write per copy, then a new request.  *)
ResendOne ==
  /\ resending /\ pending # <<>>
  /\ Write(Stz(Head(pending)))
  /\ pending' = Tail(pending)
  /\ UNCHANGED <<clientVars, sendVars, resending, connUp, toClient, srvVars, count>>

(* Faulty variant: no new request follows the copies. *)
ResendDoneSilently ==
  /\ resending /\ pending = <<>>
  /\ resending' = FALSE
  /\ UNCHANGED <<clientVars, sendVars, pending, netVars, srvVars, count>>

ResendDone ==
  /\ resending /\ pending = <<>>
  /\ Write(SMRequest)
  /\ resending' = FALSE
  /\ UNCHANGED <<clientVars, sendVars, pending, connUp, toClient, srvVars, count>>

(* A write error ends SendMissingStz; recv goes on to read.                *)
ResendFails ==
  /\ resending /\ ~connUp
  /\ pending' = <<>> /\ resending' = FALSE
  /\ UNCHANGED <<clientVars, sendVars, netVars, srvVars, count>>

(* NextPacket fails: disconnected, whose handler calls Resume.             *)
RecvError ==
  /\ phase = "running" /\ ~resending /\ ~connUp
  /\ phase' = "idle"
  /\ KeepSMState
  /\ UNCHANGED <<canResume, resumed, sender, resendVars, netVars, srvVars, count>>

-----------------------------------------------------------------------------
(* Send and SendRaw.  Push takes no lock: it reads Uslice for the id, reads *)
(* it again for append, then assigns it.  With no queue the call returns   *)
(* an error and nothing changes.                                           *)

SendStart(s) ==
  /\ sender[s].pc = "idle" /\ queueObj # 0 /\ count.sends < MaxSends
  /\ sender' = [sender EXCEPT ![s] = [pc |-> "append", idx |-> PushIdx(uaq), seen |-> <<>>,
                                      obj |-> queueObj, stz |-> count.sends + 1]]
  /\ count' = [count EXCEPT !.sends = @ + 1]
  /\ UNCHANGED <<clientVars, fate, resendVars, netVars, srvVars>>

(* What a replaced queue holds is not kept here, and nothing reads it.     *)
SendAppend(s) ==
  /\ sender[s].pc = "append"
  /\ sender' = [sender EXCEPT ![s].pc = "push",
                   ![s].seen = IF sender[s].obj = queueObj THEN uaq ELSE <<>>]
  /\ UNCHANGED <<clientVars, fate, resendVars, netVars, srvVars, count>>

(* The queue may have been replaced since: then the entry goes to the old  *)
(* one, which nothing reads again.                                         *)
SendPush(s) ==
  /\ sender[s].pc = "push"
  /\ IF sender[s].obj = queueObj
       THEN /\ uaq' = Push(sender[s].seen, sender[s].idx, sender[s].stz)
            /\ fate' = [fate EXCEPT ![sender[s].stz] = "queued"]
       ELSE /\ fate' = [fate EXCEPT ![sender[s].stz] = "abandoned"]
            /\ UNCHANGED uaq
  /\ sender' = [sender EXCEPT ![s].pc = "write", ![s].seen = <<>>]
  /\ UNCHANGED <<phase, canResume, resumed, smId, inbound, queueObj,
                 resendVars, netVars, srvVars, routed, count>>

SendWrite(s) ==
  /\ sender[s].pc = "write"
  /\ Write(Stz(sender[s].stz))
  /\ sender' = [sender EXCEPT ![s] = NoCall]
  /\ UNCHANGED <<clientVars, fate, resendVars, connUp, toClient, srvVars, count>>

(* Send(SMRequest{}) is not queued.                                        *)
SendRequest ==
  /\ phase = "running" /\ count.requests < MaxRequests
  /\ Write(SMRequest)
  /\ count' = [count EXCEPT !.requests = @ + 1]
  /\ UNCHANGED <<clientVars, sendVars, resendVars, connUp, toClient, srvVars>>

-----------------------------------------------------------------------------
(* The server and the network (external).                                  *)

Serve(t) ==
  /\ connUp /\ toServer # <<>> /\ Head(toServer).t = t
  /\ toServer' = Tail(toServer)
  /\ UNCHANGED <<clientVars, sendVars, resendVars, connUp, count>>

Reply(ms) == toClient' = toClient \o ms

ServerStanza ==
  /\ Serve("stz") /\ srv.active
  /\ srv' = [srv EXCEPT !.h = @ + 1]
  /\ handled' = handled \cup {Head(toServer).n}
  /\ UNCHANGED toClient

ServerAnswers ==
  /\ Serve("r") /\ srv.active
  /\ Reply(<<SMAnswer(srv.h)>>)
  /\ UNCHANGED srvVars

ServerAcked ==
  /\ Serve("a") /\ srv.active
  /\ srv' = [srv EXCEPT !.acked = Head(toServer).h]
  /\ UNCHANGED <<toClient, handled>>

(* A session the server still has is resumed, and what the client has not  *)
(* counted is sent again.                                                  *)
ServerResumes ==
  /\ Serve("resume") /\ srv.live /\ Head(toServer).n = srv.sid
  /\ srv' = [srv EXCEPT !.active = TRUE, !.acked = Head(toServer).h]
  /\ LET h == Head(toServer).h IN
       Reply(<<SMResumed(srv.sid, srv.h)>>
             \o [i \in 1 .. (IF h < srv.sent THEN srv.sent - h ELSE 0) |-> Stz(h + i)])
  /\ UNCHANGED handled

ServerRefusesResume ==
  /\ Serve("resume")
  /\ Reply(<<SMFailed>>)
  /\ srv' = [srv EXCEPT !.live = FALSE]
  /\ UNCHANGED handled

(* A reply that names another session.                                     *)
ServerMismatch ==
  /\ Serve("resume")
  /\ Reply(<<SMResumed(Head(toServer).n + 1, 0)>>)
  /\ srv' = [srv EXCEPT !.live = FALSE]
  /\ UNCHANGED handled

ServerEnables ==
  /\ Serve("enable")
  /\ \E res \in BOOLEAN :
       /\ srv' = [sid |-> Head(toServer).n, live |-> res, active |-> TRUE,
                  h |-> 0, sent |-> 0, acked |-> 0]
       /\ Reply(<<SMEnabled(IF res THEN Head(toServer).n ELSE 0, res)>>)
  /\ UNCHANGED handled

(* <failed/>, or an element the client does not expect here.               *)
ServerRefusesEnable ==
  /\ Serve("enable")
  /\ \E m \in {SMFailed, SMRequest} : Reply(<<m>>)
  /\ UNCHANGED srvVars

ServerSends ==
  /\ connUp /\ srv.active /\ srv.sent < MaxInbound
  /\ srv' = [srv EXCEPT !.sent = @ + 1]
  /\ Reply(<<Stz(srv.sent + 1)>>)
  /\ UNCHANGED <<clientVars, sendVars, resendVars, connUp, toServer, handled, count>>

ServerRequests ==
  /\ connUp /\ srv.active /\ count.requests < MaxRequests
  /\ Reply(<<SMRequest>>)
  /\ count' = [count EXCEPT !.requests = @ + 1]
  /\ UNCHANGED <<clientVars, sendVars, resendVars, connUp, toServer, srvVars>>

(* The connection is lost, or the server closes it because a stanza came   *)
(* before the session was resumed or enabled.  What the server had already *)
(* written may or may not still be read.                                   *)
ConnectionLost ==
  /\ connUp
  /\ connUp' = FALSE /\ toServer' = <<>>
  /\ toClient' \in {toClient, <<>>}
  /\ srv' = [srv EXCEPT !.active = FALSE]
  /\ UNCHANGED <<clientVars, sendVars, resendVars, handled, count>>

ServerForgets ==
  /\ ~connUp /\ srv.live
  /\ srv' = [srv EXCEPT !.live = FALSE]
  /\ UNCHANGED <<clientVars, sendVars, resendVars, netVars, handled, count>>

-----------------------------------------------------------------------------

Connecting ==
  \/ Dial \/ NegotiationFails \/ SessionLost
  \/ BeginResume \/ BeginEnable
  \/ ReadResumed \/ ReadResumeFailed \/ ResumeError
  \/ ReadEnabled \/ ReadEnableFailed \/ EnableError
  \/ PostSessionSetup \/ SetupFails

Receiving ==
  \/ RecvStanza \/ RecvRequest \/ RecvRequestFails \/ RecvAnswer
  \/ ResendOne \/ ResendDone \/ ResendFails \/ RecvError

Sending ==
  \/ SendRequest
  \/ \E s \in Senders : SendStart(s) \/ SendAppend(s) \/ SendPush(s) \/ SendWrite(s)

Server ==
  \/ ServerStanza \/ ServerAnswers \/ ServerAcked
  \/ ServerResumes \/ ServerRefusesResume \/ ServerMismatch
  \/ ServerEnables \/ ServerRefusesEnable
  \/ ServerSends \/ ServerRequests \/ ServerForgets

Next == Connecting \/ Receiving \/ Sending \/ Server \/ ConnectionLost

Spec == Init /\ [][Next]_vars

(* Goroutines that can run do run, and a server that has something to read *)
(* reads it.  Nothing obliges the application to send or the connection to *)
(* break or to be refused.                                                 *)
Progress ==
  /\ WF_vars(RecvStanza \/ RecvRequest \/ RecvRequestFails \/ RecvAnswer \/ RecvError)
  /\ WF_vars(ResendOne \/ ResendDone \/ ResendFails)
  /\ \A s \in Senders : WF_vars(SendAppend(s) \/ SendPush(s) \/ SendWrite(s))
  /\ WF_vars(ServerStanza \/ ServerAnswers \/ ServerAcked)

FairSpec == Spec /\ Progress

-----------------------------------------------------------------------------
(* Properties.                                                             *)

(* With one sending goroutine neighbours in the queue have consecutive     *)
(* ids, whatever trimming by SendMissingStz and Session.resume comes       *)
(* between the reads of the unlocked Push: the loops that stop at the      *)
(* first id above h depend on it.  (With two, a Push between the reads of  *)
(* another makes ids repeat or go back.)                                   *)
IdsConsecutive == Consecutive(uaq)

(* With one sending goroutine the queue holds stanzas in the order they    *)
(* were sent, without a gap: Push against the trimming under the lock can  *)
(* bring back an acknowledged stanza but never lose or reorder one.        *)
QueueInSendOrder ==
  \A i \in 1 .. Len(uaq) - 1 : uaq[i + 1].stz = uaq[i].stz + 1

(* With one sending goroutine a stanza that Send stored stays in the queue *)
(* until an acknowledgement covers it or its session is given up.  (Run    *)
(* with two senders it is what CHANGELOG.md:8 says, and Push loses one.)   *)
StoredUntilAcked ==
  \A n \in 1 .. MaxSends : fate[n] = "queued" => n \in Stanzas(uaq)

Claims == {i \in 1 .. Len(toServer) : toServer[i].t \in {"a", "resume"}}

(* The counts the client sends, in <a/> and in <resume/>, never decrease   *)
(* and never claim a stanza the server has not sent in that session, over  *)
(* any number of lost connections (recv's Inbound, Session.resume).        *)
ClaimsAreSound ==
  queueObj = srv.sid =>
    /\ srv.acked <= inbound /\ inbound <= srv.sent
    /\ \A i \in Claims : toServer[i].h \in srv.acked .. inbound
    /\ \A i, j \in Claims : i < j => toServer[i].h <= toServer[j].h

(* While recv runs on a working connection, client and server mean the     *)
(* same session: the queue and the counter it uses are those the server    *)
(* created or resumed on this connection.                                  *)
SameSession ==
  phase = "running" /\ connUp =>
    srv.active /\ queueObj = srv.sid /\ smId \in {0, srv.sid}

RequestInFlight ==
  /\ phase = "running" /\ connUp
  /\ \E i \in 1 .. Len(toServer) : toServer[i] = SMRequest

(* Requests are answered and every answer that leaves stanzas pending      *)
(* makes SendMissingStz send them and ask again, so a request empties the  *)
(* queue unless the connection breaks first.                               *)
RequestDrainsQueue == RequestInFlight ~> (Empty(uaq) \/ ~connUp)

Delivery == INSTANCE InOrderDelivery WITH
  session <- queueObj,
  sent    <- IF queueObj = srv.sid THEN srv.sent ELSE MaxInbound,
  got     <- routed

(* What recv hands to the router is what the server sent in the session,   *)
(* in order, each stanza once (InOrderDelivery), resumptions included.     *)
DeliverySpec == Delivery!Spec

OnItsWay(n) ==
  \/ \E i \in 1 .. Len(toServer) : toServer[i] = Stz(n)
  \/ \E i \in 1 .. Len(pending) : pending[i] = n
  \/ \E s \in Senders : sender[s].pc = "write" /\ sender[s].stz = n

(* CHANGELOG.md:9 "sent messages will be discarded, and unsent ones will   *)
(* be sent again": a stanza dropped as acknowledged has reached the server *)
(* or is still on its way to it.                                           *)
DiscardedWereHandled ==
  \A n \in 1 .. MaxSends : fate[n] = "acked" => n \in handled \/ OnItsWay(n)

=============================================================================
