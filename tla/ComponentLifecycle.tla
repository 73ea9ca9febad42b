------------------------- MODULE ComponentLifecycle -------------------------
(***************************************************************************)
(* A component over its connections: Connect and Resume with the handshake,*)
(* the receiver, the events and what their handler does (component.go,     *)
(* stream_manager.go).  Resume makes a new transport each time and reads   *)
(* the field transport anew at each of its steps, as the receivers do.     *)
(* Handlers run in the goroutine that raises the event, so a goroutine     *)
(* carries a stack of what it returns to.                                  *)
(***************************************************************************)
EXTENDS Addresses

CONSTANTS
  MaxDials,     \* bound on the transports
  MaxStanzas,   \* bound on the stanzas the server sends
  MaxCalls      \* bound on the calls of Connect and Disconnect

ASSUME DialsAssumption == MaxDials \in Nat

Handlers == {"none", "own", "manager"}
App == 0
Goroutines == 0 .. MaxDials      \* the application, and a receiver per handshake

VARIABLES
  address,      \* the configured address
  handler,      \* whose EventHandler is set
  metrics,      \* whether StreamManager.Metrics is set
  run,          \* StreamManager.Run: idle, or returned with its error
  transports,   \* for each transport made: open, closed or gone (peer left)
  current,      \* the field Component.transport
  state,        \* CurrentState
  threads,      \* for each goroutine: at, tr (the transport it reads), stack
  calls,        \* calls of the application
  sent,         \* stanzas of the server
  history       \* what properties compare with

vars == <<address, handler, metrics, run, transports, current, state, threads,
          calls, sent, history>>

To(kind) == [kind |-> kind]

Idle == [at |-> "idle", tr |-> 0, stack |-> <<>>]

TypeOK ==
  /\ handler \in Handlers /\ metrics \in BOOLEAN /\ run \in {"idle", "returned"}
  /\ Len(transports) <= MaxDials
  /\ \A n \in DOMAIN transports : transports[n] \in {"failed", "open", "closed", "gone"}
  /\ current \in 0 .. Len(transports)
  /\ state \in {"disconnected", "established", "streamError", "permanentError"}
  /\ \A g \in Goroutines :
       threads[g].at \in {"idle", "dial", "handshake", "reply", "read", "reading",
                          "disconnect", "crashed"}

Init ==
  /\ address \in {<<97>>, Ws}
  /\ handler \in {"none", "own"} /\ metrics = FALSE /\ run = "idle"
  /\ transports = <<>> /\ current = 0 /\ state = "disconnected"
  /\ threads = [g \in Goroutines |-> Idle]
  /\ calls = 0 /\ sent = 0
  /\ history = [quiet |-> TRUE, refused |-> FALSE, closed |-> FALSE]

-----------------------------------------------------------------------------
Crashed == \E g \in Goroutines : threads[g].at = "crashed"
At(g, at) == threads[g].at = at /\ ~Crashed
Busy == \E g \in Goroutines : threads[g].at # "idle"

Call(g, frames) ==
  [threads[g] EXCEPT !.at = "dial", !.stack = frames \o threads[g].stack]

(* Faulty variant: recv does not return after an error. *)
ContinueReading(stack) == [at |-> "read", tr |-> 0, stack |-> <<>>]

(* Where a goroutine goes on once the handler of an event has returned.    *)
Continue(stack) ==
  CASE Head(stack).kind = "recvError" -> Idle
    [] Head(stack).kind = "recvStreamError" -> [at |-> "disconnect", tr |-> 0, stack |-> <<>>]

(* Faulty variant: a loop goes on after a permanent error. *)
RetryAlways(frame, result) == frame.kind = "loop" /\ result # "ok"

(* StreamManager.resume tries again after a temporary error.               *)
Retry(frame, result) == frame.kind = "loop" /\ result = "temporary"

(* Resume returns.  A caller that retries waits and dials; a Resume that   *)
(* was called from a handler within Resume itself leaves a temporary error *)
(* to the caller of the outer one.                                         *)
Return(g, result) ==
  LET stack == threads[g].stack
      again(s) == [at |-> "dial", tr |-> 0, stack |-> s]
      outer == Tail(Tail(stack))
  IN IF Head(stack).kind = "app" THEN Idle
     ELSE IF Retry(Head(stack), result) THEN again(stack)
     ELSE IF Head(stack).kind \in {"own", "loop"} /\ Head(Tail(stack)).kind # "inResume"
     THEN Continue(Tail(stack))
     ELSE IF Retry(Head(outer), "temporary") THEN again(outer)
     ELSE IF Head(outer).kind = "app" THEN Idle ELSE Continue(Tail(outer))

Returns(g, result) == threads' = [threads EXCEPT ![g] = Return(g, result)]

(* XMPPTransport.Close of the current transport.                           *)
Disconnect ==
  IF current # 0 /\ transports[current] \in {"open", "gone"}
  THEN transports' = [transports EXCEPT ![current] = "closed"]
  ELSE UNCHANGED transports

-----------------------------------------------------------------------------
(* StreamManager.Run of a component installs the handler; its connect      *)
(* knows clients only, so Run returns an error without dialling.           *)
AppRun ==
  /\ At(App, "idle") /\ run = "idle"
  /\ handler' = "manager" /\ run' = "returned"
  /\ UNCHANGED <<address, metrics, transports, current, state, threads, calls, sent, history>>

(* The application calls Connect when nothing is going on.                 *)
AppConnect ==
  /\ ~Busy /\ calls < MaxCalls
  /\ calls' = calls + 1
  /\ history' = [history EXCEPT !.refused = FALSE]
  /\ threads' = [threads EXCEPT ![App] = Call(App, <<To("app")>>)]
  /\ UNCHANGED <<address, handler, metrics, run, transports, current, state, sent>>

(* The application calls Disconnect.                                       *)
AppDisconnect ==
  /\ At(App, "idle") /\ calls < MaxCalls
  /\ calls' = calls + 1
  /\ Disconnect
  /\ UNCHANGED <<address, handler, metrics, run, current, state, threads, sent, history>>

(* Resume: a new transport, and its connection.                            *)
Dial(g) ==
  /\ At(g, "dial")
  /\ metrics' = (metrics \/ Head(threads[g].stack).kind = "loop")
  /\ \/ /\ ~ComponentTransport(address).ok
        /\ current' = 0 /\ state' = "permanentError"
        /\ Returns(g, "permanent") /\ UNCHANGED transports
     \/ /\ ComponentTransport(address).ok /\ Len(transports) < MaxDials
        /\ current' = Len(transports) + 1
        /\ \/ /\ transports' = Append(transports, "open")
              /\ threads' = [threads EXCEPT ![g].at = "handshake"]
              /\ UNCHANGED state
           \/ /\ transports' = Append(transports, "failed")
              /\ state' = "permanentError"
              /\ Returns(g, "permanent")
  /\ UNCHANGED <<address, handler, run, calls, sent, history>>

HandshakeSent(g) ==
  /\ At(g, "handshake") /\ transports[current] \in {"open", "gone"}
  /\ threads' = [threads EXCEPT ![g].at = "reply", ![g].tr = current]
  /\ UNCHANGED <<address, handler, metrics, run, transports, current, state, calls, sent, history>>

(* The write fails: the event makes the manager disconnect and resume      *)
(* within this Resume.                                                     *)
HandshakeFails(g) ==
  /\ At(g, "handshake")
  /\ state' = "streamError"
  /\ history' = [history EXCEPT !.quiet = FALSE]
  /\ IF handler = "manager"
     THEN /\ Disconnect
          /\ threads' = [threads EXCEPT ![g] = Call(g, <<To("loop"), To("inResume")>>)]
     ELSE Returns(g, "temporary") /\ UNCHANGED transports
  /\ UNCHANGED <<address, handler, metrics, run, current, calls, sent>>

(* The answer to the handshake.  The handler of the manager uses Metrics   *)
(* when the session is established.                                        *)
Accepted(g) ==
  LET r == CHOOSE n \in Goroutines \ {App} : threads[n].at = "idle" IN
  /\ At(g, "reply") /\ transports[threads[g].tr] = "open"
  /\ state' = "established"
  /\ history' = [history EXCEPT !.closed = FALSE]
  /\ IF handler = "manager" /\ ~metrics
     THEN threads' = [threads EXCEPT ![g].at = "crashed"]
     ELSE threads' = [threads EXCEPT ![g] = Return(g, "ok"),
                                     ![r] = [Idle EXCEPT !.at = "read"]]
  /\ UNCHANGED <<address, handler, metrics, run, transports, current, calls, sent>>

(* A stream error: conflict is reported, so that the manager disconnects   *)
(* and does not resume.                                                    *)
Refused(g) ==
  /\ At(g, "reply") /\ transports[threads[g].tr] = "open"
  /\ state' = "streamError"
  /\ history' = [history EXCEPT !.refused = TRUE]
  /\ IF handler = "manager" THEN Disconnect ELSE UNCHANGED transports
  /\ Returns(g, "permanent")
  /\ UNCHANGED <<address, handler, metrics, run, current, calls, sent>>

(* Any other answer, or none.                                              *)
NoHandshake(g) ==
  /\ At(g, "reply")
  /\ state' = "permanentError"
  /\ Returns(g, "permanent")
  /\ UNCHANGED <<address, handler, metrics, run, transports, current, calls, sent, history>>

-----------------------------------------------------------------------------
(* recv takes the decoder of the current transport and waits for a packet. *)
BeginRead(g) ==
  /\ At(g, "read")
  /\ threads' = [threads EXCEPT ![g].at = "reading", ![g].tr = current]
  /\ UNCHANGED <<address, handler, metrics, run, transports, current, state, calls, sent, history>>

Reading(g) == At(g, "reading") /\ transports[threads[g].tr] = "open"

(* A stanza is routed.                                                     *)
RecvStanza(g) ==
  /\ Reading(g) /\ sent < MaxStanzas
  /\ sent' = sent + 1
  /\ threads' = [threads EXCEPT ![g].at = "read"]
  /\ UNCHANGED <<address, handler, metrics, run, transports, current, state, calls, history>>

(* Faulty variant: no event is raised. *)
RecvFailsSilently(g) ==
  /\ At(g, "reading") /\ transports[threads[g].tr] # "open"
  /\ state' = "disconnected"
  /\ threads' = [threads EXCEPT ![g] = Idle]
  /\ UNCHANGED <<address, handler, metrics, run, transports, current, calls, sent, history>>

(* The read fails: the event, whose handler may connect again, and the end *)
(* of this receiver.                                                       *)
RecvFails(g) ==
  /\ At(g, "reading") /\ transports[threads[g].tr] # "open"
  /\ state' = "disconnected"
  /\ threads' = [threads EXCEPT ![g] =
       CASE handler = "none" -> Idle
         [] handler = "own" -> Call(g, <<To("own"), To("recvError")>>)
         [] handler = "manager" -> Call(g, <<To("loop"), To("recvError")>>)]
  /\ UNCHANGED <<address, handler, metrics, run, transports, current, calls, sent, history>>

(* A stream error.  The manager disconnects, and resumes unless it is a    *)
(* conflict; recv goes on afterwards.                                      *)
RecvStreamError(g, conflict) ==
  /\ Reading(g)
  /\ state' = "streamError"
  /\ history' = [history EXCEPT !.quiet = FALSE]
  /\ IF handler = "manager" THEN Disconnect ELSE UNCHANGED transports
  /\ threads' = [threads EXCEPT ![g] =
       IF handler = "manager" /\ ~conflict
       THEN Call(g, <<To("loop"), To("recvStreamError")>>)
       ELSE [threads[g] EXCEPT !.at = "disconnect"]]
  /\ UNCHANGED <<address, handler, metrics, run, current, calls, sent>>

(* After a stream error recv disconnects what is the current transport by  *)
(* now, routes the error a second time and reads on.                       *)
RecvDisconnects(g) ==
  /\ At(g, "disconnect")
  /\ Disconnect
  /\ threads' = [threads EXCEPT ![g].at = "read"]
  /\ UNCHANGED <<address, handler, metrics, run, current, state, calls, sent, history>>

(* The server closes the stream: recv ends without an event.               *)
RecvClose(g) ==
  /\ Reading(g)
  /\ history' = [history EXCEPT !.closed = TRUE]
  /\ threads' = [threads EXCEPT ![g] = Idle]
  /\ UNCHANGED <<address, handler, metrics, run, transports, current, state, calls, sent>>

(* The server or the network ends a connection.                            *)
PeerLeaves(n) ==
  /\ ~Crashed /\ transports[n] = "open"
  /\ transports' = [transports EXCEPT ![n] = "gone"]
  /\ UNCHANGED <<address, handler, metrics, run, current, state, threads, calls, sent, history>>

Step(g) ==
  \/ Dial(g) \/ HandshakeSent(g) \/ HandshakeFails(g)
  \/ Accepted(g) \/ Refused(g) \/ NoHandshake(g)
  \/ BeginRead(g) \/ RecvFails(g) \/ RecvDisconnects(g)

Next ==
  \/ AppRun \/ AppConnect \/ AppDisconnect
  \/ \E g \in Goroutines :
       \/ Step(g) \/ RecvStanza(g) \/ RecvClose(g)
       \/ \E conflict \in BOOLEAN : RecvStreamError(g, conflict)
  \/ \E n \in DOMAIN transports : PeerLeaves(n)

Spec == Init /\ [][Next]_vars

(* Goroutines run; nothing makes the server send, or the application call. *)
FairSpec == Spec /\ \A g \in Goroutines : WF_vars(Step(g))

-----------------------------------------------------------------------------
Receivers == {g \in Goroutines : threads[g].at \in {"read", "reading"}}
Connecting == {g \in Goroutines : threads[g].at \in {"dial", "handshake", "reply"}}

(* Until a stream error is read or a handshake cannot be written, one      *)
(* goroutine at a time connects or receives (Resume, recv).                *)
OneAtATime ==
  history.quiet => Cardinality(Receivers \cup Connecting) <= 1

(* While the state is established a receiver waits on the connection that  *)
(* Send uses, unless the server closed the stream (Resume, recv).          *)
EstablishedIsRead ==
  history.quiet /\ state = "established" /\ ~history.closed /\ ~Crashed =>
    \E g \in Receivers : threads[g].at = "read" \/ threads[g].tr = current

(* One goroutine at a time uses the connection, and while the application  *)
(* is told that there is one it is read (Resume, recv).                    *)
OneReader == TypeOK /\ OneAtATime /\ EstablishedIsRead

(* A component whose handshake the server refused does not try again by    *)
(* itself, whoever handles the events (Resume, "no auth loop").            *)
NoAuthLoop ==
  [][history.refused /\ history.quiet => Len(transports') = Len(transports)]_vars

(* A session that is lost is followed by another attempt, when the events  *)
(* have a handler that connects, the bound on transports allows one and    *)
(* no stream error interferes (recv, StreamManager.resume).                *)
LossIsAnswered ==
  \A n \in 1 .. MaxDials - 1 :
    (/\ state = "established" /\ current = n /\ transports[n] = "gone"
     /\ handler = "own" /\ run = "idle" /\ ~history.closed /\ history.quiet)
    ~> (current # n \/ history.closed \/ ~history.quiet \/ Crashed)

(* Run launches the connection of the component it was given               *)
(* (StreamManager.Run).                                                    *)
RunConnects == run = "returned" => transports # <<>>

=============================================================================
