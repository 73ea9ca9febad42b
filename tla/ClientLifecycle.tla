-------------------------- MODULE ClientLifecycle --------------------------
(***************************************************************************)
(* The life of a Client under a StreamManager over an XMPPTransport: Run,  *)
(* Stop and the event handler, Client.connect and Resume, the goroutines   *)
(* recv and keepalive that every established session starts, the one that  *)
(* a failed negotiation leaves behind, and Disconnect.  All of them share  *)
(* one transport, whose connection, decoder and closeChan each Connect     *)
(* replaces; nothing tells a goroutine which connection it was started     *)
(* for.  Connections are numbered in the order they are dialled.           *)
(*                                                                         *)
(* The handler runs in the goroutine that raised the event, so a recv that *)
(* loses its connection reconnects before it returns.  The server and the  *)
(* network are external.                                                   *)
(***************************************************************************)
EXTENDS Integers, Sequences, FiniteSets

CONSTANTS
  MaxDials,   \* connections dialled
  MaxPackets, \* packets the server sends after the session is established
  Failures    \* what may fail while the client connects

ASSUME BoundsAssumption ==
  /\ MaxDials \in Nat \ {0}
  /\ MaxPackets \in Nat
  /\ Failures \subseteq {"dial", "stream", "session", "setup"}

VARIABLES
  at,         \* local state of every goroutine
  conn,       \* transport.conn, 0 for nil
  decoder,    \* the connection transport.decoder reads, 0 for nil
  closeChan,  \* the connection transport.closeChan was made for, 0 for nil
  tokens,     \* the closeChans that hold a value
  closed,     \* connections closed on this side
  peer,       \* for each connection, whether the other side is there
  inbox,      \* for each connection, packets not yet read
  session,    \* Client.Session is not nil
  state,      \* EventManager.CurrentState
  handler,    \* EventManager.Handler is set
  wg,         \* StreamManager.wg
  dials, packets,  \* how many so far
  seen,       \* what happened so far, of Events
  crashed     \* a goroutine panicked

transport == <<conn, decoder, closeChan>>
connVars  == <<transport, tokens, closed, peer, inbox>>
managerVars == <<session, state, handler, wg>>
history   == <<dials, packets, seen, crashed>>
vars == <<at, connVars, managerVars, history>>

-----------------------------------------------------------------------------

Conns == 1 .. MaxDials

Run  == <<"run", 0>>
Stop == <<"stop", 0>>
Recv(k)      == <<"recv", k>>
Keepalive(k) == <<"keepalive", k>>
Drain(k)     == <<"drain", k>>   \* waits for the stream close after a failure

Readers    == {Recv(k) : k \in Conns} \cup {Drain(k) : k \in Conns}
Resumers   == {Run} \cup Readers
Goroutines == {Stop} \cup {Keepalive(k) : k \in Conns} \cup Resumers

PCs == {"none", "loop", "read", "select", "dial", "negotiate", "setup",
        "failTemporary", "failPermanent", "handled", "closeWait", "closeConn",
        "wait", "stopped", "done"}

(* conn: the connection it dialled or reads; chan: the closeChan it waits  *)
(* on; then: where it goes on after Close; event: what its handler is for. *)
Local == [pc : PCs, conn : Nat, chan : Nat, then : PCs, event : {"none", "disconnected", "streamError"}]
Idle  == [pc |-> "none", conn |-> 0, chan |-> 0, then |-> "none", event |-> "none"]

States == {"disconnected", "resuming", "established", "streamError"}
Events == {"conflict", "streamError", "sessionFailed", "attemptFailed", "permanent"}

TypeOK ==
  /\ at \in [Goroutines -> Local]
  /\ conn \in Nat /\ decoder \in Nat /\ closeChan \in Nat
  /\ tokens \in SUBSET Conns /\ closed \in SUBSET Conns
  /\ peer \in [Conns -> {"none", "up", "down"}]
  /\ inbox \in [Conns -> Seq({"stanza", "error", "conflict", "close"})]
  /\ session \in BOOLEAN /\ handler \in BOOLEAN /\ crashed \in BOOLEAN
  /\ state \in States
  /\ wg \in -2 .. 1
  /\ dials \in 0 .. MaxDials /\ packets \in 0 .. MaxPackets
  /\ seen \in SUBSET Events

Init ==
  /\ at = [g \in Goroutines |-> Idle]
  /\ conn = 0 /\ decoder = 0 /\ closeChan = 0
  /\ tokens = {} /\ closed = {}
  /\ peer = [k \in Conns |-> "none"] /\ inbox = [k \in Conns |-> <<>>]
  /\ session = FALSE /\ handler = FALSE /\ state = "disconnected"
  /\ wg = 0 /\ dials = 0 /\ packets = 0
  /\ seen = {} /\ crashed = FALSE

Goto(g, pc) == at' = [at EXCEPT ![g].pc = pc]
Finish(g)   == at' = [at EXCEPT ![g] = [Idle EXCEPT !.pc = "done"]]

(* A panic ends the process, and with it every goroutine.                  *)
Panic == /\ at' = [g \in Goroutines |-> [Idle EXCEPT !.pc = "done"]]
         /\ crashed' = TRUE

(* wg.Done panics when the counter becomes negative.                       *)
WgDone(g) ==
  /\ wg' = wg - 1
  /\ IF wg = 0 THEN Panic ELSE Finish(g) /\ UNCHANGED crashed

(* transport.Close up to its select; then is where the caller goes on.     *)
BeginClose(f, g, then) ==
  [f EXCEPT ![g].pc   = IF closeChan = 0 THEN "closeConn" ELSE "closeWait",
            ![g].chan = closeChan, ![g].then = then]

-----------------------------------------------------------------------------
(* StreamManager.Run and its connect.                                      *)

RunStarts ==
  /\ at[Run].pc = "none"
  /\ handler' = TRUE /\ wg' = wg + 1
  /\ Goto(Run, "dial")
  /\ UNCHANGED <<connVars, session, state, history>>

RunReturns ==
  /\ at[Run].pc = "wait" /\ wg = 0
  /\ Finish(Run)
  /\ UNCHANGED <<connVars, managerVars, history>>

(* Stop removes the handler, closes, and releases Run.                     *)
StopStarts ==
  /\ at[Stop].pc = "none" /\ at[Run].pc # "none"
  /\ handler' = FALSE
  /\ at' = BeginClose(at, Stop, "stopped")
  /\ UNCHANGED <<connVars, session, state, wg, history>>

(* Faulty variant: Run is not released. *)
StopForgetsRun ==
  /\ at[Stop].pc = "stopped"
  /\ Finish(Stop)
  /\ UNCHANGED <<connVars, managerVars, history>>

StopReleasesRun ==
  /\ at[Stop].pc = "stopped"
  /\ WgDone(Stop)
  /\ UNCHANGED <<connVars, session, state, handler, dials, packets, seen>>

-----------------------------------------------------------------------------
(* Client.connect, called by Run and by the loop of StreamManager.resume.  *)

(* transport.Connect replaces connection, decoder and closeChan.           *)
DialSucceeds(g) ==
  /\ at[g].pc = "dial" /\ dials < MaxDials
  /\ LET k == dials + 1 IN
       /\ dials' = k
       /\ conn' = k /\ decoder' = k /\ closeChan' = k
       /\ peer' = [peer EXCEPT ![k] = "up"]
       /\ at' = [at EXCEPT ![g].pc = "negotiate", ![g].conn = k]
  /\ state' = IF g = Run THEN state ELSE "resuming"
  /\ UNCHANGED <<tokens, closed, inbox, session, handler, wg, packets, seen, crashed>>

(* A dial that fails assigns nil to conn alone, and is permanent.          *)
DialFails(g) ==
  /\ at[g].pc = "dial" /\ "dial" \in Failures
  /\ conn' = 0
  /\ state' = IF g = Run THEN state ELSE "resuming"
  /\ seen' = seen \cup {"attemptFailed"}
  /\ Goto(g, "failPermanent")
  /\ UNCHANGED <<decoder, closeChan, tokens, closed, peer, inbox, session, handler, wg, dials, packets, crashed>>

Broken(k) == k \in closed \/ peer[k] # "up"

(* Faulty variant: the session is not kept. *)
NegotiationKeepsSession(g) ==
  /\ at[g].pc = "negotiate" /\ ~Broken(decoder)
  /\ state' = "established"
  /\ Goto(g, "setup")
  /\ UNCHANGED <<connVars, session, handler, wg, history>>

NegotiationSucceeds(g) ==
  /\ at[g].pc = "negotiate" /\ ~Broken(decoder)
  /\ session' = TRUE
  /\ state' = "established"
  /\ Goto(g, "setup")
  /\ UNCHANGED <<connVars, handler, wg, history>>

Failure(permanent) == IF permanent THEN "failPermanent" ELSE "failTemporary"

(* StartStream fails: it closes, and the error is permanent when writing   *)
(* failed.                                                                 *)
StreamFails(g) ==
  /\ at[g].pc = "negotiate" /\ "stream" \in Failures
  /\ \E permanent \in BOOLEAN : at' = BeginClose(at, g, Failure(permanent))
  /\ seen' = seen \cup {"attemptFailed"}
  /\ UNCHANGED <<connVars, managerVars, dials, packets, crashed>>

(* NewSession fails.  A goroutine is left to wait for the stream close,    *)
(* and the client disconnects.  With a nil session the error is permanent. *)
SessionFails(g) ==
  /\ at[g].pc = "negotiate" /\ "session" \in Failures
  /\ \E permanent \in BOOLEAN :
       /\ at' = BeginClose([at EXCEPT ![Drain(at[g].conn)].pc = "loop"], g, Failure(permanent))
       /\ session' \in IF permanent THEN BOOLEAN ELSE {TRUE}
  /\ seen' = seen \cup {"attemptFailed", "sessionFailed"}
  /\ UNCHANGED <<connVars, state, handler, wg, dials, packets, crashed>>

(* postSessionSetup and startRuntime; then Run waits, or PostConnect is    *)
(* called and the handler returns.                                         *)
SetupSucceeds(g) ==
  /\ at[g].pc = "setup"
  /\ LET k == at[g].conn IN
       at' = [at EXCEPT ![Recv(k)].pc = "loop", ![Keepalive(k)].pc = "select",
                        ![g].pc = IF g = Run THEN "wait" ELSE "handled"]
  /\ UNCHANGED <<connVars, managerVars, history>>

(* The presence cannot be written, or a hook fails: not a ConnError.       *)
SetupFails(g) ==
  /\ at[g].pc = "setup" /\ "setup" \in Failures
  /\ seen' = seen \cup {"attemptFailed"}
  /\ Goto(g, "failTemporary")
  /\ UNCHANGED <<connVars, managerVars, dials, packets, crashed>>

(* Faulty variant: resume tries again after any error. *)
AttemptFailsRetries(g) ==
  /\ at[g].pc \in {"failTemporary", "failPermanent"}
  /\ seen' = IF at[g].pc = "failPermanent" THEN seen \cup {"permanent"} ELSE seen
  /\ IF g = Run THEN WgDone(Run) ELSE Goto(g, "dial") /\ UNCHANGED <<wg, crashed>>
  /\ UNCHANGED <<connVars, session, state, handler, dials, packets>>

(* The error returns to Run, which gives up, or to resume, which stops     *)
(* only when it is permanent and else tries again after the backoff.       *)
AttemptFails(g) ==
  /\ at[g].pc \in {"failTemporary", "failPermanent"}
  /\ seen' = IF at[g].pc = "failPermanent" THEN seen \cup {"permanent"} ELSE seen
  /\ IF g = Run
       THEN WgDone(Run)
       ELSE /\ Goto(g, IF at[g].pc = "failPermanent" THEN "handled" ELSE "dial")
            /\ UNCHANGED <<wg, crashed>>
  /\ UNCHANGED <<connVars, session, state, handler, dials, packets>>

-----------------------------------------------------------------------------
(* XMPPTransport.Close: wait for the value of the closeChan that was       *)
(* current, or for the timeout, then close what is the connection by then. *)

(* Faulty variant: no timeout. *)
CloseWaitsForPeer(g) ==
  /\ at[g].pc = "closeWait" /\ at[g].chan \in tokens
  /\ tokens' = tokens \ {at[g].chan}
  /\ Goto(g, "closeConn")
  /\ UNCHANGED <<transport, closed, peer, inbox, managerVars, history>>

CloseWaits(g) ==
  /\ at[g].pc = "closeWait"
  /\ \/ at[g].chan \in tokens /\ tokens' = tokens \ {at[g].chan}
     \/ UNCHANGED tokens
  /\ Goto(g, "closeConn")
  /\ UNCHANGED <<transport, closed, peer, inbox, managerVars, history>>

(* Faulty variant: conn is not compared with nil. *)
ClosesAnyConn(g) ==
  /\ at[g].pc = "closeConn"
  /\ closed' = closed \cup {conn}
  /\ at' = [at EXCEPT ![g].pc = at[g].then, ![g].then = "none", ![g].chan = 0]
  /\ UNCHANGED <<transport, tokens, peer, inbox, managerVars, history>>

ClosesConn(g) ==
  /\ at[g].pc = "closeConn"
  /\ closed' = IF conn = 0 THEN closed ELSE closed \cup {conn}
  /\ at' = [at EXCEPT ![g].pc = at[g].then, ![g].then = "none", ![g].chan = 0]
  /\ UNCHANGED <<transport, tokens, peer, inbox, managerVars, history>>

-----------------------------------------------------------------------------
(* Client.recv, and the goroutine of a failed connect.                     *)

(* Each turn of the loop asks the transport for its decoder.               *)
NextPacket(g) ==
  /\ at[g].pc = "loop"
  /\ at' = [at EXCEPT ![g].pc = "read", ![g].conn = decoder]
  /\ UNCHANGED <<connVars, managerVars, history>>

(* disconnected: the handler of the StreamManager resumes, then the        *)
(* goroutine ends.  recv reads c.Session.SMState first.                    *)
Disconnected(g) ==
  IF g[1] = "recv" /\ ~session
    THEN Panic /\ UNCHANGED state
    ELSE /\ state' = "disconnected"
         /\ at' = [at EXCEPT ![g].pc = IF handler THEN "dial" ELSE "handled",
                             ![g].event = "disconnected"]
         /\ UNCHANGED crashed

ReadFails(g) ==
  LET k == at[g].conn IN
  /\ at[g].pc = "read"
  /\ k \in closed \/ (peer[k] = "down" /\ inbox[k] = <<>>)
  /\ Disconnected(g)
  /\ UNCHANGED <<connVars, session, handler, wg, dials, packets, seen>>

Reads(g, types) ==
  LET k == at[g].conn IN
  /\ at[g].pc = "read"
  /\ inbox[k] # <<>> /\ Head(inbox[k]) \in types
  /\ inbox' = [inbox EXCEPT ![k] = Tail(@)]

(* recv counts the stanza in c.Session and routes it; the other goroutine  *)
(* ignores what is no close.                                               *)
ReadsStanza(g) ==
  /\ Reads(g, IF g[1] = "recv" THEN {"stanza"} ELSE {"stanza", "error", "conflict"})
  /\ IF g[1] = "recv" /\ ~session THEN Panic ELSE Goto(g, "loop") /\ UNCHANGED crashed
  /\ UNCHANGED <<transport, tokens, closed, peer, managerVars, dials, packets, seen>>

(* streamError: the handler disconnects, and resumes unless the error is   *)
(* a conflict.                                                             *)
ReadsStreamError(k) ==
  /\ \E e \in {"error", "conflict"} :
       /\ Reads(Recv(k), {e})
       /\ seen' = seen \cup {IF e = "conflict" THEN "conflict" ELSE "streamError"}
       /\ LET g    == Recv(k)
              here == [at EXCEPT ![g].event = "streamError"]
          IN at' = IF handler THEN BeginClose(here, g, IF e = "conflict" THEN "handled" ELSE "dial")
                              ELSE [here EXCEPT ![g].pc = "handled"]
  /\ state' = "streamError"
  /\ UNCHANGED <<transport, tokens, closed, peer, session, handler, wg, dials, packets, crashed>>

(* </stream:stream>: a value for whoever waits in Close.                   *)
ReadsClose(g) ==
  /\ Reads(g, {"close"})
  /\ tokens' = IF closeChan = 0 THEN tokens ELSE tokens \cup {closeChan}
  /\ IF g[1] = "recv" THEN Disconnected(g)
                      ELSE Finish(g) /\ UNCHANGED <<state, crashed>>
  /\ UNCHANGED <<transport, closed, peer, session, handler, wg, dials, packets, seen>>

(* Faulty variant: recv reads on after it was disconnected. *)
HandledReadsOn(g) ==
  /\ at[g].pc = "handled"
  /\ at' = IF at[g].event = "streamError" THEN BeginClose(at, g, "loop")
                                          ELSE [at EXCEPT ![g].pc = "loop"]
  /\ UNCHANGED <<connVars, managerVars, history>>

(* The handler has returned.  After a stream error recv disconnects and    *)
(* reads on, after disconnected it ends.                                   *)
Handled(g) ==
  /\ at[g].pc = "handled"
  /\ IF at[g].event = "streamError"
       THEN at' = BeginClose([at EXCEPT ![g].event = "none"], g, "loop")
       ELSE Finish(g)
  /\ UNCHANGED <<connVars, managerVars, history>>

-----------------------------------------------------------------------------
(* keepalive: until recv closes its channel, a Ping of the transport.      *)

(* Faulty variant: a failed ping reconnects. *)
PingReconnects(k) ==
  /\ at[Keepalive(k)].pc = "select" /\ conn # 0 /\ Broken(conn)
  /\ Goto(Keepalive(k), "dial")
  /\ UNCHANGED <<connVars, managerVars, history>>

PingFails(k) ==
  /\ at[Keepalive(k)].pc = "select" /\ conn # 0 /\ Broken(conn)
  /\ at' = BeginClose(at, Keepalive(k), "done")
  /\ UNCHANGED <<connVars, managerVars, history>>

(* Ping writes to conn without a test for nil.                             *)
PingPanics(k) ==
  /\ at[Keepalive(k)].pc = "select" /\ conn = 0
  /\ Panic
  /\ UNCHANGED <<connVars, managerVars, dials, packets, seen>>

KeepaliveQuits(k) ==
  /\ at[Keepalive(k)].pc = "select" /\ at[Recv(k)].pc = "done"
  /\ Finish(Keepalive(k))
  /\ UNCHANGED <<connVars, managerVars, history>>

-----------------------------------------------------------------------------
(* The server and the network (external).                                  *)

PeerSends(k) ==
  /\ peer[k] = "up" /\ packets < MaxPackets
  /\ \E p \in {"stanza", "error", "conflict", "close"} : inbox' = [inbox EXCEPT ![k] = Append(@, p)]
  /\ packets' = packets + 1
  /\ UNCHANGED <<at, transport, tokens, closed, peer, managerVars, dials, seen, crashed>>

(* What the peer sent may be lost with the connection.                     *)
PeerLeaves(k) ==
  /\ peer[k] = "up"
  /\ peer' = [peer EXCEPT ![k] = "down"]
  /\ inbox' \in {inbox, [inbox EXCEPT ![k] = <<>>]}
  /\ UNCHANGED <<at, transport, tokens, closed, managerVars, history>>

-----------------------------------------------------------------------------

Connecting(g) ==
  \/ DialSucceeds(g) \/ DialFails(g)
  \/ NegotiationSucceeds(g) \/ StreamFails(g) \/ SessionFails(g)
  \/ SetupSucceeds(g) \/ SetupFails(g) \/ AttemptFails(g)

Reading(g) ==
  \/ NextPacket(g) \/ ReadFails(g) \/ ReadsStanza(g) \/ ReadsClose(g) \/ Handled(g)

Closing(g) == CloseWaits(g) \/ ClosesConn(g)

Pinging(k) == PingFails(k) \/ PingPanics(k) \/ KeepaliveQuits(k)

Next ==
  \/ RunStarts \/ RunReturns \/ StopStarts \/ StopReleasesRun
  \/ \E g \in Resumers : Connecting(g)
  \/ \E g \in Readers : Reading(g)
  \/ \E g \in Goroutines : Closing(g)
  \/ \E k \in Conns : ReadsStreamError(k) \/ Pinging(k) \/ PeerSends(k) \/ PeerLeaves(k)

Spec == Init /\ [][Next]_vars

(* Every goroutine that can run does: a dial ends (net.DialTimeout), so do *)
(* hooks, the wait in Close and the backoff, and a closed or lost          *)
(* connection fails to read.  Reads have no deadline: a server that is     *)
(* there need not answer while a session is negotiated.  Nobody need call  *)
(* Run or Stop, and pings, the server and the network are free.            *)
ConnectSteps(g) ==
  \/ DialSucceeds(g) \/ DialFails(g)
  \/ at[g].pc = "negotiate" /\ Broken(decoder) /\ (StreamFails(g) \/ SessionFails(g))
  \/ SetupSucceeds(g) \/ SetupFails(g) \/ AttemptFails(g)

Step(g) ==
  \/ g \in Resumers /\ ConnectSteps(g)
  \/ g \in Readers /\ Reading(g)
  \/ Closing(g)
  \/ \E k \in Conns : \/ g = Recv(k) /\ ReadsStreamError(k)
                      \/ g = Keepalive(k) /\ KeepaliveQuits(k)
  \/ g = Run /\ RunReturns
  \/ g = Stop /\ StopReleasesRun

FairSpec == Spec /\ \A g \in Goroutines : WF_vars(Step(g))

-----------------------------------------------------------------------------
(* Properties.                                                             *)

ConnectingPCs == {"dial", "negotiate", "setup", "failTemporary", "failPermanent"}
Attempting(g) == at[g].pc \in ConnectingPCs \/ at[g].then \in ConnectingPCs

Overlapping == seen \cap {"streamError", "conflict", "sessionFailed"} # {}

(* As long as no stream error was received and no negotiation failed after *)
(* its stream was open, at most one goroutine connects or resumes at any   *)
(* time, and it is the only one left of the session before (resume).       *)
SingleResumer ==
  ~Overlapping =>
    \A g, h \in Goroutines : Attempting(g) /\ Attempting(h) => g = h

(* Under the same condition a recv reads only the connection it was        *)
(* started for, and while it reads it the state that the application sees  *)
(* is "established": recv does not outlive its session (recv).             *)
RecvReadsOwn ==
  ~Overlapping =>
    \A k \in Conns : at[Recv(k)].pc = "read" =>
      at[Recv(k)].conn = k /\ state = "established"

(* No goroutine dereferences a nil connection or session and the WaitGroup *)
(* does not go negative unless an attempt to connect failed (Ping, recv,   *)
(* Run, Stop).                                                             *)
NoCrash == crashed => "attemptFailed" \in seen

Lost(k) ==
  /\ at[Recv(k)].pc = "read" /\ at[Recv(k)].conn = k
  /\ \/ peer[k] = "down" \/ k \in closed
     \/ \E i \in 1 .. Len(inbox[k]) : inbox[k][i] \in {"error", "close"}

GivenUp  == ~handler \/ crashed \/ "permanent" \in seen
OutOfDials(g) == at[g].pc = "dial" /\ dials = MaxDials

(* The server is there and says nothing: the read of StartStream or of     *)
(* NewSession has no deadline.                                             *)
Unanswered(g) == at[g].pc = "negotiate" /\ ~Broken(decoder)

(* A recv whose connection is lost, closed by the server or by this side   *)
(* (the late Close of an older goroutine included), or ended by a stream   *)
(* error leads to another session, unless Stop was called, an attempt      *)
(* failed for good, the server never answers, or the bound on dials keeps  *)
(* the next attempt back: no one waits forever in Close or in a handler.   *)
Reconnects ==
  \A k \in Conns :
    Lost(k) ~> (\/ \E j \in Conns : j > k /\ at[Recv(j)].pc # "none"
                \/ GivenUp \/ OutOfDials(Recv(k))
                \/ []Unanswered(Recv(k)))

RunEnded == at[Run].pc = "done" \/ crashed

(* Stop makes Run return, or panic when it counts Run out a second time:   *)
(* the state in which Stop was called and Run has not returned does not    *)
(* last, unless it waits for a server that never answers (StreamManager.Run*)
(* waits for the WaitGroup).                                               *)
StopEndsRun == []<>(at[Stop].pc # "none" => RunEnded \/ Unanswered(Run))

(* The keepalive of a session does not outlast its recv (keepaliveQuit).   *)
KeepaliveEnds ==
  []<>(crashed \/ \A k \in Conns :
                    at[Recv(k)].pc = "done" => at[Keepalive(k)].pc = "done")

(* No goroutine outlives what it serves.                                   *)
GoroutinesEnd == StopEndsRun /\ KeepaliveEnds

(* A reconnection loop that meets a permanent error is not taken up again, *)
(* as long as no stream error was received and no negotiation failed after *)
(* its stream was open (StreamManager.resume, "It also takes into account  *)
(* permanent errors to avoid useless reconnection loops").  Without the    *)
(* condition the goroutine of a failed negotiation, or recv after a        *)
(* conflict, connects again.                                               *)
PermanentErrorEnds == [][("permanent" \in seen /\ ~Overlapping) => dials' = dials]_vars

=============================================================================
