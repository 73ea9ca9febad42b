-------------------------- MODULE WebsocketTransport ------------------------
(***************************************************************************)
(* The websocket transport and the goroutines of a Client that use it.     *)
(* Connect sets the fields of the transport through a pointer; Close,      *)
(* Write, Ping, StartStream and startReader have value receivers and work  *)
(* on a copy of the fields as they were at the call.  A queue, a context   *)
(* and a connection are named after the Connect that made them; 0 is nil.  *)
(* The websocket connection, the network and the server are external.      *)
(***************************************************************************)
EXTENDS Integers, Sequences, FiniteSets, FiniteSetsExt

CONSTANTS
  MaxConnects, \* calls of Connect
  MaxChunks,   \* messages the server sends
  QueueSize,   \* capacity of the queue, 256 in the code
  Packets      \* the kinds of packets that servers send

Kinds == {"stanza", "conflict", "error", "bad"}  \* bad: NextPacket returns an error

ASSUME SizesAssumption ==
  /\ MaxConnects \in Nat \ {0} /\ MaxChunks \in Nat /\ QueueSize \in Nat \ {0}
  /\ Packets \subseteq Kinds

VARIABLES
  wsConn, queue, closeCtx,   \* the fields of the transport; a decoder reads them
  buffered,    \* for each queue, the chunks it holds
  closedQueues, cancelled, closedConns,
  peer,        \* for each connection, whether the server is there
  sent,        \* for each connection, how many messages the server sent
  arriving,    \* and what of it the reader has not yet taken
  got,         \* and, while calm, the chunks, [conn, n], its decoder was given
  reader,      \* for each connection, the goroutine of startReader
  at,          \* the goroutines of the client
  connects,    \* calls of Connect so far
  closers,     \* for each Connect, how many calls closed what it made
  refused,     \* a server did not select the xmpp subprotocol
  crashed,     \* what a goroutine panicked of, or "no"
  session,     \* Client.Session is not nil
  calm         \* no stream error but a conflict was read, no negotiation failed

fields  == <<wsConn, queue, closeCtx>>
objects == <<buffered, closedQueues, cancelled, closedConns>>
network == <<peer, sent, arriving>>
history == <<connects, closers, refused, crashed, session, calm>>
vars == <<fields, objects, network, got, reader, at, history>>

Conns  == 1 .. MaxConnects
Chunks == [conn : Conns, n : Nat, kind : Kinds]

App  == <<"app", 0>>     \* runs the StreamManager
User == <<"user", 0>>    \* calls Disconnect
Recv(k)      == <<"recv", k>>
Drain(k)     == <<"drain", k>>   \* reads on after a failed negotiation
Keepalive(k) == <<"keepalive", k>>
ReadLoops  == {Recv(k) : k \in Conns} \cup {Drain(k) : k \in Conns}
Goroutines == {App, User} \cup ReadLoops \cup {Keepalive(k) : k \in Conns}

(* copy: what a Connect made, the fields a method with a value receiver    *)
(* works on, or the queue and context a select waits on; then: where the   *)
(* caller of Close goes on; after: where the caller of Resume does.        *)
Copies == [conn : 0 .. MaxConnects, queue : 0 .. MaxConnects, ctx : 0 .. MaxConnects]
NoCopy == [conn |-> 0, queue |-> 0, ctx |-> 0]
Idle   == [pc |-> "none", copy |-> NoCopy, then |-> "none", after |-> "done"]
PCs    == {"none", "dial", "dialling", "open", "next", "read", "kicked", "tick",
           "closeQueue", "closeConn", "again", "done"}
Nexts  == {"none", "dial", "next", "again", "done"}
NoReader == [pc |-> "none", data |-> <<>>, made |-> 0]

TypeOK ==
  /\ {wsConn, queue, closeCtx} \subseteq 0 .. MaxConnects
  /\ \A k \in Conns : buffered[k] \in Seq(Chunks) /\ Len(buffered[k]) <= QueueSize
  /\ closedQueues \cup cancelled \cup closedConns \subseteq Conns
  /\ at \in [Goroutines -> [pc : PCs, copy : Copies, then : Nexts, after : {"done", "again"}]]
  /\ \A k \in Conns : reader[k].pc \in {"none", "wait", "send", "done"}
  /\ crashed \in {"no", "nil", "closeTwice", "sendClosed", "noSession"}
  /\ session \in BOOLEAN /\ calm \in BOOLEAN

Init ==
  /\ wsConn = 0 /\ queue = 0 /\ closeCtx = 0
  /\ buffered = [k \in Conns |-> <<>>]
  /\ closedQueues = {} /\ cancelled = {} /\ closedConns = {}
  /\ peer = [k \in Conns |-> "none"]
  /\ sent = [k \in Conns |-> 0] /\ arriving = [k \in Conns |-> <<>>]
  /\ got = [k \in Conns |-> <<>>]
  /\ reader = [k \in Conns |-> NoReader]
  /\ at = [g \in Goroutines |-> IF g = App THEN [Idle EXCEPT !.pc = "dial"] ELSE Idle]
  /\ connects = 0 /\ closers = [k \in Conns |-> 0] /\ refused = FALSE
  /\ crashed = "no" /\ session = FALSE /\ calm = TRUE

(* A panic of any goroutine ends the process; the connections are gone.    *)
Panic(why) ==
  /\ crashed' = why
  /\ at' = [g \in Goroutines |-> Idle]
  /\ reader' = [k \in Conns |-> [NoReader EXCEPT !.pc = "done"]]
  /\ buffered' = [k \in Conns |-> <<>>] /\ arriving' = [k \in Conns |-> <<>>]
  /\ sent' = [k \in Conns |-> 0] /\ got' = [k \in Conns |-> <<>>]
  /\ closedQueues' = {} /\ cancelled' = {} /\ closedConns' = {}
  /\ UNCHANGED <<fields, peer, connects, refused, session, calm>>

Fields == [conn |-> wsConn, queue |-> queue, ctx |-> closeCtx]

Proceed(g, pc) ==
  at' = [at EXCEPT ![g] = [Idle EXCEPT !.pc = pc,
                                       !.after = IF pc = "dial" THEN at[g].after ELSE @]]

-----------------------------------------------------------------------------
(* Close: it writes the close element, which needs a connection and a      *)
(* context, and cleans up its copy of the fields, which keep their values. *)

(* Where g is once it called Close and goes on at then.                    *)
Closing(g, then) ==
  [at EXCEPT ![g] = [@ EXCEPT !.pc = "closeQueue", !.copy = Fields, !.then = then]]

Close(g, then) ==
  IF wsConn = 0 \/ closeCtx = 0 THEN Panic("nil") /\ UNCHANGED closers
  ELSE /\ at' = Closing(g, then)
       /\ UNCHANGED <<fields, objects, network, got, reader, history>>

(* Faulty variant: the queue stays open. *)
LeaveQueue(g) ==
  /\ at[g].pc = "closeQueue"
  /\ closers' = [closers EXCEPT ![at[g].copy.ctx] = @ + 1]
  /\ at' = [at EXCEPT ![g].pc = "closeConn"]
  /\ UNCHANGED <<fields, objects, network, got, reader, connects, refused, crashed,
                 session, calm>>

CloseQueue(g) ==
  LET q == at[g].copy.queue IN
  /\ at[g].pc = "closeQueue"
  /\ closers' = [closers EXCEPT ![at[g].copy.ctx] = @ + 1]
  /\ IF q \in closedQueues THEN Panic("closeTwice")
     ELSE /\ closedQueues' = closedQueues \cup {q}
          /\ at' = [at EXCEPT ![g].pc = "closeConn"]
          /\ UNCHANGED <<fields, buffered, cancelled, closedConns, network, got, reader,
                         connects, refused, crashed, session, calm>>

(* The connection is closed, which takes some time, and the context        *)
(* cancelled.                                                              *)
CloseConn(g) ==
  /\ at[g].pc = "closeConn"
  /\ closedConns' = closedConns \cup {at[g].copy.conn}
  /\ cancelled' = cancelled \cup {at[g].copy.ctx}
  /\ Proceed(g, at[g].then)
  /\ UNCHANGED <<fields, buffered, closedQueues, network, got, reader, history>>

-----------------------------------------------------------------------------
(* Connect.                                                                *)

(* What the Connect of g made.                                             *)
Dialling(g, k) ==
  [at EXCEPT ![g].pc = "dialling", ![g].copy = [conn |-> k, queue |-> k, ctx |-> k]]

(* Faulty variant: the queue is made once. *)
ConnectKeepsQueue(g) ==
  /\ at[g].pc = "dial" /\ connects < MaxConnects
  /\ connects' = connects + 1
  /\ queue' = (IF queue = 0 THEN connects' ELSE queue) /\ closeCtx' = connects'
  /\ at' = Dialling(g, connects')
  /\ UNCHANGED <<wsConn, objects, network, got, reader, closers, refused, crashed,
                 session, calm>>

(* Lines 36 and 37: a new queue and context replace those of before, which *)
(* are neither closed nor cancelled here.                                  *)
ConnectBegins(g) ==
  /\ at[g].pc = "dial" /\ connects < MaxConnects
  /\ connects' = connects + 1
  /\ queue' = connects' /\ closeCtx' = connects'
  /\ at' = Dialling(g, connects')
  /\ UNCHANGED <<wsConn, objects, network, got, reader, closers, refused, crashed,
                 session, calm>>

(* Dial fails: a permanent error, so the manager gives up.                 *)
DialFails(g) ==
  /\ at[g].pc = "dialling"
  /\ Proceed(g, at[g].after)
  /\ UNCHANGED <<fields, objects, network, got, reader, history>>

(* The server did not select the subprotocol: cleanup through the pointer  *)
(* clears the fields, and what Dial returned is dropped.                   *)
SubprotocolMissing(g) ==
  /\ at[g].pc = "dialling"
  /\ IF queue \in closedQueues THEN Panic("closeTwice")
                                   /\ closers' = [closers EXCEPT ![queue] = @ + 1]
     ELSE /\ refused' = TRUE
          /\ closedQueues' = closedQueues \cup ({queue} \ {0})
          /\ closedConns' = closedConns \cup ({wsConn} \ {0})
          /\ cancelled' = cancelled \cup ({closeCtx} \ {0})
          /\ closers' = [k \in Conns |-> closers[k] + IF k = queue THEN 1 ELSE 0]
          /\ wsConn' = 0 /\ queue' = 0 /\ closeCtx' = 0
          /\ Proceed(g, at[g].after)
          /\ UNCHANGED <<buffered, network, got, reader, connects, crashed, session, calm>>

(* The connection is stored, the reader starts with a copy of the fields,  *)
(* and StartStream works on one; without a context they panic.             *)
Dialled(g) ==
  LET k == at[g].copy.conn IN
  /\ at[g].pc = "dialling"
  /\ IF closeCtx = 0 THEN Panic("nil") /\ UNCHANGED closers
     ELSE /\ wsConn' = k
          /\ peer' = [peer EXCEPT ![k] = "up"]
          /\ reader' = [reader EXCEPT ![k] = [NoReader EXCEPT !.pc = "wait", !.made = closeCtx]]
          /\ at' = [at EXCEPT ![g].pc = "open",
                              ![g].copy = [conn |-> k, queue |-> queue, ctx |-> closeCtx]]
          /\ UNCHANGED <<queue, closeCtx, objects, sent, arriving, got, history>>

(* StartStream cannot write: cleanup of its copy and a permanent error.    *)
OpenNotSent(g) ==
  /\ at[g].pc = "open"
  /\ at' = [at EXCEPT ![g].pc = "closeQueue", ![g].then = at[g].after]
  /\ UNCHANGED <<fields, objects, network, got, reader, history>>

(* InitStream fails: Close on its copy and an error that is retried, by    *)
(* resume or by an application that runs the manager again.                *)
NotOpened(g) ==
  /\ at[g].pc = "open"
  /\ at' = [at EXCEPT ![g].pc = "closeQueue", ![g].then = "dial"]
  /\ UNCHANGED <<fields, objects, network, got, reader, history>>

(* NewSession fails, without a session or with an error that may be        *)
(* retried: another goroutine reads on and the client disconnects.         *)
SessionFails(g) ==
  /\ at[g].pc = "open"
  /\ \E permanent \in BOOLEAN :
       /\ session' \in IF permanent THEN BOOLEAN ELSE {TRUE}
       /\ IF wsConn = 0 \/ closeCtx = 0 THEN Panic("nil") /\ UNCHANGED closers
          ELSE /\ calm' = FALSE
               /\ at' = [Closing(g, IF permanent THEN at[g].after ELSE "dial")
                          EXCEPT ![Drain(at[g].copy.conn)].pc = "next"]
               /\ UNCHANGED <<fields, objects, network, got, reader, connects, closers,
                              refused, crashed>>

(* The presence or the hook after a session fails: the next attempt closes *)
(* nothing.                                                                *)
SetupFails(g) ==
  /\ at[g].pc = "open" /\ wsConn # 0
  /\ session' = TRUE
  /\ Proceed(g, "dial")
  /\ UNCHANGED <<fields, objects, network, got, reader, connects, closers, refused,
                 crashed, calm>>

(* Connect and the negotiation succeed: the client starts recv and         *)
(* keepalive; a recv that reconnected ends, or goes on with its packet.    *)
Established(g) ==
  LET k == at[g].copy.conn IN
  /\ at[g].pc = "open" /\ wsConn # 0 /\ peer[wsConn] = "up"
  /\ closeCtx # 0 /\ closeCtx \notin cancelled
  /\ session' = TRUE
  /\ at' = [at EXCEPT ![g] = [Idle EXCEPT !.pc = at[g].after],
                      ![Recv(k)] = [Idle EXCEPT !.pc = "next"],
                      ![Keepalive(k)] = [Idle EXCEPT !.pc = "tick"]]
  /\ UNCHANGED <<fields, objects, network, got, reader, connects, closers, refused,
                 crashed, calm>>

-----------------------------------------------------------------------------
(* The network and the server.                                             *)

(* After a stream error or its close frame the server leaves.              *)
ServerSends(k) ==
  \E kind \in Packets :
    /\ peer[k] = "up" /\ MapThenSumSet(LAMBDA j : sent[j], Conns) < MaxChunks
    /\ at[Recv(k)].pc # "none" \/ at[Drain(k)].pc # "none"
    /\ reader[k].pc # "done" /\ k \notin closedConns
    /\ sent' = [sent EXCEPT ![k] = @ + 1]
    /\ arriving' = [arriving EXCEPT ![k] = Append(@, [conn |-> k, n |-> sent'[k], kind |-> kind])]
    /\ peer' = (IF kind = "stanza" THEN peer ELSE [peer EXCEPT ![k] = "down"])
    /\ UNCHANGED <<fields, objects, got, reader, at, history>>

ServerLeaves(k) ==
  /\ peer[k] = "up" /\ crashed = "no"
  /\ peer' = [peer EXCEPT ![k] = "down"]
  /\ UNCHANGED <<fields, objects, sent, arriving, got, reader, at, history>>

-----------------------------------------------------------------------------
(* startReader: it has its own copy of connection, context and queue, the  *)
(* last two those of one Connect.                                          *)

Ended(k) == k \in closedConns \/ reader[k].made \in cancelled

(* Faulty variant: what is queued is not a copy and is overwritten. *)
ReaderOverwrites(k) ==
  /\ reader[k].pc = "wait" /\ arriving[k] # <<>> /\ ~Ended(k)
  /\ reader' = [reader EXCEPT ![k].pc = "send", ![k].data = <<Head(arriving[k])>>]
  /\ buffered' = [buffered EXCEPT ![k] = [i \in 1 .. Len(@) |-> Head(arriving[k])]]
  /\ arriving' = [arriving EXCEPT ![k] = Tail(@)]
  /\ UNCHANGED <<fields, closedQueues, cancelled, closedConns, peer, sent, got, at, history>>

ReaderTakes(k) ==
  /\ reader[k].pc = "wait" /\ arriving[k] # <<>> /\ ~Ended(k)
  /\ reader' = [reader EXCEPT ![k].pc = "send", ![k].data = <<Head(arriving[k])>>]
  /\ arriving' = [arriving EXCEPT ![k] = Tail(@)]
  /\ UNCHANGED <<fields, objects, peer, sent, got, at, history>>

HasRoom(q) == Len(buffered[q]) < QueueSize

(* The send waits for room, and panics once the queue is closed.           *)
ReaderSends(k) ==
  LET q == reader[k].made IN
  /\ reader[k].pc = "send"
  /\ IF q \in closedQueues THEN Panic("sendClosed") /\ UNCHANGED closers
     ELSE /\ HasRoom(q)
          /\ buffered' = [buffered EXCEPT ![q] = Append(@, reader[k].data[1])]
          /\ reader' = [reader EXCEPT ![k].pc = "wait", ![k].data = <<>>]
          /\ UNCHANGED <<fields, closedQueues, cancelled, closedConns, network, got, at, history>>

Lost(k) == Ended(k) \/ (peer[k] = "down" /\ arriving[k] = <<>>)

(* The reader ends without a word to those who read the queue, as it does  *)
(* after a message that one Read did not return whole.                     *)
ReaderEnds(k) ==
  /\ reader[k].pc = "wait" /\ (Lost(k) \/ sent[k] > 0)
  /\ reader' = [reader EXCEPT ![k].pc = "done", ![k].data = <<>>]
  /\ arriving' = [arriving EXCEPT ![k] = <<>>]
  /\ UNCHANGED <<fields, objects, peer, sent, got, at, history>>

-----------------------------------------------------------------------------
(* The loops that read packets, through the decoder and Read: recv, and    *)
(* what reads on after a failed negotiation.                               *)

(* Read evaluates the fields for its select as it is called.               *)
BeginsRead(g) ==
  /\ at[g].pc = "next"
  /\ IF closeCtx = 0 THEN Panic("nil") /\ UNCHANGED closers
     ELSE /\ at' = [at EXCEPT ![g].pc = "read", ![g].copy = Fields]
          /\ UNCHANGED <<fields, objects, network, got, reader, history>>

(* Two loops that read one queue may have one decoder, and then spoil      *)
(* what the other reads.                                                   *)
Shared(g) ==
  \E h \in ReadLoops \ {g} : at[h].pc = "read" /\ at[h].copy.queue = at[g].copy.queue

(* recv counts stanzas in the session and hands it to the handler.         *)
NeedsSession(kind) == kind \in {"stanza", "bad"}

(* What recv does with a chunk: a stanza is routed by another goroutine;   *)
(* on what it cannot decode it raises disconnected and so reconnects; on a *)
(* stream error the manager closes, and reconnects but for a conflict,     *)
(* after which recv closes again and reads on.                             *)
RecvReads(k) ==
  LET g == Recv(k)
      q == at[g].copy.queue
      c == Head(buffered[q])
  IN
  /\ at[g].pc = "read" /\ buffered[q] # <<>>
  /\ \E kind \in IF Shared(g) THEN Kinds ELSE {c.kind} :
       IF NeedsSession(kind) /\ ~session THEN Panic("noSession") /\ UNCHANGED closers
       ELSE /\ buffered' = [buffered EXCEPT ![q] = Tail(@)]
            /\ calm' = (calm /\ kind # "error")
            /\ got' = IF calm' THEN [got EXCEPT ![k] = Append(@, [conn |-> c.conn, n |-> c.n])]
                      ELSE got
            /\ at' = [at EXCEPT ![g] =
                 CASE kind = "stanza"   -> [Idle EXCEPT !.pc = "next"]
                   [] kind = "bad"      -> [Idle EXCEPT !.pc = "dial"]
                   [] kind = "conflict" -> [Idle EXCEPT !.pc = "kicked"]
                   [] kind = "error"    -> [Idle EXCEPT !.pc = "kicked", !.after = "again"]]
            /\ UNCHANGED <<fields, closedQueues, cancelled, closedConns, network, reader,
                           connects, closers, refused, crashed, session>>

(* The manager closes; unless it stays away it connects within the handler.*)
ManagerCloses(k) ==
  /\ at[Recv(k)].pc = "kicked"
  /\ Close(Recv(k), IF at[Recv(k)].after = "again" THEN "dial" ELSE "again")

(* The second Close of a stream error, after which recv reads on.          *)
RecvClosesAgain(k) == at[Recv(k)].pc = "again" /\ Close(Recv(k), "next")

(* Read returns the error of its context, or nothing from a closed queue   *)
(* so often that the buffer gives up.                                      *)
ReadFails(g) ==
  LET c == at[g].copy IN
  /\ at[g].pc = "read"
  /\ c.ctx \in cancelled \/ (c.queue \in closedQueues /\ buffered[c.queue] = <<>>)

RecvFails(k) ==
  /\ ReadFails(Recv(k))
  /\ IF ~session THEN Panic("noSession") /\ UNCHANGED closers
     ELSE /\ Proceed(Recv(k), "dial")
          /\ UNCHANGED <<fields, objects, network, got, reader, history>>

(* After a failed negotiation only what cannot be decoded matters.         *)
DrainReads(k) ==
  LET g == Drain(k)
      q == at[g].copy.queue
  IN
  /\ at[g].pc = "read" /\ buffered[q] # <<>>
  /\ buffered' = [buffered EXCEPT ![q] = Tail(@)]
  /\ \E kind \in IF Shared(g) THEN Kinds ELSE {Head(buffered[q]).kind} :
       Proceed(g, IF kind = "bad" THEN "dial" ELSE "next")
  /\ UNCHANGED <<fields, closedQueues, cancelled, closedConns, network, got, reader, history>>

DrainFails(k) ==
  /\ ReadFails(Drain(k))
  /\ Proceed(Drain(k), "dial")
  /\ UNCHANGED <<fields, objects, network, got, reader, history>>

-----------------------------------------------------------------------------
(* keepalive: Ping needs the reader, which handles the answer.             *)

Answered ==
  /\ wsConn # 0 /\ peer[wsConn] = "up" /\ closeCtx \notin cancelled
  /\ reader[wsConn].pc # "done" /\ ~Lost(wsConn)

(* Faulty variant: keepalive ends without closing the transport. *)
PingFailsQuietly(k) ==
  /\ at[Keepalive(k)].pc = "tick"
  /\ Proceed(Keepalive(k), "done")
  /\ UNCHANGED <<fields, objects, network, got, reader, history>>

(* The 5 seconds of a Ping may pass although the server is there.          *)
PingFails(k) ==
  /\ at[Keepalive(k)].pc = "tick"
  /\ Close(Keepalive(k), "done")

KeepaliveQuits(k) ==
  /\ at[Keepalive(k)].pc = "tick" /\ at[Recv(k)].pc = "done"
  /\ Proceed(Keepalive(k), "done")
  /\ UNCHANGED <<fields, objects, network, got, reader, history>>

(* The application calls Disconnect once, after its connection.            *)
UserDisconnects ==
  /\ at[User].pc = "none" /\ at[App].pc = "done" /\ crashed = "no"
  /\ Close(User, "done")

-----------------------------------------------------------------------------

Transport(g) ==
  \/ CloseQueue(g) \/ CloseConn(g)
  \/ ConnectBegins(g) \/ DialFails(g) \/ SubprotocolMissing(g) \/ Dialled(g)
  \/ OpenNotSent(g) \/ NotOpened(g) \/ SessionFails(g) \/ SetupFails(g) \/ Established(g)
  \/ BeginsRead(g)

Next ==
  \/ \E g \in Goroutines : Transport(g)
  \/ \E k \in Conns :
       \/ ServerSends(k) \/ ServerLeaves(k)
       \/ ReaderTakes(k) \/ ReaderSends(k) \/ ReaderEnds(k)
       \/ RecvReads(k) \/ ManagerCloses(k) \/ RecvClosesAgain(k) \/ RecvFails(k)
       \/ DrainReads(k) \/ DrainFails(k)
       \/ PingFails(k) \/ KeepaliveQuits(k)
  \/ UserDisconnects

Spec == Init /\ [][Next]_vars

(* Some goroutine that can go on does so, and a Ping that cannot be         *)
(* answered fails after its 5 seconds.  This is weaker than fairness of    *)
(* each.  Dialling, negotiating and the network may take forever.          *)
Proceeds ==
  \/ \E g \in Goroutines : CloseQueue(g) \/ CloseConn(g) \/ BeginsRead(g)
  \/ \E k \in Conns :
       \/ ReaderTakes(k) \/ ReaderSends(k) \/ (Lost(k) /\ ReaderEnds(k))
       \/ RecvReads(k) \/ ManagerCloses(k) \/ RecvClosesAgain(k) \/ RecvFails(k)
       \/ DrainReads(k) \/ DrainFails(k)
       \/ (~Answered /\ PingFails(k)) \/ KeepaliveQuits(k)

Fairness == WF_vars(Proceeds)

FairSpec == Spec /\ Fairness

-----------------------------------------------------------------------------

(* What the decoder is given is what the server sent on that connection,   *)
(* in its order, whatever is closed meanwhile: the reader copies each      *)
(* chunk and keeps to its own queue (startReader, Read).  A stream error   *)
(* but a conflict and a failed negotiation end this: recv or the loop of   *)
(* connect then reads the queue of the next Connect as well.               *)
InOrder ==
  calm => \A k \in Conns : got[k] = [i \in 1 .. Len(got[k]) |-> [conn |-> k, n |-> i]]

(* Although Close leaves the closed queue in the fields, a queue is closed *)
(* twice only if two calls closed what one Connect made: Connect replaces  *)
(* it before anything can fail.                                            *)
SingleCloseIsSafe == crashed = "closeTwice" => \E k \in Conns : closers[k] > 1

(* A nil connection or context is only met before any dial succeeded or    *)
(* after a server without the xmpp subprotocol: nothing else clears the    *)
(* fields under the keepalive of the connection before.                    *)
NilNeedsNoConnection ==
  crashed = "nil" => refused \/ \A k \in Conns : peer[k] = "none"

(* recv finds no session only after a negotiation failed.                  *)
NoSessionNeedsFailure == crashed = "noSession" => ~calm

(* Every panic has one of four causes, whatever fails and however many     *)
(* goroutines connect: two calls of Close, no connection, a failed         *)
(* negotiation, or data that arrives while Close runs (Close, startReader, *)
(* Write, Ping, recv).                                                     *)
PanicsHaveCauses ==
  TypeOK /\ SingleCloseIsSafe /\ NilNeedsNoConnection /\ NoSessionNeedsFailure

(* A recv does not wait for ever on a connection that the server has left: *)
(* the reader says nothing, but a Ping fails and Close cancels the read.   *)
(* Like InOrder it ends with a stream error or a failed negotiation, after *)
(* which two goroutines may connect and ping the same connection.          *)
LossIsNoticed ==
  []<>(\A k \in Conns :
         ~(calm /\ at[Recv(k)].pc = "read" /\ at[Recv(k)].copy.conn = k /\ peer[k] = "down"))

(* No goroutine of startReader outlasts the Close of its context, also one *)
(* that waits for room in the queue, even if it ends by a panic.           *)
ReadersEnd ==
  []<>(\A k \in Conns :
         reader[k].made \in cancelled => reader[k].pc \in {"none", "done"})
=============================================================================
