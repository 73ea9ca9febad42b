--------------------------- MODULE WebsocketProofs ---------------------------
(***************************************************************************)
(* Proofs about WebsocketTransport for any number of connections and       *)
(* messages, every capacity of the queue and every choice of packets.      *)
(* Safe holds in every reachable state.  CalmInv holds until recv reads a  *)
(* stream error other than a conflict or a negotiation fails.              *)
(***************************************************************************)
EXTENDS WebsocketTransport, SequenceTheorems, TLAPS

Kept     == [conn : Conns, n : Nat]
Readers  == [pc : {"none", "wait", "send", "done"}, data : Seq(Chunks), made : 0 .. MaxConnects]
Contexts == [pc : PCs, copy : Copies, then : Nexts, after : {"done", "again"}]

(* The types of all variables, TypeOK included.                            *)
StateType ==
  /\ wsConn \in 0 .. MaxConnects /\ queue \in 0 .. MaxConnects
  /\ closeCtx \in 0 .. MaxConnects /\ connects \in 0 .. MaxConnects
  /\ closedQueues \subseteq Conns /\ cancelled \subseteq Conns /\ closedConns \subseteq Conns
  /\ crashed \in {"no", "nil", "closeTwice", "sendClosed", "noSession"}
  /\ session \in BOOLEAN /\ calm \in BOOLEAN

FlowType ==
  /\ buffered \in [Conns -> Seq(Chunks)] /\ arriving \in [Conns -> Seq(Chunks)]
  /\ got \in [Conns -> Seq(Kept)] /\ reader \in [Conns -> Readers]
  /\ peer \in [Conns -> {"none", "up", "down"}]
  /\ sent \in [Conns -> Nat] /\ closers \in [Conns -> Nat]

QueueBound == \A k \in Conns : Len(buffered[k]) <= QueueSize

(* A reader that runs has a queue, and holds a message while it sends.     *)
ReadersFit ==
  \A k \in Conns :
    /\ reader[k].pc \in {"wait", "send"} => reader[k].made # 0 /\ crashed = "no"
    /\ reader[k].pc = "send" => Len(reader[k].data) = 1

GoroutineType == at \in [Goroutines -> Contexts]

(* What a goroutine works on has the queue and the context of one Connect. *)
Working == {"dialling", "open", "read", "closeQueue", "closeConn"}

CopiesFit ==
  \A g \in Goroutines : at[g].pc \in Working =>
    /\ at[g].copy.queue = at[g].copy.ctx /\ at[g].copy.ctx # 0
    /\ at[g].pc # "read" => at[g].copy.conn # 0

Stopped == crashed # "no" => \A g \in Goroutines : at[g].pc = "none"

(* A recv runs with a session until a negotiation fails.                   *)
SessionFits == session \/ ~calm \/ \A k \in Conns : at[Recv(k)].pc = "none"

GoroutinesFit == GoroutineType /\ CopiesFit /\ Stopped /\ SessionFits

(* The queue and context of the fields are those of one Connect, and nil,  *)
(* like the connection, only before a dial and after the cleanup of one.   *)
FieldsFit ==
  /\ queue = closeCtx
  /\ wsConn = 0 \/ closeCtx = 0 => refused \/ \A k \in Conns : peer[k] = "none"

(* A closed queue was closed by a call that was counted.                   *)
ClosesCounted == \A k \in closedQueues : closers[k] >= 1

Causes == ClosesCounted /\ SingleCloseIsSafe /\ NilNeedsNoConnection /\ NoSessionNeedsFailure

Safe ==
  /\ StateType /\ FlowType /\ QueueBound /\ ReadersFit /\ GoroutinesFit /\ FieldsFit /\ Causes

-----------------------------------------------------------------------------
(* The goroutines and what they may do next.                               *)

(* The names of the goroutines are distinct.                               *)
LEMMA Names ==
  /\ App \in Goroutines /\ User \in Goroutines /\ App # User
  /\ \A k \in Conns : /\ Recv(k) \in Goroutines /\ Recv(k) \notin {App, User}
                      /\ Drain(k) \in Goroutines /\ Drain(k) \notin {App, User}
                      /\ Keepalive(k) \in Goroutines /\ Keepalive(k) \notin {App, User}
  /\ \A g \in Goroutines :
       g \in {App, User} \/ \E k \in Conns : g \in {Recv(k), Drain(k), Keepalive(k)}
  /\ \A j, k \in Conns : /\ Recv(j) = Recv(k) => j = k
                         /\ Drain(j) = Drain(k) => j = k
                         /\ Keepalive(j) = Keepalive(k) => j = k
                         /\ Recv(j) # Keepalive(k) /\ Recv(j) # Drain(k)
                         /\ Drain(j) # Keepalive(k)
BY DEF App, User, Recv, Drain, Keepalive, ReadLoops, Goroutines

(* What a goroutine may be at.                                             *)
Right(c) ==
  /\ c \in Contexts
  /\ c.pc \in Working => /\ c.copy.queue = c.copy.ctx /\ c.copy.ctx # 0
                         /\ c.pc # "read" => c.copy.conn # 0

(* A goroutine that goes where it may keeps GoroutinesFit.                 *)
LEMMA Moves ==
  ASSUME StateType, GoroutinesFit, crashed = "no", crashed' = "no", calm' => calm,
         session' \in {session, TRUE},
         NEW g \in Goroutines, at[g].pc # "none" \/ g = User,
         NEW c, Right(c), at' = [at EXCEPT ![g] = c]
  PROVE  GoroutinesFit'
<1>1. at \in [Goroutines -> Contexts] /\ c \in Contexts
  BY DEF GoroutinesFit, GoroutineType, Right
<1>2. GoroutineType' BY <1>1 DEF GoroutineType
<1>3. at'[g] = c /\ \A h \in Goroutines : h # g => at'[h] = at[h] BY <1>1
<1>4. CopiesFit' BY <1>3 DEF CopiesFit, Right, GoroutinesFit
<1>5. Stopped' BY DEF Stopped
<1>6. SessionFits'
  <2>1. CASE session
    <3>1. session' = TRUE BY <2>1 DEF StateType
    <3>2. QED BY <3>1 DEF SessionFits
  <2>2. CASE ~calm
    <3>1. ~calm' BY <2>2
    <3>2. QED BY <3>1 DEF SessionFits
  <2>3. CASE \A k \in Conns : at[Recv(k)].pc = "none"
    <3>1. \A k \in Conns : Recv(k) # g /\ Recv(k) \in Goroutines BY <2>3, Names
    <3>2. QED BY <2>3, <3>1, <1>3 DEF SessionFits
  <2>4. QED BY <2>1, <2>2, <2>3 DEF GoroutinesFit, SessionFits
<1>7. QED BY <1>2, <1>4, <1>5, <1>6 DEF GoroutinesFit

(* A goroutine that is not running.                                        *)
LEMMA IdleType ==
  /\ Idle \in Contexts /\ Idle.pc = "none" /\ Idle.then = "none" /\ Idle.after = "done"
<1>1. 0 \in 0 .. MaxConnects BY SizesAssumption
<1>2. QED BY <1>1 DEF Idle, NoCopy, Contexts, Copies, PCs, Nexts

(* A goroutine that takes with it only where it goes on.                   *)
LEMMA IdleContext ==
  ASSUME NEW pc \in PCs, NEW a \in {"done", "again"}
  PROVE  LET c == [Idle EXCEPT !.pc = pc, !.after = a] IN
         c \in Contexts /\ c.pc = pc /\ c.then = "none" /\ c.after = a
BY IdleType DEF Contexts

LEMMA IdlePc ==
  ASSUME NEW pc \in PCs
  PROVE  LET c == [Idle EXCEPT !.pc = pc] IN
         c \in Contexts /\ c.pc = pc /\ c.then = "none" /\ c.after = "done"
BY IdleType DEF Contexts

(* The context of a goroutine.                                             *)
LEMMA ContextOf ==
  ASSUME GoroutinesFit, NEW g \in Goroutines
  PROVE  /\ at \in [Goroutines -> Contexts] /\ at[g] \in Contexts /\ Right(at[g])
         /\ at[g].then \in Nexts /\ at[g].after \in {"done", "again"}
         /\ at[g].copy.conn \in 0 .. MaxConnects /\ at[g].copy.queue \in 0 .. MaxConnects
         /\ at[g].copy.ctx \in 0 .. MaxConnects
<1>1. at \in [Goroutines -> Contexts] /\ at[g] \in Contexts BY DEF GoroutinesFit, GoroutineType
<1>2. Right(at[g]) BY <1>1 DEF GoroutinesFit, CopiesFit, Right
<1>3. QED BY <1>1, <1>2 DEF Contexts, Copies

(* Proceed takes a goroutine to a point of which nothing is required.      *)
LEMMA ProceedRight ==
  ASSUME GoroutinesFit, NEW g \in Goroutines, NEW pc \in Nexts, Proceed(g, pc)
  PROVE  \E c : /\ Right(c) /\ at' = [at EXCEPT ![g] = c]
                /\ c.pc = pc /\ c.then = "none"
                /\ c.after = IF pc = "dial" THEN at[g].after ELSE "done"
<1> DEFINE a == IF pc = "dial" THEN at[g].after ELSE "done"
           c == [Idle EXCEPT !.pc = pc, !.after = a]
<1>1. a \in {"done", "again"} BY ContextOf
<1>2. at' = [at EXCEPT ![g] = c]
  <2>1. Idle.after = "done" BY IdleType
  <2>2. QED BY <2>1 DEF Proceed
<1> HIDE DEF a
<1>3. c \in Contexts /\ c.pc = pc /\ c.then = "none" /\ c.after = a
  <2>1. pc \in PCs BY DEF PCs, Nexts
  <2>2. QED BY <1>1, <2>1, IdleContext
<1> HIDE DEF c
<1>4. Right(c) BY <1>3 DEF Right, Nexts, Working
<1>5. QED BY <1>2, <1>3, <1>4 DEF a

(* So does Close, with the fields as they are.                             *)
LEMMA ClosingRight ==
  ASSUME StateType, FieldsFit, GoroutinesFit, NEW g \in Goroutines, NEW then \in Nexts,
         wsConn # 0, closeCtx # 0
  PROVE  \E c : /\ Right(c) /\ Closing(g, then) = [at EXCEPT ![g] = c]
                /\ c.pc = "closeQueue" /\ c.then = then /\ c.after = at[g].after
                /\ c.copy = Fields
<1> DEFINE c == [at[g] EXCEPT !.pc = "closeQueue", !.copy = Fields, !.then = then]
<1>1. Fields \in Copies BY DEF Fields, Copies, StateType
<1>2. /\ c \in Contexts /\ c.pc = "closeQueue" /\ c.then = then /\ c.after = at[g].after
      /\ c.copy = Fields
  BY <1>1, ContextOf DEF Contexts, PCs
<1>3. Fields.conn = wsConn /\ Fields.queue = queue /\ Fields.ctx = closeCtx BY DEF Fields
<1>4. Closing(g, then) = [at EXCEPT ![g] = c] BY ContextOf DEF Closing
<1> HIDE DEF c
<1>5. Right(c) BY <1>2, <1>3 DEF Right, FieldsFit
<1>6. QED BY <1>2, <1>4, <1>5

(* A goroutine that runs shows that nothing panicked.                      *)
LEMMA Running ==
  ASSUME Safe, NEW g \in Goroutines, at[g].pc # "none"
  PROVE  crashed = "no"
BY DEF Safe, GoroutinesFit, Stopped

(* A panic keeps Safe if it has its cause.                                 *)
LEMMA Halts ==
  ASSUME Safe, NEW why \in {"nil", "closeTwice", "sendClosed", "noSession"}, Panic(why),
         closers' \in [Conns -> Nat],
         why = "closeTwice" => \E k \in Conns : closers'[k] > 1,
         why = "nil" => refused \/ \A k \in Conns : peer[k] = "none",
         why = "noSession" => ~calm
  PROVE  Safe'
<1>1. /\ crashed' = why /\ closedQueues' = {} /\ cancelled' = {} /\ closedConns' = {}
      /\ at' = [g \in Goroutines |-> Idle]
      /\ reader' = [k \in Conns |-> [NoReader EXCEPT !.pc = "done"]]
      /\ buffered' = [k \in Conns |-> <<>>] /\ arriving' = [k \in Conns |-> <<>>]
      /\ got' = [k \in Conns |-> <<>>] /\ sent' = [k \in Conns |-> 0]
      /\ wsConn' = wsConn /\ queue' = queue /\ closeCtx' = closeCtx /\ peer' = peer
      /\ connects' = connects /\ session' = session /\ calm' = calm
  BY DEF Panic, fields
<1>2. refused' = refused BY DEF Panic
<1>3. StateType' BY <1>1 DEF Safe, StateType
<1>4. 0 \in 0 .. MaxConnects BY SizesAssumption
<1>5. [NoReader EXCEPT !.pc = "done"] \in Readers /\ [NoReader EXCEPT !.pc = "done"].pc = "done"
  <2>1. <<>> \in Seq(Chunks) BY EmptySeq
  <2>2. QED BY <1>4, <2>1 DEF NoReader, Readers
<1>6. FlowType'
  <2>1. <<>> \in Seq(Chunks) /\ <<>> \in Seq(Kept) BY EmptySeq
  <2>2. QED BY <1>1, <1>5, <2>1 DEF Safe, FlowType
<1>7. QueueBound' /\ ReadersFit'
  <2>1. \A k \in Conns : Len(buffered'[k]) = 0 BY <1>1
  <2>2. \A k \in Conns : reader'[k].pc = "done" BY <1>1, <1>5
  <2>3. QED BY <2>1, <2>2, SizesAssumption DEF QueueBound, ReadersFit
<1>8. GoroutinesFit'
  <2>1. \A g \in Goroutines : at'[g] = Idle BY <1>1
  <2>2. GoroutineType' BY <1>1, IdleType DEF GoroutineType
  <2>3. CopiesFit' /\ Stopped' BY <2>1, IdleType DEF CopiesFit, Stopped, Working
  <2>4. SessionFits' BY <2>1, IdleType, Names DEF SessionFits
  <2>5. QED BY <2>2, <2>3, <2>4 DEF GoroutinesFit
<1>9. FieldsFit' BY <1>1, <1>2 DEF Safe, FieldsFit
<1>10. Causes'
  BY <1>1, <1>2
  DEF Causes, ClosesCounted, SingleCloseIsSafe, NilNeedsNoConnection, NoSessionNeedsFailure
<1>11. QED BY <1>3, <1>6, <1>7, <1>8, <1>9, <1>10 DEF Safe

(* The fields are nil for a reason.                                        *)
LEMMA NilHalts ==
  ASSUME Safe, Panic("nil"), closers' = closers, wsConn = 0 \/ closeCtx = 0
  PROVE  Safe'
<1>1. closers' \in [Conns -> Nat] BY DEF Safe, FlowType
<1>2. refused \/ \A k \in Conns : peer[k] = "none" BY DEF Safe, FieldsFit
<1>3. QED BY <1>1, <1>2, Halts

(* A step that changes neither fields, connections nor queues.             *)
LEMMA MovesOnly ==
  ASSUME Safe, crashed = "no", GoroutinesFit', session' \in BOOLEAN, calm' \in BOOLEAN,
         UNCHANGED <<fields, objects, network, got, reader>>,
         UNCHANGED <<connects, closers, refused, crashed>>
  PROVE  Safe'
<1>1. /\ UNCHANGED <<wsConn, queue, closeCtx, buffered, closedQueues, cancelled, closedConns>>
      /\ UNCHANGED <<peer, sent, arriving, got, reader, connects, closers, crashed>>
      /\ refused' = refused
  BY DEF fields, objects, network
<1>2. StateType' /\ FlowType' /\ QueueBound' /\ ReadersFit'
  BY <1>1 DEF Safe, StateType, FlowType, QueueBound, ReadersFit
<1>3. FieldsFit' BY <1>1 DEF Safe, FieldsFit
<1>4. Causes'
  BY <1>1
  DEF Safe, Causes, ClosesCounted, SingleCloseIsSafe, NilNeedsNoConnection, NoSessionNeedsFailure
<1>5. QED BY <1>2, <1>3, <1>4 DEF Safe

(* A goroutine that only proceeds.                                         *)
LEMMA SafeProceed ==
  ASSUME Safe, NEW g \in Goroutines, at[g].pc # "none", NEW pc \in Nexts, Proceed(g, pc),
         session' \in {session, TRUE}, calm' = calm,
         UNCHANGED <<fields, objects, network, got, reader>>,
         UNCHANGED <<connects, closers, refused, crashed>>
  PROVE  Safe'
<1>1. crashed = "no" BY Running
<1>2. PICK c : Right(c) /\ at' = [at EXCEPT ![g] = c] BY ProceedRight DEF Safe
<1>3. GoroutinesFit' BY <1>1, <1>2, Moves DEF Safe
<1>4. session' \in BOOLEAN /\ calm' \in BOOLEAN BY DEF Safe, StateType
<1>5. QED BY <1>1, <1>3, <1>4, MovesOnly

(* A call of Close.                                                        *)
LEMMA SafeClose ==
  ASSUME Safe, crashed = "no", NEW g \in Goroutines, at[g].pc # "none" \/ g = User,
         NEW then \in Nexts, Close(g, then)
  PROVE  Safe'
<1>1. CASE wsConn = 0 \/ closeCtx = 0
  <2>1. Panic("nil") /\ closers' = closers BY <1>1 DEF Close
  <2>2. QED BY <1>1, <2>1, NilHalts
<1>2. CASE ~(wsConn = 0 \/ closeCtx = 0)
  <2>1. at' = Closing(g, then) /\ UNCHANGED <<fields, objects, network, got, reader, history>>
    BY <1>2 DEF Close
  <2>2. PICK c : Right(c) /\ at' = [at EXCEPT ![g] = c] BY <1>2, <2>1, ClosingRight DEF Safe
  <2>3. /\ UNCHANGED <<connects, closers, refused, crashed>>
        /\ session' = session /\ calm' = calm
    BY <2>1 DEF history
  <2>4. GoroutinesFit' BY <2>2, <2>3, Moves DEF Safe
  <2>5. session' \in BOOLEAN /\ calm' \in BOOLEAN BY <2>3 DEF Safe, StateType
  <2>6. QED BY <2>1, <2>3, <2>4, <2>5, MovesOnly
<1>3. QED BY <1>1, <1>2

-----------------------------------------------------------------------------
(* Safe is kept by the actions of Connect and Close.                       *)

(* A queue closed by a counted call: if it was closed before, that call    *)
(* was counted too.                                                        *)
LEMMA CountedClose ==
  ASSUME Safe, NEW q \in Conns, closers' \in [Conns -> Nat], closers'[q] = closers[q] + 1,
         \A k \in Conns : closers'[k] >= closers[k]
  PROVE  /\ q \in closedQueues => \E k \in Conns : closers'[k] > 1
         /\ \A k \in closedQueues \cup {q} : closers'[k] >= 1
<1>1. closers \in [Conns -> Nat] /\ closedQueues \subseteq Conns BY DEF Safe, FlowType, StateType
<1>2. \A k \in closedQueues : k \in Conns /\ closers[k] >= 1 BY <1>1 DEF Safe, Causes, ClosesCounted
<1>3. closers[q] \in Nat /\ closers'[q] >= 1 BY <1>1
<1>4. q \in closedQueues => closers'[q] > 1 BY <1>2, <1>3
<1>5. \A k \in closedQueues : closers'[k] >= 1
  <2> TAKE k \in closedQueues
  <2>1. closers[k] \in Nat /\ closers'[k] \in Nat /\ closers[k] >= 1 /\ closers'[k] >= closers[k]
    BY <1>1, <1>2
  <2>2. QED BY <2>1
<1>6. QED BY <1>3, <1>4, <1>5

LEMMA SafeCloseQueue ==
  ASSUME Safe, NEW g \in Goroutines, CloseQueue(g)
  PROVE  Safe'
<1> DEFINE q == at[g].copy.queue
<1>1. at[g].pc = "closeQueue" /\ crashed = "no" BY Running DEF CloseQueue
<1>2. at[g].copy.ctx = q /\ q \in Conns
  <2>1. q \in 0 .. MaxConnects /\ at[g].copy.ctx = q /\ at[g].copy.ctx # 0
    BY <1>1, ContextOf DEF Safe, Right, Working
  <2>2. QED BY <2>1, SizesAssumption DEF Conns
<1>3. closers' = [closers EXCEPT ![q] = @ + 1] BY <1>2 DEF CloseQueue
<1>4. /\ closers' \in [Conns -> Nat] /\ closers'[q] = closers[q] + 1
      /\ \A k \in Conns : closers'[k] >= closers[k]
  <2>1. closers \in [Conns -> Nat] BY DEF Safe, FlowType
  <2> HIDE DEF q
  <2>2. closers' \in [Conns -> Nat] BY <1>2, <1>3, <2>1
  <2>3. closers'[q] = closers[q] + 1 /\ \A k \in Conns : k # q => closers'[k] = closers[k]
    BY <1>2, <1>3, <2>1
  <2>4. \A k \in Conns : closers[k] \in Nat BY <2>1
  <2>5. ASSUME NEW k \in Conns PROVE closers'[k] >= closers[k] BY <2>3, <2>4
  <2>6. QED BY <2>2, <2>3, <2>5
<1>5. /\ q \in closedQueues => \E k \in Conns : closers'[k] > 1
      /\ \A k \in closedQueues \cup {q} : closers'[k] >= 1
  BY <1>2, <1>4, CountedClose
<1>6. CASE q \in closedQueues
  <2>1. Panic("closeTwice") BY <1>6 DEF CloseQueue
  <2>2. QED BY <1>4, <1>5, <1>6, <2>1, Halts
<1>7. CASE q \notin closedQueues
  <2> DEFINE c == [at[g] EXCEPT !.pc = "closeConn"]
  <2>1. /\ closedQueues' = closedQueues \cup {q} /\ at' = [at EXCEPT ![g].pc = "closeConn"]
        /\ UNCHANGED <<wsConn, queue, closeCtx, buffered, cancelled, closedConns, peer>>
        /\ UNCHANGED <<sent, arriving, got, reader, connects, crashed, session, calm>>
        /\ refused' = refused
    BY <1>7 DEF CloseQueue, fields, network
  <2>2. at' = [at EXCEPT ![g] = c] BY <2>1
  <2>3. Right(c)
    <3>1. at[g] \in Contexts /\ Right(at[g]) BY ContextOf DEF Safe
    <3>2. c \in Contexts /\ c.pc = "closeConn" /\ c.copy = at[g].copy BY <3>1 DEF Contexts, PCs
    <3>3. QED BY <3>1, <3>2, <1>1 DEF Right, Working
  <2> HIDE DEF c
  <2>4. GoroutinesFit' BY <1>1, <2>1, <2>2, <2>3, Moves DEF Safe
  <2>5. StateType' BY <1>2, <2>1 DEF Safe, StateType
  <2>6. FlowType' /\ QueueBound' /\ ReadersFit'
    BY <1>4, <2>1 DEF Safe, FlowType, QueueBound, ReadersFit
  <2>7. FieldsFit' BY <2>1 DEF Safe, FieldsFit
  <2>8. Causes'
    BY <1>1, <1>5, <2>1
    DEF Causes, ClosesCounted, SingleCloseIsSafe, NilNeedsNoConnection, NoSessionNeedsFailure
  <2>9. QED BY <2>4, <2>5, <2>6, <2>7, <2>8 DEF Safe
<1>8. QED BY <1>6, <1>7

LEMMA SafeCloseConn ==
  ASSUME Safe, NEW g \in Goroutines, CloseConn(g)
  PROVE  Safe'
<1>1. /\ at[g].pc = "closeConn"
      /\ closedConns' = closedConns \cup {at[g].copy.conn}
      /\ cancelled' = cancelled \cup {at[g].copy.ctx}
      /\ Proceed(g, at[g].then)
      /\ UNCHANGED <<wsConn, queue, closeCtx, buffered, closedQueues, peer>>
      /\ UNCHANGED <<sent, arriving, got, reader, connects, closers, crashed, session, calm>>
      /\ refused' = refused
  BY DEF CloseConn, fields, network, history
<1>2. crashed = "no" BY <1>1, Running
<1>3. at[g].then \in Nexts /\ at[g].copy.conn \in Conns /\ at[g].copy.ctx \in Conns
  BY <1>1, ContextOf, SizesAssumption DEF Safe, Right, Working, Conns
<1>4. PICK c : Right(c) /\ at' = [at EXCEPT ![g] = c] BY <1>1, <1>3, ProceedRight DEF Safe
<1>5. GoroutinesFit' BY <1>1, <1>2, <1>4, Moves DEF Safe
<1>6. StateType' BY <1>1, <1>3 DEF Safe, StateType
<1>7. FlowType' /\ QueueBound' /\ ReadersFit'
  BY <1>1 DEF Safe, FlowType, QueueBound, ReadersFit
<1>8. FieldsFit' BY <1>1 DEF Safe, FieldsFit
<1>9. Causes'
  BY <1>1
  DEF Safe, Causes, ClosesCounted, SingleCloseIsSafe, NilNeedsNoConnection, NoSessionNeedsFailure
<1>10. QED BY <1>5, <1>6, <1>7, <1>8, <1>9 DEF Safe

LEMMA SafeConnectBegins ==
  ASSUME Safe, NEW g \in Goroutines, ConnectBegins(g)
  PROVE  Safe'
<1> DEFINE k == connects + 1
           x == [conn |-> k, queue |-> k, ctx |-> k]
           c == [at[g] EXCEPT !.pc = "dialling", !.copy = x]
<1>1. /\ at[g].pc = "dial" /\ connects < MaxConnects
      /\ connects' = k /\ queue' = k /\ closeCtx' = k /\ at' = Dialling(g, k)
      /\ UNCHANGED <<wsConn, buffered, closedQueues, cancelled, closedConns, peer>>
      /\ UNCHANGED <<sent, arriving, got, reader, closers, crashed, session, calm>>
      /\ refused' = refused
  BY DEF ConnectBegins, objects, network
<1>2. k \in Conns /\ k # 0 /\ k \in 0 .. MaxConnects
  <2>1. connects \in 0 .. MaxConnects /\ MaxConnects \in Nat
    BY SizesAssumption DEF Safe, StateType
  <2>2. QED BY <1>1, <2>1 DEF Conns
<1> HIDE DEF k
<1>3. crashed = "no" BY <1>1, Running
<1>4. x \in Copies /\ x.conn = k /\ x.queue = k /\ x.ctx = k BY <1>2 DEF Copies
<1>5. at' = [at EXCEPT ![g] = c] BY <1>1, ContextOf DEF Dialling, Safe
<1> HIDE DEF x
<1>6. c \in Contexts /\ c.pc = "dialling" /\ c.copy = x BY <1>4, ContextOf DEF Safe, Contexts, PCs
<1> HIDE DEF c
<1>7. Right(c) BY <1>2, <1>4, <1>6 DEF Right
<1>8. GoroutinesFit' BY <1>1, <1>3, <1>5, <1>7, Moves DEF Safe
<1>9. StateType' BY <1>1, <1>2 DEF Safe, StateType
<1>10. FlowType' /\ QueueBound' /\ ReadersFit'
  BY <1>1 DEF Safe, FlowType, QueueBound, ReadersFit
<1>11. FieldsFit' BY <1>1, <1>2 DEF Safe, FieldsFit
<1>12. Causes'
  BY <1>1
  DEF Safe, Causes, ClosesCounted, SingleCloseIsSafe, NilNeedsNoConnection, NoSessionNeedsFailure
<1>13. QED BY <1>8, <1>9, <1>10, <1>11, <1>12 DEF Safe

LEMMA SafeSubprotocolMissing ==
  ASSUME Safe, NEW g \in Goroutines, SubprotocolMissing(g)
  PROVE  Safe'
<1>1. at[g].pc = "dialling" /\ crashed = "no" BY Running DEF SubprotocolMissing
<1>2. closers \in [Conns -> Nat] BY DEF Safe, FlowType
<1>3. CASE queue \in closedQueues
  <2>1. Panic("closeTwice") /\ closers' = [closers EXCEPT ![queue] = @ + 1]
    BY <1>3 DEF SubprotocolMissing
  <2>2. queue \in Conns BY <1>3 DEF Safe, StateType
  <2>3. /\ closers' \in [Conns -> Nat] /\ closers'[queue] = closers[queue] + 1
        /\ \A k \in Conns : closers'[k] >= closers[k]
    BY <1>2, <2>1, <2>2
  <2>4. \E k \in Conns : closers'[k] > 1 BY <1>3, <2>2, <2>3, CountedClose
  <2>5. QED BY <2>1, <2>3, <2>4, Halts
<1>4. CASE queue \notin closedQueues
  <2>1. /\ refused' = TRUE
        /\ closedQueues' = closedQueues \cup ({queue} \ {0})
        /\ closedConns' = closedConns \cup ({wsConn} \ {0})
        /\ cancelled' = cancelled \cup ({closeCtx} \ {0})
        /\ closers' = [k \in Conns |-> closers[k] + IF k = queue THEN 1 ELSE 0]
        /\ wsConn' = 0 /\ queue' = 0 /\ closeCtx' = 0
        /\ Proceed(g, at[g].after)
        /\ UNCHANGED <<buffered, peer, sent, arriving, got, reader, connects>>
        /\ UNCHANGED <<crashed, session, calm>>
    BY <1>4 DEF SubprotocolMissing, network
  <2>2. /\ closers' \in [Conns -> Nat] /\ \A k \in Conns : closers'[k] >= closers[k]
        /\ \A k \in Conns : k = queue => closers'[k] = closers[k] + 1
    BY <1>2, <2>1
  <2>3. at[g].after \in Nexts BY ContextOf DEF Safe, Nexts
  <2>4. PICK c : Right(c) /\ at' = [at EXCEPT ![g] = c] BY <2>1, <2>3, ProceedRight DEF Safe
  <2>5. GoroutinesFit' BY <1>1, <2>1, <2>4, Moves DEF Safe
  <2>6. StateType'
    <3>1. \A n \in 0 .. MaxConnects : {n} \ {0} \subseteq Conns BY SizesAssumption DEF Conns
    <3>2. 0 \in 0 .. MaxConnects BY SizesAssumption
    <3>3. QED BY <2>1, <3>1, <3>2 DEF Safe, StateType
  <2>7. FlowType' /\ QueueBound' /\ ReadersFit'
    BY <2>1, <2>2 DEF Safe, FlowType, QueueBound, ReadersFit
  <2>8. FieldsFit' BY <2>1 DEF FieldsFit
  <2>9. ClosesCounted'
    <3>1. CASE queue \in Conns
      <4>1. \A k \in closedQueues \cup {queue} : closers'[k] >= 1
        BY <2>2, <3>1, CountedClose
      <4>2. QED BY <4>1, <2>1 DEF ClosesCounted
    <3>2. CASE queue \notin Conns
      <4>1. queue = 0 BY <3>2, SizesAssumption DEF Safe, StateType, Conns
      <4>2. closedQueues' = closedQueues BY <4>1, <2>1
      <4>3. ASSUME NEW k \in closedQueues PROVE closers'[k] >= 1
        <5>1. k \in Conns /\ closers[k] >= 1 BY DEF Safe, StateType, Causes, ClosesCounted
        <5>2. QED BY <5>1, <1>2, <2>2
      <4>4. QED BY <4>2, <4>3 DEF ClosesCounted
    <3>3. QED BY <3>1, <3>2
  <2>10. Causes'
    BY <1>1, <2>1, <2>9
    DEF Causes, SingleCloseIsSafe, NilNeedsNoConnection, NoSessionNeedsFailure
  <2>11. QED BY <2>5, <2>6, <2>7, <2>8, <2>10 DEF Safe
<1>5. QED BY <1>3, <1>4

(* The copy of the fields with which a reader and StartStream begin.       *)
LEMMA SafeDialled ==
  ASSUME Safe, NEW g \in Goroutines, Dialled(g)
  PROVE  Safe'
<1> DEFINE k == at[g].copy.conn
           r == [NoReader EXCEPT !.pc = "wait", !.made = closeCtx]
           x == [conn |-> k, queue |-> queue, ctx |-> closeCtx]
           c == [at[g] EXCEPT !.pc = "open", !.copy = x]
<1>1. at[g].pc = "dialling" /\ crashed = "no" BY Running DEF Dialled
<1>2. CASE closeCtx = 0
  <2>1. Panic("nil") /\ closers' = closers BY <1>2 DEF Dialled
  <2>2. QED BY <1>2, <2>1, NilHalts
<1>3. CASE closeCtx # 0
  <2>1. /\ wsConn' = k
        /\ peer' = [peer EXCEPT ![k] = "up"] /\ reader' = [reader EXCEPT ![k] = r]
        /\ at' = [at EXCEPT ![g].pc = "open", ![g].copy = x]
        /\ UNCHANGED <<queue, closeCtx, buffered, closedQueues, cancelled, closedConns>>
        /\ UNCHANGED <<sent, arriving, got, connects, closers, crashed, session, calm>>
        /\ refused' = refused
    BY <1>3 DEF Dialled, objects, history
  <2>2. at[g] \in Contexts /\ k \in Conns /\ k # 0 /\ k \in 0 .. MaxConnects
    BY <1>1, ContextOf, SizesAssumption DEF Safe, Right, Working, Conns
  <2>3. at' = [at EXCEPT ![g] = c] BY <2>1, ContextOf DEF Safe
  <2>4. queue = closeCtx /\ closeCtx \in 0 .. MaxConnects BY DEF Safe, FieldsFit, StateType
  <2>5. x \in Copies /\ x.conn = k /\ x.queue = queue /\ x.ctx = closeCtx
    BY <2>2, <2>4 DEF Copies
  <2>6. r \in Readers /\ r.pc = "wait" /\ r.made = closeCtx
    <3>1. <<>> \in Seq(Chunks) BY EmptySeq
    <3>2. QED BY <3>1, <2>4 DEF NoReader, Readers
  <2> HIDE DEF k, x, r
  <2>7. c \in Contexts /\ c.pc = "open" /\ c.copy = x BY <2>2, <2>5 DEF Contexts, PCs
  <2> HIDE DEF c
  <2>8. Right(c) BY <1>3, <2>2, <2>4, <2>5, <2>7 DEF Right
  <2>9. GoroutinesFit' BY <1>1, <2>1, <2>3, <2>8, Moves DEF Safe
  <2>10. StateType' BY <2>1, <2>2 DEF Safe, StateType
  <2>11. FlowType' /\ QueueBound' BY <2>1, <2>2, <2>6 DEF Safe, FlowType, QueueBound
  <2>12. ReadersFit'
    <3>1. reader'[k] = r /\ \A j \in Conns : j # k => reader'[j] = reader[j]
      BY <2>1, <2>2 DEF Safe, FlowType
    <3>2. QED BY <3>1, <1>1, <1>3, <2>1, <2>6 DEF Safe, ReadersFit
  <2>13. FieldsFit' BY <1>3, <2>1, <2>2, <2>4 DEF FieldsFit
  <2>14. Causes'
    BY <1>1, <2>1
    DEF Safe, Causes, ClosesCounted, SingleCloseIsSafe, NilNeedsNoConnection, NoSessionNeedsFailure
  <2>15. QED BY <2>9, <2>10, <2>11, <2>12, <2>13, <2>14 DEF Safe
<1>4. QED BY <1>2, <1>3

(* Close on the copy of StartStream.                                       *)
LEMMA SafeOpenFails ==
  ASSUME Safe, NEW g \in Goroutines, OpenNotSent(g) \/ NotOpened(g)
  PROVE  Safe'
<1>1. PICK then \in Nexts :
        /\ at[g].pc = "open"
        /\ at' = [at EXCEPT ![g].pc = "closeQueue", ![g].then = then]
        /\ UNCHANGED <<fields, objects, network, got, reader, history>>
  BY ContextOf DEF Safe, OpenNotSent, NotOpened, Nexts
<1> DEFINE c == [at[g] EXCEPT !.pc = "closeQueue", !.then = then]
<1>2. crashed = "no" BY <1>1, Running
<1>3. at' = [at EXCEPT ![g] = c] BY <1>1, ContextOf DEF Safe
<1>4. c \in Contexts /\ c.pc = "closeQueue" /\ c.copy = at[g].copy
  BY ContextOf DEF Safe, Contexts, PCs
<1> HIDE DEF c
<1>5. Right(c) BY <1>1, <1>4, ContextOf DEF Safe, Right, Working
<1>6. /\ UNCHANGED <<connects, closers, refused, crashed>>
      /\ session' = session /\ calm' = calm
  BY <1>1 DEF history
<1>7. GoroutinesFit' BY <1>1, <1>2, <1>3, <1>5, <1>6, Moves DEF Safe
<1>8. session' \in BOOLEAN /\ calm' \in BOOLEAN BY <1>6 DEF Safe, StateType
<1>9. QED BY <1>1, <1>2, <1>6, <1>7, <1>8, MovesOnly

(* A failed negotiation starts the loop that reads on.                     *)
LEMMA SafeSessionFails ==
  ASSUME Safe, NEW g \in Goroutines, SessionFails(g)
  PROVE  Safe'
<1> DEFINE d == Drain(at[g].copy.conn)
<1>1. at[g].pc = "open" /\ crashed = "no" BY Running DEF SessionFails
<1>2. CASE wsConn = 0 \/ closeCtx = 0
  <2>1. Panic("nil") /\ closers' = closers BY <1>2 DEF SessionFails
  <2>2. QED BY <1>2, <2>1, NilHalts
<1>3. CASE ~(wsConn = 0 \/ closeCtx = 0)
  <2>1. PICK then \in Nexts :
          /\ session' \in BOOLEAN /\ calm' = FALSE
          /\ at' = [Closing(g, then) EXCEPT ![d].pc = "next"]
          /\ UNCHANGED <<fields, objects, network, got, reader, connects, closers, refused, crashed>>
    <3>1. at[g].after \in Nexts /\ "dial" \in Nexts BY ContextOf DEF Safe, Nexts
    <3>2. PICK permanent \in BOOLEAN :
            /\ session' \in IF permanent THEN BOOLEAN ELSE {TRUE}
            /\ calm' = FALSE
            /\ at' = [Closing(g, IF permanent THEN at[g].after ELSE "dial") EXCEPT ![d].pc = "next"]
            /\ UNCHANGED <<fields, objects, network, got, reader, connects, closers, refused, crashed>>
      BY <1>3 DEF SessionFails
    <3>3. QED BY <3>1, <3>2
  <2>2. PICK c : Right(c) /\ Closing(g, then) = [at EXCEPT ![g] = c]
    BY <1>3, ClosingRight DEF Safe
  <2>3. c \in Contexts /\ at \in [Goroutines -> Contexts] BY <2>2, ContextOf DEF Safe, Right
  <2> DEFINE f == [at EXCEPT ![g] = c]
             n == [f[d] EXCEPT !.pc = "next"]
  <2>4. d \in Goroutines
    <3>1. at[g].copy.conn \in Conns
      BY <1>1, ContextOf, SizesAssumption DEF Safe, Right, Working, Conns
    <3>2. QED BY <3>1, Names
  <2>5. f \in [Goroutines -> Contexts] BY <2>3
  <2>6. at' = [f EXCEPT ![d] = n] BY <2>1, <2>2, <2>4
  <2>7. n \in Contexts /\ n.pc = "next" BY <2>4, <2>5 DEF Contexts, PCs
  <2>8. \A h \in Goroutines : f[h] = IF h = g THEN c ELSE at[h] BY <2>3
  <2> HIDE DEF f, n
  <2>9. at'[d] = n /\ \A h \in Goroutines : h # d => at'[h] = f[h] BY <2>4, <2>5, <2>6
  <2>10. GoroutineType' BY <2>4, <2>5, <2>6, <2>7 DEF GoroutineType
  <2>11. CopiesFit'
    <3>1. \A h \in Goroutines : at'[h] \in {c, n, at[h]} BY <2>8, <2>9
    <3>2. QED BY <3>1, <2>2, <2>7 DEF CopiesFit, Right, Working, Safe, GoroutinesFit
  <2>12. Stopped' /\ SessionFits' BY <1>1, <2>1 DEF Stopped, SessionFits
  <2>13. GoroutinesFit' BY <2>10, <2>11, <2>12 DEF GoroutinesFit
  <2>14. QED BY <1>1, <2>1, <2>13, MovesOnly
<1>4. QED BY <1>2, <1>3

LEMMA SafeEstablished ==
  ASSUME Safe, NEW g \in Goroutines, Established(g)
  PROVE  Safe'
<1> DEFINE k == at[g].copy.conn
           e == [Idle EXCEPT !.pc = at[g].after]
           n == [Idle EXCEPT !.pc = "next"]
           t == [Idle EXCEPT !.pc = "tick"]
<1>1. /\ at[g].pc = "open" /\ session' = TRUE
      /\ at' = [at EXCEPT ![g] = e, ![Recv(k)] = n, ![Keepalive(k)] = t]
      /\ UNCHANGED <<fields, objects, network, got, reader, connects, closers, refused>>
      /\ UNCHANGED <<crashed, calm>>
  BY DEF Established
<1>2. crashed = "no" BY <1>1, Running
<1>3. at \in [Goroutines -> Contexts] /\ at[g].after \in {"done", "again"} BY ContextOf DEF Safe
<1>4. /\ e \in Contexts /\ e.pc \in {"done", "again"}
      /\ n \in Contexts /\ n.pc = "next" /\ t \in Contexts /\ t.pc = "tick"
  BY <1>3, IdlePc DEF PCs
<1> HIDE DEF e, n, t
<1>5. GoroutineType' BY <1>1, <1>3, <1>4 DEF GoroutineType
<1>6. \A h \in Goroutines : at'[h] \in {e, n, t, at[h]} BY <1>1, <1>3
<1>7. CopiesFit' BY <1>4, <1>6 DEF CopiesFit, Working, Safe, GoroutinesFit
<1>8. Stopped' /\ SessionFits' BY <1>1, <1>2 DEF Stopped, SessionFits
<1>9. GoroutinesFit' BY <1>5, <1>7, <1>8 DEF GoroutinesFit
<1>10. session' \in BOOLEAN /\ calm' \in BOOLEAN BY <1>1 DEF Safe, StateType
<1>11. QED BY <1>1, <1>2, <1>9, <1>10, MovesOnly

(* Read evaluates the fields.                                              *)
LEMMA SafeBeginsRead ==
  ASSUME Safe, NEW g \in Goroutines, BeginsRead(g)
  PROVE  Safe'
<1> DEFINE c == [at[g] EXCEPT !.pc = "read", !.copy = Fields]
<1>1. at[g].pc = "next" /\ crashed = "no" BY Running DEF BeginsRead
<1>2. CASE closeCtx = 0
  <2>1. Panic("nil") /\ closers' = closers BY <1>2 DEF BeginsRead
  <2>2. QED BY <1>2, <2>1, NilHalts
<1>3. CASE closeCtx # 0
  <2>1. /\ at' = [at EXCEPT ![g].pc = "read", ![g].copy = Fields]
        /\ UNCHANGED <<fields, objects, network, got, reader, history>>
    BY <1>3 DEF BeginsRead
  <2>2. at' = [at EXCEPT ![g] = c] BY <2>1, ContextOf DEF Safe
  <2>3. Fields \in Copies BY DEF Fields, Copies, Safe, StateType
  <2>4. c \in Contexts /\ c.pc = "read" /\ c.copy = Fields
    BY <2>3, ContextOf DEF Safe, Contexts, PCs
  <2> HIDE DEF c
  <2>5. Fields.queue = queue /\ Fields.ctx = closeCtx BY DEF Fields
  <2>6. Right(c) BY <1>3, <2>4, <2>5 DEF Right, Safe, FieldsFit
  <2>7. /\ UNCHANGED <<connects, closers, refused, crashed>>
        /\ session' = session /\ calm' = calm
    BY <2>1 DEF history
  <2>8. GoroutinesFit' BY <1>1, <2>2, <2>6, <2>7, Moves DEF Safe
  <2>9. session' \in BOOLEAN /\ calm' \in BOOLEAN BY <2>7 DEF Safe, StateType
  <2>10. QED BY <1>1, <2>1, <2>7, <2>8, <2>9, MovesOnly
<1>4. QED BY <1>2, <1>3

(* All of them.                                                            *)
LEMMA SafeTransport ==
  ASSUME Safe, NEW g \in Goroutines, Transport(g)
  PROVE  Safe'
<1>1. CASE DialFails(g) \/ SetupFails(g)
  <2>1. PICK pc \in Nexts : Proceed(g, pc) /\ at[g].pc # "none"
    BY <1>1, ContextOf DEF DialFails, SetupFails, Safe, Nexts
  <2>2. /\ UNCHANGED <<fields, objects, network, got, reader>>
        /\ UNCHANGED <<connects, closers, refused, crashed>>
        /\ session' \in {session, TRUE} /\ calm' = calm
    BY <1>1 DEF DialFails, SetupFails, history
  <2>3. QED BY <2>1, <2>2, SafeProceed
<1>2. QED
  BY <1>1, SafeCloseQueue, SafeCloseConn, SafeConnectBegins, SafeSubprotocolMissing, SafeDialled,
     SafeOpenFails, SafeSessionFails, SafeEstablished, SafeBeginsRead
  DEF Transport

-----------------------------------------------------------------------------
(* Safe is kept by the network, the readers and those who read and close.  *)

(* The goroutines are where they were.                                     *)
LEMMA GoroutinesSame ==
  ASSUME GoroutinesFit, UNCHANGED <<at, crashed, session, calm>>
  PROVE  GoroutinesFit'
BY DEF GoroutinesFit, GoroutineType, CopiesFit, Stopped, SessionFits

(* A step that moves messages and leaves fields and closed objects.        *)
LEMMA SafeFlow ==
  ASSUME Safe, crashed' = "no", GoroutinesFit', FlowType', QueueBound', ReadersFit',
         UNCHANGED <<wsConn, queue, closeCtx, closedQueues, cancelled, closedConns>>,
         UNCHANGED <<connects, closers, session>>, refused' = refused, calm' \in BOOLEAN,
         peer' = peer \/ \E k \in Conns : peer[k] = "up"
  PROVE  Safe'
<1>1. StateType' BY DEF Safe, StateType
<1>2. FieldsFit'
  <2>1. CASE peer' = peer BY <2>1 DEF Safe, FieldsFit
  <2>2. CASE \E k \in Conns : peer[k] = "up"
    <3>1. wsConn = 0 \/ closeCtx = 0 => refused BY <2>2 DEF Safe, FieldsFit
    <3>2. QED BY <3>1 DEF Safe, FieldsFit
  <2>3. QED BY <2>1, <2>2
<1>3. Causes'
  BY DEF Safe, Causes, ClosesCounted, SingleCloseIsSafe, NilNeedsNoConnection, NoSessionNeedsFailure
<1>4. QED BY <1>1, <1>2, <1>3 DEF Safe

(* The types of what is on its way.                                        *)
LEMMA FlowTypes ==
  ASSUME Safe, NEW k \in Conns
  PROVE  /\ buffered \in [Conns -> Seq(Chunks)] /\ buffered[k] \in Seq(Chunks)
         /\ arriving \in [Conns -> Seq(Chunks)] /\ arriving[k] \in Seq(Chunks)
         /\ got \in [Conns -> Seq(Kept)] /\ got[k] \in Seq(Kept)
         /\ reader \in [Conns -> Readers] /\ reader[k] \in Readers
         /\ reader[k].data \in Seq(Chunks) /\ reader[k].made \in 0 .. MaxConnects
         /\ sent \in [Conns -> Nat] /\ sent[k] \in Nat
         /\ peer \in [Conns -> {"none", "up", "down"}]
         /\ Len(got[k]) \in Nat /\ Len(buffered[k]) \in Nat /\ Len(arriving[k]) \in Nat
         /\ Len(reader[k].data) \in Nat /\ Len(buffered[k]) <= QueueSize
<1>1. /\ buffered \in [Conns -> Seq(Chunks)] /\ arriving \in [Conns -> Seq(Chunks)]
      /\ got \in [Conns -> Seq(Kept)] /\ reader \in [Conns -> Readers] /\ sent \in [Conns -> Nat]
      /\ peer \in [Conns -> {"none", "up", "down"}]
  BY DEF Safe, FlowType
<1>2. /\ buffered[k] \in Seq(Chunks) /\ arriving[k] \in Seq(Chunks) /\ got[k] \in Seq(Kept)
      /\ reader[k] \in Readers /\ sent[k] \in Nat
  BY <1>1
<1>3. reader[k].data \in Seq(Chunks) /\ reader[k].made \in 0 .. MaxConnects
  BY <1>2 DEF Readers
<1>4. /\ Len(got[k]) \in Nat /\ Len(buffered[k]) \in Nat /\ Len(arriving[k]) \in Nat
      /\ Len(reader[k].data) \in Nat
  BY <1>2, <1>3
<1>5. Len(buffered[k]) <= QueueSize BY DEF Safe, QueueBound
<1>6. QED BY <1>1, <1>2, <1>3, <1>4, <1>5

LEMMA SafeServerSends ==
  ASSUME Safe, NEW k \in Conns, ServerSends(k)
  PROVE  Safe'
<1>1. PICK kind \in Packets :
        /\ peer[k] = "up"
        /\ at[Recv(k)].pc # "none" \/ at[Drain(k)].pc # "none"
        /\ sent' = [sent EXCEPT ![k] = @ + 1]
        /\ arriving' = [arriving EXCEPT ![k] = Append(@, [conn |-> k, n |-> sent'[k], kind |-> kind])]
        /\ peer' = (IF kind = "stanza" THEN peer ELSE [peer EXCEPT ![k] = "down"])
        /\ UNCHANGED <<wsConn, queue, closeCtx, buffered, closedQueues, cancelled, closedConns>>
        /\ UNCHANGED <<got, reader, at, connects, closers, crashed, session, calm>>
        /\ refused' = refused
  BY DEF ServerSends, fields, objects, history
<1> DEFINE c == [conn |-> k, n |-> sent'[k], kind |-> kind]
<1>2. crashed = "no" BY <1>1, Names, Running
<1>3. sent' \in [Conns -> Nat] /\ sent'[k] \in Nat BY <1>1, FlowTypes
<1>4. c \in Chunks BY <1>3, SizesAssumption DEF Chunks
<1>5. arriving' = [arriving EXCEPT ![k] = Append(arriving[k], c)] BY <1>1
<1> HIDE DEF c
<1>6. Append(arriving[k], c) \in Seq(Chunks) BY <1>4, FlowTypes, AppendProperties
<1>7. arriving' \in [Conns -> Seq(Chunks)] BY <1>5, <1>6, FlowTypes
<1>8. peer' \in [Conns -> {"none", "up", "down"}] BY <1>1, FlowTypes
<1>9. FlowType' /\ QueueBound' /\ ReadersFit'
  BY <1>1, <1>3, <1>7, <1>8 DEF Safe, FlowType, QueueBound, ReadersFit
<1>10. GoroutinesFit' BY <1>1, GoroutinesSame DEF Safe
<1>11. calm' \in BOOLEAN BY <1>1 DEF Safe, StateType
<1>12. QED BY <1>1, <1>2, <1>9, <1>10, <1>11, SafeFlow

LEMMA SafeServerLeaves ==
  ASSUME Safe, NEW k \in Conns, ServerLeaves(k)
  PROVE  Safe'
<1>1. /\ peer[k] = "up" /\ crashed = "no" /\ peer' = [peer EXCEPT ![k] = "down"]
      /\ UNCHANGED <<wsConn, queue, closeCtx, buffered, closedQueues, cancelled, closedConns>>
      /\ UNCHANGED <<got, reader, at, connects, closers, crashed, sent, arriving, session, calm>>
      /\ refused' = refused
  BY DEF ServerLeaves, fields, objects, history
<1>2. peer' \in [Conns -> {"none", "up", "down"}] BY <1>1, FlowTypes
<1>3. FlowType' /\ QueueBound' /\ ReadersFit'
  BY <1>1, <1>2 DEF Safe, FlowType, QueueBound, ReadersFit
<1>4. GoroutinesFit' BY <1>1, GoroutinesSame DEF Safe
<1>5. calm' \in BOOLEAN BY <1>1 DEF Safe, StateType
<1>6. QED BY <1>1, <1>3, <1>4, <1>5, SafeFlow

(* A reader that goes on keeps its queue.                                  *)
LEMMA ReaderIs ==
  ASSUME NEW r \in Readers, NEW pc \in {"none", "wait", "send", "done"}, NEW d \in Seq(Chunks)
  PROVE  LET s == [r EXCEPT !.pc = pc, !.data = d] IN
         s \in Readers /\ s.pc = pc /\ s.data = d /\ s.made = r.made
BY DEF Readers

(* The first chunk of a sequence and the others.                           *)
LEMMA Chunked ==
  ASSUME NEW s \in Seq(Chunks), s # <<>>
  PROVE  /\ Head(s) \in Chunks /\ Tail(s) \in Seq(Chunks) /\ <<Head(s)>> \in Seq(Chunks)
         /\ Len(<<Head(s)>>) = 1 /\ Len(s) \in Nat \ {0} /\ Len(Tail(s)) = Len(s) - 1
<1>1. Head(s) \in Chunks /\ Tail(s) \in Seq(Chunks) /\ Len(Tail(s)) = Len(s) - 1
  BY HeadTailProperties
<1>2. Len(s) \in Nat \ {0} BY EmptySeq
<1>3. QED BY <1>1, <1>2

LEMMA SafeReaderTakes ==
  ASSUME Safe, NEW k \in Conns, ReaderTakes(k)
  PROVE  Safe'
<1> DEFINE d == <<Head(arriving[k])>>
           r == [reader[k] EXCEPT !.pc = "send", !.data = d]
<1>1. /\ reader[k].pc = "wait" /\ arriving[k] # <<>>
      /\ reader' = [reader EXCEPT ![k].pc = "send", ![k].data = d]
      /\ arriving' = [arriving EXCEPT ![k] = Tail(@)]
      /\ UNCHANGED <<wsConn, queue, closeCtx, buffered, closedQueues, cancelled, closedConns>>
      /\ UNCHANGED <<got, at, connects, closers, crashed, sent, peer, session, calm>>
      /\ refused' = refused
  BY DEF ReaderTakes, fields, objects, history
<1>2. crashed = "no" /\ reader[k].made # 0 BY <1>1 DEF Safe, ReadersFit
<1>3. Tail(arriving[k]) \in Seq(Chunks) /\ d \in Seq(Chunks) /\ Len(d) = 1
  BY <1>1, FlowTypes, Chunked
<1>4. reader' = [reader EXCEPT ![k] = r] BY <1>1, FlowTypes
<1> HIDE DEF d
<1>5. r \in Readers /\ r.pc = "send" /\ r.data = d /\ r.made = reader[k].made
  BY <1>3, FlowTypes, ReaderIs
<1> HIDE DEF r
<1>6. FlowType' /\ QueueBound'
  <2>1. arriving' \in [Conns -> Seq(Chunks)] /\ reader' \in [Conns -> Readers]
    BY <1>1, <1>3, <1>4, <1>5, FlowTypes
  <2>2. QED BY <1>1, <2>1 DEF Safe, FlowType, QueueBound
<1>7. ReadersFit'
  <2>1. reader'[k] = r /\ \A j \in Conns : j # k => reader'[j] = reader[j]
    BY <1>4, FlowTypes
  <2>2. QED BY <1>1, <1>2, <1>3, <1>5, <2>1 DEF Safe, ReadersFit
<1>8. GoroutinesFit' BY <1>1, GoroutinesSame DEF Safe
<1>9. calm' \in BOOLEAN BY <1>1 DEF Safe, StateType
<1>10. QED BY <1>1, <1>2, <1>6, <1>7, <1>8, <1>9, SafeFlow

(* A send to a closed queue is a panic that needs no cause.                *)
LEMMA SafeReaderSends ==
  ASSUME Safe, NEW k \in Conns, ReaderSends(k)
  PROVE  Safe'
<1> DEFINE q == reader[k].made
           d == reader[k].data[1]
           r == [reader[k] EXCEPT !.pc = "wait", !.data = <<>>]
<1>1. reader[k].pc = "send" BY DEF ReaderSends
<1>2. crashed = "no" /\ q # 0 /\ reader[k].made # 0 /\ Len(reader[k].data) = 1
  BY <1>1 DEF Safe, ReadersFit
<1>3. q \in Conns BY <1>2, FlowTypes, SizesAssumption DEF Conns
<1>4. CASE q \in closedQueues
  <2>1. Panic("sendClosed") /\ closers' = closers BY <1>4 DEF ReaderSends
  <2>2. closers' \in [Conns -> Nat] BY <2>1 DEF Safe, FlowType
  <2>3. QED BY <2>1, <2>2, Halts
<1>5. CASE q \notin closedQueues
  <2>1. /\ Len(buffered[q]) < QueueSize
        /\ buffered' = [buffered EXCEPT ![q] = Append(@, d)]
        /\ reader' = [reader EXCEPT ![k].pc = "wait", ![k].data = <<>>]
        /\ UNCHANGED <<wsConn, queue, closeCtx, closedQueues, cancelled, closedConns>>
        /\ UNCHANGED <<got, at, connects, closers, crashed, sent, peer, arriving, session, calm>>
        /\ refused' = refused
    BY <1>5 DEF ReaderSends, HasRoom, fields, network, history
  <2>2. reader' = [reader EXCEPT ![k] = r] BY <2>1, FlowTypes
  <2>3. d \in Chunks BY <1>2, FlowTypes, ElementOfSeq
  <2>4. <<>> \in Seq(Chunks) BY EmptySeq
  <2>5. r \in Readers /\ r.pc = "wait" /\ r.made = reader[k].made
    <3>1. reader[k] \in Readers BY FlowTypes
    <3>2. QED BY <2>4, <3>1, ReaderIs
  <2> HIDE DEF d, r, q
  <2>6. /\ Append(buffered[q], d) \in Seq(Chunks)
        /\ Len(Append(buffered[q], d)) = Len(buffered[q]) + 1
    BY <1>3, <2>3, FlowTypes, AppendProperties
  <2>7. FlowType'
    <3>1. buffered' \in [Conns -> Seq(Chunks)]
      <4>1. buffered' = [buffered EXCEPT ![q] = Append(buffered[q], d)] BY <2>1
      <4>2. QED BY <1>3, <2>6, <4>1, FlowTypes
    <3>2. reader' \in [Conns -> Readers] BY <2>2, <2>5, FlowTypes
    <3>3. QED BY <2>1, <3>1, <3>2 DEF Safe, FlowType
  <2>8. QueueBound'
    <3>1. /\ buffered'[q] = Append(buffered[q], d)
          /\ \A j \in Conns : j # q => buffered'[j] = buffered[j]
      BY <1>3, <2>1, FlowTypes
    <3>2. Len(buffered[q]) \in Nat BY <1>3, FlowTypes
    <3>3. Len(buffered'[q]) <= QueueSize BY <2>1, <2>6, <3>1, <3>2, SizesAssumption
    <3>4. QED BY <3>1, <3>3 DEF Safe, QueueBound
  <2>9. ReadersFit'
    <3>1. reader'[k] = r /\ \A j \in Conns : j # k => reader'[j] = reader[j]
      BY <2>2, FlowTypes
    <3>2. QED BY <1>2, <2>1, <2>5, <3>1 DEF Safe, ReadersFit
  <2>10. GoroutinesFit' BY <2>1, GoroutinesSame DEF Safe
  <2>11. calm' \in BOOLEAN BY <2>1 DEF Safe, StateType
  <2>12. QED BY <1>2, <2>1, <2>7, <2>8, <2>9, <2>10, <2>11, SafeFlow
<1>6. QED BY <1>4, <1>5

LEMMA SafeReaderEnds ==
  ASSUME Safe, NEW k \in Conns, ReaderEnds(k)
  PROVE  Safe'
<1> DEFINE r == [reader[k] EXCEPT !.pc = "done", !.data = <<>>]
<1>1. /\ reader[k].pc = "wait"
      /\ reader' = [reader EXCEPT ![k].pc = "done", ![k].data = <<>>]
      /\ arriving' = [arriving EXCEPT ![k] = <<>>]
      /\ UNCHANGED <<wsConn, queue, closeCtx, buffered, closedQueues, cancelled, closedConns>>
      /\ UNCHANGED <<got, at, connects, closers, crashed, sent, peer, session, calm>>
      /\ refused' = refused
  BY DEF ReaderEnds, fields, objects, history
<1>2. crashed = "no" BY <1>1 DEF Safe, ReadersFit
<1>3. reader' = [reader EXCEPT ![k] = r] BY <1>1, FlowTypes
<1>4. <<>> \in Seq(Chunks) BY EmptySeq
<1>5. r \in Readers /\ r.pc = "done" BY <1>4, FlowTypes, ReaderIs
<1> HIDE DEF r
<1>6. FlowType' /\ QueueBound'
  <2>1. arriving' \in [Conns -> Seq(Chunks)] /\ reader' \in [Conns -> Readers]
    BY <1>1, <1>3, <1>4, <1>5, FlowTypes
  <2>2. QED BY <1>1, <2>1 DEF Safe, FlowType, QueueBound
<1>7. ReadersFit'
  <2>1. reader'[k] = r /\ \A j \in Conns : j # k => reader'[j] = reader[j]
    BY <1>3, FlowTypes
  <2>2. QED BY <1>1, <1>5, <2>1 DEF Safe, ReadersFit
<1>8. GoroutinesFit' BY <1>1, GoroutinesSame DEF Safe
<1>9. calm' \in BOOLEAN BY <1>1 DEF Safe, StateType
<1>10. QED BY <1>1, <1>2, <1>6, <1>7, <1>8, <1>9, SafeFlow

(* The queue that a loop reads.                                            *)
LEMMA ReadsQueue ==
  ASSUME Safe, NEW g \in Goroutines, at[g].pc = "read"
  PROVE  at[g].copy.queue \in Conns /\ at[g].copy.ctx = at[g].copy.queue /\ crashed = "no"
<1>1. at[g].copy.queue = at[g].copy.ctx /\ at[g].copy.ctx # 0
  BY DEF Safe, GoroutinesFit, CopiesFit, Working
<1>2. QED BY <1>1, ContextOf, SizesAssumption, Running DEF Safe, Conns

(* Without a session recv panics, which needs a negotiation that failed.   *)
LEMMA NoSessionHalts ==
  ASSUME Safe, NEW k \in Conns, at[Recv(k)].pc = "read", ~session,
         Panic("noSession"), closers' = closers
  PROVE  Safe'
<1>1. closers' \in [Conns -> Nat] BY DEF Safe, FlowType
<1>2. ~calm BY DEF Safe, GoroutinesFit, SessionFits
<1>3. QED BY <1>1, <1>2, Halts

(* What a chunk does to the queue it is taken from and to the loop.        *)
LEMMA SafeTaken ==
  ASSUME Safe, NEW g \in Goroutines, at[g].pc = "read", NEW c, Right(c),
         at' = [at EXCEPT ![g] = c],
         LET q == at[g].copy.queue IN
         buffered[q] # <<>> /\ buffered' = [buffered EXCEPT ![q] = Tail(@)],
         got' \in [Conns -> Seq(Kept)], calm' => calm, calm' \in BOOLEAN,
         UNCHANGED <<fields, closedQueues, cancelled, closedConns, network, reader>>,
         UNCHANGED <<connects, closers, crashed, session>>, refused' = refused
  PROVE  Safe'
<1> DEFINE q == at[g].copy.queue
<1>1. q \in Conns /\ crashed = "no" BY ReadsQueue
<1>2. /\ buffered[q] # <<>> /\ buffered' = [buffered EXCEPT ![q] = Tail(@)]
      /\ UNCHANGED <<wsConn, queue, closeCtx, peer, sent, arriving>>
  BY DEF fields, network
<1> HIDE DEF q
<1>3. /\ Tail(buffered[q]) \in Seq(Chunks) /\ Len(buffered[q]) \in Nat
      /\ Len(Tail(buffered[q])) = Len(buffered[q]) - 1
  BY <1>1, <1>2, FlowTypes, Chunked
<1>4. buffered' \in [Conns -> Seq(Chunks)] BY <1>1, <1>2, <1>3, FlowTypes
<1>5. FlowType' BY <1>2, <1>4 DEF Safe, FlowType
<1>6. QueueBound'
  <2>1. /\ buffered'[q] = Tail(buffered[q])
        /\ \A j \in Conns : j # q => buffered'[j] = buffered[j]
    BY <1>1, <1>2, FlowTypes
  <2>2. Len(buffered[q]) <= QueueSize BY <1>1, FlowTypes
  <2>3. Len(buffered'[q]) <= QueueSize BY <1>3, <2>1, <2>2, SizesAssumption
  <2>4. QED BY <2>1, <2>3 DEF Safe, QueueBound
<1>7. ReadersFit' BY DEF Safe, ReadersFit
<1>8. GoroutinesFit' BY <1>1, Moves DEF Safe
<1>9. QED BY <1>1, <1>2, <1>5, <1>6, <1>7, <1>8, SafeFlow

LEMMA SafeRecvReads ==
  ASSUME Safe, NEW k \in Conns, RecvReads(k)
  PROVE  Safe'
<1> DEFINE g == Recv(k)
           q == at[g].copy.queue
           b == Head(buffered[q])
<1>1. at[g].pc = "read" /\ buffered[q] # <<>> /\ g \in Goroutines BY Names DEF RecvReads
<1>2. b \in Chunks BY <1>1, ReadsQueue, FlowTypes, Chunked
<1>3. PICK kind \in Kinds :
        IF NeedsSession(kind) /\ ~session THEN Panic("noSession") /\ UNCHANGED closers
        ELSE /\ buffered' = [buffered EXCEPT ![q] = Tail(@)]
             /\ calm' = (calm /\ kind # "error")
             /\ got' = IF calm' THEN [got EXCEPT ![k] = Append(@, [conn |-> b.conn, n |-> b.n])]
                       ELSE got
             /\ at' = [at EXCEPT ![g] =
                  CASE kind = "stanza"   -> [Idle EXCEPT !.pc = "next"]
                    [] kind = "bad"      -> [Idle EXCEPT !.pc = "dial"]
                    [] kind = "conflict" -> [Idle EXCEPT !.pc = "kicked"]
                    [] kind = "error"    -> [Idle EXCEPT !.pc = "kicked", !.after = "again"]]
             /\ UNCHANGED <<fields, closedQueues, cancelled, closedConns, network, reader,
                            connects, closers, refused, crashed, session>>
  BY <1>2 DEF RecvReads, Chunks
<1>4. CASE NeedsSession(kind) /\ ~session
  <2>1. Panic("noSession") /\ closers' = closers BY <1>3, <1>4
  <2>2. QED BY <1>1, <1>4, <2>1, NoSessionHalts
<1>5. CASE ~(NeedsSession(kind) /\ ~session)
  <2> DEFINE c == CASE kind = "stanza"   -> [Idle EXCEPT !.pc = "next"]
                    [] kind = "bad"      -> [Idle EXCEPT !.pc = "dial"]
                    [] kind = "conflict" -> [Idle EXCEPT !.pc = "kicked"]
                    [] kind = "error"    -> [Idle EXCEPT !.pc = "kicked", !.after = "again"]
             m == [conn |-> b.conn, n |-> b.n]
  <2>1. m \in Kept BY <1>2 DEF Kept, Chunks
  <2>2. /\ buffered' = [buffered EXCEPT ![q] = Tail(@)]
        /\ calm' = (calm /\ kind # "error")
        /\ got' = IF calm' THEN [got EXCEPT ![k] = Append(@, m)] ELSE got
        /\ at' = [at EXCEPT ![g] = c]
        /\ UNCHANGED <<fields, closedQueues, cancelled, closedConns, network, reader>>
        /\ UNCHANGED <<connects, closers, crashed, session>> /\ refused' = refused
    BY <1>3, <1>5
  <2>3. Right(c)
    <3> DEFINE n == [Idle EXCEPT !.pc = "next"]
               d == [Idle EXCEPT !.pc = "dial"]
               x == [Idle EXCEPT !.pc = "kicked"]
               y == [Idle EXCEPT !.pc = "kicked", !.after = "again"]
    <3>1. n \in Contexts /\ n.pc = "next" /\ d \in Contexts /\ d.pc = "dial"
      BY IdlePc DEF PCs
    <3>2. x \in Contexts /\ x.pc = "kicked" /\ y \in Contexts /\ y.pc = "kicked"
      BY IdlePc, IdleContext DEF PCs
    <3>3. c \in {n, d, x, y} BY DEF Kinds
    <3> HIDE DEF n, d, x, y, c
    <3>4. QED BY <3>1, <3>2, <3>3 DEF Right, Working
  <2> HIDE DEF c, m
  <2>4. got' \in [Conns -> Seq(Kept)]
    <3>1. Append(got[k], m) \in Seq(Kept) BY <2>1, FlowTypes, AppendProperties
    <3>2. QED BY <2>2, <3>1, FlowTypes
  <2>5. calm' \in BOOLEAN /\ (calm' => calm) BY <2>2 DEF Safe, StateType
  <2>6. QED BY <1>1, <2>2, <2>3, <2>4, <2>5, SafeTaken
<1>6. QED BY <1>4, <1>5

LEMMA SafeDrainReads ==
  ASSUME Safe, NEW k \in Conns, DrainReads(k)
  PROVE  Safe'
<1> DEFINE g == Drain(k)
           q == at[g].copy.queue
<1>1. /\ at[g].pc = "read" /\ buffered[q] # <<>> /\ buffered' = [buffered EXCEPT ![q] = Tail(@)]
      /\ UNCHANGED <<fields, closedQueues, cancelled, closedConns, network, got, reader>>
      /\ UNCHANGED <<connects, closers, crashed, session, calm>> /\ refused' = refused
  BY DEF DrainReads, history
<1>2. g \in Goroutines BY Names
<1>3. PICK pc \in Nexts : Proceed(g, pc) BY DEF DrainReads, Nexts
<1>4. PICK c : Right(c) /\ at' = [at EXCEPT ![g] = c] BY <1>2, <1>3, ProceedRight DEF Safe
<1>5. /\ got' \in [Conns -> Seq(Kept)] /\ calm' \in BOOLEAN /\ (calm' => calm)
  BY <1>1 DEF Safe, FlowType, StateType
<1>6. QED BY <1>1, <1>2, <1>4, <1>5, SafeTaken

(* What else the loops, keepalive and the application do.                  *)
LEMMA SafeClient ==
  ASSUME Safe, NEW k \in Conns,
         \/ ManagerCloses(k) \/ RecvClosesAgain(k) \/ RecvFails(k) \/ DrainFails(k)
         \/ PingFails(k) \/ KeepaliveQuits(k) \/ UserDisconnects
  PROVE  Safe'
<1>1. /\ Recv(k) \in Goroutines /\ Drain(k) \in Goroutines /\ Keepalive(k) \in Goroutines
      /\ User \in Goroutines
  BY Names
<1>2. CASE ManagerCloses(k) \/ RecvClosesAgain(k) \/ PingFails(k) \/ UserDisconnects
  <2>1. PICK g \in Goroutines, then \in Nexts :
          /\ at[g].pc # "none" \/ (g = User /\ crashed = "no")
          /\ Close(g, then)
    <3>1. CASE ManagerCloses(k)
      <4>1. \E then \in Nexts : at[Recv(k)].pc # "none" /\ Close(Recv(k), then)
        BY <3>1 DEF ManagerCloses, Nexts
      <4>2. QED BY <1>1, <4>1
    <3>2. CASE RecvClosesAgain(k) BY <1>1, <3>2 DEF RecvClosesAgain, Nexts
    <3>3. CASE PingFails(k) BY <1>1, <3>3 DEF PingFails, Nexts
    <3>4. CASE UserDisconnects BY <1>1, <3>4 DEF UserDisconnects, Nexts
    <3>5. QED BY <1>2, <3>1, <3>2, <3>3, <3>4
  <2>2. crashed = "no" BY <2>1, Running
  <2>3. QED BY <2>1, <2>2, SafeClose
<1>3. CASE RecvFails(k) /\ ~session
  <2>1. Panic("noSession") /\ closers' = closers /\ at[Recv(k)].pc = "read"
    BY <1>3 DEF RecvFails, ReadFails
  <2>2. QED BY <1>3, <2>1, NoSessionHalts
<1>4. CASE (RecvFails(k) /\ session) \/ DrainFails(k) \/ KeepaliveQuits(k)
  <2>1. PICK g \in Goroutines, pc \in Nexts :
          /\ at[g].pc # "none" /\ Proceed(g, pc)
          /\ UNCHANGED <<fields, objects, network, got, reader, history>>
    BY <1>1, <1>4 DEF RecvFails, DrainFails, ReadFails, KeepaliveQuits, Nexts
  <2>2. /\ session' = session /\ calm' = calm /\ UNCHANGED <<connects, closers, refused, crashed>>
    BY <2>1 DEF history
  <2>3. QED BY <2>1, <2>2, SafeProceed
<1>5. QED BY <1>2, <1>3, <1>4

-----------------------------------------------------------------------------
(* Safe is an invariant, and so what causes a panic.                       *)

(* Safe holds before the first Connect.                                    *)
LEMMA SafeInit == Init => Safe
<1> SUFFICES ASSUME Init PROVE Safe OBVIOUS
<1>1. 0 \in 0 .. MaxConnects BY SizesAssumption
<1>2. StateType BY <1>1 DEF Init, StateType
<1>3. <<>> \in Seq(Chunks) /\ <<>> \in Seq(Kept) /\ Len(<<>>) = 0 BY EmptySeq
<1>4. NoReader \in Readers /\ NoReader.pc = "none" BY <1>1, <1>3 DEF NoReader, Readers
<1>5. FlowType BY <1>3, <1>4 DEF Init, FlowType
<1>6. QueueBound /\ ReadersFit
  <2>1. \A k \in Conns : Len(buffered[k]) = 0 /\ reader[k].pc = "none"
    BY <1>3, <1>4 DEF Init
  <2>2. QED BY <2>1, SizesAssumption DEF QueueBound, ReadersFit
<1>7. GoroutinesFit
  <2> DEFINE d == [Idle EXCEPT !.pc = "dial"]
  <2>1. d \in Contexts /\ d.pc = "dial" BY IdlePc DEF PCs
  <2>2. at = [g \in Goroutines |-> IF g = App THEN d ELSE Idle] BY DEF Init
  <2> HIDE DEF d
  <2>3. GoroutineType BY <2>1, <2>2, IdleType DEF GoroutineType
  <2>4. \A g \in Goroutines : at[g].pc \in {"dial", "none"} /\ (g # App => at[g].pc = "none")
    BY <2>1, <2>2, IdleType
  <2>5. CopiesFit /\ Stopped BY <2>4 DEF CopiesFit, Stopped, Working, Init
  <2>6. SessionFits BY <2>4, Names DEF SessionFits
  <2>7. QED BY <2>3, <2>5, <2>6 DEF GoroutinesFit
<1>8. FieldsFit BY DEF Init, FieldsFit
<1>9. Causes
  BY DEF Init, Causes, ClosesCounted, SingleCloseIsSafe, NilNeedsNoConnection, NoSessionNeedsFailure
<1>10. QED BY <1>2, <1>5, <1>6, <1>7, <1>8, <1>9 DEF Safe

(* And it is kept by every step.                                           *)
LEMMA SafeNext == Safe /\ [Next]_vars => Safe'
<1> SUFFICES ASSUME Safe, [Next]_vars PROVE Safe' OBVIOUS
<1>1. ASSUME NEW g \in Goroutines, Transport(g) PROVE Safe' BY <1>1, SafeTransport
<1>2. ASSUME NEW k \in Conns,
             \/ ServerSends(k) \/ ServerLeaves(k)
             \/ ReaderTakes(k) \/ ReaderSends(k) \/ ReaderEnds(k)
             \/ RecvReads(k) \/ DrainReads(k)
      PROVE  Safe'
  BY <1>2, SafeServerSends, SafeServerLeaves, SafeReaderTakes, SafeReaderSends, SafeReaderEnds,
     SafeRecvReads, SafeDrainReads
<1>3. ASSUME NEW k \in Conns,
             \/ ManagerCloses(k) \/ RecvClosesAgain(k) \/ RecvFails(k) \/ DrainFails(k)
             \/ PingFails(k) \/ KeepaliveQuits(k)
      PROVE  Safe'
  BY <1>3, SafeClient
<1>4. ASSUME UserDisconnects PROVE Safe'
  <2>1. 1 \in Conns BY SizesAssumption DEF Conns
  <2>2. QED BY <1>4, <2>1, SafeClient
<1>5. ASSUME UNCHANGED vars PROVE Safe'
  <2>1. /\ UNCHANGED <<wsConn, queue, closeCtx, buffered, closedQueues, cancelled, closedConns>>
        /\ UNCHANGED <<peer, sent, arriving, got, reader, at, connects, closers, crashed>>
        /\ UNCHANGED <<session, calm>> /\ refused' = refused
    BY <1>5 DEF vars, fields, objects, network, history
  <2>2. GoroutinesFit' BY <2>1, GoroutinesSame DEF Safe
  <2>3. StateType' /\ FlowType' /\ QueueBound' /\ ReadersFit'
    BY <2>1 DEF Safe, StateType, FlowType, QueueBound, ReadersFit
  <2>4. FieldsFit' BY <2>1 DEF Safe, FieldsFit
  <2>5. Causes'
    BY <2>1
    DEF Safe, Causes, ClosesCounted, SingleCloseIsSafe, NilNeedsNoConnection, NoSessionNeedsFailure
  <2>6. QED BY <2>2, <2>3, <2>4, <2>5 DEF Safe
<1>6. QED BY <1>1, <1>2, <1>3, <1>4, <1>5 DEF Next

(* What a goroutine works on was made by one Connect, the queue and the    *)
(* context of the fields too, and a queue that is closed was counted.      *)
THEOREM SafeInvariance == Spec => []Safe
<1>1. QED BY SafeInit, SafeNext, PTL DEF Spec

(* Whatever fails and however many goroutines connect: the queue is closed *)
(* twice only by two calls for one Connect, nil is met only without a      *)
(* connection, and no session only after a failed negotiation (Close,      *)
(* Ping, Write, recv).                                                     *)
THEOREM PanicsExplained == Spec => []PanicsHaveCauses
<1>1. Safe => TypeOK
  <2> SUFFICES ASSUME Safe PROVE TypeOK OBVIOUS
  <2>1. \A k \in Conns : buffered[k] \in Seq(Chunks) /\ Len(buffered[k]) <= QueueSize
    BY DEF Safe, FlowType, QueueBound
  <2>2. \A k \in Conns : reader[k].pc \in {"none", "wait", "send", "done"}
    BY DEF Safe, FlowType, Readers
  <2>3. at \in [Goroutines -> [pc : PCs, copy : Copies, then : Nexts, after : {"done", "again"}]]
    BY DEF Safe, GoroutinesFit, GoroutineType, Contexts
  <2>4. /\ {wsConn, queue, closeCtx} \subseteq 0 .. MaxConnects
        /\ closedQueues \cup cancelled \cup closedConns \subseteq Conns
        /\ crashed \in {"no", "nil", "closeTwice", "sendClosed", "noSession"}
        /\ session \in BOOLEAN /\ calm \in BOOLEAN
    BY DEF Safe, StateType
  <2>5. QED BY <2>1, <2>2, <2>3, <2>4 DEF TypeOK
<1>2. Safe => PanicsHaveCauses BY <1>1 DEF PanicsHaveCauses, Safe, Causes
<1>3. QED BY <1>2, SafeInvariance, PTL

-----------------------------------------------------------------------------
(* What holds besides until recv reads a stream error other than a         *)
(* conflict or a negotiation fails.                                        *)

(* One goroutine at a time connects or reads: the one that runs the        *)
(* manager, then the recv it started, then the recv that one started.      *)
Connectors == {App} \cup {Recv(k) : k \in Conns}

Active(g) == at[g].pc \notin {"none", "done"}

OneConnector ==
  \A g, h \in Connectors : Active(g) /\ Active(h) => g = h

ClosingPCs == {"closeQueue", "closeConn"}

(* keepalive and the application only close, and no other loop reads.      *)
Roles ==
  /\ \A g \in Goroutines \ Connectors :
       /\ at[g].pc \in {"none", "tick", "closeQueue", "closeConn", "done"}
       /\ at[g].pc \in ClosingPCs => at[g].then = "done"
  /\ \A k \in Conns : at[Drain(k)].pc = "none"

(* No recv goes on with a packet after it reconnected.                     *)
NoneAgain == \A g \in Goroutines : at[g].after = "done"

(* What each step of a Connect finds in the fields.                        *)
ConnectFits ==
  /\ \A g \in Goroutines : at[g].pc \in {"dialling", "open"} =>
       /\ closeCtx # 0 /\ at[g].copy.conn = closeCtx
       /\ at[g].pc = "dialling" => reader[closeCtx].pc = "none"
       /\ at[g].pc = "open" => wsConn = closeCtx
  /\ crashed = "no" => \A k \in Conns : k > connects => reader[k].pc = "none"

(* A recv reads the queue of its own connection.                           *)
InRecv(c) ==
  \/ c.pc \in {"next", "read", "kicked", "again"}
  \/ c.pc \in ClosingPCs /\ c.then \in {"again", "next"}

RecvFits ==
  /\ ~InRecv(at[App])
  /\ \A k \in Conns : InRecv(at[Recv(k)]) => closeCtx = k /\ wsConn = k
  /\ \A k \in Conns : at[Recv(k)].pc = "read" => at[Recv(k)].copy.queue = k

Places == OneConnector /\ Roles /\ NoneAgain /\ ConnectFits /\ RecvFits

(* The queue and context of the fields are those of the last Connect.      *)
LastMade == closeCtx \in {0, connects} /\ (wsConn # 0 => closeCtx # 0)

(* A reader feeds the queue made with its connection.                      *)
ReadersOwn == \A k \in Conns : reader[k].pc \in {"wait", "send"} => reader[k].made = k

(* s holds messages of connection k, numbered after m.                     *)
Numbered(s, k, m) == \A i \in 1 .. Len(s) : s[i].conn = k /\ s[i].n = m + i

(* How many messages of connection k left the network, by where they are.  *)
Taken(k) == Len(got[k]) + Len(buffered[k]) + Len(reader[k].data)

(* The messages of a connection between the server and its decoder.        *)
Flow(k) ==
  /\ \A i \in 1 .. Len(got[k]) : got[k][i] = [conn |-> k, n |-> i]
  /\ Numbered(buffered[k], k, Len(got[k]))
  /\ Len(reader[k].data) = IF reader[k].pc = "send" THEN 1 ELSE 0
  /\ reader[k].pc = "send" =>
       /\ reader[k].data[1].conn = k
       /\ reader[k].data[1].n = Len(got[k]) + Len(buffered[k]) + 1
  /\ Numbered(arriving[k], k, Taken(k))
  /\ reader[k].pc # "done" => sent[k] = Taken(k) + Len(arriving[k])

Flows == \A k \in Conns : Flow(k)

CalmInv == Places /\ LastMade /\ ReadersOwn /\ Flows

-----------------------------------------------------------------------------
(* The goroutines of a calm client.                                        *)

LEMMA ConnectorNames ==
  /\ App \in Connectors /\ Connectors \subseteq Goroutines
  /\ User \in Goroutines \ Connectors
  /\ \A k \in Conns : /\ Recv(k) \in Connectors /\ Recv(k) # App
                      /\ Keepalive(k) \in Goroutines \ Connectors
                      /\ Drain(k) \in Goroutines \ Connectors
                      /\ Drain(k) # User /\ Drain(k) # App
  /\ \A g \in Connectors : g = App \/ \E k \in Conns : g = Recv(k)
  /\ \A j, k \in Conns : /\ Recv(j) = Recv(k) => j = k
                         /\ Recv(j) # Keepalive(k) /\ Recv(j) # Drain(k)
                         /\ Drain(j) # Keepalive(k)
BY DEF Connectors, App, User, Recv, Drain, Keepalive, ReadLoops, Goroutines

(* Where a goroutine may go with the fields as they are.                   *)
Fits(g, c) ==
  /\ c.pc \notin {"dialling", "open"} /\ c.after = "done"
  /\ g \notin Connectors => /\ c.pc \in {"tick", "closeQueue", "closeConn", "done"}
                            /\ c.pc \in ClosingPCs => c.then = "done"
  /\ InRecv(c) => g # App /\ wsConn = closeCtx /\ g = Recv(closeCtx)
  /\ c.pc = "read" => c.copy.queue = closeCtx

(* A goroutine that runs or may begin to.                                  *)
MayGo(g) == at[g].pc # "none" \/ g = User

LEMMA PlacesMove ==
  ASSUME Safe, Places, NEW g \in Goroutines, g \in Connectors => Active(g), MayGo(g),
         NEW c, Fits(g, c), at' = [at EXCEPT ![g] = c],
         UNCHANGED <<wsConn, closeCtx, connects, crashed>>, reader' = reader
  PROVE  Places'
<1>1. at \in [Goroutines -> Contexts] BY DEF Safe, GoroutinesFit, GoroutineType
<1>2. at'[g] = c /\ \A h \in Goroutines : h # g => at'[h] = at[h] BY <1>1
<1>3. OneConnector'
  <2>1. \A h \in Connectors : Active(h)' => h = g \/ Active(h)
    BY <1>2, ConnectorNames DEF Active
  <2>2. QED BY <2>1 DEF OneConnector, Places
<1>4. Roles'
  <2>1. \A k \in Conns : Drain(k) \in Goroutines /\ Drain(k) # g
    BY ConnectorNames DEF Places, Roles, MayGo
  <2>2. \A k \in Conns : at'[Drain(k)].pc = "none" BY <1>2, <2>1 DEF Places, Roles
  <2>3. QED BY <1>2, <2>2 DEF Roles, Fits, Places
<1>5. NoneAgain' BY <1>2 DEF NoneAgain, Fits, Places
<1>6. ConnectFits' BY <1>2 DEF ConnectFits, Fits, Places
<1>7. RecvFits'
  <2>1. ~InRecv(at'[App]) BY <1>2, ConnectorNames DEF RecvFits, Fits, Places
  <2>2. ASSUME NEW k \in Conns, InRecv(at'[Recv(k)]) PROVE closeCtx = k /\ wsConn = k
    <3>1. CASE Recv(k) = g
      <4>1. wsConn = closeCtx /\ g = Recv(closeCtx) BY <1>2, <2>2, <3>1 DEF Fits
      <4>2. QED BY <4>1, <3>1, <2>2 DEF Recv
    <3>2. CASE Recv(k) # g BY <1>2, <2>2, <3>2, ConnectorNames DEF RecvFits, Places
    <3>3. QED BY <3>1, <3>2
  <2>3. ASSUME NEW k \in Conns, at'[Recv(k)].pc = "read" PROVE at'[Recv(k)].copy.queue = k
    <3>1. CASE Recv(k) = g
      <4>1. g = Recv(closeCtx) /\ c.copy.queue = closeCtx BY <1>2, <2>3, <3>1 DEF Fits, InRecv
      <4>2. QED BY <4>1, <3>1, <1>2 DEF Recv
    <3>2. CASE Recv(k) # g BY <1>2, <2>3, <3>2, ConnectorNames DEF RecvFits, Places
    <3>3. QED BY <3>1, <3>2
  <2>4. QED BY <2>1, <2>2, <2>3 DEF RecvFits
<1>8. QED BY <1>3, <1>4, <1>5, <1>6, <1>7 DEF Places

(* A panic leaves nothing of which CalmInv speaks but the fields.          *)
LEMMA CalmHalts ==
  ASSUME Safe, CalmInv, NEW why \in {"nil", "closeTwice", "sendClosed", "noSession"}, Panic(why)
  PROVE  CalmInv'
<1>1. /\ crashed' = why /\ at' = [g \in Goroutines |-> Idle]
      /\ reader' = [k \in Conns |-> [NoReader EXCEPT !.pc = "done"]]
      /\ buffered' = [k \in Conns |-> <<>>] /\ arriving' = [k \in Conns |-> <<>>]
      /\ got' = [k \in Conns |-> <<>>] /\ sent' = [k \in Conns |-> 0]
      /\ wsConn' = wsConn /\ closeCtx' = closeCtx /\ connects' = connects
  BY DEF Panic, fields
<1>2. \A g \in Goroutines : at'[g].pc = "none" /\ at'[g].after = "done" BY <1>1, IdleType
<1>3. OneConnector' /\ Roles' /\ NoneAgain'
  BY <1>2, ConnectorNames DEF OneConnector, Active, Roles, ClosingPCs, NoneAgain
<1>4. ConnectFits' BY <1>1, <1>2 DEF ConnectFits
<1>5. RecvFits' BY <1>2, ConnectorNames DEF RecvFits, InRecv, ClosingPCs
<1>6. LastMade' BY <1>1 DEF CalmInv, LastMade
<1>7. \A k \in Conns : reader'[k].pc = "done" /\ reader'[k].data = <<>> BY <1>1 DEF NoReader
<1>8. ReadersOwn' BY <1>7 DEF ReadersOwn
<1>9. Flows' BY <1>1, <1>7 DEF Flows, Flow, Numbered
<1>10. QED BY <1>3, <1>4, <1>5, <1>6, <1>8, <1>9 DEF CalmInv, Places

(* A connection none of whose messages move.                               *)
LEMMA FlowSame ==
  ASSUME NEW k \in Conns, Flow(k),
         got'[k] = got[k], buffered'[k] = buffered[k], reader'[k] = reader[k],
         arriving'[k] = arriving[k], sent'[k] = sent[k]
  PROVE  Flow(k)'
<1>1. Taken(k)' = Taken(k) BY DEF Taken
<1>2. /\ \A i \in 1 .. Len(got'[k]) : got'[k][i] = [conn |-> k, n |-> i]
      /\ Numbered(buffered'[k], k, Len(got'[k]))
      /\ Len(reader'[k].data) = IF reader'[k].pc = "send" THEN 1 ELSE 0
      /\ reader'[k].pc = "send" =>
           /\ reader'[k].data[1].conn = k
           /\ reader'[k].data[1].n = Len(got'[k]) + Len(buffered'[k]) + 1
  BY DEF Flow
<1>3. /\ Numbered(arriving'[k], k, Taken(k)')
      /\ reader'[k].pc # "done" => sent'[k] = Taken(k)' + Len(arriving'[k])
  BY <1>1 DEF Flow
<1>4. QED BY <1>2, <1>3 DEF Flow

(* No message moves and no reader.                                         *)
LEMMA FlowsSame ==
  ASSUME CalmInv, Places', UNCHANGED <<wsConn, closeCtx, connects>>,
         UNCHANGED <<buffered, arriving, got, reader, sent>>
  PROVE  CalmInv'
<1>1. LastMade' /\ ReadersOwn' BY DEF CalmInv, LastMade, ReadersOwn
<1>2. Flows' BY FlowSame DEF CalmInv, Flows
<1>3. QED BY <1>1, <1>2 DEF CalmInv

(* A goroutine that only goes where it fits.                               *)
LEMMA CalmMoves ==
  ASSUME Safe, CalmInv, NEW g \in Goroutines, g \in Connectors => Active(g), MayGo(g),
         NEW c, Fits(g, c), at' = [at EXCEPT ![g] = c],
         UNCHANGED <<wsConn, closeCtx, connects, crashed>>,
         UNCHANGED <<buffered, arriving, got, reader, sent>>
  PROVE  CalmInv'
<1>1. Places' BY PlacesMove DEF CalmInv
<1>2. QED BY <1>1, FlowsSame

(* Where Proceed and Close may take a goroutine.                           *)
LEMMA CalmProceed ==
  ASSUME Safe, CalmInv, NEW g \in Goroutines, g \in Connectors => Active(g), MayGo(g),
         NEW pc \in Nexts, g \notin Connectors => pc = "done",
         pc \in {"again", "next"} => g # App /\ wsConn = closeCtx /\ g = Recv(closeCtx),
         Proceed(g, pc),
         UNCHANGED <<wsConn, closeCtx, connects, crashed>>,
         UNCHANGED <<buffered, arriving, got, reader, sent>>
  PROVE  CalmInv'
<1>1. PICK c : /\ Right(c) /\ at' = [at EXCEPT ![g] = c] /\ c.pc = pc /\ c.then = "none"
               /\ c.after = IF pc = "dial" THEN at[g].after ELSE "done"
  BY ProceedRight DEF Safe
<1>2. c.after = "done" BY <1>1 DEF CalmInv, Places, NoneAgain
<1>3. Fits(g, c) BY <1>1, <1>2 DEF Fits, InRecv, ClosingPCs, Nexts
<1>4. QED BY <1>1, <1>3, CalmMoves

LEMMA CalmClose ==
  ASSUME Safe, CalmInv, NEW g \in Goroutines, g \in Connectors => Active(g), MayGo(g),
         NEW then \in Nexts, g \notin Connectors => then = "done",
         then \in {"again", "next"} => g # App /\ wsConn = closeCtx /\ g = Recv(closeCtx),
         Close(g, then)
  PROVE  CalmInv'
<1>1. CASE wsConn = 0 \/ closeCtx = 0
  <2>1. Panic("nil") BY <1>1 DEF Close
  <2>2. QED BY <2>1, CalmHalts
<1>2. CASE ~(wsConn = 0 \/ closeCtx = 0)
  <2>1. /\ at' = Closing(g, then) /\ UNCHANGED <<wsConn, closeCtx, connects, crashed>>
        /\ UNCHANGED <<buffered, arriving, got, reader, sent>>
    BY <1>2 DEF Close, fields, objects, network, history
  <2>2. PICK c : /\ at' = [at EXCEPT ![g] = c]
                 /\ c.pc = "closeQueue" /\ c.then = then /\ c.after = at[g].after
    BY <1>2, <2>1, ClosingRight DEF Safe
  <2>3. c.after = "done" BY <2>2 DEF CalmInv, Places, NoneAgain
  <2>4. Fits(g, c) BY <2>2, <2>3 DEF Fits, InRecv, ClosingPCs
  <2>5. QED BY <2>1, <2>2, <2>4, CalmMoves
<1>3. QED BY <1>1, <1>2

(* A recv that is in one of its own states runs with its connection.       *)
LEMMA RecvHolds ==
  ASSUME Safe, CalmInv, NEW k \in Conns, InRecv(at[Recv(k)])
  PROVE  /\ Recv(k) \in Goroutines /\ Recv(k) \in Connectors /\ Recv(k) # App
         /\ wsConn = closeCtx /\ closeCtx = k /\ k # 0
         /\ Active(Recv(k)) /\ MayGo(Recv(k)) /\ crashed = "no"
<1>1. Recv(k) \in Goroutines /\ Recv(k) \in Connectors /\ Recv(k) # App BY ConnectorNames
<1>2. wsConn = closeCtx /\ closeCtx = k BY DEF CalmInv, Places, RecvFits
<1>3. Active(Recv(k)) BY DEF Active, InRecv, ClosingPCs
<1>4. MayGo(Recv(k)) /\ crashed = "no" BY <1>1, <1>3, Running DEF Active, MayGo
<1>5. k # 0 BY DEF Conns
<1>6. QED BY <1>1, <1>2, <1>3, <1>4, <1>5

(* A goroutine that goes on after Close may be where it goes.              *)
LEMMA AfterClose ==
  ASSUME Safe, CalmInv, NEW g \in Goroutines, at[g].pc \in ClosingPCs
  PROVE  /\ g \notin Connectors => at[g].then = "done"
         /\ at[g].then \in {"again", "next"} => g # App /\ wsConn = closeCtx /\ g = Recv(closeCtx)
         /\ Active(g) /\ MayGo(g)
<1>1. g \notin Connectors => at[g].then = "done" BY DEF CalmInv, Places, Roles
<1>2. ASSUME at[g].then \in {"again", "next"}
      PROVE  g # App /\ wsConn = closeCtx /\ g = Recv(closeCtx)
  <2>1. InRecv(at[g]) BY <1>2 DEF InRecv
  <2>2. g # App BY <2>1 DEF CalmInv, Places, RecvFits
  <2>3. PICK k \in Conns : g = Recv(k) BY <1>1, <1>2, <2>2, ConnectorNames
  <2>4. closeCtx = k /\ wsConn = k BY <2>1, <2>3 DEF CalmInv, Places, RecvFits
  <2>5. QED BY <2>2, <2>3, <2>4
<1>3. Active(g) /\ MayGo(g) BY DEF Active, MayGo, ClosingPCs
<1>4. QED BY <1>1, <1>2, <1>3

-----------------------------------------------------------------------------
(* CalmInv is kept by the actions of Connect and Close.                    *)

(* CloseQueue leaves where the goroutine goes on.                          *)
LEMMA CalmCloseQueue ==
  ASSUME Safe, CalmInv, NEW g \in Goroutines, CloseQueue(g)
  PROVE  CalmInv'
<1>1. at[g].pc = "closeQueue" BY DEF CloseQueue
<1>2. CASE at[g].copy.queue \in closedQueues
  <2>1. Panic("closeTwice") BY <1>2 DEF CloseQueue
  <2>2. QED BY <2>1, CalmHalts
<1>3. CASE at[g].copy.queue \notin closedQueues
  <2> DEFINE c == [at[g] EXCEPT !.pc = "closeConn"]
  <2>1. /\ at' = [at EXCEPT ![g].pc = "closeConn"]
        /\ UNCHANGED <<wsConn, closeCtx, connects, crashed>>
        /\ UNCHANGED <<buffered, arriving, got, reader, sent>>
    BY <1>3 DEF CloseQueue, fields, network
  <2>2. at' = [at EXCEPT ![g] = c] BY <2>1
  <2>3. c.pc = "closeConn" /\ c.then = at[g].then /\ c.after = "done"
    BY ContextOf DEF Safe, Contexts, CalmInv, Places, NoneAgain
  <2>4. /\ g \notin Connectors => at[g].then = "done"
        /\ at[g].then \in {"again", "next"} => g # App /\ wsConn = closeCtx /\ g = Recv(closeCtx)
        /\ Active(g) /\ MayGo(g)
    BY <1>1, AfterClose DEF ClosingPCs
  <2> HIDE DEF c
  <2>5. Fits(g, c) BY <2>3, <2>4 DEF Fits, InRecv, ClosingPCs
  <2>6. QED BY <2>1, <2>2, <2>4, <2>5, CalmMoves
<1>4. QED BY <1>2, <1>3

LEMMA CalmCloseConn ==
  ASSUME Safe, CalmInv, NEW g \in Goroutines, CloseConn(g)
  PROVE  CalmInv'
<1>1. /\ at[g].pc = "closeConn" /\ Proceed(g, at[g].then)
      /\ UNCHANGED <<wsConn, closeCtx, connects, crashed>>
      /\ UNCHANGED <<buffered, arriving, got, reader, sent>>
  BY DEF CloseConn, fields, network, history
<1>2. /\ g \notin Connectors => at[g].then = "done"
      /\ at[g].then \in {"again", "next"} => g # App /\ wsConn = closeCtx /\ g = Recv(closeCtx)
      /\ Active(g) /\ MayGo(g)
  BY <1>1, AfterClose DEF ClosingPCs
<1>3. at[g].then \in Nexts BY ContextOf DEF Safe
<1>4. QED BY <1>1, <1>2, <1>3, CalmProceed

(* A goroutine that connects is a connector, and no other one runs.        *)
LEMMA Connecting ==
  ASSUME Safe, CalmInv, NEW g \in Goroutines, at[g].pc \in {"dial", "dialling", "open"}
  PROVE  /\ g \in Connectors /\ Active(g) /\ MayGo(g) /\ crashed = "no"
         /\ \A h \in Connectors \ {g} : at[h].pc \in {"none", "done"}
         /\ \A h \in Goroutines \ {g} : at[h].pc \notin {"dial", "dialling", "open"}
<1>1. \A h \in Goroutines : at[h].pc \in {"dial", "dialling", "open"} => h \in Connectors
  BY DEF CalmInv, Places, Roles
<1>2. Active(g) /\ MayGo(g) /\ crashed = "no" BY Running DEF Active, MayGo
<1>3. \A h \in Connectors \ {g} : at[h].pc \in {"none", "done"}
  BY <1>1, <1>2 DEF CalmInv, Places, OneConnector, Active
<1>4. QED BY <1>1, <1>2, <1>3

(* Where a goroutine that connects may go, with what it then finds.        *)
Attempts(g, c) ==
  /\ at[g].pc \in {"dial", "dialling", "open"} /\ at' = [at EXCEPT ![g] = c]
  /\ c.pc \in {"dialling", "open", "done"} /\ c.after = "done" /\ crashed' = crashed
  /\ c.pc \in {"dialling", "open"} => closeCtx' # 0 /\ c.copy.conn = closeCtx'
  /\ c.pc = "dialling" => reader'[closeCtx'].pc = "none"
  /\ c.pc = "open" => wsConn' = closeCtx'
  /\ \A k \in Conns : k > connects' => reader'[k].pc = "none"

(* The connection attempt of g: the other goroutines that run are those    *)
(* that only close.                                                        *)
LEMMA PlacesOfConnect ==
  ASSUME Safe, CalmInv, NEW g \in Goroutines, NEW c, Attempts(g, c)
  PROVE  Places'
<1>1. at \in [Goroutines -> Contexts] BY DEF Safe, GoroutinesFit, GoroutineType
<1>2. at'[g] = c /\ \A h \in Goroutines : h # g => at'[h] = at[h] BY <1>1 DEF Attempts
<1>3. /\ g \in Connectors /\ crashed = "no"
      /\ \A h \in Connectors \ {g} : at[h].pc \in {"none", "done"}
      /\ \A h \in Goroutines \ {g} : at[h].pc \notin {"dial", "dialling", "open"}
  BY Connecting DEF Attempts
<1>4. OneConnector' BY <1>2, <1>3, ConnectorNames DEF OneConnector, Active
<1>5. Roles'
  <2>1. \A h \in Goroutines \ Connectors : at'[h] = at[h] BY <1>2, <1>3
  <2>2. QED BY <2>1, ConnectorNames DEF CalmInv, Places, Roles
<1>6. NoneAgain' BY <1>2 DEF CalmInv, Places, NoneAgain, Attempts
<1>7. ConnectFits'
  <2>1. \A h \in Goroutines : at'[h].pc \in {"dialling", "open"} => h = g BY <1>2, <1>3
  <2>2. QED BY <2>1, <1>2 DEF ConnectFits, Attempts
<1>8. RecvFits'
  <2>1. \A h \in Connectors : at'[h].pc \in {"none", "done", "dialling", "open"}
    BY <1>2, <1>3, ConnectorNames DEF Attempts
  <2>2. QED BY <2>1, ConnectorNames DEF RecvFits, InRecv, ClosingPCs
<1>9. QED BY <1>4, <1>5, <1>6, <1>7, <1>8 DEF Places

(* The new queue and context are those of this Connect, whose reader is    *)
(* not started.                                                            *)
LEMMA CalmConnectBegins ==
  ASSUME Safe, CalmInv, NEW g \in Goroutines, ConnectBegins(g)
  PROVE  CalmInv'
<1> DEFINE k == connects + 1
           x == [conn |-> k, queue |-> k, ctx |-> k]
           c == [at[g] EXCEPT !.pc = "dialling", !.copy = x]
<1>1. /\ at[g].pc = "dial" /\ connects < MaxConnects
      /\ connects' = k /\ closeCtx' = k /\ at' = Dialling(g, k)
      /\ UNCHANGED <<wsConn, buffered, sent, arriving, got, reader, crashed>>
  BY DEF ConnectBegins, objects, network
<1>2. connects \in 0 .. MaxConnects /\ MaxConnects \in Nat
  BY SizesAssumption DEF Safe, StateType
<1>3. k \in Conns /\ k # 0 /\ k > connects BY <1>1, <1>2 DEF Conns
<1>4. \A j \in Conns : j > connects => reader[j].pc = "none"
  <2>1. crashed = "no" BY <1>1, Connecting
  <2>2. QED BY <2>1 DEF CalmInv, Places, ConnectFits
<1>5. \A j \in Conns : j > k => reader'[j].pc = "none"
  <2>1. \A j \in Conns : j > k => j > connects BY <1>2 DEF Conns
  <2>2. QED BY <2>1, <1>1, <1>4
<1> HIDE DEF k
<1>6. reader'[k].pc = "none" BY <1>1, <1>3, <1>4
<1>7. at' = [at EXCEPT ![g] = c] BY <1>1, ContextOf DEF Dialling, Safe
<1>8. c.pc = "dialling" /\ c.copy.conn = k /\ c.after = "done"
  BY ContextOf DEF Safe, Contexts, CalmInv, Places, NoneAgain
<1> HIDE DEF c
<1>9. Places'
  <2>1. at[g].pc \in {"dial", "dialling", "open"} /\ crashed' = crashed BY <1>1
  <2>2. c.pc \in {"dialling", "open", "done"} /\ c.pc # "open" BY <1>8
  <2>3. closeCtx' # 0 /\ c.copy.conn = closeCtx' BY <1>1, <1>3, <1>8
  <2>4. reader'[closeCtx'].pc = "none" BY <1>1, <1>6
  <2>5. \A j \in Conns : j > connects' => reader'[j].pc = "none" BY <1>1, <1>5
  <2>6. Attempts(g, c) BY <2>1, <2>2, <2>3, <2>4, <2>5, <1>7, <1>8 DEF Attempts
  <2>7. QED BY <2>6, PlacesOfConnect
<1>10. LastMade' BY <1>1, <1>3 DEF LastMade
<1>11. ReadersOwn' BY <1>1 DEF CalmInv, ReadersOwn
<1>12. Flows' BY <1>1, FlowSame DEF CalmInv, Flows
<1>13. QED BY <1>9, <1>10, <1>11, <1>12 DEF CalmInv

(* What a goroutine that dials finds.                                      *)
LEMMA AtDial ==
  ASSUME Safe, CalmInv, NEW g \in Goroutines, at[g].pc \in {"dialling", "open"}
  PROVE  /\ closeCtx \in Conns /\ closeCtx # 0 /\ connects = closeCtx
         /\ at[g].copy.conn = closeCtx
         /\ at[g].pc = "dialling" => reader[closeCtx].pc = "none"
         /\ at[g].pc = "open" => wsConn = closeCtx
<1>1. /\ closeCtx # 0 /\ at[g].copy.conn = closeCtx
      /\ at[g].pc = "dialling" => reader[closeCtx].pc = "none"
      /\ at[g].pc = "open" => wsConn = closeCtx
  BY DEF CalmInv, Places, ConnectFits
<1>2. closeCtx \in 0 .. MaxConnects /\ MaxConnects \in Nat BY SizesAssumption DEF Safe, StateType
<1>3. closeCtx \in Conns BY <1>1, <1>2 DEF Conns
<1>4. connects = closeCtx BY <1>1 DEF CalmInv, LastMade
<1>5. QED BY <1>1, <1>3, <1>4

LEMMA CalmSubprotocolMissing ==
  ASSUME Safe, CalmInv, NEW g \in Goroutines, SubprotocolMissing(g)
  PROVE  CalmInv'
<1>1. at[g].pc = "dialling" BY DEF SubprotocolMissing
<1>2. CASE queue \in closedQueues
  <2>1. Panic("closeTwice") BY <1>2 DEF SubprotocolMissing
  <2>2. QED BY <2>1, CalmHalts
<1>3. CASE queue \notin closedQueues
  <2>1. /\ wsConn' = 0 /\ closeCtx' = 0 /\ Proceed(g, at[g].after)
        /\ UNCHANGED <<buffered, sent, arriving, got, reader, connects, crashed>>
    BY <1>3 DEF SubprotocolMissing, network
  <2>2. at[g].after = "done" BY DEF CalmInv, Places, NoneAgain
  <2>3. PICK c : at' = [at EXCEPT ![g] = c] /\ c.pc = "done" /\ c.after = "done"
    BY <2>1, <2>2, ProceedRight DEF Safe, Nexts
  <2>4. \A k \in Conns : k > connects' => reader'[k].pc = "none"
    <3>1. crashed = "no" BY <1>1, Connecting
    <3>2. QED BY <2>1, <3>1 DEF CalmInv, Places, ConnectFits
  <2>5. Places'
    <3>1. at[g].pc \in {"dial", "dialling", "open"} /\ crashed' = crashed BY <1>1, <2>1
    <3>2. c.pc \in {"dialling", "open", "done"} /\ c.pc \notin {"dialling", "open"} BY <2>3
    <3>3. Attempts(g, c) BY <2>3, <2>4, <3>1, <3>2 DEF Attempts
    <3>4. QED BY <3>3, PlacesOfConnect
  <2>6. LastMade' BY <2>1 DEF LastMade
  <2>7. ReadersOwn' BY <2>1 DEF CalmInv, ReadersOwn
  <2>8. Flows' BY <2>1, FlowSame DEF CalmInv, Flows
  <2>9. QED BY <2>5, <2>6, <2>7, <2>8 DEF CalmInv
<1>4. QED BY <1>2, <1>3

(* The reader of the new connection has taken nothing.                     *)
LEMMA CalmDialled ==
  ASSUME Safe, CalmInv, NEW g \in Goroutines, Dialled(g)
  PROVE  CalmInv'
<1> DEFINE k == closeCtx
           r == [NoReader EXCEPT !.pc = "wait", !.made = closeCtx]
           x == [conn |-> at[g].copy.conn, queue |-> queue, ctx |-> closeCtx]
           c == [at[g] EXCEPT !.pc = "open", !.copy = x]
<1>1. at[g].pc = "dialling" BY DEF Dialled
<1>2. /\ k \in Conns /\ k # 0 /\ connects = k /\ reader[k].pc = "none"
      /\ at[g].copy.conn = k
  BY <1>1, AtDial
<1>3. /\ wsConn' = k /\ reader' = [reader EXCEPT ![k] = r]
      /\ at' = [at EXCEPT ![g].pc = "open", ![g].copy = x]
      /\ closeCtx' = k
      /\ UNCHANGED <<buffered, sent, arriving, got, connects, crashed>>
  BY <1>2 DEF Dialled, objects, history
<1>4. crashed = "no" BY <1>1, Connecting
<1>5. r.pc = "wait" /\ Len(r.data) = 0 /\ r.made = k
  <2>1. Len(<<>>) = 0 BY EmptySeq
  <2>2. QED BY <2>1 DEF NoReader
<1>6. at' = [at EXCEPT ![g] = c] BY <1>3, ContextOf DEF Safe
<1>7. c.pc = "open" /\ c.copy.conn = k /\ c.after = "done"
  BY <1>2, ContextOf DEF Safe, Contexts, CalmInv, Places, NoneAgain
<1> HIDE DEF c, x, r, k
<1>8. reader'[k] = r /\ \A j \in Conns : j # k => reader'[j] = reader[j]
  BY <1>2, <1>3, FlowTypes
<1>9. Places'
  <2>1. ASSUME NEW j \in Conns, j > connects' PROVE reader'[j].pc = "none"
    <3>1. j # k BY <1>2, <1>3, <2>1 DEF Conns
    <3>2. reader[j].pc = "none" BY <1>3, <1>4, <2>1 DEF CalmInv, Places, ConnectFits
    <3>3. QED BY <3>1, <3>2, <1>8
  <2>2. at[g].pc \in {"dial", "dialling", "open"} /\ crashed' = crashed BY <1>1, <1>3
  <2>3. c.pc \in {"dialling", "open", "done"} /\ c.pc # "dialling" BY <1>7
  <2>4. closeCtx' # 0 /\ c.copy.conn = closeCtx' /\ wsConn' = closeCtx' BY <1>2, <1>3, <1>7
  <2>5. Attempts(g, c) BY <1>6, <1>7, <2>1, <2>2, <2>3, <2>4 DEF Attempts
  <2>6. QED BY <2>5, PlacesOfConnect
<1>10. LastMade' BY <1>2, <1>3 DEF LastMade
<1>11. ReadersOwn' BY <1>5, <1>8 DEF CalmInv, ReadersOwn
<1>12. Flows'
  <2> SUFFICES ASSUME NEW j \in Conns PROVE Flow(j)' BY DEF Flows
  <2>1. Flow(j) BY DEF CalmInv, Flows
  <2>2. CASE j # k BY <2>1, <2>2, <1>3, <1>8, FlowSame
  <2>3. CASE j = k
    <3>1. Len(reader[j].data) = 0 BY <2>1, <2>3, <1>2 DEF Flow
    <3>2. reader'[j].pc = "wait" /\ Len(reader'[j].data) = 0 BY <2>3, <1>5, <1>8
    <3>3. /\ got'[j] = got[j] /\ buffered'[j] = buffered[j]
          /\ arriving'[j] = arriving[j] /\ sent'[j] = sent[j]
      BY <1>3
    <3>4. /\ \A i \in 1 .. Len(got'[j]) : got'[j][i] = [conn |-> j, n |-> i]
          /\ Numbered(buffered'[j], j, Len(got'[j]))
      BY <2>1, <3>3 DEF Flow
    <3>5. Taken(j)' = Taken(j) BY <3>1, <3>2, <3>3 DEF Taken
    <3>6. /\ Numbered(arriving'[j], j, Taken(j)')
          /\ sent'[j] = Taken(j)' + Len(arriving'[j])
      BY <2>1, <2>3, <3>3, <3>5, <1>2 DEF Flow
    <3>7. QED BY <3>2, <3>4, <3>6 DEF Flow
  <2>4. QED BY <2>2, <2>3
<1>13. QED BY <1>9, <1>10, <1>11, <1>12 DEF CalmInv

(* StartStream fails: Close goes on to the next attempt or nowhere.        *)
LEMMA CalmOpenFails ==
  ASSUME Safe, CalmInv, NEW g \in Goroutines, OpenNotSent(g) \/ NotOpened(g)
  PROVE  CalmInv'
<1>1. PICK then \in {"done", "dial"} :
        /\ at[g].pc = "open"
        /\ at' = [at EXCEPT ![g].pc = "closeQueue", ![g].then = then]
        /\ UNCHANGED <<wsConn, closeCtx, connects, crashed>>
        /\ UNCHANGED <<buffered, arriving, got, reader, sent>>
  BY DEF OpenNotSent, NotOpened, CalmInv, Places, NoneAgain, fields, objects, network, history
<1> DEFINE c == [at[g] EXCEPT !.pc = "closeQueue", !.then = then]
<1>2. at' = [at EXCEPT ![g] = c] BY <1>1, ContextOf DEF Safe
<1>3. c.pc = "closeQueue" /\ c.then = then /\ c.after = "done"
  BY ContextOf DEF Safe, Contexts, CalmInv, Places, NoneAgain
<1> HIDE DEF c
<1>4. g \in Connectors /\ Active(g) /\ MayGo(g) BY <1>1, Connecting
<1>5. Fits(g, c) BY <1>3, <1>4 DEF Fits, InRecv, ClosingPCs
<1>6. QED BY <1>1, <1>2, <1>4, <1>5, CalmMoves

(* The connector becomes, or starts, the recv of the connection the fields *)
(* hold.                                                                   *)
LEMMA CalmEstablished ==
  ASSUME Safe, CalmInv, NEW g \in Goroutines, Established(g)
  PROVE  CalmInv'
<1> DEFINE k == at[g].copy.conn
           e == [Idle EXCEPT !.pc = at[g].after]
           n == [Idle EXCEPT !.pc = "next"]
           t == [Idle EXCEPT !.pc = "tick"]
<1>1. /\ at[g].pc = "open"
      /\ at' = [at EXCEPT ![g] = e, ![Recv(k)] = n, ![Keepalive(k)] = t]
      /\ UNCHANGED <<wsConn, closeCtx, connects, crashed>>
      /\ UNCHANGED <<buffered, arriving, got, reader, sent>>
  BY DEF Established, fields, objects, network
<1>2. k \in Conns /\ closeCtx = k /\ wsConn = k BY <1>1, AtDial
<1>3. /\ g \in Connectors /\ crashed = "no"
      /\ \A h \in Connectors \ {g} : at[h].pc \in {"none", "done"}
      /\ \A h \in Goroutines \ {g} : at[h].pc \notin {"dial", "dialling", "open"}
  BY <1>1, Connecting
<1>4. at \in [Goroutines -> Contexts] /\ at[g].after = "done"
  BY ContextOf DEF Safe, CalmInv, Places, NoneAgain
<1>5. e.pc = "done" /\ e.after = "done" BY <1>4, IdlePc DEF PCs
<1>6. n.pc = "next" /\ n.after = "done" /\ t.pc = "tick" /\ t.after = "done"
  BY IdlePc DEF PCs
<1> HIDE DEF e, n, t, k
<1>7. /\ Recv(k) \in Connectors /\ Recv(k) # App /\ Recv(k) # Keepalive(k) /\ g # Keepalive(k)
      /\ Keepalive(k) \in Goroutines \ Connectors /\ Connectors \subseteq Goroutines
  BY <1>2, <1>3, ConnectorNames
<1>8. /\ at'[Recv(k)] = n /\ at'[Keepalive(k)] = t
      /\ g # Recv(k) => at'[g] = e
      /\ \A h \in Goroutines : h \notin {g, Recv(k), Keepalive(k)} => at'[h] = at[h]
  BY <1>1, <1>4, <1>7
<1>9. \A h \in Connectors : h # Recv(k) => at'[h].pc \in {"none", "done"}
  BY <1>3, <1>5, <1>7, <1>8
<1>10. Places'
  <2>1. OneConnector' BY <1>9 DEF OneConnector, Active
  <2>2. Roles'
    <3>1. \A h \in Goroutines \ Connectors : h # Keepalive(k) => at'[h] = at[h]
      BY <1>3, <1>7, <1>8
    <3>2. QED BY <1>2, <1>6, <1>8, <3>1, ConnectorNames DEF CalmInv, Places, Roles, ClosingPCs
  <2>3. NoneAgain' BY <1>5, <1>6, <1>7, <1>8 DEF CalmInv, Places, NoneAgain
  <2>4. ConnectFits'
    <3>1. \A h \in Goroutines : at'[h].pc \notin {"dialling", "open"} BY <1>3, <1>5, <1>6, <1>8
    <3>2. QED BY <3>1, <1>1 DEF CalmInv, Places, ConnectFits
  <2>5. RecvFits'
    <3>1. ~InRecv(at'[App]) BY <1>7, <1>9, ConnectorNames DEF InRecv, ClosingPCs
    <3>2. \A j \in Conns : j # k => at'[Recv(j)].pc \in {"none", "done"} BY <1>2, <1>9, ConnectorNames
    <3>3. QED BY <3>1, <3>2, <1>1, <1>2, <1>6, <1>8 DEF RecvFits, InRecv, ClosingPCs
  <2>6. QED BY <2>1, <2>2, <2>3, <2>4, <2>5 DEF Places
<1>11. QED BY <1>1, <1>10, FlowsSame

(* A loop of a calm client that reads is a recv.                           *)
LEMMA CalmBeginsRead ==
  ASSUME Safe, CalmInv, NEW g \in Goroutines, BeginsRead(g)
  PROVE  CalmInv'
<1>1. at[g].pc = "next" BY DEF BeginsRead
<1>2. PICK k \in Conns : g = Recv(k)
  <2>1. g \in Connectors BY <1>1 DEF CalmInv, Places, Roles
  <2>2. g # App BY <1>1 DEF CalmInv, Places, RecvFits, InRecv
  <2>3. QED BY <2>1, <2>2, ConnectorNames
<1>3. /\ g \in Connectors /\ g # App /\ wsConn = closeCtx /\ closeCtx = k /\ k # 0
      /\ Active(g) /\ MayGo(g)
  BY <1>1, <1>2, RecvHolds DEF InRecv
<1> DEFINE c == [at[g] EXCEPT !.pc = "read", !.copy = Fields]
<1>4. /\ at' = [at EXCEPT ![g].pc = "read", ![g].copy = Fields]
      /\ UNCHANGED <<wsConn, closeCtx, connects, crashed>>
      /\ UNCHANGED <<buffered, arriving, got, reader, sent>>
  BY <1>3 DEF BeginsRead, fields, objects, network, history
<1>5. at' = [at EXCEPT ![g] = c] BY <1>4, ContextOf DEF Safe
<1>6. c.pc = "read" /\ c.copy.queue = closeCtx /\ c.after = "done"
  <2>1. Fields.queue = closeCtx BY DEF Fields, Safe, FieldsFit
  <2>2. QED BY <2>1, ContextOf DEF Safe, Contexts, CalmInv, Places, NoneAgain
<1> HIDE DEF c
<1>7. Fits(g, c) BY <1>2, <1>3, <1>6 DEF Fits, InRecv, ClosingPCs
<1>8. QED BY <1>3, <1>4, <1>5, <1>7, CalmMoves

(* All of them; a negotiation that fails ends the calm or panics.          *)
LEMMA CalmTransport ==
  ASSUME Safe, CalmInv, NEW g \in Goroutines, Transport(g), calm'
  PROVE  CalmInv'
<1>1. CASE DialFails(g) \/ SetupFails(g)
  <2>1. PICK pc \in {"done", "dial"} :
          /\ Proceed(g, pc) /\ at[g].pc \in {"dialling", "open"}
          /\ UNCHANGED <<wsConn, closeCtx, connects, crashed>>
          /\ UNCHANGED <<buffered, arriving, got, reader, sent>>
    BY <1>1
    DEF DialFails, SetupFails, CalmInv, Places, NoneAgain, fields, objects, network, history
  <2>2. g \in Connectors /\ Active(g) /\ MayGo(g) BY <2>1, Connecting
  <2>3. pc \in Nexts BY DEF Nexts
  <2>4. QED BY <2>1, <2>2, <2>3, CalmProceed
<1>2. CASE SessionFails(g)
  <2>1. Panic("nil") BY <1>2 DEF SessionFails
  <2>2. QED BY <2>1, CalmHalts
<1>3. QED
  BY <1>1, <1>2, CalmCloseQueue, CalmCloseConn, CalmConnectBegins, CalmSubprotocolMissing,
     CalmDialled, CalmOpenFails, CalmEstablished, CalmBeginsRead
  DEF Transport

-----------------------------------------------------------------------------
(* CalmInv is kept by the network, the readers and those who read.         *)

(* The first of numbered messages, and the others.                         *)
LEMMA NumberedTail ==
  ASSUME NEW s \in Seq(Chunks), s # <<>>, NEW k, NEW m \in Nat, Numbered(s, k, m)
  PROVE  /\ Head(s) \in Chunks /\ Head(s).conn = k /\ Head(s).n = m + 1
         /\ Tail(s) \in Seq(Chunks) /\ Len(s) \in Nat \ {0} /\ Len(Tail(s)) = Len(s) - 1
         /\ Numbered(Tail(s), k, m + 1)
<1>1. /\ Head(s) \in Chunks /\ Tail(s) \in Seq(Chunks) /\ Len(Tail(s)) = Len(s) - 1
      /\ \A i \in 1 .. Len(Tail(s)) : Tail(s)[i] = s[i + 1]
      /\ Len(s) \in Nat \ {0}
  BY HeadTailProperties, EmptySeq
<1>2. Head(s) = s[1] OBVIOUS
<1>3. 1 \in 1 .. Len(s) /\ \A i \in 1 .. Len(Tail(s)) : i + 1 \in 1 .. Len(s) /\ m + (i + 1) = (m + 1) + i
  BY <1>1
<1>4. Head(s).conn = k /\ Head(s).n = m + 1 BY <1>2, <1>3 DEF Numbered
<1>5. Numbered(Tail(s), k, m + 1) BY <1>1, <1>3 DEF Numbered
<1>6. QED BY <1>1, <1>4, <1>5

(* One more numbered message.                                              *)
LEMMA NumberedAppend ==
  ASSUME NEW s \in Seq(Chunks), NEW k, NEW m \in Nat, Numbered(s, k, m),
         NEW c \in Chunks, c.conn = k, c.n = m + Len(s) + 1
  PROVE  /\ Append(s, c) \in Seq(Chunks) /\ Len(s) \in Nat /\ Len(Append(s, c)) = Len(s) + 1
         /\ Numbered(Append(s, c), k, m)
<1>1. /\ Append(s, c) \in Seq(Chunks) /\ Len(Append(s, c)) = Len(s) + 1
      /\ \A i \in 1 .. Len(s) : Append(s, c)[i] = s[i]
      /\ Append(s, c)[Len(s) + 1] = c
      /\ Len(s) \in Nat
  BY AppendProperties
<1>2. \A i \in 1 .. Len(Append(s, c)) : i \in 1 .. Len(s) \/ i = Len(s) + 1 BY <1>1
<1>3. m + (Len(s) + 1) = m + Len(s) + 1 BY <1>1
<1>4. Numbered(Append(s, c), k, m) BY <1>1, <1>2, <1>3 DEF Numbered
<1>5. QED BY <1>1, <1>4

(* The goroutines of the client are where they were.                       *)
LEMMA PlacesSame ==
  ASSUME Safe, Places,
         UNCHANGED <<at, wsConn, closeCtx, connects, crashed>>,
         \A j \in Conns : reader[j].pc = "none" => reader'[j].pc = "none"
  PROVE  Places'
<1>1. OneConnector' /\ Roles' /\ NoneAgain' /\ RecvFits'
  BY DEF Places, OneConnector, Active, Roles, NoneAgain, RecvFits, InRecv
<1>2. closeCtx # 0 => closeCtx \in Conns
  <2>1. closeCtx \in 0 .. MaxConnects /\ MaxConnects \in Nat
    BY SizesAssumption DEF Safe, StateType
  <2>2. QED BY <2>1 DEF Conns
<1>3. ConnectFits' BY <1>2 DEF Places, ConnectFits
<1>4. QED BY <1>1, <1>3 DEF Places

(* The messages of a connection, with their types.                         *)
LEMMA CalmFlow ==
  ASSUME Safe, CalmInv, NEW k \in Conns
  PROVE  Flow(k) /\ Taken(k) \in Nat
<1>1. Flow(k) BY DEF CalmInv, Flows
<1>2. Len(got[k]) \in Nat /\ Len(buffered[k]) \in Nat /\ Len(reader[k].data) \in Nat
  BY FlowTypes
<1>3. \A x, y, z \in Nat : x + y + z \in Nat OBVIOUS
<1>4. QED BY <1>1, <1>2, <1>3 DEF Taken

(* A step that moves messages of one connection.                           *)
LEMMA CalmFlows ==
  ASSUME CalmInv, NEW k \in Conns, UNCHANGED <<wsConn, closeCtx, connects>>, Places', Flow(k)',
         reader'[k].pc \in {"wait", "send"} => reader'[k].made = k,
         \A j \in Conns : j # k =>
           /\ buffered'[j] = buffered[j] /\ arriving'[j] = arriving[j] /\ got'[j] = got[j]
           /\ reader'[j] = reader[j] /\ sent'[j] = sent[j]
  PROVE  CalmInv'
<1>1. LastMade' BY DEF CalmInv, LastMade
<1>2. ReadersOwn' BY DEF CalmInv, ReadersOwn
<1>3. Flows'
  <2> SUFFICES ASSUME NEW j \in Conns, j # k PROVE Flow(j)' BY DEF Flows
  <2>1. Flow(j) BY DEF CalmInv, Flows
  <2>2. QED BY <2>1, FlowSame
<1>4. QED BY <1>1, <1>2, <1>3 DEF CalmInv

(* The next message is numbered after all that are on their way.           *)
LEMMA CalmServerSends ==
  ASSUME Safe, CalmInv, NEW k \in Conns, ServerSends(k)
  PROVE  CalmInv'
<1>1. PICK kind \in Packets :
        /\ reader[k].pc # "done"
        /\ sent' = [sent EXCEPT ![k] = @ + 1]
        /\ arriving' = [arriving EXCEPT ![k] = Append(@, [conn |-> k, n |-> sent'[k], kind |-> kind])]
        /\ UNCHANGED <<wsConn, closeCtx, connects, crashed, buffered, got, reader, at>>
  BY DEF ServerSends, fields, objects, history
<1> DEFINE c == [conn |-> k, n |-> sent[k] + 1, kind |-> kind]
<1>2. /\ sent \in [Conns -> Nat] /\ sent[k] \in Nat /\ Flow(k) /\ Taken(k) \in Nat
      /\ arriving \in [Conns -> Seq(Chunks)] /\ arriving[k] \in Seq(Chunks)
      /\ Len(arriving[k]) \in Nat
  BY FlowTypes, CalmFlow
<1>3. sent'[k] = sent[k] + 1 /\ \A j \in Conns : j # k => sent'[j] = sent[j] BY <1>1, <1>2
<1>4. c \in Chunks /\ c.conn = k /\ c.n = sent[k] + 1 BY <1>2, SizesAssumption DEF Chunks
<1>5. arriving' = [arriving EXCEPT ![k] = Append(arriving[k], c)] BY <1>1, <1>3
<1> HIDE DEF c
<1>6. sent[k] = Taken(k) + Len(arriving[k]) /\ Numbered(arriving[k], k, Taken(k))
  BY <1>1, <1>2 DEF Flow
<1>7. c.n = Taken(k) + Len(arriving[k]) + 1 BY <1>4, <1>6
<1>8. /\ Append(arriving[k], c) \in Seq(Chunks)
      /\ Len(Append(arriving[k], c)) = Len(arriving[k]) + 1
      /\ Numbered(Append(arriving[k], c), k, Taken(k))
  BY <1>2, <1>4, <1>6, <1>7, NumberedAppend
<1>9. /\ arriving'[k] = Append(arriving[k], c)
      /\ \A j \in Conns : j # k => arriving'[j] = arriving[j]
  BY <1>2, <1>5
<1>10. Places' BY <1>1, PlacesSame DEF CalmInv
<1>11. Flow(k)'
  <2>1. Taken(k)' = Taken(k) BY <1>1 DEF Taken
  <2>2. Numbered(arriving'[k], k, Taken(k)') BY <1>8, <1>9, <2>1
  <2>3. sent'[k] = Taken(k)' + Len(arriving'[k])
    <3>1. Len(arriving'[k]) = Len(arriving[k]) + 1 BY <1>8, <1>9
    <3>2. QED BY <2>1, <3>1, <1>2, <1>3, <1>6
  <2>4. /\ \A i \in 1 .. Len(got'[k]) : got'[k][i] = [conn |-> k, n |-> i]
        /\ Numbered(buffered'[k], k, Len(got'[k]))
        /\ Len(reader'[k].data) = IF reader'[k].pc = "send" THEN 1 ELSE 0
        /\ reader'[k].pc = "send" =>
             /\ reader'[k].data[1].conn = k
             /\ reader'[k].data[1].n = Len(got'[k]) + Len(buffered'[k]) + 1
    BY <1>1, <1>2 DEF Flow
  <2>5. QED BY <2>2, <2>3, <2>4 DEF Flow
<1>12. reader'[k].pc \in {"wait", "send"} => reader'[k].made = k
  BY <1>1 DEF CalmInv, ReadersOwn
<1>13. QED BY <1>1, <1>3, <1>9, <1>10, <1>11, <1>12, CalmFlows

(* The next message of the network is now that of the reader.              *)
LEMMA CalmReaderTakes ==
  ASSUME Safe, CalmInv, NEW k \in Conns, ReaderTakes(k)
  PROVE  CalmInv'
<1> DEFINE h == Head(arriving[k])
           e == <<h>>
           r == [reader[k] EXCEPT !.pc = "send", !.data = e]
<1>1. /\ reader[k].pc = "wait" /\ arriving[k] # <<>>
      /\ reader' = [reader EXCEPT ![k].pc = "send", ![k].data = e]
      /\ arriving' = [arriving EXCEPT ![k] = Tail(@)]
      /\ UNCHANGED <<wsConn, closeCtx, connects, crashed, buffered, got, at, sent>>
  BY DEF ReaderTakes, fields, objects, history
<1>2. /\ arriving \in [Conns -> Seq(Chunks)] /\ arriving[k] \in Seq(Chunks)
      /\ reader \in [Conns -> Readers] /\ reader[k] \in Readers /\ Taken(k) \in Nat /\ Flow(k)
      /\ Len(got[k]) \in Nat /\ Len(buffered[k]) \in Nat
  BY FlowTypes, CalmFlow
<1>3. /\ Numbered(arriving[k], k, Taken(k)) /\ Len(reader[k].data) = 0
      /\ sent[k] = Taken(k) + Len(arriving[k])
  BY <1>1, <1>2 DEF Flow
<1>4. /\ h \in Chunks /\ h.conn = k /\ h.n = Taken(k) + 1
      /\ Tail(arriving[k]) \in Seq(Chunks) /\ Len(arriving[k]) \in Nat \ {0}
      /\ Len(Tail(arriving[k])) = Len(arriving[k]) - 1
      /\ Numbered(Tail(arriving[k]), k, Taken(k) + 1)
  BY <1>1, <1>2, <1>3, NumberedTail
<1>5. reader' = [reader EXCEPT ![k] = r] BY <1>1, <1>2
<1> HIDE DEF h
<1>6. r.pc = "send" /\ Len(r.data) = 1 /\ r.data[1] = h /\ r.made = k
  <2>1. e \in Seq(Chunks) /\ Len(e) = 1 /\ e[1] = h BY <1>4
  <2> HIDE DEF e
  <2>2. r.pc = "send" /\ r.data = e /\ r.made = reader[k].made BY <1>2, <2>1, ReaderIs
  <2>3. reader[k].made = k BY <1>1 DEF CalmInv, ReadersOwn
  <2>4. QED BY <2>1, <2>2, <2>3
<1> HIDE DEF r
<1>7. /\ reader'[k] = r /\ arriving'[k] = Tail(arriving[k])
      /\ \A j \in Conns : j # k => reader'[j] = reader[j] /\ arriving'[j] = arriving[j]
  BY <1>1, <1>2, <1>5
<1>8. Places'
  <2>1. \A j \in Conns : reader[j].pc = "none" => reader'[j].pc = "none" BY <1>1, <1>7
  <2>2. QED BY <1>1, <2>1, PlacesSame DEF CalmInv
<1>9. Taken(k) = Len(got[k]) + Len(buffered[k])
  <2>1. \A x, y \in Nat : x + y + 0 = x + y OBVIOUS
  <2>2. QED BY <1>2, <1>3, <2>1 DEF Taken
<1>10. Taken(k)' = Taken(k) + 1 BY <1>1, <1>6, <1>7, <1>9 DEF Taken
<1>11. Flow(k)'
  <2>1. \A i \in 1 .. Len(got'[k]) : got'[k][i] = [conn |-> k, n |-> i] BY <1>1, <1>2 DEF Flow
  <2>2. Numbered(buffered'[k], k, Len(got'[k])) BY <1>1, <1>2 DEF Flow
  <2>3. reader'[k].pc = "send" /\ Len(reader'[k].data) = 1 BY <1>6, <1>7
  <2>4. /\ reader'[k].data[1].conn = k
        /\ reader'[k].data[1].n = Len(got'[k]) + Len(buffered'[k]) + 1
    BY <1>1, <1>4, <1>6, <1>7, <1>9
  <2>5. Numbered(arriving'[k], k, Taken(k)') BY <1>4, <1>7, <1>10
  <2>6. sent'[k] = Taken(k)' + Len(arriving'[k])
    <3>1. Len(arriving'[k]) = Len(arriving[k]) - 1 /\ sent'[k] = sent[k] BY <1>1, <1>4, <1>7
    <3>2. Len(arriving[k]) \in Nat BY <1>4
    <3>3. \A x, y \in Nat : x + y = (x + 1) + (y - 1) OBVIOUS
    <3>4. QED BY <3>1, <3>2, <3>3, <1>2, <1>3, <1>10
  <2>7. QED BY <2>1, <2>2, <2>3, <2>4, <2>5, <2>6 DEF Flow
<1>12. QED BY <1>1, <1>6, <1>7, <1>8, <1>11, CalmFlows

(* What the reader holds is the next of its queue.                         *)
LEMMA CalmReaderSends ==
  ASSUME Safe, CalmInv, NEW k \in Conns, ReaderSends(k)
  PROVE  CalmInv'
<1> DEFINE d == reader[k].data[1]
           e == <<>>
           r == [reader[k] EXCEPT !.pc = "wait", !.data = e]
<1>1. reader[k].pc = "send" /\ reader[k].made = k BY DEF ReaderSends, CalmInv, ReadersOwn
<1>2. CASE k \in closedQueues
  <2>1. Panic("sendClosed") BY <1>1, <1>2 DEF ReaderSends
  <2>2. QED BY <2>1, CalmHalts
<1>3. CASE k \notin closedQueues
  <2>1. /\ buffered' = [buffered EXCEPT ![k] = Append(@, d)]
        /\ reader' = [reader EXCEPT ![k].pc = "wait", ![k].data = e]
        /\ UNCHANGED <<wsConn, closeCtx, connects, crashed, got, at, sent, arriving>>
    BY <1>1, <1>3 DEF ReaderSends, fields, network, history
  <2>2. /\ buffered \in [Conns -> Seq(Chunks)] /\ buffered[k] \in Seq(Chunks)
        /\ reader \in [Conns -> Readers] /\ reader[k] \in Readers /\ reader[k].data \in Seq(Chunks)
        /\ Taken(k) \in Nat /\ Flow(k) /\ Len(got[k]) \in Nat /\ Len(buffered[k]) \in Nat
    BY FlowTypes, CalmFlow
  <2>3. /\ Numbered(buffered[k], k, Len(got[k])) /\ Len(reader[k].data) = 1
        /\ d.conn = k /\ d.n = Len(got[k]) + Len(buffered[k]) + 1
        /\ Numbered(arriving[k], k, Taken(k)) /\ sent[k] = Taken(k) + Len(arriving[k])
    BY <1>1, <2>2 DEF Flow
  <2>4. d \in Chunks BY <2>2, <2>3, ElementOfSeq
  <2>5. reader' = [reader EXCEPT ![k] = r] BY <2>1, <2>2
  <2>6. e \in Seq(Chunks) /\ Len(e) = 0 BY EmptySeq
  <2> HIDE DEF d, e
  <2>7. /\ Append(buffered[k], d) \in Seq(Chunks)
        /\ Len(Append(buffered[k], d)) = Len(buffered[k]) + 1
        /\ Numbered(Append(buffered[k], d), k, Len(got[k]))
    BY <2>2, <2>3, <2>4, NumberedAppend
  <2>8. r.pc = "wait" /\ Len(r.data) = 0 /\ r.made = k
    <3>1. r.pc = "wait" /\ r.data = e /\ r.made = reader[k].made BY <2>2, <2>6, ReaderIs
    <3>2. QED BY <3>1, <1>1, <2>6
  <2> HIDE DEF r
  <2>9. /\ reader'[k] = r /\ buffered'[k] = Append(buffered[k], d)
        /\ \A j \in Conns : j # k => reader'[j] = reader[j] /\ buffered'[j] = buffered[j]
    BY <2>1, <2>2, <2>5
  <2>10. Places'
    <3>1. \A j \in Conns : reader[j].pc = "none" => reader'[j].pc = "none" BY <1>1, <2>9
    <3>2. QED BY <2>1, <3>1, PlacesSame DEF CalmInv
  <2>11. Taken(k)' = Taken(k)
    <3>1. \A x, y \in Nat : x + (y + 1) + 0 = x + y + 1 OBVIOUS
    <3>2. Taken(k)' = Len(got[k]) + (Len(buffered[k]) + 1) + 0
      BY <2>1, <2>7, <2>8, <2>9 DEF Taken
    <3>3. QED BY <2>2, <2>3, <3>1, <3>2 DEF Taken
  <2>12. Flow(k)'
    <3>1. \A i \in 1 .. Len(got'[k]) : got'[k][i] = [conn |-> k, n |-> i] BY <2>1, <2>2 DEF Flow
    <3>2. Numbered(buffered'[k], k, Len(got'[k])) BY <2>1, <2>7, <2>9
    <3>3. reader'[k].pc = "wait" /\ Len(reader'[k].data) = 0 BY <2>8, <2>9
    <3>4. /\ Numbered(arriving'[k], k, Taken(k)')
          /\ sent'[k] = Taken(k)' + Len(arriving'[k])
      BY <2>1, <2>3, <2>11
    <3>5. QED BY <3>1, <3>2, <3>3, <3>4 DEF Flow
  <2>13. QED BY <2>1, <2>8, <2>9, <2>10, <2>12, CalmFlows
<1>4. QED BY <1>2, <1>3

(* What is still in the network is lost.                                   *)
LEMMA CalmReaderEnds ==
  ASSUME Safe, CalmInv, NEW k \in Conns, ReaderEnds(k)
  PROVE  CalmInv'
<1> DEFINE e == <<>>
           r == [reader[k] EXCEPT !.pc = "done", !.data = e]
<1>1. /\ reader[k].pc = "wait"
      /\ reader' = [reader EXCEPT ![k].pc = "done", ![k].data = e]
      /\ arriving' = [arriving EXCEPT ![k] = <<>>]
      /\ UNCHANGED <<wsConn, closeCtx, connects, crashed, buffered, got, at, sent>>
  BY DEF ReaderEnds, fields, objects, history
<1>2. /\ arriving \in [Conns -> Seq(Chunks)] /\ reader \in [Conns -> Readers]
      /\ reader[k] \in Readers /\ Flow(k)
  BY FlowTypes, CalmFlow
<1>3. e \in Seq(Chunks) /\ Len(e) = 0 BY EmptySeq
<1>4. reader' = [reader EXCEPT ![k] = r] BY <1>1, <1>2
<1> HIDE DEF e
<1>5. r.pc = "done" /\ Len(r.data) = 0
  <2>1. r.pc = "done" /\ r.data = e BY <1>2, <1>3, ReaderIs
  <2>2. QED BY <2>1, <1>3
<1> HIDE DEF r
<1>6. /\ reader'[k] = r /\ arriving'[k] = <<>>
      /\ \A j \in Conns : j # k => reader'[j] = reader[j] /\ arriving'[j] = arriving[j]
  BY <1>1, <1>2, <1>4
<1>7. Places'
  <2>1. \A j \in Conns : reader[j].pc = "none" => reader'[j].pc = "none" BY <1>1, <1>6
  <2>2. QED BY <1>1, <2>1, PlacesSame DEF CalmInv
<1>8. Flow(k)'
  <2>1. \A i \in 1 .. Len(got'[k]) : got'[k][i] = [conn |-> k, n |-> i] BY <1>1, <1>2 DEF Flow
  <2>2. Numbered(buffered'[k], k, Len(got'[k])) BY <1>1, <1>2 DEF Flow
  <2>3. reader'[k].pc = "done" /\ Len(reader'[k].data) = 0 BY <1>5, <1>6
  <2>4. Numbered(arriving'[k], k, Taken(k)')
    <3>1. Len(arriving'[k]) = 0 BY <1>6, EmptySeq
    <3>2. QED BY <3>1 DEF Numbered
  <2>5. QED BY <2>1, <2>2, <2>3, <2>4 DEF Flow
<1>9. QED BY <1>1, <1>5, <1>6, <1>7, <1>8, CalmFlows

(* While the client is calm no other loop reads the queue of a recv.       *)
LEMMA NotShared ==
  ASSUME Safe, CalmInv, NEW k \in Conns, at[Recv(k)].pc = "read"
  PROVE  ~Shared(Recv(k))
<1> SUFFICES ASSUME NEW h \in ReadLoops \ {Recv(k)}, at[h].pc = "read" PROVE FALSE
  BY DEF Shared
<1>1. CASE \E j \in Conns : h = Drain(j) BY <1>1 DEF CalmInv, Places, Roles
<1>2. CASE \E j \in Conns : h = Recv(j)
  <2>1. h \in Connectors /\ Recv(k) \in Connectors BY <1>2, ConnectorNames
  <2>2. Active(h) /\ Active(Recv(k)) BY DEF Active
  <2>3. QED BY <2>1, <2>2 DEF CalmInv, Places, OneConnector
<1>3. QED BY <1>1, <1>2 DEF ReadLoops

(* The decoder is given the first of the queue of its own connection,      *)
(* which is the one that follows what it was given.                        *)
LEMMA CalmRecvReads ==
  ASSUME Safe, CalmInv, NEW k \in Conns, RecvReads(k), calm'
  PROVE  CalmInv'
<1> DEFINE g == Recv(k)
           b == Head(buffered[k])
           m == [conn |-> b.conn, n |-> b.n]
<1>1. at[g].pc = "read" /\ at[g].copy.queue = k /\ buffered[k] # <<>>
  BY DEF RecvReads, CalmInv, Places, RecvFits
<1>2. ~Shared(g) BY <1>1, NotShared
<1>3. CASE NeedsSession(b.kind) /\ ~session
  <2>1. Panic("noSession") BY <1>1, <1>2, <1>3 DEF RecvReads
  <2>2. QED BY <2>1, CalmHalts
<1>4. CASE ~(NeedsSession(b.kind) /\ ~session)
  <2> DEFINE n == [Idle EXCEPT !.pc = "next"]
             d == [Idle EXCEPT !.pc = "dial"]
             x == [Idle EXCEPT !.pc = "kicked"]
             y == [Idle EXCEPT !.pc = "kicked", !.after = "again"]
             c == CASE b.kind = "stanza"   -> n
                    [] b.kind = "bad"      -> d
                    [] b.kind = "conflict" -> x
                    [] b.kind = "error"    -> y
  <2>1. /\ buffered' = [buffered EXCEPT ![k] = Tail(@)]
        /\ calm' = (calm /\ b.kind # "error")
        /\ got' = IF calm' THEN [got EXCEPT ![k] = Append(@, m)] ELSE got
        /\ at' = [at EXCEPT ![g] = c]
        /\ UNCHANGED <<wsConn, closeCtx, connects, crashed, reader, sent, arriving>>
    BY <1>1, <1>2, <1>4 DEF RecvReads, fields, network
  <2>2. got' = [got EXCEPT ![k] = Append(@, m)] BY <2>1
  <2>3. /\ buffered \in [Conns -> Seq(Chunks)] /\ buffered[k] \in Seq(Chunks)
        /\ got \in [Conns -> Seq(Kept)] /\ got[k] \in Seq(Kept)
        /\ Taken(k) \in Nat /\ Flow(k) /\ Len(got[k]) \in Nat /\ Len(buffered[k]) \in Nat
    BY FlowTypes, CalmFlow
  <2>4. Numbered(buffered[k], k, Len(got[k])) BY <2>3 DEF Flow
  <2>5. /\ b \in Chunks /\ b.conn = k /\ b.n = Len(got[k]) + 1
        /\ Tail(buffered[k]) \in Seq(Chunks) /\ Len(buffered[k]) \in Nat \ {0}
        /\ Len(Tail(buffered[k])) = Len(buffered[k]) - 1
        /\ Numbered(Tail(buffered[k]), k, Len(got[k]) + 1)
    BY <1>1, <2>3, <2>4, NumberedTail
  <2>6. c.pc \in {"next", "dial", "kicked"} /\ c.after = "done"
    <3>1. b.kind \in Kinds /\ b.kind # "error" BY <2>1, <2>5 DEF Chunks
    <3>2. /\ n.pc = "next" /\ n.after = "done" /\ d.pc = "dial" /\ d.after = "done"
          /\ x.pc = "kicked" /\ x.after = "done"
      BY IdlePc DEF PCs
    <3>3. c \in {n, d, x} BY <3>1 DEF Kinds
    <3> HIDE DEF n, d, x, y, c
    <3>4. QED BY <3>2, <3>3
  <2> HIDE DEF c, n, d, x, y
  <2>7. Places'
    <3>1. /\ g \in Goroutines /\ g \in Connectors /\ g # App /\ wsConn = closeCtx /\ closeCtx = k
          /\ Active(g) /\ MayGo(g)
      BY <1>1, RecvHolds DEF InRecv
    <3>2. Fits(g, c) BY <2>6, <3>1 DEF Fits, InRecv, ClosingPCs
    <3>3. QED BY <2>1, <3>1, <3>2, PlacesMove DEF CalmInv
  <2>8. m \in Kept /\ m = [conn |-> k, n |-> Len(got[k]) + 1] BY <2>3, <2>5 DEF Kept
  <2> HIDE DEF b, m
  <2>9. /\ Append(got[k], m) \in Seq(Kept) /\ Len(Append(got[k], m)) = Len(got[k]) + 1
        /\ \A i \in 1 .. Len(got[k]) : Append(got[k], m)[i] = got[k][i]
        /\ Append(got[k], m)[Len(got[k]) + 1] = m
    BY <2>3, <2>8, AppendProperties
  <2>10. /\ got'[k] = Append(got[k], m) /\ buffered'[k] = Tail(buffered[k])
         /\ \A j \in Conns : j # k => got'[j] = got[j] /\ buffered'[j] = buffered[j]
    BY <2>1, <2>2, <2>3
  <2>11. Len(got'[k]) = Len(got[k]) + 1 /\ Len(buffered'[k]) = Len(buffered[k]) - 1
    BY <2>5, <2>9, <2>10
  <2>12. Len(got'[k]) + Len(buffered'[k]) = Len(got[k]) + Len(buffered[k])
    <3>1. \A u, v \in Nat : (u + 1) + (v - 1) = u + v OBVIOUS
    <3>2. QED BY <3>1, <2>3, <2>11
  <2>13. Taken(k)' = Taken(k) BY <2>1, <2>12 DEF Taken
  <2>14. Flow(k)'
    <3>1. \A i \in 1 .. Len(got'[k]) : got'[k][i] = [conn |-> k, n |-> i]
      <4>1. \A i \in 1 .. Len(got'[k]) : i \in 1 .. Len(got[k]) \/ i = Len(got[k]) + 1
        BY <2>3, <2>11
      <4>2. \A i \in 1 .. Len(got[k]) : got[k][i] = [conn |-> k, n |-> i] BY <2>3 DEF Flow
      <4>3. QED BY <4>1, <4>2, <2>8, <2>9, <2>10
    <3>2. Numbered(buffered'[k], k, Len(got'[k])) BY <2>5, <2>10, <2>11
    <3>3. /\ Len(reader'[k].data) = IF reader'[k].pc = "send" THEN 1 ELSE 0
          /\ reader'[k].pc = "send" =>
               /\ reader'[k].data[1].conn = k
               /\ reader'[k].data[1].n = Len(got'[k]) + Len(buffered'[k]) + 1
      <4>1. reader[k].pc = "send" =>
              reader[k].data[1].conn = k /\ reader[k].data[1].n = Len(got[k]) + Len(buffered[k]) + 1
        BY <2>3 DEF Flow
      <4>2. Len(reader[k].data) = IF reader[k].pc = "send" THEN 1 ELSE 0 BY <2>3 DEF Flow
      <4>3. reader'[k] = reader[k] BY <2>1
      <4>4. QED BY <4>1, <4>2, <4>3, <2>12
    <3>4. /\ Numbered(arriving'[k], k, Taken(k)')
          /\ reader'[k].pc # "done" => sent'[k] = Taken(k)' + Len(arriving'[k])
      BY <2>1, <2>3, <2>13 DEF Flow
    <3>5. QED BY <3>1, <3>2, <3>3, <3>4 DEF Flow
  <2>15. reader'[k].pc \in {"wait", "send"} => reader'[k].made = k
    BY <2>1 DEF CalmInv, ReadersOwn
  <2>16. QED BY <2>1, <2>7, <2>10, <2>14, <2>15, CalmFlows
<1>5. QED BY <1>3, <1>4

(* What recv, keepalive and the application do besides.                    *)
LEMMA CalmClient ==
  ASSUME Safe, CalmInv, NEW k \in Conns,
         \/ ManagerCloses(k) \/ RecvClosesAgain(k) \/ RecvFails(k) \/ PingFails(k)
         \/ KeepaliveQuits(k) \/ UserDisconnects
  PROVE  CalmInv'
<1> DEFINE g == Recv(k)
<1>1. /\ Keepalive(k) \in Goroutines /\ Keepalive(k) \notin Connectors
      /\ User \in Goroutines /\ User \notin Connectors
  BY ConnectorNames
<1>2. CASE ManagerCloses(k) \/ RecvClosesAgain(k)
  <2>1. at[g].pc \in {"kicked", "again"} BY <1>2 DEF ManagerCloses, RecvClosesAgain
  <2>2. /\ g \in Goroutines /\ g # App /\ wsConn = closeCtx /\ closeCtx = k
        /\ Active(g) /\ MayGo(g) /\ g \in Connectors
    BY <2>1, RecvHolds DEF InRecv
  <2>3. PICK then \in {"again", "next"} : Close(g, then)
    <3>1. at[g].after = "done" BY <2>2 DEF CalmInv, Places, NoneAgain
    <3>2. QED BY <1>2, <3>1 DEF ManagerCloses, RecvClosesAgain
  <2>4. then \in Nexts BY DEF Nexts
  <2> HIDE DEF g
  <2>5. g = Recv(closeCtx) BY <2>2 DEF g
  <2>6. QED BY <2>2, <2>3, <2>4, <2>5, CalmClose
<1>3. CASE RecvFails(k) /\ ~session
  <2>1. Panic("noSession") BY <1>3 DEF RecvFails
  <2>2. QED BY <2>1, CalmHalts
<1>4. CASE RecvFails(k) /\ session
  <2>1. /\ at[g].pc = "read" /\ Proceed(g, "dial")
        /\ UNCHANGED <<wsConn, closeCtx, connects, crashed>>
        /\ UNCHANGED <<buffered, arriving, got, reader, sent>>
    BY <1>4 DEF RecvFails, ReadFails, fields, objects, network, history
  <2>2. g \in Goroutines /\ Active(g) /\ MayGo(g) /\ g \in Connectors
    BY <2>1, RecvHolds DEF InRecv
  <2>3. QED BY <2>1, <2>2, CalmProceed DEF Nexts
<1>5. CASE PingFails(k)
  <2>1. at[Keepalive(k)].pc = "tick" /\ Close(Keepalive(k), "done") BY <1>5 DEF PingFails
  <2>2. QED BY <1>1, <2>1, CalmClose DEF Nexts, MayGo
<1>6. CASE KeepaliveQuits(k)
  <2>1. /\ at[Keepalive(k)].pc = "tick" /\ Proceed(Keepalive(k), "done")
        /\ UNCHANGED <<wsConn, closeCtx, connects, crashed>>
        /\ UNCHANGED <<buffered, arriving, got, reader, sent>>
    BY <1>6 DEF KeepaliveQuits, fields, objects, network, history
  <2>2. QED BY <1>1, <2>1, CalmProceed DEF Nexts, MayGo
<1>7. CASE UserDisconnects
  <2>1. Close(User, "done") BY <1>7 DEF UserDisconnects
  <2>2. QED BY <1>1, <2>1, CalmClose DEF Nexts, MayGo
<1>8. QED BY <1>2, <1>3, <1>4, <1>5, <1>6, <1>7

-----------------------------------------------------------------------------
(* CalmInv holds as long as the client is calm.                            *)

(* CalmInv holds before the first Connect.                                 *)
LEMMA CalmInit == Init => CalmInv
<1> SUFFICES ASSUME Init PROVE CalmInv OBVIOUS
<1> DEFINE d == [Idle EXCEPT !.pc = "dial"]
<1>1. d.pc = "dial" /\ d.after = "done" BY IdlePc DEF PCs
<1>2. at = [g \in Goroutines |-> IF g = App THEN d ELSE Idle] BY DEF Init
<1> HIDE DEF d
<1>3. /\ App \in Goroutines /\ at[App].pc = "dial"
      /\ \A g \in Goroutines : at[g].after = "done" /\ (g # App => at[g].pc = "none")
  BY <1>1, <1>2, IdleType, Names
<1>4. \A k \in Conns : reader[k].pc = "none" /\ reader[k].data = <<>> BY DEF Init, NoReader
<1>5. OneConnector /\ Roles /\ NoneAgain
  BY <1>3, ConnectorNames DEF OneConnector, Active, Roles, NoneAgain, ClosingPCs
<1>6. ConnectFits BY <1>3, <1>4 DEF ConnectFits
<1>7. RecvFits BY <1>3, ConnectorNames DEF RecvFits, InRecv, ClosingPCs
<1>8. LastMade /\ ReadersOwn BY <1>4 DEF Init, LastMade, ReadersOwn
<1>9. Flows
  <2> SUFFICES ASSUME NEW k \in Conns PROVE Flow(k) BY DEF Flows
  <2>1. /\ got[k] = <<>> /\ buffered[k] = <<>> /\ arriving[k] = <<>> /\ sent[k] = 0
        /\ reader[k].pc = "none" /\ reader[k].data = <<>> /\ Len(<<>>) = 0
    BY <1>4, EmptySeq DEF Init
  <2>2. Taken(k) = 0 BY <2>1 DEF Taken
  <2>3. QED BY <2>1, <2>2 DEF Flow, Numbered
<1>10. QED BY <1>5, <1>6, <1>7, <1>8, <1>9 DEF CalmInv, Places

(* Calm is not restored, and while it lasts every step keeps CalmInv.      *)
LEMMA CalmNext == Safe /\ (calm => CalmInv) /\ [Next]_vars => (calm' => CalmInv')
<1> SUFFICES ASSUME Safe, calm => CalmInv, [Next]_vars, calm' PROVE CalmInv' OBVIOUS
<1>1. calm /\ CalmInv
  <2>1. calm' => calm
    BY DEF Next, Transport, CloseQueue, CloseConn, ConnectBegins, DialFails, SubprotocolMissing,
           Dialled, OpenNotSent, NotOpened, SessionFails, SetupFails, Established, BeginsRead,
           ServerSends, ServerLeaves, ReaderTakes, ReaderSends, ReaderEnds, RecvReads,
           ManagerCloses, RecvClosesAgain, RecvFails, DrainReads, DrainFails, PingFails,
           KeepaliveQuits, UserDisconnects, Close, Panic, vars, history
  <2>2. QED BY <2>1
<1>2. ASSUME NEW g \in Goroutines, Transport(g) PROVE CalmInv' BY <1>1, <1>2, CalmTransport
<1>3. ASSUME NEW k \in Conns,
             \/ ServerSends(k) \/ ReaderTakes(k) \/ ReaderSends(k) \/ ReaderEnds(k)
             \/ RecvReads(k)
      PROVE  CalmInv'
  BY <1>1, <1>3, CalmServerSends, CalmReaderTakes, CalmReaderSends, CalmReaderEnds, CalmRecvReads
<1>4. ASSUME NEW k \in Conns,
             \/ ManagerCloses(k) \/ RecvClosesAgain(k) \/ RecvFails(k) \/ PingFails(k)
             \/ KeepaliveQuits(k)
      PROVE  CalmInv'
  BY <1>1, <1>4, CalmClient
<1>5. ASSUME NEW k \in Conns, DrainReads(k) \/ DrainFails(k) PROVE CalmInv'
  BY <1>1, <1>5 DEF DrainReads, DrainFails, ReadFails, CalmInv, Places, Roles
<1>6. ASSUME UserDisconnects PROVE CalmInv'
  <2>1. 1 \in Conns BY SizesAssumption DEF Conns
  <2>2. QED BY <1>1, <1>6, <2>1, CalmClient
<1>7. ASSUME (\E k \in Conns : ServerLeaves(k)) \/ UNCHANGED vars PROVE CalmInv'
  <2>1. /\ UNCHANGED <<at, wsConn, closeCtx, connects, crashed>>
        /\ UNCHANGED <<buffered, arriving, got, reader, sent>>
    BY <1>7 DEF ServerLeaves, vars, fields, objects, network, history
  <2>2. Places' BY <1>1, <2>1, PlacesSame DEF CalmInv
  <2>3. QED BY <1>1, <2>1, <2>2, FlowsSame
<1>8. QED BY <1>2, <1>3, <1>4, <1>5, <1>6, <1>7 DEF Next

(* Until a stream error other than a conflict or a failed negotiation, one *)
(* goroutine at a time connects or reads, a recv reads the queue of its    *)
(* own connection, and every message is in one place.                      *)
THEOREM CalmInvariance == Spec => [](Safe /\ (calm => CalmInv))
<1>1. Init => Safe /\ (calm => CalmInv) BY SafeInit, CalmInit
<1>2. Safe /\ (calm => CalmInv) /\ [Next]_vars => (Safe /\ (calm => CalmInv))'
  BY SafeNext, CalmNext
<1>3. QED BY <1>1, <1>2, PTL DEF Spec

(* The decoder of a connection is given what its server sent on it, in     *)
(* order, through startReader and Read, whatever is closed meanwhile, as   *)
(* long as no negotiation fails and no stream error but a conflict is read.*)
THEOREM DecodesInOrder == Spec => []InOrder
<1>1. Safe /\ (calm => CalmInv) => InOrder
  <2> SUFFICES ASSUME Safe, CalmInv, NEW k \in Conns
               PROVE  got[k] = [i \in 1 .. Len(got[k]) |-> [conn |-> k, n |-> i]]
    BY DEF InOrder
  <2>1. got[k] \in Seq(Kept) /\ Flow(k) BY FlowTypes, CalmFlow
  <2>2. DOMAIN got[k] = 1 .. Len(got[k]) /\ got[k] \in [1 .. Len(got[k]) -> Kept]
    BY <2>1, LenProperties
  <2>3. \A i \in 1 .. Len(got[k]) : got[k][i] = [conn |-> k, n |-> i] BY <2>1 DEF Flow
  <2>4. QED BY <2>2, <2>3
<1>2. QED BY <1>1, CalmInvariance, PTL

=============================================================================
