----------------------- MODULE ClientLifecycleProofs -----------------------
(***************************************************************************)
(* Safety of the life of a Client, for any number of connections and of    *)
(* packets and whatever may fail.  The inductive invariant has two parts:  *)
(* what always holds of the goroutines, of the WaitGroup and of the        *)
(* transport, and what holds while no stream error was received and no     *)
(* negotiation failed after its stream was open (Calm).                    *)
(***************************************************************************)
EXTENDS ClientLifecycle, TLAPS

ClosingPCs == {"closeWait", "closeConn"}
FailPCs    == {"failTemporary", "failPermanent"}

(* Where each kind of goroutine can be: Stop and keepalive close the       *)
(* transport and do nothing else, Run connects once, and Close returns to  *)
(* a caller that has decided how it goes on.                               *)
Places ==
  /\ at[Stop].pc \in {"none", "stopped", "done"} \cup ClosingPCs
  /\ at[Stop].then \in {"none", "stopped"}
  /\ at[Stop].pc \in ClosingPCs => at[Stop].then = "stopped"
  /\ \A k \in Conns :
       /\ at[Keepalive(k)].pc \in {"none", "select", "done"} \cup ClosingPCs
       /\ at[Keepalive(k)].then \in {"none", "done"}
  /\ at[Run].pc \in {"none", "wait", "done"} \cup ConnectingPCs \cup ClosingPCs
  /\ at[Run].pc \in ClosingPCs => at[Run].then \in FailPCs
  /\ \A g \in Resumers : at[g].then \in {"none", "dial", "handled", "loop"} \cup FailPCs

(* Nothing runs after a panic.                                             *)
CrashEnds == crashed => \A g \in Goroutines : at[g] = [Idle EXCEPT !.pc = "done"]

(* What the WaitGroup counts: Run adds one, and Run or Stop takes it away. *)
WaitGroup ==
  ~crashed =>
    /\ at[Run].pc = "none" => wg = 0 /\ at[Stop].pc = "none"
    /\ at[Run].pc = "done" => wg = 0
    /\ at[Run].pc \notin {"none", "done"} => wg = IF at[Stop].pc = "done" THEN 0 ELSE 1
    /\ at[Run].pc = "done" => at[Stop].pc = "done" \/ "attemptFailed" \in seen

(* The decoder and the closeChan are those of the last connection dialled. *)
Transport ==
  /\ decoder = dials /\ closeChan = dials
  /\ conn \in {0, dials}
  /\ conn = 0 /\ dials > 0 => "attemptFailed" \in seen

(* Where an attempt leaves its traces.                                     *)
Attempts ==
  ~crashed =>
    /\ \A g \in Goroutines :
         /\ at[g].pc \in FailPCs \/ at[g].then \in FailPCs => "attemptFailed" \in seen
         /\ at[g].pc = "negotiate" => at[g].conn \in 1 .. dials
         /\ at[g].pc = "setup" =>
              at[g].conn \in 1 .. dials /\ (session \/ "attemptFailed" \in seen)
    /\ \A k \in Conns : at[Recv(k)].pc # "none" => session \/ "attemptFailed" \in seen
    /\ \A k \in Conns :
         at[Recv(k)].pc # "none" \/ at[Keepalive(k)].pc # "none" => k \in 1 .. dials

-----------------------------------------------------------------------------

Mains == {Run} \cup {Recv(k) : k \in Conns}

(* Connects, or reads the connection: what is handed from Run to the first *)
(* recv and from each recv to the next.                                    *)
Carries(g) == at[g].pc \in ConnectingPCs \cup ClosingPCs \cup {"loop", "read"}

Calm ==
  /\ \A k \in Conns : at[Drain(k)].pc \in {"none", "done"} /\ at[Drain(k)].then = "none"
  /\ \A g \in Mains : at[g].event # "streamError"
  /\ \A g \in Mains :
       at[g].then \in IF at[g].pc \in ClosingPCs THEN FailPCs ELSE {"none"}
  /\ \A g, h \in Mains : Carries(g) /\ Carries(h) => g = h
  /\ at[Run].pc = "none" => \A k \in Conns : at[Recv(k)].pc = "none"
  /\ \A k \in Conns :
       /\ at[Recv(k)].pc \in {"loop", "read"} => k = dials /\ state = "established"
       /\ at[Recv(k)].pc = "read" => at[Recv(k)].conn = k
  /\ \A g \in Mains : at[g].pc \in {"negotiate", "setup"} =>
       dials \in Conns /\ at[g].conn = dials /\ at[Recv(dials)].pc = "none"
  /\ \A g \in Mains : at[g].pc = "setup" => state = "established"
  /\ "permanent" \in seen => \A g \in Mains : at[g].pc # "none" \/ g # Run
  /\ "permanent" \in seen => \A g \in Mains : ~Carries(g)

IInv ==
  /\ TypeOK /\ Places /\ CrashEnds /\ WaitGroup /\ Transport /\ Attempts
  /\ NoCrash
  /\ ~Overlapping => Calm
-----------------------------------------------------------------------------

(* No goroutine has two names.                                             *)
LEMMA Kinds ==
  /\ Run \in Resumers /\ Run \in Mains /\ Run \notin Readers
  /\ Mains \subseteq Resumers /\ Readers \subseteq Resumers /\ Resumers \subseteq Goroutines
  /\ Stop \in Goroutines /\ Stop \notin Resumers
  /\ \A k \in Conns :
       /\ Recv(k) \in Mains /\ Recv(k) \in Readers /\ Recv(k)[1] = "recv"
       /\ Keepalive(k) \in Goroutines /\ Keepalive(k) \notin Resumers /\ Keepalive(k) # Stop
       /\ Drain(k) \in Readers /\ Drain(k) \notin Mains /\ Drain(k)[1] # "recv"
  /\ \A j, k \in Conns : Recv(j) = Recv(k) => j = k
  /\ \A j, k \in Conns : Keepalive(j) = Keepalive(k) => j = k
  /\ \A g \in Mains : g = Run \/ \E k \in Conns : g = Recv(k)
  /\ \A g \in Readers : \E k \in Conns : g = Recv(k) \/ g = Drain(k)
  /\ \A g \in Resumers : g \in Mains \/ \E k \in Conns : g = Drain(k)
  /\ \A g \in Goroutines : g \in Resumers \/ g = Stop \/ \E k \in Conns : g = Keepalive(k)
  BY DEF Run, Stop, Recv, Keepalive, Drain, Readers, Resumers, Goroutines, Mains

LEMMA InitIInv == Init => IInv
<1> SUFFICES ASSUME Init PROVE IInv
  OBVIOUS
<1> USE BoundsAssumption, Kinds DEF Init, Idle
<1>1. TypeOK
  <2>1. inbox \in [Conns -> Seq({"stanza", "error", "conflict", "close"})]
    OBVIOUS
  <2>2. at \in [Goroutines -> Local]
    BY DEF Local, PCs
  <2>3. session \in BOOLEAN /\ handler \in BOOLEAN /\ crashed \in BOOLEAN
    BY Zenon
  <2> QED BY <2>1, <2>2, <2>3 DEF TypeOK, States, Events
<1>2. Places /\ CrashEnds /\ WaitGroup /\ Transport /\ Attempts /\ NoCrash
  BY DEF Places, CrashEnds, WaitGroup, Transport, Attempts, NoCrash, FailPCs, ClosingPCs
<1>3. Calm
  BY DEF Calm, Carries, ConnectingPCs, ClosingPCs
<1> QED BY <1>1, <1>2, <1>3 DEF IInv

-----------------------------------------------------------------------------
(* A step of one goroutine, and what each part of the invariant asks of it. *)

Moves(g) ==
  /\ at' \in [Goroutines -> Local]
  /\ \A h \in Goroutines : h # g => at'[h] = at[h]

LEMMA Closes ==
  ASSUME NEW f \in [Goroutines -> Local], NEW g \in Goroutines, NEW then \in PCs,
         closeChan \in Nat
  PROVE  /\ BeginClose(f, g, then) \in [Goroutines -> Local]
         /\ BeginClose(f, g, then)[g].pc \in ClosingPCs
         /\ BeginClose(f, g, then)[g].then = then
         /\ BeginClose(f, g, then)[g].conn = f[g].conn
         /\ BeginClose(f, g, then)[g].event = f[g].event
         /\ \A h \in Goroutines : h # g => BeginClose(f, g, then)[h] = f[h]
<1> DEFINE pc == IF closeChan = 0 THEN "closeConn" ELSE "closeWait"
           to == BeginClose(f, g, then)
<1>1. pc \in PCs /\ pc \in ClosingPCs
  BY DEF PCs, ClosingPCs
<1>2. to = [f EXCEPT ![g].pc = pc, ![g].chan = closeChan, ![g].then = then]
  BY DEF BeginClose
<1> HIDE DEF pc, to
<1>3. to \in [Goroutines -> Local]
  BY <1>1, <1>2 DEF Local
<1>4. /\ to[g].pc = pc /\ to[g].then = then
      /\ to[g].conn = f[g].conn /\ to[g].event = f[g].event
      /\ \A h \in Goroutines : h # g => to[h] = f[h]
  BY <1>2 DEF Local
<1> QED BY <1>1, <1>3, <1>4 DEF to

LEMMA PlacesMove ==
  ASSUME Places, NEW g \in Resumers, Moves(g),
         at'[g].then \in {"none", "dial", "handled", "loop"} \cup FailPCs,
         g = Run => /\ at'[g].pc \in {"none", "wait", "done"} \cup ConnectingPCs \cup ClosingPCs
                    /\ at'[g].pc \in ClosingPCs => at'[g].then \in FailPCs
  PROVE  Places'
  BY Kinds DEF Places, Moves

LEMMA WaitGroupMove ==
  ASSUME WaitGroup, ~crashed, NEW g \in Resumers, Moves(g), UNCHANGED wg, seen \subseteq seen',
         g = Run => at[g].pc \notin {"none", "done"} /\ at'[g].pc \notin {"none", "done"}
  PROVE  WaitGroup'
  BY Kinds DEF WaitGroup, Moves

LEMMA AttemptsMove ==
  ASSUME Attempts, ~crashed, NEW g \in Resumers, Moves(g), seen \subseteq seen',
         dials \in Nat, dials' \in Nat, dials <= dials', at[g].pc # "none",
         (session \/ "attemptFailed" \in seen) => (session' \/ "attemptFailed" \in seen'),
         at'[g].pc \in FailPCs \/ at'[g].then \in FailPCs => "attemptFailed" \in seen',
         at'[g].pc \in {"negotiate", "setup"} => at'[g].conn \in 1 .. dials',
         at'[g].pc = "setup" => session' \/ "attemptFailed" \in seen'
  PROVE  Attempts'
<1>1. \A h \in Goroutines : at[h].pc \in {"negotiate", "setup"} => at[h].conn \in 1 .. dials'
  BY DEF Attempts
<1>2. \A k \in Conns : k \in 1 .. dials => k \in 1 .. dials'
  OBVIOUS
<1> QED BY <1>1, <1>2, Kinds DEF Attempts, Moves

(* The one that carries the session moves on: nobody else is disturbed.    *)
LEMMA CalmMove ==
  ASSUME Calm, NEW g \in Mains, Carries(g), Moves(g),
         dials' \in Nat,
         at'[g].pc # "none", at'[g].event # "streamError",
         at'[g].then \in IF at'[g].pc \in ClosingPCs THEN FailPCs ELSE {"none"},
         at'[g].pc \in {"loop", "read"} =>
            dials' \in Conns /\ g = Recv(dials') /\ state' = "established",
         at'[g].pc = "read" => at'[g].conn = dials',
         at'[g].pc \in {"negotiate", "setup"} =>
            /\ dials' \in Conns
            /\ at'[g].conn = dials' /\ at[Recv(dials')].pc = "none",
         at'[g].pc = "setup" => state' = "established",
         "permanent" \in seen' => ~Carries(g)'
  PROVE  Calm'
<1>1. /\ \A h \in Mains : h # g => ~Carries(h) /\ at'[h] = at[h]
      /\ \A k \in Conns : at'[Drain(k)] = at[Drain(k)]
  BY Kinds DEF Calm, Moves
<1>2. \A h \in Mains : h # g => ~Carries(h)'
  BY <1>1 DEF Carries
<1>3. \A k \in Conns : at'[Drain(k)].pc \in {"none", "done"} /\ at'[Drain(k)].then = "none"
  BY <1>1 DEF Calm
<1>8. \A h \in Mains : at'[h].event # "streamError"
  <2> TAKE h \in Mains
  <2>1. at[h].event # "streamError"
    BY DEF Calm
  <2> QED BY <2>1, <1>1
<1>9. \A h \in Mains : at'[h].then \in IF at'[h].pc \in ClosingPCs THEN FailPCs ELSE {"none"}
  <2> TAKE h \in Mains
  <2>1. at[h].then \in IF at[h].pc \in ClosingPCs THEN FailPCs ELSE {"none"}
    BY DEF Calm
  <2> QED BY <2>1, <1>1
<1>4. at'[Run].pc # "none"
  <2>1. CASE g = Run
    BY <2>1
  <2>2. CASE g # Run
    <3>1. at[Run].pc # "none"
      BY <2>2, Kinds DEF Calm, Carries, ConnectingPCs, ClosingPCs
    <3> QED BY <2>2, <3>1, <1>1, Kinds
  <2> QED BY <2>1, <2>2
<1>5. \A k \in Conns :
        /\ at'[Recv(k)].pc \in {"loop", "read"} => k = dials' /\ state' = "established"
        /\ at'[Recv(k)].pc = "read" => at'[Recv(k)].conn = k
  <2> TAKE k \in Conns
  <2>1. CASE Recv(k) = g
    BY <2>1, Kinds
  <2>2. CASE Recv(k) # g
    BY <2>2, <1>2, Kinds DEF Carries
  <2> QED BY <2>1, <2>2
<1>6. \A h \in Mains : h # g => at'[h].pc \notin {"negotiate", "setup"}
  BY <1>2 DEF Carries, ConnectingPCs
<1>7. \A h \in Mains : at'[h].pc \in {"negotiate", "setup"} =>
        dials' \in Conns /\ at'[h].conn = dials' /\ at'[Recv(dials')].pc = "none"
  <2>1. at'[g].pc \in {"negotiate", "setup"} => Recv(dials') # g /\ Recv(dials') \in Mains
    BY Kinds DEF Carries, ConnectingPCs, ClosingPCs
  <2> QED BY <1>1, <1>6, <2>1
<1> QED BY <1>1, <1>2, <1>3, <1>4, <1>5, <1>6, <1>7, <1>8, <1>9 DEF Calm

LEMMA Alive ==
  ASSUME IInv, NEW g \in Goroutines, at[g].pc # "done"
  PROVE  ~crashed
  BY DEF IInv, CrashEnds, Idle

(* Without an overlap the goroutines of failed attempts are asleep.        *)
LEMMA MainsMove ==
  ASSUME IInv, NEW g \in Resumers, at[g].pc \notin {"none", "done"},
         seen \subseteq seen', ~Overlapping'
  PROVE  ~Overlapping /\ Calm /\ g \in Mains
<1>1. ~Overlapping /\ Calm
  BY DEF IInv, Overlapping
<1> QED BY <1>1, Kinds DEF Calm

(* What is typed whatever the goroutines do.                               *)
SharedOK ==
  /\ conn \in Nat /\ decoder \in Nat /\ closeChan \in Nat
  /\ tokens \in SUBSET Conns /\ closed \in SUBSET Conns
  /\ peer \in [Conns -> {"none", "up", "down"}]
  /\ inbox \in [Conns -> Seq({"stanza", "error", "conflict", "close"})]
  /\ session \in BOOLEAN /\ handler \in BOOLEAN
  /\ state \in States
  /\ dials \in 0 .. MaxDials /\ packets \in 0 .. MaxPackets
  /\ seen \in SUBSET Events

LEMMA TypeParts ==
  /\ TypeOK <=> /\ SharedOK /\ at \in [Goroutines -> Local]
               /\ crashed \in BOOLEAN /\ wg \in -2 .. 1
  /\ TypeOK' <=> /\ SharedOK' /\ at' \in [Goroutines -> Local]
                /\ crashed' \in BOOLEAN /\ wg' \in -2 .. 1
  BY DEF TypeOK, SharedOK

(* A step of a goroutine that connects or reads, and does not panic.       *)
LEMMA ResumerStep ==
  ASSUME IInv, NEW g \in Resumers, Moves(g), at[g].pc \notin {"none", "done"},
         UNCHANGED <<wg, crashed>>, SharedOK', Transport',
         seen \subseteq seen', dials <= dials',
         (session \/ "attemptFailed" \in seen) => (session' \/ "attemptFailed" \in seen'),
         at'[g].then \in {"none", "dial", "handled", "loop"} \cup FailPCs,
         g = Run => /\ at'[g].pc \in {"wait"} \cup ConnectingPCs \cup ClosingPCs
                    /\ at'[g].pc \in ClosingPCs => at'[g].then \in FailPCs,
         at'[g].pc \in FailPCs \/ at'[g].then \in FailPCs => "attemptFailed" \in seen',
         at'[g].pc \in {"negotiate", "setup"} => at'[g].conn \in 1 .. dials',
         at'[g].pc = "setup" => session' \/ "attemptFailed" \in seen',
         ~Overlapping' => Calm'
  PROVE  IInv'
<1>1. ~crashed /\ ~crashed'
  BY Alive, Kinds
<1>2. TypeOK'
  BY TypeParts DEF IInv, Moves
<1>3. Places'
  BY PlacesMove DEF IInv
<1>4. WaitGroup'
  <2>1. g = Run => at'[g].pc \notin {"none", "done"}
    BY DEF ConnectingPCs, ClosingPCs
  <2> QED BY <2>1, <1>1, WaitGroupMove DEF IInv
<1>5. Attempts'
  <2>1. dials \in Nat /\ dials' \in Nat
    BY TypeParts DEF IInv, SharedOK
  <2> QED BY <2>1, <1>1, AttemptsMove DEF IInv
<1>6. CrashEnds' /\ NoCrash'
  BY <1>1 DEF CrashEnds, NoCrash
<1> QED BY <1>2, <1>3, <1>4, <1>5, <1>6 DEF IInv

LEMMA DialSucceedsIInv ==
  ASSUME IInv, NEW g \in Resumers, DialSucceeds(g)
  PROVE  IInv'
<1>1. TypeOK /\ Transport /\ Places /\ Attempts
  BY DEF IInv
<1>2. g \in Goroutines /\ at[g] \in Local /\ ~crashed
  BY <1>1, Kinds, Alive DEF DialSucceeds, TypeOK
<1>3. /\ at[g].pc = "dial" /\ dials' = dials + 1
      /\ dials \in Nat /\ dials' \in Conns /\ dials' \in Nat
  BY <1>1, BoundsAssumption DEF DialSucceeds, TypeOK, Conns
<1>4. /\ Moves(g)
      /\ at'[g].pc = "negotiate" /\ at'[g].conn = dials'
      /\ at'[g].then = at[g].then /\ at'[g].event = at[g].event
  <2>1. at' = [at EXCEPT ![g].pc = "negotiate", ![g].conn = dials']
    BY <1>3 DEF DialSucceeds
  <2> QED BY <1>1, <1>2, <1>3, <2>1 DEF TypeOK, Local, PCs, Moves
<1>5. SharedOK'
  <2>1. session' \in BOOLEAN /\ handler' \in BOOLEAN
    BY <1>1 DEF TypeOK, DialSucceeds
  <2>2. peer' \in [Conns -> {"none", "up", "down"}] /\ state' \in States
    BY <1>1, <1>3 DEF TypeOK, DialSucceeds, States
  <2> QED BY <1>1, <1>3, <2>1, <2>2 DEF TypeOK, SharedOK, DialSucceeds, Conns
<1>6. Transport'
  BY <1>3 DEF Transport, DialSucceeds
<1>7. ASSUME ~Overlapping' PROVE Calm'
  <2>1. Calm /\ g \in Mains /\ Carries(g) /\ seen' = seen
    BY <1>3, <1>7, MainsMove DEF DialSucceeds, Carries, ConnectingPCs
  <2>2. at[Recv(dials')].pc = "none"
    BY <1>1, <1>2, <1>3 DEF Attempts
  <2>3. at'[g].then = "none" /\ at'[g].event # "streamError" /\ ~("permanent" \in seen')
    <3>1. at'[g].then = "none"
      BY <2>1, <1>3, <1>4 DEF Calm, ClosingPCs
    <3>2. at'[g].event # "streamError"
      BY <2>1, <1>3, <1>4, Kinds DEF Calm
    <3> QED BY <2>1, <3>1, <3>2 DEF Calm
  <2>4. at'[g].pc \notin ClosingPCs
    BY <1>4 DEF ClosingPCs
  <2> QED BY <2>1, <2>2, <2>3, <2>4, <1>3, <1>4, CalmMove
<1>8. /\ UNCHANGED <<wg, crashed, session, seen>> /\ dials <= dials'
      /\ at'[g].pc \notin FailPCs /\ at'[g].pc \in ConnectingPCs \ ClosingPCs
      /\ dials' \in 1 .. dials'
  BY <1>3, <1>4 DEF DialSucceeds, FailPCs, ConnectingPCs, ClosingPCs
<1>9. /\ at'[g].then \in {"none", "dial", "handled", "loop"} \cup FailPCs
      /\ at'[g].then \in FailPCs => "attemptFailed" \in seen
  BY <1>1, <1>2, <1>4 DEF Places, Attempts
<1> QED BY <1>3, <1>4, <1>5, <1>6, <1>7, <1>8, <1>9, ResumerStep

(* What is known of a goroutine that runs, and of the one that carries the *)
(* session.                                                                *)
LEMMA Mover ==
  ASSUME IInv, NEW g \in Resumers, at[g].pc \notin {"none", "done"}
  PROVE  /\ g \in Goroutines /\ at \in [Goroutines -> Local] /\ at[g] \in Local
         /\ ~crashed /\ SharedOK /\ Transport
         /\ dials \in Nat /\ closeChan \in Nat
         /\ at[g].then \in {"none", "dial", "handled", "loop"} \cup FailPCs
         /\ at[g].then \in FailPCs => "attemptFailed" \in seen
         /\ at[g].pc \in FailPCs => "attemptFailed" \in seen
         /\ at[g].pc \in {"negotiate", "setup"} => at[g].conn \in 1 .. dials
         /\ at[g].pc = "setup" => session \/ "attemptFailed" \in seen
<1>1. g \in Goroutines /\ ~crashed
  BY Alive, Kinds
<1>2. SharedOK /\ at \in [Goroutines -> Local]
  BY TypeParts DEF IInv
<1>3. Transport /\ dials \in Nat /\ closeChan \in Nat
  BY <1>2 DEF IInv, SharedOK
<1> QED BY <1>1, <1>2, <1>3 DEF IInv, Places, Attempts

LEMMA Carrier ==
  ASSUME Calm, NEW g \in Mains, Carries(g)
  PROVE  /\ at[g].event # "streamError" /\ "permanent" \notin seen
         /\ at[g].then \in IF at[g].pc \in ClosingPCs THEN FailPCs ELSE {"none"}
         /\ at[g].pc \in {"negotiate", "setup"} =>
              at[g].conn = dials /\ at[Recv(dials)].pc = "none"
         /\ at[g].pc = "setup" => state = "established"
  BY DEF Calm

LEMMA DialFailsIInv ==
  ASSUME IInv, NEW g \in Resumers, DialFails(g)
  PROVE  IInv'
<1> USE DEF DialFails
<1>1. at[g].pc = "dial" /\ seen' = seen \cup {"attemptFailed"}
  OBVIOUS
<1>2. /\ Moves(g)
      /\ at'[g].pc = "failPermanent" /\ at'[g].conn = at[g].conn
      /\ at'[g].then = at[g].then /\ at'[g].event = at[g].event
  BY <1>1, Mover DEF Moves, Goto, Local, PCs
<1>3. SharedOK'
  BY <1>1, Mover DEF SharedOK, States, Events
<1>4. Transport'
  BY <1>1, Mover DEF Transport
<1>5. ASSUME ~Overlapping' PROVE Calm'
  <2>1. Calm /\ g \in Mains /\ Carries(g)
    BY <1>1, <1>5, MainsMove DEF Carries, ConnectingPCs
  <2>2. "permanent" \notin seen' /\ at'[g].event # "streamError"
    BY <2>1, <1>1, <1>2, Carrier
  <2>3. at'[g].pc \notin ClosingPCs /\ at'[g].then = "none"
    BY <2>1, <1>1, <1>2, Carrier DEF ClosingPCs
  <2>4. dials' = dials
    OBVIOUS
  <2> QED BY <2>1, <2>2, <2>3, <2>4, <1>1, <1>2, Mover, CalmMove
<1>6. at'[g].pc \in ConnectingPCs \ ClosingPCs /\ UNCHANGED <<wg, crashed, session, dials>>
  BY <1>2 DEF ConnectingPCs, ClosingPCs
<1> QED BY <1>1, <1>2, <1>3, <1>4, <1>5, <1>6, Mover, ResumerStep

LEMMA NegotiationSucceedsIInv ==
  ASSUME IInv, NEW g \in Resumers, NegotiationSucceeds(g)
  PROVE  IInv'
<1> USE DEF NegotiationSucceeds
<1>1. /\ at[g].pc = "negotiate" /\ session' /\ state' = "established"
      /\ UNCHANGED <<wg, crashed, seen, dials>>
  BY DEF history
<1>2. /\ Moves(g)
      /\ at'[g].pc = "setup" /\ at'[g].conn = at[g].conn
      /\ at'[g].then = at[g].then /\ at'[g].event = at[g].event
  BY <1>1, Mover DEF Moves, Goto, Local, PCs
<1>3. SharedOK'
  BY <1>1, Mover DEF SharedOK, States, connVars, transport, history
<1>4. Transport'
  BY <1>1, Mover DEF Transport, connVars, transport
<1>5. ASSUME ~Overlapping' PROVE Calm'
  <2>1. Calm /\ g \in Mains /\ Carries(g)
    BY <1>1, <1>5, MainsMove DEF Carries, ConnectingPCs
  <2>2. "permanent" \notin seen' /\ at'[g].event # "streamError"
    BY <2>1, <1>1, <1>2, Carrier
  <2>3. at'[g].pc \notin ClosingPCs /\ at'[g].then = "none"
    BY <2>1, <1>1, <1>2, Carrier DEF ClosingPCs
  <2>4. dials' \in Nat /\ dials' \in Conns
    BY <1>1, Mover, BoundsAssumption DEF SharedOK, Conns
  <2>5. at'[g].conn = dials' /\ at[Recv(dials')].pc = "none"
    BY <2>1, <1>1, <1>2, Carrier
  <2> QED BY <2>1, <2>2, <2>3, <2>4, <2>5, <1>1, <1>2, CalmMove
<1>6. at'[g].pc \in ConnectingPCs \ (ClosingPCs \cup FailPCs)
  BY <1>2 DEF ConnectingPCs, ClosingPCs, FailPCs
<1>7. dials <= dials' /\ at'[g].conn \in 1 .. dials'
  BY <1>1, <1>2, Mover
<1> QED BY <1>1, <1>2, <1>3, <1>4, <1>5, <1>6, <1>7, Mover, ResumerStep

LEMMA StreamFailsIInv ==
  ASSUME IInv, NEW g \in Resumers, StreamFails(g)
  PROVE  IInv'
<1> USE DEF StreamFails
<1>1. /\ at[g].pc = "negotiate" /\ seen' = seen \cup {"attemptFailed"}
      /\ UNCHANGED <<session, state, wg, dials, crashed>>
  BY DEF managerVars
<1> PICK permanent \in BOOLEAN : at' = BeginClose(at, g, Failure(permanent))
  OBVIOUS
<1> DEFINE then == Failure(permanent)
<1>a. then \in PCs /\ then \in FailPCs
  BY DEF Failure, PCs, FailPCs
<1>2. /\ Moves(g)
      /\ at'[g].pc \in ClosingPCs /\ at'[g].conn = at[g].conn
      /\ at'[g].then \in FailPCs /\ at'[g].event = at[g].event
  <2> HIDE DEF then
  <2>1. at' = BeginClose(at, g, then)
    BY DEF then
  <2> QED BY <1>1, <1>a, <2>1, Mover, Closes DEF Moves
<1>3. SharedOK'
  BY <1>1, Mover DEF SharedOK, Events, connVars, transport, managerVars
<1>4. Transport'
  BY <1>1, Mover DEF Transport, connVars, transport
<1>5. at'[g].pc \notin FailPCs \cup {"none", "loop", "read", "negotiate", "setup", "dial"}
  BY <1>2 DEF ClosingPCs, FailPCs
<1>6. ASSUME ~Overlapping' PROVE Calm'
  <2>1. Calm /\ g \in Mains /\ Carries(g)
    BY <1>1, <1>6, MainsMove DEF Carries, ConnectingPCs
  <2>2. "permanent" \notin seen' /\ at'[g].event # "streamError"
    BY <2>1, <1>1, <1>2, Carrier
  <2> QED BY <2>1, <2>2, <1>1, <1>2, <1>5, Mover, CalmMove
<1>7. dials <= dials'
  BY <1>1, Mover
<1> QED BY <1>1, <1>2, <1>3, <1>4, <1>5, <1>6, <1>7, Mover, ResumerStep

(* A connection is handed to its own recv, and its keepalive starts.       *)
LEMMA SetupSucceedsIInv ==
  ASSUME IInv, NEW g \in Resumers, SetupSucceeds(g)
  PROVE  IInv'
<1> DEFINE k == at[g].conn
           pc == IF g = Run THEN "wait" ELSE "handled"
<1>1. /\ at[g].pc = "setup" /\ UNCHANGED <<session, state, wg, dials, seen, crashed>>
      /\ k \in 1 .. dials
      /\ session \/ "attemptFailed" \in seen
  BY Mover DEF SetupSucceeds, managerVars, history
<1>2. k \in Conns
  BY <1>1, Mover, BoundsAssumption DEF SharedOK, Conns
<1>3. /\ Recv(k) \in Goroutines /\ Keepalive(k) \in Goroutines
      /\ Keepalive(k) # Recv(k) /\ Keepalive(k) # g
  BY <1>2, Kinds
<1>4. /\ at' = [at EXCEPT ![Recv(k)].pc = "loop", ![Keepalive(k)].pc = "select", ![g].pc = pc]
      /\ UNCHANGED <<connVars, managerVars, history>>
  BY DEF SetupSucceeds
<1> HIDE DEF k, pc
<1>5. pc \in PCs
  BY DEF pc, PCs
<1>6. /\ at' \in [Goroutines -> Local]
      /\ \A h \in Goroutines :
           /\ at'[h].then = at[h].then /\ at'[h].conn = at[h].conn /\ at'[h].event = at[h].event
           /\ h \notin {g, Recv(k), Keepalive(k)} => at'[h] = at[h]
      /\ at'[g].pc = pc /\ at'[Keepalive(k)].pc = "select"
      /\ g # Recv(k) => at'[Recv(k)].pc = "loop"
  <2> DEFINE f == [at EXCEPT ![Recv(k)].pc = "loop"]
             e == [f EXCEPT ![Keepalive(k)].pc = "select"]
  <2>1. at' = [e EXCEPT ![g].pc = pc] /\ at \in [Goroutines -> Local] /\ g \in Goroutines
    BY <1>1, <1>4, Mover
  <2>2. /\ f \in [Goroutines -> Local] /\ f[Recv(k)].pc = "loop"
        /\ \A h \in Goroutines :
             /\ f[h].then = at[h].then /\ f[h].conn = at[h].conn /\ f[h].event = at[h].event
             /\ h # Recv(k) => f[h] = at[h]
    BY <1>3, <2>1 DEF Local, PCs
  <2> HIDE DEF f
  <2>3. /\ e \in [Goroutines -> Local] /\ e[Keepalive(k)].pc = "select"
        /\ \A h \in Goroutines :
             /\ e[h].then = f[h].then /\ e[h].conn = f[h].conn /\ e[h].event = f[h].event
             /\ h # Keepalive(k) => e[h] = f[h]
    BY <2>2, <1>3 DEF Local, PCs
  <2> HIDE DEF e
  <2>5. at' \in [Goroutines -> Local] /\ at'[g].pc = pc
    BY <2>1, <2>3, <1>5 DEF Local
  <2>6. \A h \in Goroutines : h # g => at'[h] = e[h]
    BY <2>1, <2>3
  <2>7. at'[g].then = e[g].then /\ at'[g].conn = e[g].conn /\ at'[g].event = e[g].event
    BY <2>1, <2>3 DEF Local
  <2>8. \A h \in Goroutines :
          at'[h].then = e[h].then /\ at'[h].conn = e[h].conn /\ at'[h].event = e[h].event
    BY <2>6, <2>7
  <2>9. \A h \in Goroutines :
          at'[h].then = at[h].then /\ at'[h].conn = at[h].conn /\ at'[h].event = at[h].event
    BY <2>2, <2>3, <2>8
  <2>10. \A h \in Goroutines : h \notin {g, Recv(k), Keepalive(k)} => at'[h] = at[h]
    BY <2>2, <2>3, <2>6
  <2>11. at'[Keepalive(k)].pc = "select" /\ (g # Recv(k) => at'[Recv(k)].pc = "loop")
    BY <2>2, <2>3, <2>6, <1>3
  <2> QED BY <2>5, <2>9, <2>10, <2>11
<1>7. TypeOK'
  BY <1>4, <1>6, TypeParts DEF IInv, SharedOK, connVars, transport, managerVars, history
<1>13. at'[Stop] = at[Stop] /\ at'[Run].pc = IF g = Run THEN "wait" ELSE at[Run].pc
  <2>1. Stop \notin {g, Recv(k), Keepalive(k)} /\ Run \notin {Recv(k), Keepalive(k)}
    BY <1>2, Kinds
  <2> QED BY <2>1, <1>6, Kinds DEF pc
<1>8. Places'
  <2>1. \A j \in Conns :
          /\ at'[Keepalive(j)].pc \in {"none", "select", "done"} \cup ClosingPCs
          /\ at'[Keepalive(j)].then \in {"none", "done"}
    <3> TAKE j \in Conns
    <3>1. CASE j = k
      BY <3>1, <1>3, <1>6 DEF IInv, Places
    <3>2. CASE j # k
      <4>1. Keepalive(j) \notin {g, Recv(k), Keepalive(k)} /\ Keepalive(j) \in Goroutines
        BY <3>2, <1>2, Kinds
      <4> QED BY <4>1, <1>6 DEF IInv, Places
    <3> QED BY <3>1, <3>2
  <2>2. \A h \in Resumers : at'[h].then = at[h].then
    BY <1>6, Kinds
  <2>3. at'[Run].then = at[Run].then
    BY <2>2, Kinds
  <2> QED BY <2>1, <2>2, <2>3, <1>13 DEF IInv, Places, ClosingPCs
<1>9. CrashEnds' /\ NoCrash' /\ Transport' /\ ~crashed
  BY <1>1, <1>4, Mover DEF CrashEnds, NoCrash, Transport, connVars, transport
<1>10. WaitGroup'
  BY <1>1, <1>9, <1>13 DEF IInv, WaitGroup
<1>11. Attempts'
  <2>1. \A h \in Goroutines :
          at'[h].pc = at[h].pc \/ at'[h].pc \notin FailPCs \cup {"negotiate", "setup"}
    BY <1>6 DEF pc, FailPCs
  <2>2. \A j \in Conns :
          at'[Recv(j)].pc # "none" \/ at'[Keepalive(j)].pc # "none" => j \in 1 .. dials
    <3> TAKE j \in Conns
    <3>1. CASE j = k
      BY <3>1, <1>1 DEF k
    <3>2. CASE j # k
      BY <3>2, <1>1, <1>2, <1>6, <1>9, Kinds DEF IInv, Attempts
    <3> QED BY <3>1, <3>2
  <2> QED BY <2>1, <2>2, <1>1, <1>6, <1>9 DEF IInv, Attempts
<1>12. ASSUME ~Overlapping' PROVE Calm'
  <2>1. Calm /\ g \in Mains /\ Carries(g) /\ seen' = seen
    BY <1>1, <1>12, MainsMove DEF Carries, ConnectingPCs
  <2>2. /\ k = dials /\ at[Recv(k)].pc = "none" /\ g # Recv(k) /\ state' = "established"
        /\ "permanent" \notin seen'
    BY <2>1, <1>1, Carrier DEF k
  <2>3. /\ at[g].then = "none" /\ at[Recv(k)].then = "none"
    BY <2>1, <2>2, <1>1, <1>2, Kinds DEF Calm, ClosingPCs
  <2>4. /\ at'[g].pc \in {"wait", "handled"} /\ at'[Recv(k)].pc = "loop"
        /\ at'[g].then = "none" /\ at'[Recv(k)].then = "none"
    BY <2>2, <2>3, <1>3, <1>6, Mover, <1>1 DEF pc
  <2>10. \A h \in Mains : h \notin {g, Recv(k)} => at'[h] = at[h] /\ ~Carries(h)
    <3> TAKE h \in Mains
    <3>1. h \in Goroutines /\ h # Keepalive(k)
      BY <1>2, Kinds
    <3>2. h # g => ~Carries(h)
      BY <2>1 DEF Calm
    <3> QED BY <3>1, <3>2, <1>6
  <2>11. \A j \in Conns : at'[Drain(j)] = at[Drain(j)]
    <3> TAKE j \in Conns
    <3>1. Drain(j) \in Goroutines /\ Drain(j) \notin {g, Recv(k), Keepalive(k)}
      BY <1>2, <2>1, Kinds
    <3> QED BY <3>1, <1>6
  <2>5. \A h \in Mains : h # Recv(k) => ~Carries(h)'
    BY <2>4, <2>10 DEF Carries, ConnectingPCs, ClosingPCs
  <2>6. \A h \in Mains : h # Recv(k) =>
          at'[h].pc \notin {"loop", "read", "negotiate", "setup"}
    BY <2>5 DEF Carries, ConnectingPCs
  <2>7. \A h \in Mains : at'[h].then \in IF at'[h].pc \in ClosingPCs THEN FailPCs ELSE {"none"}
    BY <2>1, <2>4, <2>10 DEF Calm, ClosingPCs
  <2>8. at'[Run].pc # "none" /\ \A h \in Mains : at'[h].event # "streamError"
    <3>1. \A h \in Mains : at'[h].event = at[h].event
      BY <1>6, Kinds
    <3>2. at[Run].pc # "none"
      BY <2>1, <1>1, Kinds DEF Calm
    <3> QED BY <2>1, <3>1, <3>2, <1>13 DEF Calm
  <2>9. \A j \in Conns :
          /\ at'[Recv(j)].pc \in {"loop", "read"} => j = dials' /\ state' = "established"
          /\ at'[Recv(j)].pc = "read" => at'[Recv(j)].conn = j
    BY <2>2, <2>4, <2>6, <1>1, <1>2, Kinds
  <2> QED BY <2>1, <2>2, <2>4, <2>5, <2>6, <2>7, <2>8, <2>9, <2>11 DEF Calm
<1> QED BY <1>7, <1>8, <1>9, <1>10, <1>11, <1>12 DEF IInv

(* Besides the step of g, a goroutine is left to wait for the close.       *)
LEMMA SessionFailsIInv ==
  ASSUME IInv, NEW g \in Resumers, SessionFails(g)
  PROVE  IInv'
<1> DEFINE d == Drain(at[g].conn)
<1>1. /\ at[g].pc = "negotiate" /\ seen' = seen \cup {"attemptFailed", "sessionFailed"}
      /\ session' \in BOOLEAN /\ at[g].conn \in 1 .. dials
      /\ UNCHANGED <<connVars, state, handler, wg, dials, packets, crashed>>
  BY Mover DEF SessionFails
<1>2. d \in Goroutines /\ d \in Resumers /\ d \notin Mains
  <2>1. at[g].conn \in Conns
    BY <1>1, Mover, BoundsAssumption DEF SharedOK, Conns
  <2> QED BY <2>1, Kinds
<1>3. PICK permanent \in BOOLEAN :
        at' = BeginClose([at EXCEPT ![d].pc = "loop"], g, Failure(permanent))
  BY DEF SessionFails
<1> DEFINE f == [at EXCEPT ![d].pc = "loop"]
<1>4. /\ f \in [Goroutines -> Local] /\ f[d].pc = "loop"
      /\ \A h \in Goroutines : f[h].then = at[h].then /\ f[h].conn = at[h].conn
      /\ \A h \in Goroutines : h # d => f[h] = at[h]
  BY <1>1, <1>2, Mover DEF Local, PCs
<1>5. Failure(permanent) \in PCs /\ Failure(permanent) \in FailPCs
  BY DEF Failure, PCs, FailPCs
<1> DEFINE then == Failure(permanent)
<1> HIDE DEF d, f, then
<1>17. at' = BeginClose(f, g, then) /\ then \in PCs /\ then \in FailPCs
  BY <1>3, <1>5 DEF f, then
<1>6. /\ at' \in [Goroutines -> Local]
      /\ at'[g].pc \in ClosingPCs /\ at'[g].then \in FailPCs
      /\ \A h \in Goroutines : h # g => at'[h] = f[h]
  BY <1>1, <1>4, <1>17, Mover, Closes
<1>7. \A h \in Goroutines \ {g} :
        at'[h].then = at[h].then /\ at'[h].conn = at[h].conn /\ at'[h].pc \in {at[h].pc, "loop"}
  BY <1>4, <1>6
<1>8. \A h \in Goroutines : h \notin {g, d} => at'[h] = at[h]
  BY <1>4, <1>6
<1>9. ~crashed /\ ~crashed' /\ "attemptFailed" \in seen'
  BY <1>1, Mover
<1>10. TypeOK'
  BY <1>1, <1>6, TypeParts DEF IInv, SharedOK, connVars, transport, Events
<1>11. at'[Stop] = at[Stop] /\ (Run # g => at'[Run] = at[Run])
  BY <1>2, <1>8, Kinds
<1>12. Places'
  <2>1. \A k \in Conns : at'[Keepalive(k)] = at[Keepalive(k)]
    BY <1>2, <1>8, Kinds
  <2>2. \A h \in Resumers : at'[h].then = at[h].then \/ at'[h].then \in FailPCs
    BY <1>6, <1>7, Kinds
  <2>3. Run = g => at'[Run].pc \in ClosingPCs /\ at'[Run].then \in FailPCs
    BY <1>6
  <2> QED BY <2>1, <2>2, <2>3, <1>11 DEF IInv, Places
<1>13. CrashEnds' /\ NoCrash' /\ Transport'
  BY <1>1, <1>9, Mover DEF CrashEnds, NoCrash, Transport, connVars, transport
<1>14. WaitGroup'
  BY <1>1, <1>6, <1>9, <1>11 DEF IInv, WaitGroup, ClosingPCs
<1>15. Attempts'
  <2>1. \A h \in Goroutines : at'[h].pc \in {"negotiate", "setup"} => at'[h].conn \in 1 .. dials'
    BY <1>1, <1>6, <1>7, <1>9 DEF IInv, Attempts, ClosingPCs
  <2>2. \A k \in Conns :
          at'[Recv(k)].pc # "none" \/ at'[Keepalive(k)].pc # "none" => k \in 1 .. dials'
    <3> TAKE k \in Conns
    <3>1. at'[Recv(k)].pc # "none" => at[Recv(k)].pc # "none"
      BY <1>1, <1>2, <1>8, Kinds
    <3>2. at'[Keepalive(k)] = at[Keepalive(k)]
      BY <1>2, <1>8, Kinds
    <3> QED BY <3>1, <3>2, <1>1, <1>9 DEF IInv, Attempts
  <2> QED BY <2>1, <2>2, <1>9 DEF Attempts
<1>16. Overlapping'
  BY <1>1 DEF Overlapping
<1> QED BY <1>10, <1>12, <1>13, <1>14, <1>15, <1>16 DEF IInv

LEMMA SetupFailsIInv ==
  ASSUME IInv, NEW g \in Resumers, SetupFails(g)
  PROVE  IInv'
<1>1. /\ at[g].pc = "setup" /\ seen' = seen \cup {"attemptFailed"}
      /\ UNCHANGED <<connVars, managerVars, session, state, wg, dials, packets, crashed>>
  BY DEF SetupFails, managerVars
<1>2. /\ Moves(g)
      /\ at'[g].pc = "failTemporary" /\ at'[g].conn = at[g].conn
      /\ at'[g].then = at[g].then /\ at'[g].event = at[g].event
  BY <1>1, Mover DEF SetupFails, Moves, Goto, Local, PCs
<1>3. SharedOK'
  BY <1>1, Mover DEF SharedOK, Events, connVars, transport, managerVars
<1>4. Transport'
  BY <1>1, Mover DEF Transport, connVars, transport
<1>5. ASSUME ~Overlapping' PROVE Calm'
  <2>1. Calm /\ g \in Mains /\ Carries(g)
    BY <1>1, <1>5, MainsMove DEF Carries, ConnectingPCs
  <2>2. "permanent" \notin seen' /\ at'[g].event # "streamError"
    BY <2>1, <1>1, <1>2, Carrier
  <2>3. at'[g].pc \notin ClosingPCs /\ at'[g].then = "none"
    BY <2>1, <1>1, <1>2, Carrier DEF ClosingPCs
  <2> QED BY <2>1, <2>2, <2>3, <1>1, <1>2, Mover, CalmMove
<1>6. at'[g].pc \in ConnectingPCs \ ClosingPCs /\ dials <= dials'
  BY <1>1, <1>2, Mover DEF ConnectingPCs, ClosingPCs
<1> QED BY <1>1, <1>2, <1>3, <1>4, <1>5, <1>6, Mover, ResumerStep

(* A panic ends everything.                                                *)
LEMMA PanicIInv ==
  ASSUME IInv, Panic, SharedOK', Transport', "attemptFailed" \in seen', wg' \in -2 .. 1
  PROVE  IInv'
<1>1. crashed' = TRUE /\ \A g \in Goroutines : at'[g] = [Idle EXCEPT !.pc = "done"]
  BY DEF Panic
<1>2. at' \in [Goroutines -> Local] /\ \A g \in Goroutines :
        at'[g].pc = "done" /\ at'[g].then = "none" /\ at'[g].event = "none"
  BY DEF Panic, Idle, Local, PCs
<1>3. TypeOK'
  BY <1>1, <1>2, TypeParts
<1>4. Places'
  BY <1>2, Kinds DEF Places, ClosingPCs
<1>5. CrashEnds' /\ WaitGroup' /\ Attempts' /\ NoCrash'
  BY <1>1 DEF CrashEnds, WaitGroup, Attempts, NoCrash
<1>6. Calm'
  <2>1. \A g \in Mains : g \in Goroutines /\ ~Carries(g)'
    BY <1>2, Kinds DEF Carries, ConnectingPCs, ClosingPCs
  <2>2. \A k \in Conns : Drain(k) \in Goroutines /\ Recv(k) \in Goroutines
    BY Kinds
  <2>3. Run \in Goroutines
    BY Kinds
  <2> QED BY <2>1, <2>2, <2>3, <1>2 DEF Calm, ClosingPCs
<1> QED BY <1>3, <1>4, <1>5, <1>6 DEF IInv

LEMMA Finishes ==
  ASSUME at \in [Goroutines -> Local], NEW g \in Goroutines, Finish(g)
  PROVE  Moves(g) /\ at'[g].pc = "done" /\ at'[g].then = "none" /\ at'[g].event = "none"
  BY DEF Finish, Moves, Idle, Local, PCs

LEMMA AttemptFailsIInv ==
  ASSUME IInv, NEW g \in Resumers, AttemptFails(g)
  PROVE  IInv'
<1>1. /\ at[g].pc \in {"failTemporary", "failPermanent"}
      /\ seen' = IF at[g].pc = "failPermanent" THEN seen \cup {"permanent"} ELSE seen
      /\ UNCHANGED <<connVars, session, state, handler, dials, packets>>
      /\ seen \subseteq seen'
  BY DEF AttemptFails
<1>2. /\ at[g].pc \in FailPCs /\ at[g].pc \notin {"none", "done"} \cup ClosingPCs
      /\ "attemptFailed" \in seen'
  BY <1>1, Mover DEF FailPCs, ClosingPCs
<1>3. SharedOK' /\ Transport'
  BY <1>1, <1>2, Mover DEF SharedOK, Transport, connVars, transport, Events
<1>4. ASSUME ~Overlapping'
      PROVE  /\ Calm /\ g \in Mains /\ Carries(g)
             /\ at[g].event # "streamError" /\ at[g].then = "none" /\ "permanent" \notin seen
  <2>1. Calm /\ g \in Mains /\ Carries(g)
    BY <1>1, <1>2, <1>4, MainsMove DEF Carries, ConnectingPCs
  <2> QED BY <2>1, <1>2, Carrier
<1>5. CASE g = Run /\ wg = 0
  <2>1. Panic /\ wg' = -1
    BY <1>5 DEF AttemptFails, WgDone
  <2> QED BY <2>1, <1>2, <1>3, PanicIInv
<1>6. CASE g = Run /\ wg # 0
  <2>1. /\ Moves(g) /\ at'[g].pc = "done" /\ at'[g].then = "none" /\ at'[g].event = "none"
        /\ wg' = wg - 1 /\ UNCHANGED crashed
    BY <1>2, <1>6, Mover, Finishes DEF AttemptFails, WgDone
  <2>2. wg = 1 /\ ~crashed
    BY <1>2, <1>6, Mover DEF IInv, WaitGroup
  <2>3. TypeOK'
    BY <1>3, <2>1, <2>2, TypeParts DEF IInv, Moves
  <2>4. Places'
    BY <2>1, <1>6, PlacesMove DEF IInv, ClosingPCs
  <2>5. WaitGroup' /\ CrashEnds' /\ NoCrash'
    BY <1>2, <1>6, <2>1, <2>2 DEF WaitGroup, CrashEnds, NoCrash
  <2>6. Attempts'
    BY <1>1, <1>2, <2>1, <2>2, Mover, AttemptsMove DEF IInv
  <2>7. ASSUME ~Overlapping' PROVE Calm'
    <3>1. ~Carries(g)' /\ at'[g].pc \notin ClosingPCs
      BY <2>1 DEF Carries, ConnectingPCs, ClosingPCs
    <3> QED BY <1>1, <1>2, <1>4, <2>1, <2>7, <3>1, Mover, CalmMove
  <2> QED BY <2>3, <2>4, <2>5, <2>6, <2>7, <1>3 DEF IInv
<1>7. CASE g # Run
  <2>1. /\ at' = [at EXCEPT ![g].pc = IF at[g].pc = "failPermanent" THEN "handled" ELSE "dial"]
        /\ UNCHANGED <<wg, crashed>>
    BY <1>7 DEF AttemptFails, Goto
  <2>2. /\ Moves(g) /\ at'[g].conn = at[g].conn
        /\ at'[g].pc = IF at[g].pc = "failPermanent" THEN "handled" ELSE "dial"
        /\ at'[g].then = at[g].then /\ at'[g].event = at[g].event
    BY <1>2, <2>1, Mover DEF Moves, Local, PCs
  <2>3. at'[g].pc \notin {"none"} \cup ClosingPCs \cup FailPCs
    BY <2>2 DEF ClosingPCs, FailPCs
  <2>4. ASSUME ~Overlapping' PROVE Calm'
    <3>1. "permanent" \in seen' => ~Carries(g)'
      BY <1>1, <1>4, <2>2, <2>4 DEF Carries, ConnectingPCs, ClosingPCs
    <3> QED BY <1>1, <1>2, <1>4, <2>2, <2>3, <2>4, <3>1, Mover, CalmMove
  <2> QED BY <1>1, <1>2, <1>3, <1>7, <2>1, <2>2, <2>3, <2>4, Mover, ResumerStep
<1> QED BY <1>5, <1>6, <1>7

-----------------------------------------------------------------------------
(* Close, called by whoever connects or reads.                             *)

LEMMA ResumerClosesIInv ==
  ASSUME IInv, NEW g \in Resumers, Closing(g)
  PROVE  IInv'
<1>1. /\ at[g].pc \in {"closeWait", "closeConn"}
      /\ UNCHANGED <<transport, peer, inbox, managerVars, history>>
  BY DEF Closing, CloseWaits, ClosesConn
<1>2. at[g].pc \notin {"none", "done"} /\ at[g].pc \in ClosingPCs
  BY <1>1 DEF ClosingPCs
<1>3. /\ Moves(g) /\ at'[g].conn = at[g].conn /\ at'[g].event = at[g].event
      /\ \/ at'[g].pc = "closeConn" /\ at'[g].then = at[g].then
         \/ at'[g].pc = at[g].then /\ at'[g].then = "none"
  BY <1>2, Mover DEF Closing, CloseWaits, ClosesConn, Moves, Goto, Local, PCs
<1>4. SharedOK'
  <2>1. tokens' \in SUBSET Conns /\ closed' \in SUBSET Conns
    BY <1>2, Mover, BoundsAssumption
       DEF Closing, CloseWaits, ClosesConn, SharedOK, Transport, Conns
  <2> QED BY <1>1, <1>2, <2>1, Mover DEF SharedOK, transport, managerVars, history
<1>5. Transport'
  BY <1>1, <1>2, Mover DEF Transport, transport, history
<1>6. UNCHANGED <<wg, crashed, seen, dials, session, state>>
  BY <1>1 DEF managerVars, history
<1>7. /\ at[g].then \in FailPCs => at'[g].pc \in FailPCs \cup ClosingPCs
      /\ at'[g].pc \notin {"negotiate", "setup"}
      /\ at'[g].pc \in FailPCs => at[g].then \in FailPCs
      /\ at'[g].pc \in ClosingPCs => at'[g].then = at[g].then
  BY <1>2, <1>3, Mover DEF FailPCs, ClosingPCs
<1>8. g = Run => /\ at'[g].pc \in {"wait"} \cup ConnectingPCs \cup ClosingPCs
                 /\ at'[g].pc \in ClosingPCs => at'[g].then \in FailPCs
  BY <1>2, <1>7 DEF IInv, Places, ConnectingPCs, FailPCs
<1>9. ASSUME ~Overlapping' PROVE Calm'
  <2>1. Calm /\ g \in Mains /\ Carries(g)
    BY <1>2, <1>6, <1>9, MainsMove DEF Carries
  <2>2. /\ at[g].then \in FailPCs /\ "permanent" \notin seen'
        /\ at'[g].event # "streamError"
    BY <2>1, <1>2, <1>3, <1>6, Carrier
  <2>3. /\ at'[g].pc \notin {"none", "loop", "read", "negotiate", "setup"}
        /\ at'[g].then \in IF at'[g].pc \in ClosingPCs THEN FailPCs ELSE {"none"}
    BY <2>2, <1>3, <1>7 DEF FailPCs, ClosingPCs
  <2> QED BY <2>1, <2>2, <2>3, <1>2, <1>3, <1>6, Mover, CalmMove
<1>10. /\ at'[g].then \in {"none", "dial", "handled", "loop"} \cup FailPCs
       /\ at'[g].pc \in FailPCs \/ at'[g].then \in FailPCs => "attemptFailed" \in seen'
       /\ dials <= dials'
  BY <1>2, <1>3, <1>6, <1>7, Mover DEF FailPCs
<1> QED BY <1>2, <1>3, <1>4, <1>5, <1>6, <1>7, <1>8, <1>9, <1>10, Mover, ResumerStep

-----------------------------------------------------------------------------
(* recv, and the goroutine of a failed connect.                            *)

LEMMA NextPacketIInv ==
  ASSUME IInv, NEW g \in Readers, NextPacket(g)
  PROVE  IInv'
<1>1. /\ at[g].pc = "loop" /\ g \in Resumers /\ g # Run
      /\ UNCHANGED <<connVars, managerVars, history>>
      /\ UNCHANGED <<session, state, wg, seen, dials, crashed>>
  BY Kinds DEF NextPacket, managerVars, history
<1>2. decoder \in Nat /\ decoder = dials
  BY <1>1, Mover DEF SharedOK, Transport
<1>3. /\ Moves(g)
      /\ at'[g].pc = "read" /\ at'[g].conn = dials
      /\ at'[g].then = at[g].then /\ at'[g].event = at[g].event
  BY <1>1, <1>2, Mover DEF NextPacket, Moves, Local, PCs
<1>4. SharedOK' /\ Transport'
  BY <1>1, Mover DEF SharedOK, Transport, connVars, transport, managerVars, history
<1>5. at'[g].pc \notin ClosingPCs \cup FailPCs
  BY <1>3 DEF ClosingPCs, FailPCs
<1>6. ASSUME ~Overlapping' PROVE Calm'
  <2>1. Calm /\ g \in Mains /\ Carries(g)
    BY <1>1, <1>6, MainsMove DEF Carries
  <2>2. /\ "permanent" \notin seen' /\ at'[g].event # "streamError" /\ at'[g].then = "none"
    BY <2>1, <1>1, <1>3, Carrier DEF ClosingPCs
  <2>3. dials \in Conns /\ g = Recv(dials) /\ state = "established"
    BY <2>1, <1>1, Kinds DEF Calm
  <2> QED BY <2>1, <2>2, <2>3, <1>1, <1>3, <1>5, Mover, CalmMove
<1>7. dials <= dials'
  BY <1>1, Mover
<1> QED BY <1>1, <1>3, <1>4, <1>5, <1>6, <1>7, Mover, ResumerStep

(* disconnected: the carrier takes up the reconnection, or ends.           *)
LEMMA DisconnectedIInv ==
  ASSUME IInv, NEW g \in Readers, at[g].pc = "read", Disconnected(g),
         SharedOK', Transport', UNCHANGED <<wg, dials, session, seen>>
  PROVE  IInv'
<1>1. g \in Resumers /\ g # Run
  BY Kinds
<1>2. CASE g[1] = "recv" /\ ~session
  <2>1. Panic
    BY <1>2 DEF Disconnected
  <2>2. \E k \in Conns : g = Recv(k)
    BY <1>2, Kinds
  <2>3. "attemptFailed" \in seen'
    BY <1>1, <1>2, <2>2, Mover DEF IInv, Attempts
  <2>4. wg' \in -2 .. 1
    BY TypeParts DEF IInv
  <2> QED BY <2>1, <2>3, <2>4, PanicIInv
<1>3. CASE ~(g[1] = "recv" /\ ~session)
  <2> DEFINE pc == IF handler THEN "dial" ELSE "handled"
  <2>1. /\ at' = [at EXCEPT ![g].pc = pc, ![g].event = "disconnected"]
        /\ UNCHANGED crashed
    BY <1>3 DEF Disconnected
  <2>2. pc \in PCs /\ pc \notin {"none", "loop", "read", "negotiate", "setup"}
    BY DEF PCs
  <2>3. pc \notin ClosingPCs \cup FailPCs
    BY DEF ClosingPCs, FailPCs
  <2> HIDE DEF pc
  <2>4. /\ Moves(g)
        /\ at'[g].pc = pc /\ at'[g].then = at[g].then /\ at'[g].event = "disconnected"
    BY <1>1, <2>1, <2>2, Mover DEF Moves, Local
  <2>5. ASSUME ~Overlapping' PROVE Calm'
    <3>1. Calm /\ g \in Mains /\ Carries(g)
      BY <1>1, <2>5, MainsMove DEF Carries
    <3>2. /\ "permanent" \notin seen' /\ at'[g].then = "none"
      BY <3>1, <2>4, Carrier DEF ClosingPCs
    <3> QED BY <1>1, <3>1, <3>2, <2>2, <2>3, <2>4, Mover, CalmMove
  <2>6. dials <= dials'
    BY <1>1, Mover
  <2> QED BY <1>1, <2>1, <2>2, <2>3, <2>4, <2>5, <2>6, Mover, ResumerStep
<1> QED BY <1>2, <1>3

LEMMA DisconnectedState ==
  ASSUME NEW g \in Readers, Disconnected(g), state \in States
  PROVE  state' \in States
  BY DEF Disconnected, States

LEMMA ReadFailsIInv ==
  ASSUME IInv, NEW g \in Readers, ReadFails(g)
  PROVE  IInv'
<1>1. /\ at[g].pc = "read" /\ g \in Resumers /\ Disconnected(g)
      /\ UNCHANGED <<connVars, session, handler, wg, dials, packets, seen>>
  BY Kinds DEF ReadFails
<1>2. SharedOK' /\ Transport'
  BY <1>1, Mover, DisconnectedState DEF SharedOK, Transport, connVars, transport
<1> QED BY <1>1, <1>2, DisconnectedIInv

LEMMA ReadsInbox ==
  ASSUME NEW g, NEW types, Reads(g, types),
         inbox \in [Conns -> Seq({"stanza", "error", "conflict", "close"})]
  PROVE  /\ inbox' \in [Conns -> Seq({"stanza", "error", "conflict", "close"})]
         /\ at[g].pc = "read"
<1>1. /\ at[g].pc = "read" /\ inbox[at[g].conn] # << >>
      /\ inbox' = [inbox EXCEPT ![at[g].conn] = Tail(@)]
  BY DEF Reads
<1> DEFINE k == at[g].conn
           S == {"stanza", "error", "conflict", "close"}
<1> HIDE DEF k, S
<1>2. inbox \in [Conns -> Seq(S)] /\ inbox[k] # << >> /\ inbox' = [inbox EXCEPT ![k] = Tail(inbox[k])]
  BY <1>1 DEF k, S
<1>3. k \in Conns => Tail(inbox[k]) \in Seq(S)
  BY <1>2
<1>4. inbox' \in [Conns -> Seq(S)]
  BY <1>2, <1>3
<1> QED BY <1>1, <1>4 DEF S

LEMMA ReadsStanzaIInv ==
  ASSUME IInv, NEW g \in Readers, ReadsStanza(g)
  PROVE  IInv'
<1>1. g \in Resumers /\ g # Run
  BY Kinds
<1>2. PICK types : Reads(g, types)
  BY DEF ReadsStanza
<1>3. at[g].pc = "read"
  BY <1>2 DEF Reads
<1>4. UNCHANGED <<transport, tokens, closed, peer, managerVars, dials, packets, seen>>
  BY DEF ReadsStanza
<1>5. SharedOK' /\ Transport'
  <2>1. inbox \in [Conns -> Seq({"stanza", "error", "conflict", "close"})]
    BY <1>1, <1>3, Mover DEF SharedOK
  <2>2. inbox' \in [Conns -> Seq({"stanza", "error", "conflict", "close"})]
    BY <1>2, <2>1, ReadsInbox
  <2> QED BY <1>1, <1>3, <1>4, <2>2, Mover DEF SharedOK, Transport, transport, managerVars
<1>6. CASE g[1] = "recv" /\ ~session
  <2>1. Panic
    BY <1>6 DEF ReadsStanza
  <2>2. \E k \in Conns : g = Recv(k)
    BY <1>6, Kinds
  <2>3. "attemptFailed" \in seen'
    BY <1>1, <1>3, <1>4, <1>6, <2>2, Mover DEF IInv, Attempts
  <2>4. wg' \in -2 .. 1
    BY <1>4, TypeParts DEF IInv, managerVars
  <2> QED BY <1>5, <2>1, <2>3, <2>4, PanicIInv
<1>7. CASE ~(g[1] = "recv" /\ ~session)
  <2>1. Goto(g, "loop") /\ UNCHANGED crashed
    BY <1>7 DEF ReadsStanza
  <2>2. /\ Moves(g)
        /\ at'[g].pc = "loop" /\ at'[g].then = at[g].then /\ at'[g].event = at[g].event
    BY <1>1, <1>3, <2>1, Mover DEF Goto, Moves, Local, PCs
  <2>3. UNCHANGED <<session, state, wg>>
    BY <1>4 DEF managerVars
  <2>4. at'[g].pc \notin ClosingPCs \cup FailPCs
    BY <2>2 DEF ClosingPCs, FailPCs
  <2>5. ASSUME ~Overlapping' PROVE Calm'
    <3>1. Calm /\ g \in Mains /\ Carries(g)
      BY <1>1, <1>3, <1>4, <2>5, MainsMove DEF Carries
    <3>2. /\ "permanent" \notin seen' /\ at'[g].event # "streamError" /\ at'[g].then = "none"
      BY <3>1, <1>3, <1>4, <2>2, Carrier DEF ClosingPCs
    <3>3. dials \in Conns /\ g = Recv(dials) /\ state = "established"
      BY <3>1, <1>1, <1>3, Kinds DEF Calm
    <3> QED BY <3>1, <3>2, <3>3, <1>1, <1>3, <1>4, <2>2, <2>3, <2>4, Mover, CalmMove
  <2>6. dials <= dials'
    BY <1>1, <1>3, <1>4, Mover
  <2>7. /\ at'[g].then \in {"none", "dial", "handled", "loop"} \cup FailPCs
        /\ at'[g].then \in FailPCs => "attemptFailed" \in seen'
    BY <1>1, <1>3, <1>4, <2>2, Mover
  <2> QED BY <1>1, <1>3, <1>4, <1>5, <2>1, <2>2, <2>3, <2>4, <2>5, <2>6, <2>7, ResumerStep
<1> QED BY <1>6, <1>7

LEMMA ReadsCloseIInv ==
  ASSUME IInv, NEW g \in Readers, ReadsClose(g)
  PROVE  IInv'
<1>1. /\ at[g].pc = "read" /\ g \in Resumers /\ g # Run
      /\ UNCHANGED <<transport, closed, peer, session, handler, wg, dials, packets, seen>>
  BY Kinds DEF ReadsClose, Reads
<1>2. inbox' \in [Conns -> Seq({"stanza", "error", "conflict", "close"})]
  <2>1. inbox \in [Conns -> Seq({"stanza", "error", "conflict", "close"})]
    BY <1>1, Mover DEF SharedOK
  <2> QED BY <2>1, ReadsInbox DEF ReadsClose
<1>3. tokens' \in SUBSET Conns
  BY <1>1, Mover, BoundsAssumption DEF ReadsClose, SharedOK, Transport, Conns
<1>4. state' \in States
  BY <1>1, Mover, DisconnectedState DEF ReadsClose, SharedOK
<1>5. SharedOK' /\ Transport'
  BY <1>1, <1>2, <1>3, <1>4, Mover DEF SharedOK, Transport, transport
<1>6. CASE g[1] = "recv"
  BY <1>1, <1>5, <1>6, DisconnectedIInv DEF ReadsClose
<1>7. CASE g[1] # "recv"
  <2>1. /\ Moves(g) /\ at'[g].pc = "done" /\ at'[g].then = "none"
        /\ UNCHANGED crashed
    BY <1>1, <1>7, Mover, Finishes DEF ReadsClose
  <2>2. g \notin Mains
    BY <1>1, <1>7, Kinds
  <2>3. Overlapping'
    BY <1>1, <2>2, MainsMove
  <2>4. dials <= dials' /\ at'[g].pc \notin FailPCs
    BY <1>1, <2>1, Mover DEF FailPCs
  <2> QED BY <1>1, <1>5, <2>1, <2>3, <2>4, ResumerStep DEF FailPCs
<1> QED BY <1>6, <1>7

LEMMA ReadsStreamErrorIInv ==
  ASSUME IInv, NEW k \in Conns, ReadsStreamError(k)
  PROVE  IInv'
<1> DEFINE g == Recv(k)
<1>1. PICK e \in {"error", "conflict"} :
        /\ Reads(g, {e})
        /\ seen' = seen \cup {IF e = "conflict" THEN "conflict" ELSE "streamError"}
        /\ LET here == [at EXCEPT ![g].event = "streamError"]
           IN at' = IF handler THEN BeginClose(here, g, IF e = "conflict" THEN "handled" ELSE "dial")
                               ELSE [here EXCEPT ![g].pc = "handled"]
  BY DEF ReadsStreamError
<1>2. /\ state' = "streamError"
      /\ UNCHANGED <<transport, tokens, closed, peer, session, handler, wg, dials, packets, crashed>>
  BY DEF ReadsStreamError
<1> DEFINE here == [at EXCEPT ![g].event = "streamError"]
           then == IF e = "conflict" THEN "handled" ELSE "dial"
<1>3. g \in Resumers /\ g # Run
  BY Kinds
<1>4. /\ at[g].pc = "read" /\ seen \subseteq seen' /\ Overlapping'
  BY <1>1 DEF Reads, Overlapping
<1> HIDE DEF g
<1>5. /\ here \in [Goroutines -> Local]
      /\ here[g].then = at[g].then
      /\ \A h \in Goroutines : h # g => here[h] = at[h]
  BY <1>3, <1>4, Mover DEF Local
<1>6. then \in PCs /\ then \in {"handled", "dial"} /\ then \notin FailPCs
  BY DEF PCs, FailPCs
<1>7. at' = IF handler THEN BeginClose(here, g, then) ELSE [here EXCEPT ![g].pc = "handled"]
  BY <1>1
<1> HIDE DEF here, then
<1>8. /\ Moves(g)
      /\ at'[g].pc \notin FailPCs \cup {"negotiate", "setup"}
      /\ at'[g].then \in {at[g].then, "handled", "dial"}
  <2>1. CASE handler
    <3>1. /\ Moves(g) /\ at'[g].pc \in ClosingPCs /\ at'[g].then = then
      BY <2>1, <1>3, <1>4, <1>5, <1>6, <1>7, Mover, Closes DEF Moves
    <3> QED BY <3>1, <1>6 DEF ClosingPCs, FailPCs
  <2>2. CASE ~handler
    <3>1. at' = [here EXCEPT ![g].pc = "handled"] /\ g \in Goroutines
      BY <2>2, <1>3, <1>4, <1>7, Mover
    <3>2. /\ at' \in [Goroutines -> Local]
          /\ at'[g].pc = "handled" /\ at'[g].then = here[g].then
          /\ \A h \in Goroutines : h # g => at'[h] = here[h]
      BY <3>1, <1>5 DEF Local, PCs
    <3> QED BY <3>2, <1>5 DEF Moves, FailPCs
  <2> QED BY <2>1, <2>2
<1>9. SharedOK' /\ Transport'
  <2>1. inbox \in [Conns -> Seq({"stanza", "error", "conflict", "close"})]
    BY <1>3, <1>4, Mover DEF SharedOK
  <2>2. inbox' \in [Conns -> Seq({"stanza", "error", "conflict", "close"})]
    BY <2>1, <1>1, ReadsInbox
  <2>3. seen' \in SUBSET Events
    BY <1>1, <1>3, <1>4, Mover DEF SharedOK, Events
  <2> QED BY <1>2, <1>3, <1>4, <2>2, <2>3, Mover DEF SharedOK, Transport, transport, States
<1>10. /\ at'[g].then \in {"none", "dial", "handled", "loop"} \cup FailPCs
       /\ at'[g].then \in FailPCs => "attemptFailed" \in seen'
       /\ dials <= dials'
  BY <1>2, <1>3, <1>4, <1>8, Mover DEF FailPCs
<1> QED BY <1>2, <1>3, <1>4, <1>8, <1>9, <1>10, ResumerStep

(* A main goroutine that carries nothing ends.                             *)
LEMMA CalmEnds ==
  ASSUME Calm, NEW g \in Mains, Moves(g), at[g].pc # "none",
         UNCHANGED <<dials, state, seen>>,
         at'[g].pc = "done", at'[g].then = "none", at'[g].event = "none"
  PROVE  Calm'
<1>1. /\ \A h \in Mains : h # g => at'[h] = at[h]
      /\ \A k \in Conns : at'[Drain(k)] = at[Drain(k)]
  BY Kinds DEF Moves
<1>2. at'[g].pc \notin ConnectingPCs \cup ClosingPCs \cup {"none", "loop", "read"}
  BY DEF ConnectingPCs, ClosingPCs
<1>3. /\ \A h \in Mains : Carries(h)' => Carries(h)
      /\ \A h \in Mains : at'[h].event # "streamError"
      /\ \A h \in Mains : at'[h].then \in IF at'[h].pc \in ClosingPCs THEN FailPCs ELSE {"none"}
  BY <1>1, <1>2 DEF Calm, Carries
<1>4. at'[Run].pc # "none"
  BY <1>1, Kinds DEF Calm
<1>5. \A k \in Conns :
        /\ at'[Recv(k)].pc \in {"loop", "read"} => k = dials' /\ state' = "established"
        /\ at'[Recv(k)].pc = "read" => at'[Recv(k)].conn = k
  BY <1>1, Kinds DEF Calm
<1>6. \A h \in Mains :
        /\ at'[h].pc \in {"negotiate", "setup"} =>
             dials' \in Conns /\ at'[h].conn = dials' /\ at'[Recv(dials')].pc = "none"
        /\ at'[h].pc = "setup" => state' = "established"
  <2> SUFFICES ASSUME NEW h \in Mains, at'[h].pc \in {"negotiate", "setup"}
               PROVE  /\ dials' \in Conns /\ at'[h].conn = dials' /\ at'[Recv(dials')].pc = "none"
                      /\ at'[h].pc = "setup" => state' = "established"
    OBVIOUS
  <2>1. h # g /\ at'[h] = at[h]
    BY <1>1
  <2>2. /\ dials \in Conns /\ at[h].conn = dials /\ at[Recv(dials)].pc = "none"
        /\ at[h].pc = "setup" => state = "established"
    BY <2>1 DEF Calm
  <2> QED BY <2>1, <2>2, <1>1, Kinds
<1> QED BY <1>1, <1>3, <1>4, <1>5, <1>6 DEF Calm

LEMMA HandledIInv ==
  ASSUME IInv, NEW g \in Readers, Handled(g)
  PROVE  IInv'
<1>1. /\ at[g].pc = "handled" /\ g \in Resumers /\ g # Run
      /\ UNCHANGED <<connVars, managerVars, history>>
      /\ UNCHANGED <<session, state, wg, seen, dials, crashed>>
  BY Kinds DEF Handled, managerVars, history
<1>2. SharedOK' /\ Transport' /\ dials <= dials'
  BY <1>1, Mover DEF SharedOK, Transport, connVars, transport, managerVars, history
<1>3. CASE at[g].event = "streamError"
  <2> DEFINE here == [at EXCEPT ![g].event = "none"]
  <2>1. at' = BeginClose(here, g, "loop")
    BY <1>3 DEF Handled
  <2>2. /\ here \in [Goroutines -> Local]
        /\ \A h \in Goroutines : h # g => here[h] = at[h]
    BY <1>1, Mover DEF Local
  <2>3. "loop" \in PCs
    BY DEF PCs
  <2> HIDE DEF here
  <2>4. Moves(g) /\ at'[g].pc \in ClosingPCs /\ at'[g].then = "loop"
    BY <1>1, <2>1, <2>2, <2>3, Mover, Closes DEF Moves
  <2>5. at'[g].pc \notin FailPCs \cup {"negotiate", "setup"} /\ "loop" \notin FailPCs
    BY <2>4 DEF FailPCs, ClosingPCs
  <2>6. Overlapping'
    BY <1>1, <1>3, MainsMove DEF Calm
  <2> QED BY <1>1, <1>2, <2>4, <2>5, <2>6, ResumerStep
<1>4. CASE at[g].event # "streamError"
  <2>1. Moves(g) /\ at'[g].pc = "done" /\ at'[g].then = "none" /\ at'[g].event = "none"
    BY <1>1, <1>4, Mover, Finishes DEF Handled
  <2>2. at'[g].pc \notin FailPCs /\ "none" \notin FailPCs
    BY <2>1 DEF FailPCs
  <2>3. ASSUME ~Overlapping' PROVE Calm'
    BY <1>1, <2>1, <2>3, MainsMove, CalmEnds
  <2> QED BY <1>1, <1>2, <2>1, <2>2, <2>3, ResumerStep
<1> QED BY <1>3, <1>4

-----------------------------------------------------------------------------
(* Stop and keepalive.                                                     *)

(* What carries the session does not notice a step of any other goroutine. *)
LEMMA CalmSame ==
  ASSUME Calm, \A h \in Resumers : at'[h] = at[h], UNCHANGED <<dials, state, seen>>
  PROVE  Calm'
<1>1. /\ \A h \in Mains : at'[h] = at[h]
      /\ \A k \in Conns : at'[Drain(k)] = at[Drain(k)] /\ at'[Recv(k)] = at[Recv(k)]
      /\ at'[Run] = at[Run]
  BY Kinds
<1>2. \A h \in Mains : Carries(h)' <=> Carries(h)
  BY <1>1 DEF Carries
<1>3. /\ \A k \in Conns : at'[Drain(k)].pc \in {"none", "done"} /\ at'[Drain(k)].then = "none"
      /\ \A g \in Mains : at'[g].event # "streamError"
      /\ \A g \in Mains : at'[g].then \in IF at'[g].pc \in ClosingPCs THEN FailPCs ELSE {"none"}
      /\ \A g, h \in Mains : Carries(g)' /\ Carries(h)' => g = h
  BY <1>1, <1>2 DEF Calm
<1>4. /\ at'[Run].pc = "none" => \A k \in Conns : at'[Recv(k)].pc = "none"
      /\ \A k \in Conns :
           /\ at'[Recv(k)].pc \in {"loop", "read"} => k = dials' /\ state' = "established"
           /\ at'[Recv(k)].pc = "read" => at'[Recv(k)].conn = k
  BY <1>1 DEF Calm
<1>5. \A g \in Mains : at'[g].pc \in {"negotiate", "setup"} =>
        dials' \in Conns /\ at'[g].conn = dials' /\ at'[Recv(dials')].pc = "none"
  BY <1>1 DEF Calm
<1>6. /\ \A g \in Mains : at'[g].pc = "setup" => state' = "established"
      /\ "permanent" \in seen' => \A g \in Mains : at'[g].pc # "none" \/ g # Run
      /\ "permanent" \in seen' => \A g \in Mains : ~Carries(g)'
  BY <1>1, <1>2 DEF Calm
<1> QED BY <1>3, <1>4, <1>5, <1>6 DEF Calm

LEMMA OtherStep ==
  ASSUME IInv, NEW g \in Goroutines, g \notin Resumers, Moves(g), ~crashed,
         UNCHANGED <<wg, crashed, seen, dials, session, state>>, SharedOK', Transport',
         g = Stop =>
           /\ at'[g].pc \in {"stopped"} \cup ClosingPCs /\ at'[g].then \in {"none", "stopped"}
           /\ at'[g].pc \in ClosingPCs => at'[g].then = "stopped"
           /\ at[Run].pc # "none" /\ at[g].pc # "done",
         \A k \in Conns : g = Keepalive(k) =>
           /\ at'[g].pc \in {"none", "select", "done"} \cup ClosingPCs
           /\ at'[g].then \in {"none", "done"}
           /\ at[g].pc # "none"
  PROVE  IInv'
<1>1. /\ \A h \in Resumers : at'[h] = at[h]
      /\ at'[Run] = at[Run]
      /\ \A k \in Conns : at'[Recv(k)] = at[Recv(k)]
      /\ g # Stop => at'[Stop] = at[Stop]
      /\ \A k \in Conns : g # Keepalive(k) => at'[Keepalive(k)] = at[Keepalive(k)]
  BY Kinds DEF Moves
<1>2. TypeOK'
  BY TypeParts DEF IInv, Moves
<1>3. Places'
  BY <1>1, Kinds DEF IInv, Places, ClosingPCs
<1>4. CrashEnds' /\ NoCrash'
  BY DEF CrashEnds, NoCrash
<1>5. WaitGroup'
  BY <1>1 DEF IInv, WaitGroup, ClosingPCs
<1>6. Attempts'
  <2>1. g = Stop \/ \E k \in Conns : g = Keepalive(k)
    BY Kinds
  <2>2. /\ at'[g].pc \notin FailPCs \cup {"negotiate", "setup"}
        /\ at'[g].then \notin FailPCs
    BY <2>1 DEF FailPCs, ClosingPCs
  <2>3. \A k \in Conns :
          at'[Recv(k)].pc # "none" \/ at'[Keepalive(k)].pc # "none" => k \in 1 .. dials
    BY <1>1 DEF IInv, Attempts
  <2> QED BY <1>1, <2>2, <2>3 DEF IInv, Attempts, Moves
<1>7. ~Overlapping' => Calm'
  BY <1>1, CalmSame DEF IInv, Overlapping
<1> QED BY <1>2, <1>3, <1>4, <1>5, <1>6, <1>7 DEF IInv

LEMMA OtherMover ==
  ASSUME IInv, NEW g \in Goroutines, at[g].pc # "done"
  PROVE  /\ at \in [Goroutines -> Local] /\ at[g] \in Local /\ ~crashed
         /\ SharedOK /\ Transport /\ closeChan \in Nat
  BY Alive, TypeParts DEF IInv, SharedOK

LEMMA OtherClosesIInv ==
  ASSUME IInv, NEW g \in Goroutines, g \notin Resumers, Closing(g)
  PROVE  IInv'
<1>1. /\ at[g].pc \in {"closeWait", "closeConn"}
      /\ UNCHANGED <<transport, peer, inbox, managerVars, history>>
      /\ UNCHANGED <<wg, crashed, seen, dials, session, state>>
  BY DEF Closing, CloseWaits, ClosesConn, managerVars, history
<1>2. at[g].pc \notin {"none", "done"} /\ at[g].pc \in ClosingPCs
  BY <1>1 DEF ClosingPCs
<1>3. /\ Moves(g)
      /\ \/ at'[g].pc = "closeConn" /\ at'[g].then = at[g].then
         \/ at'[g].pc = at[g].then /\ at'[g].then = "none"
  BY <1>2, OtherMover DEF Closing, CloseWaits, ClosesConn, Moves, Goto, Local, PCs
<1>4. SharedOK' /\ Transport'
  <2>1. tokens' \in SUBSET Conns /\ closed' \in SUBSET Conns
    BY <1>2, OtherMover, BoundsAssumption
       DEF Closing, CloseWaits, ClosesConn, SharedOK, Transport, Conns
  <2> QED BY <1>1, <1>2, <2>1, OtherMover DEF SharedOK, Transport, transport, managerVars, history
<1>5. g = Stop =>
        /\ at'[g].pc \in {"stopped"} \cup ClosingPCs /\ at'[g].then \in {"none", "stopped"}
        /\ at'[g].pc \in ClosingPCs => at'[g].then = "stopped"
        /\ at[Run].pc # "none" /\ at[g].pc # "done"
  BY <1>2, <1>3, OtherMover DEF IInv, Places, WaitGroup, ClosingPCs
<1>6. \A k \in Conns : g = Keepalive(k) =>
        /\ at'[g].pc \in {"none", "select", "done"} \cup ClosingPCs
        /\ at'[g].then \in {"none", "done"}
        /\ at[g].pc # "none"
  BY <1>2, <1>3 DEF IInv, Places, ClosingPCs
<1> QED BY <1>1, <1>2, <1>3, <1>4, <1>5, <1>6, OtherMover, OtherStep

LEMMA PingFailsIInv ==
  ASSUME IInv, NEW k \in Conns, PingFails(k)
  PROVE  IInv'
<1> DEFINE g == Keepalive(k)
<1>1. /\ at[g].pc = "select" /\ at' = BeginClose(at, g, "done")
      /\ UNCHANGED <<connVars, managerVars, history>>
      /\ UNCHANGED <<wg, crashed, seen, dials, session, state>>
  BY DEF PingFails, managerVars, history
<1>2. /\ g \in Goroutines /\ g \notin Resumers /\ g # Stop
      /\ \A j \in Conns : g = Keepalive(j) => j = k
  BY Kinds
<1> HIDE DEF g
<1>3. "done" \in PCs
  BY DEF PCs
<1>4. Moves(g) /\ at'[g].pc \in ClosingPCs /\ at'[g].then = "done"
  BY <1>1, <1>2, <1>3, OtherMover, Closes DEF Moves
<1>5. SharedOK' /\ Transport'
  BY <1>1, <1>2, OtherMover DEF SharedOK, Transport, connVars, transport, managerVars, history
<1> QED BY <1>1, <1>2, <1>4, <1>5, OtherMover, OtherStep

LEMMA KeepaliveQuitsIInv ==
  ASSUME IInv, NEW k \in Conns, KeepaliveQuits(k)
  PROVE  IInv'
<1> DEFINE g == Keepalive(k)
<1>1. /\ at[g].pc = "select" /\ Finish(g)
      /\ UNCHANGED <<connVars, managerVars, history>>
      /\ UNCHANGED <<wg, crashed, seen, dials, session, state>>
  BY DEF KeepaliveQuits, managerVars, history
<1>2. /\ g \in Goroutines /\ g \notin Resumers /\ g # Stop
      /\ \A j \in Conns : g = Keepalive(j) => j = k
  BY Kinds
<1> HIDE DEF g
<1>3. Moves(g) /\ at'[g].pc = "done" /\ at'[g].then = "none"
  BY <1>1, <1>2, OtherMover, Finishes
<1>4. SharedOK' /\ Transport'
  BY <1>1, <1>2, OtherMover DEF SharedOK, Transport, connVars, transport, managerVars, history
<1> QED BY <1>1, <1>2, <1>3, <1>4, OtherMover, OtherStep

(* Ping writes to the connection that a failed dial has set to nil.        *)
LEMMA PingPanicsIInv ==
  ASSUME IInv, NEW k \in Conns, PingPanics(k)
  PROVE  IInv'
<1>1. /\ at[Keepalive(k)].pc = "select" /\ conn = 0 /\ Panic
      /\ UNCHANGED <<connVars, managerVars, dials, packets, seen>>
  BY DEF PingPanics
<1>2. Keepalive(k) \in Goroutines
  BY Kinds
<1>3. "attemptFailed" \in seen
  <2>1. k \in 1 .. dials
    BY <1>1, <1>2, OtherMover DEF IInv, Attempts
  <2>2. dials \in Nat
    BY <1>1, <1>2, OtherMover DEF SharedOK
  <2> QED BY <2>1, <2>2, <1>1 DEF IInv, Transport, Conns
<1>4. SharedOK' /\ Transport'
  BY <1>1, <1>2, OtherMover DEF SharedOK, Transport, connVars, transport, managerVars
<1>5. wg' \in -2 .. 1
  BY <1>1, TypeParts DEF IInv, managerVars
<1> QED BY <1>1, <1>3, <1>4, <1>5, PanicIInv

LEMMA StopStartsIInv ==
  ASSUME IInv, StopStarts
  PROVE  IInv'
<1>1. /\ at[Stop].pc = "none" /\ at[Run].pc # "none" /\ handler' = FALSE
      /\ at' = BeginClose(at, Stop, "stopped")
      /\ UNCHANGED <<connVars, session, state, wg, history>>
      /\ UNCHANGED <<crashed, seen, dials>>
  BY DEF StopStarts, history
<1>2. /\ Stop \in Goroutines /\ Stop \notin Resumers
      /\ \A k \in Conns : Stop # Keepalive(k)
  BY Kinds
<1>3. "stopped" \in PCs
  BY DEF PCs
<1>4. Moves(Stop) /\ at'[Stop].pc \in ClosingPCs /\ at'[Stop].then = "stopped"
  BY <1>1, <1>2, <1>3, OtherMover, Closes DEF Moves
<1>5. SharedOK' /\ Transport'
  BY <1>1, <1>2, OtherMover DEF SharedOK, Transport, connVars, transport, history
<1> QED BY <1>1, <1>2, <1>4, <1>5, OtherMover, OtherStep

LEMMA StopReleasesRunIInv ==
  ASSUME IInv, StopReleasesRun
  PROVE  IInv'
<1>1. /\ at[Stop].pc = "stopped" /\ WgDone(Stop)
      /\ UNCHANGED <<connVars, session, state, handler, dials, packets, seen>>
  BY DEF StopReleasesRun
<1>2. /\ Stop \in Goroutines /\ \A h \in Resumers : h \in Goroutines /\ h # Stop
      /\ \A k \in Conns : Stop # Keepalive(k) /\ Keepalive(k) \in Goroutines
      /\ Run \in Resumers /\ \A k \in Conns : Recv(k) \in Resumers
  BY Kinds
<1>3. SharedOK' /\ Transport'
  BY <1>1, <1>2, OtherMover DEF SharedOK, Transport, connVars, transport
<1>4. CASE wg = 0
  <2>1. Panic /\ wg' = -1
    BY <1>1, <1>4 DEF WgDone
  <2>2. "attemptFailed" \in seen
    BY <1>1, <1>2, <1>4, OtherMover DEF IInv, WaitGroup
  <2> QED BY <1>1, <1>3, <2>1, <2>2, PanicIInv
<1>5. CASE wg # 0
  <2>1. /\ Moves(Stop) /\ at'[Stop].pc = "done" /\ at'[Stop].then = "none"
        /\ wg' = wg - 1 /\ UNCHANGED crashed
    BY <1>1, <1>2, <1>5, OtherMover, Finishes DEF WgDone
  <2>2. ~crashed /\ wg = 1 /\ at[Run].pc \notin {"none", "done"}
    BY <1>1, <1>2, <1>5, OtherMover DEF IInv, WaitGroup
  <2>3. /\ \A h \in Resumers : at'[h] = at[h]
        /\ \A k \in Conns : at'[Keepalive(k)] = at[Keepalive(k)] /\ at'[Recv(k)] = at[Recv(k)]
        /\ at'[Run] = at[Run]
    BY <1>2, <2>1 DEF Moves
  <2>4. TypeOK'
    BY <1>3, <2>1, <2>2, TypeParts DEF IInv, Moves
  <2>5. Places'
    BY <2>1, <2>3 DEF IInv, Places, ClosingPCs
  <2>6. WaitGroup' /\ CrashEnds' /\ NoCrash'
    BY <2>1, <2>2, <2>3 DEF WaitGroup, CrashEnds, NoCrash
  <2>7. Attempts'
    <3>1. at'[Stop].pc \notin FailPCs /\ at'[Stop].then \notin FailPCs
      BY <2>1 DEF FailPCs
    <3> QED BY <1>1, <2>1, <2>2, <2>3, <3>1 DEF IInv, Attempts, Moves
  <2>8. ~Overlapping' => Calm'
    BY <1>1, <2>3, CalmSame DEF IInv, Overlapping
  <2> QED BY <1>3, <2>4, <2>5, <2>6, <2>7, <2>8 DEF IInv
<1> QED BY <1>4, <1>5

-----------------------------------------------------------------------------
(* Run, and the peer.                                                      *)

LEMMA RunStartsIInv ==
  ASSUME IInv, RunStarts
  PROVE  IInv'
<1>1. /\ at[Run].pc = "none" /\ handler' = TRUE /\ wg' = wg + 1
      /\ UNCHANGED <<connVars, session, state, history>>
      /\ UNCHANGED <<crashed, seen, dials>>
  BY DEF RunStarts, history
<1>2. /\ Run \in Goroutines /\ Run \in Resumers /\ Run \in Mains
      /\ \A k \in Conns : /\ Recv(k) \in Goroutines /\ Recv(k) # Run
                          /\ Keepalive(k) \in Goroutines /\ Keepalive(k) # Run
                          /\ Drain(k) \in Goroutines /\ Drain(k) # Run
      /\ Stop \in Goroutines /\ Stop # Run
  BY Kinds
<1>3. /\ at \in [Goroutines -> Local] /\ ~crashed /\ SharedOK /\ Transport
      /\ wg = 0 /\ at[Stop].pc = "none"
  BY <1>1, <1>2, OtherMover DEF IInv, WaitGroup
<1>4. /\ Moves(Run)
      /\ at'[Run].pc = "dial" /\ at'[Run].then = at[Run].then /\ at'[Run].event = at[Run].event
  BY <1>2, <1>3 DEF RunStarts, Moves, Goto, Local, PCs
<1>5. \A h \in Goroutines : h # Run => at'[h] = at[h]
  BY <1>4 DEF Moves
<1>6. TypeOK'
  <2>1. SharedOK'
    BY <1>1, <1>3 DEF SharedOK, connVars, transport, history
  <2>2. crashed' \in BOOLEAN
    BY <1>1, TypeParts DEF IInv
  <2> QED BY <1>1, <1>3, <1>4, <2>1, <2>2, TypeParts DEF Moves
<1>7. at'[Run].pc \in ConnectingPCs \ (ClosingPCs \cup FailPCs)
  BY <1>4 DEF ConnectingPCs, ClosingPCs, FailPCs
<1>8. Places'
  BY <1>2, <1>4, <1>7, PlacesMove DEF IInv, Places
<1>9. WaitGroup' /\ CrashEnds' /\ NoCrash' /\ Transport'
  BY <1>1, <1>2, <1>3, <1>4, <1>5 DEF WaitGroup, CrashEnds, NoCrash, Transport, connVars, transport
<1>10. Attempts'
  BY <1>1, <1>2, <1>3, <1>4, <1>5, <1>7 DEF IInv, Attempts
<1>11. ASSUME ~Overlapping' PROVE Calm'
  <2>1. Calm
    BY <1>1, <1>11 DEF IInv, Overlapping
  <2>2. \A h \in Mains : h # Run => at'[h] = at[h] /\ at[h].pc = "none"
    BY <1>1, <1>2, <1>5, <2>1, Kinds DEF Calm
  <2>3. \A h \in Mains : h # Run => ~Carries(h)'
    BY <2>2 DEF Carries, ConnectingPCs, ClosingPCs
  <2>4. /\ at'[Run].then = "none" /\ at'[Run].event # "streamError"
        /\ "permanent" \notin seen'
    BY <1>1, <1>2, <1>4, <2>1 DEF Calm, ClosingPCs
  <2>5. /\ \A k \in Conns : at'[Drain(k)].pc \in {"none", "done"} /\ at'[Drain(k)].then = "none"
        /\ \A h \in Mains : at'[h].event # "streamError"
        /\ \A h \in Mains : at'[h].then \in IF at'[h].pc \in ClosingPCs THEN FailPCs ELSE {"none"}
    BY <1>2, <1>5, <1>7, <2>1, <2>2, <2>4 DEF Calm
  <2>6. \A h \in Mains : at'[h].pc \notin {"loop", "read", "negotiate", "setup"}
    BY <1>4, <2>2
  <2>7. \A k \in Conns : Recv(k) \in Mains
    BY Kinds
  <2> QED BY <1>2, <1>4, <2>3, <2>4, <2>5, <2>6, <2>7 DEF Calm
<1> QED BY <1>6, <1>8, <1>9, <1>10, <1>11 DEF IInv

LEMMA RunReturnsIInv ==
  ASSUME IInv, RunReturns
  PROVE  IInv'
<1>1. /\ at[Run].pc = "wait" /\ wg = 0 /\ Finish(Run)
      /\ UNCHANGED <<connVars, managerVars, history>>
      /\ UNCHANGED <<wg, crashed, seen, dials, state, session>>
  BY DEF RunReturns, managerVars, history
<1>2. Run \in Resumers /\ Run \in Mains /\ Stop \in Goroutines /\ Stop # Run
  BY Kinds
<1>3. /\ Moves(Run) /\ at'[Run].pc = "done" /\ at'[Run].then = "none" /\ at'[Run].event = "none"
  BY <1>1, <1>2, Mover, Finishes
<1>4. ~crashed /\ at[Stop].pc = "done" /\ at'[Stop] = at[Stop]
  BY <1>1, <1>2, <1>3, Mover DEF IInv, WaitGroup, Moves
<1>5. SharedOK' /\ Transport'
  BY <1>1, <1>2, Mover DEF SharedOK, Transport, connVars, transport, managerVars, history
<1>6. TypeOK'
  BY <1>1, <1>3, <1>5, TypeParts DEF IInv, Moves
<1>7. at'[Run].pc \notin ClosingPCs \cup FailPCs \cup {"negotiate", "setup"} /\ "none" \notin FailPCs
  BY <1>3 DEF ClosingPCs, FailPCs
<1>8. Places'
  BY <1>2, <1>3, <1>7, PlacesMove DEF IInv
<1>9. WaitGroup' /\ CrashEnds' /\ NoCrash'
  BY <1>1, <1>3, <1>4 DEF WaitGroup, CrashEnds, NoCrash
<1>10. Attempts'
  BY <1>1, <1>2, <1>3, <1>7, Mover, AttemptsMove DEF IInv
<1>11. ~Overlapping' => Calm'
  BY <1>1, <1>2, <1>3, CalmEnds DEF IInv, Overlapping
<1> QED BY <1>5, <1>6, <1>8, <1>9, <1>10, <1>11 DEF IInv

(* The peer and the network change what is read, not who reads.            *)
LEMMA OutsideStep ==
  ASSUME IInv, SharedOK', UNCHANGED <<at, transport, session, state, wg, dials, seen, crashed>>
  PROVE  IInv'
<1>1. TypeOK'
  BY TypeParts DEF IInv
<1>2. Places' /\ CrashEnds' /\ WaitGroup' /\ Transport' /\ Attempts' /\ NoCrash'
  BY DEF IInv, Places, CrashEnds, WaitGroup, Transport, Attempts, NoCrash, transport
<1>3. ~Overlapping' => Calm'
  BY CalmSame DEF IInv, Overlapping
<1> QED BY <1>1, <1>2, <1>3 DEF IInv

LEMMA PeerIInv ==
  ASSUME IInv, NEW k \in Conns, PeerSends(k) \/ PeerLeaves(k)
  PROVE  IInv'
<1> DEFINE S == {"stanza", "error", "conflict", "close"}
<1>1. SharedOK
  BY TypeParts DEF IInv
<1>2. CASE PeerSends(k)
  <2>1. PICK p \in S : inbox' = [inbox EXCEPT ![k] = Append(inbox[k], p)]
    BY <1>2 DEF PeerSends
  <2>2. /\ packets < MaxPackets /\ packets' = packets + 1
        /\ UNCHANGED <<at, transport, tokens, closed, peer, managerVars, dials, seen, crashed>>
    BY <1>2 DEF PeerSends
  <2> HIDE DEF S
  <2>3. inbox' \in [Conns -> Seq(S)]
    <3>1. inbox \in [Conns -> Seq(S)]
      BY <1>1 DEF SharedOK, S
    <3>2. Append(inbox[k], p) \in Seq(S)
      BY <3>1
    <3> QED BY <2>1, <3>1, <3>2
  <2>4. SharedOK'
    BY <1>1, <2>2, <2>3, BoundsAssumption DEF SharedOK, S, transport, managerVars
  <2> QED BY <2>2, <2>4, OutsideStep DEF managerVars
<1>3. CASE PeerLeaves(k)
  <2>1. /\ peer' = [peer EXCEPT ![k] = "down"]
        /\ inbox' \in {inbox, [inbox EXCEPT ![k] = <<>>]}
        /\ UNCHANGED <<at, transport, tokens, closed, managerVars, history>>
    BY <1>3 DEF PeerLeaves
  <2> HIDE DEF S
  <2>2. inbox' \in [Conns -> Seq(S)]
    <3>1. inbox \in [Conns -> Seq(S)]
      BY <1>1 DEF SharedOK, S
    <3>2. <<>> \in Seq(S)
      OBVIOUS
    <3> QED BY <2>1, <3>1, <3>2
  <2>3. peer' \in [Conns -> {"none", "up", "down"}]
    BY <1>1, <2>1 DEF SharedOK
  <2>4. SharedOK'
    BY <1>1, <2>1, <2>2, <2>3 DEF SharedOK, S, transport, managerVars, history
  <2> QED BY <2>1, <2>4, OutsideStep DEF managerVars, history
<1> QED BY <1>2, <1>3

LEMMA NextIInv == IInv /\ [Next]_vars => IInv'
<1> SUFFICES ASSUME IInv, [Next]_vars PROVE IInv'
  OBVIOUS
<1>1. CASE RunStarts \/ RunReturns \/ StopStarts \/ StopReleasesRun
  BY <1>1, RunStartsIInv, RunReturnsIInv, StopStartsIInv, StopReleasesRunIInv
<1>2. CASE \E g \in Resumers : Connecting(g)
  BY <1>2, DialSucceedsIInv, DialFailsIInv, NegotiationSucceedsIInv, StreamFailsIInv,
     SessionFailsIInv, SetupSucceedsIInv, SetupFailsIInv, AttemptFailsIInv DEF Connecting
<1>3. CASE \E g \in Readers : Reading(g)
  BY <1>3, NextPacketIInv, ReadFailsIInv, ReadsStanzaIInv, ReadsCloseIInv, HandledIInv DEF Reading
<1>4. CASE \E g \in Goroutines : Closing(g)
  BY <1>4, ResumerClosesIInv, OtherClosesIInv
<1>5. CASE \E k \in Conns : ReadsStreamError(k) \/ Pinging(k) \/ PeerSends(k) \/ PeerLeaves(k)
  BY <1>5, ReadsStreamErrorIInv, PingFailsIInv, PingPanicsIInv, KeepaliveQuitsIInv, PeerIInv
     DEF Pinging
<1>6. CASE UNCHANGED vars
  <2>1. SharedOK'
    BY <1>6, TypeParts DEF IInv, SharedOK, vars, connVars, transport, managerVars, history
  <2> QED BY <1>6, <2>1, OutsideStep DEF vars, connVars, managerVars, history
<1> QED BY <1>1, <1>2, <1>3, <1>4, <1>5, <1>6 DEF Next

-----------------------------------------------------------------------------

THEOREM Invariance == Spec => []IInv
<1>1. Init => IInv
  BY InitIInv
<1>2. IInv /\ [Next]_vars => IInv'
  BY NextIInv
<1> QED BY <1>1, <1>2, PTL DEF Spec

(* Every variable keeps its type: the WaitGroup, a counter that panics     *)
(* below zero, and the connections, of which no more than dialled exist.   *)
THEOREM TypeCorrectness == Spec => []TypeOK
<1>1. IInv => TypeOK
  BY DEF IInv
<1> QED BY <1>1, Invariance, PTL

(* At most one goroutine connects or resumes at a time while no stream     *)
(* error was received and no negotiation failed after its stream was open. *)
THEOREM OneResumer == Spec => []SingleResumer
<1>1. IInv => SingleResumer
  <2> SUFFICES ASSUME IInv, ~Overlapping,
                      NEW g \in Goroutines, NEW h \in Goroutines, Attempting(g), Attempting(h)
               PROVE  g = h
    BY DEF SingleResumer
  <2>1. Calm
    BY DEF IInv
  <2>2. ASSUME NEW a \in Goroutines, Attempting(a) PROVE a \in Mains /\ Carries(a)
    <3>1. ~Attempting(Stop) /\ \A k \in Conns : ~Attempting(Keepalive(k))
      BY DEF IInv, Places, Attempting, ConnectingPCs, ClosingPCs
    <3>2. \A k \in Conns : ~Attempting(Drain(k))
      BY <2>1 DEF Calm, Attempting, ConnectingPCs
    <3>3. a \in Mains
      BY <2>2, <3>1, <3>2, Kinds
    <3> QED BY <2>1, <2>2, <3>3 DEF Calm, Attempting, Carries, ConnectingPCs
  <2> QED BY <2>1, <2>2 DEF Calm
<1> QED BY <1>1, Invariance, PTL

(* Under the same condition recv reads the connection it was started for,  *)
(* in the state the application was told of.                               *)
THEOREM OwnConnection == Spec => []RecvReadsOwn
<1>1. IInv => RecvReadsOwn
  BY DEF IInv, RecvReadsOwn, Calm
<1> QED BY <1>1, Invariance, PTL

(* Without a failed attempt no goroutine panics.                           *)
THEOREM CrashNeedsFailure == Spec => []NoCrash
<1>1. IInv => NoCrash
  BY DEF IInv
<1> QED BY <1>1, Invariance, PTL

(* No connection is dialled after a permanent error, under the condition   *)
(* of SingleResumer.                                                       *)
THEOREM PermanentErrors == Spec => PermanentErrorEnds
<1>1. IInv /\ [Next]_vars => [("permanent" \in seen /\ ~Overlapping) => dials' = dials]_vars
  <2> SUFFICES ASSUME IInv, Next, "permanent" \in seen, ~Overlapping PROVE dials' = dials
    BY DEF vars, history
  <2>1. Calm
    BY DEF IInv
  <2>2. \A g \in Resumers : ~DialSucceeds(g)
    <3> SUFFICES ASSUME NEW g \in Resumers, at[g].pc = "dial" PROVE FALSE
      BY DEF DialSucceeds
    <3>1. g \in Mains
      BY <2>1, Kinds DEF Calm
    <3>2. Carries(g)
      BY DEF Carries, ConnectingPCs
    <3> QED BY <2>1, <3>1, <3>2 DEF Calm
  <2> QED BY <2>2 DEF Next, RunStarts, RunReturns, StopStarts, StopReleasesRun, Connecting,
          DialFails, NegotiationSucceeds, StreamFails, SessionFails, SetupSucceeds, SetupFails,
          AttemptFails, Reading, NextPacket, ReadFails, ReadsStanza, ReadsClose, Handled,
          Closing, CloseWaits, ClosesConn, ReadsStreamError, Pinging, PingFails, PingPanics,
          KeepaliveQuits, PeerSends, PeerLeaves, history
<1> QED BY <1>1, Invariance, PTL DEF Spec, PermanentErrorEnds

=============================================================================
