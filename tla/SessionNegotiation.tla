------------------------- MODULE SessionNegotiation -------------------------
(***************************************************************************)
(* NewClient, and what a client negotiates on each connection before its   *)
(* session is established: TLS, SASL, resumption, binding, the session of  *)
(* RFC 3921 and stream management (session.go).  The client reconnects     *)
(* with the transport and the Session it had, so what an earlier           *)
(* connection left in them is part of the state.  An action is the code    *)
(* between two answers of the server.  A write that fails is told from an  *)
(* answer that does not come only where the code does: when a stream is    *)
(* opened, and when a resumption is asked for.                             *)
(***************************************************************************)
EXTENDS Addresses, SASL

CONSTANTS
  Params,        \* what NewClient is given: jid, address, srv
  Configs,       \* insecure, sm, resume, mechanisms, secret, verify
  Peers,         \* how the server answers up to TLS
  Offers,        \* the features it may announce after TLS and SASL
  MaxConnects    \* bound on the connections

ASSUME ConfigAssumption ==
  MaxConnects \in Nat /\ \A c \in Configs : c.resume \in BOOLEAN

(* net.LookupSRV returns its entries in order of priority.                 *)
ASSUME ParamsAssumption ==
  \A p \in Params :
    /\ p.jid \in Seq(Nat) /\ p.address \in Seq(Nat)
    /\ p.srv \in Seq([priority : Nat, weight : Nat, target : Seq(Nat), port : Nat])
    /\ \A i, k \in DOMAIN p.srv : i < k => p.srv[i].priority <= p.srv[k].priority

(* spelled and bindings are the names of the mechanisms and of the channel *)
(* bindings, character by character.                                       *)
ASSUME OffersAssumption ==
  \A o \in Offers \cup {p.offer : p \in Peers} :
    /\ o.spelled \in Seq(Seq(Nat)) /\ o.bindings \in Seq(Seq(Nat))
    /\ o.cb \in BOOLEAN

VARIABLES
  config,        \* Config, fixed by the application
  resumable,     \* Config.StreamManagementResume, which the client updates
  params,        \* the arguments of NewClient, until the first connection
  transport,     \* the kind of transport and its isSecure
  wire,          \* the connection: encrypted, streams opened, its number
  peer,          \* how the server answers up to TLS on this connection
  session,       \* Client.Session
  scram,         \* the SASL exchange: as sent, as read, how it ended
  phase,         \* what the client waits for
  outcome,       \* why the last negotiation ended: grade, cause, phase,
                 \* and whether a stream could not be opened
  history        \* what properties compare with

vars == <<config, resumable, params, transport, wire, peer, session, scram,
          phase, outcome, history>>

NoOffer == [mechanisms |-> <<>>, spelled |-> <<>>, cb |-> FALSE,
            bindings |-> <<>>, sm |-> FALSE, session |-> "none"]
NoSession == [nil |-> TRUE, tls |-> FALSE, resumed |-> FALSE, smId |-> 0,
              bound |-> 0, features |-> NoOffer, stream |-> 0]
NoExchange == [sent |-> <<>>, read |-> <<>>, secret |-> 0, offer |-> NoOffer,
               signed |-> FALSE]
NoParams == [jid |-> <<>>, address |-> <<>>, srv |-> <<>>]
NoPeer == [features |-> "loss", tls |-> FALSE, offer |-> NoOffer, proceed |-> "loss",
           handshake |-> "fails", minutes |-> {}]
NoOutcome == [grade |-> "ok", cause |-> "none", at |-> "none", unopened |-> FALSE]

Grades == {"ok", "temporary", "permanent"}
Waiting == {"features", "proceed", "restartTLS", "challenge", "outcome",
            "restartAuth", "resume", "bind", "session", "enable"}

NegotiationTypeOK ==
  /\ config \in Configs
  /\ resumable \in BOOLEAN
  /\ transport \in [kind : {"tcp", "ws", "wss"}, secure : BOOLEAN]
  /\ wire \in [encrypted : BOOLEAN, streams : 0 .. 3, conn : 0 .. MaxConnects]
  /\ peer \in Peers \cup {NoPeer}
  /\ session.smId \in 0 .. MaxConnects /\ session.stream \in 0 .. 3
  /\ phase \in Waiting \cup {"new", "ready", "refused", "established",
                             "lost", "failed", "crashed"}
  /\ outcome.grade \in Grades

Init ==
  /\ config \in Configs /\ params \in Params
  /\ resumable = config.resume
  /\ transport = [kind |-> "tcp", secure |-> FALSE]
  /\ wire = [encrypted |-> FALSE, streams |-> 0, conn |-> 0]
  /\ peer = NoPeer /\ session = NoSession /\ scram = NoExchange
  /\ phase = "new" /\ outcome = NoOutcome
  /\ history = [auth |-> "none", running |-> 0, skipped |-> FALSE, opened |-> FALSE]

-----------------------------------------------------------------------------
(* NewClient: a jid that does not parse and a missing secret are permanent *)
(* errors.                                                                 *)
NewClient ==
  LET j == NewJid(params.jid) IN
  /\ phase = "new"
  /\ IF ~j.ok \/ config.secret = 0
     THEN phase' = "refused" /\ UNCHANGED transport
     ELSE /\ phase' = "ready"
          /\ transport' = [transport EXCEPT !.kind =
               TransportKind(DialAddress(params.address, j.jid, params.srv))]
  /\ UNCHANGED <<config, resumable, params, wire, peer, session, scram, outcome, history>>

IsSecure == IF transport.kind = "tcp" THEN transport.secure ELSE transport.kind = "wss"

(* Faulty variant: the stream management state goes with the connection. *)
FailForgetting(s, grade, cause, unopened) ==
  /\ phase' = "failed" /\ session' = [s EXCEPT !.smId = 0]
  /\ outcome' = [grade |-> grade, cause |-> cause, at |-> phase, unopened |-> unopened]

(* The client gives up this connection, keeping the session s.             *)
Fail(s, grade, cause, unopened) ==
  /\ phase' = "failed" /\ session' = s
  /\ outcome' = [grade |-> grade, cause |-> cause, at |-> phase, unopened |-> unopened]

FailAs(s, grade, cause) == Fail(s, grade, cause, FALSE)

(* StartStream: a <stream:stream> that cannot be written is a permanent    *)
(* error, one that is not answered is not.                                 *)
OpenGrade(unopened) == IF unopened THEN "permanent" ELSE "temporary"
StreamLost(s) ==
  \E unopened \in BOOLEAN : Fail(s, OpenGrade(unopened), "loss", unopened)

(* Client.connect: dial and open the first stream.                         *)
Connect ==
  /\ phase \in {"ready", "failed", "lost"} /\ wire.conn < MaxConnects
  /\ peer' \in Peers
  /\ params' = NoParams
  /\ wire' = [encrypted |-> transport.kind = "wss", streams |-> 1, conn |-> wire.conn + 1]
  /\ history' = [history EXCEPT !.auth = "none", !.opened = FALSE]
  /\ scram' = NoExchange
  /\ \/ phase' = "features" /\ outcome' = NoOutcome /\ UNCHANGED session
     \/ FailAs(session, "permanent", "dial")
     \/ StreamLost(session)
  /\ UNCHANGED <<config, resumable, transport>>

(* authSASL sends the first message, if a mechanism matches.               *)
BeginAuth(s) ==
  LET mech == MatchingMech(config.mechanisms, s.features.mechanisms) IN
  IF mech = NoMechanism
  THEN FailAs(s, "permanent", "refused") /\ UNCHANGED <<history, scram>>
  ELSE /\ phase' = IF IsScram(mech) THEN "challenge" ELSE "outcome"
       /\ scram' = NoExchange
       /\ session' = s
       /\ history' = [history EXCEPT !.auth = IF wire'.encrypted THEN "encrypted" ELSE "clear"]
       /\ UNCHANGED outcome

(* NewSession once TLS is settled: the stream restarts if TLS was ever     *)
(* enabled, on whatever connection.                                        *)
AfterTLS(s) ==
  LET fresh == [s EXCEPT !.resumed = FALSE] IN
  IF s.tls
  THEN phase' = "restartTLS" /\ session' = fresh /\ UNCHANGED <<outcome, history, scram>>
  ELSE BeginAuth(fresh)

(* Faulty variant: without TLS the client goes on. *)
RefuseNothing(cause) == AfterTLS(session)

(* The connection ends without a session: Client.Session becomes nil.      *)
Refuse(cause) ==
  FailAs(NoSession, "permanent", cause) /\ UNCHANGED <<history, scram>>

(* The features of the first stream, read by init, and startTlsIfSupported.*)
(* Without TLS and without Insecure no session comes of the connection.    *)
ReadFeatures ==
  LET s == [session EXCEPT !.nil = FALSE, !.stream = wire.streams, !.features = peer.offer]
      startTLS == ~IsSecure /\ transport.kind = "tcp" /\ peer.tls
  IN /\ phase = "features"
     /\ UNCHANGED <<config, resumable, params, transport, wire, peer>>
     /\ IF peer.features # "features" THEN Refuse(peer.features)
        ELSE IF startTLS
        THEN phase' = "proceed" /\ session' = s /\ UNCHANGED <<outcome, history, scram>>
        ELSE IF ~IsSecure /\ ~config.insecure THEN Refuse("clear")
        ELSE AfterTLS(s)

(* The answer to <starttls/>, and XMPPTransport.StartTLS.                  *)
StartTLS ==
  LET handshake == peer.proceed = "proceed" /\ peer.handshake # "fails"
      ok == handshake /\ (peer.handshake = "ok" \/ ~config.verify)
  IN /\ phase = "proceed"
     /\ wire' = [wire EXCEPT !.encrypted = handshake]
     /\ transport' = [transport EXCEPT !.secure = ok]
     /\ IF ok THEN AfterTLS([session EXCEPT !.tls = TRUE])
        ELSE IF ~config.insecure THEN Refuse(peer.proceed)
        ELSE IF session.tls THEN AfterTLS(session)
        ELSE FailAs(session, "temporary", peer.proceed) /\ UNCHANGED <<history, scram>>
     /\ UNCHANGED <<config, resumable, params, peer>>

(* reset: the features of the new stream replace those of the old one.     *)
ResetWith(f) == [session EXCEPT !.features = f, !.stream = wire.streams + 1]

(* A stream restart after TLS, up to the first message of SASL.            *)
RestartTLS ==
  /\ phase = "restartTLS"
  /\ wire' = [wire EXCEPT !.streams = @ + 1]
  /\ \/ \E f \in Offers : BeginAuth(ResetWith(f))
     \/ StreamLost(session) /\ UNCHANGED <<history, scram>>
  /\ UNCHANGED <<config, resumable, params, transport, peer>>

-----------------------------------------------------------------------------
Nonce == <<7>>

(* A server's first message: its nonce, a salt and an iteration count, and *)
(* perhaps the hash of what it offered.                                    *)
ServerFirst(o, hashed) ==
  [offer   |-> IF hashed THEN o ELSE NoOffer,
   message |-> << <<"r", Nonce \o <<8>>>>, <<"s", <<1>>>>, <<"i", <<Minimum>>>> >>
                 \o IF hashed
                    THEN << <<"h", Hash(DowngradeString(o.spelled, o.cb, o.bindings))>> >>
                    ELSE <<>>]

ServerFirsts == {ServerFirst(o, hashed) : o \in Offers, hashed \in BOOLEAN}

(* What can become of it on the way: a part missing, added, or changed.    *)
Altered(m) ==
  {m} \cup {RemoveAt(m, i) : i \in DOMAIN m}
      \cup {Append(m, part) : part \in {m[1], <<"m">>, <<"m", <<1>>>>}}
      \cup {ReplaceAt(m, 1, <<"r", <<8>>>>), ReplaceAt(m, 2, <<"s", BadBase64>>)}
      \cup {ReplaceAt(m, 3, <<"i", i>>) : i \in {<<Minimum - 1>>, <<Minimum + 1>>, NotANumber}}

Silent(kind) == [kind |-> kind, base64 |-> TRUE, message |-> <<>>]
Silences == {Silent(k) : k \in {"lost", "failure", "success", "other"}}
CauseOf(kind) ==
  CASE kind = "lost" -> "loss" [] kind = "failure" -> "refused" [] OTHER -> "answer"

(* authScram reads the challenge and answers it.                           *)
ReadChallenge ==
  /\ phase = "challenge"
  /\ \E first \in ServerFirsts :
     \E reply \in Silences \cup [kind : {"challenge"}, base64 : {TRUE},
                                 message : Altered(first.message)]
                \cup {[Silent("challenge") EXCEPT !.base64 = FALSE]} :
       LET grade == ChallengeGrade(reply, Nonce, session.features) IN
       IF grade = "continue"
       THEN /\ phase' = "outcome"
            /\ scram' = [NoExchange EXCEPT !.sent = first.message, !.read = reply.message,
                                           !.offer = first.offer]
            /\ UNCHANGED <<session, outcome>>
       ELSE FailAs(session, grade, CauseOf(reply.kind)) /\ UNCHANGED scram
  /\ UNCHANGED <<config, resumable, params, transport, wire, peer, history>>

(* The last answer of SASL.  The server signs with the password it knows   *)
(* the challenge that it sent; a success without a value is not signed.    *)
ReadOutcome ==
  LET scrams == scram.read # <<>> IN
  /\ phase = "outcome"
  /\ \E secret \in {1, 2} :
     \E reply \in Silences \cup [kind : {"success"}, base64 : BOOLEAN, message :
             IF scrams THEN {<< <<"v", Verifier(secret, scram.sent)>> >>, << <<"e", <<1>>>> >>,
                             << <<"v">> >>, << <<"x", <<1>>>> >>}
             ELSE {<<>>}] :
       LET grade == IF scrams THEN FinalGrade(reply, config.secret, scram.read)
                    ELSE PlainGrade(reply)
       IN IF grade = "ok"
          THEN /\ phase' = "restartAuth"
               /\ scram' = [scram EXCEPT !.secret = secret, !.signed = reply.message # <<>>]
               /\ UNCHANGED <<session, outcome>>
          ELSE FailAs(session, grade, CauseOf(reply.kind)) /\ UNCHANGED scram
  /\ UNCHANGED <<config, resumable, params, transport, wire, peer, history>>

-----------------------------------------------------------------------------
(* Session.resume asks only if all its conditions hold; bind follows.      *)
MayResume(s) == config.sm /\ resumable /\ s.features.sm /\ s.smId # 0

(* A <resume/> that cannot be written is no error and costs no state: bind *)
(* is tried, whose write fails.                                            *)
ResumeUnsent(s) == MayResume(s) /\ FailAs(s, "temporary", "loss")

(* The stream restarts after SASL: the features decide what follows.       *)
RestartAuth ==
  /\ phase = "restartAuth"
  /\ wire' = [wire EXCEPT !.streams = @ + 1]
  /\ scram' = NoExchange
  /\ \/ \E f \in Offers :
          LET s == ResetWith(f) IN
          /\ session' = s
          /\ phase' = IF MayResume(s) THEN "resume" ELSE "bind"
          /\ history' = [history EXCEPT !.skipped = @ \/ (s.smId # 0 /\ ~MayResume(s))]
          /\ UNCHANGED outcome
     \/ StreamLost(session) /\ UNCHANGED history
     \/ \E f \in Offers : ResumeUnsent(ResetWith(f)) /\ UNCHANGED history
  /\ UNCHANGED <<config, resumable, params, transport, peer>>

(* Faulty variant: a refused resumption keeps the state of the session. *)
ForgetNothing == session

(* SMState{}.                                                              *)
ForgetSM == [session EXCEPT !.smId = 0]

(* The answer to <resume/>.  A <failed/> with a condition that SMFailed    *)
(* does not know is a decoding error; any other goes on to bind.           *)
Resume ==
  /\ phase = "resume"
  /\ \/ /\ phase' = "established"
        /\ session' = [session EXCEPT !.resumed = TRUE]
        /\ history' = [history EXCEPT !.running = session.smId]
        /\ UNCHANGED outcome
     \/ phase' = "bind" /\ session' = ForgetSM /\ UNCHANGED <<outcome, history>>
     \/ /\ \E cause \in {"loss", "answer"} : FailAs(ForgetSM, "temporary", cause)
        /\ UNCHANGED history
  /\ UNCHANGED <<config, resumable, params, transport, wire, peer, scram>>

(* EnableStreamManagement asks, or leaves the session as it is.            *)
EnableOrEnd(s) ==
  /\ session' = s
  /\ phase' = IF config.sm /\ s.features.sm THEN "enable" ELSE "established"
  /\ UNCHANGED outcome

(* Faulty variant: a required session is skipped as well. *)
IsOptionalAlways(f) == TRUE

(* IsOptional holds only where no session feature is offered: the field    *)
(* Optional matches no element that a server sends.                        *)
IsOptional(f) == f.session = "none"

(* The answer to the bind request: an IQ with a bind payload will do.      *)
Bind ==
  /\ phase = "bind"
  /\ \/ LET s == [session EXCEPT !.bound = wire.conn] IN
        /\ IF IsOptional(s.features) THEN EnableOrEnd(s)
           ELSE phase' = "session" /\ session' = s /\ UNCHANGED outcome
        /\ history' = [history EXCEPT !.running = 0]
     \/ /\ \E cause \in {"loss", "answer"} : FailAs(session, "temporary", cause)
        /\ UNCHANGED history
  /\ UNCHANGED <<config, resumable, params, transport, wire, peer, scram>>

(* rfc3921Session: any IQ will do.                                         *)
OpenSession ==
  /\ phase = "session"
  /\ \/ EnableOrEnd(session) /\ history' = [history EXCEPT !.opened = TRUE]
     \/ /\ \E cause \in {"loss", "answer"} : FailAs(session, "temporary", cause)
        /\ UNCHANGED history
  /\ UNCHANGED <<config, resumable, params, transport, wire, peer, scram>>

(* The answer to <enable/>.  The id of the stream management session is    *)
(* the number of its connection.  A <failed/> without a condition has no   *)
(* name to report: a nil call.                                             *)
Enable ==
  /\ phase = "enable"
  /\ \/ \E allowed \in BOOLEAN :
          /\ resumable' = allowed
          /\ session' = [session EXCEPT !.smId = wire.conn]
          /\ history' = [history EXCEPT !.running = wire.conn, !.skipped = FALSE]
          /\ phase' = "established" /\ UNCHANGED outcome
     \/ phase' = "crashed" /\ session' = ForgetSM /\ UNCHANGED <<outcome, resumable, history>>
     \/ /\ \/ FailAs(ForgetSM, "temporary", "refused")
           \/ \E cause \in {"loss", "answer"} : FailAs(session, "temporary", cause)
        /\ UNCHANGED <<resumable, history>>
  /\ UNCHANGED <<config, params, transport, wire, peer, scram>>

(* The connection of an established session is lost.                       *)
Lose ==
  /\ phase = "established" /\ phase' = "lost"
  /\ UNCHANGED <<config, resumable, params, transport, wire, peer, session, scram,
                 outcome, history>>

Next ==
  \/ NewClient \/ Connect \/ ReadFeatures \/ StartTLS \/ RestartTLS
  \/ ReadChallenge \/ ReadOutcome \/ RestartAuth \/ Resume \/ Bind
  \/ OpenSession \/ Enable \/ Lose

Spec == Init /\ [][Next]_vars

-----------------------------------------------------------------------------
(* checkExpiration: a certificate of the chain ends within 48 hours.       *)
ExpiresSoon(minutes) == \E m \in minutes : m \div 60 <= 48

(* Faulty variant: the handshake is not looked at. *)
CheckFeaturesOnly(p) == p.features = "features" /\ p.tls /\ p.proceed = "proceed"

(* ServerCheck.Check of a server that answers as p does.                   *)
Check(p) ==
  /\ p.features = "features" /\ p.tls
  /\ p.proceed = "proceed" /\ p.handshake = "ok" /\ ~ExpiresSoon(p.minutes)

-----------------------------------------------------------------------------
(* A jid that NewJid accepts and writes out with Full is read back as the  *)
(* same jid, whatever separators the text had (NewJid, Full).              *)
JidRoundTrip ==
  LET j == NewJid(params.jid) IN
  j.ok => NewJid(Full(j.jid)) = j

(* An address that already has a port keeps it and any other gets one:     *)
(* applying ensurePort again changes nothing, and the checker and the      *)
(* client connect to the same address when both accept it (ensurePort,     *)
(* extractParams).                                                         *)
PortIsSettled ==
  LET dial    == EnsurePort(params.address, DefaultPort)
      checked == ExtractParams(params.address)
  IN /\ EnsurePort(dial, Port(6)) = dial
     /\ Close \notin Chars(params.address) \/ IsPrefix(<<Open>>, params.address)
        => LastAt(dial, Colon) > LastAt(dial, Close)
     /\ /\ checked.ok /\ ~IsPrefix(<<Open>>, params.address)
        /\ dial[Len(dial)] # Colon
        => checked.address = dial

(* Of the SRV entries, which come in order of priority, the client takes   *)
(* the heaviest of the first priority (NewClient).                         *)
SrvIsBest ==
  params.srv # <<>> =>
    LET best == BestSrv(params.srv)
        first == {e \in ToSet(params.srv) : e.priority = params.srv[1].priority}
    IN best \in first /\ \A e \in first : e.weight <= best.weight

(* Wherever the application gives a jid, an address or a domain with SRV   *)
(* entries, the client talks to and about the host that was meant          *)
(* (NewClient).                                                            *)
AddressesAgree == JidRoundTrip /\ PortIsSettled /\ SrvIsBest

(* Without Insecure the secret is not proven over a connection without     *)
(* TLS, as long as this transport has not spoken TLS before (NewSession).  *)
FirstAuthEncrypted ==
  history.auth = "clear" /\ ~config.insecure => transport.secure /\ wire.conn > 1

(* When the server sends the hash of what it offered and signs the         *)
(* exchange, SASL succeeds only if the client saw the same names: no list  *)
(* of mechanisms or channel bindings reads as another one, and the hash    *)
(* cannot be taken out (verifySCRAMDowngradeHash, authScram).  Nothing is  *)
(* said of a success without a signature, which the code accepts too.      *)
DowngradeDetected ==
  /\ phase = "restartAuth" /\ scram.signed /\ scram.offer # NoOffer
  /\ NamesAreValid(scram.offer.spelled, scram.offer.bindings)
  =>
    LET f == session.features IN
    /\ Sorted(f.spelled) = Sorted(scram.offer.spelled)
    /\ f.cb = scram.offer.cb
    /\ f.cb => Sorted(f.bindings) = Sorted(scram.offer.bindings)

(* After a SCRAM exchange that the server closed with a signature, the     *)
(* server knows the password and the client read the challenge that it     *)
(* sent (authScram).  An empty <success/> ends the exchange as well, and   *)
(* verifies neither.                                                       *)
ServerVerified ==
  phase = "restartAuth" /\ scram.signed =>
    scram.secret = config.secret /\ scram.read = scram.sent

(* What SASL takes for a success with a signature is an exchange with the  *)
(* server that holds the password, over the mechanisms it offered          *)
(* (authScram).  It covers no success without one: PLAIN, X-OAUTH2, and    *)
(* SCRAM when the server sends an empty <success/>.                        *)
ExchangeIsGenuine == DowngradeDetected /\ ServerVerified

(* A refused authentication is a permanent error, and a connection lost    *)
(* once TLS is settled is not, unless the loss is met by the write that    *)
(* opens a stream: the first would be asked again for ever, the second     *)
(* would end the reconnections, as the exception does (NewConnError,       *)
(* StartStream).                                                           *)
GradesFit ==
  phase = "failed" =>
    /\ outcome.at \in {"challenge", "outcome"} /\ outcome.cause = "refused"
         => outcome.grade = "permanent"
    /\ outcome.at \notin {"features", "proceed"} /\ outcome.cause = "loss"
         => (outcome.grade = "permanent" <=> outcome.unopened)

(* What the client negotiates next is decided by the features of the       *)
(* stream it is on (init, reset).                                          *)
FeaturesCurrent ==
  phase \in Waiting \ {"features"} => session.stream = wire.streams

(* The client asks to resume the session it ran last, unless it skipped a  *)
(* resumption because the server did not offer it at the time              *)
(* (Session.resume, EnableStreamManagement).                               *)
ResumesRunning ==
  phase = "resume" /\ ~history.skipped => session.smId = history.running

(* An established session is resumed or bound on this connection, over     *)
(* three streams when it uses TLS, and the session request was made where  *)
(* the server requires it (NewSession).                                    *)
EstablishedIsComplete ==
  phase = "established" =>
    /\ session.resumed \/ session.bound = wire.conn
    /\ session.resumed => session.smId # 0 /\ session.smId < wire.conn /\ resumable
    /\ ~session.resumed /\ session.features.session = "required" => history.opened
    /\ session.tls => wire.streams = 3

(* Every step builds on the stream it is on, and what is called a session  *)
(* at the end lacks none of the steps it needs (NewSession).               *)
SessionIsComplete == NegotiationTypeOK /\ FeaturesCurrent /\ EstablishedIsComplete

(* A server that the checker accepts is one the client negotiates TLS      *)
(* with, and the other way round but for certificates about to expire      *)
(* (ServerCheck.Check, startTlsIfSupported).                               *)
CheckerAgrees ==
  wire.conn = 1 /\ transport.kind = "tcp" /\ config.verify =>
    /\ phase = "failed" /\ outcome.at \in {"features", "proceed"} => ~Check(peer)
    /\ transport.secure => Check(peer) \/ ExpiresSoon(peer.minutes)

(* A connection lost during the negotiation leaves the stream management   *)
(* state for the next one, except while the answer to <resume/> is awaited *)
(* or when the error is permanent (NewSession, connect).                   *)
LossKeepsSession ==
  [][/\ phase' = "failed" /\ outcome'.cause = "loss" /\ outcome'.grade = "temporary"
     /\ phase # "resume"
     => session'.smId = session.smId]_vars

=============================================================================
