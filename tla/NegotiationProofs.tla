-------------------------- MODULE NegotiationProofs --------------------------
(***************************************************************************)
(* Proofs about SessionNegotiation for any parameters, configurations,     *)
(* servers and offered features, and any number of connections.            *)
(***************************************************************************)
EXTENDS SessionNegotiation, FiniteSetTheorems, SequenceTheorems, WellFoundedInduction,
        TLAPS

Features  == Offers \cup {NoOffer} \cup {p.offer : p \in Peers}
Sessions  == [nil : BOOLEAN, tls : BOOLEAN, resumed : BOOLEAN, smId : 0 .. MaxConnects,
              bound : 0 .. MaxConnects, features : Features, stream : 0 .. 3]
Histories == [auth : {"none", "encrypted", "clear"}, running : 0 .. MaxConnects,
              skipped : BOOLEAN, opened : BOOLEAN]
Wires     == [encrypted : BOOLEAN, streams : 0 .. 3, conn : 0 .. MaxConnects]
Phases    == Waiting \cup {"new", "ready", "refused", "established", "lost", "failed", "crashed"}

(* The types of the variables, NegotiationTypeOK included.                 *)
StateType ==
  /\ config \in Configs /\ resumable \in BOOLEAN
  /\ transport \in [kind : {"tcp", "ws", "wss"}, secure : BOOLEAN]
  /\ wire \in Wires /\ peer \in Peers \cup {NoPeer}
  /\ session \in Sessions /\ history \in Histories
  /\ phase \in Phases /\ outcome.grade \in Grades

Before == {"features", "proceed", "restartTLS"}          \* the first message of SASL
Authenticating == {"challenge", "outcome", "restartAuth"}
Bound  == {"resume", "bind", "session", "enable"}         \* or about to be

(* Every restart of the stream opens one more.                             *)
Streams ==
  /\ phase \in Before => wire.streams = 1
  /\ phase \in Authenticating => wire.streams = IF session.tls THEN 2 ELSE 1
  /\ phase \in Bound \cup {"established"} => wire.streams = IF session.tls THEN 3 ELSE 2
  /\ phase = "restartTLS" => session.tls
  /\ phase \in Waiting \cup {"established", "lost", "crashed"} => wire.conn > 0
  /\ phase \in {"new", "ready", "refused"} => wire.conn = 0
  /\ FeaturesCurrent

(* What the transport says of TLS, and what the connection has.            *)
Encryption ==
  /\ phase = "features" => (wire.encrypted <=> transport.kind = "wss")
  /\ phase = "proceed" => /\ transport.kind = "tcp" /\ ~transport.secure
                          /\ peer.features = "features" /\ peer.tls
  /\ transport.kind = "wss" /\ wire.conn > 0 => wire.encrypted
  /\ transport.secure => wire.conn > 0
  /\ transport.secure /\ ~wire.encrypted => wire.conn > 1
  /\ phase = "restartTLS" => wire.encrypted \/ config.insecure \/ transport.secure
  /\ phase \in Before => history.auth = "none"
  /\ FirstAuthEncrypted

(* What a session lacks until it is established.                           *)
Completion ==
  /\ session.smId <= wire.conn
  /\ phase \in Waiting => session.smId < wire.conn
  /\ phase \in Waiting \ {"features", "proceed"} => ~session.resumed
  /\ phase = "resume" => session.smId # 0 /\ resumable
  /\ phase \in {"session", "enable"} => session.bound = wire.conn
  /\ phase = "enable" /\ session.features.session = "required" => history.opened
  /\ EstablishedIsComplete

(* The stream management state is that of the session that runs, unless a  *)
(* resumption was skipped.                                                 *)
Resumption ==
  /\ ~history.skipped => session.smId \in {0, history.running}
  /\ phase \in {"bind", "session", "enable"} => session.smId = 0 \/ history.skipped

IInv ==
  /\ StateType /\ Streams /\ Encryption /\ Completion /\ Resumption
  /\ GradesFit /\ CheckerAgrees

-----------------------------------------------------------------------------
(* What the later actions leave alone.                                     *)

(* Once SASL has begun, nothing changes what the connection is.            *)
LEMMA KeepsEncryption ==
  ASSUME Encryption, config' = config, transport' = transport, peer' = peer,
         wire'.encrypted = wire.encrypted, wire'.conn = wire.conn,
         history'.auth = history.auth, phase' \notin Before
  PROVE  Encryption'
BY DEF Encryption, FirstAuthEncrypted, Before

(* And only the first answers of the server settle what is said of TLS.    *)
LEMMA KeepsChecker ==
  ASSUME CheckerAgrees, config' = config, transport' = transport, peer' = peer,
         wire'.conn = wire.conn,
         phase' = "failed" => outcome'.at \notin {"features", "proceed"}
  PROVE  CheckerAgrees'
BY DEF CheckerAgrees

(* A step that fails keeps a part of the session.                          *)
LEMMA KeepsFailed ==
  ASSUME IInv, phase' = "failed", session' \in Sessions, wire' \in Wires,
         session'.smId \in {0, session.smId}, wire'.conn >= wire.conn,
         history'.running = history.running, history'.skipped = history.skipped
  PROVE  Streams' /\ Completion' /\ Resumption'
<1>1. Streams' BY DEF Streams, FeaturesCurrent, Before, Authenticating, Bound, Waiting
<1>2. Completion'
  <2>1. session.smId <= wire.conn BY DEF IInv, Completion
  <2>2. session.smId \in 0 .. MaxConnects /\ wire.conn \in 0 .. MaxConnects /\ wire'.conn \in 0 .. MaxConnects
    BY DEF IInv, StateType, Sessions, Wires
  <2>3. session'.smId <= wire'.conn BY <2>1, <2>2, ConfigAssumption
  <2>4. QED BY <2>3 DEF Completion, EstablishedIsComplete, Waiting
<1>3. Resumption' BY DEF IInv, Resumption
<1>4. QED BY <1>1, <1>2, <1>3

(* The session and the history change field by field.                      *)
LEMMA Fields ==
  ASSUME NEW s \in Sessions
  PROVE  /\ \A b \in BOOLEAN :
              /\ [s EXCEPT !.resumed = b] \in Sessions
              /\ [s EXCEPT !.resumed = b].resumed = b
              /\ [s EXCEPT !.resumed = b].tls = s.tls
              /\ [s EXCEPT !.resumed = b].smId = s.smId
              /\ [s EXCEPT !.resumed = b].bound = s.bound
              /\ [s EXCEPT !.resumed = b].stream = s.stream
              /\ [s EXCEPT !.resumed = b].features = s.features
         /\ \A n \in 0 .. MaxConnects :
              /\ [s EXCEPT !.smId = n] \in Sessions
              /\ [s EXCEPT !.smId = n].smId = n
              /\ [s EXCEPT !.smId = n].tls = s.tls
              /\ [s EXCEPT !.smId = n].resumed = s.resumed
              /\ [s EXCEPT !.smId = n].bound = s.bound
              /\ [s EXCEPT !.smId = n].stream = s.stream
              /\ [s EXCEPT !.smId = n].features = s.features
         /\ \A n \in 0 .. MaxConnects :
              /\ [s EXCEPT !.bound = n] \in Sessions
              /\ [s EXCEPT !.bound = n].bound = n
              /\ [s EXCEPT !.bound = n].smId = s.smId
              /\ [s EXCEPT !.bound = n].tls = s.tls
              /\ [s EXCEPT !.bound = n].resumed = s.resumed
              /\ [s EXCEPT !.bound = n].stream = s.stream
              /\ [s EXCEPT !.bound = n].features = s.features
         /\ \A f \in Features, n \in 0 .. 3 :
              /\ [s EXCEPT !.features = f, !.stream = n] \in Sessions
              /\ [s EXCEPT !.features = f, !.stream = n].features = f
              /\ [s EXCEPT !.features = f, !.stream = n].stream = n
              /\ [s EXCEPT !.features = f, !.stream = n].smId = s.smId
              /\ [s EXCEPT !.features = f, !.stream = n].tls = s.tls
              /\ [s EXCEPT !.features = f, !.stream = n].bound = s.bound
              /\ [s EXCEPT !.features = f, !.stream = n].resumed = s.resumed
BY DEF Sessions

(* What authSASL leads to before an answer of the server.                  *)
LEMMA BeginAuthSteps ==
  ASSUME NEW s, BeginAuth(s)
  PROVE  /\ session' = s
         /\ \/ /\ phase' = "failed" /\ history' = history
               /\ outcome' = [grade |-> "permanent", cause |-> "refused", at |-> phase,
                           unopened |-> FALSE]
            \/ /\ phase' \in {"challenge", "outcome"} /\ outcome' = outcome
               /\ history' = [history EXCEPT !.auth =
                                IF wire'.encrypted THEN "encrypted" ELSE "clear"]
BY DEF BeginAuth, FailAs, Fail

-----------------------------------------------------------------------------
(* The actions up to SASL.                                                 *)

(* authSASL on a stream whose features the session holds.                  *)
LEMMA StepBeginAuth ==
  ASSUME IInv, NEW s \in Sessions, BeginAuth(s),
         s.smId = session.smId, ~s.resumed, s.stream = wire'.streams,
         wire'.streams = IF s.tls THEN 2 ELSE 1,
         wire' \in Wires, wire'.conn = wire.conn, wire.conn > 0, phase \in Before,
         transport' \in [kind : {"tcp", "ws", "wss"}, secure : BOOLEAN],
         config' = config, resumable' = resumable, peer' = peer,
         transport'.kind = "wss" => wire'.encrypted,
         transport'.secure /\ ~wire'.encrypted => wire.conn > 1,
         wire'.encrypted \/ config.insecure \/ transport'.secure,
         wire.conn = 1 /\ transport'.kind = "tcp" /\ config.verify =>
           /\ phase \in {"features", "proceed"} => ~Check(peer)
           /\ transport'.secure => Check(peer) \/ ExpiresSoon(peer.minutes)
  PROVE  IInv'
<1>1. /\ history \in Histories /\ history.auth = "none" /\ outcome.grade \in Grades
      /\ session.smId < wire.conn
  BY DEF IInv, StateType, Encryption, Completion, Before, Waiting
<1>2. session' = s BY BeginAuthSteps
<1>3. CASE /\ phase' = "failed" /\ history' = history
           /\ outcome' = [grade |-> "permanent", cause |-> "refused", at |-> phase,
                           unopened |-> FALSE]
  <2>1. StateType' BY <1>1, <1>2, <1>3 DEF IInv, StateType, Phases, Grades
  <2>2. Streams' /\ Completion' /\ Resumption'
    <3>1. session.smId \in 0 .. MaxConnects /\ wire.conn \in 0 .. MaxConnects
      BY DEF IInv, StateType, Sessions, Wires
    <3>2. wire'.conn >= wire.conn BY <3>1, ConfigAssumption
    <3>3. QED BY <1>2, <1>3, <3>2, KeepsFailed
  <2>3. Encryption' BY <1>1, <1>3 DEF Encryption, FirstAuthEncrypted, Before
  <2>4. GradesFit' BY <1>3 DEF GradesFit
  <2>5. CheckerAgrees' BY <1>3 DEF CheckerAgrees
  <2>6. QED BY <2>1, <2>2, <2>3, <2>4, <2>5 DEF IInv
<1>4. CASE /\ phase' \in {"challenge", "outcome"} /\ outcome' = outcome
           /\ history' = [history EXCEPT !.auth =
                            IF wire'.encrypted THEN "encrypted" ELSE "clear"]
  <2>1. /\ history' \in Histories /\ history'.skipped = history.skipped
        /\ history'.running = history.running
        /\ history'.auth = IF wire'.encrypted THEN "encrypted" ELSE "clear"
    BY <1>1, <1>4 DEF Histories
  <2>2. StateType' BY <1>1, <1>2, <1>4, <2>1 DEF IInv, StateType, Phases, Waiting
  <2>3. Streams'
    BY <1>2, <1>4 DEF Streams, FeaturesCurrent, Before, Authenticating, Bound, Waiting
  <2>4. Encryption' BY <1>4, <2>1 DEF Encryption, FirstAuthEncrypted, Before
  <2>5. Completion'
    <3>1. session.smId \in 0 .. MaxConnects /\ wire.conn \in 0 .. MaxConnects
      BY DEF IInv, StateType, Sessions, Wires
    <3>2. s.smId < wire'.conn /\ s.smId <= wire'.conn BY <1>1, <3>1, ConfigAssumption
    <3>3. QED BY <1>2, <1>4, <3>2 DEF Completion, EstablishedIsComplete, Waiting
  <2>6. Resumption' BY <1>2, <1>4, <2>1 DEF IInv, Resumption
  <2>7. GradesFit' BY <1>4 DEF GradesFit
  <2>8. CheckerAgrees' BY <1>4 DEF CheckerAgrees
  <2>9. QED BY <2>2, <2>3, <2>4, <2>5, <2>6, <2>7, <2>8 DEF IInv
<1>5. QED BY <1>3, <1>4, BeginAuthSteps

(* NewSession once TLS is settled.                                         *)
LEMMA StepAfterTLS ==
  ASSUME IInv, NEW s \in Sessions, AfterTLS(s),
         s.smId = session.smId, s.stream = 1, wire'.streams = 1,
         wire' \in Wires, wire'.conn = wire.conn, wire.conn > 0,
         phase \in {"features", "proceed"},
         transport' \in [kind : {"tcp", "ws", "wss"}, secure : BOOLEAN],
         config' = config, resumable' = resumable, peer' = peer,
         transport'.kind = "wss" => wire'.encrypted,
         transport'.secure /\ ~wire'.encrypted => wire.conn > 1,
         wire'.encrypted \/ config.insecure \/ transport'.secure,
         wire.conn = 1 /\ transport'.kind = "tcp" /\ config.verify =>
           /\ s.tls \/ ~Check(peer)
           /\ transport'.secure => Check(peer) \/ ExpiresSoon(peer.minutes)
  PROVE  IInv'
<1> DEFINE fresh == [s EXCEPT !.resumed = FALSE]
<1>1. /\ fresh \in Sessions /\ fresh.resumed = FALSE /\ fresh.tls = s.tls
      /\ fresh.smId = s.smId /\ fresh.stream = s.stream
  BY Fields
<1>2. /\ s.tls => /\ phase' = "restartTLS" /\ session' = fresh
                  /\ outcome' = outcome /\ history' = history
      /\ ~s.tls => BeginAuth(fresh)
  BY DEF AfterTLS
<1> HIDE DEF fresh
<1>3. CASE s.tls
  <2>1. /\ phase' = "restartTLS" /\ session' = fresh
        /\ outcome' = outcome /\ history' = history
    BY <1>2, <1>3
  <2>2. StateType' BY <1>1, <2>1 DEF IInv, StateType, Phases, Waiting
  <2>3. Streams'
    BY <1>1, <1>3, <2>1 DEF Streams, FeaturesCurrent, Before, Authenticating, Bound, Waiting
  <2>4. Encryption'
    <3>1. history.auth = "none" BY DEF IInv, Encryption, Before
    <3>2. QED BY <2>1, <3>1 DEF Encryption, FirstAuthEncrypted, Before
  <2>5. Completion'
    <3>1. session.smId \in 0 .. MaxConnects /\ wire.conn \in 0 .. MaxConnects
      BY DEF IInv, StateType, Sessions, Wires
    <3>2. session.smId < wire.conn BY DEF IInv, Completion, Waiting
    <3>3. fresh.smId < wire'.conn /\ fresh.smId <= wire'.conn BY <1>1, <3>1, <3>2, ConfigAssumption
    <3>4. QED BY <1>1, <2>1, <3>3 DEF Completion, EstablishedIsComplete, Waiting
  <2>6. Resumption' BY <1>1, <2>1 DEF IInv, Resumption
  <2>7. GradesFit' BY <2>1 DEF GradesFit
  <2>8. CheckerAgrees' BY <2>1 DEF CheckerAgrees
  <2>9. QED BY <2>2, <2>3, <2>4, <2>5, <2>6, <2>7, <2>8 DEF IInv
<1>4. CASE ~s.tls
  <2>1. BeginAuth(fresh) BY <1>2, <1>4
  <2>2. wire'.streams = IF fresh.tls THEN 2 ELSE 1 BY <1>1, <1>4
  <2>3. ~fresh.resumed /\ fresh.smId = session.smId /\ fresh.stream = wire'.streams BY <1>1
  <2>4. phase \in Before BY DEF Before
  <2>5. wire.conn = 1 /\ transport'.kind = "tcp" /\ config.verify =>
          /\ phase \in {"features", "proceed"} => ~Check(peer)
          /\ transport'.secure => Check(peer) \/ ExpiresSoon(peer.minutes)
    BY <1>4
  <2>6. QED BY <1>1, <2>1, <2>2, <2>3, <2>4, <2>5, StepBeginAuth
<1>5. QED BY <1>3, <1>4

(* A step that ends a connection with an error.                            *)
LEMMA StepFail ==
  ASSUME IInv, NEW s \in Sessions, NEW grade \in {"temporary", "permanent"}, NEW cause,
         NEW unopened \in BOOLEAN, Fail(s, grade, cause, unopened),
         s.smId \in {0, session.smId},
         config' = config, resumable' \in BOOLEAN, peer' \in Peers \cup {NoPeer},
         transport' \in [kind : {"tcp", "ws", "wss"}, secure : BOOLEAN],
         wire' \in Wires, wire'.conn >= wire.conn,
         history' \in Histories, history'.running = history.running,
         history'.skipped = history.skipped,
         phase \in {"challenge", "outcome"} /\ cause = "refused" => grade = "permanent",
         phase \notin {"features", "proceed"} /\ cause = "loss" => grade = OpenGrade(unopened),
         Encryption', CheckerAgrees'
  PROVE  IInv'
<1>1. /\ phase' = "failed" /\ session' = s
      /\ outcome' = [grade |-> grade, cause |-> cause, at |-> phase, unopened |-> unopened]
  BY DEF Fail
<1>2. StateType' BY <1>1 DEF IInv, StateType, Phases, Grades
<1>3. Streams' /\ Completion' /\ Resumption' BY <1>1, KeepsFailed
<1>4. GradesFit' BY <1>1 DEF GradesFit, OpenGrade
<1>5. QED BY <1>2, <1>3, <1>4 DEF IInv

(* And one whose stream was not the matter.                                *)
LEMMA StepFailAs ==
  ASSUME IInv, NEW s \in Sessions, NEW grade \in {"temporary", "permanent"}, NEW cause,
         FailAs(s, grade, cause), s.smId \in {0, session.smId},
         config' = config, resumable' \in BOOLEAN, peer' \in Peers \cup {NoPeer},
         transport' \in [kind : {"tcp", "ws", "wss"}, secure : BOOLEAN],
         wire' \in Wires, wire'.conn >= wire.conn,
         history' \in Histories, history'.running = history.running,
         history'.skipped = history.skipped,
         phase \in {"challenge", "outcome"} /\ cause = "refused" => grade = "permanent",
         phase \notin {"features", "proceed"} /\ cause = "loss" => grade = "temporary",
         Encryption', CheckerAgrees'
  PROVE  IInv'
BY StepFail DEF FailAs, OpenGrade

(* Connections are counted with natural numbers.                           *)
LEMMA Counted ==
  ASSUME IInv
  PROVE  /\ session.smId \in Nat /\ wire.conn \in Nat /\ wire.conn >= wire.conn
         /\ wire.conn \in 0 .. MaxConnects /\ session.smId \in 0 .. MaxConnects
         /\ wire.streams \in 0 .. 3 /\ session.smId <= wire.conn
<1>1. /\ session.smId \in 0 .. MaxConnects /\ wire.conn \in 0 .. MaxConnects
      /\ wire.streams \in 0 .. 3 /\ session.smId <= wire.conn
  BY DEF IInv, StateType, Sessions, Wires, Completion
<1>2. QED BY <1>1, ConfigAssumption

(* A client without a session.                                             *)
LEMMA NoSessionType == NoSession \in Sessions /\ NoSession.smId = 0
<1>1. 0 \in 0 .. MaxConnects BY ConfigAssumption
<1>2. QED BY <1>1 DEF NoSession, Sessions, Features

(* ReadFeatures.                                                           *)
LEMMA StepReadFeatures ==
  ASSUME IInv, ReadFeatures
  PROVE  IInv'
<1> DEFINE s == [session EXCEPT !.nil = FALSE, !.stream = wire.streams, !.features = peer.offer]
           startTLS == ~IsSecure /\ transport.kind = "tcp" /\ peer.tls
<1>1. /\ phase = "features" /\ config' = config /\ resumable' = resumable
      /\ transport' = transport /\ wire' = wire /\ peer' = peer
  BY DEF ReadFeatures
<1>2. /\ config \in Configs /\ resumable \in BOOLEAN /\ session \in Sessions
      /\ wire \in Wires /\ history \in Histories /\ peer \in Peers \cup {NoPeer}
      /\ transport \in [kind : {"tcp", "ws", "wss"}, secure : BOOLEAN]
      /\ outcome.grade \in Grades
  BY DEF IInv, StateType
<1>3. /\ wire.streams = 1 /\ wire.conn > 0 /\ session.smId < wire.conn
      /\ wire.encrypted <=> transport.kind = "wss"
      /\ transport.secure /\ ~wire.encrypted => wire.conn > 1
  BY <1>1 DEF IInv, Streams, Encryption, Completion, Before, Waiting
<1>4. s \in Sessions /\ s.smId = session.smId /\ s.tls = session.tls /\ s.stream = 1
  <2>1. peer.offer \in Features BY <1>2 DEF Features, NoPeer
  <2>2. wire.streams \in 0 .. 3 BY <1>2 DEF Wires
  <2>3. /\ s \in Sessions /\ s.smId = session.smId /\ s.tls = session.tls
        /\ s.stream = wire.streams
    BY <1>2, <2>1, <2>2 DEF Sessions
  <2> HIDE DEF s
  <2>4. QED BY <1>3, <2>3
<1>5. ASSUME NEW cause, Refuse(cause),
             wire.conn = 1 /\ transport.kind = "tcp" /\ config.verify =>
               ~Check(peer) /\ ~transport.secure
      PROVE  IInv'
  <2>1. FailAs(NoSession, "permanent", cause) /\ history' = history BY <1>5 DEF Refuse
  <2>2. Encryption'
    <3>1. Encryption /\ phase' = "failed" BY <2>1 DEF IInv, FailAs, Fail
    <3>2. QED BY <1>1, <2>1, <3>1, KeepsEncryption DEF Before
  <2>3. CheckerAgrees' BY <1>1, <1>5 DEF CheckerAgrees
  <2>4. QED BY <1>1, <1>2, <2>1, <2>2, <2>3, NoSessionType, Counted, StepFailAs
<1>6. wire.conn = 1 /\ transport.kind = "tcp" => ~transport.secure BY <1>3
<1>7. CASE peer.features # "features"
  <2>1. Refuse(peer.features) BY <1>7 DEF ReadFeatures
  <2>2. ~Check(peer) BY <1>7 DEF Check
  <2>3. QED BY <2>1, <2>2, <1>5, <1>6
<1>8. CASE peer.features = "features" /\ startTLS
  <2>1. /\ phase' = "proceed" /\ session' = s /\ outcome' = outcome /\ history' = history
    BY <1>8 DEF ReadFeatures
  <2> HIDE DEF s
  <2>2. StateType' BY <1>1, <1>2, <1>4, <2>1 DEF StateType, Phases, Waiting
  <2>3. Streams'
    BY <1>1, <1>3, <1>4, <2>1 DEF Streams, FeaturesCurrent, Before, Authenticating, Bound, Waiting
  <2>4. Encryption'
    <3>1. transport.kind = "tcp" /\ ~transport.secure /\ peer.tls BY <1>8 DEF IsSecure
    <3>2. history.auth = "none" BY <1>1 DEF IInv, Encryption, Before
    <3>3. QED BY <1>1, <1>8, <2>1, <3>1, <3>2 DEF Encryption, FirstAuthEncrypted, Before
  <2>5. Completion' BY <1>1, <1>3, <1>4, <2>1, Counted DEF Completion, EstablishedIsComplete, Waiting
  <2>6. Resumption' BY <1>4, <2>1 DEF IInv, Resumption
  <2>7. GradesFit' BY <2>1 DEF GradesFit
  <2>8. CheckerAgrees' BY <1>1, <1>6, <2>1 DEF CheckerAgrees
  <2>9. QED BY <2>2, <2>3, <2>4, <2>5, <2>6, <2>7, <2>8 DEF IInv
<1>9. CASE peer.features = "features" /\ ~startTLS
  <2>1. transport.kind = "tcp" => transport.secure \/ ~peer.tls BY <1>9 DEF IsSecure
  <2>2. transport.kind = "tcp" /\ ~transport.secure => ~Check(peer) BY <2>1 DEF Check
  <2>3. CASE ~IsSecure /\ ~config.insecure
    <3>1. Refuse("clear") BY <1>9, <2>3 DEF ReadFeatures
    <3>2. QED BY <3>1, <2>2, <1>5, <1>6
  <2>4. CASE IsSecure \/ config.insecure
    <3>1. AfterTLS(s) BY <1>9, <2>4 DEF ReadFeatures
    <3>2. wire.encrypted \/ config.insecure \/ transport.secure
      BY <2>4, <1>3 DEF IsSecure
    <3>3. wire.conn = 1 /\ transport.kind = "tcp" /\ config.verify =>
            /\ s.tls \/ ~Check(peer)
            /\ transport.secure => Check(peer) \/ ExpiresSoon(peer.minutes)
      BY <1>6, <2>2
    <3> HIDE DEF s
    <3>4. QED BY <1>1, <1>2, <1>3, <1>4, <3>1, <3>2, <3>3, StepAfterTLS
  <2>5. QED BY <2>3, <2>4
<1>10. QED BY <1>7, <1>8, <1>9

(* NewClient.                                                              *)
LEMMA StepNewClient ==
  ASSUME IInv, NewClient
  PROVE  IInv'
<1>1. /\ phase = "new" /\ config' = config /\ resumable' = resumable /\ wire' = wire
      /\ peer' = peer /\ session' = session /\ outcome' = outcome /\ history' = history
      /\ phase' \in {"refused", "ready"}
  BY DEF NewClient
<1>2. transport \in [kind : {"tcp", "ws", "wss"}, secure : BOOLEAN]
  BY DEF IInv, StateType
<1>3. /\ transport' \in [kind : {"tcp", "ws", "wss"}, secure : BOOLEAN]
      /\ transport'.secure = transport.secure
  <2>1. \A a : TransportKind(a) \in {"tcp", "ws", "wss"} BY DEF TransportKind
  <2>2. \/ transport' = transport
        \/ \E a : transport' = [transport EXCEPT !.kind = TransportKind(a)]
    BY DEF NewClient
  <2>3. CASE transport' = transport BY <2>3, <1>2
  <2>4. CASE \E a : transport' = [transport EXCEPT !.kind = TransportKind(a)]
    BY <2>1, <2>4, <1>2
  <2>5. QED BY <2>2, <2>3, <2>4
<1>4. wire.conn = 0 /\ ~transport.secure
  BY <1>1, Counted DEF IInv, Streams, Encryption
<1>5. StateType' BY <1>1, <1>3 DEF IInv, StateType, Phases
<1>6. Streams'
  BY <1>1, <1>4 DEF Streams, FeaturesCurrent, Before, Authenticating, Bound, Waiting
<1>7. Encryption'
  <2>1. FirstAuthEncrypted' BY <1>1, <1>3, <1>4 DEF IInv, Encryption, FirstAuthEncrypted
  <2>2. QED BY <1>1, <1>3, <1>4, <2>1 DEF Encryption, Before
<1>8. Completion' BY <1>1, Counted DEF Completion, EstablishedIsComplete, Waiting
<1>9. Resumption' BY <1>1 DEF IInv, Resumption
<1>10. GradesFit' BY <1>1 DEF GradesFit
<1>11. CheckerAgrees' BY <1>1, <1>4 DEF CheckerAgrees
<1>12. QED BY <1>5, <1>6, <1>7, <1>8, <1>9, <1>10, <1>11 DEF IInv

(* Connect: the transport keeps its isSecure, but not its connection.      *)
LEMMA StepConnect ==
  ASSUME IInv, Connect
  PROVE  IInv'
<1>1. /\ phase \in {"ready", "failed", "lost"} /\ wire.conn < MaxConnects
      /\ peer' \in Peers /\ config' = config /\ resumable' = resumable
      /\ transport' = transport
      /\ wire' = [encrypted |-> transport.kind = "wss", streams |-> 1, conn |-> wire.conn + 1]
      /\ history' = [history EXCEPT !.auth = "none", !.opened = FALSE]
      /\ \/ phase' = "features" /\ outcome' = NoOutcome /\ session' = session
         \/ FailAs(session, "permanent", "dial")
         \/ StreamLost(session)
  BY DEF Connect
<1>2. /\ config \in Configs /\ resumable \in BOOLEAN /\ session \in Sessions
      /\ transport \in [kind : {"tcp", "ws", "wss"}, secure : BOOLEAN]
      /\ history \in Histories
  BY DEF IInv, StateType
<1>3. /\ history' \in Histories /\ history'.auth = "none"
      /\ history'.running = history.running /\ history'.skipped = history.skipped
  BY <1>1, <1>2 DEF Histories
<1>4. /\ wire'.conn = wire.conn + 1 /\ wire'.streams = 1
      /\ wire'.encrypted <=> transport.kind = "wss"
  BY <1>1
<1>5. /\ wire'.conn \in 0 .. MaxConnects /\ wire'.conn > 0 /\ wire'.conn >= wire.conn
      /\ session.smId < wire'.conn /\ session.smId <= wire'.conn
      /\ wire'.conn = 1 => wire.conn = 0
  BY <1>1, <1>4, Counted, ConfigAssumption
<1>6. wire' \in Wires BY <1>1, <1>4, <1>5 DEF Wires
<1>7. /\ transport.secure => wire'.conn > 1
      /\ wire'.conn = 1 => ~transport.secure
  <2>1. transport.secure => wire.conn > 0 BY DEF IInv, Encryption
  <2>2. QED BY <2>1, <1>4, Counted
<1>8. CASE phase' = "features" /\ outcome' = NoOutcome /\ session' = session
  <2>1. StateType' BY <1>1, <1>2, <1>3, <1>6, <1>8
    DEF StateType, Phases, Waiting, Grades, NoOutcome
  <2>2. Streams' BY <1>4, <1>5, <1>8
    DEF Streams, FeaturesCurrent, Before, Authenticating, Bound, Waiting
  <2>3. Encryption' BY <1>1, <1>3, <1>4, <1>5, <1>7, <1>8 DEF Encryption, FirstAuthEncrypted, Before
  <2>4. Completion' BY <1>5, <1>8 DEF Completion, EstablishedIsComplete, Waiting
  <2>5. Resumption' BY <1>3, <1>8 DEF IInv, Resumption
  <2>6. GradesFit' BY <1>8 DEF GradesFit
  <2>7. CheckerAgrees' BY <1>1, <1>7, <1>8 DEF CheckerAgrees
  <2>8. QED BY <2>1, <2>2, <2>3, <2>4, <2>5, <2>6, <2>7 DEF IInv
<1>9. ASSUME NEW grade \in {"temporary", "permanent"}, NEW cause, NEW unopened \in BOOLEAN,
             Fail(session, grade, cause, unopened),
             cause = "loss" => grade = OpenGrade(unopened)
      PROVE  IInv'
  <2>1. /\ phase' = "failed" /\ outcome'.at = phase BY <1>9 DEF Fail
  <2>2. Encryption' BY <1>1, <1>3, <1>4, <1>5, <1>7, <2>1 DEF Encryption, FirstAuthEncrypted, Before
  <2>3. CheckerAgrees' BY <1>1, <1>7, <2>1 DEF CheckerAgrees
  <2>4. phase \notin {"challenge", "outcome"} BY <1>1
  <2>5. QED BY <1>1, <1>2, <1>3, <1>5, <1>6, <1>9, <2>2, <2>3, <2>4, StepFail
<1>10. CASE FailAs(session, "permanent", "dial") BY <1>9, <1>10 DEF FailAs
<1>11. CASE StreamLost(session) BY <1>9, <1>11 DEF StreamLost, OpenGrade
<1>12. QED BY <1>1, <1>8, <1>10, <1>11

(* StartTLS: without a handshake the connection stays as it is.            *)
LEMMA StepStartTLS ==
  ASSUME IInv, StartTLS
  PROVE  IInv'
<1> DEFINE handshake == peer.proceed = "proceed" /\ peer.handshake # "fails"
           ok == handshake /\ (peer.handshake = "ok" \/ ~config.verify)
           s == [session EXCEPT !.tls = TRUE]
<1>1. /\ phase = "proceed" /\ config' = config /\ resumable' = resumable /\ peer' = peer
      /\ wire' = [wire EXCEPT !.encrypted = handshake]
      /\ transport' = [transport EXCEPT !.secure = ok]
  BY DEF StartTLS
<1>2. /\ config \in Configs /\ resumable \in BOOLEAN /\ session \in Sessions
      /\ wire \in Wires /\ history \in Histories /\ peer \in Peers \cup {NoPeer}
      /\ transport \in [kind : {"tcp", "ws", "wss"}, secure : BOOLEAN]
  BY DEF IInv, StateType
<1>3. /\ wire.streams = 1 /\ session.stream = 1 /\ wire.conn > 0
      /\ transport.kind = "tcp" /\ peer.features = "features" /\ peer.tls
      /\ history.auth = "none"
  BY <1>1 DEF IInv, Streams, FeaturesCurrent, Encryption, Before, Waiting
<1>4. /\ wire' \in Wires /\ wire'.streams = 1 /\ wire'.conn = wire.conn
      /\ wire'.encrypted <=> handshake
  <2>1. handshake \in BOOLEAN OBVIOUS
  <2> HIDE DEF handshake
  <2>2. QED BY <2>1, <1>1, <1>2, <1>3 DEF Wires
<1>5. /\ transport' \in [kind : {"tcp", "ws", "wss"}, secure : BOOLEAN]
      /\ transport'.kind = "tcp"
      /\ transport'.secure <=> ok
  <2>1. ok \in BOOLEAN OBVIOUS
  <2> HIDE DEF ok
  <2>2. QED BY <2>1, <1>1, <1>2, <1>3
<1>6. ok => handshake OBVIOUS
<1>7. config.verify => (ok => Check(peer) \/ ExpiresSoon(peer.minutes)) /\ (~ok => ~Check(peer))
  BY <1>3 DEF Check
<1>8. ASSUME NEW t \in Sessions, NEW grade \in {"temporary", "permanent"},
             FailAs(t, grade, peer.proceed), t.smId \in {0, session.smId}, ~ok, history' = history
      PROVE  IInv'
  <2>1. /\ phase' = "failed" BY <1>8 DEF FailAs, Fail
  <2>2. Encryption'
    BY <1>1, <1>3, <1>4, <1>5, <1>8, <2>1 DEF Encryption, FirstAuthEncrypted, Before
  <2>3. CheckerAgrees' BY <1>1, <1>5, <1>7, <1>8 DEF CheckerAgrees
  <2>4. wire'.conn >= wire.conn BY <1>4, Counted
  <2>5. QED BY <1>1, <1>2, <1>4, <1>5, <1>8, <2>2, <2>3, <2>4, StepFailAs
<1>9. CASE ok
  <2>1. AfterTLS(s) BY <1>9 DEF StartTLS
  <2>2. s \in Sessions /\ s.smId = session.smId /\ s.stream = session.stream /\ s.tls
    BY <1>2 DEF Sessions
  <2> HIDE DEF s, ok, handshake
  <2>3. wire.conn = 1 /\ transport'.kind = "tcp" /\ config.verify =>
          /\ s.tls \/ ~Check(peer)
          /\ transport'.secure => Check(peer) \/ ExpiresSoon(peer.minutes)
    BY <1>7, <1>9, <2>2
  <2>4. wire'.encrypted BY <1>4, <1>6, <1>9
  <2>5. QED BY <1>1, <1>2, <1>3, <1>4, <1>5, <2>1, <2>2, <2>3, <2>4, StepAfterTLS
<1>10. CASE ~ok /\ ~config.insecure
  <2>1. FailAs(NoSession, "permanent", peer.proceed) /\ history' = history
    BY <1>10 DEF StartTLS, Refuse
  <2>2. QED BY <2>1, <1>8, <1>10, NoSessionType
<1>11. CASE ~ok /\ config.insecure /\ session.tls
  <2>1. AfterTLS(session) BY <1>11 DEF StartTLS
  <2> HIDE DEF ok, handshake
  <2>2. ~transport'.secure BY <1>5, <1>11
  <2>3. QED BY <1>1, <1>2, <1>3, <1>4, <1>5, <1>11, <2>1, <2>2, StepAfterTLS
<1>12. CASE ~ok /\ config.insecure /\ ~session.tls
  <2>1. FailAs(session, "temporary", peer.proceed) /\ history' = history
    BY <1>12 DEF StartTLS
  <2>2. QED BY <2>1, <1>2, <1>8, <1>12
<1>13. QED BY <1>9, <1>10, <1>11, <1>12

(* A new stream whose features replace those of the one before.            *)
LEMMA Reset ==
  ASSUME IInv, NEW f \in Offers, wire.streams < 3
  PROVE  /\ ResetWith(f) \in Sessions /\ ResetWith(f).features = f
         /\ ResetWith(f).stream = wire.streams + 1
         /\ ResetWith(f).smId = session.smId /\ ResetWith(f).tls = session.tls
         /\ ResetWith(f).resumed = session.resumed /\ ResetWith(f).bound = session.bound
<1>1. session \in Sessions /\ wire.streams + 1 \in 0 .. 3 BY Counted DEF IInv, StateType
<1>2. f \in Features BY DEF Features
<1>3. QED BY <1>1, <1>2 DEF ResetWith, Sessions

(* A restart of the stream opens one more on the same connection.          *)
LEMMA Restarted ==
  ASSUME IInv, wire' = [wire EXCEPT !.streams = @ + 1], wire.streams < 3
  PROVE  /\ wire' \in Wires /\ wire'.streams = wire.streams + 1
         /\ wire'.conn = wire.conn /\ wire'.encrypted = wire.encrypted
<1>1. wire \in Wires /\ wire.streams + 1 \in 0 .. 3 BY Counted DEF IInv, StateType
<1>2. QED BY <1>1 DEF Wires

(* RestartTLS.                                                             *)
LEMMA StepRestartTLS ==
  ASSUME IInv, RestartTLS
  PROVE  IInv'
<1>1. /\ phase = "restartTLS" /\ config' = config /\ resumable' = resumable
      /\ transport' = transport /\ peer' = peer
      /\ wire' = [wire EXCEPT !.streams = @ + 1]
  BY DEF RestartTLS
<1>2. /\ config \in Configs /\ resumable \in BOOLEAN /\ session \in Sessions
      /\ history \in Histories /\ peer \in Peers \cup {NoPeer}
      /\ transport \in [kind : {"tcp", "ws", "wss"}, secure : BOOLEAN]
  BY DEF IInv, StateType
<1>3. /\ wire.streams = 1 /\ session.tls /\ wire.conn > 0 /\ ~session.resumed
      /\ wire.encrypted \/ config.insecure \/ transport.secure
      /\ transport.kind = "wss" => wire.encrypted
      /\ transport.secure /\ ~wire.encrypted => wire.conn > 1
  BY <1>1 DEF IInv, Streams, Encryption, Completion, Before, Waiting
<1>4. /\ wire' \in Wires /\ wire'.streams = 2
      /\ wire'.conn = wire.conn /\ wire'.encrypted = wire.encrypted
  BY <1>1, <1>3, Restarted
<1>5. ASSUME NEW f \in Offers, BeginAuth(ResetWith(f)) PROVE IInv'
  <2> DEFINE s == ResetWith(f)
  <2>1. /\ s \in Sessions /\ s.stream = 2 /\ s.smId = session.smId /\ s.tls /\ ~s.resumed
    <3>1. wire.streams < 3 /\ wire.streams + 1 = 2 BY <1>3
    <3>2. QED BY <1>3, <3>1, Reset
  <2> HIDE DEF s
  <2>2. BeginAuth(s) BY <1>5 DEF s
  <2>3. wire.conn = 1 /\ transport.kind = "tcp" /\ config.verify =>
          (transport.secure => Check(peer) \/ ExpiresSoon(peer.minutes))
    BY DEF IInv, CheckerAgrees
  <2>4. phase \in Before /\ phase \notin {"features", "proceed"} BY <1>1 DEF Before
  <2>5. /\ wire'.streams = IF s.tls THEN 2 ELSE 1
        /\ s.stream = wire'.streams
    BY <1>4, <2>1
  <2>6. /\ wire'.encrypted \/ config.insecure \/ transport'.secure
        /\ transport'.kind = "wss" => wire'.encrypted
        /\ transport'.secure /\ ~wire'.encrypted => wire.conn > 1
        /\ wire.conn = 1 /\ transport'.kind = "tcp" /\ config.verify =>
             /\ phase \in {"features", "proceed"} => ~Check(peer)
             /\ transport'.secure => Check(peer) \/ ExpiresSoon(peer.minutes)
    BY <1>1, <1>3, <1>4, <2>3, <2>4
  <2>7. transport' \in [kind : {"tcp", "ws", "wss"}, secure : BOOLEAN] BY <1>1, <1>2
  <2>8. QED BY <1>1, <1>3, <1>4, <2>1, <2>2, <2>4, <2>5, <2>6, <2>7, StepBeginAuth
<1>6. ASSUME NEW unopened \in BOOLEAN,
             Fail(session, OpenGrade(unopened), "loss", unopened), history' = history
      PROVE  IInv'
  <2>1. phase' = "failed" /\ outcome'.at = "restartTLS" BY <1>1, <1>6 DEF Fail
  <2>2. Encryption' BY <1>1, <1>4, <1>6, <2>1, KeepsEncryption DEF IInv, Before
  <2>3. CheckerAgrees' BY <1>1, <1>4, <2>1, KeepsChecker DEF IInv
  <2>4. wire'.conn >= wire.conn BY <1>4, Counted
  <2>5. OpenGrade(unopened) \in {"temporary", "permanent"} BY DEF OpenGrade
  <2>6. QED BY <1>1, <1>2, <1>4, <1>6, <2>2, <2>3, <2>4, <2>5, StepFail
<1>7. CASE \E f \in Offers : BeginAuth(ResetWith(f)) BY <1>5, <1>7
<1>8. CASE StreamLost(session) /\ history' = history
  BY <1>6, <1>8 DEF StreamLost
<1>9. QED BY <1>7, <1>8 DEF RestartTLS

-----------------------------------------------------------------------------
(* The actions from SASL on.                                               *)

(* What the answers of SASL are called, and how they are graded.           *)
LEMMA Grading ==
  ASSUME NEW reply, NEW nonce, NEW offer, NEW secret, NEW message
  PROVE  /\ ChallengeGrade(reply, nonce, offer) \in {"temporary", "permanent", "continue"}
         /\ FinalGrade(reply, secret, message) \in {"temporary", "permanent", "ok"}
         /\ PlainGrade(reply) \in {"temporary", "permanent", "ok"}
         /\ CauseOf(reply.kind) = "refused" =>
              /\ ChallengeGrade(reply, nonce, offer) = "permanent"
              /\ FinalGrade(reply, secret, message) = "permanent"
              /\ PlainGrade(reply) = "permanent"
         /\ CauseOf(reply.kind) = "loss" =>
              /\ ChallengeGrade(reply, nonce, offer) = "temporary"
              /\ FinalGrade(reply, secret, message) = "temporary"
              /\ PlainGrade(reply) = "temporary"
<1>1. CauseOf(reply.kind) = "refused" => reply.kind = "failure" BY DEF CauseOf
<1>2. CauseOf(reply.kind) = "loss" => reply.kind = "lost" BY DEF CauseOf
<1>3. /\ ChallengeGrade(reply, nonce, offer) \in {"temporary", "permanent", "continue"}
      /\ reply.kind = "failure" => ChallengeGrade(reply, nonce, offer) = "permanent"
      /\ reply.kind = "lost" => ChallengeGrade(reply, nonce, offer) = "temporary"
  <2>1. CASE reply.kind = "failure" BY <2>1 DEF ChallengeGrade
  <2>2. CASE reply.kind # "failure" /\ (reply.kind # "challenge" \/ ~reply.base64)
    BY <2>2 DEF ChallengeGrade
  <2>3. CASE reply.kind = "challenge" /\ reply.base64
    BY <2>3 DEF ChallengeGrade
  <2>4. QED BY <2>1, <2>2, <2>3
<1>4. /\ FinalGrade(reply, secret, message) \in {"temporary", "permanent", "ok"}
      /\ reply.kind = "failure" => FinalGrade(reply, secret, message) = "permanent"
      /\ reply.kind = "lost" => FinalGrade(reply, secret, message) = "temporary"
  <2>1. CASE reply.kind = "failure" BY <2>1 DEF FinalGrade
  <2>2. CASE reply.kind # "failure" /\ reply.kind # "success" BY <2>2 DEF FinalGrade
  <2>3. CASE reply.kind = "success" BY <2>3 DEF FinalGrade
  <2>4. QED BY <2>1, <2>2, <2>3
<1>5. /\ PlainGrade(reply) \in {"temporary", "permanent", "ok"}
      /\ reply.kind = "failure" => PlainGrade(reply) = "permanent"
      /\ reply.kind = "lost" => PlainGrade(reply) = "temporary"
  BY DEF PlainGrade
<1>6. QED BY <1>1, <1>2, <1>3, <1>4, <1>5

(* A later step that fails on the connection that it has.                  *)
LEMMA EndsLater ==
  ASSUME IInv, phase \in {"challenge", "outcome", "restartAuth", "resume", "bind",
                          "session", "enable"},
         NEW s \in Sessions, NEW grade \in {"temporary", "permanent"}, NEW cause,
         NEW unopened \in BOOLEAN, Fail(s, grade, cause, unopened),
         s.smId \in {0, session.smId},
         config' = config, transport' = transport, peer' = peer, history' = history,
         resumable' = resumable, wire' \in Wires, wire'.conn = wire.conn,
         wire'.encrypted = wire.encrypted,
         phase \in {"challenge", "outcome"} /\ cause = "refused" => grade = "permanent",
         cause = "loss" => grade = OpenGrade(unopened)
  PROVE  IInv'
<1>1. phase' = "failed" /\ outcome'.at \notin {"features", "proceed"} BY DEF Fail
<1>2. /\ Encryption /\ CheckerAgrees /\ history \in Histories /\ resumable \in BOOLEAN
      /\ peer \in Peers \cup {NoPeer} /\ wire.conn \in Nat
      /\ transport \in [kind : {"tcp", "ws", "wss"}, secure : BOOLEAN]
  BY Counted DEF IInv, StateType
<1>3. Encryption'
  <2>1. phase' \notin Before /\ history'.auth = history.auth BY <1>1 DEF Before
  <2>2. QED BY <1>2, <2>1, KeepsEncryption
<1>4. CheckerAgrees' BY <1>1, <1>2, KeepsChecker
<1>5. wire'.conn >= wire.conn BY <1>2
<1>6. QED BY <1>2, <1>3, <1>4, <1>5, StepFail

LEMMA FailsLater ==
  ASSUME IInv, phase \in {"challenge", "outcome", "restartAuth", "resume", "bind",
                          "session", "enable"},
         NEW s \in Sessions, NEW grade \in {"temporary", "permanent"}, NEW cause,
         FailAs(s, grade, cause), s.smId \in {0, session.smId},
         config' = config, transport' = transport, peer' = peer, history' = history,
         resumable' = resumable, wire' \in Wires, wire'.conn = wire.conn,
         wire'.encrypted = wire.encrypted,
         phase \in {"challenge", "outcome"} /\ cause = "refused" => grade = "permanent",
         cause = "loss" => grade = "temporary"
  PROVE  IInv'
BY EndsLater DEF FailAs, OpenGrade

(* A later step that goes on.                                              *)
LEMMA GoesOn ==
  ASSUME IInv, phase' \in Authenticating \cup Bound \cup {"established", "crashed", "lost"},
         config' = config, transport' = transport, peer' = peer, outcome' = outcome,
         wire' \in Wires, wire'.conn = wire.conn, wire'.encrypted = wire.encrypted,
         history' \in Histories, history'.auth = history.auth,
         session' \in Sessions, resumable' \in BOOLEAN,
         Streams', Completion', Resumption'
  PROVE  IInv'
<1>1. phase' \notin Before /\ phase' # "failed" /\ phase' \in Phases
  BY DEF Before, Authenticating, Bound, Phases, Waiting
<1>2. Encryption /\ CheckerAgrees BY DEF IInv
<1>3. Encryption' BY <1>1, <1>2, KeepsEncryption
<1>4. CheckerAgrees' BY <1>1, <1>2, KeepsChecker
<1>5. GradesFit' BY <1>1 DEF GradesFit
<1>6. StateType' BY <1>1 DEF IInv, StateType
<1>7. QED BY <1>3, <1>4, <1>5, <1>6 DEF IInv

(* The types that a later step relies on.                                  *)
LEMMA LaterTypes ==
  ASSUME IInv
  PROVE  /\ config \in Configs /\ resumable \in BOOLEAN /\ session \in Sessions
         /\ wire \in Wires /\ history \in Histories
BY DEF IInv, StateType

(* ReadChallenge.                                                          *)
LEMMA StepReadChallenge ==
  ASSUME IInv, ReadChallenge
  PROVE  IInv'
<1>1. /\ phase = "challenge" /\ config' = config /\ resumable' = resumable
      /\ transport' = transport /\ wire' = wire /\ peer' = peer /\ history' = history
  BY DEF ReadChallenge
<1>2. \/ phase' = "outcome" /\ session' = session /\ outcome' = outcome
      \/ \E reply : LET grade == ChallengeGrade(reply, Nonce, session.features) IN
           grade # "continue" /\ FailAs(session, grade, CauseOf(reply.kind))
  BY DEF ReadChallenge
<1>3. CASE phase' = "outcome" /\ session' = session /\ outcome' = outcome
  <2>1. Streams'
    BY <1>1, <1>3 DEF IInv, Streams, FeaturesCurrent, Before, Authenticating, Bound, Waiting
  <2>2. Completion'
    BY <1>1, <1>3 DEF IInv, Completion, EstablishedIsComplete, Waiting
  <2>3. Resumption' BY <1>1, <1>3 DEF IInv, Resumption
  <2>4. phase' \in Authenticating BY <1>3 DEF Authenticating
  <2>5. QED BY <1>1, <1>3, <2>1, <2>2, <2>3, <2>4, LaterTypes, GoesOn
<1>4. ASSUME NEW reply, NEW grade, grade = ChallengeGrade(reply, Nonce, session.features),
             grade # "continue", FailAs(session, grade, CauseOf(reply.kind))
      PROVE  IInv'
  <2>1. /\ grade \in {"temporary", "permanent"}
        /\ CauseOf(reply.kind) = "refused" => grade = "permanent"
        /\ CauseOf(reply.kind) = "loss" => grade = "temporary"
    BY <1>4, Grading
  <2>2. QED BY <1>1, <1>4, <2>1, LaterTypes, FailsLater
<1>5. QED BY <1>2, <1>3, <1>4

(* ReadOutcome.                                                            *)
LEMMA StepReadOutcome ==
  ASSUME IInv, ReadOutcome
  PROVE  IInv'
<1>1. /\ phase = "outcome" /\ config' = config /\ resumable' = resumable
      /\ transport' = transport /\ wire' = wire /\ peer' = peer /\ history' = history
  BY DEF ReadOutcome
<1>2. \/ phase' = "restartAuth" /\ session' = session /\ outcome' = outcome
      \/ \E reply, grade :
           /\ grade \in {FinalGrade(reply, config.secret, scram.read), PlainGrade(reply)}
           /\ grade # "ok" /\ FailAs(session, grade, CauseOf(reply.kind))
  BY DEF ReadOutcome
<1>3. CASE phase' = "restartAuth" /\ session' = session /\ outcome' = outcome
  <2>1. Streams'
    BY <1>1, <1>3 DEF IInv, Streams, FeaturesCurrent, Before, Authenticating, Bound, Waiting
  <2>2. Completion'
    BY <1>1, <1>3 DEF IInv, Completion, EstablishedIsComplete, Waiting
  <2>3. Resumption' BY <1>1, <1>3 DEF IInv, Resumption
  <2>4. phase' \in Authenticating BY <1>3 DEF Authenticating
  <2>5. QED BY <1>1, <1>3, <2>1, <2>2, <2>3, <2>4, LaterTypes, GoesOn
<1>4. ASSUME NEW reply, NEW grade \in {FinalGrade(reply, config.secret, scram.read),
                                       PlainGrade(reply)},
             grade # "ok", FailAs(session, grade, CauseOf(reply.kind))
      PROVE  IInv'
  <2>1. /\ grade \in {"temporary", "permanent"}
        /\ CauseOf(reply.kind) = "refused" => grade = "permanent"
        /\ CauseOf(reply.kind) = "loss" => grade = "temporary"
    BY <1>4, Grading
  <2>2. QED BY <1>1, <1>4, <2>1, LaterTypes, FailsLater
<1>5. QED BY <1>2, <1>3, <1>4

(* RestartAuth.                                                            *)
LEMMA StepRestartAuth ==
  ASSUME IInv, RestartAuth
  PROVE  IInv'
<1>1. /\ phase = "restartAuth" /\ config' = config /\ resumable' = resumable
      /\ transport' = transport /\ peer' = peer
      /\ wire' = [wire EXCEPT !.streams = @ + 1]
  BY DEF RestartAuth
<1>2. /\ wire.streams = IF session.tls THEN 2 ELSE 1
      /\ wire.streams < 3 /\ wire.conn > 0 /\ ~session.resumed
      /\ session.smId < wire.conn
      /\ ~history.skipped => session.smId \in {0, history.running}
  BY <1>1 DEF IInv, Streams, Completion, Resumption, Authenticating, Waiting
<1>3. /\ wire' \in Wires /\ wire'.streams = wire.streams + 1
      /\ wire'.conn = wire.conn /\ wire'.encrypted = wire.encrypted
  BY <1>1, <1>2, Restarted
<1>4. ASSUME NEW f \in Offers, session' = ResetWith(f), outcome' = outcome,
             phase' = IF MayResume(session') THEN "resume" ELSE "bind",
             history' = [history EXCEPT !.skipped =
                           @ \/ (session'.smId # 0 /\ ~MayResume(session'))]
      PROVE  IInv'
  <2>1. /\ session' \in Sessions /\ session'.stream = wire'.streams
        /\ session'.smId = session.smId /\ session'.tls = session.tls /\ ~session'.resumed
    BY <1>2, <1>3, <1>4, Reset
  <2>2. /\ history' \in Histories /\ history'.auth = history.auth
        /\ history'.running = history.running
        /\ history'.skipped <=> \/ history.skipped
                                \/ session'.smId # 0 /\ ~MayResume(session')
    <3> DEFINE b == history.skipped \/ (session'.smId # 0 /\ ~MayResume(session'))
    <3>1. history \in Histories BY LaterTypes
    <3>2. b \in BOOLEAN OBVIOUS
    <3>3. history' = [history EXCEPT !.skipped = b] BY <1>4
    <3> HIDE DEF b
    <3>4. /\ history' \in Histories /\ history'.auth = history.auth
          /\ history'.running = history.running /\ history'.skipped = b
      BY <3>1, <3>2, <3>3 DEF Histories
    <3>5. QED BY <3>4 DEF b
  <2>3. MayResume(session') => session'.smId # 0 /\ resumable BY DEF MayResume
  <2>4. phase' \in Bound BY <1>4 DEF Bound
  <2>5. Streams'
    BY <1>2, <1>3, <1>4, <2>1 DEF Streams, FeaturesCurrent, Before, Authenticating, Bound, Waiting
  <2>6. Completion'
    <3>1. session'.smId < wire'.conn /\ session'.smId <= wire'.conn
      BY <1>2, <1>3, <2>1, Counted
    <3>2. QED BY <1>1, <1>4, <2>1, <2>3, <3>1 DEF Completion, EstablishedIsComplete
  <2>7. Resumption' BY <1>2, <1>4, <2>1, <2>2 DEF Resumption
  <2>8. QED BY <1>1, <1>3, <1>4, <2>1, <2>2, <2>4, <2>5, <2>6, <2>7, LaterTypes, GoesOn
<1>5. CASE StreamLost(session) /\ history' = history
  <2>1. PICK unopened \in BOOLEAN : Fail(session, OpenGrade(unopened), "loss", unopened)
    BY <1>5 DEF StreamLost
  <2>2. OpenGrade(unopened) \in {"temporary", "permanent"} BY DEF OpenGrade
  <2>3. QED BY <1>1, <1>3, <1>5, <2>1, <2>2, LaterTypes, EndsLater
<1>6. ASSUME NEW f \in Offers, ResumeUnsent(ResetWith(f)), history' = history
      PROVE  IInv'
  <2> DEFINE s == ResetWith(f)
  <2>1. s \in Sessions /\ s.smId = session.smId BY <1>2, Reset
  <2> HIDE DEF s
  <2>2. FailAs(s, "temporary", "loss") BY <1>6 DEF ResumeUnsent, s
  <2>3. QED BY <1>1, <1>3, <1>6, <2>1, <2>2, LaterTypes, FailsLater
<1>7. QED BY <1>4, <1>5, <1>6 DEF RestartAuth

(* SMState{} leaves the rest of the session.                               *)
LEMMA Forgotten ==
  ASSUME IInv
  PROVE  /\ ForgetSM \in Sessions /\ ForgetSM.smId = 0 /\ ForgetSM.tls = session.tls
         /\ ForgetSM.resumed = session.resumed /\ ForgetSM.bound = session.bound
         /\ ForgetSM.stream = session.stream /\ ForgetSM.features = session.features
<1>1. session \in Sessions /\ 0 \in 0 .. MaxConnects BY ConfigAssumption DEF IInv, StateType
<1>2. QED BY <1>1 DEF ForgetSM, Sessions

(* What is settled once the client is authenticated.                       *)
LEMMA Authenticated ==
  ASSUME IInv, phase \in Bound
  PROVE  /\ wire.streams = IF session.tls THEN 3 ELSE 2
         /\ wire.conn > 0 /\ ~session.resumed /\ session.smId < wire.conn
         /\ session.stream = wire.streams
         /\ ~history.skipped => session.smId \in {0, history.running}
         /\ phase = "resume" => session.smId # 0 /\ resumable
         /\ phase # "resume" => session.smId = 0 \/ history.skipped
BY DEF IInv, Streams, Completion, Resumption, FeaturesCurrent, Bound, Waiting

(* Resume.                                                                 *)
LEMMA StepResume ==
  ASSUME IInv, Resume
  PROVE  IInv'
<1>1. /\ phase = "resume" /\ config' = config /\ resumable' = resumable
      /\ transport' = transport /\ wire' = wire /\ peer' = peer
  BY DEF Resume
<1>2. /\ wire.streams = IF session.tls THEN 3 ELSE 2
      /\ wire.conn > 0 /\ ~session.resumed /\ session.smId < wire.conn
      /\ session.stream = wire.streams /\ session.smId # 0 /\ resumable
      /\ ~history.skipped => session.smId \in {0, history.running}
  BY <1>1, Authenticated DEF Bound
<1>3. CASE /\ phase' = "established" /\ session' = [session EXCEPT !.resumed = TRUE]
           /\ history' = [history EXCEPT !.running = session.smId] /\ outcome' = outcome
  <2>1. /\ session' \in Sessions /\ session'.smId = session.smId
        /\ session'.tls = session.tls /\ session'.resumed
    BY <1>3, LaterTypes, Fields
  <2>2. /\ history' \in Histories /\ history'.running = session.smId
        /\ history'.auth = history.auth
    <3>1. history \in Histories /\ session.smId \in 0 .. MaxConnects BY LaterTypes, Counted
    <3>2. QED BY <1>3, <3>1 DEF Histories
  <2>3. Streams'
    BY <1>1, <1>2, <1>3, <2>1 DEF Streams, FeaturesCurrent, Before, Authenticating, Bound, Waiting
  <2>4. Completion'
    BY <1>1, <1>2, <1>3, <2>1, Counted DEF Completion, EstablishedIsComplete, Waiting
  <2>5. Resumption' BY <1>3, <2>1, <2>2 DEF Resumption
  <2>6. QED BY <1>1, <1>3, <2>1, <2>2, <2>3, <2>4, <2>5, LaterTypes, GoesOn
<1>4. CASE /\ phase' = "bind" /\ session' = ForgetSM
           /\ outcome' = outcome /\ history' = history
  <2>1. Streams'
    BY <1>1, <1>2, <1>4, Forgotten
    DEF Streams, FeaturesCurrent, Before, Authenticating, Bound, Waiting
  <2>2. Completion'
    BY <1>1, <1>2, <1>4, Forgotten, Counted DEF Completion, EstablishedIsComplete, Waiting
  <2>3. Resumption' BY <1>4, Forgotten DEF Resumption
  <2>4. phase' \in Bound BY <1>4 DEF Bound
  <2>5. QED BY <1>1, <1>4, <2>1, <2>2, <2>3, <2>4, Forgotten, LaterTypes, GoesOn
<1>5. ASSUME NEW cause \in {"loss", "answer"}, FailAs(ForgetSM, "temporary", cause),
             history' = history
      PROVE  IInv'
  BY <1>1, <1>5, Forgotten, LaterTypes, FailsLater
<1>6. QED BY <1>3, <1>4, <1>5 DEF Resume

(* EnableStreamManagement, once all that the session needs is done.        *)
LEMMA StepEnableOrEnd ==
  ASSUME IInv, phase \in {"bind", "session"}, NEW s \in Sessions, EnableOrEnd(s),
         s.smId = session.smId, s.tls = session.tls, s.stream = session.stream,
         ~s.resumed, s.bound = wire.conn,
         s.features.session = "required" => history'.opened,
         config' = config, resumable' = resumable, transport' = transport, wire' = wire,
         peer' = peer, history' \in Histories, history'.auth = history.auth,
         history'.skipped = history.skipped, history'.running \in {0, history.running},
         history'.running = 0 \/ phase = "session"
  PROVE  IInv'
<1>1. /\ session' = s /\ outcome' = outcome /\ phase' \in {"enable", "established"}
  BY DEF EnableOrEnd
<1>2. /\ wire.streams = IF session.tls THEN 3 ELSE 2
      /\ wire.conn > 0 /\ session.smId < wire.conn /\ session.stream = wire.streams
      /\ session.smId = 0 \/ history.skipped
  BY Authenticated DEF Bound
<1>3. Streams'
  BY <1>1, <1>2 DEF Streams, FeaturesCurrent, Before, Authenticating, Bound, Waiting
<1>4. Completion'
  BY <1>1, <1>2, Counted DEF Completion, EstablishedIsComplete, Waiting
<1>5. Resumption' BY <1>1, <1>2 DEF Resumption
<1>6. phase' \in Bound \cup {"established"} BY <1>1 DEF Bound
<1>7. QED BY <1>1, <1>3, <1>4, <1>5, <1>6, LaterTypes, GoesOn

(* Bind.                                                                   *)
LEMMA StepBind ==
  ASSUME IInv, Bind
  PROVE  IInv'
<1> DEFINE s == [session EXCEPT !.bound = wire.conn]
<1>1. /\ phase = "bind" /\ config' = config /\ resumable' = resumable
      /\ transport' = transport /\ wire' = wire /\ peer' = peer
  BY DEF Bind
<1>2. /\ wire.streams = IF session.tls THEN 3 ELSE 2
      /\ wire.conn > 0 /\ ~session.resumed /\ session.smId < wire.conn
      /\ session.stream = wire.streams
      /\ session.smId = 0 \/ history.skipped
  BY <1>1, Authenticated DEF Bound
<1>3. /\ s \in Sessions /\ s.smId = session.smId /\ s.tls = session.tls
      /\ s.stream = session.stream /\ ~s.resumed /\ s.bound = wire.conn
      /\ s.features = session.features
  <2>1. session \in Sessions /\ wire.conn \in 0 .. MaxConnects BY LaterTypes, Counted
  <2>2. QED BY <1>2, <2>1 DEF Sessions
<1>4. CASE /\ history' = [history EXCEPT !.running = 0]
           /\ IF IsOptional(s.features) THEN EnableOrEnd(s)
              ELSE phase' = "session" /\ session' = s /\ outcome' = outcome
  <2>1. /\ history' \in Histories /\ history'.running = 0 /\ history'.auth = history.auth
        /\ history'.skipped = history.skipped
    <3>1. history \in Histories /\ 0 \in 0 .. MaxConnects BY LaterTypes, ConfigAssumption
    <3>2. QED BY <1>4, <3>1 DEF Histories
  <2>2. CASE EnableOrEnd(s) /\ IsOptional(s.features)
    <3>1. s.features.session # "required" BY <2>2 DEF IsOptional
    <3> HIDE DEF s
    <3>2. QED BY <1>1, <1>3, <2>1, <2>2, <3>1, StepEnableOrEnd
  <2>3. CASE phase' = "session" /\ session' = s /\ outcome' = outcome
    <3> HIDE DEF s
    <3>1. Streams'
      BY <1>1, <1>2, <1>3, <2>3 DEF Streams, FeaturesCurrent, Before, Authenticating, Bound, Waiting
    <3>2. Completion'
      BY <1>1, <1>2, <1>3, <2>3, Counted DEF Completion, EstablishedIsComplete, Waiting
    <3>3. Resumption' BY <1>2, <1>3, <2>1, <2>3 DEF Resumption
    <3>4. phase' \in Bound BY <2>3 DEF Bound
    <3>5. QED BY <1>1, <1>3, <2>1, <2>3, <3>1, <3>2, <3>3, <3>4, LaterTypes, GoesOn
  <2>4. QED BY <1>4, <2>2, <2>3
<1>5. ASSUME NEW cause \in {"loss", "answer"}, FailAs(session, "temporary", cause),
             history' = history
      PROVE  IInv'
  BY <1>1, <1>5, LaterTypes, FailsLater
<1>6. QED BY <1>4, <1>5 DEF Bind

(* rfc3921Session.                                                         *)
LEMMA StepOpenSession ==
  ASSUME IInv, OpenSession
  PROVE  IInv'
<1>1. /\ phase = "session" /\ config' = config /\ resumable' = resumable
      /\ transport' = transport /\ wire' = wire /\ peer' = peer
  BY DEF OpenSession
<1>2. CASE EnableOrEnd(session) /\ history' = [history EXCEPT !.opened = TRUE]
  <2>1. /\ history' \in Histories /\ history'.running = history.running
        /\ history'.auth = history.auth /\ history'.skipped = history.skipped
        /\ history'.opened
    <3>1. history \in Histories BY LaterTypes
    <3>2. QED BY <1>2, <3>1 DEF Histories
  <2>2. ~session.resumed BY <1>1, Authenticated DEF Bound
  <2>3. session.bound = wire.conn BY <1>1 DEF IInv, Completion
  <2>4. QED BY <1>1, <1>2, <2>1, <2>2, <2>3, LaterTypes, StepEnableOrEnd
<1>3. ASSUME NEW cause \in {"loss", "answer"}, FailAs(session, "temporary", cause),
             history' = history
      PROVE  IInv'
  BY <1>1, <1>3, LaterTypes, FailsLater
<1>4. QED BY <1>2, <1>3 DEF OpenSession

(* Enable: the stream management session is named after its connection.    *)
LEMMA StepEnable ==
  ASSUME IInv, Enable
  PROVE  IInv'
<1>1. /\ phase = "enable" /\ config' = config
      /\ transport' = transport /\ wire' = wire /\ peer' = peer
  BY DEF Enable
<1>2. /\ wire.streams = IF session.tls THEN 3 ELSE 2
      /\ wire.conn > 0 /\ ~session.resumed /\ session.smId < wire.conn
      /\ session.bound = wire.conn
      /\ session.features.session = "required" => history.opened
  BY <1>1, Authenticated DEF Bound, IInv, Completion
<1>3. CASE /\ resumable' \in BOOLEAN /\ session' = [session EXCEPT !.smId = wire.conn]
           /\ history' = [history EXCEPT !.running = wire.conn, !.skipped = FALSE]
           /\ phase' = "established" /\ outcome' = outcome
  <2>1. session \in Sessions /\ history \in Histories /\ wire.conn \in 0 .. MaxConnects
    BY LaterTypes, Counted
  <2>2. /\ session' \in Sessions /\ session'.smId = wire.conn /\ session'.tls = session.tls
        /\ session'.resumed = session.resumed /\ session'.bound = session.bound
        /\ session'.features = session.features
    BY <1>3, <2>1 DEF Sessions
  <2>3. /\ history' \in Histories /\ history'.running = wire.conn
        /\ history'.auth = history.auth /\ history'.opened = history.opened
    BY <1>3, <2>1 DEF Histories
  <2>4. Streams'
    BY <1>1, <1>2, <1>3, <2>2 DEF Streams, FeaturesCurrent, Before, Authenticating, Bound, Waiting
  <2>5. Completion'
    BY <1>1, <1>2, <1>3, <2>2, <2>3, Counted DEF Completion, EstablishedIsComplete, Waiting
  <2>6. Resumption' BY <1>3, <2>2, <2>3 DEF Resumption
  <2>7. QED BY <1>1, <1>3, <2>2, <2>3, <2>4, <2>5, <2>6, LaterTypes, GoesOn
<1>4. CASE /\ phase' = "crashed" /\ session' = ForgetSM /\ outcome' = outcome
           /\ resumable' = resumable /\ history' = history
  <2>1. Streams'
    BY <1>1, <1>2, <1>4, Forgotten
    DEF Streams, FeaturesCurrent, Before, Authenticating, Bound, Waiting
  <2>2. Completion'
    BY <1>1, <1>2, <1>4, Forgotten, Counted DEF Completion, EstablishedIsComplete, Waiting
  <2>3. Resumption' BY <1>4, Forgotten DEF Resumption
  <2>4. QED BY <1>1, <1>4, <2>1, <2>2, <2>3, Forgotten, LaterTypes, GoesOn
<1>5. ASSUME NEW cause \in {"loss", "answer"}, FailAs(session, "temporary", cause),
             resumable' = resumable, history' = history
      PROVE  IInv'
  BY <1>1, <1>5, LaterTypes, FailsLater
<1>6. ASSUME FailAs(ForgetSM, "temporary", "refused"), resumable' = resumable,
             history' = history
      PROVE  IInv'
  BY <1>1, <1>6, Forgotten, LaterTypes, FailsLater
<1>7. QED BY <1>3, <1>4, <1>5, <1>6 DEF Enable

(* The connection of an established session is lost.                       *)
LEMMA StepLose ==
  ASSUME IInv, Lose
  PROVE  IInv'
<1>1. /\ phase = "established" /\ phase' = "lost" /\ config' = config
      /\ resumable' = resumable /\ transport' = transport /\ wire' = wire /\ peer' = peer
      /\ session' = session /\ outcome' = outcome /\ history' = history
  BY DEF Lose
<1>2. Streams'
  BY <1>1 DEF IInv, Streams, FeaturesCurrent, Before, Authenticating, Bound, Waiting
<1>3. Completion' BY <1>1, Counted DEF Completion, EstablishedIsComplete, Waiting
<1>4. Resumption' BY <1>1 DEF IInv, Resumption
<1>5. QED BY <1>1, <1>2, <1>3, <1>4, LaterTypes, GoesOn

-----------------------------------------------------------------------------
(* A client that has not connected yet satisfies the invariant.            *)
LEMMA InitHolds == Init => IInv
<1> SUFFICES ASSUME Init PROVE IInv OBVIOUS
<1>1. /\ config \in Configs /\ resumable = config.resume
      /\ transport = [kind |-> "tcp", secure |-> FALSE]
      /\ wire = [encrypted |-> FALSE, streams |-> 0, conn |-> 0]
      /\ peer = NoPeer /\ session = NoSession
      /\ phase = "new" /\ outcome = NoOutcome
      /\ history = [auth |-> "none", running |-> 0, skipped |-> FALSE, opened |-> FALSE]
  BY DEF Init
<1>2. 0 \in 0 .. MaxConnects BY ConfigAssumption
<1>3. StateType
  <2>1. resumable \in BOOLEAN BY <1>1, ConfigAssumption
  <2>2. wire \in Wires BY <1>1, <1>2 DEF Wires
  <2>3. history \in Histories BY <1>1, <1>2 DEF Histories
  <2>4. phase \in Phases /\ outcome.grade \in Grades BY <1>1 DEF Phases, NoOutcome, Grades
  <2>5. session \in Sessions BY <1>1, NoSessionType
  <2>6. QED BY <1>1, <2>1, <2>2, <2>3, <2>4, <2>5 DEF StateType
<1>4. session.smId = 0 /\ wire.conn = 0 BY <1>1, NoSessionType
<1>5. Streams
  BY <1>1, <1>4 DEF Streams, FeaturesCurrent, Before, Authenticating, Bound, Waiting
<1>6. Encryption BY <1>1, <1>4 DEF Encryption, FirstAuthEncrypted, Before
<1>7. Completion BY <1>1, <1>4 DEF Completion, EstablishedIsComplete, Waiting
<1>8. Resumption BY <1>1, <1>4 DEF Resumption
<1>9. GradesFit /\ CheckerAgrees BY <1>1, <1>4 DEF GradesFit, CheckerAgrees
<1>10. QED BY <1>3, <1>5, <1>6, <1>7, <1>8, <1>9 DEF IInv

(* Every step keeps it.                                                    *)
LEMMA NextHolds == IInv /\ [Next]_vars => IInv'
<1> SUFFICES ASSUME IInv, [Next]_vars PROVE IInv' OBVIOUS
<1>1. CASE NewClient BY <1>1, StepNewClient
<1>2. CASE Connect BY <1>2, StepConnect
<1>3. CASE ReadFeatures BY <1>3, StepReadFeatures
<1>4. CASE StartTLS BY <1>4, StepStartTLS
<1>5. CASE RestartTLS BY <1>5, StepRestartTLS
<1>6. CASE ReadChallenge BY <1>6, StepReadChallenge
<1>7. CASE ReadOutcome BY <1>7, StepReadOutcome
<1>8. CASE RestartAuth BY <1>8, StepRestartAuth
<1>9. CASE Resume BY <1>9, StepResume
<1>10. CASE Bind BY <1>10, StepBind
<1>11. CASE OpenSession BY <1>11, StepOpenSession
<1>12. CASE Enable BY <1>12, StepEnable
<1>13. CASE Lose BY <1>13, StepLose
<1>14. CASE UNCHANGED vars
  <2>1. /\ config' = config /\ resumable' = resumable /\ transport' = transport
        /\ wire' = wire /\ peer' = peer /\ session' = session /\ phase' = phase
        /\ outcome' = outcome /\ history' = history
    BY <1>14 DEF vars
  <2>2. StateType' BY <2>1 DEF IInv, StateType
  <2>3. Streams'
    BY <2>1 DEF IInv, Streams, FeaturesCurrent
  <2>4. Encryption' BY <2>1 DEF IInv, Encryption, FirstAuthEncrypted
  <2>5. Completion' BY <2>1 DEF IInv, Completion, EstablishedIsComplete
  <2>6. Resumption' BY <2>1 DEF IInv, Resumption
  <2>7. GradesFit' BY <2>1 DEF IInv, GradesFit
  <2>8. CheckerAgrees' BY <2>1 DEF IInv, CheckerAgrees
  <2>9. QED BY <2>2, <2>3, <2>4, <2>5, <2>6, <2>7, <2>8 DEF IInv
<1>15. QED
  BY <1>1, <1>2, <1>3, <1>4, <1>5, <1>6, <1>7, <1>8, <1>9, <1>10, <1>11, <1>12, <1>13,
     <1>14
  DEF Next

(* The invariant holds in every reachable state.                           *)
THEOREM Invariance == Spec => []IInv
BY InitHolds, NextHolds, PTL DEF Spec

(* Without Insecure the first use of the secret on a transport that never  *)
(* spoke TLS is encrypted, whatever the server offers (NewSession).        *)
THEOREM AuthEncrypted == Spec => []FirstAuthEncrypted
<1>1. IInv => FirstAuthEncrypted BY DEF IInv, Encryption
<1>2. QED BY Invariance, <1>1, PTL

(* A refused authentication ends the attempts, and a connection lost once  *)
(* TLS is settled does so exactly when the loss is met by the write that   *)
(* opens a stream, whatever the server answers (authScram, authPlain,      *)
(* NewConnError, StartStream).                                             *)
THEOREM ErrorsGraded == Spec => []GradesFit
<1>1. IInv => GradesFit BY DEF IInv
<1>2. QED BY Invariance, <1>1, PTL

(* The client asks to resume the session it ran last, after any number of  *)
(* connections that failed anywhere (Session.resume).                      *)
THEOREM ResumptionFits == Spec => []ResumesRunning
<1>1. IInv => ResumesRunning BY DEF IInv, Completion, Resumption, ResumesRunning
<1>2. QED BY Invariance, <1>1, PTL

(* What is called a session lacks none of the steps it needs, and every    *)
(* step looked at the features of its own stream (NewSession).             *)
THEOREM SessionsComplete == Spec => []SessionIsComplete
<1>1. IInv => SessionIsComplete
  BY DEF IInv, StateType, Streams, Completion, Wires, Sessions, Phases,
         NegotiationTypeOK, SessionIsComplete
<1>2. QED BY Invariance, <1>1, PTL

(* The checker and the client agree on a server of any certificates        *)
(* (ServerCheck.Check, startTlsIfSupported).                               *)
THEOREM CheckerFits == Spec => []CheckerAgrees
<1>1. IInv => CheckerAgrees BY DEF IInv
<1>2. QED BY Invariance, <1>1, PTL

-----------------------------------------------------------------------------
(* A connection lost during the negotiation costs no stream management     *)
(* state (NewSession, connect).                                            *)
THEOREM LossKeeps == Spec => LossKeepsSession
<1> DEFINE Lost == /\ phase' = "failed" /\ outcome'.cause = "loss"
                   /\ outcome'.grade = "temporary" /\ phase # "resume"
<1>1. ASSUME IInv, [Next]_vars, Lost
      PROVE  session'.smId = session.smId
  <2>1. \A s, cause : ~FailAs(s, "permanent", cause) BY <1>1 DEF FailAs, Fail
  <2>2. \A s : ~BeginAuth(s)
    <3> SUFFICES ASSUME NEW s, BeginAuth(s) PROVE FALSE OBVIOUS
    <3>1. phase' = "failed" /\ outcome'.grade = "temporary" BY <1>1
    <3>2. QED BY <3>1, BeginAuthSteps
  <2>3. \A s : ~AfterTLS(s) BY <1>1, <2>2 DEF AfterTLS
  <2>4. \A cause : ~Refuse(cause) BY <2>1 DEF Refuse
  <2>5. /\ \A s, grade, cause : FailAs(s, grade, cause) => session' = s /\ cause = "loss"
        /\ StreamLost(session) => session' = session
        /\ \A f : ResumeUnsent(ResetWith(f)) => session'.smId = session.smId
    <3>1. /\ \A s, grade, cause : FailAs(s, grade, cause) => session' = s /\ cause = "loss"
          /\ StreamLost(session) => session' = session
      BY <1>1 DEF FailAs, Fail, StreamLost
    <3>2. session \in Sessions BY <1>1, LaterTypes
    <3>3. \A f : ResetWith(f).smId = session.smId BY <3>2 DEF ResetWith, Sessions
    <3>4. QED BY <3>1, <3>3 DEF ResumeUnsent
  <2>6. ~EnableOrEnd(session) /\ ~EnableOrEnd([session EXCEPT !.bound = wire.conn])
    BY <1>1 DEF EnableOrEnd
  <2>7. CASE NewClient \/ Lose BY <1>1, <2>7 DEF NewClient, Lose
  <2>8. CASE Connect BY <1>1, <2>5, <2>8 DEF Connect
  <2>9. CASE ReadFeatures BY <1>1, <2>3, <2>4, <2>9 DEF ReadFeatures
  <2>10. CASE StartTLS BY <1>1, <2>3, <2>4, <2>5, <2>10 DEF StartTLS
  <2>11. CASE RestartTLS BY <1>1, <2>2, <2>5, <2>11 DEF RestartTLS
  <2>12. CASE ReadChallenge \/ ReadOutcome
    <3>1. session' = session BY <1>1, <2>5, <2>12 DEF ReadChallenge, ReadOutcome
    <3>2. QED BY <3>1
  <2>13. CASE RestartAuth BY <1>1, <2>5, <2>13 DEF RestartAuth
  <2>14. CASE Resume BY <1>1, <2>14 DEF Resume
  <2>15. CASE Bind BY <1>1, <2>5, <2>6, <2>15 DEF Bind
  <2>16. CASE OpenSession BY <1>1, <2>5, <2>6, <2>16 DEF OpenSession
  <2>17. CASE Enable
    <3>1. phase' = "failed" BY <1>1
    <3>2. ~FailAs(ForgetSM, "temporary", "refused") BY <2>5
    <3>3. session' = session BY <2>5, <2>17, <3>1, <3>2 DEF Enable
    <3>4. QED BY <3>3
  <2>18. CASE UNCHANGED vars BY <2>18 DEF vars
  <2>19. QED BY <1>1, <2>7, <2>8, <2>9, <2>10, <2>11, <2>12, <2>13, <2>14, <2>15, <2>16,
                <2>17, <2>18 DEF Next
<1>2. IInv /\ [Next]_vars => [Lost => session'.smId = session.smId]_vars BY <1>1
<1>3. QED BY <1>2, Invariance, PTL DEF Spec, LossKeepsSession

-----------------------------------------------------------------------------
(* What a SCRAM exchange that succeeds has settled.                        *)
HashOf(offer) == Hash(DowngradeString(offer.spelled, offer.cb, offer.bindings))

(* The hash that the server computed is that of what the client saw, if    *)
(* the server signed for it.                                               *)
HashesAgree ==
  /\ phase = "restartAuth" /\ scram.signed /\ scram.offer # NoOffer
  => /\ HashOf(session.features) = HashOf(scram.offer)
     /\ NamesAreValid(session.features.spelled, session.features.bindings)

(* The exchange in progress: what was sent, and what was checked on it.    *)
Exchange ==
  /\ scram = [sent |-> scram.sent, read |-> scram.read,
              secret |-> scram.secret, offer |-> scram.offer, signed |-> scram.signed]
  /\ scram.signed => scram.read # <<>>
  /\ scram.offer # NoOffer =>
       scram.read # <<>> /\ Field(scram.sent, "h") = HashOf(scram.offer)
  /\ /\ phase \in {"outcome", "restartAuth"}
     /\ scram.read # <<>> /\ Field(scram.read, "h") # <<>>
     => VerifyDowngradeHash(Field(scram.read, "h"), session.features)
  /\ ServerVerified

(* The only field of a message of one part.                                *)
LEMMA OneField ==
  ASSUME NEW part, NEW name
  PROVE  Field(<<part>>, name) = IF part[1] = name THEN part[2] ELSE <<>>
<1> DEFINE I == {i \in 1 .. Len(<<part>>) : <<part>>[i][1] = name}
<1>1. I = IF part[1] = name THEN {1} ELSE {}
  <2>1. Len(<<part>>) = 1 /\ <<part>>[1] = part OBVIOUS
  <2>2. 1 .. 1 = {1} OBVIOUS
  <2>3. QED BY <2>1, <2>2
<1>2. Field(<<part>>, name) = LET i == IF I # {} THEN Min(I) ELSE 0
                              IN IF i = 0 THEN <<>> ELSE <<part>>[i][2]
  BY DEF Field, SelectInSeq
<1>3. Min({1}) = 1 BY DEF Min
<1> HIDE DEF I
<1>4. QED BY <1>1, <1>2, <1>3

(* The last field of the server's first message.                           *)
LEMMA LastField ==
  ASSUME NEW a, NEW b, NEW c, NEW d, NEW name,
         a[1] # name, b[1] # name, c[1] # name, d[1] = name
  PROVE  Field(<<a, b, c>> \o <<d>>, name) = d[2]
<1> DEFINE m == <<a, b, c>> \o <<d>>
           I == {i \in 1 .. Len(m) : m[i][1] = name}
<1>1. I = {4}
  <2>1. Len(m) = 4 /\ m[1] = a /\ m[2] = b /\ m[3] = c /\ m[4] = d
    <3>1. <<a, b, c>> \in Seq({a, b, c, d}) /\ <<d>> \in Seq({a, b, c, d}) OBVIOUS
    <3>2. QED BY <3>1
  <2>2. 1 .. 4 = {1, 2, 3, 4} OBVIOUS
  <2>3. QED BY <2>1, <2>2
<1>2. Field(m, name) = LET i == IF I # {} THEN Min(I) ELSE 0
                       IN IF i = 0 THEN <<>> ELSE m[i][2]
  BY DEF Field, SelectInSeq
<1>3. Min({4}) = 4 BY DEF Min
<1>4. m[4] = d BY <<a, b, c>> \in Seq({a, b, c, d}), <<d>> \in Seq({a, b, c, d})
<1> HIDE DEF I, m
<1>5. Field(m, name) = d[2] BY <1>1, <1>2, <1>3, <1>4
<1>6. QED BY <1>5 DEF m

(* The hash that a server sends is that of what it offered.                *)
LEMMA HashSent ==
  ASSUME NEW first \in ServerFirsts, first.offer # NoOffer
  PROVE  Field(first.message, "h") = HashOf(first.offer)
<1> DEFINE r == <<"r", Nonce \o <<8>>>>
           salt == <<"s", <<1>>>>
           i == <<"i", <<Minimum>>>>
<1>1. PICK o \in Offers, hashed \in BOOLEAN : first = ServerFirst(o, hashed)
  BY DEF ServerFirsts
<1>2. hashed BY <1>1 DEF ServerFirst
<1> DEFINE h == <<"h", Hash(DowngradeString(o.spelled, o.cb, o.bindings))>>
<1>3. first.offer = o /\ first.message = <<r, salt, i>> \o <<h>>
  BY <1>1, <1>2 DEF ServerFirst
<1>4. /\ r[1] # "h" /\ salt[1] # "h" /\ i[1] # "h" /\ h[1] = "h"
      /\ h[2] = HashOf(first.offer)
  BY <1>3 DEF HashOf
<1> HIDE DEF r, salt, i, h
<1>5. QED BY <1>3, <1>4, LastField

(* A challenge that the client answers was read and checked.               *)
LEMMA Continued ==
  ASSUME NEW reply, NEW offer, ChallengeGrade(reply, Nonce, offer) = "continue"
  PROVE  /\ reply.message # <<>>
         /\ Field(reply.message, "h") # <<>> =>
              VerifyDowngradeHash(Field(reply.message, "h"), offer)
<1>1. ~ParseFails(reply.message) BY DEF ChallengeGrade
<1>2. ~(/\ Field(reply.message, "h") # <<>>
        /\ ~VerifyDowngradeHash(Field(reply.message, "h"), offer))
  BY DEF ChallengeGrade
<1>3. QED BY <1>1, <1>2 DEF ParseFails

(* A signature that the client accepts is that of what it read.            *)
LEMMA Signed ==
  ASSUME NEW secret, NEW known, NEW sent, NEW read, NEW reply,
         FinalGrade(reply, secret, read) = "ok", reply.message # <<>>,
         reply.message \in {<< <<"v", Verifier(known, sent)>> >>, << <<"e", << 1 >>>> >>,
                            << <<"v">> >>, << <<"x", << 1 >>>> >>}
  PROVE  known = secret /\ sent = read
<1>1. ~ParseFails(reply.message) /\ Field(reply.message, "v") = Verifier(secret, read)
  BY DEF FinalGrade
<1>2. Verifier(secret, read) # <<>> BY DEF Verifier
<1>3. CASE reply.message = << <<"v", Verifier(known, sent)>> >>
  <2> DEFINE v == <<"v", Verifier(known, sent)>>
  <2>1. v[1] = "v" /\ v[2] = Verifier(known, sent) OBVIOUS
  <2>2. Field(<<v>>, "v") = v[2]
    <3> HIDE DEF v
    <3>1. QED BY <2>1, OneField
  <2>3. Verifier(known, sent) = Verifier(secret, read) BY <1>1, <1>3, <2>1, <2>2
  <2>4. QED BY <2>3 DEF Verifier
<1>4. CASE reply.message = << <<"v">> >>
  <2>1. 1 \in DOMAIN reply.message /\ Len(reply.message[1]) = 1 BY <1>4
  <2>2. QED BY <1>1, <2>1 DEF ParseFails
<1>5. ASSUME NEW part, part[1] # "v", reply.message = <<part>> PROVE FALSE
  BY <1>1, <1>2, <1>5, OneField
<1>6. CASE reply.message = << <<"e", << 1 >>>> >>
  <2> DEFINE e == <<"e", << 1 >>>>
  <2>1. e[1] # "v" OBVIOUS
  <2>2. reply.message = <<e>> BY <1>6
  <2> HIDE DEF e
  <2>3. QED BY <1>5, <2>1, <2>2
<1>7. CASE reply.message = << <<"x", << 1 >>>> >>
  <2> DEFINE x == <<"x", << 1 >>>>
  <2>1. x[1] # "v" OBVIOUS
  <2>2. reply.message = <<x>> BY <1>7
  <2> HIDE DEF x
  <2>3. QED BY <1>5, <2>1, <2>2
<1>8. QED BY <1>3, <1>4, <1>6, <1>7

(* No exchange is in progress.                                             *)
LEMMA NoneExchanged ==
  ASSUME scram' = NoExchange
  PROVE  Exchange'
<1>1. /\ scram'.read = <<>> /\ scram'.offer = NoOffer /\ scram'.sent = <<>>
      /\ scram'.secret = 0 /\ scram'.signed = FALSE
  BY DEF NoExchange
<1>2. scram' = [sent |-> scram'.sent, read |-> scram'.read, secret |-> scram'.secret,
                offer |-> scram'.offer, signed |-> scram'.signed]
  BY DEF NoExchange
<1>3. QED BY <1>1, <1>2 DEF Exchange, ServerVerified

(* The exchange is over.                                                   *)
LEMMA ExchangeEnds ==
  ASSUME Exchange, scram' = scram, phase' \notin {"outcome", "restartAuth"}
  PROVE  Exchange'
BY DEF Exchange, ServerVerified

(* ReadChallenge records what was sent, read and checked.                  *)
LEMMA ChallengeExchanged ==
  ASSUME Exchange, ReadChallenge
  PROVE  Exchange'
<1>1. ASSUME NEW first \in ServerFirsts, NEW reply,
             ChallengeGrade(reply, Nonce, session.features) = "continue",
             phase' = "outcome", session' = session,
             scram' = [NoExchange EXCEPT !.sent = first.message, !.read = reply.message,
                                         !.offer = first.offer]
      PROVE  Exchange'
  <2>1. scram' = [sent |-> first.message, read |-> reply.message, secret |-> 0,
                  offer |-> first.offer, signed |-> FALSE]
    BY <1>1 DEF NoExchange
  <2>2. /\ scram'.sent = first.message /\ scram'.read = reply.message
        /\ scram'.secret = 0 /\ scram'.offer = first.offer /\ scram'.signed = FALSE
    BY <2>1
  <2>3. /\ reply.message # <<>>
        /\ Field(reply.message, "h") # <<>> =>
             VerifyDowngradeHash(Field(reply.message, "h"), session.features)
    BY <1>1, Continued
  <2>4. first.offer # NoOffer => Field(first.message, "h") = HashOf(first.offer)
    BY <1>1, HashSent
  <2>5. QED BY <1>1, <2>1, <2>2, <2>3, <2>4 DEF Exchange, ServerVerified
<1>2. CASE scram' = scram /\ phase' = "failed" BY <1>2, ExchangeEnds
<1>3. QED BY <1>1, <1>2 DEF ReadChallenge, FailAs, Fail

(* ReadOutcome accepts a signature of what was sent, or none.              *)
LEMMA OutcomeExchanged ==
  ASSUME Exchange, ReadOutcome
  PROVE  Exchange'
<1> DEFINE Messages(secret) ==
             IF scram.read # <<>>
             THEN {<< <<"v", Verifier(secret, scram.sent)>> >>, << <<"e", <<1>>>> >>,
                   << <<"v">> >>, << <<"x", <<1>>>> >>}
             ELSE {<<>>}
           Grade(reply) ==
             IF scram.read # <<>> THEN FinalGrade(reply, config.secret, scram.read)
                                  ELSE PlainGrade(reply)
<1>1. \/ scram' = scram /\ phase' = "failed"
      \/ \E secret \in {1, 2} : \E reply :
           /\ phase' = "restartAuth" /\ session' = session
           /\ scram' = [scram EXCEPT !.secret = secret, !.signed = reply.message # <<>>]
           /\ reply.message \in Messages(secret) \cup {<<>>}
           /\ scram.read # <<>> => FinalGrade(reply, config.secret, scram.read) = "ok"
  <2> DEFINE Replies(secret) == Silences \cup [kind : {"success"}, base64 : BOOLEAN,
                                              message : Messages(secret)]
             Ends(secret, reply) ==
               IF Grade(reply) = "ok"
               THEN /\ phase' = "restartAuth"
                    /\ scram' = [scram EXCEPT !.secret = secret, !.signed = reply.message # <<>>]
                    /\ UNCHANGED <<session, outcome>>
               ELSE FailAs(session, Grade(reply), CauseOf(reply.kind)) /\ UNCHANGED scram
  <2>1. \E secret \in {1, 2} : \E reply \in Replies(secret) : Ends(secret, reply)
    BY Zenon DEF ReadOutcome
  <2>2. PICK secret \in {1, 2} : \E reply \in Replies(secret) : Ends(secret, reply)
    BY <2>1
  <2>3. PICK reply \in Replies(secret) : Ends(secret, reply) BY <2>2
  <2>4. reply.message \in Messages(secret) \cup {<<>>}
    <3> HIDE DEF Messages, Ends
    <3>1. CASE reply \in Silences BY <3>1 DEF Silences, Silent
    <3>2. CASE reply \notin Silences BY <2>3, <3>2
    <3>3. QED BY <3>1, <3>2
  <2>5. CASE Grade(reply) = "ok"
    <3>1. scram.read # <<>> => FinalGrade(reply, config.secret, scram.read) = "ok"
      BY <2>5
    <3> HIDE DEF Grade, Messages, Replies
    <3>2. QED BY <2>3, <2>4, <2>5, <3>1
  <2>6. CASE Grade(reply) # "ok"
    <3> HIDE DEF Grade, Messages, Replies
    <3>1. QED BY <2>3, <2>6 DEF FailAs, Fail
  <2>7. QED BY <2>5, <2>6
<1>2. ASSUME NEW secret \in {1, 2}, NEW reply,
             phase' = "restartAuth", session' = session,
             scram' = [scram EXCEPT !.secret = secret, !.signed = reply.message # <<>>],
             reply.message \in Messages(secret) \cup {<<>>},
             scram.read # <<>> => FinalGrade(reply, config.secret, scram.read) = "ok"
      PROVE  Exchange'
  <2>1. reply.message # <<>> => scram.read # <<>> BY <1>2
  <2>2. reply.message # <<>> => secret = config.secret /\ scram.sent = scram.read
    BY <1>2, <2>1, Signed
  <2>3. scram = [sent |-> scram.sent, read |-> scram.read, secret |-> scram.secret,
                 offer |-> scram.offer, signed |-> scram.signed]
    BY DEF Exchange
  <2>4. scram' = [sent |-> scram.sent, read |-> scram.read, secret |-> secret,
                  offer |-> scram.offer, signed |-> reply.message # <<>>]
    BY <1>2, <2>3
  <2>5. /\ scram'.sent = scram.sent /\ scram'.read = scram.read
        /\ scram'.secret = secret /\ scram'.offer = scram.offer
        /\ scram'.signed <=> reply.message # <<>>
    BY <2>4
  <2>6. phase = "outcome" /\ config' = config BY DEF ReadOutcome
  <2>7. QED BY <1>2, <2>1, <2>2, <2>4, <2>5, <2>6 DEF Exchange, ServerVerified
<1>3. QED BY <1>1, <1>2, ExchangeEnds

(* The exchange of every connection is checked.                            *)
THEOREM ExchangeInvariance == Spec => []Exchange
<1>1. Init => Exchange
  BY DEF Init, Exchange, ServerVerified, NoExchange
<1>2. Exchange /\ [Next]_vars => Exchange'
  <2> SUFFICES ASSUME Exchange, [Next]_vars PROVE Exchange' OBVIOUS
  <2>1. CASE NewClient
    <3>1. scram' = scram /\ phase' \in {"refused", "ready"} BY <2>1 DEF NewClient
    <3>2. QED BY <3>1, ExchangeEnds
  <2>2. CASE Connect \/ RestartAuth
    <3>1. scram' = NoExchange BY <2>2 DEF Connect, RestartAuth
    <3>2. QED BY <3>1, NoneExchanged
  <2>3. ASSUME NEW s, BeginAuth(s) PROVE Exchange'
    <3>1. scram' = NoExchange \/ (scram' = scram /\ phase' = "failed")
      BY <2>3 DEF BeginAuth, FailAs, Fail
    <3>2. QED BY <3>1, NoneExchanged, ExchangeEnds
  <2>4. ASSUME NEW s, AfterTLS(s) PROVE Exchange'
    <3>1. CASE scram' = scram /\ phase' = "restartTLS" BY <3>1, ExchangeEnds
    <3>2. QED BY <2>3, <2>4, <3>1 DEF AfterTLS
  <2>5. ASSUME scram' = scram, NEW s, NEW grade, NEW cause, FailAs(s, grade, cause)
        PROVE  Exchange'
    BY <2>5, ExchangeEnds DEF FailAs, Fail
  <2>6. ASSUME NEW cause, Refuse(cause) PROVE Exchange' BY <2>5, <2>6 DEF Refuse
  <2>7. CASE ReadFeatures
    <3>1. CASE phase' = "proceed" /\ scram' = scram BY <3>1, ExchangeEnds
    <3>2. QED BY <2>4, <2>6, <2>7, <3>1 DEF ReadFeatures
  <2>8. CASE StartTLS BY <2>4, <2>5, <2>6, <2>8 DEF StartTLS
  <2>9. CASE RestartTLS
    <3>1. CASE StreamLost(session) /\ scram' = scram
      BY <3>1, ExchangeEnds DEF StreamLost, Fail
    <3>2. QED BY <2>3, <2>9, <3>1 DEF RestartTLS
  <2>10. CASE ReadChallenge BY <2>10, ChallengeExchanged
  <2>11. CASE ReadOutcome BY <2>11, OutcomeExchanged
  <2>12. CASE Resume \/ Bind \/ OpenSession \/ Enable \/ Lose
    <3>1. scram' = scram BY <2>12 DEF Resume, Bind, OpenSession, Enable, Lose
    <3>2. phase' \notin {"outcome", "restartAuth"}
      BY <2>12 DEF Resume, Bind, OpenSession, Enable, Lose, EnableOrEnd, FailAs, Fail
    <3>3. QED BY <3>1, <3>2, ExchangeEnds
  <2>13. CASE UNCHANGED vars BY <2>13 DEF vars, Exchange, ServerVerified
  <2>14. QED
    BY <2>1, <2>2, <2>7, <2>8, <2>9, <2>10, <2>11, <2>12, <2>13 DEF Next
<1>3. QED BY <1>1, <1>2, PTL DEF Spec

(* A server that closes a SCRAM exchange with a signature knows the        *)
(* password and sent the challenge that the client read; an empty success  *)
(* shows neither (authScram).                                              *)
THEOREM ServerKnows == Spec => []ServerVerified
<1>1. Exchange => ServerVerified BY DEF Exchange
<1>2. QED BY ExchangeInvariance, <1>1, PTL

(* When such a server sent the hash of what it offered, the client has     *)
(* checked it against what it saw: no one on the way can take it out of    *)
(* the signed message (verifySCRAMDowngradeHash, authScram).               *)
THEOREM HashesMatch == Spec => []HashesAgree
<1>1. HashOf(scram.offer) # <<>> BY DEF HashOf, Hash
<1>2. Exchange => HashesAgree
  BY <1>1 DEF Exchange, HashesAgree, ServerVerified, VerifyDowngradeHash, HashOf
<1>3. QED BY ExchangeInvariance, <1>2, PTL

-----------------------------------------------------------------------------
(* Addresses and jids: what NewClient makes of any texts.                  *)

(* Min and Max, of indices.                                                 *)
LEMMA MinIs ==
  ASSUME NEW I \in SUBSET Nat, I # {}
  PROVE  Min(I) \in I /\ \A y \in I : Min(I) <= y
<1> DEFINE R == OpToRel(<, Nat)
<1>1. IsWellFoundedOn(R, Nat) BY NatLessThanWellFounded
<1>2. \A m, n \in Nat : m < n => <<m, n>> \in R BY DEF OpToRel
<1> HIDE DEF R
<1>3. PICK n \in I : \A m \in I : ~(<<m, n>> \in R) BY <1>1, WFMin
<1>4. ASSUME NEW m \in I PROVE n <= m
  <2>1. ~(<<m, n>> \in R) /\ m \in Nat /\ n \in Nat BY <1>3
  <2>2. ~(m < n) BY <1>2, <2>1
  <2>3. QED BY <2>1, <2>2
<1>5. Min(I) = CHOOSE x \in I : \A y \in I : x <= y BY DEF Min
<1>6. QED BY <1>3, <1>4, <1>5, Zenon

LEMMA MaxIs ==
  ASSUME NEW n \in Nat, NEW I \in SUBSET (0 .. n), I # {}
  PROVE  Max(I) \in I /\ \A y \in I : y <= Max(I)
<1> DEFINE J == {n - i : i \in I}
<1>1. J \in SUBSET Nat /\ J # {}
  <2>1. ASSUME NEW i \in I PROVE n - i \in Nat
    <3>1. i \in 0 .. n OBVIOUS
    <3>2. QED BY <3>1
  <2>2. J \subseteq Nat BY <2>1
  <2>3. PICK i \in I : TRUE OBVIOUS
  <2>4. n - i \in J OBVIOUS
  <2>5. QED BY <2>2, <2>4
<1>2. Min(J) \in J /\ \A y \in J : Min(J) <= y BY <1>1, MinIs
<1>3. PICK x \in I : Min(J) = n - x BY <1>2
<1>4. \A y \in I : n - x <= n - y BY <1>2, <1>3
<1>5. x \in Nat /\ \A y \in I : y \in Nat OBVIOUS
<1>6. \A y \in I : x >= y BY <1>4, <1>5
<1>7. Max(I) = CHOOSE z \in I : \A y \in I : z >= y BY DEF Max
<1>8. Max(I) \in I /\ \A y \in I : Max(I) >= y BY <1>6, <1>7, Zenon
<1>9. QED BY <1>5, <1>8

(* A text holds a character.                                                *)
Has(s, c) == \E i \in 1 .. Len(s) : s[i] = c

(* strings.Index and strings.LastIndex, with 0 for an absent character.     *)
LEMMA FirstAtIs ==
  ASSUME NEW s \in Seq(Nat), NEW c
  PROVE  /\ FirstAt(s, c) \in 0 .. Len(s)
         /\ FirstAt(s, c) = 0 <=> ~Has(s, c)
         /\ FirstAt(s, c) # 0 =>
              /\ s[FirstAt(s, c)] = c
              /\ \A i \in 1 .. Len(s) : s[i] = c => FirstAt(s, c) <= i
<1> DEFINE I == {i \in 1 .. Len(s) : s[i] = c}
<1>1. FirstAt(s, c) = IF I # {} THEN Min(I) ELSE 0 BY DEF FirstAt, SelectInSeq
<1>2. I \in SUBSET Nat /\ Len(s) \in Nat OBVIOUS
<1>3. I # {} <=> Has(s, c) BY DEF Has
<1>4. CASE I = {} BY <1>1, <1>2, <1>3, <1>4
<1>5. CASE I # {}
  <2>1. Min(I) \in I /\ \A y \in I : Min(I) <= y BY <1>2, <1>5, MinIs
  <2>2. QED BY <1>1, <1>2, <1>3, <1>5, <2>1
<1>6. QED BY <1>4, <1>5

LEMMA LastAtIs ==
  ASSUME NEW s \in Seq(Nat), NEW c
  PROVE  /\ LastAt(s, c) \in 0 .. Len(s)
         /\ LastAt(s, c) = 0 <=> ~Has(s, c)
         /\ LastAt(s, c) # 0 => s[LastAt(s, c)] = c
         /\ \A i \in 1 .. Len(s) : s[i] = c => i <= LastAt(s, c)
<1> DEFINE I == {i \in 1 .. Len(s) : s[i] = c}
<1>1. LastAt(s, c) = IF I # {} THEN Max(I) ELSE 0 BY DEF LastAt, SelectLastInSeq
<1>2. I \in SUBSET (0 .. Len(s)) /\ Len(s) \in Nat OBVIOUS
<1>3. I # {} <=> Has(s, c) BY DEF Has
<1>4. CASE I = {} BY <1>1, <1>2, <1>3, <1>4
<1>5. CASE I # {}
  <2>1. Max(I) \in I /\ \A y \in I : y <= Max(I) BY <1>2, <1>5, MaxIs
  <2>2. QED BY <1>1, <1>2, <1>3, <1>5, <2>1
<1>6. QED BY <1>4, <1>5

(* The characters of two texts in a row.                                    *)
LEMMA HasIn ==
  ASSUME NEW a \in Seq(Nat), NEW b \in Seq(Nat), NEW c
  PROVE  Has(a \o b, c) <=> Has(a, c) \/ Has(b, c)
<1>1. /\ a \o b \in Seq(Nat) /\ Len(a \o b) = Len(a) + Len(b)
      /\ Len(a) \in Nat /\ Len(b) \in Nat
      /\ \A i \in 1 .. Len(a) + Len(b) : (a \o b)[i] = IF i <= Len(a) THEN a[i] ELSE b[i - Len(a)]
  BY ConcatProperties
<1>2. ASSUME Has(a \o b, c) PROVE Has(a, c) \/ Has(b, c)
  <2>1. PICK i \in 1 .. Len(a \o b) : (a \o b)[i] = c BY <1>2 DEF Has
  <2>2. CASE i <= Len(a)
    <3>1. i \in 1 .. Len(a) /\ a[i] = c BY <1>1, <2>1, <2>2
    <3>2. QED BY <3>1 DEF Has
  <2>3. CASE ~(i <= Len(a))
    <3>1. i - Len(a) \in 1 .. Len(b) /\ b[i - Len(a)] = c BY <1>1, <2>1, <2>3
    <3>2. QED BY <3>1 DEF Has
  <2>4. QED BY <2>2, <2>3
<1>3. ASSUME Has(a, c) PROVE Has(a \o b, c)
  <2>1. PICK i \in 1 .. Len(a) : a[i] = c BY <1>3 DEF Has
  <2>2. i \in 1 .. Len(a \o b) /\ (a \o b)[i] = c BY <1>1, <2>1
  <2>3. QED BY <2>2 DEF Has
<1>4. ASSUME Has(b, c) PROVE Has(a \o b, c)
  <2>1. PICK i \in 1 .. Len(b) : b[i] = c BY <1>4 DEF Has
  <2>2. Len(a) + i \in 1 .. Len(a \o b) /\ (a \o b)[Len(a) + i] = c BY <1>1, <2>1
  <2>3. QED BY <2>2 DEF Has
<1>5. QED BY <1>2, <1>3, <1>4

(* Two texts with a character between them.                                 *)
LEMMA JoinedIs ==
  ASSUME NEW a \in Seq(Nat), NEW b \in Seq(Nat), NEW c \in Nat
  PROVE  LET s == a \o <<c>> \o b IN
         /\ s \in Seq(Nat) /\ Len(s) = Len(a) + 1 + Len(b)
         /\ Len(a) \in Nat /\ Len(b) \in Nat
         /\ \A i \in 1 .. Len(a) : s[i] = a[i]
         /\ s[Len(a) + 1] = c
         /\ \A i \in 1 .. Len(b) : s[Len(a) + 1 + i] = b[i]
<1> DEFINE u == a \o <<c>>
<1>1. <<c>> \in Seq(Nat) /\ Len(<<c>>) = 1 /\ << c >>[1] = c OBVIOUS
<1>2. /\ u \in Seq(Nat) /\ Len(u) = Len(a) + 1 /\ Len(a) \in Nat /\ Len(b) \in Nat
      /\ u[Len(a) + 1] = c /\ \A i \in 1 .. Len(a) : u[i] = a[i]
  OBVIOUS
<1> HIDE DEF u
<1>3. /\ u \o b \in Seq(Nat) /\ Len(u \o b) = Len(u) + Len(b)
      /\ \A i \in 1 .. Len(u) : (u \o b)[i] = u[i]
      /\ \A i \in 1 .. Len(b) : (u \o b)[Len(u) + i] = b[i]
  <2>1. /\ u \o b \in Seq(Nat) /\ Len(u \o b) = Len(u) + Len(b)
        /\ \A i \in 1 .. Len(u) + Len(b) :
             (u \o b)[i] = IF i <= Len(u) THEN u[i] ELSE b[i - Len(u)]
    BY <1>2, ConcatProperties
  <2>2. ASSUME NEW i \in 1 .. Len(u) PROVE (u \o b)[i] = u[i]
    <3>1. i \in 1 .. Len(u) + Len(b) /\ i <= Len(u) BY <1>2
    <3>2. QED BY <2>1, <3>1
  <2>3. ASSUME NEW i \in 1 .. Len(b) PROVE (u \o b)[Len(u) + i] = b[i]
    <3>1. /\ Len(u) + i \in 1 .. Len(u) + Len(b) /\ ~(Len(u) + i <= Len(u))
          /\ (Len(u) + i) - Len(u) = i
      BY <1>2
    <3>2. QED BY <2>1, <3>1
  <2>4. QED BY <2>1, <2>2, <2>3
<1>4. a \o <<c>> \o b = u \o b BY DEF u
<1> DEFINE s == u \o b
<1> HIDE DEF s
<1>5. /\ s \in Seq(Nat) /\ Len(s) = Len(a) + 1 + Len(b)
      /\ \A i \in 1 .. Len(a) + 1 : s[i] = u[i]
      /\ \A i \in 1 .. Len(b) : s[Len(a) + 1 + i] = b[i]
  BY <1>2, <1>3 DEF s
<1>6. s[Len(a) + 1] = c /\ \A i \in 1 .. Len(a) : s[i] = a[i]
  BY <1>2, <1>5
<1>7. QED BY <1>2, <1>4, <1>5, <1>6 DEF s

(* What follows a position of a text.                                       *)
LEMMA AfterIs ==
  ASSUME NEW s \in Seq(Nat), NEW k \in Nat, k > 0, k <= Len(s) + 1
  PROVE  /\ SubSeq(s, k, Len(s)) \in Seq(Nat)
         /\ Len(SubSeq(s, k, Len(s))) = Len(s) - k + 1
         /\ \A i \in 1 .. Len(s) - k + 1 : SubSeq(s, k, Len(s))[i] = s[k - 1 + i]
OBVIOUS

(* SplitOnce takes two texts apart at the character that joins them, when   *)
(* the first one does not hold it.                                          *)
LEMMA SplitJoined ==
  ASSUME NEW a \in Seq(Nat), NEW b \in Seq(Nat), NEW c \in Nat, ~Has(a, c)
  PROVE  SplitOnce(a \o <<c>> \o b, c) = <<a, b>>
<1> DEFINE s == a \o <<c>> \o b
<1>1. /\ s \in Seq(Nat) /\ Len(s) = Len(a) + 1 + Len(b)
      /\ Len(a) \in Nat /\ Len(b) \in Nat
      /\ \A i \in 1 .. Len(a) : s[i] = a[i]
      /\ s[Len(a) + 1] = c
      /\ \A i \in 1 .. Len(b) : s[Len(a) + 1 + i] = b[i]
  BY JoinedIs
<1> HIDE DEF s
<1>2. FirstAt(s, c) = Len(a) + 1
  <2>1. Len(a) + 1 \in 1 .. Len(s) BY <1>1
  <2>2. Has(s, c) BY <1>1, <2>1 DEF Has
  <2>3. FirstAt(s, c) \in 1 .. Len(a) + 1 /\ s[FirstAt(s, c)] = c
    <3>1. /\ FirstAt(s, c) \in 0 .. Len(s) /\ FirstAt(s, c) # 0
          /\ s[FirstAt(s, c)] = c
          /\ \A i \in 1 .. Len(s) : s[i] = c => FirstAt(s, c) <= i
      BY <1>1, <2>2, FirstAtIs
    <3>2. FirstAt(s, c) <= Len(a) + 1 BY <1>1, <2>1, <3>1
    <3>3. QED BY <1>1, <3>1, <3>2
  <2>4. \A i \in 1 .. Len(a) : s[i] # c BY <1>1 DEF Has
  <2>5. QED BY <1>1, <2>3, <2>4
<1>3. SplitOnce(s, c) = <<SubSeq(s, 1, Len(a)), SubSeq(s, Len(a) + 2, Len(s))>>
  <2>1. /\ FirstAt(s, c) # 0 /\ FirstAt(s, c) - 1 = Len(a)
        /\ FirstAt(s, c) + 1 = Len(a) + 2
    BY <1>1, <1>2
  <2>2. QED BY <2>1 DEF SplitOnce
<1>4. SubSeq(s, 1, Len(a)) = a
  <2> DEFINE x == SubSeq(s, 1, Len(a))
  <2>1. x \in Seq(Nat) /\ Len(x) = Len(a) /\ \A i \in 1 .. Len(a) : x[i] = s[i]
    BY <1>1
  <2> HIDE DEF x
  <2>2. x = a BY <1>1, <2>1, SeqEqual
  <2>3. QED BY <2>2 DEF x
<1>5. SubSeq(s, Len(a) + 2, Len(s)) = b
  <2> DEFINE x == SubSeq(s, Len(a) + 2, Len(s))
  <2>1. /\ x \in Seq(Nat) /\ Len(x) = Len(b)
        /\ \A i \in 1 .. Len(b) : x[i] = s[Len(a) + 1 + i]
    <3> DEFINE k == Len(a) + 2
    <3>1. k \in Nat /\ k > 0 /\ k <= Len(s) + 1 /\ Len(s) \in Nat BY <1>1
    <3>2. /\ x \in Seq(Nat) /\ Len(x) = Len(s) - k + 1
          /\ \A i \in 1 .. Len(s) - k + 1 : x[i] = s[k - 1 + i]
      BY <1>1, <3>1, AfterIs
    <3>3. Len(s) - k + 1 = Len(b) /\ k - 1 = Len(a) + 1 BY <1>1
    <3> HIDE DEF k, x
    <3>4. QED BY <3>2, <3>3
  <2> HIDE DEF x
  <2>2. x = b BY <1>1, <2>1, SeqEqual
  <2>3. QED BY <2>2 DEF x
<1>6. QED BY <1>3, <1>4, <1>5 DEF s

(* It leaves a text without the character in one piece.                     *)
LEMMA SplitWhole ==
  ASSUME NEW a \in Seq(Nat), NEW c, ~Has(a, c)
  PROVE  SplitOnce(a, c) = <<a>>
BY FirstAtIs DEF SplitOnce

(* And its pieces hold no character that the text did not.                  *)
LEMMA SplitParts ==
  ASSUME NEW s \in Seq(Nat), NEW c
  PROVE  \/ ~Has(s, c) /\ SplitOnce(s, c) = <<s>>
         \/ \E a \in Seq(Nat), b \in Seq(Nat) :
              /\ SplitOnce(s, c) = <<a, b>> /\ ~Has(a, c)
              /\ \A x : ~Has(s, x) => ~Has(a, x) /\ ~Has(b, x)
<1> DEFINE k == FirstAt(s, c)
<1>1. /\ k \in 0 .. Len(s) /\ Len(s) \in Nat
      /\ k = 0 <=> ~Has(s, c)
      /\ k # 0 => s[k] = c /\ \A i \in 1 .. Len(s) : s[i] = c => k <= i
  BY FirstAtIs
<1>2. CASE k = 0 BY <1>1, <1>2 DEF SplitOnce
<1>3. CASE k # 0
  <2> DEFINE a == SubSeq(s, 1, k - 1)
             b == SubSeq(s, k + 1, Len(s))
  <2>1. SplitOnce(s, c) = <<a, b>> BY <1>3 DEF SplitOnce
  <2> HIDE DEF k
  <2>2. /\ a \in Seq(Nat) /\ Len(a) = k - 1 /\ \A i \in 1 .. k - 1 : a[i] = s[i]
    BY <1>1, <1>3
  <2>3. /\ b \in Seq(Nat) /\ Len(b) = Len(s) - k
        /\ \A i \in 1 .. Len(s) - k : b[i] = s[k + i]
    BY <1>1, <1>3
  <2> HIDE DEF a, b
  <2>4. ~Has(a, c)
    <3> SUFFICES ASSUME NEW i \in 1 .. Len(a), a[i] = c PROVE FALSE BY DEF Has
    <3>1. i \in 1 .. k - 1 /\ i \in 1 .. Len(s) /\ s[i] = c BY <1>1, <1>3, <2>2
    <3>2. QED BY <1>1, <1>3, <3>1
  <2>5. ASSUME NEW x, ~Has(s, x) PROVE ~Has(a, x) /\ ~Has(b, x)
    <3>1. \A i \in 1 .. k - 1 : i \in 1 .. Len(s) BY <1>1
    <3>2. \A i \in 1 .. Len(s) - k : k + i \in 1 .. Len(s) BY <1>1
    <3>3. QED BY <2>2, <2>3, <2>5, <3>1, <3>2 DEF Has
  <2>6. QED BY <2>1, <2>2, <2>3, <2>4, <2>5
<1>4. QED BY <1>2, <1>3

(* Concatenation under a name of its own, for the law that regroups the     *)
(* five pieces of a full jid.                                               *)
Cat(a, b) == a \o b

LEMMA CatSeq ==
  ASSUME NEW a \in Seq(Nat), NEW b \in Seq(Nat)
  PROVE  Cat(a, b) \in Seq(Nat)
BY DEF Cat

LEMMA CatAssociative ==
  ASSUME NEW a \in Seq(Nat), NEW b \in Seq(Nat), NEW c \in Seq(Nat)
  PROVE  Cat(Cat(a, b), c) = Cat(a, Cat(b, c))
BY DEF Cat

LEMMA RegroupParts ==
  ASSUME NEW a \in Seq(Nat), NEW b \in Seq(Nat), NEW c \in Seq(Nat),
         NEW w \in Seq(Nat), NEW v \in Seq(Nat)
  PROVE  Cat(Cat(Cat(Cat(a, w), b), v), c) = Cat(Cat(a, w), Cat(Cat(b, v), c))
BY CatSeq, CatAssociative

(* Chars, as the validity of jids asks for them.                            *)
LEMMA HasChars ==
  ASSUME NEW s \in Seq(Nat), NEW c
  PROVE  c \in Chars(s) <=> Has(s, c)
<1>1. DOMAIN s = 1 .. Len(s) OBVIOUS
<1>2. QED BY <1>1 DEF Chars, ToSet, Has

(* NewJid of a text whose pieces are known.                                 *)
LEMMA NewJidParts ==
  ASSUME NEW s \in Seq(Nat), NEW node \in Seq(Nat), NEW rest \in Seq(Nat),
         NEW domain \in Seq(Nat), NEW resource \in Seq(Nat),
         \/ SplitOnce(s, AtSign) = <<node, rest>>
         \/ node = <<>> /\ SplitOnce(s, AtSign) = <<rest>>,
         \/ SplitOnce(rest, Slash) = <<domain, resource>>
         \/ resource = <<>> /\ SplitOnce(rest, Slash) = <<domain>>
  PROVE  NewJid(s) =
           IF \/ s = <<>>
              \/ SplitOnce(s, AtSign) = <<node, rest>> /\ (node = <<>> \/ rest = <<>>)
              \/ ~IsUsernameValid(node) \/ ~IsDomainValid(domain)
           THEN BadJid
           ELSE [ok |-> TRUE, jid |-> [node |-> node, domain |-> domain, resource |-> resource]]
<1> DEFINE s1 == SplitOnce(s, AtSign)
           s2 == SplitOnce(s1[Len(s1)], Slash)
           nd == IF Len(s1) = 2 THEN s1[1] ELSE <<>>
           j == [node |-> nd, domain |-> s2[1],
                 resource |-> IF Len(s2) = 2 THEN s2[2] ELSE <<>>]
<1>1. NewJid(s) =
        IF \/ s = <<>>
           \/ Len(s1) = 2 /\ (s1[1] = <<>> \/ s1[2] = <<>>)
           \/ ~IsUsernameValid(nd) \/ ~IsDomainValid(j.domain)
        THEN BadJid ELSE [ok |-> TRUE, jid |-> j]
  BY DEF NewJid
<1>2. /\ s1[Len(s1)] = rest /\ nd = node
      /\ Len(s1) = 2 <=> s1 = <<node, rest>>
      /\ s1 = <<node, rest>> => s1[1] = node /\ s1[2] = rest
  <2> HIDE DEF s1
  <2>1. \/ s1 = <<node, rest>>
        \/ node = <<>> /\ s1 = <<rest>>
    BY DEF s1
  <2>2. CASE s1 = <<node, rest>>
    <3>1. Len(s1) = 2 /\ s1[2] = rest /\ s1[1] = node BY <2>2
    <3>2. QED BY <2>2, <3>1
  <2>3. CASE s1 = <<rest>> /\ node = <<>>
    <3>1. Len(s1) = 1 /\ s1[1] = rest BY <2>3
    <3>2. s1 # <<node, rest>>
      <4> SUFFICES ASSUME s1 = <<node, rest>> PROVE FALSE OBVIOUS
      <4>1. Len(s1) = 2 OBVIOUS
      <4>2. QED BY <3>1, <4>1
    <3>3. QED BY <2>3, <3>1, <3>2
  <2>4. QED BY <2>1, <2>2, <2>3
<1>3. j = [node |-> node, domain |-> domain, resource |-> resource]
  <2>1. s2 = SplitOnce(rest, Slash) BY <1>2
  <2> HIDE DEF s2
  <2>2. CASE s2 = <<domain, resource>>
    <3>1. Len(s2) = 2 /\ s2[2] = resource /\ s2[1] = domain BY <2>2
    <3>2. QED BY <1>2, <3>1
  <2>3. CASE s2 = <<domain>> /\ resource = <<>>
    <3>1. Len(s2) = 1 /\ s2[1] = domain BY <2>3
    <3>2. QED BY <1>2, <2>3, <3>1
  <2>4. QED BY <2>1, <2>2, <2>3
<1> HIDE DEF s2, nd, j
<1>4. j.domain = domain BY <1>3
<1>5. QED BY <1>1, <1>2, <1>3, <1>4 DEF s1

(* Full writes the parts with their separators between them.                *)
LEMMA NewJidFull ==
  ASSUME NEW node \in Seq(Nat), NEW domain \in Seq(Nat), NEW resource \in Seq(Nat),
         IsUsernameValid(node), IsDomainValid(domain),
         node = <<>> => ~Has(resource, AtSign)
  PROVE  LET j == [node |-> node, domain |-> domain, resource |-> resource]
         IN NewJid(Full(j)) = [ok |-> TRUE, jid |-> j]
<1> DEFINE j == [node |-> node, domain |-> domain, resource |-> resource]
           rest == IF resource = <<>> THEN domain ELSE domain \o <<Slash>> \o resource
           text == IF node = <<>> THEN rest ELSE node \o <<AtSign>> \o rest
<1>1. AtSign \in Nat /\ Slash \in Nat BY DEF AtSign, Slash
<1>2. ~Has(node, AtSign) /\ ~Has(domain, AtSign) /\ ~Has(domain, Slash) /\ domain # <<>>
  BY HasChars DEF IsUsernameValid, IsDomainValid
<1>3. rest \in Seq(Nat) /\ rest # <<>>
  <2>1. CASE resource = <<>> BY <1>2, <2>1
  <2>2. CASE resource # <<>>
    <3> DEFINE s == domain \o <<Slash>> \o resource
    <3>1. s \in Seq(Nat) /\ Len(s) = Len(domain) + 1 + Len(resource)
      BY <1>1, JoinedIs
    <3>2. rest = s BY <2>2
    <3> HIDE DEF s, rest
    <3>3. s # <<>>
      <4>1. Len(s) # 0 BY <3>1
      <4>2. Len(<<>>) = 0 OBVIOUS
      <4>3. QED BY <4>1, <4>2
    <3>4. QED BY <3>1, <3>2, <3>3
  <2>3. QED BY <2>1, <2>2
<1>4. \/ SplitOnce(rest, Slash) = <<domain, resource>>
      \/ resource = <<>> /\ SplitOnce(rest, Slash) = <<domain>>
  BY <1>1, <1>2, SplitJoined, SplitWhole
<1>5. Full(j) = text
  <2>1. j.node = node /\ j.domain = domain /\ j.resource = resource OBVIOUS
  <2>2. /\ node \o <<AtSign>> \in Seq(Nat) /\ <<Slash>> \in Seq(Nat)
        /\ domain \o <<Slash>> \in Seq(Nat)
    BY <1>1
  <2>3. /\ (node \o <<AtSign>> \o domain) \o <<Slash>> \o resource
             = node \o <<AtSign>> \o (domain \o <<Slash>> \o resource)
    <3> DEFINE w == <<AtSign>>
               v == <<Slash>>
    <3>1. w \in Seq(Nat) /\ v \in Seq(Nat) BY <1>1
    <3> HIDE DEF w, v
    <3>2. Cat(Cat(Cat(Cat(node, w), domain), v), resource)
            = Cat(Cat(node, w), Cat(Cat(domain, v), resource))
      BY <3>1, RegroupParts
    <3>3. QED BY <3>2, Zenon DEF w, v, Cat
  <2> HIDE DEF j
  <2>4. QED BY <2>1, <2>3 DEF Full, Bare
<1>6. \/ SplitOnce(text, AtSign) = <<node, rest>> /\ node # <<>>
      \/ node = <<>> /\ SplitOnce(text, AtSign) = <<rest>>
  <2>1. CASE node # <<>>
    <3> HIDE DEF rest
    <3>1. SplitOnce(node \o <<AtSign>> \o rest, AtSign) = <<node, rest>>
      BY <1>1, <1>2, <1>3, SplitJoined
    <3>2. QED BY <2>1, <3>1
  <2>2. CASE node = <<>>
    <3>1. ~Has(rest, AtSign)
      <4>1. CASE resource = <<>> BY <1>2, <4>1
      <4>2. CASE resource # <<>>
        <5>1. <<Slash>> \in Seq(Nat) /\ domain \o <<Slash>> \in Seq(Nat) BY <1>1
        <5>2. ~Has(<<Slash>>, AtSign)
          <6>1. Len(<<Slash>>) = 1 /\ << Slash >>[1] = Slash OBVIOUS
          <6>2. Slash # AtSign BY DEF Slash, AtSign
          <6>3. QED BY <6>1, <6>2 DEF Has
        <5>3. ~Has(domain \o <<Slash>>, AtSign) BY <1>2, <5>1, <5>2, HasIn
        <5>4. ~Has((domain \o <<Slash>>) \o resource, AtSign)
          BY <2>2, <5>1, <5>3, HasIn
        <5>5. QED BY <4>2, <5>4
      <4>3. QED BY <4>1, <4>2
    <3> HIDE DEF rest
    <3>2. SplitOnce(rest, AtSign) = <<rest>> BY <1>3, <3>1, SplitWhole
    <3>3. QED BY <2>2, <3>2
  <2>3. QED BY <2>1, <2>2
<1>7. text \in Seq(Nat) /\ text # <<>>
  <2> HIDE DEF rest
  <2>1. CASE node = <<>> BY <1>3, <2>1
  <2>2. CASE node # <<>>
    <3> DEFINE s == node \o <<AtSign>> \o rest
    <3>1. s \in Seq(Nat) /\ Len(s) = Len(node) + 1 + Len(rest) /\ Len(rest) \in Nat
      BY <1>1, <1>3, JoinedIs
    <3>2. text = s BY <2>2
    <3> HIDE DEF s, text
    <3>3. Len(s) # 0 BY <3>1
    <3>4. QED BY <3>1, <3>2, <3>3
  <2>3. QED BY <2>1, <2>2
<1> HIDE DEF text, rest
<1>8. NewJid(text) = [ok |-> TRUE, jid |-> j]
  <2>1. ~(SplitOnce(text, AtSign) = <<node, rest>> /\ (node = <<>> \/ rest = <<>>))
    <3>1. ASSUME SplitOnce(text, AtSign) = <<node, rest>>, node = <<>> PROVE FALSE
      <4>1. <<node, rest>> = <<rest>> BY <1>6, <3>1
      <4>2. Len(<<node, rest>>) = 2 /\ Len(<<rest>>) = 1 OBVIOUS
      <4>3. QED BY <4>1, <4>2
    <3>2. QED BY <1>3, <3>1
  <2>2. QED BY <1>3, <1>4, <1>6, <1>7, <2>1, NewJidParts
<1>9. QED BY <1>5, <1>8

(* The jid that NewJid accepted is the one it reads in what Full writes.    *)
LEMMA JidReadBack ==
  ASSUME NEW s \in Seq(Nat), NewJid(s).ok
  PROVE  NewJid(Full(NewJid(s).jid)) = NewJid(s)
<1>1. PICK node \in Seq(Nat), rest \in Seq(Nat) :
        /\ \/ SplitOnce(s, AtSign) = <<node, rest>>
           \/ node = <<>> /\ SplitOnce(s, AtSign) = <<rest>>
        /\ node = <<>> => SplitOnce(s, AtSign) = <<node, rest>> \/ ~Has(rest, AtSign)
  <2>1. CASE ~Has(s, AtSign) /\ SplitOnce(s, AtSign) = <<s>>
    <3>1. <<>> \in Seq(Nat) OBVIOUS
    <3>2. QED BY <2>1, <3>1
  <2>2. CASE \E a \in Seq(Nat), b \in Seq(Nat) : SplitOnce(s, AtSign) = <<a, b>>
    BY <2>2
  <2>3. QED BY <2>1, <2>2, SplitParts
<1>2. PICK domain \in Seq(Nat), resource \in Seq(Nat) :
        /\ \/ SplitOnce(rest, Slash) = <<domain, resource>>
           \/ resource = <<>> /\ SplitOnce(rest, Slash) = <<domain>>
        /\ ~Has(rest, AtSign) => ~Has(resource, AtSign)
  <2>1. CASE ~Has(rest, Slash) /\ SplitOnce(rest, Slash) = <<rest>>
    <3>1. <<>> \in Seq(Nat) /\ ~Has(<<>>, AtSign) BY DEF Has
    <3>2. QED BY <2>1, <3>1
  <2>2. CASE \E a \in Seq(Nat), b \in Seq(Nat) :
               /\ SplitOnce(rest, Slash) = <<a, b>>
               /\ \A x : ~Has(rest, x) => ~Has(a, x) /\ ~Has(b, x)
    BY <2>2
  <2>3. QED BY <2>1, <2>2, SplitParts
<1> DEFINE jid == [node |-> node, domain |-> domain, resource |-> resource]
<1>3. NewJid(s) = [ok |-> TRUE, jid |-> jid] /\ IsUsernameValid(node) /\ IsDomainValid(domain)
      /\ ~(SplitOnce(s, AtSign) = <<node, rest>> /\ (node = <<>> \/ rest = <<>>))
  <2>1. ~BadJid.ok BY DEF BadJid
  <2>2. NewJid(s) =
           IF \/ s = <<>>
              \/ SplitOnce(s, AtSign) = <<node, rest>> /\ (node = <<>> \/ rest = <<>>)
              \/ ~IsUsernameValid(node) \/ ~IsDomainValid(domain)
           THEN BadJid
           ELSE [ok |-> TRUE, jid |-> jid]
    BY <1>1, <1>2, NewJidParts
  <2> HIDE DEF jid
  <2>3. QED BY <2>1, <2>2
<1>4. node = <<>> => ~Has(resource, AtSign) BY <1>1, <1>2, <1>3
<1>5. NewJid(Full(jid)) = [ok |-> TRUE, jid |-> jid]
  BY <1>3, <1>4, NewJidFull
<1> HIDE DEF jid
<1>6. NewJid(s).jid = jid BY <1>3
<1>7. QED BY <1>3, <1>5, <1>6

(* LastAt of a text that ends without the character.                        *)
LEMMA LastAtAtMost ==
  ASSUME NEW s \in Seq(Nat), NEW c, NEW k \in 0 .. Len(s),
         \A i \in 1 .. Len(s) : i > k => s[i] # c
  PROVE  LastAt(s, c) <= k
<1>1. LastAt(s, c) \in 0 .. Len(s) /\ (LastAt(s, c) # 0 => s[LastAt(s, c)] = c) /\ Len(s) \in Nat
  BY LastAtIs
<1>2. QED BY <1>1

LEMMA LastAtEquals ==
  ASSUME NEW s \in Seq(Nat), NEW c, NEW k \in 1 .. Len(s), s[k] = c,
         \A i \in 1 .. Len(s) : i > k => s[i] # c
  PROVE  LastAt(s, c) = k
<1>1. LastAt(s, c) \in 0 .. Len(s) /\ k <= LastAt(s, c) /\ Len(s) \in Nat
  BY LastAtIs
<1>2. LastAt(s, c) <= k
  BY LastAtAtMost
<1>3. QED BY <1>1, <1>2

(* strings.HasPrefix of one character.                                      *)
LEMMA FirstOf ==
  ASSUME NEW s \in Seq(Nat), Len(s) > 0
  PROVE  SubSeq(s, 1, 1) = <<s[1]>>
<1> DEFINE x == SubSeq(s, 1, 1)
           y == <<s[1]>>
<1>1. x \in Seq(Nat) /\ Len(x) = 1 /\ x[1] = s[1] OBVIOUS
<1>2. y \in Seq(Nat) /\ Len(y) = 1 /\ y[1] = s[1] OBVIOUS
<1> HIDE DEF x, y
<1>3. \A i \in 1 .. Len(x) : x[i] = y[i] BY <1>1, <1>2
<1>4. x = y BY <1>1, <1>2, <1>3, SeqEqual
<1>5. QED BY <1>4 DEF x, y

LEMMA StartsWith ==
  ASSUME NEW s \in Seq(Nat), NEW c \in Nat
  PROVE  IsPrefix(<<c>>, s) <=> Len(s) > 0 /\ s[1] = c
<1> DEFINE x == <<c>>
<1>1. x \in Seq(Nat) /\ Len(x) = 1 /\ x[1] = c /\ Len(s) \in Nat OBVIOUS
<1> HIDE DEF x
<1>2. IsPrefix(x, s) <=> 1 <= Len(s) /\ SubSeq(x, 1, 1) = SubSeq(s, 1, 1)
  BY <1>1 DEF IsPrefix
<1>3. SubSeq(x, 1, 1) = <<c>> BY <1>1, FirstOf
<1>4. Len(s) > 0 => SubSeq(s, 1, 1) = <<s[1]>> BY FirstOf
<1>5. <<c>> = <<s[1]>> <=> c = s[1] OBVIOUS
<1>6. IsPrefix(x, s) <=> Len(s) > 0 /\ s[1] = c BY <1>1, <1>2, <1>3, <1>4, <1>5
<1>7. QED BY <1>6 DEF x

(* strings.Count of one character.                                          *)
LEMMA OccurrencesIs ==
  ASSUME NEW s \in Seq(Nat), NEW c
  PROVE  /\ Occurrences(s, c) \in Nat
         /\ Occurrences(s, c) = 0 <=> ~Has(s, c)
<1> DEFINE S == {i \in 1 .. Len(s) : s[i] = c}
<1>1. Occurrences(s, c) = Cardinality(S) BY DEF Occurrences
<1>2. IsFiniteSet(S)
  <2>1. IsFiniteSet(1 .. Len(s)) BY FS_Interval
  <2>2. S \in SUBSET (1 .. Len(s)) OBVIOUS
  <2>3. QED BY <2>1, <2>2, FS_Subset
<1>3. S = {} <=> ~Has(s, c) BY DEF Has
<1> HIDE DEF S
<1>5. Cardinality(S) \in Nat /\ (Cardinality(S) = 0 <=> S = {})
  BY <1>2, FS_CardinalityType, FS_EmptySet
<1>6. QED BY <1>1, <1>3, <1>5

LEMMA OccursOnce ==
  ASSUME NEW s \in Seq(Nat), NEW c, NEW k \in 1 .. Len(s), s[k] = c,
         \A i \in 1 .. Len(s) : s[i] = c => i = k
  PROVE  Occurrences(s, c) = 1
<1>1. {i \in DOMAIN s : s[i] = c} = {k} OBVIOUS
<1>2. Cardinality({k}) = 1 BY FS_Singleton
<1>3. QED BY <1>1, <1>2 DEF Occurrences

(* What ensurePort writes after an address: a colon and the port.           *)
LEMMA PortAdded ==
  ASSUME NEW s \in Seq(Nat), NEW p \in Nat, p \notin {Colon, Close, Open}
  PROVE  LET t == s \o <<Colon>> \o <<p>> IN
         /\ t \in Seq(Nat) /\ Len(t) = Len(s) + 2
         /\ \A i \in 1 .. Len(s) : t[i] = s[i]
         /\ t[Len(s) + 1] = Colon /\ t[Len(s) + 2] = p
         /\ LastAt(t, Colon) = Len(s) + 1 /\ LastAt(t, Close) <= Len(s)
         /\ IsPrefix(<<Open>>, t) <=> IsPrefix(<<Open>>, s)
         /\ ~Has(s, Colon) => Occurrences(t, Colon) = 1
<1> DEFINE t == s \o <<Colon>> \o <<p>>
<1>0. Colon \in Nat /\ Close \in Nat /\ Open \in Nat /\ Colon # Close /\ Colon # Open
  BY DEF Colon, Close, Open
<1>1. /\ t \in Seq(Nat) /\ Len(t) = Len(s) + 2 /\ Len(s) \in Nat
      /\ \A i \in 1 .. Len(s) : t[i] = s[i]
      /\ t[Len(s) + 1] = Colon /\ t[Len(s) + 2] = p
  <2>1. <<p>> \in Seq(Nat) /\ Len(<<p>>) = 1 /\ << p >>[1] = p /\ Len(s) \in Nat OBVIOUS
  <2>2. /\ t \in Seq(Nat) /\ Len(t) = Len(s) + 1 + Len(<<p>>)
        /\ \A i \in 1 .. Len(s) : t[i] = s[i]
        /\ t[Len(s) + 1] = Colon
        /\ \A i \in 1 .. Len(<<p>>) : t[Len(s) + 1 + i] = << p >>[i]
    BY <1>0, <2>1, JoinedIs
  <2> HIDE DEF t
  <2>3. t[Len(s) + 1 + 1] = p BY <2>1, <2>2
  <2>4. Len(s) + 1 + 1 = Len(s) + 2 BY <2>1
  <2>5. QED BY <2>1, <2>2, <2>3, <2>4
<1> HIDE DEF t
<1>2. \A i \in 1 .. Len(t) : i <= Len(s) \/ i = Len(s) + 1 \/ i = Len(s) + 2 BY <1>1
<1>3. LastAt(t, Colon) = Len(s) + 1
  <2>1. \A i \in 1 .. Len(t) : i > Len(s) + 1 => t[i] # Colon BY <1>1
  <2>2. Len(s) + 1 \in 1 .. Len(t) BY <1>1
  <2>3. QED BY <1>1, <2>1, <2>2, LastAtEquals
<1>4. LastAt(t, Close) <= Len(s)
  <2>1. \A i \in 1 .. Len(t) : i > Len(s) => t[i] # Close BY <1>0, <1>1, <1>2
  <2>2. Len(s) \in 0 .. Len(t) BY <1>1
  <2>3. QED BY <1>1, <2>1, <2>2, LastAtAtMost
<1>5. IsPrefix(<<Open>>, t) <=> IsPrefix(<<Open>>, s)
  <2>1. Len(s) > 0 => t[1] = s[1] BY <1>1
  <2>2. Len(s) = 0 => t[1] # Open BY <1>0, <1>1
  <2>3. QED BY <1>0, <1>1, <2>1, <2>2, StartsWith
<1>6. ASSUME ~Has(s, Colon) PROVE Occurrences(t, Colon) = 1
  <2>1. \A i \in 1 .. Len(t) : t[i] = Colon => i = Len(s) + 1
    <3> SUFFICES ASSUME NEW i \in 1 .. Len(t), t[i] = Colon, i # Len(s) + 1 PROVE FALSE
      OBVIOUS
    <3>1. i <= Len(s) BY <1>1, <1>2
    <3>2. i \in 1 .. Len(s) /\ s[i] = Colon BY <1>1, <3>1
    <3>3. QED BY <1>6, <3>2 DEF Has
  <2>2. Len(s) + 1 \in 1 .. Len(t) BY <1>1
  <2>3. QED BY <1>1, <2>1, <2>2, OccursOnce
<1>7. QED BY <1>1, <1>3, <1>4, <1>5, <1>6 DEF t

(* And around an IPv6 address without brackets.                             *)
LEMMA Bracketed ==
  ASSUME NEW s \in Seq(Nat), NEW p \in Nat, p \notin {Colon, Close, Open}
  PROVE  LET t == <<Open>> \o s \o <<Close, Colon>> \o <<p>> IN
         /\ t \in Seq(Nat) /\ IsPrefix(<<Open>>, t)
         /\ LastAt(t, Colon) > LastAt(t, Close)
<1> DEFINE t == <<Open>> \o s \o <<Close, Colon>> \o <<p>>
<1>0. Colon \in Nat /\ Close \in Nat /\ Open \in Nat /\ Colon # Close /\ Colon # Open
  BY DEF Colon, Close, Open
<1>1. /\ t \in Seq(Nat) /\ Len(t) = Len(s) + 4 /\ Len(s) \in Nat /\ t[1] = Open
      /\ t[Len(s) + 2] = Close /\ t[Len(s) + 3] = Colon /\ t[Len(s) + 4] = p
  <2> DEFINE u == <<Open>> \o s
             v == u \o <<Close, Colon>>
  <2>1. u \in Seq(Nat) /\ Len(u) = Len(s) + 1 /\ u[1] = Open /\ Len(s) \in Nat BY <1>0
  <2> HIDE DEF u
  <2>2. /\ v \in Seq(Nat) /\ Len(v) = Len(s) + 3 /\ v[1] = Open
        /\ v[Len(s) + 2] = Close /\ v[Len(s) + 3] = Colon
    BY <1>0, <2>1
  <2> HIDE DEF v
  <2>3. /\ v \o <<p>> \in Seq(Nat) /\ Len(v \o <<p>>) = Len(s) + 4
        /\ (v \o <<p>>)[1] = Open /\ (v \o <<p>>)[Len(s) + 2] = Close
        /\ (v \o <<p>>)[Len(s) + 3] = Colon /\ (v \o <<p>>)[Len(s) + 4] = p
    BY <2>1, <2>2
  <2>4. QED BY <2>1, <2>3, Zenon DEF u, v
<1> HIDE DEF t
<1>2. IsPrefix(<<Open>>, t)
  <2>1. t \in Seq(Nat) /\ Open \in Nat /\ Len(t) > 0 /\ t[1] = Open BY <1>0, <1>1
  <2>2. QED BY <2>1, StartsWith
<1>3. LastAt(t, Colon) = Len(s) + 3
  <2>1. \A i \in 1 .. Len(t) : i > Len(s) + 3 => i = Len(s) + 4 BY <1>1
  <2>2. \A i \in 1 .. Len(t) : i > Len(s) + 3 => t[i] # Colon BY <1>1, <2>1
  <2>3. t \in Seq(Nat) /\ Len(s) + 3 \in 1 .. Len(t) /\ t[Len(s) + 3] = Colon BY <1>1
  <2>4. QED BY <2>2, <2>3, LastAtEquals
<1>4. LastAt(t, Close) <= Len(s) + 2
  <2>1. \A i \in 1 .. Len(t) : i > Len(s) + 2 => i = Len(s) + 3 \/ i = Len(s) + 4 BY <1>1
  <2>2. \A i \in 1 .. Len(t) : i > Len(s) + 2 => t[i] # Close BY <1>0, <1>1, <2>1
  <2>3. Len(s) + 2 \in 0 .. Len(t) BY <1>1
  <2>4. QED BY <1>1, <2>2, <2>3, LastAtAtMost
<1>5. LastAt(t, Close) \in Nat /\ LastAt(t, Colon) \in Nat BY <1>1, LastAtIs
<1>6. QED BY <1>1, <1>2, <1>3, <1>4, <1>5 DEF t

(* A port of the model is one character, not one that ensurePort looks for. *)
LEMMA PortDigit ==
  ASSUME NEW n \in {5, 6}
  PROVE  \E p \in Nat : Port(n) = <<p>> /\ p \notin {Colon, Close, Open}
<1>1. 48 + n \in Nat /\ 48 + n \notin {Colon, Close, Open} BY DEF Colon, Close, Open
<1>2. QED BY <1>1 DEF Port

(* An address whose port is settled: ensurePort leaves it alone.            *)
Settled(t) ==
  IF IsPrefix(<<Open>>, t) THEN LastAt(t, Colon) > LastAt(t, Close)
  ELSE Occurrences(t, Colon) = 1

LEMMA SettledStays ==
  ASSUME NEW t \in Seq(Nat), Settled(t), NEW port
  PROVE  EnsurePort(t, port) = t
<1>1. LastAt(t, Colon) \in Nat /\ LastAt(t, Close) \in Nat /\ Len(t) \in Nat BY LastAtIs
<1>2. CASE IsPrefix(<<Open>>, t)
  <2>1. ~(LastAt(t, Colon) <= LastAt(t, Close)) BY <1>1, <1>2 DEF Settled
  <2>2. QED BY <1>2, <2>1 DEF EnsurePort
<1>3. CASE ~IsPrefix(<<Open>>, t)
  <2>1. Occurrences(t, Colon) = 1 BY <1>3 DEF Settled
  <2>2. QED BY <1>3, <2>1 DEF EnsurePort
<1>4. QED BY <1>2, <1>3

(* And it settles the port of any address.                                  *)
LEMMA EnsurePortSettles ==
  ASSUME NEW s \in Seq(Nat), NEW port, NEW p \in Nat, port = <<p>>, p \notin {Colon, Close, Open}
  PROVE  LET t == EnsurePort(s, port) IN
         /\ t \in Seq(Nat) /\ Settled(t)
         /\ ~Has(s, Close) \/ IsPrefix(<<Open>>, s) => LastAt(t, Colon) > LastAt(t, Close)
<1> DEFINE added == s \o <<Colon>> \o port
           around == <<Open>> \o s \o <<Close, Colon>> \o port
           t == EnsurePort(s, port)
<1>1. /\ added \in Seq(Nat) /\ LastAt(added, Colon) > LastAt(added, Close)
      /\ IsPrefix(<<Open>>, added) <=> IsPrefix(<<Open>>, s)
      /\ ~Has(s, Colon) => Occurrences(added, Colon) = 1
  <2>1. /\ added \in Seq(Nat)
        /\ LastAt(added, Colon) = Len(s) + 1 /\ LastAt(added, Close) <= Len(s)
        /\ IsPrefix(<<Open>>, added) <=> IsPrefix(<<Open>>, s)
        /\ ~Has(s, Colon) => Occurrences(added, Colon) = 1
    BY PortAdded
  <2> HIDE DEF added
  <2>2. LastAt(added, Close) \in Nat /\ Len(s) \in Nat BY <2>1, LastAtIs
  <2>3. QED BY <2>1, <2>2
<1>2. /\ around \in Seq(Nat) /\ IsPrefix(<<Open>>, around)
      /\ LastAt(around, Colon) > LastAt(around, Close)
  BY Bracketed
<1>3. /\ Occurrences(s, Colon) \in Nat /\ (Occurrences(s, Colon) = 0 <=> ~Has(s, Colon))
      /\ LastAt(s, Colon) \in Nat /\ LastAt(s, Close) \in Nat
      /\ (LastAt(s, Colon) = 0 <=> ~Has(s, Colon)) /\ (LastAt(s, Close) = 0 <=> ~Has(s, Close))
  BY OccurrencesIs, LastAtIs
<1> HIDE DEF added, around
<1>4. CASE IsPrefix(<<Open>>, s) /\ LastAt(s, Colon) <= LastAt(s, Close)
  <2>1. t = added BY <1>4 DEF EnsurePort, added
  <2>2. QED BY <1>1, <1>4, <2>1 DEF Settled
<1>5. CASE IsPrefix(<<Open>>, s) /\ ~(LastAt(s, Colon) <= LastAt(s, Close))
  <2>1. t = s BY <1>5 DEF EnsurePort
  <2>2. QED BY <1>3, <1>5, <2>1 DEF Settled
<1>6. CASE ~IsPrefix(<<Open>>, s) /\ Occurrences(s, Colon) = 0
  <2>1. t = added BY <1>6 DEF EnsurePort, added
  <2>2. QED BY <1>1, <1>3, <1>6, <2>1 DEF Settled
<1>7. CASE ~IsPrefix(<<Open>>, s) /\ Occurrences(s, Colon) = 1
  <2>1. t = s BY <1>7 DEF EnsurePort
  <2>2. LastAt(s, Colon) > 0 BY <1>3, <1>7
  <2>3. ~Has(s, Close) => LastAt(s, Close) = 0 BY <1>3
  <2>4. QED BY <1>3, <1>7, <2>1, <2>2, <2>3 DEF Settled
<1>8. CASE ~IsPrefix(<<Open>>, s) /\ Occurrences(s, Colon) \notin {0, 1}
  <2>1. t = around BY <1>8 DEF EnsurePort, around
  <2>2. QED BY <1>2, <1>8, <2>1 DEF Settled
<1>9. QED BY <1>4, <1>5, <1>6, <1>7, <1>8

(* The checker comes to the address that the client dials.                  *)
LEMMA CheckerDials ==
  ASSUME NEW s \in Seq(Nat), ExtractParams(s).ok, ~IsPrefix(<<Open>>, s),
         LET dial == EnsurePort(s, DefaultPort) IN dial[Len(dial)] # Colon
  PROVE  ExtractParams(s).address = EnsurePort(s, DefaultPort)
<1> DEFINE n == Occurrences(s, Colon)
           host == SplitOnce(s, Colon)[1]
<1>1. n \in Nat /\ (n = 0 <=> ~Has(s, Colon)) BY OccurrencesIs
<1>2. /\ n <= 1
      /\ ExtractParams(s).address = IF n > 1 \/ (n = 1 /\ s[Len(s)] # Colon)
                                    THEN s ELSE host \o <<Colon>> \o DefaultPort
  BY DEF ExtractParams
<1>3. CASE n = 0
  <2>1. EnsurePort(s, DefaultPort) = s \o <<Colon>> \o DefaultPort BY <1>3 DEF EnsurePort
  <2>2. SplitOnce(s, Colon) = <<s>> BY <1>1, <1>3, SplitWhole
  <2>3. host = s BY <2>2
  <2> HIDE DEF n, host
  <2>4. ExtractParams(s).address = host \o <<Colon>> \o DefaultPort BY <1>2, <1>3
  <2>5. QED BY <2>1, <2>3, <2>4
<1>4. CASE n = 1
  <2>1. EnsurePort(s, DefaultPort) = s BY <1>4 DEF EnsurePort
  <2>2. s[Len(s)] # Colon BY <2>1
  <2>3. QED BY <1>2, <1>4, <2>1, <2>2
<1>5. n = 0 \/ n = 1
  <2> HIDE DEF n
  <2>1. QED BY <1>1, <1>2
<1>6. QED BY <1>3, <1>4, <1>5

(* Induction over the numbers, as a set: a number that it lacks would have  *)
(* a least one.                                                             *)
LEMMA NatSet ==
  ASSUME NEW S, 0 \in S, \A n \in Nat : n \in S => n + 1 \in S
  PROVE  \A n \in Nat : n \in S
<1> DEFINE T == {n \in Nat : n \notin S}
           R == OpToRel(<, Nat)
<1>1. SUFFICES ASSUME T # {} PROVE FALSE OBVIOUS
<1>2. IsWellFoundedOn(R, Nat) BY NatLessThanWellFounded
<1>3. \A m, n \in Nat : m < n => <<m, n>> \in R BY DEF OpToRel
<1>4. T \subseteq Nat OBVIOUS
<1> HIDE DEF R
<1>5. PICK n \in T : \A m \in T : ~(<<m, n>> \in R)
  <2> HIDE DEF T
  <2>1. QED BY <1>1, <1>2, <1>4, WFMin
<1>6. n # 0 /\ n \in Nat /\ n - 1 \in Nat OBVIOUS
<1>7. n - 1 \in S
  <2>1. n - 1 < n BY <1>6
  <2>2. QED BY <1>3, <1>5, <1>6, <2>1
<1>8. QED BY <1>6, <1>7

(* The test in the loop of NewClient over the SRV entries.                  *)
Better(e, b) == e.priority <= b.priority /\ e.weight >= b.weight

(* The entry that the loop has chosen after each of the first m.            *)
Chosen(q, m, f) ==
  f = [n \in 0 .. m |-> IF n = 0 THEN q[1]
                        ELSE IF Better(q[n], f[n - 1]) THEN q[n] ELSE f[n - 1]]

LEMMA BestSrvIs ==
  ASSUME NEW q
  PROVE  BestSrv(q) = (CHOOSE f : Chosen(q, Len(q), f))[Len(q)]
BY DEF BestSrv, Chosen, Better

(* The recursion has a value for every number of entries.                   *)
LEMMA ChosenExists ==
  ASSUME NEW q
  PROVE  \A m \in Nat : \E f : Chosen(q, m, f)
<1> DEFINE S == {m \in Nat : \E f : Chosen(q, m, f)}
<1>1. 0 \in S
  <2> DEFINE f == [n \in 0 .. 0 |-> q[1]]
  <2>1. Chosen(q, 0, f) BY DEF Chosen
  <2>2. QED BY <2>1
<1>2. ASSUME NEW m \in Nat, m \in S PROVE m + 1 \in S
  <2>1. PICK f : Chosen(q, m, f) BY <1>2
  <2> DEFINE g == [n \in 0 .. m + 1 |-> IF n <= m THEN f[n]
                     ELSE IF Better(q[n], f[m]) THEN q[n] ELSE f[m]]
  <2>2. ASSUME NEW n \in 0 .. m + 1
        PROVE  g[n] = IF n = 0 THEN q[1]
                      ELSE IF Better(q[n], g[n - 1]) THEN q[n] ELSE g[n - 1]
    <3>1. CASE n <= m
      <4>1. g[n] = f[n] BY <3>1
      <4>2. n # 0 => g[n - 1] = f[n - 1] BY <3>1
      <4>3. n \in 0 .. m BY <3>1
      <4>4. f[n] = IF n = 0 THEN q[1]
                   ELSE IF Better(q[n], f[n - 1]) THEN q[n] ELSE f[n - 1]
        BY <2>1, <4>3 DEF Chosen
      <4>5. QED BY <4>1, <4>2, <4>4
    <3>2. CASE n = m + 1
      <4>1. g[n] = (IF Better(q[n], f[m]) THEN q[n] ELSE f[m]) /\ g[n - 1] = f[m] /\ n # 0
        BY <3>2
      <4>2. QED BY <4>1
    <3>3. QED BY <3>1, <3>2
  <2>3. g = [n \in 0 .. m + 1 |-> g[n]] OBVIOUS
  <2> HIDE DEF g
  <2>4. Chosen(q, m + 1, g) BY <2>2, <2>3 DEF Chosen
  <2>5. QED BY <2>4
<1> HIDE DEF S
<1>3. \A m \in Nat : m \in S BY <1>1, <1>2, NatSet
<1>4. QED BY <1>3 DEF S

(* The choice is the heaviest entry of the first priority.                  *)
LEMMA BestOfFirst ==
  ASSUME NEW q, Len(q) \in Nat, Len(q) > 0,
         \A i \in 1 .. Len(q) : q[i].priority \in Nat /\ q[i].weight \in Nat,
         \A i \in 1 .. Len(q) : q[1].priority <= q[i].priority
  PROVE  \E k \in 1 .. Len(q) :
           /\ BestSrv(q) = q[k] /\ q[k].priority = q[1].priority
           /\ \A i \in 1 .. Len(q) :
                q[i].priority = q[1].priority => q[i].weight <= q[k].weight
<1> DEFINE f == CHOOSE f : Chosen(q, Len(q), f)
<1>1. Chosen(q, Len(q), f) BY ChosenExists
<1>2. BestSrv(q) = f[Len(q)] BY BestSrvIs
<1> HIDE DEF f
<1>3. \A n \in 0 .. Len(q) : f[n] = IF n = 0 THEN q[1]
                                    ELSE IF Better(q[n], f[n - 1]) THEN q[n] ELSE f[n - 1]
  BY <1>1 DEF Chosen
<1> DEFINE At(n, k) == /\ f[n] = q[k] /\ q[k].priority = q[1].priority
                       /\ \A i \in 1 .. n :
                            q[i].priority = q[1].priority => q[i].weight <= q[k].weight
           S == {n \in Nat : n <= Len(q) => \E k \in 1 .. Len(q) : At(n, k)}
<1>4. 0 \in S
  <2>1. f[0] = q[1] /\ 1 \in 1 .. Len(q) BY <1>3
  <2>2. At(0, 1) BY <2>1
  <2>3. QED BY <2>1, <2>2
<1>5. ASSUME NEW n \in Nat, n \in S PROVE n + 1 \in S
  <2> SUFFICES ASSUME n + 1 <= Len(q) PROVE \E k \in 1 .. Len(q) : At(n + 1, k)
    OBVIOUS
  <2>1. PICK k \in 1 .. Len(q) : At(n, k) BY <1>5
  <2> DEFINE e == q[n + 1]
  <2>2. n + 1 \in 1 .. Len(q) /\ n + 1 \in 0 .. Len(q) /\ n + 1 # 0 /\ (n + 1) - 1 = n
    OBVIOUS
  <2>3. f[n + 1] = IF Better(e, q[k]) THEN e ELSE q[k] BY <1>3, <2>1, <2>2
  <2>4. /\ e.priority \in Nat /\ e.weight \in Nat /\ q[1].priority <= e.priority
        /\ q[k].priority = q[1].priority /\ q[k].weight \in Nat /\ q[1].priority \in Nat
    BY <2>1, <2>2
  <2>5. \A i \in 1 .. n + 1 : i \in 1 .. n \/ i = n + 1 OBVIOUS
  <2>6. CASE Better(e, q[k])
    <3>1. e.priority = q[1].priority /\ q[k].weight <= e.weight BY <2>4, <2>6 DEF Better
    <3>2. ASSUME NEW i \in 1 .. n + 1, q[i].priority = q[1].priority
          PROVE  q[i].weight <= e.weight
      <4>1. CASE i = n + 1 BY <2>4, <4>1
      <4>2. CASE i \in 1 .. n
        <5>1. q[i].weight <= q[k].weight /\ q[i].weight \in Nat BY <2>1, <3>2, <4>2
        <5>2. QED BY <2>4, <3>1, <5>1
      <4>3. QED BY <2>5, <4>1, <4>2
    <3>3. At(n + 1, n + 1) BY <2>3, <2>6, <3>1, <3>2
    <3>4. QED BY <2>2, <3>3
  <2>7. CASE ~Better(e, q[k])
    <3>1. e.priority = q[1].priority => e.weight <= q[k].weight BY <2>4, <2>7 DEF Better
    <3>2. ASSUME NEW i \in 1 .. n + 1, q[i].priority = q[1].priority
          PROVE  q[i].weight <= q[k].weight
      BY <2>1, <2>5, <3>1, <3>2
    <3>3. At(n + 1, k) BY <2>1, <2>3, <2>7, <3>2
    <3>4. QED BY <3>3
  <2>8. QED BY <2>6, <2>7
<1> HIDE DEF S
<1>6. \A n \in Nat : n \in S BY <1>4, <1>5, NatSet
<1>7. PICK k \in 1 .. Len(q) : At(Len(q), k) BY <1>6 DEF S
<1>8. QED BY <1>2, <1>7

-----------------------------------------------------------------------------
(* NoParams is no argument of NewClient, and none of the three speaks of   *)
(* an empty text.                                                          *)
ParamsType ==
  /\ params.jid \in Seq(Nat) /\ params.address \in Seq(Nat)
  /\ Len(params.srv) \in Nat
  /\ params.srv # <<>> => Len(params.srv) > 0 /\ DOMAIN params.srv = 1 .. Len(params.srv)
  /\ \A i \in 1 .. Len(params.srv) :
       /\ params.srv[i].priority \in Nat /\ params.srv[i].weight \in Nat
       /\ params.srv[1].priority <= params.srv[i].priority

LEMMA ParamsTyped ==
  ASSUME params \in Params \cup {NoParams}
  PROVE  ParamsType
<1>1. CASE params \in Params
  <2> DEFINE q == params.srv
             Entries == [priority : Nat, weight : Nat, target : Seq(Nat), port : Nat]
  <2>1. /\ params.jid \in Seq(Nat) /\ params.address \in Seq(Nat)
        /\ q \in Seq(Entries)
        /\ \A i, k \in DOMAIN q : i < k => q[i].priority <= q[k].priority
    BY <1>1, ParamsAssumption
  <2> HIDE DEF q
  <2>2. Len(q) \in Nat /\ DOMAIN q = 1 .. Len(q) /\ (q # <<>> => Len(q) > 0) BY <2>1
  <2>3. ASSUME NEW i \in 1 .. Len(q)
        PROVE  q[i].priority \in Nat /\ q[i].weight \in Nat
    <3>1. q[i] \in Entries
      <4> HIDE DEF Entries
      <4>1. QED BY <2>1
    <3>2. QED BY <3>1
  <2>4. ASSUME NEW i \in 1 .. Len(q) PROVE q[1].priority <= q[i].priority
    <3>1. 1 \in 1 .. Len(q) BY <2>2
    <3>2. CASE i = 1 BY <2>3, <3>1, <3>2
    <3>3. CASE i # 1
      <4>1. 1 < i BY <3>3
      <4>2. QED BY <2>1, <2>2, <3>1, <4>1
    <3>4. QED BY <3>2, <3>3
  <2>5. QED BY <2>1, <2>2, <2>3, <2>4 DEF ParamsType, q
<1>2. CASE params = NoParams
  <2>1. params.jid = <<>> /\ params.address = <<>> /\ params.srv = <<>>
    BY <1>2 DEF NoParams
  <2>2. <<>> \in Seq(Nat) /\ Len(<<>>) = 0 /\ 1 .. 0 = {} OBVIOUS
  <2>3. QED BY <2>1, <2>2 DEF ParamsType
<1>3. QED BY <1>1, <1>2

LEMMA AddressesFit ==
  ASSUME ParamsType
  PROVE  AddressesAgree
<1>1. JidRoundTrip BY JidReadBack DEF ParamsType, JidRoundTrip
<1>2. PortIsSettled
  <2> DEFINE s == params.address
             dial == EnsurePort(s, DefaultPort)
  <2>1. s \in Seq(Nat) BY DEF ParamsType
  <2>2. \E p \in Nat : DefaultPort = <<p>> /\ p \notin {Colon, Close, Open}
    BY PortDigit DEF DefaultPort
  <2>3. Close \notin Chars(s) <=> ~Has(s, Close) BY <2>1, HasChars
  <2> HIDE DEF s
  <2>4. /\ dial \in Seq(Nat) /\ Settled(dial)
        /\ ~Has(s, Close) \/ IsPrefix(<<Open>>, s) => LastAt(dial, Colon) > LastAt(dial, Close)
    BY <2>1, <2>2, EnsurePortSettles
  <2>5. EnsurePort(dial, Port(6)) = dial
    <3> HIDE DEF dial
    <3>1. QED BY <2>4, SettledStays
  <2>6. ExtractParams(s).ok /\ ~IsPrefix(<<Open>>, s) /\ dial[Len(dial)] # Colon
        => ExtractParams(s).address = dial
    BY <2>1, CheckerDials
  <2> HIDE DEF dial
  <2>7. QED BY <2>3, <2>4, <2>5, <2>6 DEF PortIsSettled, s, dial
<1>3. SrvIsBest
  <2> DEFINE q == params.srv
             best == BestSrv(q)
             first == {e \in ToSet(q) : e.priority = q[1].priority}
  <2> SUFFICES ASSUME q # <<>> PROVE best \in first /\ \A e \in first : e.weight <= best.weight
    BY DEF SrvIsBest
  <2>1. /\ Len(q) \in Nat /\ Len(q) > 0 /\ DOMAIN q = 1 .. Len(q)
        /\ \A i \in 1 .. Len(q) : q[i].priority \in Nat /\ q[i].weight \in Nat
        /\ \A i \in 1 .. Len(q) : q[1].priority <= q[i].priority
    BY DEF ParamsType
  <2> HIDE DEF q
  <2>2. PICK k \in 1 .. Len(q) :
           /\ BestSrv(q) = q[k] /\ q[k].priority = q[1].priority
           /\ \A i \in 1 .. Len(q) :
                q[i].priority = q[1].priority => q[i].weight <= q[k].weight
    BY <2>1, BestOfFirst
  <2>3. ToSet(q) = {q[i] : i \in 1 .. Len(q)} BY <2>1 DEF ToSet
  <2>4. best \in first BY <2>2, <2>3
  <2>5. ASSUME NEW e \in first PROVE e.weight <= best.weight
    <3>1. PICK i \in 1 .. Len(q) : e = q[i] BY <2>3
    <3>2. QED BY <2>2, <3>1
  <2>6. QED BY <2>4, <2>5
<1>4. QED BY <1>1, <1>2, <1>3 DEF AddressesAgree

(* Whatever jid, address and SRV entries NewClient is given: a jid it       *)
(* accepts is read back as it was, ensurePort settles the port and the     *)
(* checker agrees with it, and the SRV entry chosen is the heaviest of the *)
(* first priority.                                                         *)
THEOREM AddressesMeant == Spec => []AddressesAgree
<1> DEFINE I == params \in Params \cup {NoParams}
<1>1. Init => I BY DEF Init
<1>2. I /\ [Next]_vars => I'
  <2>1. [Next]_vars => params' = params \/ params' = NoParams
    BY DEF Next, vars, NewClient, Connect, ReadFeatures, StartTLS, RestartTLS, ReadChallenge,
           ReadOutcome, RestartAuth, Resume, Bind, OpenSession, Enable, Lose, EnableOrEnd,
           AfterTLS, BeginAuth, Refuse, FailAs, Fail
  <2>2. QED BY <2>1
<1>3. I => AddressesAgree BY ParamsTyped, AddressesFit
<1>4. QED BY <1>1, <1>2, <1>3, PTL DEF Spec

-----------------------------------------------------------------------------
(* Names and their hash.                                                   *)

(* The names that verifySCRAMDowngradeHash accepts hold no separator.      *)
Plain == {w \in Seq(Nat) : w # <<>> /\ ~Has(w, RS) /\ ~Has(w, US)}

(* A valid name holds no separator (isValidSASLMechanismName,              *)
(* isValidChannelBindingName).                                             *)
LEMMA ValidIsPlain ==
  ASSUME NEW w \in Seq(Nat), IsValidSASLMechanismName(w) \/ IsValidChannelBindingName(w)
  PROVE  w \in Plain
<1>1. w # <<>> BY DEF IsValidSASLMechanismName, IsValidChannelBindingName
<1>2. ASSUME NEW c \in Chars(w) PROVE c # RS /\ c # US
  <2>1. Upper(c) \/ Lower(c) \/ Digit(c) \/ c \in {45, 95} \/ c \in {45, 46}
    BY <1>2 DEF IsValidSASLMechanismName, IsValidChannelBindingName
  <2>2. PICK i \in 1 .. Len(w) : w[i] = c BY <1>2, HasChars DEF Has
  <2>3. c \in Nat BY <2>2
  <2>4. QED BY <2>1, <2>3 DEF Upper, Lower, Digit, RS, US
<1>3. ~Has(w, RS) /\ ~Has(w, US) BY <1>2, HasChars
<1>4. QED BY <1>1, <1>3 DEF Plain

(* The lists of names that scramDowngradeString accepts.                   *)
LEMMA ValidNames ==
  ASSUME NEW ms \in Seq(Seq(Nat)), NEW bs \in Seq(Seq(Nat)), NamesAreValid(ms, bs)
  PROVE  ms \in Seq(Plain) /\ bs \in Seq(Plain)
<1>1. ASSUME NEW q \in Seq(Seq(Nat)),
             \A w \in ToSet(q) : IsValidSASLMechanismName(w) \/ IsValidChannelBindingName(w)
      PROVE  q \in Seq(Plain)
  <2>1. DOMAIN q = 1 .. Len(q) /\ \A i \in 1 .. Len(q) : q[i] \in Seq(Nat) OBVIOUS
  <2>2. ASSUME NEW i \in 1 .. Len(q) PROVE q[i] \in Plain
    <3>1. q[i] \in ToSet(q) BY <2>1 DEF ToSet
    <3>2. QED BY <1>1, <2>1, <3>1, ValidIsPlain
  <2>3. q = [i \in 1 .. Len(q) |-> q[i]] /\ Len(q) \in Nat OBVIOUS
  <2> DEFINE n == Len(q)
  <2>4. n \in Nat /\ \A i \in 1 .. n : q[i] \in Plain BY <2>2, <2>3
  <2> HIDE DEF n
  <2>5. [i \in 1 .. n |-> q[i]] \in Seq(Plain) BY <2>4
  <2>6. QED BY <2>3, <2>5 DEF n
<1>2. QED BY <1>1 DEF NamesAreValid

-----------------------------------------------------------------------------
(* Sorting keeps the number of names, and what they are.                   *)
LEMMA InsertedIs ==
  ASSUME NEW P, NEW s \in Seq(P), NEW w \in P
  PROVE  Inserted(s, w) \in Seq(P) /\ Len(Inserted(s, w)) = Len(s) + 1
<1> DEFINE I == {i \in 1 .. Len(s) : ~Precedes(s[i], w)}
           k == IF I # {} THEN Min(I) ELSE 0
<1>1. Inserted(s, w) = IF k = 0 THEN Append(s, w) ELSE InsertAt(s, k, w)
  BY DEF Inserted, SelectInSeq
<1>2. k \in 0 .. Len(s) /\ Len(s) \in Nat
  <2>1. I \in SUBSET Nat /\ I \subseteq 1 .. Len(s) /\ Len(s) \in Nat OBVIOUS
  <2> HIDE DEF I
  <2>2. I # {} => Min(I) \in I BY <2>1, MinIs
  <2>3. I # {} => Min(I) \in 1 .. Len(s) BY <2>1, <2>2
  <2>4. 0 \in 0 .. Len(s) /\ \A i \in 1 .. Len(s) : i \in 0 .. Len(s) BY <2>1
  <2>5. QED BY <2>1, <2>3, <2>4
<1> HIDE DEF k
<1>3. CASE k = 0 BY <1>1, <1>3
<1>4. CASE k # 0
  <2> DEFINE a == SubSeq(s, 1, k - 1)
             b == SubSeq(s, k, Len(s))
  <2>1. a \in Seq(P) /\ Len(a) = k - 1 BY <1>2, <1>4
  <2>2. b \in Seq(P) /\ Len(b) = Len(s) - k + 1 BY <1>2, <1>4
  <2>3. Inserted(s, w) = (a \o <<w>>) \o b BY <1>1, <1>4 DEF InsertAt
  <2> HIDE DEF a, b
  <2>4. a \o <<w>> \in Seq(P) /\ Len(a \o <<w>>) = Len(a) + 1 BY <2>1
  <2>5. (a \o <<w>>) \o b \in Seq(P) /\ Len((a \o <<w>>) \o b) = Len(a) + 1 + Len(b)
    BY <2>2, <2>4, ConcatProperties
  <2>6. QED BY <1>2, <1>4, <2>1, <2>2, <2>3, <2>5
<1>5. QED BY <1>3, <1>4

(* The names sorted so far, after each of the first m.                     *)
SortedSoFar(q, m, f) ==
  f = [n \in 0 .. m |-> IF n = 0 THEN <<>> ELSE Inserted(f[n - 1], q[n])]

(* Sorted is the last of them.                                             *)
LEMMA SortedIs ==
  ASSUME NEW q
  PROVE  Sorted(q) = (CHOOSE f : SortedSoFar(q, Len(q), f))[Len(q)]
BY DEF Sorted, SortedSoFar

(* There is such a function for every m.                                   *)
LEMMA SortedExists ==
  ASSUME NEW q
  PROVE  \A m \in Nat : \E f : SortedSoFar(q, m, f)
<1> DEFINE S == {m \in Nat : \E f : SortedSoFar(q, m, f)}
<1>1. 0 \in S
  <2> DEFINE f == [n \in 0 .. 0 |-> <<>>]
  <2>1. SortedSoFar(q, 0, f) BY DEF SortedSoFar
  <2>2. QED BY <2>1
<1>2. ASSUME NEW m \in Nat, m \in S PROVE m + 1 \in S
  <2>1. PICK f : SortedSoFar(q, m, f) BY <1>2
  <2> DEFINE g == [n \in 0 .. m + 1 |-> IF n <= m THEN f[n] ELSE Inserted(f[m], q[n])]
  <2>2. ASSUME NEW n \in 0 .. m + 1
        PROVE  g[n] = IF n = 0 THEN <<>> ELSE Inserted(g[n - 1], q[n])
    <3>1. CASE n <= m
      <4>1. g[n] = f[n] BY <3>1
      <4>2. n # 0 => g[n - 1] = f[n - 1] BY <3>1
      <4>3. n \in 0 .. m BY <3>1
      <4>4. f[n] = IF n = 0 THEN <<>> ELSE Inserted(f[n - 1], q[n])
        BY <2>1, <4>3 DEF SortedSoFar
      <4>5. QED BY <4>1, <4>2, <4>4
    <3>2. CASE n = m + 1
      <4>1. g[n] = Inserted(f[m], q[n]) /\ g[n - 1] = f[m] /\ n # 0 BY <3>2
      <4>2. QED BY <4>1
    <3>3. QED BY <3>1, <3>2
  <2>3. g = [n \in 0 .. m + 1 |-> g[n]] OBVIOUS
  <2> HIDE DEF g
  <2>4. SortedSoFar(q, m + 1, g) BY <2>2, <2>3 DEF SortedSoFar
  <2>5. QED BY <2>4
<1> HIDE DEF S
<1>3. \A m \in Nat : m \in S BY <1>1, <1>2, NatSet
<1>4. QED BY <1>3 DEF S

(* Sorted names are names, as many as before.                              *)
LEMMA SortedKeeps ==
  ASSUME NEW P, NEW q \in Seq(P)
  PROVE  Sorted(q) \in Seq(P) /\ Len(Sorted(q)) = Len(q)
<1> DEFINE f == CHOOSE f : SortedSoFar(q, Len(q), f)
<1>1. Len(q) \in Nat /\ \A i \in 1 .. Len(q) : q[i] \in P OBVIOUS
<1>2. SortedSoFar(q, Len(q), f) BY <1>1, SortedExists
<1>3. Sorted(q) = f[Len(q)] BY SortedIs
<1> HIDE DEF f
<1>4. \A n \in 0 .. Len(q) : f[n] = IF n = 0 THEN <<>> ELSE Inserted(f[n - 1], q[n])
  BY <1>2 DEF SortedSoFar
<1> DEFINE S == {n \in Nat : n <= Len(q) => f[n] \in Seq(P) /\ Len(f[n]) = n}
<1>5. 0 \in S
  <2>1. f[0] = <<>> BY <1>1, <1>4
  <2>2. <<>> \in Seq(P) /\ Len(<<>>) = 0 OBVIOUS
  <2>3. QED BY <2>1, <2>2
<1>6. ASSUME NEW n \in Nat, n \in S PROVE n + 1 \in S
  <2> SUFFICES ASSUME n + 1 <= Len(q)
               PROVE  f[n + 1] \in Seq(P) /\ Len(f[n + 1]) = n + 1
    OBVIOUS
  <2>1. /\ n + 1 \in 0 .. Len(q) /\ n + 1 # 0 /\ (n + 1) - 1 = n
        /\ n <= Len(q) /\ n + 1 \in 1 .. Len(q)
    BY <1>1
  <2>2. f[n + 1] = Inserted(f[n], q[n + 1]) BY <1>4, <2>1
  <2>3. f[n] \in Seq(P) /\ Len(f[n]) = n /\ q[n + 1] \in P BY <1>1, <1>6, <2>1
  <2> DEFINE a == f[n]
             w == q[n + 1]
  <2>4. a \in Seq(P) /\ w \in P /\ Len(a) = n BY <2>3
  <2> HIDE DEF a, w
  <2>5. Inserted(a, w) \in Seq(P) /\ Len(Inserted(a, w)) = Len(a) + 1
    BY <2>4, InsertedIs
  <2>6. QED BY <2>2, <2>4, <2>5 DEF a, w
<1> HIDE DEF S
<1>7. \A n \in Nat : n \in S BY <1>5, <1>6, NatSet
<1>8. QED BY <1>1, <1>3, <1>7 DEF S

-----------------------------------------------------------------------------
(* The names of mechanisms, joined.                                        *)

(* What two texts hold together.                                           *)
LEMMA CatHas ==
  ASSUME NEW a \in Seq(Nat), NEW b \in Seq(Nat), NEW c
  PROVE  Has(Cat(a, b), c) <=> Has(a, c) \/ Has(b, c)
BY HasIn DEF Cat

(* A text of one character.                                                *)
LEMMA One ==
  ASSUME NEW c \in Nat
  PROVE  /\ <<c>> \in Seq(Nat) /\ <<c>> # <<>>
         /\ \A x : Has(<<c>>, x) <=> x = c
<1>1. <<c>> \in Seq(Nat) /\ Len(<<c>>) = 1 /\ << c >>[1] = c OBVIOUS
<1>2. <<c>> # <<>> OBVIOUS
<1>3. QED BY <1>1, <1>2 DEF Has

(* The text t is a and b joined by c.                                      *)
CatParts(t, a, c, b) ==
  /\ t \in Seq(Nat) /\ Len(t) = Len(a) + 1 + Len(b)
  /\ \A i \in 1 .. Len(a) : t[i] = a[i]
  /\ t[Len(a) + 1] = c
  /\ \A i \in 1 .. Len(b) : t[Len(a) + 1 + i] = b[i]

(* The characters of two texts together.                                   *)
LEMMA CatIs ==
  ASSUME NEW a \in Seq(Nat), NEW b \in Seq(Nat)
  PROVE  /\ Cat(a, b) \in Seq(Nat) /\ Len(Cat(a, b)) = Len(a) + Len(b)
         /\ \A i \in 1 .. Len(a) : Cat(a, b)[i] = a[i]
         /\ \A i \in 1 .. Len(b) : Cat(a, b)[Len(a) + i] = b[i]
<1>1. a \o b \in Seq(Nat) /\ Len(a \o b) = Len(a) + Len(b) BY ConcatProperties
<1>2. \A i \in 1 .. Len(a) : (a \o b)[i] = a[i] OBVIOUS
<1>3. \A i \in 1 .. Len(b) : (a \o b)[Len(a) + i] = b[i] OBVIOUS
<1>4. QED BY <1>1, <1>2, <1>3 DEF Cat

(* Joining two texts by a separator.                                       *)
LEMMA CatJoined ==
  ASSUME NEW a \in Seq(Nat), NEW b \in Seq(Nat), NEW c \in Nat
  PROVE  CatParts(Cat(a, Cat(<<c>>, b)), a, c, b)
<1> DEFINE w == <<c>>
<1>1. w \in Seq(Nat) /\ Len(w) = 1 /\ w[1] = c OBVIOUS
<1> HIDE DEF w
<1> DEFINE v == Cat(w, b)
<1>2. /\ v \in Seq(Nat) /\ Len(v) = Len(w) + Len(b)
      /\ \A i \in 1 .. Len(w) : v[i] = w[i]
      /\ \A i \in 1 .. Len(b) : v[Len(w) + i] = b[i]
  BY <1>1, CatIs
<1> HIDE DEF v
<1> DEFINE t == Cat(a, v)
<1>3. /\ t \in Seq(Nat) /\ Len(t) = Len(a) + Len(v)
      /\ \A i \in 1 .. Len(a) : t[i] = a[i]
      /\ \A i \in 1 .. Len(v) : t[Len(a) + i] = v[i]
  BY <1>2, CatIs
<1> HIDE DEF t
<1> DEFINE n == Len(a)
           m == Len(b)
<1>4. n \in Nat /\ m \in Nat OBVIOUS
<1> HIDE DEF n, m
<1>5. Len(v) = 1 + m /\ Len(t) = n + 1 + m BY <1>1, <1>2, <1>3, <1>4 DEF n, m
<1>6. t[n + 1] = c
  <2>1. 1 \in 1 .. Len(v) /\ 1 \in 1 .. Len(w) BY <1>1, <1>4, <1>5
  <2>2. t[n + 1] = v[1] /\ v[1] = w[1] BY <1>2, <1>3, <2>1 DEF n
  <2>3. QED BY <1>1, <2>2
<1>7. ASSUME NEW i \in 1 .. m PROVE t[n + 1 + i] = b[i]
  <2>1. 1 + i \in 1 .. Len(v) /\ n + (1 + i) = n + 1 + i BY <1>4, <1>5
  <2>2. t[n + (1 + i)] = v[1 + i] BY <1>3, <2>1 DEF n
  <2>3. v[1 + i] = b[i] BY <1>1, <1>2 DEF m
  <2>4. QED BY <2>1, <2>2, <2>3
<1>8. CatParts(t, a, c, b) BY <1>3, <1>5, <1>6, <1>7 DEF CatParts, n, m
<1>9. QED BY <1>8 DEF t, v, w

(* The last separator of a text so joined is the one it was joined with.   *)
LEMMA LastOfParts ==
  ASSUME NEW t, NEW a \in Seq(Nat), NEW b \in Seq(Nat), NEW c \in Nat,
         CatParts(t, a, c, b), ~Has(b, c)
  PROVE  LastAt(t, c) = Len(a) + 1
<1> DEFINE n == Len(a)
           m == Len(b)
<1>1. n \in Nat /\ m \in Nat OBVIOUS
<1>2. /\ t \in Seq(Nat) /\ Len(t) = n + 1 + m /\ t[n + 1] = c
      /\ \A i \in 1 .. m : t[n + 1 + i] = b[i]
  BY DEF CatParts
<1>3. \A i \in 1 .. m : b[i] # c BY DEF Has
<1> HIDE DEF n, m
<1>4. ASSUME NEW i \in 1 .. Len(t), i > n + 1 PROVE t[i] # c
  <2>1. i - (n + 1) \in 1 .. m /\ n + 1 + (i - (n + 1)) = i
    BY <1>1, <1>2, <1>4
  <2>2. t[i] = b[i - (n + 1)] BY <1>2, <2>1
  <2>3. QED BY <1>3, <2>1, <2>2
<1> DEFINE k == n + 1
<1>5. k \in 1 .. Len(t) /\ t[k] = c BY <1>1, <1>2
<1>6. \A i \in 1 .. Len(t) : i > k => t[i] # c BY <1>4
<1> HIDE DEF k
<1>7. LastAt(t, c) = k BY <1>2, <1>5, <1>6, LastAtEquals
<1>8. QED BY <1>7 DEF n, k

(* A text is taken apart at its last separator in one way.                 *)
LEMMA SplitLast ==
  ASSUME NEW a \in Seq(Nat), NEW b \in Seq(Nat), NEW d \in Seq(Nat), NEW e \in Seq(Nat),
         NEW c \in Nat, ~Has(b, c), ~Has(e, c),
         Cat(a, Cat(<<c>>, b)) = Cat(d, Cat(<<c>>, e))
  PROVE  a = d /\ b = e
<1> DEFINE t == Cat(a, Cat(<<c>>, b))
<1>1. CatParts(t, a, c, b) BY CatJoined
<1>2. CatParts(t, d, c, e)
  <2>1. CatParts(Cat(d, Cat(<<c>>, e)), d, c, e) BY CatJoined
  <2>2. QED BY <2>1, Zenon
<1> HIDE DEF t
<1>3. LastAt(t, c) = Len(a) + 1 /\ LastAt(t, c) = Len(d) + 1
  BY <1>1, <1>2, LastOfParts
<1>4. Len(t) = Len(a) + 1 + Len(b) /\ Len(t) = Len(d) + 1 + Len(e)
  BY <1>1, <1>2 DEF CatParts
<1>5. Len(a) \in Nat /\ Len(b) \in Nat /\ Len(d) \in Nat /\ Len(e) \in Nat OBVIOUS
<1>6. Len(a) = Len(d) /\ Len(b) = Len(e) BY <1>3, <1>4, <1>5
<1>7. a = d
  <2>1. \A i \in 1 .. Len(a) : a[i] = d[i] BY <1>1, <1>2, <1>6 DEF CatParts
  <2>2. QED BY <1>6, <2>1, SeqEqual
<1>8. b = e
  <2>1. \A i \in 1 .. Len(b) : b[i] = e[i] BY <1>1, <1>2, <1>6 DEF CatParts
  <2>2. QED BY <1>6, <2>1, SeqEqual
<1>9. QED BY <1>7, <1>8

-----------------------------------------------------------------------------
(* The joined names, after each of the first m.                            *)
Glued(p, m, f) == f = [i \in 1 .. m |-> IF i = 1 THEN p[i] ELSE Cat(f[i - 1], p[i])]

(* FlattenSeq is the last of them.                                         *)
LEMMA FlattenIs ==
  ASSUME NEW p, Len(p) # 0
  PROVE  FlattenSeq(p) = (CHOOSE f : Glued(p, Len(p), f))[Len(p)]
BY DEF FlattenSeq, Glued, Cat

(* There is such a function for every m.                                   *)
LEMMA GluedExists ==
  ASSUME NEW p
  PROVE  \A m \in Nat : \E f : Glued(p, m, f)
<1> DEFINE S == {m \in Nat : \E f : Glued(p, m, f)}
<1>1. 0 \in S
  <2>1. 1 .. 0 = {} OBVIOUS
  <2> DEFINE f == [i \in 1 .. 0 |-> <<>>]
  <2>2. Glued(p, 0, f) BY <2>1 DEF Glued
  <2>3. QED BY <2>2
<1>2. ASSUME NEW m \in Nat, m \in S PROVE m + 1 \in S
  <2>1. PICK f : Glued(p, m, f) BY <1>2
  <2> DEFINE g == [i \in 1 .. m + 1 |-> IF i <= m THEN f[i]
                                        ELSE IF i = 1 THEN p[i] ELSE Cat(f[m], p[i])]
  <2>2. ASSUME NEW i \in 1 .. m + 1
        PROVE  g[i] = IF i = 1 THEN p[i] ELSE Cat(g[i - 1], p[i])
    <3>1. CASE i <= m
      <4>1. g[i] = f[i] BY <3>1
      <4>2. i # 1 => g[i - 1] = f[i - 1] BY <3>1
      <4>3. i \in 1 .. m BY <3>1
      <4>4. f[i] = IF i = 1 THEN p[i] ELSE Cat(f[i - 1], p[i])
        BY <2>1, <4>3 DEF Glued
      <4>5. QED BY <4>1, <4>2, <4>4
    <3>2. CASE i = m + 1
      <4>1. g[i] = IF i = 1 THEN p[i] ELSE Cat(f[m], p[i]) BY <3>2
      <4>2. i # 1 => g[i - 1] = f[m] BY <3>2
      <4>3. QED BY <4>1, <4>2
    <3>3. QED BY <3>1, <3>2
  <2>3. g = [i \in 1 .. m + 1 |-> g[i]] OBVIOUS
  <2> HIDE DEF g
  <2>4. Glued(p, m + 1, g) BY <2>2, <2>3 DEF Glued
  <2>5. QED BY <2>4
<1> HIDE DEF S
<1>3. \A m \in Nat : m \in S BY <1>1, <1>2, NatSet
<1>4. QED BY <1>3 DEF S

(* The names joined by RS, after each of them.                             *)
Chain(q, f) ==
  \A i \in 1 .. Len(q) :
    f[i] = IF i = 1 THEN q[1] ELSE Cat(f[i - 1], Cat(<<RS>>, q[i]))

(* Join is the last of the chain.                                          *)
LEMMA JoinIs ==
  ASSUME NEW q \in Seq(Plain)
  PROVE  /\ Len(q) = 0 => Join(q, RS) = <<>>
         /\ Len(q) # 0 => \E f : Chain(q, f) /\ Join(q, RS) = f[Len(q)]
<1> DEFINE p == [i \in DOMAIN q |-> IF i = 1 THEN q[i] ELSE <<RS>> \o q[i]]
<1>1. Join(q, RS) = FlattenSeq(p) BY DEF Join
<1>2. DOMAIN q = 1 .. Len(q) /\ Len(q) \in Nat OBVIOUS
<1>3. /\ DOMAIN p = 1 .. Len(q) /\ p = [i \in 1 .. Len(q) |-> p[i]]
      /\ \A i \in 1 .. Len(q) : p[i] = IF i = 1 THEN q[1] ELSE Cat(<<RS>>, q[i])
  BY <1>2 DEF Cat
<1> HIDE DEF p
<1>4. Len(p) = Len(q)
  <2> DEFINE n == Len(q)
  <2>1. n \in Nat BY <1>2
  <2> HIDE DEF n
  <2>2. Len([i \in 1 .. n |-> p[i]]) = n BY <2>1
  <2>3. QED BY <1>3, <2>2 DEF n
<1>5. ASSUME Len(q) = 0 PROVE Join(q, RS) = <<>>
  <2>1. Join(q, RS) = p BY <1>1, <1>4, <1>5 DEF FlattenSeq
  <2>2. 1 .. Len(q) = {} BY <1>5
  <2>3. p = <<>> BY <1>3, <2>2
  <2>4. QED BY <2>1, <2>3
<1>6. ASSUME Len(q) # 0 PROVE \E f : Chain(q, f) /\ Join(q, RS) = f[Len(q)]
  <2> DEFINE f == CHOOSE f : Glued(p, Len(q), f)
  <2>1. Glued(p, Len(q), f) BY <1>2, GluedExists
  <2>2. Join(q, RS) = f[Len(q)] BY <1>1, <1>4, <1>6, FlattenIs
  <2> HIDE DEF f
  <2>3. Chain(q, f)
    <3> SUFFICES ASSUME NEW i \in 1 .. Len(q)
                 PROVE  f[i] = IF i = 1 THEN q[1] ELSE Cat(f[i - 1], Cat(<<RS>>, q[i]))
      BY DEF Chain
    <3>1. f[i] = IF i = 1 THEN p[i] ELSE Cat(f[i - 1], p[i]) BY <2>1 DEF Glued
    <3>2. QED BY <1>3, <3>1
  <2>4. QED BY <2>2, <2>3
<1>7. QED BY <1>5, <1>6

(* Every text of a chain has no US, and an RS from the second name on.     *)
LEMMA ChainTexts ==
  ASSUME NEW q \in Seq(Plain), NEW f, Chain(q, f)
  PROVE  \A i \in 1 .. Len(q) :
           /\ f[i] \in Seq(Nat) /\ f[i] # <<>> /\ ~Has(f[i], US)
           /\ i = 1 <=> ~Has(f[i], RS)
<1> DEFINE T(i) == /\ f[i] \in Seq(Nat) /\ f[i] # <<>> /\ ~Has(f[i], US)
                   /\ i = 1 <=> ~Has(f[i], RS)
           S == {n \in Nat : n \in 1 .. Len(q) => T(n)}
<1>1. RS \in Nat /\ US \in Nat /\ RS # US BY DEF RS, US
<1>2. \A i \in 1 .. Len(q) : /\ q[i] \in Seq(Nat) /\ q[i] # <<>>
                             /\ ~Has(q[i], RS) /\ ~Has(q[i], US)
  <2> TAKE i \in 1 .. Len(q)
  <2>1. q[i] \in Plain OBVIOUS
  <2>2. QED BY <2>1 DEF Plain
<1>3. 0 \in S OBVIOUS
<1>4. ASSUME NEW n \in Nat, n \in S PROVE n + 1 \in S
  <2> SUFFICES ASSUME n + 1 \in 1 .. Len(q) PROVE T(n + 1) OBVIOUS
  <2>1. CASE n = 0
    <3>1. f[n + 1] = q[1] BY <2>1 DEF Chain
    <3>2. QED BY <1>2, <2>1, <3>1
  <2>2. CASE n # 0
    <3>1. f[n + 1] = Cat(f[n], Cat(<<RS>>, q[n + 1])) BY <2>2 DEF Chain
    <3>2. n \in 1 .. Len(q) BY <2>2
    <3>3. f[n] \in Seq(Nat) /\ f[n] # <<>> /\ ~Has(f[n], US) BY <1>4, <3>2
    <3> DEFINE w == <<RS>>
               b == Cat(w, q[n + 1])
    <3>4. w \in Seq(Nat) /\ Has(w, RS) /\ ~Has(w, US) BY <1>1, One
    <3> HIDE DEF w
    <3>5. b \in Seq(Nat) /\ Has(b, RS) /\ ~Has(b, US) BY <1>2, <3>4, CatSeq, CatHas
    <3>6. f[n + 1] = Cat(f[n], b) BY <3>1 DEF w
    <3> HIDE DEF b
    <3>7. f[n + 1] \in Seq(Nat) /\ Has(f[n + 1], RS) /\ ~Has(f[n + 1], US)
      BY <3>3, <3>5, <3>6, CatSeq, CatHas
    <3>8. f[n + 1] # <<>> BY <3>7 DEF Has
    <3>9. QED BY <2>2, <3>7, <3>8
  <2>3. QED BY <2>1, <2>2
<1> HIDE DEF S
<1>5. \A n \in Nat : n \in S BY <1>3, <1>4, NatSet
<1>6. QED BY <1>5 DEF S

(* Two chains that reach the same text have joined the same names.         *)
LEMMA ChainsMeet ==
  ASSUME NEW q \in Seq(Plain), NEW r \in Seq(Plain), NEW f, NEW g, Chain(q, f), Chain(r, g)
  PROVE  \A n \in 1 .. Len(q), k \in 1 .. Len(r) :
           f[n] = g[k] => n = k /\ \A i \in 1 .. n : q[i] = r[i]
<1> DEFINE Same(n, k) == n = k /\ \A i \in 1 .. n : q[i] = r[i]
           S == {n \in Nat : n \in 1 .. Len(q) =>
                               \A k \in 1 .. Len(r) : f[n] = g[k] => Same(n, k)}
<1>1. /\ \A i \in 1 .. Len(q) : f[i] \in Seq(Nat) /\ (i = 1 <=> ~Has(f[i], RS))
      /\ \A i \in 1 .. Len(r) : g[i] \in Seq(Nat) /\ (i = 1 <=> ~Has(g[i], RS))
  BY ChainTexts
<1>2. /\ \A i \in 1 .. Len(q) : q[i] \in Seq(Nat) /\ ~Has(q[i], RS)
      /\ \A i \in 1 .. Len(r) : r[i] \in Seq(Nat) /\ ~Has(r[i], RS)
  <2>1. /\ \A i \in 1 .. Len(q) : q[i] \in Plain
        /\ \A i \in 1 .. Len(r) : r[i] \in Plain
    OBVIOUS
  <2>2. QED BY <2>1 DEF Plain
<1>3. 0 \in S OBVIOUS
<1>4. ASSUME NEW n \in Nat, n \in S PROVE n + 1 \in S
  <2> SUFFICES ASSUME n + 1 \in 1 .. Len(q), NEW k \in 1 .. Len(r), f[n + 1] = g[k]
               PROVE  Same(n + 1, k)
    OBVIOUS
  <2>1. n + 1 = 1 <=> k = 1 BY <1>1
  <2>2. CASE n = 0
    <3>1. k = 1 /\ f[1] = q[1] /\ g[1] = r[1] BY <2>1, <2>2 DEF Chain
    <3>2. \A i \in 1 .. 1 : i = 1 OBVIOUS
    <3>3. QED BY <2>2, <3>1, <3>2
  <2>3. CASE n # 0
    <3> DEFINE j == k - 1
    <3>1. n \in 1 .. Len(q) /\ k # 1 /\ j \in 1 .. Len(r) /\ k = j + 1 BY <2>1, <2>3
    <3>2. f[n + 1] = Cat(f[n], Cat(<<RS>>, q[n + 1])) BY <2>3 DEF Chain
    <3>3. g[k] = Cat(g[j], Cat(<<RS>>, r[k])) BY <3>1 DEF Chain
    <3>4. RS \in Nat BY DEF RS
    <3>5. f[n] = g[j] /\ q[n + 1] = r[k]
      <4>1. f[n] \in Seq(Nat) /\ g[j] \in Seq(Nat) BY <1>1, <3>1
      <4>2. /\ q[n + 1] \in Seq(Nat) /\ r[k] \in Seq(Nat)
            /\ ~Has(q[n + 1], RS) /\ ~Has(r[k], RS)
        BY <1>2
      <4>3. Cat(f[n], Cat(<<RS>>, q[n + 1])) = Cat(g[j], Cat(<<RS>>, r[k]))
        BY <3>2, <3>3
      <4> HIDE DEF j
      <4>4. QED BY <3>4, <4>1, <4>2, <4>3, SplitLast
    <3> HIDE DEF j
    <3>6. n = j /\ \A i \in 1 .. n : q[i] = r[i] BY <1>4, <3>1, <3>5
    <3>7. \A i \in 1 .. n + 1 : i \in 1 .. n \/ i = n + 1 OBVIOUS
    <3>8. QED BY <3>1, <3>5, <3>6, <3>7
  <2>4. QED BY <2>2, <2>3
<1> HIDE DEF S
<1>5. \A n \in Nat : n \in S BY <1>3, <1>4, NatSet
<1>6. QED BY <1>5 DEF S

(* Two lists of names that read the same are the same list.                *)
LEMMA JoinInjective ==
  ASSUME NEW q \in Seq(Plain), NEW r \in Seq(Plain), Join(q, RS) = Join(r, RS)
  PROVE  q = r
<1>1. Len(q) \in Nat /\ Len(r) \in Nat OBVIOUS
<1>2. ASSUME NEW s \in Seq(Plain), Len(s) # 0 PROVE Join(s, RS) # <<>>
  <2>1. PICK f : Chain(s, f) /\ Join(s, RS) = f[Len(s)] BY <1>2, JoinIs
  <2>2. Len(s) \in 1 .. Len(s) BY <1>2
  <2>3. QED BY <2>1, <2>2, ChainTexts
<1>3. CASE Len(q) = 0
  <2>1. Join(q, RS) = <<>> BY <1>3, JoinIs
  <2>2. Len(r) = 0 BY <1>2, <2>1
  <2>3. QED BY <1>3, <2>2
<1>4. CASE Len(q) # 0
  <2>1. Len(r) # 0
    <3>1. Join(q, RS) # <<>> BY <1>2, <1>4
    <3>2. QED BY <3>1, JoinIs
  <2>2. PICK f : Chain(q, f) /\ Join(q, RS) = f[Len(q)] BY <1>4, JoinIs
  <2>3. PICK g : Chain(r, g) /\ Join(r, RS) = g[Len(r)] BY <2>1, JoinIs
  <2>4. Len(q) \in 1 .. Len(q) /\ Len(r) \in 1 .. Len(r) BY <1>1, <1>4, <2>1
  <2> DEFINE n == Len(q)
             k == Len(r)
  <2>5. f[n] = g[k] BY <2>2, <2>3
  <2>6. n \in 1 .. Len(q) /\ k \in 1 .. Len(r) BY <2>4
  <2>7. Chain(q, f) /\ Chain(r, g) BY <2>2, <2>3
  <2> HIDE DEF n, k
  <2>8. n = k /\ \A i \in 1 .. n : q[i] = r[i] BY <2>5, <2>6, <2>7, ChainsMeet
  <2>9. QED BY <2>8, SeqEqual DEF n, k
<1>5. QED BY <1>3, <1>4

(* A list of names is joined to a text without US.                         *)
LEMMA JoinText ==
  ASSUME NEW q \in Seq(Plain)
  PROVE  Join(q, RS) \in Seq(Nat) /\ ~Has(Join(q, RS), US)
<1>1. Len(q) \in Nat OBVIOUS
<1>2. CASE Len(q) = 0
  <2>1. Join(q, RS) = <<>> BY <1>2, JoinIs
  <2>2. <<>> \in Seq(Nat) /\ Len(<<>>) = 0 OBVIOUS
  <2>3. \A i \in 1 .. 0 : FALSE OBVIOUS
  <2>4. QED BY <2>1, <2>2, <2>3 DEF Has
<1>3. CASE Len(q) # 0
  <2>1. PICK f : Chain(q, f) /\ Join(q, RS) = f[Len(q)] BY <1>3, JoinIs
  <2>2. Len(q) \in 1 .. Len(q) BY <1>1, <1>3
  <2>3. QED BY <2>1, <2>2, ChainTexts
<1>4. QED BY <1>2, <1>3

(* The empty text adds nothing.                                            *)
LEMMA CatNothing ==
  ASSUME NEW a \in Seq(Nat)
  PROVE  Cat(a, <<>>) = a
BY DEF Cat


(* What scramDowngradeString makes of sorted names.                        *)
TextOf(m, cb, b) == Cat(Join(m, RS), IF cb THEN Cat(<<US>>, Join(b, RS)) ELSE <<>>)

(* DowngradeString sorts the names first.                                  *)
LEMMA DowngradeIs ==
  ASSUME NEW m, NEW cb, NEW b
  PROVE  DowngradeString(m, cb, b) = TextOf(Sorted(m), cb, Sorted(b))
BY Zenon DEF DowngradeString, TextOf, Cat

(* The text shows whether a list of channel bindings was sent.             *)
LEMMA TextShows ==
  ASSUME NEW m \in Seq(Plain), NEW cb \in BOOLEAN, NEW b \in Seq(Plain)
  PROVE  Has(TextOf(m, cb, b), US) <=> cb
<1> DEFINE x == Join(m, RS)
           y == Join(b, RS)
           w == <<US>>
           v == Cat(w, y)
<1>1. x \in Seq(Nat) /\ ~Has(x, US) /\ y \in Seq(Nat) BY JoinText
<1>2. w \in Seq(Nat) /\ Has(w, US) BY One DEF US
<1>3. TextOf(m, cb, b) = IF cb THEN Cat(x, v) ELSE Cat(x, <<>>) BY DEF TextOf
<1> HIDE DEF x, y, w
<1>4. v \in Seq(Nat) /\ Has(v, US) BY <1>1, <1>2, CatSeq, CatHas
<1> HIDE DEF v
<1>5. Has(Cat(x, v), US) BY <1>1, <1>4, CatHas
<1>6. Cat(x, <<>>) = x BY <1>1, CatNothing
<1>7. QED BY <1>1, <1>3, <1>5, <1>6

(* The names can be read off the text.                                     *)
LEMMA TextReads ==
  ASSUME NEW m \in Seq(Plain), NEW cb \in BOOLEAN, NEW b \in Seq(Plain),
         NEW n \in Seq(Plain), NEW cn \in BOOLEAN, NEW d \in Seq(Plain),
         TextOf(m, cb, b) = TextOf(n, cn, d)
  PROVE  m = n /\ cb = cn /\ (cb => b = d)
<1>1. cb = cn BY TextShows
<1> DEFINE x == Join(m, RS)
           y == Join(b, RS)
           u == Join(n, RS)
           z == Join(d, RS)
<1>2. /\ x \in Seq(Nat) /\ y \in Seq(Nat) /\ u \in Seq(Nat) /\ z \in Seq(Nat)
      /\ ~Has(y, US) /\ ~Has(z, US)
  BY JoinText
<1>3. US \in Nat BY DEF US
<1>4. /\ cb => Cat(x, Cat(<<US>>, y)) = Cat(u, Cat(<<US>>, z))
      /\ ~cb => Cat(x, <<>>) = Cat(u, <<>>)
  BY <1>1 DEF TextOf
<1> HIDE DEF x, y, u, z
<1>5. cb => x = u /\ y = z BY <1>2, <1>3, <1>4, SplitLast
<1>6. ~cb => x = u BY <1>2, <1>4, CatNothing
<1>7. m = n BY <1>5, <1>6, JoinInjective DEF x, u
<1>8. cb => b = d BY <1>5, JoinInjective DEF y, z
<1>9. QED BY <1>1, <1>7, <1>8

(* Two offers of valid names that hash alike offer the same names.         *)
LEMMA HashReads ==
  ASSUME NEW m \in Seq(Seq(Nat)), NEW b \in Seq(Seq(Nat)), NEW cb \in BOOLEAN,
         NEW n \in Seq(Seq(Nat)), NEW d \in Seq(Seq(Nat)), NEW cn \in BOOLEAN,
         NamesAreValid(m, b), NamesAreValid(n, d),
         DowngradeString(m, cb, b) = DowngradeString(n, cn, d)
  PROVE  Sorted(m) = Sorted(n) /\ cb = cn /\ (cb => Sorted(b) = Sorted(d))
<1> DEFINE sm == Sorted(m)
           sb == Sorted(b)
           sn == Sorted(n)
           sd == Sorted(d)
<1>1. m \in Seq(Plain) /\ b \in Seq(Plain) /\ n \in Seq(Plain) /\ d \in Seq(Plain)
  BY ValidNames
<1>2. sm \in Seq(Plain) /\ sb \in Seq(Plain) /\ sn \in Seq(Plain) /\ sd \in Seq(Plain)
  BY <1>1, SortedKeeps
<1>3. TextOf(sm, cb, sb) = TextOf(sn, cn, sd) BY DowngradeIs
<1> HIDE DEF sm, sb, sn, sd
<1>4. sm = sn /\ cb = cn /\ (cb => sb = sd) BY <1>2, <1>3, TextReads
<1>5. QED BY <1>4 DEF sm, sb, sn, sd

-----------------------------------------------------------------------------
(* An exchange is about an offer of this server.                           *)
LEMMA OffersExchanged == Spec => [](scram.offer \in Offers \cup {NoOffer})
<1> DEFINE Known == scram.offer \in Offers \cup {NoOffer}
<1>1. NoExchange.offer = NoOffer BY DEF NoExchange
<1>2. Init => Known BY <1>1 DEF Init
<1>3. Known /\ Exchange /\ [Next]_vars => Known'
  <2> SUFFICES ASSUME Known, Exchange, [Next]_vars PROVE Known' OBVIOUS
  <2>1. CASE scram' = scram BY <2>1
  <2>2. CASE scram' = NoExchange BY <1>1, <2>2
  <2>3. \A s : BeginAuth(s) => scram' = scram \/ scram' = NoExchange
    BY DEF BeginAuth, FailAs, Fail
  <2>4. \A s : AfterTLS(s) => scram' = scram \/ scram' = NoExchange
    BY <2>3 DEF AfterTLS
  <2>5. CASE NewClient \/ Connect \/ RestartAuth
    BY <2>1, <2>2, <2>5 DEF NewClient, Connect, RestartAuth
  <2>6. CASE ReadFeatures BY <2>1, <2>2, <2>4, <2>6 DEF ReadFeatures, Refuse
  <2>7. CASE StartTLS BY <2>1, <2>2, <2>4, <2>7 DEF StartTLS, Refuse
  <2>8. CASE RestartTLS BY <2>1, <2>2, <2>3, <2>8 DEF RestartTLS
  <2>9. CASE ReadChallenge
    <3>1. ASSUME NEW first \in ServerFirsts, NEW reply,
                 scram' = [NoExchange EXCEPT !.sent = first.message, !.read = reply.message,
                                             !.offer = first.offer]
          PROVE  Known'
      <4>1. first.offer \in Offers \cup {NoOffer}
        <5>1. PICK o \in Offers, hashed \in BOOLEAN : first = ServerFirst(o, hashed)
          BY DEF ServerFirsts
        <5>2. first.offer = IF hashed THEN o ELSE NoOffer BY <5>1 DEF ServerFirst
        <5>3. QED BY <5>2
      <4>2. scram'.offer = first.offer BY <3>1 DEF NoExchange
      <4>3. QED BY <4>1, <4>2
    <3>2. QED BY <2>1, <2>9, <3>1 DEF ReadChallenge
  <2>10. CASE ReadOutcome
    <3>1. ASSUME NEW secret, NEW b, scram' = [scram EXCEPT !.secret = secret, !.signed = b]
          PROVE  Known'
      <4>1. scram = [sent |-> scram.sent, read |-> scram.read, secret |-> scram.secret,
                     offer |-> scram.offer, signed |-> scram.signed]
        BY DEF Exchange
      <4>2. scram'.offer = scram.offer BY <3>1, <4>1
      <4>3. QED BY <4>2
    <3>2. QED BY <2>1, <2>2, <2>10, <3>1 DEF ReadOutcome
  <2>11. CASE Resume \/ Bind \/ OpenSession \/ Enable \/ Lose \/ UNCHANGED vars
    BY <2>1, <2>11 DEF Resume, Bind, OpenSession, Enable, Lose, vars
  <2>12. QED
    BY <2>5, <2>6, <2>7, <2>8, <2>9, <2>10, <2>11 DEF Next
<1> HIDE DEF Known
<1>4. Spec => []Known BY <1>2, <1>3, ExchangeInvariance, PTL DEF Spec
<1>5. QED BY <1>4 DEF Known

(* What SASL takes for a success with a signature is an exchange with the  *)
(* server that holds the password, over the mechanisms and channel         *)
(* bindings it offered: two lists of valid names with one hash are the     *)
(* same list                                                               *)
(* (verifySCRAMDowngradeHash, scramDowngradeString, authScram).            *)
THEOREM ExchangesGenuine == Spec => []ExchangeIsGenuine
<1>1. IInv /\ HashesAgree /\ scram.offer \in Offers \cup {NoOffer} => DowngradeDetected
  <2> SUFFICES ASSUME IInv, HashesAgree, scram.offer \in Offers,
                      phase = "restartAuth", scram.signed, scram.offer # NoOffer,
                      NamesAreValid(scram.offer.spelled, scram.offer.bindings)
               PROVE  LET f == session.features IN
                      /\ Sorted(f.spelled) = Sorted(scram.offer.spelled)
                      /\ f.cb = scram.offer.cb
                      /\ f.cb => Sorted(f.bindings) = Sorted(scram.offer.bindings)
    BY DEF DowngradeDetected
  <2> DEFINE f == session.features
             o == scram.offer
  <2>1. f \in Features BY DEF IInv, StateType, Sessions
  <2>2. /\ NoOffer.spelled \in Seq(Seq(Nat)) /\ NoOffer.bindings \in Seq(Seq(Nat))
        /\ NoOffer.cb \in BOOLEAN
    BY DEF NoOffer
  <2>3. f.spelled \in Seq(Seq(Nat)) /\ f.bindings \in Seq(Seq(Nat)) /\ f.cb \in BOOLEAN
    BY <2>1, <2>2, OffersAssumption DEF Features
  <2>4. o.spelled \in Seq(Seq(Nat)) /\ o.bindings \in Seq(Seq(Nat)) /\ o.cb \in BOOLEAN
    BY OffersAssumption
  <2>5. HashOf(o) # <<>> BY DEF HashOf, Hash
  <2>6. HashOf(f) = HashOf(o) /\ NamesAreValid(f.spelled, f.bindings)
    BY <2>5 DEF HashesAgree
  <2>7. DowngradeString(f.spelled, f.cb, f.bindings) = DowngradeString(o.spelled, o.cb, o.bindings)
    BY <2>6 DEF HashOf, Hash
  <2>8. NamesAreValid(o.spelled, o.bindings) OBVIOUS
  <2> HIDE DEF f, o
  <2>9. /\ Sorted(f.spelled) = Sorted(o.spelled) /\ f.cb = o.cb
        /\ f.cb => Sorted(f.bindings) = Sorted(o.bindings)
    BY <2>3, <2>4, <2>6, <2>7, <2>8, HashReads
  <2>10. QED BY <2>9 DEF f, o
<1>2. ServerVerified /\ DowngradeDetected => ExchangeIsGenuine BY DEF ExchangeIsGenuine
<1>3. QED BY <1>1, <1>2, Invariance, HashesMatch, OffersExchanged, ServerKnows, PTL
=============================================================================
