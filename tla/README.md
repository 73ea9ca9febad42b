# TLA+ models of go-xmpp

Specifications, model-checking configurations and machine-checked proofs for
this XMPP library: stream management (XEP-0198), IQ result routes, the life of a
client and of a component under a StreamManager, session negotiation with TLS
and SASL, the websocket transport, the type registry, the stanza decoders, the
pubsub requests and the routes.  Line numbers are those of the files at the
revision these modules were written against.

    tlc -config SMSession.cfg MCStreamManagement      # model-check one run
    tlapm StreamManagementProofs.tla                  # check the proofs of one module

## 1. The system

The library connects an XMPP *client* (over TCP or a websocket) or an XMPP
*component* (over TCP) to a server.

| Component | State | Operations | Hard parts |
|---|---|---|---|
| Stream management (`client.go`, `session.go`, `router.go`) | `SMState` {Id, Inbound, UnAckQueue}, `Session.Resumed`, `config.StreamManagementResume` | `Session.resume`, `EnableStreamManagement`, `Send`, `SendRaw`, `recv` on stanzas, `<r/>` and `<a/>`, `SendMissingStz` | connections lost between any two steps; senders in any number of goroutines; counters of client and server that must agree |
| UnAckQueue (`stanza/stream_management.go`) | `Uslice` of {Id, Stz}, a mutex | `Push`, `Peek`, `PeekN`, `Pop`, `PopN`, `Empty` | the methods take no lock, the two loops that trim do |
| IQ result routes (`router.go`, `client.go`, `component.go`) | `IQResultRoutes`, its lock, one unbuffered channel a route | `SendIQ`, `NewIQResultRoute`, `RemoveIQResultRoute`, `Router.route` | lookup and removal in two critical sections; contexts that end at any time; sends that block |
| Client lifecycle and StreamManager (`client.go`, `stream_manager.go`) | `transport`, `Session`, `CurrentState`, `Handler`, a WaitGroup | `Run`, `Stop`, the handler, `connect`, `Resume`, `recv`, `keepalive`, `Disconnect` | the handler runs in the goroutine that raised the event; goroutines outlive the connection they were started for |
| XMPPTransport (`xmpp_transport.go`) | `conn`, `decoder`, `readWriter`, `closeChan`, `isSecure` | `Connect`, `StartStream`, `StartTLS`, `Ping`, `Read`, `Write`, `Close`, `ReceivedStreamClose` | every field is replaced by `Connect` under the other goroutines; `Close` waits; `isSecure` outlives its connection |
| WebsocketTransport (`websocket_transport.go`) | `queue`, `closeCtx`, `wsConn` | the same | a reader goroutine; methods with value receivers whose assignments are lost |
| Session negotiation (`session.go`) | `Features`, `TlsEnabled`, `BindJid`, `SMState`, `err` | `NewSession` and its steps | a different outcome at each step, some returning a nil session; reconnections reuse session and transport |
| SASL (`auth.go`) | nonces, keys, server messages | `authSASL`, `authPlain`, `authScram` | order and checks of the SCRAM messages |
| Component lifecycle (`component.go`) | `transport`, `CurrentState` | `Connect`, `Resume`, `recv`, `Disconnect` | events raised, or not raised, on each exit of `recv`; handlers that resume inside `Resume` |
| Backoff (`backoff.go`) | its parameters, an attempt counter | `duration`, `durationForAttempt`, `reset`, `wait` | callers that count their own attempts |
| Route matching (`router.go`) | ordered list of routes | `Match`, `Packet`, `StanzaType`, `IQNamespaces`, `iqNotImplemented` | first match wins; capitals; errors that call for errors |
| Registry (`stanza/registry.go`) | two-level map, a lock | `MapExtension`, `GetExtensionType` | read and write under separate locks; an alias for the rest of a namespace |
| Stanza decoders (`stanza/parser.go`, `UnmarshalXML` methods) | the position in the stream | `InitStream`, `NextPacket`, one loop for each packet type | unknown children; a packet that ends early or fails disturbs those that follow |
| Stanza payloads (`stanza/pubsub.go`, `pubsub_owner.go`, `form.go`, ...) | none | 25 request builders, `GetFormFields` | a use case taken for another |
| Addresses, certificate checker (`network.go`, `jid.go`, `transport.go`, `cert_checker.go`) | none | `NewJid`, `Full`, `ensurePort`, the SRV choice, `Check` | separators inside parts; two ways to the same address |
| Logger, command line tool, examples, test server | none over time | I/O | none |

How they interact.  The application calls `StreamManager.Run`, which installs an
event handler and calls `Client.Connect`; that dials the transport, negotiates a
session, and starts `recv` and `keepalive`.  `recv` reads packets through the
decoders and gives each to `Router.route`, in a new goroutine for stanzas and in
its own for `<a/>`; `route` calls back `SendMissingStz`, a result channel or a
handler of the application, which may send.  When reading fails `recv` raises
*disconnected*; the handler calls `Resume` in the same goroutine until it
succeeds or a permanent error ends it.  All goroutines share `Client.transport`,
`Client.Session` and `Session.SMState` without a lock.  A component does the same
with a handshake in place of a session and a new transport each time.

What makes each component correct:

* stream management: stored stanzas stay queued until acknowledged, in order;
  nothing is dropped that the server did not handle; both sides' counters stay
  consistent over resumptions; requests drain the queue; a loss is noticed;
* result routes: the caller gets its own answer, exactly one, or its context
  ends; no route is left behind; nothing panics or blocks for good;
* lifecycle: one goroutine at a time reconnects; each reader reads its own
  connection; a lost session is replaced, a session given up for good is not;
  `Stop` and `Run` return;
* negotiation: no credentials before TLS unless configured, features read again
  after each restart, a server that proves itself, errors graded so that what can
  be retried is, a session that can still be resumed after a loss;
* component: one receiver, which reads the connection that `Send` uses; a loss is
  answered, a refusal is not;
* websocket: data stays in order and on its connection, whatever is closed
  meanwhile; a loss is noticed; nothing panics;
* registry: a registration that returned stays in force;
* decoders: a packet is what its element says, whatever unknown it holds;
* matchers, addresses: agreement with a direct definition.

## 2. Modules

| Module | What it is |
|---|---|
| `UnAckQueue` | the queue as operators on a sequence of entries |
| `StreamManagement` | the client's stream management against a server and a network |
| `InOrderDelivery` | abstract: what stream management promises about incoming stanzas |
| `MCStreamManagement` | symmetry of the senders, for TLC |
| `StreamManagementProofs` | the queue's operators, type correctness, the numbering and the order of the queue, proved |
| `StreamSessionProofs` | what client and server agree on, and the refinement of `InOrderDelivery`, proved |
| `IQRouter` | `SendIQ`, result routes and `Router.route`, for client and component |
| `MCIQRouter` | names and ids, for TLC |
| `IQRouterProofs` | the safety properties of `IQRouter`, proved |
| `ClientLifecycle` | Run, Stop, handler, connect, recv, keepalive, Close over numbered connections |
| `ClientLifecycleProofs` | its safety properties, proved |
| `Text` | what the Go functions on strings do, on short sequences of character codes |
| `Addresses` | `NewJid`, `Full`, `ensurePort`, `extractParams`, the SRV choice, the transport an address selects |
| `SASL` | the choice of the mechanism and what is checked in each message, as graded outcomes |
| `SessionNegotiation` | `NewClient` and `NewSession` over several connections; composes `Addresses` and `SASL` |
| `NegotiationProofs` | the safety of `SessionNegotiation`, proved |
| `MCNegotiation` | JIDs, addresses, SRV lists, configurations, servers and offers, for TLC |
| `ComponentLifecycle` | a component over its transports, with handlers; composes `Addresses` |
| `ComponentProofs` | its safety properties, proved |
| `WebsocketTransport` | the transport's fields, queue and reader with the client's goroutines |
| `WebsocketProofs` | the safety of `WebsocketTransport`, proved |
| `Registry` | `MapExtension` in its two critical sections, `GetExtensionType` |
| `StanzaDecoding` | tokens, decoders, dispatch, and the reading goroutine; composes `Registry` |
| `TreeDecoding` | reference: decoders defined on the tree of an element, to compare with |
| `PubSub` | the requests that the builders make, and `GetFormFields`, on the decoders |
| `RouteMatching` | matchers, routes and the answer to a request without one, on `StanzaDecoding` |
| `DecodingProofs` | registrations, decoders and routes: what holds for every element and table, proved |
| `MCDecoding` | stanzas, nonzas, requests, results and route tables, for TLC |

Definitions whose comment begins "Faulty variant" are not part of any
specification: each is a plausible mistake in the definition after it, and shows
that a property would notice it.

### StreamManagement

State.  `phase` is where the goroutine that connects, and later `recv`, is:
`auth` (dialled, up to SASL), `resuming` (`<resume/>` written), `enabling`
(`<enable/>` written), `setup` (session established), `running` (`recv` reads),
`dead` (`recv` returned without an event), `idle` (nobody connected; the handler
or the application may call `Resume` or `Connect`).  `smId`, `inbound`,
`queueObj` and `uaq` are `Session.SMState`; `queueObj` names the queue object,
so that a `Push` in progress can hit a queue that was replaced meanwhile.
`sender[s]` is a `Send` in progress.  `Push` reads `Uslice` twice and assigns
it, all without the lock: `SendStart` is the read for the id, `SendAppend` the
one of `append`, `SendPush` the assignment; `SendWrite` writes.
`pending`/`resending` are the local copy and the second half of
`SendMissingStz`, which runs after the lock is released. `toServer`/`toClient`
are the two directions of the connection.  `fate` and `handled` record what
became of each stanza, for the properties only.

Actions follow the code: `Dial` … `SetupFails` are `Client.connect`,
`NewSession`, `resume`, `EnableStreamManagement` and `postSessionSetup`, one
action per outcome; `Recv*` and `Resend*` are `recv` and `SendMissingStz`;
`Send*` are `Send` and `SendRaw`.  `Server*`, `ConnectionLost` and
`ServerForgets` are external: a server that counts what it handles, answers
`<r/>`, and on `<resume/>` replays what the client's count does not cover, or
refuses, or names another session.  A stanza written before the session is
resumed or enabled is never handled; the connection can only be lost then.

Kept out: the server always offers stream management; TLS, SASL and bind are one
step that succeeds or fails (they are `SessionNegotiation`'s subject); one
goroutine at a time connects (when several do is `ClientLifecycle`'s); write
errors appear as lost bytes, except where the code acts on them.  The three reads
and writes of `Uslice` are each atomic: a slice header torn by two of them, or an
index read past a slice that was trimmed meanwhile, is left out.

### IQRouter

A call, its route and its channel have one name.  `call[c]` is the position of
the caller in `SendIQ` (in a component `written` precedes the registration);
`routing[p]` is the position of `Router.route` for the stanza `p`, with the
route it found; `watcher[c]` is the goroutine started by `NewIQResultRoute`.
`Lookup` is the section under the read lock, `DeleteRoute` the one under the
write lock, `Deliver` the rendezvous on the unbuffered channel, `CloseResult`
the `close`.  A client routes every stanza in its own goroutine; with
`Component` only one stanza is routed at a time, in `recv`.  Ids are a constant:
`IdOf` may give one to several calls and requests of the peer.  A panic ends the
process.  A request of the
peer either has a matching route (`Handled`) or not; which it is is
`RouteMatching`'s subject.

### ClientLifecycle

A connection is a number; `conn`, `decoder` and `closeChan` say which connection
each field of the transport belongs to.  A goroutine is `<<kind, k>>`, `k` being
the connection it was started for; `at` is its program counter with its local
variables: the connection it dialled or reads, the `closeChan` it waits on, the
place to go on after `Close`, and the event whose handler it runs.  Since the
handler runs in the goroutine that raised the event, `recv` and the goroutine
left by a failed negotiation (`Drain`) pass through the same `dial`,
`negotiate`, `setup` places as `Run`.  `Close` is three steps: write and pick
`closeChan`; wait for its value or the timeout; close what is `conn` by then.  A
panic ends every goroutine.  A dial replaces the fields of the transport in one
step, and `Handler` is read once per event.  `ReadsStanza` counts in the session
and panics without one, as after a negotiation that failed elsewhere
(`client.go:457`).

### SessionNegotiation, SASL, Addresses, Text

One goroutine negotiates; an action is the code between two answers of the
server, so `phase` names the answer that is awaited.  `session` and `transport`
are what `Client.Session` and the transport hold, and survive from one
connection to the next as in the code: `session.tls`, `session.smId`,
`session.bound` (the connection a JID was bound on) and `session.stream` (the
stream its features came from), `transport.secure` (`isSecure`).  `wire` is the
truth of the connection: whether it is encrypted and how many streams were
opened.  `resumable` is `Config.StreamManagementResume`, which the client
changes.  `outcome` grades each failure as `NewConnError` does, and says whether
it was the write of a stream open that failed, which `StartStream` grades
permanent; `history` is for the properties.

`peer` and the choices inside the actions are every answer the code tells apart:
lost, a refusal, the expected answer, another packet.  In SCRAM the server sends
a first message with or without the hash of what it offered, the network may
leave out, add or change each part, and the server signs with a password that is
the client's or not.  Hashes, keys and signatures are abstract: equal exactly
when their inputs are.  Of `Addresses` the text is real: `ensurePort` and
`NewJid` are about characters.  `Check` of the certificate checker, which
negotiates by code of its own, is compared with what the client does.

### ComponentLifecycle

`transports` lists every transport that `Resume` made and what became of it;
`current` is the field that all goroutines read anew at each step.  `threads[g]`
is the application or a receiver: the place it is at, the transport it took, and
a stack of what it returns to, because the handler of an event calls `Resume`
in the goroutine that raised it, also inside another `Resume`.  Handlers are
none, one of the application that calls `Resume` once, or the manager's, which
`Run` installs before it fails.  Attempts wait for a backoff made by each loop;
the wait is not a step.

### WebsocketTransport

A queue, a context and a connection are named after the `Connect` that made
them.  `wsConn`, `queue`, `closeCtx` are the fields; a method with a value
receiver works on `copy`, the fields as they were when it was called.
`CloseQueue` and `CloseConn` are the two halves of `cleanup` on that copy; only
`SubprotocolMissing` goes through the pointer and clears the fields.  `reader`
is `startReader`, which sends to a queue of bounded capacity.  The goroutines
that call the transport are those of a client under a manager: the application's,
`recv` and `keepalive` of each connection, and the loop that reads on after a
failed negotiation (`Drain`, `client.go:275`).  `recv` tells apart stanzas, a
conflict, other stream errors and what cannot be decoded.  After a stream error
the handler closes, and connects again unless it was a conflict; then `recv`
closes what is current and reads on (`client.go:435`).  `BeginsRead` evaluates
the fields for the select of `Read`, so that it may wait on the queue of another
`Connect` than the one its goroutine was started for; two goroutines on one
queue share a decoder, and what they then read may be anything.  A send on a
closed queue, a second close, a nil field and a nil `Client.Session` are panics,
which end the process.

Abstracted: `queue` and `closeCtx`, which `Connect` sets in two lines, change in
one step, and so do `wsConn`, the reader and the decoder; the negotiation is one
step that succeeds, fails with or without a session, or fails after it; the fields
that goroutines of several connections share are read whole by a call with a value
receiver.

### Registry, StanzaDecoding, PubSub, RouteMatching

`Registry` names each inner map after the call that made it, so a registration
can go to a map that is not installed any more.  `StanzaDecoding` has an element
as a tree for the sender and as tokens for the decoders.  `Tokens` is a constant
operator: of it the module asks that every element that starts also ends, with
its own name (`Balanced`), which `encoding/xml` checks.  `Scan` is the loop of
`UnmarshalXML` over the tokens, `Turn` what it does with one, `Stops` the end
token it stops at, `Child` the table of each decoder, `Fits` what makes a decoder
fail.  `Decode` builds what every element inside decodes to, level by level, as
often as there are tokens.  `Tree` in `TreeDecoding` is the reference, a decoder
defined on trees.  `encoding/xml` is external, for plain structs
(children the tags do not name are skipped whole) and for the check that a
decoder stops at the end of its element.  `NextPacket` reads any element of
`Elements` while registrations run.

`PubSub` translates each builder to the element that is written, with its
refusals, and `GetFormFields` to the keys it returns, an error or a panic.
`RouteMatching` is evaluated for each packet that is read, for a set of tables.

Recursion in `StanzaDecoding` and `RouteMatching` is that of functions on the
positions of a sequence, which can be reasoned about; `TreeDecoding`, `PubSub`
and `MCDecoding` recurse over trees with recursive operators, and are for TLC.

## 3. What is checked

### Runs

| Run | Instance | Result |
|---|---|---|
| `SMSession` | 1 sender, 2 stanzas each way, 2 dials, 2 requests, fair | ids consecutive, stored stanzas stay and keep their order, one session is meant by both sides, claims sound, requests drain the queue; implements `InOrderDelivery` |
| `SMDiscard` | 1 sender, 2 stanzas, 2 dials, 1 request | **violated**: an unhandled stanza is discarded |
| `SMSenders` | 2 senders, 1 dial | **violated**: a stored stanza is lost |
| `IQResults` | client, 2 calls, 1 request of the peer with the id of one of them, fair | panics only on a route that two stanzas found; the other call gets its own result; no stale routes; answers arrive, contexts remove routes, requests answered |
| `IQComponent` | component, 2 calls with ids of their own, fair | **violated**: an answer never arrives |
| `Lifecycle` | 2 dials, 1 packet, every failure | single resumer, own connection, permanent errors end, no crash, each under its condition |
| `LifecycleLive` | 3 dials, no packet, stream failures, fair | reconnects, also after a `Close` that came late; `Run` returns after `Stop`; keepalives end |
| `Negotiation` | 3 connections, 5 configurations, 10 servers, 5 offers, 5,000 arguments of `NewClient` | TLS, SASL, features, grades, resumption; addresses |
| `Component` | 3 dials, 2 calls, fair | one receiver, losses answered, no authentication loop |
| `ComponentRun` | 2 dials | **violated**: `Run` of a component does not connect |
| `Websocket` | 2 connections, 2 stanzas or stream errors, queue of 1, fair | order, causes of panics, losses noticed, readers end |
| `Decoding` | 3 registrations, every pair of children for each stanza, all builders | decoders, registry, requests, forms, routes |

Deadlock is not checked: when the bounds are used up, or the process has
panicked, the system may stop.

### Bounds

`MaxSends`, `MaxInbound`, `MaxRequests` and `MaxDials` limit how often the
application sends, the server sends in a session, either side asks for an
acknowledgement, and a connection is dialled.  Two dials are needed for a
resumption and enough for one that succeeds or fails; two stanzas are needed for
an order, an acknowledgement between them and a queue that empties and fills
again.  Two senders suffice for a lost update; the properties that hold with one
sender only are checked with one, and `SameSession`, `ClaimsAreSound` and the
refinement do not depend on the senders.  In `IQRouter` a call shares its id with
the request of the peer and another call does not, so that a shared route and a
call that must not be disturbed by it meet in one instance; two calls with one id,
of which the later replaces the route of the earlier, are covered by the proofs,
which hold for all ids.  In `ClientLifecycle` two connections are the
least at which a goroutine of the first can meet the second; one packet of the
server is any of stanza, stream error, conflict or close, on either connection.
`Failures` selects which steps of connecting may fail; `Lifecycle` allows all,
`LifecycleLive` only the one that passes through `Close` without leaving a
second goroutine behind, and no packets, which keeps the temporal check small.
The bound on dials ends a reconnection: `Reconnects` excepts it, and a late
`Close` of the second connection needs the third that `LifecycleLive` allows.

`MaxConnects` is 3 in `Negotiation`: one to enable, one that does not resume and
one that asks for the session of the first.  The texts are all those of up to
four characters over a letter and the separators, enough for one of each kind in
any order.  `MaxDials` is 3 in `Component`: a loss, a failed attempt and another.
In `Websocket` a queue of one is full after one message, and two connections let
a goroutine of the first meet the fields of the second; of two messages one is
queued and one waits for room.  `Packets` has stanzas and stream errors: a
conflict differs from another stream error only in that the manager does not
connect, and what cannot be decoded only in that `recv` connects at once, as when
a read fails.  Two goroutines that share a decoder may read any of the four
(`Shared`), and the proofs cover every set of kinds.  `MaxDepth` of the
decoders is 3 in place of 128, so that elements too deep are among the inputs;
`MaxPackets` is 2: the opening of the stream and one element, the packets after
the first being read from the same place.  Children come in pairs because a
decoder keeps nothing of a child but its field, so a third meets no new case.

### Fairness

Weak fairness of the steps of a goroutine that can run: the Go scheduler runs
every runnable goroutine, timers expire, and a send to a ready receiver
completes.  In `StreamManagement` also of the server's reading, since an
acknowledgement cannot come from a server that does not read.  In
`ClientLifecycle` a dial has a timeout and a read of a connection that is lost
or closed fails, but a server that is there need not answer: the reads of
`StartStream` and of the negotiation have no deadline.  In `WebsocketTransport`
one condition for all goroutines together, which is weaker, and in it the time
limit of a ping.  Never fair: the application's calls, the loss of a connection,
refusals, a context's end, the answers of the peer, a ping that may be answered.

### What the passing properties say

Each property has its own comment; here is what is worth knowing of the
conditions, for they name what the code does not do.  Where one question has
several parts, the property of the run is the conjunction of named invariants,
the type invariant of the module among them: `AddressesAgree` of `JidRoundTrip`,
`PortIsSettled` and `SrvIsBest`; `ExchangeIsGenuine` of `DowngradeDetected` and
`ServerVerified`; `SessionIsComplete` of `NegotiationTypeOK`, `FeaturesCurrent`
and `EstablishedIsComplete`; `OneReader` of `TypeOK`, `OneAtATime` and
`EstablishedIsRead`; `PanicsHaveCauses` of `TypeOK`, `SingleCloseIsSafe`,
`NilNeedsNoConnection` and `NoSessionNeedsFailure`; `GoroutinesEnd` of
`StopEndsRun` and `KeepaliveEnds`; `PeersAgree` of `TypeOK`,
`RequestsAreUnderstood`, `FormsAreFound`, `ErrorsRoundTrip` and
`RefusalsEndThere`.  The type invariants of `StreamManagement`, `IQRouter` and
`Registry`, which no run checks by name, are proved (section 4).

* `IdsConsecutive`, `QueueInSendOrder`, `StoredUntilAcked`: with one sender,
  unlocked `Push` against locked trims can put an acknowledged stanza back but not
  lose or reorder one, and the ids stay consecutive: a trim between the two reads
  of `Push` takes entries from the front, or all, and then the id goes on where
  they ended.  None of the three holds with two senders (`SMSenders`): ids repeat
  when another `Push` comes between the reads (`stream_management.go:113`, `:126`).
* `SameSession`: while `recv` runs on a working connection both sides mean the
  same session.  It depends on `resume` comparing the id.
* `RequestDrainsQueue`: a request in flight leads to an empty queue, unless the
  connection is lost.
* `ClaimsAreSound`, `DeliverySpec`: counts in `<a/>` and `<resume/>` never exceed
  what was sent and never decrease; the router sees each stanza once, in order.
* `ResultIsOwn` and `AnswersArrive` are about calls whose id nobody else uses,
  whatever the others do with theirs; with one id a call may receive the answer,
  or the request, of another (`router.go:56`), and the context of one call removes
  the route of another (`router.go:157`).  The other properties of `IQResults` are
  for any ids.  A panic ends the process, so the temporal ones except it.
* `SingleResumer`, `RecvReadsOwn`, `PermanentErrorEnds` hold until a stream error
  arrives or a negotiation fails; `NoCrash` until an attempt to connect fails.
  The conditions are needed: without them TLC finds two goroutines that reconnect
  at once, a `recv` that reads the connection of another, a connection after a
  conflict (`client.go:434`) or after a permanent error (`client.go:280`), and a
  panic.
* `Reconnects`, `GoroutinesEnd`: no goroutine waits for ever in `Close` or in a
  handler, `Run` only for a server that never answers, and a keepalive ends with
  its `recv`.  A panic counts as an end: `Stop` after a `Run` that failed is one
  (`stream_manager.go:113`).  `GoroutinesEnd`, `LossIsNoticed` and `ReadersEnd` say
  that a state which should pass does not last.
* `ExchangeIsGenuine` says what it means that the server signed: it knows the
  password, and, where it sent a hash, the client saw what it offered.  The client
  accepts an empty `<success/>` without a signature (`auth.go:211`), of which the
  property says nothing.
* `FirstAuthEncrypted` excepts connections after one with TLS on the same
  transport, where `isSecure` is stale (`xmpp_transport.go:76`).
* `LossKeepsSession` excepts a loss while the answer to `<resume/>` is awaited
  (`session.go:211`).  `GradesFit` excepts one before the first features were read
  (`session.go:42`) and one that the write of a stream open meets, after TLS or
  authentication as well: both are graded permanent (`xmpp_transport.go:51`).
  `ResumesRunning` excepts a resumption that was skipped because the
  server did not offer it (`session.go:171`).
* `OneReader`, `NoAuthLoop`, `LossIsAnswered` hold until a
  component reads a stream error or cannot write its handshake
  (`component.go:84`, `component.go:141`); a stream close ends `recv` without an
  event (`component.go:142`).
* `InOrder` and `LossIsNoticed` hold until a stream error other than a conflict
  is read or a negotiation fails (`calm`); then two goroutines may connect, or
  read one queue (`client.go:435`, `client.go:275`).
* The parts of `PanicsHaveCauses` say what the panics need, in every state: two
  closes of what one `Connect` made, as after every conflict under a manager
  (`websocket_transport.go:155`); a `Close` or `Ping` before a dial succeeded or
  after a server without the subprotocol; a failed negotiation for `recv` to find
  no session.  A fourth panic, a send on a queue that is being closed
  (`websocket_transport.go:103`), is a way for a reader to end in `ReadersEnd`.
* `RegistrationsKept` excepts two first registrations of one namespace that
  overlap (`registry.go:53`): one is lost.  What the packages registered is found
  in any case.
* `DecodesAsTree` excepts stanzas in which a child that is not known holds
  something that reads like a part of the stanza: the loops do not skip what they
  ignore, so a carbon ends its message early and a foreign `<body>` is adopted
  (`message.go:140`).
* `ErrorsRoundTrip` is about errors with a code, since others are not written
  (`error.go:81`); `FormsAreFound` about results whose form comes last, since the
  table of `commands.go:120` has a `<note/>` replace it; `FirstRouteTakes` about
  types and namespaces without capitals (`router.go:365`).

### What the violated properties show

Each states a sentence of the repository and TLC shows a behaviour of the code
that contradicts it.

1. `SMDiscard`.  The ids of queued stanzas restart at 1 when the queue has been
   emptied, and the initial presence is counted by the server but never queued.
   The `h` of an answer counts the whole session, so `id <= h` covers stanzas
   that were never handled, and they are discarded
   (`stream_management.go:111`, `client.go:237`, `router.go:95`).
2. `IQComponent`.  The component registers after writing, and waits for the
   receiver in the goroutine that reads (`component.go:188`, `router.go:65`).
3. `ComponentRun`.  `StreamManager.connect` connects a `*Client` only; for a
   component `Run` returns an error without having dialled
   (`stream_manager.go:117`), having left its handler in place.
4. `SMSenders`.  Two calls of `Send` at once: the second assignment in `Push`
   undoes the first, so a stanza was sent and is in no queue
   (`stream_management.go:126`).

Known besides, from the same state spaces, and the reason for conditions above
or without a property: a request of the peer with the id of a pending call and
the answer to the call may both be given its route, which "will only match" one
by `router.go:144` (`router.go:58`); `Stop` while `Run` dials closes nothing, and
then a server that does not answer leaves `Run` waiting, although by
`stream_manager.go:107` it "cancels pending operations" (`xmpp_transport.go:56`);
`recv` returns without *disconnected* when the answer to
`<r/>` cannot be written (`client.go:443`); a `<failed/>` to `<enable/>` without a
condition panics (`session.go:349`); a component that was connected by itself
panics under a manager without metrics (`stream_manager.go:181`).

## 4. What is proved

Proofs hold for every value of the constants, under the named assumptions of the
modules.

* `StreamManagementProofs`: `TypeCorrectness` (`Spec => []TypeOK`) for any number
  of senders.  Lemmas say what `Push` and `TrimAcked` do to the numbering and that
  `AckIdx` is a position of the queue.  For one sender (`SoleSender`, the condition
  of the properties) `QueueNumbering`, `SendOrderKept` and `NothingStoredIsLost`
  follow from `OrderInv`: the id that an unfinished `Push` has computed is still
  the next one of the queue or the queue is empty (`PushIsNext`), and what it has
  read holds every stanza of the queue (`SeenIsOlder`), since only trims can have
  run in between.  Without `SeenIsOlder` the assignment of `SendPush` could
  install anything.
* `StreamSessionProofs`: `SessionsAgree`, `CountsAreSound` and `DeliveryRefined`,
  from `SessionInv`.  Its parts say that one request for a session at most is on
  its way (`Requests`), what an answer implies about the server (`Replies`), how
  sessions are numbered (`Sessions`), and that the stanzas in flight are the next
  ones of the session (`Stream`).  `DeliveryRefined` maps each step to one of
  `InOrderDelivery` or a stutter; it is safety, which is all that the abstract
  specification states.
* `ClientLifecycleProofs`: `TypeCorrectness`, `OneResumer`, `OwnConnection`,
  `CrashNeedsFailure` and `PermanentErrors`, for any number of connections and
  whatever may fail.  The invariant says where each kind of goroutine can be
  (`Places`), what the WaitGroup counts, which connection the fields belong to,
  what a failed attempt leaves, and, as long as nothing overlaps (`Calm`), that
  connecting and reading is handed from `Run` to the first `recv` and from each
  `recv` to the next.
* `NegotiationProofs`, for any servers, offers, configurations and number of
  connections: `AuthEncrypted`, `ErrorsGraded`, `ResumptionFits`,
  `SessionsComplete`, `CheckerFits` and `LossKeeps`.  The invariant counts the
  streams opened (`Streams`), relates `isSecure` to the connection
  (`Encryption`), and says what a session lacks in each phase (`Completion`).
  `ExchangesGenuine` is about the SCRAM exchange.  The invariant `Exchange` says
  what was sent, read and checked so far; from it follow `ServerKnows` (the server
  knows the password and sent what the client read) and `HashesMatch` (the hash
  it sent is that of what the client saw).  `HashReads` then says that two offers
  of valid names with one hash are the same: a valid name holds neither separator
  (`ValidIsPlain`), so that the channel bindings come after the last `US`
  (`TextReads`) and every name after the last `RS` (`JoinInjective`, along the
  chains of texts that `Join` goes through).
  `AddressesMeant` is about any jid, address and list of SRV entries: what
  `SplitOnce`, `FirstAt` and `LastAt` find in a text joined from parts
  (`SplitJoined`, `LastAtEquals`) gives what `NewJid` reads back (`JidReadBack`), where
  `ensurePort` leaves the port (`EnsurePortSettles`) and what the checker dials
  (`CheckerDials`); `BestOfFirst` follows the loop over the entries.
* `ComponentProofs`, for any number of transports and calls: `ReadByOne`,
  and `NoLoop`.  The invariant says that every frame on a stack
  of handlers has below it what it returns to (`Waits`), so that the end of a
  `Resume` always leads somewhere, also from within another one; and, while
  nothing interferes (`Calm`), that one goroutine at most connects or reads, that
  its stack is that of the application or of a failed read, and that there is
  still a name for the receiver which a handshake starts (`Counted`).
* `WebsocketProofs`, for any number of connections and messages and every
  capacity of the queue: `DecodesInOrder` and `PanicsExplained`.  `Safe` holds in
  every reachable state: queue and context, of the fields and of what a goroutine
  works on, are of one `Connect` (`FieldsFit`, `CopiesFit`), and a closed queue was
  counted; `PanicsExplained` rests on it alone.  `CalmInv` holds besides until a
  stream error other than a conflict is read or a negotiation fails: one goroutine
  at a time connects or reads (`Places`), and each message of a connection is in
  exactly one of the network, the reader, the queue and the decoder, in order
  (`Flow`).
* `IQRouterProofs`, whatever ids calls and requests share: `PanicsAreShared`,
  `RoutesStayLive`, `TypeCorrectness` and `ResultsAreOwn` (what a call receives
  has its id; if nobody else uses the id it is its answer).  The invariant says
  that a stanza is on the wire or in `route` but not both, that `route` finds a
  route by the id it was registered with, that a route which is registered was
  at most looked up so far, and that a closed channel was closed by a stanza
  that is done: so who sends on it shares the route with that stanza.
* `DecodingProofs`, in three parts.

  *Registrations*, under `RegistryAssumption` and for any number of them at the
  same time: `RegistrationsStay`, from two theorems about the maps.
  `BuiltinsStay` rests on `UsedLeadToPackage`: a namespace in use leads to the map
  of the packages, and every call that looked it up holds that map, so `Store`
  puts it back.  `RegisteredStay` rests on `FoundIsInstalled`: unless two calls of
  a namespace found no map, what a call found is what is installed;
  `RacingStays` says that such a pair, once there, is there for good.
  `RegistrationsStayWhileReading` carries this over to the system that also reads
  packets.

  *Decoders*, under `DecodingAssumption`, for every sequence of balanced tokens.
  What starts inside an element ends inside it (`InsideEndsBefore`, from the
  counts of start and end tokens, `DepthAdds`).  So the loop of an `UnmarshalXML`
  never reads past the end of its element and has ended when its turns are used
  up, whatever the elements inside decode to (`DecodersStayInside`); a decoder
  that does not skip what it ignores may stop too early, never too late.
  `DecodingIsCompositional` then says that what an element decodes to is what the
  loop makes of each child decoded on its own: the bound on the levels is never
  reached, so nothing in `Decode` is cut short.  The element with the fewest
  tokens left that decoded otherwise would contradict `DecodesAgree`.
  `TypesAreRight` follows the fields through the loop (`SiftedKeeps`, `TurnKeeps`,
  `ScanGives`).

  *Routes*, under `RoutesAssumption`, for every table: `FirstRoutesTake`.
  `RouteMatch` accepts when all matchers do (`RouteMatchAll`), `Match` finds the
  least route that accepts (`MatchFinds`), and each matcher accepts what it is
  meant to (`MatchersAgree`).  The last step needs the lemma `IQsHaveOnePayload`:
  the matcher of namespaces looks at the first payload.

Every inductive invariant was checked by TLC on the bounds of a run before it
was proved.  Trying to prove things changed the models in a few places, none of
which, the last apart, changes what TLC computes: `CASE` expressions whose arms
overlapped, so that they said nothing about an order the code has, became chains
of `IF` (`DialAddress`, `ChallengeGrade`, `FinalGrade`, `Return`, `ErrChild`,
`GenericChild`); `ClaimsAreSound` quantifies over an index set (`Claims`);
`BestSrv` and `Sorted` are recursive functions over the positions of their list,
where they were a fold and the sort of the TLC module; a `Hash` is no text, as
the empty string stands for a hash that was not sent; `Chunks` has the numbers
of messages in `Nat`; `ServerFirst` is named; and the constants that the proofs
need typed got `ConfigAssumption`, `DialsAssumption`, `ParamsAssumption` (texts
are sequences of codes; `net.LookupSRV` sorts by priority) and
`OffersAssumption`.  The decoders and matchers, which were recursive operators,
became recursive functions; with that came `Tokens` as a constant,
`DecodingAssumption`, `RoutesAssumption`, and in `RegistryAssumption` that `"*"`
is a local name.  One attempt failed for a reason: `FirstRouteTakes` does not
hold of a packet whose type has capitals, since `StanzaType` lowers what it is
given but the type of the packet is not lowered (`router.go:334`), so
`HasCapitals` covers the type as well as the namespace.

Induction over the naturals is available to these proofs as the existence of a
least counterexample in a set of numbers (`NatSet`, from the well-foundedness of
`<`): so the recursive functions of `BestSrv`, `Sorted` and `Join` could be
reasoned about, and the decoders, by the position at which an element starts.
A definition by `CHOOSE`, as that of a recursive function, is given its value by a
lemma of its own.  Concatenation is named (`Cat`) where lemmas are instantiated with
texts that are themselves joined.

Only model-checked:

* all liveness: `RequestDrainsQueue`, `AnswersArrive`, `ContextRemovesRoute`,
  `RequestsAnswered`, `Reconnects`, `GoroutinesEnd`, `LossIsAnswered`,
  `LossIsNoticed`, `ReadersEnd`, which need fairness and `ENABLED`;
* `DecodesAsTree` and `PeersAgree`, which compare the decoders with recursive
  operators on trees: the reference, and the writer of requests.  Their proof is
  an induction over the trees of all elements, as data, which the provers at hand
  cannot express; that the decoders are compositional on the tokens is the part of
  it that is proved.

## 5. Not modelled, and what is planned

Not modelled:

* cryptography, XML syntax, and what `encoding/xml` does with plain structs: the
  payload types of `iq_disco.go`, `iq_roster.go`, `pres_muc.go`, `iot.go` and the
  like are data with tags;
* the delays of `backoff.go`: a sequential computation, of which the loops that
  wait need nothing.  `durationForAttempt` ignores its parameter and takes the
  power of the field `attempt` (`backoff.go:65`), unlike what the comments at
  `backoff.go:16` and `:62` say;
* date formats, version strings, the stream logger, metrics: I/O and formatting;
* the command line tool, the examples and the mock server of the tests: users of
  the library;
* `Pop`, `PopN` and `PeekN` of the queue as actions: nothing calls them;
* `NewApproveSubRequest`, whose message holds a form that no reader of this
  library decodes.

Models that could still grow:

* `ClientLifecycle` with the two reads of `Handler` (`client.go:112`), the sockets
  left open counted (`transport.go:43`);
* a stream management in which several goroutines connect.

Proofs that could follow: what the trims discard; an induction on the tokens for
stanzas that hold nothing unknown, as a step towards `DecodesAsTree`.
