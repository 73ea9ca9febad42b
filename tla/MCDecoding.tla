------------------------------ MODULE MCDecoding ----------------------------
(* Stanzas with up to two children, the other packets, the requests of the *)
(* builders and results with forms, for TLC.                               *)
EXTENDS PubSub, RouteMatching

RECURSIVE MCTokens(_)
MCTokens(e) ==
  <<StartToken(e)>>
    \o FoldLeft(LAMBDA ts, kid : ts \o MCTokens(kid), <<>>, e.kids)
    \o <<EndToken(e.name)>>

E(ns, local, text, kids) == [name |-> <<ns, local>>, text |-> text, kids |-> kids]
L(ns, local) == E(ns, local, "", <<>>)

MCRegistrars == {"first", "second", "third"}
MCKeys == {<<"message", "chatstates">>, <<"message", "delegation">>, <<"message", "event">>,
           <<"message", "app">>, <<"presence", "muc">>, <<"iq", "disco">>, <<"iq", "command">>,
           <<"iq", "owner">>, <<"iq", "pubsub">>, <<"iq", "Custom">>}
MCLocals == {"*", "active", "delegation", "event", "x", "query", "command", "pubsub"}
MCExtensions == {"state", "delegation", "event", "muc", "disco", "command", "owner",
                 "pubsub", "custom", "appType", "appAny", "ownState"}
MCRegistration ==
  [g \in MCRegistrars |->
     CASE g = "first"  -> [key |-> <<"message", "app">>, name |-> "*", ext |-> "appAny"]
       [] g = "second" -> [key |-> <<"message", "app">>, name |-> "x", ext |-> "appType"]
       [] g = "third"  -> [key |-> <<"message", "chatstates">>, name |-> "*", ext |-> "ownState"]]
MCBuiltin ==
  [k \in MCKeys |-> [n \in MCLocals |->
     CASE k = <<"message", "chatstates">> /\ n = "active" -> "state"
       [] k = <<"message", "delegation">> /\ n = "delegation" -> "delegation"
       [] k = <<"message", "event">> /\ n = "event" -> "event"
       [] k = <<"presence", "muc">> /\ n = "x" -> "muc"
       [] k = <<"iq", "disco">> /\ n = "query" -> "disco"
       [] k = <<"iq", "command">> /\ n = "command" -> "command"
       [] k = <<"iq", "owner">> /\ n = "pubsub" -> "owner"
       [] k = <<"iq", "pubsub">> /\ n = "pubsub" -> "pubsub"
       [] k = <<"iq", "Custom">> /\ n = "query" -> "custom"
       [] OTHER -> NoType]]

Body  == E("client", "body", "hi", <<>>)
Inner == E("client", "message", "", <<Body>>)
Err1  == E("client", "error", "404", <<L("stanzas", "item-not-found"), E("stanzas", "text", "gone", <<>>)>>)
Err2  == E("client", "error", "", <<L("stanzas", "conflict"), L("pubsub#errors", "closed-node"), L("other", "x")>>)
Err3  == E("client", "error", "409", <<L("stanzas", "conflict"), L("pubsub#errors", "closed-node")>>)

Common == {Err1, Err3, E("other", "foreign", "", <<L("other", "thing")>>),
           E("other", "foreign", "", <<Body>>), E("carbons", "received", "", <<Inner>>),
           L("app", "x"), L("app", "y")}

MessageKids == Common \cup
  {Body, E("client", "subject", "s", <<>>), L("chatstates", "active"), L("chatstates", "odd"),
   E("delegation", "delegation", "", <<E("forward", "forwarded", "", <<L("delay", "delay"), Inner>>)>>),
   E("delegation", "delegation", "", <<E("forward", "forwarded", "",
       <<E("client", "presence", "", <<E("client", "priority", "bad", <<>>)>>)>>), L("other", "x")>>),
   E("event", "event", "", <<E("event", "items", "", <<L("event", "item")>>)>>),
   E("event", "event", "", <<E("other", "foreign", "", <<L("event", "items")>>), L("event", "purge")>>)}

PresenceKids == {Err1, E("client", "show", "away", <<>>), E("client", "priority", "5", <<>>),
                 E("client", "priority", "bad", <<>>), L("muc", "x"), L("other", "foreign"),
                 E("other", "foreign", "", <<E("client", "presence", "", <<>>)>>)}

IQKids == {Err1, Err2, L("disco", "query"), E("other", "foreign", "", <<E("client", "iq", "", <<>>)>>),
           E("other", "deep", "", <<E("other", "deep", "", <<L("other", "deep")>>)>>),
           E("command", "command", "", <<L("data", "x"), L("command", "actions")>>),
           E("command", "command", "", <<L("other", "x")>>),
           E("owner", "pubsub", "", <<L("owner", "configure")>>),
           E("owner", "pubsub", "", <<E("other", "foreign", "", <<L("owner", "pubsub")>>)>>),
           E("pubsub", "pubsub", "", <<E("pubsub", "items", "", <<L("pubsub", "pubsub")>>)>>)}

UpTo2(K) == {<<>>} \cup {<<a>> : a \in K} \cup {<<a, b>> : a \in K, b \in K}

Nonzas ==
  {E("stream", "features", "", <<E("tls", "starttls", "", <<L("tls", "required")>>),
                                 E("sasl", "mechanisms", "", <<L("sasl", "mechanism")>>), L("sm", "sm"), L("p1", "ack")>>),
   E("stream", "features", "", <<E("tls", "starttls", "", <<>>), L("bind", "bind"), L("session", "session"),
                                 L("sasl-cb", "sasl-channel-binding")>>),
   E("stream", "error", "", <<L("streams", "conflict"), E("streams", "text", "bye", <<>>)>>),
   L("stream", "odd"), L("sasl", "success"), E("sasl", "failure", "", <<L("sasl", "not-authorized")>>),
   L("sasl", "odd"), L("component", "handshake"), E("component", "message", "", <<Body>>),
   L("component", "odd"), L("client", "odd"), L("other", "odd"), L("sm", "odd"),
   E("sm", "failed", "", <<L("stanzas", "bad-format")>>), E("sm", "failed", "", <<L("sm", "conflict")>>),
   E("sm", "failed", "", <<L("stanzas", "item-not-found")>>), L("sm", "failed")}
  \cup {L("sm", n) : n \in {"enabled", "resumed", "resume", "r", "a"}}

Form(fields) == E("data", "x", "form", fields)
Field(var) == E("data", "field", var, <<>>)
TwoFields == Form(<<Field("a"), E("data", "title", "t", <<>>), Field("b")>>)

Results ==
  {E("client", "iq", t, <<p>>) : t \in {"result", "set"}, p \in
    {E(ns, "pubsub", "", <<E(ns, "configure", "n", <<f>>)>>) : ns \in {"pubsub", "owner"},
                                                                f \in {TwoFields, Form(<<>>), L("x", "x")}}
    \cup {E("pubsub", "pubsub", "", <<L("pubsub", "create")>>),
          E("owner", "pubsub", "", <<L("owner", "purge"), E("owner", "configure", "", <<TwoFields>>)>>),
          E("owner", "pubsub", "", <<E("owner", "configure", "", <<TwoFields>>), L("owner", "purge")>>),
          E("owner", "pubsub", "", <<E("owner", "configure", "", <<L("other", "thing")>>)>>),
          E("command", "command", "", <<L("command", "actions"), TwoFields>>),
          E("command", "command", "", <<TwoFields, L("command", "note")>>),
          E("old", "command", "", <<E("data", "x", "", <<Field("a")>>)>>), L("Custom", "query")}}

MCRequests ==
  [kind : GenericKinds \cup CommandKinds \cup
          {"ConfigureNode", "DelNode", "PurgeAllItems", "RequestDefaultConfig", "SubListRqPl",
           "SubsForEntitiesRequest", "ModifAffiliationRequest", "AffiliationListRequest",
           "FormSubmissionOwner"},
   node : {"", " ", "n"}, service : {"", "s"}, session : {"", "c"},
   jid : BOOLEAN, form : {"submit", "form"}]

MCLowered == [w \in {"Custom", "IQ", "GET"} |->
                CASE w = "Custom" -> "custom" [] w = "IQ" -> "iq" [] w = "GET" -> "get"]
MCRoutes == {<<>>, <<Packet("IQ")>>, <<Packet("message")>>, <<Packet("presence")>>,
             <<StanzaType({"normal"})>>, <<Packet("iq"), StanzaType({"GET", "set"})>>,
             <<IQNamespaces({"disco", "Custom"})>>, <<IQNamespaces({"command"}), StanzaType({"set"})>>}
MCTables == {<<>>} \cup {<<a>> : a \in MCRoutes} \cup {<<a, b>> : a \in MCRoutes, b \in MCRoutes}

MCOpenings == {L("stream", "stream"), L("framing", "open"), L("other", "html")}
MCElements ==
  Nonzas \cup Results \cup Written
         \cup {E("client", "message", "", ks) : ks \in UpTo2(MessageKids)}
         \cup {E("client", "presence", "", ks) : ks \in UpTo2(PresenceKids)}
         \cup {E("client", "iq", t, ks) : t \in {"get", "result", "error", ""}, ks \in UpTo2(IQKids)}

-----------------------------------------------------------------------------
(* Two programs that use this library understand each other: requests with *)
(* their payloads, forms in results, errors, and the refusal of a request  *)
(* that nobody takes, which ends the exchange (pubsub.go, pubsub_owner.go, *)
(* error.go, router.go against the decoders).                              *)
PeersAgree ==
  TypeOK /\ RequestsAreUnderstood /\ FormsAreFound /\ ErrorsRoundTrip /\ RefusalsEndThere
=============================================================================
