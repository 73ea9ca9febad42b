---------------------------- MODULE RouteMatching ---------------------------
(***************************************************************************)
(* The routes of a Router for what the decoders hand over: matchers on the *)
(* name, the type and the namespace of the payload, tried route by route,  *)
(* and the error that answers a request no route takes.  A table is the    *)
(* sequence of the routes in the order they were added; a route is the     *)
(* sequence of its matchers, [by, values]; its handler is known by its     *)
(* position.                                                               *)
(***************************************************************************)
EXTENDS StanzaDecoding

CONSTANTS
  Tables,   \* the tables applications set up
  Lowered   \* for a word with capitals, the same word without

ASSUME RoutesAssumption ==
  /\ \A table \in Tables :
       table \in Seq(Seq([by : {"name", "type", "namespace"}, values : SUBSET STRING]))
  /\ {"message", "presence", "iq", "normal", ""} \cap DOMAIN Lowered = {}

Lower(word) == IF word \in DOMAIN Lowered THEN Lowered[word] ELSE word

(* Route.Packet, Route.StanzaType and Route.IQNamespaces.                  *)
Packet(name)         == [by |-> "name", values |-> {Lower(name)}]
StanzaType(types)    == [by |-> "type", values |-> {Lower(t) : t \in types}]
IQNamespaces(spaces) == [by |-> "namespace", values |-> {Lower(n) : n \in spaces}]

(* The type a matcher compares: that of a message defaults to normal.      *)
TypeOf(p) == IF p.type = "message" /\ p.text = "" THEN "normal" ELSE p.text

Stanzas == {"message", "presence", "iq"}

NameMatches(values, p) == (IF p.type \in Stanzas THEN p.type ELSE "") \in values
TypeMatches(values, p) == p.type \in Stanzas /\ TypeOf(p) \in values
NamespaceMatches(values, p) ==
  /\ p.type = "iq" /\ Only(p, "Payload") # <<>>
  /\ Only(p, "Payload")[1].value.name[1] \in values

Matches(m, p) ==
  CASE m.by = "name" -> NameMatches(m.values, p)
    [] m.by = "type" -> TypeMatches(m.values, p)
    [] m.by = "namespace" -> NamespaceMatches(m.values, p)

(* Route.Match stops at the first matcher that does not accept.            *)
RouteMatch(route, p) ==
  LET accepted[n \in 0 .. Len(route)] ==
        n = 0 \/ (accepted[n - 1] /\ Matches(route[n], p))
  IN accepted[Len(route)]

(* Faulty variant: the loop goes on, and the last route wins. *)
MatchLast(table, p) ==
  LET found[n \in 0 .. Len(table)] ==
        IF n = 0 THEN 0 ELSE IF RouteMatch(table[n], p) THEN n ELSE found[n - 1]
  IN found[Len(table)]

(* Router.Match: the position of the route that takes the packet, or 0.    *)
Match(table, p) ==
  LET found[n \in 0 .. Len(table)] ==
        IF n = 0 THEN 0
        ELSE IF found[n - 1] # 0 THEN found[n - 1]
        ELSE IF RouteMatch(table[n], p) THEN n ELSE 0
  IN found[Len(table)]

-----------------------------------------------------------------------------
(* MakeError on the request, which keeps its payload, and what is written. *)
MakeError(iq, err) ==
  [iq EXCEPT !.text = "error", !.fields =
     Append(Sifted(@, "Error", FALSE), [field |-> "Error", value |-> err])]

NotImplemented ==
  Value("err", [name |-> <<"", "error">>, text |-> "501"],
        <<[field |-> "Reason", value |-> Value("node",
             [name |-> <<"stanzas", "feature-not-implemented">>, text |-> ""], <<>>)]>>)

(* IQ by its tags: payload, error, and what was kept as a node.            *)
Write(iq) ==
  LET part(field) == [i \in 1 .. Len(Only(iq, field)) |->
        LET v == Only(iq, field)[i].value
        IN IF field = "Error" THEN MarshalErr(v) ELSE Leaf(v.name, v.text)]
  IN [name |-> <<"client", "iq">>, text |-> iq.text,
      kids |-> part("Payload") \o part("Error") \o part("Any")]

(* The end of Router.route: what is answered when no route matched.        *)
NeedsReply(iq) == iq.type = "iq" /\ iq.text \in {"get", "set"}

IqNotImplemented(iq) == Write(MakeError(iq, NotImplemented))

-----------------------------------------------------------------------------
(* router.go:17-22 as a definition: a route accepts a packet that all its  *)
(* matchers accept, whatever capitals the table or the packet has.  What   *)
(* is no stanza has no name.                                               *)
MeantBy(m, p) ==
  LET has(word) == Lower(word) \in m.values
  IN CASE m.by = "name" -> has(IF p.type \in Stanzas THEN p.type ELSE "")
       [] m.by = "type" -> p.type \in Stanzas /\
            IF p.type = "message" /\ p.text = "" THEN has("normal") ELSE has(p.text)
       [] m.by = "namespace" -> p.type = "iq" /\
            \E k \in 1 .. Len(p.fields) :
              p.fields[k].field = "Payload" /\ has(p.fields[k].value.name[1])

Accepts(route, p) == \A i \in 1 .. Len(route) : MeantBy(route[i], p)

HasCapitals(p) ==
  \/ p.text \in DOMAIN Lowered
  \/ \E k \in 1 .. Len(p.fields) : p.fields[k].value.name[1] \in DOMAIN Lowered

(* Each packet that is read goes to the first of the routes that accept it *)
(* and to no other, and a last route without matchers leaves none          *)
(* unhandled (Router.Match; "for each packet, only a single route is       *)
(* executed").  StanzaType and IQNamespaces lower what they are given, and *)
(* not the type and the namespace of the packet, so this is not so for     *)
(* those with capitals.                                                    *)
FirstRouteTakes ==
  LET p == output.value IN
  output.ok /\ ~HasCapitals(p) =>
    \A table \in Tables :
      LET takers == {i \in 1 .. Len(table) : Accepts(table[i], p)} IN
      /\ Match(table, p) = IF takers = {} THEN 0 ELSE Min(takers)
      /\ table # <<>> /\ Last(table) = <<>> => Match(table, p) # 0

(* A request that no route takes, whatever its payload, is answered by an  *)
(* error that the peer can read, that is valid, says why, and calls for no *)
(* further answer: there is no loop of errors (Router.route,               *)
(* iqNotImplemented, MakeError and the decoders of the peer).              *)
RefusalsEndThere ==
  output.ok /\ NeedsReply(output.value) =>
    LET received == NextPacket(Tokens(IqNotImplemented(output.value))) IN
    /\ received.ok /\ received.value.type = "iq" /\ IsValid(received.value)
    /\ \E i \in 1 .. Len(received.value.fields) :
         LET err == received.value.fields[i] IN
         /\ err.field = "Error" /\ err.value.text = "501"
         /\ \E k \in 1 .. Len(err.value.fields) :
              err.value.fields[k].value.name = <<"stanzas", "feature-not-implemented">>
    /\ ~NeedsReply(received.value)
=============================================================================
