---------------------------- MODULE StanzaDecoding --------------------------
(***************************************************************************)
(* The decoders of package stanza (parser.go and the UnmarshalXML methods) *)
(* as functions of the tokens of the stream and of the type registry, and  *)
(* the goroutine that reads one packet after the other while applications  *)
(* register extensions.                                                    *)
(*                                                                         *)
(* An element is [name, text, kids]; a name is <<namespace, local name>>   *)
(* with an abbreviated namespace; text stands for character data, or for   *)
(* the type attribute of a stanza.  encoding/xml is external: it hands out *)
(* tokens, decodes a struct by its tags, and fails when an UnmarshalXML    *)
(* does not stop at the end of its own element.                            *)
(***************************************************************************)
EXTENDS Registry, Integers, Sequences, FiniteSetsExt, SequencesExt

CONSTANTS
  Tokens(_),  \* the tokens that encoding/xml hands out of an element
  Openings,   \* elements a server may open a stream with
  Elements,   \* elements it may send afterwards
  MaxDepth,   \* xmlElementMaxDepth, 128 in the code
  MaxPackets

-----------------------------------------------------------------------------
(* Tokens.                                                                 *)

StartToken(e) == [token |-> "start", name |-> e.name, text |-> e.text]
EndToken(n)   == [token |-> "end", name |-> n, text |-> ""]

(* How many elements open at i or later are open after j.                  *)
Depth(ts, i, j) ==
  LET of(kind) == Cardinality({k \in i .. j : ts[k].token = kind}) IN of("start") - of("end")

(* Where the element that starts at i ends.                                *)
EndOf(ts, i) == Min({j \in i .. Len(ts) : Depth(ts, i, j) = 0})

(* How many elements are nested in it, itself included.                    *)
Height(ts, i) == Max({Depth(ts, i, j) : j \in i .. EndOf(ts, i)})

(* encoding/xml checks that every element ends, with the name it began with. *)
Balanced(ts) ==
  \A i \in 1 .. Len(ts) :
    ts[i].token = "start" =>
      (\E j \in i .. Len(ts) : Depth(ts, i, j) = 0) /\ ts[EndOf(ts, i)].name = ts[i].name

ASSUME DecodingAssumption ==
  /\ MaxDepth \in Nat \ {0} /\ MaxPackets \in Nat
  /\ \A e \in Openings \cup Elements :
       /\ DOMAIN e = {"name", "text", "kids"}
       /\ Tokens(e) \in Seq([token : {"start", "end"}, name : STRING \X STRING, text : STRING])
       /\ Balanced(Tokens(e))

-----------------------------------------------------------------------------
(* What each decoder does with a child element: it decodes it into a       *)
(* field, ignores its start token, or fails.                               *)

Into(field, as) == [does |-> "decode", field |-> field, as |-> as, list |-> FALSE]
Adds(field, as) == [Into(field, as) EXCEPT !.list = TRUE]
Ignored         == [does |-> "ignore", field |-> "", as |-> "", list |-> FALSE]
Refused         == [does |-> "fail", field |-> "", as |-> "", list |-> FALSE]

Extension(packet, name) == Lookup(<<packet, name[1]>>, name[2])

MessageChild(name) ==
  IF Extension("message", name) # NoType
  THEN Adds("Extensions", Extension("message", name))
  ELSE CASE name[2] \in {"body", "thread", "subject"} -> Into(name[2], "text")
         [] name[2] = "error" -> Into("error", "err")
         [] OTHER -> Ignored

PresenceChild(name) ==
  IF Extension("presence", name) # NoType
  THEN Adds("Extensions", Extension("presence", name))
  ELSE CASE name[2] \in {"show", "status"} -> Into(name[2], "text")
         [] name[2] = "priority" -> Into("priority", "int8")
         [] name[2] = "error" -> Into("error", "err")
         [] OTHER -> Ignored

IQChild(name) ==
  IF name[2] = "error" THEN Into("Error", "err")
  ELSE IF Extension("iq", name) # NoType THEN Into("Payload", Extension("iq", name))
  ELSE Into("Any", "node")

(* Every child of an error is decoded as a node and then looked at.        *)
ErrChild(name) ==
  IF name \in {<<"stanzas", "text">>, <<"stanzas", "gone">>} THEN Into("Text", "node")
  ELSE IF name[1] \in {"stanzas", "pubsub#errors"} THEN Into("Reason", "node")
  ELSE Into("", "node")

Conditions == {"bad-format", "bad-namespace-prefix", "conflict", "connection-timeout",
  "host-gone", "host-unknown", "improper-addressing", "internal-server-error",
  "invalid-from", "invalid-id", "invalid-namespace", "invalid-xml", "not-authorized",
  "not-well-formed", "policy-violation", "remote-connection-failed",
  "resource-constraint", "restricted-xml", "see-other-host", "system-shutdown",
  "undefined-condition", "unexpected-request", "unsupported-encoding",
  "unsupported-stanza-type", "unsupported-version", "xml-not-well-formed"}

SMFailedChild(name) ==
  IF name[2] \in Conditions THEN Into("StreamErrorGroup", "condition") ELSE Refused

(* PubSubGeneric: a field of its own for each use case.                    *)
GenericChild(name) ==
  IF name[1] # "pubsub" THEN Ignored ELSE
  CASE name[2] \in {"configure", "options", "default"} -> Into(name[2], "withForm")
    [] name[2] = "publish-options" -> Into(name[2], "publishOptions")
    [] name[2] \in {"create", "subscribe", "publish", "affiliations", "items", "retract",
                    "subscription", "subscriptions", "unsubscribe"} -> Into(name[2], "struct")
    [] OTHER -> Ignored

FormHolderChild(name) == IF name[2] = "x" THEN Into("Form", "form") ELSE Ignored

PublishOptionsChild(name) == IF name = <<"data", "x">> THEN Into("Form", "form") ELSE Ignored

FormChild(name) == IF name = <<"data", "field">> THEN Adds("Fields", "struct") ELSE Ignored

(* Faulty variant: two use cases are not known. *)
OwnerChildNoForms(name) ==
  IF name[2] \in {"affiliations", "delete", "purge", "subscriptions"}
  THEN Into("OwnerUseCase", "struct") ELSE Ignored

OwnerChild(name) ==
  CASE name[2] \in {"configure", "default"} -> Into("OwnerUseCase", "withForm")
    [] name[2] \in {"affiliations", "delete", "purge", "subscriptions"} ->
         Into("OwnerUseCase", "struct")
    [] OTHER -> Ignored

EventChild(name) ==
  IF name[2] \in {"collection", "configuration", "delete", "items", "purge", "subscription"}
  THEN Into("EventElement", "struct") ELSE Ignored

CommandChild(name) ==
  CASE name[2] \in {"affiliations", "configure"} -> Into("CommandElement", "struct")
    [] name[2] = "x" -> Into("CommandElement", "form")
    [] OTHER -> Into("CommandElement", "node")

(* Errors of decodeClient are dropped.  For a name it does not know that   *)
(* leaves the start token read; an element it could not decode leaves the  *)
(* decoder inside, which the caller of Forwarded then meets as an error.   *)
ForwardedChild(name) ==
  IF name[2] \in {"message", "presence", "iq"} THEN Into("Stanza", name[2]) ELSE Ignored

StartTLSChild(name) == Into(IF name[2] = "required" THEN "Required" ELSE "", "node")

FeaturesChild(name) ==
  CASE name = <<"tls", "starttls">> -> Into("StartTLS", "starttls")
    [] name = <<"sasl", "mechanisms">> -> Into("Mechanisms", "struct")
    [] name = <<"sasl-cb", "sasl-channel-binding">> -> Into("SASLChannelBinding", "struct")
    [] name = <<"bind", "bind">> -> Into("Bind", "struct")
    [] name = <<"session", "session">> -> Into("Session", "struct")
    [] name = <<"sm", "sm">> -> Into("StreamManagement", "struct")
    [] OTHER -> Adds("Any", "struct")

StreamErrorChild(name) ==
  IF name = <<"streams", "text">> THEN Into("Text", "text") ELSE Into("Error", "struct")

DelegationChild(name) ==
  CASE name = <<"forward", "forwarded">> -> Into("Forwarded", "forwarded")
    [] name[2] = "delegated" -> Into("Delegated", "struct")
    [] OTHER -> Ignored

Child(kind, name) ==
  CASE kind = "message"     -> MessageChild(name)
    [] kind = "presence"    -> PresenceChild(name)
    [] kind = "iq"          -> IQChild(name)
    [] kind = "err"         -> ErrChild(name)
    [] kind = "node"        -> Adds("Nodes", "node")
    [] kind = "smFailed"    -> SMFailedChild(name)
    [] kind = "owner"       -> OwnerChild(name)
    [] kind = "pubsub"      -> GenericChild(name)
    [] kind = "withForm"    -> FormHolderChild(name)
    [] kind = "publishOptions" -> PublishOptionsChild(name)
    [] kind = "form"        -> FormChild(name)
    [] kind = "event"       -> EventChild(name)
    [] kind = "command"     -> CommandChild(name)
    [] kind = "forwarded"   -> ForwardedChild(name)
    [] kind = "starttls"    -> StartTLSChild(name)
    [] kind = "features"    -> FeaturesChild(name)
    [] kind = "streamError" -> StreamErrorChild(name)
    [] kind = "delegation"  -> DelegationChild(name)
    [] OTHER -> Ignored

(* What children are decoded as.                                           *)
Kinds == {"", "text", "int8", "err", "node", "condition", "struct", "withForm", "publishOptions",
          "form", "forwarded", "starttls", "message", "presence", "iq"} \cup Extensions

(* The decoders that read tokens themselves: what they ignore they read    *)
(* through, and they stop at the first end token with their own name.      *)
ReadsThrough == {"message", "presence", "iq", "err", "smFailed", "owner", "event",
                 "command", "forwarded", "starttls"}

(* What encoding/xml refuses: a name other than the tag of the type wants, *)
(* a number that is none; and Node what is too deep.                       *)
Fits(ts, i, kind) ==
  CASE kind = "condition" -> ts[i].name[1] = "stanzas"
    [] kind = "form"      -> ts[i].name[1] = "data"
    [] kind = "int8"      -> ts[i].text # "bad"
    [] kind = "node"      -> Height(ts, i) < MaxDepth
    [] OTHER -> TRUE

-----------------------------------------------------------------------------
(* Values.  A field that is not a list keeps what was decoded last.        *)

Value(kind, t, fields) == [type |-> kind, name |-> t.name, text |-> t.text, fields |-> fields]
Done(v) == [ok |-> TRUE, value |-> v]
Failed  == [ok |-> FALSE, value |-> [type |-> "none", name |-> <<"", "">>, text |-> "", fields |-> <<>>]]

(* The fields with this name, or those without it.                         *)
Sifted(fields, name, with) ==
  LET sifted[n \in 0 .. Len(fields)] ==
        IF n = 0 THEN <<>>
        ELSE IF (fields[n].field = name) = with THEN Append(sifted[n - 1], fields[n])
        ELSE sifted[n - 1]
  IN sifted[Len(fields)]

Assign(fields, child, v) ==
  IF child.field = "" THEN fields
  ELSE Append(IF child.list THEN fields ELSE Sifted(fields, child.field, FALSE),
              [field |-> child.field, value |-> v])

Only(v, field) == Sifted(v.fields, field, TRUE)

-----------------------------------------------------------------------------
(* DecodeElement: the loop over the tokens inside the element that starts  *)
(* at i.  It is at a token, with the fields so far, or ends with a result. *)

Going(at, fields) == [ends |-> FALSE, at |-> at, fields |-> fields, result |-> Failed]
Ending(result)    == [ends |-> TRUE, at |-> 0, fields |-> <<>>, result |-> result]

(* Faulty variant: the loop stops at any end token. *)
StopsAnywhere(ts, i, j) == ts[j].token = "end"

Stops(ts, i, j) == ts[j].token = "end" /\ ts[j].name = ts[i].name

(* One turn of the loop; inner has what every element inside decodes to.   *)
Turn(ts, i, kind, inner, s) ==
  LET j == s.at
      child == Child(kind, ts[j].name)
      value == inner[j][child.as]
  IN IF s.ends THEN s
     ELSE IF Stops(ts, i, j)
     THEN Ending(IF j = EndOf(ts, i) THEN Done(Value(kind, ts[i], s.fields)) ELSE Failed)
     ELSE IF ts[j].token = "end" THEN Going(j + 1, s.fields)
     ELSE IF child.does = "ignore"
     THEN Going(IF kind \in ReadsThrough THEN j + 1 ELSE EndOf(ts, j) + 1, s.fields)
     ELSE IF child.does = "fail" \/ ~value.ok THEN Ending(Failed)
     ELSE Going(EndOf(ts, j) + 1, Assign(s.fields, child, value.value))

(* Every turn reads a token at least.                                      *)
Turns(ts, i, kind, inner) ==
  LET turns[n \in 0 .. Len(ts)] ==
        IF n = 0 THEN Going(i + 1, <<>>)
        ELSE Turn(ts, i, kind, inner, turns[n - 1])
  IN turns

Scan(ts, i, kind, inner) == Turns(ts, i, kind, inner)[Len(ts)].result

DecodeWith(ts, i, kind, inner) ==
  IF Fits(ts, i, kind) THEN Scan(ts, i, kind, inner) ELSE Failed

(* What every element decodes to, given what those inside decode to.       *)
Decoded(ts, inner) ==
  [j \in 1 .. Len(ts) |-> [as \in Kinds |-> DecodeWith(ts, j, as, inner)]]

(* Elements are nested less deep than there are tokens.                    *)
Decode(ts, i, kind) ==
  LET decode[n \in 0 .. Len(ts)] == IF n = 0 THEN <<>> ELSE Decoded(ts, decode[n - 1])
  IN DecodeWith(ts, i, kind, decode[Len(ts)])

-----------------------------------------------------------------------------
(* Packets.                                                                *)

StreamKind(local) ==
  CASE local = "error" -> "streamError" [] local = "features" -> "features" [] OTHER -> "unknown"
SASLKind(local) == IF local \in {"success", "failure"} THEN local ELSE "unknown"
ClientKind(local) == IF local \in {"message", "presence", "iq"} THEN local ELSE "unknown"
ComponentKind(local) == IF local = "handshake" THEN local ELSE ClientKind(local)
SMKind(local) ==
  CASE local \in {"enabled", "resumed", "resume", "r", "a"} -> local
    [] local = "failed" -> "smFailed"
    [] OTHER -> "unknown"

PacketKind(name) ==
  CASE name[1] = "stream"    -> StreamKind(name[2])
    [] name[1] = "sasl"      -> SASLKind(name[2])
    [] name[1] = "client"    -> ClientKind(name[2])
    [] name[1] = "component" -> ComponentKind(name[2])
    [] name[1] = "sm"        -> SMKind(name[2])
    [] OTHER -> "unknown"

(* The first start token, or end of the stream.                            *)
NextXmppToken(ts) ==
  Min({j \in 1 .. Len(ts) : ts[j].token = "start" \/ ts[j].name = <<"stream", "stream">>})

NextPacket(ts) ==
  LET j == NextXmppToken(ts)
      kind == PacketKind(ts[j].name)
  IN IF ts[j].token = "end" THEN Done(Value("streamClose", ts[j], <<>>))
     ELSE IF kind = "unknown" THEN Failed
     ELSE Decode(ts, j, kind)

(* InitStream: the first start token must open a stream.                   *)
InitStream(ts) ==
  LET t == ts[Min({j \in 1 .. Len(ts) : ts[j].token = "start"})] IN
  IF t.name \in {<<"stream", "stream">>, <<"framing", "open">>}
  THEN Done(Value("open", t, <<>>)) ELSE Failed

(* Err.MarshalXML: an error without a code is not written at all.          *)
NoElement == [name |-> <<"", "">>, text |-> "", kids |-> <<>>]
Leaf(name, text) == [name |-> name, text |-> text, kids |-> <<>>]

ReasonElement(f) == Leaf(<<"stanzas", f.value.name[2]>>, "")

TextElements(f) == IF f.value.text = "" THEN <<>> ELSE <<Leaf(<<"stanzas", "text">>, f.value.text)>>

MarshalErr(v) ==
  IF v.text = "" THEN NoElement
  ELSE [name |-> <<"", "error">>, text |-> v.text,
        kids |-> FoldLeft(LAMBDA ks, f : Append(ks, ReasonElement(f)), <<>>, Only(v, "Reason"))
                 \o FoldLeft(LAMBDA ks, f : ks \o TextElements(f), <<>>, Only(v, "Text"))]

(* IQ.IsValid of an IQ with an id.                                         *)
IsValid(v) ==
  /\ v.text # ""
  /\ v.text \in {"get", "set"} => Only(v, "Payload") # <<>> \/ Only(v, "Any") # <<>>
  /\ v.text = "result" => Only(v, "Payload") = <<>> \/ Only(v, "Any") = <<>>
  /\ v.text = "error" => Only(v, "Error") # <<>>

-----------------------------------------------------------------------------
(* The goroutine that reads: InitStream once, then a packet at a time; an  *)
(* error or the end of the stream ends the connection.                     *)

VARIABLES
  open,     \* the stream is open
  input,    \* the element read last
  output,   \* what became of it
  packets   \* packets read so far

vars == <<registryVars, open, input, output, packets>>

StreamEnd == [name |-> <<"stream", "stream">>, text |-> "end", kids |-> <<>>]

TypeOK ==
  /\ RegistryTypeOK
  /\ open \in BOOLEAN /\ packets \in 0 .. MaxPackets
  /\ DOMAIN input = {"name", "text", "kids"}
  /\ output.ok \/ output = Failed
  /\ open => output.ok

Init ==
  /\ RegistryInit
  /\ open = FALSE /\ packets = 0
  /\ input = NoElement /\ output = Failed

OpenStream ==
  \E e \in Openings :
    /\ ~open /\ packets < MaxPackets
    /\ input' = e /\ output' = InitStream(Tokens(e)) /\ open' = output'.ok
    /\ packets' = packets + 1
    /\ UNCHANGED registryVars

ReadPacket ==
  \E e \in Elements :
    /\ open /\ packets < MaxPackets
    /\ input' = e /\ output' = NextPacket(Tokens(e)) /\ open' = output'.ok
    /\ packets' = packets + 1
    /\ UNCHANGED registryVars

ReadClose ==
  /\ open /\ packets < MaxPackets
  /\ input' = StreamEnd /\ output' = NextPacket(<<EndToken(StreamEnd.name)>>) /\ open' = FALSE
  /\ packets' = packets + 1
  /\ UNCHANGED registryVars

Next ==
  \/ OpenStream \/ ReadPacket \/ ReadClose
  \/ RegistryNext /\ UNCHANGED <<open, input, output, packets>>

Spec == Init /\ [][Next]_vars

=============================================================================
