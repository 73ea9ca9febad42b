------------------------------- MODULE PubSub -------------------------------
(***************************************************************************)
(* The requests that pubsub.go and pubsub_owner.go build, as the element   *)
(* that is written, and GetFormFields, which takes the form out of a       *)
(* result.  A request is the call of a builder: its kind is the name of    *)
(* the function without New, service, node and session are arguments       *)
(* ("" is empty, " " is blank), jid says whether NewJid takes the JID of   *)
(* the SubInfo, and form is the type of the form that is submitted.        *)
(***************************************************************************)
EXTENDS TreeDecoding

CONSTANT Requests   \* calls of the builders

Blank(s) == s \in {"", " "}

(* SubInfo.validate.                                                       *)
Validates(r) == r.jid /\ ~Blank(r.node)

Subscribing == {"SubRq", "UnsubRq", "SubOptsRq", "FormSubmission", "SubAndConfig"}

(* The builder returns a request and no error.                             *)
Accepted(r) ==
  /\ r.kind \in Subscribing => Validates(r)
  /\ r.kind \in {"FormSubmission", "SubAndConfig"} => r.form = "submit"
  /\ r.kind \in {"PublishItemRq", "PublishItemOptsRq", "DelItemFromNode", "DelNode"} => ~Blank(r.node)
  /\ r.kind = "FormSubmissionOwner" => r.service # "" /\ r.node # ""
  /\ r.kind = "ApprovePendingSubRequest" => r.session # ""

RequestType(kind) ==
  IF kind \in {"SubOptsRq", "ItemsRequest", "SpecificItemRequest", "RetrieveAllSubsRequest",
               "RetrieveAllAffilsRequest", "ConfigureNode", "RequestDefaultConfig",
               "SubListRqPl", "AffiliationListRequest"}
  THEN "get" ELSE "set"

(* NewForm with one field.                                                 *)
NewForm(type) ==
  [name |-> <<"data", "x">>, text |-> type, kids |-> <<Leaf(<<"data", "field">>, "var")>>]

Generic(local, node) == Leaf(<<"pubsub", local>>, node)
Owner(local, node)   == Leaf(<<"owner", local>>, node)
With(e, kid)         == [e EXCEPT !.kids = Append(@, kid)]

(* What the builder puts in the payload.                                   *)
UseCases(r) ==
  CASE r.kind = "SubRq"    -> <<Generic("subscribe", r.node)>>
    [] r.kind = "UnsubRq"  -> <<Generic("unsubscribe", r.node)>>
    [] r.kind = "SubOptsRq" -> <<Generic("options", r.node)>>
    [] r.kind = "FormSubmission" -> <<With(Generic("options", r.node), NewForm(r.form))>>
    [] r.kind = "SubAndConfig" ->
         <<Generic("subscribe", r.node), With(Generic("options", ""), NewForm(r.form))>>
    [] r.kind = "ItemsRequest" -> <<Generic("items", r.node)>>
    [] r.kind = "SpecificItemRequest" ->
         <<With(Generic("items", r.node), Generic("item", "id"))>>
    [] r.kind = "PublishItemRq" ->
         <<With(Generic("publish", r.node), Generic("item", "id"))>>
    [] r.kind = "PublishItemOptsRq" ->
         <<With(Generic("publish", r.node), Generic("item", "id")),
           With(Generic("publish-options", ""), NewForm(r.form))>>
    [] r.kind = "DelItemFromNode" ->
         <<With(Generic("retract", r.node), Generic("item", "id"))>>
    [] r.kind = "CreateAndConfigNode" ->
         <<Generic("create", r.node), With(Generic("configure", ""), NewForm(r.form))>>
    [] r.kind = "CreateNode" -> <<Generic("create", r.node)>>
    [] r.kind = "RetrieveAllSubsRequest" -> <<Generic("subscriptions", "")>>
    [] r.kind = "RetrieveAllAffilsRequest" -> <<Generic("affiliations", "")>>
    [] r.kind = "ConfigureNode" -> <<Owner("configure", r.node)>>
    [] r.kind = "DelNode"       -> <<Owner("delete", r.node)>>
    [] r.kind = "PurgeAllItems" -> <<Owner("purge", r.node)>>
    [] r.kind = "RequestDefaultConfig" -> <<Owner("default", "")>>
    [] r.kind = "SubListRqPl"   -> <<Owner("subscriptions", r.node)>>
    [] r.kind = "SubsForEntitiesRequest" ->
         <<With(Owner("subscriptions", r.node), Owner("subscription", ""))>>
    [] r.kind = "ModifAffiliationRequest" ->
         <<With(Owner("affiliations", r.node), Owner("affiliation", ""))>>
    [] r.kind = "AffiliationListRequest" -> <<Owner("affiliations", r.node)>>
    [] r.kind = "FormSubmissionOwner" -> <<With(Owner("configure", r.node), NewForm("submit"))>>
    [] r.kind = "GetPendingSubRequests" -> <<>>
    [] r.kind = "ApprovePendingSubRequest" -> <<NewForm("submit")>>

GenericKinds == Subscribing \cup
  {"ItemsRequest", "SpecificItemRequest", "PublishItemRq", "PublishItemOptsRq",
   "DelItemFromNode", "CreateAndConfigNode", "CreateNode", "RetrieveAllSubsRequest",
   "RetrieveAllAffilsRequest"}
CommandKinds == {"GetPendingSubRequests", "ApprovePendingSubRequest"}

(* The type of the payload; the registry has the three types for IQs.      *)
PayloadName(kind) ==
  CASE kind \in GenericKinds -> <<"pubsub", "pubsub">>
    [] kind \in CommandKinds -> <<"command", "command">>
    [] OTHER -> <<"owner", "pubsub">>

Request(r) ==
  [name |-> <<"client", "iq">>, text |-> RequestType(r.kind),
   kids |-> <<[name |-> PayloadName(r.kind), text |-> "", kids |-> UseCases(r)]>>]

-----------------------------------------------------------------------------
(* GetFormFields: the keys of the map it returns.  Where the code follows  *)
(* a pointer that may be nil, it panics.                                   *)

Answer(outcome, keys) == [outcome |-> outcome, keys |-> keys]

Keyed(fields) == {fields[i].value.text : i \in 1 .. Len(fields)}

FieldsOf(holder) ==
  IF Only(holder, "Form") = <<>> THEN Answer("panic", {})
  ELSE Answer("fields", Keyed(Only(Only(holder, "Form")[1].value, "Fields")))

NodesNamed(v, local) == SelectSeq(v.fields, LAMBDA f : f.value.name[2] = local)

(* A payload that is not registered, kept as a node: its forms.            *)
FormsOfNode(any) ==
  IF any = <<>> \/ any[1].value.name[2] # "command" THEN Answer("error", {})
  ELSE LET xs == NodesNamed(any[1].value, "x")
       IN Answer("fields", UNION {Keyed(NodesNamed(xs[i].value, "field")) : i \in 1 .. Len(xs)})

FormOfOwner(p) ==
  LET use == Only(p, "OwnerUseCase")
  IN IF use # <<>> /\ use[1].value.name[2] = "configure"
     THEN FieldsOf(use[1].value) ELSE Answer("error", {})

FormOfGeneric(p) ==
  IF Only(p, "configure") = <<>> THEN Answer("panic", {})
  ELSE FieldsOf(Only(p, "configure")[1].value)

FormOfCommand(p) ==
  LET element == Only(p, "CommandElement")
  IN IF element # <<>> /\ element[1].value.type = "form"
     THEN Answer("fields", Keyed(Only(element[1].value, "Fields"))) ELSE Answer("error", {})

GetFormFields(iq) ==
  LET payload == Only(iq, "Payload")
      type    == IF payload = <<>> THEN "" ELSE payload[1].value.type
  IN CASE iq.text # "result" -> Answer("error", {})
       [] iq.text = "result" /\ type = "pubsub"  -> FormOfGeneric(payload[1].value)
       [] iq.text = "result" /\ type = "owner"   -> FormOfOwner(payload[1].value)
       [] iq.text = "result" /\ type = "command" -> FormOfCommand(payload[1].value)
       [] OTHER -> FormsOfNode(Only(iq, "Any"))

-----------------------------------------------------------------------------
Written == {Request(r) : r \in {q \in Requests : Accepted(q)}}

(* A service that reads a request with these decoders finds it valid and   *)
(* the payload of the builder's type, with all the builder put in it: no   *)
(* use case is taken for another's, or dropped (New... of pubsub.go and    *)
(* pubsub_owner.go against UnmarshalXML and the registry).                 *)
RequestsAreUnderstood ==
  input \in Written =>
    LET payload == Only(output.value, "Payload")
        p == payload[1].value
        sent == input.kids[1]
    IN /\ output.ok /\ IsValid(output.value) /\ payload # <<>>
       /\ p.type = (IF sent.name[1] = "owner" THEN "owner" ELSE sent.name[2])
       /\ [i \in 1 .. Len(p.fields) |-> p.fields[i].value.name]
            = [i \in 1 .. Len(sent.kids) |-> sent.kids[i].name]

(* The element that holds the form of a result, if that comes last: the    *)
(* decoders of PubSubOwner and Command keep what comes last.               *)
HoldsForm(p) ==
  LET h == Last(p.kids)
  IN p.kids # <<>> /\
     IF p.name = <<"command", "command">> THEN h.name = <<"data", "x">>
     ELSE /\ p.name \in {<<"pubsub", "pubsub">>, <<"owner", "pubsub">>}
          /\ h.name = <<p.name[1], "configure">>
          /\ h.kids # <<>> /\ Last(h.kids).name = <<"data", "x">>

FormIn(p) == IF p.name = <<"command", "command">> THEN Last(p.kids) ELSE Last(Last(p.kids).kids)

(* A configuration or command form that a service sends is found with all  *)
(* its fields, in whichever payload it comes (GetFormFields).              *)
FormsAreFound ==
  LET p == input.kids[1] IN
  output.ok /\ output.value.type = "iq" /\ input.text = "result" /\ Len(input.kids) = 1
    /\ HoldsForm(p) /\ Plain(input, "iq")
  => GetFormFields(output.value) =
       Answer("fields", {k.text : k \in {FormIn(p).kids[i] : i \in
                {j \in 1 .. Len(FormIn(p).kids) : FormIn(p).kids[j].name = <<"data", "field">>}}})
=============================================================================
