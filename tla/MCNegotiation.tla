--------------------------- MODULE MCNegotiation ----------------------------
(* An instance of SessionNegotiation: NewClient with every short jid, host *)
(* address and list of SRV entries, and negotiations over MaxConnects      *)
(* connections with a few servers.                                         *)
EXTENDS SessionNegotiation

Text(chars, n) == UNION {[1 .. i -> chars] : i \in 0 .. n}

MCParams ==
  LET host == <<97>>
      P(jid, address, srv) == [jid |-> jid, address |-> address, srv |-> srv]
      Entry == [priority : 1 .. 2, weight : 1 .. 2, target : {<<97>>, <<98>>}, port : {1}]
  IN {P(j, host, <<>>) : j \in Text({97, AtSign, Slash, Colon}, 4)}
     \cup {P(host, a, <<>>) : a \in Text({97, Colon, Open, Close}, 4) \cup {Ws, Wss}}
     \cup {P(host, <<>>, e) : e \in {q \in BoundedSeq(Entry, 3) :
              \A i, k \in DOMAIN q : i < k => q[i].priority <= q[k].priority}}

(* Names of one letter, and one that holds the separator of names.         *)
A == <<65>>
B == <<66>>
AB == <<65, 30, 66>>

Offer(mechanisms, spelled, cb, sm, mandatory) ==
  [mechanisms |-> mechanisms, spelled |-> spelled, cb |-> cb,
   bindings |-> IF cb THEN <<A>> ELSE <<>>, sm |-> sm, session |-> mandatory]

MCOffers ==
  {Offer(<<"PLAIN", "SCRAM-SHA-1">>, <<B, A>>, FALSE, TRUE, "none"),
   Offer(<<"PLAIN", "SCRAM-SHA-1">>, <<AB>>, FALSE, TRUE, "required"),
   Offer(<<"SCRAM-SHA-1">>, <<A, B>>, TRUE, FALSE, "optional"),
   Offer(<<"PLAIN">>, <<B>>, FALSE, TRUE, "none"),
   Offer(<<"UNKNOWN">>, <<A>>, FALSE, FALSE, "none")}

MCConfigs ==
  LET C(insecure, resume, verify) ==
        [insecure |-> insecure, sm |-> TRUE, resume |-> resume, mechanisms |-> Password,
         secret |-> 1, verify |-> verify]
  IN {C(FALSE, TRUE, TRUE), C(FALSE, FALSE, FALSE), C(TRUE, TRUE, TRUE)}
     \cup {[C(FALSE, FALSE, TRUE) EXCEPT !.sm = FALSE, !.mechanisms = OAuthToken, !.secret = s] :
             s \in {0, 1}}

MCPeers ==
  LET plain == CHOOSE o \in MCOffers : o.mechanisms = <<"PLAIN">>
      Good == [features |-> "features", tls |-> TRUE, offer |-> plain,
               proceed |-> "proceed", handshake |-> "ok", minutes |-> {9999}]
  IN {Good, [Good EXCEPT !.features = "loss"], [Good EXCEPT !.features = "answer"],
      [Good EXCEPT !.tls = FALSE], [Good EXCEPT !.proceed = "loss"],
      [Good EXCEPT !.proceed = "answer"], [Good EXCEPT !.handshake = "fails"],
      [Good EXCEPT !.handshake = "mismatch"], [Good EXCEPT !.minutes = {9999, 2939}],
      [Good EXCEPT !.minutes = {2940}]}
=============================================================================
