-------------------------- MODULE InOrderDelivery --------------------------
(***************************************************************************)
(* What stream management promises the application about incoming stanzas: *)
(* within a session the peer's stanzas 1, 2, 3, ... are delivered in this  *)
(* order, each once, and none before it was sent.                          *)
(***************************************************************************)
EXTENDS Naturals, Sequences

VARIABLES session, sent, got

Init == session = 0 /\ sent = 0 /\ got = <<>>

Send == /\ sent' \in Nat /\ sent' > sent
        /\ UNCHANGED <<session, got>>

Deliver == /\ Len(got) < sent
           /\ got' = Append(got, Len(got) + 1)
           /\ UNCHANGED <<session, sent>>

(* Only a change of session starts over; the peer may have sent already.   *)
NewSession == /\ session' # session
              /\ got' = <<>> /\ sent' \in Nat

Next == Send \/ Deliver \/ NewSession

Spec == Init /\ [][Next]_<<session, sent, got>>
============================================================================
