-------------------------------- MODULE SASL --------------------------------
(***************************************************************************)
(* SASL authentication (auth.go): the choice of the mechanism, and what    *)
(* the client makes of each answer of the server.  Hashes and signatures   *)
(* are symbolic: a hash holds the text, a signature is the key with what   *)
(* it signs.  A SCRAM message is the sequence of its parts, a part being a *)
(* sequence of one (no = sign) or two (attribute and value) members, or    *)
(* empty; values are sequences and <<>> is the empty string.               *)
(*                                                                         *)
(* A step ends with a grade: "ok", a "temporary" error (a plain error, or  *)
(* a ConnError that is not permanent), a "permanent" one, or "continue".   *)
(***************************************************************************)
EXTENDS Text

RS == 30
US == 31
BadBase64 == <<0>>
Minimum == 4096          \* scramIterationCountMinimum
NotANumber == <<-1>>

Password   == <<"SCRAM-SHA-512", "SCRAM-SHA-256", "SCRAM-SHA-1", "PLAIN">>
OAuthToken == <<"X-OAUTH2">>
NoMechanism == "none"

IsScram(mech) == mech \in {"SCRAM-SHA-512", "SCRAM-SHA-256", "SCRAM-SHA-1"}

(* authSASL: the first mechanism of the credential that is offered.        *)
MatchingMech(mechanisms, offered) ==
  LET i == SelectInSeq(mechanisms, LAMBDA m : m \in ToSet(offered))
  IN IF i = 0 THEN NoMechanism ELSE mechanisms[i]

-----------------------------------------------------------------------------
(* parseSCRAMFields fails on an empty or malformed part, or an attribute   *)
(* that comes twice.                                                       *)
ParseFails(message) ==
  \/ message = <<>>
  \/ \E i \in DOMAIN message : Len(message[i]) # 2
  \/ \E i, j \in DOMAIN message : i # j /\ message[i][1] = message[j][1]

Field(message, name) ==
  LET i == SelectInSeq(message, LAMBDA part : part[1] = name)
  IN IF i = 0 THEN <<>> ELSE message[i][2]

-----------------------------------------------------------------------------
Upper(c) == c \in 65 .. 90
Lower(c) == c \in 97 .. 122
Digit(c) == c \in 48 .. 57

IsValidSASLMechanismName(name) ==
  /\ name # <<>> /\ Len(name) <= 20 /\ ~Digit(name[1])
  /\ \A c \in Chars(name) : Upper(c) \/ Digit(c) \/ c \in {45, 95}

IsValidChannelBindingName(name) ==
  /\ name # <<>>
  /\ \A c \in Chars(name) : Upper(c) \/ Lower(c) \/ Digit(c) \/ c \in {45, 46}

(* scramDowngradeString, of the spelled names; cb tells a list of channel  *)
(* bindings that was sent from none.  A server computes it alike.          *)
DowngradeString(mechanisms, cb, bindings) ==
  Join(Sorted(mechanisms), RS)
    \o IF cb THEN <<US>> \o Join(Sorted(bindings), RS) ELSE <<>>

(* A hash, which is never the empty string.                                *)
Hash(text) == <<text>>

NamesAreValid(mechanisms, bindings) ==
  /\ \A m \in ToSet(mechanisms) : IsValidSASLMechanismName(m)
  /\ \A b \in ToSet(bindings) : IsValidChannelBindingName(b)

(* Faulty variant: the names are not checked. *)
VerifyHashOnly(hash, offer) ==
  hash = Hash(DowngradeString(offer.spelled, offer.cb, offer.bindings))

(* verifySCRAMDowngradeHash, of what the client saw offered.               *)
VerifyDowngradeHash(hash, offer) ==
  /\ NamesAreValid(offer.spelled, offer.bindings)
  /\ hash = Hash(DowngradeString(offer.spelled, offer.cb, offer.bindings))

-----------------------------------------------------------------------------
(* Faulty variant: a refusal looks like any other answer. *)
PlainTemporary(reply) == IF reply.kind = "success" THEN "ok" ELSE "temporary"

(* authPlain: the outcome of the exchange.                                 *)
PlainGrade(reply) ==
  CASE reply.kind = "success" -> "ok"
    [] reply.kind = "failure" -> "permanent"
    [] OTHER -> "temporary"

(* readSASLChallenge and the checks of authScram on the first message.     *)
ChallengeGrade(reply, nonce, offer) ==
  LET F(name) == Field(reply.message, name) IN
  IF reply.kind = "failure" THEN "permanent"
  ELSE IF reply.kind # "challenge" \/ ~reply.base64 THEN "temporary"
  ELSE IF \/ ParseFails(reply.message)
          \/ ~IsPrefix(nonce, F("r")) \/ F("r") = <<>>
          \/ F("m") # <<>> \/ F("s") = <<>>
       THEN "permanent"
  ELSE IF F("s") = BadBase64 THEN "temporary"
  ELSE IF \/ F("i") \in {<<>>, NotANumber}
          \/ F("i")[1] < Minimum
          \/ F("h") # <<>> /\ ~VerifyDowngradeHash(F("h"), offer)
       THEN "permanent" ELSE "continue"

(* The server's signature of the exchange, under a password.               *)
Verifier(secret, message) == <<[secret |-> secret, message |-> message]>>

(* authScram: the outcome, given the first message as the client read it.  *)
FinalGrade(reply, secret, message) ==
  LET F(name) == Field(reply.message, name) IN
  IF reply.kind = "failure" THEN "permanent"
  ELSE IF reply.kind # "success" THEN "temporary"
  ELSE IF reply.message = <<>> THEN "ok"
  ELSE IF ~reply.base64 THEN "temporary"
  ELSE IF ParseFails(reply.message) \/ F("e") # <<>>
          \/ F("v") # Verifier(secret, message)
       THEN "permanent" ELSE "ok"

=============================================================================
