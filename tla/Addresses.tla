----------------------------- MODULE Addresses ------------------------------
(***************************************************************************)
(* Jids, host addresses, SRV entries and the choice of a transport         *)
(* (stanza/jid.go, network.go, transport.go, cert_checker.go, client.go).  *)
(***************************************************************************)
EXTENDS Text

Port(n) == <<48 + n>>     \* a port number, one digit for short
DefaultPort == Port(5)    \* 5222
Ws  == <<87, Colon>>      \* the prefixes ws: and wss:
Wss == <<88, Colon>>

NoJid == [node |-> <<>>, domain |-> <<>>, resource |-> <<>>]
BadJid == [ok |-> FALSE, jid |-> NoJid]

IsUsernameValid(u) ==
  Chars(u) \cap {Space, AtSign, Slash, 39, 34, Colon, 60, 62} = {}

IsDomainValid(d) == d # <<>> /\ Chars(d) \cap {Space, AtSign, Slash} = {}

(* NewJid: the text before the first @ is the node, and what follows the   *)
(* first / of the rest is the resource.                                    *)
NewJid(s) ==
  LET s1   == SplitOnce(s, AtSign)
      s2   == SplitOnce(s1[Len(s1)], Slash)
      node == IF Len(s1) = 2 THEN s1[1] ELSE <<>>
      jid  == [node |-> node, domain |-> s2[1],
               resource |-> IF Len(s2) = 2 THEN s2[2] ELSE <<>>]
  IN IF \/ s = <<>>
        \/ Len(s1) = 2 /\ (s1[1] = <<>> \/ s1[2] = <<>>)
        \/ ~IsUsernameValid(node) \/ ~IsDomainValid(jid.domain)
     THEN BadJid
     ELSE [ok |-> TRUE, jid |-> jid]

Bare(j) == IF j.node = <<>> THEN j.domain ELSE j.node \o <<AtSign>> \o j.domain

(* Faulty variant: a jid without a node gets an @ too. *)
FullWithNode(j) == j.node \o <<AtSign>> \o j.domain \o <<Slash>> \o j.resource

Full(j) == IF j.resource = <<>> THEN Bare(j) ELSE Bare(j) \o <<Slash>> \o j.resource

-----------------------------------------------------------------------------
EnsurePort(addr, port) ==
  IF IsPrefix(<<Open>>, addr)
  THEN IF LastAt(addr, Colon) <= LastAt(addr, Close)
       THEN addr \o <<Colon>> \o port ELSE addr
  ELSE CASE Occurrences(addr, Colon) = 0 -> addr \o <<Colon>> \o port
         [] Occurrences(addr, Colon) = 1 -> addr
         [] OTHER -> <<Open>> \o addr \o <<Close, Colon>> \o port

(* extractParams: the address, its host, and whether there is an error.    *)
ExtractParams(addr) ==
  LET host == SplitOnce(addr, Colon)[1]
      n    == Occurrences(addr, Colon)
  IN [ok      |-> n <= 1,
      host    |-> host,
      address |-> IF n > 1 \/ (n = 1 /\ addr[Len(addr)] # Colon)
                  THEN addr ELSE host \o <<Colon>> \o DefaultPort]

(* NewClientTransport: "ws", "wss" or "tcp".                               *)
TransportKind(addr) ==
  CASE IsPrefix(Ws, addr)  -> "ws"
    [] IsPrefix(Wss, addr) -> "wss"
    [] OTHER -> "tcp"

ClientAddress(addr) ==
  IF TransportKind(addr) = "tcp" THEN EnsurePort(addr, DefaultPort) ELSE addr

(* NewComponentTransport refuses websockets.                               *)
ComponentTransport(addr) ==
  [ok |-> TransportKind(addr) = "tcp", address |-> EnsurePort(addr, DefaultPort)]

-----------------------------------------------------------------------------
(* The loop of NewClient over the SRV entries.                             *)
BestSrv(entries) ==
  LET best[n \in 0 .. Len(entries)] ==
        IF n = 0 THEN entries[1]
        ELSE LET e == entries[n]
                 b == best[n - 1]
             IN IF e.priority <= b.priority /\ e.weight >= b.weight THEN e ELSE b
  IN best[Len(entries)]

(* NewClient: the address that is given, that of the best SRV entry, or    *)
(* the domain of the jid.                                                  *)
DialAddress(given, jid, entries) ==
  ClientAddress(
    IF given # <<>> THEN given
    ELSE IF entries # <<>>
    THEN EnsurePort(BestSrv(entries).target, Port(BestSrv(entries).port))
    ELSE jid.domain)
=============================================================================
