------------------------------ MODULE IQRouter ------------------------------
(***************************************************************************)
(* IQ requests and their result routes: SendIQ of Client and Component,    *)
(* NewIQResultRoute with the goroutine that waits for the context,         *)
(* RemoveIQResultRoute, and Router.route, which looks a route up and       *)
(* removes it in two critical sections and then sends on an unbuffered     *)
(* channel.  A client routes every stanza in a goroutine of its own, a     *)
(* component routes in recv itself.                                        *)
(*                                                                         *)
(* A call is known by the IQ it sends, a route and its channel by the call *)
(* that made them, a stanza that comes in by the call it answers or, when  *)
(* it is a request of the peer, by a name of its own.  The peer answers a  *)
(* request at most once (external).                                        *)
(***************************************************************************)
EXTENDS Naturals, Sequences

CONSTANTS
  Component,     \* TRUE for Component, FALSE for Client
  Calls,         \* calls of SendIQ
  PeerRequests,  \* IQ get and set stanzas the peer sends
  Ids,           \* values of the id attribute
  IdOf,          \* the id of each call and each request of the peer
  Handled,       \* requests of the peer that some route of the router matches
  None           \* no call

Packets == Calls \cup PeerRequests

ASSUME RouterAssumption ==
  /\ Component \in BOOLEAN
  /\ Calls \cap PeerRequests = {}
  /\ IdOf \in [Packets -> Ids]
  /\ Handled \subseteq PeerRequests
  /\ None \notin Packets

VARIABLES
  call,      \* where each caller of SendIQ is
  ctxDone,   \* the contexts that are done
  watcher,   \* the goroutine of NewIQResultRoute that waits for the context
  routes,    \* IQResultRoutes
  closed,    \* the calls whose result channel is closed
  toServer,  \* requests written
  sent,      \* stanzas the peer has sent
  toClient,  \* stanzas not yet read by recv
  routing,   \* the execution of Router.route for each stanza
  result,    \* the stanza each caller received
  replied,   \* requests of the peer that iqNotImplemented answered
  panicked   \* a goroutine sent on, or closed, a closed channel: the process ends

callVars  == <<call, result>>
routeVars == <<routes, watcher>>
netVars   == <<toServer, sent, toClient>>
vars == <<call, ctxDone, watcher, routes, closed, toServer, sent, toClient,
          routing, result, replied, panicked>>

-----------------------------------------------------------------------------

CallStates  == {"idle", "registered", "written", "sent", "waiting", "received",
                "gaveup", "failed"}
RouteStates == {"none", "lookup", "delete", "send", "close", "match", "done"}
NotRouted   == [pc |-> "none", route |-> None]

TypeOK ==
  /\ call \in [Calls -> CallStates]
  /\ ctxDone \in SUBSET Calls
  /\ watcher \in [Calls -> {"none", "armed", "fired"}]
  /\ routes \in [Ids -> Calls \cup {None}]
  /\ closed \in SUBSET Calls
  /\ toServer \in SUBSET Calls
  /\ sent \in SUBSET Packets
  /\ toClient \in Seq(Packets)
  /\ routing \in [Packets -> [pc : RouteStates, route : Calls \cup {None}]]
  /\ result \in [Calls -> Packets \cup {None}]
  /\ replied \in SUBSET PeerRequests
  /\ panicked \in BOOLEAN

Init ==
  /\ call = [c \in Calls |-> "idle"]
  /\ ctxDone = {}
  /\ watcher = [c \in Calls |-> "none"]
  /\ routes = [i \in Ids |-> None]
  /\ closed = {}
  /\ toServer = {} /\ sent = {} /\ toClient = <<>>
  /\ routing = [p \in Packets |-> NotRouted]
  /\ result = [c \in Calls |-> None]
  /\ replied = {}
  /\ panicked = FALSE

-----------------------------------------------------------------------------
(* SendIQ.  A client registers the route and then writes; a component      *)
(* writes first.  (Another IQ type than get and set is refused before any  *)
(* of this.)                                                               *)

NewIQResultRoute(c) ==
  /\ call[c] = IF Component THEN "written" ELSE "idle"
  /\ call' = [call EXCEPT ![c] = IF Component THEN "sent" ELSE "registered"]
  /\ routes' = [routes EXCEPT ![IdOf[c]] = c]
  /\ watcher' = [watcher EXCEPT ![c] = "armed"]
  /\ UNCHANGED <<ctxDone, closed, netVars, routing, result, replied, panicked>>

WriteIQ(c) ==
  /\ call[c] = IF Component THEN "idle" ELSE "registered"
  /\ call' = [call EXCEPT ![c] = IF Component THEN "written" ELSE "sent"]
  /\ toServer' = toServer \cup {c}
  /\ UNCHANGED <<ctxDone, routeVars, closed, sent, toClient, routing, result, replied, panicked>>

(* Faulty variant: the route of a failed write stays. *)
WriteFailsRouteKept(c) ==
  /\ call[c] = IF Component THEN "idle" ELSE "registered"
  /\ call' = [call EXCEPT ![c] = "failed"]
  /\ UNCHANGED <<ctxDone, routeVars, closed, netVars, routing, result, replied, panicked>>

(* Send fails: RemoveIQResultRoute in a client, nothing to remove in a     *)
(* component.                                                              *)
WriteFails(c) ==
  /\ call[c] = IF Component THEN "idle" ELSE "registered"
  /\ call' = [call EXCEPT ![c] = "failed"]
  /\ routes' = IF Component THEN routes ELSE [routes EXCEPT ![IdOf[c]] = None]
  /\ UNCHANGED <<ctxDone, watcher, closed, netVars, routing, result, replied, panicked>>

(* The caller reads the channel SendIQ returned, as long as its context    *)
(* lasts.                                                                  *)
Await(c) ==
  /\ call[c] = "sent"
  /\ call' = [call EXCEPT ![c] = "waiting"]
  /\ UNCHANGED <<ctxDone, routeVars, closed, netVars, routing, result, replied, panicked>>

ContextDone(c) ==
  /\ call[c] # "idle" /\ c \notin ctxDone
  /\ ctxDone' = ctxDone \cup {c}
  /\ UNCHANGED <<callVars, routeVars, closed, netVars, routing, replied, panicked>>

GiveUp(c) ==
  /\ call[c] = "waiting" /\ c \in ctxDone
  /\ call' = [call EXCEPT ![c] = "gaveup"]
  /\ UNCHANGED <<ctxDone, routeVars, closed, netVars, routing, result, replied, panicked>>

(* Faulty variant: the goroutine closes the channel too. *)
WatcherClosesChannel(c) ==
  /\ watcher[c] = "armed" /\ c \in ctxDone
  /\ watcher' = [watcher EXCEPT ![c] = "fired"]
  /\ routes' = [routes EXCEPT ![IdOf[c]] = None]
  /\ closed' = closed \cup {c}
  /\ UNCHANGED <<callVars, ctxDone, netVars, routing, replied, panicked>>

(* Faulty variant: the goroutine leaves the route. *)
WatcherIdle(c) ==
  /\ watcher[c] = "armed" /\ c \in ctxDone
  /\ watcher' = [watcher EXCEPT ![c] = "fired"]
  /\ UNCHANGED <<callVars, ctxDone, routes, closed, netVars, routing, replied, panicked>>

(* The goroutine of NewIQResultRoute: it deletes whatever route has the id. *)
WatcherFires(c) ==
  /\ watcher[c] = "armed" /\ c \in ctxDone
  /\ watcher' = [watcher EXCEPT ![c] = "fired"]
  /\ routes' = [routes EXCEPT ![IdOf[c]] = None]
  /\ UNCHANGED <<callVars, ctxDone, closed, netVars, routing, replied, panicked>>

-----------------------------------------------------------------------------
(* recv and Router.route.                                                  *)

Busy(p) == routing[p].pc \notin {"none", "done"}

Goto(p, pc) == routing' = [routing EXCEPT ![p].pc = pc]

Recv ==
  /\ toClient # <<>>
  /\ Component => \A p \in Packets : ~Busy(p)
  /\ Goto(Head(toClient), "lookup")
  /\ toClient' = Tail(toClient)
  /\ UNCHANGED <<callVars, ctxDone, routeVars, closed, toServer, sent, replied, panicked>>

(* Faulty variant: the id is not compared. *)
LookupAnyRoute(p) ==
  /\ routing[p].pc = "lookup"
  /\ \/ \E i \in Ids : /\ routes[i] # None
                       /\ routing' = [routing EXCEPT ![p] = [pc |-> "delete", route |-> routes[i]]]
     \/ /\ \A i \in Ids : routes[i] = None
        /\ Goto(p, "match")
  /\ UNCHANGED <<callVars, ctxDone, routeVars, closed, netVars, replied, panicked>>

(* Under the read lock.  Any IQ with the id will do, whatever its type.    *)
Lookup(p) ==
  /\ routing[p].pc = "lookup"
  /\ LET r == routes[IdOf[p]] IN
       IF r # None THEN routing' = [routing EXCEPT ![p] = [pc |-> "delete", route |-> r]]
                   ELSE Goto(p, "match")
  /\ UNCHANGED <<callVars, ctxDone, routeVars, closed, netVars, replied, panicked>>

(* Under the write lock, which was released in between.                    *)
DeleteRoute(p) ==
  /\ routing[p].pc = "delete"
  /\ routes' = [routes EXCEPT ![IdOf[p]] = None]
  /\ Goto(p, "send")
  /\ UNCHANGED <<callVars, ctxDone, watcher, closed, netVars, replied, panicked>>

(* Faulty variant: the send does not wait for a receiver. *)
DeliverOrDrop(p) ==
  LET c == routing[p].route IN
  /\ routing[p].pc = "send"
  /\ IF call[c] = "waiting"
       THEN /\ call' = [call EXCEPT ![c] = "received"]
            /\ result' = [result EXCEPT ![c] = p]
       ELSE UNCHANGED callVars
  /\ Goto(p, "close")
  /\ UNCHANGED <<ctxDone, routeVars, closed, netVars, replied, panicked>>

(* route.result <- *iq meets the caller: the channel has no buffer.  On a   *)
(* closed channel it panics.                                               *)
Deliver(p) ==
  LET c == routing[p].route IN
  /\ routing[p].pc = "send"
  /\ IF c \in closed
       THEN panicked' = TRUE /\ UNCHANGED callVars
       ELSE /\ call[c] = "waiting"
            /\ call' = [call EXCEPT ![c] = "received"]
            /\ result' = [result EXCEPT ![c] = p]
            /\ UNCHANGED panicked
  /\ Goto(p, "close")
  /\ UNCHANGED <<ctxDone, routeVars, closed, netVars, replied>>

CloseResult(p) ==
  /\ routing[p].pc = "close"
  /\ closed' = closed \cup {routing[p].route}
  /\ panicked' = IF routing[p].route \in closed THEN TRUE ELSE panicked
  /\ Goto(p, "done")
  /\ UNCHANGED <<callVars, ctxDone, routeVars, netVars, replied>>

(* Faulty variant: no reply to an unmatched request. *)
MatchNoReply(p) ==
  /\ routing[p].pc = "match"
  /\ Goto(p, "done")
  /\ UNCHANGED <<callVars, ctxDone, routeVars, closed, netVars, replied, panicked>>

(* No result route: the first route that matches, or iqNotImplemented for  *)
(* a get or a set.                                                         *)
Match(p) ==
  /\ routing[p].pc = "match"
  /\ replied' = IF p \in PeerRequests \ Handled THEN replied \cup {p} ELSE replied
  /\ Goto(p, "done")
  /\ UNCHANGED <<callVars, ctxDone, routeVars, closed, netVars, panicked>>

-----------------------------------------------------------------------------
(* The peer (external): it answers what it was asked, once, and asks.      *)

PeerSends(p) ==
  /\ p \notin sent /\ (p \in Calls => p \in toServer)
  /\ sent' = sent \cup {p}
  /\ toClient' = Append(toClient, p)
  /\ UNCHANGED <<callVars, ctxDone, routeVars, closed, toServer, routing, replied, panicked>>

-----------------------------------------------------------------------------

Caller(c) ==
  \/ NewIQResultRoute(c) \/ WriteIQ(c) \/ WriteFails(c) \/ Await(c)
  \/ ContextDone(c) \/ GiveUp(c)

Routing(p) ==
  \/ Lookup(p) \/ DeleteRoute(p) \/ Deliver(p) \/ CloseResult(p) \/ Match(p)

Next ==
  /\ ~panicked
  /\ \/ \E c \in Calls : Caller(c) \/ WatcherFires(c)
     \/ \E p \in Packets : Routing(p) \/ PeerSends(p)
     \/ Recv

Spec == Init /\ [][Next]_vars

(* The goroutines of the library run, and a caller that has the channel    *)
(* reads it.  No context need expire and the peer need not answer.         *)
FairSpec ==
  /\ Spec
  /\ WF_vars(~panicked /\ Recv)
  /\ \A p \in Packets : WF_vars(~panicked /\ Routing(p))
  /\ \A c \in Calls : /\ WF_vars(~panicked /\ Await(c))
                      /\ WF_vars(~panicked /\ GiveUp(c))
                      /\ WF_vars(~panicked /\ WatcherFires(c))

-----------------------------------------------------------------------------
(* Properties.                                                             *)

(* No other stanza has the id of p.                                        *)
OwnId(p) == \A q \in Packets : IdOf[q] = IdOf[p] => q = p

(* Two stanzas were given the route c.                                     *)
TakenTwice(c) ==
  \E p, q \in Packets : p # q /\ routing[p].route = c /\ routing[q].route = c

(* Whatever the ids: Router.route sends on a closed channel, or closes one *)
(* twice, only on a route that two stanzas found before either removed it. *)
(* Neither the end of the context nor a later call with the same id, whose *)
(* route takes the place of the first, closes a channel that is in use.    *)
PanicsNeedSharedRoute == panicked => \E c \in Calls : TakenTwice(c)

(* A caller whose id nobody else uses receives the answer to its request,  *)
(* whatever the ids of the others are.                                     *)
ResultIsOwn == \A c \in Calls : OwnId(c) => result[c] \in {None, c}

(* A registered route belongs to a call that can still be answered, or     *)
(* whose context is done and about to remove it: none is left behind by a  *)
(* failed write or after the result was delivered.                         *)
RoutesAreLive ==
  \A i \in Ids : LET c == routes[i] IN
    c # None => /\ IdOf[c] = i /\ c \notin closed
                /\ \/ call[c] \in {"registered", "sent", "waiting"}
                   \/ call[c] = "gaveup" /\ watcher[c] = "armed" /\ c \in ctxDone

(* An answer that arrives while the context lasts reaches the caller, even *)
(* if stanzas with other ids wait for ever (SendIQ: "if a result is        *)
(* received the provided handler function will automatically be called").  *)
AnswersArrive ==
  \A c \in Calls :
    OwnId(c) => (c \in sent ~> (call[c] = "received" \/ c \in ctxDone \/ panicked))

(* Once the context is done the route goes away, whatever else happens and *)
(* whoever has the id.                                                     *)
ContextRemovesRoute ==
  \A c \in Calls : c \in ctxDone ~> (panicked \/ [](\A i \in Ids : routes[i] # c))

(* A request that no route matches is answered (iqNotImplemented), unless  *)
(* it carries the id of a pending call and is given its route.             *)
RequestsAnswered ==
  \A p \in PeerRequests \ Handled :
    p \in sent ~> (p \in replied \/ routing[p].route # None \/ panicked)

=============================================================================
