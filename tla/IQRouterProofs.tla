--------------------------- MODULE IQRouterProofs ---------------------------
(***************************************************************************)
(* Safety of the IQ result routes, for a client and for a component, any   *)
(* number of calls and requests of the peer, whether or not stanzas share  *)
(* an id.                                                                  *)
(***************************************************************************)
EXTENDS IQRouter, SequenceTheorems, TLAPS

(* Each stanza is read by recv at most once.                               *)
OnceOnWire ==
  /\ \A i \in 1 .. Len(toClient) :
       toClient[i] \in sent /\ routing[toClient[i]].pc = "none"
  /\ \A i, j \in 1 .. Len(toClient) : toClient[i] = toClient[j] => i = j
  /\ \A p \in Packets \ sent : routing[p].pc = "none"

(* The route a stanza was given was registered with the stanza's id.       *)
OwnRoute ==
  \A p \in Packets :
    /\ routing[p].pc \in {"none", "lookup", "match"} => routing[p].route = None
    /\ routing[p].pc \in {"delete", "send", "close"} => routing[p].route # None
    /\ routing[p].route # None => /\ IdOf[routing[p].route] = IdOf[p]
                                  /\ watcher[routing[p].route] # "none"

(* A registered route was only looked up so far, and its watcher will      *)
(* remove it.                                                              *)
Registered ==
  \A i \in Ids : \A c \in Calls : routes[i] = c =>
    /\ IdOf[c] = i
    /\ watcher[c] = "armed"
    /\ \A p \in Packets : routing[p].route = c => routing[p].pc = "delete"
    /\ \/ call[c] \in {"registered", "sent", "waiting"}
       \/ call[c] = "gaveup" /\ c \in ctxDone

ClosedAfterUse ==
  \A c \in closed : \E p \in Packets : routing[p].pc = "done" /\ routing[p].route = c

NotYetRegistered ==
  \A c \in Calls : call[c] \in {"idle", "written"} => watcher[c] = "none"

ResultFits == \A c \in Calls : result[c] # None => IdOf[result[c]] = IdOf[c]

IInv ==
  /\ TypeOK /\ OnceOnWire /\ OwnRoute /\ Registered /\ ClosedAfterUse
  /\ NotYetRegistered /\ ResultFits /\ PanicsNeedSharedRoute

-----------------------------------------------------------------------------

LEMMA InitIInv == Init => IInv
<1> SUFFICES ASSUME Init PROVE IInv
  OBVIOUS
<1> USE RouterAssumption DEF Init, Packets, NotRouted
<1>1. TypeOK
  <2>1. toClient \in Seq(Packets)
    OBVIOUS
  <2>2. routing \in [Packets -> [pc : RouteStates, route : Calls \cup {None}]]
    BY DEF RouteStates
  <2> QED BY <2>1, <2>2 DEF TypeOK, CallStates
<1>2. OnceOnWire /\ OwnRoute /\ Registered /\ ClosedAfterUse /\ NotYetRegistered
      /\ ResultFits /\ PanicsNeedSharedRoute
  BY DEF OnceOnWire, OwnRoute, Registered, ClosedAfterUse, NotYetRegistered, ResultFits,
         PanicsNeedSharedRoute
<1> QED BY <1>1, <1>2 DEF IInv

(* A stanza past the lookup has a route.                                   *)
LEMMA RoutedHaveRoutes ==
  ASSUME TypeOK, OwnRoute, NEW p \in Packets, routing[p].pc \in {"delete", "send", "close"}
  PROVE  routing[p].route \in Calls /\ IdOf[routing[p].route] = IdOf[p]
BY DEF TypeOK, OwnRoute

LEMMA GotoTyped ==
  ASSUME TypeOK, NEW p \in Packets, NEW pc \in RouteStates, Goto(p, pc)
  PROVE  routing' \in [Packets -> [pc : RouteStates, route : Calls \cup {None}]]
BY DEF TypeOK, Goto

LEMMA TypePreserved ==
  ASSUME TypeOK, OwnRoute, [Next]_vars
  PROVE  TypeOK'
<1> USE RouterAssumption DEF TypeOK, CallStates, Packets, callVars, routeVars, netVars
<1>1. ASSUME NEW c \in Calls, NewIQResultRoute(c) PROVE TypeOK'
  BY <1>1 DEF NewIQResultRoute
<1>2. ASSUME NEW c \in Calls, WriteIQ(c) PROVE TypeOK'
  BY <1>2 DEF WriteIQ
<1>3. ASSUME NEW c \in Calls, WriteFails(c) PROVE TypeOK'
  BY <1>3 DEF WriteFails
<1>4. ASSUME NEW c \in Calls, Await(c) PROVE TypeOK'
  BY <1>4 DEF Await
<1>5. ASSUME NEW c \in Calls, ContextDone(c) PROVE TypeOK'
  BY <1>5 DEF ContextDone
<1>6. ASSUME NEW c \in Calls, GiveUp(c) PROVE TypeOK'
  BY <1>6 DEF GiveUp
<1>7. ASSUME NEW c \in Calls, WatcherFires(c) PROVE TypeOK'
  BY <1>7 DEF WatcherFires
<1>r. {"none", "lookup", "delete", "send", "close", "match", "done"} = RouteStates
  BY DEF RouteStates
<1>8. ASSUME NEW p \in Packets, Lookup(p) PROVE TypeOK'
  <2>1. routes[IdOf[p]] \in Calls \cup {None}
    OBVIOUS
  <2>2. routing' \in [Packets -> [pc : RouteStates, route : Calls \cup {None}]]
    <3>1. CASE routes[IdOf[p]] = None
      BY <1>8, <1>r, <3>1, GotoTyped DEF Lookup
    <3>2. CASE routes[IdOf[p]] # None
      <4>1. [pc |-> "delete", route |-> routes[IdOf[p]]]
              \in [pc : RouteStates, route : Calls \cup {None}]
        BY <2>1, <1>r
      <4>2. routing' = [routing EXCEPT ![p] = [pc |-> "delete", route |-> routes[IdOf[p]]]]
        BY <1>8, <3>2 DEF Lookup
      <4> QED BY <4>1, <4>2
    <3> QED BY <3>1, <3>2
  <2> QED BY <1>8, <2>2 DEF Lookup
<1>9. ASSUME NEW p \in Packets, DeleteRoute(p) PROVE TypeOK'
  <2>1. routing' \in [Packets -> [pc : RouteStates, route : Calls \cup {None}]]
    BY <1>9, <1>r, GotoTyped DEF DeleteRoute
  <2> QED BY <1>9, <2>1 DEF DeleteRoute
<1>10. ASSUME NEW p \in Packets, Deliver(p) PROVE TypeOK'
  <2>1. routing' \in [Packets -> [pc : RouteStates, route : Calls \cup {None}]]
    BY <1>10, <1>r, GotoTyped DEF Deliver
  <2>2. routing[p].route \in Calls
    BY <1>10, RoutedHaveRoutes DEF Deliver
  <2>3. CASE routing[p].route \in closed
    BY <1>10, <2>1, <2>2, <2>3 DEF Deliver
  <2>4. CASE routing[p].route \notin closed
    <3>1. /\ call' = [call EXCEPT ![routing[p].route] = "received"]
          /\ result' = [result EXCEPT ![routing[p].route] = p]
      BY <1>10, <2>2, <2>4 DEF Deliver
    <3>2. call' \in [Calls -> CallStates]
      BY <3>1
    <3>3. result' \in [Calls -> Packets \cup {None}]
      BY <2>2, <3>1
    <3> QED BY <1>10, <2>1, <2>2, <2>4, <3>2, <3>3 DEF Deliver
  <2> QED BY <2>3, <2>4
<1>11. ASSUME NEW p \in Packets, CloseResult(p) PROVE TypeOK'
  <2>1. routing' \in [Packets -> [pc : RouteStates, route : Calls \cup {None}]]
    BY <1>11, <1>r, GotoTyped DEF CloseResult
  <2>2. routing[p].route \in Calls
    BY <1>11, RoutedHaveRoutes DEF CloseResult
  <2>3. panicked' \in BOOLEAN
    <3>1. CASE routing[p].route \in closed
      BY <1>11, <3>1 DEF CloseResult
    <3>2. CASE routing[p].route \notin closed
      BY <1>11, <3>2 DEF CloseResult
    <3> QED BY <3>1, <3>2
  <2>4. closed' \in SUBSET Calls
    BY <1>11, <2>2 DEF CloseResult
  <2> QED BY <1>11, <2>1, <2>3, <2>4 DEF CloseResult
<1>12. ASSUME NEW p \in Packets, Match(p) PROVE TypeOK'
  <2>1. routing' \in [Packets -> [pc : RouteStates, route : Calls \cup {None}]]
    BY <1>12, <1>r, GotoTyped DEF Match
  <2> QED BY <1>12, <2>1 DEF Match
<1>13. ASSUME NEW p \in Packets, PeerSends(p) PROVE TypeOK'
  BY <1>13 DEF PeerSends
<1>14. CASE Recv
  <2>1. Head(toClient) \in Packets /\ Tail(toClient) \in Seq(Packets)
    BY <1>14 DEF Recv
  <2>2. routing' \in [Packets -> [pc : RouteStates, route : Calls \cup {None}]]
    BY <1>14, <1>r, <2>1, GotoTyped DEF Recv
  <2> QED BY <1>14, <2>1, <2>2 DEF Recv
<1>15. CASE UNCHANGED vars
  BY <1>15 DEF vars
<1> QED
  BY <1>1, <1>2, <1>3, <1>4, <1>5, <1>6, <1>7, <1>8, <1>9, <1>10, <1>11, <1>12, <1>13,
     <1>14, <1>15 DEF Next, Caller, Routing

-----------------------------------------------------------------------------
(* How the steps change the execution of route for one stanza.             *)

LEMMA GotoEffect ==
  ASSUME TypeOK, NEW p \in Packets, NEW pc, Goto(p, pc)
  PROVE  /\ routing'[p].pc = pc /\ routing'[p].route = routing[p].route
         /\ \A q \in Packets : q # p => routing'[q] = routing[q]
BY DEF TypeOK, Goto

(* The stanzas of one reading order are distinct, and recv takes the first. *)
LEMMA WirePreserved ==
  ASSUME TypeOK, OnceOnWire, [Next]_vars
  PROVE  OnceOnWire'
<1>t. toClient \in Seq(Packets) /\ Len(toClient) \in Nat
  BY DEF TypeOK
<1>1. CASE UNCHANGED <<toClient, sent, routing>>
  BY <1>1 DEF OnceOnWire
<1>2. ASSUME NEW p \in Packets, Routing(p) PROVE OnceOnWire'
  <2>1. UNCHANGED <<toClient, sent>> /\ routing[p].pc # "none"
    BY <1>2 DEF Routing, Lookup, DeleteRoute, Deliver, CloseResult, Match, netVars
  <2>2. \A q \in Packets : q # p => routing'[q] = routing[q]
    BY <1>2, GotoEffect
    DEF Routing, Lookup, DeleteRoute, Deliver, CloseResult, Match, TypeOK
  <2>3. \A i \in 1 .. Len(toClient) : toClient[i] \in Packets
    BY <1>t
  <2> QED BY <2>1, <2>2, <2>3 DEF OnceOnWire
<1>3. ASSUME NEW p \in Packets, PeerSends(p) PROVE OnceOnWire'
  <2>1. p \notin sent /\ sent' = sent \cup {p} /\ toClient' = Append(toClient, p)
        /\ UNCHANGED routing
    BY <1>3 DEF PeerSends
  <2>2. /\ Len(toClient') = Len(toClient) + 1
        /\ toClient'[Len(toClient) + 1] = p
        /\ \A i \in 1 .. Len(toClient) : toClient'[i] = toClient[i]
    BY <1>t, <2>1
  <2>3. routing[p].pc = "none" /\ \A i \in 1 .. Len(toClient) : toClient[i] # p
    BY <2>1 DEF OnceOnWire
  <2>4. \A i \in 1 .. Len(toClient') : i \in 1 .. Len(toClient) \/ i = Len(toClient) + 1
    BY <1>t, <2>2
  <2> QED BY <2>1, <2>2, <2>3, <2>4, <1>t DEF OnceOnWire
<1>4. CASE Recv
  <2> DEFINE p == Head(toClient)
  <2>1. p \in Packets /\ p = toClient[1] /\ Len(toClient) >= 1 /\ UNCHANGED sent
        /\ toClient' = Tail(toClient)
    BY <1>4, <1>t DEF Recv
  <2>2. Len(toClient') = Len(toClient) - 1
        /\ \A i \in 1 .. Len(toClient') : toClient'[i] = toClient[i + 1]
                                          /\ i + 1 \in 1 .. Len(toClient)
    BY <1>t, <2>1
  <2>3. \A q \in Packets : q # p => routing'[q] = routing[q]
    BY <1>4, <2>1, GotoEffect DEF Recv
  <2>4. 1 \in 1 .. Len(toClient) /\ p \in sent
    BY <2>1, <1>t DEF OnceOnWire
  <2>5. \A i \in 1 .. Len(toClient') : toClient'[i] # p /\ toClient'[i] \in Packets
    <3> SUFFICES ASSUME NEW i \in 1 .. Len(toClient')
                 PROVE  toClient'[i] # p /\ toClient'[i] \in Packets
      OBVIOUS
    <3>1. toClient'[i] = toClient[i + 1] /\ i + 1 \in 1 .. Len(toClient) /\ i + 1 # 1
      BY <2>2, <1>t
    <3> QED BY <3>1, <2>1, <2>4, <1>t DEF OnceOnWire
  <2> HIDE DEF p
  <2>6. \A i \in 1 .. Len(toClient') : toClient'[i] \in sent' /\ routing'[toClient'[i]].pc = "none"
    BY <2>1, <2>2, <2>3, <2>5 DEF OnceOnWire
  <2>7. \A i, j \in 1 .. Len(toClient') : toClient'[i] = toClient'[j] => i = j
    <3> SUFFICES ASSUME NEW i \in 1 .. Len(toClient'), NEW j \in 1 .. Len(toClient'),
                        toClient'[i] = toClient'[j]
                 PROVE  i = j
      OBVIOUS
    <3>1. i + 1 = j + 1
      BY <2>2 DEF OnceOnWire
    <3> QED BY <3>1
  <2>8. \A q \in Packets \ sent' : routing'[q].pc = "none"
    BY <2>1, <2>3, <2>4 DEF OnceOnWire
  <2> QED BY <2>6, <2>7, <2>8 DEF OnceOnWire
<1>5. ASSUME NEW c \in Calls, Caller(c) \/ WatcherFires(c) PROVE OnceOnWire'
  BY <1>1, <1>5
  DEF Caller, NewIQResultRoute, WriteIQ, WriteFails, Await, ContextDone, GiveUp,
      WatcherFires, netVars
<1>6. CASE UNCHANGED vars
  BY <1>1, <1>6 DEF vars
<1> QED BY <1>2, <1>3, <1>4, <1>5, <1>6 DEF Next

(* A stanza gets its route from the lookup, by its id.                     *)
LEMMA OwnRoutePreserved ==
  ASSUME IInv, [Next]_vars
  PROVE  OwnRoute'
<1> USE RouterAssumption
<1>0. TypeOK /\ OwnRoute /\ OnceOnWire /\ Registered
  BY DEF IInv
<1>1. CASE UNCHANGED routing /\ \A c \in Calls : watcher[c] # "none" => watcher'[c] # "none"
  BY <1>0, <1>1 DEF OwnRoute, TypeOK
<1>2. ASSUME NEW p \in Packets, NEW pc, Goto(p, pc), UNCHANGED watcher,
             pc \in {"send", "close", "done", "match"},
             pc = "send" => routing[p].pc = "delete",
             pc = "close" => routing[p].pc = "send",
             pc = "match" => routing[p].pc = "lookup"
      PROVE  OwnRoute'
  <2>1. /\ routing'[p].pc = pc /\ routing'[p].route = routing[p].route
        /\ \A q \in Packets : q # p => routing'[q] = routing[q]
    BY <1>0, <1>2, GotoEffect
  <2> QED BY <1>0, <1>2, <2>1 DEF OwnRoute
<1>3. ASSUME NEW p \in Packets, Lookup(p) PROVE OwnRoute'
  <2>1. CASE routes[IdOf[p]] = None
    BY <1>2, <1>3, <2>1 DEF Lookup, routeVars
  <2>2. CASE routes[IdOf[p]] # None
    <3> DEFINE c == routes[IdOf[p]]
    <3>1. c \in Calls /\ IdOf[p] \in Ids
      BY <1>0, <2>2 DEF TypeOK
    <3>2. IdOf[c] = IdOf[p] /\ watcher[c] = "armed"
      BY <1>0, <3>1 DEF Registered
    <3>3. /\ routing' = [routing EXCEPT ![p] = [pc |-> "delete", route |-> c]]
          /\ UNCHANGED watcher
      BY <1>3, <2>2 DEF Lookup, routeVars
    <3>4. /\ routing'[p] = [pc |-> "delete", route |-> c]
          /\ \A q \in Packets : q # p => routing'[q] = routing[q]
      BY <1>0, <3>3 DEF TypeOK
    <3> HIDE DEF c
    <3> QED BY <1>0, <3>1, <3>2, <3>3, <3>4 DEF OwnRoute, Packets
  <2> QED BY <2>1, <2>2
<1>4. ASSUME NEW p \in Packets, DeleteRoute(p) \/ Deliver(p) \/ CloseResult(p) \/ Match(p)
      PROVE  OwnRoute'
  BY <1>2, <1>4 DEF DeleteRoute, Deliver, CloseResult, Match, routeVars
<1>5. ASSUME NEW p \in Packets, PeerSends(p) PROVE OwnRoute'
  BY <1>1, <1>5 DEF PeerSends, routeVars
<1>6. CASE Recv
  <2> DEFINE p == Head(toClient)
  <2>1. p \in Packets /\ p = toClient[1] /\ 1 \in 1 .. Len(toClient) /\ UNCHANGED watcher
    BY <1>0, <1>6 DEF Recv, TypeOK, routeVars
  <2>2. routing[p].pc = "none"
    BY <1>0, <2>1 DEF OnceOnWire
  <2>3. /\ routing'[p].pc = "lookup" /\ routing'[p].route = routing[p].route
        /\ \A q \in Packets : q # p => routing'[q] = routing[q]
    BY <1>0, <1>6, <2>1, GotoEffect DEF Recv
  <2> HIDE DEF p
  <2> QED BY <1>0, <2>1, <2>2, <2>3 DEF OwnRoute
<1>7. ASSUME NEW c \in Calls, Caller(c) \/ WatcherFires(c) PROVE OwnRoute'
  <2>1. UNCHANGED routing
    BY <1>7
    DEF Caller, NewIQResultRoute, WriteIQ, WriteFails, Await, ContextDone, GiveUp, WatcherFires
  <2>2. watcher' \in {watcher, [watcher EXCEPT ![c] = "armed"], [watcher EXCEPT ![c] = "fired"]}
    BY <1>7
    DEF Caller, NewIQResultRoute, WriteIQ, WriteFails, Await, ContextDone, GiveUp, WatcherFires,
        routeVars
  <2> QED BY <1>0, <1>1, <2>1, <2>2 DEF TypeOK
<1>8. CASE UNCHANGED vars
  BY <1>1, <1>8 DEF vars
<1> QED BY <1>3, <1>4, <1>5, <1>6, <1>7, <1>8 DEF Next, Routing

LEMMA ClosedPreserved ==
  ASSUME IInv, [Next]_vars
  PROVE  ClosedAfterUse'
<1>0. TypeOK /\ OwnRoute /\ OnceOnWire /\ ClosedAfterUse
  BY DEF IInv
<1>1. CASE UNCHANGED <<closed, routing>>
  BY <1>0, <1>1 DEF ClosedAfterUse
<1>2. ASSUME NEW p \in Packets, routing[p].pc # "done", UNCHANGED closed,
             \A q \in Packets : q # p => routing'[q] = routing[q]
      PROVE  ClosedAfterUse'
  BY <1>0, <1>2 DEF ClosedAfterUse, TypeOK, Packets
<1>3. ASSUME NEW p \in Packets, Lookup(p) PROVE ClosedAfterUse'
  BY <1>0, <1>2, <1>3, GotoEffect DEF Lookup, TypeOK
<1>4. ASSUME NEW p \in Packets, DeleteRoute(p) \/ Deliver(p) \/ Match(p) PROVE ClosedAfterUse'
  BY <1>0, <1>2, <1>4, GotoEffect DEF DeleteRoute, Deliver, Match
<1>5. ASSUME NEW p \in Packets, CloseResult(p) PROVE ClosedAfterUse'
  <2>1. routing[p].route \in Calls
    BY <1>0, <1>5, RoutedHaveRoutes DEF CloseResult
  <2>2. /\ routing'[p].pc = "done" /\ routing'[p].route = routing[p].route
        /\ closed' = closed \cup {routing[p].route}
        /\ \A q \in Packets : q # p => routing'[q] = routing[q]
    BY <1>0, <1>5, <2>1, GotoEffect DEF CloseResult
  <2> QED BY <1>0, <2>1, <2>2 DEF ClosedAfterUse, TypeOK, Packets
<1>6. ASSUME NEW p \in Packets, PeerSends(p) PROVE ClosedAfterUse'
  BY <1>1, <1>6 DEF PeerSends
<1>7. CASE Recv
  <2> DEFINE p == Head(toClient)
  <2>1. p \in Packets /\ p = toClient[1] /\ 1 \in 1 .. Len(toClient)
    BY <1>0, <1>7 DEF Recv, TypeOK
  <2>2. routing[p].pc = "none"
    BY <1>0, <2>1 DEF OnceOnWire
  <2>3. \A q \in Packets : q # p => routing'[q] = routing[q]
    BY <1>0, <1>7, <2>1, GotoEffect DEF Recv
  <2>4. UNCHANGED closed
    BY <1>7 DEF Recv
  <2> HIDE DEF p
  <2> QED BY <1>2, <2>1, <2>2, <2>3, <2>4
<1>8. ASSUME NEW c \in Calls, Caller(c) \/ WatcherFires(c) PROVE ClosedAfterUse'
  BY <1>1, <1>8
  DEF Caller, NewIQResultRoute, WriteIQ, WriteFails, Await, ContextDone, GiveUp, WatcherFires
<1>9. CASE UNCHANGED vars
  BY <1>1, <1>9 DEF vars
<1> QED BY <1>3, <1>4, <1>5, <1>6, <1>7, <1>8, <1>9 DEF Next, Routing

LEMMA NotYetPreserved ==
  ASSUME IInv, [Next]_vars
  PROVE  NotYetRegistered'
<1>0. TypeOK /\ NotYetRegistered
  BY DEF IInv
<1>1. CASE UNCHANGED watcher /\ \A c \in Calls : call'[c] \in {"idle", "written"}
                                                  => call[c] \in {"idle", "written"}
  BY <1>0, <1>1 DEF NotYetRegistered
<1>2. ASSUME NEW c \in Calls, NewIQResultRoute(c) PROVE NotYetRegistered'
  BY <1>0, <1>2 DEF NewIQResultRoute, NotYetRegistered, TypeOK
<1>3. ASSUME NEW c \in Calls, WatcherFires(c) PROVE NotYetRegistered'
  BY <1>0, <1>3 DEF WatcherFires, NotYetRegistered, TypeOK, callVars
<1>4. ASSUME NEW c \in Calls, WriteIQ(c) PROVE NotYetRegistered'
  BY <1>0, <1>4, RouterAssumption DEF WriteIQ, NotYetRegistered, TypeOK, routeVars
<1>5. ASSUME NEW c \in Calls, WriteFails(c) \/ Await(c) \/ ContextDone(c) \/ GiveUp(c)
      PROVE  NotYetRegistered'
  BY <1>0, <1>1, <1>5
  DEF WriteFails, Await, ContextDone, GiveUp, TypeOK, routeVars, callVars
<1>6. ASSUME NEW p \in Packets, Deliver(p) PROVE NotYetRegistered'
  <2>1. call' = call \/ call' = [call EXCEPT ![routing[p].route] = "received"]
    BY <1>6 DEF Deliver, callVars
  <2> QED BY <1>0, <1>1, <1>6, <2>1 DEF Deliver, TypeOK, routeVars
<1>7. ASSUME NEW p \in Packets,
             Lookup(p) \/ DeleteRoute(p) \/ CloseResult(p) \/ Match(p) \/ PeerSends(p)
      PROVE  NotYetRegistered'
  BY <1>1, <1>7 DEF Lookup, DeleteRoute, CloseResult, Match, PeerSends, callVars, routeVars
<1>8. CASE Recv \/ UNCHANGED vars
  BY <1>1, <1>8 DEF Recv, vars, callVars, routeVars
<1> QED BY <1>2, <1>3, <1>4, <1>5, <1>6, <1>7, <1>8 DEF Next, Caller, Routing

(* A route is used at most once: by the time its stanza is delivered it is *)
(* no longer registered.                                                   *)
LEMMA RegisteredPreserved ==
  ASSUME IInv, [Next]_vars
  PROVE  Registered'
<1> USE RouterAssumption
<1>0. TypeOK /\ OwnRoute /\ OnceOnWire /\ Registered /\ NotYetRegistered
  BY DEF IInv
<1>1. CASE UNCHANGED <<routes, watcher, routing, call, ctxDone>>
  BY <1>0, <1>1 DEF Registered
<1>2. ASSUME NEW c \in Calls, NewIQResultRoute(c) PROVE Registered'
  <2>1. watcher[c] = "none" /\ \A p \in Packets : routing[p].route # c
    <3>1. watcher[c] = "none" /\ c # None
      BY <1>0, <1>2 DEF NewIQResultRoute, NotYetRegistered, Packets
    <3> QED BY <1>0, <3>1 DEF OwnRoute
  <2>2. /\ routes' = [routes EXCEPT ![IdOf[c]] = c]
        /\ watcher' = [watcher EXCEPT ![c] = "armed"]
        /\ call'[c] \in {"registered", "sent"}
        /\ \A d \in Calls : d # c => call'[d] = call[d]
        /\ UNCHANGED <<routing, ctxDone>>
    BY <1>0, <1>2 DEF NewIQResultRoute, TypeOK
  <2>3. IdOf[c] \in Ids
    BY DEF Packets
  <2> QED BY <1>0, <2>1, <2>2, <2>3 DEF Registered, TypeOK
<1>3. ASSUME NEW c \in Calls, WriteIQ(c) PROVE Registered'
  <2>1. /\ call[c] \in {"idle", "registered"}
        /\ call[c] = "registered" => call'[c] = "sent"
        /\ \A d \in Calls : d # c => call'[d] = call[d]
        /\ UNCHANGED <<routes, watcher, routing, ctxDone>>
    BY <1>0, <1>3 DEF WriteIQ, TypeOK, routeVars
  <2> QED BY <1>0, <2>1 DEF Registered
<1>4. ASSUME NEW c \in Calls, WriteFails(c) PROVE Registered'
  <2>1. /\ call[c] = "registered" => routes' = [routes EXCEPT ![IdOf[c]] = None]
        /\ call[c] # "registered" => call[c] = "idle" /\ routes' = routes
        /\ \A d \in Calls : d # c => call'[d] = call[d]
        /\ UNCHANGED <<watcher, routing, ctxDone>>
    BY <1>0, <1>4 DEF WriteFails, TypeOK
  <2>2. IdOf[c] \in Ids
    BY DEF Packets
  <2> SUFFICES ASSUME NEW i \in Ids, NEW d \in Calls, routes'[i] = d
               PROVE  /\ IdOf[d] = i
                      /\ watcher'[d] = "armed"
                      /\ \A p \in Packets : routing'[p].route = d => routing'[p].pc = "delete"
                      /\ \/ call'[d] \in {"registered", "sent", "waiting"}
                         \/ call'[d] = "gaveup" /\ d \in ctxDone'
    BY DEF Registered
  <2>3. routes[i] = d
    BY <1>0, <2>1, <2>2 DEF TypeOK, Packets
  <2>4. d # c
    BY <1>0, <2>1, <2>2, <2>3 DEF Registered, TypeOK, Packets
  <2> QED BY <1>0, <2>1, <2>3, <2>4 DEF Registered
<1>5. ASSUME NEW c \in Calls, Await(c) \/ GiveUp(c) \/ ContextDone(c) PROVE Registered'
  <2>1. /\ UNCHANGED <<routes, watcher, routing>> /\ ctxDone \subseteq ctxDone'
        /\ \A d \in Calls : d # c => call'[d] = call[d]
        /\ call'[c] \in {call[c], "waiting"} \/ (call'[c] = "gaveup" /\ c \in ctxDone)
    BY <1>0, <1>5 DEF Await, GiveUp, ContextDone, TypeOK, routeVars, callVars
  <2> QED BY <1>0, <2>1 DEF Registered
<1>6. ASSUME NEW c \in Calls, WatcherFires(c) PROVE Registered'
  <2>1. /\ routes' = [routes EXCEPT ![IdOf[c]] = None]
        /\ \A d \in Calls : d # c => watcher'[d] = watcher[d]
        /\ UNCHANGED <<routing, call, ctxDone>>
    BY <1>0, <1>6 DEF WatcherFires, TypeOK, callVars
  <2>2. IdOf[c] \in Ids
    BY DEF Packets
  <2> SUFFICES ASSUME NEW i \in Ids, NEW d \in Calls, routes'[i] = d
               PROVE  /\ IdOf[d] = i
                      /\ watcher'[d] = "armed"
                      /\ \A p \in Packets : routing'[p].route = d => routing'[p].pc = "delete"
                      /\ \/ call'[d] \in {"registered", "sent", "waiting"}
                         \/ call'[d] = "gaveup" /\ d \in ctxDone'
    BY DEF Registered
  <2>3. routes[i] = d
    BY <1>0, <2>1, <2>2 DEF TypeOK, Packets
  <2>4. d # c
    BY <1>0, <2>1, <2>2, <2>3 DEF Registered, TypeOK, Packets
  <2> QED BY <1>0, <2>1, <2>3, <2>4 DEF Registered
<1>7. ASSUME NEW p \in Packets, UNCHANGED <<routes, watcher, call, ctxDone>>,
             \A q \in Packets : q # p => routing'[q] = routing[q],
             routing'[p].pc = "delete" \/ routing'[p].route = None
               \/ \A i \in Ids : routes[i] # routing'[p].route
      PROVE  Registered'
  BY <1>0, <1>7 DEF Registered, Packets
<1>8. ASSUME NEW p \in Packets, Lookup(p) PROVE Registered'
  <2>1. routing[p].route = None
    BY <1>0, <1>8 DEF Lookup, OwnRoute
  <2>2. routing'[p].pc = "delete" \/ routing'[p].route = None
    BY <1>0, <1>8, <2>1, GotoEffect DEF Lookup, TypeOK
  <2>3. \A q \in Packets : q # p => routing'[q] = routing[q]
    BY <1>0, <1>8, GotoEffect DEF Lookup, TypeOK
  <2> QED BY <1>7, <1>8, <2>2, <2>3 DEF Lookup, callVars, routeVars
<1>9. ASSUME NEW p \in Packets, DeleteRoute(p) PROVE Registered'
  <2>1. /\ routes' = [routes EXCEPT ![IdOf[p]] = None]
        /\ \A q \in Packets : q # p => routing'[q] = routing[q]
        /\ UNCHANGED <<watcher, call, ctxDone>>
    BY <1>0, <1>9, GotoEffect DEF DeleteRoute, callVars
  <2>2. IdOf[p] \in Ids /\ IdOf[routing[p].route] = IdOf[p] /\ routing'[p].route = routing[p].route
    BY <1>0, <1>9, RoutedHaveRoutes, GotoEffect DEF DeleteRoute
  <2> QED BY <1>0, <2>1, <2>2 DEF Registered, TypeOK, Packets
<1>10. ASSUME NEW p \in Packets, Deliver(p) PROVE Registered'
  <2>1. routing[p].route \in Calls /\ routing[p].pc = "send"
    BY <1>0, <1>10, RoutedHaveRoutes DEF Deliver
  <2>2. \A i \in Ids : routes[i] # routing[p].route
    BY <1>0, <2>1 DEF Registered
  <2>3. /\ \A q \in Packets : q # p => routing'[q] = routing[q]
        /\ routing'[p].route = routing[p].route
        /\ \A d \in Calls : d # routing[p].route => call'[d] = call[d]
        /\ UNCHANGED <<routes, watcher, ctxDone>>
    BY <1>0, <1>10, <2>1, GotoEffect DEF Deliver, TypeOK, callVars, routeVars
  <2> QED BY <1>0, <2>2, <2>3 DEF Registered, Packets
<1>11. ASSUME NEW p \in Packets, CloseResult(p) PROVE Registered'
  <2>1. routing[p].route \in Calls /\ routing[p].pc = "close"
    BY <1>0, <1>11, RoutedHaveRoutes DEF CloseResult
  <2>2. \A i \in Ids : routes[i] # routing[p].route
    BY <1>0, <2>1 DEF Registered
  <2>3. /\ \A q \in Packets : q # p => routing'[q] = routing[q]
        /\ routing'[p].route = routing[p].route
    BY <1>0, <1>11, GotoEffect DEF CloseResult
  <2> QED BY <1>7, <1>11, <2>2, <2>3 DEF CloseResult, callVars, routeVars
<1>12. ASSUME NEW p \in Packets, Match(p) PROVE Registered'
  <2>1. routing[p].route = None
    BY <1>0, <1>12 DEF Match, OwnRoute
  <2>2. /\ routing'[p].route = None
        /\ \A q \in Packets : q # p => routing'[q] = routing[q]
    BY <1>0, <1>12, <2>1, GotoEffect DEF Match
  <2> QED BY <1>7, <1>12, <2>2 DEF Match, callVars, routeVars
<1>13. ASSUME NEW p \in Packets, PeerSends(p) PROVE Registered'
  BY <1>1, <1>13 DEF PeerSends, callVars, routeVars
<1>14. CASE Recv
  <2> DEFINE p == Head(toClient)
  <2>1. p \in Packets /\ p = toClient[1] /\ 1 \in 1 .. Len(toClient)
    BY <1>0, <1>14 DEF Recv, TypeOK
  <2>2. routing[p].route = None
    BY <1>0, <2>1 DEF OnceOnWire, OwnRoute
  <2>3. /\ routing'[p].route = None
        /\ \A q \in Packets : q # p => routing'[q] = routing[q]
    BY <1>0, <1>14, <2>1, <2>2, GotoEffect DEF Recv
  <2>4. UNCHANGED <<routes, watcher, call, ctxDone>>
    BY <1>14 DEF Recv, callVars, routeVars
  <2> HIDE DEF p
  <2> QED BY <1>7, <2>1, <2>3, <2>4
<1>15. CASE UNCHANGED vars
  BY <1>1, <1>15 DEF vars
<1> QED
  BY <1>2, <1>3, <1>4, <1>5, <1>6, <1>8, <1>9, <1>10, <1>11, <1>12, <1>13, <1>14, <1>15
  DEF Next, Caller, Routing

(* A channel that is closed was used by a stanza that is done; a stanza    *)
(* that sends on it, or closes it, has the same route.                     *)
LEMMA DeliveryPreserved ==
  ASSUME IInv, [Next]_vars
  PROVE  ResultFits' /\ PanicsNeedSharedRoute'
<1> USE RouterAssumption DEF ResultFits, PanicsNeedSharedRoute
<1>0. TypeOK /\ OwnRoute /\ ClosedAfterUse /\ ResultFits /\ PanicsNeedSharedRoute
  BY DEF IInv
<1>1. CASE UNCHANGED result /\ ~panicked'
  BY <1>0, <1>1
<1>2. ASSUME NEW p \in Packets, Goto(p, "close") \/ Goto(p, "done"),
             routing[p].pc \in {"send", "close"}, routing[p].route \in closed
      PROVE  \E c \in Calls : TakenTwice(c)'
  <2>1. PICK q \in Packets : routing[q].pc = "done" /\ routing[q].route = routing[p].route
    BY <1>0, <1>2 DEF ClosedAfterUse
  <2>2. q # p /\ routing[p].route \in Calls
    BY <1>0, <1>2, <2>1, RoutedHaveRoutes
  <2>3. routing'[p].route = routing[p].route /\ routing'[q].route = routing[p].route
    BY <1>0, <1>2, <2>1, <2>2, GotoEffect
  <2> QED BY <2>2, <2>3 DEF TakenTwice
<1>3. ASSUME NEW p \in Packets, ~panicked, Deliver(p)
      PROVE  ResultFits' /\ PanicsNeedSharedRoute'
  <2>1. /\ routing[p].route \in Calls /\ IdOf[routing[p].route] = IdOf[p]
        /\ routing[p].pc = "send" /\ Goto(p, "close")
    BY <1>0, <1>3, RoutedHaveRoutes DEF Deliver
  <2>2. CASE routing[p].route \in closed
    BY <1>0, <1>2, <1>3, <2>1, <2>2 DEF Deliver, callVars
  <2>3. CASE routing[p].route \notin closed
    <3>1. result' = [result EXCEPT ![routing[p].route] = p] /\ UNCHANGED panicked
      BY <1>3, <2>3 DEF Deliver
    <3> QED BY <1>0, <1>3, <2>1, <3>1 DEF TypeOK
  <2> QED BY <2>2, <2>3
<1>4. ASSUME NEW p \in Packets, ~panicked, CloseResult(p)
      PROVE  ResultFits' /\ PanicsNeedSharedRoute'
  <2>1. UNCHANGED result /\ routing[p].pc = "close" /\ Goto(p, "done")
    BY <1>4 DEF CloseResult, callVars
  <2>2. CASE routing[p].route \in closed
    BY <1>0, <1>2, <2>1, <2>2
  <2>3. CASE routing[p].route \notin closed
    BY <1>0, <1>4, <2>1, <2>3 DEF CloseResult
  <2> QED BY <2>2, <2>3
<1>5. ASSUME NEW p \in Packets, ~panicked, Lookup(p) \/ DeleteRoute(p) \/ Match(p) \/ PeerSends(p)
      PROVE  ResultFits' /\ PanicsNeedSharedRoute'
  BY <1>1, <1>5 DEF Lookup, DeleteRoute, Match, PeerSends, callVars
<1>6. ASSUME NEW c \in Calls, ~panicked, Caller(c) \/ WatcherFires(c)
      PROVE  ResultFits' /\ PanicsNeedSharedRoute'
  BY <1>1, <1>6
  DEF Caller, NewIQResultRoute, WriteIQ, WriteFails, Await, ContextDone, GiveUp, WatcherFires,
      callVars
<1>7. CASE ~panicked /\ Recv
  BY <1>1, <1>7 DEF Recv, callVars
<1>8. CASE UNCHANGED vars
  BY <1>0, <1>8 DEF vars, TakenTwice
<1> QED BY <1>3, <1>4, <1>5, <1>6, <1>7, <1>8 DEF Next, Routing

-----------------------------------------------------------------------------

LEMMA NextIInv == IInv /\ [Next]_vars => IInv'
BY TypePreserved, WirePreserved, OwnRoutePreserved, RegisteredPreserved, ClosedPreserved,
   NotYetPreserved, DeliveryPreserved DEF IInv

LEMMA Invariance == Spec => []IInv
<1>1. Init => IInv
  BY InitIInv
<1>2. IInv /\ [Next]_vars => IInv'
  BY NextIInv
<1> QED BY <1>1, <1>2, PTL DEF Spec

(* Whatever the ids: no interleaving of recv, the goroutines of             *)
(* Router.route, the context goroutines and the callers makes route send on *)
(* a closed channel, or close one twice (router.go:65-66), unless two       *)
(* stanzas found the route between its lookup and its removal.              *)
THEOREM PanicsAreShared == Spec => []PanicsNeedSharedRoute
<1>1. IInv => PanicsNeedSharedRoute
  BY DEF IInv
<1> QED BY <1>1, Invariance, PTL

(* Whatever the ids a caller of SendIQ receives a stanza with the id of its *)
(* own IQ; if nobody else uses the id, the answer to it.                    *)
THEOREM ResultsAreOwn == Spec => [](ResultFits /\ ResultIsOwn)
<1>1. IInv => ResultFits /\ ResultIsOwn
  BY DEF IInv, ResultFits, OwnId, ResultIsOwn, TypeOK, Packets
<1> QED BY <1>1, Invariance, PTL

(* Whatever the ids every registered route belongs to a call that can still *)
(* be answered or whose context is about to remove it.                      *)
THEOREM RoutesStayLive == Spec => []RoutesAreLive
<1>1. IInv => RoutesAreLive
  <2> SUFFICES ASSUME IInv, NEW i \in Ids, routes[i] # None
               PROVE  LET c == routes[i] IN
                        /\ IdOf[c] = i /\ c \notin closed
                        /\ \/ call[c] \in {"registered", "sent", "waiting"}
                           \/ call[c] = "gaveup" /\ watcher[c] = "armed" /\ c \in ctxDone
    BY DEF RoutesAreLive
  <2>1. routes[i] \in Calls /\ Registered /\ ClosedAfterUse
    BY DEF IInv, TypeOK
  <2>2. routes[i] # None /\ routes[i] \notin closed
    BY <2>1 DEF Registered, ClosedAfterUse
  <2> QED BY <2>1, <2>2 DEF Registered
<1> QED BY <1>1, Invariance, PTL

(* Every variable of the router and of SendIQ keeps its range.              *)
THEOREM TypeCorrectness == Spec => []TypeOK
<1>1. IInv => TypeOK
  BY DEF IInv
<1> QED BY <1>1, Invariance, PTL

=============================================================================
