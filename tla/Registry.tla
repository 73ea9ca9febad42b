------------------------------ MODULE Registry ------------------------------
(***************************************************************************)
(* TypeRegistry: the Go types that decode the extensions of messages,      *)
(* presences and IQs.  A two-level map: a packet type with a namespace     *)
(* leads to a map from local names to types.  The inner maps are           *)
(* references, and MapExtension looks its map up in one critical section   *)
(* and writes it in a later one, so which map object a registration goes   *)
(* to matters.  Applications register from any goroutine.                  *)
(***************************************************************************)
EXTENDS Naturals

CONSTANTS
  Registrars,   \* calls of MapExtension that run concurrently
  Keys,         \* packet type and namespace
  Locals,       \* local names, the alias "*" among them
  Extensions,   \* Go types
  Registration, \* what each call registers: key, name, ext
  Builtin       \* what the init functions of the packages registered

NoType == "no type"   \* the nil reflect.Type
NoMap  == "no map"    \* the nil registryForNamespace
Package == "package"  \* the maps that the init functions made

ASSUME RegistryAssumption ==
  /\ Registration \in [Registrars -> [key : Keys, name : Locals, ext : Extensions]]
  /\ Builtin \in [Keys -> [Locals -> Extensions \cup {NoType}]]
  /\ NoType \notin Extensions /\ "*" \in Locals
  /\ NoMap \notin Registrars /\ Package \notin Registrars /\ NoMap # Package

VARIABLES
  msgTypes,  \* for each key the map object it leads to
  maps,      \* the contents of each map object, for each key
  held,      \* the object each call found under the read lock
  step       \* how far each call is

registryVars == <<msgTypes, maps, held, step>>

(* A map object is named by the call that makes it.                        *)
Objects == Registrars \cup {Package}
Empty   == [n \in Locals |-> NoType]

Used(k) == \E n \in Locals : Builtin[k][n] # NoType

RegistryTypeOK ==
  /\ msgTypes \in [Keys -> Objects \cup {NoMap}]
  /\ maps \in [Objects -> [Keys -> [Locals -> Extensions \cup {NoType}]]]
  /\ held \in [Registrars -> Objects \cup {NoMap}]
  /\ step \in [Registrars -> {"idle", "found", "done"}]

RegistryInit ==
  /\ msgTypes = [k \in Keys |-> IF Used(k) THEN Package ELSE NoMap]
  /\ maps = [o \in Objects |-> IF o = Package THEN Builtin ELSE [k \in Keys |-> Empty]]
  /\ held = [g \in Registrars |-> NoMap]
  /\ step = [g \in Registrars |-> "idle"]

(* MapExtension under the read lock.                                       *)
FindStore(g) ==
  /\ step[g] = "idle"
  /\ held' = [held EXCEPT ![g] = msgTypes[Registration[g].key]]
  /\ step' = [step EXCEPT ![g] = "found"]
  /\ UNCHANGED <<msgTypes, maps>>

(* MapExtension under the write lock: in the map found, or in a new one.   *)
Store(g) ==
  LET r == Registration[g]
      o == IF held[g] = NoMap THEN g ELSE held[g]
  IN /\ step[g] = "found"
     /\ maps' = [maps EXCEPT ![o][r.key][r.name] = r.ext]
     /\ msgTypes' = [msgTypes EXCEPT ![r.key] = o]
     /\ step' = [step EXCEPT ![g] = "done"]
     /\ UNCHANGED held

RegistryNext == \E g \in Registrars : FindStore(g) \/ Store(g)

RegistrySpec == RegistryInit /\ [][RegistryNext]_registryVars

-----------------------------------------------------------------------------
(* Faulty variant: the alias comes first. *)
LookupAlias(k, n) ==
  IF k \notin Keys THEN NoType
  ELSE IF msgTypes[k] = NoMap THEN NoType
  ELSE LET store == maps[msgTypes[k]][k]
           exact == IF n \in Locals THEN store[n] ELSE NoType
       IN IF store["*"] # NoType THEN store["*"] ELSE exact

(* GetExtensionType, under the read lock: the type of the name, else that  *)
(* of the alias.                                                           *)
Lookup(k, n) ==
  IF k \notin Keys THEN NoType
  ELSE IF msgTypes[k] = NoMap THEN NoType
  ELSE LET store == maps[msgTypes[k]][k]
           exact == IF n \in Locals THEN store[n] ELSE NoType
       IN IF exact # NoType THEN exact ELSE store["*"]

-----------------------------------------------------------------------------
(* Two calls that both found no map for their namespace: each installs one *)
(* of its own.                                                             *)
Racing(k) ==
  \E g, h \in Registrars :
    /\ g # h
    /\ Registration[g].key = k /\ Registration[h].key = k
    /\ step[g] # "idle" /\ step[h] # "idle"
    /\ held[g] = NoMap /\ held[h] = NoMap

(* A registration that has returned stays in force: its name leads to its  *)
(* type, or to one registered for the same name since, unless two first    *)
(* registrations of the namespace overlap.  What the packages registered   *)
(* stays in force in any case, also for names of a namespace that an       *)
(* application adds others or an alias to (MapExtension,                   *)
(* GetExtensionType).                                                      *)
RegistrationsKept ==
  /\ \A g \in Registrars :
       LET r == Registration[g] IN
       step[g] = "done" /\ ~Racing(r.key) =>
         \E h \in Registrars :
           /\ step[h] = "done"
           /\ Registration[h].key = r.key /\ Registration[h].name = r.name
           /\ Lookup(r.key, r.name) = Registration[h].ext
  /\ \A k \in Keys, n \in Locals :
       /\ Builtin[k][n] # NoType
       /\ \A g \in Registrars : Registration[g].key # k \/ Registration[g].name # n
       => Lookup(k, n) = Builtin[k][n]
=============================================================================
