---------------------------- MODULE DecodingProofs ---------------------------
(***************************************************************************)
(* What holds of the type registry, of the decoders and of the routes for  *)
(* all registrations, elements and tables.                                 *)
(*                                                                         *)
(* The registry.  BuiltinsKept rests on the maps of the packages: a        *)
(* namespace in use at the start always leads to Package, since a call     *)
(* finds that map and puts it back.  RegisteredKept rests on what each     *)
(* call found: as long as no two calls of a namespace found no map, the    *)
(* one that did installs its own and all the others found the map that is  *)
(* installed.  Lookup then turns the contents of the maps into what        *)
(* GetExtensionType returns.                                               *)
(*                                                                         *)
(* The decoders.  Whatever the elements inside decode to, the loop over    *)
(* the tokens of an element keeps its fields a sequence, with one payload  *)
(* for an IQ; it moves forward and stays before the end of the element,    *)
(* because what starts inside ends inside.  Hence it looks only at inner   *)
(* elements that start later, and decoding is well founded.                *)
(*                                                                         *)
(* The routes.  A packet has its payload once, so a matcher that looks at  *)
(* the first payload sees all there is, and Match finds the least index of *)
(* the routes that accept.                                                 *)
(***************************************************************************)
EXTENDS RouteMatching, FiniteSetTheorems, SequenceTheorems, WellFoundedInduction, TLAPS

Key(g) == Registration[g].key

(* A namespace in use leads to the map of the packages, and each call that *)
(* looked such a namespace up holds that map.                              *)
UsedLeadToPackage ==
  /\ \A k \in Keys : Used(k) => msgTypes[k] = Package
  /\ \A g \in Registrars : step[g] # "idle" /\ Used(Key(g)) => held[g] = Package

PackageContents ==
  \A k \in Keys, n \in Locals :
    /\ Builtin[k][n] # NoType
    /\ \A g \in Registrars : Registration[g].key # k \/ Registration[g].name # n
    => maps[Package][k][n] = Builtin[k][n]

(* What a call found, against what is installed.                           *)
FoundIsInstalled(g) ==
  /\ step[g] = "idle" => held[g] = NoMap
  /\ held[g] # NoMap => msgTypes[Key(g)] # NoMap
  /\ step[g] = "done" => msgTypes[Key(g)] # NoMap
  /\ ~Racing(Key(g)) =>
       /\ held[g] # NoMap => held[g] = msgTypes[Key(g)]
       /\ step[g] = "found" /\ held[g] = NoMap => msgTypes[Key(g)] = NoMap

FoundAreInstalled == \A g \in Registrars : FoundIsInstalled(g)

(* The two parts of RegistrationsKept in terms of the maps.                *)
RegisteredKept ==
  \A g \in Registrars :
    LET r == Registration[g] IN
    step[g] = "done" /\ ~Racing(r.key) =>
      \E h \in Registrars :
        /\ step[h] = "done"
        /\ Registration[h].key = r.key /\ Registration[h].name = r.name
        /\ msgTypes[r.key] # NoMap
        /\ maps[msgTypes[r.key]][r.key][r.name] = Registration[h].ext

BuiltinsKept ==
  \A k \in Keys, n \in Locals :
    /\ Builtin[k][n] # NoType
    /\ \A g \in Registrars : Registration[g].key # k \/ Registration[g].name # n
    => msgTypes[k] = Package /\ maps[Package][k][n] = Builtin[k][n]

(* The step that is the same for all the theorems: types.                  *)
LEMMA TypeInvariant == RegistrySpec => []RegistryTypeOK
<1>1. RegistryInit => RegistryTypeOK
  BY RegistryAssumption DEF RegistryInit, RegistryTypeOK, Objects, Empty
<1>2. RegistryTypeOK /\ [RegistryNext]_registryVars => RegistryTypeOK'
  <2> SUFFICES ASSUME RegistryTypeOK, [RegistryNext]_registryVars PROVE RegistryTypeOK'
    OBVIOUS
  <2>1. ASSUME NEW g \in Registrars, FindStore(g) PROVE RegistryTypeOK'
    BY <2>1, RegistryAssumption DEF FindStore, RegistryTypeOK
  <2>2. ASSUME NEW g \in Registrars, Store(g) PROVE RegistryTypeOK'
    <3> DEFINE r == Registration[g]
               o == IF held[g] = NoMap THEN g ELSE held[g]
    <3>1. r.key \in Keys /\ r.name \in Locals /\ r.ext \in Extensions
      BY RegistryAssumption
    <3>2. o \in Objects
      BY DEF RegistryTypeOK, Objects
    <3>3. /\ maps' = [maps EXCEPT ![o][r.key][r.name] = r.ext]
          /\ msgTypes' = [msgTypes EXCEPT ![r.key] = o]
          /\ step' = [step EXCEPT ![g] = "done"]
          /\ held' = held
      BY <2>2 DEF Store
    <3> HIDE DEF r, o
    <3>4. maps' \in [Objects -> [Keys -> [Locals -> Extensions \cup {NoType}]]]
      BY <3>1, <3>2, <3>3 DEF RegistryTypeOK
    <3> QED
      BY <3>1, <3>2, <3>3, <3>4 DEF RegistryTypeOK
  <2>3. CASE UNCHANGED registryVars
    BY <2>3 DEF registryVars, RegistryTypeOK
  <2> QED
    BY <2>1, <2>2, <2>3 DEF RegistryNext
<1> QED
  BY <1>1, <1>2, PTL DEF RegistrySpec

(* What Store writes, in a form without nested updates.                    *)
LEMMA StoreWrites ==
  ASSUME NEW g \in Registrars, RegistryTypeOK, Store(g)
  PROVE  LET r == Registration[g]
             o == IF held[g] = NoMap THEN g ELSE held[g]
         IN /\ o \in Objects
            /\ \A k \in Keys : msgTypes'[k] = IF k = r.key THEN o ELSE msgTypes[k]
            /\ \A p \in Objects, k \in Keys, n \in Locals :
                 maps'[p][k][n] =
                   IF p = o /\ k = r.key /\ n = r.name THEN r.ext ELSE maps[p][k][n]
            /\ step[g] = "found"
            /\ \A h \in Registrars : step'[h] = IF h = g THEN "done" ELSE step[h]
            /\ held' = held
<1> DEFINE r == Registration[g]
           o == IF held[g] = NoMap THEN g ELSE held[g]
<1>1. r.key \in Keys /\ r.name \in Locals /\ r.ext \in Extensions
  BY RegistryAssumption
<1>2. o \in Objects
  BY DEF RegistryTypeOK, Objects
<1>3. /\ maps' = [maps EXCEPT ![o][r.key][r.name] = r.ext]
      /\ msgTypes' = [msgTypes EXCEPT ![r.key] = o]
      /\ step[g] = "found"
      /\ step' = [step EXCEPT ![g] = "done"]
      /\ held' = held
  BY DEF Store
<1> HIDE DEF r, o
<1>4. /\ o \in Objects
      /\ \A k \in Keys : msgTypes'[k] = IF k = r.key THEN o ELSE msgTypes[k]
      /\ \A p \in Objects, k \in Keys, n \in Locals :
           maps'[p][k][n] =
             IF p = o /\ k = r.key /\ n = r.name THEN r.ext ELSE maps[p][k][n]
      /\ step[g] = "found"
      /\ \A h \in Registrars : step'[h] = IF h = g THEN "done" ELSE step[h]
      /\ held' = held
  BY <1>1, <1>2, <1>3 DEF RegistryTypeOK
<1> QED
  BY <1>4 DEF r, o

-----------------------------------------------------------------------------
(* Whatever applications register and in whatever order, what the packages *)
(* registered stays in force under its names (MapExtension).               *)
THEOREM BuiltinsStay == RegistrySpec => []BuiltinsKept
<1> DEFINE Inv == UsedLeadToPackage /\ PackageContents
<1>1. RegistryInit => Inv
  BY RegistryAssumption DEF RegistryInit, UsedLeadToPackage, PackageContents, Objects, Key
<1>2. RegistryTypeOK /\ Inv /\ [RegistryNext]_registryVars => Inv'
  <2> SUFFICES ASSUME RegistryTypeOK, Inv, [RegistryNext]_registryVars PROVE Inv'
    OBVIOUS
  <2>1. ASSUME NEW g \in Registrars, FindStore(g) PROVE Inv'
    <3>1. Key(g) \in Keys
      BY RegistryAssumption DEF Key
    <3> QED
      BY <2>1, <3>1 DEF FindStore, UsedLeadToPackage, PackageContents, RegistryTypeOK, Used, Key
  <2>2. ASSUME NEW g \in Registrars, Store(g) PROVE Inv'
    <3> DEFINE r == Registration[g]
               o == IF held[g] = NoMap THEN g ELSE held[g]
    <3>1. r.key \in Keys /\ r.name \in Locals
      BY RegistryAssumption
    <3>2. /\ \A k \in Keys : msgTypes'[k] = IF k = r.key THEN o ELSE msgTypes[k]
          /\ \A p \in Objects, k \in Keys, n \in Locals :
               maps'[p][k][n] =
                 IF p = o /\ k = r.key /\ n = r.name THEN r.ext ELSE maps[p][k][n]
          /\ step[g] = "found"
          /\ \A h \in Registrars : step'[h] = IF h = g THEN "done" ELSE step[h]
          /\ held' = held
      BY <2>2, StoreWrites
    <3>3. Used(r.key) => o = Package
      BY <3>2, RegistryAssumption DEF UsedLeadToPackage, Key
    <3> HIDE DEF o
    <3>4. UsedLeadToPackage'
      BY <3>1, <3>2, <3>3 DEF UsedLeadToPackage, Used, Key
    <3>5. PackageContents'
      BY <3>1, <3>2 DEF PackageContents, Objects
    <3> QED
      BY <3>4, <3>5
  <2>3. CASE UNCHANGED registryVars
    BY <2>3 DEF registryVars, UsedLeadToPackage, PackageContents, Used, Key
  <2> QED
    BY <2>1, <2>2, <2>3 DEF RegistryNext
<1>3. Inv => BuiltinsKept
  BY DEF UsedLeadToPackage, PackageContents, BuiltinsKept, Used
<1> QED
  BY <1>1, <1>2, <1>3, TypeInvariant, PTL DEF RegistrySpec

-----------------------------------------------------------------------------
(* Two calls that race have raced ever since: what a call found stays.     *)
LEMMA RacingStays ==
  ASSUME RegistryTypeOK, [RegistryNext]_registryVars, NEW k, Racing(k)
  PROVE  Racing(k)'
<1>1. PICK g, h \in Registrars :
        /\ g # h
        /\ Registration[g].key = k /\ Registration[h].key = k
        /\ step[g] # "idle" /\ step[h] # "idle"
        /\ held[g] = NoMap /\ held[h] = NoMap
  BY DEF Racing
<1>2. ASSUME NEW x \in Registrars, step[x] # "idle"
      PROVE  step'[x] # "idle" /\ held'[x] = held[x]
  <2>1. ASSUME NEW c \in Registrars, FindStore(c) PROVE step'[x] # "idle" /\ held'[x] = held[x]
    BY <1>2, <2>1 DEF FindStore, RegistryTypeOK
  <2>2. ASSUME NEW c \in Registrars, Store(c) PROVE step'[x] # "idle" /\ held'[x] = held[x]
    BY <1>2, <2>2, StoreWrites
  <2>3. CASE UNCHANGED registryVars
    BY <1>2, <2>3 DEF registryVars
  <2> QED
    BY <2>1, <2>2, <2>3 DEF RegistryNext
<1> QED
  BY <1>1, <1>2 DEF Racing

LEMMA FoundStepFind ==
  ASSUME RegistryTypeOK, FoundAreInstalled, NEW g \in Registrars, FindStore(g)
  PROVE  FoundAreInstalled'
<1>1. Key(g) \in Keys
  BY RegistryAssumption DEF Key
<1>2. /\ step[g] = "idle" /\ msgTypes' = msgTypes
      /\ \A h \in Registrars : /\ held'[h] = IF h = g THEN msgTypes[Key(g)] ELSE held[h]
                               /\ step'[h] = IF h = g THEN "found" ELSE step[h]
  BY DEF FindStore, RegistryTypeOK, Key
<1>3. \A h \in Registrars : ~Racing(Key(h))' => ~Racing(Key(h))
  BY RacingStays DEF RegistryNext, Key
<1> SUFFICES ASSUME NEW h \in Registrars PROVE FoundIsInstalled(h)'
  BY DEF FoundAreInstalled
<1> QED
  BY <1>1, <1>2, <1>3 DEF FoundAreInstalled, FoundIsInstalled, Key

LEMMA FoundStepStore ==
  ASSUME RegistryTypeOK, FoundAreInstalled, NEW g \in Registrars, Store(g)
  PROVE  FoundAreInstalled'
<1> DEFINE o == IF held[g] = NoMap THEN g ELSE held[g]
<1>1. Key(g) \in Keys
  BY RegistryAssumption DEF Key
<1>2. /\ o # NoMap
      /\ \A k \in Keys : msgTypes'[k] = IF k = Key(g) THEN o ELSE msgTypes[k]
      /\ step[g] = "found"
      /\ \A h \in Registrars : step'[h] = IF h = g THEN "done" ELSE step[h]
      /\ held' = held
  BY StoreWrites, RegistryAssumption DEF Key
<1>3. \A h \in Registrars : ~Racing(Key(h))' => ~Racing(Key(h))
  BY RacingStays DEF RegistryNext, Key
<1> SUFFICES ASSUME NEW h \in Registrars PROVE FoundIsInstalled(h)'
  BY DEF FoundAreInstalled
<1>4. Key(h) \in Keys
  BY RegistryAssumption DEF Key
<1>5. CASE Key(h) # Key(g)
  BY <1>1, <1>2, <1>3, <1>4, <1>5 DEF FoundAreInstalled, FoundIsInstalled, Key
<1>6. CASE Key(h) = Key(g) /\ held[g] # NoMap
  BY <1>1, <1>2, <1>3, <1>4, <1>6 DEF FoundAreInstalled, FoundIsInstalled, Key
<1>7. CASE Key(h) = Key(g) /\ held[g] = NoMap
  <2>1. ~Racing(Key(h))' /\ h # g /\ step[h] = "found" => held[h] # NoMap
    BY <1>2, <1>3, <1>7 DEF Racing, Key
  <2>2. ~Racing(Key(h))' => held[h] = NoMap
    BY <1>2, <1>3, <1>7 DEF FoundAreInstalled, FoundIsInstalled
  <2> QED
    BY <1>1, <1>2, <1>3, <1>4, <1>7, <2>1, <2>2
       DEF FoundAreInstalled, FoundIsInstalled, Key
<1> QED
  BY <1>5, <1>6, <1>7

(* A registration that has returned leads to its type or to one registered *)
(* for the same name since, however many calls run at once, unless two of  *)
(* them are the first of their namespace (MapExtension).                   *)
THEOREM RegisteredStay == RegistrySpec => []RegisteredKept
<1> DEFINE Inv == FoundAreInstalled /\ RegisteredKept
<1>1. RegistryInit => Inv
  BY DEF RegistryInit, FoundAreInstalled, FoundIsInstalled, RegisteredKept
<1>2. RegistryTypeOK /\ Inv /\ [RegistryNext]_registryVars => Inv'
  <2> SUFFICES ASSUME RegistryTypeOK, Inv, [RegistryNext]_registryVars PROVE Inv'
    OBVIOUS
  <2>1. ASSUME NEW g \in Registrars, FindStore(g) PROVE Inv'
    <3>1. FoundAreInstalled'
      BY <2>1, FoundStepFind
    <3>2. \A h \in Registrars : ~Racing(Key(h))' => ~Racing(Key(h))
      BY RacingStays DEF RegistryNext, Key
    <3>3. /\ step[g] = "idle" /\ msgTypes' = msgTypes /\ maps' = maps
          /\ \A h \in Registrars : step'[h] = IF h = g THEN "found" ELSE step[h]
      BY <2>1 DEF FindStore, RegistryTypeOK
    <3>4. RegisteredKept'
      BY <3>2, <3>3 DEF RegisteredKept, Key
    <3> QED
      BY <3>1, <3>4
  <2>2. ASSUME NEW g \in Registrars, Store(g) PROVE Inv'
    <3>1. FoundAreInstalled'
      BY <2>2, FoundStepStore
    <3>2. RegisteredKept'
      <4> SUFFICES ASSUME NEW h \in Registrars, step'[h] = "done", ~Racing(Key(h))'
                   PROVE  \E x \in Registrars :
                            /\ step'[x] = "done"
                            /\ Registration[x].key = Key(h)
                            /\ Registration[x].name = Registration[h].name
                            /\ msgTypes'[Key(h)] # NoMap
                            /\ maps'[msgTypes'[Key(h)]][Key(h)][Registration[h].name]
                                 = Registration[x].ext
        BY DEF RegisteredKept, Key
      <4> DEFINE r == Registration[g]
                 o == IF held[g] = NoMap THEN g ELSE held[g]
      <4>1. /\ o \in Objects /\ o # NoMap
            /\ \A k \in Keys : msgTypes'[k] = IF k = r.key THEN o ELSE msgTypes[k]
            /\ \A p \in Objects, k \in Keys, n \in Locals :
                 maps'[p][k][n] =
                   IF p = o /\ k = r.key /\ n = r.name THEN r.ext ELSE maps[p][k][n]
            /\ step[g] = "found"
            /\ \A x \in Registrars : step'[x] = IF x = g THEN "done" ELSE step[x]
        BY <2>2, StoreWrites, RegistryAssumption
      <4>2. /\ r.key \in Keys /\ r.name \in Locals
            /\ Key(h) \in Keys /\ Registration[h].name \in Locals
        BY RegistryAssumption DEF Key
      <4>3. CASE Key(h) = r.key /\ Registration[h].name = r.name
        BY <4>1, <4>2, <4>3
      <4>4. CASE ~(Key(h) = r.key /\ Registration[h].name = r.name)
        <5>1. step[h] = "done" /\ ~Racing(Key(h))
          BY <4>1, <4>4, RacingStays DEF RegistryNext, Key
        <5>2. PICK x \in Registrars :
                /\ step[x] = "done"
                /\ Registration[x].key = Key(h) /\ Registration[x].name = Registration[h].name
                /\ msgTypes[Key(h)] # NoMap
                /\ maps[msgTypes[Key(h)]][Key(h)][Registration[h].name] = Registration[x].ext
          BY <5>1 DEF RegisteredKept, Key
        <5>3. msgTypes'[Key(h)] = msgTypes[Key(h)]
          BY <4>1, <4>2, <5>1, <5>2 DEF FoundAreInstalled, FoundIsInstalled, Key
        <5>4. msgTypes[Key(h)] \in Objects
          BY <4>2, <5>2 DEF RegistryTypeOK
        <5>5. step'[x] = "done"
          BY <4>1, <5>2
        <5>6. maps'[msgTypes[Key(h)]][Key(h)][Registration[h].name] = Registration[x].ext
          BY <4>1, <4>2, <4>4, <5>2, <5>4
        <5> QED
          BY <5>2, <5>3, <5>5, <5>6
      <4> QED
        BY <4>3, <4>4
    <3> QED
      BY <3>1, <3>2
  <2>3. CASE UNCHANGED registryVars
    BY <2>3 DEF registryVars, FoundAreInstalled, FoundIsInstalled, RegisteredKept, Racing, Key
  <2> QED
    BY <2>1, <2>2, <2>3 DEF RegistryNext
<1> QED
  BY <1>1, <1>2, TypeInvariant, PTL DEF RegistrySpec

(* GetExtensionType finds what MapExtension promises to keep, for any      *)
(* number of namespaces, names and concurrent registrations: a type in the *)
(* installed map comes before the alias.                                   *)
THEOREM RegistrationsStay == RegistrySpec => []RegistrationsKept
<1>1. RegisteredKept /\ BuiltinsKept => RegistrationsKept
  <2> SUFFICES ASSUME RegisteredKept, BuiltinsKept PROVE RegistrationsKept
    OBVIOUS
  <2>1. ASSUME NEW k \in Keys, NEW n \in Locals, msgTypes[k] # NoMap,
               maps[msgTypes[k]][k][n] # NoType
        PROVE  Lookup(k, n) = maps[msgTypes[k]][k][n]
    BY <2>1 DEF Lookup
  <2>2. ASSUME NEW g \in Registrars, step[g] = "done", ~Racing(Key(g))
        PROVE  \E h \in Registrars :
                 /\ step[h] = "done"
                 /\ Key(h) = Key(g) /\ Registration[h].name = Registration[g].name
                 /\ Lookup(Key(g), Registration[g].name) = Registration[h].ext
    <3>1. PICK h \in Registrars :
            /\ step[h] = "done"
            /\ Key(h) = Key(g) /\ Registration[h].name = Registration[g].name
            /\ msgTypes[Key(g)] # NoMap
            /\ maps[msgTypes[Key(g)]][Key(g)][Registration[g].name] = Registration[h].ext
      BY <2>2 DEF RegisteredKept, Key
    <3>2. /\ Key(g) \in Keys /\ Registration[g].name \in Locals
          /\ Registration[h].ext # NoType
      BY RegistryAssumption DEF Key
    <3> QED
      BY <2>1, <3>1, <3>2
  <2>3. ASSUME NEW k \in Keys, NEW n \in Locals, Builtin[k][n] # NoType,
               \A g \in Registrars : Registration[g].key # k \/ Registration[g].name # n
        PROVE  Lookup(k, n) = Builtin[k][n]
    <3>1. msgTypes[k] = Package /\ maps[Package][k][n] = Builtin[k][n]
      BY <2>3 DEF BuiltinsKept
    <3>2. Package # NoMap
      BY RegistryAssumption
    <3> QED
      BY <2>1, <2>3, <3>1, <3>2
  <2> QED
    BY <2>2, <2>3 DEF RegistrationsKept, Key
<1> QED
  BY <1>1, RegisteredStay, BuiltinsStay, PTL
-----------------------------------------------------------------------------
(* Numbers and recursive functions.                                        *)

(* Induction over the natural numbers, for a set.                          *)
LEMMA NatSet ==
  ASSUME NEW S, 0 \in S, \A n \in Nat : n \in S => n + 1 \in S
  PROVE  \A n \in Nat : n \in S
<1> DEFINE T == {n \in Nat : n \notin S}
           R == OpToRel(<, Nat)
<1>1. SUFFICES ASSUME T # {} PROVE FALSE
  OBVIOUS
<1>2. IsWellFoundedOn(R, Nat)
  BY NatLessThanWellFounded
<1>3. \A m, n \in Nat : m < n => <<m, n>> \in R
  BY DEF OpToRel
<1>4. T \subseteq Nat
  OBVIOUS
<1> HIDE DEF R
<1>5. PICK n \in T : \A m \in T : ~(<<m, n>> \in R)
  <2> HIDE DEF T
  <2> QED
    BY <1>1, <1>2, <1>4, WFMin
<1>6. n # 0 /\ n \in Nat /\ n - 1 \in Nat
  OBVIOUS
<1>7. n - 1 \in S
  <2>1. n - 1 < n
    BY <1>6
  <2> QED
    BY <1>3, <1>5, <1>6, <2>1
<1> QED
  BY <1>6, <1>7

(* Min, of numbers.                                                        *)
LEMMA MinIs ==
  ASSUME NEW I \in SUBSET Nat, I # {}
  PROVE  Min(I) \in I /\ \A y \in I : Min(I) <= y
<1> DEFINE R == OpToRel(<, Nat)
<1>1. IsWellFoundedOn(R, Nat)
  BY NatLessThanWellFounded
<1>2. \A m, n \in Nat : m < n => <<m, n>> \in R
  BY DEF OpToRel
<1> HIDE DEF R
<1>3. PICK n \in I : \A m \in I : ~(<<m, n>> \in R)
  BY <1>1, WFMin
<1>4. ASSUME NEW m \in I PROVE n <= m
  <2>1. ~(<<m, n>> \in R) /\ m \in Nat /\ n \in Nat
    BY <1>3
  <2>2. ~(m < n)
    BY <1>2, <2>1
  <2> QED
    BY <2>1, <2>2
<1>5. Min(I) = CHOOSE x \in I : \A y \in I : x <= y
  BY DEF Min
<1> QED
  BY <1>3, <1>4, <1>5, Zenon

-----------------------------------------------------------------------------
(* Sifted.                                                                 *)

(* What has been sifted after each of the first m fields.                  *)
Kept(q, x, name, with) == IF (q.field = name) = with THEN Append(x, q) ELSE x

SiftedSoFar(q, name, with, m, f) ==
  f = [n \in 0 .. m |-> IF n = 0 THEN <<>> ELSE Kept(q[n], f[n - 1], name, with)]

LEMMA SiftedIs ==
  ASSUME NEW q, NEW name, NEW with
  PROVE  Sifted(q, name, with) = (CHOOSE f : SiftedSoFar(q, name, with, Len(q), f))[Len(q)]
BY DEF Sifted, SiftedSoFar, Kept

LEMMA SiftedExists ==
  ASSUME NEW q, NEW name, NEW with
  PROVE  \A m \in Nat : \E f : SiftedSoFar(q, name, with, m, f)
<1> DEFINE S == {m \in Nat : \E f : SiftedSoFar(q, name, with, m, f)}
<1>1. 0 \in S
  <2> DEFINE f == [n \in 0 .. 0 |-> <<>>]
  <2>1. SiftedSoFar(q, name, with, 0, f)
    BY DEF SiftedSoFar
  <2> QED
    BY <2>1
<1>2. ASSUME NEW m \in Nat, m \in S PROVE m + 1 \in S
  <2>1. PICK f : SiftedSoFar(q, name, with, m, f)
    BY <1>2
  <2> DEFINE g == [n \in 0 .. m + 1 |-> IF n <= m THEN f[n] ELSE Kept(q[n], f[m], name, with)]
  <2>2. ASSUME NEW n \in 0 .. m + 1
        PROVE  g[n] = IF n = 0 THEN <<>> ELSE Kept(q[n], g[n - 1], name, with)
    <3>1. CASE n <= m
      <4>1. g[n] = f[n] /\ (n # 0 => g[n - 1] = f[n - 1]) /\ n \in 0 .. m
        BY <3>1
      <4>2. f[n] = IF n = 0 THEN <<>> ELSE Kept(q[n], f[n - 1], name, with)
        BY <2>1, <4>1 DEF SiftedSoFar
      <4> QED
        BY <4>1, <4>2
    <3>2. CASE n = m + 1
      <4>1. g[n] = Kept(q[n], f[m], name, with) /\ g[n - 1] = f[m] /\ n # 0
        BY <3>2
      <4> QED
        BY <4>1
    <3> QED
      BY <3>1, <3>2
  <2>3. g = [n \in 0 .. m + 1 |-> g[n]]
    OBVIOUS
  <2> HIDE DEF g
  <2>4. SiftedSoFar(q, name, with, m + 1, g)
    BY <2>2, <2>3 DEF SiftedSoFar
  <2> QED
    BY <2>4
<1> HIDE DEF S
<1>3. \A m \in Nat : m \in S
  BY <1>1, <1>2, NatSet
<1> QED
  BY <1>3 DEF S

(* At most one of the fields is a payload.                                 *)
OnePayload(fs) ==
  \A i, j \in 1 .. Len(fs) : fs[i].field = "Payload" /\ fs[j].field = "Payload" => i = j

(* What is sifted of the first n of the fields.                            *)
SiftedOf(fields, n, name, with, fs) ==
  /\ \A i \in 1 .. Len(fs) :
       \E k \in 1 .. n : fs[i] = fields[k] /\ (fields[k].field = name) = with
  /\ fs = <<>> => \A k \in 1 .. n : (fields[k].field = name) # with
  /\ OnePayload(fields) => OnePayload(fs)

LEMMA KeptKeeps ==
  ASSUME NEW U, NEW fields \in Seq(U), NEW name, NEW with, NEW n \in Nat, n + 1 <= Len(fields),
         NEW fs \in Seq(U), SiftedOf(fields, n, name, with, fs)
  PROVE  /\ Kept(fields[n + 1], fs, name, with) \in Seq(U)
         /\ SiftedOf(fields, n + 1, name, with, Kept(fields[n + 1], fs, name, with))
<1> DEFINE c == fields[n + 1]
<1>1. c \in U /\ Len(fields) \in Nat /\ n + 1 \in 1 .. Len(fields)
  OBVIOUS
<1>2. \A k \in 1 .. n + 1 : k \in 1 .. n \/ k = n + 1
  OBVIOUS
<1>3. 1 .. n \subseteq 1 .. n + 1 /\ 1 .. n + 1 \subseteq 1 .. Len(fields)
  BY <1>1
<1>4. CASE (c.field = name) # with
  <2>1. Kept(c, fs, name, with) = fs
    BY <1>4 DEF Kept
  <2>2. SiftedOf(fields, n + 1, name, with, fs)
    BY <1>2, <1>3, <1>4 DEF SiftedOf
  <2> QED
    BY <2>1, <2>2
<1>5. CASE (c.field = name) = with
  <2> DEFINE gs == Append(fs, c)
  <2>1. Kept(c, fs, name, with) = gs
    BY <1>5 DEF Kept
  <2>2. /\ gs \in Seq(U) /\ Len(fs) \in Nat /\ Len(gs) = Len(fs) + 1
        /\ \A i \in 1 .. Len(fs) : gs[i] = fs[i]
        /\ gs[Len(fs) + 1] = c
    BY <1>1
  <2> HIDE DEF gs, c
  <2>3. \A i \in 1 .. Len(gs) : i \in 1 .. Len(fs) \/ i = Len(fs) + 1
    BY <2>2
  <2>4. \A i \in 1 .. Len(gs) :
          \E k \in 1 .. n + 1 : gs[i] = fields[k] /\ (fields[k].field = name) = with
    <3> SUFFICES ASSUME NEW i \in 1 .. Len(gs)
                 PROVE  \E k \in 1 .. n + 1 : gs[i] = fields[k] /\ (fields[k].field = name) = with
      OBVIOUS
    <3>1. CASE i \in 1 .. Len(fs)
      BY <1>3, <2>2, <3>1 DEF SiftedOf
    <3>2. CASE i = Len(fs) + 1
      BY <1>5, <2>2, <3>2 DEF c
    <3> QED
      BY <2>3, <3>1, <3>2
  <2>5. gs # <<>>
    <3>1. Len(gs) # 0
      BY <2>2
    <3> QED
      BY <3>1
  <2>6. ASSUME OnePayload(fields) PROVE OnePayload(gs)
    <3>1. ASSUME c.field = "Payload", NEW i \in 1 .. Len(fs) PROVE fs[i].field # "Payload"
      <4>1. PICK k \in 1 .. n : fs[i] = fields[k]
        BY <3>1 DEF SiftedOf
      <4>2. k \in 1 .. Len(fields) /\ k # n + 1
        BY <1>3
      <4> QED
        BY <1>1, <2>6, <3>1, <4>1, <4>2 DEF OnePayload, c
    <3>2. OnePayload(fs)
      BY <2>6 DEF SiftedOf
    <3> QED
      BY <2>2, <2>3, <3>1, <3>2 DEF OnePayload
  <2> QED
    BY <2>1, <2>2, <2>4, <2>5, <2>6 DEF SiftedOf, c
<1> QED
  BY <1>4, <1>5

(* Sifted keeps the fields that it is asked for.                           *)
LEMMA SiftedKeeps ==
  ASSUME NEW U, NEW fields \in Seq(U), NEW name, NEW with \in BOOLEAN
  PROVE  /\ Sifted(fields, name, with) \in Seq(U)
         /\ SiftedOf(fields, Len(fields), name, with, Sifted(fields, name, with))
<1> DEFINE f == CHOOSE f : SiftedSoFar(fields, name, with, Len(fields), f)
<1>1. Len(fields) \in Nat
  OBVIOUS
<1>2. SiftedSoFar(fields, name, with, Len(fields), f)
  BY <1>1, SiftedExists
<1>3. Sifted(fields, name, with) = f[Len(fields)]
  BY SiftedIs
<1> HIDE DEF f
<1>4. \A n \in 0 .. Len(fields) :
        f[n] = IF n = 0 THEN <<>> ELSE Kept(fields[n], f[n - 1], name, with)
  BY <1>2 DEF SiftedSoFar
<1> DEFINE S == {n \in Nat : n <= Len(fields) =>
                   f[n] \in Seq(U) /\ SiftedOf(fields, n, name, with, f[n])}
<1>5. 0 \in S
  <2>1. f[0] = <<>>
    BY <1>1, <1>4
  <2>2. SiftedOf(fields, 0, name, with, <<>>)
    BY DEF SiftedOf, OnePayload
  <2>3. f[0] \in Seq(U) /\ SiftedOf(fields, 0, name, with, f[0])
    BY <2>1, <2>2
  <2> QED
    BY <2>3
<1>6. ASSUME NEW n \in Nat, n \in S PROVE n + 1 \in S
  <2> SUFFICES ASSUME n + 1 <= Len(fields)
               PROVE  f[n + 1] \in Seq(U) /\ SiftedOf(fields, n + 1, name, with, f[n + 1])
    OBVIOUS
  <2>1. n + 1 \in 0 .. Len(fields) /\ n + 1 # 0 /\ (n + 1) - 1 = n /\ n <= Len(fields)
    BY <1>1
  <2>2. f[n + 1] = Kept(fields[n + 1], f[n], name, with)
    BY <1>4, <2>1
  <2>3. f[n] \in Seq(U) /\ SiftedOf(fields, n, name, with, f[n])
    BY <1>6, <2>1
  <2> DEFINE fs == f[n]
  <2> HIDE DEF fs
  <2>4. fs \in Seq(U) /\ SiftedOf(fields, n, name, with, fs)
        /\ f[n + 1] = Kept(fields[n + 1], fs, name, with)
    BY <2>2, <2>3 DEF fs
  <2> QED
    BY <2>4, KeptKeeps
<1> HIDE DEF S
<1>7. \A n \in Nat : n \in S
  BY <1>5, <1>6, NatSet
<1>8. Len(fields) \in S
  BY <1>1, <1>7
<1> QED
  BY <1>1, <1>3, <1>8 DEF S

-----------------------------------------------------------------------------
(* What the loop over the tokens leaves in the fields of a value.          *)

GoodFields(kind, fs) == (\E U : fs \in Seq(U)) /\ (kind = "iq" => OnePayload(fs))

GoodResult(kind, r) ==
  \/ r = Failed
  \/ \E t, fs : r = Done(Value(kind, t, fs)) /\ GoodFields(kind, fs)

GoodState(kind, s) ==
  \/ \E at, fs : s = Going(at, fs) /\ GoodFields(kind, fs)
  \/ \E r : s = Ending(r) /\ GoodResult(kind, r)

(* An IQ has no list of anything.                                          *)
LEMMA IQHasNoLists ==
  ASSUME NEW name
  PROVE  Child("iq", name).list = FALSE
<1>1. Child("iq", name) = IQChild(name)
  BY DEF Child
<1>2. IQChild(name).list = FALSE
  BY DEF IQChild, Into
<1> QED
  BY <1>1, <1>2

(* Appending a field.                                                      *)
LEMMA AppendKeeps ==
  ASSUME NEW U, NEW fs \in Seq(U), NEW f
  PROVE  /\ Append(fs, f) \in Seq(U \cup {f})
         /\ OnePayload(fs)
              /\ (f.field = "Payload" => \A i \in 1 .. Len(fs) : fs[i].field # "Payload")
            => OnePayload(Append(fs, f))
<1>1. fs \in Seq(U \cup {f}) /\ f \in U \cup {f}
  OBVIOUS
<1> DEFINE gs == Append(fs, f)
<1>2. /\ gs \in Seq(U \cup {f}) /\ Len(fs) \in Nat /\ Len(gs) = Len(fs) + 1
      /\ \A i \in 1 .. Len(fs) : gs[i] = fs[i]
      /\ gs[Len(fs) + 1] = f
  BY <1>1
<1> HIDE DEF gs
<1>3. \A i \in 1 .. Len(gs) : i \in 1 .. Len(fs) \/ i = Len(fs) + 1
  BY <1>2
<1>4. ASSUME OnePayload(fs), f.field = "Payload" => \A i \in 1 .. Len(fs) : fs[i].field # "Payload"
      PROVE  OnePayload(gs)
  BY <1>2, <1>3, <1>4 DEF OnePayload
<1> QED
  BY <1>2, <1>4 DEF gs

(* A field that is not a list is replaced.                                 *)
LEMMA AssignKeeps ==
  ASSUME NEW kind, NEW fs, GoodFields(kind, fs), NEW child, kind = "iq" => child.list = FALSE, NEW v
  PROVE  GoodFields(kind, Assign(fs, child, v))
<1>1. CASE child.field = ""
  BY <1>1 DEF Assign
<1>2. CASE child.field # ""
  <2>1. PICK U : fs \in Seq(U)
    BY DEF GoodFields
  <2> DEFINE f == [field |-> child.field, value |-> v]
             gs == IF child.list THEN fs ELSE Sifted(fs, child.field, FALSE)
  <2>2. Assign(fs, child, v) = Append(gs, f) /\ f.field = child.field
    BY <1>2 DEF Assign
  <2>3. /\ Sifted(fs, child.field, FALSE) \in Seq(U)
        /\ SiftedOf(fs, Len(fs), child.field, FALSE, Sifted(fs, child.field, FALSE))
    BY <2>1, SiftedKeeps
  <2>4. gs \in Seq(U)
    BY <2>1, <2>3
  <2>5. kind = "iq" => /\ OnePayload(gs)
                       /\ \A i \in 1 .. Len(gs) : gs[i].field # child.field
    BY <2>3 DEF GoodFields, SiftedOf
  <2> HIDE DEF f, gs
  <2>6. Append(gs, f) \in Seq(U \cup {f}) /\ (kind = "iq" => OnePayload(Append(gs, f)))
    BY <2>2, <2>4, <2>5, AppendKeeps
  <2> QED
    BY <2>2, <2>6 DEF GoodFields
<1> QED
  BY <1>1, <1>2

LEMMA TurnKeeps ==
  ASSUME NEW ts, NEW i, NEW kind, NEW inner, NEW s, GoodState(kind, s)
  PROVE  GoodState(kind, Turn(ts, i, kind, inner, s))
<1> DEFINE child == Child(kind, ts[s.at].name)
           value == inner[s.at][child.as]
<1>1. CASE s.ends
  BY <1>1 DEF Turn
<1>2. CASE ~s.ends
  <2>1. PICK at, fs : s = Going(at, fs) /\ GoodFields(kind, fs)
    BY <1>2 DEF GoodState, Ending
  <2>2. s.fields = fs
    BY <2>1 DEF Going
  <2>3. kind = "iq" => child.list = FALSE
    BY IQHasNoLists
  <2> HIDE DEF child, value
  <2>4. GoodFields(kind, Assign(fs, child, value.value))
    BY <2>1, <2>3, AssignKeeps
  <2>5. \/ \E r : Turn(ts, i, kind, inner, s) = Ending(r) /\ GoodResult(kind, r)
        \/ \E to : Turn(ts, i, kind, inner, s) = Going(to, fs)
        \/ \E to : Turn(ts, i, kind, inner, s) = Going(to, Assign(fs, child, value.value))
    <3>1. GoodResult(kind, Done(Value(kind, ts[i], fs))) /\ GoodResult(kind, Failed)
      BY <2>1 DEF GoodResult
    <3>2. CASE Stops(ts, i, s.at)
      BY <1>2, <2>2, <3>1, <3>2 DEF Turn
    <3>3. CASE ~Stops(ts, i, s.at)
      BY <1>2, <2>2, <3>1, <3>3 DEF Turn, child, value
    <3> QED
      BY <3>2, <3>3
  <2> QED
    BY <2>1, <2>4, <2>5 DEF GoodState
<1> QED
  BY <1>1, <1>2

(* The state of the loop after each of the first m turns.                  *)
ScannedSoFar(ts, i, kind, inner, m, f) ==
  f = [n \in 0 .. m |-> IF n = 0 THEN Going(i + 1, <<>>)
                        ELSE Turn(ts, i, kind, inner, f[n - 1])]

LEMMA TurnsIs ==
  ASSUME NEW ts, NEW i, NEW kind, NEW inner
  PROVE  Turns(ts, i, kind, inner) = CHOOSE f : ScannedSoFar(ts, i, kind, inner, Len(ts), f)
BY DEF Turns, ScannedSoFar

LEMMA ScanExists ==
  ASSUME NEW ts, NEW i, NEW kind, NEW inner
  PROVE  \A m \in Nat : \E f : ScannedSoFar(ts, i, kind, inner, m, f)
<1> DEFINE S == {m \in Nat : \E f : ScannedSoFar(ts, i, kind, inner, m, f)}
<1>1. 0 \in S
  <2> DEFINE f == [n \in 0 .. 0 |-> Going(i + 1, <<>>)]
  <2>1. ScannedSoFar(ts, i, kind, inner, 0, f)
    BY DEF ScannedSoFar
  <2> QED
    BY <2>1
<1>2. ASSUME NEW m \in Nat, m \in S PROVE m + 1 \in S
  <2>1. PICK f : ScannedSoFar(ts, i, kind, inner, m, f)
    BY <1>2
  <2> DEFINE g == [n \in 0 .. m + 1 |-> IF n <= m THEN f[n] ELSE Turn(ts, i, kind, inner, f[m])]
  <2>2. ASSUME NEW n \in 0 .. m + 1
        PROVE  g[n] = IF n = 0 THEN Going(i + 1, <<>>) ELSE Turn(ts, i, kind, inner, g[n - 1])
    <3>1. CASE n <= m
      <4>1. g[n] = f[n] /\ (n # 0 => g[n - 1] = f[n - 1]) /\ n \in 0 .. m
        BY <3>1
      <4>2. f[n] = IF n = 0 THEN Going(i + 1, <<>>) ELSE Turn(ts, i, kind, inner, f[n - 1])
        BY <2>1, <4>1 DEF ScannedSoFar
      <4> QED
        BY <4>1, <4>2
    <3>2. CASE n = m + 1
      <4>1. g[n] = Turn(ts, i, kind, inner, f[m]) /\ g[n - 1] = f[m] /\ n # 0
        BY <3>2
      <4> QED
        BY <4>1
    <3> QED
      BY <3>1, <3>2
  <2>3. g = [n \in 0 .. m + 1 |-> g[n]]
    OBVIOUS
  <2> HIDE DEF g
  <2>4. ScannedSoFar(ts, i, kind, inner, m + 1, g)
    BY <2>2, <2>3 DEF ScannedSoFar
  <2> QED
    BY <2>4
<1> HIDE DEF S
<1>3. \A m \in Nat : m \in S
  BY <1>1, <1>2, NatSet
<1> QED
  BY <1>3 DEF S

LEMMA TurnsAre ==
  ASSUME NEW ts, Len(ts) \in Nat, NEW i, NEW kind, NEW inner, NEW n \in 0 .. Len(ts)
  PROVE  Turns(ts, i, kind, inner)[n]
           = IF n = 0 THEN Going(i + 1, <<>>)
             ELSE Turn(ts, i, kind, inner, Turns(ts, i, kind, inner)[n - 1])
<1> DEFINE f == Turns(ts, i, kind, inner)
<1>1. ScannedSoFar(ts, i, kind, inner, Len(ts), f)
  BY ScanExists, TurnsIs
<1> HIDE DEF f
<1>2. f[n] = IF n = 0 THEN Going(i + 1, <<>>) ELSE Turn(ts, i, kind, inner, f[n - 1])
  BY <1>1 DEF ScannedSoFar
<1> QED
  BY <1>2 DEF f

(* A decoder fails or gives a value of its kind, whatever the elements     *)
(* inside decode to.                                                       *)
LEMMA ScanGives ==
  ASSUME NEW ts, Len(ts) \in Nat, NEW i, NEW kind, NEW inner
  PROVE  GoodResult(kind, Scan(ts, i, kind, inner))
<1> DEFINE f == Turns(ts, i, kind, inner)
<1>2. Scan(ts, i, kind, inner) = f[Len(ts)].result
  BY DEF Scan
<1>3. \A n \in 0 .. Len(ts) :
        f[n] = IF n = 0 THEN Going(i + 1, <<>>) ELSE Turn(ts, i, kind, inner, f[n - 1])
  BY TurnsAre
<1> HIDE DEF f
<1> DEFINE S == {n \in Nat : n <= Len(ts) => GoodState(kind, f[n])}
<1>4. 0 \in S
  <2>1. f[0] = Going(i + 1, <<>>)
    BY <1>3
  <2>2. GoodFields(kind, <<>>)
    <3>1. <<>> \in Seq({}) /\ OnePayload(<<>>)
      BY DEF OnePayload
    <3> QED
      BY <3>1 DEF GoodFields
  <2>3. GoodState(kind, f[0])
    BY <2>1, <2>2 DEF GoodState
  <2> QED
    BY <2>3
<1>5. ASSUME NEW n \in Nat, n \in S PROVE n + 1 \in S
  <2> SUFFICES ASSUME n + 1 <= Len(ts) PROVE GoodState(kind, f[n + 1])
    OBVIOUS
  <2>1. n + 1 \in 0 .. Len(ts) /\ n + 1 # 0 /\ (n + 1) - 1 = n /\ n <= Len(ts)
    OBVIOUS
  <2>2. f[n + 1] = Turn(ts, i, kind, inner, f[n])
    BY <1>3, <2>1
  <2>3. GoodState(kind, f[n])
    BY <1>5, <2>1
  <2> QED
    BY <2>2, <2>3, TurnKeeps
<1> HIDE DEF S
<1>6. \A n \in Nat : n \in S
  BY <1>4, <1>5, NatSet
<1>7. GoodState(kind, f[Len(ts)])
  BY <1>6 DEF S
<1>8. GoodResult(kind, f[Len(ts)].result)
  <2> DEFINE w == f[Len(ts)]
  <2>1. GoodState(kind, w)
    BY <1>7
  <2> HIDE DEF w
  <2>2. ASSUME NEW at, NEW fs, w = Going(at, fs) PROVE w.result = Failed
    BY <2>2 DEF Going
  <2>3. ASSUME NEW r, w = Ending(r) PROVE w.result = r
    BY <2>3 DEF Ending
  <2>4. GoodResult(kind, w.result)
    <3>1. CASE \E at, fs : w = Going(at, fs)
      <4>1. w.result = Failed
        BY <2>2, <3>1, Zenon
      <4> QED
        BY <4>1 DEF GoodResult
    <3>2. CASE \E r : w = Ending(r) /\ GoodResult(kind, r)
      BY <2>3, <3>2
    <3> QED
      BY <2>1, <3>1, <3>2 DEF GoodState
  <2> QED
    BY <2>4 DEF w
<1> QED
  BY <1>2, <1>8

LEMMA DecodeGives ==
  ASSUME NEW ts, Len(ts) \in Nat, NEW i, NEW kind
  PROVE  GoodResult(kind, Decode(ts, i, kind))
<1>1. \A inner : GoodResult(kind, DecodeWith(ts, i, kind, inner))
  BY ScanGives DEF DecodeWith, GoodResult
<1>2. \E inner : Decode(ts, i, kind) = DecodeWith(ts, i, kind, inner)
  BY DEF Decode
<1> QED
  BY <1>1, <1>2

(* What a packet is read as: a failure, or a value with at most one        *)
(* payload if it is an IQ.                                                 *)
Read(r) ==
  \/ r = Failed
  \/ \E kind, t, fs : r = Done(Value(kind, t, fs)) /\ GoodFields(kind, fs)

LEMMA NextPacketGives ==
  ASSUME NEW ts, Len(ts) \in Nat
  PROVE  Read(NextPacket(ts))
<1> DEFINE j == NextXmppToken(ts)
           kind == PacketKind(ts[j].name)
<1>1. GoodResult(kind, Decode(ts, j, kind))
  BY DecodeGives
<1>2. GoodFields("streamClose", <<>>)
  <2>1. <<>> \in Seq({})
    OBVIOUS
  <2> QED
    BY <2>1 DEF GoodFields
<1> HIDE DEF j, kind
<1>3. \/ NextPacket(ts) = Done(Value("streamClose", ts[j], <<>>))
      \/ NextPacket(ts) = Failed
      \/ NextPacket(ts) = Decode(ts, j, kind)
  BY DEF NextPacket, j, kind
<1> QED
  BY <1>1, <1>2, <1>3 DEF Read, GoodResult

LEMMA InitStreamGives ==
  ASSUME NEW ts
  PROVE  Read(InitStream(ts))
<1> DEFINE t == ts[Min({j \in 1 .. Len(ts) : ts[j].token = "start"})]
<1>1. GoodFields("open", <<>>)
  <2>1. <<>> \in Seq({})
    OBVIOUS
  <2> QED
    BY <2>1 DEF GoodFields
<1> HIDE DEF t
<1>2. InitStream(ts) = Done(Value("open", t, <<>>)) \/ InitStream(ts) = Failed
  BY DEF InitStream, t
<1> QED
  BY <1>1, <1>2 DEF Read

-----------------------------------------------------------------------------
(* The goroutine that reads.                                               *)

(* To the registry, reading changes nothing.                               *)
LEMMA ReadsTheRegistry == Spec => RegistrySpec
<1>1. Init => RegistryInit
  BY DEF Init
<1>2. [Next]_vars => [RegistryNext]_registryVars
  BY DEF Next, OpenStream, ReadPacket, ReadClose, vars
<1> QED
  BY <1>1, <1>2, PTL DEF Spec, RegistrySpec

(* What packages and applications registered stays in force also while     *)
(* packets are read (MapExtension, GetExtensionType, NextPacket).          *)
THEOREM RegistrationsStayWhileReading == Spec => []RegistrationsKept
BY ReadsTheRegistry, RegistrationsStay, PTL

LEMMA TokensHaveLength ==
  ASSUME NEW e \in Openings \cup Elements
  PROVE  Len(Tokens(e)) \in Nat
<1>1. Tokens(e) \in Seq([token : {"start", "end"}, name : STRING \X STRING, text : STRING])
  BY DecodingAssumption
<1> QED
  BY <1>1

(* The result of each step that reads.                                     *)
LEMMA StepsRead ==
  ASSUME OpenStream \/ ReadPacket \/ ReadClose
  PROVE  /\ Read(output') /\ packets < MaxPackets /\ packets' = packets + 1
         /\ DOMAIN input' = {"name", "text", "kids"}
         /\ open' => output'.ok
<1>1. CASE OpenStream
  BY <1>1, InitStreamGives, DecodingAssumption DEF OpenStream
<1>2. CASE ReadPacket
  <2>1. PICK e \in Elements :
          /\ input' = e /\ output' = NextPacket(Tokens(e)) /\ open' = output'.ok
          /\ packets < MaxPackets /\ packets' = packets + 1
    BY <1>2 DEF ReadPacket
  <2>2. Read(output')
    BY <2>1, TokensHaveLength, NextPacketGives
  <2> QED
    BY <2>1, <2>2, DecodingAssumption
<1>3. CASE ReadClose
  <2>1. Len(<< EndToken(StreamEnd.name) >>) \in Nat
    OBVIOUS
  <2>2. Read(NextPacket(<< EndToken(StreamEnd.name) >>))
    BY <2>1, NextPacketGives
  <2> QED
    BY <1>3, <2>2 DEF ReadClose, StreamEnd
<1> QED
  BY <1>1, <1>2, <1>3

LEMMA Results ==
  ASSUME NEW r, Read(r)
  PROVE  r.ok \in BOOLEAN /\ (r = Failed <=> r.ok = FALSE)
<1>1. Failed.ok = FALSE
  BY DEF Failed
<1>2. \A v : Done(v).ok = TRUE
  BY DEF Done
<1> QED
  BY <1>1, <1>2 DEF Read

Reading ==
  /\ open \in BOOLEAN /\ packets \in 0 .. MaxPackets
  /\ DOMAIN input = {"name", "text", "kids"}
  /\ Read(output)
  /\ open => output.ok

LEMMA ReadingInvariance == Spec => []Reading
<1>1. Init => Reading
  <2>1. DOMAIN NoElement = {"name", "text", "kids"}
    BY DEF NoElement
  <2>2. 0 \in 0 .. MaxPackets
    BY DecodingAssumption
  <2>3. Read(Failed)
    BY DEF Read
  <2> QED
    BY <2>1, <2>2, <2>3 DEF Init, Reading
<1>2. Reading /\ [Next]_vars => Reading'
  <2> SUFFICES ASSUME Reading, [Next]_vars PROVE Reading'
    OBVIOUS
  <2>1. CASE OpenStream \/ ReadPacket \/ ReadClose
    <3>1. /\ Read(output') /\ packets < MaxPackets /\ packets' = packets + 1
          /\ DOMAIN input' = {"name", "text", "kids"}
          /\ open' => output'.ok
      BY <2>1, StepsRead
    <3>2. output'.ok \in BOOLEAN
      BY <3>1, Results
    <3>3. open' = output'.ok \/ open' = FALSE
      BY <2>1 DEF OpenStream, ReadPacket, ReadClose
    <3>4. packets' \in 0 .. MaxPackets
      BY <3>1, DecodingAssumption DEF Reading
    <3> QED
      BY <3>1, <3>2, <3>3, <3>4 DEF Reading
  <2>2. CASE UNCHANGED <<open, input, output, packets>>
    BY <2>2 DEF Reading, Read
  <2> QED
    BY <2>1, <2>2 DEF Next, vars
<1> QED
  BY <1>1, <1>2, PTL DEF Spec

(* Whatever is registered while packets are read, the reader has a result  *)
(* for each, and goes on only after one without an error (recv).           *)
THEOREM TypesAreRight == Spec => []TypeOK
<1>1. Reading /\ RegistryTypeOK => TypeOK
  BY Results DEF Reading, TypeOK
<1> QED
  BY <1>1, ReadingInvariance, ReadsTheRegistry, TypeInvariant, PTL

(* An IQ that is read carries at most one payload, however many extension  *)
(* elements it has: the one decoded last replaces the others, and is what  *)
(* the route matchers and the callers see (IQ.UnmarshalXML).               *)
IQHasOnePayload == output.ok /\ output.value.type = "iq" => OnePayload(output.value.fields)

LEMMA IQsHaveOnePayload == Spec => []IQHasOnePayload
<1>1. Reading => IQHasOnePayload
  <2> SUFFICES ASSUME Reading, output.ok, output.value.type = "iq"
               PROVE  OnePayload(output.value.fields)
    BY DEF IQHasOnePayload
  <2>1. output # Failed
    BY Results DEF Reading
  <2>2. PICK kind, t, fs : output = Done(Value(kind, t, fs)) /\ GoodFields(kind, fs)
    BY <2>1 DEF Reading, Read
  <2>3. output.value.type = kind /\ output.value.fields = fs
    BY <2>2 DEF Done, Value
  <2> QED
    BY <2>2, <2>3 DEF GoodFields
<1> QED
  BY <1>1, ReadingInvariance, PTL

-----------------------------------------------------------------------------
(* Routes.                                                                 *)

(* What a route accepts of its first n matchers, after each of them.       *)
AcceptedSoFar(route, p, m, f) ==
  f = [n \in 0 .. m |-> n = 0 \/ (f[n - 1] /\ Matches(route[n], p))]

LEMMA RouteMatchIs ==
  ASSUME NEW route, NEW p
  PROVE  RouteMatch(route, p) = (CHOOSE f : AcceptedSoFar(route, p, Len(route), f))[Len(route)]
BY DEF RouteMatch, AcceptedSoFar

LEMMA AcceptedExists ==
  ASSUME NEW route, NEW p, NEW m \in Nat
  PROVE  \E f : AcceptedSoFar(route, p, m, f)
<1> DEFINE f == [n \in 0 .. m |-> \A i \in 1 .. n : Matches(route[i], p)]
<1>1. ASSUME NEW n \in 0 .. m PROVE f[n] = (n = 0 \/ (f[n - 1] /\ Matches(route[n], p)))
  <2>1. CASE n = 0
    <3>1. f[0] = TRUE
      BY <2>1
    <3> QED
      BY <2>1, <3>1
  <2>2. CASE n # 0
    <3>1. n - 1 \in 0 .. m
      BY <2>2
    <3>2. f[n - 1] = (\A i \in 1 .. n - 1 : Matches(route[i], p))
      BY <3>1
    <3>3. \A i \in 1 .. n : i \in 1 .. n - 1 \/ i = n
      OBVIOUS
    <3>4. 1 .. n - 1 \subseteq 1 .. n /\ n \in 1 .. n
      BY <2>2
    <3>5. (\A i \in 1 .. n : Matches(route[i], p))
            <=> (\A i \in 1 .. n - 1 : Matches(route[i], p)) /\ Matches(route[n], p)
      BY <3>3, <3>4
    <3>6. f[n] = (\A i \in 1 .. n : Matches(route[i], p))
      OBVIOUS
    <3> QED
      BY <2>2, <3>2, <3>5, <3>6
  <2> QED
    BY <2>1, <2>2
<1>2. f = [n \in 0 .. m |-> f[n]]
  OBVIOUS
<1> HIDE DEF f
<1>3. AcceptedSoFar(route, p, m, f)
  BY <1>1, <1>2 DEF AcceptedSoFar
<1> QED
  BY <1>3

(* RouteMatch accepts what all the matchers accept.                        *)
LEMMA RouteMatchAll ==
  ASSUME NEW route, Len(route) \in Nat, NEW p
  PROVE  RouteMatch(route, p) <=> \A i \in 1 .. Len(route) : Matches(route[i], p)
<1> DEFINE f == CHOOSE f : AcceptedSoFar(route, p, Len(route), f)
<1>1. AcceptedSoFar(route, p, Len(route), f)
  BY AcceptedExists
<1>2. RouteMatch(route, p) = f[Len(route)]
  BY RouteMatchIs
<1> HIDE DEF f
<1>3. \A n \in 0 .. Len(route) : f[n] = (n = 0 \/ (f[n - 1] /\ Matches(route[n], p)))
  BY <1>1 DEF AcceptedSoFar
<1> DEFINE S == {n \in Nat : n <= Len(route) =>
                   (f[n] <=> \A i \in 1 .. n : Matches(route[i], p))}
<1>4. 0 \in S
  <2>1. f[0] = (0 = 0 \/ (f[0 - 1] /\ Matches(route[0], p)))
    BY <1>3
  <2>2. f[0] = TRUE
    BY <2>1, Zenon
  <2>3. \A i \in 1 .. 0 : Matches(route[i], p)
    OBVIOUS
  <2> QED
    BY <2>2, <2>3
<1>5. ASSUME NEW n \in Nat, n \in S PROVE n + 1 \in S
  <2> SUFFICES ASSUME n + 1 <= Len(route)
               PROVE  f[n + 1] <=> \A i \in 1 .. n + 1 : Matches(route[i], p)
    OBVIOUS
  <2>1. n + 1 \in 0 .. Len(route) /\ n + 1 # 0 /\ (n + 1) - 1 = n /\ n <= Len(route)
    OBVIOUS
  <2>2. f[n + 1] = (f[n] /\ Matches(route[n + 1], p))
    BY <1>3, <2>1
  <2>3. f[n] <=> \A i \in 1 .. n : Matches(route[i], p)
    BY <1>5, <2>1
  <2>4. \A i \in 1 .. n + 1 : i \in 1 .. n \/ i = n + 1
    OBVIOUS
  <2>5. 1 .. n \subseteq 1 .. n + 1 /\ n + 1 \in 1 .. n + 1
    OBVIOUS
  <2> QED
    BY <2>2, <2>3, <2>4, <2>5
<1> HIDE DEF S
<1>6. \A n \in Nat : n \in S
  BY <1>4, <1>5, NatSet
<1>7. f[Len(route)] <=> \A i \in 1 .. Len(route) : Matches(route[i], p)
  BY <1>6 DEF S
<1> QED
  BY <1>2, <1>7

(* The route that was found after each of the first m.                     *)
FoundSoFar(table, p, m, f) ==
  f = [n \in 0 .. m |-> IF n = 0 THEN 0
                        ELSE IF f[n - 1] # 0 THEN f[n - 1]
                        ELSE IF RouteMatch(table[n], p) THEN n ELSE 0]

LEMMA MatchIs ==
  ASSUME NEW table, NEW p
  PROVE  Match(table, p) = (CHOOSE f : FoundSoFar(table, p, Len(table), f))[Len(table)]
BY DEF Match, FoundSoFar

LEMMA FoundExists ==
  ASSUME NEW table, NEW p
  PROVE  \A m \in Nat : \E f : FoundSoFar(table, p, m, f)
<1> DEFINE S == {m \in Nat : \E f : FoundSoFar(table, p, m, f)}
           Then(n, x) == IF x # 0 THEN x ELSE IF RouteMatch(table[n], p) THEN n ELSE 0
<1>1. 0 \in S
  <2> DEFINE f == [n \in 0 .. 0 |-> 0]
  <2>1. f = [n \in 0 .. 0 |-> IF n = 0 THEN 0 ELSE Then(n, f[n - 1])]
    OBVIOUS
  <2>2. FoundSoFar(table, p, 0, f)
    BY <2>1 DEF FoundSoFar
  <2> QED
    BY <2>2
<1>2. ASSUME NEW m \in Nat, m \in S PROVE m + 1 \in S
  <2>1. PICK f : FoundSoFar(table, p, m, f)
    BY <1>2
  <2>2. \A n \in 0 .. m : f[n] = IF n = 0 THEN 0 ELSE Then(n, f[n - 1])
    BY <2>1 DEF FoundSoFar
  <2> HIDE DEF Then
  <2> DEFINE g == [n \in 0 .. m + 1 |-> IF n <= m THEN f[n] ELSE Then(n, f[m])]
  <2>3. ASSUME NEW n \in 0 .. m + 1
        PROVE  g[n] = IF n = 0 THEN 0 ELSE Then(n, g[n - 1])
    <3>1. CASE n <= m
      <4>1. g[n] = f[n] /\ (n # 0 => g[n - 1] = f[n - 1]) /\ n \in 0 .. m
        BY <3>1
      <4> QED
        BY <2>2, <4>1
    <3>2. CASE n = m + 1
      <4>1. g[n] = Then(n, f[m]) /\ g[n - 1] = f[m] /\ n # 0
        BY <3>2
      <4> QED
        BY <4>1
    <3> QED
      BY <3>1, <3>2
  <2>4. g = [n \in 0 .. m + 1 |-> g[n]]
    OBVIOUS
  <2> HIDE DEF g
  <2>5. g = [n \in 0 .. m + 1 |-> IF n = 0 THEN 0 ELSE Then(n, g[n - 1])]
    BY <2>3, <2>4
  <2>6. FoundSoFar(table, p, m + 1, g)
    BY <2>5 DEF FoundSoFar, Then
  <2> QED
    BY <2>6
<1> HIDE DEF S
<1>3. \A m \in Nat : m \in S
  BY <1>1, <1>2, NatSet
<1> QED
  BY <1>3 DEF S

(* Match finds the first of the routes that match, or none.                *)
LEMMA MatchFinds ==
  ASSUME NEW table, Len(table) \in Nat, NEW p
  PROVE  LET takers == {i \in 1 .. Len(table) : RouteMatch(table[i], p)} IN
         /\ Match(table, p) \in 0 .. Len(table)
         /\ Match(table, p) = 0 => takers = {}
         /\ Match(table, p) # 0 => /\ Match(table, p) \in takers
                                   /\ \A i \in takers : Match(table, p) <= i
<1> DEFINE f == CHOOSE f : FoundSoFar(table, p, Len(table), f)
<1>1. FoundSoFar(table, p, Len(table), f)
  BY FoundExists
<1>2. Match(table, p) = f[Len(table)]
  BY MatchIs
<1> HIDE DEF f
<1>3. \A n \in 0 .. Len(table) :
        f[n] = IF n = 0 THEN 0
               ELSE IF f[n - 1] # 0 THEN f[n - 1]
               ELSE IF RouteMatch(table[n], p) THEN n ELSE 0
  BY <1>1 DEF FoundSoFar
<1> DEFINE First(n, x) ==
             /\ x \in 0 .. n
             /\ x = 0 => \A i \in 1 .. n : ~RouteMatch(table[i], p)
             /\ x # 0 => /\ RouteMatch(table[x], p)
                         /\ \A i \in 1 .. n : RouteMatch(table[i], p) => x <= i
           S == {n \in Nat : n <= Len(table) => First(n, f[n])}
<1>4. 0 \in S
  <2>1. f[0] = 0
    BY <1>3
  <2> QED
    BY <2>1
<1>5. ASSUME NEW n \in Nat, n \in S PROVE n + 1 \in S
  <2> SUFFICES ASSUME n + 1 <= Len(table) PROVE First(n + 1, f[n + 1])
    OBVIOUS
  <2>1. n + 1 \in 0 .. Len(table) /\ n + 1 # 0 /\ (n + 1) - 1 = n /\ n <= Len(table)
    OBVIOUS
  <2>2. f[n + 1] = IF f[n] # 0 THEN f[n] ELSE IF RouteMatch(table[n + 1], p) THEN n + 1 ELSE 0
    BY <1>3, <2>1
  <2>3. First(n, f[n])
    BY <1>5, <2>1
  <2>4. \A i \in 1 .. n + 1 : i \in 1 .. n \/ i = n + 1
    OBVIOUS
  <2>5. CASE f[n] # 0
    BY <2>2, <2>3, <2>4, <2>5
  <2>6. CASE f[n] = 0
    BY <2>2, <2>3, <2>4, <2>6
  <2> QED
    BY <2>5, <2>6
<1> HIDE DEF S
<1>6. \A n \in Nat : n \in S
  BY <1>4, <1>5, NatSet
<1>7. First(Len(table), f[Len(table)])
  BY <1>6 DEF S
<1> QED
  BY <1>2, <1>7

(* Lower leaves what has no capitals.                                      *)
LEMMA MatchersAgree ==
  ASSUME NEW m \in [by : {"name", "type", "namespace"}, values : SUBSET STRING],
         NEW p, GoodFields(p.type, p.fields), ~HasCapitals(p)
  PROVE  Matches(m, p) <=> MeantBy(m, p)
<1> DEFINE has(word) == Lower(word) \in m.values
<1>1. m.by \in {"name", "type", "namespace"}
  OBVIOUS
<1>2. \A w : w \notin DOMAIN Lowered => Lower(w) = w
  BY DEF Lower
<1>3. CASE m.by = "name"
  <2>1. Matches(m, p) <=> NameMatches(m.values, p)
    BY <1>3 DEF Matches
  <2> DEFINE n == IF p.type \in Stanzas THEN p.type ELSE ""
  <2>2. n \in {"message", "presence", "iq", "normal", ""}
    BY DEF Stanzas
  <2>3. n \notin DOMAIN Lowered
    BY <2>2, RoutesAssumption
  <2>4. NameMatches(m.values, p) <=> has(n)
    BY <1>2, <2>3 DEF NameMatches
  <2> QED
    BY <1>3, <2>1, <2>4 DEF MeantBy
<1>4. CASE m.by = "type"
  <2>1. Matches(m, p) <=> TypeMatches(m.values, p)
    BY <1>4 DEF Matches
  <2>2. "normal" \notin DOMAIN Lowered /\ p.text \notin DOMAIN Lowered
    BY RoutesAssumption DEF HasCapitals
  <2>3. Lower("normal") = "normal" /\ Lower(p.text) = p.text
    BY <1>2, <2>2
  <2>4. TypeMatches(m.values, p) <=>
          p.type \in Stanzas /\
            IF p.type = "message" /\ p.text = "" THEN has("normal") ELSE has(p.text)
    BY <2>3 DEF TypeMatches, TypeOf
  <2> QED
    BY <1>4, <2>1, <2>4 DEF MeantBy
<1>5. CASE m.by = "namespace"
  <2> DEFINE carries == \E k \in 1 .. Len(p.fields) :
                          p.fields[k].field = "Payload" /\ has(p.fields[k].value.name[1])
  <2>1. Matches(m, p) <=> NamespaceMatches(m.values, p)
    BY <1>5 DEF Matches
  <2>2. ASSUME p.type = "iq" PROVE NamespaceMatches(m.values, p) <=> carries
    <3> DEFINE fs == p.fields
               os == Only(p, "Payload")
    <3>1. PICK U : fs \in Seq(U)
      BY DEF GoodFields
    <3>2. OnePayload(fs)
      BY <2>2 DEF GoodFields
    <3>3. os \in Seq(U) /\ SiftedOf(fs, Len(fs), "Payload", TRUE, os)
      BY <3>1, SiftedKeeps DEF Only
    <3>4. \A k \in 1 .. Len(fs) : Lower(fs[k].value.name[1]) = fs[k].value.name[1]
      BY <1>2 DEF HasCapitals
    <3>5. NamespaceMatches(m.values, p) <=> os # <<>> /\ os[1].value.name[1] \in m.values
      BY <2>2 DEF NamespaceMatches
    <3>6. carries <=> \E k \in 1 .. Len(fs) :
                        fs[k].field = "Payload" /\ fs[k].value.name[1] \in m.values
      BY <3>4
    <3> HIDE DEF fs, os
    <3>7. CASE os = <<>>
      BY <3>3, <3>5, <3>6, <3>7 DEF SiftedOf
    <3>8. CASE os # <<>>
      <4>1. 1 \in 1 .. Len(os)
        BY <3>3, <3>8
      <4>2. PICK k \in 1 .. Len(fs) : os[1] = fs[k] /\ fs[k].field = "Payload"
        BY <3>3, <4>1 DEF SiftedOf
      <4>3. \A l \in 1 .. Len(fs) : fs[l].field = "Payload" => l = k
        BY <3>2, <4>2 DEF OnePayload
      <4> QED
        BY <3>5, <3>6, <3>8, <4>2, <4>3
    <3> QED
      BY <3>7, <3>8
  <2>3. p.type # "iq" => ~NamespaceMatches(m.values, p)
    BY DEF NamespaceMatches
  <2>4. NamespaceMatches(m.values, p) <=> p.type = "iq" /\ carries
    BY <2>2, <2>3
  <2> HIDE DEF carries
  <2>5. Matches(m, p) <=> p.type = "iq" /\ carries
    BY <2>1, <2>4
  <2> QED
    BY <1>5, <2>5 DEF MeantBy, carries
<1> QED
  BY <1>1, <1>3, <1>4, <1>5

LEMMA RoutesAccept ==
  ASSUME NEW route \in Seq([by : {"name", "type", "namespace"}, values : SUBSET STRING]),
         NEW p, GoodFields(p.type, p.fields), ~HasCapitals(p)
  PROVE  RouteMatch(route, p) <=> Accepts(route, p)
<1> DEFINE Matcher == [by : {"name", "type", "namespace"}, values : SUBSET STRING]
<1>1. \A m \in Matcher : Matches(m, p) <=> MeantBy(m, p)
  BY MatchersAgree
<1> HIDE DEF Matcher
<1>2. route \in Seq(Matcher)
  BY DEF Matcher
<1>3. Len(route) \in Nat /\ \A i \in 1 .. Len(route) : route[i] \in Matcher
  BY <1>2
<1>4. RouteMatch(route, p) <=> \A i \in 1 .. Len(route) : Matches(route[i], p)
  BY <1>3, RouteMatchAll
<1> QED
  BY <1>1, <1>3, <1>4 DEF Accepts

(* The first of the routes that accept a packet takes it, and a last route *)
(* without matchers leaves none.                                           *)
LEMMA FirstOfTable ==
  ASSUME NEW table \in Tables, NEW p, GoodFields(p.type, p.fields), ~HasCapitals(p)
  PROVE  LET takers == {i \in 1 .. Len(table) : Accepts(table[i], p)} IN
         /\ Match(table, p) = IF takers = {} THEN 0 ELSE Min(takers)
         /\ table # <<>> /\ Last(table) = <<>> => Match(table, p) # 0
<1> DEFINE takers == {i \in 1 .. Len(table) : Accepts(table[i], p)}
           M == Match(table, p)
           Matcher == [by : {"name", "type", "namespace"}, values : SUBSET STRING]
<1> HIDE DEF Matcher
<1>1. table \in Seq(Seq(Matcher))
  BY RoutesAssumption DEF Matcher
<1>2. Len(table) \in Nat /\ \A i \in 1 .. Len(table) : table[i] \in Seq(Matcher)
  BY <1>1
<1>3. \A i \in 1 .. Len(table) : RouteMatch(table[i], p) <=> Accepts(table[i], p)
  BY <1>2, RoutesAccept DEF Matcher
<1>4. /\ M \in 0 .. Len(table)
      /\ M = 0 => takers = {}
      /\ M # 0 => M \in takers /\ \A i \in takers : M <= i
  BY <1>2, <1>3, MatchFinds
<1>5. takers \in SUBSET Nat
  BY <1>2
<1>6. takers # {} => Min(takers) \in takers /\ \A y \in takers : Min(takers) <= y
  BY <1>5, MinIs
<1>7. M = IF takers = {} THEN 0 ELSE Min(takers)
  <2>1. CASE M = 0
    BY <1>4, <2>1
  <2>2. CASE M # 0
    <3>1. M \in takers /\ Min(takers) \in takers
      BY <1>4, <1>6, <2>2
    <3>2. M <= Min(takers) /\ Min(takers) <= M
      BY <1>4, <1>6, <2>2, <3>1
    <3>3. M \in Nat /\ Min(takers) \in Nat
      BY <1>5, <3>1
    <3> QED
      BY <3>1, <3>2, <3>3
  <2> QED
    BY <2>1, <2>2
<1>8. ASSUME table # <<>>, Last(table) = <<>> PROVE M # 0
  <2>1. Len(table) \in 1 .. Len(table) /\ table[Len(table)] = <<>>
    BY <1>1, <1>8 DEF Last
  <2>2. Accepts(<<>>, p)
    BY DEF Accepts
  <2> QED
    BY <1>4, <2>1, <2>2
<1> QED
  BY <1>7, <1>8

(* For every packet that is read and every table of routes, whatever is    *)
(* registered meanwhile: the first route that accepts the packet takes it, *)
(* no other does, and a last route without matchers leaves none unhandled  *)
(* (Router.Match, Route.Match and the matchers of router.go).              *)
THEOREM FirstRoutesTake == Spec => []FirstRouteTakes
<1>1. Reading => FirstRouteTakes
  <2> SUFFICES ASSUME Reading, output.ok, ~HasCapitals(output.value), NEW table \in Tables
               PROVE  LET takers == {i \in 1 .. Len(table) : Accepts(table[i], output.value)} IN
                      /\ Match(table, output.value) = IF takers = {} THEN 0 ELSE Min(takers)
                      /\ table # <<>> /\ Last(table) = <<>> => Match(table, output.value) # 0
    BY DEF FirstRouteTakes
  <2>1. output # Failed
    BY Results DEF Reading
  <2>2. PICK kind, t, fs : output = Done(Value(kind, t, fs)) /\ GoodFields(kind, fs)
    BY <2>1 DEF Reading, Read
  <2>3. output.value.type = kind /\ output.value.fields = fs
    BY <2>2 DEF Done, Value
  <2>4. GoodFields(output.value.type, output.value.fields)
    BY <2>2, <2>3
  <2> QED
    BY <2>4, FirstOfTable
<1> QED
  BY <1>1, ReadingInvariance, PTL

-----------------------------------------------------------------------------
(* Where a decoder reads: the depth of the elements.                       *)

Of(ts, i, j, kind) == {k \in i .. j : ts[k].token = kind}

LEMMA CountStep ==
  ASSUME NEW ts, NEW i \in Nat, NEW j \in Nat, i <= j + 1, NEW kind
  PROVE  /\ Cardinality(Of(ts, i, j, kind)) \in Nat
         /\ Cardinality(Of(ts, i, j + 1, kind))
              = Cardinality(Of(ts, i, j, kind)) + IF ts[j + 1].token = kind THEN 1 ELSE 0
<1>1. IsFiniteSet(i .. j)
  BY FS_Interval
<1>2. Of(ts, i, j, kind) \in SUBSET (i .. j)
  BY DEF Of
<1>3. IsFiniteSet(Of(ts, i, j, kind))
  BY <1>1, <1>2, FS_Subset
<1>4. Cardinality(Of(ts, i, j, kind)) \in Nat
  BY <1>3, FS_CardinalityType
<1>5. i .. j + 1 = (i .. j) \cup {j + 1} /\ j + 1 \notin i .. j
  OBVIOUS
<1>6. CASE ts[j + 1].token = kind
  <2>1. Of(ts, i, j + 1, kind) = Of(ts, i, j, kind) \cup {j + 1}
    BY <1>5, <1>6 DEF Of
  <2>2. j + 1 \notin Of(ts, i, j, kind)
    BY <1>5 DEF Of
  <2> QED
    BY <1>3, <1>4, <1>6, <2>1, <2>2, FS_AddElement
<1>7. CASE ts[j + 1].token # kind
  <2>1. Of(ts, i, j + 1, kind) = Of(ts, i, j, kind)
    BY <1>5, <1>7 DEF Of
  <2> QED
    BY <1>4, <1>7, <2>1
<1> QED
  BY <1>6, <1>7

(* A start token adds one, an end token takes one away.                    *)
Change(t) == (IF t.token = "start" THEN 1 ELSE 0) - (IF t.token = "end" THEN 1 ELSE 0)

LEMMA DepthStep ==
  ASSUME NEW ts, NEW i \in Nat, NEW j \in Nat, i <= j + 1
  PROVE  Depth(ts, i, j) \in Int /\ Depth(ts, i, j + 1) = Depth(ts, i, j) + Change(ts[j + 1])
<1> DEFINE s == Cardinality(Of(ts, i, j, "start"))
           e == Cardinality(Of(ts, i, j, "end"))
           s1 == Cardinality(Of(ts, i, j + 1, "start"))
           e1 == Cardinality(Of(ts, i, j + 1, "end"))
<1>1. Depth(ts, i, j) = s - e /\ Depth(ts, i, j + 1) = s1 - e1
  BY DEF Depth, Of
<1>2. /\ s \in Nat /\ e \in Nat
      /\ s1 = s + IF ts[j + 1].token = "start" THEN 1 ELSE 0
      /\ e1 = e + IF ts[j + 1].token = "end" THEN 1 ELSE 0
  BY CountStep
<1> HIDE DEF s, e, s1, e1
<1> QED
  BY <1>1, <1>2 DEF Change

(* The same, seen from the token that was read last.                       *)
LEMMA DepthOf ==
  ASSUME NEW ts, NEW i \in Nat, NEW j \in Nat \ {0}, i <= j
  PROVE  /\ Depth(ts, i, j) \in Int /\ Depth(ts, i, j - 1) \in Int
         /\ Depth(ts, i, j) = Depth(ts, i, j - 1) + Change(ts[j])
         /\ Change(ts[j]) \in {-1, 0, 1}
<1> DEFINE k == j - 1
<1>1. k \in Nat /\ k + 1 = j /\ i <= k + 1
  OBVIOUS
<1> HIDE DEF k
<1>2. Depth(ts, i, k) \in Int /\ Depth(ts, i, k + 1) = Depth(ts, i, k) + Change(ts[k + 1])
  BY <1>1, DepthStep
<1>3. Depth(ts, i, k) \in Int /\ Depth(ts, i, j) = Depth(ts, i, k) + Change(ts[j])
  BY <1>1, <1>2
<1>4. Change(ts[j]) \in {-1, 0, 1}
  BY DEF Change
<1>5. Depth(ts, i, j) \in Int
  BY <1>3, <1>4
<1> QED
  BY <1>3, <1>4, <1>5 DEF k

LEMMA DepthNone ==
  ASSUME NEW ts, NEW i \in Nat \ {0}
  PROVE  Depth(ts, i, i - 1) = 0
<1>1. \A kind : Of(ts, i, i - 1, kind) = {}
  BY DEF Of
<1>2. Cardinality({}) = 0
  BY FS_EmptySet
<1>3. Depth(ts, i, i - 1)
          = Cardinality(Of(ts, i, i - 1, "start")) - Cardinality(Of(ts, i, i - 1, "end"))
  BY DEF Depth, Of
<1> QED
  BY <1>1, <1>2, <1>3

(* Depths add up.                                                          *)
LEMMA DepthAdds ==
  ASSUME NEW ts, NEW i \in Nat \ {0}, NEW j \in Nat, i <= j
  PROVE  \A k \in Nat : j - 1 <= k => Depth(ts, i, k) = Depth(ts, i, j - 1) + Depth(ts, j, k)
<1> DEFINE S == {n \in Nat : Depth(ts, i, (j - 1) + n)
                               = Depth(ts, i, j - 1) + Depth(ts, j, (j - 1) + n)}
<1>1. Depth(ts, i, j - 1) \in Int /\ Depth(ts, j, j - 1) = 0
  <2>1. j \in Nat \ {0}
    OBVIOUS
  <2> QED
    BY <2>1, DepthOf, DepthNone
<1>2. 0 \in S
  <2>1. (j - 1) + 0 = j - 1
    OBVIOUS
  <2> QED
    BY <1>1, <2>1
<1>3. ASSUME NEW n \in Nat, n \in S PROVE n + 1 \in S
  <2> DEFINE m == (j - 1) + n
  <2>1. m \in Nat /\ (j - 1) + (n + 1) = m + 1 /\ i <= m + 1 /\ j <= m + 1
    OBVIOUS
  <2>2. Depth(ts, i, m) = Depth(ts, i, j - 1) + Depth(ts, j, m)
    BY <1>3
  <2> HIDE DEF m
  <2>3. /\ Depth(ts, i, m) \in Int /\ Depth(ts, i, m + 1) = Depth(ts, i, m) + Change(ts[m + 1])
        /\ Depth(ts, j, m) \in Int /\ Depth(ts, j, m + 1) = Depth(ts, j, m) + Change(ts[m + 1])
    BY <2>1, DepthStep
  <2>4. Change(ts[m + 1]) \in Int
    BY DEF Change
  <2>5. Depth(ts, i, m + 1) = Depth(ts, i, j - 1) + Depth(ts, j, m + 1)
    BY <1>1, <2>2, <2>3, <2>4
  <2> QED
    BY <2>1, <2>5
<1> HIDE DEF S
<1>4. \A n \in Nat : n \in S
  BY <1>2, <1>3, NatSet
<1> SUFFICES ASSUME NEW k \in Nat, j - 1 <= k
             PROVE  Depth(ts, i, k) = Depth(ts, i, j - 1) + Depth(ts, j, k)
  OBVIOUS
<1>5. k - (j - 1) \in Nat /\ (j - 1) + (k - (j - 1)) = k
  OBVIOUS
<1> QED
  BY <1>4, <1>5 DEF S

(* Until its depth is 0 an element is open.                                *)
LEMMA OpenUntilEnd ==
  ASSUME NEW ts, NEW j \in Nat \ {0}, ts[j].token = "start", NEW m \in Nat, j <= m,
         \A k \in j .. m : Depth(ts, j, k) # 0
  PROVE  Depth(ts, j, m) >= 1
<1> DEFINE S == {n \in Nat : j + n <= m => Depth(ts, j, j + n) >= 1}
<1>1. 0 \in S
  <2>1. Depth(ts, j, j - 1) = 0
    BY DepthNone
  <2>2. Depth(ts, j, j) = Depth(ts, j, j - 1) + Change(ts[j])
    BY DepthOf
  <2>3. j + 0 = j
    OBVIOUS
  <2>4. Depth(ts, j, j) = 1
    BY <2>1, <2>2 DEF Change
  <2> QED
    BY <2>3, <2>4
<1>2. ASSUME NEW n \in Nat, n \in S PROVE n + 1 \in S
  <2> SUFFICES ASSUME j + (n + 1) <= m PROVE Depth(ts, j, j + (n + 1)) >= 1
    OBVIOUS
  <2> DEFINE k == j + n
  <2>1. k \in Nat /\ j + (n + 1) = k + 1 /\ k + 1 \in j .. m /\ k <= m /\ j <= k + 1
    OBVIOUS
  <2>2. Depth(ts, j, k) >= 1
    BY <1>2, <2>1
  <2> HIDE DEF k
  <2>3. Depth(ts, j, k) \in Int /\ Depth(ts, j, k + 1) = Depth(ts, j, k) + Change(ts[k + 1])
    BY <2>1, DepthStep
  <2>4. Change(ts[k + 1]) \in {-1, 0, 1}
    BY DEF Change
  <2>5. Depth(ts, j, k + 1) # 0
    BY <2>1
  <2>6. Depth(ts, j, k + 1) >= 1
    BY <2>2, <2>3, <2>4, <2>5
  <2> QED
    BY <2>1, <2>6
<1> HIDE DEF S
<1>3. \A n \in Nat : n \in S
  BY <1>1, <1>2, NatSet
<1>4. m - j \in Nat /\ j + (m - j) = m
  OBVIOUS
<1> QED
  BY <1>3, <1>4 DEF S

(* The end of an element.                                                  *)
LEMMA EndIs ==
  ASSUME NEW ts, Len(ts) \in Nat, Balanced(ts), NEW i \in 1 .. Len(ts), ts[i].token = "start"
  PROVE  /\ EndOf(ts, i) \in i + 1 .. Len(ts)
         /\ Depth(ts, i, EndOf(ts, i)) = 0
         /\ \A k \in i .. EndOf(ts, i) - 1 : Depth(ts, i, k) >= 1
         /\ ts[EndOf(ts, i)].token = "end" /\ ts[EndOf(ts, i)].name = ts[i].name
<1> DEFINE I == {j \in i .. Len(ts) : Depth(ts, i, j) = 0}
           e == EndOf(ts, i)
<1>1. I \in SUBSET Nat /\ I # {}
  BY DEF Balanced
<1>2. e = Min(I)
  BY DEF EndOf
<1>3. e \in I /\ \A y \in I : e <= y
  BY <1>1, <1>2, MinIs
<1>4. ts[e].name = ts[i].name
  BY DEF Balanced
<1> HIDE DEF e
<1>5. e \in i .. Len(ts) /\ Depth(ts, i, e) = 0 /\ e \in Nat
  BY <1>3
<1>6. \A k \in i .. e - 1 : Depth(ts, i, k) # 0
  <2> SUFFICES ASSUME NEW k \in i .. e - 1, Depth(ts, i, k) = 0 PROVE FALSE
    OBVIOUS
  <2>1. k \in I
    BY <1>5
  <2> QED
    BY <1>3, <1>5, <2>1
<1>7. \A k \in i .. e - 1 : Depth(ts, i, k) >= 1
  <2> SUFFICES ASSUME NEW k \in i .. e - 1 PROVE Depth(ts, i, k) >= 1
    OBVIOUS
  <2>1. k \in Nat /\ i <= k /\ i .. k \subseteq i .. e - 1
    BY <1>5
  <2>2. \A l \in i .. k : Depth(ts, i, l) # 0
    BY <1>6, <2>1
  <2> QED
    BY <2>1, <2>2, OpenUntilEnd
<1>8. e # i
  <2>1. Depth(ts, i, i - 1) = 0
    BY DepthNone
  <2>2. Depth(ts, i, i) = Depth(ts, i, i - 1) + Change(ts[i])
    BY DepthOf
  <2>3. Depth(ts, i, i) = 1
    BY <2>1, <2>2 DEF Change
  <2> QED
    BY <1>5, <2>3
<1>9. ts[e].token = "end"
  <2>1. i \in Nat /\ e \in Nat \ {0} /\ i <= e /\ e - 1 \in i .. e - 1
    BY <1>5, <1>8
  <2>2. /\ Depth(ts, i, e) = Depth(ts, i, e - 1) + Change(ts[e])
        /\ Depth(ts, i, e - 1) \in Int /\ Change(ts[e]) \in {-1, 0, 1}
    BY <2>1, DepthOf
  <2>3. Depth(ts, i, e - 1) >= 1
    BY <1>7, <2>1
  <2>4. Change(ts[e]) = -1
    BY <1>5, <2>2, <2>3
  <2> QED
    BY <2>4 DEF Change
<1>10. e \in i + 1 .. Len(ts)
  BY <1>5, <1>8
<1> QED
  BY <1>4, <1>5, <1>7, <1>9, <1>10 DEF e

(* An element inside another ends before it.                               *)
LEMMA InsideEndsBefore ==
  ASSUME NEW ts, Len(ts) \in Nat, Balanced(ts),
         NEW i \in 1 .. Len(ts), ts[i].token = "start",
         NEW j \in i + 1 .. EndOf(ts, i), ts[j].token = "start"
  PROVE  EndOf(ts, j) < EndOf(ts, i)
<1> DEFINE e == EndOf(ts, i)
           d == EndOf(ts, j)
<1>1. /\ e \in i + 1 .. Len(ts) /\ Depth(ts, i, e) = 0
      /\ \A k \in i .. e - 1 : Depth(ts, i, k) >= 1
      /\ ts[e].token = "end"
  BY EndIs
<1>2. j \in 1 .. Len(ts) /\ j < e
  BY <1>1
<1>3. /\ d \in j + 1 .. Len(ts)
      /\ \A k \in j .. d - 1 : Depth(ts, j, k) >= 1
      /\ ts[d].token = "end"
  BY <1>2, EndIs
<1> HIDE DEF e, d
<1>4. /\ i \in Nat \ {0} /\ j \in Nat /\ e \in Nat /\ d \in Nat
      /\ i <= j /\ j - 1 \in i .. e - 1 /\ j - 1 <= e
  BY <1>1, <1>2, <1>3
<1>5. Depth(ts, i, e) = Depth(ts, i, j - 1) + Depth(ts, j, e)
  BY <1>4, DepthAdds
<1>6. Depth(ts, i, j - 1) >= 1
  BY <1>1, <1>4
<1>7. Depth(ts, j, e) \in Int /\ Depth(ts, i, j - 1) \in Int
  <2>1. i \in Nat /\ j \in Nat \ {0} /\ i <= j /\ e \in Nat \ {0} /\ j <= e
    BY <1>2, <1>4
  <2>2. Depth(ts, j, e) \in Int
    BY <2>1, DepthOf
  <2>3. Depth(ts, i, j - 1) \in Int
    BY <2>1, DepthOf
  <2> QED
    BY <2>2, <2>3
<1>8. Depth(ts, j, e) < 0
  BY <1>1, <1>5, <1>6, <1>7
<1>9. e \notin j .. d - 1
  BY <1>3, <1>7, <1>8
<1>10. CASE e = d
  <2>1. e \in Nat \ {0} /\ j <= e /\ e - 1 \in j .. d - 1
    BY <1>2, <1>4, <1>10
  <2>2. Depth(ts, j, e - 1) >= 1
    BY <1>3, <2>1
  <2>3. /\ Depth(ts, j, e) = Depth(ts, j, e - 1) + Change(ts[e])
        /\ Depth(ts, j, e - 1) \in Int /\ Change(ts[e]) \in {-1, 0, 1}
    BY <1>4, <2>1, DepthOf
  <2> QED
    BY <1>7, <1>8, <2>2, <2>3
<1>11. CASE e > d
  BY <1>11 DEF e, d
<1> QED
  BY <1>2, <1>3, <1>4, <1>9, <1>10, <1>11

(* Where the loop is: inside the element, one token further at least with  *)
(* every turn, or at its end.                                              *)
Inside(ts, i, n, s) == s.ends \/ s.at \in i + 1 + n .. EndOf(ts, i)

LEMMA TurnInside ==
  ASSUME NEW ts \in Seq([token : {"start", "end"}, name : STRING \X STRING, text : STRING]),
         Balanced(ts), NEW i \in 1 .. Len(ts), ts[i].token = "start",
         NEW kind, NEW inner, NEW n \in Nat, NEW s, Inside(ts, i, n, s), s.ends \in BOOLEAN
  PROVE  /\ Inside(ts, i, n + 1, Turn(ts, i, kind, inner, s))
         /\ Turn(ts, i, kind, inner, s).ends \in BOOLEAN
<1> DEFINE j == s.at
           e == EndOf(ts, i)
           d == EndOf(ts, j)
           child == Child(kind, ts[j].name)
           value == inner[j][child.as]
           t == Turn(ts, i, kind, inner, s)
<1>1. \A at, fs : Going(at, fs).ends = FALSE /\ Going(at, fs).at = at
  BY DEF Going
<1>2. \A r : Ending(r).ends = TRUE
  BY DEF Ending
<1>3. Len(ts) \in Nat
  OBVIOUS
<1>4. e \in i + 1 .. Len(ts) /\ ts[e].token = "end" /\ ts[e].name = ts[i].name
  BY <1>3, EndIs
<1>0. \A k \in 1 .. Len(ts) : ts[k].token \in {"start", "end"}
  <2> DEFINE T == [token : {"start", "end"}, name : STRING \X STRING, text : STRING]
  <2>1. \A x \in T : x.token \in {"start", "end"}
    OBVIOUS
  <2> HIDE DEF T
  <2>2. ts \in Seq(T)
    BY DEF T
  <2>3. \A k \in 1 .. Len(ts) : ts[k] \in T
    BY <2>2
  <2> QED
    BY <2>1, <2>3
<1>5. CASE s.ends
  <2>1. t = s
    BY <1>5 DEF Turn
  <2> QED
    BY <1>5, <2>1 DEF Inside
<1>6. CASE ~s.ends
  <2>1. j \in i + 1 + n .. e
    BY <1>6 DEF Inside
  <2>2. j \in 1 .. Len(ts) /\ j \in i + 1 .. e
    BY <1>3, <1>4, <2>1
  <2>3. ts[j].token \in {"start", "end"}
    BY <1>0, <2>2
  <2>4. CASE Stops(ts, i, j)
    <3>1. \E r : t = Ending(r)
      BY <1>6, <2>4 DEF Turn
    <3> HIDE DEF t
    <3> QED
      BY <1>2, <3>1 DEF Inside, t
  <2>5. CASE ~Stops(ts, i, j)
    <3>1. j # e
      BY <1>4, <2>5 DEF Stops
    <3>2. ts[j].token = "start" => d \in j + 1 .. e - 1
      <4> SUFFICES ASSUME ts[j].token = "start" PROVE d \in j + 1 .. e - 1
        OBVIOUS
      <4>1. d < e
        BY <1>3, <2>2, InsideEndsBefore
      <4>2. d \in j + 1 .. Len(ts)
        BY <1>3, <2>2, EndIs
      <4> HIDE DEF d, e, j
      <4> QED
        BY <1>3, <1>4, <4>1, <4>2
    <3>3. \/ \E r : t = Ending(r)
          \/ \E fs : t = Going(j + 1, fs)
          \/ ts[j].token = "start" /\ \E fs : t = Going(d + 1, fs)
      <4>1. t = IF ts[j].token = "end" THEN Going(j + 1, s.fields)
                ELSE IF child.does = "ignore"
                THEN Going(IF kind \in ReadsThrough THEN j + 1 ELSE d + 1, s.fields)
                ELSE IF child.does = "fail" \/ ~value.ok THEN Ending(Failed)
                ELSE Going(d + 1, Assign(s.fields, child, value.value))
        BY <1>6, <2>5 DEF Turn
      <4> HIDE DEF t, d, j, child, value
      <4> QED
        BY <2>3, <4>1
    <3> HIDE DEF t, d, j, e
    <3>4. CASE \E r : t = Ending(r)
      BY <1>2, <3>4 DEF Inside, t
    <3>5. CASE \E fs : t = Going(j + 1, fs)
      <4>1. t.ends = FALSE /\ t.at = j + 1
        BY <1>1, <3>5
      <4>2. j + 1 \in i + 1 + (n + 1) .. e
        BY <1>3, <1>4, <2>1, <3>1
      <4> QED
        BY <4>1, <4>2 DEF Inside, t, e
    <3>6. CASE ts[j].token = "start" /\ \E fs : t = Going(d + 1, fs)
      <4>1. t.ends = FALSE /\ t.at = d + 1
        BY <1>1, <3>6
      <4>2. d + 1 \in i + 1 + (n + 1) .. e
        BY <1>3, <1>4, <2>1, <3>2, <3>6
      <4> QED
        BY <4>1, <4>2 DEF Inside, t, e
    <3> QED
      BY <3>3, <3>4, <3>5, <3>6
  <2> QED
    BY <2>4, <2>5
<1> QED
  BY <1>5, <1>6

GoodTokens(ts) ==
  /\ ts \in Seq([token : {"start", "end"}, name : STRING \X STRING, text : STRING])
  /\ Balanced(ts)

LEMMA LoopInside ==
  ASSUME NEW ts, GoodTokens(ts), NEW i \in 1 .. Len(ts), ts[i].token = "start", NEW kind, NEW inner
  PROVE  LET turns == Turns(ts, i, kind, inner) IN
         /\ \A n \in 0 .. Len(ts) : turns[n].ends \/ turns[n].at \in i + 1 .. EndOf(ts, i)
         /\ turns[Len(ts)].ends
<1> DEFINE f == Turns(ts, i, kind, inner)
<1>1. /\ ts \in Seq([token : {"start", "end"}, name : STRING \X STRING, text : STRING])
      /\ Balanced(ts)
  BY DEF GoodTokens
<1>2. i \in 1 .. Len(ts) /\ ts[i].token = "start"
  OBVIOUS
<1>3. Len(ts) \in Nat
  BY <1>1
<1>4. \A n \in 0 .. Len(ts) :
        f[n] = IF n = 0 THEN Going(i + 1, <<>>) ELSE Turn(ts, i, kind, inner, f[n - 1])
  BY <1>3, TurnsAre
<1>5. EndOf(ts, i) \in i + 1 .. Len(ts)
  BY <1>1, <1>2, <1>3, EndIs
<1> HIDE DEF f
<1> DEFINE S == {n \in Nat : n <= Len(ts) => Inside(ts, i, n, f[n]) /\ f[n].ends \in BOOLEAN}
<1>6. 0 \in S
  <2>1. f[0] = Going(i + 1, <<>>)
    BY <1>3, <1>4
  <2>2. f[0].ends = FALSE /\ f[0].at = i + 1
    BY <2>1 DEF Going
  <2>3. i + 1 \in i + 1 + 0 .. EndOf(ts, i)
    BY <1>2, <1>3, <1>5
  <2> QED
    BY <2>2, <2>3 DEF Inside
<1>7. ASSUME NEW n \in Nat, n \in S PROVE n + 1 \in S
  <2> SUFFICES ASSUME n + 1 <= Len(ts)
               PROVE  Inside(ts, i, n + 1, f[n + 1]) /\ f[n + 1].ends \in BOOLEAN
    OBVIOUS
  <2>1. n + 1 \in 0 .. Len(ts) /\ n + 1 # 0 /\ (n + 1) - 1 = n /\ n <= Len(ts)
    BY <1>3
  <2>2. f[n + 1] = Turn(ts, i, kind, inner, f[n])
    BY <1>4, <2>1
  <2>3. Inside(ts, i, n, f[n]) /\ f[n].ends \in BOOLEAN
    BY <1>7, <2>1
  <2>4. Inside(ts, i, n + 1, Turn(ts, i, kind, inner, f[n]))
        /\ Turn(ts, i, kind, inner, f[n]).ends \in BOOLEAN
    BY <1>1, <1>2, <2>3, TurnInside
  <2> QED
    BY <2>2, <2>4
<1> HIDE DEF S
<1>8. \A n \in Nat : n \in S
  BY <1>6, <1>7, NatSet
<1>9. \A n \in 0 .. Len(ts) : f[n].ends \/ f[n].at \in i + 1 + n .. EndOf(ts, i)
  BY <1>3, <1>8 DEF S, Inside
<1>10. \A n \in 0 .. Len(ts) : f[n].ends \/ f[n].at \in i + 1 .. EndOf(ts, i)
  <2> SUFFICES ASSUME NEW n \in 0 .. Len(ts), ~f[n].ends PROVE f[n].at \in i + 1 .. EndOf(ts, i)
    OBVIOUS
  <2>1. f[n].at \in i + 1 + n .. EndOf(ts, i)
    BY <1>9
  <2>2. n \in Nat /\ i \in Nat /\ EndOf(ts, i) \in Nat
    BY <1>2, <1>3, <1>5
  <2> QED
    BY <2>1, <2>2
<1>11. f[Len(ts)].ends
  <2> SUFFICES ASSUME f[Len(ts)].at \in i + 1 + Len(ts) .. EndOf(ts, i) PROVE FALSE
    BY <1>3, <1>9
  <2> QED
    BY <1>2, <1>3, <1>5
<1> QED
  BY <1>10, <1>11 DEF f

(* No decoder reads a token of what follows its element, nor waits for     *)
(* one: whatever the element holds, whatever is registered and whatever    *)
(* the elements inside decode to, the loop stays before the end of the     *)
(* element and ends there at the latest (the UnmarshalXML methods).        *)
THEOREM DecodersStayInside ==
  ASSUME NEW e \in Openings \cup Elements, NEW i \in 1 .. Len(Tokens(e)),
         Tokens(e)[i].token = "start", NEW kind, NEW inner
  PROVE  LET ts == Tokens(e)
             turns == Turns(ts, i, kind, inner)
         IN /\ \A n \in 0 .. Len(ts) : turns[n].ends \/ turns[n].at \in i + 1 .. EndOf(ts, i)
            /\ turns[Len(ts)].ends
<1>1. GoodTokens(Tokens(e))
  BY DecodingAssumption DEF GoodTokens
<1> QED
  BY <1>1, LoopInside

-----------------------------------------------------------------------------
(* Elements inside elements.                                               *)

LEMMA ChildKinds ==
  ASSUME RegistryTypeOK
  PROVE  \A kind, name : Child(kind, name).as \in Kinds
<1> SUFFICES ASSUME NEW kind, NEW name PROVE Child(kind, name).as \in Kinds
  OBVIOUS
<1>1. ASSUME NEW f, NEW as PROVE Into(f, as).as = as /\ Adds(f, as).as = as
  <2>1. Into(f, as).as = as
    BY DEF Into
  <2>2. Adds(f, as).as = Into(f, as).as
    BY DEF Adds, Into
  <2> QED
    BY <2>1, <2>2
<1>2. Ignored.as \in Kinds /\ Refused.as \in Kinds
  BY DEF Ignored, Refused, Kinds
<1>3. ASSUME NEW packet, Extension(packet, name) # NoType PROVE Extension(packet, name) \in Kinds
  <2> DEFINE k == <<packet, name[1]>>
             n == name[2]
  <2>1. Extension(packet, name) = Lookup(k, n)
    BY DEF Extension
  <2> HIDE DEF k, n
  <2>2. ASSUME k \in Keys, msgTypes[k] # NoMap
        PROVE  maps[msgTypes[k]][k] \in [Locals -> Extensions \cup {NoType}]
    BY <2>2 DEF RegistryTypeOK
  <2>3. Lookup(k, n) \in Extensions \cup {NoType}
    BY <2>2, RegistryAssumption DEF Lookup
  <2> QED
    BY <1>3, <2>1, <2>3 DEF Kinds
<1>4. /\ \A f, as : as \in Kinds => Into(f, as).as \in Kinds /\ Adds(f, as).as \in Kinds
      /\ Ignored.as \in Kinds /\ Refused.as \in Kinds
  BY <1>1, <1>2
<1>5. {"", "text", "int8", "err", "node", "condition", "struct", "withForm", "publishOptions",
       "form", "forwarded", "starttls", "message", "presence", "iq"} \subseteq Kinds
  BY DEF Kinds
<1>6. MessageChild(name).as \in Kinds
  BY <1>3, <1>4, <1>5 DEF MessageChild
<1>7. PresenceChild(name).as \in Kinds
  BY <1>3, <1>4, <1>5 DEF PresenceChild
<1>8. IQChild(name).as \in Kinds
  BY <1>3, <1>4, <1>5 DEF IQChild
<1>9. ErrChild(name).as \in Kinds
  BY <1>4, <1>5 DEF ErrChild
<1>10. SMFailedChild(name).as \in Kinds
  BY <1>4, <1>5 DEF SMFailedChild
<1>11. OwnerChild(name).as \in Kinds
  BY <1>4, <1>5 DEF OwnerChild
<1>12. GenericChild(name).as \in Kinds
  BY <1>4, <1>5 DEF GenericChild
<1>13. FormHolderChild(name).as \in Kinds
  BY <1>4, <1>5 DEF FormHolderChild
<1>14. PublishOptionsChild(name).as \in Kinds
  BY <1>4, <1>5 DEF PublishOptionsChild
<1>15. FormChild(name).as \in Kinds
  BY <1>4, <1>5 DEF FormChild
<1>16. EventChild(name).as \in Kinds
  BY <1>4, <1>5 DEF EventChild
<1>17. CommandChild(name).as \in Kinds
  BY <1>4, <1>5 DEF CommandChild
<1>18. ForwardedChild(name).as \in Kinds
  BY <1>4, <1>5 DEF ForwardedChild
<1>19. StartTLSChild(name).as \in Kinds
  BY <1>4, <1>5 DEF StartTLSChild
<1>20. FeaturesChild(name).as \in Kinds
  BY <1>4, <1>5 DEF FeaturesChild
<1>21. StreamErrorChild(name).as \in Kinds
  BY <1>4, <1>5 DEF StreamErrorChild
<1>22. DelegationChild(name).as \in Kinds
  BY <1>4, <1>5 DEF DelegationChild
<1> QED
  BY <1>4, <1>5, <1>6, <1>7, <1>8, <1>9, <1>10, <1>11, <1>12, <1>13,
     <1>14, <1>15, <1>16, <1>17, <1>18, <1>19, <1>20, <1>21, <1>22 DEF Child

(* The inner decoders matter only where a turn reads a start token.        *)
LEMMA TurnAgrees ==
  ASSUME NEW ts, NEW i, NEW kind, NEW a, NEW b, NEW s,
         s.ends \/ ts[s.at].token = "end"
           \/ a[s.at][Child(kind, ts[s.at].name).as] = b[s.at][Child(kind, ts[s.at].name).as]
  PROVE  Turn(ts, i, kind, a, s) = Turn(ts, i, kind, b, s)
<1>1. CASE s.ends
  BY <1>1 DEF Turn
<1>2. CASE ts[s.at].token = "end"
  BY <1>2 DEF Turn
<1>3. CASE a[s.at][Child(kind, ts[s.at].name).as] = b[s.at][Child(kind, ts[s.at].name).as]
  BY <1>3, Zenon DEF Turn
<1> QED
  BY <1>1, <1>2, <1>3

(* Two tables of what the elements inside decode to.                       *)
Agree(ts, i, a, b) ==
  \A k \in i + 1 .. Len(ts) : ts[k].token = "start" => \A as \in Kinds : a[k][as] = b[k][as]

LEMMA DecodesAgree ==
  ASSUME RegistryTypeOK, NEW ts, GoodTokens(ts), NEW i \in 1 .. Len(ts), ts[i].token = "start",
         NEW kind, NEW a, NEW b, Agree(ts, i, a, b)
  PROVE  DecodeWith(ts, i, kind, a) = DecodeWith(ts, i, kind, b)
<1> DEFINE f == Turns(ts, i, kind, a)
           g == Turns(ts, i, kind, b)
<1>1. /\ Len(ts) \in Nat /\ EndOf(ts, i) \in i + 1 .. Len(ts)
      /\ \A k \in 1 .. Len(ts) : ts[k].token \in {"start", "end"}
  <2> DEFINE T == [token : {"start", "end"}, name : STRING \X STRING, text : STRING]
  <2>1. \A x \in T : x.token \in {"start", "end"}
    OBVIOUS
  <2> HIDE DEF T
  <2>2. ts \in Seq(T) /\ Balanced(ts)
    BY DEF GoodTokens, T
  <2>3. Len(ts) \in Nat /\ \A k \in 1 .. Len(ts) : ts[k] \in T
    BY <2>2
  <2>4. EndOf(ts, i) \in i + 1 .. Len(ts)
    BY <2>2, <2>3, EndIs
  <2> QED
    BY <2>1, <2>3, <2>4
<1>2. \A n \in 0 .. Len(ts) :
        f[n] = IF n = 0 THEN Going(i + 1, <<>>) ELSE Turn(ts, i, kind, a, f[n - 1])
  BY <1>1, TurnsAre
<1>3. \A n \in 0 .. Len(ts) :
        g[n] = IF n = 0 THEN Going(i + 1, <<>>) ELSE Turn(ts, i, kind, b, g[n - 1])
  BY <1>1, TurnsAre
<1>4. \A n \in 0 .. Len(ts) : f[n].ends \/ f[n].at \in i + 1 .. EndOf(ts, i)
  BY LoopInside
<1>5. Scan(ts, i, kind, a) = f[Len(ts)].result /\ Scan(ts, i, kind, b) = g[Len(ts)].result
  BY DEF Scan
<1> HIDE DEF f, g
<1> DEFINE S == {n \in Nat : n <= Len(ts) => f[n] = g[n]}
<1>6. 0 \in S
  <2>1. f[0] = g[0]
    BY <1>1, <1>2, <1>3
  <2> QED
    BY <2>1
<1>7. ASSUME NEW n \in Nat, n \in S PROVE n + 1 \in S
  <2> SUFFICES ASSUME n + 1 <= Len(ts) PROVE f[n + 1] = g[n + 1]
    OBVIOUS
  <2>1. /\ n + 1 \in 0 .. Len(ts) /\ n + 1 # 0 /\ (n + 1) - 1 = n
        /\ n \in 0 .. Len(ts) /\ n <= Len(ts)
    BY <1>1
  <2> DEFINE s == f[n]
  <2>2. f[n + 1] = Turn(ts, i, kind, a, s) /\ g[n + 1] = Turn(ts, i, kind, b, s)
    BY <1>2, <1>3, <1>7, <2>1
  <2>3. s.ends \/ s.at \in i + 1 .. EndOf(ts, i)
    BY <1>4, <2>1
  <2> HIDE DEF s
  <2>4. CASE s.ends
    BY <2>2, <2>4, TurnAgrees
  <2>5. CASE s.at \in i + 1 .. EndOf(ts, i)
    <3>1. s.at \in 1 .. Len(ts) /\ s.at \in i + 1 .. Len(ts)
      BY <1>1, <2>5
    <3>2. CASE ts[s.at].token = "end"
      BY <2>2, <3>2, TurnAgrees
    <3>3. CASE ts[s.at].token = "start"
      <4>1. Child(kind, ts[s.at].name).as \in Kinds
        BY ChildKinds
      <4>2. a[s.at][Child(kind, ts[s.at].name).as] = b[s.at][Child(kind, ts[s.at].name).as]
        BY <3>1, <3>3, <4>1 DEF Agree
      <4> QED
        BY <2>2, <4>2, TurnAgrees
    <3> QED
      BY <1>1, <3>1, <3>2, <3>3
  <2> QED
    BY <2>3, <2>4, <2>5
<1> HIDE DEF S
<1>8. \A n \in Nat : n \in S
  BY <1>6, <1>7, NatSet
<1>9. f[Len(ts)] = g[Len(ts)]
  BY <1>1, <1>8 DEF S
<1> QED
  BY <1>5, <1>9 DEF DecodeWith

(* What all the elements decode to, after each of the first m rounds.      *)
DecodedSoFar(ts, m, f) ==
  f = [n \in 0 .. m |-> IF n = 0 THEN <<>> ELSE Decoded(ts, f[n - 1])]

LEMMA DecodeIs ==
  ASSUME NEW ts, NEW i, NEW kind
  PROVE  Decode(ts, i, kind)
           = DecodeWith(ts, i, kind, (CHOOSE f : DecodedSoFar(ts, Len(ts), f))[Len(ts)])
BY DEF Decode, DecodedSoFar

LEMMA DecodedExists ==
  ASSUME NEW ts
  PROVE  \A m \in Nat : \E f : DecodedSoFar(ts, m, f)
<1> DEFINE S == {m \in Nat : \E f : DecodedSoFar(ts, m, f)}
<1>1. 0 \in S
  <2> DEFINE f == [n \in 0 .. 0 |-> <<>>]
  <2>1. DecodedSoFar(ts, 0, f)
    BY DEF DecodedSoFar
  <2> QED
    BY <2>1
<1>2. ASSUME NEW m \in Nat, m \in S PROVE m + 1 \in S
  <2>1. PICK f : DecodedSoFar(ts, m, f)
    BY <1>2
  <2> DEFINE g == [n \in 0 .. m + 1 |-> IF n <= m THEN f[n] ELSE Decoded(ts, f[m])]
  <2>2. ASSUME NEW n \in 0 .. m + 1
        PROVE  g[n] = IF n = 0 THEN <<>> ELSE Decoded(ts, g[n - 1])
    <3>1. CASE n <= m
      <4>1. g[n] = f[n] /\ (n # 0 => g[n - 1] = f[n - 1]) /\ n \in 0 .. m
        BY <3>1
      <4>2. f[n] = IF n = 0 THEN <<>> ELSE Decoded(ts, f[n - 1])
        BY <2>1, <4>1 DEF DecodedSoFar
      <4> QED
        BY <4>1, <4>2
    <3>2. CASE n = m + 1
      <4>1. g[n] = Decoded(ts, f[m]) /\ g[n - 1] = f[m] /\ n # 0
        BY <3>2
      <4> QED
        BY <4>1
    <3> QED
      BY <3>1, <3>2
  <2>3. g = [n \in 0 .. m + 1 |-> g[n]]
    OBVIOUS
  <2> HIDE DEF g
  <2>4. DecodedSoFar(ts, m + 1, g)
    BY <2>2, <2>3 DEF DecodedSoFar
  <2> QED
    BY <2>4
<1> HIDE DEF S
<1>3. \A m \in Nat : m \in S
  BY <1>1, <1>2, NatSet
<1> QED
  BY <1>3 DEF S

(* As many rounds as there are tokens after an element are enough for it.  *)
LEMMA EnoughRounds ==
  ASSUME RegistryTypeOK, NEW ts, GoodTokens(ts), Len(ts) \in Nat,
         NEW D, DecodedSoFar(ts, Len(ts), D)
  PROVE  \A k \in 1 .. Len(ts) : ts[k].token = "start" =>
           \A as, n, m : n \in Len(ts) - k .. Len(ts) /\ m \in Len(ts) - k .. Len(ts) =>
             DecodeWith(ts, k, as, D[n]) = DecodeWith(ts, k, as, D[m])
<1> DEFINE L == Len(ts)
           Enough(k) == \A as, n, m : n \in L - k .. L /\ m \in L - k .. L =>
                          DecodeWith(ts, k, as, D[n]) = DecodeWith(ts, k, as, D[m])
           S == {r \in Nat : \A k \in 1 .. L : ts[k].token = "start" /\ L - k < r => Enough(k)}
<1>1. \A n \in 0 .. L : D[n] = IF n = 0 THEN <<>> ELSE Decoded(ts, D[n - 1])
  BY DEF DecodedSoFar
<1>2. L \in Nat
  OBVIOUS
<1>3. ASSUME NEW n \in 1 .. L, NEW l \in 1 .. L, NEW as \in Kinds
      PROVE  D[n][l][as] = DecodeWith(ts, l, as, D[n - 1])
  <2>1. D[n] = Decoded(ts, D[n - 1])
    BY <1>1, <1>2
  <2> QED
    BY <2>1 DEF Decoded
<1>4. 0 \in S
  BY <1>2
<1>5. ASSUME NEW r \in Nat, r \in S PROVE r + 1 \in S
  <2> SUFFICES ASSUME NEW k \in 1 .. L, ts[k].token = "start", L - k < r + 1 PROVE Enough(k)
    OBVIOUS
  <2> SUFFICES ASSUME NEW as, NEW n \in L - k .. L, NEW m \in L - k .. L
               PROVE  DecodeWith(ts, k, as, D[n]) = DecodeWith(ts, k, as, D[m])
    OBVIOUS
  <2>1. ASSUME NEW l \in k + 1 .. L, ts[l].token = "start", NEW al \in Kinds
        PROVE  D[n][l][al] = D[m][l][al]
    <3>1. /\ l \in 1 .. L /\ n \in 1 .. L /\ m \in 1 .. L /\ L - l < r
          /\ n - 1 \in L - l .. L /\ m - 1 \in L - l .. L
      BY <1>2
    <3>2. Enough(l)
      BY <1>5, <2>1, <3>1
    <3>3. DecodeWith(ts, l, al, D[n - 1]) = DecodeWith(ts, l, al, D[m - 1])
      BY <3>1, <3>2
    <3> QED
      BY <1>3, <3>1, <3>3
  <2>2. Agree(ts, k, D[n], D[m])
    BY <2>1 DEF Agree
  <2> QED
    BY <2>2, DecodesAgree
<1> HIDE DEF S
<1>6. \A r \in Nat : r \in S
  BY <1>4, <1>5, NatSet
<1>7. L + 1 \in S
  BY <1>2, <1>6
<1>8. \A k \in 1 .. L : L - k < L + 1
  BY <1>2
<1> QED
  BY <1>7, <1>8 DEF S

(* An element means what the elements inside it mean: decoding it is the   *)
(* loop of its own decoder with each child decoded on its own, whatever    *)
(* types are registered, and nothing is nested too deep for Decode.        *)
ElementsDecodeByParts ==
  \A e \in Openings \cup Elements :
    LET ts == Tokens(e) IN
    \A i \in 1 .. Len(ts) : ts[i].token = "start" =>
      \A kind :
        Decode(ts, i, kind) =
          DecodeWith(ts, i, kind,
                     [j \in 1 .. Len(ts) |-> [as \in Kinds |-> Decode(ts, j, as)]])

(* The decoders of nested elements, DecodeElement in UnmarshalXML, at any  *)
(* depth, for any registrations made while packets are read.               *)
THEOREM DecodingIsCompositional == Spec => []ElementsDecodeByParts
<1>1. RegistryTypeOK => ElementsDecodeByParts
  <2> SUFFICES ASSUME RegistryTypeOK, NEW e \in Openings \cup Elements,
                      NEW i \in 1 .. Len(Tokens(e)), Tokens(e)[i].token = "start", NEW kind
               PROVE  Decode(Tokens(e), i, kind) =
                        DecodeWith(Tokens(e), i, kind,
                          [j \in 1 .. Len(Tokens(e)) |->
                             [as \in Kinds |-> Decode(Tokens(e), j, as)]])
    BY DEF ElementsDecodeByParts
  <2> DEFINE ts == Tokens(e)
             L == Len(ts)
             D == CHOOSE f : DecodedSoFar(ts, Len(ts), f)
             b == [j \in 1 .. Len(ts) |-> [as \in Kinds |-> Decode(ts, j, as)]]
  <2>1. GoodTokens(ts) /\ L \in Nat
    BY DecodingAssumption, TokensHaveLength DEF GoodTokens
  <2>2. DecodedSoFar(ts, L, D)
    BY <2>1, DecodedExists
  <2>3. \A j, as : Decode(ts, j, as) = DecodeWith(ts, j, as, D[L])
    BY DecodeIs
  <2>4. i \in 1 .. L /\ ts[i].token = "start"
    OBVIOUS
  <2>5. \A j \in 1 .. L : \A as \in Kinds : b[j][as] = Decode(ts, j, as)
    OBVIOUS
  <2> HIDE DEF ts, D, b
  <2>6. ASSUME NEW k \in i + 1 .. L, ts[k].token = "start", NEW as \in Kinds
        PROVE  D[L][k][as] = b[k][as]
    <3>1. /\ k \in 1 .. L /\ L # 0 /\ L \in 0 .. L
          /\ L - 1 \in L - k .. L /\ L \in L - k .. L
      BY <2>1, <2>4
    <3>2. D[L] = Decoded(ts, D[L - 1])
      BY <2>2, <3>1 DEF DecodedSoFar
    <3>3. D[L][k][as] = DecodeWith(ts, k, as, D[L - 1])
      BY <3>1, <3>2 DEF Decoded
    <3>4. \A x \in 1 .. L : ts[x].token = "start" =>
            \A al, n, m : n \in L - x .. L /\ m \in L - x .. L =>
              DecodeWith(ts, x, al, D[n]) = DecodeWith(ts, x, al, D[m])
      BY <2>1, <2>2, EnoughRounds
    <3>5. DecodeWith(ts, k, as, D[L - 1]) = DecodeWith(ts, k, as, D[L])
      BY <2>6, <3>1, <3>4
    <3> QED
      BY <2>3, <2>5, <3>1, <3>3, <3>5
  <2>7. Agree(ts, i, D[L], b)
    BY <2>6 DEF Agree
  <2>8. DecodeWith(ts, i, kind, D[L]) = DecodeWith(ts, i, kind, b)
    BY <2>1, <2>4, <2>7, DecodesAgree
  <2>9. Decode(ts, i, kind) = DecodeWith(ts, i, kind, b)
    BY <2>3, <2>8
  <2> QED
    BY <2>9 DEF ts, b
<1> QED
  BY <1>1, ReadsTheRegistry, TypeInvariant, PTL

=============================================================================
