------------------------- MODULE OidResolutionProofs --------------------------
(***************************************************************************)
(* For every list of modules, whatever they import: the paths that         *)
(* resolve_oids gives are paths of parents (Grounded), what it leaves has  *)
(* no parent with a path (NothingMissed), and calling it again changes     *)
(* nothing (Idempotent).                                                   *)
(*                                                                         *)
(* The invariant says that the tables built so far are those of Exports    *)
(* (Tables, Own), that every object of the module under way either waits   *)
(* for this pass or the next one, or is done (AllHandled), and that        *)
(* without progress what waits for the next pass is stuck (Stuck).         *)
(***************************************************************************)
EXTENDS OidResolution, SequenceTheorems, TLAPS

InModule == mod \in Modules

\* Indices of the objects of the module that have no path yet.
Waiting ==
    {pending[j] : j \in next .. Len(pending)}
    \cup {next_pending[j] : j \in 1 .. Len(next_pending)}

Handled(i) ==
    /\ objs[mod][i].oid_parent = None
    /\ module_paths[objs[mod][i].name] # None

Tables ==
    \A k \in Modules, s \in Symbols :
        /\ closure_paths[k][s] # None =>
              k < mod /\ closure_paths[k][s] \in Exports(k, s)
        /\ k < mod /\ Exports(k, s) # {} => closure_paths[k][s] # None

Own ==
    InModule => \A s \in Symbols :
        module_paths[s] # None => module_paths[s] \in Exports(mod, s)

AllHandled ==
    IF InModule
    THEN /\ \A j \in 1 .. Len(pending) : pending[j] \in 1 .. Len(objs[mod])
         /\ \A j \in 1 .. Len(next_pending) : next_pending[j] \in 1 .. Len(objs[mod])
         /\ \A i \in 1 .. Len(objs[mod]) : i \in Waiting \/ Handled(i)
    ELSE pending = <<>> /\ next_pending = <<>>

Unresolvable ==
    {o \in Objects : PathOf(o, mod, module_paths, closure_paths) = None}

Stuck ==
    InModule /\ ~progressed =>
        \A j \in 1 .. Len(next_pending) : objs[mod][next_pending[j]] \in Unresolvable

Untouched ==
    /\ round # 0
    /\ \A m \in Modules : Len(objs[m]) = Len(given[m])
    /\ round = 1 => \A m \in Modules : m > mod => objs[m] = given[m]

\* What Grounded says of one object.
GroundedAt(m, i) ==
    LET old == given[m][i]
        new == objs[m][i]
    IN  \/ new = old
        \/ /\ new.name = old.name
           /\ new.oid_parent = None
           /\ old.oid_parent # None
           /\ new.oid_path \in
                Under(Exports(m, old.oid_parent) \cup Foreign(m, old.oid_parent),
                      old.oid_path)

OidInv ==
    /\ Grounded /\ NothingMissed
    /\ Tables /\ Own /\ AllHandled /\ Stuck /\ Untouched
-----------------------------------------------------------------------------
(* Facts about the operators                                               *)
LEMMA ObjectFields ==
    ASSUME NEW o \in Objects
    PROVE  /\ o.name \in Symbols /\ o.oid_parent \in Symbols \cup {None}
           /\ o.oid_path \in Paths
BY DEF Objects

LEMMA ObjectAt ==
    ASSUME TypeOK, NEW m \in Modules, NEW i \in 1 .. Len(objs[m])
    PROVE  objs[m][i] \in Objects
BY ElementOfSeq DEF TypeOK

\* A symbol's path is one of its exports.
LEMMA InExports ==
    ASSUME NEW m \in Modules, NEW i \in 1 .. Len(objs[m]), Done(objs[m][i])
    PROVE  objs[m][i].oid_path \in Exports(m, objs[m][i].name)
BY DEF Exports

LEMMA ExportsArePaths ==
    ASSUME TypeOK, NEW m \in Modules, NEW s \in Symbols, NEW p \in Exports(m, s)
    PROVE  p \in Paths /\ p # <<>> /\ p # None
<1>1. PICK i \in 1 .. Len(objs[m]) : Done(objs[m][i]) /\ p = objs[m][i].oid_path
  BY DEF Exports
<1>2. p \in Paths
  BY <1>1, ObjectAt, ObjectFields
<1> QED
  BY <1>1, <1>2, InputsAreTyped DEF Done

LEMMA ProviderTyped ==
    ASSUME TypeOK, NEW m \in Modules, NEW s \in Symbols, imports[m][s] # None
    PROVE  Provider(m, s) \in Modules
<1>1. imports[m][s] \in Modules \cup Requested
  BY InputsAreTyped DEF TypeOK
<1> QED
  BY <1>1, InputsAreTyped DEF Provider

\* Under Tables, the candidates are the exporters.
LEMMA CandidatesExport ==
    ASSUME TypeOK, Tables, InModule, NEW s \in Symbols
    PROVE  Candidates(s, closure_paths) = Exporters(mod, s)
<1>1. mod \in Modules /\ N \in Nat
  BY InputsAreTyped DEF InModule
<1>2. ASSUME NEW k \in Modules
      PROVE  closure_paths[k][s] # None <=> k < mod /\ Exports(k, s) # {}
  BY <1>1 DEF Tables
<1>3. \A k \in Modules : k < mod <=> k \in 1 .. (mod - 1)
  BY <1>1 DEF Modules
<1>4. 1 .. (mod - 1) \subseteq Modules
  BY <1>1 DEF Modules
<1> QED
  BY <1>2, <1>3, <1>4 DEF Candidates, Exporters

\* Lookup gives a path the symbol may have, and none only if there is none.
LEMMA LookupIsExact ==
    ASSUME TypeOK, Tables, Own, InModule, NEW s \in Symbols
    PROVE  LET p == Lookup(s, mod, module_paths, closure_paths) IN
           /\ p # None => p \in Exports(mod, s) \cup Foreign(mod, s)
           /\ p = None => module_paths[s] = None /\ Foreign(mod, s) = {}
<1> DEFINE p == Lookup(s, mod, module_paths, closure_paths)
<1>m. mod \in Modules
  BY DEF InModule
<1>1. CASE module_paths[s] # None
  BY <1>1, <1>m DEF Own, Lookup
<1>2. CASE module_paths[s] = None
  <2>1. imports[mod][s] # None => Provider(mod, s) \in Modules
    BY <1>m, ProviderTyped
  <2>2. \A k \in Modules : closure_paths[k][s] # None <=> k \in Exporters(mod, s)
    BY CandidatesExport DEF Candidates
  <2>3. Exporters(mod, s) \subseteq Modules
    BY CandidatesExport DEF Candidates
  <2>4. \A k \in Exporters(mod, s) :
           closure_paths[k][s] \in Exports(k, s) /\ Exports(k, s) # {}
    BY <2>2, <2>3 DEF Tables
  <2>5. CASE Imported(mod, s)
    <3>1. imports[mod][s] # None /\ Provider(mod, s) \in Exporters(mod, s)
      BY <2>5 DEF Imported
    <3>2. p = closure_paths[Provider(mod, s)][s]
      BY <1>2, <2>2, <2>3, <3>1 DEF Lookup
    <3>3. Foreign(mod, s) = Exports(Provider(mod, s), s)
      BY <2>5 DEF Foreign
    <3> QED
      BY <3>1, <3>2, <3>3, <2>2, <2>3, <2>4
  <2>6. CASE ~Imported(mod, s) /\ WellKnown[s] # None
    <3>1. p = WellKnown[s]
      BY <1>2, <2>1, <2>2, <2>6 DEF Lookup, Imported
    <3>2. Foreign(mod, s) = {WellKnown[s]}
      BY <2>6 DEF Foreign
    <3> QED
      BY <3>1, <3>2, <2>6
  <2>7. CASE ~Imported(mod, s) /\ WellKnown[s] = None
    <3>1. CASE \E k \in Modules : Exporters(mod, s) = {k}
      <4>1. PICK k \in Modules : Exporters(mod, s) = {k}
        BY <3>1
      <4>2. p = closure_paths[k][s]
        <5>1. Candidates(s, closure_paths) = {k}
          BY <4>1, CandidatesExport
        <5> QED
          BY <1>2, <2>1, <2>2, <2>7, <5>1 DEF Lookup, Imported
      <4>3. Foreign(mod, s) = Exports(k, s)
        BY <4>1, <2>7, <3>1 DEF Foreign
      <4> QED
        BY <4>1, <4>2, <4>3, <2>2, <2>4
    <3>2. CASE ~ \E k \in Modules : Exporters(mod, s) = {k}
      <4>1. p = None
        <5>1. ~ \E k \in Candidates(s, closure_paths) : Candidates(s, closure_paths) = {k}
          BY <3>2, <2>3, CandidatesExport
        <5> QED
          BY <1>2, <2>1, <2>2, <2>7, <5>1 DEF Lookup, Imported
      <4>2. Foreign(mod, s) = {}
        BY <2>7, <3>2 DEF Foreign
      <4> QED
        BY <4>1, <4>2, <1>2
    <3> QED
      BY <3>1, <3>2
  <2> QED
    BY <2>5, <2>6, <2>7
<1> QED
  BY <1>1, <1>2

LEMMA LookupTyped ==
    ASSUME TypeOK, Tables, Own, InModule, NEW s \in Symbols,
           Lookup(s, mod, module_paths, closure_paths) # None
    PROVE  LET q == Lookup(s, mod, module_paths, closure_paths) IN
           q \in Paths /\ q # <<>>
<1> DEFINE q == Lookup(s, mod, module_paths, closure_paths)
<1>1. q \in Exports(mod, s) \cup Foreign(mod, s)
  BY LookupIsExact
<1>2. CASE q \in Exports(mod, s)
  BY <1>2, ExportsArePaths DEF InModule
<1>3. CASE q \in Foreign(mod, s)
  <2>1. \/ q = WellKnown[s] /\ WellKnown[s] # None
        \/ \E k \in Modules : q \in Exports(k, s)
    BY <1>3, ProviderTyped, CandidatesExport
       DEF Foreign, Imported, InModule, Candidates
  <2> QED
    BY <2>1, ExportsArePaths, InputsAreTyped
<1> QED
  BY <1>1, <1>2, <1>3

LEMMA PathOfTyped ==
    ASSUME TypeOK, Tables, Own, InModule, NEW o \in Objects
    PROVE  LET p == PathOf(o, mod, module_paths, closure_paths) IN
           p # None => p \in Paths /\ p # <<>>
<1> DEFINE p == PathOf(o, mod, module_paths, closure_paths)
           s == o.oid_parent
           q == Lookup(s, mod, module_paths, closure_paths)
<1>o. s \in Symbols \cup {None} /\ o.oid_path \in Paths
  BY ObjectFields
<1>1. CASE s = None
  BY <1>1, <1>o DEF PathOf
<1>2. CASE s # None /\ q = None
  BY <1>2 DEF PathOf
<1>3. CASE s # None /\ q # None
  <2>1. q \in Paths /\ q # <<>>
    BY <1>3, <1>o, LookupTyped
  <2>2. p = q \o o.oid_path
    BY <1>3 DEF PathOf
  <2> QED
    BY <2>1, <2>2, <1>o, ConcatProperties, ConcatEqualIffEmpty, EmptySeq DEF Paths
<1> QED
  BY <1>1, <1>2, <1>3

LEMMA AllOfIsSeq ==
    ASSUME NEW list \in [Modules -> Seq(Objects)], NEW m \in Modules
    PROVE  /\ AllOf(list, m) \in Seq(Nat)
           /\ Len(AllOf(list, m)) = Len(list[m])
           /\ \A i \in 1 .. Len(list[m]) : AllOf(list, m)[i] = i
<1>1. Len(list[m]) \in Nat
  BY LenProperties
<1> QED
  BY <1>1 DEF AllOf

LEMMA SameExports ==
    ASSUME NEW m \in Modules, objs'[m] = objs[m], NEW s
    PROVE  Exports(m, s)' = Exports(m, s)
BY DEF Exports

LEMMA SameForeign ==
    ASSUME NEW m \in Modules, \A k \in 1 .. (m - 1) : objs'[k] = objs[k],
           imports' = imports, NEW s
    PROVE  Foreign(m, s)' = Foreign(m, s)
<1>1. \A k \in 1 .. (m - 1) : Exports(k, s)' = Exports(k, s)
  BY DEF Exports
<1>2. Exporters(m, s)' = Exporters(m, s)
  BY <1>1 DEF Exporters
<1>3. Provider(m, s)' = Provider(m, s)
  BY DEF Provider
<1>4. Imported(m, s)' = Imported(m, s)
  BY <1>2, <1>3 DEF Imported
<1>5. \A k \in Exporters(m, s) : Exports(k, s)' = Exports(k, s)
  BY <1>1 DEF Exporters
<1>6. Imported(m, s) => Exports(Provider(m, s), s)' = Exports(Provider(m, s), s)
  BY <1>3, <1>5 DEF Imported
<1>7. (UNION {Exports(k, s) : k \in Exporters(m, s)})'
         = UNION {Exports(k, s) : k \in Exporters(m, s)}
  BY <1>2, <1>5
<1> QED
  BY <1>2, <1>4, <1>6, <1>7 DEF Foreign
-----------------------------------------------------------------------------
LEMMA InitOid == Init => OidInv
<1> SUFFICES ASSUME Init PROVE OidInv
    OBVIOUS
<1> USE DEF Init
<1>1. N \in Nat /\ (N # 0 => 1 \in Modules)
  BY InputsAreTyped DEF Modules
<1>2. given \in [Modules -> Seq(Objects)]
  BY InputsAreTyped
<1>3. N # 0 => /\ pending \in Seq(Nat) /\ Len(pending) = Len(given[1])
               /\ \A i \in 1 .. Len(given[1]) : pending[i] = i
  BY <1>1, <1>2, AllOfIsSeq
<1>4. N # 0 => Len(given[1]) \in Nat
  BY <1>1, <1>2, LenProperties
<1>5. TypeOK
  <2>1. pending \in Seq(Nat) /\ next_pending \in Seq(Nat)
    BY <1>3, EmptySeq
  <2>2. next \in 1 .. Len(pending) + 1
    BY <2>1, LenProperties
  <2>3. mod \in 1 .. N + 1 /\ round \in Nat
    BY <1>1
  <2>5. progressed \in BOOLEAN
    OBVIOUS
  <2>4. /\ module_paths \in [Symbols -> Paths \cup {None}]
        /\ closure_paths \in [Modules -> [Symbols -> Paths \cup {None}]]
    BY DEF NoPaths
  <2> QED
    BY <2>1, <2>2, <2>3, <2>4, <2>5, <1>2 DEF TypeOK
<1>6. Grounded
  BY <1>5 DEF Grounded
<1>7. NothingMissed
  BY <1>1 DEF NothingMissed, Modules
<1>8. Tables /\ Own
  BY <1>1 DEF Tables, Own, NoPaths, Modules
<1>9. AllHandled
  <2>1. CASE N = 0
    BY <2>1 DEF AllHandled, InModule, Modules
  <2>2. CASE N # 0
    <3>1. mod \in Modules /\ objs[mod] = given[1] /\ next = 1
      BY <2>2, <1>1
    <3>2. \A i \in 1 .. Len(objs[mod]) : i \in Waiting
      BY <2>2, <3>1, <1>3, <1>4 DEF Waiting
    <3>3. Len(next_pending) = 0
      OBVIOUS
    <3> QED
      BY <2>2, <3>1, <3>2, <3>3, <1>3, <1>4 DEF AllHandled, InModule
  <2> QED
    BY <2>1, <2>2
<1>10. Stuck /\ Untouched
  BY DEF Stuck, Untouched
<1> QED
  BY <1>6, <1>7, <1>8, <1>9, <1>10 DEF OidInv

\* What holds when the loop enters a module, or has none left.
LEMMA Entered ==
    ASSUME NEW list \in [Modules -> Seq(Objects)], NEW m \in 1 .. N + 1,
           objs' = list, Enter(list, m)
    PROVE  /\ mod' = m /\ module_paths' \in [Symbols -> Paths \cup {None}]
           /\ pending' \in Seq(Nat) /\ next_pending' \in Seq(Nat)
           /\ next' \in 1 .. Len(pending') + 1
           /\ progressed' \in BOOLEAN
           /\ Own' /\ AllHandled' /\ Stuck'
<1> USE DEF Enter
<1>1. module_paths' \in [Symbols -> Paths \cup {None}] /\ Own'
  BY DEF NoPaths, Own
<1>2. next_pending' = <<>> /\ Len(next_pending') = 0 /\ next_pending' \in Seq(Nat) /\ next' = 1
  BY EmptySeq
<1>3. progressed' \in BOOLEAN
  OBVIOUS
<1>4. Stuck'
  BY <1>2 DEF Stuck
<1>5. CASE m \in Modules
  <2>1. /\ pending' \in Seq(Nat) /\ Len(pending') = Len(list[m])
        /\ \A i \in 1 .. Len(list[m]) : pending'[i] = i
    BY <1>5, AllOfIsSeq
  <2>2. Len(list[m]) \in Nat
    BY <1>5, LenProperties
  <2>3. InModule' /\ objs'[mod'] = list[m]
    BY <1>5 DEF InModule
  <2>4. \A i \in 1 .. Len(list[m]) : i \in Waiting'
    BY <1>2, <2>1, <2>2 DEF Waiting
  <2>5. AllHandled'
    BY <1>2, <2>1, <2>2, <2>3, <2>4 DEF AllHandled
  <2> QED
    BY <1>1, <1>2, <1>3, <1>4, <2>1, <2>2, <2>5
<1>6. CASE m \notin Modules
  <2>1. pending' = <<>> /\ Len(pending') = 0 /\ pending' \in Seq(Nat)
    BY <1>6, EmptySeq
  <2>2. AllHandled'
    BY <1>2, <1>6, <2>1 DEF AllHandled, InModule
  <2> QED
    BY <1>1, <1>2, <1>3, <1>4, <2>1, <2>2
<1> QED
  BY <1>5, <1>6

\* Of a module that is done: what it exports has a path, what it leaves has
\* no parent that has one.
LEMMA ModuleDone ==
    ASSUME OidInv, InModule, next > Len(pending), ~Again
    PROVE  /\ \A s \in Symbols : Exports(mod, s) # {} => module_paths[s] # None
           /\ \A i \in 1 .. Len(objs[mod]), s \in Symbols :
                 objs[mod][i].oid_parent = s => Exports(mod, s) = {} /\ Foreign(mod, s) = {}
<1> USE DEF OidInv, Grounded
<1>m. mod \in Modules
  BY DEF InModule
<1>1. Len(pending) \in Nat /\ Len(next_pending) \in Nat /\ next \in Nat
  BY LenProperties DEF TypeOK
<1>2. Waiting = {next_pending[j] : j \in 1 .. Len(next_pending)}
  BY <1>1 DEF Waiting
<1>3. \A i \in Waiting : PathOf(objs[mod][i], mod, module_paths, closure_paths) = None
  <2>1. CASE ~progressed
    BY <1>2, <2>1 DEF Stuck, Unresolvable
  <2>2. CASE next_pending = <<>>
    BY <1>2, <2>2
  <2> QED
    BY <2>1, <2>2 DEF Again
<1>4. \A i \in 1 .. Len(objs[mod]) : i \in Waiting \/ Handled(i)
  BY DEF AllHandled
<1>5. ASSUME NEW s \in Symbols, Exports(mod, s) # {}
      PROVE  module_paths[s] # None
  <2>1. PICK i \in 1 .. Len(objs[mod]) : objs[mod][i].name = s /\ Done(objs[mod][i])
    BY <1>5 DEF Exports
  <2>2. objs[mod][i].oid_path \in Paths
    BY <1>m, ObjectAt, ObjectFields
  <2>3. i \notin Waiting
    BY <1>3, <2>1, <2>2, InputsAreTyped DEF Done, PathOf
  <2> QED
    BY <1>4, <2>1, <2>3 DEF Handled
<1>6. ASSUME NEW i \in 1 .. Len(objs[mod]), NEW s \in Symbols, objs[mod][i].oid_parent = s
      PROVE  Exports(mod, s) = {} /\ Foreign(mod, s) = {}
  <2> DEFINE q == Lookup(s, mod, module_paths, closure_paths)
  <2>1. objs[mod][i] \in Objects
    BY <1>m, ObjectAt
  <2>2. s # None /\ objs[mod][i].oid_path \in Paths
    BY <2>1, ObjectFields, InputsAreTyped
  <2>3. PathOf(objs[mod][i], mod, module_paths, closure_paths) = None
    BY <1>3, <1>4, <1>6, <2>2 DEF Handled
  <2>4. q = None
    <3>1. SUFFICES ASSUME q # None PROVE FALSE
      OBVIOUS
    <3>2. q \o objs[mod][i].oid_path = None
      BY <1>6, <2>2, <2>3, <3>1 DEF PathOf
    <3>3. q \in Paths
      BY <3>1, <2>2, LookupTyped
    <3>4. q \o objs[mod][i].oid_path \in Paths
      BY <2>2, <3>3, ConcatProperties DEF Paths
    <3> QED
      BY <3>2, <3>4, InputsAreTyped
  <2>5. module_paths[s] = None /\ Foreign(mod, s) = {}
    BY <2>2, <2>4, LookupIsExact
  <2> QED
    BY <1>5, <2>2, <2>5
<1> QED
  BY <1>5, <1>6

\* A step that leaves the objects as they are keeps what is said of them.
LEMMA SameObjects ==
    ASSUME OidInv, TypeOK', objs' = objs, imports' = imports, given' = given
    PROVE  /\ Grounded'
           /\ \A m \in Modules : \A s : Exports(m, s)' = Exports(m, s)
                                      /\ Foreign(m, s)' = Foreign(m, s)
<1>1. \A m \in Modules : \A s : Exports(m, s)' = Exports(m, s) /\ Foreign(m, s)' = Foreign(m, s)
  BY SameExports, SameForeign DEF Modules
<1>2. ASSUME NEW m \in Modules, NEW arcs, NEW s
      PROVE  Under(Exports(m, s) \cup Foreign(m, s), arcs)'
                = Under(Exports(m, s) \cup Foreign(m, s), arcs)
  BY <1>1 DEF Under
<1>3. ASSUME NEW m \in Modules, NEW i \in 1 .. Len(objs[m])
      PROVE  GroundedAt(m, i)'
  <2>1. GroundedAt(m, i)
    BY DEF OidInv, Grounded, GroundedAt
  <2> QED
    BY <1>2, <2>1 DEF GroundedAt
<1> QED
  BY <1>1, <1>3 DEF Grounded, GroundedAt

LEMMA SameNothingMissed ==
    ASSUME OidInv, TypeOK', objs' = objs, imports' = imports, given' = given,
           mod' = mod, round' = round
    PROVE  NothingMissed'
<1>1. \A m \in Modules : \A s : Exports(m, s)' = Exports(m, s) /\ Foreign(m, s)' = Foreign(m, s)
  BY SameObjects
<1>2. ASSUME NEW m \in Modules, m < mod \/ round > 1,
             NEW i \in 1 .. Len(objs[m]), NEW s \in Symbols, objs[m][i].oid_parent = s
      PROVE  Exports(m, s)' = {} /\ Foreign(m, s)' = {}
  <2>1. Exports(m, s) = {} /\ Foreign(m, s) = {}
    BY <1>2 DEF OidInv, NothingMissed
  <2> QED
    BY <1>1, <2>1
<1> QED
  BY <1>2 DEF NothingMissed

\* In a second round an object that has a parent cannot be resolved.
LEMMA SecondRound ==
    ASSUME OidInv, InModule, round > 1, NEW i \in 1 .. Len(objs[mod]),
           objs[mod][i].oid_parent # None
    PROVE  PathOf(objs[mod][i], mod, module_paths, closure_paths) = None
<1> USE DEF OidInv, Grounded
<1> DEFINE s == objs[mod][i].oid_parent
<1>1. mod \in Modules /\ s \in Symbols
  BY ObjectAt, ObjectFields DEF InModule
<1>2. Exports(mod, s) = {} /\ Foreign(mod, s) = {}
  BY <1>1 DEF NothingMissed
<1>3. Lookup(s, mod, module_paths, closure_paths) = None
  BY <1>1, <1>2, LookupIsExact
<1> QED
  BY <1>3 DEF PathOf

\* Resolving an object without a parent leaves it as it is.
LEMMA ResolvedIsFixed ==
    ASSUME NEW o \in Objects, o.oid_parent = None
    PROVE  Resolved(o, o.oid_path) = o
BY DEF Objects, Resolved

\* The object i of the module gets a path.
LEMMA ResolvedStep ==
    ASSUME OidInv, ResolveNext,
           NEW i \in 1 .. Len(objs[mod]), i = pending[next],
           NEW path, path = PathOf(objs[mod][i], mod, module_paths, closure_paths),
           path # None,
           objs' = [objs EXCEPT ![mod][i] = Resolved(objs[mod][i], path)],
           module_paths' = Recorded(objs[mod][i].name, path),
           progressed' = TRUE, next_pending' = next_pending
    PROVE  OidInv' /\ (round > 1 => objs' = objs)
<1>a. TypeOK /\ NothingMissed /\ Tables /\ Own /\ AllHandled /\ Stuck /\ Untouched
  BY DEF OidInv, Grounded
<1>g. \A m \in Modules : \A j \in 1 .. Len(objs[m]) : GroundedAt(m, j)
  BY DEF OidInv, Grounded, GroundedAt
<1> USE <1>a
<1> DEFINE o == objs[mod][i]
           n == Resolved(o, path)
<1>m. mod \in Modules /\ InModule /\ N \in Nat /\ mod \in Nat
  <2>1. N \in Nat /\ mod \in 1 .. N + 1 /\ mod # N + 1
    BY InputsAreTyped DEF ResolveNext, Returned, TypeOK
  <2> QED
    BY <2>1 DEF InModule, Modules
<1>u. UNCHANGED <<closure_paths, mod, pending, round, imports, given>> /\ next' = next + 1
  BY DEF ResolveNext
<1>c. PICK M \in Modules : M = mod
  BY <1>m
<1>o. o \in Objects /\ o.name \in Symbols /\ o.oid_parent \in Symbols \cup {None}
  BY <1>m, ObjectAt, ObjectFields
<1>p. path \in Paths /\ path # <<>>
  BY <1>m, <1>o, PathOfTyped
<1>n. n \in Objects /\ Done(n) /\ n.name = o.name /\ n.oid_path = path /\ n.oid_parent = None
  BY <1>o, <1>p DEF Objects, Resolved, Done
<1>s. objs \in [Modules -> Seq(Objects)] /\ objs[mod] \in Seq(Objects)
  BY <1>m DEF TypeOK
<1>e. /\ objs'[mod] = [objs[mod] EXCEPT ![i] = n]
      /\ \A k \in Modules \ {mod} : objs'[k] = objs[k]
  BY <1>m, <1>s
<1>l. /\ objs'[mod] \in Seq(Objects) /\ Len(objs'[mod]) = Len(objs[mod])
      /\ \A j \in 1 .. Len(objs[mod]) : objs'[mod][j] = IF j = i THEN n ELSE objs[mod][j]
  <2> HIDE DEF n
  <2>1. n \in Objects
    BY <1>n
  <2> QED
    BY <1>e, <1>s, <2>1, ExceptSeq
<1>t. objs' \in [Modules -> Seq(Objects)]
  BY <1>s, <1>e, <1>l, <1>m
<1>f. o.oid_parent = None => n = o /\ objs' = objs
  <2>1. ASSUME o.oid_parent = None PROVE n = o
    BY <2>1, <1>o, <1>p, ResolvedIsFixed DEF PathOf
  <2> QED
    BY <2>1, <1>s, <1>m
<1>r. round > 1 => objs' = objs
  BY <1>f, <1>m, SecondRound
<1>7. TypeOK'
  <2>1. module_paths' \in [Symbols -> Paths \cup {None}]
    BY <1>o, <1>p DEF Recorded, TypeOK
  <2>2. next' \in 1 .. Len(pending') + 1
    BY <1>u, LenProperties DEF ResolveNext, TypeOK
  <2>3. progressed' \in BOOLEAN
    OBVIOUS
  <2>4. given' \in [Modules -> Seq(Objects)] /\ imports' \in Importings
    BY <1>u DEF TypeOK
  <2>5. /\ mod' \in 1 .. N + 1 /\ round' \in Nat /\ pending' \in Seq(Nat)
        /\ next_pending' \in Seq(Nat)
        /\ closure_paths' \in [Modules -> [Symbols -> Paths \cup {None}]]
    BY <1>u DEF TypeOK
  <2> QED
    BY <1>t, <2>1, <2>2, <2>3, <2>4, <2>5 DEF TypeOK
\* The exports of the module grow by path, those of others stay.
<1>8. \A k \in Modules \ {mod} : \A s : Exports(k, s)' = Exports(k, s)
  BY SMTT(30), <1>e DEF Exports
<1>9. \A s : Exports(M, s) \subseteq Exports(M, s)'
  <2> SUFFICES ASSUME NEW s, NEW q \in Exports(M, s) PROVE q \in Exports(M, s)'
    OBVIOUS
  <2>1. PICK j \in 1 .. Len(objs[mod]) :
          objs[mod][j].name = s /\ Done(objs[mod][j]) /\ q = objs[mod][j].oid_path
    BY <1>c DEF Exports
  <2>2. objs'[mod][j] = objs[mod][j]
    BY SMTT(30), <1>f, <1>l, <2>1 DEF Done
  <2> QED
    BY <1>c, <1>l, <2>1, <2>2 DEF Exports
<1>10. \A s : s = o.name => path \in Exports(M, s)'
  <2>1. i \in 1 .. Len(objs'[mod]) /\ objs'[mod][i] = n
    BY <1>l
  <2>2. n.name = o.name /\ Done(n) /\ n.oid_path = path
    BY <1>n
  <2> HIDE DEF n, o
  <2> QED
    BY <1>c, <2>1, <2>2 DEF Exports, Done
<1>11. \A m \in Modules : m <= mod => \A s : Foreign(m, s)' = Foreign(m, s)
  <2> SUFFICES ASSUME NEW m \in Modules, m <= mod, NEW s PROVE Foreign(m, s)' = Foreign(m, s)
    OBVIOUS
  <2>1. \A k \in 1 .. (m - 1) : k \in Modules \ {mod}
    BY <1>m DEF Modules
  <2> QED
    BY <2>1, <1>e, <1>u, SameForeign
<1>12. Tables'
  BY <1>8, <1>m, <1>u DEF Tables
<1>13. Own'
  <2> SUFFICES ASSUME NEW s \in Symbols, module_paths'[s] # None
               PROVE  module_paths'[s] \in Exports(M, s)'
    BY <1>c, <1>u DEF Own
  <2>1. CASE s = o.name
    <3>1. module_paths'[s] = path
      BY <2>1, <1>o DEF Recorded, TypeOK
    <3> QED
      BY <2>1, <3>1, <1>10
  <2>2. CASE s # o.name
    <3>1. module_paths'[s] = module_paths[s]
      BY <2>2, <1>o DEF Recorded, TypeOK
    <3>2. module_paths[s] \in Exports(M, s)
      BY <3>1, <1>c, <1>m DEF Own
    <3> QED
      BY <3>1, <3>2, <1>9
  <2> QED
    BY <2>1, <2>2
<1>14. AllHandled'
  <2>1. \A j \in 1 .. Len(objs[mod]) : j \in Waiting' \/ Handled(j)'
    <3> SUFFICES ASSUME NEW j \in 1 .. Len(objs[mod]), j \notin Waiting'
                 PROVE  Handled(j)'
      OBVIOUS
    <3>1. CASE j = i
      <4>1. module_paths'[o.name] = path /\ path # None
        BY <1>o, <1>p, InputsAreTyped DEF Recorded, TypeOK
      <4>2. objs'[mod'][j] = n
        BY <3>1, <1>l, <1>u
      <4> HIDE DEF n, o
      <4> QED
        BY <4>1, <4>2, <1>n DEF Handled
    <3>2. CASE j # i
      <4>1. Len(pending) \in Nat /\ next \in Nat
        BY LenProperties DEF TypeOK
      <4>2. j \notin Waiting
        BY <3>2, <4>1, <1>u DEF Waiting
      <4>3. Handled(j)
        BY <4>2, <1>m DEF AllHandled
      <4>4. objs'[mod][j] = objs[mod][j]
        BY <3>2, <1>l
      <4>5. objs[mod][j].name \in Symbols
        BY <1>m, ObjectAt, ObjectFields
      <4> QED
        BY <4>3, <4>4, <4>5, <1>u, <1>p, InputsAreTyped DEF Handled, Recorded, TypeOK
    <3> QED
      BY <3>1, <3>2
  <2> QED
    BY <2>1, <1>l, <1>m, <1>u DEF AllHandled, InModule
<1>15. Stuck'
  BY DEF Stuck
<1>16. Untouched'
  <2>1. \A m \in Modules : Len(objs'[m]) = Len(given'[m])
    BY <1>e, <1>l, <1>u DEF Untouched
  <2>2. \A m \in Modules : m > mod => m \in Modules \ {mod}
    BY <1>m
  <2> QED
    BY <2>1, <2>2, <1>e, <1>u DEF Untouched
<1>17. CASE o.oid_parent = None
  <2>1. objs' = objs
    BY <1>17, <1>f
  <2> QED
    BY <2>1, <1>7, <1>u, <1>12, <1>13, <1>14, <1>15, <1>16, SameObjects, SameNothingMissed
       DEF OidInv
<1>18. CASE o.oid_parent # None
  <2>0. round = 1
    <3>1. round \in Nat
      BY DEF TypeOK
    <3>2. ~(round > 1)
      BY <1>18, <1>m, SecondRound
    <3> QED
      BY <3>1, <3>2 DEF Untouched
  <2>1. mod' = mod /\ round' = 1 /\ given' = given
    BY <2>0, <1>u
  <2>2. NothingMissed'
    <3>1. ASSUME NEW m \in Modules, m < mod, NEW j \in 1 .. Len(objs'[m]),
                 NEW s \in Symbols, objs'[m][j].oid_parent = s
          PROVE  Exports(m, s)' = {} /\ Foreign(m, s)' = {}
      <4>1. m \in Modules \ {mod} /\ m <= mod
        BY <3>1, <1>m DEF Modules
      <4>2. objs'[m] = objs[m]
        BY <4>1, <1>e
      <4>3. Exports(m, s) = {} /\ Foreign(m, s) = {}
        BY <3>1, <4>2 DEF NothingMissed
      <4>4. Exports(m, s)' = Exports(m, s)
        BY <4>1, <1>8
      <4>5. Foreign(m, s)' = Foreign(m, s)
        BY <4>1, <1>11
      <4> QED
        BY <4>3, <4>4, <4>5
    <3>2. \A m \in Modules : ~(m < mod' \/ round' > 1) \/ m < mod
      BY <2>1
    <3> QED
      BY <3>1, <3>2, Zenon DEF NothingMissed
  <2>3. ASSUME NEW m \in Modules, NEW j \in 1 .. Len(objs'[m])
        PROVE  GroundedAt(m, j)'
    <3>0. PICK s : s = given[m][j].oid_parent
      OBVIOUS
    <3>1. CASE m > mod
      <4>1. objs[m] = given[m] /\ objs'[m] = objs[m]
        BY <3>1, <2>0, <1>e, <1>m DEF Untouched, Modules
      <4> QED
        BY <4>1, <2>1, <3>0 DEF GroundedAt
    <3>2. CASE m < mod
      <4>1. m \in Modules \ {mod} /\ m <= mod
        BY <3>2, <1>m DEF Modules
      <4>2. objs'[m] = objs[m] /\ GroundedAt(m, j)
        BY <4>1, <1>e, <1>g
      <4>3. Exports(m, s)' = Exports(m, s)
        BY <4>1, <1>8
      <4>4. Foreign(m, s)' = Foreign(m, s)
        BY <4>1, <1>11
      <4> QED
        BY <4>2, <4>3, <4>4, <2>1, <3>0 DEF GroundedAt
    <3>3. CASE m = mod /\ j # i
      <4>1. objs'[m][j] = objs[m][j] /\ GroundedAt(m, j)
        BY <3>3, <1>l, <1>g, <1>m
      <4>2. Exports(m, s) \cup Foreign(m, s) \subseteq Exports(m, s)' \cup Foreign(m, s)'
        <5>1. Exports(m, s) \subseteq Exports(m, s)'
          BY <3>3, <1>c, <1>9
        <5>2. Foreign(m, s)' = Foreign(m, s)
          BY <3>3, <1>11, <1>m
        <5> QED
          BY <5>1, <5>2
      <4> QED
        BY <4>1, <4>2, <2>1, <3>0 DEF GroundedAt, Under
    <3>4. CASE m = mod /\ j = i
      <4> DEFINE q == Lookup(o.oid_parent, mod, module_paths, closure_paths)
      <4>1. o = given[mod][i]
        <5>1. GroundedAt(mod, i)
          BY <1>g, <1>m
        <5> QED
          BY <5>1, <1>18 DEF GroundedAt
      <4>2. q # None /\ path = q \o o.oid_path
        BY ZenonT(60), <1>18 DEF PathOf
      <4>3. q \in Exports(m, s) \cup Foreign(m, s)
        <5>1. s = o.oid_parent /\ s \in Symbols
          BY <3>0, <3>4, <4>1, <1>18, <1>o
        <5> QED
          BY <5>1, <4>2, <3>4, <1>m, LookupIsExact
      <4>4. q \in Exports(m, s)' \cup Foreign(m, s)'
        <5>1. Exports(m, s) \subseteq Exports(m, s)'
          BY <3>4, <1>c, <1>9
        <5>2. Foreign(m, s)' = Foreign(m, s)
          BY <3>4, <1>11, <1>m
        <5> QED
          BY <4>3, <5>1, <5>2
      <4>5. objs'[m][j] = n
        BY <3>4, <1>l
      <4>6. n.oid_path \in Under(Exports(m, s)' \cup Foreign(m, s)', given[m][j].oid_path)
        BY <3>4, <4>1, <4>2, <4>4, <1>n DEF Under
      <4> QED
        BY <3>4, <4>1, <4>5, <4>6, <1>18, <1>n, <2>1, <3>0 DEF GroundedAt
    <3> QED
      BY <3>1, <3>2, <3>3, <3>4, <1>m DEF Modules
  <2>4. Grounded'
    BY <2>3, <1>7 DEF Grounded, GroundedAt
  <2> QED
    BY <2>2, <2>4, <1>12, <1>13, <1>14, <1>15, <1>16, <1>r DEF OidInv
<1> QED
  BY <1>17, <1>18, <1>r

\* What a step that leaves the objects and the tables alone keeps.
LEMMA SameTables ==
    ASSUME OidInv, TypeOK',
           UNCHANGED <<objs, closure_paths, mod, module_paths, round, imports, given>>
    PROVE  Grounded' /\ NothingMissed' /\ Tables' /\ Own' /\ Untouched'
<1>1. \A m \in Modules : \A s : Exports(m, s)' = Exports(m, s)
  BY SameObjects
<1>2. Tables'
  BY <1>1 DEF OidInv, Tables
<1>3. Own'
  <2> SUFFICES ASSUME InModule, NEW s \in Symbols, module_paths[s] # None
               PROVE  \A M \in Modules : M = mod => module_paths[s] \in Exports(M, s)'
    BY DEF Own, InModule
  <2> QED
    BY <1>1 DEF OidInv, Own
<1>4. Untouched'
  BY DEF OidInv, Untouched
<1> QED
  BY <1>2, <1>3, <1>4, SameObjects, SameNothingMissed

\* Lookups, and with them what has no path, depend on the tables and imports.
LEMMA SameUnresolvable ==
    ASSUME UNCHANGED <<module_paths, closure_paths, mod, imports>>
    PROVE  Unresolvable' = Unresolvable
<1>1. \A m, s : Provider(m, s)' = Provider(m, s)
  BY DEF Provider
<1>2. ASSUME NEW s, NEW m
      PROVE  Lookup(s, m, module_paths, closure_paths)' = Lookup(s, m, module_paths, closure_paths)
  BY <1>1 DEF Lookup, Candidates
<1>3. ASSUME NEW o, NEW m
      PROVE  PathOf(o, m, module_paths, closure_paths)' = PathOf(o, m, module_paths, closure_paths)
  BY <1>2 DEF PathOf
<1> QED
  BY <1>3 DEF Unresolvable

\* The object i of the module waits for the next pass.
LEMMA StuckStep ==
    ASSUME OidInv, ResolveNext,
           NEW i \in 1 .. Len(objs[mod]), i = pending[next],
           PathOf(objs[mod][i], mod, module_paths, closure_paths) = None,
           next_pending' = Append(next_pending, i),
           UNCHANGED <<objs, module_paths, progressed>>
    PROVE  OidInv'
<1>a. TypeOK /\ AllHandled /\ Stuck
  BY DEF OidInv, Grounded
<1>u. UNCHANGED <<closure_paths, mod, pending, round, imports, given>> /\ next' = next + 1
  BY DEF ResolveNext
<1>m. InModule
  <2>1. N \in Nat /\ mod \in 1 .. N + 1 /\ mod # N + 1
    BY <1>a, InputsAreTyped DEF ResolveNext, Returned, TypeOK
  <2> QED
    BY <2>1 DEF InModule, Modules
<1>1. Len(pending) \in Nat /\ next \in 1 .. Len(pending) /\ Len(next_pending) \in Nat
  BY <1>a, LenProperties DEF TypeOK, ResolveNext
<1>2. /\ next_pending' \in Seq(Nat) /\ Len(next_pending') = Len(next_pending) + 1
      /\ \A j \in 1 .. Len(next_pending) : next_pending'[j] = next_pending[j]
      /\ next_pending'[Len(next_pending) + 1] = i
  <2>1. next_pending \in Seq(Nat) /\ i \in Nat
    BY <1>a DEF TypeOK
  <2> QED
    BY <2>1, <1>1, AppendProperties
<1>3. TypeOK'
  BY <1>a, <1>u, <1>1, <1>2 DEF TypeOK
<1>4. AllHandled'
  <2>1. Waiting \subseteq Waiting'
    <3>1. \A j \in 1 .. Len(next_pending) : j \in 1 .. Len(next_pending')
      BY <1>1, <1>2
    <3>2. \A j \in next .. Len(pending) : j = next \/ j \in next' .. Len(pending')
      BY <1>1, <1>u
    <3>3. i \in Waiting'
      BY <1>1, <1>2 DEF Waiting
    <3> QED
      BY <1>2, <1>u, <3>1, <3>2, <3>3 DEF Waiting
  <2>2. \A j \in 1 .. Len(next_pending') : next_pending'[j] \in 1 .. Len(objs[mod])
    BY <1>a, <1>m, <1>1, <1>2 DEF AllHandled
  <2>3. \A j \in 1 .. Len(objs[mod]) : j \in Waiting' \/ Handled(j)'
    BY <1>a, <1>m, <1>u, <2>1 DEF AllHandled, Handled
  <2> QED
    BY <1>a, <1>m, <1>u, <2>2, <2>3 DEF AllHandled, InModule
<1>5. Stuck'
  <2>1. \A j \in 1 .. Len(next_pending') : j \in 1 .. Len(next_pending) \/ next_pending'[j] = i
    BY <1>1, <1>2
  <2>2. Unresolvable' = Unresolvable
    BY <1>u, SameUnresolvable
  <2>3. objs[mod][i] \in Unresolvable
    BY <1>a, <1>m, ObjectAt DEF Unresolvable, InModule
  <2> QED
    BY <1>a, <1>m, <1>u, <1>2, <2>1, <2>2, <2>3 DEF Stuck
<1> QED
  BY <1>3, <1>4, <1>5, <1>u, SameTables DEF OidInv

LEMMA ResolveNextStep ==
    OidInv /\ ResolveNext => OidInv' /\ (round > 1 => objs' = objs)
<1> SUFFICES ASSUME OidInv, ResolveNext
             PROVE  OidInv' /\ (round > 1 => objs' = objs)
  OBVIOUS
<1> DEFINE i == pending[next]
           path == PathOf(objs[mod][i], mod, module_paths, closure_paths)
<1>1. InModule
  <2>1. N \in Nat /\ mod \in 1 .. N + 1 /\ mod # N + 1
    BY InputsAreTyped DEF OidInv, Grounded, ResolveNext, Returned, TypeOK
  <2> QED
    BY <2>1 DEF InModule, Modules
<1>2. next \in 1 .. Len(pending)
  BY LenProperties DEF OidInv, Grounded, TypeOK, ResolveNext
<1>3. i \in 1 .. Len(objs[mod])
  BY <1>1, <1>2 DEF OidInv, AllHandled
<1>4. CASE path # None
  <2>1. /\ objs' = [objs EXCEPT ![mod][i] = Resolved(objs[mod][i], path)]
        /\ module_paths' = Recorded(objs[mod][i].name, path)
        /\ progressed' = TRUE /\ next_pending' = next_pending
    BY <1>4 DEF ResolveNext
  <2> QED
    BY <1>3, <1>4, <2>1, ResolvedStep
<1>5. CASE path = None
  <2>1. /\ next_pending' = Append(next_pending, i)
        /\ UNCHANGED <<objs, module_paths, progressed>>
    BY <1>5 DEF ResolveNext
  <2> QED
    BY <1>3, <1>5, <2>1, StuckStep
<1> QED
  BY <1>4, <1>5

LEMMA NextPassStep == OidInv /\ NextPass => OidInv' /\ objs' = objs
<1> SUFFICES ASSUME OidInv, NextPass PROVE OidInv' /\ objs' = objs
  OBVIOUS
<1> USE DEF NextPass
<1>a. TypeOK /\ AllHandled
  BY DEF OidInv, Grounded
<1>m. InModule
  <2>1. N \in Nat /\ mod \in 1 .. N + 1 /\ mod # N + 1
    BY <1>a, InputsAreTyped DEF Returned, TypeOK
  <2> QED
    BY <2>1 DEF InModule, Modules
<1>1. Len(pending) \in Nat /\ next \in Nat /\ Len(next_pending) \in Nat
  BY <1>a, LenProperties DEF TypeOK
<1>2. Len(next_pending') = 0 /\ next_pending' \in Seq(Nat)
  BY EmptySeq
<1>3. TypeOK'
  <2>1. next' \in 1 .. Len(pending') + 1 /\ pending' \in Seq(Nat)
    BY <1>a, <1>1 DEF TypeOK
  <2>2. progressed' \in BOOLEAN
    OBVIOUS
  <2>3. UNCHANGED <<objs, closure_paths, mod, module_paths, round, imports, given>>
    OBVIOUS
  <2> QED
    BY <1>a, <1>2, <2>1, <2>2, <2>3 DEF TypeOK
<1>4. Waiting' = Waiting
  BY <1>1, <1>2 DEF Waiting
<1>5. AllHandled'
  <2>1. \A j \in 1 .. Len(objs[mod]) : j \in Waiting' \/ Handled(j)'
    BY <1>a, <1>m, <1>4 DEF AllHandled, Handled
  <2> QED
    BY <1>a, <1>m, <1>2, <2>1 DEF AllHandled, InModule
<1>6. Stuck'
  BY <1>2 DEF Stuck
<1> QED
  BY <1>3, <1>5, <1>6, SameTables DEF OidInv

\* The module is done: its paths become a table.
LEMMA RegisterStep == OidInv /\ Register => OidInv' /\ objs' = objs
<1> SUFFICES ASSUME OidInv, Register PROVE OidInv' /\ objs' = objs
  OBVIOUS
<1>a. TypeOK /\ NothingMissed /\ Tables /\ Own /\ Untouched
  BY DEF OidInv, Grounded
<1>u. /\ UNCHANGED <<objs, round, imports, given>> /\ Enter(objs, mod + 1)
      /\ closure_paths' = [closure_paths EXCEPT ![mod] = module_paths]
      /\ next > Len(pending) /\ ~Again
  BY DEF Register
<1>m. N \in Nat /\ mod \in 1 .. N + 1 /\ mod # N + 1
  BY <1>a, InputsAreTyped DEF Register, Returned, TypeOK
<1>i. InModule
  BY <1>m DEF InModule, Modules
<1>c. PICK M \in Modules : M = mod
  BY <1>i DEF InModule
<1>1. mod + 1 \in 1 .. N + 1 /\ objs \in [Modules -> Seq(Objects)]
  BY <1>a, <1>m DEF TypeOK
<1>2. /\ mod' = mod + 1 /\ module_paths' \in [Symbols -> Paths \cup {None}]
      /\ pending' \in Seq(Nat) /\ next_pending' \in Seq(Nat)
      /\ next' \in 1 .. Len(pending') + 1
      /\ progressed' \in BOOLEAN
      /\ Own' /\ AllHandled' /\ Stuck'
  BY <1>1, <1>u, Entered
<1>3. /\ closure_paths'[M] = module_paths
      /\ \A k \in Modules \ {M} : closure_paths'[k] = closure_paths[k]
      /\ closure_paths' \in [Modules -> [Symbols -> Paths \cup {None}]]
  BY <1>a, <1>c, <1>u DEF TypeOK
<1>4. TypeOK'
  BY <1>a, <1>u, <1>1, <1>2, <1>3 DEF TypeOK
<1>5. /\ Grounded'
      /\ \A m \in Modules : \A s : Exports(m, s)' = Exports(m, s) /\ Foreign(m, s)' = Foreign(m, s)
  BY <1>4, <1>u, SameObjects
<1>d. /\ \A s \in Symbols : Exports(M, s) # {} => module_paths[s] # None
      /\ \A i \in 1 .. Len(objs[M]), s \in Symbols :
            objs[M][i].oid_parent = s => Exports(M, s) = {} /\ Foreign(M, s) = {}
  BY <1>c, <1>i, <1>u, ModuleDone
<1>6. NothingMissed'
  <2>1. ASSUME NEW m \in Modules, m < mod' \/ round' > 1, NEW i \in 1 .. Len(objs'[m]),
               NEW s \in Symbols, objs'[m][i].oid_parent = s
        PROVE  Exports(m, s)' = {} /\ Foreign(m, s)' = {}
    <3>1. CASE m = M
      BY <2>1, <3>1, <1>5, <1>d, <1>u
    <3>2. CASE m # M
      <4>1. m < mod \/ round > 1
        BY <2>1, <3>2, <1>2, <1>c, <1>m, <1>u DEF Modules
      <4>2. Exports(m, s) = {} /\ Foreign(m, s) = {}
        BY <2>1, <4>1, <1>a, <1>u DEF NothingMissed
      <4> QED
        BY <4>2, <1>5
    <3> QED
      BY <3>1, <3>2
  <2> QED
    BY <2>1, Zenon DEF NothingMissed
<1>7. Tables'
  <2>1. ASSUME NEW k \in Modules, NEW s \in Symbols
        PROVE  /\ closure_paths'[k][s] # None =>
                     k < mod' /\ closure_paths'[k][s] \in Exports(k, s)'
               /\ k < mod' /\ Exports(k, s)' # {} => closure_paths'[k][s] # None
    <3>1. Exports(k, s)' = Exports(k, s)
      BY <1>5
    <3>2. CASE k = M
      <4>1. module_paths[s] # None => module_paths[s] \in Exports(M, s)
        BY <1>a, <1>c, <1>i DEF Own
      <4>2. closure_paths'[k] = module_paths /\ k < mod'
        BY <3>2, <1>2, <1>3, <1>c, <1>m
      <4> QED
        BY <3>1, <3>2, <4>1, <4>2, <1>d
    <3>3. CASE k # M
      <4>1. closure_paths'[k] = closure_paths[k]
        BY <3>3, <1>3
      <4>2. k < mod' <=> k < mod
        BY <3>3, <1>2, <1>c, <1>m DEF Modules
      <4> QED
        BY <3>1, <4>1, <4>2, <1>a DEF Tables
    <3> QED
      BY <3>2, <3>3
  <2> QED
    BY <2>1, Zenon DEF Tables
<1>8. Untouched'
  <2>1. \A m \in Modules : m > mod' => m > mod
    BY <1>2, <1>m DEF Modules
  <2> QED
    BY <2>1, <1>a, <1>u DEF Untouched
<1> QED
  BY <1>2, <1>5, <1>6, <1>7, <1>8, <1>u DEF OidInv

LEMMA ResolveAgainStep == OidInv /\ ResolveAgain => OidInv' /\ objs' = objs
<1> SUFFICES ASSUME OidInv, ResolveAgain PROVE OidInv' /\ objs' = objs
  OBVIOUS
<1>a. TypeOK /\ NothingMissed /\ Untouched
  BY DEF OidInv, Grounded
<1>u. /\ UNCHANGED <<objs, imports, given>> /\ Enter(objs, 1) /\ round' = round + 1
      /\ closure_paths' = [m \in Modules |-> NoPaths] /\ mod = N + 1
  BY DEF ResolveAgain, Call, Returned
<1>1. N \in Nat /\ 1 \in 1 .. N + 1 /\ objs \in [Modules -> Seq(Objects)]
  BY <1>a, InputsAreTyped DEF TypeOK
<1>2. /\ mod' = 1 /\ module_paths' \in [Symbols -> Paths \cup {None}]
      /\ pending' \in Seq(Nat) /\ next_pending' \in Seq(Nat)
      /\ next' \in 1 .. Len(pending') + 1
      /\ progressed' \in BOOLEAN
      /\ Own' /\ AllHandled' /\ Stuck'
  BY <1>1, <1>u, Entered
<1>3. closure_paths' \in [Modules -> [Symbols -> Paths \cup {None}]]
  BY <1>u DEF NoPaths
<1>r. round' \in Nat /\ round' > 1
  BY <1>a, <1>u DEF TypeOK, Untouched
<1>4. TypeOK'
  <2>1. mod' \in 1 .. N + 1
    BY <1>1, <1>2
  <2> QED
    BY <1>a, <1>u, <1>2, <1>3, <1>r, <2>1 DEF TypeOK
<1>5. /\ Grounded'
      /\ \A m \in Modules : \A s : Exports(m, s)' = Exports(m, s) /\ Foreign(m, s)' = Foreign(m, s)
  BY <1>4, <1>u, SameObjects
<1>6. NothingMissed'
  <2>1. ASSUME NEW m \in Modules, NEW i \in 1 .. Len(objs'[m]),
               NEW s \in Symbols, objs'[m][i].oid_parent = s
        PROVE  Exports(m, s)' = {} /\ Foreign(m, s)' = {}
    <3>1. m < mod
      BY <1>1, <1>u DEF Modules
    <3>2. Exports(m, s) = {} /\ Foreign(m, s) = {}
      BY <2>1, <3>1, <1>a, <1>u DEF NothingMissed
    <3> QED
      BY <3>2, <1>5
  <2> QED
    BY <2>1, Zenon DEF NothingMissed
<1>7. Tables'
  <2>1. \A k \in Modules : ~(k < mod')
    BY <1>2 DEF Modules
  <2> QED
    BY <2>1, <1>u DEF Tables, NoPaths
<1>8. Untouched'
  BY <1>a, <1>u, <1>r DEF Untouched
<1> QED
  BY <1>2, <1>5, <1>6, <1>7, <1>8, <1>u DEF OidInv

LEMMA StutterStep == OidInv /\ UNCHANGED vars => OidInv'
<1> SUFFICES ASSUME OidInv, UNCHANGED vars PROVE OidInv'
  OBVIOUS
<1> USE DEF vars
<1>a. TypeOK /\ AllHandled /\ Stuck
  BY DEF OidInv, Grounded
<1>1. TypeOK'
  BY <1>a DEF TypeOK
<1>2. AllHandled'
  BY <1>a DEF AllHandled, InModule, Waiting, Handled
<1>3. Unresolvable' = Unresolvable
  BY SameUnresolvable DEF vars
<1>4. Stuck'
  BY <1>a, <1>3 DEF Stuck, InModule
<1> QED
  BY <1>1, <1>2, <1>4, SameTables DEF OidInv

LEMMA StepKeepsOidInv == OidInv /\ [Next]_vars => OidInv' /\ (round > 1 => UNCHANGED objs)
BY ResolveNextStep, NextPassStep, RegisterStep, ResolveAgainStep, StutterStep
   DEF Next, Step, vars
-----------------------------------------------------------------------------
(* oid_resolver.py: the invariant. *)
THEOREM OidInvHolds == Spec => []OidInv
BY InitOid, StepKeepsOidInv, PTL DEF Spec

(* oid_resolver.py:10-17: an object that had a parent hangs under a path   *)
(* its parent has, and every other object is as the parser left it.        *)
THEOREM PathsAreParents == Spec => []Grounded
<1>1. OidInv => Grounded
  BY DEF OidInv
<1> QED
  BY <1>1, OidInvHolds, PTL

(* oid_resolver.py:83-110: the passes stop only when what is left has no   *)
(* parent with a path.                                                     *)
THEOREM NothingIsMissed == Spec => []NothingMissed
<1>1. OidInv => NothingMissed
  BY DEF OidInv
<1> QED
  BY <1>1, OidInvHolds, PTL

(* oid_resolver.py:104: resolving the same modules again changes nothing.  *)
THEOREM SecondCallIsIdle == Spec => Idempotent
<1>1. OidInv /\ [Next]_vars => [round > 1 => objs' = objs]_vars
  BY StepKeepsOidInv
<1> QED
  BY <1>1, OidInvHolds, PTL DEF Spec, Idempotent
-----------------------------------------------------------------------------
(* Why a call ends.                                                        *)

\* A pass leaves no more objects than it has looked at, and fewer if it made
\* progress.
PassLeaves ==
    /\ Len(next_pending) < next
    /\ progressed => Len(next_pending) + 1 < next

LEMMA PassesLeave == Spec => []PassLeaves
<1>1. Init => PassLeaves
  BY EmptySeq DEF Init, PassLeaves
<1>2. TypeOK /\ PassLeaves /\ [Next]_vars => PassLeaves'
  <2> SUFFICES ASSUME TypeOK, PassLeaves, [Next]_vars PROVE PassLeaves'
    OBVIOUS
  <2>1. next \in Nat /\ Len(next_pending) \in Nat
    BY LenProperties DEF TypeOK
  <2>2. CASE ResolveNext
    <3>1. next' = next + 1
      BY <2>2 DEF ResolveNext
    <3>2. \/ next_pending' = next_pending
          \/ \E i : next_pending' = Append(next_pending, i) /\ progressed' = progressed
      BY <2>2 DEF ResolveNext
    <3>3. CASE next_pending' = next_pending
      BY <2>1, <3>1, <3>3 DEF PassLeaves
    <3>4. ASSUME NEW i, next_pending' = Append(next_pending, i), progressed' = progressed
          PROVE  PassLeaves'
      <4>1. Len(next_pending') = Len(next_pending) + 1
        BY <3>4 DEF TypeOK
      <4> QED
        BY <2>1, <3>1, <3>4, <4>1 DEF PassLeaves
    <3> QED
      BY <3>2, <3>3, <3>4
  <2>3. CASE NextPass \/ Register \/ ResolveAgain
    <3>1. next' = 1 /\ Len(next_pending') = 0 /\ ~progressed'
      BY <2>3 DEF NextPass, Register, ResolveAgain, Call, Enter
    <3> QED
      BY <3>1 DEF PassLeaves
  <2>4. CASE UNCHANGED vars
    BY <2>4 DEF vars, PassLeaves
  <2> QED
    BY <2>2, <2>3, <2>4 DEF Next, Step
<1>3. OidInv => TypeOK
  BY DEF OidInv, Grounded
<1> QED
  BY <1>1, <1>2, <1>3, OidInvHolds, PTL DEF Spec

\* The module, what waits at the start of the pass and the position in it
\* advance in this order.
Advances ==
    /\ mod' >= mod
    /\ mod' = mod => Len(pending') <= Len(pending)
    /\ mod' = mod /\ Len(pending') = Len(pending) => next' > next

\* oid_resolver.py:76-107: a call goes forward with every step, in the list of
\* modules, with a pass over fewer objects than the one before it, or within a
\* pass, whatever the objects and their parents are; it cannot go on forever
\* over objects that wait for each other.
THEOREM EveryStepAdvances == Spec => [][round' = round => Advances]_vars
<1>1. TypeOK /\ PassLeaves /\ [Next]_vars => [round' = round => Advances]_vars
  <2> SUFFICES ASSUME TypeOK, PassLeaves, Next, round' = round PROVE Advances
    OBVIOUS
  <2>1. /\ mod \in Nat /\ next \in Nat /\ round \in Nat
        /\ Len(pending) \in Nat /\ Len(next_pending) \in Nat
        /\ next <= Len(pending) + 1
    BY InputsAreTyped, LenProperties DEF TypeOK
  <2>2. CASE ResolveNext
    <3>1. mod' = mod /\ pending' = pending /\ next' = next + 1
      BY <2>2 DEF ResolveNext
    <3> QED
      BY <2>1, <3>1 DEF Advances
  <2>3. CASE NextPass
    <3>1. mod' = mod /\ pending' = next_pending /\ progressed
      BY <2>3 DEF NextPass, Again
    <3>2. Len(pending') < Len(pending)
      BY <2>1, <3>1 DEF PassLeaves
    <3> QED
      BY <2>1, <3>1, <3>2 DEF Advances
  <2>4. CASE Register
    <3>1. mod' = mod + 1
      BY <2>4 DEF Register, Enter
    <3> QED
      BY <2>1, <3>1 DEF Advances
  <2>5. ~ResolveAgain
    BY <2>1 DEF ResolveAgain
  <2> QED
    BY <2>2, <2>3, <2>4, <2>5 DEF Next, Step
<1>2. OidInv => TypeOK
  BY DEF OidInv, Grounded
<1> QED
  BY <1>1, <1>2, OidInvHolds, PassesLeave, PTL DEF Spec
=============================================================================
