---------------------------- MODULE OidResolution ----------------------------
(***************************************************************************)
(* resolve_oids (resolver/oid_resolver.py): the objects of a list of       *)
(* modules get absolute OIDs, module by module, in as many passes over a   *)
(* module as make progress.  The same modules may be resolved again.       *)
(***************************************************************************)
EXTENDS Naturals, Sequences, FiniteSets

CONSTANTS
    N,          \* the modules are 1..N, in the order of the list
    Symbols,
    Arcs,       \* what a path is made of
    WellKnown,  \* WellKnown[s]: the path of a well-known root, or None
    Listings,   \* what the parser may have made of the N modules
    Importings, \* what their import clauses may be: see imports
    Requested,  \* names of misnamed files
    aliases,    \* requested name -> declared name (merged over the modules)
    Rounds,     \* bound: how often the modules are resolved
    None

Modules == 1 .. N
Paths == Seq(Arcs)
Objects == [name : Symbols, oid_parent : Symbols \cup {None}, oid_path : Paths]

ASSUME InputsAreTyped ==
    /\ N \in Nat /\ Rounds \in Nat
    /\ None \notin Symbols /\ None \notin Paths
    /\ None \notin Modules /\ Modules \cap Requested = {}
    /\ WellKnown \in [Symbols -> (Paths \ {<<>>}) \cup {None}]
    /\ Listings \subseteq [Modules -> Seq(Objects)]
    /\ Importings \subseteq [Modules -> [Symbols -> Modules \cup Requested \cup {None}]]
    /\ aliases \in [Requested -> Modules]

VARIABLES
    objs,           \* objs[m]: the objects, then the notifications, of m
    closure_paths,  \* closure_paths[m][s]: None where there is no entry
    mod,            \* module under way (N + 1: returned)
    module_paths,
    pending,        \* the objects of this pass, as indices of objs[mod]
    next,           \* position in pending
    next_pending,
    progressed,
    round,
    imports,        \* imports[m][s]: the name s is imported from in m, or None
    given           \* history: objs as the parser made them

vars == <<objs, closure_paths, mod, module_paths, pending, next,
          next_pending, progressed, round, imports, given>>

NoPaths == [s \in Symbols |-> None]
AllOf(list, m) == [i \in 1 .. Len(list[m]) |-> i]
Returned == mod = N + 1

Init ==
    /\ given \in Listings
    /\ imports \in Importings
    /\ objs = given
    /\ closure_paths = [m \in Modules |-> NoPaths]
    /\ mod = 1
    /\ module_paths = NoPaths
    /\ pending = IF N = 0 THEN <<>> ELSE AllOf(given, 1)
    /\ next = 1
    /\ next_pending = <<>>
    /\ progressed = FALSE
    /\ round = 1
-----------------------------------------------------------------------------
(* _lookup_parent: the symbol s in the namespace of module m, where own    *)
(* are the paths of m itself and tables those of the modules before it.    *)
Provider(m, s) ==
    LET p == imports[m][s] IN IF p \in Requested THEN aliases[p] ELSE p

Candidates(s, tables) == {k \in Modules : tables[k][s] # None}

\* Mutant: one table for all modules, the last definition wins.
LastVisited(s, m, own, tables) ==
    IF own[s] # None THEN own[s]
    ELSE IF Candidates(s, tables) # {}
    THEN LET k == CHOOSE k \in Candidates(s, tables) :
                    \A j \in Candidates(s, tables) : j <= k
         IN  tables[k][s]
    ELSE WellKnown[s]

Lookup(s, m, own, tables) ==
    IF own[s] # None THEN own[s]
    ELSE IF imports[m][s] # None /\ tables[Provider(m, s)][s] # None
    THEN tables[Provider(m, s)][s]
    ELSE IF WellKnown[s] # None THEN WellKnown[s]
    ELSE IF \E k \in Candidates(s, tables) : Candidates(s, tables) = {k}
    THEN LET k == CHOOSE k \in Candidates(s, tables) : TRUE IN tables[k][s]
    ELSE None

\* _resolve_one
PathOf(obj, m, own, tables) ==
    IF obj.oid_parent = None
    THEN IF obj.oid_path # <<>> THEN obj.oid_path ELSE None
    ELSE LET parent == Lookup(obj.oid_parent, m, own, tables) IN
         IF parent # None THEN parent \o obj.oid_path ELSE None
-----------------------------------------------------------------------------
Recorded(s, path) == [module_paths EXCEPT ![s] = path]

\* Mutant: the parent stays on a resolved object.
KeepParent(obj, path) == [obj EXCEPT !.oid_path = path]

Resolved(obj, path) == [obj EXCEPT !.oid_path = path, !.oid_parent = None]

\* The body of the loop over pending.
ResolveNext ==
    /\ ~Returned
    /\ next <= Len(pending)
    /\ LET i == pending[next]
           obj == objs[mod][i]
           path == PathOf(obj, mod, module_paths, closure_paths)
       IN  \/ /\ path # None
              /\ objs' = [objs EXCEPT ![mod][i] = Resolved(obj, path)]
              /\ module_paths' = Recorded(obj.name, path)
              /\ progressed' = TRUE
              /\ UNCHANGED next_pending
           \/ /\ path = None
              /\ next_pending' = Append(next_pending, i)
              /\ UNCHANGED <<objs, module_paths, progressed>>
    /\ next' = next + 1
    /\ UNCHANGED <<closure_paths, mod, pending, round, imports, given>>

\* Mutant: one pass per module.
OnePass == FALSE

\* Mutant: another pass whatever this one did.
WhilePending == next_pending # <<>>

\* Another pass, if this one made progress and left something.
Again == progressed /\ next_pending # <<>>

NextPass ==
    /\ ~Returned
    /\ next > Len(pending)
    /\ Again
    /\ pending' = next_pending
    /\ next' = 1
    /\ next_pending' = <<>>
    /\ progressed' = FALSE
    /\ UNCHANGED <<objs, closure_paths, mod, module_paths, round, imports, given>>

Enter(list, m) ==
    /\ mod' = m
    /\ module_paths' = NoPaths
    /\ pending' = IF m \in Modules THEN AllOf(list, m) ELSE <<>>
    /\ next' = 1
    /\ next_pending' = <<>>
    /\ progressed' = FALSE

Register ==
    /\ ~Returned
    /\ next > Len(pending)
    /\ ~Again
    /\ closure_paths' = [closure_paths EXCEPT ![mod] = module_paths]
    /\ Enter(objs, mod + 1)
    /\ UNCHANGED <<objs, round, imports, given>>

\* A call with these objects.
Call(list) ==
    /\ objs' = list
    /\ closure_paths' = [m \in Modules |-> NoPaths]
    /\ Enter(list, 1)

\* resolve_oids is called again with the same modules.
ResolveAgain ==
    /\ Returned
    /\ round < Rounds
    /\ round' = round + 1
    /\ Call(objs)
    /\ UNCHANGED <<imports, given>>

Step == ResolveNext \/ NextPass \/ Register
Next == Step \/ ResolveAgain
Spec == Init /\ [][Next]_vars

\* A call runs to its end.
FairSpec == Spec /\ WF_vars(Step)
-----------------------------------------------------------------------------
Done(obj) == obj.oid_parent = None /\ obj.oid_path # <<>>

\* The paths that module m has for the symbol s.
Exports(m, s) ==
    {objs[m][i].oid_path :
        i \in {j \in 1 .. Len(objs[m]) : objs[m][j].name = s /\ Done(objs[m][j])}}

Exporters(m, s) == {k \in 1 .. (m - 1) : Exports(k, s) # {}}

Imported(m, s) ==
    imports[m][s] # None /\ Provider(m, s) \in Exporters(m, s)

\* The paths that s may have in module m if m itself has none for it.
Foreign(m, s) ==
    IF Imported(m, s) THEN Exports(Provider(m, s), s)
    ELSE IF WellKnown[s] # None THEN {WellKnown[s]}
    ELSE IF \E k \in Modules : Exporters(m, s) = {k}
    THEN UNION {Exports(k, s) : k \in Exporters(m, s)}
    ELSE {}

Under(paths, arcs) == {q \o arcs : q \in paths}

TypeOK ==
    /\ imports \in Importings
    /\ objs \in [Modules -> Seq(Objects)]
    /\ given \in [Modules -> Seq(Objects)]
    /\ closure_paths \in [Modules -> [Symbols -> Paths \cup {None}]]
    /\ module_paths \in [Symbols -> Paths \cup {None}]
    /\ mod \in 1 .. N + 1
    /\ pending \in Seq(Nat) /\ next_pending \in Seq(Nat)
    /\ next \in 1 .. Len(pending) + 1
    /\ progressed \in BOOLEAN
    /\ round \in Nat

\* oid_resolver.py:10-17: an object that had a parent hangs under a path its
\* parent has: in its own module, or by import, as a well-known root, or in
\* the only module before it that has the name.  An object that has no
\* absolute path is as the parser left it.
Grounded ==
    /\ TypeOK
    /\ \A m \in Modules : \A i \in 1 .. Len(objs[m]) :
           LET old == given[m][i]
               new == objs[m][i]
           IN  \/ new = old
               \/ /\ new.name = old.name
                  /\ new.oid_parent = None
                  /\ old.oid_parent # None
                  /\ new.oid_path \in
                       Under(Exports(m, old.oid_parent) \cup Foreign(m, old.oid_parent),
                             old.oid_path)

\* oid_resolver.py:83-110: what is left unresolved in a module that is done
\* has no path for its parent, however the module lists its objects.
NothingMissed ==
    \A m \in Modules : m < mod \/ round > 1 =>
        \A i \in 1 .. Len(objs[m]), s \in Symbols :
            objs[m][i].oid_parent = s => Exports(m, s) = {} /\ Foreign(m, s) = {}

\* oid_resolver.py:104: resolving the same modules again changes nothing.
Idempotent == [][round > 1 => objs' = objs]_vars

\* oid_resolver.py:12, 74-77: a symbol the module defines is meant before
\* one that it does not define.
OwnDefinitionsFirst ==
    Returned =>
        \A m \in Modules : \A i \in 1 .. Len(objs[m]) :
            LET s == given[m][i].oid_parent IN
            s \notin {None, given[m][i].name} /\ Exports(m, s) # {} =>
                objs[m][i].oid_path \in Under(Exports(m, s), given[m][i].oid_path)

\* The passes over a module end: every call returns.
Termination == []<>Returned
=============================================================================
