--------------------------- MODULE ResolveResult ----------------------------
(***************************************************************************)
(* What MibResolver.resolve hands over to MibCompiler: the record          *)
(* ResolveResult (resolver/resolver.py), with its modules in an order that *)
(* topological_sort (resolver/dependency.py) may return.                   *)
(*                                                                         *)
(* The three parties meet here: KahnSort returns an order or finds that    *)
(* there is none, MibResolver returns with every order a result, and       *)
(* Compile works on results.  A record has the fields                      *)
(*   asked    the requested names, which resolve() was called with         *)
(*   modules  declared names, in order                                     *)
(*   imports  name -> the names its module imports from                    *)
(*   errors   name -> "missing", "failed" or None                          *)
(*   aliases  requested name -> declared name, or None                     *)
(*   cached   the modules that came from the cache                         *)
(***************************************************************************)
EXTENDS Naturals, Sequences, SequencesExt

CONSTANTS Names,     \* module names, requested and declared
          BaseMibs,  \* BASE_MIBS, never chased as dependencies
          None

\* aliases.get(dep, dep)
TargetIn(r, n) == IF n \in Names /\ r.aliases[n] # None THEN r.aliases[n] ELSE n

\* Each import that leads to a module of q leads to one before its importer.
InOrder(q, r) ==
    \A i \in DOMAIN q : \A n \in r.imports[q[i]] :
        TargetIn(r, n) \in ToSet(q) => \E j \in 1 .. (i - 1) : q[j] = TargetIn(r, n)

\* topological_sort may return the list q of the modules ms.
IsOrder(q, ms, r) ==
    /\ q \in Seq(ms) /\ IsInjective(q) /\ ToSet(q) = ms
    /\ InOrder(q, r)

\* A name can be a module and an error, of different files.
Accounted(r, n) ==
    n \in BaseMibs \/ TargetIn(r, n) \in ToSet(r.modules) \/ r.errors[n] # None

\* Every name asked for, used as an alias or imported leads somewhere.
IsClosed(r) ==
    /\ \A n \in Names : r.aliases[n] # None => r.aliases[n] \in ToSet(r.modules)
    /\ \A n \in r.asked : Accounted(r, n)
    /\ \A m \in ToSet(r.modules) : \A n \in r.imports[m] : Accounted(r, n)

IsResolution(r) ==
    /\ r.modules \in Seq(Names) /\ IsInjective(r.modules)
    /\ r.asked \subseteq Names \cup BaseMibs
    /\ r.imports \in [Names -> SUBSET (Names \cup BaseMibs)]
    /\ r.errors \in [Names -> {"missing", "failed", None}]
    /\ r.aliases \in [Names -> Names \cup {None}]
    /\ r.cached \subseteq Names
    /\ InOrder(r.modules, r)
    /\ IsClosed(r)
=============================================================================
