------------------------------ MODULE KahnSort ------------------------------
(***************************************************************************)
(* topological_sort (resolver/dependency.py): Kahn's algorithm over the    *)
(* resolved modules.  An import is an edge once it is mapped through       *)
(* aliases; two imports of a module that map to the same provider count    *)
(* twice in in_degree and are taken off twice.                             *)
(*                                                                         *)
(* modules, imports and aliases are the arguments and never change; the    *)
(* other variables are the function's locals.                              *)
(***************************************************************************)
EXTENDS Naturals, Sequences, FiniteSets, Functions

CONSTANTS Names,    \* MIB names; their order is the order of sorted()
          None,     \* no alias
          Inputs    \* the calls: records with modules, imports and aliases

ASSUME NamesAreOrderedAndFew == Names \subseteq Nat /\ IsFiniteSet(Names)

ASSUME NoneIsNoName == None \notin Names

ASSUME InputsAreGraphs ==
    \A g \in Inputs : /\ g.modules \subseteq Names
                      /\ g.imports \in [g.modules -> SUBSET Names]
                      /\ g.aliases \in [Names -> Names \cup {None}]

VARIABLES modules,    \* declared names of the modules to sort
          imports,    \* all_imports() of each
          aliases,    \* requested name -> declared name
          in_degree,
          queue,
          result,
          outcome     \* "running", "sorted" or "cycle" (the error)

args == <<modules, imports, aliases>>
vars == <<args, in_degree, queue, result, outcome>>

\* aliases.get(dep, dep)
Provider(d) == IF aliases[d] = None THEN d ELSE aliases[d]

\* The imports of m that contribute an edge, and those that lead to p.
Deps(m) == {d \in imports[m] : Provider(d) \in modules}
Edges(p, m) == {d \in imports[m] : Provider(d) = p}

\* The sequences sorted() may return for a set: there is one.
Sortings(S) == {q \in [1..Cardinality(S) -> S] :
                   \A i, j \in 1..Cardinality(S) : i < j => q[i] < q[j]}

TypeOK ==
    /\ modules \subseteq Names
    /\ imports \in [modules -> SUBSET Names]
    /\ aliases \in [Names -> Names \cup {None}]
    /\ in_degree \in [modules -> Nat]
    /\ queue \in Seq(modules)
    /\ result \in Seq(modules)
    /\ outcome \in {"running", "sorted", "cycle"}

\* Mutant: imports that need an alias are not counted.
InitUnaliased ==
    /\ \E g \in Inputs : /\ modules = g.modules
                         /\ imports = g.imports
                         /\ aliases = g.aliases
    /\ in_degree = [m \in modules |-> Cardinality(imports[m] \cap modules)]
    /\ queue \in Sortings({m \in modules : in_degree[m] = 0})
    /\ result = <<>>
    /\ outcome = "running"

Init ==
    /\ \E g \in Inputs : /\ modules = g.modules
                         /\ imports = g.imports
                         /\ aliases = g.aliases
    /\ in_degree = [m \in modules |-> Cardinality(Deps(m))]
    /\ queue \in Sortings({m \in modules : in_degree[m] = 0})
    /\ result = <<>>
    /\ outcome = "running"

\* The modules that lose their last missing import when p is placed.
Freed(p) == {m \in modules : /\ Edges(p, m) # {}
                             /\ in_degree[m] = Cardinality(Edges(p, m))}

Place ==
    /\ outcome = "running"
    /\ queue # <<>>
    /\ LET node == Head(queue) IN
          /\ result' = Append(result, node)
          /\ in_degree' = [m \in modules |->
                              in_degree[m] - Cardinality(Edges(node, m))]
          /\ \E q \in Sortings(Freed(node)) : queue' = Tail(queue) \o q
    /\ UNCHANGED <<args, outcome>>

\* Mutant: only an empty list counts as a cycle.
FinishUnlessEmpty ==
    /\ outcome = "running"
    /\ queue = <<>>
    /\ outcome' = IF result = <<>> /\ modules # {} THEN "cycle" ELSE "sorted"
    /\ UNCHANGED <<args, in_degree, queue, result>>

Finish ==
    /\ outcome = "running"
    /\ queue = <<>>
    /\ outcome' = IF Len(result) # Cardinality(modules) THEN "cycle" ELSE "sorted"
    /\ UNCHANGED <<args, in_degree, queue, result>>

Next == Place \/ Finish

Spec == Init /\ [][Next]_vars
-----------------------------------------------------------------------------
\* "dependencies before dependents": whatever has been placed so far, each
\* import that is one of the modules, under its own or an aliased name, has
\* been placed before its importer.
DepsComeFirst ==
    \A i \in 1..Len(result) : \A d \in Deps(result[i]) :
        \E j \in 1..(i - 1) : result[j] = Provider(d)

\* No module is placed or queued twice, however many of its imports are
\* satisfied by the same provider.
PlacedOnce == IsInjective(result \o queue)

\* A set of modules each of which imports one of the set.
Knot(S) == /\ S # {}
           /\ S \subseteq modules
           /\ \A m \in S : \E d \in imports[m] : Provider(d) \in S

\* CircularDependencyError is raised exactly when the imports are circular.
CycleIsCircular ==
    outcome # "running" =>
        (outcome = "cycle" <=> \E S \in SUBSET modules : Knot(S))

\* A returned list has every module.
AllPlaced == outcome = "sorted" => Range(result) = modules

\* dependency.py:20-21, 70-75: every module is in the order that is returned,
\* and the error is raised if and only if no such order exists.
OutcomeIsExact == CycleIsCircular /\ AllPlaced
=============================================================================
