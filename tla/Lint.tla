-------------------------------- MODULE Lint ---------------------------------
(***************************************************************************)
(* run_lint (lint.py): the closure of some names is resolved and checked,  *)
(* resolve_oids runs between the checks, and --fix rewrites local files.   *)
(* A user edits the files meanwhile, and runs it again and again.          *)
(***************************************************************************)
EXTENDS LintFixes

CONSTANTS
    Names,        \* modules; each has a file of its own name
    Asked,        \* the names given on the command line
    Args,         \* what it may be called with: [fix, diff, fail_level] and
                  \* readers: name -> text of a reader asked before the files
    FirstFiles,   \* what the --mib-dir may hold at the start
    Edits,        \* Edits[n]: the texts a user may write to the file of n
    MaxEdits,     \* bound: edits
    Cached,       \* Cached[n]: text of the cache entry for offline use, or None
    IOErrors,     \* BOOLEAN: files may fail to be read or written
    Symbols, Arcs, WellKnown

\* A text of the module n: files, readers and the cache are well-named.
IsTextOf(n, t) ==
    /\ t = [name |-> n, clauses |-> t.clauses, body |-> t.body]
    /\ t.clauses \in Seq(ToSet(t.clauses))
    /\ \A c \in ToSet(t.clauses) : c = [from |-> c.from, symbols |-> c.symbols]
    /\ t.body \in DOMAIN Bodies

ASSUME TextsAssumption ==
    /\ \A d \in FirstFiles \cup {Cached} \cup {a.readers : a \in Args} :
           /\ d \in [Names -> Range(d)]
           /\ \A n \in Names : d[n] # None => IsTextOf(n, d[n])
    /\ \A n \in Names : \A t \in Edits[n] : IsTextOf(n, t)

\* The objects of a body are a list of records, with finitely many references;
\* its types have different names (they are a dict).
ASSUME BodiesAssumption ==
    \A b \in DOMAIN Bodies :
        /\ Bodies[b].objs \in Seq(ToSet(Bodies[b].objs))
        /\ \A o \in ToSet(Bodies[b].objs) :
               o = [name |-> o.name, kind |-> o.kind, syntax |-> o.syntax,
                    oid_parent |-> o.oid_parent, oid_path |-> o.oid_path, refs |-> o.refs,
                    status |-> o.status, description |-> o.description]
        /\ IsFiniteSet(ToSet(References(Bodies[b])))
        /\ Bodies[b].types \in Seq(ToSet(Bodies[b].types))
        /\ \A t, u \in ToSet(Bodies[b].types) : t.name = u.name => t = u
        /\ Bodies[b].rest \in DOMAIN Bodies

ASSUME BoundsAssumption == IsFiniteSet(Names) /\ MaxEdits \in Nat

VARIABLES
    files,       \* the --mib-dir: name -> text or None
    edits,       \* edits so far
    args,        \* of this run
    exit,        \* its exit code, or None
    phase,       \* "idle", "references", "oids", "fix", "parse" or "done"
    modules,     \* the modules of the ResolveResult, sorted
    imports,     \* imports[k][s]: place of the module s is imported from
    live,        \* name -> text a module of the result was made of, or None
    fingerprinted, \* names with a source fingerprint
    unresolved,  \* resolve_result.errors
    findings,    \* the findings that remain
    fixed,       \* <<finding, "fixed" or "left">>
    todo,        \* modules with fixable findings that are still to come
    rewrite,     \* the text that is being parsed, of the module and findings
    found,       \* history: all findings, before any was fixed
    wrote,       \* history: name -> text this run has written, or None
    overtaken,   \* history: the file has been edited since it was compared
    calm,        \* history: 0 after an edit, 1 in a run since, 2 after that run
    objs, closure_paths, mod, module_paths, pending, next,
    next_pending, progressed

result == <<modules, imports, live, fingerprinted, unresolved>>
report == <<findings, fixed, found>>
oids == <<objs, closure_paths, mod, module_paths, pending, next,
          next_pending, progressed>>
vars == <<files, edits, args, exit, phase, result, report, todo, rewrite, wrote, overtaken,
          calm, oids>>
-----------------------------------------------------------------------------
(* The resolver (MibResolver) in one step, for well-named files            *)
Source(n) ==
    IF args.readers[n] # None THEN args.readers[n]
    ELSE IF files[n] # None THEN files[n] ELSE Cached[n]

Loads(n) == n \in Names /\ Source(n) # None /\ Parses(Source(n))
Dependencies(text) == {c.from : c \in ToSet(text.clauses)} \ BaseMibs

Needed ==
    LET all == Names \cup UNION {Dependencies(Source(n)) : n \in {m \in Names : Loads(m)}}
        closed == {S \in SUBSET all :
                     /\ Asked \subseteq S
                     /\ \A n \in S : Loads(n) => Dependencies(Source(n)) \subseteq S}
    IN  {n \in all : \A S \in closed : n \in S}

Sorted(S) ==
    {q \in [1 .. Cardinality(S) -> S] :
        /\ ToSet(q) = S
        /\ \A i, j \in DOMAIN q : q[j] \in Dependencies(Source(q[i])) => j < i}

Loaded == {modules[k].name : k \in DOMAIN modules}
Module(n) == CHOOSE m \in ToSet(modules) : m.name = n

\* The modules with what resolve_oids has made of their objects so far.
Current(k) ==
    [modules[k] EXCEPT !.objs =
        [i \in DOMAIN @ |-> [@[i] EXCEPT !.oid_parent = objs[k][i].oid_parent,
                                         !.oid_path = objs[k][i].oid_path]]]
Closure == {Current(k) : k \in DOMAIN modules}

\* What resolve_oids is called with; unused places have modules without objects.
Places == 1 .. Cardinality(Names)
Given ==
    [k \in Places |->
        IF k > Len(modules) THEN <<>>
        ELSE [i \in DOMAIN modules[k].objs |->
                LET o == modules[k].objs[i] IN
                [name |-> o.name, oid_parent |-> o.oid_parent, oid_path |-> o.oid_path]]]
ImportMap(ms) ==
    [k \in Places |-> [s \in Symbols |->
        LET at == {j \in DOMAIN ms : k \in DOMAIN ms /\ s \in Imported(ms[k])
                                        /\ ms[j].name = ProviderOf(ms[k], s)}
        IN  IF at = {} THEN None ELSE CHOOSE j \in at : TRUE]]

Oids == INSTANCE OidResolution WITH
            N <- Cardinality(Names), given <- Given, round <- 1,
            Rounds <- 1, Listings <- {}, Importings <- {}, Requested <- {}, aliases <- <<>>
-----------------------------------------------------------------------------
Init ==
    /\ files \in FirstFiles
    /\ edits = 0
    /\ args \in Args /\ exit = None
    /\ phase = "idle"
    /\ modules = <<>> /\ imports = ImportMap(<<>>)
    /\ live = [n \in Names |-> None]
    /\ fingerprinted = {} /\ unresolved = {}
    /\ findings = {} /\ fixed = {} /\ found = {}
    /\ todo = {}
    /\ rewrite = None
    /\ wrote = [n \in Names |-> None]
    /\ overtaken = FALSE
    /\ calm = 0
    /\ objs = Given
    /\ closure_paths = [k \in Places |-> Oids!NoPaths]
    /\ mod = Cardinality(Names) + 1
    /\ module_paths = Oids!NoPaths
    /\ pending = <<>> /\ next_pending = <<>>
    /\ next = 1
    /\ progressed = FALSE

\* A run without --fix, with --fix or with --fix --diff starts; it is over at
\* once if the imports are circular.
Resolve ==
    /\ phase = "idle"
    /\ LET loaded == {n \in Needed : Loads(n)} IN
       /\ Sorted(loaded) # {}
       /\ \E order \in Sorted(loaded) :
             modules' = [k \in DOMAIN order |-> Parsed(Source(order[k]))]
       /\ imports' = ImportMap(modules')
       /\ live' = [n \in Names |-> IF n \in loaded THEN Source(n) ELSE None]
       /\ fingerprinted' = {n \in loaded : args.readers[n] # None \/ files[n] # None}
       /\ unresolved' = Needed \ loaded
    /\ Oids!Call(Given')
    /\ findings' = {} /\ fixed' = {} /\ found' = {}
    /\ wrote' = [n \in Names |-> None]
    /\ calm' = IF calm = 0 THEN 1 ELSE calm
    /\ phase' = "references"
    /\ UNCHANGED <<args, exit, files, edits, todo, rewrite, overtaken>>

\* Mutant: the reference checks look at the objects after resolve_oids, when
\* their parents are gone.
Parentless ==
    {[m EXCEPT !.objs = [i \in DOMAIN @ |-> [@[i] EXCEPT !.oid_parent = None]]] : m \in Closure}

Inspected == Closure

\* _run_reference_checks and _run_clause_checks
ReferenceChecks ==
    /\ phase = "references"
    /\ findings' = UNION {MissingImports(m) \cup UnusedImports(m)
                            \cup UndefinedTypes(Inspected, m)
                            \cup MissingStatus(m) \cup MissingDescription(m) : m \in Inspected}
    /\ phase' = "oids"
    /\ UNCHANGED <<args, exit, files, edits, result, fixed, found, todo, rewrite, wrote, overtaken,
                   calm, oids>>

ResolveOids ==
    /\ phase = "oids"
    /\ UNCHANGED <<args, exit, files, edits, phase, result, report, todo, rewrite, wrote, overtaken,
                   calm>>
    /\ Oids!Step

FixableOf(n) == {f \in findings : f.module = n /\ IsFixable(f, Module(n))}

\* _run_oid_checks, and the start of _apply_fixes
OidChecks ==
    /\ phase = "oids"
    /\ Oids!Returned
    /\ found' = findings \cup DuplicateOids(Closure)
                  \cup UNION {UnresolvableOids(m) : m \in Closure}
    /\ findings' = found'
    /\ todo' = IF args.fix THEN {n \in Loaded : FixableOf(n) # {}} ELSE {}
    /\ phase' = "fix"
    /\ UNCHANGED <<args, exit, files, edits, result, fixed, rewrite, wrote, overtaken, calm, oids>>
-----------------------------------------------------------------------------
(* _apply_fixes, for one module after the other                            *)
Hopeless(n) == {f \in FixableOf(n) : CannotFix(Closure, Module(n), f)}
Editable(n) == FixableOf(n) \ Hopeless(n)

NewText(n) ==
    Edited(files[n], Removals(Module(n), Editable(n)),
           Additions(Closure, Module(n), Editable(n)))

\* Mutant: a finding that cannot be fixed is not listed.
Forgotten(fs) == fixed

Left(fs) == fixed \cup {<<f, "left">> : f \in fs}

\* Mutant: any local file of the name of the module is edited.
IsLocal(n) == files[n] # None

\* The local file is the source of the module (_locate_local_source_path and
\* the source-identity guard).
IsSource(n) == files[n] # None /\ n \in fingerprinted /\ files[n] = live[n]

Leave(n) ==
    /\ phase = "fix"
    /\ n \in todo
    /\ \/ ~IsSource(n)
       \/ Editable(n) = {}
       \/ IsSource(n) /\ NewText(n) = files[n]
       \/ IOErrors    \* the file cannot be read
    /\ fixed' = Left(FixableOf(n))
    /\ todo' = todo \ {n}
    /\ UNCHANGED <<args, exit, files, edits, phase, result, findings, found, rewrite, wrote,
                   overtaken, calm, oids>>

\* The event loop is free while a thread parses the new text.
Propose(n) ==
    /\ phase = "fix"
    /\ n \in todo
    /\ IsSource(n)
    /\ Editable(n) # {}
    /\ NewText(n) # files[n]
    /\ rewrite' = [name |-> n, new |-> NewText(n), editable |-> Editable(n)]
    /\ fixed' = Left(Hopeless(n))
    /\ todo' = todo \ {n}
    /\ overtaken' = FALSE
    /\ phase' = "parse"
    /\ UNCHANGED <<args, exit, files, edits, result, findings, found, wrote, calm, oids>>

RollBack ==
    /\ phase = "parse"
    /\ ~Parses(rewrite.new) \/ (IOErrors /\ ~args.diff)   \* or it cannot be written
    /\ fixed' = Left(rewrite.editable)
    /\ rewrite' = None
    /\ phase' = "fix"
    /\ UNCHANGED <<args, exit, files, edits, result, findings, found, todo, wrote, overtaken, calm,
                   oids>>

\* The file is not compared again: whatever is there by now is overwritten.
Apply ==
    /\ phase = "parse"
    /\ Parses(rewrite.new)
    /\ IF args.diff
       THEN UNCHANGED <<files, wrote>>
       ELSE /\ files' = [files EXCEPT ![rewrite.name] = rewrite.new]
            /\ wrote' = [wrote EXCEPT ![rewrite.name] = rewrite.new]
    /\ findings' = findings \ rewrite.editable
    /\ fixed' = fixed \cup {<<f, "fixed">> : f \in rewrite.editable}
    /\ rewrite' = None
    /\ phase' = "fix"
    /\ UNCHANGED <<args, exit, edits, result, found, todo, overtaken, calm, oids>>

\* Which findings matter is up to --fail-level (cli/main.py, lint).
ExitCode ==
    IF unresolved # {} \/ \E f \in findings :
                              args.fail_level = "all" \/ f.severity = "error"
    THEN 1 ELSE 0

Report ==
    /\ phase = "fix"
    /\ todo = {}
    /\ phase' = "done"
    /\ calm' = IF calm = 1 /\ args.fix /\ ~args.diff THEN 2 ELSE calm
    /\ exit' = ExitCode
    /\ UNCHANGED <<args, files, edits, result, report, todo, rewrite, wrote, overtaken, oids>>

\* The command is given again.
Again ==
    /\ phase = "done"
    /\ phase' = "idle"
    /\ args' \in Args /\ exit' = None
    /\ UNCHANGED <<files, edits, result, report, todo, rewrite, wrote, overtaken, calm, oids>>

\* A user edits a file.  Before "fix" nobody looks at the files, so an edit
\* then is the same as one at the start of "fix".
Edit(n) ==
    /\ phase \in {"idle", "fix", "parse"}
    /\ edits < MaxEdits
    /\ files' \in {[files EXCEPT ![n] = t] : t \in Edits[n] \ {files[n]}}
    /\ edits' = edits + 1
    /\ calm' = 0
    /\ overtaken' = (overtaken \/ (phase = "parse" /\ n = rewrite.name))
    /\ UNCHANGED <<args, exit, phase, result, report, todo, rewrite, wrote, oids>>

FixStep == \E n \in Names : Leave(n) \/ Propose(n)
Lint == Resolve \/ ReferenceChecks \/ ResolveOids \/ OidChecks \/ FixStep
          \/ RollBack \/ Apply \/ Report

Next == Lint \/ Again \/ \E n \in Names : Edit(n)
Spec == Init /\ [][Next]_vars
-----------------------------------------------------------------------------
TypeOK ==
    /\ phase \in {"idle", "references", "oids", "fix", "parse", "done"}
    /\ Loaded \subseteq Names /\ todo \subseteq Loaded
    /\ fingerprinted \subseteq Loaded
    /\ phase = "parse" =>
           /\ rewrite.name \in Loaded \ todo
           /\ rewrite.editable # {} /\ rewrite.editable \subseteq FixableOf(rewrite.name)
    /\ calm \in 0 .. 2 /\ edits \in 0 .. MaxEdits /\ overtaken \in BOOLEAN

FixedOnes == {f \in found : <<f, "fixed">> \in fixed}
LeftOnes == {f \in found : <<f, "left">> \in fixed}

\* lint.py:1371-1374 (_apply_fixes), cli/main.py:550-553: a finding is either still reported or
\* listed as fixed, one that is listed as left is still reported, and at the
\* end of --fix each finding that --fix is for is listed, once.  The exit code
\* is 0 if all that was found (or just the errors) is fixed and resolved.
FindingsAccounted ==
    /\ TypeOK
    /\ phase \in {"fix", "parse", "done"} =>
           /\ findings = found \ FixedOnes
           /\ LeftOnes \subseteq findings
           /\ {e[1] : e \in fixed} \subseteq found
    /\ phase = "done" /\ args.fix =>
           FixedOnes \cup LeftOnes =
               {f \in found : IsFixable(f, Module(f.module))}
    /\ phase = "done" =>
           (exit = 0) <=>
               /\ unresolved = {}
               /\ {f \in found : args.fail_level = "all" \/ f.severity = "error"}
                      \subseteq FixedOnes

LintWrites == files' # files /\ edits' = edits

\* lint.py:1473-1513: lint --fix, and not --diff, writes one file at a time,
\* never that of a module the cache stood in for, and what is in the file
\* is the text the findings are about, whoever has edited which files, unless
\* it has been edited after the two were compared, while the new text was
\* parsed.
RewritesResolvedSource ==
    [][LintWrites =>
          /\ args.fix /\ ~args.diff
          /\ \E n \in fingerprinted :
                /\ files' = [files EXCEPT ![n] = files'[n]]
                /\ files[n] = live[n] \/ overtaken]_vars

\* docs/cli.md:222: lint --fix changes nothing of a file but its imports.
OnlyImportsChange ==
    [][LintWrites =>
          \E n \in {m \in Names : files[m] # None} :
              files' = [files EXCEPT ![n].clauses = files'[n].clauses]]_vars

ImportFindings(m) == MissingImports(m) \cup UnusedImports(m)
ImportedOnce(m) ==
    \A s \in Imported(m) : Cardinality(Importers(m, s)) = 1

\* lint.py:1597-1604: of the findings about imports, the new text of a module
\* has exactly those that are not listed as fixed, and none that are new (if
\* no symbol is imported from two modules, and no definition went with the
\* lines of the IMPORTS).
FixesAreExact ==
    phase \in {"fix", "done"} =>
        \A n \in {m \in Names : wrote[m] # None} :
            wrote[n].body = live[n].body /\ ImportedOnce(Module(n)) =>
            ImportFindings(Parsed(wrote[n])) = ImportFindings(Module(n)) \ FixedOnes

\* The definitions of types that are based, in any number of steps, on a base
\* type: the least set that is closed under "is based on".
Sees(m, s, d) ==
    /\ s \in TypeNames(d)
    /\ d # m => s \notin TypeNames(m) /\ s \in Imported(m) /\ ProviderOf(m, s) = d.name
IsBased(closure, R, m, s) ==
    \/ s \in BuiltIn \/ IsTrusted(m, s)
    \/ \E d \in closure : Sees(m, s, d) /\ <<d.name, s>> \in R
Definitions(closure) == UNION {{m.name} \X TypeNames(m) : m \in closure}
IsClosed(closure, R) ==
    \A m \in closure : \A t \in ToSet(m.types) :
        t.base # None /\ IsBased(closure, R, m, t.base) => <<m.name, t.name>> \in R
Based(closure) ==
    {x \in Definitions(closure) :
        \A R \in SUBSET Definitions(closure) : IsClosed(closure, R) => x \in R}

\* A type that some module defines is that type for all the others.
NamesAgree(ms) ==
    \A d \in ms : \A s \in TypeNames(d) : \A m \in ms :
        ~IsTrusted(m, s) /\ (s \in TypeNames(m) => m = d)

\* lint.py:481-523: undefined-type is reported for just the visible types
\* whose chain of definitions does not end in a base type (if no two modules
\* define a type of the same name, and no module has it from a base MIB).
TypesAreExact ==
    phase = "oids" /\ mod = 1 /\ next = 1 =>
        LET ms == ToSet(modules) IN
        NamesAgree(ms) =>
            \A m \in ms : \A s \in SyntaxSymbols(m) \cap (Defined(m) \cup Imported(m)) :
                Finding("undefined-type", "error", m, s, None) \in findings
                    <=> ~IsBased(ms, Based(ms), m, s)

\* When the user stops editing, lint --fix given again and again stops
\* writing: what it adds it does not take away the next time.
Settles == <>[][files' = files]_vars

\* docs/cli.md:220: a second run of --fix changes nothing.
NoopSecondTime == [][calm = 2 /\ calm' = 2 => files' = files]_vars
=============================================================================
