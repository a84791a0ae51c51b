------------------------------- MODULE Compile -------------------------------
(***************************************************************************)
(* MibCompiler.compile after the resolver (compiler.py) and the JSON       *)
(* sidecars (output/json_bundle.py), with the exit code of tsmi compile.   *)
(* Runs follow each other in one output directory; a run may fail to write *)
(* or be killed at any point, also in the middle of a file.                *)
(***************************************************************************)
EXTENDS ResolveResult, FiniteSets

CONSTANTS
    Resolutions,  \* what resolve() may return
    Configs,      \* [formats, emit_manifest, emit_oid_index, dry_run]
    OidsOf,       \* OidsOf[n]: runtime OIDs of n's objects, None if unresolved
    MaxRuns       \* bound: runs

ModuleFiles == Names \X UNION {ToSet(c.formats) : c \in Configs}

OidIndex == <<None, "oid_index">>
Manifest == <<None, "manifest">>
Sidecars == {OidIndex, Manifest}

\* The entry of an object in oid_index.json, by its position in the module.
Claim(m, k) == [oid |-> OidsOf[m][k], module |-> m, at |-> k]
ClaimsOf(m) == {Claim(m, k) : k \in {j \in DOMAIN OidsOf[m] : OidsOf[m][j] # None}}
Claims(ms) == UNION {ClaimsOf(m) : m \in ToSet(ms)}

\* What is known of a file: the manifest lists files, the index entries.
Written == [run : Nat, whole : BOOLEAN,
            files : SUBSET (ModuleFiles \cup Sidecars),
            entries : SUBSET UNION {ClaimsOf(m) : m \in Names}]

VARIABLES
    out,      \* output_dir: file -> what is Written, or None
    run,      \* the number of the run, which is its generated_at too
    phase,    \* "idle", "emit", "report", "oid_index", "manifest", "return",
              \* "done" or "raised"
    config,
    result,   \* the ResolveResult
    blocked,  \* modules with an import that cannot be had
    at,       \* position of the loops over the modules
    fmt,      \* position of the loop over the formats
    left,     \* names of errors to be reported
    opened,   \* is the file under way open, and so truncated?
    warned,   \* files whose formatter failed
    emitted,  \* emitted_json_modules
    results,  \* <<[name, status], ...>>, as compile() returns it
    exit      \* exit code of the command, or None

local == <<config, result, blocked, at, fmt, left, opened, warned, emitted, results, exit>>
vars == <<out, run, phase, local>>
-----------------------------------------------------------------------------
ASSUME NoneAssumption ==
    /\ None \notin Names /\ None \notin {0, 1} /\ None \notin {"missing", "failed"}
    /\ None \notin Written

ASSUME ResolutionsAssumption == \A r \in Resolutions : IsResolution(r)

\* config.py refuses an empty list of formats; the formatters are a dict.
ASSUME ConfigsAssumption ==
    \A c \in Configs :
        /\ c.formats \in Seq(STRING) /\ c.formats # <<>> /\ IsInjective(c.formats)
        /\ {c.emit_manifest, c.emit_oid_index, c.dry_run} \subseteq BOOLEAN

ASSUME OidsAssumption == \A n \in Names : OidsOf[n] \in Seq(Range(OidsOf[n]))

ErrorsIn(r) == {n \in Names : r.errors[n] # None}
Target(n) == TargetIn(result, n)
Resolved == ToSet(result.modules)

\* An import of m is unresolved that is an error, blocked or not a module.
Unresolved(r, m, earlier) ==
    {n \in r.imports[m] :
        LET t == TargetIn(r, n) IN
        t \notin BaseMibs /\ (r.errors[t] # None \/ t \in earlier \/ t \notin ToSet(r.modules))}

\* Mutant: only what failed itself blocks an importer.
FailedOnly(r) ==
    {m \in ToSet(r.modules) :
        \E n \in r.imports[m] \ BaseMibs : r.errors[TargetIn(r, n)] # None}

\* The loop over the modules that fills blocked.
Blocked(r) ==
    LET after[k \in 0 .. Len(r.modules)] ==
            IF k = 0 THEN {}
            ELSE IF Unresolved(r, r.modules[k], after[k - 1]) # {}
            THEN after[k - 1] \cup {r.modules[k]}
            ELSE after[k - 1]
    IN  after[Len(r.modules)]
-----------------------------------------------------------------------------
(* json_bundle.py                                                          *)
Artifacts(ms) == SetToSeq(ToSet(ms))    \* in an order of their own

NoEntries == [map |-> {}, duplicates |-> {}]

\* Mutant: a third claim of an OID is taken for the first.
Forgetful(merged, e) ==
    LET same == {x \in merged.map : x.oid = e.oid} IN
    IF same # {} THEN [merged EXCEPT !.map = @ \ same] ELSE [merged EXCEPT !.map = @ \cup {e}]

\* _merge_oid_index_entry
Merged(merged, e) ==
    LET same == {x \in merged.map : x.oid = e.oid} IN
    IF e.oid \in merged.duplicates THEN merged
    ELSE IF same # {}
    THEN [map |-> merged.map \ same, duplicates |-> merged.duplicates \cup {e.oid}]
    ELSE [merged EXCEPT !.map = @ \cup {e}]

\* The loop over the objects of a module.
WithModule(merged, m) ==
    LET after[k \in 0 .. Len(OidsOf[m])] ==
            IF k = 0 THEN merged
            ELSE IF OidsOf[m][k] = None THEN after[k - 1]
            ELSE Merged(after[k - 1], Claim(m, k))
    IN  after[Len(OidsOf[m])]

\* The loop over the artifacts.
Index(ms) ==
    LET after[i \in 0 .. Len(Artifacts(ms))] ==
            IF i = 0 THEN NoEntries ELSE WithModule(after[i - 1], Artifacts(ms)[i])
    IN  after[Len(Artifacts(ms))].map

HasIndex == config.emit_oid_index /\ emitted # <<>>

Listed == {<<m, "json">> : m \in ToSet(emitted)} \cup {f \in {OidIndex} : HasIndex}

Cut == [run |-> run, whole |-> FALSE, files |-> {}, entries |-> {}]

Whole(file) ==
    [run |-> run, whole |-> TRUE,
     files |-> IF file = Manifest THEN Listed ELSE {},
     entries |-> IF file = OidIndex THEN Index(emitted) ELSE {}]
-----------------------------------------------------------------------------
Forget ==
    /\ at' = 1 /\ fmt' = 1 /\ opened' = FALSE
    /\ warned' = {} /\ emitted' = <<>> /\ results' = <<>>
    /\ exit' = None

Gone ==
    /\ config' = None /\ result' = None /\ blocked' = {} /\ left' = {}
    /\ Forget

Init ==
    /\ out = [f \in ModuleFiles \cup Sidecars |-> None]
    /\ run = 0
    /\ phase = "idle"
    /\ config = None /\ result = None /\ blocked = {} /\ left = {}
    /\ at = 1 /\ fmt = 1 /\ opened = FALSE
    /\ warned = {} /\ emitted = <<>> /\ results = <<>>
    /\ exit = None

\* resolve() returns, and the output directory is there.
Begin ==
    /\ phase = "idle"
    /\ run < MaxRuns
    /\ run' = run + 1
    /\ config' \in Configs
    /\ result' \in Resolutions
    /\ blocked' = Blocked(result')
    /\ left' = ErrorsIn(result')
    /\ Forget
    /\ phase' = "emit"
    /\ UNCHANGED out

\* resolve() raises (circular imports, size limit, cache error), or the
\* directory cannot be created.
BeginFails ==
    /\ phase = "idle"
    /\ run < MaxRuns
    /\ run' = run + 1
    /\ phase' = "raised"
    /\ exit' = 1
    /\ UNCHANGED <<out, config, result, blocked, at, fmt, left, opened, warned, emitted, results>>

Current == result.modules[at]
Format == config.formats[fmt]
Emitting == phase = "emit" /\ at <= Len(result.modules) /\ Current \notin blocked

\* The file under way.
File == CASE phase = "oid_index" -> OidIndex
          [] phase = "manifest" -> Manifest
          [] OTHER -> <<Current, Format>>

\* Is a sidecar to be written?
Wanted ==
    /\ ~config.dry_run /\ emitted # <<>>
    /\ IF phase = "oid_index" THEN config.emit_oid_index ELSE config.emit_manifest

Due == \/ Emitting /\ ~config.dry_run
       \/ phase \in {"oid_index", "manifest"} /\ Wanted

\* The next format; the module's result follows its last format.
NextFormat(artifact) ==
    /\ opened' = FALSE
    /\ emitted' = IF artifact /\ Format = "json" THEN Append(emitted, Current) ELSE emitted
    /\ IF fmt < Len(config.formats)
       THEN fmt' = fmt + 1 /\ UNCHANGED <<at, results>>
       ELSE /\ fmt' = 1 /\ at' = at + 1
            /\ results' = Append(results, [name |-> Current, status |->
                   IF Current \in result.cached THEN "cached" ELSE "compiled"])
    /\ UNCHANGED <<run, phase, config, result, blocked, left, exit>>

NextPhase ==
    /\ phase' = IF phase = "oid_index" THEN "manifest" ELSE "return"
    /\ opened' = FALSE
    /\ UNCHANGED <<run, config, result, blocked, at, fmt, left, warned, emitted, results, exit>>

SkipBlocked ==
    /\ phase = "emit"
    /\ at <= Len(result.modules) /\ Current \in blocked
    /\ at' = at + 1
    /\ UNCHANGED <<out, run, phase, config, result, blocked, fmt, left, opened, warned,
                   emitted, results, exit>>

\* Mutant: the module is listed although it was not formatted.
FailureIsListed == TRUE

FailureArtifact == FALSE

\* A formatter fails: a warning, and the next format.
FormatFails ==
    /\ Emitting /\ ~opened
    /\ warned' = warned \cup {File}
    /\ NextFormat(FailureArtifact)
    /\ UNCHANGED out

DryRun ==
    /\ Emitting
    /\ config.dry_run
    /\ NextFormat(TRUE)
    /\ UNCHANGED <<out, warned>>

\* The formatter returned, or the sidecar is built; its file is opened.
Open ==
    /\ Due /\ ~opened
    /\ opened' = TRUE
    /\ out' = [out EXCEPT ![File] = Cut]
    /\ UNCHANGED <<run, phase, config, result, blocked, at, fmt, left, warned, emitted,
                   results, exit>>

Write ==
    /\ Due /\ opened
    /\ out' = [out EXCEPT ![File] = Whole(File)]
    /\ IF phase = "emit" THEN NextFormat(TRUE) /\ UNCHANGED warned ELSE NextPhase

\* WriterError: the file cannot be opened, or not be written to the end.
WriteFails ==
    /\ Due
    /\ phase' = "raised"
    /\ results' = <<>>
    /\ exit' = 1
    /\ UNCHANGED <<out, run, config, result, blocked, at, fmt, left, opened, warned, emitted>>

EmitDone ==
    /\ phase = "emit" /\ at > Len(result.modules)
    /\ phase' = "report" /\ at' = 1
    /\ UNCHANGED <<out, run, config, result, blocked, fmt, left, opened, warned, emitted,
                   results, exit>>

\* The results of blocked modules follow the others.
ReportBlocked ==
    /\ phase = "report" /\ at <= Len(result.modules)
    /\ results' = IF Current \in blocked
                  THEN Append(results, [name |-> Current, status |-> "failed"])
                  ELSE results
    /\ at' = at + 1
    /\ UNCHANGED <<out, run, phase, config, result, blocked, fmt, left, opened, warned,
                   emitted, exit>>

\* Errors come last.
ReportError ==
    /\ phase = "report" /\ at > Len(result.modules) /\ left # {}
    /\ LET n == CHOOSE m \in left : TRUE IN
       /\ results' = Append(results, [name |-> n, status |-> result.errors[n]])
       /\ left' = left \ {n}
    /\ UNCHANGED <<out, run, phase, config, result, blocked, at, fmt, opened, warned,
                   emitted, exit>>

ReportDone ==
    /\ phase = "report" /\ at > Len(result.modules) /\ left = {}
    /\ phase' = "oid_index"
    /\ UNCHANGED <<out, run, local>>

\* Not asked for, a dry run, or no JSON module was emitted.
SkipSidecar ==
    /\ phase \in {"oid_index", "manifest"} /\ ~Wanted
    /\ NextPhase
    /\ UNCHANGED out

\* Mutant: only a missing module makes the command fail.
OnlyMissing == {"missing"}

FailingStatus == {"failed", "missing"}

Return ==
    /\ phase = "return"
    /\ exit' = IF \E r \in ToSet(results) : r.status \in FailingStatus THEN 1 ELSE 0
    /\ phase' = "done"
    /\ UNCHANGED <<out, run, config, result, blocked, at, fmt, left, opened, warned,
                   emitted, results>>

\* The process ends, here or at the end of the command; only what it wrote
\* remains.
Kill ==
    /\ phase # "idle"
    /\ phase' = "idle"
    /\ Gone
    /\ UNCHANGED <<out, run>>

Next ==
    \/ Begin \/ BeginFails
    \/ SkipBlocked \/ FormatFails \/ DryRun \/ Open \/ Write \/ WriteFails \/ EmitDone
    \/ ReportBlocked \/ ReportError \/ ReportDone
    \/ SkipSidecar \/ Return \/ Kill
Spec == Init /\ [][Next]_vars
-----------------------------------------------------------------------------
Compiled == {r.name : r \in {q \in ToSet(results) : q.status \in {"compiled", "cached"}}}
Named(n) == {i \in DOMAIN results : results[i].name = n}

TypeOK ==
    /\ out \in [ModuleFiles \cup Sidecars -> Written \cup {None}]
    /\ \A f \in ModuleFiles \cup Sidecars : out[f] # None => out[f].run \in 1 .. run
    /\ run \in Nat
    /\ phase \in {"idle", "emit", "report", "oid_index", "manifest", "return", "done", "raised"}
    /\ exit \in {None, 0, 1}

\* json_bundle.py:33-43, docs/cli.md:436: whatever happened to this run and
\* those before it, a manifest or an index is not newer than the files it
\* lists: they are there, and those of its own run are whole.
SidecarsAreBacked ==
    /\ TypeOK
    /\ \A s \in {t \in Sidecars : out[t] # None} :
           \A f \in out[s].files \cup {<<e.module, "json">> : e \in out[s].entries} :
               /\ out[f] # None /\ out[f].run >= out[s].run
               /\ out[f].run = out[s].run => out[f].whole

\* json_bundle.py:151-172: the index has exactly the OIDs that one object of
\* the emitted modules claims, however many claim the others.
IndexIsUnambiguous ==
    phase # "idle" /\ out[OidIndex] # None /\ out[OidIndex].whole /\ out[OidIndex].run = run =>
        out[OidIndex].entries =
            {e \in Claims(emitted) : \A x \in Claims(emitted) : x.oid = e.oid => x = e}

\* compiler.py:136-156: compile() reports each module once (a name that is an
\* error of another file as well twice).  It reports as compiled just those
\* whose imports it could compile, and those have all their outputs but for
\* warnings.
ReportIsExact ==
    phase = "done" =>
        /\ \A n \in Names : Cardinality(Named(n)) =
               (IF n \in Resolved THEN 1 ELSE 0) + (IF result.errors[n] # None THEN 1 ELSE 0)
        /\ \A m \in Resolved :
               m \in Compiled <=>
                   \A n \in result.imports[m] :
                       Target(n) \notin BaseMibs =>
                           Target(n) \in Compiled \cup {m} /\ result.errors[Target(n)] = None
        /\ ~config.dry_run =>
               \A m \in Compiled, f \in ToSet(config.formats) :
                   <<m, f>> \in warned \/ (out[<<m, f>>].run = run /\ out[<<m, f>>].whole)

\* cli/main.py:427-428, json_bundle.py:52-60: after exit code 0 everything
\* that was asked for, and all it imports, is compiled, and the manifest (if
\* there is to be one) lists all that have their JSON file.
CleanExitIsComplete ==
    exit = 0 =>
        /\ \A n \in result.asked : Target(n) \in Compiled \cup BaseMibs
        /\ \A m \in Compiled : \A n \in result.imports[m] : Target(n) \in Compiled \cup BaseMibs
        /\ config.emit_manifest /\ ~config.dry_run /\ emitted # <<>> =>
               {<<m, "json">> : m \in Compiled} \ warned \subseteq out[Manifest].files
=============================================================================
