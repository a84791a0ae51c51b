----------------------------- MODULE WatchLoop ------------------------------
(***************************************************************************)
(* run_watch (watch.py): compile, poll the source files of every module    *)
(* seen so far, wait until they rest, compile what they invalidate, and so *)
(* on, while an environment edits, deletes and adds files in the MIB       *)
(* directory whenever it likes, also while a compile runs.                 *)
(*                                                                         *)
(* The session is one without HTTP readers, on one --mib-dir whose files   *)
(* declare the name of their stem, so that a source path is a name and     *)
(* watched is the domain of baseline.  A compile (the callback of the      *)
(* command line around MibCompiler.compile) reads all its files in one     *)
(* step, CompileCycle; what happens to them afterwards and before Fold     *)
(* happens while the compile runs.  The directory is scanned and polled in *)
(* one step each.                                                          *)
(***************************************************************************)
EXTENDS Naturals, FiniteSets

CONSTANTS
    Names,         \* MIB names
    Texts,         \* contents of files
    None,          \* no file, no output, no entry
    Imports,       \* Imports[t]: the names text t imports from
    Broken,        \* the texts the parser rejects
    Holds,         \* Holds[n]: the texts the file n may have
    InitialFiles,  \* the directories a session may start with
    InitialNames,  \* initial_names
    InitialCaches, \* the compiled-module caches a session may start with
    Expiries,      \* the sets of entries that a compile may find expired
    MaxChanges     \* bound on the changes to files

ASSUME TextsAreParsed ==
    /\ Imports \in [Texts -> SUBSET Names]
    /\ Broken \subseteq Texts
    /\ Holds \in [Names -> SUBSET Texts]
    /\ None \notin Texts \cup Nat

\* Without a cache (--no-cache) all entries are found expired all the time.
ASSUME SessionIsValid ==
    /\ IsFiniteSet(Names)
    /\ InitialNames \in (SUBSET Names) \ {{}}
    /\ InitialFiles \subseteq [Names -> Texts \cup {None}]
    /\ InitialCaches \subseteq [Names -> (Texts \ Broken) \cup {None}]
    /\ Expiries \subseteq SUBSET Names
    /\ MaxChanges \in Nat

VARIABLES
    file,           \* the MIB directory
    stamp,          \* (mtime, size) of each file
    clock,          \* number of changes so far
    cache,          \* compiled-module cache: the text of each entry
    out,            \* the text each emitted module was compiled from
    pc,             \* where run_watch is: see TypeOK
    names,          \* names of the running compile
    deleted,        \* deleted_paths of this cycle
    snap,           \* the poll that started this cycle
    results,        \* CompileResults of this cycle, by name
    known,          \* known_names
    noticed,
    pending_adopt,
    failed_deps,
    pending_retry,
    latest,
    graph,
    baseline,
    prev_snap,
    last_change,    \* "none", "recent", or "elapsed": debounce_seconds ago
    read,           \* history: the signature each module was last compiled at
    disturbed       \* history: something came between a file and its result
                    \* that the loop does not make up for (see Overtaken,
                    \* Outdated and the failing write of CompileCycle)

files == <<file, stamp, clock>>
disk == <<cache, out, read, disturbed>>
cycle == <<names, deleted, snap, results>>
session == <<known, noticed, pending_adopt, failed_deps, pending_retry, latest>>
polling == <<graph, baseline, prev_snap, last_change>>
vars == <<files, disk, pc, cycle, session, polling>>

watched == DOMAIN baseline
Files == {n \in Names : file[n] # None}
Ended == {"stopped", "raised"}
BadStatuses == {"failed", "missing", "stale"}

\* _stat_sig
Sig(n) == IF file[n] = None THEN None ELSE stamp[n]
Sigs == 0..MaxChanges \cup {None}

Result == [status : {"ok", "failed", "missing"},
           local : BOOLEAN,             \* source_path is not None
           missing : SUBSET Names]      \* missing_dependencies

TypeOK ==
    /\ file \in [Names -> Texts \cup {None}]
    /\ stamp \in [Names -> 0..MaxChanges] /\ clock \in 0..MaxChanges
    /\ cache \in [Names -> Texts \cup {None}]
    /\ out \in [Names -> Texts \cup {None}]
    /\ read \in [Names -> Sigs] /\ disturbed \in BOOLEAN
    /\ pc \in {"compile", "fold", "scan", "sleep"} \cup Ended
    /\ names \subseteq Names /\ deleted \subseteq watched
    /\ snap \in [DOMAIN snap -> Sigs] /\ results \in [DOMAIN results -> Result]
    /\ known \subseteq Names /\ noticed \subseteq known
    /\ pending_adopt \subseteq noticed /\ pending_retry \subseteq known
    /\ failed_deps \in [Names -> SUBSET known]
    /\ latest \in [Names -> {"none", "ok"} \cup BadStatuses]
    /\ graph \in [Names -> SUBSET Names]
    /\ watched \subseteq known /\ baseline \in [watched -> Sigs]
    /\ prev_snap \in [watched -> Sigs]
    /\ last_change \in {"none", "recent", "elapsed"}

Init ==
    /\ file \in InitialFiles
    /\ stamp = [n \in Names |-> 0]
    /\ clock = 0
    /\ cache \in InitialCaches
    /\ out = [n \in Names |-> None]
    /\ read = [n \in Names |-> None]
    /\ disturbed = FALSE
    /\ pc = "compile"
    /\ names = InitialNames
    /\ deleted = {}
    /\ snap = [n \in {} |-> None]
    /\ results = [n \in {} |-> None]
    /\ known = InitialNames
    /\ noticed = InitialNames
    /\ pending_adopt = {}
    /\ failed_deps = [n \in Names |-> {}]
    /\ pending_retry = {}
    /\ latest = [n \in Names |-> "none"]
    /\ graph = [n \in Names |-> {}]
    /\ baseline = [n \in {} |-> None]
    /\ prev_snap = [n \in {} |-> None]
    /\ last_change = "none"
-----------------------------------------------------------------------------
(* The environment and the clock.                                          *)

\* Somebody edits, deletes or adds a file, whatever the loop is doing.
Change(n) ==
    /\ clock < MaxChanges
    /\ pc \notin Ended
    /\ \E t \in (Holds[n] \cup {None}) \ {file[n]} : file' = [file EXCEPT ![n] = t]
    /\ clock' = clock + 1
    /\ stamp' = [stamp EXCEPT ![n] = clock']
    /\ UNCHANGED <<disk, pc, cycle, session, polling>>

\* debounce_seconds have passed since last_change.
Elapse ==
    /\ last_change = "recent"
    /\ last_change' = "elapsed"
    /\ UNCHANGED <<files, disk, pc, cycle, session, graph, baseline, prev_snap>>
-----------------------------------------------------------------------------
(* A compile cycle.                                                        *)

\* The least set that has S and follows the edges.
Closure(S, edges) ==
    {n \in Names : \A T \in SUBSET Names :
        S \subseteq T /\ (\A m \in T : edges[m] \subseteq T) => n \in T}

\* The text resolve() gets a module for n from: the file, or the offline
\* fallback if there is no file; None is a failure.
Obtained(expired) ==
    [n \in Names |-> IF file[n] = None
                     THEN IF n \in expired THEN None ELSE cache[n]
                     ELSE IF file[n] \in Broken THEN None ELSE file[n]]

ImportsOf(text) ==
    [n \in Names |-> IF text[n] = None THEN {} ELSE Imports[text[n]]]

\* Modules that cannot be had, and modules that import such a one.
Unavailable(S, text) == {n \in Closure(S, ImportsOf(text)) : text[n] = None}
Blocked(S, text) ==
    {n \in Closure(S, ImportsOf(text)) \ Unavailable(S, text) :
        Closure({n}, ImportsOf(text)) \cap Unavailable(S, text) # {}}
Emitted(S, text) == Closure(S, ImportsOf(text)) \ (Unavailable(S, text) \cup
                                                   Blocked(S, text))

\* The results of compile(*S): "ok" is "compiled" or "cached".
Report(S, text) ==
    [n \in Closure(S, ImportsOf(text)) |->
        [status |-> IF n \in Emitted(S, text) THEN "ok"
                    ELSE IF n \in Unavailable(S, text) \ Files THEN "missing"
                    ELSE "failed",
         local |-> n \in Files,
         missing |-> IF n \in Unavailable(S, text) THEN {n} \ Files
                     ELSE ImportsOf(text)[n] \cap
                              (Unavailable(S, text) \cup Blocked(S, text))]]

Circular(S, text) ==
    \E n \in Closure(S, ImportsOf(text)) : n \in Closure(ImportsOf(text)[n], ImportsOf(text))

\* resolve() stores what it parsed and unlinks the entries it refused.
Cached(S, text, expired) ==
    [n \in Names |->
        IF n \notin Closure(S, ImportsOf(text)) THEN cache[n]
        ELSE IF n \in Files THEN text[n]
        ELSE IF n \in expired THEN None ELSE cache[n]]

\* The modules that had no file when they were last compiled and were there
\* all the same, so that the cache supplied them ...
ByCache == {n \in Names : /\ latest[n] \in {"ok", "stale"}
                          /\ n \in watched => baseline[n] = None}

\* ... and that this compile finds otherwise: the entry has expired, or a file
\* is there that is not watched.  The modules that import one of them are not
\* compiled again.
Outdated(S, text, expired) ==
    {n \in Closure(S, ImportsOf(text)) \cap ByCache :
        \/ n \notin Files /\ n \in expired /\ cache[n] # None
        \/ n \in Files \ watched}

CompileCycle ==
    /\ pc = "compile"
    /\ \E expired \in Expiries :
       LET text == Obtained(expired) IN
       /\ cache' = Cached(names, text, expired)
       /\ read' = [n \in Names |-> IF n \in Closure(names, ImportsOf(text))
                                   THEN Sig(n) ELSE read[n]]
       /\ \/ \* CircularDependencyError is not caught: the session ends.
             /\ Circular(names, text)
             /\ pc' = "raised"
             /\ UNCHANGED <<out, results, disturbed>>
          \/ /\ ~Circular(names, text)
             /\ disturbed' = (disturbed \/ Outdated(names, text, expired) # {})
             /\ pc' = "fold"
             /\ results' = Report(names, text)
             /\ out' = [n \in Names |-> IF n \in Emitted(names, text)
                                        THEN text[n] ELSE out[n]]
          \/ \* WriterError for the output of module w, or for none: outputs
             \* written so far stay, with those of their imports.  The
             \* results of the other modules are lost.
             /\ ~Circular(names, text)
             /\ disturbed' = TRUE
             /\ pc' = "fold"
             /\ \E w \in SUBSET Emitted(names, text),
                   written \in SUBSET Emitted(names, text) :
                   /\ Cardinality(w) <= 1
                   /\ IF w = {} THEN written \in {{}, Emitted(names, text)}
                      ELSE /\ w \cap written = {}
                           /\ \A n \in written \cup w :
                                 ImportsOf(text)[n] \subseteq written
                   /\ results' = [n \in w |-> [status |-> "failed",
                                               local |-> FALSE, missing |-> {}]]
                   /\ out' = [n \in Names |-> IF n \in written
                                              THEN text[n] ELSE out[n]]
    /\ UNCHANGED <<files, names, deleted, snap, session, polling>>
-----------------------------------------------------------------------------
(* What the loop does with the results.                                    *)

\* Mutant: a known name is never new, as if noticed were known_names.
NewStemsUnknown(polled) == Files \ (polled \cup known)

\* _adopt_new_files: stems of files neither watched nor noticed before.
NewStems(polled) == Files \ (polled \cup noticed)

\* Mutant: only the modules that import a changed one themselves.
DependentsDirect(changed) == changed \cup {n \in Names : graph[n] \cap changed # {}}

\* _transitive_dependents
Dependents(changed) ==
    Closure(changed, [d \in Names |-> {n \in Names : d \in graph[n]}])

\* Mutant: what compiled is retried too, with what waited for it.
RetrySeeds(supplied, deps) ==
    Closure(supplied, [d \in Names |-> {n \in Names : d \in deps[n]}])

\* _retry_set
RetrySet(supplied, deps) ==
    LET unblocks == [d \in Names |-> {n \in Names : d \in deps[n]}]
    IN  UNION {unblocks[d] : d \in Closure(supplied, unblocks)}

Supplied == {n \in DOMAIN results : results[n].status = "ok"}

FailedDeps ==
    [n \in Names |->
        IF n \notin DOMAIN results THEN failed_deps[n]
        ELSE IF n \in Supplied THEN {}
        ELSE IF results[n].status = "failed" /\ results[n].missing # {}
        THEN results[n].missing
        ELSE failed_deps[n]]

\* Mutant: the confirmed deletions are not looked at.
LatestUnmarked ==
    [n \in Names |-> IF n \in DOMAIN results THEN results[n].status ELSE latest[n]]

\* _process_cycle_results, then _mark_stale: a deleted module is stale unless
\* a file supplies it again or it fails for another reason.
Latest ==
    [n \in Names |->
        IF n \notin DOMAIN results
        THEN IF n \in deleted THEN "stale" ELSE latest[n]
        ELSE IF n \in deleted /\ ~results[n].local /\ results[n].status # "failed"
        THEN "stale" ELSE results[n].status]

\* The modules with a watched path once the results are folded in, before and
\* after _refresh_watch_state looks for the files of the other known names.
Local == watched \cup {n \in DOMAIN results : results[n].local}
Polled == Local \cup ((known \cup DOMAIN results) \cap Files)

\* _load_import_graph: the emitted imports, or else those of the source.
ImportGraph ==
    [n \in Names |->
        IF n \notin known \cup DOMAIN results THEN {}
        ELSE IF out[n] # None THEN Imports[out[n]]
        ELSE IF n \in Local \cap Files THEN Imports[file[n]]
        ELSE {}]

\* What happened behind the back of the cycle: a file about to be watched is
\* not the one its module was last compiled from, or a watched file is not
\* the one this cycle started from.  The new baseline has it all the same.
Overtaken ==
    \/ \E n \in Polled : read[n] # Sig(n)
    \/ \E n \in DOMAIN snap : snap[n] # Sig(n)

Fold ==
    LET new == NewStems(Polled)
        retry == RetrySet(Supplied, FailedDeps)
        moved == \E n \in DOMAIN snap \cap Polled : snap[n] # Sig(n)
    IN  /\ pc = "fold"
        /\ pc' = "scan"
        /\ known' = known \cup DOMAIN results \cup new
        /\ noticed' = noticed \cup new
        /\ pending_adopt' = pending_adopt \cup new
        /\ failed_deps' = FailedDeps
        /\ pending_retry' = pending_retry \cup retry
        /\ latest' = Latest
        /\ graph' = ImportGraph
        /\ baseline' = [n \in Polled |-> Sig(n)]
        /\ prev_snap' = baseline'
        /\ last_change' = IF new # {} \/ retry # {} \/ moved
                          THEN "recent" ELSE last_change
        /\ deleted' = {}
        /\ snap' = [n \in {} |-> None]
        /\ results' = [n \in {} |-> None]
        /\ disturbed' = (disturbed \/ Overtaken)
        /\ UNCHANGED <<files, cache, out, read, names>>

\* The top of the loop.
Scan ==
    /\ pc = "scan"
    /\ pc' = "sleep"
    /\ known' = known \cup NewStems(watched)
    /\ noticed' = noticed \cup NewStems(watched)
    /\ pending_adopt' = pending_adopt \cup NewStems(watched)
    /\ last_change' = IF NewStems(watched) # {} THEN "recent" ELSE last_change
    /\ UNCHANGED <<files, disk, cycle, failed_deps, pending_retry, latest,
                   graph, baseline, prev_snap>>

Seen == [n \in watched |-> Sig(n)]

\* Mutant: a poll that sees a change does not restart the debounce.
PollUnarmed ==
    /\ pc = "sleep"
    /\ last_change # "elapsed" \/ Seen # prev_snap
    /\ prev_snap' = Seen
    /\ pc' = "scan"
    /\ UNCHANGED <<files, disk, cycle, session, graph, baseline, last_change>>

\* A poll that starts no compile.
Poll ==
    /\ pc = "sleep"
    /\ last_change # "elapsed" \/ Seen # prev_snap
    /\ last_change' = IF Seen # prev_snap THEN "recent" ELSE last_change
    /\ prev_snap' = Seen
    /\ pc' = "scan"
    /\ UNCHANGED <<files, disk, cycle, session, graph, baseline>>

\* A poll at which the files have rested for the debounce window.
Invalidate ==
    LET changed == {n \in watched : Seen[n] # baseline[n]}
        invalid == Dependents(changed) \cup pending_adopt \cup pending_retry
    IN  /\ pc = "sleep"
        /\ last_change = "elapsed" /\ Seen = prev_snap
        /\ last_change' = "none"
        /\ pending_adopt' = {}
        /\ pending_retry' = {}
        /\ IF invalid = {}
           THEN pc' = "scan" /\ UNCHANGED cycle
           ELSE /\ pc' = "compile"
                /\ names' = invalid
                /\ snap' = Seen
                /\ deleted' = {n \in changed : Seen[n] = None}
                /\ UNCHANGED results
        /\ UNCHANGED <<files, disk, known, noticed, failed_deps, latest,
                       graph, baseline, prev_snap>>

\* stop_event, max_cycles, or a KeyboardInterrupt at an await.
Stop ==
    /\ pc \in {"scan", "sleep", "compile"}
    /\ pc' = "stopped"
    /\ UNCHANGED <<files, disk, cycle, session, polling>>

\* Mutant: stale modules are not failures.
ProblemsUnstale ==
    {n \in Names : latest[n] \in {"failed", "missing"}}
        \cup {n \in known \cap (watched \cup pending_adopt \cup pending_retry) :
                latest[n] = "none"}

\* The module names the exit contract counts (_current_summary).
Problems ==
    {n \in Names : latest[n] \in BadStatuses}
        \cup {n \in known \cap (watched \cup pending_adopt \cup pending_retry) :
                latest[n] = "none"}

Loop == CompileCycle \/ Fold \/ Scan \/ Poll \/ Invalidate

Next == (\E n \in Names : Change(n)) \/ Elapse \/ Loop \/ Stop

Spec == Init /\ [][Next]_vars

\* The event loop goes on, compiles return, and time passes.  Nobody has to
\* change a file or to stop the session.
FairSpec == Spec /\ WF_vars(Loop) /\ WF_vars(Elapse)
-----------------------------------------------------------------------------
(* What the loop promises.                                                 *)

\* Whatever the loop still has to do, the debounce is armed for it: while it
\* polls, an adopted file, a retry, or a file seen to differ from the state
\* last compiled never waits with last_change = None, where nothing would
\* ever start its compile (watch.py 465, 495, 560).
WorkIsScheduled ==
    pc \in {"scan", "sleep"} /\ last_change = "none" =>
        /\ pending_adopt = {} /\ pending_retry = {}
        /\ prev_snap = baseline

\* A module whose latest result is a success has an output file, even when
\* other outputs of its compile, or later ones, could not be written.
OkIsWritten == \A n \in Names : latest[n] = "ok" => out[n] # None

\* Nothing is waiting, in the loop or in the directory.
Settled ==
    /\ pc = "scan" /\ last_change = "none"
    /\ Files \subseteq watched
    /\ \A n \in watched : Sig(n) = baseline[n]

\* When nothing is waiting, and nothing was disturbed on the way, the recorded
\* result of every module the session knows is what a compile of the present
\* directory would give it, and the output of each good one comes from the text
\* such a compile would take.  Only the mark of a deletion is kept while the
\* cache supplies the module ("stale").
SettledIsFresh ==
    Settled /\ ~disturbed =>
        LET now == Report(known, Obtained({})) IN
        \A n \in known :
            /\ latest[n] # "none"
            /\ latest[n] = "ok" => now[n].status = "ok" /\ out[n] = Obtained({})[n]
            /\ latest[n] \in {"failed", "missing"} => now[n].status # "ok"
            /\ latest[n] = "stale" => n \notin Files

\* A session stopped then exits with 1 if the present directory leaves some
\* known module uncompiled, and with 0 if it has a file for every known module
\* and all of them compile.
ExitContract ==
    Settled /\ ~disturbed =>
        LET now == Report(known, Obtained({})) IN
        /\ (\E n \in known : now[n].status # "ok") => Problems # {}
        /\ known \subseteq Files /\ (\A n \in known : now[n].status = "ok") =>
               Problems = {}

\* When the poll saw a watched file gone and the compile found it gone too,
\* the module is recorded as failed, missing or stale, whatever the
\* compiled-module cache served for it.
DeletionIsSeen ==
    [][pc = "fold" /\ pc' = "scan" =>
          \A n \in watched \cap DOMAIN snap :
              baseline[n] # None /\ snap[n] = None /\ read[n] = None
                  => latest'[n] \in BadStatuses]_vars

\* Once the files rest, the loop comes to rest too.
Quiesces == <>[](pc \in Ended \/ last_change = "none")

\* Once the files rest, and unless something was disturbed, every watched file
\* has been compiled in its newest state, and so has every other file but one
\* whose stem was noticed before it arrived.
NewestIsCompiled ==
    <>[](\/ pc \in Ended \/ disturbed
         \/ \A n \in watched \cup (Files \ noticed) : read[n] = Sig(n))

\* watch.py:561-563 of a file that is found changed when a cycle is folded in,
\* in a session with no other trouble: "The source kept changing while we were
\* compiling - re-arm the debounce so the newest state still gets compiled".
LateEditIsCompiled ==
    \A n \in Names :
        (/\ pc = "fold" /\ ~disturbed
         /\ n \in Files \cap DOMAIN snap /\ snap[n] # Sig(n))
            ~> (pc \in Ended \/ read[n] = Sig(n))
=============================================================================
