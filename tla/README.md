# A TLA+ model of trishul-smi

trishul-smi compiles SNMP MIB modules (SMI, an ASN.1 dialect) to JSON.  Given
some module names it fetches their text from directories, archives or HTTP,
parses them, follows their IMPORTS until the closure is complete, sorts the
modules, resolves their OIDs and writes one document per module.  `watch`
repeats that as files change, and `lint --fix` edits the sources.

The modules here model the parts of it that keep state over several steps and
have to cope with failing sources, misnamed files, stale caches, crashes and
files that change.  Line numbers in this file refer to `trishul_smi/`;
PROJECT.json ("map") names the lines behind every definition.

## 1. Inventory

| Component | State it keeps | Operations | Hard part | What makes it correct |
|---|---|---|---|---|
| Dependency resolver `resolver/resolver.py` | per call: `pending`, `fetched`, `declared_by`, `aliases`, `errors`, `cached`, `fallback_served`, `source_fps`, `source_paths` | `resolve` | files that declare another name than they are found under; results handled in name order; the offline fallback against fresh files; failures collected, not raised | the closure is complete; nothing is fetched twice; a module is backed by the fetch it is attributed to; a name is a module or a failure, not both; the waves end |
| Topological sort `resolver/dependency.py` | `in_degree`, `queue`, `result` | `topological_sort` | several imports that alias to one provider; cycles | dependencies first; every module once; the error exactly for cycles |
| Compiled-module cache `resolver/cache.py` | a directory of JSON files, shared with other processes | `get`, `put`, `invalidate`, `clear` | time to live, corrupt files, fingerprints; another process between two file operations; a kill between write and rename | an entry is served only for the text it was parsed from; a reader never sees half an entry; a put that can clean up after itself does |
| Reader chain, HTTP reader `reader/chain.py`, `localfile.py`, `httpclient.py` | the position in the chain, retries, whether a mirror failed | `fetch`, `local_path` | which error a chain of sources reports; retries; a path that is looked up after the fetch | not-found only when every source says so; the path is that of the text |
| Zip reader `reader/zipreader.py` | a stack of nested archives, temporary files, a budget | `fetch` | nested archives, damaged or huge; an error several levels down | the budget is never exceeded; no temporary file stays |
| OID resolver `resolver/oid_resolver.py` | OIDs of the objects of each module, tables of paths | `resolve_oids` | parents defined later, in other modules, or never; calls with modules that are resolved already | an object gets an OID just when its parent has one, and hangs under it; a second call changes nothing |
| Compiler pipeline `compiler.py` | results, outputs, warnings | `compile` | failures of imports, formatters and writers, each stopping only the modules concerned | one result per name; outputs of all that is reported compiled |
| JSON bundle `output/json_bundle.py`, `json_contract.py` | manifest and OID index | `build_manifest`, `build_oid_index` | OIDs that several objects claim; files of earlier runs | they list only files that are there; the index is unambiguous |
| Watch loop `watch.py` | `watched`, `known_names`, `noticed`, `pending_adopt`, `pending_retry`, `failed_deps`, `latest`, `baseline`, `prev_snap`, `last_change` | `run_watch` | edits, deletions and new files while a compile runs; the debounce; failed modules that a later file unblocks | the newest state of every file is compiled in the end (not so for one edited during a compile, section 6); the exit status tells whether anything is failed, missing or stale |
| Linter `lint.py` | findings, a fix plan, the text being edited | `run_lint`, `_apply_fixes` | fixes of one IMPORTS block that overlap; type chains over modules; a file that changed since it was parsed | a finding is still reported or listed as fixed; the new text has exactly the findings not listed as fixed, and nothing but the imports changes; another text is not written over |
| Parser `parser/` | none (parsers cached per thread) | `parse` | a grammar of 900 lines | a function from text to module |
| Writers, converter, command line, models | none beyond a call | | | |

How they interact: the command line builds the reader chain, the cache and the
resolver and calls `compile`, which calls `resolve`, then `resolve_oids`, then
the writers and the bundle; `watch` calls `compile` again and again through a
callback, and takes from its results the paths to poll; `lint` calls `resolve`,
some checks, `resolve_oids`, more checks, and with `--fix` trusts
`source_fingerprints` before it edits a file.  The components share no memory
but these arguments and results, with one exception: `resolve_oids` rewrites
the objects of the modules it is given.  They share the cache directory and the
MIB directories with other processes.  Within one process everything runs on
one event loop; only `fetch` calls run concurrently, and `resolve` gathers them
before it looks at any.

PROJECT.json ("hazards") lists the places where this is hard to test.

## 2. Plan

1. `CacheEntries`, `MibResolver`: the resolver, with its proofs. **Done.**
2. `KahnSort`: the sort, with its proofs. **Done.**  `ResolveResult`: what the
   sort, the resolver and the compiler hand over to each other, proved on the
   side of each. **Done.**
3. `WatchLoop`: the watch session against an environment that edits, deletes
   and adds files, with its proofs. **Done** for well-named files in one directory; misnamed
   files, which move the watch from one name to another, are left.
4. `AtomicCache`, `MibCacheFiles`: `get`, `put`, `invalidate` and `clear` as
   their file operations, by several processes, with crashes; a refinement of
   the atomic cache, proved. **Done.**
5. `Fetching`: chain, files, archives and mirrors, with its proofs. **Done.**
6. `OidResolution`: the passes over a module, with its proofs. **Done.**
7. `Compile`: outputs, sidecars and report, run after run, with its proofs.
   **Done.**
8. `LintChecks`, `LintFixes`, `Lint`: the checks, the plan, its application
   and the identity guard, composed with `OidResolution`, with its proofs.
   **Done** for well-named files.
9. Left: an abstract specification of `resolve` (grow a set of accounted names
   until it is closed) that `MibResolver` implements; misnamed files in
   `WatchLoop`.

## 3. What is modelled

### CacheEntries, MibResolver

`CacheEntries` has what one whole `get` or `put` does to an entry: an entry is
served if its time to live has not run out, its payload loads, and a supplied
fingerprint equals the recorded one; a refused entry is unlinked, whatever the
reason.  A text stands for itself, for the module parsed from it and for its
sha256 digest (digests are taken to be collision free).

`MibResolver` is `resolve`.  Every local of the coroutine is a variable of the
same name; a dictionary is a function with the value `None` where it has no
key.  `origin` is the only history variable: how the current module of a name
was obtained.

| Action | Code (`resolver/resolver.py`) |
|---|---|
| `Queue` | 257-268: the wave, and the outcome of every fetch |
| `SkipClaimed` | 274-285, 343-353: another file has declared the name |
| `KeepFallback` | 303-320: the fresh file of a fallback entry does not parse |
| `ReplaceFallback` | 321-342: it does, and replaces the entry |
| `RaiseSizeLimit` | 354-362, 392-396: the run ends |
| `ServeOffline` | 374-390: not found, but the cache has an entry |
| `FetchFails` | 391: the failure is recorded |
| `ServeHit` | 397-419: the cache entry has the fingerprint of the text |
| `ParseFails` | 426-434 |
| `ParseFresh` | 435-449 |
| `Discover` | 451-465: the imports of the wave's modules that are new |
| `Sort` | 467-483: the return, or the error of `topological_sort` |

The nine actions that handle a name are guarded by `Turn`: it is the least name
of the wave not handled yet.  The two cache writes of a misnamed module happen
in order and either may fail, which ends the run.

A `Queue` step chooses the outcome of each fetch: a text the source may have
under that name (`Holds`), not found, a transport error or an oversized file.
What the readers do to arrive at an outcome is not part of this module.

Left out: warnings (also those that are written to the cache), the copy of an
alias on the module itself, `KeyboardInterrupt`, and runs without a cache,
which are those where every cached entry has expired.  A payload that is valid
JSON of another shape makes `get` raise a `TypeError`; the model has only the
three exceptions the code handles.

### KahnSort

`topological_sort`, one step for each module taken from the queue.  The edges
from an import to its provider are counted as the code counts them: two imports
that alias to one provider are two edges.  `Sortings(S)` is the set of sorted
listings of `S`; it has one element, and writing it as a set keeps the module
free of a recursive definition.

`MibResolver` does not run this loop: its `Sort` step uses the condition
under which a sort fails, a set of modules each importing another one of the
set.  `OutcomeIsExact`, which is proved, says that this is the condition.

### ResolveResult

The record that `resolve` returns, without state.  `IsOrder` says which lists of
modules `topological_sort` may return; `IsResolution` what holds of the record:
its modules are in such an order, and every requested name, alias and import
leads to a module, a base MIB or an error.  `KahnSort` returns an order,
`MibResolver` makes a resolution of every order, `Compile` assumes that it is
given resolutions: section 5 says how the three meet.

### WatchLoop

`run_watch`, with the callback that compiles for it and an environment that
changes files.  A file's content is one of a few texts; its signature is the
number of the change that wrote it.  The variables have the names of the code's;
`graph` and `failed_deps` give the empty set for a name without an entry,
`latest` gives `"none"`, and `"ok"` stands for both compiled and cached.
`read` and `disturbed` are history variables: the signature each module had when
a compile last read it, and whether something has come between a file and its
result that the loop does not make up for (`Overtaken`, `Outdated`, and the
failing write of `CompileCycle`; section 5 spells them out).

| Action | Code (`watch.py`) |
|---|---|
| `Change` | the user edits, deletes or adds a file |
| `Elapse` | `debounce_seconds` have passed since `last_change` |
| `CompileCycle` | `compile_cycle` in `cli/main.py` 776, `compile` and `resolve` below it |
| `Fold` | 360-466, 547-564: results, stale marks, baseline, adoption, retries, re-arming |
| `Scan` | 482-487: `_adopt_new_files` at the top of the loop |
| `Poll` | 489-502: a poll that starts nothing |
| `Invalidate` | 504-540: the invalidation set, and the start of its compile |
| `Stop` | 482-485, and `KeyboardInterrupt` at an `await` |

A compile reads all its files in one step and is over when `Fold` happens; what
changes in between changes while it runs.  It reports what
`MibCompiler.compile` reports for well-named files: a module that cannot be had
is missing or failed, one that imports such a module, at any distance, is
failed and lists the imports that block it.  A module without a file comes from
the cache if the entry has not expired; running without a cache is the session
that finds every entry expired.  A circular import ends the session:
nothing in `watch` catches `CircularDependencyError`.  A failing write keeps the
outputs written before it, and its one result replaces those of the compile.

Left out: misnamed files and several directories (a path is a name), HTTP
readers, changes in the middle of one poll or scan, a change that leaves
modification time and size alone, `max_cycles` as a number (it is a `Stop`), and
the counts of the summary.

### AtomicCache, MibCacheFiles

`MibCacheFiles` is `MibCache` at the grain of the system calls that other
processes can see.  `pc` of a process says which call is next; `name`, `text`
and `tmp` are its locals; `orphans`, the temporary files that were left behind, is
the only history variable.  A file is `warm`, `expired` or `corrupt`; a
temporary file is `corrupt` until all of it is written.

| Action | Code (`resolver/cache.py`) |
|---|---|
| `Get`, `Stat`, `Read` | `get`: `is_file`, the age (a file that is gone is stale), the read and the comparison |
| `Unlink` | `unlink` of what has the name by now, for `get` and `invalidate` |
| `Put`, `Write`, `Rename` | `put`: `mkstemp`, the write, `replace` |
| `Discard` | the clean-up after an `OSError`, which may be refused itself (270) |
| `FailToSerialise` | an exception that is no `OSError`: no clean-up |
| `Clear`, `ClearNext` | `clear`: the glob, then file after file |
| `Kill`, `Expire` | a process ends; time passes |

Every call may fail, and so may the `unlink` in the clean-up of a `put`, which
then leaves its temporary file (`Abandon`), as a kill does.  `AtomicCache` is what all that promises: a store happens
at one instant or not at all; a hit returns what is stored, with the
fingerprint asked for; an entry may be forgotten and a lookup may fail at any
time.  The refinement mapping reads a damaged file as no entry and a raised
error as an empty answer.  The window between `read` and `unlink`, in which
another process may put a good entry that is then removed, is a `Forget`.

### Fetching

`ReaderChain.fetch` and the readers below it, as tasks of one event loop:
`loop` is the task that has it, and it is given up only while a request is on
its way.  Local files change at any step.

| Action | Code (`reader/`) |
|---|---|
| `LookForFile`, `OpenFile` | `localfile.py`: candidate after candidate, `is_file`, then the read |
| `Respond` | `httpclient.py`: one attempt, and what the retry and the mirrors make of the reply |
| `NoMoreUrls` | the end of `HttpReader.fetch`: network error or not found |
| `NextRoot` | `zipreader.py`: the archives of the reader, in order |
| `SearchEntries`, `SearchNested` | `_search_zip`: the depth limit, the MIB entries, then the nested archives with budget and temporary file |
| `LocalPath` | `chain.py` 75-83: the path, asked for after the fetch |
| `Edit` | somebody changes a local file |

A member of an archive can be read, is damaged (`BadZipFile`: the search goes on
elsewhere) or raises something else, as an encrypted one does: that exception
passes through all levels, and the chain, unlike a damaged member.  The `unlink`
of a temporary archive in the `finally` clause is taken to succeed.

`NotHere` is what `chain.py` does on `MibNotFoundError`.  `seen` (what went
wrong, in which reader), `unpacked` and `disturbed` are history variables.

### OidResolution

`resolve_oids` for modules 1..N, one step per object of a pass.  `pending` and
`next_pending` hold positions in the list of objects, since the code keeps
the objects themselves; `closure_paths` and `module_paths` are the code's
tables.  `given` is a history variable: what the parser made.

| Action | Code (`resolver/oid_resolver.py`) |
|---|---|
| `ResolveNext` | the body of the loop over `pending`: `_resolve_one`, `_lookup_parent` |
| `NextPass`, `Register` | another pass if this one made progress and left something, else the next module |
| `ResolveAgain` | a caller passes modules that have been through it |

A symbol may be defined twice in a module, by several modules, and be a
well-known root's name; imports may name a misnamed file's requested name.

### Compile

`MibCompiler.compile` after the resolver, the sidecars and the exit code.
`Resolutions` are resolver results, any that satisfy `IsResolution` of
`ResolveResult`, which `MibResolver` and `KahnSort` are proved to establish.  A
base MIB can be an alias in them too: a file requested under its name may
declare another one.

| Action | Code |
|---|---|
| `Begin`, `BeginFails` | `compiler.py`: the resolver returned or raised; who is blocked |
| `SkipBlocked`, `FormatFails`, `DryRun` | no outputs; a warning and the next format; an artifact without a file |
| `Open`, `Write`, `WriteFails` | the file under way is truncated, then complete; or the run ends with `WriterError` |
| `EmitDone`, `ReportBlocked`, `ReportError`, `ReportDone` | `compiler.py`: the results of those blocked, then those of errors |
| `SkipSidecar` | not asked for, a dry run, or no JSON module emitted |
| `Return` | the exit code |
| `Kill` | the process ends, here or at the end of the command; the next run finds its files |

### LintChecks, LintFixes, Lint

`LintChecks` has the checks as operators on a module: imports that are missing
or unused, type chains without a base, OIDs that are duplicate or have no
value, clauses that are missing.  `LintFixes` has a source text as its import
clauses and a body, what the parser makes of it (the dialect depends on the
imports, so an edit of the imports can make a body unreadable), which findings
can be fixed, the plan, and the edit.  The symbols of a clause are a set: their
order in the text is layout.  Where an edit leaves no clause of a block, the code
takes out whole lines, from that of the keyword to that of the `;`, with whatever
else is on them: `rest` of a body is what is left of it then (`Remainder`).  A
block without the optional `;` is like one whose `;` ends its last line.  `Lint` is `run_lint` given again and again:

| Action | Code (`lint.py`) |
|---|---|
| `Resolve` | `resolve`, in one step, for well-named files, a cache and a reader asked before the files |
| `ReferenceChecks` | the checks that need unresolved parents, and those of clauses |
| `ResolveOids` | the steps of `OidResolution`, by INSTANCE |
| `OidChecks` | the checks that need resolved ones, and the start of `_apply_fixes` |
| `Leave` | the module has no source, it changed, or nothing can be fixed |
| `Propose`, `RollBack`, `Apply` | the new text is parsed in a thread; it is dropped, or written (printed with `--diff`) |
| `Report`, `Again`, `Edit` | the exit code; the next call; a user changes a file |

`Apply` writes over whatever the file is by then: the comparison was before the
parse.  `found`, `wrote`, `calm` and `overtaken` (the file was edited in between)
are history variables.

## 4. What is checked

| Run | Question |
|---|---|
| `resolver` | Does the closure come out right whatever the files declare, and are the fields of `ResolveResult` exact when no module came from a misnamed file? |
| `kahn_sort` | Is the order right for every graph and every alias map, and the error raised just for cycles? |
| `watch` | Is pending work scheduled and every deletion recorded whenever files change, whatever write fails and whatever the cache has; and does a session come to rest with the newest state compiled and the right exit status, unless something came between a file and its result? |
| `cache_files` | Is a shared cache directory atomic to its users, free of half files, and of litter that nothing but a kill, a refused removal or a failed serialisation explains? |
| `fetching` | Which error ends a fetch; are budget and temporary files kept to; is the path right; does it end? |
| `oids` | Is the fixpoint complete and sound, and the second call idle? |
| `compile` | Do report, exit code, manifest and index agree with the files, run after run? |
| `lint` | Are findings, fixes, files and exit code consistent, with edits and failing files in between? |
| `oids_shadowed` | Do a module's own definitions come first? No: a finding. |
| `lint_twice` | Is the second `--fix` a no-op? No: a finding. |
| `watch_lost_edit` | Is an edit made while a cycle compiles still compiled? No: a finding. |
| `lint_beyond_imports` | Does `--fix` change nothing but the imports of a file? No: a finding. |

Bounds.  `MC_Resolver` has three names with five texts.  Two of the texts declare
the same name, one does not parse, imports form a cycle, and any name may hold
any text, so that each of the three names can be a module, an alias and a
failure in every combination and the waves can have up to three rounds.  Two
keys of the cache may hold an entry, of the same name's text or of another's,
expired, damaged or without a fingerprint.  Names 1 and 2 have local files and 3
has none; a fourth name is a base module, found under its own name only.  The
properties of the result's fields are about the runs that end without an alias
(`NoAliases`), which are those in which every module came from a file of its own
name.  `MC_KahnSort` has every graph on three modules (self-imports included)
with every alias map, a fourth name being an alias nobody declares, and the
graphs of four modules with at most two imports each: enough for two-element
and three-element cycles, for doubled edges and for two modules in a layer.

`MC_WatchLoop` has a chain of three modules, which has everything the loop
tells apart: a module with a direct and an indirect dependent, a missing
dependency of a failed module, and a failure two imports away.  The middle file
may be one the parser rejects, and the last one may close a cycle.
Up to two files are missing at the start.  Two changes, at any step of the loop,
compiles and scans included, are enough to delete and restore a file, to break
and repair one, or to edit one while another arrives.  The cache may have the
last module, and any compile may find the entries expired.  All outcomes of the
writes occur.

Nothing is assumed of when files change.  `SettledIsFresh`, `ExitContract` and
`NewestIsCompiled` are about a session until something has `disturbed` it, and the
last exempts a file that arrives when its stem has been noticed; what the code
does in the other cases is in section 6.  A session with any number of edits, deletions and arrivals between
its cycles is not disturbed by them.
`SettledIsFresh` and `ExitContract` speak of states in which nothing waits, so
that they do not depend on how long the debounce is.  `watch_lost_edit` asks for
the least: all files are there, there is no cache, and no write has failed.

`MC_CacheFiles` has two processes and two names, one of which may have either
of two texts, any of the files there being fresh, expired or damaged at the
start, and two temporary names: every pair of operations on one entry
interleaves, and two kills leave `mkstemp` no name.  A third process or name
adds only more of the same pairs; the proof does not depend on it.  Processes
and temporary names are symmetric (no definition tells them apart but the
mutants', and `NoLitter` and the action properties quantify over them).

`MC_Fetching` has two local candidates, an archive reader and two mirrors with
two attempts each.  Its archives have a member that is damaged, one that is encrypted, one that
contains itself (so that both the depth limit and the budget end searches), one
that is too large, and one that is missing.  Two tasks and one edit are enough for
an edit between `is_file`, the read and `local_path` of either.

`MC_OidResolution` has a module with three objects, each under any symbol,
after two that define, redefine or leave out what it refers to; three objects
can form a chain listed backwards (three passes) and a cycle.  `Rounds` is 2.
`oids_shadowed` keeps the lists in which no module defines a symbol twice, which
is not needed for its counterexample.

`MC_Compile` has three modules in every order that fits their imports, a
misnamed file, fetched under a name of its own or under that of a base MIB, and
errors of every kind; three objects claim one OID.  Two runs
are enough for files of an older run, whole or cut short, under a newer one.
`MC_Lint` has a user of two types with several import blocks (merged clauses,
one symbol from two modules, no block at all), providers that have one type,
both, or a chain that crosses modules or ends nowhere, and a dialect that
changes with the imports; one edit, one reader and one cache entry that hide
the file of a provider.  A type of one provider begins on the line of the `;`, and
the `BEGIN` of another is there: with the block goes a definition, or what
makes the text one that parses.  `lint_twice` needs none of those.

Names are ordered where the code sorts them, so only `cache_files` uses symmetry.

Fairness.  `FairSpec` of `MibResolver` and `OidResolution` is weak fairness of
the steps of a call: a single thread of control with nothing to wait for but
`fetch`, whose readers have timeouts.  `FairSpec` of `Fetching` is weak fairness
of each task: an event loop that runs every task, and requests that are answered
or time out; nothing is asked of the edits, which `Edits` bounds.  `FairSpec` of
`WatchLoop` is weak fairness of the loop's own steps (an event loop with a
timer, and compiles that return) and of `Elapse` (time passes).  Nobody is made
to change a file or to stop the session, so the liveness properties allow a
session that has ended.  `Settles` of `Lint` says that infinitely many writes
are impossible and needs no fairness.

`CHECK_DEADLOCK FALSE` is there because the functions return, because a session
may stop, and because the bounds on runs and edits are reached.  The cache run
checks deadlock.

## 5. What is proved

Eight modules of proofs are checked by TLAPS from the assumptions on the
constants only: any names (naturals, in the resolver), any texts, declarations and
imports, any content of the sources, any sound cache directory (an entry
records the fingerprint of its own text or none, and was parsed from a text
that parses), any number of processes and tasks, any chain, archives and
mirrors, any list of modules, any resolver results that satisfy `IsResolution`, any
texts, bodies and command lines of the linter.  For the sort and the linter:
finitely many names.

* The resolver keeps `ResolverInv`.  Its parts are the promises themselves
  (`HonestSupplier`) and what makes them inductive: `NothingLost` says that a
  name once requested, imported or fetched is accounted for or still open;
  `OpenIsNew` that an open name has not failed, is nobody's alias and, if it is
  a module, became one in this wave; `SuppliersAreHandled` that a module is
  attributed to a name already handled, so that no later result can contradict
  it; `CacheIsSound` that the directory keeps matching texts and fingerprints;
  and `OfflineIsMarked` that a module served offline stays marked during its
  wave.  `ClosureComplete` is `NothingLost` with nothing open; `NeverRefetched`
  follows from the last part of `NothingLost` and `OpenIsNew`: a fetched name
  is accounted for, and `Discover` queues only names that are not.
* The report properties hold of every run in which no module was recorded from a
  misnamed file: `NoAliases`, a condition on the run and not on the constants,
  since other files may be misnamed, and an alias is never dropped.  Their
  invariant `ResolveReport` says that everything noted under a name was then noted
  when that name was handled.
* The sort keeps `KahnInv`: `in_degree` of a module counts the imports whose
  provider is not placed yet (`Waiting`), and a module is placed or queued
  exactly when it waits for nothing.  No module of a knot ever gets there
  (`KnotsWait`), and those that never get there are a knot themselves.
* The sort, the resolver and the compiler fit together.  `ReturnsAnOrder`: the
  list that the sort returns satisfies `IsOrder`, and it fails only if no list
  does.  `ResolverDelivers`: with every list that satisfies `IsOrder` for the
  modules found, `resolve` returns a record that satisfies `IsResolution`; it
  rests on `ClosureComplete` and on `AliasesLead`, which holds in every state: a
  module, once found, is never dropped, so no alias comes to lead nowhere.
  `SortOutcomeIsExact`: if `resolve` returns, the modules it found have such a
  list, and if it raises the error they have none.  `IsResolution` is the
  assumption on `Resolutions` in `Compile`, so that what is proved of `compile`
  holds of what `resolve` returns.
* The entries that `resolve` changes are those of the abstract cache that
  `MibCacheFiles` implements (`EntriesAreAtomic`): seen from one entry, whatever
  `resolve` does is a step of `AtomicCache` or none.  One entry at a time,
  because a misnamed module is stored under two names by one step.  It rests on
  `SourcesAreHonest`: what was fetched under a name is what the source has
  there.
* A call of `resolve`, one of `resolve_oids` and a `fetch` come nearer to their
  end with every step (`EveryStepAdvances` of each), the part of termination that
  is a safety property.  Of the resolver: no name becomes unfetched again; unless
  a name was fetched for the first time, no name of the wave becomes unhandled
  again; and unless one was handled, the call is at a later stage of the wave.
  It needs `NeverRefetched`: a wave of names fetched before would go nowhere.  Of
  the OID passes: within a module a further pass is over fewer objects
  (`PassesLeave`), whatever the objects hang under.  Of a fetch: it gets further
  in the chain, in its reader or, depth first, in the tree of nested archives,
  and no other task and no edit throws it back; `NothingBeyondTheEnd` bounds all
  of these, the depth of the tree too.
* The watch loop keeps `TypeInv` (with the facts that a result lists only
  dependencies that have results, and that only known modules have failed
  edges), `ScheduleInv` (nothing is pending while a compile runs, and outside of
  one nothing is pending or seen to differ unless the debounce is armed) and
  `OutputInv` (good results, those about to be folded in too, have outputs) and
  `DeletionInv` (what the poll saw gone is in `deleted` until the results are
  folded in, and a result has a path only if its file was read), from which a
  deletion both of them saw is recorded whatever the cache serves.
  These proofs assume nothing of the environment: files may change at any step,
  imports may be anything, and any write may fail.
* `SettledAlwaysFresh` and `ExitAlwaysKept` are about every session, with or
  without a cache, of finitely many names: what they say of a state in which
  nothing waits holds unless the session was disturbed before, in one of these
  ways, each of which the code does not make up for (section 6).  When a
  cycle is folded in, a file that is polled from now on is not as its module was
  last compiled from, or a polled one is not as it was when the cycle started
  (`Overtaken`).  A compile has a failing write.  A compile does not get
  from the cache a module that the cache supplied before, since its entry has
  expired or a file arrived that is not watched yet (`Outdated`): its importers
  are not compiled again.  Without any one of these exceptions TLC finds the
  first violated, in the run or in an instance in which two modules import the
  third.  Edits, deletions and arrivals between the cycles are covered, at any
  step of the debounce and of the scans, and so are arrivals of unknown names
  during a compile.  The invariant `FreshInv` is about the text `rt[n]` that the
  recorded result of each module comes from.  The cache is the memory of the
  loop: a compile leaves there what it read, and nothing else changes an entry,
  so that it has `rt[n]` until the next compile of `n`.
  `Remembered`: a file that still has the signature of the baseline still has
  that text.  `Goods`: a good module has the output of that text, and what the
  text imports is good.  `Bads`: a bad module that nothing waits for has
  recorded an import that is bad; it stays true because `_retry_set` schedules
  the module as soon as such an import turns good.  `KnotFree`: the texts do
  not import one another in a circle, since a compile that met one ended the
  session.  `Covered` and `Underway` say which modules a running or coming
  compile takes: all that depend on a changed file.  When nothing waits, `rt`
  is what a compile would read; the good modules are closed under imports, so a
  compile emits them (`GoodAreEmitted`), and bad modules that it would emit
  would be a knot (`KnotsAreCircular`: the one from which the fewest modules of
  a finite knot are reached is reached from its own imports).
* The cache keeps `CacheFilesInv`: a put has a temporary file that no other put
  and nobody left behind, and at its rename that file holds all of its module.
  The refinement is one step at a time: `Rename` is a `Store`, `Unlink`,
  `ClearNext` and `Expire` a `Forget` or a stutter, a successful `Read` a `Hit`,
  and the rest comes back empty or changes nothing that can be seen.
* A fetch keeps four invariants, one for each promise.  `ErrorInv`: a failed
  mirror is remembered in `net` until the reader gives up with a network error,
  so that no reader is left with an error behind it.  `SupplierInv`: as long as
  nothing disturbs the task, all candidates before its position are absent and
  the one it supplied from is there, so the least existing one is the supplier.
  `BudgetInv`: what was unpacked is `budget._used`, which a search leaves within
  the limit.  `TempInv`: the temporary archives of a search are those of the
  levels below the top of its stack, and only an archive within the depth limit
  ever gets to its nested ones, so that the stack and with it the temporary
  archives are bounded; whatever ends the search removes them.
* `resolve_oids` keeps `OidInv`: besides `Grounded` and `NothingMissed`,
  `Tables` and `Own` say that the tables have a path of a symbol exactly when an
  object exports one; `AllHandled` that every object of the module under way
  waits for a pass or is done; `Stuck` that without progress in a pass all
  that waits for the next has no parent with a path; and `Untouched` that
  the modules to come are as given.  `Stuck` with an empty pass is
  `NothingMissed` for that module, and `Tables` keeps it true later: no module
  before gains a path.  In a second call every lookup therefore fails again
  (`SecondCallIsIdle`).

* `compile` keeps `CompileInv`: the results told so far are those of the modules
  and errors passed, each once and with its status (`ReportInv`); what is past in the loop over modules and
  formats is written, whole and of this run, unless it was warned of, and listed
  if it is JSON (`OutputInv`, `EmittedInv`); and a sidecar is older than the run
  until its phase is over (`SidecarInv`), and no file it lists gets
  older, so that a kill anywhere leaves none that lists what is not there.  Two lemmas carry the reports: `blocked` holds exactly
  the modules with an import that is an error, blocked or absent (the modules
  come in the order of their imports, so one pass is a fixpoint), and the index
  has exactly the claims whose OID nobody else claims, whatever the order and
  however many they are.  Both loops are recursive functions; what holds after
  `k` rounds is proved for all `k` by a least counterexample.
* The linter keeps `LintInv`: the modules are what the parser made of the texts
  in `live`; the findings are those of the checks, and every finding already
  listed belongs to a module whose turn is over; a rewrite under way was made
  from the live text of its module and lacks the findings it is to fix; the
  written text is such a rewrite.  Its core is `FixIsExact`: the edited text of a
  text, with any selection of its fixable findings, has exactly the findings about
  imports that were not selected.  It rests on what the removals and additions do
  to each symbol of each clause (`OnlyIs`, `MergedIs`, `EditedIs`), on what the
  merged imports of a text are (`ImportedIs`), and on the provider of a symbol
  that is imported once (`ProviderIs`).
* The walk along the bases of a type (`_resolve_base_type`) finds a base type
  just if the type is in the least set closed under "is based on" (`HasBaseIs`).
  Until it is over it has gone along as many types as it has steps
  (`Walking`), so it is over before it runs out of types; and where it meets a
  symbol again, the types without those it has seen are closed as well
  (`CycleHasNoBase`), so that none of the latter is based.  The last part needs
  `NamesAgree`: a name that is a type of one module is no other type anywhere,
  not even one imported from a base MIB.  Without it the walk takes two types of
  one name for a cycle (section 6).

Only model-checked.  Liveness, which is out of the reach of the provers here:
that the functions end (of three of them the safety half is proved, see above),
that `Settles`, and that a watch session comes to rest with everything compiled.

## 6. Findings

With a run each:

1. A child that a module lists before its parent can be resolved from another
   module's symbol, or a root, of the parent's name (`oid_resolver.py:142`,
   against the order in the docstring at 10).  A later pass would have found the
   module's own, but the object is not in it any more.
2. A symbol that is imported from two modules and not used is reported twice,
   removed once and listed twice as fixed; the second `--fix` removes the other
   (`lint.py:1093`, against `docs/cli.md:220`).
3. A file edited after a running compile has read it, and before the results are
   folded in, is not compiled again: the baseline already has it when the
   debounce, re-armed for it, has elapsed (`watch.py:561`, against the comment
   there: "so the newest state still gets compiled").
4. A `--fix` that empties an IMPORTS block removes whole lines, and a definition
   that begins on the line of the `;` with them; the rest parses, so it is
   written (`lint.py:1206` and 980, against `docs/cli.md:223` and `lint.py:839`).
   With the body `tq` left out of the instance, TLC finds the second way to break
   the same property: an edit of the file while the new text is parsed is
   overwritten, since the file is compared before that (1493) and written after
   (1546), against `docs/cli.md:227`.

Met while modelling, on the bounds of these models or with one parameter
changed; no run is kept for them:

* Resolver, with misnamed files: a name can be reported as compiled and failed at
  once (`resolver.py:391`, against the comment at 278); a module served offline
  can keep the fingerprint of another file (380, against 246), which the fix
  guard of the linter trusts; an oversized file can go unreported (353, against
  27); `cached` and `source_paths` can be those of another text (333, 441).
  Section 5 says that they need nothing less than a misnamed file.
* Sort: the order is that of the queue, not alphabetical within each layer
  (`dependency.py:6`), since the dependents of one module of a layer are queued
  before those of the next.
* Watch: a file that appears during a compile is polled, and never compiled
  (`watch.py:398`); a requested module that had no file at the start is not
  adopted when it gets one (323, against the docstring at 236); a stale
  module becomes good again out of the cache (380, against `docs/cli.md:121`);
  importers of a module that came from the cache keep their results when its
  entry expires or a file of it arrives (400); after a write that failed the other
  results of the compile are lost; an adopted module whose first compile is
  interrupted is not counted as a failure (519, against 342).
* Cache: `get` raises when a directory refuses to unlink an entry
  (`cache.py:222`, 232, 238, against the comment at 229); `put` leaves its
  temporary file where the directory refuses the removal (270), or where an
  exception is no `OSError` (266).
* Zip reader: a write of a nested archive that fails leaves its temporary file
  (`zipreader.py:173`).
* Compile: a module all of whose formatters fail is still reported compiled.
* Lint: `visited` of `_resolve_base_type` has symbols without their modules
  (`lint.py:497`), so a chain over two types of one name in two modules, or in
  a module and a base MIB, is taken for a cycle; providers are not looked up through aliases; the
  first reference to a symbol decides the severity of its finding; a fix can
  close a cycle of imports, after which no run resolves.

## 7. Not modelled

* The grammar and the transformer (`parser/`), beyond the dialect, which texts
  parse and how clauses are merged: a function without state, and far
  from what a finite table of texts can check.
* `output/json_fmt.py` and the other writers, `convert/pysnmp_reader.py`: functions
  from one document to another; neither keeps state.
* Option parsing, printing and reports of `cli/`, and `models.py`, whose fields
  appear in the modules that use them.
* In `lint.py`: comments and layout of the edited block, and rendering; misnamed
  files.
* Release scripts, benchmarks and tests, which are not part of the program.
