---------------------------- MODULE MibResolver -----------------------------
(***************************************************************************)
(* MibResolver.resolve (resolver/resolver.py): the closure of a set of     *)
(* requested MIB names under IMPORTS, computed in waves.  A wave fetches   *)
(* every pending name concurrently (Queue), handles the results one name   *)
(* at a time in sorted order (the actions of Process), and then queues the *)
(* imports nobody has accounted for (Discover).  Modules are keyed by the  *)
(* name they DECLARE, which a misnamed file makes different from the name  *)
(* it was fetched under.                                                   *)
(*                                                                         *)
(* Each local of resolve() is a variable of the same name.  A dictionary   *)
(* is a function on Names that is None where the dictionary has no key.    *)
(* origin is the one history variable: how the current entry of fetched    *)
(* was obtained.                                                           *)
(***************************************************************************)
EXTENDS Naturals, CacheEntries

CONSTANTS
    Names,           \* MIB names; their order is the order of sorted()
    BaseMibs,        \* BASE_MIBS, never chased as dependencies
    Declares,        \* Declares[t]: the module name in the header of text t
    Imports,         \* Imports[t]: the names text t imports from
    Broken,          \* the texts the parser rejects
    Holds,           \* Holds[n]: the texts a source may have under the name n
    Local,           \* the names a local reader has a file for (local_path)
    NotFound,        \* fetch outcome: MibNotFoundError
    TransportError,  \* fetch outcome: any other Exception of a reader
    SizeLimit,       \* fetch outcome: MibSizeLimitError or a BaseException
    Unfetched,       \* the name has not been fetched
    InitialCaches,   \* the cache directories a run may start with
    RequestSets      \* the mib_names a run may be called with

Outcomes == Texts \cup {NotFound, TransportError, SizeLimit}

ASSUME NamesAreOrdered == Names \subseteq Nat

ASSUME TextsAreParsed ==
    /\ Declares \in [Texts -> Names]
    /\ Imports \in [Texts -> SUBSET Names]
    /\ Broken \subseteq Texts
    /\ BaseMibs \subseteq Names
    /\ Holds \in [Names -> SUBSET Texts]
    /\ Local \subseteq Names

ASSUME OutcomesAreDistinct ==
    /\ None \notin Texts \cup Names /\ None \notin {"missing", "failed"}
    /\ None \notin Entry
    /\ {NotFound, TransportError, SizeLimit} \cap Texts = {}
    /\ Unfetched \notin Outcomes
    /\ NotFound \notin {TransportError, SizeLimit}
    /\ TransportError # SizeLimit

ASSUME InitialCachesAreSound ==
    \A c \in InitialCaches :
        /\ c \in [Names -> Entry \cup {None}]
        /\ \A n \in Names : SoundEntry(c[n])
        /\ \A n \in Names : c[n] # None => c[n].text \notin Broken

ASSUME RequestsAreNames == RequestSets \subseteq SUBSET Names

VARIABLES
    pc,                  \* where resolve() is: see TypeOK
    requested,           \* mib_names
    pending,             \* names to fetch in the next wave
    todo,                \* names of this wave not handled yet
    result,              \* what each fetch so far brought
    resolved_this_wave,
    fetched,             \* declared name -> text of the module
    declared_by,         \* declared name -> requested name that supplied it
    origin,              \* declared name -> "parsed", "hit" or "offline"
    aliases,             \* requested name -> declared name, if they differ
    errors,              \* the keys of errors
    cached,
    fallback_served,
    source_fps,          \* declared name -> fingerprint
    source_paths,        \* name -> the name whose local file it is
    cache                \* the cache directory

modules_ == <<fetched, declared_by, origin, aliases>>
sources == <<source_fps, source_paths>>
vars == <<pc, requested, pending, todo, result, resolved_this_wave, modules_,
          errors, cached, fallback_served, sources, cache>>

Resolved == {m \in Names : fetched[m] # None}

TypeOK ==
    /\ pc \in {"queue", "process", "sort", "done",
               "size_limit", "cache_error", "cycle"}
    /\ requested \subseteq Names /\ pending \subseteq Names
    /\ todo \subseteq Names /\ resolved_this_wave \subseteq Resolved
    /\ errors \subseteq Names /\ cached \subseteq Names
    /\ fallback_served \subseteq Names
    /\ result \in [Names -> Outcomes \cup {Unfetched}]
    /\ fetched \in [Names -> Texts \cup {None}]
    /\ declared_by \in [Names -> Names \cup {None}]
    /\ origin \in [Names -> {"none", "parsed", "hit", "offline"}]
    /\ aliases \in [Names -> Names \cup {None}]
    /\ source_fps \in [Names -> Texts \cup {None}]
    /\ source_paths \in [Names -> Names \cup {None}]
    /\ cache \in [Names -> Entry \cup {None}]

Init ==
    /\ requested \in RequestSets
    /\ pending = requested
    /\ pc = IF pending = {} THEN "sort" ELSE "queue"
    /\ todo = {}
    /\ result = [n \in Names |-> Unfetched]
    /\ resolved_this_wave = {}
    /\ fetched = [n \in Names |-> None]
    /\ declared_by = [n \in Names |-> None]
    /\ origin = [n \in Names |-> "none"]
    /\ aliases = [n \in Names |-> None]
    /\ errors = {}
    /\ cached = {}
    /\ fallback_served = {}
    /\ source_fps = [n \in Names |-> None]
    /\ source_paths = [n \in Names |-> None]
    /\ cache \in InitialCaches
-----------------------------------------------------------------------------
(* One wave: every pending name is fetched, whatever the others bring.     *)
Queue ==
    /\ pc = "queue"
    /\ pending # {}
    /\ \E r \in [pending -> Outcomes] :
          /\ \A n \in pending : r[n] \in Texts => r[n] \in Holds[n]
          /\ result' = [n \in Names |->
                           IF n \in pending THEN r[n] ELSE result[n]]
    /\ todo' = pending
    /\ resolved_this_wave' = {}
    /\ pc' = "process"
    /\ UNCHANGED <<requested, pending, modules_, errors, cached,
                   fallback_served, sources, cache>>

\* Results are handled in the order of names_ordered = sorted(still_pending).
Turn(n) == /\ pc = "process"
           /\ n \in todo
           /\ \A m \in todo : n <= m
           /\ todo' = todo \ {n}

\* _record_module and _reconcile_name: the module of text t, fetched under
\* n, takes over the name it declares; a misnamed file leaves an alias.
Record(n, t, how) ==
    LET m == Declares[t] IN
    /\ fetched' = [fetched EXCEPT ![m] = t]
    /\ declared_by' = [declared_by EXCEPT ![m] = n]
    /\ origin' = [origin EXCEPT ![m] = how]
    /\ resolved_this_wave' = resolved_this_wave \cup {m}
    /\ aliases' = IF m = n THEN aliases ELSE [aliases EXCEPT ![n] = m]

\* source_fps and source_paths of name m once live text t came in under n.
RecordSource(m, n, t) ==
    /\ source_fps' = [source_fps EXCEPT ![m] = t]
    /\ source_paths' = IF n \in Local THEN [source_paths EXCEPT ![m] = n]
                                      ELSE source_paths

\* The module of t is stored under its declared and its requested name; the
\* directory may refuse either write (MibCacheError ends resolve()).
Store(n, t, before) ==
    LET put(ks) == [k \in Names |-> IF k \in ks THEN Stored(t) ELSE before[k]]
    IN  \/ /\ cache' = put({Declares[t], n})
           /\ pc' = pc
        \/ /\ cache' \in {before, put({Declares[t]})}
           /\ pc' = "cache_error"

Refused(n, fp) == [cache EXCEPT ![n] = AfterGet(@, fp)]

\* Mutant: the copy that is there always wins, a fallback too.
SkipAnyClaimed(n) ==
    /\ Turn(n)
    /\ n \in resolved_this_wave
    /\ UNCHANGED <<pc, requested, pending, result, resolved_this_wave, modules_,
                   errors, cached, fallback_served, sources, cache>>

\* A file handled earlier in this wave declared n: its copy is authoritative
\* unless the offline cache supplied it and a fresh text for n is at hand.
SkipClaimed(n) ==
    /\ Turn(n)
    /\ n \in resolved_this_wave
    /\ ~(result[n] \in Texts /\ n \in fallback_served)
    /\ UNCHANGED <<pc, requested, pending, result, resolved_this_wave, modules_,
                   errors, cached, fallback_served, sources, cache>>

KeepFallback(n) ==
    /\ Turn(n)
    /\ n \in resolved_this_wave \cap fallback_served
    /\ result[n] \in Broken
    /\ UNCHANGED <<pc, requested, pending, result, resolved_this_wave, modules_,
                   errors, cached, fallback_served, sources, cache>>

ReplaceFallback(n) ==
    /\ Turn(n)
    /\ n \in resolved_this_wave \cap fallback_served
    /\ result[n] \in Texts \ Broken
    /\ Record(n, result[n], "parsed")
    /\ fallback_served' = fallback_served \ {n}
    /\ cached' = cached \ {n}
    /\ RecordSource(Declares[result[n]], n, result[n])
    /\ Store(n, result[n], cache)
    /\ UNCHANGED <<requested, pending, result, errors>>

\* Mutant: an oversized file is one more failed fetch.
RecordSizeLimit(n) ==
    /\ Turn(n)
    /\ n \notin resolved_this_wave
    /\ result[n] = SizeLimit
    /\ errors' = errors \cup {n}
    /\ UNCHANGED <<pc, requested, pending, result, resolved_this_wave, modules_,
                   cached, fallback_served, sources, cache>>

RaiseSizeLimit(n) ==
    /\ Turn(n)
    /\ n \notin resolved_this_wave
    /\ result[n] = SizeLimit
    /\ pc' = "size_limit"
    /\ UNCHANGED <<requested, pending, result, resolved_this_wave, modules_,
                   errors, cached, fallback_served, sources, cache>>

\* Mutant: the name is recorded as a failure all the same.
ServeAndFail(n) ==
    /\ Turn(n)
    /\ n \notin resolved_this_wave
    /\ result[n] = NotFound
    /\ Serves(cache[n], None)
    /\ Record(n, cache[n].text, "offline")
    /\ cached' = cached \cup {Declares[cache[n].text]}
    /\ fallback_served' = fallback_served \cup {Declares[cache[n].text]}
    /\ errors' = errors \cup {n}
    /\ UNCHANGED <<pc, requested, pending, result, sources, cache>>

\* Only a genuine not-found is answered from the cache, whatever its text was.
ServeOffline(n) ==
    /\ Turn(n)
    /\ n \notin resolved_this_wave
    /\ result[n] = NotFound
    /\ Serves(cache[n], None)
    /\ Record(n, cache[n].text, "offline")
    /\ cached' = cached \cup {Declares[cache[n].text]}
    /\ fallback_served' = fallback_served \cup {Declares[cache[n].text]}
    /\ UNCHANGED <<pc, requested, pending, result, errors, sources, cache>>

\* Mutant: the failure is recorded although a file has declared the name.
FailRegardless(n) ==
    /\ Turn(n)
    /\ result[n] \in {NotFound, TransportError}
    /\ errors' = errors \cup {n}
    /\ UNCHANGED <<pc, requested, pending, result, resolved_this_wave, modules_,
                   cached, fallback_served, sources, cache>>

FetchFails(n) ==
    /\ Turn(n)
    /\ n \notin resolved_this_wave
    /\ \/ /\ result[n] = TransportError
          /\ cache' = cache
       \/ /\ result[n] = NotFound
          /\ ~Serves(cache[n], None)
          /\ cache' = Refused(n, None)
    /\ errors' = errors \cup {n}
    /\ UNCHANGED <<pc, requested, pending, result, resolved_this_wave, modules_,
                   cached, fallback_served, sources>>

\* Mutants: a hit is not counted as cached; a hit leaves no source behind.
ServeUncounted(n) ==
    /\ Turn(n)
    /\ n \notin resolved_this_wave
    /\ result[n] \in Texts
    /\ Serves(cache[n], result[n])
    /\ Record(n, cache[n].text, "hit")
    /\ RecordSource(Declares[cache[n].text], n, result[n])
    /\ UNCHANGED <<pc, requested, pending, result, errors, cached,
                   fallback_served, cache>>

ServeUnsourced(n) ==
    /\ Turn(n)
    /\ n \notin resolved_this_wave
    /\ result[n] \in Texts
    /\ Serves(cache[n], result[n])
    /\ Record(n, cache[n].text, "hit")
    /\ cached' = cached \cup {Declares[cache[n].text]}
    /\ UNCHANGED <<pc, requested, pending, result, errors, fallback_served,
                   sources, cache>>

\* The fetched text has the fingerprint of the cache entry: no parse.
ServeHit(n) ==
    /\ Turn(n)
    /\ n \notin resolved_this_wave
    /\ result[n] \in Texts
    /\ Serves(cache[n], result[n])
    /\ LET t == cache[n].text IN
          /\ Record(n, t, "hit")
          /\ cached' = cached \cup {Declares[t]}
          /\ RecordSource(Declares[t], n, result[n])
    /\ UNCHANGED <<pc, requested, pending, result, errors, fallback_served,
                   cache>>

ParseFails(n) ==
    /\ Turn(n)
    /\ n \notin resolved_this_wave
    /\ result[n] \in Broken
    /\ ~Serves(cache[n], result[n])
    /\ cache' = Refused(n, result[n])
    /\ errors' = errors \cup {n}
    /\ source_paths' = IF n \in Local THEN [source_paths EXCEPT ![n] = n]
                                      ELSE source_paths
    /\ UNCHANGED <<pc, requested, pending, result, resolved_this_wave, modules_,
                   cached, fallback_served, source_fps>>

ParseFresh(n) ==
    /\ Turn(n)
    /\ n \notin resolved_this_wave
    /\ result[n] \in Texts \ Broken
    /\ ~Serves(cache[n], result[n])
    /\ Record(n, result[n], "parsed")
    /\ RecordSource(Declares[result[n]], n, result[n])
    /\ Store(n, result[n], Refused(n, result[n]))
    /\ UNCHANGED <<requested, pending, result, errors, cached, fallback_served>>

\* Mutants: the names of misnamed files are queued again; the imports of
\* modules the cache supplied are not followed.
DiscoverUnaliased ==
    /\ pc = "process"
    /\ todo = {}
    /\ pending' = {d \in UNION {Imports[fetched[m]] : m \in resolved_this_wave} :
                       d \notin Resolved \cup errors \cup BaseMibs}
    /\ pc' = IF pending' = {} THEN "sort" ELSE "queue"
    /\ UNCHANGED <<requested, todo, result, resolved_this_wave, modules_,
                   errors, cached, fallback_served, sources, cache>>

DiscoverParsed ==
    /\ pc = "process"
    /\ todo = {}
    /\ pending' = {d \in UNION {Imports[fetched[m]] :
                                     m \in resolved_this_wave \ cached} :
                       /\ d \notin Resolved
                       /\ aliases[d] = None
                       /\ d \notin errors \cup BaseMibs}
    /\ pc' = IF pending' = {} THEN "sort" ELSE "queue"
    /\ UNCHANGED <<requested, todo, result, resolved_this_wave, modules_,
                   errors, cached, fallback_served, sources, cache>>

\* The wave is over: queue every import of a module recorded in it that is
\* neither resolved, nor known as the name of a misnamed file, nor failed.
Discover ==
    /\ pc = "process"
    /\ todo = {}
    /\ pending' = {d \in UNION {Imports[fetched[m]] : m \in resolved_this_wave} :
                       /\ d \notin Resolved
                       /\ aliases[d] = None
                       /\ d \notin errors \cup BaseMibs}
    /\ pc' = IF pending' = {} THEN "sort" ELSE "queue"
    /\ UNCHANGED <<requested, todo, result, resolved_this_wave, modules_,
                   errors, cached, fallback_served, sources, cache>>

\* aliases.get(dep, dep)
Provider(d) == IF aliases[d] = None THEN d ELSE aliases[d]

\* A nonempty set of modules each of which waits for another one of the set
\* is what keeps topological_sort from placing every module (see KahnSort).
Cyclic == \E S \in SUBSET Resolved :
             /\ S # {}
             /\ \A m \in S : \E d \in Imports[fetched[m]] : Provider(d) \in S

Sort ==
    /\ pc = "sort"
    /\ pc' = IF Cyclic THEN "cycle" ELSE "done"
    /\ UNCHANGED <<requested, pending, todo, result, resolved_this_wave,
                   modules_, errors, cached, fallback_served, sources, cache>>

Process(n) ==
    \/ SkipClaimed(n) \/ KeepFallback(n) \/ ReplaceFallback(n)
    \/ RaiseSizeLimit(n) \/ ServeOffline(n) \/ FetchFails(n)
    \/ ServeHit(n) \/ ParseFails(n) \/ ParseFresh(n)

Next == Queue \/ (\E n \in Names : Process(n)) \/ Discover \/ Sort

Spec == Init /\ [][Next]_vars

\* resolve() is one coroutine: it goes on for as long as the readers answer,
\* which their timeouts make them do.
FairSpec == Spec /\ WF_vars(Next)
-----------------------------------------------------------------------------
(* What resolve() promises for any mixture of files, misnamed ones too.    *)

\* A name is accounted for: it is a module, the name of a misnamed file, or
\* a reported failure.
Known(n) == n \in Resolved \cup errors \/ aliases[n] # None

\* Import closure is complete: once the waves are over, every requested name
\* and every import of every resolved module is accounted for, also when a
\* module was replaced by another file's on the way (steps 1-6 of the module
\* docstring).
ClosureComplete ==
    pc \in {"sort", "done", "cycle"} =>
        /\ \A n \in requested : Known(n)
        /\ \A m \in Resolved : \A d \in Imports[fetched[m]] \ BaseMibs : Known(d)

\* No phantom fetch (issue #21): a name queued for the next wave was never
\* fetched in an earlier one, whatever names the files fetched so far declare.
NeverRefetched == pc = "queue" => \A n \in pending : result[n] = Unfetched

\* The guard of issue #25: a name some file has already declared does not
\* become a failure when its own fetch brings nothing.
ResolvedNeverFails ==
    [][\A n \in Names : n \in Resolved \ errors => n \notin errors']_vars

\* Every module in the result is backed by the fetch it is attributed to: a
\* parsed or cache-hit module is the very text that came in under the name
\* that supplied it, and a module served offline only ever stands for a
\* genuine not-found.  A transport failure is never masked by the cache, and
\* an entry whose source has changed is never served.
HonestSupplier ==
    \A m \in Resolved :
        /\ declared_by[m] \in Names \ errors
        /\ Declares[fetched[m]] = m
        /\ fetched[m] \notin Broken
        /\ CASE origin[m] = "offline" -> result[declared_by[m]] = NotFound
             [] OTHER -> result[declared_by[m]] = fetched[m]

\* M1: handling a fetched file that parses and declares its own name never
\* leaves that name on an entry of the offline cache.
FreshReplacesFallback ==
    [][\A n \in todo \ todo' :
          (/\ result[n] \in Texts \ Broken
           /\ Declares[result[n]] = n) => origin'[n] # "offline"]_vars

\* resolve() ends, although imports may be cyclic and names may be misleading.
Termination == <>(pc \in {"done", "size_limit", "cache_error", "cycle"})
-----------------------------------------------------------------------------
(* The inductive invariant behind the promises above.                      *)

\* The names still to be handled, in this wave or in the next.
Open == todo \cup (IF pc = "queue" THEN pending ELSE {})

\* The modules whose imports Discover has already looked at.
Explored == IF pc = "process" THEN Resolved \ resolved_this_wave ELSE Resolved

\* No name is dropped on the floor between two waves.
NothingLost ==
    pc \notin {"size_limit", "cache_error"} =>
        /\ \A n \in requested : Known(n) \/ n \in Open
        /\ \A m \in Explored : \A d \in Imports[fetched[m]] \ BaseMibs :
               Known(d) \/ d \in Open
        /\ \A n \in Names : result[n] # Unfetched => Known(n) \/ n \in todo

\* A name still to be handled has not failed and is nobody's requested name;
\* if it is a module, then by a file handled earlier in the same wave.
OpenIsNew ==
    /\ pc \in {"queue", "sort", "done", "cycle"} => todo = {}
    /\ \A n \in Open : n \notin errors /\ aliases[n] = None
    /\ \A n \in todo : n \in Resolved => n \in resolved_this_wave
    /\ pc = "queue" => pending \cap Resolved = {}
    /\ \A n \in todo : result[n] # Unfetched

SuppliersAreHandled == \A m \in Resolved : declared_by[m] \notin todo

CacheIsSound ==
    \A n \in Names : cache[n] # None =>
        SoundEntry(cache[n]) /\ cache[n].text \notin Broken

\* fallback_served tells every module of this wave that may be stale.
OfflineIsMarked ==
    /\ \A n \in Names \ Resolved : origin[n] = "none"
    /\ \A n \in todo : origin[n] = "offline" => n \in fallback_served

ResolverInv ==
    /\ NothingLost
    /\ OpenIsNew
    /\ HonestSupplier
    /\ SuppliersAreHandled
    /\ CacheIsSound
    /\ OfflineIsMarked
-----------------------------------------------------------------------------
(* What resolve() reports about the modules.  These hold of every run in   *)
(* which no module was recorded from a misnamed file (such a file leaves an *)
(* alias, and no alias is ever dropped); a misnamed one can break each.    *)
NoAliases == \A n \in Names : aliases[n] = None

\* resolver.py:276-281: no module is reported "as both compiled and missing".
FailuresAreNotModules ==
    pc = "done" /\ NoAliases => errors \cap Resolved = {}

\* ResolveResult.cached: the modules loaded from MibCache, not re-parsed.
CachedIsAccurate ==
    pc = "done" /\ NoAliases =>
        cached = {m \in Resolved : origin[m] \in {"hit", "offline"}}

\* ResolveResult.source_fingerprints: the fingerprint of the source that
\* produced the module, and none for a module served offline (the identity
\* guard of lint --fix relies on both).
FingerprintIsOfSource ==
    pc = "done" /\ NoAliases => \A m \in Resolved :
        source_fps[m] = IF origin[m] = "offline" THEN None ELSE fetched[m]

\* ResolveResult.source_paths: the local file that supplied the module, and
\* none for a module that a remote source or the offline cache supplied.
PathIsOfSource ==
    pc = "done" /\ NoAliases => \A m \in Resolved :
        source_paths[m] = IF origin[m] = "offline" \/ declared_by[m] \notin Local
                          THEN None ELSE declared_by[m]

\* resolver.py:97-121: what the result says of the source of a module is of the
\* source that produced it.
SourceIsAccurate == FingerprintIsOfSource /\ PathIsOfSource

\* "MibSizeLimitError propagates immediately (it is a configuration error)".
SizeLimitPropagates ==
    pc = "done" /\ NoAliases => \A n \in Names : result[n] # SizeLimit

\* ResolveReport is why: as long as there is no alias every module comes from
\* its own file, and everything noted under a name was noted when that name
\* was handled.
ResolveReport ==
    NoAliases =>
        /\ \A n \in Names : result[n] = SizeLimit => n \in todo \/ pc = "size_limit"
        /\ \A m \in Resolved : declared_by[m] = m /\ m \notin errors
        /\ cached = {m \in Resolved : origin[m] \in {"hit", "offline"}}
        /\ \A m \in Names : source_fps[m] =
               IF m \in Resolved /\ origin[m] # "offline" THEN fetched[m] ELSE None
        /\ \A m \in Names :
               IF m \in Resolved
               THEN source_paths[m] =
                      IF origin[m] = "offline" \/ m \notin Local THEN None ELSE m
               ELSE m \notin errors => source_paths[m] = None
=============================================================================
