-------------------------- MODULE MibResolverProofs --------------------------
(***************************************************************************)
(* What resolve() guarantees for every set of names, every content of the  *)
(* sources, every outcome of every fetch and every cache directory.        *)
(*                                                                         *)
(* The nine actions of Process are summarised by ProcessEffect: handling a *)
(* name changes nothing, records one failure, or records one module for a  *)
(* good reason.  Each part of ResolverInv is then kept by that summary,    *)
(* by Queue and by Discover.                                               *)
(***************************************************************************)
EXTENDS MibResolver, FiniteSetTheorems, SequenceTheorems, WellFoundedInduction, TLAPS

\* A lookup leaves an entry or nothing.
LEMMA AfterGetIsEntry ==
    ASSUME NEW e \in Entry \cup {None}, NEW fp
    PROVE  AfterGet(e, fp) \in Entry \cup {None}
BY DEF AfterGet

\* put() writes a well-formed entry.
LEMMA StoredIsEntry == \A t \in Texts : Stored(t) \in Entry
BY DEF Stored, Entry

\* The module in a served cache entry has a text.
LEMMA ServedHasText ==
    ASSUME NEW e \in Entry \cup {None}, NEW fp, Serves(e, fp)
    PROVE  e \in Entry /\ e.text \in Texts
BY DEF Serves, Entry

\* _record_module and _reconcile_name keep the types of what they set.
LEMMA RecordTyped ==
    ASSUME TypeOK, NEW n \in Names, NEW t \in Texts,
           NEW how \in {"parsed", "hit", "offline"}, Record(n, t, how)
    PROVE  /\ fetched' \in [Names -> Texts \cup {None}]
           /\ declared_by' \in [Names -> Names \cup {None}]
           /\ origin' \in [Names -> {"none", "parsed", "hit", "offline"}]
           /\ aliases' \in [Names -> Names \cup {None}]
           /\ resolved_this_wave' \subseteq Resolved'
<1>1. /\ Declares[t] \in Names
      /\ None \notin Texts
  BY TextsAreParsed, OutcomesAreDistinct
<1>2. QED
  BY <1>1 DEF TypeOK, Record, Resolved

\* So do the notes of fingerprint and path.
LEMMA RecordSourceTyped ==
    ASSUME TypeOK, NEW n \in Names, NEW m \in Names, NEW t \in Texts,
           RecordSource(m, n, t)
    PROVE  /\ source_fps' \in [Names -> Texts \cup {None}]
           /\ source_paths' \in [Names -> Names \cup {None}]
BY DEF TypeOK, RecordSource

\* So do the writes to the cache, whichever of them the directory refuses.
LEMMA StoreTyped ==
    ASSUME NEW n \in Names, NEW t \in Texts,
           NEW before \in [Names -> Entry \cup {None}], Store(n, t, before)
    PROVE  /\ cache' \in [Names -> Entry \cup {None}]
           /\ pc' \in {pc, "cache_error"}
BY StoredIsEntry, TextsAreParsed DEF Store

\* Every local of resolve() keeps its type: names are keyed by names, modules
\* are texts, cache entries are entries, whatever the sources hold.
THEOREM TypeCorrect == Spec => []TypeOK
<1>1. Init => TypeOK
  BY InitialCachesAreSound, RequestsAreNames DEF Init, TypeOK
<1>2. TypeOK /\ [Next]_vars => TypeOK'
  <2> SUFFICES ASSUME TypeOK, [Next]_vars PROVE TypeOK'
    OBVIOUS
  <2>1. CASE Queue
    BY <2>1 DEF Queue, TypeOK, modules_, sources, Resolved
  <2>2. ASSUME NEW n \in Names, SkipClaimed(n) PROVE TypeOK'
    BY <2>2 DEF SkipClaimed, Turn, TypeOK, modules_, sources, Resolved
  <2>3. ASSUME NEW n \in Names, KeepFallback(n) PROVE TypeOK'
    BY <2>3 DEF KeepFallback, Turn, TypeOK, modules_, sources, Resolved
  <2>4. ASSUME NEW n \in Names, ReplaceFallback(n) PROVE TypeOK'
    <3>1. result[n] \in Texts /\ Declares[result[n]] \in Names
      BY <2>4, TextsAreParsed DEF ReplaceFallback
    <3>2. Record(n, result[n], "parsed")
      BY <2>4 DEF ReplaceFallback
    <3>3. RecordSource(Declares[result[n]], n, result[n])
      BY <2>4 DEF ReplaceFallback
    <3>4. Store(n, result[n], cache)
      BY <2>4 DEF ReplaceFallback
    <3>5. cache' \in [Names -> Entry \cup {None}] /\ pc' \in {pc, "cache_error"}
      BY <3>1, <3>4, StoreTyped DEF TypeOK
    <3>6. QED
      BY <2>4, <3>1, <3>2, <3>3, <3>5, RecordTyped, RecordSourceTyped
         DEF ReplaceFallback, Turn, TypeOK
  <2>5. ASSUME NEW n \in Names, RaiseSizeLimit(n) PROVE TypeOK'
    BY <2>5 DEF RaiseSizeLimit, Turn, TypeOK, modules_, sources, Resolved
  <2>6. ASSUME NEW n \in Names, ServeOffline(n) PROVE TypeOK'
    <3>1. cache[n].text \in Texts /\ Declares[cache[n].text] \in Names
      BY <2>6, ServedHasText, TextsAreParsed DEF ServeOffline, TypeOK
    <3>2. Record(n, cache[n].text, "offline")
      BY <2>6 DEF ServeOffline
    <3>3. QED
      BY <2>6, <3>1, <3>2, RecordTyped DEF ServeOffline, Turn, TypeOK, sources, Resolved
  <2>7. ASSUME NEW n \in Names, FetchFails(n) PROVE TypeOK'
    <3>1. Refused(n, None) \in [Names -> Entry \cup {None}]
      BY AfterGetIsEntry DEF Refused, TypeOK
    <3>2. cache' \in [Names -> Entry \cup {None}]
      BY <2>7, <3>1 DEF FetchFails, TypeOK
    <3>3. QED
      BY <2>7, <3>2 DEF FetchFails, Turn, TypeOK, modules_, sources, Resolved
  <2>8. ASSUME NEW n \in Names, ServeHit(n) PROVE TypeOK'
    <3>1. cache[n].text \in Texts /\ Declares[cache[n].text] \in Names
      BY <2>8, ServedHasText, TextsAreParsed DEF ServeHit, TypeOK
    <3>2. Record(n, cache[n].text, "hit") /\ result[n] \in Texts
      BY <2>8 DEF ServeHit
    <3>3. RecordSource(Declares[cache[n].text], n, result[n])
      BY <2>8 DEF ServeHit
    <3>4. QED
      BY <2>8, <3>1, <3>2, <3>3, RecordTyped, RecordSourceTyped
         DEF ServeHit, Turn, TypeOK
  <2>9. ASSUME NEW n \in Names, ParseFails(n) PROVE TypeOK'
    <3>1. cache' \in [Names -> Entry \cup {None}]
      BY <2>9, AfterGetIsEntry DEF ParseFails, Refused, TypeOK
    <3>2. QED
      BY <2>9, <3>1 DEF ParseFails, Turn, TypeOK, modules_, Resolved
  <2>10. ASSUME NEW n \in Names, ParseFresh(n) PROVE TypeOK'
    <3>1. result[n] \in Texts /\ Declares[result[n]] \in Names
      BY <2>10, TextsAreParsed DEF ParseFresh
    <3>2. Record(n, result[n], "parsed")
      BY <2>10 DEF ParseFresh
    <3>3. RecordSource(Declares[result[n]], n, result[n])
      BY <2>10 DEF ParseFresh
    <3>4. Store(n, result[n], Refused(n, result[n]))
      BY <2>10 DEF ParseFresh
    <3>5. Refused(n, result[n]) \in [Names -> Entry \cup {None}]
      BY AfterGetIsEntry DEF Refused, TypeOK
    <3>6. cache' \in [Names -> Entry \cup {None}] /\ pc' \in {pc, "cache_error"}
      BY <3>1, <3>4, <3>5, StoreTyped
    <3>7. QED
      BY <2>10, <3>1, <3>2, <3>3, <3>6, RecordTyped, RecordSourceTyped
         DEF ParseFresh, Turn, TypeOK
  <2>11. CASE Discover
    <3>1. pending' \subseteq Names
      BY <2>11, TextsAreParsed DEF Discover, TypeOK, Resolved
    <3>2. QED
      BY <2>11, <3>1 DEF Discover, TypeOK, modules_, sources, Resolved
  <2>12. CASE Sort
    BY <2>12 DEF Sort, TypeOK, modules_, sources, Resolved
  <2>13. CASE UNCHANGED vars
    BY <2>13 DEF vars, modules_, sources, Resolved, TypeOK
  <2>14. QED
    BY <2>1, <2>2, <2>3, <2>4, <2>5, <2>6, <2>7, <2>8, <2>9, <2>10, <2>11,
       <2>12, <2>13 DEF Next, Process
<1>3. QED
  BY <1>1, <1>2, PTL DEF Spec
-----------------------------------------------------------------------------
(* What handling one name does to the dictionaries, whichever of the nine  *)
(* ways it is handled: nothing, one failure, or one module recorded.       *)

Untouched == UNCHANGED <<modules_, resolved_this_wave>>

\* t is recorded under n for a good reason.
Justified(n, t, how) ==
    \/ /\ how = "offline"
       /\ result[n] = NotFound
       /\ Declares[t] \in fallback_served'
    \/ /\ how \in {"parsed", "hit"}
       /\ result[n] = t

Recorded(n) ==
    \E t \in Texts \ Broken, how \in {"parsed", "hit", "offline"} :
        Record(n, t, how) /\ Justified(n, t, how)

\* What no way of handling a name touches.
LEMMA ProcessFrame ==
    ASSUME TypeOK, NEW n \in Names, Process(n)
    PROVE  /\ pc = "process"
           /\ n \in todo
           /\ todo' = todo \ {n}
           /\ pc' \in {"process", "size_limit", "cache_error"}
           /\ UNCHANGED <<requested, pending, result>>
           /\ fallback_served \ {n} \subseteq fallback_served'
BY DEF Process, SkipClaimed, KeepFallback, ReplaceFallback, RaiseSizeLimit,
       ServeOffline, FetchFails, ServeHit, ParseFails, ParseFresh, Turn, Store

\* The summary of the nine ways to handle a name.
LEMMA ProcessEffect ==
    ASSUME TypeOK, CacheIsSound, NEW n \in Names, Process(n)
    PROVE  \/ /\ Untouched
              /\ errors' = errors
              /\ n \in resolved_this_wave \/ pc' = "size_limit"
           \/ /\ Untouched
              /\ errors' = errors \cup {n}
              /\ n \notin resolved_this_wave
           \/ /\ errors' = errors
              /\ Recorded(n)
<1>1. CASE SkipClaimed(n) \/ KeepFallback(n) \/ RaiseSizeLimit(n)
  BY <1>1 DEF SkipClaimed, KeepFallback, RaiseSizeLimit, Untouched
<1>2. CASE FetchFails(n) \/ ParseFails(n)
  BY <1>2 DEF FetchFails, ParseFails, Untouched
<1>3. CASE ReplaceFallback(n)
  <2>1. /\ result[n] \in Texts \ Broken
        /\ Record(n, result[n], "parsed")
        /\ errors' = errors
    BY <1>3 DEF ReplaceFallback
  <2>2. QED
    BY <2>1 DEF Recorded, Justified
<1>4. CASE ServeOffline(n)
  <2> DEFINE t == cache[n].text
  <2>1. t \in Texts \ Broken
    BY <1>4, ServedHasText DEF ServeOffline, CacheIsSound, TypeOK, Serves
  <2>2. /\ Record(n, t, "offline")
        /\ result[n] = NotFound
        /\ Declares[t] \in fallback_served'
        /\ errors' = errors
    BY <1>4 DEF ServeOffline
  <2>3. QED
    BY <2>1, <2>2 DEF Recorded, Justified
<1>5. CASE ServeHit(n)
  <2> DEFINE t == cache[n].text
  <2>1. t \in Texts \ Broken
    BY <1>5, ServedHasText DEF ServeHit, CacheIsSound, TypeOK, Serves
  <2>2. result[n] = t
    <3>1. result[n] \in Texts /\ result[n] # None
      BY <1>5, OutcomesAreDistinct DEF ServeHit
    <3>2. cache[n] # None /\ cache[n].fp = result[n]
      BY <1>5, <3>1 DEF ServeHit, Serves
    <3>3. cache[n].fp \in {cache[n].text, None}
      BY <3>2 DEF CacheIsSound, SoundEntry
    <3>4. QED
      BY <3>1, <3>2, <3>3
  <2>3. Record(n, t, "hit") /\ errors' = errors
    BY <1>5 DEF ServeHit
  <2>4. QED
    BY <2>1, <2>2, <2>3 DEF Recorded, Justified
<1>6. CASE ParseFresh(n)
  <2>1. /\ result[n] \in Texts \ Broken
        /\ Record(n, result[n], "parsed")
        /\ errors' = errors
    BY <1>6 DEF ParseFresh
  <2>2. QED
    BY <2>1 DEF Recorded, Justified
<1>7. QED
  BY <1>1, <1>2, <1>3, <1>4, <1>5, <1>6 DEF Process

\* Recording a module makes its file's name known and loses no other name.
LEMMA RecordKnown ==
    ASSUME TypeOK, NEW n \in Names, NEW t \in Texts, NEW how, Record(n, t, how)
    PROVE  /\ Declares[t] \in Names
           /\ Resolved' = Resolved \cup {Declares[t]}
           /\ \A k \in Names : aliases[k] # None => aliases'[k] # None
           /\ \A k \in Names \ {n} : aliases'[k] = aliases[k]
           /\ n \in Resolved' \/ aliases'[n] # None
           /\ \A m \in Names \ {Declares[t]} :
                 /\ fetched'[m] = fetched[m]
                 /\ declared_by'[m] = declared_by[m]
                 /\ origin'[m] = origin[m]
           /\ fetched'[Declares[t]] = t
           /\ declared_by'[Declares[t]] = n
           /\ origin'[Declares[t]] = how
           /\ resolved_this_wave' = resolved_this_wave \cup {Declares[t]}
<1>1. Declares[t] \in Names /\ None \notin Texts /\ None \notin Names
  BY TextsAreParsed, OutcomesAreDistinct
<1>2. QED
  BY <1>1 DEF Record, TypeOK, Resolved

\* A name accounted for stays accounted for.
LEMMA KnownStays ==
    ASSUME TypeOK, CacheIsSound, NEW n \in Names, Process(n)
    PROVE  /\ \A k \in Names : Known(k) => Known(k)'
           /\ pc' # "size_limit" => Known(n)'
<1>1. CASE Untouched /\ errors' = errors
           /\ (n \in resolved_this_wave \/ pc' = "size_limit")
  BY <1>1 DEF Untouched, Known, Resolved, modules_, TypeOK
<1>2. CASE Untouched /\ errors' = errors \cup {n}
  BY <1>2 DEF Untouched, Known, Resolved, modules_
<1>3. CASE errors' = errors /\ Recorded(n)
  BY <1>3, RecordKnown DEF Recorded, Known
<1>4. QED
  BY <1>1, <1>2, <1>3, ProcessEffect

\* A module that was not recorded in this wave is left as it was.
LEMMA OldModulesStay ==
    ASSUME TypeOK, CacheIsSound, NEW n \in Names, Process(n)
    PROVE  \A m \in Resolved' \ resolved_this_wave' :
               /\ m \in Resolved \ resolved_this_wave
               /\ fetched'[m] = fetched[m]
<1>1. CASE Untouched
  BY <1>1 DEF Untouched, Resolved, modules_
<1>2. CASE Recorded(n)
  <2>1. PICK t \in Texts \ Broken, how \in {"parsed", "hit", "offline"} :
            Record(n, t, how)
    BY <1>2 DEF Recorded
  <2>2. /\ Resolved' = Resolved \cup {Declares[t]}
        /\ resolved_this_wave' = resolved_this_wave \cup {Declares[t]}
        /\ \A m \in Names \ {Declares[t]} : fetched'[m] = fetched[m]
    BY <2>1, RecordKnown
  <2>3. Resolved \subseteq Names
    BY DEF Resolved
  <2>4. QED
    BY <2>2, <2>3
<1>3. QED
  BY <1>1, <1>2, ProcessEffect

\* Handling a name accounts for it, and drops no other.
LEMMA ProcessNothingLost ==
    ASSUME TypeOK, CacheIsSound, NothingLost, NEW n \in Names, Process(n)
    PROVE  NothingLost'
<1> SUFFICES ASSUME pc' \notin {"size_limit", "cache_error"}
             PROVE  NothingLost'
  BY DEF NothingLost
<1>1. /\ pc = "process" /\ pc' = "process"
      /\ n \in todo /\ todo' = todo \ {n}
      /\ UNCHANGED <<requested, result>>
  BY ProcessFrame
<1>2. Open = todo /\ Open' = todo \ {n}
  BY <1>1 DEF Open
<1>3. \A k \in Names : Known(k) \/ k \in todo => Known(k)' \/ k \in todo'
  BY <1>1, KnownStays
<1>4. \A k \in requested' : Known(k)' \/ k \in Open'
  BY <1>1, <1>2, <1>3 DEF NothingLost, TypeOK
<1>5. ASSUME NEW m \in Explored', NEW d \in Imports[fetched'[m]] \ BaseMibs
      PROVE  Known(d)' \/ d \in Open'
  <2>1. m \in Explored /\ fetched'[m] = fetched[m] /\ m \in Resolved
    BY <1>1, OldModulesStay DEF Explored
  <2>2. Known(d) \/ d \in todo
    BY <1>1, <1>2, <2>1, <1>5 DEF NothingLost
  <2>3. d \in Names
    BY <2>1, <1>5, TextsAreParsed DEF TypeOK, Resolved
  <2>4. QED
    BY <1>2, <1>1, <1>3, <2>2, <2>3
<1>6. \A k \in Names : result'[k] # Unfetched => Known(k)' \/ k \in todo'
  BY <1>1, <1>3 DEF NothingLost
<1>7. QED
  BY <1>4, <1>5, <1>6 DEF NothingLost

\* The names of the wave that are left stay new.
LEMMA ProcessOpenIsNew ==
    ASSUME TypeOK, CacheIsSound, OpenIsNew, NEW n \in Names, Process(n)
    PROVE  OpenIsNew'
<1>1. /\ pc = "process" /\ pc' \in {"process", "size_limit", "cache_error"}
      /\ n \in todo /\ todo' = todo \ {n}
      /\ UNCHANGED <<requested, result>>
  BY ProcessFrame
<1>2. Open = todo /\ Open' = todo \ {n}
  BY <1>1 DEF Open
<1>3. \A k \in todo' : /\ k \notin errors'
                       /\ aliases'[k] = None
                       /\ k \in Resolved' => k \in resolved_this_wave'
  <2>1. \A k \in todo' : /\ k \in Names \ {n}
                         /\ k \notin errors
                         /\ aliases[k] = None
                         /\ k \in Resolved => k \in resolved_this_wave
    BY <1>1, <1>2 DEF OpenIsNew, TypeOK
  <2>2. CASE Untouched /\ errors' \subseteq errors \cup {n}
    BY <2>1, <2>2 DEF Untouched, modules_, Resolved
  <2>3. CASE errors' = errors /\ Recorded(n)
    BY <2>1, <2>3, RecordKnown DEF Recorded
  <2>4. QED
    BY <2>2, <2>3, ProcessEffect
<1>4. QED
  BY <1>1, <1>2, <1>3 DEF OpenIsNew

\* A recorded module is attributed to a name that has been handled.
LEMMA ProcessSuppliers ==
    ASSUME TypeOK, CacheIsSound, OpenIsNew, HonestSupplier,
           SuppliersAreHandled, NEW n \in Names, Process(n)
    PROVE  HonestSupplier' /\ SuppliersAreHandled'
<1>1. /\ n \in todo /\ todo' = todo \ {n}
      /\ n \notin errors
      /\ UNCHANGED result
  BY ProcessFrame DEF OpenIsNew, Open
<1>2. CASE Untouched /\ errors' \subseteq errors \cup {n}
  BY <1>1, <1>2 DEF Untouched, modules_, Resolved, HonestSupplier,
                    SuppliersAreHandled
<1>3. CASE errors' = errors /\ Recorded(n)
  <2>1. PICK t \in Texts \ Broken, how \in {"parsed", "hit", "offline"} :
            Record(n, t, how) /\ Justified(n, t, how)
    BY <1>3 DEF Recorded
  <2>2. ASSUME NEW m \in Resolved', m # Declares[t]
        PROVE  /\ m \in Resolved
               /\ fetched'[m] = fetched[m]
               /\ declared_by'[m] = declared_by[m]
               /\ origin'[m] = origin[m]
    BY <2>1, <2>2, RecordKnown DEF Resolved
  <2>3. /\ fetched'[Declares[t]] = t
        /\ declared_by'[Declares[t]] = n
        /\ origin'[Declares[t]] = how
    BY <2>1, RecordKnown
  <2>4. HonestSupplier'
    <3> SUFFICES ASSUME NEW m \in Resolved'
                 PROVE  /\ declared_by'[m] \in Names \ errors'
                        /\ Declares[fetched'[m]] = m
                        /\ fetched'[m] \notin Broken
                        /\ origin'[m] = "offline" =>
                              result'[declared_by'[m]] = NotFound
                        /\ origin'[m] # "offline" =>
                              result'[declared_by'[m]] = fetched'[m]
      BY DEF HonestSupplier
    <3>1. CASE m = Declares[t]
      BY <1>1, <1>3, <2>1, <2>3, <3>1 DEF Justified
    <3>2. CASE m # Declares[t]
      BY <1>1, <1>3, <2>2, <3>2 DEF HonestSupplier
    <3>3. QED
      BY <3>1, <3>2
  <2>5. SuppliersAreHandled'
    BY <1>1, <2>2, <2>3 DEF SuppliersAreHandled
  <2>6. QED
    BY <2>4, <2>5
<1>4. QED
  BY <1>2, <1>3, ProcessEffect

\* Refusing an entry or storing a parsed text keeps the directory sound.
LEMMA RefusedSound ==
    ASSUME TypeOK, CacheIsSound, NEW n \in Names, NEW fp
    PROVE  \A k \in Names : Refused(n, fp)[k] \in {cache[k], None}
BY DEF Refused, AfterGet, TypeOK

\* Storing a text that parsed keeps the cache directory sound.
LEMMA StoreSound ==
    ASSUME NEW n \in Names, NEW t \in Texts \ Broken, NEW before,
           \A k \in Names : before[k] \in {cache[k], None},
           CacheIsSound, Store(n, t, before),
           before \in [Names -> Entry \cup {None}]
    PROVE  CacheIsSound'
<1>1. \A k \in Names : cache'[k] \in {cache[k], None, Stored(t)}
  BY DEF Store
<1>2. SoundEntry(Stored(t)) /\ Stored(t).text \notin Broken
  BY DEF SoundEntry, Stored
<1>3. SoundEntry(None)
  BY DEF SoundEntry
<1>4. SUFFICES ASSUME NEW k \in Names, cache'[k] # None
               PROVE  SoundEntry(cache'[k]) /\ cache'[k].text \notin Broken
  BY DEF CacheIsSound, SoundEntry
<1>5. CASE cache'[k] = cache[k]
  BY <1>4, <1>5 DEF CacheIsSound
<1>6. CASE cache'[k] = Stored(t)
  BY <1>2, <1>6
<1>7. QED
  BY <1>1, <1>4, <1>5, <1>6

\* No way of handling a name leaves an unsound entry behind.
LEMMA ProcessCacheIsSound ==
    ASSUME TypeOK, CacheIsSound, NEW n \in Names, Process(n)
    PROVE  CacheIsSound'
<1>1. CASE SkipClaimed(n) \/ KeepFallback(n) \/ RaiseSizeLimit(n)
           \/ ServeOffline(n) \/ ServeHit(n)
  BY <1>1 DEF SkipClaimed, KeepFallback, RaiseSizeLimit, ServeOffline, ServeHit,
              CacheIsSound
<1>2. CASE FetchFails(n) \/ ParseFails(n)
  <2>1. \A k \in Names : cache'[k] \in {cache[k], None}
    BY <1>2, RefusedSound DEF FetchFails, ParseFails
  <2>2. QED
    BY <2>1 DEF CacheIsSound
<1>3. CASE ReplaceFallback(n)
  <2>1. result[n] \in Texts \ Broken /\ Store(n, result[n], cache)
    BY <1>3 DEF ReplaceFallback
  <2>2. QED
    BY <2>1, StoreSound DEF TypeOK
<1>4. CASE ParseFresh(n)
  <2>1. /\ result[n] \in Texts \ Broken
        /\ Store(n, result[n], Refused(n, result[n]))
    BY <1>4 DEF ParseFresh
  <2>2. Refused(n, result[n]) \in [Names -> Entry \cup {None}]
    BY AfterGetIsEntry DEF Refused, TypeOK
  <2>3. QED
    BY <2>1, <2>2, RefusedSound, StoreSound
<1>5. QED
  BY <1>1, <1>2, <1>3, <1>4 DEF Process

\* A module served offline is marked for the rest of its wave.
LEMMA ProcessOfflineIsMarked ==
    ASSUME TypeOK, CacheIsSound, OfflineIsMarked, NEW n \in Names, Process(n)
    PROVE  OfflineIsMarked'
<1>1. /\ todo' = todo \ {n}
      /\ fallback_served \ {n} \subseteq fallback_served'
  BY ProcessFrame
<1>2. CASE Untouched
  BY <1>1, <1>2 DEF Untouched, modules_, Resolved, OfflineIsMarked
<1>3. CASE Recorded(n)
  <2>1. PICK t \in Texts \ Broken, how \in {"parsed", "hit", "offline"} :
            Record(n, t, how) /\ Justified(n, t, how)
    BY <1>3 DEF Recorded
  <2>2. /\ Declares[t] \in Names
        /\ Resolved' = Resolved \cup {Declares[t]}
        /\ \A m \in Names \ {Declares[t]} : origin'[m] = origin[m]
        /\ origin'[Declares[t]] = how
    BY <2>1, RecordKnown
  <2>3. how = "offline" => Declares[t] \in fallback_served'
    BY <2>1 DEF Justified
  <2>4. QED
    BY <1>1, <2>2, <2>3 DEF OfflineIsMarked, TypeOK
<1>4. QED
  BY <1>2, <1>3, ProcessEffect
-----------------------------------------------------------------------------
\* The invariant holds before the first wave.
LEMMA InitInv == Init => ResolverInv
<1> SUFFICES ASSUME Init PROVE ResolverInv
  OBVIOUS
<1>1. Resolved = {} /\ todo = {} /\ Open = requested
  BY DEF Init, Resolved, Open
<1>2. NothingLost
  BY <1>1 DEF Init, NothingLost, Explored
<1>3. OpenIsNew
  BY <1>1, RequestsAreNames DEF Init, OpenIsNew
<1>4. CacheIsSound
  BY InitialCachesAreSound DEF Init, CacheIsSound
<1>5. HonestSupplier /\ SuppliersAreHandled /\ OfflineIsMarked
  BY <1>1 DEF Init, HonestSupplier, SuppliersAreHandled, OfflineIsMarked
<1>6. QED
  BY <1>2, <1>3, <1>4, <1>5 DEF ResolverInv

\* Fetching a wave keeps the invariant.
LEMMA QueueInv == TypeOK /\ ResolverInv /\ Queue => ResolverInv'
<1> SUFFICES ASSUME TypeOK, ResolverInv, Queue PROVE ResolverInv'
  OBVIOUS
<1>1. /\ pc = "queue" /\ pc' = "process" /\ todo' = pending
      /\ resolved_this_wave' = {} /\ requested' = requested
      /\ UNCHANGED <<modules_, errors, fallback_served, cache>>
  BY DEF Queue
<1>2. todo = {} /\ Open = pending /\ Open' = pending
  BY <1>1 DEF ResolverInv, OpenIsNew, Open
<1>3. Resolved' = Resolved /\ Explored = Resolved /\ Explored' = Resolved
  BY <1>1 DEF modules_, Resolved, Explored
<1>4. \A k \in Names : Known(k)' <=> Known(k)
  BY <1>1, <1>3 DEF modules_, Known
<1>5. \A k \in pending : ~Known(k) /\ result[k] = Unfetched /\ k \in Names
  <2>1. \A k \in pending : k \notin errors /\ aliases[k] = None
    BY <1>2 DEF ResolverInv, OpenIsNew
  <2>2. \A k \in pending : k \notin Resolved
    BY <1>1 DEF ResolverInv, OpenIsNew
  <2>3. \A k \in pending : ~Known(k) /\ k \in Names
    BY <2>1, <2>2 DEF Known, TypeOK
  <2>4. QED
    BY <1>1, <1>2, <2>3 DEF ResolverInv, NothingLost
<1>6. PICK r \in [pending -> Outcomes] :
          result' = [k \in Names |-> IF k \in pending THEN r[k] ELSE result[k]]
  BY DEF Queue
<1>7. NothingLost'
  <2>1. \A k \in requested' : Known(k)' \/ k \in Open'
    BY <1>1, <1>2, <1>4 DEF ResolverInv, NothingLost, TypeOK
  <2>2. \A m \in Explored' : \A d \in Imports[fetched'[m]] \ BaseMibs :
            Known(d)' \/ d \in Open'
    <3> SUFFICES ASSUME NEW m \in Explored', NEW d \in Imports[fetched'[m]] \ BaseMibs
                 PROVE  Known(d)' \/ d \in Open'
      OBVIOUS
    <3>1. fetched'[m] = fetched[m] /\ m \in Explored /\ d \in Names
      BY <1>1, <1>3, TextsAreParsed DEF modules_, TypeOK, Resolved
    <3>2. Known(d) \/ d \in Open
      BY <1>1, <3>1 DEF ResolverInv, NothingLost
    <3>3. QED
      BY <3>1, <3>2, <1>2, <1>4
  <2>3. \A k \in Names : result'[k] # Unfetched => Known(k)' \/ k \in todo'
    BY <1>1, <1>2, <1>4, <1>6 DEF ResolverInv, NothingLost
  <2>4. QED
    BY <2>1, <2>2, <2>3 DEF NothingLost
<1>8. OpenIsNew'
  <2>1. \A k \in pending : result'[k] # Unfetched
    BY <1>5, <1>6, OutcomesAreDistinct
  <2>2. \A k \in pending : k \notin errors' /\ aliases'[k] = None /\ k \notin Resolved'
    BY <1>1, <1>3, <1>5 DEF Known, modules_
  <2>3. QED
    BY <1>1, <1>2, <2>1, <2>2 DEF OpenIsNew
<1>9. HonestSupplier' /\ SuppliersAreHandled'
  <2>1. \A m \in Resolved : declared_by[m] \in Names \ pending
    <3> SUFFICES ASSUME NEW m \in Resolved PROVE declared_by[m] \in Names \ pending
      OBVIOUS
    <3>1. declared_by[m] \in Names
      BY DEF ResolverInv, HonestSupplier
    <3>2. result[declared_by[m]] # Unfetched
      <4>1. fetched[m] \in Texts
        BY DEF TypeOK, Resolved
      <4>2. CASE origin[m] = "offline"
        BY <4>2, OutcomesAreDistinct DEF ResolverInv, HonestSupplier, Outcomes
      <4>3. CASE origin[m] # "offline"
        BY <4>1, <4>3, OutcomesAreDistinct
           DEF ResolverInv, HonestSupplier, Outcomes
      <4>4. QED
        BY <4>2, <4>3
    <3>3. QED
      BY <3>1, <3>2, <1>5
  <2>2. \A m \in Resolved : result'[declared_by[m]] = result[declared_by[m]]
    BY <2>1, <1>6
  <2>3. QED
    BY <1>1, <1>3, <2>1, <2>2
       DEF ResolverInv, HonestSupplier, SuppliersAreHandled, modules_
<1>10. CacheIsSound'
  BY <1>1 DEF ResolverInv, CacheIsSound
<1>11. OfflineIsMarked'
  <2>1. \A k \in pending : k \in Names \ Resolved
    BY <1>5 DEF Known
  <2>2. QED
    BY <1>1, <1>3, <2>1 DEF ResolverInv, OfflineIsMarked, modules_
<1>12. QED
  BY <1>7, <1>8, <1>9, <1>10, <1>11 DEF ResolverInv

\* Discovering the next wave keeps the invariant.
LEMMA DiscoverInv == TypeOK /\ ResolverInv /\ Discover => ResolverInv'
<1> SUFFICES ASSUME TypeOK, ResolverInv, Discover PROVE ResolverInv'
  OBVIOUS
<1>1. /\ pc = "process" /\ pc' \in {"queue", "sort"} /\ todo = {} /\ todo' = {}
      /\ pc' = IF pending' = {} THEN "sort" ELSE "queue"
      /\ UNCHANGED <<requested, result, modules_, errors, fallback_served, cache>>
  BY DEF Discover
<1>2. Open = {} /\ Open' = pending'
  BY <1>1 DEF Open
<1>3. Resolved' = Resolved /\ Explored = Resolved \ resolved_this_wave
      /\ Explored' = Resolved
  BY <1>1 DEF modules_, Resolved, Explored
<1>4. \A k \in Names : Known(k)' <=> Known(k)
  BY <1>1, <1>3 DEF modules_, Known
<1>5. \A m \in resolved_this_wave : \A d \in Imports[fetched[m]] \ BaseMibs :
          Known(d) \/ d \in pending'
  BY DEF Discover, Known
<1>6. pending' \subseteq Names \ errors
      /\ \A d \in pending' : d \notin Resolved /\ aliases[d] = None
  BY TextsAreParsed DEF Discover, TypeOK, Resolved
<1>7. NothingLost'
  <2>1. \A k \in requested' : Known(k)' \/ k \in Open'
    BY <1>1, <1>2, <1>4 DEF ResolverInv, NothingLost, TypeOK
  <2>2. \A m \in Explored' : \A d \in Imports[fetched'[m]] \ BaseMibs :
            Known(d)' \/ d \in Open'
    <3> SUFFICES ASSUME NEW m \in Resolved, NEW d \in Imports[fetched[m]] \ BaseMibs
                 PROVE  Known(d)' \/ d \in Open'
      BY <1>1, <1>3 DEF modules_
    <3>1. d \in Names
      BY TextsAreParsed DEF TypeOK, Resolved
    <3>2. CASE m \in resolved_this_wave
      BY <1>2, <1>4, <1>5, <3>1, <3>2
    <3>3. CASE m \notin resolved_this_wave
      BY <1>1, <1>2, <1>3, <1>4, <3>1, <3>3 DEF ResolverInv, NothingLost
    <3>4. QED
      BY <3>2, <3>3
  <2>3. \A k \in Names : result'[k] # Unfetched => Known(k)' \/ k \in todo'
    BY <1>1, <1>4 DEF ResolverInv, NothingLost
  <2>4. QED
    BY <2>1, <2>2, <2>3 DEF NothingLost
<1>8. OpenIsNew'
  BY <1>1, <1>2, <1>3, <1>6 DEF OpenIsNew, modules_
<1>9. HonestSupplier' /\ SuppliersAreHandled' /\ CacheIsSound' /\ OfflineIsMarked'
  BY <1>1, <1>3 DEF ResolverInv, HonestSupplier, SuppliersAreHandled,
                    CacheIsSound, OfflineIsMarked, modules_
<1>10. QED
  BY <1>7, <1>8, <1>9 DEF ResolverInv

\* A step that touches none of what the invariant speaks of.
LEMMA IdleInv ==
    TypeOK /\ ResolverInv /\ (Sort \/ UNCHANGED vars) => ResolverInv'
<1> SUFFICES ASSUME TypeOK, ResolverInv, Sort \/ UNCHANGED vars PROVE ResolverInv'
  OBVIOUS
<1>1. /\ UNCHANGED <<requested, pending, todo, result, resolved_this_wave,
                     fetched, declared_by, origin, aliases, errors,
                     fallback_served, cache>>
      /\ pc' = pc \/ (pc = "sort" /\ pc' \in {"cycle", "done"})
  BY DEF Sort, vars, modules_
<1>2. Open' = Open /\ Resolved' = Resolved /\ Explored' = Explored
  BY <1>1 DEF Open, Resolved, Explored
<1>3. \A k : Known(k)' <=> Known(k)
  BY <1>1, <1>2 DEF Known
<1>4. NothingLost'
  BY <1>1, <1>2, <1>3 DEF ResolverInv, NothingLost
<1>5. OpenIsNew'
  BY <1>1, <1>2 DEF ResolverInv, OpenIsNew
<1>6. HonestSupplier' /\ SuppliersAreHandled' /\ CacheIsSound' /\ OfflineIsMarked'
  BY <1>1, <1>2 DEF ResolverInv, HonestSupplier, SuppliersAreHandled,
                    CacheIsSound, OfflineIsMarked
<1>7. QED
  BY <1>4, <1>5, <1>6 DEF ResolverInv

\* Handling a name keeps the invariant.
LEMMA ProcessInv ==
    ASSUME TypeOK, ResolverInv, NEW n \in Names, Process(n)
    PROVE  ResolverInv'
BY ProcessNothingLost, ProcessOpenIsNew, ProcessSuppliers, ProcessCacheIsSound,
   ProcessOfflineIsMarked DEF ResolverInv

\* The inductive invariant holds whatever files, caches and requests there are.
THEOREM InvHolds == Spec => []ResolverInv
<1>1. Init => ResolverInv
  BY InitInv
<1>2. TypeOK /\ ResolverInv /\ [Next]_vars => ResolverInv'
  BY QueueInv, DiscoverInv, IdleInv, ProcessInv DEF Next
<1>3. QED
  BY <1>1, <1>2, TypeCorrect, PTL DEF Spec

\* When the waves are over, every requested name and every import of a
\* resolved module is resolved, an alias, or a reported failure.
THEOREM ClosureIsComplete == Spec => []ClosureComplete
<1>1. TypeOK /\ ResolverInv => ClosureComplete
  <2> SUFFICES ASSUME TypeOK, ResolverInv, pc \in {"sort", "done", "cycle"}
               PROVE  /\ \A n \in requested : Known(n)
                      /\ \A m \in Resolved :
                            \A d \in Imports[fetched[m]] \ BaseMibs : Known(d)
    BY DEF ClosureComplete
  <2>1. Open = {} /\ Explored = Resolved
    BY DEF ResolverInv, OpenIsNew, Open, Explored
  <2>2. QED
    BY <2>1 DEF ResolverInv, NothingLost
<1>2. QED
  BY <1>1, TypeCorrect, InvHolds, PTL

\* No name is ever fetched twice in one run (no phantom fetch, issue #21).
THEOREM NoPhantomFetch == Spec => []NeverRefetched
<1>1. TypeOK /\ ResolverInv => NeverRefetched
  <2> SUFFICES ASSUME TypeOK, ResolverInv, pc = "queue", NEW n \in pending
               PROVE  result[n] = Unfetched
    BY DEF NeverRefetched
  <2>1. n \in Open /\ n \notin todo /\ n \in Names
    BY DEF ResolverInv, OpenIsNew, Open, TypeOK
  <2>2. ~Known(n)
    BY <2>1 DEF ResolverInv, OpenIsNew, Known
  <2>3. QED
    BY <2>1, <2>2 DEF ResolverInv, NothingLost
<1>2. QED
  BY <1>1, TypeCorrect, InvHolds, PTL

\* Every resolved module is backed by the fetch it is attributed to.
THEOREM SuppliersAreHonest == Spec => []HonestSupplier
BY InvHolds, PTL DEF ResolverInv

\* A declared name does not turn into a failure later (issue #25).
THEOREM ResolvedStaysResolved == Spec => ResolvedNeverFails
<1>1. TypeOK /\ ResolverInv /\ [Next]_vars =>
          [\A n \in Names : n \in Resolved \ errors => n \notin errors']_vars
  <2> SUFFICES ASSUME TypeOK, ResolverInv, Next,
                      NEW n \in Resolved \ errors
               PROVE  n \notin errors'
    OBVIOUS
  <2>1. CASE Queue \/ Discover \/ Sort
    BY <2>1 DEF Queue, Discover, Sort
  <2>2. ASSUME NEW k \in Names, Process(k) PROVE n \notin errors'
    <3>1. k \in todo
      BY <2>2, ProcessFrame
    <3>2. errors' = errors \/ (errors' = errors \cup {k} /\ k \notin resolved_this_wave)
      BY <2>2, ProcessEffect DEF ResolverInv
    <3>3. k \in Resolved => k \in resolved_this_wave
      BY <3>1 DEF ResolverInv, OpenIsNew
    <3>4. QED
      BY <3>2, <3>3
  <2>3. QED
    BY <2>1, <2>2 DEF Next
<1>2. QED
  BY <1>1, TypeCorrect, InvHolds, PTL DEF Spec, ResolvedNeverFails

\* M1: a fetched file that parses and declares its own name beats a copy the
\* offline cache supplied earlier in the wave.
THEOREM FreshBeatsFallback == Spec => FreshReplacesFallback
<1>1. TypeOK /\ ResolverInv /\ [Next]_vars =>
          [\A n \in todo \ todo' :
               (/\ result[n] \in Texts \ Broken
                /\ Declares[result[n]] = n) => origin'[n] # "offline"]_vars
  <2> SUFFICES ASSUME TypeOK, ResolverInv, Next, NEW n \in todo \ todo',
                      result[n] \in Texts \ Broken, Declares[result[n]] = n
               PROVE  origin'[n] # "offline"
    OBVIOUS
  <2>1. n \in Names
    BY DEF TypeOK
  <2>2. CASE Queue \/ Discover \/ Sort
    BY <2>2 DEF Queue, Discover, Sort, ResolverInv, OpenIsNew
  <2>3. CASE Process(n)
    <3>1. CASE Untouched /\ n \notin resolved_this_wave
      <4>1. n \notin Resolved
        BY <3>1 DEF ResolverInv, OpenIsNew
      <4>2. QED
        BY <2>1, <3>1, <4>1 DEF ResolverInv, OfflineIsMarked, Untouched, modules_
    <3>2. CASE Recorded(n)
      <4>1. PICK t \in Texts \ Broken, how \in {"parsed", "hit", "offline"} :
                Record(n, t, how) /\ Justified(n, t, how)
        BY <3>2 DEF Recorded
      <4>2. t = result[n] /\ how # "offline"
        BY <4>1, OutcomesAreDistinct DEF Justified
      <4>3. QED
        BY <2>1, <4>1, <4>2, RecordKnown
    <3>3. CASE SkipClaimed(n)
      BY <3>3 DEF SkipClaimed, ResolverInv, OfflineIsMarked, modules_
    <3>4. CASE KeepFallback(n) \/ RaiseSizeLimit(n)
      BY <3>4, OutcomesAreDistinct DEF KeepFallback, RaiseSizeLimit
    <3>5. ASSUME n \in resolved_this_wave
          PROVE  SkipClaimed(n) \/ KeepFallback(n) \/ Recorded(n)
      <4>1. SkipClaimed(n) \/ KeepFallback(n) \/ ReplaceFallback(n)
        BY <2>3, <3>5 DEF Process, RaiseSizeLimit, ServeOffline, FetchFails,
                          ServeHit, ParseFails, ParseFresh
      <4>2. ReplaceFallback(n) => Recorded(n)
        BY DEF ReplaceFallback, Recorded, Justified
      <4>3. QED
        BY <4>1, <4>2
    <3>6. Untouched \/ Recorded(n)
      BY <2>1, <2>3, ProcessEffect DEF ResolverInv
    <3>7. QED
      BY <3>1, <3>2, <3>3, <3>4, <3>5, <3>6
  <2>4. ASSUME NEW k \in Names, Process(k) PROVE k = n
    BY <2>4, ProcessFrame
  <2>5. QED
    BY <2>2, <2>3, <2>4 DEF Next
<1>2. QED
  BY <1>1, TypeCorrect, InvHolds, PTL DEF Spec, FreshReplacesFallback
-----------------------------------------------------------------------------
(* The report of a run without misnamed files.                             *)

LEMMA ReportInit == Init => ResolveReport
<1> SUFFICES ASSUME Init PROVE ResolveReport
  OBVIOUS
<1>1. Resolved = {}
  BY DEF Init, Resolved
<1>2. \A n \in Names : result[n] # SizeLimit
  BY OutcomesAreDistinct DEF Init, Outcomes
<1>3. QED
  BY <1>1, <1>2 DEF Init, ResolveReport

LEMMA ReportProcess ==
    ASSUME TypeOK, ResolverInv, ResolveReport, NEW n \in Names, Process(n),
           NoAliases, NoAliases'
    PROVE  ResolveReport'
<1>1. /\ n \in todo /\ todo' = todo \ {n} /\ UNCHANGED result
      /\ pc = "process"
  BY ProcessFrame
<1>2. n \notin Resolved /\ n \notin errors /\ n \notin resolved_this_wave
  BY <1>1 DEF ResolverInv, SuppliersAreHandled, ResolveReport, OpenIsNew, Open,
              TypeOK
<1>3. n \notin cached /\ source_fps[n] = None /\ source_paths[n] = None
  BY <1>2 DEF ResolveReport
<1>4. CASE RaiseSizeLimit(n)
  BY <1>1, <1>4 DEF RaiseSizeLimit, ResolveReport, modules_, sources, Resolved
<1>5. CASE FetchFails(n)
  <2>1. result[n] # SizeLimit
    BY <1>5, OutcomesAreDistinct DEF FetchFails
  <2>2. QED
    BY <1>1, <1>2, <1>5, <2>1
       DEF FetchFails, ResolveReport, modules_, sources, Resolved
<1>6. CASE ParseFails(n)
  <2>1. result[n] # SizeLimit
    BY <1>6, OutcomesAreDistinct, TextsAreParsed DEF ParseFails
  <2>2. \A m \in Names \ {n} : source_paths'[m] = source_paths[m]
    BY <1>6 DEF ParseFails, TypeOK
  <2>3. QED
    BY <1>1, <1>2, <1>6, <2>1, <2>2
       DEF ParseFails, ResolveReport, modules_, Resolved
<1>7. ASSUME NEW t \in Texts, NEW how, Record(n, t, how), Declares[t] # n
      PROVE  FALSE
  <2>1. Declares[t] \in Names
    BY TextsAreParsed
  <2>2. aliases'[n] = Declares[t]
    BY <1>7 DEF Record, TypeOK
  <2>3. QED
    BY <2>1, <2>2, OutcomesAreDistinct DEF NoAliases
<1>8. CASE ServeOffline(n)
  <2> DEFINE t == cache[n].text
  <2>1. t \in Texts /\ cache[n] # None
    BY <1>8, ServedHasText DEF ServeOffline, TypeOK, Serves
  <2>2. Record(n, t, "offline") /\ result[n] # SizeLimit
    BY <1>8, OutcomesAreDistinct DEF ServeOffline
  <2>3. Declares[t] = n
    BY <1>7, <2>1, <2>2
  <2>4. /\ Resolved' = Resolved \cup {n}
        /\ \A m \in Names \ {n} : /\ fetched'[m] = fetched[m]
                                  /\ declared_by'[m] = declared_by[m]
                                  /\ origin'[m] = origin[m]
        /\ declared_by'[n] = n
        /\ origin'[n] = "offline"
    BY <2>1, <2>2, <2>3, RecordKnown
  <2>5. cached' = cached \cup {n} /\ UNCHANGED <<pc, errors, sources, cache>>
    BY <1>8, <2>3 DEF ServeOffline
  <2>6. cached' = {m \in Resolved' : origin'[m] \in {"hit", "offline"}}
    BY <1>2, <2>4, <2>5 DEF ResolveReport, Resolved
  <2>7. \A k \in Names : result'[k] = SizeLimit => k \in todo' \/ pc' = "size_limit"
    BY <1>1, <2>2, <2>5 DEF ResolveReport
  <2>8. \A m \in Resolved' : declared_by'[m] = m /\ m \notin errors'
    BY <1>2, <2>4, <2>5 DEF ResolveReport, Resolved
  <2>9. \A m \in Names :
            /\ source_fps'[m] = IF m \in Resolved' /\ origin'[m] # "offline"
                               THEN fetched'[m] ELSE None
            /\ IF m \in Resolved'
               THEN source_paths'[m] =
                      IF origin'[m] = "offline" \/ m \notin Local THEN None ELSE m
               ELSE m \notin errors' => source_paths'[m] = None
    BY <1>2, <1>3, <2>4, <2>5 DEF ResolveReport, sources
  <2>10. QED
    BY <2>6, <2>7, <2>8, <2>9 DEF ResolveReport
<1>9. ASSUME NEW how \in {"parsed", "hit"}, Record(n, result[n], how),
             result[n] \in Texts, RecordSource(n, n, result[n]),
             cached' = IF how = "hit" THEN cached \cup {n} ELSE cached,
             errors' = errors
      PROVE  ResolveReport'
  <2>1. Declares[result[n]] = n /\ result[n] # SizeLimit
    BY <1>7, <1>9, OutcomesAreDistinct
  <2>2. /\ Resolved' = Resolved \cup {n}
        /\ \A m \in Names \ {n} : /\ fetched'[m] = fetched[m]
                                  /\ declared_by'[m] = declared_by[m]
                                  /\ origin'[m] = origin[m]
        /\ declared_by'[n] = n
        /\ fetched'[n] = result[n]
        /\ origin'[n] = how
    BY <1>9, <2>1, RecordKnown
  <2>3. /\ \A m \in Names \ {n} : /\ source_fps'[m] = source_fps[m]
                                  /\ source_paths'[m] = source_paths[m]
        /\ source_fps'[n] = result[n]
        /\ source_paths'[n] = IF n \in Local THEN n ELSE source_paths[n]
    BY <1>9 DEF RecordSource, TypeOK
  <2>4. cached' = {m \in Resolved' : origin'[m] \in {"hit", "offline"}}
    BY <1>2, <1>9, <2>2 DEF ResolveReport, Resolved
  <2>5. \A k \in Names : result'[k] = SizeLimit => k \in todo' \/ pc' = "size_limit"
    BY <1>1, <2>1 DEF ResolveReport
  <2>6. \A m \in Names :
           IF m \in Resolved'
           THEN source_paths'[m] =
                  IF origin'[m] = "offline" \/ m \notin Local THEN None ELSE m
           ELSE m \notin errors' => source_paths'[m] = None
    BY <1>3, <1>9, <2>2, <2>3 DEF ResolveReport
  <2>7. \A m \in Names : source_fps'[m] =
            IF m \in Resolved' /\ origin'[m] # "offline" THEN fetched'[m] ELSE None
    BY <1>9, <2>2, <2>3 DEF ResolveReport
  <2>8. \A m \in Resolved' : declared_by'[m] = m /\ m \notin errors'
    BY <1>2, <1>9, <2>2 DEF ResolveReport, Resolved
  <2>9. QED
    BY <2>4, <2>5, <2>6, <2>7, <2>8 DEF ResolveReport
<1>10. CASE ServeHit(n)
  <2>1. result[n] = cache[n].text
    <3>1. result[n] \in Texts /\ result[n] # None
      BY <1>10, OutcomesAreDistinct DEF ServeHit
    <3>2. cache[n] # None /\ cache[n].fp = result[n]
      BY <1>10, <3>1 DEF ServeHit, Serves
    <3>3. cache[n].fp \in {cache[n].text, None}
      BY <3>2 DEF ResolverInv, CacheIsSound, SoundEntry
    <3>4. QED
      BY <3>1, <3>2, <3>3
  <2>2. Record(n, result[n], "hit") /\ result[n] \in Texts
    BY <1>10, <2>1 DEF ServeHit
  <2>3. Declares[result[n]] = n
    BY <1>7, <2>2
  <2>4. cached' = cached \cup {n}
    BY <1>10, <2>1, <2>3 DEF ServeHit
  <2>5. RecordSource(n, n, result[n]) /\ UNCHANGED errors
    BY <1>10, <2>1, <2>3 DEF ServeHit
  <2>6. QED
    BY <1>9, <2>2, <2>4, <2>5
<1>11. CASE ParseFresh(n)
  <2>1. result[n] \in Texts /\ Record(n, result[n], "parsed")
    BY <1>11 DEF ParseFresh
  <2>2. Declares[result[n]] = n
    BY <1>7, <2>1
  <2>3. RecordSource(n, n, result[n]) /\ UNCHANGED <<errors, cached>>
    BY <1>11, <2>2 DEF ParseFresh
  <2>4. QED
    BY <1>9, <2>1, <2>3
<1>12. QED
  BY <1>2, <1>4, <1>5, <1>6, <1>8, <1>10, <1>11
     DEF Process, SkipClaimed, KeepFallback, ReplaceFallback

\* No step takes an alias away.
LEMMA AliasesStay ==
    ASSUME TypeOK, [Next]_vars, NoAliases'
    PROVE  NoAliases
<1>1. ASSUME NEW n \in Names, aliases[n] # None PROVE aliases'[n] # None
  <2>1. CASE UNCHANGED aliases
    BY <1>1, <2>1
  <2>2. CASE \E k \in Names, t \in Texts, how \in {"parsed", "hit", "offline"} :
                 Record(k, t, how)
    <3>1. PICK k \in Names, t \in Texts, how \in {"parsed", "hit", "offline"} :
              Record(k, t, how)
      BY <2>2
    <3>2. Declares[t] # None
      BY TextsAreParsed, OutcomesAreDistinct
    <3>3. QED
      BY <1>1, <3>1, <3>2 DEF Record, TypeOK
  <2>3. ASSUME NEW k \in Names, Process(k)
        PROVE  \/ UNCHANGED aliases
               \/ \E t \in Texts, how \in {"parsed", "hit", "offline"} :
                      Record(k, t, how)
    <3>1. CASE \/ SkipClaimed(k) \/ KeepFallback(k) \/ RaiseSizeLimit(k)
               \/ FetchFails(k) \/ ParseFails(k)
      BY <3>1 DEF SkipClaimed, KeepFallback, RaiseSizeLimit, FetchFails,
                  ParseFails, modules_
    <3>2. CASE ServeOffline(k) \/ ServeHit(k)
      <4>1. cache[k].text \in Texts
        BY <3>2, ServedHasText DEF ServeOffline, ServeHit, TypeOK
      <4>2. Record(k, cache[k].text, "offline") \/ Record(k, cache[k].text, "hit")
        BY <3>2 DEF ServeOffline, ServeHit
      <4>3. QED
        BY <4>1, <4>2
    <3>3. CASE ReplaceFallback(k) \/ ParseFresh(k)
      <4>1. result[k] \in Texts /\ Record(k, result[k], "parsed")
        BY <3>3 DEF ReplaceFallback, ParseFresh
      <4>2. QED
        BY <4>1
    <3>4. QED
      BY <2>3, <3>1, <3>2, <3>3 DEF Process
  <2>4. QED
    BY <2>1, <2>2, <2>3 DEF Next, Queue, Discover, Sort, vars, modules_
<1>2. QED
  BY <1>1 DEF NoAliases

\* When no module was recorded from a misnamed file, the lists of failures, of
\* cached modules, of fingerprints and of source paths that resolve() returns
\* are exact, and no size-limit error is swallowed.
THEOREM ReportIsExact ==
    Spec => [](/\ FailuresAreNotModules
               /\ CachedIsAccurate
               /\ FingerprintIsOfSource
               /\ PathIsOfSource
               /\ SizeLimitPropagates)
<1>1. Init => ResolveReport
  BY ReportInit
<1>2. TypeOK /\ ResolverInv /\ ResolveReport /\ [Next]_vars => ResolveReport'
  <2> SUFFICES ASSUME TypeOK, ResolverInv, ResolveReport, [Next]_vars, NoAliases'
               PROVE  ResolveReport'
    BY DEF ResolveReport
  <2>0. NoAliases
    BY AliasesStay
  <2>1. CASE Queue
    <3>1. \A n \in Names : /\ n \in pending => result'[n] \in Outcomes
                           /\ n \notin pending => result'[n] = result[n]
      BY <2>1 DEF Queue
    <3>2. todo = {} /\ todo' = pending /\ pc # "size_limit"
      BY <2>1 DEF Queue, ResolverInv, OpenIsNew
    <3>3. \A n \in Names : result'[n] = SizeLimit => n \in todo'
      BY <2>0, <3>1, <3>2 DEF ResolveReport
    <3>4. QED
      BY <2>0, <2>1, <3>3 DEF Queue, ResolveReport, modules_, sources, Resolved
  <2>2. CASE Discover \/ Sort \/ UNCHANGED vars
    <3>1. UNCHANGED <<todo, result, modules_, errors, cached, sources, cache>>
          /\ (pc = "size_limit" => pc' = "size_limit")
      BY <2>2 DEF Discover, Sort, vars
    <3>2. QED
      BY <2>0, <3>1 DEF ResolveReport, modules_, sources, Resolved
  <2>3. QED
    BY <2>0, <2>1, <2>2, ReportProcess DEF Next
<1>3. ResolverInv /\ ResolveReport =>
          /\ FailuresAreNotModules
          /\ CachedIsAccurate
          /\ FingerprintIsOfSource
          /\ PathIsOfSource
          /\ SizeLimitPropagates
  BY DEF ResolverInv, OpenIsNew, ResolveReport, FailuresAreNotModules,
         CachedIsAccurate, FingerprintIsOfSource, PathIsOfSource,
         SizeLimitPropagates, Resolved
<1>4. QED
  BY <1>1, <1>2, <1>3, TypeCorrect, InvHolds, PTL DEF Spec

\* Without misnamed files no name is a module and a failure.
THEOREM NoNameIsBoth == Spec => []FailuresAreNotModules
BY ReportIsExact, PTL

\* Without misnamed files the modules reported as cached are those that were.
THEOREM CachedListHolds == Spec => []CachedIsAccurate
BY ReportIsExact, PTL

\* Without misnamed files fingerprints and paths are those of the sources of
\* the modules.
THEOREM SourceListHolds == Spec => []SourceIsAccurate
<1>1. FingerprintIsOfSource /\ PathIsOfSource => SourceIsAccurate
  BY DEF SourceIsAccurate
<1>2. QED
  BY <1>1, ReportIsExact, PTL

\* Without misnamed files an oversized file ends resolve().
THEOREM OversizeEndsRun == Spec => []SizeLimitPropagates
BY ReportIsExact, PTL
-----------------------------------------------------------------------------
(* What resolve() hands over to the compiler, with the modules in an order *)
(* that topological_sort may return (ReturnsAnOrder in KahnSortProofs).    *)

R == INSTANCE ResolveResult

\* The ResolveResult with the modules in the order q.
ResultOf(q) ==
    [asked   |-> requested,
     modules |-> q,
     imports |-> [n \in Names |-> IF n \in Resolved THEN Imports[fetched[n]] ELSE {}],
     errors  |-> [n \in Names |-> IF n \notin errors THEN None
                                  ELSE IF result[n] = NotFound THEN "missing"
                                  ELSE "failed"],
     aliases |-> aliases,
     cached  |-> cached]

CanReturn(q) == R!IsOrder(q, Resolved, ResultOf(q))

\* _reconcile_name adds an alias only for a module that is there, and no
\* module is dropped.
AliasesLead == \A n \in Names : aliases[n] # None => aliases[n] \in Resolved

SortSawIt == /\ pc = "done" => ~Cyclic
             /\ pc = "cycle" => Cyclic

\* Handling a name gives it an alias at most to the module it records.
LEMMA ProcessAliases ==
    ASSUME TypeOK, CacheIsSound, AliasesLead, NEW n \in Names, Process(n)
    PROVE  AliasesLead'
<1>1. CASE Untouched
  BY <1>1 DEF Untouched, AliasesLead, Resolved, modules_
<1>2. CASE Recorded(n)
  <2>1. PICK t \in Texts \ Broken, how \in {"parsed", "hit", "offline"} :
            Record(n, t, how)
    BY <1>2 DEF Recorded
  <2>2. /\ Resolved' = Resolved \cup {Declares[t]}
        /\ \A k \in Names \ {n} : aliases'[k] = aliases[k]
    BY <2>1, RecordKnown
  <2>3. aliases'[n] \in {aliases[n], Declares[t]}
    BY <2>1 DEF Record, TypeOK
  <2>4. QED
    BY <2>2, <2>3 DEF AliasesLead
<1>3. QED
  BY <1>1, <1>2, ProcessEffect

\* Every alias leads to a module, at every moment of every run.
THEOREM AliasesAlwaysLead == Spec => []AliasesLead
<1>1. Init => AliasesLead
  BY DEF Init, AliasesLead
<1>2. TypeOK /\ ResolverInv /\ AliasesLead /\ [Next]_vars => AliasesLead'
  <2> SUFFICES ASSUME TypeOK, ResolverInv, AliasesLead, [Next]_vars
               PROVE  AliasesLead'
    OBVIOUS
  <2>1. CASE \E n \in Names : Process(n)
    BY <2>1, ProcessAliases DEF ResolverInv
  <2>2. CASE UNCHANGED modules_
    BY <2>2 DEF modules_, AliasesLead, Resolved
  <2>3. QED
    BY <2>1, <2>2 DEF Next, Queue, Discover, Sort, vars
<1>3. QED
  BY <1>1, <1>2, TypeCorrect, InvHolds, PTL DEF Spec

\* The end of resolve() tells whether the modules are in a knot.
LEMMA SortSeesKnots == Spec => []SortSawIt
<1>1. Init => SortSawIt
  BY DEF Init, SortSawIt
<1>2. TypeOK /\ SortSawIt /\ [Next]_vars => SortSawIt'
  <2> SUFFICES ASSUME TypeOK, SortSawIt, [Next]_vars PROVE SortSawIt'
    OBVIOUS
  <2>1. CASE \E n \in Names : Process(n)
    BY <2>1, ProcessFrame DEF SortSawIt
  <2>2. CASE Queue \/ Discover
    BY <2>2 DEF Queue, Discover, SortSawIt
  <2>3. ASSUME UNCHANGED modules_ PROVE Cyclic' <=> Cyclic
    BY <2>3 DEF modules_, Cyclic, Resolved, Provider
  <2>4. CASE Sort
    BY <2>3, <2>4 DEF Sort, SortSawIt
  <2>5. CASE UNCHANGED vars
    BY <2>3, <2>5 DEF vars, SortSawIt
  <2>6. QED
    BY <2>1, <2>2, <2>4, <2>5 DEF Next
<1>3. QED
  BY <1>1, <1>2, TypeCorrect, PTL DEF Spec

\* What the record says of imports and providers.
LEMMA RecordIsOf ==
    ASSUME TypeOK, NEW q
    PROVE  /\ \A m \in Resolved : /\ m \in Names /\ fetched[m] \in Texts
                                  /\ ResultOf(q).imports[m] = Imports[fetched[m]]
                                  /\ Imports[fetched[m]] \subseteq Names
           /\ \A d \in Names : R!TargetIn(ResultOf(q), d) = Provider(d)
<1>1. ASSUME NEW m \in Resolved
      PROVE  m \in Names /\ fetched[m] \in Texts /\ Imports[fetched[m]] \subseteq Names
  BY TextsAreParsed DEF TypeOK, Resolved
<1>2. \A d \in Names : R!TargetIn(ResultOf(q), d) = Provider(d)
  BY DEF R!TargetIn, ResultOf, Provider
<1>3. QED
  BY <1>1, <1>2 DEF ResultOf
\* The record has the types the compiler expects.
LEMMA ResultTyped ==
    ASSUME TypeOK, NEW q, CanReturn(q)
    PROVE  /\ ResultOf(q).modules \in Seq(Names) /\ R!IsInjective(ResultOf(q).modules)
           /\ ResultOf(q).asked \subseteq Names \cup BaseMibs
           /\ ResultOf(q).imports \in [Names -> SUBSET (Names \cup BaseMibs)]
           /\ ResultOf(q).errors \in [Names -> {"missing", "failed", None}]
           /\ ResultOf(q).aliases \in [Names -> Names \cup {None}]
           /\ ResultOf(q).cached \subseteq Names
<1>1. q \in Seq(Names) /\ R!IsInjective(q)
  <2>1. q \in Seq(Resolved) /\ R!IsInjective(q) /\ Resolved \subseteq Names
    BY DEF CanReturn, R!IsOrder, Resolved
  <2>2. QED
    BY <2>1
<1>2. ResultOf(q).imports \in [Names -> SUBSET (Names \cup BaseMibs)]
  <2>1. \A m \in Resolved : Imports[fetched[m]] \subseteq Names
    BY RecordIsOf
  <2>2. QED
    BY <2>1 DEF ResultOf
<1>3. ResultOf(q).errors \in [Names -> {"missing", "failed", None}]
  BY DEF ResultOf
<1>4. QED
  BY <1>1, <1>2, <1>3 DEF ResultOf, TypeOK

\* A name known to the resolver is accounted for in the record.
LEMMA KnownIsAccounted ==
    ASSUME TypeOK, AliasesLead, NEW q, CanReturn(q), NEW n \in Names, Known(n)
    PROVE  R!Accounted(ResultOf(q), n)
<1>1. R!ToSet(ResultOf(q).modules) = Resolved
  BY DEF CanReturn, R!IsOrder, ResultOf
<1>2. R!TargetIn(ResultOf(q), n) = Provider(n)
  BY RecordIsOf
<1>3. CASE n \in errors
  BY <1>3, OutcomesAreDistinct DEF ResultOf, R!Accounted
<1>4. CASE n \in Resolved \/ aliases[n] # None
  BY <1>1, <1>2, <1>4 DEF AliasesLead, Provider, R!Accounted
<1>5. QED
  BY <1>3, <1>4 DEF Known

ResultIsResolution ==
    pc = "done" => \A q \in Seq(Names) : CanReturn(q) => R!IsResolution(ResultOf(q))

\* resolver.py:467-483: whichever order the sort returns, the result is what
\* the compiler takes for granted: its modules come after what they import,
\* and every requested name, alias and import leads to one of them, to a base
\* MIB or to an error, whatever the files declare and however fetches fail.
THEOREM ResolverDelivers == Spec => []ResultIsResolution
<1>1. TypeOK /\ ClosureComplete /\ AliasesLead => ResultIsResolution
  <2> SUFFICES ASSUME TypeOK, ClosureComplete, AliasesLead, pc = "done",
                      NEW q \in Seq(Names), CanReturn(q)
               PROVE  R!IsResolution(ResultOf(q))
    BY DEF ResultIsResolution
  <2>1. R!ToSet(ResultOf(q).modules) = Resolved /\ R!InOrder(q, ResultOf(q))
    BY DEF CanReturn, R!IsOrder, ResultOf
  <2>2. \A n \in Names : ResultOf(q).aliases[n] # None => ResultOf(q).aliases[n] \in Resolved
    BY DEF ResultOf, AliasesLead
  <2>3. \A n \in ResultOf(q).asked : R!Accounted(ResultOf(q), n)
    <3>1. \A n \in requested : n \in Names /\ Known(n)
      BY DEF ClosureComplete, TypeOK
    <3>2. QED
      BY <3>1, KnownIsAccounted DEF ResultOf
  <2>4. ASSUME NEW m \in Resolved, NEW d \in ResultOf(q).imports[m]
        PROVE  R!Accounted(ResultOf(q), d)
    <3>1. d \in Names /\ d \in Imports[fetched[m]]
      BY <2>4, RecordIsOf
    <3>2. CASE d \in BaseMibs
      BY <3>2 DEF R!Accounted
    <3>3. CASE d \notin BaseMibs
      BY <3>1, <3>3, KnownIsAccounted DEF ClosureComplete
    <3>4. QED
      BY <3>2, <3>3
  <2>5. R!IsClosed(ResultOf(q))
    BY <2>1, <2>2, <2>3, <2>4 DEF R!IsClosed
  <2>6. R!InOrder(ResultOf(q).modules, ResultOf(q))
    BY <2>1 DEF ResultOf
  <2>7. QED
    BY <2>5, <2>6, ResultTyped DEF R!IsResolution
<1>2. QED
  BY <1>1, TypeCorrect, ClosureIsComplete, AliasesAlwaysLead, PTL
-----------------------------------------------------------------------------
(* The step Sort stands for the whole of topological_sort: it ends in      *)
(* "done" if an order exists and in "cycle" if none does.                  *)

\* A nonempty set of naturals has a least one.
LEMMA LeastNatural ==
    ASSUME NEW S \in SUBSET Nat, S # {}
    PROVE  \E n \in S : \A m \in S : n <= m
<1> DEFINE L == {p \in Nat \X Nat : p[1] < p[2]}
<1>1. IsWellFoundedOn(L, Nat)
  BY NatLessThanWellFounded DEF OpToRel
<1> HIDE DEF L
<1>2. PICK n \in S : \A m \in S : ~(<<m, n>> \in L)
  BY <1>1, WFMin
<1>3. \A m \in S : ~(m < n)
  BY <1>2 DEF L
<1>4. QED
  BY <1>3

\* Of modules in order, the first one of a knot would need an earlier one.
LEMMA CyclicHasNoOrder ==
    ASSUME TypeOK, Cyclic, NEW q, CanReturn(q)
    PROVE  FALSE
<1>1. PICK S \in SUBSET Resolved :
          /\ S # {}
          /\ \A m \in S : \E d \in Imports[fetched[m]] : Provider(d) \in S
  BY DEF Cyclic
<1> DEFINE P == {i \in DOMAIN q : q[i] \in S}
<1>2. /\ DOMAIN q \subseteq Nat
      /\ Resolved = R!ToSet(q) /\ Resolved = {q[i] : i \in DOMAIN q}
      /\ \A i \in DOMAIN q : \A j \in 1..(i - 1) : j \in DOMAIN q /\ j < i
  BY DEF CanReturn, R!IsOrder, R!ToSet
<1>3. P \subseteq Nat /\ P # {}
  BY <1>1, <1>2
<1>4. PICK i \in P : \A j \in P : i <= j
  <2> HIDE DEF P
  <2>1. QED
    BY <1>3, LeastNatural
<1>5. PICK d \in Imports[fetched[q[i]]] : Provider(d) \in S
  BY <1>1
<1>6. /\ d \in ResultOf(q).imports[q[i]]
      /\ R!TargetIn(ResultOf(q), d) = Provider(d)
  BY <1>1, <1>5, RecordIsOf
<1>7. PICK j \in 1..(i - 1) : q[j] = Provider(d)
  BY <1>1, <1>2, <1>5, <1>6 DEF CanReturn, R!IsOrder, R!InOrder
<1>8. j \in P /\ ~(i <= j)
  BY <1>2, <1>3, <1>5, <1>7
<1>9. QED
  BY <1>4, <1>8

\* The modules of q have all the modules they import before them.
Begins(q) ==
    /\ q \in Seq(Resolved) /\ R!IsInjective(q)
    /\ \A i \in DOMAIN q : \A d \in Imports[fetched[q[i]]] :
          Provider(d) \in Resolved => \E j \in 1..(i - 1) : q[j] = Provider(d)

\* A list that begins an order can be made longer if there is no knot.
LEMMA OneMore ==
    ASSUME TypeOK, ~Cyclic, NEW q, Begins(q), R!ToSet(q) # Resolved
    PROVE  \E m \in Resolved \ R!ToSet(q) :
               /\ Begins(Append(q, m))
               /\ R!ToSet(Append(q, m)) = R!ToSet(q) \cup {m}
<1>1. /\ q \in Seq(Resolved) /\ Len(q) \in Nat /\ DOMAIN q = 1..Len(q)
      /\ R!ToSet(q) \subseteq Resolved
  BY DEF Begins, R!ToSet
<1>2. PICK m \in Resolved \ R!ToSet(q) :
          \A d \in Imports[fetched[m]] : Provider(d) \in Resolved => Provider(d) \in R!ToSet(q)
  <2> DEFINE S == Resolved \ R!ToSet(q)
  <2>1. S # {} /\ S \in SUBSET Resolved
    BY <1>1
  <2>2. QED
    BY <2>1 DEF Cyclic
<1> DEFINE p == Append(q, m)
<1>3. /\ p \in Seq(Resolved) /\ DOMAIN p = 1..(Len(q) + 1)
      /\ p[Len(q) + 1] = m
      /\ \A i \in 1..Len(q) : p[i] = q[i]
  BY <1>1, AppendProperties
<1> HIDE DEF p
<1>4. R!ToSet(p) = R!ToSet(q) \cup {m}
  BY <1>1, <1>3 DEF R!ToSet
<1>5. R!IsInjective(p)
  <2> SUFFICES ASSUME NEW i \in DOMAIN p, NEW j \in DOMAIN p, p[i] = p[j] PROVE i = j
    BY DEF R!IsInjective
  <2>1. \A k \in 1..Len(q) : p[k] # m
    BY <1>1, <1>3 DEF R!ToSet
  <2>2. CASE i \in 1..Len(q) /\ j \in 1..Len(q)
    BY <1>1, <1>3, <2>2 DEF Begins, R!IsInjective
  <2>3. CASE i = Len(q) + 1 \/ j = Len(q) + 1
    BY <1>1, <1>3, <2>1, <2>3
  <2>4. QED
    BY <1>1, <1>3, <2>2, <2>3
<1>6. ASSUME NEW i \in DOMAIN p, NEW d \in Imports[fetched[p[i]]], Provider(d) \in Resolved
      PROVE  \E j \in 1..(i - 1) : p[j] = Provider(d)
  <2>1. CASE i \in 1..Len(q)
    <3>1. PICK j \in 1..(i - 1) : q[j] = Provider(d)
      BY <1>1, <1>3, <1>6, <2>1 DEF Begins
    <3>2. QED
      BY <1>1, <1>3, <2>1, <3>1
  <2>2. CASE i = Len(q) + 1
    <3>1. Provider(d) \in R!ToSet(q)
      BY <1>2, <1>3, <1>6, <2>2
    <3>2. PICK j \in 1..Len(q) : q[j] = Provider(d)
      BY <1>1, <3>1 DEF R!ToSet
    <3>3. QED
      BY <1>1, <1>3, <2>2, <3>2
  <2>3. QED
    BY <1>1, <1>3, <2>1, <2>2
<1>7. Begins(p)
  BY <1>3, <1>5, <1>6 DEF Begins
<1>8. QED
  BY <1>4, <1>7 DEF p

\* So finitely many modules without a knot have an order.
LEMMA AcyclicHasOrder ==
    ASSUME TypeOK, ~Cyclic, IsFiniteSet(Resolved)
    PROVE  \E q \in Seq(Names) : CanReturn(q)
<1> DEFINE Missing(q) == Resolved \ R!ToSet(q)
           L == {k \in Nat : \E q : Begins(q) /\ k = Cardinality(Missing(q))}
<1>1. \A q : IsFiniteSet(Missing(q)) /\ Cardinality(Missing(q)) \in Nat
  BY FS_Difference, FS_CardinalityType
<1>2. Begins(<<>>)
  BY DEF Begins, R!IsInjective
<1>3. \A q : Begins(q) => Cardinality(Missing(q)) \in L
  BY <1>1
<1>4. PICK k \in L : \A l \in L : k <= l
  <2>1. L \in SUBSET Nat
    OBVIOUS
  <2>2. L # {}
    BY <1>2, <1>3
  <2> HIDE DEF L
  <2>3. QED
    BY <2>1, <2>2, LeastNatural
<1>5. PICK q : Begins(q) /\ k = Cardinality(Missing(q))
  OBVIOUS
<1>6. R!ToSet(q) = Resolved
  <2> SUFFICES ASSUME R!ToSet(q) # Resolved PROVE FALSE
    OBVIOUS
  <2>1. PICK m \in Missing(q) : /\ Begins(Append(q, m))
                                /\ R!ToSet(Append(q, m)) = R!ToSet(q) \cup {m}
    BY <1>5, OneMore
  <2>2. Missing(Append(q, m)) = Missing(q) \ {m}
    BY <2>1
  <2>3. Cardinality(Missing(q) \ {m}) = k - 1
    <3> HIDE DEF Missing
    <3>1. QED
      BY <1>1, <1>5, <2>1, FS_RemoveElement
  <2>4. k - 1 \in L /\ ~(k <= k - 1)
    <3>1. k - 1 = Cardinality(Missing(Append(q, m)))
      BY <2>2, <2>3
    <3>2. k \in Nat
      OBVIOUS
    <3>3. Cardinality(Missing(Append(q, m))) \in L
      BY <1>3, <2>1
    <3> HIDE DEF L, Missing
    <3>4. QED
      BY <3>1, <3>2, <3>3
  <2>5. QED
    BY <1>4, <2>4
<1>7. R!InOrder(q, ResultOf(q))
  <2> SUFFICES ASSUME NEW i \in DOMAIN q, NEW d \in ResultOf(q).imports[q[i]],
                      R!TargetIn(ResultOf(q), d) \in R!ToSet(q)
               PROVE  \E j \in 1..(i - 1) : q[j] = R!TargetIn(ResultOf(q), d)
    BY DEF R!InOrder
  <2>1. q[i] \in Resolved
    BY <1>6 DEF R!ToSet
  <2>2. d \in Imports[fetched[q[i]]] /\ R!TargetIn(ResultOf(q), d) = Provider(d)
    BY <2>1, RecordIsOf
  <2>3. QED
    BY <1>5, <1>6, <2>2 DEF Begins
<1>8. CanReturn(q)
  BY <1>5, <1>6, <1>7 DEF Begins, CanReturn, R!IsOrder
<1>9. q \in Seq(Names)
  <2>1. q \in Seq(Resolved) /\ Resolved \subseteq Names
    BY <1>5 DEF Begins, Resolved
  <2>2. QED
    BY <2>1
<1>10. QED
  BY <1>8, <1>9

SortIsExact ==
    /\ pc = "done" /\ IsFiniteSet(Resolved) => \E q \in Seq(Names) : CanReturn(q)
    /\ pc = "cycle" => \A q \in Seq(Names) : ~CanReturn(q)

\* resolver.py:467-474, dependency.py:70-75: resolve() returns only if the
\* modules it found have an order, which topological_sort then returns, and it
\* raises CircularDependencyError only if they have none.
THEOREM SortOutcomeIsExact == Spec => []SortIsExact
<1>1. TypeOK /\ SortSawIt => SortIsExact
  BY AcyclicHasOrder, CyclicHasNoOrder DEF SortSawIt, SortIsExact
<1>2. QED
  BY <1>1, TypeCorrect, SortSeesKnots, PTL
-----------------------------------------------------------------------------
(* Why resolve() ends: every step makes one of three things smaller and    *)
(* none before it larger, the names never fetched, the names of the wave   *)
(* not handled yet, and the stages until the next wave.                    *)

Unasked == {n \in Names : result[n] = Unfetched}

Stage(p) == IF p = "process" THEN 3 ELSE IF p = "queue" THEN 2
            ELSE IF p = "sort" THEN 1 ELSE 0

Advances ==
    /\ Unasked' \subseteq Unasked
    /\ Unasked' = Unasked => todo' \subseteq todo
    /\ Unasked' = Unasked /\ todo' = todo => Stage(pc') < Stage(pc)

\* resolver.py:257-465: whatever the files declare and import, in circles too,
\* no step of resolve() leaves it where it was: each wave fetches a name for
\* the first time, and a wave ends.  With finitely many names it has finitely
\* many steps.
THEOREM EveryStepAdvances == Spec => [][Advances]_vars
<1>1. TypeOK /\ NeverRefetched /\ ResolverInv /\ [Next]_vars => [Advances]_vars
  <2> SUFFICES ASSUME TypeOK, NeverRefetched, ResolverInv, Next PROVE Advances
    OBVIOUS
  <2>1. CASE Queue
    <3>1. PICK r \in [pending -> Outcomes] :
              result' = [n \in Names |-> IF n \in pending THEN r[n] ELSE result[n]]
      BY <2>1 DEF Queue
    <3>2. /\ pending \subseteq Names /\ pending # {}
          /\ \A n \in pending : result[n] = Unfetched /\ r[n] # Unfetched
      BY <2>1, OutcomesAreDistinct DEF Queue, NeverRefetched, TypeOK
    <3>3. Unasked' = Unasked \ pending
      BY <3>1, <3>2 DEF Unasked
    <3>4. PICK n \in pending : n \in Unasked
      BY <3>2 DEF Unasked
    <3>5. QED
      BY <3>3, <3>4 DEF Advances
  <2>2. ASSUME NEW n \in Names, Process(n) PROVE Advances
    <3>1. n \in todo /\ todo' = todo \ {n} /\ result' = result
      BY <2>2, ProcessFrame
    <3>2. QED
      BY <3>1 DEF Advances, Unasked
  <2>3. CASE Discover
    <3>1. Unasked' = Unasked /\ todo' = todo
      BY <2>3 DEF Discover, Unasked
    <3>2. Stage(pc) = 3 /\ Stage(pc') \in {1, 2}
      BY <2>3 DEF Discover, Stage
    <3>3. QED
      BY <3>1, <3>2 DEF Advances
  <2>4. CASE Sort
    <3>1. Unasked' = Unasked /\ todo' = todo
      BY <2>4 DEF Sort, Unasked
    <3>2. Stage(pc) = 1 /\ Stage(pc') = 0
      BY <2>4 DEF Sort, Stage
    <3>3. QED
      BY <3>1, <3>2 DEF Advances
  <2>5. QED
    BY <2>1, <2>2, <2>3, <2>4 DEF Next
<1>2. QED
  BY <1>1, TypeCorrect, InvHolds, NoPhantomFetch, PTL DEF Spec
-----------------------------------------------------------------------------
(* The cache of resolve() is the one that MibCacheFiles implements.  Two   *)
(* entries change at once where a misnamed module is stored, so the atomic *)
(* cache is taken one entry at a time.                                     *)

\* What may be stored as n: a text of a file found as n, or declaring n.
Storable(n) ==
    {t \in Texts \ Broken : \E m \in Names : t \in Holds[m] /\ n \in {m, Declares[t]}}

\* As MibCacheFiles reads a directory.
Held(e) == IF e = None \/ e.state = "corrupt" THEN None
           ELSE [text |-> e.text, fp |-> e.fp]

EntryOf(n) == INSTANCE AtomicCache
    WITH Proc <- {}, Names <- {n}, Holds <- [k \in {n} |-> Storable(k)],
         entry <- [k \in {n} |-> Held(cache[k])], answer <- [p \in {} |-> None]

\* A fetched text is one that the source has under the name.
FetchedIsHeld == \A n \in Names : result[n] \in Texts => result[n] \in Holds[n]

LEMMA SourcesAreHonest == Spec => []FetchedIsHeld
<1>1. Init => FetchedIsHeld
  BY OutcomesAreDistinct DEF Init, FetchedIsHeld, Outcomes
<1>2. TypeOK /\ FetchedIsHeld /\ [Next]_vars => FetchedIsHeld'
  <2> SUFFICES ASSUME TypeOK, FetchedIsHeld, [Next]_vars PROVE FetchedIsHeld'
    OBVIOUS
  <2>1. CASE Queue
    BY <2>1 DEF Queue, FetchedIsHeld
  <2>2. CASE result' = result
    BY <2>2 DEF FetchedIsHeld
  <2>3. QED
    BY <2>1, <2>2, ProcessFrame DEF Next, Discover, Sort, vars
<1>3. QED
  BY <1>1, <1>2, TypeCorrect, PTL DEF Spec

\* Whatever a step does to an entry, it is stored, refused or left alone.
LEMMA EntriesChange ==
    ASSUME TypeOK, FetchedIsHeld, NEW k \in Names, [Next]_vars
    PROVE  cache'[k] \in {cache[k], None} \cup {Stored(t) : t \in Storable(k)}
<1>1. CASE cache' = cache
  BY <1>1
<1>2. ASSUME NEW n \in Names, Process(n)
      PROVE  cache'[k] \in {cache[k], None} \cup {Stored(t) : t \in Storable(k)}
  <2>1. CASE SkipClaimed(n) \/ KeepFallback(n) \/ RaiseSizeLimit(n)
             \/ ServeOffline(n) \/ ServeHit(n)
    BY <2>1 DEF SkipClaimed, KeepFallback, RaiseSizeLimit, ServeOffline, ServeHit
  <2>2. CASE FetchFails(n) \/ ParseFails(n)
    BY <2>2 DEF FetchFails, ParseFails, Refused, AfterGet, TypeOK
  <2>3. ASSUME NEW before, \A j \in Names : before[j] \in {cache[j], None},
               result[n] \in Texts \ Broken, Store(n, result[n], before)
        PROVE  cache'[k] \in {cache[k], None} \cup {Stored(t) : t \in Storable(k)}
    <3>1. \/ cache'[k] = before[k]
          \/ k \in {n, Declares[result[n]]} /\ cache'[k] = Stored(result[n])
      BY <2>3 DEF Store
    <3>2. k \in {n, Declares[result[n]]} => result[n] \in Storable(k)
      BY <2>3 DEF Storable, FetchedIsHeld
    <3>3. QED
      BY <2>3, <3>1, <3>2
  <2>4. CASE ReplaceFallback(n)
    BY <2>3, <2>4 DEF ReplaceFallback
  <2>5. CASE ParseFresh(n)
    <3>1. \A j \in Names : Refused(n, result[n])[j] \in {cache[j], None}
      BY DEF Refused, AfterGet, TypeOK
    <3>2. QED
      BY <2>3, <2>5, <3>1 DEF ParseFresh
  <2>6. QED
    BY <1>2, <2>1, <2>2, <2>4, <2>5 DEF Process
<1>3. QED
  BY <1>1, <1>2 DEF Next, Queue, Discover, Sort, vars

\* resolver.py:342, 390, 397-449: to every entry resolve() does nothing that the
\* atomic cache does not do: it is dropped, or replaced by that of a text that
\* was fetched in this run and parses, under its requested or declared name.
THEOREM EntriesAreAtomic == ASSUME NEW n \in Names PROVE Spec => EntryOf(n)!Spec
<1>1. TypeOK /\ Init => EntryOf(n)!Init
  <2> SUFFICES ASSUME TypeOK PROVE EntryOf(n)!Init
    OBVIOUS
  <2>1. cache[n] \in Entry \cup {None}
    BY DEF TypeOK
  <2>2. Held(cache[n]) \in [text : Texts, fp : Texts \cup {None}] \cup {None}
    BY <2>1 DEF Held, Entry
  <2>3. QED
    BY <2>2 DEF EntryOf!Init
<1>2. TypeOK /\ FetchedIsHeld /\ [Next]_vars
          => [EntryOf(n)!Next]_<<[k \in {n} |-> Held(cache[k])], [p \in {} |-> None]>>
  <2> SUFFICES ASSUME TypeOK, FetchedIsHeld, [Next]_vars
               PROVE  [EntryOf(n)!Next]_<<[k \in {n} |-> Held(cache[k])], [p \in {} |-> None]>>
    OBVIOUS
  <2>1. CASE cache'[n] = cache[n]
    BY <2>1
  <2>2. CASE cache'[n] = None
    <3>1. EntryOf(n)!Forget(n)
      BY <2>2 DEF EntryOf!Forget, Held
    <3>2. QED
      BY <3>1 DEF EntryOf!Next
  <2>3. ASSUME NEW t \in Storable(n), cache'[n] = Stored(t)
        PROVE  EntryOf(n)!Next
    <3>1. Held(cache'[n]) = [text |-> t, fp |-> t]
      BY <2>3, OutcomesAreDistinct DEF Stored, Held, Entry, Storable
    <3>2. EntryOf(n)!Store(n, t)
      BY <3>1 DEF EntryOf!Store
    <3>3. QED
      BY <3>2 DEF EntryOf!Next, Storable
  <2>4. QED
    BY <2>1, <2>2, <2>3, EntriesChange
<1>3. QED
  BY <1>1, <1>2, TypeCorrect, SourcesAreHonest, PTL DEF Spec, EntryOf!Spec
=============================================================================
