--------------------------- MODULE WatchLoopProofs ---------------------------
(***************************************************************************)
(* What holds of every session of WatchLoop, whatever the names, texts,    *)
(* imports and cache entries, in a world that edits files whenever it likes *)
(* and in which writing may fail: the types, that work is always scheduled, *)
(* that a good result has an output, that a deletion is recorded, and that  *)
(* the results the loop settles on undisturbed are fresh.                   *)
(***************************************************************************)
EXTENDS WatchLoop, FiniteSetTheorems, WellFoundedInduction, TLAPS

-----------------------------------------------------------------------------
(* Facts about the operators.                                              *)

\* A closure contains its start, and names only.
LEMMA ClosureExtends ==
    ASSUME NEW S \in SUBSET Names, NEW edges
    PROVE  /\ S \subseteq Closure(S, edges)
           /\ Closure(S, edges) \subseteq Names
  BY DEF Closure

\* Every path that changed is recompiled.
LEMMA DependentsExtend ==
    ASSUME NEW S \in SUBSET Names
    PROVE  S \subseteq Dependents(S) /\ Dependents(S) \subseteq Names
  BY ClosureExtends DEF Dependents

\* What a compile emits was obtained.
LEMMA EmittedWasObtained ==
    ASSUME NEW S, NEW text, NEW n \in Emitted(S, text)
    PROVE  n \in Names /\ text[n] # None
  <1>1. n \in Closure(S, ImportsOf(text)) \ Unavailable(S, text)
    BY DEF Emitted
  <1>2. n \in Names
    BY <1>1 DEF Closure
  <1>3. text[n] # None
    BY <1>1 DEF Unavailable
  <1> QED
    BY <1>2, <1>3

\* A retried module has a failed edge.
LEMMA RetriedFailed ==
    ASSUME NEW S, NEW deps, NEW n \in RetrySet(S, deps)
    PROVE  n \in Names /\ deps[n] # {}
  <1> DEFINE unblocks == [d \in Names |-> {m \in Names : d \in deps[m]}]
  <1>1. Closure(S, unblocks) \subseteq Names
    BY DEF Closure
  <1>2. PICK d \in Closure(S, unblocks) : n \in unblocks[d]
    BY DEF RetrySet
  <1>3. n \in {m \in Names : d \in deps[m]}
    BY <1>1, <1>2
  <1> QED
    BY <1>3

\* The results of a compile are for names, have the types of a result, and
\* list missing dependencies that have results themselves.
LEMMA ReportIsTyped ==
    ASSUME NEW S, NEW text
    PROVE  /\ DOMAIN Report(S, text) \subseteq Names
           /\ Report(S, text) \in [DOMAIN Report(S, text) -> Result]
           /\ \A n \in DOMAIN Report(S, text) :
                 /\ Report(S, text)[n].missing \subseteq DOMAIN Report(S, text)
                 /\ Report(S, text)[n].status = "ok" => n \in Emitted(S, text)
  <1> DEFINE D == Closure(S, ImportsOf(text))
  <1>1. D \subseteq Names
    BY DEF Closure
  <1>2. Unavailable(S, text) \subseteq D /\ Blocked(S, text) \subseteq D
    BY DEF Unavailable, Blocked
  <1>3. DOMAIN Report(S, text) = D
    BY DEF Report
  <1>4. ASSUME NEW n \in D
        PROVE  /\ Report(S, text)[n] \in Result
               /\ Report(S, text)[n].missing \subseteq D
               /\ Report(S, text)[n].status = "ok" => n \in Emitted(S, text)
    BY <1>1, <1>2, <1>4 DEF Report, Result, Files
  <1>5. Report(S, text) \in [D -> Result]
    BY <1>4 DEF Report
  <1> QED
    BY <1>1, <1>3, <1>4, <1>5

\* What a compile that obtained text does to the state, less the order in
\* which outputs are written.
WriteFailure(w) == [n \in w |-> [status |-> "failed", local |-> FALSE, missing |-> {}]]

CompileEffect(text, expired) ==
    /\ cache' = Cached(names, text, expired)
    /\ read' = [n \in Names |-> IF n \in Closure(names, ImportsOf(text))
                                THEN Sig(n) ELSE read[n]]
    /\ \/ pc' = "raised" /\ UNCHANGED <<out, results, disturbed>>
       \/ /\ pc' = "fold"
          /\ \E written \in SUBSET Emitted(names, text) :
                /\ out' = [n \in Names |-> IF n \in written THEN text[n] ELSE out[n]]
                /\ \/ /\ results' = Report(names, text)
                      /\ written = Emitted(names, text)
                      /\ ~Circular(names, text)
                      /\ disturbed' = (disturbed \/ Outdated(names, text, expired) # {})
                   \/ /\ \E w \in SUBSET Emitted(names, text) :
                            results' = WriteFailure(w)
                      /\ disturbed' = TRUE

LEMMA CompileHasEffect ==
    ASSUME CompileCycle
    PROVE  \E expired \in Expiries : CompileEffect(Obtained(expired), expired)
  BY ZenonT(60) DEF CompileCycle, CompileEffect, WriteFailure

-----------------------------------------------------------------------------
(* Types.                                                                  *)

\* What the type invariant needs besides itself: results list dependencies
\* that have results too, and only known modules have failed edges.
TypeInv ==
    /\ TypeOK
    /\ DOMAIN results \subseteq Names
    /\ \A n \in DOMAIN results : results[n].missing \subseteq DOMAIN results
    /\ \A n \in Names : failed_deps[n] # {} => n \in known

LEMMA SigIsTyped ==
    ASSUME TypeInv, NEW n \in Names
    PROVE  Sig(n) \in Sigs
  BY DEF TypeInv, TypeOK, Sig, Sigs

LEMMA TypeInit == Init => TypeInv
  <1> SUFFICES ASSUME Init PROVE TypeInv
    OBVIOUS
  <1>1. /\ file \in [Names -> Texts \cup {None}]
        /\ cache \in [Names -> Texts \cup {None}]
        /\ InitialNames \subseteq Names /\ MaxChanges \in Nat
    <2>1. file \in InitialFiles /\ cache \in InitialCaches
      BY DEF Init
    <2>2. cache \in [Names -> (Texts \ Broken) \cup {None}]
      BY <2>1, SessionIsValid
    <2> QED
      BY <2>1, <2>2, SessionIsValid
  <1>2. /\ out \in [Names -> Texts \cup {None}] /\ read \in [Names -> Sigs]
        /\ stamp \in [Names -> 0..MaxChanges] /\ clock \in 0..MaxChanges
        /\ failed_deps \in [Names -> SUBSET known] /\ graph \in [Names -> SUBSET Names]
        /\ latest \in [Names -> {"none", "ok"} \cup BadStatuses]
    BY <1>1 DEF Init, Sigs
  <1>3. /\ watched = {} /\ DOMAIN results = {} /\ DOMAIN snap = {}
        /\ snap \in [{} -> Sigs] /\ results \in [{} -> Result]
        /\ baseline \in [{} -> Sigs] /\ prev_snap \in [{} -> Sigs]
    BY DEF Init, watched
  <1> QED
    BY <1>1, <1>2, <1>3 DEF Init, TypeInv, TypeOK

LEMMA TypeStep == TypeInv /\ [Next]_vars => TypeInv'
  <1> SUFFICES ASSUME TypeInv, [Next]_vars
               PROVE  TypeInv'
    OBVIOUS
  <1> USE DEF TypeInv, TypeOK, watched, Ended
  <1>1. ASSUME NEW n \in Names, Change(n)
        PROVE  TypeInv'
    <2>1. file' \in [Names -> Texts \cup {None}]
      <3>1. PICK t \in Holds[n] \cup {None} : file' = [file EXCEPT ![n] = t]
        BY <1>1 DEF Change
      <3>2. t \in Texts \cup {None}
        BY <3>1, TextsAreParsed
      <3> QED
        BY <3>1, <3>2
    <2>2. clock' \in 0..MaxChanges
      BY <1>1, SessionIsValid DEF Change
    <2>3. stamp' \in [Names -> 0..MaxChanges]
      BY <1>1, <2>2 DEF Change
    <2> QED
      BY <1>1, <2>1, <2>2, <2>3
      DEF Change, disk, cycle, session, polling, Sigs, BadStatuses, Result
  <1>2. CASE Elapse
    BY <1>2 DEF Elapse, files, disk, cycle, session, Sigs, BadStatuses, Result
  <1>3. CASE CompileCycle
    <2>1. PICK expired \in Expiries : CompileEffect(Obtained(expired), expired)
      BY <1>3, CompileHasEffect
    <2> DEFINE text == Obtained(expired)
    <2>2. text \in [Names -> Texts \cup {None}]
      BY DEF Obtained
    <2> HIDE DEF text
    <2>3. cache' \in [Names -> Texts \cup {None}]
      BY <2>1, <2>2 DEF Cached, CompileEffect, text
    <2>4. read' \in [Names -> Sigs]
      BY <2>1, SigIsTyped DEF CompileEffect, text
    <2>5. out' \in [Names -> Texts \cup {None}]
      BY <2>1, <2>2 DEF CompileEffect, text
    <2>6. /\ DOMAIN results' \subseteq Names
          /\ results' \in [DOMAIN results' -> Result]
          /\ \A n \in DOMAIN results' : results'[n].missing \subseteq DOMAIN results'
      <3>1. CASE UNCHANGED results
        BY <3>1
      <3>2. CASE results' = Report(names, text)
        BY <3>2, ReportIsTyped
      <3>3. CASE \E w \in SUBSET Emitted(names, text) : results' = WriteFailure(w)
        BY <3>3, EmittedWasObtained DEF Result, WriteFailure
      <3> QED
        BY <2>1, <3>1, <3>2, <3>3 DEF CompileEffect, text
    <2>7. pc' \in {"raised", "fold"} /\ disturbed' \in BOOLEAN
      BY <2>1 DEF CompileEffect
    <2> QED
      BY <1>3, <2>3, <2>4, <2>5, <2>6, <2>7
      DEF CompileCycle, files, session, polling, Sigs, BadStatuses, Result
  <1>4. CASE Fold
    <2> DEFINE seen == known \cup DOMAIN results
               new == NewStems(Polled)
               retry == RetrySet(Supplied, FailedDeps)
    <2>1. /\ pc' = "scan" /\ deleted' = {}
          /\ UNCHANGED <<files, cache, out, read, names>>
          /\ disturbed' \in BOOLEAN
          /\ known' = seen \cup new
          /\ noticed' = noticed \cup new
          /\ pending_adopt' = pending_adopt \cup new
          /\ failed_deps' = FailedDeps
          /\ pending_retry' = pending_retry \cup retry
          /\ latest' = Latest
          /\ graph' = ImportGraph
          /\ baseline' = [n \in Polled |-> Sig(n)]
          /\ prev_snap' = baseline'
          /\ last_change' \in {"recent", last_change}
          /\ snap' = [n \in {} |-> None]
          /\ results' = [n \in {} |-> None]
      BY <1>4 DEF Fold
    <2>2. new \subseteq Names
      BY DEF NewStems, Files
    <2>3. seen \subseteq Names /\ Polled \subseteq seen
      BY DEF Polled, Local
    <2>4. FailedDeps \in [Names -> SUBSET seen]
      BY DEF FailedDeps, Supplied
    <2>5. \A n \in Names : FailedDeps[n] # {} => n \in seen
      BY DEF FailedDeps, Supplied
    <2>6. retry \subseteq seen
      BY <2>5, RetriedFailed
    <2>7. Latest \in [Names -> {"none", "ok"} \cup BadStatuses]
      BY DEF Latest, BadStatuses, Result
    <2>8. graph' \in [Names -> SUBSET Names]
      BY <2>1, TextsAreParsed DEF ImportGraph, Files
    <2>9. baseline' \in [Polled -> Sigs]
      BY <2>1, <2>3, SigIsTyped
    <2>10. DOMAIN baseline' = Polled
      BY <2>1
    <2> HIDE DEF seen, new, retry
    <2>11. known' \subseteq Names /\ noticed' \subseteq known'
           /\ pending_adopt' \subseteq noticed' /\ pending_retry' \subseteq known'
           /\ watched' \subseteq known'
      BY <2>1, <2>2, <2>3, <2>6, <2>10 DEF seen
    <2>12. /\ failed_deps' \in [Names -> SUBSET known']
           /\ \A n \in Names : failed_deps'[n] # {} => n \in known'
      BY <2>1, <2>4, <2>5
    <2>13. /\ snap' \in [DOMAIN snap' -> Sigs']
           /\ results' \in [DOMAIN results' -> Result']
           /\ DOMAIN results' = {}
      BY <2>1
    <2> QED
      BY <2>1, <2>7, <2>8, <2>9, <2>10, <2>11, <2>12, <2>13
      DEF files, Sigs, BadStatuses, Result
  <1>5. CASE Scan
    BY <1>5 DEF Scan, NewStems, Files, files, disk, cycle, Sigs, BadStatuses, Result
  <1>6. CASE Poll
    <2>1. prev_snap' \in [watched -> Sigs]
      BY <1>6, SigIsTyped DEF Poll, Seen
    <2> QED
      BY <1>6, <2>1 DEF Poll, files, disk, cycle, session, Sigs, BadStatuses, Result
  <1>7. CASE Invalidate
    <2>1. Seen \in [watched -> Sigs]
      BY SigIsTyped DEF Seen
    <2>2. names' \subseteq Names
      <3> DEFINE changed == {n \in watched : Seen[n] # baseline[n]}
                 invalid == Dependents(changed) \cup pending_adopt \cup pending_retry
      <3>1. changed \subseteq Names
        OBVIOUS
      <3>2. invalid \subseteq Names
        BY <3>1, DependentsExtend
      <3>3. names' = invalid \/ UNCHANGED names
        BY <1>7 DEF Invalidate, cycle
      <3> QED
        BY <3>2, <3>3
    <2>3. deleted' \subseteq watched
      BY <1>7 DEF Invalidate, cycle
    <2>4. snap' \in [DOMAIN snap' -> Sigs]
      BY <1>7, <2>1 DEF Invalidate, cycle
    <2>5. UNCHANGED results /\ pc' \in {"scan", "compile"}
      BY <1>7 DEF Invalidate, cycle
    <2> QED
      BY <1>7, <2>2, <2>3, <2>4, <2>5
      DEF Invalidate, files, disk, Sigs, BadStatuses, Result
  <1>8. CASE Stop
    BY <1>8 DEF Stop, files, disk, cycle, session, polling, Sigs, BadStatuses, Result
  <1>9. CASE UNCHANGED vars
    BY <1>9 DEF vars, files, disk, cycle, session, polling, Sigs, BadStatuses, Result
  <1> QED
    BY <1>1, <1>2, <1>3, <1>4, <1>5, <1>6, <1>7, <1>8, <1>9 DEF Next, Loop

LEMMA TypeInvHolds == Spec => []TypeInv
  BY TypeInit, TypeStep, PTL DEF Spec

\* The types of WatchLoop hold in every session.
THEOREM WatchTypeCorrect == Spec => []TypeOK
  <1>1. TypeInv => TypeOK
    BY DEF TypeInv
  <1> QED
    BY <1>1, TypeInvHolds, PTL

-----------------------------------------------------------------------------
(* Scheduling.                                                             *)

\* The strengthening: a compile starts with nothing pending, and Invalidate
\* is the only way to stop waiting.
ScheduleInv ==
    /\ WorkIsScheduled
    /\ pc \in {"compile", "fold"} => pending_adopt = {} /\ pending_retry = {}

LEMMA ScheduleInit == Init => ScheduleInv
  BY DEF Init, ScheduleInv, WorkIsScheduled

LEMMA ScheduleStep == TypeInv /\ ScheduleInv /\ [Next]_vars => ScheduleInv'
  <1> SUFFICES ASSUME TypeInv, ScheduleInv, [Next]_vars
               PROVE  ScheduleInv'
    OBVIOUS
  <1> USE DEF ScheduleInv, WorkIsScheduled
  <1>1. ASSUME NEW n \in Names, Change(n)
        PROVE  ScheduleInv'
    BY <1>1 DEF Change, session, polling
  <1>2. CASE Elapse
    BY <1>2 DEF Elapse, session
  <1>3. CASE CompileCycle
    <2>1. pc = "compile" /\ pc' \notin {"scan", "sleep"} /\ UNCHANGED session
      BY <1>3, CompileHasEffect DEF CompileCycle, CompileEffect
    <2> QED
      BY <2>1 DEF session
  <1>4. CASE Fold
    <2>1. pc = "fold" /\ pc' = "scan" /\ prev_snap' = baseline'
      BY <1>4 DEF Fold
    <2>2. pending_adopt = {} /\ pending_retry = {}
      BY <2>1
    <2>3. PICK new, retry :
             /\ pending_adopt' = pending_adopt \cup new
             /\ pending_retry' = pending_retry \cup retry
             /\ last_change' = "none" => new = {} /\ retry = {}
      BY <1>4 DEF Fold
    <2> QED
      BY <2>1, <2>2, <2>3
  <1>5. CASE Scan
    BY <1>5 DEF Scan
  <1>6. CASE Poll
    BY <1>6 DEF Poll, session
  <1>7. CASE Invalidate
    <2> DEFINE changed == {n \in watched : Seen[n] # baseline[n]}
    <2>1. /\ pending_adopt' = {} /\ pending_retry' = {}
          /\ Seen = prev_snap /\ UNCHANGED <<baseline, prev_snap>>
      BY <1>7 DEF Invalidate
    <2>2. CASE pc' = "compile"
      BY <2>1, <2>2
    <2>3. CASE pc' # "compile"
      <3>1. pc' = "scan" /\ Dependents(changed) = {}
        BY <1>7, <2>3 DEF Invalidate
      <3>2. changed \subseteq Names
        BY DEF TypeInv, TypeOK
      <3>3. changed = {}
        BY <3>1, <3>2, DependentsExtend
      <3>4. Seen = baseline
        BY <3>3 DEF Seen, watched, TypeInv, TypeOK
      <3> QED
        BY <2>1, <3>1, <3>4
    <2> QED
      BY <2>2, <2>3
  <1>8. CASE Stop
    BY <1>8 DEF Stop
  <1>9. CASE UNCHANGED vars
    BY <1>9 DEF vars, session, polling
  <1> QED
    BY <1>1, <1>2, <1>3, <1>4, <1>5, <1>6, <1>7, <1>8, <1>9 DEF Next, Loop

\* In every session the debounce is armed for whatever the loop still has to
\* do: nothing it knows of can be left uncompiled for ever.
THEOREM WorkAlwaysScheduled == Spec => []WorkIsScheduled
  <1>1. ScheduleInv => WorkIsScheduled
    BY DEF ScheduleInv
  <1> QED
    BY <1>1, TypeInvHolds, ScheduleInit, ScheduleStep, PTL DEF Spec

-----------------------------------------------------------------------------
(* Outputs.                                                                *)

\* The strengthening: so do the results that are about to be folded in.
OutputInv ==
    /\ OkIsWritten
    /\ \A n \in DOMAIN results : results[n].status = "ok" => out[n] # None

LEMMA OutputInit == Init => OutputInv
  BY DEF Init, OutputInv, OkIsWritten

LEMMA OutputStep == TypeInv /\ OutputInv /\ [Next]_vars => OutputInv'
  <1> SUFFICES ASSUME TypeInv, OutputInv, [Next]_vars
               PROVE  OutputInv'
    OBVIOUS
  <1> USE DEF OutputInv, OkIsWritten
  <1>1. CASE UNCHANGED <<out, latest, results>>
    BY <1>1
  <1>2. CASE CompileCycle
    <2>1. PICK expired \in Expiries : CompileEffect(Obtained(expired), expired)
      BY <1>2, CompileHasEffect
    <2> DEFINE text == Obtained(expired)
    <2>2. UNCHANGED latest
      BY <1>2 DEF CompileCycle, session
    <2>3. CASE UNCHANGED <<out, results>>
      BY <2>2, <2>3
    <2>4. ASSUME NEW written \in SUBSET Emitted(names, text),
                 out' = [n \in Names |-> IF n \in written THEN text[n] ELSE out[n]],
                 \/ results' = Report(names, text) /\ written = Emitted(names, text)
                 \/ \E w \in SUBSET Emitted(names, text) : results' = WriteFailure(w)
          PROVE  OutputInv'
      <3> HIDE DEF text
      <3>1. \A n \in written : n \in Names /\ text[n] # None
        BY EmittedWasObtained
      <3>2. \A n \in Names : out[n] # None => out'[n] # None
        BY <2>4, <3>1
      <3>3. OkIsWritten'
        BY <2>2, <3>2
      <3>4. ASSUME results' = Report(names, text), written = Emitted(names, text)
            PROVE  \A n \in DOMAIN results' :
                       results'[n].status = "ok" => out'[n] # None
        BY <2>4, <3>1, <3>4, ReportIsTyped
      <3>5. ASSUME NEW w, results' = WriteFailure(w)
            PROVE  \A n \in DOMAIN results' : results'[n].status # "ok"
        BY <3>5 DEF WriteFailure
      <3> QED
        BY <2>4, <3>3, <3>4, <3>5
    <2> QED
      BY <2>1, <2>3, <2>4 DEF CompileEffect
  <1>3. CASE Fold
    <2>1. UNCHANGED out /\ latest' = Latest /\ results' = [n \in {} |-> None]
      BY <1>3 DEF Fold
    <2>2. \A n \in Names : Latest[n] = "ok" =>
             \/ n \in DOMAIN results /\ results[n].status = "ok"
             \/ latest[n] = "ok"
      BY DEF Latest
    <2> QED
      BY <2>1, <2>2
  <1>4. ASSUME [Next]_vars, ~CompileCycle, ~Fold
        PROVE  UNCHANGED <<out, latest, results>>
    BY <1>4 DEF Next, Loop, vars, files, disk, cycle, session, polling,
                Change, Elapse, Scan, Poll, Invalidate, Stop
  <1> QED
    BY <1>1, <1>2, <1>3, <1>4

\* In every session a module recorded as good has an output file, whichever
\* writes failed.
THEOREM OkAlwaysWritten == Spec => []OkIsWritten
  <1>1. OutputInv => OkIsWritten
    BY DEF OutputInv
  <1> QED
    BY <1>1, TypeInvHolds, OutputInit, OutputStep, PTL DEF Spec
-----------------------------------------------------------------------------
(* Deletions.                                                              *)

\* The strengthening: what a compile starts with as deleted is what the poll
\* before it saw gone, and a result has a path only if its file was read.
DeletionInv ==
    /\ pc \in {"compile", "fold"} =>
          \A n \in watched \cap DOMAIN snap :
              baseline[n] # None /\ snap[n] = None => n \in deleted
    /\ \A n \in DOMAIN results : results[n].local => read[n] # None
    /\ pc \in {"compile", "scan", "sleep"} => DOMAIN results = {}

DeletionsSeen ==
    pc = "fold" /\ pc' = "scan" =>
        \A n \in watched \cap DOMAIN snap :
            baseline[n] # None /\ snap[n] = None /\ read[n] = None
                => latest'[n] \in BadStatuses

LEMMA DeletionInit == Init => DeletionInv
  BY DEF Init, DeletionInv, watched

\* A module that has a result was looked for: where its file was there, it
\* was read.
LEMMA LocalIsRead ==
    ASSUME TypeInv, NEW text, NEW n \in DOMAIN Report(names, text)
    PROVE  /\ n \in Closure(names, ImportsOf(text)) /\ n \in Names
           /\ Report(names, text)[n].local => Sig(n) # None
  <1>1. n \in Closure(names, ImportsOf(text)) /\ n \in Names
    BY ReportIsTyped DEF Report
  <1>2. stamp[n] # None
    BY <1>1, TextsAreParsed DEF TypeInv, TypeOK
  <1>3. Report(names, text)[n].local = (n \in Files)
    BY <1>1 DEF Report
  <1> QED
    BY <1>1, <1>2, <1>3 DEF Sig, Files

LEMMA DeletionStep ==
    TypeInv /\ DeletionInv /\ [Next]_vars => DeletionInv' /\ DeletionsSeen
  <1> SUFFICES ASSUME TypeInv, DeletionInv, [Next]_vars
               PROVE  DeletionInv' /\ DeletionsSeen
    OBVIOUS
  <1> USE DEF DeletionInv, DeletionsSeen, watched
  <1>1. CASE CompileCycle
    <2>1. UNCHANGED <<baseline, snap, deleted>> /\ pc = "compile"
      BY <1>1 DEF CompileCycle, polling
    <2>2. PICK expired \in Expiries : CompileEffect(Obtained(expired), expired)
      BY <1>1, CompileHasEffect
    <2> DEFINE text == Obtained(expired)
    <2> HIDE DEF text
    <2>4. ASSUME results' = Report(names, text)
          PROVE  \A n \in DOMAIN results' : results'[n].local => read'[n] # None
      BY <2>2, <2>4, LocalIsRead DEF CompileEffect, text
    <2>5. ASSUME NEW w, results' = WriteFailure(w)
          PROVE  \A n \in DOMAIN results' : ~results'[n].local
      BY <2>5 DEF WriteFailure
    <2>6. CASE pc' = "raised" /\ UNCHANGED <<out, results>>
      BY <2>1, <2>6
    <2> QED
      BY <2>1, <2>2, <2>4, <2>5, <2>6 DEF CompileEffect, text
  <1>2. CASE Fold
    <2>1. /\ pc = "fold" /\ pc' = "scan" /\ latest' = Latest
          /\ results' = [n \in {} |-> None]
      BY <1>2 DEF Fold
    <2>2. ASSUME NEW n \in watched \cap DOMAIN snap,
                 baseline[n] # None, snap[n] = None, read[n] = None
          PROVE  Latest[n] \in BadStatuses
      <3>1. n \in Names /\ n \in deleted
        BY <2>1, <2>2 DEF TypeInv, TypeOK
      <3>2. n \in DOMAIN results => ~results[n].local
        BY <2>2
      <3> QED
        BY <3>1, <3>2 DEF Latest, BadStatuses
    <2> QED
      BY <2>1, <2>2
  <1>3. CASE Invalidate
    <2>1. UNCHANGED <<baseline, read, results>> /\ pc = "sleep"
      BY <1>3 DEF Invalidate, disk, cycle
    <2>2. ASSUME pc' = "compile"
          PROVE  \A n \in watched \cap DOMAIN snap' :
                     baseline[n] # None /\ snap'[n] = None => n \in deleted'
      BY <1>3, <2>1, <2>2 DEF Invalidate, Seen
    <2>3. pc' \in {"scan", "compile"}
      BY <1>3 DEF Invalidate
    <2> QED
      BY <2>1, <2>2, <2>3
  <1>4. ASSUME ~CompileCycle, ~Fold, ~Invalidate
        PROVE  /\ UNCHANGED <<read, cycle, baseline>>
               /\ pc' \in {"compile", "fold"} => pc' = pc
               /\ pc' \in {"scan", "sleep"} => pc \in {"scan", "sleep"}
    BY <1>4 DEF Next, Loop, vars, disk, session, polling,
                Change, Elapse, Scan, Poll, Stop
  <1> QED
    BY <1>1, <1>2, <1>3, <1>4 DEF cycle

\* In every session a deletion that the poll and the compile both saw is
\* recorded as a failure, whatever the cache still serves.
THEOREM DeletionsAreSeen == Spec => DeletionIsSeen
  <1>1. DeletionsSeen <=> (pc = "fold" /\ pc' = "scan" =>
            \A n \in watched \cap DOMAIN snap :
                baseline[n] # None /\ snap[n] = None /\ read[n] = None
                    => latest'[n] \in BadStatuses)
    BY DEF DeletionsSeen
  <1> QED
    BY <1>1, TypeInvHolds, DeletionInit, DeletionStep, PTL DEF Spec, DeletionIsSeen
-----------------------------------------------------------------------------
(* Closures of a graph of imports.                                         *)

Edges == [Names -> SUBSET Names]

\* A closure follows the edges.
LEMMA ClosureIsClosed ==
    ASSUME NEW e \in Edges, NEW S, NEW n \in Closure(S, e)
    PROVE  n \in Names /\ e[n] \subseteq Closure(S, e)
  <1>1. n \in Names
    BY DEF Closure
  <1>2. SUFFICES ASSUME NEW d \in e[n] PROVE d \in Closure(S, e)
    BY <1>1
  <1>3. d \in Names
    BY <1>1, <1>2 DEF Edges
  <1>4. ASSUME NEW T \in SUBSET Names, S \subseteq T, \A m \in T : e[m] \subseteq T
        PROVE  d \in T
    <2>1. n \in T
      BY <1>4 DEF Closure
    <2> QED
      BY <1>2, <1>4, <2>1
  <1> QED
    BY <1>3, <1>4 DEF Closure

\* A closure is the least such set.
LEMMA ClosureIsLeast ==
    ASSUME NEW e, NEW S, NEW T \in SUBSET Names, S \subseteq T,
           \A m \in T : e[m] \subseteq T
    PROVE  Closure(S, e) \subseteq T
  BY DEF Closure

\* What starts in a closure stays in it.
LEMMA ClosureStaysWithin ==
    ASSUME NEW e \in Edges, NEW S, NEW R, R \subseteq Closure(S, e)
    PROVE  Closure(R, e) \subseteq Closure(S, e)
  <1>1. Closure(S, e) \in SUBSET Names
    BY DEF Closure
  <1>2. \A m \in Closure(S, e) : e[m] \subseteq Closure(S, e)
    BY ClosureIsClosed
  <1> QED
    BY <1>1, <1>2, ClosureIsLeast

LEMMA NatIsWellFounded == IsWellFoundedOn({p \in Nat \X Nat : p[1] < p[2]}, Nat)
  BY NatLessThanWellFounded DEF OpToRel

\* Every nonempty set of naturals has a least element.
LEMMA LeastElement ==
    ASSUME NEW S \in SUBSET Nat, S # {}
    PROVE  \E n \in S : \A m \in S : n <= m
  <1> DEFINE R == {p \in Nat \X Nat : p[1] < p[2]}
  <1>1. IsWellFoundedOn(R, Nat)
    BY NatIsWellFounded
  <1> HIDE DEF R
  <1>2. PICK n \in S : \A m \in S : ~(<<m, n>> \in R)
    BY <1>1, WFMin
  <1>3. \A m \in S : ~(m < n)
    BY <1>2 DEF R
  <1> QED
    BY <1>3

\* A knot: modules each of which imports one of them.
IsKnot(Y, e) == \A n \in Y : e[n] \cap Y # {}
KnotFree(e, S) == \A Y \in SUBSET S : IsKnot(Y, e) => Y = {}

\* In a knot of finitely many modules, some module is reached from its own
\* imports: the one from which the fewest modules of the knot are reached.
LEMMA KnotsAreCircular ==
    ASSUME IsFiniteSet(Names), NEW e \in Edges,
           NEW Y \in SUBSET Names, IsKnot(Y, e), Y # {}
    PROVE  \E n \in Y : n \in Closure(e[n], e)
  <1> DEFINE From(n) == Closure({n}, e) \cap Y
             sizes == {Cardinality(From(n)) : n \in Y}
  <1>1. ASSUME NEW n \in Y
        PROVE  IsFiniteSet(From(n)) /\ Cardinality(From(n)) \in Nat
    <2>1. From(n) \subseteq Names
      BY DEF Closure
    <2>2. IsFiniteSet(From(n))
      <3> HIDE DEF From
      <3> QED
        BY <2>1, FS_Subset
    <2> QED
      BY <2>2, FS_CardinalityType
  <1>2. sizes \in SUBSET Nat /\ sizes # {}
    BY <1>1
  <1>3. PICK n \in Y : \A m \in Y : Cardinality(From(n)) <= Cardinality(From(m))
    <2> HIDE DEF sizes
    <2>1. PICK k \in sizes : \A l \in sizes : k <= l
      BY <1>2, LeastElement
    <2>2. PICK n \in Y : k = Cardinality(From(n))
      BY <2>1 DEF sizes
    <2>3. \A m \in Y : Cardinality(From(m)) \in sizes
      BY DEF sizes
    <2> HIDE DEF From, sizes
    <2>4. ASSUME NEW m \in Y
          PROVE  Cardinality(From(n)) <= Cardinality(From(m))
      <3>1. Cardinality(From(m)) \in sizes
        BY <2>3
      <3>2. k <= Cardinality(From(m))
        BY <2>1, <3>1
      <3> QED
        BY <2>2, <3>2
    <2> QED
      BY <2>4
  <1>4. PICK m \in Y : m \in e[n]
    BY DEF IsKnot
  <1>5. n \in Closure({n}, e) /\ m \in Closure({m}, e) /\ m \in Names /\ n \in Names
    BY ClosureExtends
  <1>6. m \in Closure({n}, e)
    BY <1>4, <1>5, ClosureIsClosed
  <1>7. Closure({m}, e) \subseteq Closure({n}, e)
    BY <1>6, ClosureStaysWithin
  <1>8. n \in Closure({m}, e)
    <2>1. SUFFICES ASSUME n \notin Closure({m}, e) PROVE FALSE
      OBVIOUS
    <2>2. From(m) \subseteq From(n) /\ n \in From(n) /\ n \notin From(m)
      BY <1>5, <1>7, <2>1
    <2>3. IsFiniteSet(From(n)) /\ Cardinality(From(n)) \in Nat
      BY <1>1
    <2>4. Cardinality(From(m)) \in Nat /\ Cardinality(From(n)) <= Cardinality(From(m))
      BY <1>1, <1>3
    <2> HIDE DEF From
    <2>5. From(m) # From(n)
      BY <2>2
    <2>6. /\ Cardinality(From(m)) <= Cardinality(From(n))
          /\ Cardinality(From(n)) # Cardinality(From(m))
      BY <2>2, <2>3, <2>5, FS_Subset
    <2> QED
      BY <2>3, <2>4, <2>6
  <1>9. e[n] \subseteq Names
    BY <1>5 DEF Edges
  <1>10. {m} \subseteq Closure(e[n], e)
    BY <1>4, <1>9, ClosureExtends
  <1>11. Closure({m}, e) \subseteq Closure(e[n], e)
    BY <1>10, ClosureStaysWithin
  <1> QED
    BY <1>8, <1>11
-----------------------------------------------------------------------------
(* What a compile emits.                                                   *)

Reads == [Names -> Texts \cup {None}]

LEMMA ImportsAreEdges ==
    ASSUME NEW text \in Reads
    PROVE  ImportsOf(text) \in Edges
  BY TextsAreParsed DEF ImportsOf, Edges, Reads

\* Modules that can all be had, and import one another only, are emitted.
LEMMA GoodAreEmitted ==
    ASSUME NEW text \in Reads, NEW S, NEW Z \in SUBSET Names,
           \A z \in Z : text[z] # None /\ ImportsOf(text)[z] \subseteq Z,
           NEW n \in Z, n \in Closure(S, ImportsOf(text))
    PROVE  n \in Emitted(S, text)
  <1>1. Closure({n}, ImportsOf(text)) \subseteq Z
    BY ClosureIsLeast
  <1>2. \A m \in Unavailable(S, text) : text[m] = None
    BY DEF Unavailable
  <1>3. n \notin Unavailable(S, text)
    BY <1>2
  <1>4. n \notin Blocked(S, text)
    BY <1>1, <1>2 DEF Blocked
  <1> QED
    BY <1>3, <1>4 DEF Emitted

\* A module that is not emitted though it was had imports one that was not
\* emitted.
LEMMA BlockedBySome ==
    ASSUME NEW text \in Reads, NEW S, NEW n \in Closure(S, ImportsOf(text)),
           n \notin Emitted(S, text), text[n] # None
    PROVE  \E d \in ImportsOf(text)[n] :
               d \in Closure(S, ImportsOf(text)) \ Emitted(S, text)
  <1> DEFINE C == Closure(S, ImportsOf(text))
  <1>1. ImportsOf(text) \in Edges
    BY ImportsAreEdges
  <1>2. C \in SUBSET Names /\ \A m \in C : ImportsOf(text)[m] \subseteq C
    BY <1>1, ClosureIsClosed DEF Closure
  <1>3. n \in Blocked(S, text)
    BY DEF Emitted, Unavailable
  <1>4. PICK u \in Closure({n}, ImportsOf(text)) : u \in C /\ text[u] = None
    BY <1>3 DEF Blocked, Unavailable
  <1>5. SUFFICES ASSUME ImportsOf(text)[n] \subseteq Emitted(S, text)
                 PROVE  FALSE
    BY <1>2
  <1> DEFINE Z == {z \in C : z = n \/ (\E d \in ImportsOf(text)[n] :
                                           z \in Closure({d}, ImportsOf(text)))}
  <1>6. ASSUME NEW z \in Z
        PROVE  ImportsOf(text)[z] \subseteq Z
    <2>1. ImportsOf(text)[z] \subseteq C
      BY <1>2
    <2>2. ASSUME z = n, NEW d \in ImportsOf(text)[z]
          PROVE  d \in Z
      <3>1. d \in Closure({d}, ImportsOf(text))
        BY <1>2, <2>1, <2>2, ClosureExtends
      <3> QED
        BY <2>1, <2>2, <3>1
    <2>3. ASSUME NEW d \in ImportsOf(text)[n],
                 z \in Closure({d}, ImportsOf(text))
          PROVE  ImportsOf(text)[z] \subseteq Z
      <3>1. ImportsOf(text)[z] \subseteq Closure({d}, ImportsOf(text))
        BY <1>1, <2>3, ClosureIsClosed
      <3> QED
        BY <2>1, <3>1
    <2> QED
      BY <2>2, <2>3
  <1>7. Z \in SUBSET Names /\ {n} \subseteq Z
    BY <1>2
  <1>8. u \in Z
    <2> HIDE DEF Z
    <2> QED
      BY <1>4, <1>6, <1>7, ClosureIsLeast
  <1>9. PICK d \in ImportsOf(text)[n] : u \in Closure({d}, ImportsOf(text))
    BY <1>4, <1>8
  <1>10. d \in Emitted(S, text)
    BY <1>5
  <1>11. u \in Unavailable(S, text)
    BY <1>4 DEF Unavailable
  <1> QED
    BY <1>9, <1>10, <1>11 DEF Emitted, Blocked

\* What an emitted module imports is emitted.
LEMMA EmittedImportEmitted ==
    ASSUME NEW text \in Reads, NEW S, NEW n \in Emitted(S, text),
           NEW d \in ImportsOf(text)[n]
    PROVE  d \in Emitted(S, text)
  <1>1. ImportsOf(text) \in Edges
    BY ImportsAreEdges
  <1>2. n \in Closure(S, ImportsOf(text)) /\ n \in Names
    BY DEF Emitted, Closure
  <1>3. d \in Closure(S, ImportsOf(text)) /\ d \in Names
    BY <1>1, <1>2, ClosureIsClosed DEF Edges
  <1>4. n \in Closure({n}, ImportsOf(text))
    BY <1>2, ClosureExtends
  <1>5. d \in Closure({n}, ImportsOf(text))
    BY <1>1, <1>4, ClosureIsClosed
  <1>6. Closure({n}, ImportsOf(text)) \cap Unavailable(S, text) = {}
    BY DEF Emitted, Blocked
  <1>7. Closure({d}, ImportsOf(text)) \subseteq Closure({n}, ImportsOf(text))
    BY <1>1, <1>5, ClosureStaysWithin
  <1> QED
    BY <1>3, <1>5, <1>6, <1>7 DEF Emitted, Blocked

\* What the results say of the modules they are about.
LEMMA ReportTells ==
    ASSUME NEW text \in Reads, NEW S
    PROVE  /\ DOMAIN Report(S, text) = Closure(S, ImportsOf(text))
           /\ Emitted(S, text) \subseteq Closure(S, ImportsOf(text))
           /\ \A n \in DOMAIN Report(S, text) :
                 /\ Report(S, text)[n].status \in {"ok", "failed", "missing"}
                 /\ Report(S, text)[n].status = "ok" <=> n \in Emitted(S, text)
                 /\ Report(S, text)[n].local <=> n \in Files
                 /\ n \notin Emitted(S, text) /\ text[n] # None =>
                       /\ Report(S, text)[n].status = "failed"
                       /\ \E d \in ImportsOf(text)[n] \cap Report(S, text)[n].missing :
                             d \in DOMAIN Report(S, text) \ Emitted(S, text)
  <1> DEFINE C == Closure(S, ImportsOf(text))
  <1>1. DOMAIN Report(S, text) = C /\ Emitted(S, text) \subseteq C
    BY DEF Report, Emitted
  <1>2. ASSUME NEW n \in C
        PROVE  /\ Report(S, text)[n].status \in {"ok", "failed", "missing"}
               /\ Report(S, text)[n].status = "ok" <=> n \in Emitted(S, text)
               /\ Report(S, text)[n].local <=> n \in Files
               /\ n \notin Unavailable(S, text) /\ n \notin Emitted(S, text) =>
                     Report(S, text)[n].status = "failed"
               /\ n \notin Unavailable(S, text) =>
                     Report(S, text)[n].missing = ImportsOf(text)[n] \cap
                              (Unavailable(S, text) \cup Blocked(S, text))
    BY DEF Report
  <1>3. ASSUME NEW n \in C, n \notin Emitted(S, text), text[n] # None
        PROVE  /\ Report(S, text)[n].status = "failed"
               /\ \E d \in ImportsOf(text)[n] \cap Report(S, text)[n].missing :
                     d \in C \ Emitted(S, text)
    <2>1. n \notin Unavailable(S, text)
      BY <1>3 DEF Unavailable
    <2>2. PICK d \in ImportsOf(text)[n] : d \in C \ Emitted(S, text)
      BY <1>3, BlockedBySome
    <2>3. d \in Unavailable(S, text) \cup Blocked(S, text)
      BY <2>2 DEF Emitted
    <2>4. d \in Report(S, text)[n].missing
      BY <1>2, <2>1, <2>3
    <2> QED
      BY <1>2, <1>3, <2>1, <2>2, <2>4
  <1> QED
    BY <1>1, <1>2, <1>3
-----------------------------------------------------------------------------
(* Freshness: what the loop settles on is what the directory has.          *)
(*                                                                         *)
(* The compiled-module cache is the memory of the loop: a compile stores   *)
(* there what it read, and nothing else changes an entry.  So the argument *)
(* compares, for each module, the recorded result with the cache, and the  *)
(* cache with the file.                                                    *)

Busy == pc \in {"compile", "fold"}
Due == IF Busy THEN names ELSE pending_adopt
Tried == {n \in Names : latest[n] # "none"}
Handled == DOMAIN results
Now == Obtained({})

\* The text a compile takes from a file, and that t is the one it takes from n
\* as long as n has the signature sig.
Parsed(n) == IF file[n] \in Broken THEN None ELSE file[n]
AsRead(n, sig, t) ==
    sig # None => sig <= clock /\ (Sig(n) = sig => t = Parsed(n))

\* rt[n] is the text the recorded result of n comes from: the cache has it
\* until the next compile of n, and so has the file while it has the signature
\* of the baseline.
Remembered(rt) ==
    /\ \A n \in Names :
          /\ stamp[n] <= clock
          /\ n \notin Handled => rt[n] = cache[n]
          /\ n \notin watched \cup Handled => read[n] = None
          /\ latest[n] = "stale" => n \in watched /\ baseline[n] = None
    /\ \A n \in watched : AsRead(n, baseline[n], rt[n])
    /\ watched \subseteq Tried

\* The modules that compiled; a deleted one among them is marked stale.
Good(rt) ==
    {n \in Names : latest[n] = "ok" \/ (latest[n] = "stale" /\ rt[n] # None)}

\* A good module was compiled from what its output has, and its imports are
\* good.
Goods(rt) ==
    \A n \in Good(rt) :
        /\ rt[n] # None
        /\ graph[n] = ImportsOf(rt)[n]
        /\ graph[n] \subseteq Good(rt)
        /\ n \notin Supplied => out[n] = rt[n]

\* A bad module that nothing waits for, and that could be read, recorded the
\* import that is bad.
Bads(rt) ==
    \A n \in Names \ (Due \cup pending_retry) :
        latest[n] \in BadStatuses /\ n \notin Good(rt) /\ rt[n] # None =>
            \E d \in failed_deps[n] \cap ImportsOf(rt)[n] :
                latest[d] \in BadStatuses /\ d \notin Good(rt)

Recorded(rt) == Goods(rt) /\ Bads(rt) /\ KnotFree(ImportsOf(rt), Tried)

\* Every known module has a result or waits for a compile.
Covered == known \subseteq Tried \cup Due /\ Tried \subseteq known

\* A compile takes all that depends on a file the poll saw changed.
Underway ==
    Busy => /\ DOMAIN snap = watched
            /\ Dependents({n \in watched : snap[n] # baseline[n]}) \subseteq names
            /\ deleted \subseteq names

\* What the results about to be folded in tell of the texts they come from.
Compiled(text) ==
    /\ ~Circular(names, text)
    /\ Handled = Closure(names, ImportsOf(text))
    /\ \A n \in Handled :
          /\ cache[n] = text[n]
          /\ AsRead(n, read[n], text[n])
          /\ n \in Emitted(names, text) => out[n] = text[n]
          /\ results[n].status \in {"ok", "failed", "missing"}
          /\ results[n].status = "ok" <=> n \in Emitted(names, text)
          /\ results[n].local <=> read[n] # None
          /\ n \notin Emitted(names, text) /\ text[n] # None =>
                /\ results[n].status = "failed"
                /\ \E d \in ImportsOf(text)[n] \cap results[n].missing :
                      d \in Handled \ Emitted(names, text)

\* A good module without a watched file is supplied as before, but where its
\* file is back.
Supplies(rt, text) ==
    \A n \in Handled \cap Good(rt) :
        (n \in watched => baseline[n] = None) =>
            text[n] = rt[n] \/ (n \in watched /\ read[n] # None)

FreshInv ==
    pc \notin Ended /\ ~disturbed =>
        /\ Covered /\ Underway
        /\ \E rt \in Reads :
              /\ Remembered(rt) /\ Recorded(rt)
              /\ pc = "fold" => \E text \in Reads : Compiled(text) /\ Supplies(rt, text)

LEMMA FreshInit == Init => FreshInv
  <1> SUFFICES ASSUME Init PROVE FreshInv
    OBVIOUS
  <1>1. PICK rt \in Reads : rt = cache
    <2>1. cache \in [Names -> (Texts \ Broken) \cup {None}]
      BY SessionIsValid DEF Init
    <2> QED
      BY <2>1 DEF Reads
  <1>2. /\ pc = "compile" /\ names = InitialNames /\ known = InitialNames
        /\ deleted = {} /\ watched = {} /\ DOMAIN snap = {} /\ Handled = {}
        /\ \A n \in Names : latest[n] = "none" /\ stamp[n] = 0 /\ read[n] = None
        /\ clock = 0
    BY DEF Init, watched, Handled
  <1>3. Remembered(rt)
    BY <1>1, <1>2 DEF Remembered
  <1>4. Tried = {} /\ Good(rt) = {}
    BY <1>2 DEF Tried, Good
  <1>5. Recorded(rt)
    BY <1>2, <1>4 DEF Recorded, Goods, Bads, BadStatuses, KnotFree
  <1>6. Covered
    BY <1>2, <1>4 DEF Covered, Due, Busy
  <1>7. Underway
    <2>1. \A edges : Closure({}, edges) = {}
      <3>1. SUFFICES ASSUME NEW edges, NEW n \in Closure({}, edges) PROVE FALSE
        OBVIOUS
      <3>2. {} \in SUBSET Names /\ {} \subseteq {} /\ \A m \in {} : edges[m] \subseteq {}
        OBVIOUS
      <3> QED
        BY <3>1, <3>2 DEF Closure
    <2>2. {n \in watched : snap[n] # baseline[n]} = {}
      BY <1>2
    <2> QED
      BY <1>2, <2>1, <2>2 DEF Underway, Dependents
  <1> QED
    BY <1>1, <1>2, <1>3, <1>5, <1>6, <1>7 DEF FreshInv

\* A change gives a file a signature nobody has seen, or takes the file away.
LEMMA ReadsStay ==
    ASSUME TypeInv, \A m \in Names : stamp[m] <= clock,
           UNCHANGED files \/ (\E m \in Names : Change(m)),
           NEW n \in Names, NEW sig \in Sigs, NEW t
    PROVE  /\ stamp'[n] <= clock'
           /\ AsRead(n, sig, t) => AsRead(n, sig, t)'
  <1>1. CASE UNCHANGED files
    BY <1>1 DEF files, AsRead, Sig, Parsed
  <1>2. ASSUME NEW m \in Names, Change(m)
        PROVE  /\ stamp'[n] <= clock'
               /\ AsRead(n, sig, t) => AsRead(n, sig, t)'
    <2>1. /\ clock \in Nat /\ None \notin Nat /\ stamp \in [Names -> Nat]
          /\ sig # None => sig \in Nat
      BY TextsAreParsed, SessionIsValid DEF TypeInv, TypeOK, Sigs
    <2>2. /\ clock' = clock + 1 /\ stamp' = [stamp EXCEPT ![m] = clock']
          /\ n # m => file'[n] = file[n]
      BY <1>2 DEF Change, TypeInv, TypeOK
    <2>3. CASE n = m
      <3>1. stamp'[n] = clock + 1
        BY <2>1, <2>2, <2>3
      <3> QED
        BY <2>1, <2>2, <3>1 DEF AsRead, Sig
    <2>4. CASE n # m
      <3>1. stamp'[n] = stamp[n]
        BY <2>1, <2>2, <2>4
      <3> QED
        BY <2>1, <2>2, <2>4, <3>1 DEF AsRead, Sig, Parsed
    <2> QED
      BY <2>3, <2>4
  <1> QED
    BY <1>1, <1>2

\* A step that folds nothing in remembers the same texts, whatever happens to
\* the files.
LEMMA MemoryStays ==
    ASSUME TypeInv, NEW rt, Remembered(rt),
           UNCHANGED <<cache, read, results, latest, baseline>>,
           UNCHANGED files \/ (\E m \in Names : Change(m))
    PROVE  Remembered(rt)'
  <1>1. Handled' = Handled /\ watched' = watched /\ Tried' = Tried
    BY DEF Handled, watched, Tried
  <1>2. /\ \A m \in Names : stamp[m] <= clock
        /\ watched \subseteq Names /\ \A n \in watched : baseline[n] \in Sigs
    BY DEF Remembered, TypeInv, TypeOK
  <1>3. \A n \in Names, sig \in Sigs : \A t :
            stamp'[n] <= clock' /\ (AsRead(n, sig, t) => AsRead(n, sig, t)')
    BY <1>2, ReadsStay
  <1>4. \A n \in Names : stamp'[n] <= clock'
    BY <1>3 DEF Sigs
  <1>5. \A n \in watched : AsRead(n, baseline[n], rt[n])'
    BY <1>2, <1>3 DEF Remembered, AsRead, Sig, Parsed
  <1> QED
    BY <1>1, <1>4, <1>5 DEF Remembered

\* And what was recorded stays so while nothing that waits is forgotten.
LEMMA RecordsStay ==
    ASSUME NEW rt, Recorded(rt),
           UNCHANGED <<latest, graph, out, results, failed_deps>>,
           Due \cup pending_retry \subseteq Due' \cup pending_retry'
    PROVE  Recorded(rt)'
  <1>1. Tried' = Tried /\ Good(rt)' = Good(rt) /\ Supplied' = Supplied
    BY DEF Tried, Good, Supplied
  <1>2. Goods(rt)'
    BY <1>1 DEF Recorded, Goods
  <1>3. Bads(rt)'
    BY <1>1 DEF Recorded, Bads
  <1> QED
    BY <1>1, <1>2, <1>3 DEF Recorded, KnotFree

LEMMA ResultsStay ==
    ASSUME TypeInv, NEW rt, NEW text, Compiled(text), Supplies(rt, text),
           \A m \in Names : stamp[m] <= clock,
           UNCHANGED <<names, cache, out, read, results, latest, baseline>>,
           UNCHANGED files \/ (\E m \in Names : Change(m))
    PROVE  Compiled(text)' /\ Supplies(rt, text)'
  <1>1. Handled' = Handled /\ watched' = watched /\ Good(rt)' = Good(rt)
    BY DEF Handled, watched, Good
  <1>2. Handled \subseteq Names /\ \A n \in Handled : read[n] \in Sigs
    BY DEF Handled, TypeInv, TypeOK
  <1>3. \A n \in Names, sig \in Sigs : \A t : AsRead(n, sig, t) => AsRead(n, sig, t)'
    BY ReadsStay
  <1>4. \A n \in Handled : AsRead(n, read[n], text[n])'
    BY <1>2, <1>3 DEF Compiled, AsRead, Sig, Parsed
  <1>5. Emitted(names, text)' = Emitted(names, text)
    BY DEF Emitted, Unavailable, Blocked
  <1>6. Circular(names, text)' <=> Circular(names, text)
    BY DEF Circular
  <1>7. Compiled(text)'
    BY <1>1, <1>4, <1>5, <1>6 DEF Compiled
  <1>8. Supplies(rt, text)'
    BY <1>1 DEF Supplies
  <1> QED
    BY <1>7, <1>8

\* Changes to the files, the clock and polls disturb nothing of this.
LEMMA FreshStays ==
    ASSUME TypeInv, FreshInv,
           UNCHANGED <<disk, cycle, session, graph, baseline>>,
           pc' = pc \/ {pc, pc'} \subseteq {"scan", "sleep"},
           UNCHANGED files \/ (\E m \in Names : Change(m))
    PROVE  FreshInv'
  <1>1. /\ UNCHANGED <<cache, out, read, disturbed, names, deleted, snap, results>>
        /\ UNCHANGED <<known, pending_adopt, failed_deps, pending_retry, latest>>
        /\ UNCHANGED <<graph, baseline, watched, Tried, Busy, Due>>
    BY DEF disk, cycle, session, watched, Tried, Busy, Due
  <1>2. SUFFICES ASSUME pc' \notin Ended, ~disturbed' PROVE FreshInv'
    BY DEF FreshInv
  <1>3. /\ Covered /\ Underway
        /\ \E rt \in Reads :
              /\ Remembered(rt) /\ Recorded(rt)
              /\ pc = "fold" => \E text \in Reads : Compiled(text) /\ Supplies(rt, text)
    BY <1>1, <1>2 DEF FreshInv, Ended
  <1>4. PICK rt \in Reads :
              /\ Remembered(rt) /\ Recorded(rt)
              /\ pc = "fold" => \E text \in Reads : Compiled(text) /\ Supplies(rt, text)
    BY <1>3
  <1>5. Remembered(rt)'
    BY <1>1, <1>4, MemoryStays
  <1>6. Recorded(rt)'
    BY <1>1, <1>4, RecordsStay
  <1>7. ASSUME pc' = "fold"
        PROVE  \E text \in Reads : Compiled(text)' /\ Supplies(rt, text)'
    <2>1. PICK text \in Reads : Compiled(text) /\ Supplies(rt, text)
      BY <1>4, <1>7
    <2>2. \A m \in Names : stamp[m] <= clock
      BY <1>4 DEF Remembered
    <2> QED
      BY <1>1, <2>1, <2>2, ResultsStay
  <1>8. Covered' /\ Underway'
    <2>1. Dependents({n \in watched : snap[n] # baseline[n]})' =
              Dependents({n \in watched : snap[n] # baseline[n]})
      BY <1>1 DEF Dependents
    <2> QED
      BY <1>1, <1>3, <2>1 DEF Covered, Underway
  <1> QED
    BY <1>5, <1>6, <1>7, <1>8 DEF FreshInv, Reads

LEMMA FreshScan ==
    ASSUME TypeInv, FreshInv, Scan
    PROVE  FreshInv'
  <1> DEFINE new == NewStems(watched)
  <1>1. /\ UNCHANGED <<files, cache, out, read, disturbed, results, failed_deps>>
        /\ UNCHANGED <<pending_retry, latest, graph, baseline, watched, Tried>>
        /\ pc = "scan" /\ pc' = "sleep"
        /\ known' = known \cup new /\ pending_adopt' = pending_adopt \cup new
    BY DEF Scan, disk, cycle, watched, Tried
  <1>2. ~Busy /\ ~Busy' /\ Due = pending_adopt /\ Due' = pending_adopt \cup new
    BY <1>1 DEF Due, Busy
  <1>3. SUFFICES ASSUME ~disturbed PROVE FreshInv'
    BY <1>1 DEF FreshInv
  <1>4. Covered /\ \E rt \in Reads : Remembered(rt) /\ Recorded(rt)
    BY <1>1, <1>3 DEF FreshInv, Ended
  <1>5. PICK rt \in Reads : Remembered(rt) /\ Recorded(rt)
    BY <1>4
  <1>6. Remembered(rt)'
    BY <1>1, <1>5, MemoryStays
  <1>7. Recorded(rt)'
    <2>1. Due \cup pending_retry \subseteq Due' \cup pending_retry'
      BY <1>1, <1>2
    <2> QED
      BY <1>1, <1>5, <2>1, RecordsStay
  <1>8. Covered' /\ Underway'
    BY <1>1, <1>2, <1>4 DEF Covered, Underway
  <1> QED
    BY <1>1, <1>6, <1>7, <1>8 DEF FreshInv, Reads

LEMMA FreshInvalidate ==
    ASSUME TypeInv, FreshInv, Invalidate
    PROVE  FreshInv'
  <1> DEFINE changed == {n \in watched : Seen[n] # baseline[n]}
             invalid == Dependents(changed) \cup pending_adopt \cup pending_retry
  <1>1. /\ UNCHANGED <<files, cache, out, read, disturbed, results, failed_deps>>
        /\ UNCHANGED <<known, latest, graph, baseline, watched, Tried>>
        /\ pc = "sleep" /\ pending_adopt' = {} /\ pending_retry' = {}
    BY DEF Invalidate, disk, cycle, watched, Tried
  <1>2. \/ invalid = {} /\ pc' = "scan"
        \/ /\ pc' = "compile" /\ names' = invalid /\ snap' = Seen
           /\ deleted' \subseteq changed
    BY DEF Invalidate
  <1>3. /\ ~Busy /\ Due = pending_adopt
        /\ Busy' <=> pc' = "compile"
        /\ pending_adopt \cup pending_retry \subseteq Due'
    BY <1>1, <1>2 DEF Due, Busy
  <1>4. SUFFICES ASSUME ~disturbed PROVE FreshInv'
    BY <1>1 DEF FreshInv
  <1>5. Covered /\ \E rt \in Reads : Remembered(rt) /\ Recorded(rt)
    BY <1>1, <1>4 DEF FreshInv, Ended
  <1>6. PICK rt \in Reads : Remembered(rt) /\ Recorded(rt)
    BY <1>5
  <1>7. Remembered(rt)'
    BY <1>1, <1>6, MemoryStays
  <1>8. Recorded(rt)'
    <2>1. Due \cup pending_retry \subseteq Due' \cup pending_retry'
      BY <1>3
    <2> QED
      BY <1>1, <1>6, <2>1, RecordsStay
  <1>9. Covered'
    BY <1>1, <1>3, <1>5 DEF Covered
  <1>10. Underway'
    <2>1. SUFFICES ASSUME pc' = "compile" PROVE Underway'
      BY <1>3 DEF Underway
    <2>2. names' = invalid /\ snap' = Seen /\ deleted' \subseteq changed
      BY <1>2, <2>1
    <2>3. DOMAIN Seen = watched
      BY DEF Seen
    <2>4. changed \subseteq Names
      BY DEF TypeInv, TypeOK
    <2>5. changed \subseteq Dependents(changed)
      <3> HIDE DEF changed
      <3> QED
        BY <2>4, DependentsExtend
    <2>6. {n \in watched' : snap'[n] # baseline'[n]} = changed
      BY <1>1, <2>2
    <2>7. Dependents({n \in watched : snap[n] # baseline[n]})' = Dependents(changed)
      <3> HIDE DEF changed
      <3> QED
        BY <1>1, <2>6 DEF Dependents
    <2> QED
      BY <1>1, <2>2, <2>3, <2>5, <2>7 DEF Underway
  <1> QED
    BY <1>1, <1>2, <1>7, <1>8, <1>9, <1>10 DEF FreshInv, Reads

\* What a compile that disturbs nothing does, in terms of what it obtains.
LEMMA CompileTells ==
    ASSUME TypeInv, CompileCycle, pc' # "raised", ~disturbed'
    PROVE  /\ ~disturbed /\ pc = "compile" /\ pc' = "fold"
           /\ UNCHANGED <<files, names, deleted, snap, session, polling>>
           /\ \E text \in Reads, expired \in Expiries :
                 /\ text = Obtained(expired)
                 /\ ~Circular(names, text) /\ Outdated(names, text, expired) = {}
                 /\ cache' = Cached(names, text, expired)
                 /\ read' = [n \in Names |-> IF n \in Closure(names, ImportsOf(text))
                                             THEN Sig(n) ELSE read[n]]
                 /\ results' = Report(names, text)
                 /\ out' = [n \in Names |-> IF n \in Emitted(names, text)
                                            THEN text[n] ELSE out[n]]
  <1>1. PICK expired \in Expiries : CompileEffect(Obtained(expired), expired)
    BY CompileHasEffect
  <1>2. disturbed \in BOOLEAN
    BY DEF TypeInv, TypeOK
  <1>3. Obtained(expired) \in Reads
    BY DEF Obtained, Reads, TypeInv, TypeOK
  <1>4. pc = "compile" /\ UNCHANGED <<files, names, deleted, snap, session, polling>>
    BY DEF CompileCycle
  <1>5. PICK text \in Reads : text = Obtained(expired)
    BY <1>3
  <1>6. CompileEffect(text, expired)
    BY <1>1, <1>5
  <1>7. /\ pc' = "fold" /\ results' = Report(names, text) /\ ~Circular(names, text)
        /\ out' = [n \in Names |-> IF n \in Emitted(names, text) THEN text[n] ELSE out[n]]
        /\ disturbed' = (disturbed \/ Outdated(names, text, expired) # {})
    BY <1>6 DEF CompileEffect
  <1>8. ~disturbed /\ Outdated(names, text, expired) = {}
    BY <1>2, <1>7
  <1> QED
    BY <1>4, <1>5, <1>6, <1>7, <1>8 DEF CompileEffect

LEMMA FreshCompile ==
    ASSUME TypeInv, FreshInv, DeletionInv, CompileCycle
    PROVE  FreshInv'
  <1>1. SUFFICES ASSUME pc' # "raised", ~disturbed' PROVE FreshInv'
    BY DEF FreshInv, Ended
  <1>2. /\ ~disturbed /\ pc = "compile" /\ pc' = "fold"
        /\ UNCHANGED <<files, names, deleted, snap, session, polling>>
    BY <1>1, CompileTells
  <1>3. PICK text \in Reads, expired \in Expiries :
           /\ text = Obtained(expired)
           /\ ~Circular(names, text) /\ Outdated(names, text, expired) = {}
           /\ cache' = Cached(names, text, expired)
           /\ read' = [n \in Names |-> IF n \in Closure(names, ImportsOf(text))
                                       THEN Sig(n) ELSE read[n]]
           /\ results' = Report(names, text)
           /\ out' = [n \in Names |-> IF n \in Emitted(names, text)
                                      THEN text[n] ELSE out[n]]
    BY <1>1, CompileTells
  <1>4. Covered /\ Underway /\ \E rt \in Reads : Remembered(rt) /\ Recorded(rt)
    BY <1>2 DEF FreshInv, Ended
  <1>5. PICK rt \in Reads : Remembered(rt) /\ Recorded(rt)
    BY <1>4
  <1> DEFINE C == Closure(names, ImportsOf(text))
             E == Emitted(names, text)
  <1>6. /\ UNCHANGED <<latest, graph, failed_deps, known, pending_adopt, pending_retry>>
        /\ UNCHANGED <<baseline, watched, Tried, Due, file, stamp, clock, Files>>
        /\ Good(rt)' = Good(rt) /\ Busy /\ Busy'
        /\ \A n \in Names : Sig(n)' = Sig(n) /\ Parsed(n)' = Parsed(n)
    BY <1>2 DEF files, session, polling, watched, Tried, Due, Busy, Good, Files, Sig, Parsed
  <1>7. Handled = {} /\ Handled' = C /\ C \subseteq Names /\ E \subseteq C
    <2>1. Handled = {}
      BY <1>2 DEF DeletionInv, Handled
    <2>2. C \subseteq Names
      BY DEF Closure
    <2> QED
      BY <1>3, <2>1, <2>2, ReportTells DEF Handled
  <1>8. \A n \in Names : /\ n \in C => cache'[n] = text[n] /\ read'[n] = Sig(n)
                         /\ n \notin C => cache'[n] = cache[n] /\ read'[n] = read[n]
                         /\ n \in E => out'[n] = text[n]
                         /\ n \notin E => out'[n] = out[n]
    BY <1>3 DEF Cached, Obtained, Files
  <1>9. \A n \in Names : /\ Sig(n) = None <=> n \notin Files
                         /\ n \in Files => Sig(n) = stamp[n] /\ text[n] = Parsed(n)
                         /\ n \notin Files /\ n \notin expired => text[n] = cache[n]
    <2>1. \A n \in Names : stamp[n] # None
      BY TextsAreParsed DEF TypeInv, TypeOK
    <2> QED
      BY <1>3, <2>1 DEF Sig, Files, Obtained, Parsed
  <1>10. Remembered(rt)'
    <2>1. \A n \in watched : AsRead(n, baseline[n], rt[n])'
      <3>1. watched \subseteq Names
        BY DEF TypeInv, TypeOK
      <3> QED
        BY <1>5, <1>6, <3>1 DEF Remembered, AsRead
    <2> QED
      BY <1>5, <1>6, <1>7, <1>8, <2>1 DEF Remembered
  <1>11. Supplied' = E
    <2>1. \A n \in C : (results'[n].status = "ok") <=> n \in E
      BY <1>3, <1>7, ReportTells DEF Handled
    <2> QED
      BY <1>7, <2>1 DEF Supplied, Handled
  <1>12. Recorded(rt)'
    <2>1. Goods(rt)'
      <3>1. Supplied = {} /\ Good(rt) \subseteq Names
        BY <1>7 DEF Supplied, Handled, Good
      <3> QED
        BY <1>5, <1>6, <1>8, <1>11, <3>1 DEF Recorded, Goods
    <2>2. Bads(rt)'
      BY <1>5, <1>6 DEF Recorded, Bads
    <2> QED
      BY <1>5, <1>6, <2>1, <2>2 DEF Recorded, KnotFree
  <1>13. Covered' /\ Underway'
    <2>1. Dependents({n \in watched : snap[n] # baseline[n]})' =
              Dependents({n \in watched : snap[n] # baseline[n]})
      BY <1>2, <1>6 DEF Dependents
    <2> QED
      BY <1>2, <1>4, <1>6, <2>1 DEF Covered, Underway
  <1>14. Compiled(text)'
    <2>1. /\ Emitted(names, text)' = E
          /\ Closure(names, ImportsOf(text))' = C
          /\ Circular(names, text)' <=> Circular(names, text)
      BY <1>2 DEF Emitted, Unavailable, Blocked, Circular
    <2>2. ASSUME NEW n \in C
          PROVE  /\ cache'[n] = text[n]
                 /\ n \in E => out'[n] = text[n]
                 /\ AsRead(n, read[n], text[n])'
                 /\ read'[n] # None <=> n \in Files
      <3>1. n \in Names
        BY <1>7
      <3> HIDE DEF C, E
      <3>2. cache'[n] = text[n] /\ read'[n] = Sig(n) /\ (n \in E => out'[n] = text[n])
        BY <1>8, <2>2, <3>1
      <3>3. Sig(n) # None => Sig(n) <= clock /\ text[n] = Parsed(n)
        BY <1>5, <1>9, <3>1 DEF Remembered
      <3> QED
        BY <1>6, <1>9, <3>1, <3>2, <3>3 DEF AsRead
    <2>3. \A n \in C :
             /\ results'[n].status \in {"ok", "failed", "missing"}
             /\ results'[n].status = "ok" <=> n \in E
             /\ results'[n].local <=> n \in Files
             /\ n \notin E /\ text[n] # None =>
                   /\ results'[n].status = "failed"
                   /\ \E d \in ImportsOf(text)[n] \cap results'[n].missing : d \in C \ E
      BY <1>3, <1>7, ReportTells DEF Handled
    <2> HIDE DEF C, E
    <2> QED
      BY <1>3, <1>7, <2>1, <2>2, <2>3 DEF Compiled
  <1>15. Supplies(rt, text)'
    <2>1. SUFFICES ASSUME NEW n \in C \cap Good(rt), n \in watched => baseline[n] = None
                   PROVE  text[n] = rt[n] \/ (n \in watched /\ read'[n] # None)
      BY <1>6, <1>7 DEF Supplies
    <2>2. n \in Names /\ n \in ByCache /\ rt[n] = cache[n] /\ rt[n] # None
      BY <1>5, <1>7, <2>1 DEF ByCache, Good, Remembered, Recorded, Goods
    <2>3. n \notin Outdated(names, text, expired)
      BY <1>3
    <2>4. /\ n \in Files => n \in watched
          /\ n \notin Files => n \notin expired
      BY <2>1, <2>2, <2>3 DEF Outdated
    <2> QED
      BY <1>8, <1>9, <2>1, <2>2, <2>4
  <1> QED
    BY <1>10, <1>12, <1>13, <1>14, <1>15 DEF FreshInv, Reads

\* What a fold that overtakes nothing does to the state of the loop, in terms
\* of what the compile read.
LEMMA FoldTells ==
    ASSUME TypeInv, ScheduleInv, Fold, ~disturbed'
    PROVE  /\ ~disturbed /\ pc = "fold" /\ pc' = "scan" /\ Busy /\ ~Busy' /\ Due = names
           /\ Handled' = {} /\ Supplied' = {}
           /\ UNCHANGED <<files, cache, out, read>>
           /\ known' = known \cup Handled \cup pending_adopt'
           /\ Due' = pending_adopt'
           /\ failed_deps' = FailedDeps /\ latest' = Latest /\ graph' = ImportGraph
           /\ RetrySet(Supplied, FailedDeps) \subseteq pending_retry'
           /\ pending_retry = {}
           /\ watched' = Polled
           /\ \A n \in Polled : baseline'[n] = Sig(n) /\ read[n] = Sig(n)
           /\ \A n \in DOMAIN snap : snap[n] = Sig(n)
  <1>1. /\ pc = "fold" /\ pc' = "scan" /\ UNCHANGED <<files, cache, out, read>>
        /\ known' = known \cup DOMAIN results \cup NewStems(Polled)
        /\ pending_adopt' = pending_adopt \cup NewStems(Polled)
        /\ failed_deps' = FailedDeps
        /\ pending_retry' = pending_retry \cup RetrySet(Supplied, FailedDeps)
        /\ latest' = Latest /\ graph' = ImportGraph
        /\ baseline' = [n \in Polled |-> Sig(n)]
        /\ results' = [n \in {} |-> None]
        /\ disturbed' = (disturbed \/ Overtaken)
    BY DEF Fold
  <1>2. pending_adopt = {} /\ pending_retry = {}
    BY <1>1 DEF ScheduleInv
  <1>3. ~disturbed /\ ~Overtaken
    <2>1. disturbed \in BOOLEAN
      BY DEF TypeInv, TypeOK
    <2> QED
      BY <1>1, <2>1
  <1>4. Handled' = {} /\ Supplied' = {}
    BY <1>1 DEF Handled, Supplied
  <1>5. /\ \A n \in Polled : baseline'[n] = Sig(n) /\ read[n] = Sig(n)
        /\ \A n \in DOMAIN snap : snap[n] = Sig(n)
    BY <1>1, <1>3 DEF Overtaken
  <1>6. Busy /\ ~Busy' /\ Due = names /\ Due' = pending_adopt'
    BY <1>1 DEF Busy, Due
  <1>7. watched' = Polled
    BY <1>1 DEF watched
  <1>8. known' = known \cup Handled \cup pending_adopt'
    BY <1>1, <1>2 DEF Handled
  <1> QED
    BY <1>1, <1>2, <1>3, <1>4, <1>5, <1>6, <1>7, <1>8

\* What becomes of the records of the modules that were compiled, and of the
\* others.
LEMMA FoldRecords ==
    ASSUME TypeInv, NEW text \in Reads, Compiled(text), deleted \subseteq Handled,
           NEW E, E = Emitted(names, text)
    PROVE  /\ Supplied = E /\ E \subseteq Handled /\ Handled \subseteq Names
           /\ \A n \in E : text[n] # None
           /\ \A n \in Handled : ImportsOf(text)[n] \subseteq Handled
           /\ \A n \in Names :
                 /\ n \in E => Latest[n] \in {"ok", "stale"}
                 /\ n \in Handled \ E => /\ Latest[n] \in BadStatuses
                                         /\ Latest[n] = "stale" => text[n] = None
                 /\ n \in Handled /\ Latest[n] = "stale" => n \in deleted /\ read[n] = None
                 /\ n \notin Handled => /\ Latest[n] = latest[n]
                                        /\ FailedDeps[n] = failed_deps[n]
           /\ \A n \in Handled \ E : text[n] # None =>
                 \E d \in FailedDeps[n] \cap ImportsOf(text)[n] : d \in Handled \ E
           /\ \A n \in Names, d \in E : n \notin Handled /\ d \in failed_deps[n] =>
                 n \in RetrySet(Supplied, FailedDeps)
  <1>1. ImportsOf(text) \in Edges
    BY ImportsAreEdges
  <1>2. Handled = Closure(names, ImportsOf(text)) /\ Handled \subseteq Names
    BY DEF Compiled, Closure
  <1>3. \A n \in Handled : ImportsOf(text)[n] \subseteq Handled
    BY <1>1, <1>2, ClosureIsClosed
  <1>4. E \subseteq Handled /\ \A n \in E : text[n] # None
    BY <1>2, EmittedWasObtained DEF Emitted
  <1>5. \A n \in Handled :
           /\ results[n].status \in {"ok", "failed", "missing"}
           /\ results[n].status = "ok" <=> n \in E
           /\ results[n].local <=> read[n] # None
           /\ n \notin E /\ text[n] # None =>
                 /\ results[n].status = "failed"
                 /\ \E d \in ImportsOf(text)[n] \cap results[n].missing : d \in Handled \ E
    BY DEF Compiled
  <1>6. Supplied = E
    BY <1>4, <1>5 DEF Supplied, Handled
  <1>7. ASSUME NEW n \in Names
        PROVE  /\ n \in E => Latest[n] \in {"ok", "stale"}
               /\ n \in Handled \ E => /\ Latest[n] \in BadStatuses
                                       /\ Latest[n] = "stale" => text[n] = None
               /\ n \in Handled /\ Latest[n] = "stale" => n \in deleted /\ read[n] = None
               /\ n \notin Handled => Latest[n] = latest[n]
    <2>1. CASE n \notin Handled
      BY <1>4, <2>1 DEF Latest, Handled
    <2>2. CASE n \in Handled
      <3>1. Latest[n] = IF n \in deleted /\ ~results[n].local /\ results[n].status # "failed"
                        THEN "stale" ELSE results[n].status
        BY <2>2 DEF Latest, Handled
      <3> QED
        BY <1>5, <2>2, <3>1 DEF BadStatuses
    <2> QED
      BY <2>1, <2>2
  <1>8. \A n \in Names : n \notin Handled => FailedDeps[n] = failed_deps[n]
    BY DEF FailedDeps, Handled
  <1>9. ASSUME NEW n \in Handled \ E, text[n] # None
        PROVE  \E d \in FailedDeps[n] \cap ImportsOf(text)[n] : d \in Handled \ E
    <2>1. PICK d \in ImportsOf(text)[n] \cap results[n].missing : d \in Handled \ E
      BY <1>5, <1>9
    <2>2. results[n].status = "failed" /\ results[n].missing # {} /\ n \in Names
      BY <1>2, <1>5, <1>9, <2>1
    <2>3. FailedDeps[n] = results[n].missing
      BY <1>6, <1>9, <2>2 DEF FailedDeps, Handled
    <2> QED
      BY <2>1, <2>3
  <1>10. ASSUME NEW n \in Names, NEW d \in E, n \notin Handled, d \in failed_deps[n]
         PROVE  n \in RetrySet(Supplied, FailedDeps)
    <2> DEFINE unblocks == [b \in Names |-> {m \in Names : b \in FailedDeps[m]}]
    <2>1. d \in Names /\ n \in unblocks[d]
      BY <1>2, <1>4, <1>8, <1>10
    <2>2. d \in Closure(E, unblocks)
      <3>1. E \in SUBSET Names
        BY <1>2, <1>4
      <3> QED
        BY <3>1, ClosureExtends
    <2> QED
      BY <1>6, <2>1, <2>2 DEF RetrySet
  <1> QED
    BY <1>2, <1>3, <1>4, <1>6, <1>7, <1>8, <1>9, <1>10

\* The imports of a good module that was not compiled are good still: those of
\* them that were compiled were supplied the same texts as before.
LEMMA UntouchedStayGood ==
    ASSUME TypeInv, Fold, ~disturbed', Underway, Busy,
           NEW rt \in Reads, Remembered(rt), Goods(rt),
           NEW text \in Reads, Compiled(text), Supplies(rt, text),
           \A n \in Polled : read[n] = Sig(n), \A n \in DOMAIN snap : snap[n] = Sig(n),
           NEW n \in Good(rt) \ Handled, NEW d \in graph[n]
    PROVE  d \in Good(rt) /\ (d \in Handled => d \in Emitted(names, text) /\ text[d] = rt[d])
  <1> DEFINE changed == {m \in watched : snap[m] # baseline[m]}
             edges == [b \in Names |-> {m \in Names : b \in graph[m]}]
             Kept == {m \in Good(rt) : m \notin Closure(changed, edges)}
  <1>1. edges \in Edges /\ Good(rt) \subseteq Names
    BY DEF Edges, Good
  <1>2. Closure(changed, edges) \subseteq names /\ DOMAIN snap = watched
    BY DEF Underway, Dependents
  <1>3. ImportsOf(text) \in Edges /\ Handled = Closure(names, ImportsOf(text))
    BY ImportsAreEdges DEF Compiled
  <1>4. names \subseteq Handled /\ Handled \subseteq Names
    BY <1>3, ClosureExtends DEF TypeInv, TypeOK
  <1>5. n \in Kept
    BY <1>2, <1>4
  <1>6. ASSUME NEW m \in Kept, NEW b \in graph[m]
        PROVE  b \in Kept
    <2>1. b \in Good(rt) /\ b \in Names /\ m \in Names
      BY <1>1, <1>6 DEF Goods
    <2>2. m \in edges[b]
      BY <1>6, <2>1
    <2>3. b \notin Closure(changed, edges)
      <3> HIDE DEF edges, changed
      <3> QED
        BY <1>1, <1>6, <2>2, ClosureIsClosed
    <2> QED
      BY <2>1, <2>3
  <1>7. ASSUME NEW m \in Kept, m \in Handled
        PROVE  text[m] = rt[m]
    <2>1. m \in Names /\ rt[m] # None
      BY <1>1 DEF Goods
    <2>2. m \in watched => snap[m] = baseline[m] /\ Sig(m) = baseline[m] /\ read[m] = Sig(m)
      <3>1. changed \subseteq Closure(changed, edges)
        <4>1. changed \in SUBSET Names
          BY DEF TypeInv, TypeOK
        <4> HIDE DEF changed, edges
        <4> QED
          BY <4>1, ClosureExtends
      <3>2. watched \subseteq Polled
        BY DEF Polled, Local
      <3> QED
        BY <1>2, <3>1, <3>2
    <2>3. CASE m \in watched /\ baseline[m] # None
      <3>1. AsRead(m, baseline[m], rt[m]) /\ AsRead(m, read[m], text[m])
        BY <1>7, <2>3 DEF Remembered, Compiled
      <3> QED
        BY <2>2, <2>3, <3>1 DEF AsRead
    <2>4. CASE m \in watched => baseline[m] = None
      BY <1>7, <2>2, <2>4 DEF Supplies
    <2> QED
      BY <2>3, <2>4
  <1>8. d \in Kept
    BY <1>5, <1>6
  <1>9. ASSUME d \in Handled
        PROVE  d \in Emitted(names, text)
    <2> DEFINE Z == Kept \cap Handled
    <2>1. ASSUME NEW z \in Z
          PROVE  text[z] # None /\ ImportsOf(text)[z] \subseteq Z
      <3>1. text[z] = rt[z] /\ rt[z] # None /\ graph[z] = ImportsOf(rt)[z] /\ z \in Names
        BY <1>1, <1>7 DEF Goods
      <3>2. ImportsOf(text)[z] = graph[z]
        BY <3>1 DEF ImportsOf
      <3>3. ImportsOf(text)[z] \subseteq Handled
        BY <1>3, ClosureIsClosed
      <3>4. graph[z] \subseteq Kept
        BY <1>6
      <3> QED
        BY <3>1, <3>2, <3>3, <3>4
    <2>2. Z \in SUBSET Names /\ d \in Z /\ d \in Closure(names, ImportsOf(text))
      BY <1>3, <1>4, <1>8, <1>9
    <2> HIDE DEF Z
    <2> QED
      BY <2>1, <2>2, GoodAreEmitted
  <1> QED
    BY <1>7, <1>8, <1>9

LEMMA FreshFold ==
    ASSUME TypeInv, ScheduleInv, FreshInv, Fold
    PROVE  FreshInv'
  <1>1. SUFFICES ASSUME ~disturbed' PROVE FreshInv'
    BY DEF FreshInv
  <1>2. /\ ~disturbed /\ pc = "fold" /\ pc' = "scan" /\ Busy /\ ~Busy' /\ Due = names
        /\ Handled' = {} /\ Supplied' = {}
        /\ UNCHANGED <<files, cache, out, read>>
        /\ known' = known \cup Handled \cup pending_adopt'
        /\ Due' = pending_adopt'
        /\ failed_deps' = FailedDeps /\ latest' = Latest /\ graph' = ImportGraph
        /\ RetrySet(Supplied, FailedDeps) \subseteq pending_retry'
        /\ pending_retry = {}
        /\ watched' = Polled
        /\ \A n \in Polled : baseline'[n] = Sig(n) /\ read[n] = Sig(n)
        /\ \A n \in DOMAIN snap : snap[n] = Sig(n)
    BY <1>1, FoldTells
  <1>3. /\ Covered /\ Underway
        /\ \E rt \in Reads :
              /\ Remembered(rt) /\ Recorded(rt)
              /\ \E text \in Reads : Compiled(text) /\ Supplies(rt, text)
    BY <1>2 DEF FreshInv, Ended
  <1>4. PICK rt \in Reads, text \in Reads :
            Remembered(rt) /\ Recorded(rt) /\ Compiled(text) /\ Supplies(rt, text)
    BY <1>3
  <1>5. ImportsOf(text) \in Edges /\ Handled = Closure(names, ImportsOf(text))
    BY <1>4, ImportsAreEdges DEF Compiled
  <1>6. /\ names \subseteq Handled /\ deleted \subseteq names /\ DOMAIN snap = watched
        /\ Dependents({n \in watched : snap[n] # baseline[n]}) \subseteq names
    BY <1>2, <1>3, <1>5, ClosureExtends DEF Underway, TypeInv, TypeOK
  <1> DEFINE E == Emitted(names, text)
  <1>7. /\ Supplied = E /\ E \subseteq Handled /\ Handled \subseteq Names
        /\ \A n \in E : text[n] # None
        /\ \A n \in Handled : ImportsOf(text)[n] \subseteq Handled
        /\ \A n \in Names :
              /\ n \in E => Latest[n] \in {"ok", "stale"}
              /\ n \in Handled \ E => /\ Latest[n] \in BadStatuses
                                      /\ Latest[n] = "stale" => text[n] = None
              /\ n \in Handled /\ Latest[n] = "stale" => n \in deleted /\ read[n] = None
              /\ n \notin Handled => /\ Latest[n] = latest[n]
                                     /\ FailedDeps[n] = failed_deps[n]
        /\ \A n \in Handled \ E : text[n] # None =>
              \E d \in FailedDeps[n] \cap ImportsOf(text)[n] : d \in Handled \ E
        /\ \A n \in Names, d \in E : n \notin Handled /\ d \in failed_deps[n] =>
              n \in RetrySet(Supplied, FailedDeps)
    <2>1. deleted \subseteq Handled
      BY <1>6
    <2> QED
      BY <1>4, <2>1, FoldRecords
  <1>8. ASSUME NEW n \in Good(rt) \ Handled, NEW d \in graph[n]
        PROVE  d \in Good(rt) /\ (d \in Handled => d \in E /\ text[d] = rt[d])
    <2>1. Goods(rt)
      BY <1>4 DEF Recorded
    <2> QED
      BY <1>1, <1>2, <1>3, <1>4, <2>1, UntouchedStayGood
  <1> HIDE DEF E
  <1>9. PICK rt2 \in Reads : rt2 = [n \in Names |-> IF n \in Handled THEN text[n] ELSE rt[n]]
    BY DEF Reads
  <1>10. \A n \in Names : /\ n \in Handled => rt2[n] = text[n]
                                        /\ ImportsOf(rt2)[n] = ImportsOf(text)[n]
                          /\ n \notin Handled => rt2[n] = rt[n]
                                        /\ ImportsOf(rt2)[n] = ImportsOf(rt)[n]
    BY <1>9 DEF ImportsOf
  <1>11. /\ watched \subseteq Polled /\ Polled \subseteq Names
         /\ \A n \in Polled \ watched : n \in Handled \/ Sig(n) # None
         /\ \A n \in Handled : n \in Polled \/ read[n] = None
    <2>1. \A n \in Names : stamp[n] # None
      BY TextsAreParsed DEF TypeInv, TypeOK
    <2>2. \A n \in Handled : n \notin Local => read[n] = None
      BY <1>4 DEF Compiled, Local, Handled
    <2> QED
      BY <1>7, <2>1, <2>2 DEF Polled, Local, Handled, Files, Sig, TypeInv, TypeOK
  <1>12. \A n \in Polled : n \notin Handled => n \in watched /\ baseline[n] = Sig(n)
    <2>1. SUFFICES ASSUME NEW n \in Polled, n \notin Handled
                   PROVE  n \in watched /\ baseline[n] = Sig(n)
      OBVIOUS
    <2>2. n \in watched
      BY <1>2, <1>4, <1>11, <2>1 DEF Remembered
    <2> DEFINE changed == {m \in watched : snap[m] # baseline[m]}
    <2>3. changed \subseteq Dependents(changed)
      <3>1. changed \in SUBSET Names
        BY DEF TypeInv, TypeOK
      <3> HIDE DEF changed
      <3> QED
        BY <3>1, DependentsExtend
    <2>4. n \notin changed
      BY <1>6, <2>1, <2>3
    <2> QED
      BY <1>2, <1>6, <2>2, <2>4
  <1>13. Tried' = Tried \cup Handled
    <2>1. \A n \in Names : latest'[n] # "none" <=> latest[n] # "none" \/ n \in Handled
      BY <1>2, <1>7 DEF BadStatuses
    <2> QED
      BY <1>7, <2>1 DEF Tried
  <1>14. Good(rt2)' = E \cup (Good(rt) \ Handled)
    <2>1. ASSUME NEW n \in Names
          PROVE  n \in Good(rt2)' <=> n \in E \/ (n \in Good(rt) /\ n \notin Handled)
      <3>1. n \in Good(rt2)' <=> Latest[n] = "ok" \/ (Latest[n] = "stale" /\ rt2[n] # None)
        BY <1>2 DEF Good
      <3>2. CASE n \in E
        BY <1>7, <1>10, <3>1, <3>2
      <3>3. CASE n \in Handled \ E
        BY <1>7, <1>10, <3>1, <3>3 DEF BadStatuses
      <3>4. CASE n \notin Handled
        BY <1>7, <1>10, <3>1, <3>4 DEF Good
      <3> QED
        BY <1>7, <3>2, <3>3, <3>4
    <2>2. Good(rt2)' \subseteq Names /\ Good(rt) \subseteq Names /\ E \subseteq Names
      BY <1>7 DEF Good
    <2> QED
      BY <2>1, <2>2
  <1>15. Covered'
    <2>1. known \subseteq Tried \cup names /\ Tried \subseteq known
      BY <1>2, <1>3 DEF Covered
    <2> QED
      BY <1>2, <1>6, <1>13, <2>1 DEF Covered
  <1>16. Remembered(rt2)'
    <2>1. ASSUME NEW n \in Names
          PROVE  /\ stamp'[n] <= clock'
                 /\ rt2[n] = cache'[n]
                 /\ n \notin watched' => read'[n] = None
      BY <1>2, <1>4, <1>10, <1>11, <2>1 DEF files, Remembered, Compiled
    <2>2. ASSUME NEW n \in Names, latest'[n] = "stale"
          PROVE  n \in watched' /\ baseline'[n] = None
      <3>1. CASE n \in Handled
        <4>1. n \in deleted /\ read[n] = None
          BY <1>2, <1>7, <2>2, <3>1
        <4>2. n \in Polled
          BY <1>11, <4>1 DEF TypeInv, TypeOK
        <4> QED
          BY <1>2, <4>1, <4>2
      <3>2. CASE n \notin Handled
        <4>1. n \in watched /\ baseline[n] = None
          BY <1>2, <1>4, <1>7, <2>2, <3>2 DEF Remembered
        <4> QED
          BY <1>2, <1>11, <1>12, <3>2, <4>1
      <3> QED
        BY <3>1, <3>2
    <2>3. ASSUME NEW n \in watched'
          PROVE  AsRead(n, baseline[n], rt2[n])'
      <3>1. n \in Polled /\ n \in Names /\ baseline'[n] = Sig(n) /\ read[n] = Sig(n)
        BY <1>2, <1>11, <2>3
      <3>2. Sig(n)' = Sig(n) /\ Parsed(n)' = Parsed(n) /\ clock' = clock
        BY <1>2 DEF files, Sig, Parsed
      <3>3. AsRead(n, Sig(n), rt2[n])
        <4>1. CASE n \in Handled
          BY <1>4, <1>10, <3>1, <4>1 DEF Compiled
        <4>2. CASE n \notin Handled
          BY <1>4, <1>10, <1>12, <3>1, <4>2 DEF Remembered
        <4> QED
          BY <4>1, <4>2
      <3> QED
        BY <3>1, <3>2, <3>3 DEF AsRead
    <2>4. watched' \subseteq Tried'
      BY <1>2, <1>4, <1>12, <1>13 DEF Remembered
    <2> QED
      BY <1>2, <2>1, <2>2, <2>3, <2>4 DEF Remembered
  <1>17. KnotFree(ImportsOf(rt2), Tried)'
    <2>1. SUFFICES ASSUME NEW Y \in SUBSET (Tried \cup Handled), IsKnot(Y, ImportsOf(rt2))
                   PROVE  Y = {}
      BY <1>13 DEF KnotFree, ImportsOf
    <2>2. Y \subseteq Names
      BY <1>7 DEF Tried
    <2>3. Y \cap Handled = {}
      <3>1. SUFFICES ASSUME Y \cap Handled # {} PROVE FALSE
        OBVIOUS
      <3>2. IsKnot(Y \cap Handled, ImportsOf(text))
        BY <1>7, <1>10, <2>1, <2>2 DEF IsKnot
      <3>3. PICK n \in Y \cap Handled : n \in Closure(ImportsOf(text)[n], ImportsOf(text))
        <4>1. Y \cap Handled \in SUBSET Names /\ IsFiniteSet(Names)
          BY <2>2, SessionIsValid
        <4> QED
          BY <1>5, <3>1, <3>2, <4>1, KnotsAreCircular
      <3> QED
        BY <1>4, <1>5, <3>3 DEF Circular, Compiled
    <2>4. IsKnot(Y, ImportsOf(rt)) /\ Y \in SUBSET Tried
      BY <1>10, <2>1, <2>2, <2>3 DEF IsKnot
    <2> QED
      BY <1>4, <2>4 DEF Recorded, KnotFree
  <1>18. Bads(rt2)'
    <2>1. SUFFICES ASSUME NEW n \in Names, n \notin pending_retry', n \notin Good(rt2)',
                          latest'[n] \in BadStatuses, rt2[n] # None
                   PROVE  \E d \in failed_deps'[n] \cap ImportsOf(rt2)[n] :
                              latest'[d] \in BadStatuses /\ d \notin Good(rt2)'
      BY DEF Bads, BadStatuses, ImportsOf
    <2>2. CASE n \in Handled
      <3>1. n \notin E
        BY <1>14, <2>1
      <3>2. PICK d \in failed_deps'[n] \cap ImportsOf(text)[n] : d \in Handled \ E
        BY <1>2, <1>7, <1>10, <2>1, <2>2, <3>1
      <3>3. d \in Names /\ latest'[d] \in BadStatuses /\ d \notin Good(rt2)'
        BY <1>2, <1>7, <1>14, <3>2
      <3> QED
        BY <1>10, <2>2, <3>2, <3>3
    <2>3. CASE n \notin Handled
      <3>1. n \notin names /\ latest[n] \in BadStatuses /\ rt[n] # None /\ n \notin Good(rt)
        BY <1>2, <1>6, <1>7, <1>10, <1>14, <2>1, <2>3
      <3>2. PICK d \in failed_deps[n] \cap ImportsOf(rt)[n] :
                latest[d] \in BadStatuses /\ d \notin Good(rt)
        BY <1>2, <1>4, <3>1 DEF Recorded, Bads
      <3>3. d \in Names
        BY <3>2, ImportsAreEdges DEF Edges
      <3>4. d \notin E
        BY <1>2, <1>7, <2>1, <2>3, <3>2
      <3>5. latest'[d] \in BadStatuses /\ d \notin Good(rt2)'
        BY <1>2, <1>7, <1>14, <3>2, <3>3, <3>4
      <3>6. failed_deps'[n] = failed_deps[n] /\ ImportsOf(rt2)[n] = ImportsOf(rt)[n]
        BY <1>2, <1>7, <1>10, <2>3
      <3> QED
        BY <3>2, <3>5, <3>6
    <2> QED
      BY <2>2, <2>3
  <1>19. Goods(rt2)'
    <2>1. SUFFICES ASSUME NEW n \in Good(rt2)'
                   PROVE  /\ rt2[n] # None
                          /\ graph'[n] = ImportsOf(rt2)[n]
                          /\ graph'[n] \subseteq Good(rt2)'
                          /\ out[n] = rt2[n]
      BY <1>2 DEF Goods, ImportsOf
    <2>2. n \in Names /\ n \in known \cup Handled
      <3>1. n \in Names /\ n \in Tried'
        BY <2>1 DEF Good, Tried
      <3>2. Tried \subseteq known
        BY <1>3 DEF Covered
      <3> QED
        BY <1>13, <3>1, <3>2
    <2>3. rt2[n] # None /\ out[n] = rt2[n]
      <3>1. CASE n \in E
        <4>1. out[n] = text[n]
          BY <1>4, <1>7, <3>1 DEF Compiled, E
        <4> QED
          BY <1>7, <1>10, <2>2, <3>1, <4>1
      <3>2. CASE n \in Good(rt) \ Handled
        BY <1>4, <1>7, <1>10, <2>2, <3>2 DEF Recorded, Goods
      <3> QED
        BY <1>14, <2>1, <3>1, <3>2
    <2>4. graph'[n] = ImportsOf(rt2)[n]
      BY <1>2, <2>2, <2>3 DEF ImportGraph, ImportsOf, Handled
    <2>5. ASSUME NEW d \in ImportsOf(rt2)[n]
          PROVE  d \in Good(rt2)'
      <3>1. CASE n \in E
        BY <1>7, <1>10, <1>14, <2>2, <2>5, <3>1, EmittedImportEmitted DEF E
      <3>2. CASE n \in Good(rt) \ Handled
        <4>1. ImportsOf(rt2)[n] = graph[n]
          BY <1>4, <1>10, <2>2, <3>2 DEF Recorded, Goods
        <4> QED
          BY <1>8, <1>14, <2>5, <3>2, <4>1
      <3> QED
        BY <1>14, <2>1, <3>1, <3>2
    <2> QED
      BY <2>3, <2>4, <2>5
  <1>20. Underway' /\ Recorded(rt2)'
    BY <1>2, <1>17, <1>18, <1>19 DEF Underway, Recorded
  <1> QED
    BY <1>2, <1>9, <1>15, <1>16, <1>20 DEF FreshInv, Reads

LEMMA FreshStep ==
    ASSUME TypeInv, ScheduleInv, DeletionInv, FreshInv, [Next]_vars
    PROVE  FreshInv'
  <1>1. ASSUME NEW n \in Names, Change(n)
        PROVE  FreshInv'
    <2>1. UNCHANGED <<disk, cycle, session, graph, baseline, pc>>
      BY <1>1 DEF Change, polling
    <2> QED
      BY <1>1, <2>1, FreshStays
  <1>2. CASE Elapse
    BY <1>2, FreshStays DEF Elapse
  <1>3. CASE Poll
    <2>1. /\ UNCHANGED <<files, disk, cycle, session, graph, baseline>>
          /\ {pc, pc'} \subseteq {"scan", "sleep"}
      BY <1>3 DEF Poll
    <2> QED
      BY <2>1, FreshStays
  <1>4. CASE Stop
    BY <1>4 DEF Stop, FreshInv, Ended
  <1>5. CASE UNCHANGED vars
    BY <1>5, FreshStays DEF vars, polling
  <1> QED
    BY <1>1, <1>2, <1>3, <1>4, <1>5, FreshCompile, FreshFold, FreshScan,
       FreshInvalidate DEF Next, Loop

\* When nothing waits, the texts remembered are those a compile would take: a
\* good module is emitted by GoodAreEmitted, and modules that should be good
\* but are bad would be a knot.
LEMMA FreshWhenSettled ==
    ASSUME TypeInv, ScheduleInv, DeletionInv, FreshInv, Settled, ~disturbed
    PROVE  /\ known \subseteq Closure(known, ImportsOf(Now))
           /\ pending_adopt = {} /\ pending_retry = {}
           /\ \A n \in Names : latest[n] # "none" <=> n \in known
           /\ \A n \in known :
                 /\ latest[n] = "ok" => n \in Emitted(known, Now) /\ out[n] = Now[n]
                 /\ latest[n] \in {"failed", "missing"} => n \notin Emitted(known, Now)
                 /\ latest[n] = "stale" => n \notin Files
  <1>1. /\ pc = "scan" /\ ~Busy /\ pending_adopt = {} /\ pending_retry = {}
        /\ Files \subseteq watched /\ \A n \in watched : Sig(n) = baseline[n]
    BY DEF Settled, ScheduleInv, WorkIsScheduled, Busy
  <1>2. Covered /\ \E rt \in Reads : Remembered(rt) /\ Recorded(rt)
    BY <1>1 DEF FreshInv, Ended
  <1>3. PICK rt \in Reads : Remembered(rt) /\ Recorded(rt)
    BY <1>2
  <1>4. Due = {}
    BY <1>1 DEF Due
  <1>5. known = Tried /\ known \subseteq Names
    BY <1>2, <1>4 DEF Covered, TypeInv, TypeOK
  <1>6. \A n \in Names : Sig(n) = None <=> n \notin Files
    <2>1. \A n \in Names : stamp[n] # None
      BY TextsAreParsed DEF TypeInv, TypeOK
    <2> QED
      BY <2>1 DEF Sig, Files
  <1>7. Handled = {} /\ Supplied = {}
    BY <1>1 DEF DeletionInv, Handled, Supplied
  <1>8. rt = Now
    <2>1. ASSUME NEW n \in Names
          PROVE  rt[n] = Now[n]
      <3>1. CASE n \in Files
        <4>1. n \in watched /\ baseline[n] # None /\ Sig(n) = baseline[n]
          BY <1>1, <1>6, <3>1
        <4>2. rt[n] = Parsed(n)
          BY <1>3, <4>1 DEF Remembered, AsRead
        <4> QED
          BY <3>1, <4>2 DEF Parsed, Now, Obtained, Files
      <3>2. CASE n \notin Files
        BY <1>3, <1>7, <3>2 DEF Remembered, Now, Obtained, Files
      <3> QED
        BY <3>1, <3>2
    <2> QED
      BY <1>3, <2>1 DEF Reads, Now, Obtained
  <1>9. Now \in Reads
    BY <1>3, <1>8
  <1>10. known \subseteq Closure(known, ImportsOf(Now))
    BY <1>5, ClosureExtends
  <1>11. ASSUME NEW n \in Good(rt)
         PROVE  n \in Emitted(known, Now) /\ out[n] = Now[n]
    <2>1. ASSUME NEW m \in Good(rt)
          PROVE  Now[m] # None /\ ImportsOf(Now)[m] \subseteq Good(rt) /\ out[m] = Now[m]
      BY <1>3, <1>7, <1>8 DEF Recorded, Goods
    <2>2. n \in known /\ Good(rt) \in SUBSET Names
      BY <1>5 DEF Good, Tried
    <2>3. n \in Emitted(known, Now)
      BY <1>9, <1>10, <2>1, <2>2, GoodAreEmitted
    <2> QED
      BY <2>1, <2>3
  <1>12. ASSUME NEW n \in known, n \in Emitted(known, Now)
         PROVE  n \in Good(rt)
    <2> DEFINE Y == {m \in Emitted(known, Now) : m \notin Good(rt) /\ m \in Tried}
    <2>1. Emitted(known, Now) \subseteq Names /\ \A m \in Emitted(known, Now) : Now[m] # None
      BY EmittedWasObtained
    <2>2. ASSUME NEW m \in Y
          PROVE  ImportsOf(Now)[m] \cap Y # {}
      <3>1. latest[m] \in BadStatuses /\ m \in Names
        BY <2>1 DEF Good, Tried, TypeInv, TypeOK
      <3>2. PICK d \in failed_deps[m] \cap ImportsOf(rt)[m] :
                latest[d] \in BadStatuses /\ d \notin Good(rt)
        BY <1>1, <1>3, <1>4, <1>8, <2>1, <3>1 DEF Recorded, Bads
      <3>3. d \in Emitted(known, Now)
        BY <1>8, <1>9, <3>2, EmittedImportEmitted
      <3>4. d \in Tried
        BY <2>1, <3>2, <3>3 DEF Tried, BadStatuses
      <3> QED
        BY <1>8, <3>2, <3>3, <3>4
    <2>3. IsKnot(Y, ImportsOf(rt)) /\ Y \in SUBSET Tried
      BY <1>8, <2>2 DEF IsKnot
    <2>4. Y = {}
      <3> HIDE DEF Y
      <3> QED
        BY <1>3, <2>3 DEF Recorded, KnotFree
    <2> QED
      BY <1>5, <1>12, <2>4
  <1>13. ASSUME NEW n \in known
         PROVE  /\ latest[n] = "ok" => n \in Emitted(known, Now) /\ out[n] = Now[n]
                /\ latest[n] \in {"failed", "missing"} => n \notin Emitted(known, Now)
                /\ latest[n] = "stale" => n \notin Files
    <2>1. n \in Names
      BY <1>5
    <2>2. latest[n] = "ok" => n \in Good(rt)
      BY <2>1 DEF Good
    <2>3. latest[n] \in {"failed", "missing"} => n \notin Good(rt)
      BY DEF Good
    <2>4. latest[n] = "stale" => n \in watched /\ baseline[n] = None
      BY <1>3, <2>1 DEF Remembered
    <2> QED
      BY <1>1, <1>6, <1>11, <1>12, <2>1, <2>2, <2>3, <2>4
  <1>14. \A n \in Names : latest[n] # "none" <=> n \in known
    BY <1>5 DEF Tried
  <1> QED
    BY <1>1, <1>10, <1>13, <1>14

LEMMA FreshMeansContract ==
    ASSUME TypeInv, ScheduleInv, DeletionInv, FreshInv
    PROVE  SettledIsFresh /\ ExitContract
  <1>1. SUFFICES ASSUME Settled, ~disturbed,
                        NEW now, now = Report(known, Obtained({})),
                        NEW text, text = Obtained({})
                 PROVE  /\ \A n \in known :
                              /\ latest[n] # "none"
                              /\ latest[n] = "ok" => now[n].status = "ok" /\ out[n] = text[n]
                              /\ latest[n] \in {"failed", "missing"} => now[n].status # "ok"
                              /\ latest[n] = "stale" => n \notin Files
                        /\ (\E n \in known : now[n].status # "ok") => Problems # {}
                        /\ known \subseteq Files /\ (\A n \in known : now[n].status = "ok")
                              => Problems = {}
    BY DEF SettledIsFresh, ExitContract
  <1>2. /\ known \subseteq Closure(known, ImportsOf(text))
        /\ pending_adopt = {} /\ pending_retry = {}
        /\ \A n \in Names : latest[n] # "none" <=> n \in known
        /\ \A n \in known :
              /\ latest[n] = "ok" => n \in Emitted(known, text) /\ out[n] = text[n]
              /\ latest[n] \in {"failed", "missing"} => n \notin Emitted(known, text)
              /\ latest[n] = "stale" => n \notin Files
    BY <1>1, FreshWhenSettled DEF Now
  <1>3. \A n \in known : now[n].status = "ok" <=> n \in Emitted(known, text)
    <2>1. \A n \in Closure(known, ImportsOf(text)) :
              now[n].status = "ok" <=> n \in Emitted(known, text)
      BY <1>1 DEF Report
    <2> QED
      BY <1>2, <2>1
  <1>4. /\ known \subseteq Names
        /\ \A n \in Names : latest[n] \in {"none", "ok", "failed", "missing", "stale"}
    BY DEF TypeInv, TypeOK, BadStatuses
  <1>5. Problems = {n \in known : latest[n] # "ok"}
    <2>1. \A n \in known : latest[n] # "none"
      BY <1>2, <1>4
    <2>2. Problems = {n \in Names : latest[n] \in BadStatuses}
      BY <2>1 DEF Problems
    <2> QED
      BY <1>2, <1>4, <2>1, <2>2 DEF BadStatuses
  <1> QED
    BY <1>2, <1>3, <1>4, <1>5

LEMMA FreshHolds == Spec => [](SettledIsFresh /\ ExitContract)
  <1> DEFINE Inv == TypeInv /\ ScheduleInv /\ DeletionInv /\ FreshInv
  <1>1. Init => Inv
    BY TypeInit, ScheduleInit, DeletionInit, FreshInit
  <1>2. Inv /\ [Next]_vars => Inv'
    BY TypeStep, ScheduleStep, DeletionStep, FreshStep
  <1>3. Inv => SettledIsFresh /\ ExitContract
    BY FreshMeansContract
  <1> QED
    BY <1>1, <1>2, <1>3, PTL DEF Spec

\* In every session, with or without a cache, and whatever is edited, deleted or
\* added and when: once nothing waits, and unless something was disturbed, each
\* recorded result is what a compile of the present directory would give, and
\* each output is of the text it would take.
THEOREM SettledAlwaysFresh == Spec => []SettledIsFresh
  BY FreshHolds, PTL

\* In the same sessions the exit status is that of the present directory.
THEOREM ExitAlwaysKept == Spec => []ExitContract
  BY FreshHolds, PTL
=============================================================================
