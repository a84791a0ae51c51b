------------------------- MODULE MibCacheFilesProofs -------------------------
(***************************************************************************)
(* Proofs about MibCacheFiles: puts never share a temporary file, only     *)
(* whole files are published, what is left behind has one of three causes, *)
(* and the directory implements AtomicCache.                               *)
(***************************************************************************)
EXTENDS MibCacheFiles, TLAPS

USE DEF Getting, Putting, InPut

LEMMA StoredIsEntry == \A t \in Texts : Stored(t) \in Entry
BY DEF Stored, Entry

LEMMA TornIsEntry == \A t \in Texts : [Stored(t) EXCEPT !.state = "corrupt"] \in Entry
BY DEF Stored, Entry

LEMMA EntryIsSome == \A e \in Entry : e # None
BY SentinelsAreDistinct

\* The invariant that every proof below rests on.
LEMMA InvInit == Init => CacheFilesInv
BY DEF Init, CacheFilesInv, TypeOK, TempsArePrivate

LEMMA InvStep == CacheFilesInv /\ [Next]_vars => CacheFilesInv'
<1> SUFFICES ASSUME CacheFilesInv, [Next]_vars PROVE CacheFilesInv'
    OBVIOUS
<1> USE HoldsTexts, SentinelsAreDistinct
<1>a. ASSUME NEW p \in Proc, NEW n \in Names, NEW fp \in Texts \cup {None}, Get(p, n, fp)
      PROVE CacheFilesInv'
  BY SMTT(30), <1>a DEF CacheFilesInv, TypeOK, TempsArePrivate, Get, Call, Return, Goto
<1>b. ASSUME NEW p \in Proc, NEW n \in Names, Invalidate(p, n)
      PROVE CacheFilesInv'
  BY <1>b DEF CacheFilesInv, TypeOK, TempsArePrivate, Invalidate, Call, Goto
<1>c. ASSUME NEW p \in Proc, NEW n \in Names, NEW t \in Holds[n], Put(p, n, t)
      PROVE CacheFilesInv'
  <2>1. t \in Texts
    OBVIOUS
  <2>2. CASE Return(p, CacheError) /\ UNCHANGED <<file, temp, orphans>>
    BY <2>2 DEF CacheFilesInv, TypeOK, TempsArePrivate, Return, Goto
  <2>3. ASSUME NEW f \in Temps, NEW torn \in Entry, torn # None,
               temp[f] = None, temp' = [temp EXCEPT ![f] = torn],
               Call(p, n, t, "write"), tmp' = [tmp EXCEPT ![p] = f],
               UNCHANGED <<file, listed, orphans>>, f \notin orphans
        PROVE  CacheFilesInv'
    <3>1. TypeOK'
      BY <2>1, <2>3 DEF CacheFilesInv, TypeOK, Call, Goto
    <3>2. TempsArePrivate'
      BY <2>1, <2>3 DEF CacheFilesInv, TypeOK, TempsArePrivate, Call, Goto
    <3> QED
      BY <2>3, <3>1, <3>2 DEF CacheFilesInv, TypeOK, Call, Goto
  <2>4. ASSUME NEW f \in FreshTemp
        PROVE  f \in Temps /\ temp[f] = None /\ f \notin orphans
    BY DEF FreshTemp, CacheFilesInv, TypeOK
  <2> QED
    BY <1>c, <2>1, <2>2, <2>3, <2>4, TornIsEntry, EntryIsSome DEF Put
<1>d. ASSUME NEW p \in Proc, Clear(p)
      PROVE CacheFilesInv'
  BY <1>d DEF CacheFilesInv, TypeOK, TempsArePrivate, Clear, Call, Goto
<1>e. ASSUME NEW p \in Proc, Stat(p)
      PROVE CacheFilesInv'
  BY <1>e DEF CacheFilesInv, TypeOK, TempsArePrivate, Stat, Goto, job
<1>f. ASSUME NEW p \in Proc, Read(p)
      PROVE CacheFilesInv'
  <2>1. CASE Goto(p, "unlink") /\ UNCHANGED <<job, answer>>
    BY <1>f, <2>1 DEF CacheFilesInv, TypeOK, TempsArePrivate, Read, Goto, job
  <2>2. ASSUME NEW a \in Answer, Return(p, a)
        PROVE  CacheFilesInv'
    BY <1>f, <2>2 DEF CacheFilesInv, TypeOK, TempsArePrivate, Read, Return, Goto
  <2>3. Loads(file[name[p]], text[p]) =>
          [name |-> name[p], asked |-> text[p], text |-> file[name[p]].text] \in Answer
    BY <1>f DEF CacheFilesInv, TypeOK, TempsArePrivate, Read, Loads, Answer, Entry
  <2> QED
    BY <1>f, <2>1, <2>2, <2>3 DEF Read
<1>g. ASSUME NEW p \in Proc, Unlink(p)
      PROVE CacheFilesInv'
  BY SMTT(30), <1>g DEF CacheFilesInv, TypeOK, TempsArePrivate, Unlink, Return, Goto
<1>h. ASSUME NEW p \in Proc, Write(p)
      PROVE CacheFilesInv'
  BY <1>h, StoredIsEntry, EntryIsSome
     DEF CacheFilesInv, TypeOK, TempsArePrivate, Write, Goto, job
<1>i. ASSUME NEW p \in Proc, Rename(p)
      PROVE CacheFilesInv'
  <2>1. CASE Goto(p, "discard") /\ UNCHANGED <<file, temp, job, answer>>
    BY <1>i, <2>1 DEF CacheFilesInv, TypeOK, TempsArePrivate, Rename, Goto, job
  <2>2. ASSUME temp[tmp[p]] # None,
               file' = [file EXCEPT ![name[p]] = temp[tmp[p]]],
               temp' = [temp EXCEPT ![tmp[p]] = None],
               Return(p, None)
        PROVE  CacheFilesInv'
    <3>1. TypeOK'
      BY <1>i, <2>2 DEF CacheFilesInv, TypeOK, TempsArePrivate, Rename, Return, Goto
    <3>2. TempsArePrivate'
      BY <1>i, <2>2 DEF CacheFilesInv, TypeOK, TempsArePrivate, Rename, Return, Goto
    <3> QED
      BY <1>i, <2>2, <3>1, <3>2
         DEF CacheFilesInv, TypeOK, TempsArePrivate, Rename, Return, Goto
  <2> QED
    BY <1>i, <2>1, <2>2 DEF Rename
<1>l. ASSUME NEW p \in Proc, NEW a \in {None, CacheError}, pc[p] # "idle", Abandon(p, a)
      PROVE CacheFilesInv'
  BY <1>l DEF CacheFilesInv, TypeOK, TempsArePrivate, Abandon, Return, Goto
<1>j. ASSUME NEW p \in Proc, Discard(p)
      PROVE CacheFilesInv'
  <2>1. CASE /\ temp' = [temp EXCEPT ![tmp[p]] = None]
             /\ Return(p, CacheError) /\ UNCHANGED <<file, orphans>>
    BY <1>j, <2>1 DEF CacheFilesInv, TypeOK, TempsArePrivate, Discard, Return, Goto
  <2> QED
    BY <1>j, <1>l, <2>1 DEF Discard
<1>k. ASSUME NEW p \in Proc, ClearNext(p)
      PROVE CacheFilesInv'
  BY SMTT(30), <1>k DEF CacheFilesInv, TypeOK, TempsArePrivate, ClearNext, Return, Goto
<1>o. ASSUME NEW p \in Proc, Kill(p) \/ FailToSerialise(p)
      PROVE CacheFilesInv'
  BY <1>o, <1>l DEF Kill, FailToSerialise
<1>m. ASSUME NEW n \in Names, Expire(n)
      PROVE CacheFilesInv'
  BY <1>m DEF CacheFilesInv, TypeOK, TempsArePrivate, Expire, job, Entry
<1>n. CASE UNCHANGED vars
  BY <1>n DEF CacheFilesInv, TypeOK, TempsArePrivate, vars, job
<1> QED
  BY <1>a, <1>b, <1>c, <1>d, <1>e, <1>f, <1>g, <1>h, <1>i, <1>j, <1>k, <1>m,
     <1>n, <1>o DEF Next, Operation

\* The state of the directory and of every process using it stays well formed,
\* and a put works on a temporary file of its own (cache.py:261).
THEOREM FilesInvHolds == Spec => []CacheFilesInv
BY InvInit, InvStep, PTL DEF Spec

LEMMA LitterStep ==
    CacheFilesInv /\ CacheFilesInv' /\ NoLitter /\ [Next]_vars => NoLitter'
<1> SUFFICES ASSUME CacheFilesInv, NoLitter, [Next]_vars,
                    NEW f \in Temps, temp'[f] # None
             PROVE f \in orphans' \/ (\E p \in Proc : InPut(p)' /\ tmp'[p] = f)
    BY DEF NoLitter
<1> USE DEF CacheFilesInv, TypeOK
<1>1. temp[f] # None => f \in orphans \/ (\E p \in Proc : InPut(p) /\ tmp[p] = f)
  BY DEF NoLitter
<1>a. ASSUME NEW p \in Proc, NEW n \in Names, NEW fp \in Texts \cup {None}, Get(p, n, fp)
      PROVE f \in orphans' \/ (\E q \in Proc : InPut(q)' /\ tmp'[q] = f)
  BY <1>a, <1>1 DEF Get, Call, Return, Goto
<1>b. ASSUME NEW p \in Proc, NEW n \in Names, Invalidate(p, n)
      PROVE f \in orphans' \/ (\E q \in Proc : InPut(q)' /\ tmp'[q] = f)
  BY <1>b, <1>1 DEF Invalidate, Call, Goto
<1>c. ASSUME NEW p \in Proc, NEW n \in Names, NEW t \in Holds[n], Put(p, n, t)
      PROVE f \in orphans' \/ (\E q \in Proc : InPut(q)' /\ tmp'[q] = f)
  BY <1>c, <1>1 DEF Put, FreshTemp, Call, Return, Goto
<1>d. ASSUME NEW p \in Proc, Clear(p)
      PROVE f \in orphans' \/ (\E q \in Proc : InPut(q)' /\ tmp'[q] = f)
  BY <1>d, <1>1 DEF Clear, Call, Goto
<1>e. ASSUME NEW p \in Proc, Stat(p) \/ Read(p) \/ Unlink(p) \/ ClearNext(p)
      PROVE f \in orphans' \/ (\E q \in Proc : InPut(q)' /\ tmp'[q] = f)
  BY <1>e, <1>1 DEF Stat, Read, Unlink, ClearNext, Return, Goto, job
<1>h. ASSUME NEW p \in Proc, Write(p)
      PROVE f \in orphans' \/ (\E q \in Proc : InPut(q)' /\ tmp'[q] = f)
  BY <1>h, <1>1 DEF Write, Goto, job
<1>l. ASSUME NEW p \in Proc, NEW a, Abandon(p, a)
      PROVE f \in orphans' \/ (\E q \in Proc : InPut(q)' /\ tmp'[q] = f)
  BY <1>l, <1>1, SentinelsAreDistinct DEF Abandon, Return, Goto
<1>i. ASSUME NEW p \in Proc, Rename(p) \/ Discard(p)
      PROVE f \in orphans' \/ (\E q \in Proc : InPut(q)' /\ tmp'[q] = f)
  <2>1. CASE /\ temp' = [temp EXCEPT ![tmp[p]] = None]
             /\ Return(p, CacheError) /\ UNCHANGED <<file, orphans>>
    BY <1>1, <2>1 DEF Return, Goto
  <2> QED
    BY <1>i, <1>1, <1>l, <2>1 DEF Rename, Discard, Return, Goto, job
<1>o. ASSUME NEW p \in Proc, Kill(p) \/ FailToSerialise(p)
      PROVE f \in orphans' \/ (\E q \in Proc : InPut(q)' /\ tmp'[q] = f)
  BY <1>o, <1>l DEF Kill, FailToSerialise
<1>m. ASSUME (\E n \in Names : Expire(n)) \/ UNCHANGED vars
      PROVE f \in orphans' \/ (\E q \in Proc : InPut(q)' /\ tmp'[q] = f)
  BY <1>m, <1>1 DEF Expire, vars, job
<1> QED
  BY <1>a, <1>b, <1>c, <1>d, <1>e, <1>h, <1>i, <1>m, <1>o DEF Next, Operation

\* cache.py:265-271: whatever the processes sharing the directory do, only a
\* kill, a refused removal or an exception other than OSError leaves a temporary
\* file behind.
THEOREM LitterHasACause == Spec => []NoLitter
<1>1. Init => NoLitter
  BY DEF Init, NoLitter
<1> QED
  BY <1>1, LitterStep, FilesInvHolds, PTL DEF Spec
-----------------------------------------------------------------------------
LEMMA PublishStep ==
    ASSUME CacheFilesInv, [Next]_vars, NEW n \in Names,
           file'[n] # file[n], file'[n] # None
    PROVE  file'[n].state # "corrupt"
<1> USE DEF CacheFilesInv, TypeOK
<1>1. ASSUME NEW p \in Proc, Rename(p)
      PROVE file'[n].state # "corrupt"
  <2>1. file' = [file EXCEPT ![name[p]] = temp[tmp[p]]]
    BY <1>1 DEF Rename
  <2>2. temp[tmp[p]] = Stored(text[p]) /\ name[p] \in Names
    BY <1>1 DEF Rename, TempsArePrivate
  <2>3. file'[n] = Stored(text[p])
    BY <2>1, <2>2
  <2> QED
    BY <2>3 DEF Stored
<1>2. ASSUME NEW m \in Names, Expire(m)
      PROVE file'[n].state # "corrupt"
  BY <1>2 DEF Expire, Entry
<1>3. ASSUME NEW p \in Proc, Unlink(p) \/ ClearNext(p)
      PROVE FALSE
  BY <1>3 DEF Unlink, ClearNext
<1>4. ASSUME NEW p \in Proc, Stat(p) \/ Read(p) \/ Write(p) \/ Discard(p) \/ Clear(p) \/ Kill(p)
                \/ FailToSerialise(p)
      PROVE FALSE
  BY <1>4 DEF Stat, Read, Write, Discard, Clear, Kill, FailToSerialise, Abandon
<1>5. ASSUME NEW p \in Proc, NEW m \in Names, NEW fp, Get(p, m, fp) \/ Invalidate(p, m) \/ Put(p, m, fp)
      PROVE FALSE
  BY <1>5 DEF Get, Invalidate, Put
<1>6. CASE UNCHANGED vars
  BY <1>6 DEF vars
<1> QED
  BY <1>1, <1>2, <1>3, <1>4, <1>5, <1>6 DEF Next, Operation

\* cache.py:247: the file that takes the place of an entry is complete, in
\* every interleaving of puts, whoever is killed.
THEOREM OnlyWholeFilesPublished == Spec => PublishedWhole
<1>1. CacheFilesInv /\ [Next]_vars =>
        [\A n \in Names : file'[n] # file[n] /\ file'[n] # None
                              => file'[n].state # "corrupt"]_vars
  BY PublishStep
<1> QED
  BY <1>1, FilesInvHolds, PTL DEF Spec, PublishedWhole
-----------------------------------------------------------------------------
LEMMA MappedInit == Init => Atomic!Init
<1> SUFFICES ASSUME Init PROVE Atomic!Init
    OBVIOUS
<1>1. Entries \in [Names -> [text : Texts, fp : Texts \cup {None}] \cup {None}]
  BY DEF Init, Entries, Entry
<1>2. Answers = [p \in Proc |-> None]
  BY DEF Init, Answers
<1> QED
  BY <1>1, <1>2 DEF Atomic!Init

\* A step that touches no file and leaves p without an answer is a stutter or
\* the abstract ComeBackEmpty.
LEMMA EmptyStep ==
    ASSUME CacheFilesInv, NEW p \in Proc, file' = file,
           NEW a \in {None, CacheError}, answer' = [answer EXCEPT ![p] = a]
    PROVE  Atomic!ComeBackEmpty(p)
<1>1. Entries' = Entries
  BY DEF Entries
<1>2. Answers' = [Answers EXCEPT ![p] = None]
  BY DEF Answers, CacheFilesInv, TypeOK
<1> QED
  BY <1>1, <1>2 DEF Atomic!ComeBackEmpty

LEMMA MappedStep ==
    CacheFilesInv /\ CacheFilesInv' /\ [Next]_vars
        => [Atomic!Next]_<<Entries, Answers>>
<1> SUFFICES ASSUME CacheFilesInv, [Next]_vars
             PROVE  [Atomic!Next]_<<Entries, Answers>>
    OBVIOUS
<1> USE DEF CacheFilesInv, TypeOK
<1>e. ASSUME NEW p \in Proc, Atomic!ComeBackEmpty(p)
      PROVE  [Atomic!Next]_<<Entries, Answers>>
  BY <1>e DEF Atomic!Next
<1>s. ASSUME file' = file, answer' = answer
      PROVE  [Atomic!Next]_<<Entries, Answers>>
  BY <1>s DEF Entries, Answers
<1>f. ASSUME NEW n \in Names, file' = [file EXCEPT ![n] = None], answer' = answer
      PROVE  [Atomic!Next]_<<Entries, Answers>>
  <2>1. Entries' = [Entries EXCEPT ![n] = None]
    BY <1>f DEF Entries
  <2>2. Atomic!Forget(n)
    BY <2>1, <1>f DEF Atomic!Forget, Answers
  <2> QED
    BY <2>2 DEF Atomic!Next
<1>a. ASSUME NEW p \in Proc, NEW n \in Names, NEW fp \in Texts \cup {None}, Get(p, n, fp)
      PROVE  [Atomic!Next]_<<Entries, Answers>>
  BY <1>a, <1>e, EmptyStep DEF Get, Call, Return
<1>b. ASSUME NEW p \in Proc, NEW n \in Names, Invalidate(p, n)
      PROVE  [Atomic!Next]_<<Entries, Answers>>
  BY <1>b, <1>e, EmptyStep DEF Invalidate, Call
<1>c. ASSUME NEW p \in Proc, NEW n \in Names, NEW t \in Holds[n], Put(p, n, t)
      PROVE  [Atomic!Next]_<<Entries, Answers>>
  BY <1>c, <1>e, EmptyStep DEF Put, Call, Return
<1>d. ASSUME NEW p \in Proc, Clear(p)
      PROVE  [Atomic!Next]_<<Entries, Answers>>
  BY <1>d, <1>e, EmptyStep DEF Clear, Call
<1>g. ASSUME NEW p \in Proc, Stat(p) \/ Write(p)
      PROVE  [Atomic!Next]_<<Entries, Answers>>
  BY <1>g, <1>s DEF Stat, Write
<1>h. ASSUME NEW p \in Proc, Read(p)
      PROVE  [Atomic!Next]_<<Entries, Answers>>
  <2> DEFINE e == file[name[p]]
             found == [name |-> name[p], asked |-> text[p], text |-> e.text]
  <2>1. CASE answer' = answer
    BY <1>h, <2>1, <1>s DEF Read
  <2>2. CASE Loads(e, text[p]) /\ answer' = [answer EXCEPT ![p] = found]
    <3>1. name[p] \in Names /\ e \in Entry /\ found \in Answer
      BY <1>h, <2>2 DEF Read, TempsArePrivate, Loads, Answer, Entry
    <3>2. Entries[name[p]] = [text |-> e.text, fp |-> e.fp]
      BY <3>1, <2>2 DEF Entries, Loads
    <3>3. Entries[name[p]] # None
      BY <3>1, <2>2, <3>2, SentinelsAreDistinct DEF Entries, Loads, Entry
    <3>4. Answers' = [Answers EXCEPT ![p] = found]
      BY <2>2, <3>1, SentinelsAreDistinct DEF Answers
    <3>5. Entries' = Entries
      BY <1>h DEF Read, Entries
    <3>6. Atomic!Hit(p, name[p], text[p])
      BY <2>2, <3>2, <3>3, <3>4, <3>5 DEF Atomic!Hit, Loads
    <3> QED
      BY <3>1, <3>6 DEF Atomic!Next
  <2> QED
    BY <1>h, <2>1, <2>2 DEF Read, Return
<1>i. ASSUME NEW p \in Proc, Unlink(p)
      PROVE  [Atomic!Next]_<<Entries, Answers>>
  <2>1. CASE file' = [file EXCEPT ![name[p]] = None] /\ Return(p, None)
    <3>1. name[p] \in Names /\ answer' = answer
      BY <1>i, <2>1 DEF Unlink, Return, TempsArePrivate
    <3> QED
      BY <2>1, <3>1, <1>f
  <2>2. CASE file' = file /\ Return(p, CacheError)
    BY <2>2, <1>e, EmptyStep DEF Return
  <2> QED
    BY <1>i, <2>1, <2>2 DEF Unlink
<1>j. ASSUME NEW p \in Proc, Rename(p)
      PROVE  [Atomic!Next]_<<Entries, Answers>>
  <2>1. CASE file' = file /\ answer' = answer
    BY <2>1, <1>s
  <2>2. CASE file' = [file EXCEPT ![name[p]] = temp[tmp[p]]] /\ Return(p, None)
    <3> DEFINE n == name[p]
               t == text[p]
    <3>1. n \in Names /\ t \in Holds[n] /\ t \in Texts /\ temp[tmp[p]] = Stored(t)
      BY <1>j, HoldsTexts DEF Rename, TempsArePrivate
    <3>2. answer' = answer
      BY <1>j, <2>2 DEF Rename, Return
    <3>3. file' = [file EXCEPT ![n] = Stored(t)] /\ Stored(t) # None
      BY <2>2, <3>1, StoredIsEntry, EntryIsSome
    <3>4. Entries' = [Entries EXCEPT ![n] = [text |-> t, fp |-> t]]
      BY <3>1, <3>3 DEF Entries, Stored
    <3>5. Atomic!Store(n, t)
      BY <3>1, <3>2, <3>4 DEF Atomic!Store, Answers
    <3> QED
      BY <3>1, <3>5 DEF Atomic!Next
  <2> QED
    BY <1>j, <2>1, <2>2 DEF Rename
<1>k. ASSUME NEW p \in Proc, Discard(p) \/ Kill(p) \/ FailToSerialise(p)
      PROVE  [Atomic!Next]_<<Entries, Answers>>
  BY <1>k, <1>e, EmptyStep DEF Discard, Kill, FailToSerialise, Abandon, Return
<1>l. ASSUME NEW p \in Proc, ClearNext(p)
      PROVE  [Atomic!Next]_<<Entries, Answers>>
  BY <1>l, <1>e, <1>f, EmptyStep DEF ClearNext, Return
<1>m. ASSUME NEW n \in Names, Expire(n)
      PROVE  [Atomic!Next]_<<Entries, Answers>>
  <2>1. Entries' = Entries
    BY <1>m, SentinelsAreDistinct DEF Expire, Entries, Entry
  <2> QED
    BY <1>m, <2>1 DEF Expire, Answers
<1>n. CASE UNCHANGED vars
  BY <1>n, <1>s DEF vars
<1> QED
  BY <1>a, <1>b, <1>c, <1>d, <1>g, <1>h, <1>i, <1>j, <1>k, <1>l, <1>m, <1>n
     DEF Next, Operation

\* The directory with its temporary files, partial writes, races and kills
\* implements the abstract cache (cache.py:216-280).
THEOREM CacheIsAtomic == Spec => ImplementsAtomicCache
BY MappedInit, MappedStep, FilesInvHolds, PTL
   DEF Spec, ImplementsAtomicCache, Atomic!Spec
=============================================================================
