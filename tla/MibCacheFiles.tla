--------------------------- MODULE MibCacheFiles ----------------------------
(***************************************************************************)
(* The file operations of MibCache (resolver/cache.py) when several        *)
(* processes share one cache directory.  Each system call on a file that   *)
(* another process can see is a step of its own; any process can be killed *)
(* between two of its steps; reads and writes can fail with OSError.       *)
(*                                                                         *)
(* An expired entry is one whose modification time is older than the TTL;  *)
(* cache_ttl_days = 0 is the instance without Expire and expired files.    *)
(***************************************************************************)
EXTENDS CacheEntries

CONSTANTS
    Proc,       \* processes that use the directory
    Names,      \* MIB names
    Temps,      \* names mkstemp may invent (bounds the files left behind)
    Holds,      \* Holds[n]: the texts whose module is put under the name n
    CacheError  \* answer of an operation that raised MibCacheError, OSError, or
                \* whatever else its caller gets

\* A hit: the module of text was returned for name, with fingerprint asked.
Answer == [name : Names, asked : Texts \cup {None}, text : Texts]

ASSUME HoldsTexts == Holds \in [Names -> SUBSET Texts]
ASSUME SentinelsAreDistinct ==
    /\ None \notin Entry \cup Texts \cup Names \cup Temps
    /\ CacheError # None
    /\ None \notin Answer \cup [text : Texts, fp : Texts \cup {None}]
    /\ CacheError \notin Answer

VARIABLES
    file,      \* name -> the entry in <name>.json, or None
    temp,      \* temporary file -> what it holds, or None
    pc,        \* process -> where it is: see TypeOK
    name,      \* process -> mib_name of its operation
    text,      \* process -> the fingerprint wanted, or the module to put
    tmp,       \* process -> tmp_name of its put
    listed,    \* process -> what the glob of clear() has still to unlink
    answer,    \* process -> what its last operation returned or raised
    orphans    \* history: temporary files that were left behind: by puts that
               \* were killed, by those that were refused the removal, and by
               \* those that ended with anything but an OSError

job == <<name, text, tmp, listed>>
vars == <<file, temp, pc, job, answer, orphans>>

Getting == {"stat", "read", "unlink"}
Putting == {"write", "rename", "discard"}

TypeOK ==
    /\ file \in [Names -> Entry \cup {None}]
    /\ temp \in [Temps -> Entry \cup {None}]
    /\ pc \in [Proc -> {"idle", "clear"} \cup Getting \cup Putting]
    /\ name \in [Proc -> Names \cup {None}]
    /\ text \in [Proc -> Texts \cup {None}]
    /\ tmp \in [Proc -> Temps \cup {None}]
    /\ listed \in [Proc -> SUBSET Names]
    /\ answer \in [Proc -> Answer \cup {None, CacheError}]
    /\ orphans \subseteq Temps

\* A directory may hold entries of earlier versions, expired and damaged ones.
Init ==
    /\ file \in [Names -> Entry \cup {None}]
    /\ \A n \in Names : SoundEntry(file[n])
    /\ temp = [t \in Temps |-> None]
    /\ pc = [p \in Proc |-> "idle"]
    /\ name = [p \in Proc |-> None]
    /\ text = [p \in Proc |-> None]
    /\ tmp = [p \in Proc |-> None]
    /\ listed = [p \in Proc |-> {}]
    /\ answer = [p \in Proc |-> None]
    /\ orphans = {}

Goto(p, l) == pc' = [pc EXCEPT ![p] = l]

\* The operation of p is over; a is what the caller gets.
Return(p, a) ==
    /\ Goto(p, "idle")
    /\ answer' = [answer EXCEPT ![p] = a]
    /\ name' = [name EXCEPT ![p] = None]
    /\ text' = [text EXCEPT ![p] = None]
    /\ tmp' = [tmp EXCEPT ![p] = None]
    /\ listed' = [listed EXCEPT ![p] = {}]

\* p starts an operation on n; no answer yet.
Call(p, n, t, l) ==
    /\ pc[p] = "idle"
    /\ Goto(p, l)
    /\ name' = [name EXCEPT ![p] = n]
    /\ text' = [text EXCEPT ![p] = t]
    /\ answer' = [answer EXCEPT ![p] = None]
-----------------------------------------------------------------------------
(* get(n, fp): is_file, the TTL check, then read and compare.              *)
Get(p, n, fp) ==
    \/ /\ file[n] # None
       /\ Call(p, n, fp, "stat")
       /\ UNCHANGED <<file, temp, tmp, listed, orphans>>
    \/ /\ pc[p] = "idle"
       /\ file[n] = None
       /\ Return(p, None)
       /\ UNCHANGED <<file, temp, orphans>>

\* A file that is gone by now counts as stale (TOCTOU).
Stat(p) ==
    LET e == file[name[p]] IN
    /\ pc[p] = "stat"
    /\ Goto(p, IF e = None \/ e.state = "expired" THEN "unlink" ELSE "read")
    /\ UNCHANGED <<file, temp, job, answer, orphans>>

\* Mutant: the fingerprint of the source is not compared.
LoadsAny(e, fp) == e # None /\ e.state # "corrupt"

\* The payload loads, and has the fingerprint the caller asks for.
Loads(e, fp) ==
    /\ e # None
    /\ e.state # "corrupt"
    /\ fp # None => e.fp = fp

\* The file that is there now is read in one piece (a rename leaves the open
\* file as it was); reading may fail for any reason.
Read(p) ==
    LET e == file[name[p]] IN
    /\ pc[p] = "read"
    /\ \/ /\ Loads(e, text[p])
          /\ Return(p, [name |-> name[p], asked |-> text[p], text |-> e.text])
       \/ /\ Goto(p, "unlink")
          /\ UNCHANGED <<job, answer>>
    /\ UNCHANGED <<file, temp, orphans>>

\* Whatever has the name by now is unlinked, not only what was refused.  In a
\* directory that refuses it the OSError is the caller's.
Unlink(p) ==
    /\ pc[p] = "unlink"
    /\ \/ /\ file' = [file EXCEPT ![name[p]] = None]
          /\ Return(p, None)
       \/ /\ Return(p, CacheError)
          /\ UNCHANGED file
    /\ UNCHANGED <<temp, orphans>>
-----------------------------------------------------------------------------
(* put(n, module of t): mkstemp, write, replace.  An OSError in any of     *)
(* them makes put remove the temporary file, if the directory lets it; any *)
(* other exception passes by the removal.                                  *)

\* Mutant: a predictable temporary name, shared by all who write the entry.
SiblingTemp == {CHOOSE f \in Temps : TRUE}

\* mkstemp creates a file that did not exist.
FreshTemp == {f \in Temps : temp[f] = None}

Put(p, n, t) ==
    \/ \E f \in FreshTemp :
          /\ Call(p, n, t, "write")
          /\ temp' = [temp EXCEPT ![f] = [Stored(t) EXCEPT !.state = "corrupt"]]
          /\ tmp' = [tmp EXCEPT ![p] = f]
          /\ UNCHANGED <<file, listed, orphans>>
    \/ /\ pc[p] = "idle"
       /\ Return(p, CacheError)
       /\ UNCHANGED <<file, temp, orphans>>

Write(p) ==
    /\ pc[p] = "write"
    /\ \/ /\ temp' = [temp EXCEPT ![tmp[p]] = Stored(text[p])]
          /\ Goto(p, "rename")
       \/ /\ Goto(p, "discard")
          /\ UNCHANGED temp
    /\ UNCHANGED <<file, job, answer, orphans>>

\* The operation is over; the temporary file of a put stays where it is.
Abandon(p, a) ==
    /\ Return(p, a)
    /\ orphans' = orphans \cup ({tmp[p]} \ {None})
    /\ UNCHANGED <<file, temp>>

\* The module cannot be serialised (_module_to_bytes).
FailToSerialise(p) ==
    /\ pc[p] = "write"
    /\ Abandon(p, CacheError)

Rename(p) ==
    /\ pc[p] = "rename"
    /\ \/ /\ temp[tmp[p]] # None
          /\ file' = [file EXCEPT ![name[p]] = temp[tmp[p]]]
          /\ temp' = [temp EXCEPT ![tmp[p]] = None]
          /\ Return(p, None)
       \/ /\ Goto(p, "discard")
          /\ UNCHANGED <<file, temp, job, answer>>
    /\ UNCHANGED orphans

\* Mutant: the temporary file of a put that failed is left where it is.
DiscardNothing(p) ==
    /\ pc[p] = "discard"
    /\ Return(p, CacheError)
    /\ UNCHANGED <<file, temp, orphans>>

Discard(p) ==
    /\ pc[p] = "discard"
    /\ \/ /\ temp' = [temp EXCEPT ![tmp[p]] = None]
          /\ Return(p, CacheError)
          /\ UNCHANGED <<file, orphans>>
       \/ Abandon(p, CacheError)
-----------------------------------------------------------------------------
Invalidate(p, n) ==
    /\ Call(p, n, None, "unlink")
    /\ UNCHANGED <<file, temp, tmp, listed, orphans>>

\* clear() unlinks the *.json files its glob has listed, one after another.
Clear(p) ==
    /\ Call(p, None, None, "clear")
    /\ listed' = [listed EXCEPT ![p] = {n \in Names : file[n] # None}]
    /\ UNCHANGED <<file, temp, tmp, orphans>>

ClearNext(p) ==
    /\ pc[p] = "clear"
    /\ \/ \E n \in listed[p] :
             /\ file' = [file EXCEPT ![n] = None]
             /\ listed' = [listed EXCEPT ![p] = @ \ {n}]
             /\ UNCHANGED <<pc, name, text, tmp, answer>>
       \/ /\ listed[p] = {}
          /\ Return(p, None)
          /\ UNCHANGED file
       \/ /\ listed[p] # {}
          /\ Return(p, CacheError)
          /\ UNCHANGED file
    /\ UNCHANGED <<temp, orphans>>
-----------------------------------------------------------------------------
(* The surroundings: a process is killed, and another takes its place; an  *)
(* entry outlives its TTL.                                                 *)
Kill(p) ==
    /\ pc[p] # "idle"
    /\ Abandon(p, None)

Expire(n) ==
    /\ file[n] # None
    /\ file[n].state = "warm"
    /\ file' = [file EXCEPT ![n].state = "expired"]
    /\ UNCHANGED <<temp, pc, job, answer, orphans>>

Operation(p) ==
    \/ \E n \in Names, fp \in Texts \cup {None} : Get(p, n, fp)
    \/ \E n \in Names : Invalidate(p, n) \/ (\E t \in Holds[n] : Put(p, n, t))
    \/ Clear(p)
    \/ Stat(p) \/ Read(p) \/ Unlink(p)
    \/ Write(p) \/ FailToSerialise(p) \/ Rename(p) \/ Discard(p)
    \/ ClearNext(p)

Next ==
    \/ \E p \in Proc : Operation(p) \/ Kill(p)
    \/ \E n \in Names : Expire(n)

Spec == Init /\ [][Next]_vars
-----------------------------------------------------------------------------
\* cache.py:247-251: whatever the interleaving of puts and kills, what takes
\* the place of an entry is a complete file, never one still being written.
PublishedWhole ==
    [][\A n \in Names : file'[n] # file[n] /\ file'[n] # None
                            => file'[n].state # "corrupt"]_vars

InPut(p) == pc[p] \in Putting

\* A put works on a temporary file no other process has, and when it comes
\* to the rename the file holds all of its module and nothing else.
TempsArePrivate ==
    /\ \A p \in Proc : InPut(p) =>
          /\ tmp[p] \in Temps \ orphans
          /\ temp[tmp[p]] # None
          /\ name[p] \in Names
          /\ text[p] \in Holds[name[p]]
          /\ \A q \in Proc \ {p} : InPut(q) => tmp[q] # tmp[p]
          /\ pc[p] = "rename" => temp[tmp[p]] = Stored(text[p])
    /\ \A p \in Proc : pc[p] \in Getting => name[p] \in Names

\* cache.py:265-271: a temporary file that no put is working on was left behind
\* by a kill, by a refused removal or by an exception other than OSError.  A put
\* that ends well, and one that fails and gets its removal through, leaves none,
\* whatever other puts do in the meantime.
NoLitter ==
    \A f \in Temps : temp[f] # None =>
        f \in orphans \/ (\E p \in Proc : InPut(p) /\ tmp[p] = f)

CacheFilesInv ==
    /\ TypeOK
    /\ TempsArePrivate
    /\ \A f \in orphans : temp[f] # None
    /\ \A p \in Proc : ~InPut(p) => tmp[p] = None
    /\ \A p \in Proc : pc[p] # "idle" => answer[p] = None

\* The directory, read as the abstract cache: an unreadable file is no entry,
\* and the age of an entry does not matter to what it holds.
Entries == [n \in Names |->
    IF file[n] = None \/ file[n].state = "corrupt" THEN None
    ELSE [text |-> file[n].text, fp |-> file[n].fp]]

Answers == [p \in Proc |-> IF answer[p] = CacheError THEN None ELSE answer[p]]

Atomic == INSTANCE AtomicCache WITH entry <- Entries, answer <- Answers

\* Every interleaving of gets, puts, invalidations, clears, failures and
\* kills looks to its callers like a cache whose operations are atomic.
ImplementsAtomicCache == Atomic!Spec
=============================================================================
