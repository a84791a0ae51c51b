---------------------------- MODULE AtomicCache -----------------------------
(***************************************************************************)
(* What MibCache promises the processes that share a cache directory: a    *)
(* store happens at one instant or not at all; a lookup that succeeds      *)
(* returns what was stored under the name, with the fingerprint asked for; *)
(* and, since a cache is only an optimization, an entry may be forgotten   *)
(* and a lookup may fail at any time.  MibCacheFiles implements it.        *)
(***************************************************************************)
CONSTANTS Proc, Names, Texts, Holds, None

VARIABLES entry,    \* name -> the text and fingerprint stored, or None
          answer    \* process -> what its last operation came back with

Init ==
    /\ entry \in [Names -> [text : Texts, fp : Texts \cup {None}] \cup {None}]
    /\ answer = [p \in Proc |-> None]

\* Only a module that a source has under this name is stored under it.
Store(n, t) ==
    /\ t \in Holds[n]
    /\ entry' = [entry EXCEPT ![n] = [text |-> t, fp |-> t]]
    /\ UNCHANGED answer

Forget(n) ==
    /\ entry' = [entry EXCEPT ![n] = None]
    /\ UNCHANGED answer

\* A fingerprint of None asks for whatever is there (the offline fallback).
Hit(p, n, fp) ==
    /\ entry[n] # None
    /\ fp # None => entry[n].fp = fp
    /\ answer' = [answer EXCEPT ![p] =
                      [name |-> n, asked |-> fp, text |-> entry[n].text]]
    /\ UNCHANGED entry

ComeBackEmpty(p) ==
    /\ answer' = [answer EXCEPT ![p] = None]
    /\ UNCHANGED entry

Next ==
    \/ \E n \in Names : Forget(n) \/ (\E t \in Texts : Store(n, t))
    \/ \E p \in Proc : \/ ComeBackEmpty(p)
                       \/ \E n \in Names, fp \in Texts \cup {None} : Hit(p, n, fp)

Spec == Init /\ [][Next]_<<entry, answer>>
=============================================================================
