---------------------------- MODULE CacheEntries ----------------------------
(***************************************************************************)
(* What one file {cache_dir}/compiled/<name>.json holds, and what a whole  *)
(* MibCache.get or MibCache.put does to it when no other process touches   *)
(* the file in between.  MibCacheFiles takes the two operations apart.     *)
(*                                                                         *)
(* A MibModule is represented by the source text it was parsed from, and   *)
(* the sha256 fingerprint of a text by the text itself (digests are taken  *)
(* to be collision free).                                                  *)
(***************************************************************************)
CONSTANTS Texts,    \* the source texts of MIB files
          None      \* absence: no file, no fingerprint, no module

\* fp is None in entries written before fingerprints were recorded.
Entry == [text : Texts, fp : Texts \cup {None},
          state : {"warm", "expired", "corrupt"}]

\* Mutant: the fingerprint of the source is not compared.
ServesUnchecked(e, fp) == e # None /\ e.state = "warm"

\* get() returns the module of entry e: the TTL has not run out, the payload
\* loads, and a supplied fingerprint equals the recorded one.
Serves(e, fp) ==
    /\ e # None
    /\ e.state = "warm"
    /\ fp # None => e.fp = fp

\* get() unlinks an entry it refuses, whatever the reason for refusing it.
AfterGet(e, fp) == IF Serves(e, fp) THEN e ELSE None

\* put() replaces the entry by a fresh one.
Stored(t) == [text |-> t, fp |-> t, state |-> "warm"]

\* An entry records no fingerprint but that of the text it was parsed from.
SoundEntry(e) == e # None => e.fp \in {e.text, None}
=============================================================================
