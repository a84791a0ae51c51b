---------------------------- MODULE MC_CacheFiles ----------------------------
(* Two processes, two names, and two temporary names for TLC.               *)
EXTENDS MibCacheFiles, TLC

\* Both texts are kept under name 1 (text 2 is a misnamed file or an edit).
MCHolds == <<{1, 2}, {2}>>
Symmetric == Permutations(Proc) \cup Permutations(Temps)
=============================================================================
