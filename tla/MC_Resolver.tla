----------------------------- MODULE MC_Resolver -----------------------------
(***************************************************************************)
(* An instance of MibResolver for TLC: three names, any of which may hold   *)
(* any text, and so be misnamed, beside a base module 4.                    *)
(***************************************************************************)
EXTENDS MibResolver, FiniteSets

MCNames == 1..4
MCTexts == 1..6

\* Text 2 and text 4 both declare name 2; text 5 does not parse.
MCDeclares == <<1, 2, 3, 2, 3, 4>>
MCImports == <<{2, 3}, {4}, {1}, {1}, {}, {}>>
MCBroken == {5}

Warm(t) == Stored(t)
Expired(t) == [Stored(t) EXCEPT !.state = "expired"]
Corrupt(t) == [Stored(t) EXCEPT !.state = "corrupt"]
Unfingerprinted(t) == [Stored(t) EXCEPT !.fp = None]

\* Any two keys may hold an entry; a key may hold the module of a misnamed file.
MCCaches ==
    {c \in [MCNames -> {None, Warm(1), Warm(2), Warm(3), Expired(2),
                        Corrupt(2), Unfingerprinted(2)}] :
        Cardinality({n \in MCNames : c[n] # None}) <= 2 /\ c[4] = None}

\* The base module is found under its own name only.
AnyText == [n \in MCNames |-> IF n = 4 THEN {6} ELSE 1..5]
MCRequestSets == {{1}, {2, 4}, {1, 2}, {1, 2, 3}}
=============================================================================
