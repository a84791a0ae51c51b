---------------------------- MODULE MC_KahnSort ------------------------------
(***************************************************************************)
(* Instances of KahnSort for TLC: every import graph with every alias map  *)
(* on three of four names, and the graphs of four modules that import at   *)
(* most two each.                                                          *)
(***************************************************************************)
EXTENDS KahnSort

ThreeNames == 1..3
FourNames == 1..4

AliasedInputs ==
    UNION {[modules : {M}, imports : [M -> SUBSET ThreeNames],
            aliases : {a \in [FourNames -> ThreeNames \cup {None}] : a[4] = None}] :
               M \in SUBSET ThreeNames}

\* Modules 1..4, none misnamed; a module imports at most two others.
PlainInputs ==
    [modules : {FourNames},
     imports : [FourNames -> {S \in SUBSET FourNames : Cardinality(S) <= 2}],
     aliases : {[n \in FourNames |-> None]}]

AllInputs == AliasedInputs \cup PlainInputs
=============================================================================
