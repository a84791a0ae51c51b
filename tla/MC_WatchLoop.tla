---------------------------- MODULE MC_WatchLoop ----------------------------
(* A session asked for TOP, which imports MID, which imports LEAF.          *)
EXTENDS WatchLoop

MCNames == {"TOP", "MID", "LEAF"}
MCTexts == {"top", "mid", "leaf", "broken", "loop"}

\* A broken file is one the scan for imports still finds an import in, and
\* the text "loop" of LEAF closes a cycle.
MCImports == [t \in MCTexts |-> CASE t = "top" -> {"MID"}
                                  [] t = "mid" -> {"LEAF"}
                                  [] t = "leaf" -> {}
                                  [] t = "broken" -> {"LEAF"}
                                  [] t = "loop" -> {"TOP"}]
MCBroken == {"broken"}

MCHolds == [n \in MCNames |-> CASE n = "TOP" -> {"top"}
                                [] n = "MID" -> {"mid", "broken"}
                                [] n = "LEAF" -> {"leaf"}]

\* TOP is there; MID and LEAF may be missing from the start, and LEAF may be
\* the text that closes the cycle.
SomeFiles == {f \in [MCNames -> MCTexts \cup {None}] :
                 /\ f["TOP"] = "top"
                 /\ f["MID"] \in {"mid", None}
                 /\ f["LEAF"] \in {"leaf", "loop", None}}
AllFiles == {f \in SomeFiles : \A n \in MCNames : f[n] \in MCHolds[n]}
OneName == {"TOP"}

\* The cache is empty, or has what an earlier session put there.
MCCaches == {[n \in MCNames |-> None],
             [n \in MCNames |-> IF n = "LEAF" THEN "leaf" ELSE None]}
NoEntries == {[n \in MCNames |-> None]}
MCExpiries == {{}, MCNames}
Never == {{}}
=============================================================================
