------------------------------ MODULE MC_Compile ------------------------------
(***************************************************************************)
(* Three modules and a misnamed file that declares C: it is fetched as "x" *)
(* or, when the base MIB "S" is asked for, as "S".  All that the resolver  *)
(* may make of them; two runs in one directory.                            *)
(***************************************************************************)
EXTENDS Compile, TLC

MCNames == {"A", "B", "C", "S", "x"}
Orders == UNION {{q \in [1 .. k -> {"A", "B", "C"}] : IsInjective(q)} : k \in 0 .. 3}
NoOne == [n \in MCNames |-> None]

Resolution(asked, misnamed, q, a, b, c, e) ==
    [asked |-> asked, modules |-> q,
     imports |-> [n \in MCNames |-> CASE n = "A" -> a [] n = "B" -> b [] n = "C" -> c
                                      [] OTHER -> {}],
     errors |-> e,
     aliases |-> [n \in MCNames |-> IF n = misnamed /\ "C" \in ToSet(q) /\ e[n] = None
                                    THEN "C" ELSE None],
     cached |-> {"B"} \cap ToSet(q)]

MCErrors == {NoOne, [NoOne EXCEPT !["C"] = "missing"], [NoOne EXCEPT !["x"] = "failed"],
             [NoOne EXCEPT !["B"] = "failed"]}

MCResolutions ==
    {r \in {Resolution({"A"} \cup ({n} \cap {"S"}), n, q, a, b, c, e) :
              n \in {"x", "S"}, q \in Orders, a \in {{"S", "B"}, {"S", "B", "x"}}, b \in {{}, {"C"}},
              c \in {{}}, e \in MCErrors} :
        IsResolution(r)}

Config(formats, manifest, index, dry) ==
    [formats |-> formats, emit_manifest |-> manifest, emit_oid_index |-> index, dry_run |-> dry]
MCConfigs ==
    {Config(<<"json">>, TRUE, TRUE, FALSE), Config(<<"json">>, TRUE, FALSE, FALSE),
     Config(<<"json", "yaml">>, TRUE, TRUE, FALSE), Config(<<"json">>, TRUE, TRUE, TRUE)}

\* Three objects claim OID 1, one has none.
MCOids == [n \in MCNames |->
    CASE n = "A" -> <<1, 2, None>> [] n = "B" -> <<1, 3>> [] n = "C" -> <<1, 3, 4>>
      [] OTHER -> <<>>]
=============================================================================
