------------------------------- MODULE MC_Lint -------------------------------
(***************************************************************************)
(* A uses types of B and C and an object of B; B and C provide one or both *)
(* types; S is a base MIB that marks SMIv2.                                *)
(***************************************************************************)
EXTENDS Lint, FiniteSetsExt

MCNames == {"A", "B", "C"}
MCSymbols == {"p", "q", "iso"}
MCArcs == {0, 1, 2}
MCWellKnown == [s \in MCSymbols |-> IF s = "iso" THEN <<0>> ELSE None]
MCBefore(a, b) ==
    LET alphabet == <<"A", "B", "C", "p", "q">>
        At2(x) == CHOOSE i \in DOMAIN alphabet : alphabet[i] = x
    IN  At2(a) < At2(b)

Type(name, base) ==
    [name |-> name, base |-> base, display_hint |-> base = "T",
     description |-> FALSE, status |-> FALSE]
Obj(name, syntax, parent, arc) ==
    [name |-> name, kind |-> "OBJECT-TYPE", syntax |-> syntax, oid_parent |-> parent,
     oid_path |-> <<arc>>,
     refs |-> IF parent = "iso" THEN <<>> ELSE << <<"T", "index">> >>,
     status |-> TRUE, description |-> FALSE]
Body(dialect, o, t) ==
    [dialect |-> dialect, described |-> FALSE, macro_body |-> {}, objs |-> o, types |-> t]

\* "user" needs T, U and q; "v2" parses as SMIv2 only; "tq" has its type on the
\* line of the ";", "begin" its BEGIN on that of the IMPORTS.
Layouts ==
    [user |-> Body("any", <<Obj("p", "T", "q", 1)>>, <<Type("W", "U")>>),
     v2   |-> Body("v2", <<>>, <<Type("W", "T")>>),
     t    |-> Body("any", <<Obj("q", None, "iso", 1)>>, <<Type("T", "INTEGER")>>),
     tu   |-> Body("any", <<Obj("q", "U", "p", 1), Obj("p", None, "iso", 2)>>,
                   <<Type("T", "U"), Type("U", "INTEGER")>>),
     byu  |-> Body("any", <<>>, <<Type("T", "U")>>),
     u    |-> Body("any", <<Obj("q", "U", "iso", 1)>>, <<Type("U", "INTEGER")>>),
     dead |-> [Body("any", <<>>, <<Type("U", None)>>) EXCEPT !.macro_body = {"x", "y"}],
     tq   |-> Body("any", <<Obj("q", None, "iso", 1)>>, <<Type("T", "INTEGER")>>),
     q    |-> Body("any", <<Obj("q", None, "iso", 1)>>, <<>>),
     begin |-> Body("any", <<>>, <<Type("U", "INTEGER")>>),
     broken |-> Body("none", <<>>, <<>>)]
MCRests == [tq |-> "q", begin |-> "broken"]
MCBodies ==
    [b \in DOMAIN Layouts |->
        [rest |-> IF b \in DOMAIN MCRests THEN MCRests[b] ELSE b] @@ Layouts[b]]

Text(n, body, clauses) == [name |-> n, clauses |-> clauses, body |-> body]
From(m, symbols) == [from |-> m, symbols |-> symbols]

TextsOfA ==
    {Text("A", "user", c) : c \in
        {<<From("B", {"q"}), From("C", {"U"})>>,
         <<From("B", {"q", "T"}), From("C", {"T"})>>,
         <<From("B", {"q"}), From("B", {"q", "x"}), From("C", {"x"})>>,
         <<From("C", {"U", "x"}), From("B", {"q"}), From("B", {"x", "T"})>>,
         <<From("S", {"x"})>>, <<>>}}
    \cup {Text("A", "v2", c) : c \in
        {<<From("S", {"x"}), From("B", {"T"})>>,
         <<From("S", {"x"})>>, <<From("B", {"x"})>>}}
TextsOfB ==
    {Text("B", "t", <<>>), Text("B", "t", <<From("C", {"x"})>>), Text("B", "tu", <<From("C", {"U"})>>),
     Text("B", "byu", <<From("C", {"U"})>>), Text("B", "tq", <<From("C", {"x"})>>)}
TextsOfC == {Text("C", "u", <<>>), Text("C", "begin", <<From("S", {"x"})>>),
            Text("C", "dead", <<From("S", {"x", "z"})>>), Text("C", "tu", <<>>)}

MCFiles == {[A |-> a, B |-> b, C |-> c] :
              a \in TextsOfA, b \in TextsOfB \cup {None}, c \in TextsOfC}
MCEdits == [A |-> {Text("A", "user", <<From("B", {"q", "x"})>>)},
            B |-> {Text("B", "t", <<From("C", {"x"})>>)}, C |-> {}]

\* For B, a reader or the cache has a text that --fix could change.
Other(S) == [n \in MCNames |-> IF n \in S THEN Text(n, "t", <<From("C", {"x"})>>) ELSE None]
Fixing(S) == [fix |-> TRUE, diff |-> FALSE, fail_level |-> "all", readers |-> Other(S)]

MCTwice == {Fixing({})}
MCArgs ==
    {Fixing({}), Fixing({"B"}),
     [Fixing({}) EXCEPT !.diff = TRUE, !.fail_level = "error"],
     [Fixing({}) EXCEPT !.fix = FALSE, !.fail_level = "error"]}
MCCached == Other({"B"})
MCNotCached == Other({})
=============================================================================
