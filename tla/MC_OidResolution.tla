-------------------------- MODULE MC_OidResolution ---------------------------
(***************************************************************************)
(* Two providers of one or two symbols, and a module with three objects    *)
(* that hang under any of them, under each other and under a root.         *)
(***************************************************************************)
EXTENDS OidResolution

MCSymbols == {"p", "q", "r", "iso"}
MCArcs == {"iso", "a1", "a2", "b1", "b2", "c1", "c2", "c3"}
MCWellKnown == [s \in MCSymbols |-> IF s = "iso" THEN <<"iso">> ELSE None]

Object(name, parent, arc) ==
    [name |-> name, oid_parent |-> parent, oid_path |-> <<arc>>]

\* A defines p and maybe q; B defines p itself, redefines the root, or has a
\* parent that nobody defines.
OfA == { <<Object("p", "iso", "a1")>>,
         <<Object("q", "iso", "a1")>>,
         <<Object("r", "p", "a1"), Object("p", None, "a2")>> }
OfB == { <<>>,
         <<Object("p", None, "b1")>>,
         <<Object("q", "p", "b1"), Object("p", "r", "b2")>>,
         <<Object("iso", None, "b1")>> }

\* C: three objects, two of which may have the same name.
OfC == { <<Object(n, s, "c1"), Object("q", t, "c2"), Object("r", u, "c3")>> :
            n \in {"p", "r", "iso"}, s \in {"p", "q", "r"},
            t \in {"p", "r", "iso"}, u \in {"p", "q", "iso", None} }
         \cup { <<[Object("p", None, "c1") EXCEPT !.oid_path = <<>>]>> }

MCListings == {<<a, b, c>> : a \in OfA, b \in OfB, c \in OfC}

\* Those in which every module defines a symbol once.
MCDistinct ==
    {l \in MCListings : \A m \in 1 .. 3 : \A i, j \in 1 .. Len(l[m]) :
        /\ l[m][i].name = l[m][j].name => i = j
        /\ l[m][i].oid_parent = l[m][j].name => l[m][j].oid_parent # l[m][i].name}

\* B imports p from A; C imports p from a file that declares B, q from A.
NoImports == [s \in MCSymbols |-> None]
MCImportings ==
    {<<NoImports, NoImports, NoImports>>,
     << NoImports, [NoImports EXCEPT !["p"] = 1],
        [NoImports EXCEPT !["p"] = CHOOSE r \in Requested : TRUE, !["q"] = 1] >>}
MCaliases == [r \in Requested |-> 2]
=============================================================================
