----------------------------- MODULE LintFixes -------------------------------
(***************************************************************************)
(* Source texts and what lint --fix makes of them (lint.py 955-1297).  A   *)
(* text is its name, its import clauses <<[from, symbols], ...>> and a     *)
(* body.  Of the layout, only what of the body shares a line with the      *)
(* IMPORTS or the ";" is kept: a body with that taken out is its "rest".   *)
(***************************************************************************)
EXTENDS LintChecks

CONSTANTS
    Bodies,    \* body -> what the parser finds there, its dialect and its rest
    Markers    \* SMIv2_MARKERS

\* _detect_dialect: by the imports; by the constructs if there are none.
IsV2(text) ==
    \/ \E c \in ToSet(text.clauses) : c.from \in Markers
    \/ text.clauses = <<>> /\ Bodies[text.body].dialect = "v2"

\* The grammar that is detected decides whether the body can be parsed.
Parses(text) ==
    Bodies[text.body].dialect \in {"any", IF IsV2(text) THEN "v2" ELSE "v1"}

\* The elements of s that are in S, in their order.
Only(s, S) ==
    LET upto[k \in 0 .. Len(s)] ==
            IF k = 0 THEN <<>>
            ELSE IF s[k] \in S THEN Append(upto[k - 1], s[k]) ELSE upto[k - 1]
    IN  upto[Len(s)]

\* MibTransformer.imports: the clauses of a provider are merged.
MergedImports(clauses) ==
    LET first == {i \in DOMAIN clauses : \A j \in 1 .. i - 1 : clauses[j].from # clauses[i].from}
        firsts == Only([i \in DOMAIN clauses |-> i], first)
        symbols(from) == UNION {c.symbols : c \in {d \in ToSet(clauses) : d.from = from}}
    IN  [k \in DOMAIN firsts |->
            [from |-> clauses[firsts[k]].from,
             symbols |-> symbols(clauses[firsts[k]].from)]]

Parsed(text) ==
    LET b == Bodies[text.body] IN
    [name |-> text.name, v2 |-> IsV2(text), described |-> b.described,
     imports |-> MergedImports(text.clauses), macro_body |-> b.macro_body,
     objs |-> b.objs, types |-> b.types]
-----------------------------------------------------------------------------
\* _is_fixable
IsFixable(f, mod) ==
    \/ f.check = "unused-import"
    \/ f.check = "missing-import" /\ IsReferenced(mod, f.symbol, {"type"})

\* _resolve_import_provider: the modules that may provide a type; several or
\* none leave the finding as it is.
Providers(closure, mod, s) ==
    {m.name : m \in {n \in closure : n.name # mod.name /\ s \in TypeNames(n)}}

CannotFix(closure, mod, f) ==
    f.check = "missing-import" /\ Cardinality(Providers(closure, mod, f.symbol)) # 1

\* _build_fix_plan, as <<provider, symbol>>: what to remove and what to add.
\* A symbol is removed from the provider that the reverse map has for it.
Removals(mod, editable) ==
    {<<ProviderOf(mod, f.symbol), f.symbol>> :
        f \in {g \in editable : g.check = "unused-import"}}

Additions(closure, mod, editable) ==
    UNION {Providers(closure, mod, f.symbol) \X {f.symbol} :
        f \in {g \in editable : g.check = "missing-import"}}

SymbolsFrom(pairs, from) == {p[2] : p \in {q \in pairs : q[1] = from}}
NonEmpty(clauses) == Only(clauses, {c \in ToSet(clauses) : c.symbols # {}})

\* Mutant: of several clauses of a provider only the first is edited.
EditedOnce(text, removals, additions) ==
    LET IsFirst(i) == \A j \in 1 .. i - 1 : text.clauses[j].from # text.clauses[i].from
        edited == [i \in DOMAIN text.clauses |->
                      IF IsFirst(i)
                      THEN [text.clauses[i] EXCEPT !.symbols =
                               @ \ SymbolsFrom(removals, text.clauses[i].from)]
                      ELSE text.clauses[i]]
        more == {a[1] : a \in additions}
    IN  [text EXCEPT !.clauses =
            NonEmpty(edited)
            \o SetToSeq({[from |-> m, symbols |-> SymbolsFrom(additions, m)] : m \in more})]

\* _block_span: when no clause of a block is left, the block goes, or makes
\* way for a new one, by whole lines.
Remainder(text, left) ==
    IF text.clauses # <<>> /\ left = <<>> THEN Bodies[text.body].rest ELSE text.body

\* _fix_imports_text: the clauses lose and gain symbols, empty ones go, and
\* providers without a clause get one at the end.
Edited(text, removals, additions) ==
    LET edited == [i \in DOMAIN text.clauses |->
                      LET c == text.clauses[i] IN
                      [from |-> c.from, symbols |-> (c.symbols \ SymbolsFrom(removals, c.from))
                                                      \cup SymbolsFrom(additions, c.from)]]
        left == NonEmpty(edited)
        more == SetToSeq({a[1] : a \in additions} \ {c.from : c \in ToSet(left)})
    IN  [text EXCEPT
            !.clauses = left \o [k \in DOMAIN more |->
                            [from |-> more[k], symbols |-> SymbolsFrom(additions, more[k])]],
            !.body = Remainder(text, left)]
=============================================================================
