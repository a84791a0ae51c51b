----------------------------- MODULE LintChecks ------------------------------
(***************************************************************************)
(* The checks of lint.py as operators on a parsed module or a closure of   *)
(* them.  A module is a record:                                            *)
(*   name, v2, described      its name, dialect, module-level DESCRIPTION  *)
(*   imports                  <<[from, symbols], ...>>, one per provider   *)
(*   macro_body               the tokens of its MACRO bodies               *)
(*   objs                     objects and notifications, in order          *)
(*   types                    its types (of different names), each with    *)
(*                            the symbol, if any, its base type refers to  *)
(***************************************************************************)
EXTENDS Naturals, Sequences, FiniteSets, SequencesExt

CONSTANTS
    BaseTypes,       \* _BASE_TYPES
    WellKnownNames,  \* _WELL_KNOWN_NAMES
    Numbers,         \* numeric parents
    BaseMibs,        \* BASE_MIBS
    Before(_, _),    \* the alphabetical order of names
    None

BuiltIn == BaseTypes \cup WellKnownNames
MemberRoles == {"oid-parent", "index", "augments", "member", "enterprise"}
StatusMacros ==
    {"OBJECT-TYPE", "OBJECT-IDENTITY", "NOTIFICATION-TYPE", "OBJECT-GROUP",
     "NOTIFICATION-GROUP", "MODULE-COMPLIANCE", "AGENT-CAPABILITIES"}
DescriptionMacros == StatusMacros \cup {"TRAP-TYPE"}

Finding(check, severity, mod, symbol, detail) ==
    [check |-> check, severity |-> severity, module |-> mod.name,
     symbol |-> symbol, detail |-> detail]

\* import_reverse_map(): of several providers of a symbol the last one stays.
Importers(mod, s) == {i \in DOMAIN mod.imports : s \in mod.imports[i].symbols}
Imported(mod) == UNION {c.symbols : c \in ToSet(mod.imports)}
ProviderOf(mod, s) ==
    mod.imports[CHOOSE i \in Importers(mod, s) :
                    \A j \in Importers(mod, s) : j <= i].from

TypeNames(mod) == {t.name : t \in ToSet(mod.types)}
Defined(mod) == {o.name : o \in ToSet(mod.objs)} \cup TypeNames(mod)

TypeOf(mod, s) == CHOOSE t \in ToSet(mod.types) : t.name = s
-----------------------------------------------------------------------------
(* _iter_references, as <<symbol, role>>                                   *)
ObjectReferences(o) ==
    SelectSeq(<< <<o.syntax, "type">>, <<o.oid_parent, "oid-parent">> >>
                  \o o.refs \o << <<o.kind, "macro">> >>,
              LAMBDA r : r[1] # None)

TypeReferences(t) == IF t.base = None THEN <<>> ELSE << <<t.base, "type">> >>

References(mod) ==
    FlattenSeq([i \in DOMAIN mod.objs |-> ObjectReferences(mod.objs[i])])
    \o FlattenSeq([i \in DOMAIN mod.types |-> TypeReferences(mod.types[i])])

IsReferenced(mod, s, roles) ==
    \E r \in ToSet(References(mod)) : r[1] = s /\ r[2] \in roles

Structural(refs) == {r \in ToSet(refs) : r[2] # "macro"}

\* The role of the first reference decides about the severity.
MissingSeverity(refs, s) ==
    LET To == {i \in DOMAIN refs : refs[i] \in Structural(refs) /\ refs[i][1] = s}
        first == CHOOSE i \in To : \A j \in To : i <= j
    IN  IF refs[first][2] \in MemberRoles THEN "warning" ELSE "error"

\* (a)
MissingImports(mod) ==
    {Finding("missing-import", MissingSeverity(References(mod), s), mod, s, None) :
        s \in {r[1] : r \in Structural(References(mod))}
                \ (Defined(mod) \cup Imported(mod) \cup BuiltIn \cup Numbers)}

\* (d) TEXTUAL-CONVENTION is used by every module that defines one.
IsTextualConvention(t) == t.description \/ t.display_hint

\* Mutant: types do not use what they are based on.
UsedByObjects(mod) ==
    UNION {{r[1] : r \in ToSet(ObjectReferences(o))} : o \in ToSet(mod.objs)}
    \cup {"TEXTUAL-CONVENTION"}

Used(mod) ==
    {r[1] : r \in ToSet(References(mod))}
    \cup (mod.macro_body \cap Imported(mod))
    \cup (IF \E t \in ToSet(mod.types) : IsTextualConvention(t)
          THEN {"TEXTUAL-CONVENTION"} ELSE {})

UnusedImports(mod) ==
    UNION {{Finding("unused-import", "warning", mod, s, c.from) :
               s \in c.symbols \ Used(mod)} : c \in ToSet(mod.imports)}
-----------------------------------------------------------------------------
(* (b) Types without a base.  The walk along the chain of definitions is   *)
(* at a symbol in the context of a module, or has come to an end.          *)
At(mod, s) == [over |-> FALSE, mod |-> mod, sym |-> s]
BaseType == [over |-> TRUE, sym |-> "base type"]
DeadEnd == [over |-> TRUE, sym |-> "dead end"]

Definition(closure, mod, s) ==
    IF s \in TypeNames(mod) THEN {mod}
    ELSE IF s \in Imported(mod)
    THEN {m \in closure : m.name = ProviderOf(mod, s) /\ s \in TypeNames(m)}
    ELSE {}

IsTrusted(mod, s) ==
    s \notin TypeNames(mod) /\ s \in Imported(mod) /\ ProviderOf(mod, s) \in BaseMibs

\* Mutant: the chain is followed in the module where it started.
SameContext(closure, mod, s) ==
    LET d == Definition(closure, mod, s) IN
    IF IsTrusted(mod, s) THEN BaseType
    ELSE IF d = {} THEN DeadEnd
    ELSE LET base == TypeOf(CHOOSE m \in d : TRUE, s).base
         IN  IF base = None THEN DeadEnd
             ELSE IF base \in BuiltIn THEN BaseType ELSE At(mod, base)

\* The next step of the walk from s in mod.
WalkOn(closure, mod, s) ==
    LET d == Definition(closure, mod, s) IN
    IF IsTrusted(mod, s) THEN BaseType
    ELSE IF d = {} THEN DeadEnd
    ELSE LET m == CHOOSE m \in d : TRUE
             base == TypeOf(m, s).base
         IN  IF base = None THEN DeadEnd
             ELSE IF base \in BuiltIn THEN BaseType ELSE At(m, base)

\* A chain that meets a symbol again is taken for a cycle.
Further(closure, w) ==
    IF w.at.over THEN w
    ELSE IF w.at.sym \in w.visited THEN [w EXCEPT !.at = DeadEnd]
    ELSE [at |-> WalkOn(closure, w.at.mod, w.at.sym),
          visited |-> w.visited \cup {w.at.sym}]

\* _resolve_base_type, with the symbols visited so far.
HasBase(closure, mod, s) ==
    LET length == 2 + Cardinality(UNION {TypeNames(m) : m \in closure})
        walk[k \in 0 .. length] ==
            IF k = 0
            THEN [at |-> At(mod, s), visited |-> {}]
            ELSE Further(closure, walk[k - 1])
    IN  s \in BuiltIn \/ walk[length].at = BaseType

SyntaxSymbols(mod) ==
    {r[1] : r \in {q \in ToSet(References(mod)) : q[2] = "type"}}

UndefinedTypes(closure, mod) ==
    {Finding("undefined-type", "error", mod, s, None) :
        s \in {t \in SyntaxSymbols(mod) :
                 /\ t \notin BuiltIn
                 /\ t \in Defined(mod) \cup Imported(mod)
                 /\ ~HasBase(closure, mod, t)}}
-----------------------------------------------------------------------------
(* (c), (e): what resolve_oids leaves                                      *)
UnresolvableOids(mod) ==
    {Finding("unresolvable-oid", "error", mod, o.name, o.oid_parent) :
        o \in {p \in ToSet(mod.objs) : p.oid_parent \notin Numbers \cup {None}}}

Holders(closure, path) ==
    UNION {{[mod |-> m, name |-> o.name] :
                o \in {p \in ToSet(m.objs) : p.oid_parent = None /\ p.oid_path = path}} :
           m \in closure}

\* sorted(holders): by module, then by name.
Claims(h, g) ==
    \/ Before(h.mod.name, g.mod.name)
    \/ h.mod.name = g.mod.name /\ (h.name = g.name \/ Before(h.name, g.name))

\* Everyone but the first holder of a path has it twice.
DuplicateOids(closure) ==
    UNION {LET all == Holders(closure, path) IN
           {Finding("duplicate-oid-arc", "warning", h.mod, h.name, path) :
                h \in {g \in all : \E f \in all \ {g} : Claims(f, g)}} :
           path \in UNION {{o.oid_path : o \in ToSet(m.objs)} : m \in closure} \ {<<>>}}
-----------------------------------------------------------------------------
(* (f), (g): clauses                                                       *)
MissingStatus(mod) ==
    {Finding("missing-status", "warning", mod, o.name, None) :
        o \in {p \in ToSet(mod.objs) : p.kind \in StatusMacros /\ ~p.status}}
    \cup
    {Finding("missing-status", "warning", mod, t.name, None) :
        t \in {u \in ToSet(mod.types) : IsTextualConvention(u) /\ ~u.status}}

MissingDescription(mod) ==
    {Finding("missing-description", "warning", mod, o.name, None) :
        o \in {p \in ToSet(mod.objs) :
                 p.kind \in DescriptionMacros /\ ~p.description}}
    \cup
    {Finding("missing-description", "warning", mod, t.name, None) :
        t \in {u \in ToSet(mod.types) : u.display_hint /\ ~u.description}}
    \cup
    {Finding("missing-description", "warning", mod, None, None) :
        o \in {p \in ToSet(mod.objs) :
                 /\ mod.v2 /\ ~mod.described
                 /\ p.kind \in {"OBJECT-TYPE", "NOTIFICATION-TYPE"}}}
=============================================================================
