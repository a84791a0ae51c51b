----------------------------- MODULE LintProofs ------------------------------
(***************************************************************************)
(* What holds of every use of lint, whatever the texts of the files, the   *)
(* readers and the cache, whoever edits the files in between, and whatever *)
(* fails: which findings are listed as fixed, which texts are written,     *)
(* what the new texts have of the findings about imports, and which types  *)
(* are reported.                                                           *)
(***************************************************************************)
EXTENDS Lint, Integers, FiniteSetTheorems, SequenceTheorems, WellFoundedInduction, TLAPS

-----------------------------------------------------------------------------
(* The inductive invariant.                                                *)

\* A finding about a module of the result that --fix is for.
Fixable(f) == IsFixable(f, Parsed(live[f.module]))

\* A new text of n lacks just the findings of E (if no symbol is imported from
\* two modules, and no definition went with the lines of the IMPORTS).
IsExact(n, text, E) ==
    text.body = live[n].body /\ ImportedOnce(Parsed(live[n])) =>
        ImportFindings(Parsed(text)) = ImportFindings(Parsed(live[n])) \ E

Listing == phase \in {"fix", "parse", "done"}

\* The modules of the result are what the live texts were parsed to.
ModulesInv ==
    /\ \A m \in ToSet(modules) : \E n \in Names :
          live[n] # None /\ IsTextOf(n, live[n]) /\ m = Parsed(live[n])
    /\ fingerprinted \subseteq Loaded

\* The files are well-named, those that lint has written too.
FilesInv ==
    /\ args \in Args
    /\ files = [n \in Names |-> files[n]]
    /\ wrote = [n \in Names |-> wrote[n]]
    /\ \A n \in Names : files[n] # None => IsTextOf(n, files[n])

\* What is still to come belongs to a run with --fix.
TodoInv ==
    /\ phase \in {"idle", "references", "oids", "fix", "parse", "done"}
    /\ todo \subseteq Loaded
    /\ todo # {} => args.fix /\ phase \in {"fix", "parse"}
    /\ calm \in 0 .. 2 /\ edits \in 0 .. MaxEdits /\ overtaken \in BOOLEAN

\* Each finding is about a module of the result.  Before --fix nothing is
\* listed; from then on a finding is listed when its module has had its turn.
ListedInv ==
    /\ \A f \in findings \cup found : f.module \in Loaded
    /\ phase \in {"references", "oids"} => found = {} /\ fixed = {}
    /\ Listing =>
          /\ findings = found \ FixedOnes
          /\ \A e \in fixed : e[1] \in found
          /\ \A f \in FixedOnes \cup LeftOnes : f.module \notin todo /\ Fixable(f)
          /\ FixedOnes \cap LeftOnes = {}
          /\ args.fix => \A f \in found : Fixable(f) =>
                \/ f.module \in todo \/ f \in FixedOnes \cup LeftOnes
                \/ phase = "parse" /\ f \in rewrite.editable

\* The text that is being parsed was made of the live text of its module, for
\* findings that are not listed yet, and that text is still in the file if
\* nobody has edited it.
RewriteInv ==
    phase = "parse" =>
        /\ args.fix
        /\ rewrite.name \in fingerprinted \ todo
        /\ rewrite.editable # {} /\ rewrite.editable \subseteq findings
        /\ \A f \in rewrite.editable : f.module = rewrite.name /\ Fixable(f)
        /\ rewrite.editable \cap LeftOnes = {}
        /\ \A f \in FixedOnes : f.module # rewrite.name
        /\ ~overtaken => files[rewrite.name] = live[rewrite.name]
        /\ IsTextOf(rewrite.name, rewrite.new)
        /\ IsExact(rewrite.name, rewrite.new, rewrite.editable)

ExitInv == phase = "done" => exit = ExitCode

\* The reference checks look at the modules as they were parsed.
IsFresh == \A k \in DOMAIN modules : Current(k) = modules[k]
FreshInv == phase = "references" => IsFresh

\* What can be fixed is a finding about the imports of the live text.
CheckedInv ==
    \A f \in findings \cup found :
        Fixable(f) => f \in ImportFindings(Parsed(live[f.module]))

\* A module that has been written has had its turn, and its findings are fixed.
WroteInv ==
    \A n \in Names : wrote[n] # None =>
        /\ phase \notin {"references", "oids"}
        /\ n \in Loaded \ todo
        /\ phase = "parse" => n # rewrite.name
        /\ IsExact(n, wrote[n], FixedOnes)

LintInv ==
    /\ ModulesInv /\ FilesInv /\ TodoInv /\ ListedInv /\ RewriteInv /\ ExitInv
    /\ FreshInv /\ CheckedInv /\ WroteInv
-----------------------------------------------------------------------------
(* Facts about the operators.                                              *)

\* The module of a text has the name of the text.
LEMMA ParsedName ==
    ASSUME NEW n, NEW t, IsTextOf(n, t)
    PROVE  Parsed(t).name = n
  <1>1. t.name = n
    BY DEF IsTextOf
  <1> QED
    BY <1>1 DEF Parsed

\* A finding is about the module that is checked.
LEMMA FindingModule ==
    ASSUME NEW check, NEW severity, NEW m, NEW symbol, NEW detail
    PROVE  Finding(check, severity, m, symbol, detail).module = m.name
  BY DEF Finding

LEMMA ReferenceFindings ==
    ASSUME NEW closure, NEW m,
           NEW f \in MissingImports(m) \cup UnusedImports(m)
                       \cup UndefinedTypes(closure, m)
                       \cup MissingStatus(m) \cup MissingDescription(m)
    PROVE  f.module = m.name
  <1>1. CASE f \in MissingImports(m)
    <2>1. \E severity, s : f = Finding("missing-import", severity, m, s, None)
      BY <1>1, Zenon DEF MissingImports
    <2> QED
      BY <2>1, FindingModule
  <1>2. CASE f \in UnusedImports(m)
    BY <1>2, FindingModule DEF UnusedImports
  <1>3. CASE f \in UndefinedTypes(closure, m)
    BY <1>3, FindingModule DEF UndefinedTypes
  <1>4. CASE f \in MissingStatus(m)
    BY <1>4, FindingModule DEF MissingStatus
  <1>5. CASE f \in MissingDescription(m)
    BY <1>5, FindingModule DEF MissingDescription
  <1> QED
    BY <1>1, <1>2, <1>3, <1>4, <1>5

\* Of the findings of the reference checks, those about imports can be fixed.
LEMMA FixableFindings ==
    ASSUME NEW closure, NEW m, NEW q,
           NEW f \in MissingImports(m) \cup UnusedImports(m)
                       \cup UndefinedTypes(closure, m)
                       \cup MissingStatus(m) \cup MissingDescription(m),
           IsFixable(f, q)
    PROVE  f \in ImportFindings(m)
  <1>1. f.check \in {"unused-import", "missing-import"}
    BY DEF IsFixable
  <1>2. f \notin UndefinedTypes(closure, m)
    BY <1>1 DEF UndefinedTypes, Finding
  <1>3. f \notin MissingStatus(m)
    BY <1>1 DEF MissingStatus, Finding
  <1>4. f \notin MissingDescription(m)
    BY <1>1 DEF MissingDescription, Finding
  <1> QED
    BY <1>2, <1>3, <1>4 DEF ImportFindings

\* The checks after resolve_oids find nothing that can be fixed.
LEMMA OidFindings ==
    ASSUME NEW closure,
           NEW f \in DuplicateOids(closure) \cup UNION {UnresolvableOids(m) : m \in closure}
    PROVE  /\ \E m \in closure : f.module = m.name
           /\ f.check \in {"duplicate-oid-arc", "unresolvable-oid"}
  <1>1. CASE f \in DuplicateOids(closure)
    <2>1. PICK path : \E h \in Holders(closure, path) :
                f = Finding("duplicate-oid-arc", "warning", h.mod, h.name, path)
      BY <1>1 DEF DuplicateOids
    <2>2. PICK h \in Holders(closure, path) :
                f = Finding("duplicate-oid-arc", "warning", h.mod, h.name, path)
      BY <2>1
    <2>3. h.mod \in closure
      BY DEF Holders
    <2> QED
      BY <2>2, <2>3 DEF Finding
  <1>2. CASE f \in UNION {UnresolvableOids(m) : m \in closure}
    BY <1>2 DEF Finding, UnresolvableOids
  <1> QED
    BY <1>1, <1>2

\* The names of the modules do not depend on what resolve_oids has done.
LEMMA ClosureNames ==
    ASSUME ModulesInv, NEW m \in Closure
    PROVE  m.name \in Loaded
  <1>1. PICK k \in DOMAIN modules : m = Current(k)
    BY DEF Closure
  <1>2. PICK t : modules[k] = Parsed(t)
    BY DEF ModulesInv, ToSet
  <1>3. m.name = modules[k].name
    BY <1>1, <1>2 DEF Current, Parsed
  <1> QED
    BY <1>3 DEF Loaded

\* What the name of a module of the result stands for.
LEMMA ModuleIsParsed ==
    ASSUME ModulesInv, NEW n \in Loaded
    PROVE  /\ n \in Names /\ IsTextOf(n, live[n])
           /\ Module(n) = Parsed(live[n])
  <1>1. PICK m \in ToSet(modules) : m.name = n
    BY DEF Loaded, ToSet
  <1>2. \A q \in ToSet(modules) :
           q.name = n => n \in Names /\ IsTextOf(n, live[n]) /\ q = Parsed(live[n])
    BY ParsedName DEF ModulesInv
  <1>3. Module(n) \in ToSet(modules) /\ Module(n).name = n
    BY <1>1 DEF Module
  <1> QED
    BY <1>2, <1>3

\* So FixableOf speaks of the live texts.
LEMMA FixableOfLive ==
    ASSUME ModulesInv, NEW n \in Loaded
    PROVE  FixableOf(n) = {f \in findings : f.module = n /\ Fixable(f)}
  BY ModuleIsParsed DEF FixableOf, Fixable
-----------------------------------------------------------------------------
(* Loops, and what they compute about sequences.                            *)

\* < is well founded.
LEMMA NatIsWellFounded == IsWellFoundedOn({p \in Nat \X Nat : p[1] < p[2]}, Nat)
  BY NatLessThanWellFounded DEF OpToRel

LEMMA LeastElement ==
    ASSUME NEW S \in SUBSET Nat, S # {}
    PROVE  \E n \in S : \A m \in S : n <= m
  <1> DEFINE R == {p \in Nat \X Nat : p[1] < p[2]}
  <1>1. IsWellFoundedOn(R, Nat)
    BY NatIsWellFounded
  <1> HIDE DEF R
  <1>2. PICK n \in S : \A m \in S : ~(<<m, n>> \in R)
    BY <1>1, WFMin
  <1>3. \A m \in S : ~(m < n)
    BY <1>2 DEF R
  <1> QED
    BY <1>3

\* f has the states of a loop over 1 .. n that starts in v0, state by state.
IsLoop(f, V, n, v0, step) ==
    /\ f \in [0 .. n -> V]
    /\ f[0] = v0
    /\ \A k \in 1 .. n : f[k] = step[k][f[k - 1]]

\* Such a loop computes something.
LEMMA LoopExists ==
    ASSUME NEW V, NEW n \in Nat, NEW v0 \in V, NEW step \in [1 .. n -> [V -> V]]
    PROVE  \E f : IsLoop(f, V, n, v0, step)
  <1> DEFINE Bad == {m \in 0 .. n : ~ \E f : IsLoop(f, V, m, v0, step)}
  <1>1. Bad = {}
    <2> SUFFICES ASSUME Bad # {} PROVE FALSE
      OBVIOUS
    <2>0. Bad \in SUBSET Nat
      OBVIOUS
    <2>1. PICK m \in Bad : \A k \in Bad : m <= k
      <3> HIDE DEF Bad
      <3> QED
        BY <2>0, LeastElement
    <2>2. m \in 0 .. n /\ ~ \E f : IsLoop(f, V, m, v0, step)
      BY <2>1
    <2>3. CASE m = 0
      <3>1. IsLoop([k \in 0 .. 0 |-> v0], V, 0, v0, step)
        BY DEF IsLoop
      <3>2. QED
        BY <2>2, <2>3, <3>1
    <2>4. CASE m # 0
      <3>1. m - 1 \in 0 .. n /\ m - 1 \notin Bad /\ m \in 1 .. n
        <4> HIDE DEF Bad
        <4>1. m \in 1 .. n
          BY <2>2, <2>4
        <4>2. m - 1 \in 0 .. n /\ ~(m <= m - 1)
          BY <4>1
        <4> QED
          BY <2>1, <4>1, <4>2
      <3>2. PICK f : IsLoop(f, V, m - 1, v0, step)
        BY <3>1
      <3>3. /\ f \in [0 .. m - 1 -> V] /\ f[0] = v0
            /\ \A k \in 1 .. m - 1 : f[k] = step[k][f[k - 1]]
        BY <3>2 DEF IsLoop
      <3>4. f[m - 1] \in V /\ step[m][f[m - 1]] \in V
        BY <3>1, <3>3
      <3> DEFINE g == [k \in 0 .. m |-> IF k = m THEN step[m][f[m - 1]] ELSE f[k]]
      <3>5. g \in [0 .. m -> V]
        BY <3>1, <3>3, <3>4
      <3>6. g[0] = v0
        BY <3>1, <3>3
      <3>7. \A k \in 1 .. m : g[k] = step[k][g[k - 1]]
        <4> TAKE k \in 1 .. m
        <4>1. CASE k = m
          <5>1. m \in 0 .. m /\ m - 1 \in 0 .. m /\ m - 1 # m
            BY <3>1
          <5>2. g[m] = step[m][f[m - 1]] /\ g[m - 1] = f[m - 1]
            BY <5>1
          <5> QED
            BY <4>1, <5>2
        <4>2. CASE k # m
          <5>1. k \in 1 .. m - 1 /\ k - 1 \in 0 .. m /\ k \in 0 .. m /\ k - 1 # m
            BY <4>2, <3>1
          <5>2. g[k] = f[k] /\ g[k - 1] = f[k - 1]
            BY <4>2, <5>1
          <5> QED
            BY <3>3, <5>1, <5>2
        <4> QED
          BY <4>1, <4>2
      <3> HIDE DEF g
      <3>8. IsLoop(g, V, m, v0, step)
        BY <3>5, <3>6, <3>7 DEF IsLoop
      <3> QED
        BY <2>2, <3>8
    <2> QED
      BY <2>3, <2>4
  <1>2. n \in 0 .. n /\ n \notin Bad
    <2> HIDE DEF Bad
    <2> QED
      BY <1>1
  <1> QED
    BY <1>2

\* Induction over the positions of a loop.
LEMMA LoopInduction ==
    ASSUME NEW n \in Nat, NEW S, 0 \in S, \A k \in 1 .. n : k - 1 \in S => k \in S
    PROVE  0 .. n \subseteq S
  <1> DEFINE Bad == (0 .. n) \ S
  <1> SUFFICES ASSUME Bad # {} PROVE FALSE
    OBVIOUS
  <1>0. Bad \in SUBSET Nat
    OBVIOUS
  <1>1. PICK m \in Bad : \A k \in Bad : m <= k
    <2> HIDE DEF Bad
    <2> QED
      BY <1>0, LeastElement
  <1>2. m \in 0 .. n /\ m \notin S
    BY <1>1
  <1>3. m # 0
    BY <1>2
  <1>4. m - 1 \in 0 .. n /\ m - 1 \notin Bad /\ m \in 1 .. n
    BY <1>1, <1>2, <1>3
  <1> QED
    BY <1>4
-----------------------------------------------------------------------------
(* Sequences, and the set of what is in them.                              *)

\* What is in a sequence with one more element.
LEMMA ToSetAppend ==
    ASSUME NEW D, NEW s \in Seq(D), NEW x \in D
    PROVE  ToSet(Append(s, x)) = ToSet(s) \cup {x}
  <1>1. DOMAIN Append(s, x) = 1 .. Len(s) + 1 /\ Len(s) \in Nat /\ DOMAIN s = 1 .. Len(s)
    OBVIOUS
  <1>2. \A i \in 1 .. Len(s) : Append(s, x)[i] = s[i]
    OBVIOUS
  <1>3. Append(s, x)[Len(s) + 1] = x
    OBVIOUS
  <1>4. \A i : i \in 1 .. Len(s) + 1 <=> i \in 1 .. Len(s) \/ i = Len(s) + 1
    BY <1>1
  <1> QED
    BY <1>1, <1>2, <1>3, <1>4 DEF ToSet

\* What is in two sequences, one after the other.
LEMMA ToSetConcat ==
    ASSUME NEW D, NEW s \in Seq(D), NEW r \in Seq(D)
    PROVE  s \o r \in Seq(D) /\ ToSet(s \o r) = ToSet(s) \cup ToSet(r)
  <1>1. /\ Len(s) \in Nat /\ Len(r) \in Nat /\ s \o r \in Seq(D)
        /\ DOMAIN s = 1 .. Len(s) /\ DOMAIN r = 1 .. Len(r)
        /\ DOMAIN (s \o r) = 1 .. Len(s) + Len(r)
    OBVIOUS
  <1>2. \A i \in 1 .. Len(s) : (s \o r)[i] = s[i] /\ i \in 1 .. Len(s) + Len(r)
    OBVIOUS
  <1>3. \A i \in 1 .. Len(r) : (s \o r)[Len(s) + i] = r[i] /\ Len(s) + i \in 1 .. Len(s) + Len(r)
    OBVIOUS
  <1>4. \A i \in 1 .. Len(s) + Len(r) : i \in 1 .. Len(s) \/ \E j \in 1 .. Len(r) : i = Len(s) + j
    <2> SUFFICES ASSUME NEW i \in 1 .. Len(s) + Len(r), i \notin 1 .. Len(s)
                 PROVE  \E j \in 1 .. Len(r) : i = Len(s) + j
      OBVIOUS
    <2>1. i - Len(s) \in 1 .. Len(r) /\ i = Len(s) + (i - Len(s))
      BY <1>1
    <2> QED
      BY <2>1
  <1>5. \A x : x \in ToSet(s \o r) <=> \E i \in 1 .. Len(s) + Len(r) : x = (s \o r)[i]
    BY <1>1 DEF ToSet
  <1>6. \A x : x \in ToSet(s) <=> \E i \in 1 .. Len(s) : x = s[i]
    BY <1>1 DEF ToSet
  <1>7. \A x : x \in ToSet(r) <=> \E i \in 1 .. Len(r) : x = r[i]
    BY <1>1 DEF ToSet
  <1>8. ASSUME NEW x \in ToSet(s \o r) PROVE x \in ToSet(s) \cup ToSet(r)
    BY <1>2, <1>3, <1>4, <1>5, <1>6, <1>7
  <1>9. ASSUME NEW x \in ToSet(s) PROVE x \in ToSet(s \o r)
    BY <1>2, <1>5, <1>6
  <1>10. ASSUME NEW x \in ToSet(r) PROVE x \in ToSet(s \o r)
    BY <1>3, <1>5, <1>7
  <1> QED
    BY <1>1, <1>8, <1>9, <1>10

\* A finite set as a sequence.
LEMMA SetToSeqIs ==
    ASSUME NEW S, IsFiniteSet(S)
    PROVE  SetToSeq(S) \in Seq(S) /\ ToSet(SetToSeq(S)) = S
  <1> DEFINE n == Cardinality(S)
             q == SetToSeq(S)
  <1>1. n \in Nat /\ ExistsBijection(1 .. n, S)
    BY FS_CardinalityType
  <1>2. PICK f \in [1 .. n -> S] : IsInjective(f)
    BY <1>1 DEF ExistsBijection, Bijection, Injection, IsInjective
  <1>3. q \in [1 .. n -> S] /\ IsInjective(q)
    BY <1>2 DEF SetToSeq
  <1> HIDE DEF q
  <1>4. q \in Surjection(1 .. n, S)
    <2>1. q \in Injection(1 .. n, S)
      BY <1>3 DEF Injection, IsInjective
    <2>2. Cardinality(1 .. n) = n
      BY <1>1, FS_Interval
    <2> QED
      BY <1>1, <2>1, <2>2, FS_Injection
  <1>5. q \in Seq(S)
    BY <1>1, <1>3
  <1>6. ToSet(q) = S
    BY <1>3, <1>4 DEF ToSet, Surjection
  <1> QED
    BY <1>5, <1>6 DEF q

\* What Only has kept of the first positions of a list.
IsKept(upto, D, s, S) ==
    /\ upto \in [0 .. Len(s) -> Seq(D)]
    /\ Only(s, S) = upto[Len(s)]
    /\ upto[0] = <<>>
    /\ \A k \in 1 .. Len(s) :
          upto[k] = IF s[k] \in S THEN Append(upto[k - 1], s[k]) ELSE upto[k - 1]

\* Only is such a loop.
LEMMA OnlyLoop ==
    ASSUME NEW D, NEW s \in Seq(D), NEW S
    PROVE  \E upto : IsKept(upto, D, s, S)
  <1> DEFINE n == Len(s)
             V == Seq(D)
             Step(k, q) == IF s[k] \in S THEN Append(q, s[k]) ELSE q
             step == [k \in 1 .. n |-> [q \in V |-> Step(k, q)]]
             Loop(f) == f = [k \in 0 .. n |-> IF k = 0 THEN <<>>
                                ELSE IF s[k] \in S THEN Append(f[k - 1], s[k]) ELSE f[k - 1]]
  <1>1. n \in Nat /\ <<>> \in V /\ \A k \in 1 .. n : s[k] \in D
    OBVIOUS
  <1>2. step \in [1 .. n -> [V -> V]]
    BY <1>1
  <1>3. \A k \in 1 .. n : \A q \in V : step[k][q] = Step(k, q)
    OBVIOUS
  <1>4. PICK f : IsLoop(f, V, n, <<>>, step)
    <2> HIDE DEF step, V, n
    <2> QED
      BY <1>1, <1>2, LoopExists
  <1>5. Loop(f)
    <2> DEFINE g == [k \in 0 .. n |-> IF k = 0 THEN <<>>
                        ELSE IF s[k] \in S THEN Append(f[k - 1], s[k]) ELSE f[k - 1]]
    <2>1. \A k \in 0 .. n : f[k] = g[k]
      <3> SUFFICES ASSUME NEW k \in 0 .. n PROVE f[k] = g[k]
        OBVIOUS
      <3>1. CASE k = 0
        BY <3>1, <1>4 DEF IsLoop
      <3>2. CASE k # 0
        <4>1. k \in 1 .. n /\ k - 1 \in 0 .. n
          BY <3>2, <1>1
        <4>2. f[k] = step[k][f[k - 1]] /\ f[k - 1] \in V
          <5> HIDE DEF step, V
          <5> QED
            BY <4>1, <1>4 DEF IsLoop
        <4>3. f[k] = Step(k, f[k - 1])
          <5> HIDE DEF step, Step
          <5> QED
            BY <4>1, <4>2, <1>3
        <4> QED
          BY <3>2, <4>3
      <3> QED
        BY <3>1, <3>2
    <2>2. f = [k \in 0 .. n |-> f[k]]
      BY <1>4 DEF IsLoop
    <2>3. g = [k \in 0 .. n |-> g[k]]
      OBVIOUS
    <2>4. f = g
      <3> HIDE DEF g
      <3> QED
        BY <2>1, <2>2, <2>3
    <2> QED
      BY <2>4
  <1> DEFINE upto == CHOOSE g : Loop(g)
  <1>6. Loop(upto)
    <2> HIDE DEF Loop
    <2> QED
      BY <1>5
  <1>7. Only(s, S) = upto[n]
    BY DEF Only
  <1> HIDE DEF upto
  <1>8. upto[0] = <<>>
    BY <1>1, <1>6
  <1>9. \A k \in 1 .. n : upto[k] = Step(k, upto[k - 1])
    <2> SUFFICES ASSUME NEW k \in 1 .. n PROVE upto[k] = Step(k, upto[k - 1])
      OBVIOUS
    <2>1. k \in 0 .. n /\ k # 0
      BY <1>1
    <2> QED
      BY <1>6, <2>1
  <1>10. upto \in [0 .. n -> V]
    <2> DEFINE T == {k \in 0 .. n : upto[k] \in V}
    <2>1. upto = [k \in 0 .. n |-> upto[k]]
      BY <1>6
    <2>2. 0 \in T
      <3>1. 0 \in 0 .. n /\ upto[0] \in V
        <4> HIDE DEF V
        <4> QED
          BY <1>1, <1>8
      <3> QED
        BY <3>1
    <2>3. \A k \in 1 .. n : k - 1 \in T => k \in T
      <3> SUFFICES ASSUME NEW k \in 1 .. n, k - 1 \in T PROVE k \in T
        OBVIOUS
      <3>1. upto[k - 1] \in V /\ s[k] \in D /\ k \in 0 .. n
        BY <1>1
      <3>2. Append(upto[k - 1], s[k]) \in V
        BY <3>1
      <3>3. upto[k] \in V
        <4> HIDE DEF V
        <4> QED
          BY <1>9, <3>1, <3>2
      <3> QED
        BY <3>1, <3>3
    <2>4. 0 .. n \subseteq T
      <3> HIDE DEF T, n
      <3> QED
        BY <1>1, <2>2, <2>3, LoopInduction
    <2> QED
      BY <2>1, <2>4
  <1> QED
    BY <1>7, <1>8, <1>9, <1>10 DEF IsKept

\* Only keeps what is in S.
LEMMA OnlyIs ==
    ASSUME NEW D, NEW s \in Seq(D), NEW S
    PROVE  Only(s, S) \in Seq(D) /\ ToSet(Only(s, S)) = ToSet(s) \cap S
  <1> DEFINE n == Len(s)
             V == Seq(D)
  <1>1. n \in Nat /\ DOMAIN s = 1 .. n /\ \A k \in 1 .. n : s[k] \in D
    OBVIOUS
  <1>2. PICK upto : IsKept(upto, D, s, S)
    BY OnlyLoop
  <1>3. /\ upto \in [0 .. n -> V]
        /\ Only(s, S) = upto[n]
        /\ upto[0] = <<>>
        /\ \A k \in 1 .. n :
              upto[k] = IF s[k] \in S THEN Append(upto[k - 1], s[k]) ELSE upto[k - 1]
    BY <1>2 DEF IsKept
  <1>4. \A q \in V : \A x \in D : ToSet(Append(q, x)) = ToSet(q) \cup {x}
    BY ToSetAppend
  <1>5. ToSet(<<>>) = {}
    BY DEF ToSet
  <1>6. ToSet(s) = {s[i] : i \in 1 .. n}
    BY <1>1 DEF ToSet
  <1> HIDE DEF n, V
  <1> DEFINE Upto(k) == {s[i] : i \in 1 .. k} \cap S
             T == {k \in 0 .. n : ToSet(upto[k]) = Upto(k)}
  <1>7. 0 \in T
    BY <1>1, <1>3, <1>5
  <1>8. \A k \in 1 .. n : k - 1 \in T => k \in T
    <2> SUFFICES ASSUME NEW k \in 1 .. n, k - 1 \in T PROVE k \in T
      OBVIOUS
    <2>1. k \in 0 .. n /\ k - 1 \in 0 .. n
      BY <1>1
    <2>2. ToSet(upto[k - 1]) = Upto(k - 1)
      OBVIOUS
    <2>3. upto[k - 1] \in V /\ s[k] \in D
      BY <1>1, <1>3, <2>1
    <2>4. \A i : i \in 1 .. k <=> i \in 1 .. k - 1 \/ i = k
      BY <1>1
    <2>5. {s[i] : i \in 1 .. k} = {s[i] : i \in 1 .. k - 1} \cup {s[k]}
      BY <2>4
    <2>6. ToSet(upto[k]) = Upto(k)
      <3>1. CASE s[k] \in S
        <4>1. ToSet(upto[k]) = ToSet(upto[k - 1]) \cup {s[k]}
          BY <1>3, <1>4, <2>3, <3>1
        <4> QED
          BY <2>2, <2>5, <3>1, <4>1
      <3>2. CASE s[k] \notin S
        <4>1. upto[k] = upto[k - 1]
          BY <1>3, <3>2
        <4> QED
          BY <2>2, <2>5, <3>2, <4>1
      <3> QED
        BY <3>1, <3>2
    <2> QED
      BY <2>1, <2>6
  <1>9. 0 .. n \subseteq T
    <2> HIDE DEF T
    <2> QED
      BY <1>1, <1>7, <1>8, LoopInduction
  <1>10. n \in 0 .. n /\ ToSet(upto[n]) = Upto(n)
    BY <1>1, <1>9
  <1>11. Only(s, S) \in V
    BY <1>3, <1>10
  <1> QED
    BY <1>3, <1>6, <1>10, <1>11 DEF V
-----------------------------------------------------------------------------
(* What a text imports, before and after an edit.                          *)

\* What the clauses of a provider list.
SymbolsOf(clauses, p) == UNION {c.symbols : c \in {d \in ToSet(clauses) : d.from = p}}

LEMMA InSymbolsOf ==
    ASSUME NEW clauses, NEW p, NEW s
    PROVE  s \in SymbolsOf(clauses, p) <=>
              \E c \in ToSet(clauses) : c.from = p /\ s \in c.symbols
  BY DEF SymbolsOf

LEMMA InSymbolsFrom ==
    ASSUME NEW pairs, NEW p, NEW s
    PROVE  s \in SymbolsFrom(pairs, p) <=> \E q \in pairs : q[1] = p /\ q[2] = s
  BY DEF SymbolsFrom

\* Merging the clauses leaves one for each provider, with all of its symbols.
LEMMA MergedIs ==
    ASSUME NEW clauses, clauses \in Seq(ToSet(clauses))
    PROVE  /\ IsFiniteSet(DOMAIN MergedImports(clauses))
           /\ DOMAIN MergedImports(clauses) \subseteq Nat
           /\ ToSet(MergedImports(clauses)) =
                 {[from |-> c.from, symbols |-> SymbolsOf(clauses, c.from)] : c \in ToSet(clauses)}
  <1> DEFINE n == Len(clauses)
             I == [i \in DOMAIN clauses |-> i]
             first == {i \in DOMAIN clauses :
                          \A j \in 1 .. i - 1 : clauses[j].from # clauses[i].from}
             firsts == Only(I, first)
             Entry(p) == [from |-> p, symbols |-> SymbolsOf(clauses, p)]
  <1>1. n \in Nat /\ DOMAIN clauses = 1 .. n
    OBVIOUS
  <1>2. I \in Seq(1 .. n) /\ ToSet(I) = 1 .. n
    <2>1. I \in [1 .. n -> 1 .. n]
      BY <1>1
    <2>2. I \in Seq(1 .. n)
      BY <1>1, <2>1
    <2>3. ToSet(I) = 1 .. n
      BY <1>1 DEF ToSet
    <2> QED
      BY <2>2, <2>3
  <1>3. firsts \in Seq(1 .. n) /\ ToSet(firsts) = 1 .. n \cap first
    <2> DEFINE D == 1 .. n
    <2>1. I \in Seq(D) /\ ToSet(I) = D
      BY <1>2
    <2> HIDE DEF I, first, n, D
    <2>2. firsts \in Seq(D) /\ ToSet(firsts) = D \cap first
      BY <2>1, OnlyIs
    <2> QED
      BY <2>2 DEF D
  <1>4. MergedImports(clauses) = [k \in DOMAIN firsts |-> Entry(clauses[firsts[k]].from)]
    BY DEF MergedImports, SymbolsOf
  <1> HIDE DEF firsts
  <1>5. IsFiniteSet(DOMAIN firsts) /\ DOMAIN firsts \subseteq Nat
    <2>1. DOMAIN firsts = 1 .. Len(firsts) /\ Len(firsts) \in Nat
      BY <1>3
    <2> QED
      BY <2>1, FS_Interval
  <1>6. ToSet(MergedImports(clauses)) = {Entry(clauses[i].from) : i \in first}
    <2> HIDE DEF Entry
    <2>1. ToSet(firsts) = {firsts[k] : k \in DOMAIN firsts}
      BY DEF ToSet
    <2>2. first = {firsts[k] : k \in DOMAIN firsts}
      <3>1. first \subseteq 1 .. n
        BY <1>1
      <3> HIDE DEF first, n
      <3> QED
        BY <1>3, <2>1, <3>1
    <2>3. ToSet(MergedImports(clauses)) = {Entry(clauses[firsts[k]].from) : k \in DOMAIN firsts}
      BY <1>4 DEF ToSet
    <2> HIDE DEF first
    <2> QED
      BY <2>2, <2>3
  <1>7. ASSUME NEW c \in ToSet(clauses) PROVE \E i \in first : clauses[i].from = c.from
    <2> DEFINE S == {i \in 1 .. n : clauses[i].from = c.from}
    <2>1. S \in SUBSET Nat /\ S # {}
      BY <1>1 DEF ToSet
    <2>2. PICK i \in S : \A j \in S : i <= j
      <3> HIDE DEF S
      <3> QED
        BY <2>1, LeastElement
    <2>3. \A j \in 1 .. i - 1 : j \in 1 .. n /\ ~(i <= j)
      BY <1>1
    <2>4. i \in first
      BY <1>1, <2>2, <2>3
    <2> QED
      BY <2>4
  <1>8. {Entry(clauses[i].from) : i \in first} = {Entry(c.from) : c \in ToSet(clauses)}
    <2>1. \A i \in first : clauses[i] \in ToSet(clauses)
      BY DEF ToSet
    <2> HIDE DEF first, Entry
    <2> QED
      BY <1>7, <2>1
  <1> QED
    BY <1>4, <1>5, <1>6, <1>8

\* A text with other clauses and another body.
LEMMA WithClauses ==
    ASSUME NEW n, NEW t, IsTextOf(n, t), NEW c, NEW b
    PROVE  [t EXCEPT !.clauses = c, !.body = b] = [name |-> n, clauses |-> c, body |-> b]
  <1>1. t = [name |-> n, clauses |-> t.clauses, body |-> t.body]
    BY DEF IsTextOf
  <1>2. [t EXCEPT !.clauses = c] = [name |-> n, clauses |-> c, body |-> t.body]
    BY <1>1
  <1>3. [[name |-> n, clauses |-> c, body |-> t.body] EXCEPT !.body = b]
           = [name |-> n, clauses |-> c, body |-> b]
    OBVIOUS
  <1> QED
    BY <1>2, <1>3, Zenon

\* The body stays as it is, but for what goes with the lines of the IMPORTS.
LEMMA RemainderIs ==
    ASSUME NEW t, NEW left
    PROVE  Remainder(t, left) \in {t.body, Bodies[t.body].rest}
  BY DEF Remainder

\* The symbols of the new clauses of each provider.
LEMMA EditedIs ==
    ASSUME NEW n, NEW t, IsTextOf(n, t), NEW removals, NEW additions, IsFiniteSet(additions)
    PROVE  LET e == Edited(t, removals, additions) IN
           /\ IsTextOf(n, e)
           /\ \A p : SymbolsOf(e.clauses, p) =
                 (SymbolsOf(t.clauses, p) \ SymbolsFrom(removals, p)) \cup SymbolsFrom(additions, p)
  <1> DEFINE New(c) == [from |-> c.from, symbols |-> (c.symbols \ SymbolsFrom(removals, c.from))
                                                         \cup SymbolsFrom(additions, c.from)]
             D == {New(c) : c \in ToSet(t.clauses)}
             edited == [i \in DOMAIN t.clauses |-> New(t.clauses[i])]
             left == NonEmpty(edited)
             missing == {a[1] : a \in additions} \ {c.from : c \in ToSet(left)}
             more == SetToSeq(missing)
             Extra(p) == [from |-> p, symbols |-> SymbolsFrom(additions, p)]
             extra == [k \in DOMAIN more |-> Extra(more[k])]
             X == {Extra(p) : p \in missing}
             e == Edited(t, removals, additions)
             b == Remainder(t, left)
  <1>1. e = [t EXCEPT !.clauses = left \o extra, !.body = b]
    BY DEF Edited
  <1>2. /\ t = [name |-> n, clauses |-> t.clauses, body |-> t.body]
        /\ t.clauses \in Seq(ToSet(t.clauses)) /\ t.body \in DOMAIN Bodies
    BY DEF IsTextOf
  <1>3. /\ e = [name |-> n, clauses |-> left \o extra, body |-> b]
        /\ e.clauses = left \o extra /\ e.body = b /\ b \in DOMAIN Bodies
    <2>0. b \in DOMAIN Bodies
      <3>1. Bodies[t.body].rest \in DOMAIN Bodies
        BY <1>2, BodiesAssumption, Zenon
      <3>2. b \in {t.body, Bodies[t.body].rest}
        <4> HIDE DEF left
        <4> QED
          BY RemainderIs
      <3> HIDE DEF b
      <3> QED
        BY <1>2, <3>1, <3>2
    <2> HIDE DEF left, extra, e, b
    <2>1. \A c, x : [t EXCEPT !.clauses = c, !.body = x] = [name |-> n, clauses |-> c, body |-> x]
      BY WithClauses, Zenon
    <2>2. e = [name |-> n, clauses |-> left \o extra, body |-> b]
      BY <1>1, <2>1, Zenon
    <2> QED
      BY <2>0, <2>2
  <1> HIDE DEF e, b
  <1>4. edited \in Seq(D) /\ ToSet(edited) = D
    <2>1. DOMAIN t.clauses = 1 .. Len(t.clauses) /\ Len(t.clauses) \in Nat
      BY <1>2
    <2> HIDE DEF New
    <2>2. edited \in [1 .. Len(t.clauses) -> D]
      BY <2>1 DEF ToSet
    <2>3. edited \in Seq(D)
      BY <2>1, <2>2
    <2>4. ToSet(edited) = D
      BY DEF ToSet
    <2> QED
      BY <2>3, <2>4
  <1>5. left \in Seq(D) /\ ToSet(left) = {c \in D : c.symbols # {}}
    <2> HIDE DEF edited, D
    <2> QED
      BY <1>4, OnlyIs DEF NonEmpty
  <1> HIDE DEF left
  <1>6. IsFiniteSet(missing)
    <2>1. IsFiniteSet({a[1] : a \in additions})
      <3> DEFINE F == {a[1] : a \in additions}
                 f == [a \in additions |-> a[1]]
      <3>1. f \in Surjection(additions, F)
        BY DEF Surjection
      <3> QED
        BY <3>1, FS_Surjection
    <2> QED
      BY <2>1, FS_Difference
  <1>7. extra \in Seq(X) /\ ToSet(extra) = X
    <2> HIDE DEF missing
    <2>1. more \in Seq(missing) /\ ToSet(more) = missing
      BY <1>6, SetToSeqIs
    <2> HIDE DEF more, Extra
    <2>2. DOMAIN more = 1 .. Len(more) /\ Len(more) \in Nat
      BY <2>1
    <2>3. extra \in [1 .. Len(more) -> X]
      BY <2>1, <2>2
    <2>4. extra \in Seq(X)
      BY <2>2, <2>3
    <2>5. ToSet(extra) = X
      BY <2>1 DEF ToSet
    <2> QED
      BY <2>4, <2>5
  <1> HIDE DEF extra
  <1>8. e.clauses \in Seq(D \cup X) /\ ToSet(e.clauses) = {c \in D : c.symbols # {}} \cup X
    <2>1. left \in Seq(D \cup X) /\ extra \in Seq(D \cup X)
      <3> HIDE DEF D, X
      <3> QED
        BY <1>5, <1>7
    <2> HIDE DEF D, X
    <2> QED
      BY <1>3, <1>5, <1>7, <2>1, ToSetConcat
  <1>9. IsTextOf(n, e)
    <2>1. \A c \in ToSet(e.clauses) : c = [from |-> c.from, symbols |-> c.symbols]
      BY <1>8
    <2>2. e.clauses \in Seq(ToSet(e.clauses))
      <3>1. \A q : q \in Seq(D \cup X) => q \in Seq(ToSet(q))
        <4> HIDE DEF D, X
        <4> QED
          BY DEF ToSet
      <3> QED
        BY <1>8, <3>1
    <2> QED
      BY <1>2, <1>3, <2>1, <2>2 DEF IsTextOf
  <1>10. ASSUME NEW p
         PROVE  SymbolsOf(e.clauses, p) =
                   (SymbolsOf(t.clauses, p) \ SymbolsFrom(removals, p)) \cup SymbolsFrom(additions, p)
    <2>1. \A d \in D : \E c \in ToSet(t.clauses) : d = New(c)
      OBVIOUS
    <2>2. \A c \in ToSet(t.clauses) :
             /\ New(c) \in D /\ New(c).from = c.from
             /\ New(c).symbols = (c.symbols \ SymbolsFrom(removals, c.from))
                                    \cup SymbolsFrom(additions, c.from)
      OBVIOUS
    <2>3. \A x \in X : \E q \in missing : x.from = q /\ x.symbols = SymbolsFrom(additions, q)
      OBVIOUS
    <2>4. \A q \in missing : Extra(q) \in X /\ Extra(q).from = q
                               /\ Extra(q).symbols = SymbolsFrom(additions, q)
      OBVIOUS
    <2>5. ASSUME NEW s \in SymbolsOf(e.clauses, p)
          PROVE  s \in (SymbolsOf(t.clauses, p) \ SymbolsFrom(removals, p)) \cup SymbolsFrom(additions, p)
      <3>1. PICK d \in ToSet(e.clauses) : d.from = p /\ s \in d.symbols
        BY InSymbolsOf
      <3>2. CASE d \in D
        <4>1. PICK c \in ToSet(t.clauses) : d = New(c)
          BY <2>1, <3>2
        <4>2. c.from = p /\ s \in (c.symbols \ SymbolsFrom(removals, p)) \cup SymbolsFrom(additions, p)
          BY <2>2, <3>1, <4>1
        <4> QED
          BY <4>2, InSymbolsOf
      <3>3. CASE d \in X
        BY <2>3, <3>1, <3>3
      <3> HIDE DEF D, X
      <3> QED
        BY <1>8, <3>2, <3>3
    <2>6. ASSUME NEW s \in SymbolsOf(t.clauses, p), s \notin SymbolsFrom(removals, p)
          PROVE  s \in SymbolsOf(e.clauses, p)
      <3>1. PICK c \in ToSet(t.clauses) : c.from = p /\ s \in c.symbols
        BY InSymbolsOf
      <3> HIDE DEF New, D, X
      <3>2. New(c) \in D /\ New(c).from = p /\ s \in New(c).symbols
        BY <2>2, <2>6, <3>1
      <3>3. New(c) \in ToSet(e.clauses)
        BY <1>8, <3>2
      <3> QED
        BY <3>2, <3>3, InSymbolsOf
    <2>7. ASSUME NEW s \in SymbolsFrom(additions, p) PROVE s \in SymbolsOf(e.clauses, p)
      <3>1. p \in {a[1] : a \in additions}
        BY InSymbolsFrom
      <3>2. CASE p \in missing
        <4> HIDE DEF New, D, X, Extra, missing
        <4>1. Extra(p) \in ToSet(e.clauses) /\ Extra(p).from = p /\ s \in Extra(p).symbols
          BY <1>8, <2>4, <3>2
        <4> QED
          BY <4>1, InSymbolsOf
      <3>3. CASE p \notin missing
        <4>1. PICK d \in ToSet(left) : d.from = p
          BY <3>1, <3>3
        <4>2. d \in D /\ d \in ToSet(e.clauses)
          <5> HIDE DEF D, X
          <5> QED
            BY <1>5, <1>8
        <4>3. PICK c \in ToSet(t.clauses) : d = New(c)
          BY <2>1, <4>2
        <4>4. s \in d.symbols
          <5> HIDE DEF New, D, X
          <5> QED
            BY <2>2, <4>1, <4>3
        <4> QED
          BY <4>1, <4>2, <4>4, InSymbolsOf
      <3> QED
        BY <3>2, <3>3
    <2> QED
      BY <2>5, <2>6, <2>7
  <1> QED
    BY <1>9, <1>10 DEF e
-----------------------------------------------------------------------------
(* The findings about imports, before and after an edit.                   *)

\* What a module uses, whether it imports it or not, and what it has to import.
Needs(m) ==
    {r[1] : r \in ToSet(References(m))} \cup m.macro_body
    \cup (IF \E t \in ToSet(m.types) : IsTextualConvention(t) THEN {"TEXTUAL-CONVENTION"} ELSE {})
Lacks(m) ==
    {r[1] : r \in Structural(References(m))} \ (Defined(m) \cup BuiltIn \cup Numbers)

MissingOf(m, s) == Finding("missing-import", MissingSeverity(References(m), s), m, s, None)
UnusedOf(m, s, p) == Finding("unused-import", "warning", m, s, p)

\* What a text imports.
LEMMA ImportedIs ==
    ASSUME NEW n, NEW t, IsTextOf(n, t), NEW s
    PROVE  s \in Imported(Parsed(t)) <=> \E p : s \in SymbolsOf(t.clauses, p)
  <1> DEFINE merged == MergedImports(t.clauses)
             Entry(c) == [from |-> c.from, symbols |-> SymbolsOf(t.clauses, c.from)]
  <1>1. Parsed(t).imports = merged
    BY DEF Parsed
  <1>2. ToSet(merged) = {Entry(c) : c \in ToSet(t.clauses)}
    BY MergedIs DEF IsTextOf
  <1>3. Imported(Parsed(t)) = UNION {c.symbols : c \in ToSet(merged)}
    BY <1>1 DEF Imported
  <1> HIDE DEF merged
  <1>4. s \in Imported(Parsed(t)) <=> \E c \in ToSet(t.clauses) : s \in SymbolsOf(t.clauses, c.from)
    <2>1. \A c : Entry(c).symbols = SymbolsOf(t.clauses, c.from)
      OBVIOUS
    <2> HIDE DEF Entry
    <2> QED
      BY <1>2, <1>3, <2>1
  <1>5. \A p : s \in SymbolsOf(t.clauses, p) => \E c \in ToSet(t.clauses) : c.from = p
    BY InSymbolsOf
  <1> QED
    BY <1>4, <1>5

\* What it imports and does not use.
LEMMA UnusedIs ==
    ASSUME NEW n, NEW t, IsTextOf(n, t), NEW f
    PROVE  f \in UnusedImports(Parsed(t)) <=>
              \E p : \E s \in SymbolsOf(t.clauses, p) \ Used(Parsed(t)) :
                 f = UnusedOf(Parsed(t), s, p)
  <1> DEFINE m == Parsed(t)
             merged == MergedImports(t.clauses)
             Entry(c) == [from |-> c.from, symbols |-> SymbolsOf(t.clauses, c.from)]
  <1>1. m.imports = merged
    BY DEF Parsed
  <1> HIDE DEF m
  <1>2. ToSet(merged) = {Entry(c) : c \in ToSet(t.clauses)}
    BY MergedIs DEF IsTextOf
  <1>3. f \in UnusedImports(m) <=>
           \E c \in ToSet(merged) : \E s \in c.symbols \ Used(m) : f = UnusedOf(m, s, c.from)
    BY <1>1 DEF UnusedImports, UnusedOf
  <1> HIDE DEF merged
  <1>4. \A c : Entry(c).symbols = SymbolsOf(t.clauses, c.from) /\ Entry(c).from = c.from
    OBVIOUS
  <1> HIDE DEF Entry
  <1>5. f \in UnusedImports(m) <=>
           \E c \in ToSet(t.clauses) : \E s \in SymbolsOf(t.clauses, c.from) \ Used(m) :
              f = UnusedOf(m, s, c.from)
    BY <1>2, <1>3, <1>4
  <1>6. \A p, s : s \in SymbolsOf(t.clauses, p) => \E c \in ToSet(t.clauses) : c.from = p
    BY InSymbolsOf
  <1>7. f \in UnusedImports(m) <=>
           \E p : \E s \in SymbolsOf(t.clauses, p) \ Used(m) : f = UnusedOf(m, s, p)
    BY <1>5, <1>6
  <1> QED
    BY <1>7 DEF m

\* The findings about the imports of a text.
LEMMA ImportFindingsAre ==
    ASSUME NEW n, NEW t, IsTextOf(n, t), NEW f
    PROVE  LET m == Parsed(t) IN
           f \in ImportFindings(m) <=>
              \/ \E s \in Lacks(m) : s \notin Imported(m) /\ f = MissingOf(m, s)
              \/ \E p : \E s \in SymbolsOf(t.clauses, p) \ Needs(m) : f = UnusedOf(m, s, p)
  <1> DEFINE m == Parsed(t)
  <1>1. f \in MissingImports(m) <=> \E s \in Lacks(m) : s \notin Imported(m) /\ f = MissingOf(m, s)
    <2>1. MissingImports(m) = {MissingOf(m, s) : s \in Lacks(m) \ Imported(m)}
      <3>1. {r[1] : r \in Structural(References(m))}
               \ (Defined(m) \cup Imported(m) \cup BuiltIn \cup Numbers) = Lacks(m) \ Imported(m)
        BY DEF Lacks
      <3> QED
        BY <3>1, Zenon DEF MissingImports, MissingOf
    <2> QED
      BY <2>1
  <1>2. \A s : s \in Imported(m) => (s \in Used(m) <=> s \in Needs(m))
    BY DEF Used, Needs
  <1>3. \A p : \A s \in SymbolsOf(t.clauses, p) : s \in Used(m) <=> s \in Needs(m)
    BY <1>2, ImportedIs
  <1>4. f \in UnusedImports(m) <=>
           \E p : \E s \in SymbolsOf(t.clauses, p) \ Used(m) : f = UnusedOf(m, s, p)
    BY UnusedIs
  <1> HIDE DEF m
  <1>5. f \in UnusedImports(m) <=>
           \E p : \E s \in SymbolsOf(t.clauses, p) \ Needs(m) : f = UnusedOf(m, s, p)
    BY <1>3, <1>4
  <1>6. f \in ImportFindings(m) <=>
              \/ \E s \in Lacks(m) : s \notin Imported(m) /\ f = MissingOf(m, s)
              \/ \E p : \E s \in SymbolsOf(t.clauses, p) \ Needs(m) : f = UnusedOf(m, s, p)
    BY <1>1, <1>5 DEF ImportFindings
  <1> QED
    BY <1>6 DEF m

\* A symbol that one module is imported from is removed from its clauses.
LEMMA ProviderIs ==
    ASSUME NEW n, NEW t, IsTextOf(n, t), ImportedOnce(Parsed(t)),
           NEW p, NEW s \in SymbolsOf(t.clauses, p)
    PROVE  ProviderOf(Parsed(t), s) = p
  <1> DEFINE m == Parsed(t)
             merged == MergedImports(t.clauses)
             I == Importers(m, s)
             Entry(c) == [from |-> c.from, symbols |-> SymbolsOf(t.clauses, c.from)]
  <1>1. m.imports = merged
    BY DEF Parsed
  <1>2. /\ ToSet(merged) = {Entry(c) : c \in ToSet(t.clauses)}
        /\ IsFiniteSet(DOMAIN merged) /\ DOMAIN merged \subseteq Nat
    BY MergedIs DEF IsTextOf
  <1>3. s \in Imported(m)
    BY ImportedIs
  <1>4. PICK c \in ToSet(t.clauses) : c.from = p
    BY InSymbolsOf
  <1>5. PICK i \in DOMAIN merged : merged[i] = Entry(c)
    <2> HIDE DEF merged
    <2> QED
      BY <1>2, <1>4 DEF ToSet
  <1>6. merged[i].from = p /\ s \in merged[i].symbols
    <2> HIDE DEF merged
    <2> QED
      BY <1>4, <1>5
  <1> HIDE DEF m, merged
  <1>7. i \in I /\ I \subseteq DOMAIN merged
    BY <1>1, <1>5, <1>6 DEF Importers
  <1>8. Cardinality(I) = 1
    BY <1>3 DEF ImportedOnce, m
  <1> HIDE DEF I
  <1>9. I = {i}
    <2>1. IsFiniteSet(I)
      BY <1>2, <1>7, FS_Subset
    <2>2. \E x : I = {x}
      BY <2>1, <1>8, FS_Singleton
    <2> QED
      BY <2>2, <1>7
  <1>10. i \in Nat
    BY <1>2
  <1>11. (CHOOSE k \in I : \A j \in I : j <= k) = i
    BY <1>9, <1>10
  <1>12. ProviderOf(m, s) = p
    BY <1>1, <1>6, <1>11 DEF ProviderOf, I
  <1> QED
    BY <1>12 DEF m

\* The clauses of a text do not matter for what it references and defines.
LEMMA SameBody ==
    ASSUME NEW t, NEW e, e.body = t.body, e.name = t.name
    PROVE  LET m == Parsed(t)  p == Parsed(e) IN
           /\ Lacks(p) = Lacks(m) /\ Needs(p) = Needs(m)
           /\ \A s : MissingOf(p, s) = MissingOf(m, s)
           /\ \A s, from : UnusedOf(p, s, from) = UnusedOf(m, s, from)
  <1> DEFINE m == Parsed(t)
             p == Parsed(e)
  <1>1. /\ p.objs = m.objs /\ p.types = m.types /\ p.macro_body = m.macro_body
        /\ p.name = m.name
    BY DEF Parsed
  <1> HIDE DEF m, p
  <1>2. References(p) = References(m)
    BY <1>1 DEF References
  <1>3. Defined(p) = Defined(m)
    BY <1>1 DEF Defined, TypeNames
  <1>4. /\ Lacks(p) = Lacks(m) /\ Needs(p) = Needs(m)
        /\ \A s : MissingOf(p, s) = MissingOf(m, s)
        /\ \A s, from : UnusedOf(p, s, from) = UnusedOf(m, s, from)
    BY <1>1, <1>2, <1>3 DEF Lacks, Needs, MissingOf, UnusedOf, Finding
  <1> QED
    BY <1>4 DEF m, p

\* Some findings E about the imports of a text are fixed: the symbols that are
\* missing are added, from whatever modules, and those that are unused are
\* removed.  The new text has the other findings, and no new ones, if the body
\* is the same.
LEMMA FixIsExact ==
    ASSUME NEW n, NEW t, IsTextOf(n, t), ImportedOnce(Parsed(t)),
           NEW E, E \subseteq ImportFindings(Parsed(t)),
           NEW A, IsFiniteSet(A),
           \A a \in A : \E f \in E : f.check = "missing-import" /\ f.symbol = a[2],
           \A f \in E : f.check = "missing-import" => \E a \in A : f.symbol = a[2],
           Edited(t, Removals(Parsed(t), E), A).body = t.body
    PROVE  ImportFindings(Parsed(Edited(t, Removals(Parsed(t), E), A)))
              = ImportFindings(Parsed(t)) \ E
  <1> DEFINE m == Parsed(t)
             R == Removals(m, E)
             e == Edited(t, R, A)
             p == Parsed(e)
  <1>1. /\ IsTextOf(n, e) /\ e.body = t.body
        /\ \A q : SymbolsOf(e.clauses, q) =
              (SymbolsOf(t.clauses, q) \ SymbolsFrom(R, q)) \cup SymbolsFrom(A, q)
    <2>1. e.body = t.body
      OBVIOUS
    <2> HIDE DEF R
    <2> QED
      BY <2>1, EditedIs
  <1>2. t.name = n /\ e.name = n
    BY <1>1 DEF IsTextOf
  <1> HIDE DEF e
  <1>3. /\ Lacks(p) = Lacks(m) /\ Needs(p) = Needs(m)
        /\ \A s : MissingOf(p, s) = MissingOf(m, s)
        /\ \A s, q : UnusedOf(p, s, q) = UnusedOf(m, s, q)
    BY <1>1, <1>2, SameBody
  <1>4. \A s : s \in Imported(m) <=> \E q : s \in SymbolsOf(t.clauses, q)
    BY ImportedIs
  <1>5. \A s : s \in Imported(p) <=> \E q : s \in SymbolsOf(e.clauses, q)
    BY <1>1, ImportedIs
  <1>6. \A f : f \in ImportFindings(m) <=>
              \/ \E s \in Lacks(m) : s \notin Imported(m) /\ f = MissingOf(m, s)
              \/ \E q : \E s \in SymbolsOf(t.clauses, q) \ Needs(m) : f = UnusedOf(m, s, q)
    BY ImportFindingsAre
  <1>7. \A f : f \in ImportFindings(p) <=>
              \/ \E s \in Lacks(m) : s \notin Imported(p) /\ f = MissingOf(m, s)
              \/ \E q : \E s \in SymbolsOf(e.clauses, q) \ Needs(m) : f = UnusedOf(m, s, q)
    <2>1. \A f : f \in ImportFindings(p) <=>
              \/ \E s \in Lacks(p) : s \notin Imported(p) /\ f = MissingOf(p, s)
              \/ \E q : \E s \in SymbolsOf(e.clauses, q) \ Needs(p) : f = UnusedOf(p, s, q)
      BY <1>1, ImportFindingsAre
    <2> HIDE DEF p, m
    <2> QED
      BY <2>1, <1>3
  <1>8. /\ \A s : MissingOf(m, s).check = "missing-import" /\ MissingOf(m, s).symbol = s
        /\ \A s, q : /\ UnusedOf(m, s, q).check = "unused-import"
                     /\ UnusedOf(m, s, q).symbol = s /\ UnusedOf(m, s, q).detail = q
    BY DEF MissingOf, UnusedOf, Finding
  <1>9. \A q : \A s \in SymbolsOf(t.clauses, q) : ProviderOf(m, s) = q
    BY ProviderIs
  <1>10. Lacks(m) \subseteq Needs(m)
    BY DEF Lacks, Needs, Structural
  <1>11. \A r : r \in R <=> \E f \in E : f.check = "unused-import" /\ r = <<ProviderOf(m, f.symbol), f.symbol>>
    BY DEF Removals
  <1> HIDE DEF m, p, R
  \* What is removed are the symbols of the unused findings of E.
  <1>12. \A q, s : s \in SymbolsFrom(R, q) <=>
             /\ UnusedOf(m, s, q) \in E
             /\ s \in SymbolsOf(t.clauses, q) /\ s \notin Needs(m)
    <2>1. ASSUME NEW q, NEW s, s \in SymbolsFrom(R, q)
          PROVE  /\ UnusedOf(m, s, q) \in E
                 /\ s \in SymbolsOf(t.clauses, q) /\ s \notin Needs(m)
      <3>1. PICK f \in E : f.check = "unused-import" /\ ProviderOf(m, f.symbol) = q /\ f.symbol = s
        BY <2>1, <1>11, InSymbolsFrom
      <3>2. f \in ImportFindings(m)
        BY DEF m
      <3>3. PICK r : \E x \in SymbolsOf(t.clauses, r) \ Needs(m) : f = UnusedOf(m, x, r)
        BY <3>1, <3>2, <1>6, <1>8
      <3>4. PICK x \in SymbolsOf(t.clauses, r) \ Needs(m) : f = UnusedOf(m, x, r)
        BY <3>3
      <3>5. x = s
        BY <3>1, <3>4, <1>8
      <3>6. r = q
        BY <3>1, <3>4, <3>5, <1>9
      <3> QED
        BY <3>4, <3>5, <3>6
    <2>2. ASSUME NEW q, NEW s, UnusedOf(m, s, q) \in E, s \in SymbolsOf(t.clauses, q)
          PROVE  s \in SymbolsFrom(R, q)
      <3>1. <<q, s>> \in R
        BY <2>2, <1>8, <1>9, <1>11
      <3> QED
        BY <3>1, InSymbolsFrom
    <2> QED
      BY <2>1, <2>2
  \* What is added are the symbols of the missing findings of E.
  <1>13. \A s : (\E q : s \in SymbolsFrom(A, q)) <=>
             s \in Lacks(m) /\ s \notin Imported(m) /\ MissingOf(m, s) \in E
    <2>1. ASSUME NEW s, NEW q, s \in SymbolsFrom(A, q)
          PROVE  s \in Lacks(m) /\ s \notin Imported(m) /\ MissingOf(m, s) \in E
      <3>1. PICK f \in E : f.check = "missing-import" /\ f.symbol = s
        BY <2>1, InSymbolsFrom
      <3>2. f \in ImportFindings(m)
        BY DEF m
      <3>3. PICK x \in Lacks(m) : x \notin Imported(m) /\ f = MissingOf(m, x)
        BY <3>1, <3>2, <1>6, <1>8
      <3>4. x = s
        BY <3>1, <3>3, <1>8
      <3> QED
        BY <3>3, <3>4
    <2>2. ASSUME NEW s, MissingOf(m, s) \in E
          PROVE  \E q : s \in SymbolsFrom(A, q)
      <3>1. PICK a \in A : a[2] = s
        BY <2>2, <1>8
      <3>2. s \in SymbolsFrom(A, a[1])
        BY <3>1, InSymbolsFrom
      <3> QED
        BY <3>2
    <2> QED
      BY <2>1, <2>2
  \* So a symbol that has to be imported is, if it was or was added.
  <1>14. \A s \in Lacks(m) : s \in Imported(p) <=> s \in Imported(m) \/ MissingOf(m, s) \in E
    <2> SUFFICES ASSUME NEW s \in Lacks(m)
                 PROVE  s \in Imported(p) <=> s \in Imported(m) \/ MissingOf(m, s) \in E
      OBVIOUS
    <2>1. s \in Needs(m)
      BY <1>10
    <2>2. \A q : s \notin SymbolsFrom(R, q)
      BY <2>1, <1>12
    <2>3. \A q : s \in SymbolsOf(e.clauses, q) <=>
              s \in SymbolsOf(t.clauses, q) \/ s \in SymbolsFrom(A, q)
      BY <2>2, <1>1
    <2> QED
      BY <2>3, <1>4, <1>5, <1>13
  \* And of the symbols that are not used, those are left that are not in E.
  <1>15. \A q, s : s \in SymbolsOf(e.clauses, q) \ Needs(m) <=>
              s \in SymbolsOf(t.clauses, q) \ Needs(m) /\ UnusedOf(m, s, q) \notin E
    <2> SUFFICES ASSUME NEW q, NEW s, s \notin Needs(m)
                 PROVE  s \in SymbolsOf(e.clauses, q) <=>
                           s \in SymbolsOf(t.clauses, q) /\ UnusedOf(m, s, q) \notin E
      OBVIOUS
    <2>1. s \notin SymbolsFrom(A, q)
      BY <1>10, <1>13
    <2> QED
      BY <2>1, <1>1, <1>12
  <1>16. ASSUME NEW f
         PROVE  f \in ImportFindings(p) <=> f \in ImportFindings(m) /\ f \notin E
    <2>1. (\E s \in Lacks(m) : s \notin Imported(p) /\ f = MissingOf(m, s))
             <=> (\E s \in Lacks(m) : s \notin Imported(m) /\ f = MissingOf(m, s)) /\ f \notin E
      BY <1>14
    <2>2. (\E q : \E s \in SymbolsOf(e.clauses, q) \ Needs(m) : f = UnusedOf(m, s, q))
             <=> (\E q : \E s \in SymbolsOf(t.clauses, q) \ Needs(m) : f = UnusedOf(m, s, q))
                   /\ f \notin E
      BY <1>15
    <2> QED
      BY <2>1, <2>2, <1>6, <1>7
  <1>17. ImportFindings(p) = ImportFindings(m) \ E
    BY <1>16
  <1> QED
    BY <1>17 DEF m, p, e, R
-----------------------------------------------------------------------------
(* The invariant is inductive.                                             *)

\* A source is a text of its name.
LEMMA SourceIsText ==
    ASSUME LintInv, NEW n \in Names, Source(n) # None
    PROVE  IsTextOf(n, Source(n))
  <1>1. args \in Args /\ \A m \in Names : files[m] # None => IsTextOf(m, files[m])
    BY DEF LintInv, FilesInv
  <1>2. args.readers[n] # None => IsTextOf(n, args.readers[n])
    BY <1>1, TextsAssumption
  <1>3. Cached[n] # None => IsTextOf(n, Cached[n])
    BY TextsAssumption
  <1> QED
    BY <1>1, <1>2, <1>3 DEF Source

LEMMA InitLint == Init => LintInv
  <1> SUFFICES ASSUME Init PROVE LintInv
    OBVIOUS
  <1> USE DEF Init
  <1>1. ToSet(modules) = {} /\ Loaded = {}
    BY DEF ToSet, Loaded
  <1>2. ModulesInv
    BY <1>1 DEF ModulesInv
  <1>3. FilesInv
    BY TextsAssumption DEF FilesInv
  <1>4. TodoInv
    <2>1. overtaken \in BOOLEAN
      BY Zenon
    <2> QED
      BY <2>1, BoundsAssumption DEF TodoInv
  <1>5. ListedInv
    BY DEF ListedInv, Listing
  <1>6. FreshInv /\ CheckedInv /\ WroteInv
    BY DEF FreshInv, CheckedInv, WroteInv
  <1> QED
    BY <1>2, <1>3, <1>4, <1>5, <1>6 DEF LintInv, RewriteInv, ExitInv

\* What is loaded does not change, so neither does what can be fixed.
LEMMA SameResult ==
    ASSUME ModulesInv, UNCHANGED result
    PROVE  /\ ModulesInv' /\ Loaded' = Loaded
           /\ \A f : Fixable(f)' = Fixable(f)
  BY DEF result, ModulesInv, Loaded, Fixable

\* The findings that remain still stem from the live texts.
LEMMA SameChecked ==
    ASSUME ModulesInv, CheckedInv, UNCHANGED result,
           findings' \cup found' \subseteq findings \cup found
    PROVE  CheckedInv'
  BY DEF result, CheckedInv, Fixable

\* And what was written still lacks just the findings that are fixed.
LEMMA SameWrote ==
    ASSUME ModulesInv, WroteInv, UNCHANGED <<result, wrote, FixedOnes>>,
           todo' \subseteq todo,
           phase' = phase \/ phase' \notin {"references", "oids"},
           phase' = "parse" => phase = "parse" /\ rewrite'.name = rewrite.name
    PROVE  WroteInv'
  <1>1. Loaded' = Loaded /\ live' = live /\ wrote' = wrote /\ FixedOnes' = FixedOnes
    BY SameResult DEF result
  <1>2. \A n : IsExact(n, wrote[n], FixedOnes)' = IsExact(n, wrote[n], FixedOnes)
    BY <1>1 DEF IsExact
  <1> QED
    BY <1>1, <1>2 DEF WroteInv

\* With the objects as they were parsed, the modules are as they were parsed.
IsGiven ==
    /\ Len(modules) \in 0 .. Cardinality(Names) /\ DOMAIN modules = 1 .. Len(modules)
    /\ objs = Given
    /\ \A k \in DOMAIN modules : \E n, t : IsTextOf(n, t) /\ modules[k] = Parsed(t)

LEMMA GivenIsFresh == IsGiven => IsFresh
  <1> SUFFICES ASSUME IsGiven, NEW k \in DOMAIN modules PROVE Current(k) = modules[k]
    BY DEF IsFresh
  <1>0. Len(modules) \in 0 .. Cardinality(Names) /\ k \in 1 .. Len(modules) /\ objs = Given
    BY DEF IsGiven
  <1> PICK n, t : IsTextOf(n, t) /\ modules[k] = Parsed(t)
    BY DEF IsGiven
  <1> DEFINE os == Bodies[t.body].objs
             Obj(i) == [os[i] EXCEPT !.oid_parent = objs[k][i].oid_parent,
                                     !.oid_path = objs[k][i].oid_path]
  <1>1. modules[k].objs = os
    BY DEF Parsed
  <1>2. /\ os \in Seq(ToSet(os))
        /\ \A o \in ToSet(os) :
              o = [name |-> o.name, kind |-> o.kind, syntax |-> o.syntax,
                   oid_parent |-> o.oid_parent, oid_path |-> o.oid_path, refs |-> o.refs,
                   status |-> o.status, description |-> o.description]
    BY BodiesAssumption DEF IsTextOf
  <1>3. \A i \in DOMAIN os : objs[k][i].oid_parent = os[i].oid_parent
                              /\ objs[k][i].oid_path = os[i].oid_path
    <2>1. Cardinality(Names) \in Nat
      BY BoundsAssumption, FS_CardinalityType
    <2>2. k \in Places /\ ~(k > Len(modules))
      BY <1>0, <2>1 DEF Places
    <2>3. objs[k] = [i \in DOMAIN os |->
                       [name |-> os[i].name, oid_parent |-> os[i].oid_parent,
                        oid_path |-> os[i].oid_path]]
      BY <1>0, <1>1, <2>2, Zenon DEF Given
    <2> HIDE DEF os
    <2> QED
      BY <2>3
  <1>4. ASSUME NEW i \in DOMAIN os PROVE Obj(i) = os[i]
    <2> DEFINE o == os[i]
    <2>1. o \in ToSet(os)
      BY DEF ToSet
    <2>2. objs[k][i].oid_parent = o.oid_parent /\ objs[k][i].oid_path = o.oid_path
      BY <1>3
    <2> HIDE DEF os
    <2>3. Obj(i) = [o EXCEPT !.oid_parent = o.oid_parent, !.oid_path = o.oid_path]
      BY <2>2
    <2> HIDE DEF o, Obj
    <2>4. o = [name |-> o.name, kind |-> o.kind, syntax |-> o.syntax,
               oid_parent |-> o.oid_parent, oid_path |-> o.oid_path, refs |-> o.refs,
               status |-> o.status, description |-> o.description]
      BY <1>2, <2>1, Zenon
    <2>5. [o EXCEPT !.oid_parent = o.oid_parent, !.oid_path = o.oid_path] = o
      BY <2>4
    <2> QED
      BY <2>3, <2>5 DEF o
  <1>5. [i \in DOMAIN os |-> Obj(i)] = os
    <2>1. os = [i \in DOMAIN os |-> os[i]]
      BY <1>2
    <2> HIDE DEF Obj, os
    <2> QED
      BY <1>4, <2>1, Zenon
  <1>6. Current(k) = [modules[k] EXCEPT !.objs = [i \in DOMAIN os |-> Obj(i)]]
    BY <1>1, Zenon DEF Current
  <1>7. Current(k) = [modules[k] EXCEPT !.objs = os]
    BY <1>5, <1>6, Zenon
  <1> QED
    BY <1>1, <1>7 DEF Parsed

LEMMA ResolveLint == LintInv /\ Resolve => LintInv'
  <1> SUFFICES ASSUME LintInv, Resolve PROVE LintInv'
    OBVIOUS
  <1> DEFINE loaded == {n \in Needed : Loads(n)}
  <1>1. PICK order \in Sorted(loaded) :
           modules' = [k \in DOMAIN order |-> Parsed(Source(order[k]))]
    BY DEF Resolve
  <1>2. order \in [1 .. Cardinality(loaded) -> loaded] /\ ToSet(order) = loaded
    BY <1>1 DEF Sorted
  <1>3. live' = [n \in Names |-> IF n \in loaded THEN Source(n) ELSE None]
    BY DEF Resolve
  <1>4. fingerprinted' \subseteq loaded
    BY DEF Resolve
  <1>5. \A n \in loaded : n \in Names /\ Source(n) # None /\ IsTextOf(n, Source(n))
    BY SourceIsText DEF Loads
  <1> HIDE DEF loaded
  <1>6. \A n \in loaded : live'[n] = Source(n) /\ Parsed(live'[n]).name = n
    BY <1>3, <1>5, ParsedName
  <1>7. DOMAIN modules' = DOMAIN order /\ \A k \in DOMAIN order :
           order[k] \in loaded /\ modules'[k] = Parsed(live'[order[k]])
    BY <1>1, <1>2, <1>6
  <1>8. Loaded' = loaded
    <2>1. Loaded' = {modules'[k].name : k \in DOMAIN modules'}
      BY DEF Loaded
    <2>2. \A k \in DOMAIN order : modules'[k].name = order[k]
      BY <1>6, <1>7
    <2>3. loaded = {order[k] : k \in DOMAIN order}
      BY <1>2 DEF ToSet
    <2> QED
      BY <1>7, <2>1, <2>2, <2>3
  <1>9. ModulesInv'
    <2>1. \A m \in ToSet(modules') : \E n \in loaded : m = Parsed(live'[n])
      BY <1>7 DEF ToSet
    <2> QED
      BY <2>1, <1>4, <1>5, <1>6, <1>8 DEF ModulesInv
  <1>10. FilesInv'
    <2>1. wrote' = [n \in Names |-> None] /\ UNCHANGED <<args, files>>
      BY DEF Resolve
    <2> QED
      BY <2>1 DEF LintInv, FilesInv
  <1>11. TodoInv'
    <2>1. phase = "idle" /\ phase' = "references" /\ UNCHANGED <<todo, args, edits, overtaken>>
          /\ calm' = IF calm = 0 THEN 1 ELSE calm
      BY DEF Resolve
    <2>2. todo = {}
      BY <2>1 DEF LintInv, TodoInv
    <2> QED
      BY <2>1, <2>2 DEF LintInv, TodoInv
  <1>12. ListedInv' /\ RewriteInv' /\ ExitInv'
    <2>1. phase' = "references" /\ findings' = {} /\ fixed' = {} /\ found' = {}
      BY DEF Resolve
    <2> QED
      BY <2>1 DEF ListedInv, Listing, RewriteInv, ExitInv
  <1>13. FreshInv'
    <2>1. Len(modules') \in 0 .. Cardinality(Names) /\ DOMAIN modules' = 1 .. Len(modules')
      <3>1. Cardinality(loaded) \in 0 .. Cardinality(Names)
        BY <1>5, BoundsAssumption, FS_Subset, FS_CardinalityType
      <3>2. modules' = [k \in 1 .. Cardinality(loaded) |-> modules'[k]]
        BY <1>1, <1>2
      <3> QED
        BY <3>1, <3>2
    <2>2. objs' = Given'
      BY DEF Resolve, Oids!Call
    <2>3. \A k \in DOMAIN modules' : \E t : IsTextOf(order[k], t) /\ modules'[k] = Parsed(t)
      BY <1>5, <1>6, <1>7
    <2>4. IsGiven'
      BY <2>1, <2>2, <2>3 DEF IsGiven
    <2>5. IsFresh'
      BY <2>4, GivenIsFresh, PTL
    <2> QED
      BY <2>5 DEF FreshInv
  <1>14. CheckedInv' /\ WroteInv'
    <2>1. findings' = {} /\ found' = {} /\ wrote' = [n \in Names |-> None]
      BY DEF Resolve
    <2> QED
      BY <2>1 DEF CheckedInv, WroteInv
  <1> QED
    BY <1>9, <1>10, <1>11, <1>12, <1>13, <1>14 DEF LintInv

LEMMA ReferenceChecksLint == LintInv /\ ReferenceChecks => LintInv'
  <1> SUFFICES ASSUME LintInv, ReferenceChecks PROVE LintInv'
    OBVIOUS
  <1>1. /\ phase = "references" /\ phase' = "oids"
        /\ UNCHANGED <<args, files, edits, result, fixed, found, todo, wrote, overtaken, calm>>
    BY DEF ReferenceChecks
  <1>2. ModulesInv' /\ Loaded' = Loaded
    BY <1>1, SameResult DEF LintInv
  <1>3. \A f \in findings' : f.module \in Loaded
    <2> SUFFICES ASSUME NEW f \in findings' PROVE f.module \in Loaded
      OBVIOUS
    <2>1. PICK m \in Closure :
             f \in MissingImports(m) \cup UnusedImports(m)
                     \cup UndefinedTypes(Inspected, m)
                     \cup MissingStatus(m) \cup MissingDescription(m)
      BY Zenon DEF ReferenceChecks, Inspected
    <2>2. f.module = m.name
      BY <2>1, ReferenceFindings
    <2> QED
      BY <2>2, ClosureNames DEF LintInv
  <1>4. FilesInv' /\ TodoInv'
    BY <1>1, <1>2 DEF LintInv, FilesInv, TodoInv
  <1>5. ListedInv' /\ RewriteInv' /\ ExitInv'
    BY <1>1, <1>2, <1>3 DEF LintInv, ListedInv, Listing, RewriteInv, ExitInv
  <1>6. FreshInv' /\ WroteInv'
    BY <1>1 DEF LintInv, FreshInv, WroteInv
  <1>7. CheckedInv'
    <2> SUFFICES ASSUME NEW f \in findings', Fixable(f)
                 PROVE  f \in ImportFindings(Parsed(live[f.module]))
      BY <1>1, <1>2 DEF LintInv, ListedInv, CheckedInv, Fixable, result
    <2>1. PICK m \in Closure :
             f \in MissingImports(m) \cup UnusedImports(m)
                     \cup UndefinedTypes(Inspected, m)
                     \cup MissingStatus(m) \cup MissingDescription(m)
      BY Zenon DEF ReferenceChecks, Inspected
    <2>2. m \in ToSet(modules)
      BY <1>1 DEF Closure, LintInv, FreshInv, IsFresh, ToSet
    <2>3. f.module = m.name
      BY <2>1, ReferenceFindings
    <2>4. PICK n \in Names : IsTextOf(n, live[n]) /\ m = Parsed(live[n])
      BY <2>2 DEF LintInv, ModulesInv
    <2>5. m = Parsed(live[f.module])
      BY <2>3, <2>4, ParsedName
    <2>6. f \in ImportFindings(m)
      BY <2>1, FixableFindings DEF Fixable
    <2> QED
      BY <2>5, <2>6
  <1> QED
    BY <1>2, <1>4, <1>5, <1>6, <1>7 DEF LintInv

LEMMA ResolveOidsLint == LintInv /\ ResolveOids => LintInv'
  <1> SUFFICES ASSUME LintInv, ResolveOids PROVE LintInv'
    OBVIOUS
  <1>1. /\ phase = "oids"
        /\ UNCHANGED <<args, exit, files, edits, phase, result, report, todo, rewrite, wrote, overtaken, calm>>
    BY DEF ResolveOids
  <1>2. ModulesInv' /\ Loaded' = Loaded
    BY <1>1, SameResult DEF LintInv
  <1>3. FilesInv' /\ TodoInv'
    BY <1>1, <1>2 DEF LintInv, FilesInv, TodoInv
  <1>4. ListedInv' /\ RewriteInv' /\ ExitInv'
    BY <1>1, <1>2 DEF LintInv, ListedInv, Listing, RewriteInv, ExitInv, report
  <1>5. FreshInv' /\ CheckedInv'
    BY <1>1, SameChecked DEF LintInv, FreshInv, report
  <1>6. WroteInv'
    BY <1>1 DEF LintInv, WroteInv
  <1> QED
    BY <1>2, <1>3, <1>4, <1>5, <1>6 DEF LintInv

LEMMA OidChecksLint == LintInv /\ OidChecks => LintInv'
  <1> SUFFICES ASSUME LintInv, OidChecks PROVE LintInv'
    OBVIOUS
  <1>1. /\ phase = "oids" /\ phase' = "fix" /\ findings' = found'
        /\ UNCHANGED <<args, files, edits, result, fixed, wrote, overtaken, calm>>
    BY DEF OidChecks
  <1>2. ModulesInv' /\ Loaded' = Loaded /\ \A f : Fixable(f)' = Fixable(f)
    BY <1>1, SameResult DEF LintInv
  <1>3. todo' = IF args.fix THEN {n \in Loaded : FixableOf(n) # {}} ELSE {}
    BY DEF OidChecks
  <1>4. fixed' = {}
    BY <1>1 DEF LintInv, ListedInv
  <1>5. \A f \in found' : f.module \in Loaded /\ (Fixable(f) => f \in findings)
    <2> SUFFICES ASSUME NEW f \in found'
                 PROVE  f.module \in Loaded /\ (Fixable(f) => f \in findings)
      OBVIOUS
    <2>1. CASE f \in findings
      BY <2>1 DEF LintInv, ListedInv
    <2>2. CASE f \in DuplicateOids(Closure) \cup UNION {UnresolvableOids(m) : m \in Closure}
      <3>1. PICK m \in Closure : f.module = m.name
        BY <2>2, OidFindings
      <3>2. f.module \in Loaded
        BY <3>1, ClosureNames DEF LintInv
      <3>3. f.check \in {"duplicate-oid-arc", "unresolvable-oid"}
        BY <2>2, OidFindings
      <3> QED
        BY <3>2, <3>3 DEF Fixable, IsFixable
    <2> QED
      BY <2>1, <2>2 DEF OidChecks
  <1>6. \A f \in found' : args.fix /\ Fixable(f) => f.module \in todo'
    <2> SUFFICES ASSUME NEW f \in found', args.fix, Fixable(f)
                 PROVE  f.module \in todo'
      OBVIOUS
    <2>1. f.module \in Loaded /\ f \in findings
      BY <1>5
    <2>2. f \in FixableOf(f.module)
      BY <2>1, FixableOfLive DEF LintInv
    <2> QED
      BY <1>3, <2>1, <2>2
  <1>7. FilesInv'
    BY <1>1 DEF LintInv, FilesInv
  <1>8. TodoInv'
    BY <1>1, <1>2, <1>3 DEF LintInv, TodoInv
  <1>9. FixedOnes' = {} /\ LeftOnes' = {}
    BY <1>4 DEF FixedOnes, LeftOnes
  <1>10. ListedInv'
    BY <1>1, <1>2, <1>4, <1>5, <1>6, <1>9 DEF ListedInv, Listing
  <1>11. CheckedInv'
    BY <1>1, <1>2, <1>5 DEF LintInv, CheckedInv, result
  <1>12. FreshInv' /\ WroteInv'
    BY <1>1 DEF LintInv, FreshInv, WroteInv
  <1> QED
    BY <1>1, <1>2, <1>7, <1>8, <1>10, <1>11, <1>12 DEF LintInv, RewriteInv, ExitInv

\* A finding that can be fixed is in one of the two parts of what is fixable
\* of its module.
LEMMA HopelessOrEditable ==
    ASSUME ModulesInv, NEW n \in Loaded
    PROVE  /\ Hopeless(n) \cup Editable(n) = FixableOf(n)
           /\ Hopeless(n) \cap Editable(n) = {}
  BY DEF Hopeless, Editable

\* What listing some findings as left does to the lists.
LEMMA Listing1 ==
    ASSUME NEW fs, fs \subseteq found, fixed' = Left(fs), found' = found
    PROVE  /\ FixedOnes' = FixedOnes
           /\ LeftOnes' = LeftOnes \cup fs
  BY DEF Left, FixedOnes, LeftOnes

LEMMA LeaveLint == \A n \in Names : LintInv /\ Leave(n) => LintInv'
  <1> SUFFICES ASSUME NEW n \in Names, LintInv, Leave(n) PROVE LintInv'
    OBVIOUS
  <1>1. /\ phase = "fix" /\ n \in todo
        /\ fixed' = Left(FixableOf(n)) /\ todo' = todo \ {n}
        /\ UNCHANGED <<args, files, edits, phase, result, findings, found, rewrite, wrote, overtaken, calm>>
    BY DEF Leave
  <1>2. ModulesInv' /\ Loaded' = Loaded /\ \A f : Fixable(f)' = Fixable(f)
    BY <1>1, SameResult DEF LintInv
  <1>3. n \in Loaded
    BY <1>1 DEF LintInv, TodoInv
  <1>4. FixableOf(n) = {f \in findings : f.module = n /\ Fixable(f)}
    BY <1>3, FixableOfLive DEF LintInv
  <1>5. findings = found \ FixedOnes /\ LeftOnes \subseteq found
    BY <1>1 DEF LintInv, ListedInv, Listing, LeftOnes
  <1>6. FixedOnes' = FixedOnes /\ LeftOnes' = LeftOnes \cup FixableOf(n)
    BY <1>1, <1>4, <1>5, Listing1
  <1>7. FilesInv' /\ TodoInv'
    BY <1>1, <1>2 DEF LintInv, FilesInv, TodoInv
  <1>8. ListedInv'
    <2>1. \A e \in fixed' : e[1] \in found
      BY <1>1, <1>4, <1>5 DEF Left, LintInv, ListedInv, Listing
    <2>2. \A f \in FixedOnes' \cup LeftOnes' : f.module \notin todo' /\ Fixable(f)
      BY <1>1, <1>4, <1>6 DEF LintInv, ListedInv, Listing
    <2>3. FixedOnes' \cap LeftOnes' = {}
      BY <1>1, <1>4, <1>5, <1>6 DEF LintInv, ListedInv, Listing
    <2>4. args.fix => \A f \in found : Fixable(f) =>
             f.module \in todo' \/ f \in FixedOnes' \cup LeftOnes'
      BY <1>1, <1>4, <1>5, <1>6 DEF LintInv, ListedInv, Listing
    <2>5. findings' = found' \ FixedOnes' /\ \A f \in findings' \cup found' : f.module \in Loaded
      BY <1>1, <1>5, <1>6 DEF LintInv, ListedInv
    <2> QED
      BY <1>1, <1>2, <2>1, <2>2, <2>3, <2>4, <2>5 DEF ListedInv, Listing
  <1>9. FreshInv' /\ CheckedInv' /\ WroteInv'
    BY <1>1, <1>6, SameChecked, SameWrote DEF LintInv, FreshInv
  <1> QED
    BY <1>1, <1>2, <1>7, <1>8, <1>9 DEF LintInv, RewriteInv, ExitInv

\* What is added for the findings of n that can be fixed.
LEMMA AdditionsAre ==
    ASSUME ModulesInv, NEW n \in Loaded
    PROVE  LET A == Additions(Closure, Module(n), Editable(n)) IN
           /\ IsFiniteSet(A)
           /\ \A a \in A : \E f \in Editable(n) : f.check = "missing-import" /\ f.symbol = a[2]
           /\ \A f \in Editable(n) : f.check = "missing-import" => \E a \in A : f.symbol = a[2]
  <1> DEFINE m == Module(n)
             A == Additions(Closure, m, Editable(n))
             Missing == {f \in Editable(n) : f.check = "missing-import"}
             P(f) == Providers(Closure, m, f.symbol)
             Symbols1 == {r[1] : r \in ToSet(References(m))}
  <1>1. A = UNION {P(f) \X {f.symbol} : f \in Missing}
    BY DEF Additions
  <1>2. \A f \in Missing : f.symbol \in Symbols1
    BY DEF Editable, FixableOf, IsFixable, IsReferenced
  <1>3. \A f \in Missing : P(f) \subseteq Names /\ P(f) # {}
    <2> SUFFICES ASSUME NEW f \in Missing PROVE P(f) \subseteq Names /\ P(f) # {}
      OBVIOUS
    <2>1. P(f) \subseteq Loaded
      BY ClosureNames DEF Providers
    <2>2. Loaded \subseteq Names
      BY ModuleIsParsed
    <2>3. Cardinality(P(f)) = 1
      BY DEF Editable, Hopeless, CannotFix
    <2>4. Cardinality({}) = 0
      BY FS_EmptySet
    <2> QED
      BY <2>1, <2>2, <2>3, <2>4
  <1>4. IsFiniteSet(Symbols1)
    <2>0. m = Parsed(live[n]) /\ live[n].body \in DOMAIN Bodies
      BY ModuleIsParsed DEF IsTextOf
    <2> DEFINE b == Bodies[live[n].body]
    <2>1. References(m) = References(b)
      <3>1. m.objs = b.objs /\ m.types = b.types
        BY <2>0 DEF Parsed
      <3> HIDE DEF m, b
      <3> QED
        BY <3>1 DEF References
    <2>2. IsFiniteSet(ToSet(References(m)))
      BY <2>0, <2>1, BodiesAssumption
    <2> DEFINE S == ToSet(References(m))
               first == [r \in S |-> r[1]]
    <2>3. first \in Surjection(S, Symbols1)
      BY DEF Surjection
    <2> QED
      BY <2>2, <2>3, FS_Surjection
  <1>5. IsFiniteSet(Names \X Symbols1)
    BY <1>4, BoundsAssumption, FS_Product
  <1> HIDE DEF P, Symbols1
  <1>6. A \subseteq Names \X Symbols1
    BY <1>1, <1>2, <1>3
  <1>7. IsFiniteSet(A)
    BY <1>5, <1>6, FS_Subset
  <1>8. \A a \in A : \E f \in Editable(n) : f.check = "missing-import" /\ f.symbol = a[2]
    BY <1>1
  <1>9. ASSUME NEW f \in Missing PROVE \E a \in A : f.symbol = a[2]
    <2>1. PICK q \in P(f) : TRUE
      BY <1>3
    <2>2. <<q, f.symbol>> \in A
      BY <1>1, <2>1
    <2> QED
      BY <2>2
  <1> QED
    BY <1>7, <1>8, <1>9

\* The new text of a module lacks just the findings it was made for.
LEMMA NewTextIs ==
    ASSUME LintInv, NEW n \in Loaded, files[n] = live[n]
    PROVE  /\ IsTextOf(n, NewText(n))
           /\ IsExact(n, NewText(n), Editable(n))
  <1> DEFINE t == live[n]
             E == Editable(n)
             A == Additions(Closure, Module(n), E)
  <1>1. IsTextOf(n, t) /\ Module(n) = Parsed(t)
    BY ModuleIsParsed DEF LintInv
  <1>2. NewText(n) = Edited(t, Removals(Parsed(t), E), A)
    BY <1>1 DEF NewText
  <1>3. /\ IsFiniteSet(A)
        /\ \A a \in A : \E f \in E : f.check = "missing-import" /\ f.symbol = a[2]
        /\ \A f \in E : f.check = "missing-import" => \E a \in A : f.symbol = a[2]
    BY AdditionsAre DEF LintInv
  <1>4. E \subseteq ImportFindings(Parsed(t))
    <2>1. E \subseteq {f \in findings : f.module = n /\ Fixable(f)}
      BY FixableOfLive DEF LintInv, Editable
    <2> QED
      BY <2>1 DEF LintInv, CheckedInv
  <1> HIDE DEF t, E, A
  <1>5. IsTextOf(n, NewText(n))
    BY <1>1, <1>2, <1>3, EditedIs
  <1>6. NewText(n).body = t.body /\ ImportedOnce(Parsed(t)) =>
           ImportFindings(Parsed(NewText(n))) = ImportFindings(Parsed(t)) \ E
    BY <1>1, <1>2, <1>3, <1>4, FixIsExact
  <1> QED
    BY <1>5, <1>6 DEF t, E, IsExact

LEMMA ProposeLint == \A n \in Names : LintInv /\ Propose(n) => LintInv'
  <1> SUFFICES ASSUME NEW n \in Names, LintInv, Propose(n) PROVE LintInv'
    OBVIOUS
  <1>1. /\ phase = "fix" /\ phase' = "parse" /\ n \in todo
        /\ fixed' = Left(Hopeless(n)) /\ todo' = todo \ {n}
        /\ UNCHANGED <<args, files, edits, result, findings, found, wrote, calm>> /\ overtaken' = FALSE
    BY DEF Propose
  <1>2. /\ IsSource(n) /\ Editable(n) # {}
        /\ rewrite' = [name |-> n, new |-> NewText(n), editable |-> Editable(n)]
    BY DEF Propose
  <1>3. ModulesInv' /\ Loaded' = Loaded /\ \A f : Fixable(f)' = Fixable(f)
    BY <1>1, SameResult DEF LintInv
  <1>4. n \in Loaded
    BY <1>1 DEF LintInv, TodoInv
  <1>5. FixableOf(n) = {f \in findings : f.module = n /\ Fixable(f)}
    BY <1>4, FixableOfLive DEF LintInv
  <1>6. findings = found \ FixedOnes /\ LeftOnes \subseteq found
    BY <1>1 DEF LintInv, ListedInv, Listing, LeftOnes
  <1>7. /\ Hopeless(n) \cup Editable(n) = FixableOf(n)
        /\ Hopeless(n) \cap Editable(n) = {}
    BY <1>4, HopelessOrEditable DEF LintInv
  <1>8. FixedOnes' = FixedOnes /\ LeftOnes' = LeftOnes \cup Hopeless(n)
    BY <1>1, <1>5, <1>6, <1>7, Listing1
  <1>9. rewrite'.name = n /\ rewrite'.new = NewText(n) /\ rewrite'.editable = Editable(n)
    BY <1>2
  <1>10. FilesInv'
    BY <1>1 DEF LintInv, FilesInv
  <1>11. TodoInv'
    BY <1>1, <1>3 DEF LintInv, TodoInv
  <1>12. ListedInv'
    <2>1. \A e \in fixed' : e[1] \in found
      BY <1>1, <1>5, <1>6, <1>7 DEF Left, LintInv, ListedInv, Listing
    <2>2. \A f \in FixedOnes' \cup LeftOnes' : f.module \notin todo' /\ Fixable(f)
      BY <1>1, <1>5, <1>7, <1>8 DEF LintInv, ListedInv, Listing
    <2>3. FixedOnes' \cap LeftOnes' = {}
      BY <1>1, <1>5, <1>6, <1>7, <1>8 DEF LintInv, ListedInv, Listing
    <2>4. args.fix => \A f \in found : Fixable(f) =>
             \/ f.module \in todo' \/ f \in FixedOnes' \cup LeftOnes'
             \/ f \in Editable(n)
      BY <1>1, <1>5, <1>6, <1>7, <1>8 DEF LintInv, ListedInv, Listing
    <2>5. findings' = found' \ FixedOnes' /\ \A f \in findings' \cup found' : f.module \in Loaded
      BY <1>1, <1>6, <1>8 DEF LintInv, ListedInv
    <2> QED
      BY <1>1, <1>3, <1>9, <2>1, <2>2, <2>3, <2>4, <2>5 DEF ListedInv, Listing
  <1>13. RewriteInv'
    <2>1. args.fix /\ n \in fingerprinted /\ files[n] = live[n]
      BY <1>1, <1>2 DEF LintInv, TodoInv, IsSource
    <2>2. /\ IsTextOf(n, NewText(n))
          /\ IsExact(n, NewText(n), Editable(n))
      BY <1>4, <2>1, NewTextIs DEF LintInv
    <2>3. \A f \in Editable(n) :
             f \in findings /\ f.module = n /\ Fixable(f) /\ f \notin LeftOnes'
      <3>1. \A f \in LeftOnes : f.module # n
        BY <1>1 DEF LintInv, ListedInv, Listing
      <3> QED
        BY <1>5, <1>7, <1>8, <3>1
    <2>4. args' = args /\ fingerprinted' = fingerprinted /\ live' = live /\ n \notin todo'
      BY <1>1 DEF result
    <2>5. \A f \in FixedOnes' : f.module # n
      BY <1>1, <1>8 DEF LintInv, ListedInv, Listing
    <2> QED
      BY <1>1, <1>2, <1>3, <1>9, <2>1, <2>2, <2>3, <2>4, <2>5 DEF RewriteInv, IsExact
  <1>14. FreshInv' /\ CheckedInv'
    BY <1>1, SameChecked DEF LintInv, FreshInv
  <1>15. WroteInv'
    <2>1. wrote[n] = None
      BY <1>1 DEF LintInv, WroteInv
    <2>2. live' = live /\ wrote' = wrote
      BY <1>1 DEF result
    <2>3. \A q : IsExact(q, wrote[q], FixedOnes)' <=> IsExact(q, wrote[q], FixedOnes)
      BY <1>8, <2>2 DEF IsExact
    <2> QED
      BY <1>1, <1>3, <1>9, <2>1, <2>2, <2>3 DEF LintInv, WroteInv
  <1> QED
    BY <1>1, <1>3, <1>10, <1>11, <1>12, <1>13, <1>14, <1>15 DEF LintInv, ExitInv

LEMMA RollBackLint == LintInv /\ RollBack => LintInv'
  <1> SUFFICES ASSUME LintInv, RollBack PROVE LintInv'
    OBVIOUS
  <1>1. /\ phase = "parse" /\ phase' = "fix" /\ fixed' = Left(rewrite.editable)
        /\ UNCHANGED <<args, files, edits, result, findings, found, todo, wrote, overtaken, calm>>
    BY DEF RollBack
  <1>2. ModulesInv' /\ Loaded' = Loaded /\ \A f : Fixable(f)' = Fixable(f)
    BY <1>1, SameResult DEF LintInv
  <1>3. /\ rewrite.name \notin todo /\ rewrite.editable \subseteq findings
        /\ \A f \in rewrite.editable : f.module = rewrite.name /\ Fixable(f)
    BY <1>1 DEF LintInv, RewriteInv
  <1>4. findings = found \ FixedOnes
    BY <1>1 DEF LintInv, ListedInv, Listing
  <1>5. FixedOnes' = FixedOnes /\ LeftOnes' = LeftOnes \cup rewrite.editable
    BY <1>1, <1>3, <1>4, Listing1
  <1>6. FilesInv' /\ TodoInv'
    BY <1>1, <1>2 DEF LintInv, FilesInv, TodoInv
  <1>7. ListedInv'
    <2>1. \A e \in fixed' : e[1] \in found
      BY <1>1, <1>3, <1>4 DEF Left, LintInv, ListedInv, Listing
    <2>2. \A f \in FixedOnes' \cup LeftOnes' : f.module \notin todo' /\ Fixable(f)
      BY <1>1, <1>3, <1>5 DEF LintInv, ListedInv, Listing
    <2>3. FixedOnes' \cap LeftOnes' = {}
      BY <1>1, <1>3, <1>4, <1>5 DEF LintInv, ListedInv, Listing
    <2>4. args.fix => \A f \in found : Fixable(f) =>
             f.module \in todo' \/ f \in FixedOnes' \cup LeftOnes'
      BY <1>1, <1>5 DEF LintInv, ListedInv, Listing
    <2>5. findings' = found' \ FixedOnes' /\ \A f \in findings' \cup found' : f.module \in Loaded
      BY <1>1, <1>4, <1>5 DEF LintInv, ListedInv
    <2> QED
      BY <1>1, <1>2, <2>1, <2>2, <2>3, <2>4, <2>5 DEF ListedInv, Listing
  <1>8. FreshInv' /\ CheckedInv' /\ WroteInv'
    BY <1>1, <1>5, SameChecked, SameWrote DEF LintInv, FreshInv
  <1> QED
    BY <1>1, <1>2, <1>6, <1>7, <1>8 DEF LintInv, RewriteInv, ExitInv

\* The findings about the imports of a live text are about its module.
LEMMA LiveFindings ==
    ASSUME ModulesInv, NEW n \in Loaded, NEW f \in ImportFindings(Parsed(live[n]))
    PROVE  f.module = n
  <1>1. Parsed(live[n]).name = n
    BY ModuleIsParsed, ParsedName
  <1>2. f.module = Parsed(live[n]).name
    BY ReferenceFindings DEF ImportFindings
  <1> QED
    BY <1>1, <1>2

LEMMA ApplyLint == LintInv /\ Apply => LintInv'
  <1> SUFFICES ASSUME LintInv, Apply PROVE LintInv'
    OBVIOUS
  <1>1. /\ phase = "parse" /\ phase' = "fix"
        /\ findings' = findings \ rewrite.editable
        /\ fixed' = fixed \cup {<<f, "fixed">> : f \in rewrite.editable}
        /\ UNCHANGED <<args, edits, result, found, todo, overtaken, calm>>
    BY DEF Apply
  <1>2. ModulesInv' /\ Loaded' = Loaded /\ \A f : Fixable(f)' = Fixable(f)
    BY <1>1, SameResult DEF LintInv
  <1>3. /\ rewrite.name \in fingerprinted \ todo /\ rewrite.editable \subseteq findings
        /\ \A f \in rewrite.editable : f.module = rewrite.name /\ Fixable(f)
        /\ rewrite.editable \cap LeftOnes = {}
        /\ IsTextOf(rewrite.name, rewrite.new)
        /\ \A f \in FixedOnes : f.module # rewrite.name
        /\ IsExact(rewrite.name, rewrite.new, rewrite.editable)
    BY <1>1 DEF LintInv, RewriteInv
  <1>4. findings = found \ FixedOnes
    BY <1>1 DEF LintInv, ListedInv, Listing
  <1>5. FixedOnes' = FixedOnes \cup rewrite.editable /\ LeftOnes' = LeftOnes
    BY <1>1, <1>3, <1>4 DEF FixedOnes, LeftOnes
  <1>6. FilesInv'
    <2>1. \/ UNCHANGED <<files, wrote>>
          \/ /\ files' = [files EXCEPT ![rewrite.name] = rewrite.new]
             /\ wrote' = [wrote EXCEPT ![rewrite.name] = rewrite.new]
      BY DEF Apply
    <2> QED
      BY <1>1, <1>3, <2>1 DEF LintInv, FilesInv
  <1>7. TodoInv'
    BY <1>1, <1>2 DEF LintInv, TodoInv
  <1>8. ListedInv'
    <2>1. \A e \in fixed' : e[1] \in found
      BY <1>1, <1>3, <1>4 DEF LintInv, ListedInv, Listing
    <2>2. \A f \in FixedOnes' \cup LeftOnes' : f.module \notin todo' /\ Fixable(f)
      BY <1>1, <1>3, <1>5 DEF LintInv, ListedInv, Listing
    <2>3. FixedOnes' \cap LeftOnes' = {}
      BY <1>1, <1>3, <1>5 DEF LintInv, ListedInv, Listing
    <2>4. args.fix => \A f \in found : Fixable(f) =>
             f.module \in todo' \/ f \in FixedOnes' \cup LeftOnes'
      BY <1>1, <1>5 DEF LintInv, ListedInv, Listing
    <2>5. findings' = found' \ FixedOnes' /\ \A f \in findings' \cup found' : f.module \in Loaded
      BY <1>1, <1>4, <1>5 DEF LintInv, ListedInv
    <2> QED
      BY <1>1, <1>2, <2>1, <2>2, <2>3, <2>4, <2>5 DEF ListedInv, Listing
  <1>9. FreshInv' /\ CheckedInv'
    BY <1>1, SameChecked DEF LintInv, FreshInv
  <1>10. WroteInv'
    <2> DEFINE r == rewrite.name
    <2>1. live' = live /\ r \in Loaded \ todo /\ \A f \in rewrite.editable : f.module = r
      BY <1>1, <1>3 DEF result, LintInv, ModulesInv
    <2>2. \A n \in Names : n # r => wrote'[n] = wrote[n]
      BY DEF Apply, LintInv, FilesInv
    <2>3. wrote'[r] \in {wrote[r], rewrite.new} /\ wrote[r] = None
      <3>1. r \in Names
        BY <2>1, ModuleIsParsed DEF LintInv
      <3>2. wrote = [n \in Names |-> wrote[n]]
        BY DEF LintInv, FilesInv
      <3>3. wrote' \in {wrote, [wrote EXCEPT ![r] = rewrite.new]}
        BY DEF Apply
      <3> QED
        BY <3>1, <3>2, <3>3, <1>1 DEF LintInv, WroteInv
    <2>4. ASSUME NEW n \in Names, n # r, wrote[n] # None
          PROVE  IsExact(n, wrote[n], FixedOnes')
      <3>1. IsExact(n, wrote[n], FixedOnes) /\ n \in Loaded
        BY <2>4 DEF LintInv, WroteInv
      <3>2. \A f \in ImportFindings(Parsed(live[n])) : f.module = n
        BY <3>1, LiveFindings DEF LintInv
      <3>3. ImportFindings(Parsed(live[n])) \ FixedOnes' = ImportFindings(Parsed(live[n])) \ FixedOnes
        BY <1>5, <2>1, <2>4, <3>2
      <3> QED
        BY <3>1, <3>3 DEF IsExact
    <2>5. IsExact(r, rewrite.new, FixedOnes')
      <3>1. \A f \in ImportFindings(Parsed(live[r])) : f.module = r
        BY <2>1, LiveFindings DEF LintInv
      <3>2. ImportFindings(Parsed(live[r])) \ FixedOnes'
               = ImportFindings(Parsed(live[r])) \ rewrite.editable
        BY <1>3, <1>5, <3>1
      <3> QED
        BY <1>3, <3>2 DEF IsExact
    <2>6. \A n \in Names : wrote'[n] # None => IsExact(n, wrote'[n], FixedOnes')
      BY <2>2, <2>3, <2>4, <2>5
    <2>7. \A n \in Names : IsExact(n, wrote[n], FixedOnes)' <=> IsExact(n, wrote'[n], FixedOnes')
      BY <2>1 DEF IsExact
    <2> HIDE DEF r
    <2> QED
      BY <1>1, <1>2, <2>1, <2>2, <2>3, <2>6, <2>7 DEF LintInv, WroteInv
  <1> QED
    BY <1>1, <1>2, <1>6, <1>7, <1>8, <1>9, <1>10 DEF LintInv, RewriteInv, ExitInv

LEMMA ReportLint == LintInv /\ Report => LintInv'
  <1> SUFFICES ASSUME LintInv, Report PROVE LintInv'
    OBVIOUS
  <1>1. /\ phase = "fix" /\ phase' = "done" /\ todo = {}
        /\ calm' = IF calm = 1 /\ args.fix /\ ~args.diff THEN 2 ELSE calm
        /\ exit' = ExitCode
        /\ UNCHANGED <<args, files, edits, result, report, todo, wrote, overtaken>>
    BY DEF Report
  <1>2. ModulesInv' /\ Loaded' = Loaded /\ \A f : Fixable(f)' = Fixable(f)
    BY <1>1, SameResult DEF LintInv
  <1>3. FilesInv' /\ TodoInv'
    BY <1>1, <1>2 DEF LintInv, FilesInv, TodoInv
  <1>4. UNCHANGED <<FixedOnes, LeftOnes, findings, found, fixed>>
    BY <1>1 DEF report, FixedOnes, LeftOnes
  <1>5. ListedInv'
    BY <1>1, <1>2, <1>4 DEF LintInv, ListedInv, Listing
  <1>6. ExitInv'
    BY <1>1, <1>4 DEF ExitInv, ExitCode, result
  <1>7. FreshInv' /\ CheckedInv' /\ WroteInv'
    BY <1>1, <1>4, SameChecked, SameWrote DEF LintInv, FreshInv
  <1> QED
    BY <1>1, <1>2, <1>3, <1>5, <1>6, <1>7 DEF LintInv, RewriteInv

LEMMA AgainLint == LintInv /\ Again => LintInv'
  <1> SUFFICES ASSUME LintInv, Again PROVE LintInv'
    OBVIOUS
  <1>1. /\ phase = "done" /\ phase' = "idle" /\ args' \in Args
        /\ UNCHANGED <<files, edits, result, report, todo, wrote, overtaken, calm>>
    BY DEF Again
  <1>2. ModulesInv' /\ Loaded' = Loaded
    BY <1>1, SameResult DEF LintInv
  <1>3. FilesInv' /\ TodoInv'
    BY <1>1, <1>2 DEF LintInv, FilesInv, TodoInv
  <1>4. ListedInv'
    BY <1>1, <1>2 DEF LintInv, ListedInv, Listing, report
  <1>5. UNCHANGED <<FixedOnes, findings, found>>
    BY <1>1 DEF report, FixedOnes
  <1>6. FreshInv' /\ CheckedInv' /\ WroteInv'
    BY <1>1, <1>5, SameChecked, SameWrote DEF LintInv, FreshInv
  <1> QED
    BY <1>1, <1>2, <1>3, <1>4, <1>6 DEF LintInv, RewriteInv, ExitInv

LEMMA EditLint == \A n \in Names : LintInv /\ Edit(n) => LintInv'
  <1> SUFFICES ASSUME NEW n \in Names, LintInv, Edit(n) PROVE LintInv'
    OBVIOUS
  <1>1. /\ phase \in {"idle", "fix", "parse"} /\ edits < MaxEdits
        /\ edits' = edits + 1 /\ calm' = 0
        /\ UNCHANGED <<args, exit, phase, result, report, todo, rewrite, wrote>>
        /\ overtaken' = (overtaken \/ (phase = "parse" /\ n = rewrite.name))
    BY DEF Edit
  <1>2. PICK t \in Edits[n] : files' = [files EXCEPT ![n] = t]
    BY DEF Edit
  <1>3. ModulesInv' /\ Loaded' = Loaded /\ \A f : Fixable(f)' = Fixable(f)
    BY <1>1, SameResult DEF LintInv
  <1>4. FilesInv'
    <2>1. IsTextOf(n, t)
      BY <1>2, TextsAssumption
    <2> QED
      BY <1>1, <1>2, <2>1 DEF LintInv, FilesInv
  <1>5. TodoInv'
    BY <1>1, <1>3, BoundsAssumption DEF LintInv, TodoInv
  <1>6. UNCHANGED <<FixedOnes, LeftOnes, findings, found, fixed, live, fingerprinted>>
    BY <1>1 DEF report, result, FixedOnes, LeftOnes
  <1>7. ListedInv'
    BY <1>1, <1>3, <1>6 DEF LintInv, ListedInv, Listing
  <1>8. RewriteInv'
    <2>1. \A m \in Names : m # n => files'[m] = files[m]
      BY <1>2 DEF LintInv, FilesInv
    <2>2. \A m \in fingerprinted : m \in Names
      BY ModuleIsParsed DEF LintInv, ModulesInv
    <2> QED
      BY <1>1, <1>3, <1>6, <2>1, <2>2 DEF LintInv, RewriteInv, TodoInv, IsExact
  <1>9. ExitInv'
    BY <1>1 DEF ExitInv
  <1>10. FreshInv' /\ CheckedInv' /\ WroteInv'
    BY <1>1, <1>6, SameChecked, SameWrote DEF LintInv, FreshInv
  <1> QED
    BY <1>3, <1>4, <1>5, <1>7, <1>8, <1>9, <1>10 DEF LintInv

LEMMA StutterLint == LintInv /\ UNCHANGED vars => LintInv'
  <1> SUFFICES ASSUME LintInv, UNCHANGED vars PROVE LintInv'
    OBVIOUS
  <1>1. /\ UNCHANGED <<args, exit, files, edits, phase, todo, rewrite, wrote, overtaken, calm>>
        /\ UNCHANGED result /\ UNCHANGED report /\ UNCHANGED oids
    BY DEF vars
  <1>2. ModulesInv' /\ Loaded' = Loaded /\ \A f : Fixable(f)' = Fixable(f)
    BY <1>1, SameResult DEF LintInv
  <1>3. UNCHANGED <<FixedOnes, LeftOnes, findings, found, fixed, live, fingerprinted, unresolved>>
    BY <1>1 DEF report, result, FixedOnes, LeftOnes
  <1>4. FilesInv' /\ TodoInv'
    BY <1>1, <1>2 DEF LintInv, FilesInv, TodoInv
  <1>5. ListedInv' /\ RewriteInv'
    BY <1>1, <1>2, <1>3 DEF LintInv, ListedInv, Listing, RewriteInv, IsExact
  <1>6. ExitInv'
    BY <1>1, <1>3 DEF LintInv, ExitInv, ExitCode
  <1>7. CheckedInv' /\ WroteInv'
    BY SMTT(30), <1>1, <1>3, SameChecked, SameWrote DEF LintInv
  <1>8. FreshInv'
    <2>1. objs' = objs /\ modules' = modules /\ phase' = phase
      BY <1>1 DEF oids, result
    <2> QED
      BY ZenonT(60), <2>1 DEF LintInv, FreshInv, IsFresh, Current
  <1> QED
    BY <1>2, <1>4, <1>5, <1>6, <1>7, <1>8 DEF LintInv

\* Every use of lint keeps the invariant.
THEOREM LintInvariant == Spec => []LintInv
  <1>1. LintInv /\ [Next]_vars => LintInv'
    BY ResolveLint, ReferenceChecksLint, ResolveOidsLint, OidChecksLint, LeaveLint,
       ProposeLint, RollBackLint, ApplyLint, ReportLint, AgainLint, EditLint, StutterLint
       DEF Next, Lint, FixStep
  <1> QED
    BY InitLint, <1>1, PTL DEF Spec
-----------------------------------------------------------------------------
(* What follows from it.                                                   *)

LEMMA InvTypeOK == LintInv => TypeOK
  <1> SUFFICES ASSUME LintInv PROVE TypeOK
    OBVIOUS
  <1>1. Loaded \subseteq Names
    BY ModuleIsParsed DEF LintInv
  <1>2. phase = "parse" =>
           /\ rewrite.name \in Loaded \ todo
           /\ rewrite.editable # {} /\ rewrite.editable \subseteq FixableOf(rewrite.name)
    BY FixableOfLive DEF LintInv, RewriteInv, ModulesInv
  <1> QED
    BY <1>1, <1>2 DEF LintInv, ModulesInv, TodoInv, TypeOK

LEMMA InvFindingsAccounted == LintInv => FindingsAccounted
  <1> SUFFICES ASSUME LintInv PROVE FindingsAccounted
    OBVIOUS
  <1>1. Listing =>
           /\ findings = found \ FixedOnes
           /\ LeftOnes \subseteq findings
           /\ {e[1] : e \in fixed} \subseteq found
    <2>1. LeftOnes \subseteq found
      BY DEF LeftOnes
    <2> QED
      BY <2>1 DEF LintInv, ListedInv
  <1>2. phase = "done" /\ args.fix =>
           FixedOnes \cup LeftOnes = {f \in found : IsFixable(f, Module(f.module))}
    <2> SUFFICES ASSUME phase = "done", args.fix
                 PROVE  FixedOnes \cup LeftOnes =
                           {f \in found : IsFixable(f, Module(f.module))}
      OBVIOUS
    <2>1. \A f \in found : IsFixable(f, Module(f.module)) = Fixable(f)
      BY ModuleIsParsed DEF LintInv, ListedInv, Fixable
    <2>2. todo = {} /\ Listing
      BY DEF LintInv, TodoInv, Listing
    <2>3. FixedOnes \cup LeftOnes = {f \in found : Fixable(f)}
      BY <2>2 DEF LintInv, ListedInv, FixedOnes, LeftOnes
    <2> QED
      BY <2>1, <2>3
  <1>3. phase = "done" =>
           (exit = 0) <=>
               /\ unresolved = {}
               /\ {f \in found : args.fail_level = "all" \/ f.severity = "error"}
                      \subseteq FixedOnes
    <2> SUFFICES ASSUME phase = "done"
                 PROVE  (exit = 0) <=>
                           /\ unresolved = {}
                           /\ {f \in found : args.fail_level = "all" \/ f.severity = "error"}
                                  \subseteq FixedOnes
      OBVIOUS
    <2>1. exit = ExitCode
      BY DEF LintInv, ExitInv
    <2>2. findings = found \ FixedOnes
      BY <1>1 DEF Listing
    <2>3. (\E f \in findings : args.fail_level = "all" \/ f.severity = "error")
            <=> ~({f \in found : args.fail_level = "all" \/ f.severity = "error"}
                     \subseteq FixedOnes)
      BY <2>2, Zenon
    <2>4. (exit = 0) <=>
             /\ unresolved = {}
             /\ ~\E f \in findings : args.fail_level = "all" \/ f.severity = "error"
      BY <2>1 DEF ExitCode
    <2> QED
      BY <2>3, <2>4, Zenon
  <1> QED
    BY <1>1, <1>2, <1>3, InvTypeOK DEF FindingsAccounted, Listing

\* A finding is either reported or fixed, those left are reported, all that
\* --fix is for are listed once, and the exit code says what remains.
THEOREM FindingsAreAccounted == Spec => []FindingsAccounted
  BY LintInvariant, InvFindingsAccounted, PTL

\* Of the findings about imports, what is written has just those that are not
\* listed as fixed, if no symbol was imported twice and the body has survived.
THEOREM FixesAreAlwaysExact == Spec => []FixesAreExact
  <1>1. LintInv => FixesAreExact
    <2> SUFFICES ASSUME LintInv, NEW n \in Names, wrote[n] # None,
                        wrote[n].body = live[n].body, ImportedOnce(Module(n))
                 PROVE  ImportFindings(Parsed(wrote[n])) = ImportFindings(Module(n)) \ FixedOnes
      BY DEF FixesAreExact
    <2>1. n \in Loaded /\ IsExact(n, wrote[n], FixedOnes)
      BY DEF LintInv, WroteInv
    <2>2. Module(n) = Parsed(live[n])
      BY <2>1, ModuleIsParsed DEF LintInv
    <2> QED
      BY <2>1, <2>2 DEF IsExact
  <1> QED
    BY LintInvariant, <1>1, PTL

\* A step that writes a file and is not a user's edit is Apply.
LEMMA OnlyApplyWrites ==
    ASSUME LintInv, [Next]_vars, files' # files, edits' = edits
    PROVE  Apply /\ ~args.diff
  <1>1. edits \in Nat /\ edits + 1 # edits
    BY BoundsAssumption DEF LintInv, TodoInv
  <1> QED
    BY <1>1 DEF vars, Next, Lint, FixStep, Resolve, ReferenceChecks, ResolveOids, OidChecks,
                Leave, Propose, RollBack, Apply, Report, Again, Edit

\* What lint writes over is the text the findings are about, unless the file
\* has been edited since the two were compared.
THEOREM OnlyResolvedSourceIsRewritten == Spec => RewritesResolvedSource
  <1> DEFINE Rewrites ==
        LintWrites =>
          /\ args.fix /\ ~args.diff
          /\ \E n \in fingerprinted :
                /\ files' = [files EXCEPT ![n] = files'[n]]
                /\ files[n] = live[n] \/ overtaken
  <1>1. LintInv /\ [Next]_vars => Rewrites
    <2> SUFFICES ASSUME LintInv, [Next]_vars, files' # files, edits' = edits
                 PROVE  /\ args.fix /\ ~args.diff
                        /\ \E n \in fingerprinted :
                              /\ files' = [files EXCEPT ![n] = files'[n]]
                              /\ files[n] = live[n] \/ overtaken
      BY DEF LintWrites
    <2>1. Apply /\ ~args.diff
      BY OnlyApplyWrites
    <2> DEFINE n == rewrite.name
    <2>2. /\ args.fix /\ n \in fingerprinted
          /\ files[n] = live[n] \/ overtaken
      BY <2>1 DEF Apply, LintInv, RewriteInv, TodoInv
    <2>3. n \in Names
      BY <2>2, ModuleIsParsed DEF LintInv, ModulesInv
    <2>4. files' = [files EXCEPT ![n] = rewrite.new]
      BY <2>1 DEF Apply
    <2>5. files = [k \in Names |-> files[k]]
      BY DEF LintInv, FilesInv
    <2> HIDE DEF n
    <2>6. files'[n] = rewrite.new
      BY <2>3, <2>4, <2>5
    <2> QED
      BY <2>1, <2>2, <2>4, <2>6
  <1> QED
    BY LintInvariant, <1>1, PTL DEF Spec, RewritesResolvedSource
-----------------------------------------------------------------------------
(* Types and their bases.                                                   *)

\* Modules, and types within a module, have different names.
FitTypes(ms) ==
    /\ \A m, d \in ms : m.name = d.name => m = d
    /\ \A m \in ms : \A t, u \in ToSet(m.types) : t.name = u.name => t = u

IsBasedIn(ms, m, s) == IsBased(ms, Based(ms), m, s)

\* A type is in the least closed set just if its base is based.
LEMMA BasedIs ==
    ASSUME NEW ms, FitTypes(ms), NEW d \in ms, NEW t \in ToSet(d.types)
    PROVE  <<d.name, t.name>> \in Based(ms) <=> t.base # None /\ IsBasedIn(ms, d, t.base)
  <1> DEFINE x == <<d.name, t.name>>
             defs == Definitions(ms)
  <1>0. x \in defs
    BY DEF Definitions, TypeNames
  <1>1. ASSUME t.base # None, IsBasedIn(ms, d, t.base) PROVE x \in Based(ms)
    <2>1. SUFFICES ASSUME NEW R \in SUBSET defs, IsClosed(ms, R) PROVE x \in R
      BY <1>0 DEF Based
    <2>2. Based(ms) \subseteq R
      BY <2>1 DEF Based
    <2>3. IsBased(ms, R, d, t.base)
      BY <1>1, <2>2 DEF IsBasedIn, IsBased
    <2> QED
      BY <1>1, <2>1, <2>3 DEF IsClosed
  <1>2. ASSUME x \in Based(ms), ~(t.base # None /\ IsBasedIn(ms, d, t.base)) PROVE FALSE
    <2> DEFINE R == Based(ms) \ {x}
    <2>1. R \in SUBSET defs
      BY DEF Based
    <2>2. IsClosed(ms, R)
      <3> SUFFICES ASSUME NEW m \in ms, NEW u \in ToSet(m.types),
                          u.base # None, IsBased(ms, R, m, u.base)
                   PROVE  <<m.name, u.name>> \in R
        BY DEF IsClosed
      <3>1. IsBasedIn(ms, m, u.base)
        BY DEF IsBasedIn, IsBased
      <3>2. <<m.name, u.name>> \in Based(ms)
        <4> SUFFICES ASSUME NEW Q \in SUBSET defs, IsClosed(ms, Q) PROVE <<m.name, u.name>> \in Q
          BY DEF Based, Definitions, TypeNames
        <4>1. Based(ms) \subseteq Q
          BY DEF Based
        <4>2. IsBased(ms, Q, m, u.base)
          BY <3>1, <4>1 DEF IsBasedIn, IsBased
        <4> QED
          BY <4>2 DEF IsClosed
      <3>3. <<m.name, u.name>> # x
        <4> SUFFICES ASSUME m.name = d.name, u.name = t.name PROVE FALSE
          OBVIOUS
        <4>1. m = d /\ u = t
          BY DEF FitTypes
        <4> QED
          BY <1>2, <3>1, <4>1
      <3> QED
        BY <3>2, <3>3
    <2> QED
      BY <1>2, <2>1, <2>2 DEF Based
  <1> QED
    BY <1>1, <1>2

\* The definition that a symbol stands for, for a module that has it from no
\* base MIB.
LEMMA DefinitionIs ==
    ASSUME NEW ms, FitTypes(ms), NEW m \in ms, NEW s
    PROVE  /\ \A d \in ms : d \in Definition(ms, m, s) <=> Sees(m, s, d)
           /\ Definition(ms, m, s) \subseteq ms
           /\ \A d, e \in Definition(ms, m, s) : d = e
  <1>1. CASE s \in TypeNames(m)
    BY <1>1 DEF Definition, Sees
  <1>2. CASE s \notin TypeNames(m) /\ s \in Imported(m)
    BY <1>2 DEF Definition, Sees, FitTypes
  <1>3. CASE s \notin TypeNames(m) /\ s \notin Imported(m)
    BY <1>3 DEF Definition, Sees
  <1> QED
    BY <1>1, <1>2, <1>3

TypesOf(ms) == UNION {ToSet(m.types) : m \in ms}

\* Where the walk goes from s in m: it ends where that shows whether s is
\* based, or it goes to the base of the definition of s.
GoesTo(ms, m, s, d, t) ==
    /\ d \in ms /\ t \in ToSet(d.types)
    /\ t.name = s /\ t.base # None /\ t.base \notin BuiltIn
    /\ WalkOn(ms, m, s) = At(d, t.base)
    /\ IsBasedIn(ms, m, s) <=> IsBasedIn(ms, d, t.base)

LEMMA WalkOnIs ==
    ASSUME NEW ms, FitTypes(ms), NEW m \in ms, NEW s, s \notin BuiltIn
    PROVE  \/ WalkOn(ms, m, s) = BaseType /\ IsBasedIn(ms, m, s)
           \/ WalkOn(ms, m, s) = DeadEnd /\ ~IsBasedIn(ms, m, s)
           \/ \E d, t : GoesTo(ms, m, s, d, t)
  <1>1. CASE IsTrusted(m, s)
    BY <1>1 DEF WalkOn, IsBasedIn, IsBased
  <1>2. CASE ~IsTrusted(m, s) /\ Definition(ms, m, s) = {}
    <2>1. WalkOn(ms, m, s) = DeadEnd
      BY <1>2 DEF WalkOn
    <2>2. \A d \in ms : ~Sees(m, s, d)
      BY <1>2, DefinitionIs
    <2> QED
      BY <1>2, <2>1, <2>2 DEF IsBasedIn, IsBased
  <1>3. CASE ~IsTrusted(m, s) /\ Definition(ms, m, s) # {}
    <2> DEFINE d == CHOOSE e \in Definition(ms, m, s) : TRUE
               t == TypeOf(d, s)
    <2>1. d \in Definition(ms, m, s)
      BY <1>3
    <2>2. WalkOn(ms, m, s) = IF t.base = None THEN DeadEnd
                             ELSE IF t.base \in BuiltIn THEN BaseType ELSE At(d, t.base)
      BY <1>3 DEF WalkOn
    <2> HIDE DEF d
    <2>3. d \in ms /\ Sees(m, s, d) /\ \A e \in ms : Sees(m, s, e) => e = d
      BY <2>1, DefinitionIs
    <2>4. t \in ToSet(d.types) /\ t.name = s
      BY <2>3 DEF TypeOf, Sees, TypeNames
    <2> HIDE DEF t
    <2>5. IsBasedIn(ms, m, s) <=> <<d.name, s>> \in Based(ms)
      BY <1>3, <2>3 DEF IsBasedIn, IsBased
    <2>6. IsBasedIn(ms, m, s) <=> t.base # None /\ IsBasedIn(ms, d, t.base)
      BY <2>3, <2>4, <2>5, BasedIs
    <2>7. t.base \in BuiltIn => IsBasedIn(ms, d, t.base)
      BY DEF IsBasedIn, IsBased
    <2>8. CASE t.base # None /\ t.base \notin BuiltIn
      BY <2>2, <2>3, <2>4, <2>6, <2>8 DEF GoesTo
    <2> QED
      BY <2>2, <2>6, <2>7, <2>8
  <1> QED
    BY <1>1, <1>2, <1>3

\* The walk from s0 in m0, after k steps: it is over, with the answer, or it
\* has gone along k types.
Answered(ms, m0, s0, w) ==
    \/ w.at = BaseType /\ IsBasedIn(ms, m0, s0)
    \/ w.at = DeadEnd /\ ~IsBasedIn(ms, m0, s0)
Walking(ms, m0, s0, w, k) ==
    /\ w.at = At(w.at.mod, w.at.sym) /\ w.at.mod \in ms /\ w.at.sym \notin BuiltIn
    /\ IsBasedIn(ms, w.at.mod, w.at.sym) <=> IsBasedIn(ms, m0, s0)
    /\ IsFiniteSet(w.visited) /\ Cardinality(w.visited) = k
    /\ w.visited \subseteq UNION {TypeNames(m) : m \in ms}
    /\ \A t \in TypesOf(ms) : t.name \in w.visited =>
           t.base \notin BuiltIn /\ t.base \in w.visited \cup {w.at.sym}
Walked(ms, m0, s0, w, k) == Answered(ms, m0, s0, w) \/ Walking(ms, m0, s0, w, k)

\* A walk that meets a symbol again has found a cycle.
LEMMA CycleHasNoBase ==
    ASSUME NEW ms, FitTypes(ms), NamesAgree(ms), NEW m \in ms, NEW s, NEW V,
           s \notin BuiltIn, s \in V, V \subseteq UNION {TypeNames(d) : d \in ms},
           \A t \in TypesOf(ms) : t.name \in V => t.base \notin BuiltIn /\ t.base \in V
    PROVE  ~IsBasedIn(ms, m, s)
  <1> DEFINE R == {x \in Based(ms) : x[2] \notin V}
  <1>1. \A d \in ms : \A v \in V : ~IsTrusted(d, v)
    BY DEF NamesAgree
  <1>2. R \in SUBSET Definitions(ms)
    BY DEF Based
  <1>3. ASSUME NEW d \in ms, NEW v \in V, v \notin BuiltIn PROVE ~IsBased(ms, R, d, v)
    BY <1>1, <1>3 DEF IsBased
  <1>4. IsClosed(ms, R)
    <2> SUFFICES ASSUME NEW d \in ms, NEW t \in ToSet(d.types),
                        t.base # None, IsBased(ms, R, d, t.base)
                 PROVE  <<d.name, t.name>> \in R
      BY DEF IsClosed
    <2>1. IsBasedIn(ms, d, t.base)
      BY DEF IsBasedIn, IsBased
    <2>2. <<d.name, t.name>> \in Based(ms)
      BY <2>1, BasedIs
    <2>3. t \in TypesOf(ms)
      BY DEF TypesOf
    <2>4. t.name \in V => ~IsBased(ms, R, d, t.base)
      <3> HIDE DEF R
      <3> QED
        BY <1>3, <2>3
    <2>5. t.name \notin V
      BY <2>4
    <2> QED
      BY <2>2, <2>5
  <1>5. Based(ms) \subseteq R
    BY <1>2, <1>4 DEF Based
  <1> HIDE DEF R
  <1>6. ~IsBased(ms, R, m, s)
    BY <1>3
  <1> QED
    BY <1>5, <1>6 DEF IsBasedIn, IsBased

LEMMA FurtherIs ==
    ASSUME NEW ms, FitTypes(ms), NamesAgree(ms), NEW m0 \in ms, NEW s0,
           NEW w, NEW k \in Nat, w = [at |-> w.at, visited |-> w.visited],
           Walked(ms, m0, s0, w, k)
    PROVE  Walked(ms, m0, s0, Further(ms, w), k + 1)
  <1> SUFFICES ASSUME NEW q, q = Further(ms, w) PROVE Walked(ms, m0, s0, q, k + 1)
    OBVIOUS
  <1> DEFINE m == w.at.mod
             s == w.at.sym
             T == UNION {TypeNames(d) : d \in ms}
  <1>1. CASE Answered(ms, m0, s0, w)
    <2>1. w.at.over
      <3>1. w.at = BaseType \/ w.at = DeadEnd
        BY <1>1 DEF Answered
      <3>2. BaseType.over /\ DeadEnd.over
        BY DEF BaseType, DeadEnd
      <3> QED
        BY <3>1, <3>2
    <2>2. q = w
      BY <2>1 DEF Further
    <2> QED
      BY <1>1, <2>2, Zenon DEF Walked
  <1>2. CASE Walking(ms, m0, s0, w, k)
    <2>1. /\ w.at = At(m, s) /\ m \in ms /\ s \notin BuiltIn
          /\ IsBasedIn(ms, m, s) <=> IsBasedIn(ms, m0, s0)
          /\ IsFiniteSet(w.visited) /\ Cardinality(w.visited) = k
          /\ w.visited \subseteq T
          /\ \A t \in TypesOf(ms) : t.name \in w.visited =>
                t.base \notin BuiltIn /\ t.base \in w.visited \cup {s}
      BY <1>2 DEF Walking
    <2>2. ~w.at.over
      BY <2>1 DEF At
    <2>3. CASE s \in w.visited
      <3>1. q = [w EXCEPT !.at = DeadEnd]
        BY <2>2, <2>3 DEF Further
      <3>2. q.at = DeadEnd
        BY <3>1
      <3>3. w.visited \cup {s} = w.visited
        BY <2>3
      <3>4. ~IsBasedIn(ms, m, s)
        BY <2>1, <2>3, <3>3, CycleHasNoBase
      <3> QED
        <4>1. Answered(ms, m0, s0, q)
          BY <2>1, <3>2, <3>4 DEF Answered
        <4> QED
          BY <4>1, Zenon DEF Walked
    <2>4. CASE s \notin w.visited
      <3>1. q = [at |-> WalkOn(ms, m, s), visited |-> w.visited \cup {s}]
        BY <2>2, <2>4 DEF Further
      <3>2. q.at = WalkOn(ms, m, s) /\ q.visited = w.visited \cup {s}
        BY <3>1
      <3>3. CASE WalkOn(ms, m, s) = BaseType /\ IsBasedIn(ms, m, s)
        <4>1. Answered(ms, m0, s0, q)
          BY <2>1, <3>2, <3>3 DEF Answered
        <4> QED
          BY <4>1, Zenon DEF Walked
      <3>4. CASE WalkOn(ms, m, s) = DeadEnd /\ ~IsBasedIn(ms, m, s)
        <4>1. Answered(ms, m0, s0, q)
          BY <2>1, <3>2, <3>4 DEF Answered
        <4> QED
          BY <4>1, Zenon DEF Walked
      <3>5. CASE \E d, t : GoesTo(ms, m, s, d, t)
        <4> PICK d, t : GoesTo(ms, m, s, d, t)
          BY <3>5
        <4>1. /\ d \in ms /\ t \in ToSet(d.types)
              /\ t.name = s /\ t.base # None /\ t.base \notin BuiltIn
              /\ q.at = At(d, t.base)
              /\ IsBasedIn(ms, m, s) <=> IsBasedIn(ms, d, t.base)
          BY <3>2 DEF GoesTo
        <4>2. q.at.mod = d /\ q.at.sym = t.base
          BY <4>1 DEF At
        <4>3. IsFiniteSet(q.visited) /\ Cardinality(q.visited) = k + 1
          BY <2>1, <2>4, <3>2, FS_AddElement
        <4>4. s \in T
          BY <4>1 DEF TypeNames
        <4>5. \A u \in TypesOf(ms) : u.name = s => u = t
          <5> SUFFICES ASSUME NEW e \in ms, NEW u \in ToSet(e.types), u.name = s PROVE u = t
            BY DEF TypesOf
          <5>1. s \in TypeNames(d) /\ s \in TypeNames(e)
            BY <4>1 DEF TypeNames
          <5>2. e = d
            BY <4>1, <5>1 DEF NamesAgree
          <5> QED
            BY <4>1, <5>2 DEF FitTypes
        <4>6. \A u \in TypesOf(ms) : u.name \in q.visited =>
                 u.base \notin BuiltIn /\ u.base \in q.visited \cup {t.base}
          BY <2>1, <3>2, <4>1, <4>5
        <4> HIDE DEF m, s
        <4>7. Walking(ms, m0, s0, q, k + 1)
          BY <2>1, <3>2, <4>1, <4>2, <4>3, <4>4, <4>6 DEF Walking
        <4> QED
          BY <4>7, Zenon DEF Walked
      <3> QED
        BY <2>1, <3>3, <3>4, <3>5, WalkOnIs
    <2> QED
      BY <2>3, <2>4
  <1> QED
    BY <1>1, <1>2, Zenon DEF Walked

\* The walk computes its answer: it is over before it is out of types.
LEMMA HasBaseIs ==
    ASSUME NEW ms, FitTypes(ms), NamesAgree(ms), IsFiniteSet(UNION {TypeNames(m) : m \in ms}),
           NEW m0 \in ms, NEW s0
    PROVE  HasBase(ms, m0, s0) <=> IsBasedIn(ms, m0, s0)
  <1> DEFINE T == UNION {TypeNames(m) : m \in ms}
             n == 2 + Cardinality(T)
             w0 == [at |-> At(m0, s0), visited |-> {}]
             X == {s0} \cup {t.base : t \in {u \in TypesOf(ms) : u.base \notin BuiltIn}}
             A == {BaseType, DeadEnd} \cup {At(m, s) : m \in ms, s \in X}
             V == [at : A, visited : SUBSET X]
             step == [k \in 1 .. n |-> [w \in V |-> Further(ms, w)]]
             Loop(f) == f = [k \in 0 .. n |-> IF k = 0 THEN w0 ELSE Further(ms, f[k - 1])]
  <1>0. CASE s0 \in BuiltIn
    BY <1>0 DEF HasBase, IsBasedIn, IsBased
  <1>1. CASE s0 \notin BuiltIn
    <2>1. Cardinality(T) \in Nat /\ n \in Nat /\ n - 1 \in Nat
      BY FS_CardinalityType
    <2>2. w0 \in V
      OBVIOUS
    <2>3. \A w \in V : Further(ms, w) \in V
      <3> SUFFICES ASSUME NEW w \in V PROVE Further(ms, w) \in V
        OBVIOUS
      <3>1. w.at \in A /\ w.visited \subseteq X /\ w = [at |-> w.at, visited |-> w.visited]
        OBVIOUS
      <3>2. \A a \in A : \A v \in SUBSET X : [at |-> a, visited |-> v] \in V
        OBVIOUS
      <3> HIDE DEF V
      <3>3. CASE w.at.over
        BY <3>3 DEF Further
      <3>4. CASE ~w.at.over
        <4>0. w.at # BaseType /\ w.at # DeadEnd
          <5>1. BaseType.over /\ DeadEnd.over
            BY DEF BaseType, DeadEnd
          <5> QED
            BY <3>4, <5>1
        <4>1. PICK m \in ms, s \in X : w.at = At(m, s)
          <5> HIDE DEF X
          <5> QED
            BY <3>1, <4>0
        <4>2. w.at.mod = m /\ w.at.sym = s /\ s \notin BuiltIn
          BY <1>1, <4>1 DEF At
        <4>3. WalkOn(ms, m, s) \in A
          <5>1. ASSUME NEW d, NEW t, GoesTo(ms, m, s, d, t) PROVE At(d, t.base) \in A
            <6>1. d \in ms /\ t.base \in X
              BY <5>1 DEF GoesTo, TypesOf
            <6> QED
              BY <6>1
          <5>2. BaseType \in A /\ DeadEnd \in A
            OBVIOUS
          <5> HIDE DEF A, X
          <5> QED
            BY <4>2, <5>1, <5>2, WalkOnIs DEF GoesTo
        <4>4. DeadEnd \in A /\ w.visited \cup {s} \in SUBSET X /\ w.visited \in SUBSET X
          BY <3>1
        <4>5. Further(ms, w) = IF s \in w.visited
                               THEN [at |-> DeadEnd, visited |-> w.visited]
                               ELSE [at |-> WalkOn(ms, m, s), visited |-> w.visited \cup {s}]
          <5> HIDE DEF A, X
          <5>1. [w EXCEPT !.at = DeadEnd] = [at |-> DeadEnd, visited |-> w.visited]
            BY <3>1
          <5> QED
            BY <3>4, <4>2, <5>1 DEF Further
        <4> HIDE DEF A, X
        <4> QED
          BY <3>2, <4>3, <4>4, <4>5
      <3> QED
        BY <3>3, <3>4
    <2> HIDE DEF V, T
    <2>4. PICK f : IsLoop(f, V, n, w0, step)
      <3>1. step \in [1 .. n -> [V -> V]]
        BY <2>3
      <3> HIDE DEF step, w0, n
      <3> QED
        BY <2>1, <2>2, <3>1, LoopExists
    <2>5. \A k \in 1 .. n : f[k] = Further(ms, f[k - 1]) /\ f[k - 1] \in V
      <3> SUFFICES ASSUME NEW k \in 1 .. n PROVE f[k] = Further(ms, f[k - 1]) /\ f[k - 1] \in V
        OBVIOUS
      <3>1. k - 1 \in 0 .. n
        BY <2>1
      <3>2. f[k] = step[k][f[k - 1]] /\ f[k - 1] \in V
        <4> HIDE DEF step, n, w0
        <4> QED
          BY <2>4, <3>1 DEF IsLoop
      <3> HIDE DEF n
      <3> QED
        BY <3>2
    <2>6. f[0] = w0
      BY <2>4 DEF IsLoop
    <2>7. Loop(f)
      <3> DEFINE g == [k \in 0 .. n |-> IF k = 0 THEN w0 ELSE Further(ms, f[k - 1])]
      <3>1. f = [k \in 0 .. n |-> f[k]]
        BY <2>4 DEF IsLoop
      <3>2. \A k \in 0 .. n : k # 0 => k \in 1 .. n
        BY <2>1
      <3> HIDE DEF n, w0
      <3>3. \A k \in 0 .. n : f[k] = g[k]
        BY <2>5, <2>6, <3>2
      <3> QED
        BY <3>1, <3>3
    <2> DEFINE walk == CHOOSE g : Loop(g)
    <2>8. Loop(walk)
      <3> HIDE DEF Loop
      <3> QED
        BY <2>7
    <2>9. HasBase(ms, m0, s0) <=> walk[n].at = BaseType
      BY <1>1 DEF HasBase, T
    <2> HIDE DEF walk
    <2>10. walk[0] = w0
      BY <2>1, <2>8
    <2>11. \A k \in 1 .. n : walk[k] = Further(ms, walk[k - 1])
      <3> SUFFICES ASSUME NEW k \in 1 .. n PROVE walk[k] = Further(ms, walk[k - 1])
        OBVIOUS
      <3>1. k \in 0 .. n /\ k # 0
        BY <2>1
      <3> QED
        BY <2>8, <3>1
    <2> DEFINE S == {k \in 0 .. n : /\ walk[k] = [at |-> walk[k].at, visited |-> walk[k].visited]
                                    /\ Walked(ms, m0, s0, walk[k], k)}
    <2>12. 0 .. n \subseteq S
      <3>1. 0 \in S
        <4>1. Walking(ms, m0, s0, w0, 0)
          BY <1>1, FS_EmptySet DEF Walking, At
        <4>2. w0 = [at |-> w0.at, visited |-> w0.visited]
          OBVIOUS
        <4>3. Walked(ms, m0, s0, w0, 0)
          BY <4>1 DEF Walked
        <4> HIDE DEF w0
        <4> QED
          BY <2>1, <2>10, <4>2, <4>3
      <3>2. ASSUME NEW k \in 1 .. n, k - 1 \in S PROVE k \in S
        <4> DEFINE w == walk[k - 1]
        <4>1. k \in 0 .. n /\ k - 1 \in Nat /\ (k - 1) + 1 = k
          BY <2>1
        <4>2. w = [at |-> w.at, visited |-> w.visited] /\ Walked(ms, m0, s0, w, k - 1)
          BY <3>2
        <4>3. walk[k] = Further(ms, w)
          BY <2>11
        <4> HIDE DEF w
        <4>4. Walked(ms, m0, s0, Further(ms, w), (k - 1) + 1)
          BY <4>1, <4>2, FurtherIs
        <4>5. Further(ms, w) = [at |-> Further(ms, w).at, visited |-> Further(ms, w).visited]
          BY <4>2 DEF Further
        <4> QED
          BY <4>1, <4>3, <4>4, <4>5
      <3>3. \A k \in 1 .. n : k - 1 \in S => k \in S
        BY <3>2
      <3> HIDE DEF S, n
      <3> QED
        BY <2>1, <3>1, <3>3, LoopInduction
    <2>13. Walked(ms, m0, s0, walk[n], n)
      <3>1. n \in 0 .. n
        BY <2>1
      <3> HIDE DEF n
      <3>2. n \in S
        BY <2>12, <3>1
      <3> QED
        BY <3>2
    <2>14. ~Walking(ms, m0, s0, walk[n], n)
      <3> SUFFICES ASSUME Walking(ms, m0, s0, walk[n], n) PROVE FALSE
        OBVIOUS
      <3>1. walk[n].visited \subseteq T /\ Cardinality(walk[n].visited) = n
        BY DEF Walking, T
      <3>2. IsFiniteSet(T)
        BY DEF T
      <3>3. Cardinality(walk[n].visited) <= Cardinality(T)
        <4> HIDE DEF n
        <4> QED
          BY <3>1, <3>2, FS_Subset
      <3>4. ~(n <= Cardinality(T))
        BY <2>1
      <3> HIDE DEF n
      <3> QED
        BY <3>1, <3>3, <3>4
    <2>15. Answered(ms, m0, s0, walk[n])
      BY <2>13, <2>14 DEF Walked
    <2>16. BaseType # DeadEnd
      BY DEF BaseType, DeadEnd
    <2> QED
      BY <2>9, <2>15, <2>16 DEF Answered
  <1> QED
    BY <1>0, <1>1

\* The modules of the result: their names differ, and their types are finite.
LEMMA ModulesAreFit ==
    ASSUME ModulesInv
    PROVE  /\ FitTypes(ToSet(modules))
           /\ IsFiniteSet(UNION {TypeNames(m) : m \in ToSet(modules)})
  <1> DEFINE ms == ToSet(modules)
  <1>1. ASSUME NEW m \in ms
        PROVE  /\ m.name \in Names /\ IsTextOf(m.name, live[m.name])
               /\ m = Parsed(live[m.name])
    BY ParsedName DEF ModulesInv
  <1>2. ASSUME NEW m \in ms
        PROVE  /\ \A t, u \in ToSet(m.types) : t.name = u.name => t = u
               /\ IsFiniteSet(TypeNames(m))
    <2> DEFINE b == live[m.name].body
    <2>1. b \in DOMAIN Bodies /\ m.types = Bodies[b].types
      <3>1. b \in DOMAIN Bodies
        BY <1>1 DEF IsTextOf
      <3>2. Parsed(live[m.name]).types = Bodies[b].types
        BY DEF Parsed
      <3> HIDE DEF b
      <3> QED
        BY <1>1, <3>1, <3>2
    <2>2. m.types \in Seq(ToSet(m.types)) /\ \A t, u \in ToSet(m.types) : t.name = u.name => t = u
      <3> HIDE DEF b
      <3>1. /\ Bodies[b].types \in Seq(ToSet(Bodies[b].types))
            /\ \A t, u \in ToSet(Bodies[b].types) : t.name = u.name => t = u
        BY <2>1, BodiesAssumption
      <3> QED
        BY <2>1, <3>1
    <2> DEFINE D == DOMAIN m.types
               f == [i \in D |-> m.types[i].name]
    <2>3. IsFiniteSet(D)
      <3> HIDE DEF b
      <3>1. D = 1 .. Len(m.types) /\ Len(m.types) \in Nat
        BY <2>2
      <3> QED
        BY <3>1, FS_Interval
    <2>4. f \in Surjection(D, TypeNames(m))
      BY DEF Surjection, TypeNames, ToSet
    <2> QED
      BY <2>2, <2>3, <2>4, FS_Surjection
  <1>3. FitTypes(ms)
    BY <1>1, <1>2 DEF FitTypes
  <1>4. IsFiniteSet(ms)
    <2> DEFINE N == {m.name : m \in ms}
               f == [n \in N |-> Parsed(live[n])]
    <2>1. N \subseteq Names
      BY <1>1
    <2>2. IsFiniteSet(N)
      BY <2>1, BoundsAssumption, FS_Subset
    <2>3. f \in Surjection(N, ms)
      BY <1>1 DEF Surjection
    <2> QED
      BY <2>2, <2>3, FS_Surjection
  <1>5. IsFiniteSet(UNION {TypeNames(m) : m \in ms})
    <2> DEFINE S == {TypeNames(m) : m \in ms}
               f == [m \in ms |-> TypeNames(m)]
    <2>1. f \in Surjection(ms, S)
      BY DEF Surjection
    <2>2. IsFiniteSet(S)
      BY <1>4, <2>1, FS_Surjection
    <2>3. \A T \in S : IsFiniteSet(T)
      BY <1>2
    <2> QED
      BY <2>2, <2>3, FS_UNION
  <1> QED
    BY <1>3, <1>5

UndefinedType(m, s) == Finding("undefined-type", "error", m, s, None)

\* While resolve_oids runs, the findings have what the check of types found.
TypesInv ==
    phase = "oids" =>
        \A m \in ToSet(modules) : \A s \in SyntaxSymbols(m) :
            UndefinedType(m, s) \in findings
                <=> UndefinedType(m, s) \in UndefinedTypes(ToSet(modules), m)

LEMMA UndefinedIs ==
    ASSUME NEW closure, NEW m, NEW s \in SyntaxSymbols(m)
    PROVE  UndefinedType(m, s) \in UndefinedTypes(closure, m)
               <=> /\ s \notin BuiltIn /\ s \in Defined(m) \cup Imported(m)
                   /\ ~HasBase(closure, m, s)
  <1>1. \A q : UndefinedType(m, s) = UndefinedType(m, q) => s = q
    BY DEF UndefinedType, Finding
  <1> QED
    BY <1>1 DEF UndefinedTypes, UndefinedType

\* A finding of this check is of no other, and of no other module.
LEMMA UndefinedOnly ==
    ASSUME NEW closure, NEW m, NEW d, NEW s,
           UndefinedType(m, s) \in MissingImports(d) \cup UnusedImports(d)
                                     \cup UndefinedTypes(closure, d)
                                     \cup MissingStatus(d) \cup MissingDescription(d)
    PROVE  UndefinedType(m, s) \in UndefinedTypes(closure, d) /\ m.name = d.name
  <1> DEFINE f == UndefinedType(m, s)
  <1>1. f.check = "undefined-type" /\ f.module = m.name
    BY DEF UndefinedType, Finding
  <1> HIDE DEF f
  <1>2. f \notin MissingImports(d)
    <2> SUFFICES ASSUME f \in MissingImports(d) PROVE FALSE
      OBVIOUS
    <2>1. \E severity, q : f = Finding("missing-import", severity, d, q, None)
      BY Zenon DEF MissingImports
    <2> QED
      BY <1>1, <2>1 DEF Finding
  <1>3. f \notin UnusedImports(d) /\ f \notin MissingStatus(d) /\ f \notin MissingDescription(d)
    BY <1>1 DEF UnusedImports, MissingStatus, MissingDescription, Finding
  <1>4. f \in UndefinedTypes(closure, d)
    BY <1>2, <1>3 DEF f
  <1>5. f.module = d.name
    BY <1>4, ReferenceFindings
  <1> QED
    BY <1>1, <1>4, <1>5 DEF f

LEMMA TypesNext == LintInv /\ TypesInv /\ [Next]_vars => TypesInv'
  <1> SUFFICES ASSUME LintInv, TypesInv, [Next]_vars, phase' = "oids" PROVE TypesInv'
    BY DEF TypesInv
  <1>1. CASE ReferenceChecks
    <2>1. phase = "references" /\ modules' = modules
      BY <1>1 DEF ReferenceChecks, result
    <2>2. Closure = ToSet(modules)
      BY <2>1 DEF Closure, LintInv, FreshInv, IsFresh, ToSet
    <2>3. findings' = UNION {MissingImports(m) \cup UnusedImports(m)
                               \cup UndefinedTypes(ToSet(modules), m)
                               \cup MissingStatus(m) \cup MissingDescription(m) :
                             m \in ToSet(modules)}
      BY <1>1, <2>2, Zenon DEF ReferenceChecks, Inspected
    <2>4. FitTypes(ToSet(modules))
      BY ModulesAreFit DEF LintInv
    <2>5. ASSUME NEW m \in ToSet(modules), NEW s
          PROVE  UndefinedType(m, s) \in findings'
                     <=> UndefinedType(m, s) \in UndefinedTypes(ToSet(modules), m)
      <3>1. ASSUME UndefinedType(m, s) \in findings'
            PROVE  UndefinedType(m, s) \in UndefinedTypes(ToSet(modules), m)
        <4>1. PICK d \in ToSet(modules) :
                 UndefinedType(m, s) \in MissingImports(d) \cup UnusedImports(d)
                                     \cup UndefinedTypes(ToSet(modules), d)
                                     \cup MissingStatus(d) \cup MissingDescription(d)
          BY <2>3, <3>1, Zenon
        <4>2. UndefinedType(m, s) \in UndefinedTypes(ToSet(modules), d) /\ m.name = d.name
          BY <4>1, UndefinedOnly
        <4> QED
          BY <2>4, <4>2 DEF FitTypes
      <3> QED
        BY <2>3, <3>1
    <2> QED
      BY <2>1, <2>5 DEF TypesInv
  <1>2. CASE phase = "oids" /\ modules' = modules /\ findings' = findings
    BY <1>2 DEF TypesInv
  <1>3. ReferenceChecks \/ (phase = "oids" /\ modules' = modules /\ findings' = findings)
    <2>1. CASE Next
      BY <2>1 DEF Next, Lint, FixStep, Resolve, ResolveOids, OidChecks, Leave, Propose, RollBack,
                  Apply, Report, Again, Edit, result, report
    <2>2. CASE UNCHANGED vars
      BY <2>2 DEF vars, result, report
    <2> QED
      BY <2>1, <2>2
  <1> QED
    BY <1>1, <1>2, <1>3

LEMMA InvTypesAreExact == LintInv /\ TypesInv => TypesAreExact
  <1> DEFINE ms == ToSet(modules)
  <1> SUFFICES ASSUME LintInv, TypesInv, phase = "oids", NamesAgree(ms), NEW m \in ms,
                      NEW s \in SyntaxSymbols(m) \cap (Defined(m) \cup Imported(m))
               PROVE  UndefinedType(m, s) \in findings <=> ~IsBasedIn(ms, m, s)
    BY DEF TypesAreExact, UndefinedType, IsBasedIn
  <1>1. FitTypes(ms) /\ IsFiniteSet(UNION {TypeNames(d) : d \in ms})
    BY ModulesAreFit DEF LintInv
  <1>2. HasBase(ms, m, s) <=> IsBasedIn(ms, m, s)
    BY <1>1, HasBaseIs
  <1>3. s \in BuiltIn => IsBasedIn(ms, m, s)
    BY DEF IsBasedIn, IsBased
  <1> QED
    BY <1>2, <1>3, UndefinedIs DEF TypesInv

\* Whatever the modules, undefined-type is reported for just the types that
\* end in no base type, if a name of a type means the same everywhere.
THEOREM TypesAreAlwaysExact == Spec => []TypesAreExact
  <1>1. Init => TypesInv
    BY DEF Init, TypesInv
  <1> QED
    BY <1>1, TypesNext, InvTypesAreExact, LintInvariant, PTL DEF Spec
=============================================================================
