---------------------------- MODULE CompileProofs ----------------------------
(***************************************************************************)
(* What a run of the compiler guarantees for every result of the resolver, *)
(* every configuration and every number of runs before it.  The invariant  *)
(* follows the loops: which results have been told, which outputs are      *)
(* past, and which sidecars are older than the run.  The loops that        *)
(* compute a value (blocked, the OID index) are recursive functions; a     *)
(* property of theirs is proved from a least position that lacks it.       *)
(***************************************************************************)
EXTENDS Compile, Integers, FiniteSetTheorems, SequenceTheorems, WellFoundedInduction, TLAPS

\* A run has begun, and nothing has been raised.
Active == phase \notin {"idle", "raised"}

Errors == ErrorsIn(result)
Before == {result.modules[i] : i \in {k \in DOMAIN result.modules : k < at}}

\* The modules and errors that have their result.
GoodTold == (IF phase = "emit" THEN Before ELSE Resolved) \ blocked
BlockedTold ==
    blocked \cap (CASE phase = "emit" -> {} [] phase = "report" -> Before [] OTHER -> Resolved)
ErrorsTold == Errors \ left

\* The loops are past format j of module i.
Past(i, j) == phase # "emit" \/ i < at \/ (i = at /\ j < fmt)

WholeNow(f) == out[f] # None /\ out[f].run = run /\ out[f].whole

OlderThanRun(f) == out[f] # None => out[f].run < run

Reports == [name : Names, status : {"compiled", "cached", "failed", "missing"}]

LocalInv ==
    /\ run # 0
    /\ config \in Configs
    /\ result \in Resolutions
    /\ blocked = Blocked(result)
    /\ at \in 1 .. Len(result.modules) + 1
    /\ fmt \in 1 .. Len(config.formats)
    /\ fmt > 1 => Emitting
    /\ left \subseteq Errors
    /\ phase = "emit" => left = Errors
    /\ phase \notin {"emit", "report"} => left = {}
    /\ opened \in BOOLEAN
    /\ opened => Due
    /\ emitted \in Seq(Names)
    /\ results \in Seq(Reports)

CountInv ==
    \A n \in Names :
        /\ IsFiniteSet(Named(n))
        /\ Cardinality(Named(n)) = (IF n \in GoodTold \cup BlockedTold THEN 1 ELSE 0)
                                     + (IF n \in ErrorsTold THEN 1 ELSE 0)

StatusInv ==
    /\ Compiled = GoodTold
    /\ BlockedTold \cup ErrorsTold # {} =>
           \E r \in ToSet(results) : r.status \in FailingStatus

ReportInv == CountInv /\ StatusInv

\* The output of module i in format j.
Output(i, j) == <<result.modules[i], config.formats[j]>>

\* What is past was formatted, listed if it is JSON, and written whole.
OutputInv ==
    \A i \in DOMAIN result.modules, j \in DOMAIN config.formats :
        LET f == <<result.modules[i], config.formats[j]>> IN
        result.modules[i] \notin blocked /\ Past(i, j) /\ f \notin warned =>
            /\ config.dry_run \/ WholeNow(f)
            /\ config.formats[j] = "json" => result.modules[i] \in ToSet(emitted)

EmittedInv ==
    \A m \in ToSet(emitted) :
        \E i \in DOMAIN result.modules, j \in DOMAIN config.formats :
            /\ m = result.modules[i] /\ m \notin blocked
            /\ config.formats[j] = "json" /\ Past(i, j)
            /\ config.dry_run \/ WholeNow(<<m, "json">>)

SidecarInv ==
    /\ phase \in {"emit", "report"} => OlderThanRun(OidIndex)
    /\ phase \in {"emit", "report", "oid_index"} => OlderThanRun(Manifest)
    /\ phase \in {"manifest", "return", "done"} /\ HasIndex /\ ~config.dry_run =>
           WholeNow(OidIndex)
    /\ phase \in {"return", "done"} /\ config.emit_manifest /\ ~config.dry_run
           /\ emitted # <<>> => WholeNow(Manifest) /\ out[Manifest].files = Listed

\* The files a sidecar speaks of.
Behind(s) == out[s].files \cup {<<e.module, "json">> : e \in out[s].entries}

ListsInv ==
    /\ out[OidIndex] # None => Behind(OidIndex) \subseteq ModuleFiles
    /\ out[Manifest] # None => Behind(Manifest) \subseteq ModuleFiles \cup {OidIndex}

ExitInv ==
    /\ exit = 0 => phase = "done"
    /\ exit = 0 => \A r \in ToSet(results) : r.status \notin FailingStatus
    /\ phase = "done" => exit # None

ActiveInv ==
    LocalInv /\ ReportInv /\ OutputInv /\ EmittedInv /\ SidecarInv

CompileInv ==
    /\ SidecarsAreBacked
    /\ IndexIsUnambiguous
    /\ ListsInv
    /\ ExitInv
    /\ Active => ActiveInv
-----------------------------------------------------------------------------
(* Loops over 1 .. n.                                                      *)

\* < is well founded.
LEMMA NatIsWellFounded == IsWellFoundedOn({p \in Nat \X Nat : p[1] < p[2]}, Nat)
BY NatLessThanWellFounded DEF OpToRel

\* A set of naturals has a least one.
LEMMA LeastElement ==
    ASSUME NEW S \in SUBSET Nat, S # {}
    PROVE  \E n \in S : \A m \in S : n <= m
<1> DEFINE R == {p \in Nat \X Nat : p[1] < p[2]}
<1>1. IsWellFoundedOn(R, Nat)
  BY NatIsWellFounded
<1> HIDE DEF R
<1>2. PICK n \in S : \A m \in S : ~(<<m, n>> \in R)
  BY <1>1, WFMin
<1>3. \A m \in S : ~(m < n)
  BY <1>2 DEF R
<1> QED
  BY <1>3

\* f has the states of a loop over 1 .. n that starts in v0, state by state.
IsLoop(f, V, n, v0, step) ==
    /\ f \in [0 .. n -> V]
    /\ f[0] = v0
    /\ \A k \in 1 .. n : f[k] = step[k][f[k - 1]]

\* Such a loop computes something.
LEMMA LoopExists ==
    ASSUME NEW V, NEW n \in Nat, NEW v0 \in V, NEW step \in [1 .. n -> [V -> V]]
    PROVE  \E f : IsLoop(f, V, n, v0, step)
<1> DEFINE Bad == {m \in 0 .. n : ~ \E f : IsLoop(f, V, m, v0, step)}
<1>1. Bad = {}
  <2> SUFFICES ASSUME Bad # {} PROVE FALSE
    OBVIOUS
  <2>0. Bad \in SUBSET Nat
    OBVIOUS
  <2>1. PICK m \in Bad : \A k \in Bad : m <= k
    <3> HIDE DEF Bad
    <3> QED
      BY <2>0, LeastElement
  <2>2. m \in 0 .. n /\ ~ \E f : IsLoop(f, V, m, v0, step)
    BY <2>1
  <2>3. CASE m = 0
    <3>1. IsLoop([k \in 0 .. 0 |-> v0], V, 0, v0, step)
      BY DEF IsLoop
    <3>2. QED
      BY <2>2, <2>3, <3>1
  <2>4. CASE m # 0
    <3>1. m - 1 \in 0 .. n /\ m - 1 \notin Bad /\ m \in 1 .. n
      <4> HIDE DEF Bad
      <4>1. m \in 1 .. n
        BY <2>2, <2>4
      <4>2. m - 1 \in 0 .. n /\ ~(m <= m - 1)
        BY <4>1
      <4> QED
        BY <2>1, <4>1, <4>2
    <3>2. PICK f : IsLoop(f, V, m - 1, v0, step)
      BY <3>1
    <3>3. /\ f \in [0 .. m - 1 -> V] /\ f[0] = v0
          /\ \A k \in 1 .. m - 1 : f[k] = step[k][f[k - 1]]
      BY <3>2 DEF IsLoop
    <3>4. f[m - 1] \in V /\ step[m][f[m - 1]] \in V
      BY <3>1, <3>3
    <3> DEFINE g == [k \in 0 .. m |-> IF k = m THEN step[m][f[m - 1]] ELSE f[k]]
    <3>5. g \in [0 .. m -> V]
      BY <3>1, <3>3, <3>4
    <3>6. g[0] = v0
      BY <3>1, <3>3
    <3>7. \A k \in 1 .. m : g[k] = step[k][g[k - 1]]
      <4> TAKE k \in 1 .. m
      <4>1. CASE k = m
        <5>1. m \in 0 .. m /\ m - 1 \in 0 .. m /\ m - 1 # m
          BY <3>1
        <5>2. g[m] = step[m][f[m - 1]] /\ g[m - 1] = f[m - 1]
          BY <5>1
        <5> QED
          BY <4>1, <5>2
      <4>2. CASE k # m
        <5>1. k \in 1 .. m - 1 /\ k - 1 \in 0 .. m /\ k \in 0 .. m /\ k - 1 # m
          BY <4>2, <3>1
        <5>2. g[k] = f[k] /\ g[k - 1] = f[k - 1]
          BY <4>2, <5>1
        <5> QED
          BY <3>3, <5>1, <5>2
      <4> QED
        BY <4>1, <4>2
    <3> HIDE DEF g
    <3>8. IsLoop(g, V, m, v0, step)
      BY <3>5, <3>6, <3>7 DEF IsLoop
    <3> QED
      BY <2>2, <3>8
  <2> QED
    BY <2>3, <2>4
<1>2. n \in 0 .. n /\ n \notin Bad
  <2> HIDE DEF Bad
  <2> QED
    BY <1>1
<1> QED
  BY <1>2

\* Induction over the positions of a loop.
LEMMA LoopInduction ==
    ASSUME NEW n \in Nat, NEW S, 0 \in S, \A k \in 1 .. n : k - 1 \in S => k \in S
    PROVE  0 .. n \subseteq S
<1> DEFINE Bad == (0 .. n) \ S
<1> SUFFICES ASSUME Bad # {} PROVE FALSE
  OBVIOUS
<1>0. Bad \in SUBSET Nat
  OBVIOUS
<1>1. PICK m \in Bad : \A k \in Bad : m <= k
  <2> HIDE DEF Bad
  <2> QED
    BY <1>0, LeastElement
<1>2. m \in 0 .. n /\ m \notin S
  BY <1>1
<1>3. m # 0
  BY <1>2
<1>4. m - 1 \in 0 .. n /\ m - 1 \notin Bad /\ m \in 1 .. n
  BY <1>1, <1>2, <1>3
<1> QED
  BY <1>2, <1>4
-----------------------------------------------------------------------------
(* The loop over the modules.                                              *)

\* The recursive function of Blocked has its equation.
LEMMA BlockedLoop ==
    ASSUME NEW r \in Resolutions
    PROVE  \E after \in [0 .. Len(r.modules) -> SUBSET Names] :
               /\ Blocked(r) = after[Len(r.modules)]
               /\ after[0] = {}
               /\ \A k \in 1 .. Len(r.modules) : after[k] =
                      IF Unresolved(r, r.modules[k], after[k - 1]) # {}
                      THEN after[k - 1] \cup {r.modules[k]} ELSE after[k - 1]
<1> DEFINE n == Len(r.modules)
           V == SUBSET Names
           Step(k, B) == IF Unresolved(r, r.modules[k], B) # {}
                         THEN B \cup {r.modules[k]} ELSE B
           step == [k \in 1 .. n |-> [B \in V |-> Step(k, B)]]
           Loop(f) == f = [k \in 0 .. n |-> IF k = 0 THEN {} ELSE
                               IF Unresolved(r, r.modules[k], f[k - 1]) # {}
                               THEN f[k - 1] \cup {r.modules[k]} ELSE f[k - 1]]
<1>1. /\ n \in Nat /\ {} \in V
      /\ \A k \in 1 .. n : r.modules[k] \in Names
  BY ResolutionsAssumption DEF IsResolution
<1>2. step \in [1 .. n -> [V -> V]]
  BY <1>1
<1>3. \A k \in 1 .. n : \A B \in V : step[k][B] = Step(k, B)
  OBVIOUS
<1>4. PICK f : IsLoop(f, V, n, {}, step)
  <2>1. n \in Nat /\ {} \in V
    BY <1>1
  <2> HIDE DEF step, V, n
  <2> QED
    BY <2>1, <1>2, LoopExists
<1>5. Loop(f)
  <2> DEFINE g == [k \in 0 .. n |-> IF k = 0 THEN {} ELSE
                      IF Unresolved(r, r.modules[k], f[k - 1]) # {}
                      THEN f[k - 1] \cup {r.modules[k]} ELSE f[k - 1]]
  <2>1. \A k \in 0 .. n : f[k] = g[k]
    <3> TAKE k \in 0 .. n
    <3>1. CASE k = 0
      BY <3>1, <1>4 DEF IsLoop
    <3>2. CASE k # 0
      <4>1. k \in 1 .. n /\ k - 1 \in 0 .. n
        BY <3>2, <1>1
      <4>2. f[k] = step[k][f[k - 1]] /\ f[k - 1] \in V
        <5> HIDE DEF step, V
        <5> QED
          BY <4>1, <1>4 DEF IsLoop
      <4>3. f[k] = Step(k, f[k - 1])
        <5> HIDE DEF step, Step
        <5> QED
          BY <4>1, <4>2, <1>3
      <4> QED
        BY <3>2, <4>3
    <3> QED
      BY <3>1, <3>2
  <2>2. f = [k \in 0 .. n |-> f[k]]
    BY <1>4 DEF IsLoop
  <2>3. g = [k \in 0 .. n |-> g[k]]
    OBVIOUS
  <2>4. f = g
    <3> HIDE DEF g
    <3> QED
      BY <2>1, <2>2, <2>3
  <2> QED
    BY <2>4
<1> DEFINE after == CHOOSE g : Loop(g)
<1>6. Loop(after)
  <2> HIDE DEF Loop
  <2> QED
    BY <1>5
<1>7. Blocked(r) = after[n]
  BY DEF Blocked
<1> HIDE DEF after
<1>8. after[0] = {}
  BY <1>1, <1>6
<1>9. \A k \in 1 .. n : after[k] = Step(k, after[k - 1])
  <2> TAKE k \in 1 .. n
  <2>1. k \in 0 .. n /\ k # 0
    BY <1>1
  <2> QED
    BY <1>6, <2>1
<1>10. after \in [0 .. n -> V]
  <2>1. DOMAIN after = 0 .. n /\ after = [k \in 0 .. n |-> after[k]]
    BY <1>6
  <2> DEFINE S == {k \in 0 .. n : after[k] \in V}
  <2>2. 0 \in S
    BY <1>1, <1>8
  <2>3. \A k \in 1 .. n : k - 1 \in S => k \in S
    <3> TAKE k \in 1 .. n
    <3>1. k \in 0 .. n /\ r.modules[k] \in Names
      BY <1>1
    <3> QED
      BY <1>9, <3>1
  <2>4. 0 .. n \subseteq S
    <3> HIDE DEF S, n
    <3> QED
      BY <1>1, <2>2, <2>3, LoopInduction
  <2> QED
    BY <2>1, <2>4
<1> QED
  BY <1>7, <1>8, <1>9, <1>10

\* A module is blocked if one of its imports is unresolved, of the modules
\* blocked in the end.
LEMMA BlockedIsExact ==
    ASSUME NEW r \in Resolutions
    PROVE  /\ Blocked(r) \subseteq ToSet(r.modules)
           /\ \A m \in ToSet(r.modules) :
                  m \in Blocked(r) <=> Unresolved(r, m, Blocked(r) \ {m}) # {}
<1> DEFINE n == Len(r.modules)
           ms == r.modules
<1>1. /\ n \in Nat /\ DOMAIN ms = 1 .. n /\ ms \in [1 .. n -> Names]
      /\ \A i, j \in 1 .. n : ms[i] = ms[j] => i = j
  BY ResolutionsAssumption DEF IsInjective, IsResolution
<1>2. PICK after \in [0 .. n -> SUBSET Names] :
          /\ Blocked(r) = after[n]
          /\ after[0] = {}
          /\ \A k \in 1 .. n : after[k] =
                 IF Unresolved(r, ms[k], after[k - 1]) # {}
                 THEN after[k - 1] \cup {ms[k]} ELSE after[k - 1]
  BY BlockedLoop
<1> HIDE DEF n, ms
<1> DEFINE Blocks(k) == Unresolved(r, ms[k], after[k - 1]) # {}
           S == {k \in 0 .. n :
                   after[k] = {ms[i] : i \in {j \in 1 .. k : Blocks(j)}}}
<1>3. 0 .. n \subseteq S
  <2>1. 0 \in S
    BY <1>1, <1>2
  <2>2. \A k \in 1 .. n : k - 1 \in S => k \in S
    <3> SUFFICES ASSUME NEW k \in 1 .. n, k - 1 \in S PROVE k \in S
      OBVIOUS
    <3>1. after[k - 1] = {ms[i] : i \in {j \in 1 .. k - 1 : Blocks(j)}}
      OBVIOUS
    <3>2. after[k] = IF Blocks(k) THEN after[k - 1] \cup {ms[k]} ELSE after[k - 1]
      BY <1>2
    <3> HIDE DEF Blocks
    <3>3. \A j : j \in 1 .. k <=> j \in 1 .. k - 1 \/ j = k
      BY <1>1
    <3>4. after[k] = {ms[i] : i \in {j \in 1 .. k : Blocks(j)}}
      <4>1. CASE Blocks(k)
        <5>1. {j \in 1 .. k : Blocks(j)} = {j \in 1 .. k - 1 : Blocks(j)} \cup {k}
          BY <3>3, <4>1
        <5> QED
          BY <3>1, <3>2, <4>1, <5>1
      <4>2. CASE ~Blocks(k)
        <5>1. {j \in 1 .. k : Blocks(j)} = {j \in 1 .. k - 1 : Blocks(j)}
          BY <3>3, <4>2
        <5> QED
          BY <3>1, <3>2, <4>2, <5>1
      <4> QED
        BY <4>1, <4>2
    <3> QED
      BY <1>1, <3>4
  <2> HIDE DEF S
  <2> QED
    BY <1>1, <2>1, <2>2, LoopInduction
<1>4. \A k \in 0 .. n : after[k] = {ms[i] : i \in {j \in 1 .. k : Blocks(j)}}
  BY <1>3
<1> HIDE DEF Blocks
<1>5. Blocked(r) = {ms[i] : i \in {j \in 1 .. n : Blocks(j)}}
  BY <1>1, <1>2, <1>4
<1>6. ToSet(ms) = {ms[i] : i \in 1 .. n}
  BY <1>1 DEF ToSet
<1>7. Blocked(r) \subseteq ToSet(ms)
  BY <1>5, <1>6
<1>8. ASSUME NEW k \in 1 .. n
      PROVE  ms[k] \in Blocked(r) <=> Unresolved(r, ms[k], Blocked(r) \ {ms[k]}) # {}
  <2>1. ms[k] \in Blocked(r) <=> Blocks(k)
    BY <1>1, <1>5
  <2>2. k - 1 \in 0 .. n /\ after[k - 1] = {ms[i] : i \in {j \in 1 .. k - 1 : Blocks(j)}}
    BY <1>1, <1>4
  <2>3. after[k - 1] \subseteq Blocked(r) \ {ms[k]}
    <3>1. ASSUME NEW i \in 1 .. k - 1, Blocks(i) PROVE ms[i] \in Blocked(r) \ {ms[k]}
      <4>1. i \in 1 .. n /\ i # k
        BY <1>1
      <4> QED
        BY <1>1, <1>5, <3>1, <4>1
    <3> QED
      BY <2>2, <3>1
  <2>4. ASSUME NEW x \in r.imports[ms[k]], TargetIn(r, x) \in Blocked(r) \ {ms[k]}
        PROVE  TargetIn(r, x) \in after[k - 1]
    <3>1. PICK i \in 1 .. n : TargetIn(r, x) = ms[i] /\ Blocks(i)
      BY <1>5, <2>4
    <3>2. i < k
      <4>1. i # k
        BY <2>4, <3>1
      <4>2. /\ TargetIn(r, x) \in ToSet(ms)
            /\ IsInjective(ms)
            /\ \A y \in r.imports[ms[k]] :
                  TargetIn(r, y) \in ToSet(ms) => \E j \in 1 .. k - 1 : ms[j] = TargetIn(r, y)
        BY <1>1, <1>7, <2>4, ResolutionsAssumption DEF IsResolution, InOrder, ms
      <4>3. PICK j \in 1 .. k - 1 : ms[j] = TargetIn(r, x)
        BY <4>2
      <4>4. j = i
        BY <1>1, <3>1, <4>2, <4>3 DEF IsInjective
      <4> QED
        BY <1>1, <4>3, <4>4
    <3>3. i \in 1 .. k - 1
      BY <1>1, <3>2
    <3> QED
      BY <2>2, <3>1, <3>3
  <2>5. Unresolved(r, ms[k], after[k - 1]) = Unresolved(r, ms[k], Blocked(r) \ {ms[k]})
    BY <2>3, <2>4 DEF Unresolved
  <2> QED
    BY <2>1, <2>5 DEF Blocks
<1> QED
  BY <1>6, <1>7, <1>8 DEF ms
-----------------------------------------------------------------------------
(* The OID index.                                                          *)

AllClaims == UNION {ClaimsOf(m) : m \in Names}
Merges == [map : SUBSET AllClaims, duplicates : SUBSET {e.oid : e \in AllClaims}]

\* The claims of D whose OID no other claim of D has, and the other OIDs.
Alone(D) == {e \in D : \A x \in D : x.oid = e.oid => x = e}
Clashing(D) == {e.oid : e \in D \ Alone(D)}
Exactly(D) == [map |-> Alone(D), duplicates |-> Clashing(D)]

\* Merging a claim keeps the types.
LEMMA MergedType ==
    ASSUME NEW g \in Merges, NEW e \in AllClaims
    PROVE  Merged(g, e) \in Merges
<1>1. g.map \in SUBSET AllClaims /\ g.duplicates \in SUBSET {x.oid : x \in AllClaims}
  BY DEF Merges
<1>2. [g EXCEPT !.map = @ \cup {e}] = [map |-> g.map \cup {e}, duplicates |-> g.duplicates]
  BY DEF Merges
<1> QED
  BY <1>1, <1>2 DEF Merged, Merges

\* A new claim is dropped with those of its OID, or joins the index.
LEMMA MergedIsExact ==
    ASSUME NEW D \in SUBSET AllClaims, NEW e \in AllClaims, e \notin D
    PROVE  Merged(Exactly(D), e) = Exactly(D \cup {e})
<1> DEFINE g == Exactly(D)
           same == {x \in Alone(D) : x.oid = e.oid}
<1>1. g.map = Alone(D) /\ g.duplicates = Clashing(D)
  BY DEF Exactly
<1>2. CASE e.oid \in Clashing(D)
  <2>1. PICK x \in D \ Alone(D) : x.oid = e.oid
    BY <1>2 DEF Clashing
  <2>2. Alone(D \cup {e}) = Alone(D)
    BY <2>1 DEF Alone
  <2>3. Clashing(D \cup {e}) = Clashing(D)
    BY <2>1, <2>2 DEF Clashing
  <2> QED
    BY <1>1, <1>2, <2>2, <2>3 DEF Merged, Exactly
<1>3. CASE e.oid \notin Clashing(D) /\ same # {}
  <2>1. PICK x \in Alone(D) : x.oid = e.oid
    BY <1>3
  <2>2. Alone(D \cup {e}) = Alone(D) \ same
    BY <2>1 DEF Alone
  <2>3. (D \cup {e}) \ Alone(D \cup {e}) = (D \ Alone(D)) \cup same \cup {e}
    BY <2>2 DEF Alone
  <2>4. Clashing(D \cup {e}) = Clashing(D) \cup {e.oid}
    BY <2>3 DEF Clashing
  <2>5. Merged(g, e) = [map |-> g.map \ same, duplicates |-> g.duplicates \cup {e.oid}]
    BY <1>1, <1>3 DEF Merged
  <2> QED
    BY <1>1, <2>2, <2>4, <2>5 DEF Exactly
<1>4. CASE e.oid \notin Clashing(D) /\ same = {}
  <2>1. \A x \in D : x.oid # e.oid
    BY <1>4 DEF Clashing
  <2>2. Alone(D \cup {e}) = Alone(D) \cup {e}
    BY <2>1 DEF Alone
  <2>3. (D \cup {e}) \ Alone(D \cup {e}) = D \ Alone(D)
    BY <2>2
  <2>4. Clashing(D \cup {e}) = Clashing(D)
    BY <2>3 DEF Clashing
  <2>5. Merged(g, e) = [g EXCEPT !.map = @ \cup {e}]
    BY <1>1, <1>4 DEF Merged
  <2>6. [g EXCEPT !.map = @ \cup {e}] = [map |-> g.map \cup {e}, duplicates |-> g.duplicates]
    BY DEF Exactly
  <2> QED
    BY <1>1, <2>2, <2>4, <2>5, <2>6 DEF Exactly
<1> QED
  BY <1>2, <1>3, <1>4

\* The recursive function of WithModule has its equation.
LEMMA WithModuleLoop ==
    ASSUME NEW m \in Names, NEW g \in Merges
    PROVE  \E after \in [0 .. Len(OidsOf[m]) -> Merges] :
               /\ WithModule(g, m) = after[Len(OidsOf[m])]
               /\ after[0] = g
               /\ \A k \in 1 .. Len(OidsOf[m]) : after[k] =
                      IF OidsOf[m][k] = None THEN after[k - 1]
                      ELSE Merged(after[k - 1], Claim(m, k))
<1> DEFINE n == Len(OidsOf[m])
           V == Merges
           Step(k, B) == IF OidsOf[m][k] = None THEN B ELSE Merged(B, Claim(m, k))
           step == [k \in 1 .. n |-> [B \in V |-> Step(k, B)]]
           Loop(f) == f = [k \in 0 .. n |-> IF k = 0 THEN g
                               ELSE IF OidsOf[m][k] = None THEN f[k - 1]
                               ELSE Merged(f[k - 1], Claim(m, k))]
<1>1. n \in Nat /\ g \in V
  BY OidsAssumption
<1>2. \A k \in 1 .. n : OidsOf[m][k] # None => Claim(m, k) \in AllClaims
  <2>1. DOMAIN OidsOf[m] = 1 .. n
    BY OidsAssumption
  <2> QED
    BY <2>1 DEF AllClaims, ClaimsOf
<1>3. \A k \in 1 .. n : \A B \in V : Step(k, B) \in V
  BY <1>2, MergedType
<1>4. step \in [1 .. n -> [V -> V]]
  <2> HIDE DEF Step, V
  <2> QED
    BY <1>3
<1>5. \A k \in 1 .. n : \A B \in V : step[k][B] = Step(k, B)
  <2> HIDE DEF Step, V
  <2> QED
    OBVIOUS
<1>6. PICK f : IsLoop(f, V, n, g, step)
  <2> HIDE DEF step, V, n
  <2> QED
    BY <1>1, <1>4, LoopExists
<1>7. Loop(f)
  <2> DEFINE h == [k \in 0 .. n |-> IF k = 0 THEN g
                      ELSE IF OidsOf[m][k] = None THEN f[k - 1]
                      ELSE Merged(f[k - 1], Claim(m, k))]
  <2>1. \A k \in 0 .. n : f[k] = h[k]
    <3> TAKE k \in 0 .. n
    <3>1. CASE k = 0
      BY <3>1, <1>6 DEF IsLoop
    <3>2. CASE k # 0
      <4>1. k \in 1 .. n /\ k - 1 \in 0 .. n
        BY <3>2, <1>1
      <4>2. f[k] = step[k][f[k - 1]] /\ f[k - 1] \in V
        <5> HIDE DEF step, V
        <5> QED
          BY <4>1, <1>6 DEF IsLoop
      <4>3. f[k] = Step(k, f[k - 1])
        <5> HIDE DEF step, Step, V
        <5> QED
          BY <4>1, <4>2, <1>5
      <4> QED
        BY <3>2, <4>3
    <3> QED
      BY <3>1, <3>2
  <2>2. f = [k \in 0 .. n |-> f[k]]
    BY <1>6 DEF IsLoop
  <2>3. h = [k \in 0 .. n |-> h[k]]
    OBVIOUS
  <2>4. f = h
    <3> HIDE DEF h
    <3> QED
      BY <2>1, <2>2, <2>3
  <2> QED
    BY <2>4
<1> DEFINE after == CHOOSE h : Loop(h)
<1>8. Loop(after)
  <2> HIDE DEF Loop
  <2> QED
    BY <1>7
<1>9. WithModule(g, m) = after[n]
  BY DEF WithModule
<1> HIDE DEF after
<1>10. after[0] = g
  BY <1>1, <1>8
<1>11. \A k \in 1 .. n : after[k] = Step(k, after[k - 1])
  <2> TAKE k \in 1 .. n
  <2>1. k \in 0 .. n /\ k # 0
    BY <1>1
  <2> QED
    BY <1>8, <2>1
<1>12. after \in [0 .. n -> V]
  <2>1. DOMAIN after = 0 .. n /\ after = [k \in 0 .. n |-> after[k]]
    BY <1>8
  <2> DEFINE S == {k \in 0 .. n : after[k] \in V}
  <2>2. 0 \in S
    BY <1>1, <1>10
  <2>3. \A k \in 1 .. n : k - 1 \in S => k \in S
    <3> TAKE k \in 1 .. n
    <3>1. k \in 0 .. n
      BY <1>1
    <3> HIDE DEF Step, V
    <3> QED
      BY <1>3, <1>11, <3>1
  <2>4. 0 .. n \subseteq S
    <3> HIDE DEF S, n
    <3> QED
      BY <1>1, <2>2, <2>3, LoopInduction
  <2> QED
    BY <2>1, <2>4
<1> QED
  BY <1>9, <1>10, <1>11, <1>12

\* The loop over a module's objects keeps the types.
LEMMA WithModuleType ==
    ASSUME NEW m \in Names, NEW g \in Merges
    PROVE  WithModule(g, m) \in Merges
<1> DEFINE n == Len(OidsOf[m])
<1>1. PICK after \in [0 .. n -> Merges] : WithModule(g, m) = after[n]
  BY WithModuleLoop
<1>2. n \in 0 .. n
  BY OidsAssumption
<1> QED
  BY <1>1, <1>2

\* The loop over a module's objects adds its claims.
LEMMA WithModuleIsExact ==
    ASSUME NEW m \in Names, NEW D \in SUBSET AllClaims, D \cap ClaimsOf(m) = {},
           Exactly(D) \in Merges
    PROVE  /\ WithModule(Exactly(D), m) = Exactly(D \cup ClaimsOf(m))
           /\ Exactly(D \cup ClaimsOf(m)) \in Merges
<1> DEFINE n == Len(OidsOf[m])
<1>1. n \in Nat /\ DOMAIN OidsOf[m] = 1 .. n
  BY OidsAssumption
<1>2. PICK after \in [0 .. n -> Merges] :
          /\ WithModule(Exactly(D), m) = after[n]
          /\ after[0] = Exactly(D)
          /\ \A k \in 1 .. n : after[k] =
                 IF OidsOf[m][k] = None THEN after[k - 1]
                 ELSE Merged(after[k - 1], Claim(m, k))
  BY WithModuleLoop
<1> DEFINE Upto(k) == {Claim(m, i) : i \in {j \in 1 .. k : OidsOf[m][j] # None}}
           S == {k \in 0 .. n : after[k] = Exactly(D \cup Upto(k))}
<1>3. Upto(n) = ClaimsOf(m)
  BY <1>1 DEF ClaimsOf
<1>4. \A k \in 0 .. n : Upto(k) \subseteq ClaimsOf(m)
  BY <1>1 DEF ClaimsOf
<1>5. ClaimsOf(m) \subseteq AllClaims
  BY DEF AllClaims
<1> HIDE DEF n
<1>6. 0 .. n \subseteq S
  <2>1. 0 \in S
    <3>1. D \cup Upto(0) = D
      OBVIOUS
    <3> HIDE DEF Upto
    <3>2. Exactly(D \cup Upto(0)) = Exactly(D)
      BY <3>1
    <3>3. 0 \in 0 .. n
      BY <1>1
    <3> QED
      BY <1>2, <3>2, <3>3
  <2>2. \A k \in 1 .. n : k - 1 \in S => k \in S
    <3> SUFFICES ASSUME NEW k \in 1 .. n, k - 1 \in S PROVE k \in S
      OBVIOUS
    <3>1. after[k - 1] = Exactly(D \cup Upto(k - 1)) /\ k - 1 \in 0 .. n /\ k \in 0 .. n
      BY <1>1
    <3>2. \A j : j \in 1 .. k <=> j \in 1 .. k - 1 \/ j = k
      BY <1>1
    <3>3. after[k] = Exactly(D \cup Upto(k))
      <4>1. CASE OidsOf[m][k] = None
        <5>1. {j \in 1 .. k : OidsOf[m][j] # None} = {j \in 1 .. k - 1 : OidsOf[m][j] # None}
          BY <3>2, <4>1
        <5>2. Upto(k) = Upto(k - 1)
          BY <5>1
        <5> HIDE DEF Upto
        <5> QED
          BY <1>2, <3>1, <4>1, <5>2
      <4>2. CASE OidsOf[m][k] # None
        <5>1. {j \in 1 .. k : OidsOf[m][j] # None}
                  = {j \in 1 .. k - 1 : OidsOf[m][j] # None} \cup {k}
          BY <3>2, <4>2
        <5>2. Upto(k) = Upto(k - 1) \cup {Claim(m, k)}
          BY <5>1
        <5>3. Claim(m, k) \in ClaimsOf(m)
          BY <1>1, <4>2 DEF ClaimsOf, n
        <5>4. Claim(m, k) \notin Upto(k - 1)
          <6>1. \A j \in 1 .. k - 1 : j # k
            BY <1>1
          <6> QED
            BY <6>1 DEF Claim
        <5> HIDE DEF Upto
        <5>5. D \cup Upto(k - 1) \in SUBSET AllClaims /\ Claim(m, k) \notin D \cup Upto(k - 1)
          BY <1>4, <1>5, <3>1, <5>3, <5>4
        <5>6. Merged(Exactly(D \cup Upto(k - 1)), Claim(m, k))
                  = Exactly((D \cup Upto(k - 1)) \cup {Claim(m, k)})
          BY <1>5, <5>3, <5>5, MergedIsExact
        <5>7. (D \cup Upto(k - 1)) \cup {Claim(m, k)} = D \cup Upto(k)
          BY <5>2
        <5> QED
          BY <1>2, <3>1, <4>2, <5>6, <5>7
      <4> QED
        BY <4>1, <4>2
    <3> QED
      BY <3>1, <3>3
  <2> HIDE DEF S
  <2> QED
    BY <1>1, <2>1, <2>2, LoopInduction
<1>7. n \in 0 .. n
  BY <1>1
<1> HIDE DEF Upto
<1>8. after[n] = Exactly(D \cup ClaimsOf(m)) /\ after[n] \in Merges
  BY <1>2, <1>3, <1>6, <1>7
<1> QED
  BY <1>2, <1>8

\* The artifacts are the modules, each once.
LEMMA ArtifactsAreAll ==
    ASSUME NEW ms \in Seq(Names)
    PROVE  /\ Artifacts(ms) \in Seq(Names)
           /\ IsInjective(Artifacts(ms))
           /\ {Artifacts(ms)[i] : i \in 1 .. Len(Artifacts(ms))} = ToSet(ms)
<1> DEFINE S == ToSet(ms)
           n == Cardinality(S)
<1>1. IsFiniteSet(S) /\ S \subseteq Names
  <2>1. DOMAIN ms = 1 .. Len(ms) /\ Len(ms) \in Nat /\ ms \in [1 .. Len(ms) -> Names]
    OBVIOUS
  <2>2. S = {ms[i] : i \in 1 .. Len(ms)}
    BY <2>1 DEF ToSet
  <2>3. IsFiniteSet(1 .. Len(ms))
    BY <2>1, FS_Interval
  <2>4. ms \in Surjection(1 .. Len(ms), S)
    BY <2>1, <2>2 DEF Surjection
  <2>5. IsFiniteSet(S)
    <3> HIDE DEF S
    <3> QED
      BY <2>3, <2>4, FS_Surjection
  <2> QED
    BY <2>1, <2>2, <2>5
<1> HIDE DEF S
<1>2. n \in Nat /\ ExistsBijection(1 .. n, S)
  BY <1>1, FS_CardinalityType
<1>3. \E f \in [1 .. n -> S] : IsInjective(f)
  <2>1. PICK f : f \in Bijection(1 .. n, S)
    BY <1>2 DEF ExistsBijection
  <2> QED
    BY <2>1 DEF Bijection, Injection, IsInjective
<1>4. /\ Artifacts(ms) \in [1 .. n -> S]
      /\ IsInjective(Artifacts(ms))
  BY <1>3 DEF Artifacts, SetToSeq, S
<1>5. /\ Artifacts(ms) \in Seq(Names)
      /\ Len(Artifacts(ms)) = n
  BY <1>1, <1>2, <1>4
<1>6. Artifacts(ms) \in Surjection(1 .. n, S)
  <2>1. Artifacts(ms) \in Injection(1 .. n, S)
    BY <1>4 DEF Injection, IsInjective
  <2>2. Cardinality(1 .. n) = n
    BY <1>2, FS_Interval
  <2> QED
    BY <1>1, <2>1, <2>2, FS_Injection
<1>7. \A x \in S : \E i \in 1 .. n : Artifacts(ms)[i] = x
  BY <1>6 DEF Surjection
<1> QED
  BY <1>4, <1>5, <1>7 DEF S

\* The recursive function of Index has its equation, where the merges stay
\* exact.
LEMMA IndexLoop ==
    ASSUME NEW ms \in Seq(Names)
    PROVE  \E after :
               /\ Index(ms) = after[Len(Artifacts(ms))].map
               /\ after[0] = NoEntries
               /\ \A i \in 1 .. Len(Artifacts(ms)) :
                      after[i] = WithModule(after[i - 1], Artifacts(ms)[i])
<1> DEFINE as == Artifacts(ms)
           n == Len(as)
           V == Merges
           step == [i \in 1 .. n |-> [B \in V |-> WithModule(B, as[i])]]
           Loop(f) == f = [i \in 0 .. n |-> IF i = 0 THEN NoEntries
                               ELSE WithModule(f[i - 1], as[i])]
<1>1. n \in Nat /\ \A i \in 1 .. n : as[i] \in Names
  BY ArtifactsAreAll
<1> HIDE DEF as
<1>2. NoEntries \in V
  BY DEF NoEntries, Merges
<1>3. \A i \in 1 .. n : \A B \in V : WithModule(B, as[i]) \in V
  <2> SUFFICES ASSUME NEW i \in 1 .. n, NEW B \in V PROVE WithModule(B, as[i]) \in V
    OBVIOUS
  <2>1. as[i] \in Names
    BY <1>1
  <2> QED
    BY <2>1, WithModuleType
<1> HIDE DEF V, n
<1>4. step \in [1 .. n -> [V -> V]]
  BY <1>3
<1>5. \A i \in 1 .. n : \A B \in V : step[i][B] = WithModule(B, as[i])
  OBVIOUS
<1>6. PICK f : IsLoop(f, V, n, NoEntries, step)
  <2> HIDE DEF step, n
  <2> QED
    BY <1>1, <1>2, <1>4, LoopExists
<1>7. Loop(f)
  <2> DEFINE h == [i \in 0 .. n |-> IF i = 0 THEN NoEntries
                      ELSE WithModule(f[i - 1], as[i])]
  <2>1. \A i \in 0 .. n : f[i] = h[i]
    <3> TAKE i \in 0 .. n
    <3>1. CASE i = 0
      BY <3>1, <1>6 DEF IsLoop
    <3>2. CASE i # 0
      <4>1. i \in 1 .. n /\ i - 1 \in 0 .. n
        BY <3>2, <1>1
      <4>2. f[i] = step[i][f[i - 1]] /\ f[i - 1] \in V
        <5> HIDE DEF step
        <5> QED
          BY <4>1, <1>6 DEF IsLoop
      <4>3. f[i] = WithModule(f[i - 1], as[i])
        <5> HIDE DEF step
        <5> QED
          BY <4>1, <4>2, <1>5
      <4> QED
        BY <3>2, <4>3
    <3> QED
      BY <3>1, <3>2
  <2>2. f = [i \in 0 .. n |-> f[i]]
    BY <1>6 DEF IsLoop
  <2>3. h = [i \in 0 .. n |-> h[i]]
    OBVIOUS
  <2>4. f = h
    <3> HIDE DEF h
    <3> QED
      BY <2>1, <2>2, <2>3
  <2> QED
    BY <2>4
<1> DEFINE after == CHOOSE h : Loop(h)
<1>8. Loop(after)
  <2> HIDE DEF Loop
  <2> QED
    BY <1>7
<1>9. Index(ms) = after[n].map
  BY DEF Index, as, n
<1> HIDE DEF after
<1>10. after[0] = NoEntries
  BY <1>1, <1>8
<1>11. \A i \in 1 .. n : after[i] = WithModule(after[i - 1], as[i])
  <2> TAKE i \in 1 .. n
  <2>1. i \in 0 .. n /\ i # 0
    BY <1>1
  <2> QED
    BY <1>8, <2>1
<1> QED
  BY <1>9, <1>10, <1>11 DEF as, n

\* A claim has the module it is a claim of.
LEMMA ModuleOfClaim ==
    ASSUME NEW m, NEW e \in ClaimsOf(m)
    PROVE  e.module = m
BY DEF ClaimsOf, Claim

\* The index of ms has the claims that no other claim contradicts.
LEMMA IndexIsExact ==
    ASSUME NEW ms \in Seq(Names)
    PROVE  Index(ms) = Alone(Claims(ms))
<1> DEFINE as == Artifacts(ms)
           n == Len(as)
<1>1. /\ n \in Nat /\ as \in [1 .. n -> Names]
      /\ \A i, j \in 1 .. n : as[i] = as[j] => i = j
      /\ {as[i] : i \in 1 .. n} = ToSet(ms)
  BY ArtifactsAreAll DEF IsInjective
<1> HIDE DEF as
<1>2. PICK after :
          /\ Index(ms) = after[n].map
          /\ after[0] = NoEntries
          /\ \A i \in 1 .. n : after[i] = WithModule(after[i - 1], as[i])
  BY IndexLoop DEF as
<1> DEFINE First(k) == UNION {ClaimsOf(as[i]) : i \in 1 .. k}
           S == {k \in 0 .. n : after[k] = Exactly(First(k)) /\ after[k] \in Merges}
<1>3. First(n) = Claims(ms)
  <2>1. {ClaimsOf(as[i]) : i \in 1 .. n} = {ClaimsOf(m) : m \in {as[i] : i \in 1 .. n}}
    OBVIOUS
  <2> HIDE DEF n
  <2> QED
    BY <1>1, <2>1 DEF Claims
<1> HIDE DEF n
<1>4. \A k \in 0 .. n : First(k) \in SUBSET AllClaims
  <2> SUFFICES ASSUME NEW k \in 0 .. n, NEW i \in 1 .. k PROVE ClaimsOf(as[i]) \subseteq AllClaims
    OBVIOUS
  <2>1. i \in 1 .. n
    BY <1>1
  <2>2. as[i] \in Names
    BY <1>1, <2>1
  <2> QED
    BY <2>2 DEF AllClaims
<1>5. 0 .. n \subseteq S
  <2>1. 0 \in S
    <3>1. First(0) = {}
      OBVIOUS
    <3>2. NoEntries = Exactly({})
      BY DEF NoEntries, Exactly, Alone, Clashing
    <3>3. NoEntries \in Merges
      BY DEF NoEntries, Merges
    <3>4. 0 \in 0 .. n
      BY <1>1
    <3> HIDE DEF First
    <3> QED
      BY <1>2, <3>1, <3>2, <3>3, <3>4
  <2>2. \A k \in 1 .. n : k - 1 \in S => k \in S
    <3> SUFFICES ASSUME NEW k \in 1 .. n, k - 1 \in S PROVE k \in S
      OBVIOUS
    <3>1. /\ after[k - 1] = Exactly(First(k - 1)) /\ after[k - 1] \in Merges
          /\ k - 1 \in 0 .. n /\ k \in 0 .. n
      BY <1>1
    <3>2. \A j : j \in 1 .. k <=> j \in 1 .. k - 1 \/ j = k
      BY <1>1
    <3>3. First(k) = First(k - 1) \cup ClaimsOf(as[k])
      BY <3>2
    <3>4. First(k - 1) \cap ClaimsOf(as[k]) = {}
      <4> SUFFICES ASSUME NEW i \in 1 .. k - 1, NEW e \in ClaimsOf(as[i]), e \in ClaimsOf(as[k])
                   PROVE FALSE
        OBVIOUS
      <4>1. e.module = as[i] /\ e.module = as[k]
        BY ModuleOfClaim
      <4>2. i \in 1 .. n /\ i # k
        BY <1>1
      <4> QED
        BY <1>1, <4>1, <4>2
    <3>5. as[k] \in Names /\ First(k - 1) \in SUBSET AllClaims
      BY <1>1, <1>4, <3>1
    <3> HIDE DEF First
    <3>6. /\ WithModule(after[k - 1], as[k]) = Exactly(First(k))
          /\ Exactly(First(k)) \in Merges
      BY <3>1, <3>3, <3>4, <3>5, WithModuleIsExact
    <3> QED
      BY <1>2, <3>1, <3>6
  <2> HIDE DEF S
  <2> QED
    BY <1>1, <2>1, <2>2, LoopInduction
<1>6. n \in 0 .. n
  BY <1>1
<1> HIDE DEF First
<1>7. after[n] = Exactly(Claims(ms))
  BY <1>3, <1>5, <1>6
<1> QED
  BY <1>2, <1>7 DEF Exactly
-----------------------------------------------------------------------------
(* The steps.                                                              *)
USE DEF FailureArtifact, FailingStatus

\* What a resolver's result is like.
LEMMA ResultFacts ==
    ASSUME NEW r \in Resolutions
    PROVE  /\ Len(r.modules) \in Nat /\ DOMAIN r.modules = 1 .. Len(r.modules)
           /\ \A i \in 1 .. Len(r.modules) : r.modules[i] \in Names
           /\ \A i, j \in 1 .. Len(r.modules) : r.modules[i] = r.modules[j] => i = j
           /\ ToSet(r.modules) = {r.modules[i] : i \in 1 .. Len(r.modules)}
           /\ Blocked(r) \subseteq ToSet(r.modules)
           /\ ToSet(r.modules) \subseteq Names
           /\ ErrorsIn(r) \subseteq Names
           /\ \A n \in ErrorsIn(r) : r.errors[n] \in {"missing", "failed"}
<1>1. /\ r.modules \in Seq(Names) /\ IsInjective(r.modules)
      /\ r.errors \in [Names -> {"missing", "failed", None}]
  BY ResolutionsAssumption DEF IsResolution
<1>2. Blocked(r) \subseteq ToSet(r.modules)
  BY BlockedIsExact
<1> QED
  BY <1>1, <1>2 DEF IsInjective, ToSet, ErrorsIn

\* What a configuration is like.
LEMMA ConfigFacts ==
    ASSUME NEW c \in Configs
    PROVE  /\ Len(c.formats) \in Nat \ {0} /\ DOMAIN c.formats = 1 .. Len(c.formats)
           /\ \A i, j \in 1 .. Len(c.formats) : c.formats[i] = c.formats[j] => i = j
           /\ ToSet(c.formats) = {c.formats[i] : i \in 1 .. Len(c.formats)}
           /\ c.dry_run \in BOOLEAN /\ c.emit_oid_index \in BOOLEAN
           /\ c.emit_manifest \in BOOLEAN
BY ConfigsAssumption DEF IsInjective, ToSet

\* The part of a step that ends a format.
LEMMA NextFormatLocal ==
    ASSUME LocalInv, TypeOK, Emitting, NEW a \in BOOLEAN, NextFormat(a)
    PROVE  LocalInv'
<1>1. /\ config \in Configs /\ result \in Resolutions
      /\ at \in 1 .. Len(result.modules) + 1 /\ fmt \in 1 .. Len(config.formats)
      /\ emitted \in Seq(Names)
      /\ results \in Seq(Reports)
  BY DEF LocalInv
<1>2. /\ UNCHANGED <<run, phase, config, result, blocked, left>> /\ opened' = FALSE /\ run # 0
      /\ phase = "emit" /\ at <= Len(result.modules) /\ Current \notin blocked
  BY DEF NextFormat, Emitting, LocalInv
<1>3. Len(result.modules) \in Nat /\ Current \in Names
  BY <1>1, <1>2, ResultFacts DEF Current
<1>4. Len(config.formats) \in Nat \ {0}
  BY <1>1, ConfigFacts
<1>5. emitted' \in Seq(Names)
  BY <1>1, <1>3 DEF NextFormat
<1>6. results' \in Seq(Reports)
  <2>1. CASE fmt < Len(config.formats)
    BY <1>1, <2>1 DEF NextFormat
  <2>2. CASE ~(fmt < Len(config.formats))
    <3>1. PICK s \in {"compiled", "cached"} :
              results' = Append(results, [name |-> Current, status |-> s])
      BY <2>2 DEF NextFormat
    <3>2. [name |-> Current, status |-> s]
              \in Reports
      BY <1>3 DEF Reports
    <3> QED
      BY <1>1, <3>1, <3>2
  <2> QED
    BY <2>1, <2>2
<1>7. /\ at' \in 1 .. Len(result.modules) + 1 /\ fmt' \in 1 .. Len(config.formats)
      /\ fmt' > 1 => at' = at
  BY SMTT(30), <1>1, <1>2, <1>3, <1>4 DEF NextFormat
<1>8. fmt' > 1 => Emitting'
  BY <1>2, <1>7 DEF Emitting, Current
<1> QED
  BY <1>1, <1>2, <1>5, <1>6, <1>7, <1>8 DEF LocalInv, Errors

\* A step of a run keeps the locals of compile() what they are.
LEMMA LocalStep ==
    ASSUME TypeOK, Active => LocalInv, Next, Active'
    PROVE  LocalInv'
<1>1. CASE Begin
  <2>1. /\ config' \in Configs /\ result' \in Resolutions /\ blocked' = Blocked(result')
        /\ left' = ErrorsIn(result') /\ phase' = "emit" /\ Forget
    BY <1>1 DEF Begin
  <2>2. Len(result'.modules) \in Nat
    BY <2>1, ResultFacts
  <2>3. Len(config'.formats) \in Nat \ {0}
    BY <2>1, ConfigFacts
  <2>4. at' \in 1 .. Len(result'.modules) + 1 /\ fmt' \in 1 .. Len(config'.formats)
    BY <2>1, <2>2, <2>3 DEF Forget
  <2>5. emitted' \in Seq(Names) /\ results' \in Seq(Reports)
    BY <2>1 DEF Forget
  <2>6. ~(fmt' > 1) /\ opened' = FALSE /\ run' # 0
    BY <1>1, <2>1 DEF Forget, Begin, TypeOK
  <2> QED
    BY <2>1, <2>4, <2>5, <2>6 DEF LocalInv, Errors
<1> SUFFICES ASSUME ~Begin PROVE LocalInv'
  BY <1>1
<1>2. Active /\ LocalInv
  BY DEF Active, Next, BeginFails, SkipBlocked, FormatFails, DryRun, Open, Write, Due, Emitting,
         WriteFails, EmitDone, ReportBlocked, ReportError, ReportDone, SkipSidecar, Return, Kill
<1>3. /\ config \in Configs /\ result \in Resolutions
      /\ at \in 1 .. Len(result.modules) + 1 /\ fmt \in 1 .. Len(config.formats)
      /\ Len(result.modules) \in Nat /\ Len(config.formats) \in Nat \ {0}
  BY <1>2, ResultFacts, ConfigFacts DEF LocalInv
<1>4. CASE FormatFails
  BY <1>2, <1>4, NextFormatLocal DEF FormatFails
<1>5. CASE DryRun
  BY <1>2, <1>5, NextFormatLocal DEF DryRun
<1>6. CASE Write
  <2>1. CASE phase = "emit"
    BY <1>2, <1>6, <2>1, NextFormatLocal DEF Write, Due
  <2>2. CASE phase # "emit"
    <3>1. NextPhase /\ phase \in {"oid_index", "manifest"}
      BY <1>6, <2>2 DEF Write, Due, Emitting
    <3> QED
      BY <1>2, <3>1 DEF NextPhase, LocalInv, Errors, Emitting
  <2> QED
    BY <2>1, <2>2
<1>7. CASE SkipSidecar
  BY <1>2, <1>7 DEF SkipSidecar, NextPhase, LocalInv, Errors, Emitting
<1>8. CASE SkipBlocked
  BY <1>2, <1>3, <1>8 DEF SkipBlocked, LocalInv, Errors, Emitting, Due
<1>9. CASE Open
  BY <1>2, <1>9 DEF Open, LocalInv, Errors, Emitting, Due, Current, Wanted
<1>10. CASE EmitDone
  BY <1>2, <1>3, <1>10 DEF EmitDone, LocalInv, Errors, Emitting, Due
<1>11. CASE ReportBlocked
  <2>1. Current \in Names
    BY <1>3, <1>11, ResultFacts DEF ReportBlocked, Current
  <2>2. results' \in Seq(Reports)
    <3>1. [name |-> Current, status |-> "failed"]
              \in Reports
      BY <2>1 DEF Reports
    <3>2. results \in Seq(Reports) /\ results' \in {results, Append(results, [name |-> Current, status |-> "failed"])}
      BY <1>2, <1>11 DEF LocalInv, ReportBlocked
    <3> QED
      BY <3>1, <3>2
  <2> QED
    BY <1>2, <1>3, <1>11, <2>2 DEF ReportBlocked, LocalInv, Errors, Emitting, Due
<1>12. CASE ReportError
  <2>1. PICK n \in left : /\ results' = Append(results, [name |-> n, status |-> result.errors[n]])
                          /\ left' = left \ {n}
    BY <1>12 DEF ReportError
  <2>2. n \in Names /\ result.errors[n] \in {"missing", "failed"}
    BY <1>2, <1>3, <2>1, ResultFacts DEF LocalInv, Errors
  <2>3. [name |-> n, status |-> result.errors[n]]
              \in Reports
    BY <2>2 DEF Reports
  <2>4. results' \in Seq(Reports)
    BY <1>2, <2>1, <2>3 DEF LocalInv
  <2> QED
    BY <1>2, <1>3, <1>12, <2>1, <2>4 DEF ReportError, LocalInv, Errors, Emitting, Due
<1>13. CASE ReportDone
  BY <1>2, <1>3, <1>13 DEF ReportDone, local, LocalInv, Errors, Emitting, Due
<1>14. CASE Return
  BY <1>2, <1>3, <1>14 DEF Return, LocalInv, Errors, Emitting, Due
<1> QED
  BY <1>4, <1>5, <1>6, <1>7, <1>8, <1>9, <1>10, <1>11, <1>12, <1>13, <1>14
     DEF Next, Active, BeginFails, WriteFails, Kill

\* What a result more changes.
LEMMA Appended ==
    ASSUME results \in Seq(Reports), NEW r \in Reports, results' = Append(results, r)
    PROVE  /\ \A n : Named(n)' = IF n = r.name THEN Named(n) \cup {Len(results) + 1}
                                 ELSE Named(n)
           /\ \A n : Len(results) + 1 \notin Named(n)
           /\ Compiled' = Compiled \cup
                  (IF r.status \in {"compiled", "cached"} THEN {r.name} ELSE {})
           /\ ToSet(results)' = ToSet(results) \cup {r}
<1>1. /\ Len(results) \in Nat /\ DOMAIN results = 1 .. Len(results)
      /\ DOMAIN results' = 1 .. Len(results) + 1
      /\ results'[Len(results) + 1] = r
      /\ \A i \in 1 .. Len(results) : results'[i] = results[i]
  OBVIOUS
<1>2. \A i : i \in DOMAIN results' <=> i \in DOMAIN results \/ i = Len(results) + 1
  BY <1>1
<1>3. \A n : Len(results) + 1 \notin Named(n)
  BY <1>1 DEF Named
<1>4. \A n : Named(n)' = IF n = r.name THEN Named(n) \cup {Len(results) + 1} ELSE Named(n)
  <2> SUFFICES ASSUME NEW n
               PROVE  Named(n)' = IF n = r.name THEN Named(n) \cup {Len(results) + 1}
                                  ELSE Named(n)
    OBVIOUS
  <2>1. \A i : i \in Named(n)' <=>
            i \in Named(n) \/ (i = Len(results) + 1 /\ n = r.name)
    BY <1>1, <1>2 DEF Named
  <2> QED
    BY <2>1
<1>5. ToSet(results') = ToSet(results) \cup {r}
  BY <1>1, <1>2 DEF ToSet
<1>6. Compiled' = {q.name : q \in {p \in ToSet(results) \cup {r} : p.status \in {"compiled", "cached"}}}
  BY <1>5 DEF Compiled
<1>7. Compiled' = Compiled \cup
          (IF r.status \in {"compiled", "cached"} THEN {r.name} ELSE {})
  BY <1>6 DEF Compiled
<1> QED
  BY <1>3, <1>4, <1>5, <1>7

\* The modules that have their result.
Told == GoodTold \cup BlockedTold

\* A name more among the modules or the errors that have their result.
LEMMA CountAppended ==
    ASSUME CountInv, results \in Seq(Reports), NEW r \in Reports,
           results' = Append(results, r),
           \/ r.name \notin Told /\ Told' = Told \cup {r.name} /\ UNCHANGED ErrorsTold
           \/ r.name \notin ErrorsTold /\ ErrorsTold' = ErrorsTold \cup {r.name}
                /\ UNCHANGED Told
    PROVE  CountInv'
<1> SUFFICES ASSUME NEW n \in Names
             PROVE  /\ IsFiniteSet(Named(n)')
                    /\ Cardinality(Named(n)') = (IF n \in Told' THEN 1 ELSE 0)
                                                  + (IF n \in ErrorsTold' THEN 1 ELSE 0)
  BY DEF CountInv, Told
<1>1. /\ IsFiniteSet(Named(n))
      /\ Cardinality(Named(n)) = (IF n \in Told THEN 1 ELSE 0)
                                   + (IF n \in ErrorsTold THEN 1 ELSE 0)
  BY DEF CountInv, Told
<1>2. /\ Named(n)' = IF n = r.name THEN Named(n) \cup {Len(results) + 1} ELSE Named(n)
      /\ Len(results) + 1 \notin Named(n)
  BY Appended
<1>3. CASE n = r.name
  <2>1. /\ IsFiniteSet(Named(n) \cup {Len(results) + 1})
        /\ Cardinality(Named(n) \cup {Len(results) + 1}) = Cardinality(Named(n)) + 1
    BY <1>1, <1>2, FS_AddElement
  <2>2. Named(n)' = Named(n) \cup {Len(results) + 1}
    BY <1>2, <1>3
  <2>3. Cardinality(Named(n)) + 1 = (IF n \in Told' THEN 1 ELSE 0)
                                      + (IF n \in ErrorsTold' THEN 1 ELSE 0)
    BY <1>1, <1>3
  <2> QED
    BY <2>1, <2>2, <2>3
<1>4. CASE n # r.name
  <2>1. Named(n)' = Named(n) /\ (n \in Told' <=> n \in Told)
            /\ (n \in ErrorsTold' <=> n \in ErrorsTold)
    BY <1>2, <1>4
  <2> QED
    BY <1>1, <2>1
<1> QED
  BY <1>3, <1>4

\* No result, nothing told.
LEMMA TellNothing ==
    ASSUME ReportInv, UNCHANGED <<results, GoodTold, BlockedTold, ErrorsTold>>
    PROVE  ReportInv'
<1>1. Compiled' = Compiled /\ \A n : Named(n)' = Named(n)
  BY DEF Compiled, Named
<1> QED
  BY <1>1 DEF ReportInv, CountInv, StatusInv

\* A module that could be compiled gets its result.
LEMMA TellGood ==
    ASSUME ReportInv, results \in Seq(Reports), NEW r \in Reports,
           results' = Append(results, r), r.status \in {"compiled", "cached"},
           r.name \notin Told, GoodTold' = GoodTold \cup {r.name},
           UNCHANGED <<BlockedTold, ErrorsTold>>
    PROVE  ReportInv'
<1>1. Told' = Told \cup {r.name}
  BY DEF Told
<1>2. CountInv'
  BY <1>1, CountAppended DEF ReportInv
<1>3. Compiled' = Compiled \cup {r.name} /\ ToSet(results)' = ToSet(results) \cup {r}
  BY Appended
<1>4. StatusInv'
  BY <1>3 DEF ReportInv, StatusInv
<1> QED
  BY <1>2, <1>4 DEF ReportInv

\* A blocked module or an error gets its result.
LEMMA TellFailed ==
    ASSUME ReportInv, results \in Seq(Reports), NEW r \in Reports,
           results' = Append(results, r), r.status \in {"failed", "missing"},
           UNCHANGED GoodTold,
           \/ r.name \notin Told /\ BlockedTold' = BlockedTold \cup {r.name}
                /\ UNCHANGED ErrorsTold
           \/ r.name \notin ErrorsTold /\ ErrorsTold' = ErrorsTold \cup {r.name}
                /\ UNCHANGED BlockedTold
    PROVE  ReportInv'
<1>1. \/ r.name \notin Told /\ Told' = Told \cup {r.name} /\ UNCHANGED ErrorsTold
      \/ r.name \notin ErrorsTold /\ ErrorsTold' = ErrorsTold \cup {r.name} /\ UNCHANGED Told
  BY DEF Told
<1>2. CountInv'
  BY <1>1, CountAppended DEF ReportInv
<1>3. Compiled' = Compiled /\ ToSet(results)' = ToSet(results) \cup {r}
  BY Appended
<1>4. StatusInv'
  BY <1>3 DEF ReportInv, StatusInv
<1> QED
  BY <1>2, <1>4 DEF ReportInv

\* The loops over the modules.
LEMMA LoopPosition ==
    ASSUME LocalInv
    PROVE  /\ at <= Len(result.modules) =>
                  Current \in Resolved /\ Current \in Names /\ Current \notin Before
           /\ at <= Len(result.modules) /\ at' = at + 1 /\ UNCHANGED result =>
                  Before' = Before \cup {Current}
           /\ at > Len(result.modules) => Before = Resolved
           /\ Before \subseteq Resolved
<1>1. result \in Resolutions /\ at \in 1 .. Len(result.modules) + 1
  BY DEF LocalInv
<1> DEFINE ms == result.modules
           n == Len(ms)
<1>2. /\ n \in Nat /\ DOMAIN ms = 1 .. n
      /\ \A i \in 1 .. n : ms[i] \in Names
      /\ \A i, j \in 1 .. n : ms[i] = ms[j] => i = j
      /\ Resolved = {ms[i] : i \in 1 .. n}
  BY <1>1, ResultFacts DEF Resolved
<1>3. at \in Nat /\ (at <= n => at \in 1 .. n)
  BY <1>1, <1>2
<1>4. Before = {ms[i] : i \in {k \in 1 .. n : k < at}}
  BY <1>2 DEF Before
<1>5. at <= n => Current \in Resolved /\ Current \in Names /\ Current \notin Before
  BY <1>2, <1>3, <1>4 DEF Current
<1>6. ASSUME at <= n, at' = at + 1, UNCHANGED result PROVE Before' = Before \cup {Current}
  <2>1. Before' = {ms[i] : i \in {k \in 1 .. n : k < at + 1}}
    BY <1>2, <1>6 DEF Before
  <2>2. {k \in 1 .. n : k < at + 1} = {k \in 1 .. n : k < at} \cup {at}
    BY <1>2, <1>3, <1>6
  <2> QED
    BY <1>4, <2>1, <2>2 DEF Current
<1>7. ASSUME at > n PROVE Before = Resolved
  <2>1. {k \in 1 .. n : k < at} = 1 .. n
    BY <1>2, <1>3, <1>7
  <2> QED
    BY <1>2, <1>4, <2>1
<1>8. Before \subseteq Resolved
  BY <1>2, <1>4
<1> QED
  BY <1>5, <1>6, <1>7, <1>8

\* Nothing comes before the first module.
LEMMA LoopStart ==
    ASSUME result' \in Resolutions, at' = 1
    PROVE  Before' = {}
BY ResultFacts DEF Before

\* The end of a format tells the module's result after its last format.
LEMMA NextFormatReport ==
    ASSUME LocalInv, ReportInv, Emitting, NEW a \in BOOLEAN, NextFormat(a)
    PROVE  ReportInv'
<1>1. /\ phase = "emit" /\ at <= Len(result.modules) /\ Current \notin blocked
      /\ UNCHANGED <<phase, config, result, blocked, left>>
      /\ results \in Seq(Reports)
  BY DEF Emitting, NextFormat, LocalInv
<1>2. UNCHANGED <<BlockedTold, ErrorsTold>> /\ BlockedTold = {}
  BY <1>1 DEF BlockedTold, ErrorsTold, Errors, Resolved
<1>3. Current \in Names /\ Current \notin Before
  BY <1>1, LoopPosition
<1>4. CASE fmt < Len(config.formats)
  <2>1. UNCHANGED <<results, at>>
    BY <1>4 DEF NextFormat
  <2>2. UNCHANGED GoodTold
    BY <1>1, <2>1 DEF GoodTold, Before, Resolved
  <2> QED
    BY <1>2, <2>1, <2>2, TellNothing
<1>5. CASE ~(fmt < Len(config.formats))
  <2>1. at' = at + 1
    BY <1>5 DEF NextFormat
  <2>2. PICK s \in {"compiled", "cached"} :
            results' = Append(results, [name |-> Current, status |-> s])
    BY <1>5 DEF NextFormat
  <2>3. PICK r \in Reports : r = [name |-> Current, status |-> s]
    BY <1>3 DEF Reports
  <2>4. GoodTold = Before \ blocked /\ GoodTold' = Before' \ blocked
    BY <1>1 DEF GoodTold
  <2>5. Before' = Before \cup {Current}
    BY <1>1, <2>1, LoopPosition
  <2>6. r.name \notin Told /\ GoodTold' = GoodTold \cup {r.name}
    BY <1>1, <1>2, <1>3, <2>3, <2>4, <2>5 DEF Told
  <2> QED
    BY <1>1, <1>2, <2>2, <2>3, <2>6, TellGood
<1> QED
  BY <1>4, <1>5

\* A step of a run keeps the report exact so far.
LEMMA ReportStep ==
    ASSUME Active => LocalInv /\ ReportInv, LocalInv', Next, Active'
    PROVE  ReportInv'
<1>1. CASE Begin
  <2>1. /\ results' = <<>> /\ at' = 1 /\ result' \in Resolutions
        /\ phase' = "emit" /\ left' = Errors'
    BY <1>1 DEF Begin, Forget, Errors
  <2>2. Before' = {}
    BY <2>1, LoopStart
  <2>3. GoodTold' = {} /\ BlockedTold' = {} /\ ErrorsTold' = {}
    BY <2>1, <2>2 DEF GoodTold, BlockedTold, ErrorsTold
  <2>4. ToSet(results') = {} /\ \A n : Named(n)' = {}
    BY <2>1 DEF ToSet, Named
  <2>5. Compiled' = {}
    BY <2>4 DEF Compiled
  <2>6. CountInv'
    BY <2>3, <2>4, FS_EmptySet DEF CountInv
  <2>7. StatusInv'
    BY <2>3, <2>5 DEF StatusInv
  <2> QED
    BY <2>6, <2>7 DEF ReportInv
<1> SUFFICES ASSUME ~Begin PROVE ReportInv'
  BY <1>1
<1>2. Active /\ LocalInv /\ ReportInv
  BY DEF Active, Next, BeginFails, SkipBlocked, FormatFails, DryRun, Open, Write, Due, Emitting,
         WriteFails, EmitDone, ReportBlocked, ReportError, ReportDone, SkipSidecar, Return, Kill
<1>3. /\ result \in Resolutions /\ results \in Seq(Reports)
      /\ at \in 1 .. Len(result.modules) + 1 /\ Len(result.modules) \in Nat
      /\ left \subseteq Errors /\ blocked \subseteq Resolved
  BY <1>2, ResultFacts DEF LocalInv, Resolved
<1>4. CASE FormatFails
  BY <1>2, <1>4, NextFormatReport DEF FormatFails
<1>5. CASE DryRun
  BY <1>2, <1>5, NextFormatReport DEF DryRun
<1>6. ASSUME phase # "emit", phase' # "emit", phase' # "report",
             UNCHANGED <<results, result, blocked, left>>, phase # "report"
      PROVE  ReportInv'
  <2>1. UNCHANGED <<GoodTold, BlockedTold, ErrorsTold>>
    BY <1>6 DEF GoodTold, BlockedTold, ErrorsTold, Errors, Resolved
  <2> QED
    BY <1>2, <1>6, <2>1, TellNothing
<1>7. CASE Write
  <2>1. CASE phase = "emit"
    BY <1>2, <1>7, <2>1, NextFormatReport DEF Write, Due
  <2>2. CASE phase # "emit"
    <3>1. NextPhase /\ phase \in {"oid_index", "manifest"}
      BY <1>7, <2>2 DEF Write, Due, Emitting
    <3> QED
      BY <1>6, <3>1 DEF NextPhase
  <2> QED
    BY <2>1, <2>2
<1>8. CASE SkipSidecar
  BY <1>6, <1>8 DEF SkipSidecar, NextPhase
<1>9. CASE Return
  BY <1>6, <1>9 DEF Return
<1>10. CASE SkipBlocked
  <2>1. Before' = Before \cup {Current}
    BY <1>2, <1>10, LoopPosition DEF SkipBlocked
  <2>2. UNCHANGED <<GoodTold, BlockedTold, ErrorsTold, results>>
    BY <1>10, <2>1 DEF SkipBlocked, GoodTold, BlockedTold, ErrorsTold, Errors
  <2> QED
    BY <1>2, <2>2, TellNothing
<1>11. CASE Open
  <2>1. UNCHANGED <<GoodTold, BlockedTold, ErrorsTold, results>>
    BY <1>11 DEF Open, GoodTold, BlockedTold, ErrorsTold, Errors, Before, Resolved
  <2> QED
    BY <1>2, <2>1, TellNothing
<1>12. CASE EmitDone
  <2>1. /\ phase = "emit" /\ phase' = "report" /\ at > Len(result.modules) /\ at' = 1
        /\ UNCHANGED <<results, result, blocked, left>>
    BY <1>12 DEF EmitDone
  <2>2. Before = Resolved
    BY <1>2, <2>1, LoopPosition
  <2>3. Before' = {}
    BY <1>3, <2>1, LoopStart
  <2>4. UNCHANGED Resolved
    BY <2>1 DEF Resolved
  <2>5. UNCHANGED <<GoodTold, BlockedTold, ErrorsTold>>
    BY <2>1, <2>2, <2>3, <2>4 DEF GoodTold, BlockedTold, ErrorsTold, Errors
  <2> QED
    BY <1>2, <2>1, <2>5, TellNothing
<1>13. CASE ReportDone
  <2>1. /\ phase = "report" /\ phase' = "oid_index" /\ at > Len(result.modules)
        /\ UNCHANGED <<results, result, blocked, left>>
    BY <1>13 DEF ReportDone, local
  <2>2. Before = Resolved
    BY <1>2, <2>1, LoopPosition
  <2>3. UNCHANGED Resolved
    BY <2>1 DEF Resolved
  <2>4. UNCHANGED <<GoodTold, BlockedTold, ErrorsTold>>
    BY <2>1, <2>2, <2>3 DEF GoodTold, BlockedTold, ErrorsTold, Errors
  <2> QED
    BY <1>2, <2>1, <2>4, TellNothing
<1>14. CASE ReportBlocked
  <2>1. /\ phase = "report" /\ at <= Len(result.modules) /\ at' = at + 1
        /\ UNCHANGED <<phase, result, blocked, left>>
    BY <1>14 DEF ReportBlocked
  <2>2. Before' = Before \cup {Current} /\ Current \notin Before
            /\ Current \in Names /\ Current \in Resolved
    BY <1>2, <2>1, LoopPosition
  <2>3. UNCHANGED <<Resolved, GoodTold, ErrorsTold>>
    BY <2>1 DEF Resolved, GoodTold, ErrorsTold, Errors
  <2>4. BlockedTold = blocked \cap Before /\ BlockedTold' = blocked \cap Before'
    BY <2>1 DEF BlockedTold
  <2>5. CASE Current \in blocked
    <3>1. PICK r \in Reports : r = [name |-> Current, status |-> "failed"]
      BY <2>2 DEF Reports
    <3>2. results' = Append(results, r)
      BY <1>14, <2>5, <3>1 DEF ReportBlocked
    <3>3. r.name \notin Told
      BY <2>1, <2>2, <2>4, <2>5, <3>1 DEF Told, GoodTold
    <3>4. BlockedTold' = BlockedTold \cup {r.name}
      BY <2>2, <2>4, <2>5, <3>1
    <3> QED
      BY <1>2, <1>3, <2>3, <3>1, <3>2, <3>3, <3>4, TellFailed
  <2>6. CASE Current \notin blocked
    <3>1. UNCHANGED results
      BY <1>14, <2>6 DEF ReportBlocked
    <3>2. UNCHANGED BlockedTold
      BY <2>2, <2>4, <2>6
    <3> QED
      BY <1>2, <2>3, <3>1, <3>2, TellNothing
  <2> QED
    BY <2>5, <2>6
<1>15. CASE ReportError
  <2>1. PICK n \in left : /\ results' = Append(results, [name |-> n, status |-> result.errors[n]])
                          /\ left' = left \ {n}
    BY <1>15 DEF ReportError
  <2>2. n \in Errors /\ n \in Names /\ result.errors[n] \in {"missing", "failed"}
    BY <1>3, <2>1, ResultFacts DEF Errors
  <2>3. PICK r \in Reports : r = [name |-> n, status |-> result.errors[n]]
    BY <2>2 DEF Reports
  <2>4. UNCHANGED <<phase, result, blocked, at>>
    BY <1>15 DEF ReportError
  <2>5. UNCHANGED <<GoodTold, BlockedTold>>
    BY <2>4 DEF GoodTold, BlockedTold, Resolved, Before
  <2>6. r.name \notin ErrorsTold /\ ErrorsTold' = ErrorsTold \cup {r.name}
    BY <2>1, <2>2, <2>3, <2>4 DEF ErrorsTold, Errors
  <2> QED
    BY <1>2, <1>3, <2>1, <2>2, <2>3, <2>5, <2>6, TellFailed
<1> QED
  BY <1>4, <1>5, <1>7, <1>8, <1>9, <1>10, <1>11, <1>12, <1>13, <1>14, <1>15
     DEF Next, Active, BeginFails, WriteFails, Kill
-----------------------------------------------------------------------------
(* The files.                                                              *)

\* Sidecars are no module files.
LEMMA FilesApart ==
    /\ OidIndex # Manifest
    /\ \A m \in Names, x \in STRING : <<m, x>> \notin Sidecars
BY NoneAssumption DEF OidIndex, Manifest, Sidecars

\* The file under way.
LEMMA FileUnderWay ==
    ASSUME LocalInv, Due
    PROVE  /\ File \in ModuleFiles \cup Sidecars
           /\ ~config.dry_run
           /\ Emitting => File = <<Current, Format>> /\ File \notin Sidecars
                            /\ File[1] = Current /\ File[2] = Format
           /\ ~Emitting => File = IF phase = "oid_index" THEN OidIndex ELSE Manifest
<1>1. config \in Configs /\ result \in Resolutions /\ fmt \in 1 .. Len(config.formats)
  BY DEF LocalInv
<1>2. ~config.dry_run
  BY DEF Due, Wanted
<1>3. CASE Emitting
  <2>1. phase = "emit" /\ File = <<Current, Format>>
    BY <1>3 DEF Emitting, File
  <2>2. Current \in Names
    BY <1>3, LoopPosition DEF Emitting
  <2>3. Format \in ToSet(config.formats) /\ Format \in STRING
    <3>1. config.formats \in Seq(STRING)
      BY <1>1, ConfigsAssumption
    <3>2. /\ config.formats[fmt] \in STRING
          /\ fmt \in DOMAIN config.formats
      BY <1>1, <3>1
    <3> QED
      BY <3>2 DEF Format, ToSet
  <2>4. File \in ModuleFiles
    <3>1. Format \in UNION {ToSet(c.formats) : c \in Configs}
      BY <1>1, <2>3
    <3> QED
      BY <2>1, <2>2, <3>1 DEF ModuleFiles
  <2> QED
    BY <1>2, <1>3, <2>1, <2>2, <2>3, <2>4, FilesApart
<1>4. CASE ~Emitting
  BY <1>2, <1>4 DEF Due, File, Sidecars
<1> QED
  BY <1>3, <1>4

\* Listed modules have a JSON file.
LEMMA EmittedFiles ==
    ASSUME LocalInv, EmittedInv
    PROVE  \A m \in ToSet(emitted) : m \in Names /\ <<m, "json">> \in ModuleFiles
<1> SUFFICES ASSUME NEW m \in ToSet(emitted)
             PROVE  m \in Names /\ <<m, "json">> \in ModuleFiles
  OBVIOUS
<1>1. config \in Configs /\ result \in Resolutions
  BY DEF LocalInv
<1>2. PICK i \in DOMAIN result.modules, j \in DOMAIN config.formats :
          /\ m = result.modules[i] /\ m \notin blocked
          /\ config.formats[j] = "json" /\ Past(i, j)
          /\ config.dry_run \/ WholeNow(<<m, "json">>)
  BY ZenonT(60) DEF EmittedInv
<1>3. m \in Names
  <2>1. /\ DOMAIN result.modules = 1 .. Len(result.modules)
        /\ \A k \in 1 .. Len(result.modules) : result.modules[k] \in Names
    BY <1>1, ResultFacts
  <2> QED
    BY <1>2, <2>1
<1>4. "json" \in ToSet(config.formats)
  BY <1>2 DEF ToSet
<1> QED
  BY <1>1, <1>3, <1>4 DEF ModuleFiles

\* What a step writes is what is known of files.
LEMMA WrittenTypes ==
    ASSUME TypeOK, LocalInv, EmittedInv, Due
    PROVE  Cut \in Written /\ Whole(File) \in Written
<1>1. run \in Nat
  BY DEF TypeOK
<1>2. Listed \subseteq ModuleFiles \cup Sidecars
  BY EmittedFiles DEF Listed, Sidecars
<1>3. Index(emitted) \subseteq UNION {ClaimsOf(m) : m \in Names}
  <2>1. Index(emitted) \subseteq Claims(emitted)
    BY IndexIsExact DEF LocalInv, Alone
  <2> QED
    BY <2>1, EmittedFiles DEF Claims
<1> QED
  BY <1>1, <1>2, <1>3 DEF Cut, Whole, Written

\* Every step keeps the types, and the runs of the files.
LEMMA TypeStep ==
    ASSUME TypeOK, Active => ActiveInv, Next
    PROVE  TypeOK'
<1>1. /\ out \in [ModuleFiles \cup Sidecars -> Written \cup {None}]
      /\ \A f \in ModuleFiles \cup Sidecars : out[f] # None => out[f].run \in 1 .. run
      /\ run \in Nat
      /\ phase \in {"idle", "emit", "report", "oid_index", "manifest", "return", "done", "raised"}
      /\ exit \in {None, 0, 1}
  BY DEF TypeOK
<1>2. phase' \in {"idle", "emit", "report", "oid_index", "manifest", "return", "done", "raised"}
      /\ exit' \in {None, 0, 1}
  BY <1>1 DEF Next, Begin, BeginFails, SkipBlocked, FormatFails, DryRun, Open, Write, Forget,
     NextFormat, NextPhase, WriteFails, EmitDone, ReportBlocked, ReportError, ReportDone,
     SkipSidecar, Return, Kill, Gone, local
<1>3. CASE UNCHANGED out /\ run' \in {run, run + 1}
  <2>1. run' \in Nat /\ run <= run'
    BY <1>1, <1>3
  <2>2. \A f \in ModuleFiles \cup Sidecars : out'[f] # None => out'[f].run \in 1 .. run'
    BY <1>1, <1>3, <2>1
  <2> QED
    BY <1>1, <1>2, <1>3, <2>1, <2>2 DEF TypeOK
<1>4. ASSUME NEW w \in Written, w.run = run, UNCHANGED run, Due, LocalInv,
             out' = [out EXCEPT ![File] = w]
      PROVE  TypeOK'
  <2>1. File \in ModuleFiles \cup Sidecars
    BY <1>4, FileUnderWay
  <2>2. out' \in [ModuleFiles \cup Sidecars -> Written \cup {None}]
    BY <1>1, <1>4, <2>1
  <2>3. \A f \in ModuleFiles \cup Sidecars : out'[f] # None => out'[f].run \in 1 .. run'
    BY <1>1, <1>4, <2>1 DEF LocalInv
  <2> QED
    BY <1>1, <1>2, <1>4, <2>2, <2>3 DEF TypeOK
<1>5. CASE Open
  <2>1. Active /\ ActiveInv
    BY <1>5 DEF Open, Due, Emitting, Active
  <2>2. Cut \in Written /\ Cut.run = run
    BY <1>5, <2>1, WrittenTypes DEF Open, ActiveInv, Cut
  <2> QED
    BY <1>4, <1>5, <2>1, <2>2 DEF Open, ActiveInv
<1>6. CASE Write
  <2>1. Active /\ ActiveInv
    BY <1>6 DEF Write, Due, Emitting, Active
  <2>2. Whole(File) \in Written /\ Whole(File).run = run
    BY <1>6, <2>1, WrittenTypes DEF Write, ActiveInv, Whole
  <2>3. UNCHANGED run
    BY <1>6 DEF Write, NextFormat, NextPhase
  <2> QED
    BY <1>4, <1>6, <2>1, <2>2, <2>3 DEF Write, ActiveInv
<1>7. CASE ~Open /\ ~Write
  BY <1>1, <1>3, <1>7 DEF Next, Begin, BeginFails, SkipBlocked, FormatFails, DryRun,
     NextFormat, NextPhase, WriteFails, EmitDone, ReportBlocked, ReportError, ReportDone,
     SkipSidecar, Return, Kill
<1> QED
  BY <1>5, <1>6, <1>7

\* The output of a module in a format is a file of its own.
LEMMA OutputFiles ==
    ASSUME LocalInv
    PROVE  /\ \A i \in DOMAIN result.modules, j \in DOMAIN config.formats :
                  Output(i, j) \in ModuleFiles /\ Output(i, j) \notin Sidecars
           /\ \A i, k \in DOMAIN result.modules, j, l \in DOMAIN config.formats :
                  Output(i, j) = Output(k, l) => i = k /\ j = l
           /\ Emitting => /\ at \in DOMAIN result.modules /\ fmt \in DOMAIN config.formats
                          /\ File = Output(at, fmt)
                          /\ ~Past(at, fmt)
<1>1. config \in Configs /\ result \in Resolutions /\ fmt \in 1 .. Len(config.formats)
      /\ at \in 1 .. Len(result.modules) + 1
  BY DEF LocalInv
<1>2. \A i \in DOMAIN result.modules : result.modules[i] \in Names
  BY <1>1, ResultFacts
<1>3. \A j \in DOMAIN config.formats :
          config.formats[j] \in ToSet(config.formats) /\ config.formats[j] \in STRING
  BY <1>1, ConfigsAssumption DEF ToSet
<1>4. \A i \in DOMAIN result.modules, j \in DOMAIN config.formats :
          Output(i, j) \in ModuleFiles /\ Output(i, j) \notin Sidecars
  BY <1>1, <1>2, <1>3, FilesApart DEF Output, ModuleFiles
<1>5. \A i, k \in DOMAIN result.modules, j, l \in DOMAIN config.formats :
          Output(i, j) = Output(k, l) => i = k /\ j = l
  <2> SUFFICES ASSUME NEW i \in DOMAIN result.modules, NEW k \in DOMAIN result.modules,
                      NEW j \in DOMAIN config.formats, NEW l \in DOMAIN config.formats,
                      Output(i, j) = Output(k, l)
               PROVE  i = k /\ j = l
    OBVIOUS
  <2>1. result.modules[i] = result.modules[k] /\ config.formats[j] = config.formats[l]
    BY DEF Output
  <2> QED
    BY ZenonT(60), <1>1, <2>1, ResultFacts, ConfigFacts
<1>6. Emitting => /\ at \in DOMAIN result.modules /\ fmt \in DOMAIN config.formats
                  /\ File = Output(at, fmt)
                  /\ ~Past(at, fmt)
  BY <1>1, ResultFacts, ConfigFacts DEF Emitting, File, Output, Current, Format, Past
<1> QED
  BY <1>4, <1>5, <1>6

\* The end of a format passes one output more.
LEMMA PastAdvances ==
    ASSUME LocalInv, Emitting, NEW a \in BOOLEAN, NextFormat(a),
           NEW i \in DOMAIN result.modules, NEW j \in DOMAIN config.formats
    PROVE  Past(i, j)' <=> Past(i, j) \/ (i = at /\ j = fmt)
<1>1. /\ config \in Configs /\ result \in Resolutions
      /\ at \in 1 .. Len(result.modules) + 1 /\ fmt \in 1 .. Len(config.formats)
  BY DEF LocalInv
<1>2. /\ Len(result.modules) \in Nat /\ i \in 1 .. Len(result.modules)
      /\ Len(config.formats) \in Nat /\ j \in 1 .. Len(config.formats)
  BY <1>1, ResultFacts, ConfigFacts
<1>3. phase = "emit" /\ phase' = "emit"
  BY DEF Emitting, NextFormat
<1>4. CASE fmt < Len(config.formats)
  BY SMTT(30), <1>1, <1>2, <1>3, <1>4 DEF NextFormat, Past
<1>5. CASE ~(fmt < Len(config.formats))
  BY SMTT(30), <1>1, <1>2, <1>3, <1>5 DEF NextFormat, Past
<1> QED
  BY <1>4, <1>5

\* WholeNow in the next state, of a file of this state.
WholeAfter(f) == out'[f] # None /\ out'[f].run = run' /\ out'[f].whole

OutputsInv == OutputInv /\ EmittedInv

\* Nothing new is past, and what is past remains.
LEMMA OutputsKept ==
    ASSUME OutputsInv, UNCHANGED <<run, config, result, blocked, warned, emitted>>,
           \A i \in DOMAIN result.modules, j \in DOMAIN config.formats :
               /\ Past(i, j) => Past(i, j)'
               /\ Past(i, j) /\ WholeNow(Output(i, j)) => WholeAfter(Output(i, j))
               /\ Past(i, j)' => Past(i, j) \/ result.modules[i] \in blocked
    PROVE  OutputsInv'
<1>1. OutputInv'
  <2> SUFFICES ASSUME NEW i \in DOMAIN result.modules, NEW j \in DOMAIN config.formats,
                      result.modules[i] \notin blocked, Past(i, j)', Output(i, j) \notin warned
               PROVE  /\ config.dry_run \/ WholeAfter(Output(i, j))
                      /\ config.formats[j] = "json" => result.modules[i] \in ToSet(emitted)
    BY DEF OutputInv, Output, WholeNow, WholeAfter
  <2>1. Past(i, j)
    OBVIOUS
  <2>2. /\ config.dry_run \/ WholeNow(Output(i, j))
        /\ config.formats[j] = "json" => result.modules[i] \in ToSet(emitted)
    BY <2>1 DEF OutputsInv, OutputInv, Output
  <2> QED
    BY <2>1, <2>2
<1>2. EmittedInv'
  <2> SUFFICES ASSUME NEW m \in ToSet(emitted)'
               PROVE  \E i \in DOMAIN result'.modules, j \in DOMAIN config'.formats :
                          /\ m = result'.modules[i] /\ m \notin blocked'
                          /\ config'.formats[j] = "json" /\ Past(i, j)'
                          /\ config'.dry_run \/ WholeAfter(<<m, "json">>)
    BY DEF EmittedInv, WholeNow, WholeAfter
  <2>1. PICK i \in DOMAIN result.modules, j \in DOMAIN config.formats :
            /\ m = result.modules[i] /\ m \notin blocked
            /\ config.formats[j] = "json" /\ Past(i, j)
            /\ config.dry_run \/ WholeNow(<<m, "json">>)
    BY DEF OutputsInv, EmittedInv
  <2>2. Output(i, j) = <<m, "json">>
    BY <2>1 DEF Output
  <2>3. config.dry_run \/ WholeAfter(<<m, "json">>)
    BY <2>1, <2>2
  <2> QED
    BY <2>1, <2>3
<1> QED
  BY <1>1, <1>2 DEF OutputsInv

\* The output under way is the one that is new.
LEMMA NextFormatOutputs ==
    ASSUME LocalInv, OutputsInv, Emitting, NEW a \in BOOLEAN, NextFormat(a),
           warned \subseteq warned',
           ~a => File \in warned',
           a => config.dry_run \/ WholeAfter(File),
           \A i \in DOMAIN result.modules, j \in DOMAIN config.formats :
               Past(i, j) /\ WholeNow(Output(i, j)) => WholeAfter(Output(i, j))
    PROVE  OutputsInv'
<1>1. UNCHANGED <<run, config, result, blocked>> /\ Current \notin blocked
  BY DEF NextFormat, Emitting
<1>2. /\ at \in DOMAIN result.modules /\ fmt \in DOMAIN config.formats
      /\ File = Output(at, fmt)
  BY OutputFiles
<1>3. \A i \in DOMAIN result.modules, j \in DOMAIN config.formats :
          Past(i, j)' <=> Past(i, j) \/ (i = at /\ j = fmt)
  BY PastAdvances
<1>4. /\ emitted \in Seq(Names) /\ Current \in Names
      /\ emitted' = IF a /\ Format = "json" THEN Append(emitted, Current) ELSE emitted
  BY LoopPosition DEF LocalInv, NextFormat, Emitting
<1>5. ToSet(emitted)' = IF a /\ Format = "json" THEN ToSet(emitted) \cup {Current}
                        ELSE ToSet(emitted)
  <2>1. CASE a /\ Format = "json"
    <3>1. /\ DOMAIN emitted' = 1 .. Len(emitted) + 1 /\ DOMAIN emitted = 1 .. Len(emitted)
          /\ Len(emitted) \in Nat /\ emitted'[Len(emitted) + 1] = Current
          /\ \A i \in 1 .. Len(emitted) : emitted'[i] = emitted[i]
      BY <1>4, <2>1
    <3>2. \A i : i \in DOMAIN emitted' <=> i \in DOMAIN emitted \/ i = Len(emitted) + 1
      BY <3>1
    <3> QED
      BY <2>1, <3>1, <3>2 DEF ToSet
  <2>2. CASE ~(a /\ Format = "json")
    BY <1>4, <2>2
  <2> QED
    BY <2>1, <2>2
<1>6. OutputInv'
  <2> SUFFICES ASSUME NEW i \in DOMAIN result.modules, NEW j \in DOMAIN config.formats,
                      result.modules[i] \notin blocked, Past(i, j)', Output(i, j) \notin warned'
               PROVE  /\ config.dry_run \/ WholeAfter(Output(i, j))
                      /\ config.formats[j] = "json" => result.modules[i] \in ToSet(emitted)'
    BY <1>1 DEF OutputInv, Output, WholeNow, WholeAfter
  <2>1. CASE Past(i, j)
    <3>1. /\ config.dry_run \/ WholeNow(Output(i, j))
          /\ config.formats[j] = "json" => result.modules[i] \in ToSet(emitted)
      BY <2>1 DEF OutputsInv, OutputInv, Output
    <3> QED
      BY <1>5, <2>1, <3>1
  <2>2. CASE i = at /\ j = fmt
    <3>1. a /\ Output(i, j) = File
      BY <1>2, <2>2
    <3> QED
      BY <1>5, <2>2, <3>1 DEF Current, Format
  <2> QED
    BY <1>3, <2>1, <2>2
<1>7. EmittedInv'
  <2> SUFFICES ASSUME NEW m \in ToSet(emitted)'
               PROVE  \E i \in DOMAIN result.modules, j \in DOMAIN config.formats :
                          /\ m = result.modules[i] /\ m \notin blocked
                          /\ config.formats[j] = "json" /\ Past(i, j)'
                          /\ config.dry_run \/ WholeAfter(<<m, "json">>)
    BY <1>1 DEF EmittedInv, WholeNow, WholeAfter
  <2>1. CASE m \in ToSet(emitted)
    <3>1. PICK i \in DOMAIN result.modules, j \in DOMAIN config.formats :
              /\ m = result.modules[i] /\ m \notin blocked
              /\ config.formats[j] = "json" /\ Past(i, j)
              /\ config.dry_run \/ WholeNow(<<m, "json">>)
      BY <2>1 DEF OutputsInv, EmittedInv
    <3>2. Output(i, j) = <<m, "json">>
      BY <3>1 DEF Output
    <3>3. config.dry_run \/ WholeAfter(<<m, "json">>)
      BY <3>1, <3>2
    <3> QED
      BY <1>3, <3>1, <3>3
  <2>2. CASE m \notin ToSet(emitted)
    <3>1. a /\ Format = "json" /\ m = Current
      BY <1>5, <2>2
    <3>2. File = <<m, "json">>
      BY <1>2, <3>1 DEF Output, Current, Format
    <3>3. config.dry_run \/ WholeAfter(<<m, "json">>)
      BY <3>1, <3>2
    <3>4. PICK i \in DOMAIN result.modules, j \in DOMAIN config.formats : i = at /\ j = fmt
      BY <1>2
    <3>5. m = result.modules[i] /\ config.formats[j] = "json" /\ Past(i, j)'
      BY <1>3, <3>1, <3>4 DEF Current, Format
    <3> QED
      BY <1>1, <3>1, <3>3, <3>5
  <2> QED
    BY <2>1, <2>2
<1> QED
  BY <1>6, <1>7 DEF OutputsInv

\* A step of a run keeps what is past written and listed.
LEMMA OutputsStep ==
    ASSUME TypeOK, Active => ActiveInv, LocalInv', Next, Active'
    PROVE  OutputsInv'
<1>1. CASE Begin
  <2>1. phase' = "emit" /\ at' = 1 /\ fmt' = 1 /\ emitted' = <<>>
    BY <1>1 DEF Begin, Forget
  <2>2. \A i \in DOMAIN result'.modules, j \in DOMAIN config'.formats : ~Past(i, j)'
    <3>1. result' \in Resolutions /\ config' \in Configs
      BY DEF LocalInv
    <3>2. /\ Len(result'.modules) \in Nat /\ DOMAIN result'.modules = 1 .. Len(result'.modules)
          /\ Len(config'.formats) \in Nat /\ DOMAIN config'.formats = 1 .. Len(config'.formats)
      BY <3>1, ResultFacts, ConfigFacts
    <3> QED
      BY <2>1, <3>2 DEF Past
  <2>3. ToSet(emitted)' = {}
    BY <2>1 DEF ToSet
  <2> QED
    BY <2>2, <2>3 DEF OutputsInv, OutputInv, EmittedInv
<1> SUFFICES ASSUME ~Begin PROVE OutputsInv'
  BY <1>1
<1>2. Active /\ LocalInv /\ OutputsInv
  BY DEF ActiveInv, OutputsInv, Active, Next, BeginFails, SkipBlocked, FormatFails, DryRun, Open,
         Write, Due, Emitting, WriteFails, EmitDone, ReportBlocked, ReportError, ReportDone,
         SkipSidecar, Return, Kill
<1>3. /\ result \in Resolutions /\ config \in Configs
      /\ at \in 1 .. Len(result.modules) + 1 /\ Len(result.modules) \in Nat
      /\ DOMAIN result.modules = 1 .. Len(result.modules)
  BY <1>2, ResultFacts DEF LocalInv
<1>4. ASSUME UNCHANGED <<out, run>> PROVE \A f : WholeNow(f) => WholeAfter(f)
  BY <1>4 DEF WholeNow, WholeAfter
<1>5. CASE FormatFails
  <2>1. Emitting /\ NextFormat(FALSE) /\ warned' = warned \cup {File} /\ UNCHANGED <<out, run>>
    BY <1>5 DEF FormatFails, NextFormat
  <2> QED
    BY <1>2, <1>4, <2>1, NextFormatOutputs
<1>6. CASE DryRun
  <2>1. Emitting /\ NextFormat(TRUE) /\ config.dry_run /\ UNCHANGED <<out, warned, run>>
    BY <1>6 DEF DryRun, NextFormat
  <2> QED
    BY <1>2, <1>4, <2>1, NextFormatOutputs
<1>7. ASSUME Due, UNCHANGED run, NEW w, out' = [out EXCEPT ![File] = w]
      PROVE  \A i \in DOMAIN result.modules, j \in DOMAIN config.formats :
                 Past(i, j) /\ WholeNow(Output(i, j)) => WholeAfter(Output(i, j))
  <2> SUFFICES ASSUME NEW i \in DOMAIN result.modules, NEW j \in DOMAIN config.formats,
                      Past(i, j), WholeNow(Output(i, j))
               PROVE  WholeAfter(Output(i, j))
    OBVIOUS
  <2>1. /\ Output(i, j) \in ModuleFiles \cup Sidecars /\ Output(i, j) \notin Sidecars
        /\ File \in ModuleFiles \cup Sidecars
    BY <1>2, <1>7, OutputFiles, FileUnderWay
  <2>2. Output(i, j) # File
    <3>1. CASE Emitting
      BY <1>2, <3>1, OutputFiles
    <3>2. CASE ~Emitting
      BY <1>2, <1>7, <2>1, <3>2, FileUnderWay DEF Sidecars
    <3> QED
      BY <3>1, <3>2
  <2>3. WholeNow(Output(i, j)) => WholeAfter(Output(i, j))
    <3> DEFINE g == Output(i, j)
               f == File
    <3>1. g \in ModuleFiles \cup Sidecars /\ f \in ModuleFiles \cup Sidecars /\ g # f
      BY <2>1, <2>2
    <3>2. out' = [out EXCEPT ![f] = w] /\ UNCHANGED run
      BY <1>7
    <3>3. out'[g] = out[g]
      <4> HIDE DEF g, f
      <4> QED
        BY <3>1, <3>2 DEF TypeOK
    <3> QED
      BY <3>2, <3>3 DEF WholeNow, WholeAfter
  <2> QED
    BY <2>3
<1>8. ASSUME phase # "emit", phase' # "emit",
             UNCHANGED <<run, config, result, blocked, warned, emitted>>,
             \A i \in DOMAIN result.modules, j \in DOMAIN config.formats :
                 Past(i, j) /\ WholeNow(Output(i, j)) => WholeAfter(Output(i, j))
      PROVE  OutputsInv'
  <2>1. \A i, j : Past(i, j) /\ Past(i, j)'
    BY <1>8 DEF Past
  <2> QED
    BY <1>2, <1>8, <2>1, OutputsKept
<1>9. CASE Open
  <2>1. /\ Due /\ out' = [out EXCEPT ![File] = Cut]
        /\ UNCHANGED <<run, phase, config, result, blocked, warned, emitted, at, fmt>>
    BY <1>9 DEF Open
  <2>2. \A i \in DOMAIN result.modules, j \in DOMAIN config.formats :
            Past(i, j) /\ WholeNow(Output(i, j)) => WholeAfter(Output(i, j))
    BY <1>7, <2>1
  <2>3. \A i, j : Past(i, j)' <=> Past(i, j)
    BY <2>1 DEF Past
  <2> QED
    BY <1>2, <2>1, <2>2, <2>3, OutputsKept
<1>10. CASE Write
  <2>1. Due /\ out' = [out EXCEPT ![File] = Whole(File)] /\ UNCHANGED run
    BY <1>10 DEF Write, NextFormat, NextPhase
  <2>2. \A i \in DOMAIN result.modules, j \in DOMAIN config.formats :
            Past(i, j) /\ WholeNow(Output(i, j)) => WholeAfter(Output(i, j))
    BY <1>7, <2>1
  <2>3. CASE phase = "emit"
    <3>1. Emitting /\ NextFormat(TRUE) /\ UNCHANGED warned
      BY <1>10, <2>3 DEF Write, Due
    <3>2. File \in ModuleFiles \cup Sidecars
      BY <1>2, <2>1, FileUnderWay
    <3>3. out'[File] = Whole(File)
      BY <2>1, <3>2 DEF TypeOK
    <3>4. out'[File] # None
      <4>1. Whole(File) \in Written
        BY <1>2, <2>1, WrittenTypes DEF OutputsInv
      <4> QED
        BY <3>3, <4>1, NoneAssumption
    <3>5. WholeAfter(File)
      BY <2>1, <3>3, <3>4 DEF WholeAfter, Whole
    <3> QED
      BY <1>2, <2>2, <3>1, <3>5, NextFormatOutputs
  <2>4. CASE phase # "emit"
    <3>1. NextPhase /\ phase \in {"oid_index", "manifest"}
      BY <1>10, <2>4 DEF Write, Due, Emitting
    <3> QED
      BY <1>8, <2>2, <3>1 DEF NextPhase
  <2> QED
    BY <2>3, <2>4
<1>11. CASE SkipBlocked
  <2>1. /\ phase = "emit" /\ Current \in blocked /\ at' = at + 1
        /\ UNCHANGED <<out, run, phase, config, result, blocked, warned, emitted, fmt>>
    BY <1>11 DEF SkipBlocked
  <2>2. fmt = 1
    BY <1>2, <1>3, <2>1, ConfigFacts DEF LocalInv, Emitting
  <2>3. ASSUME NEW i \in DOMAIN result.modules, NEW j \in DOMAIN config.formats
        PROVE  /\ Past(i, j) => Past(i, j)'
               /\ Past(i, j)' => Past(i, j) \/ result.modules[i] \in blocked
    <3>1. j \in 1 .. Len(config.formats) /\ Len(config.formats) \in Nat
      BY <1>3, ConfigFacts
    <3>2. i \in 1 .. Len(result.modules)
      BY <1>3
    <3> QED
      BY <1>3, <2>1, <2>2, <3>1, <3>2 DEF Past, Current
  <2> QED
    BY <1>2, <1>4, <2>1, <2>3, OutputsKept
<1>12. CASE EmitDone
  <2>1. /\ phase' = "report" /\ at > Len(result.modules)
        /\ UNCHANGED <<out, run, config, result, blocked, warned, emitted>>
    BY <1>12 DEF EmitDone
  <2>2. \A i \in DOMAIN result.modules : \A j : Past(i, j) /\ Past(i, j)'
    BY <1>3, <2>1 DEF Past
  <2> QED
    BY <1>2, <1>4, <2>1, <2>2, OutputsKept
<1>13. CASE ReportBlocked
  BY <1>4, <1>8, <1>13 DEF ReportBlocked
<1>14. CASE ReportError
  BY <1>4, <1>8, <1>14 DEF ReportError
<1>15. CASE ReportDone
  BY <1>4, <1>8, <1>15 DEF ReportDone, local
<1>16. CASE SkipSidecar
  BY <1>4, <1>8, <1>16 DEF SkipSidecar, NextPhase
<1>17. CASE Return
  BY <1>4, <1>8, <1>17 DEF Return
<1> QED
  BY <1>5, <1>6, <1>9, <1>10, <1>11, <1>12, <1>13, <1>14, <1>15, <1>16, <1>17
     DEF Next, Active, BeginFails, WriteFails, Kill
-----------------------------------------------------------------------------
(* The sidecars.                                                           *)

\* Only the phase of a sidecar writes it.
LEMMA SidecarsKept ==
    ASSUME TypeOK, LocalInv, Due, UNCHANGED run, NEW w, out' = [out EXCEPT ![File] = w]
    PROVE  /\ phase # "oid_index" => out'[OidIndex] = out[OidIndex]
           /\ phase # "manifest" => out'[Manifest] = out[Manifest]
           /\ phase = "oid_index" => out'[OidIndex] = w
           /\ phase = "manifest" => out'[Manifest] = w
<1>1. /\ {OidIndex, Manifest} \subseteq ModuleFiles \cup Sidecars
      /\ File \in ModuleFiles \cup Sidecars
      /\ OidIndex # Manifest
  BY FileUnderWay, FilesApart DEF Sidecars
<1>2. phase # "oid_index" => File # OidIndex
  BY FileUnderWay, FilesApart DEF Sidecars, Due
<1>3. phase # "manifest" => File # Manifest
  BY FileUnderWay, FilesApart DEF Sidecars, Due
<1>4. /\ phase = "oid_index" => File = OidIndex
      /\ phase = "manifest" => File = Manifest
  BY DEF File
<1> DEFINE f == File
<1>5. /\ f \in ModuleFiles \cup Sidecars /\ out' = [out EXCEPT ![f] = w]
      /\ phase # "oid_index" => f # OidIndex
      /\ phase # "manifest" => f # Manifest
      /\ phase = "oid_index" => f = OidIndex
      /\ phase = "manifest" => f = Manifest
  BY <1>1, <1>2, <1>3, <1>4
<1> HIDE DEF f
<1> QED
  BY <1>1, <1>5 DEF TypeOK

\* A step of a run keeps the sidecars at their phase.
LEMMA SidecarStep ==
    ASSUME TypeOK, Active => ActiveInv, LocalInv', Next, Active'
    PROVE  SidecarInv'
<1>1. CASE Begin
  <2>1. phase' = "emit" /\ run' = run + 1 /\ UNCHANGED out
    BY <1>1 DEF Begin
  <2>2. \A f \in Sidecars : OlderThanRun(f)'
    BY <2>1 DEF TypeOK, OlderThanRun
  <2> QED
    BY <2>1, <2>2 DEF SidecarInv, Sidecars
<1> SUFFICES ASSUME ~Begin PROVE SidecarInv'
  BY <1>1
<1>2. Active /\ LocalInv /\ SidecarInv /\ EmittedInv
  BY DEF ActiveInv, Active, Next, BeginFails, SkipBlocked, FormatFails, DryRun, Open,
         Write, Due, Emitting, WriteFails, EmitDone, ReportBlocked, ReportError, ReportDone,
         SkipSidecar, Return, Kill
<1>3. CASE UNCHANGED out /\ phase \in {"emit", "report"}
  <2>1. UNCHANGED run /\ phase' \in {"emit", "report", "oid_index"}
             /\ (phase' = "oid_index" => phase = "report")
    BY <1>3 DEF Next, BeginFails, SkipBlocked, FormatFails, DryRun, Open,
         Write, Due, Emitting, WriteFails, EmitDone, ReportBlocked, ReportError, ReportDone,
         SkipSidecar, Return, Kill, NextFormat, NextPhase, Active
  <2> QED
    BY <1>2, <1>3, <2>1 DEF SidecarInv, OlderThanRun
<1>4. CASE Open
  <2>1. /\ Due /\ out' = [out EXCEPT ![File] = Cut]
        /\ UNCHANGED <<run, phase, config, emitted>>
    BY <1>4 DEF Open
  <2>2. phase \in {"emit", "oid_index", "manifest"}
    BY <2>1 DEF Due, Emitting
  <2>3. /\ phase # "oid_index" => out'[OidIndex] = out[OidIndex]
        /\ phase # "manifest" => out'[Manifest] = out[Manifest]
    BY <1>2, <2>1, SidecarsKept
  <2> QED
    BY <1>2, <2>1, <2>2, <2>3 DEF SidecarInv, OlderThanRun, WholeNow, HasIndex
<1>5. CASE Write
  <2>1. Due /\ out' = [out EXCEPT ![File] = Whole(File)] /\ UNCHANGED <<run, config>>
    BY <1>5 DEF Write, NextFormat, NextPhase
  <2>2. /\ phase # "oid_index" => out'[OidIndex] = out[OidIndex]
        /\ phase # "manifest" => out'[Manifest] = out[Manifest]
        /\ phase = "oid_index" => out'[OidIndex] = Whole(OidIndex)
        /\ phase = "manifest" => out'[Manifest] = Whole(Manifest)
    BY <1>2, <2>1, SidecarsKept DEF File
  <2>3. CASE phase = "emit"
    <3>1. phase' = "emit"
      BY <1>5, <2>3 DEF Write, NextFormat
    <3> QED
      BY <1>2, <2>1, <2>2, <2>3, <3>1 DEF SidecarInv, OlderThanRun
  <2>4. Whole(File) # None /\ Whole(File).run = run /\ Whole(File).whole
    BY <1>2, <2>1, WrittenTypes, NoneAssumption DEF Whole
  <2>5. CASE phase = "oid_index"
    <3>1. phase' = "manifest" /\ UNCHANGED <<emitted, config>>
      BY <1>5, <2>5 DEF Write, NextPhase
    <3>2. WholeNow(OidIndex)'
      BY <2>1, <2>2, <2>4, <2>5 DEF WholeNow, File, Whole
    <3> QED
      BY <1>2, <2>1, <2>2, <2>5, <3>1, <3>2 DEF SidecarInv, OlderThanRun
  <2>6. CASE phase = "manifest"
    <3>1. phase' = "return" /\ UNCHANGED <<emitted, config>>
      BY <1>5, <2>6 DEF Write, NextPhase
    <3>2. WholeNow(Manifest)' /\ out'[Manifest].files = Listed
      BY <2>1, <2>2, <2>4, <2>6 DEF WholeNow, File, Whole
    <3>3. HasIndex /\ ~config.dry_run => WholeNow(OidIndex)'
      BY <1>2, <2>1, <2>2, <2>6 DEF SidecarInv, WholeNow
    <3>4. Listed' = Listed /\ HasIndex' = HasIndex
      BY <3>1 DEF Listed, HasIndex
    <3> QED
      BY <3>1, <3>2, <3>3, <3>4 DEF SidecarInv
  <2> QED
    BY <2>1, <2>3, <2>5, <2>6 DEF Due, Emitting
<1>6. CASE SkipSidecar
  <2>1. /\ ~Wanted /\ phase \in {"oid_index", "manifest"} /\ NextPhase
        /\ UNCHANGED <<out, run, config, emitted>>
    BY <1>6 DEF SkipSidecar, NextPhase
  <2>2. CASE phase = "oid_index"
    BY <1>2, <2>1, <2>2 DEF NextPhase, SidecarInv, OlderThanRun, Wanted, HasIndex
  <2>3. CASE phase = "manifest"
    <3>1. phase' = "return" /\ (HasIndex' <=> HasIndex) /\ UNCHANGED Listed
      BY <2>1, <2>3 DEF NextPhase, HasIndex, Listed
    <3>2. HasIndex /\ ~config.dry_run => WholeNow(OidIndex)'
      BY <1>2, <2>1, <2>3 DEF SidecarInv, WholeNow
    <3> QED
      BY <2>1, <2>3, <3>1, <3>2 DEF SidecarInv, Wanted
  <2> QED
    BY <2>1, <2>2, <2>3
<1>7. CASE Return
  <2>1. phase = "return" /\ phase' = "done" /\ UNCHANGED <<out, run, config, emitted>>
    BY <1>7 DEF Return
  <2> QED
    BY <1>2, <2>1 DEF SidecarInv, WholeNow, HasIndex, Listed
<1>8. ~(Open \/ Write \/ SkipSidecar \/ Return) => UNCHANGED out /\ phase \in {"emit", "report"}
  BY DEF Next, Active, BeginFails, SkipBlocked, FormatFails, DryRun, Emitting, WriteFails,
     EmitDone, ReportBlocked, ReportError, ReportDone, Kill
<1> QED
  BY <1>3, <1>4, <1>5, <1>6, <1>7, <1>8

\* Modules behind an index have been written, by this run.
LEMMA ListedFiles ==
    ASSUME LocalInv, EmittedInv
    PROVE  /\ \A e \in Index(emitted) :
                  /\ <<e.module, "json">> \in ModuleFiles
                  /\ config.dry_run \/ WholeNow(<<e.module, "json">>)
           /\ \A f \in Listed :
                  \/ f \in ModuleFiles /\ (config.dry_run \/ WholeNow(f))
                  \/ f = OidIndex /\ HasIndex
<1>1. \A m \in ToSet(emitted) : /\ m \in Names /\ <<m, "json">> \in ModuleFiles
                                /\ config.dry_run \/ WholeNow(<<m, "json">>)
  BY EmittedFiles DEF EmittedInv
<1>2. ASSUME NEW e \in Index(emitted) PROVE e.module \in ToSet(emitted)
  <2>1. e \in Claims(emitted)
    BY <1>2, IndexIsExact DEF LocalInv, Alone
  <2>2. PICK m \in ToSet(emitted) : e \in ClaimsOf(m)
    BY <2>1 DEF Claims
  <2> QED
    BY <2>2, ModuleOfClaim
<1> QED
  BY <1>1, <1>2 DEF Listed

\* A sidecar keeps speaking of JSON files, the manifest of the index too.
LEMMA ListsStep ==
    ASSUME TypeOK, ListsInv, Active => ActiveInv, Next
    PROVE  ListsInv'
<1>1. CASE UNCHANGED out
  BY <1>1 DEF ListsInv, Behind
<1>2. ASSUME Due, LocalInv, UNCHANGED run, NEW w, out' = [out EXCEPT ![File] = w],
             phase = "oid_index" =>
                 w.files \cup {<<e.module, "json">> : e \in w.entries} \subseteq ModuleFiles,
             phase = "manifest" =>
                 w.files \cup {<<e.module, "json">> : e \in w.entries}
                     \subseteq ModuleFiles \cup {OidIndex}
      PROVE  ListsInv'
  <2>1. /\ phase # "oid_index" => out'[OidIndex] = out[OidIndex]
        /\ phase # "manifest" => out'[Manifest] = out[Manifest]
        /\ phase = "oid_index" => out'[OidIndex] = w
        /\ phase = "manifest" => out'[Manifest] = w
    BY <1>2, SidecarsKept
  <2> QED
    BY <1>2, <2>1 DEF ListsInv, Behind
<1>3. CASE Open
  <2>1. Due /\ LocalInv /\ UNCHANGED run /\ out' = [out EXCEPT ![File] = Cut]
    BY <1>3 DEF Open, Due, Emitting, Active, ActiveInv
  <2> QED
    BY <1>2, <2>1 DEF Cut
<1>4. CASE Write
  <2>1. Due /\ ActiveInv /\ UNCHANGED run /\ out' = [out EXCEPT ![File] = Whole(File)]
    BY <1>4 DEF Write, Due, Emitting, Active, NextFormat, NextPhase
  <2>2. /\ \A e \in Index(emitted) : <<e.module, "json">> \in ModuleFiles
        /\ Listed \subseteq ModuleFiles \cup {OidIndex}
    BY <2>1, ListedFiles DEF ActiveInv
  <2>3. /\ phase = "oid_index" => Whole(File).files = {} /\ Whole(File).entries = Index(emitted)
        /\ phase = "manifest" => Whole(File).files = Listed /\ Whole(File).entries = {}
    BY FilesApart DEF Whole, File
  <2> QED
    BY <1>2, <2>1, <2>2, <2>3 DEF ActiveInv
<1>5. ~Open /\ ~Write => UNCHANGED out
  BY DEF Next, Begin, BeginFails, SkipBlocked, FormatFails, DryRun, WriteFails, EmitDone,
         ReportBlocked, ReportError, ReportDone, SkipSidecar, Return, Kill, Gone
<1> QED
  BY <1>1, <1>3, <1>4, <1>5

\* SidecarsAreBacked without the types.
Backed ==
    \A s \in {t \in Sidecars : out[t] # None} : \A f \in Behind(s) :
        /\ out[f] # None /\ out[f].run >= out[s].run
        /\ out[f].run = out[s].run => out[f].whole

\* A new file is not older than a sidecar; if it is cut, the sidecars that
\* list it are of earlier runs.
LEMMA BackedStep ==
    ASSUME TypeOK, Backed, ListsInv, Active => ActiveInv, Next
    PROVE  Backed'
<1>1. CASE UNCHANGED out
  BY <1>1 DEF Backed, Behind
<1>2. ASSUME NEW f \in ModuleFiles \cup Sidecars, NEW w, out' = [out EXCEPT ![f] = w],
             w # None, w.run = run,
             f \in Sidecars =>
                 \A g \in w.files \cup {<<e.module, "json">> : e \in w.entries} :
                     g # f /\ g \in ModuleFiles \cup Sidecars /\ WholeNow(g),
             ~w.whole => \A s \in Sidecars :
                 s # f /\ out[s] # None /\ f \in Behind(s) => out[s].run < run
      PROVE  Backed'
  <2>1. /\ out'[f] = w
        /\ \A g \in ModuleFiles \cup Sidecars : g # f => out'[g] = out[g]
    BY <1>2 DEF TypeOK
  <2> SUFFICES ASSUME NEW s \in Sidecars, out'[s] # None, NEW g \in Behind(s)'
               PROVE  /\ out'[g] # None /\ out'[g].run >= out'[s].run
                      /\ out'[g].run = out'[s].run => out'[g].whole
    BY DEF Backed
  <2>2. CASE s = f
    <3>1. g # f /\ g \in ModuleFiles \cup Sidecars /\ WholeNow(g)
      BY <1>2, <2>1, <2>2 DEF Behind
    <3> QED
      BY <1>2, <2>1, <2>2, <3>1 DEF WholeNow, TypeOK
  <2>3. CASE s # f
    <3>1. out'[s] = out[s] /\ g \in Behind(s) /\ out[s] # None
      BY <2>1, <2>3 DEF Behind
    <3>2. g \in ModuleFiles \cup Sidecars
      BY <3>1 DEF ListsInv, Sidecars
    <3>3. /\ out[g] # None /\ out[g].run >= out[s].run
          /\ out[g].run = out[s].run => out[g].whole
      BY <3>1 DEF Backed
    <3>4. CASE g # f
      BY <2>1, <3>1, <3>2, <3>3, <3>4
    <3>5. CASE g = f
      <4>1. out[s].run \in 1 .. run /\ run \in Nat
        BY <3>1 DEF TypeOK
      <4>2. ~w.whole => out[s].run < run
        BY <1>2, <2>3, <3>1, <3>5
      <4> QED
        BY <1>2, <2>1, <3>1, <3>5, <4>1, <4>2
    <3> QED
      BY <3>4, <3>5
  <2> QED
    BY <2>2, <2>3
<1>3. CASE Open
  <2>1. Due /\ ActiveInv /\ out' = [out EXCEPT ![File] = Cut]
    BY <1>3 DEF Open, Due, Emitting, Active
  <2>2. Cut # None /\ Cut.run = run /\ ~Cut.whole /\ Cut.files = {} /\ Cut.entries = {}
    BY <2>1, WrittenTypes, NoneAssumption DEF Cut, ActiveInv
  <2>3. ASSUME NEW s \in Sidecars, s # File, out[s] # None, File \in Behind(s)
        PROVE  out[s].run < run
    <3>1. CASE phase = "manifest"
      <4>1. File = Manifest /\ s = OidIndex
        BY <2>3, <3>1 DEF File, Sidecars
      <4>2. Manifest \notin ModuleFiles
        BY NoneAssumption DEF Manifest, ModuleFiles
      <4> QED
        BY <2>3, <4>1, <4>2 DEF ListsInv
    <3>2. CASE phase # "manifest"
      BY <2>1, <2>3, <3>2 DEF ActiveInv, SidecarInv, OlderThanRun, Due, Emitting, File, Sidecars
    <3> QED
      BY <3>1, <3>2
  <2>4. File \in ModuleFiles \cup Sidecars
    BY <2>1, FileUnderWay DEF ActiveInv
  <2> DEFINE f == File
             w == Cut
  <2>5. /\ f \in ModuleFiles \cup Sidecars /\ out' = [out EXCEPT ![f] = w]
        /\ w # None /\ w.run = run /\ w.files = {} /\ w.entries = {}
        /\ \A s \in Sidecars : s # f /\ out[s] # None /\ f \in Behind(s) => out[s].run < run
    BY <2>1, <2>2, <2>3, <2>4
  <2> HIDE DEF f, w
  <2> QED
    BY <1>2, <2>5
<1>4. CASE Write
  <2>1. Due /\ ActiveInv /\ out' = [out EXCEPT ![File] = Whole(File)] /\ ~config.dry_run
    BY <1>4 DEF Write, Due, Emitting, Active, Wanted
  <2>2. Whole(File) # None /\ Whole(File).run = run /\ Whole(File).whole
    BY <2>1, WrittenTypes, NoneAssumption DEF Whole, ActiveInv
  <2>3. File \in ModuleFiles \cup Sidecars
    BY <2>1, FileUnderWay DEF ActiveInv
  <2>4. /\ \A e \in Index(emitted) :
              <<e.module, "json">> \in ModuleFiles /\ WholeNow(<<e.module, "json">>)
        /\ \A g \in Listed : \/ g \in ModuleFiles /\ WholeNow(g)
                             \/ g = OidIndex /\ HasIndex
    BY <2>1, ListedFiles DEF ActiveInv
  <2>5. \A g \in ModuleFiles : g \notin Sidecars
    BY NoneAssumption DEF ModuleFiles, Sidecars, OidIndex, Manifest
  <2>6. ASSUME File \in Sidecars,
               NEW g \in Whole(File).files \cup {<<e.module, "json">> : e \in Whole(File).entries}
        PROVE  g # File /\ g \in ModuleFiles \cup Sidecars /\ WholeNow(g)
    <3>1. CASE File = OidIndex
      <4>1. Whole(File).files = {} /\ Whole(File).entries = Index(emitted)
        BY <3>1, FilesApart DEF Whole
      <4> QED
        BY <2>4, <2>5, <2>6, <4>1
    <3>2. CASE File = Manifest
      <4>1. Whole(File).files = Listed /\ Whole(File).entries = {}
        BY <3>2, FilesApart DEF Whole
      <4>2. CASE g = OidIndex /\ HasIndex
        <5>1. phase = "manifest"
          <6>1. CASE Emitting
            BY <2>1, <2>6, <6>1, FileUnderWay DEF ActiveInv
          <6>2. CASE ~Emitting
            BY <2>1, <3>2, <6>2, FilesApart DEF Due, File
          <6> QED
            BY <6>1, <6>2
        <5>2. WholeNow(OidIndex)
          BY <2>1, <4>2, <5>1 DEF ActiveInv, SidecarInv
        <5> QED
          BY <3>2, <4>2, <5>2, FilesApart DEF Sidecars
      <4>3. CASE g \in ModuleFiles /\ WholeNow(g)
        BY <2>5, <2>6, <4>3
      <4> QED
        BY <2>4, <2>6, <4>1, <4>2, <4>3
    <3> QED
      BY <2>6, <3>1, <3>2 DEF Sidecars
  <2> DEFINE f == File
             w == Whole(File)
  <2>7. /\ f \in ModuleFiles \cup Sidecars /\ out' = [out EXCEPT ![f] = w]
        /\ w # None /\ w.run = run /\ w.whole
        /\ f \in Sidecars => \A g \in w.files \cup {<<e.module, "json">> : e \in w.entries} :
               g # f /\ g \in ModuleFiles \cup Sidecars /\ WholeNow(g)
    BY <2>1, <2>2, <2>3, <2>6
  <2> HIDE DEF f, w
  <2> QED
    BY <1>2, <2>7
<1>5. ~Open /\ ~Write => UNCHANGED out
  BY DEF Next, Begin, BeginFails, SkipBlocked, FormatFails, DryRun, WriteFails, EmitDone,
         ReportBlocked, ReportError, ReportDone, SkipSidecar, Return, Kill, Gone
<1> QED
  BY <1>1, <1>3, <1>4, <1>5

\* Only a write of the index of this run makes it whole.
LEMMA UnambiguousStep ==
    ASSUME TypeOK, TypeOK', IndexIsUnambiguous, Active => ActiveInv, Active' => ActiveInv', Next
    PROVE  IndexIsUnambiguous'
<1> SUFFICES ASSUME phase' # "idle", out'[OidIndex] # None, out'[OidIndex].whole,
                    out'[OidIndex].run = run'
             PROVE  out'[OidIndex].entries = Alone(Claims(emitted'))
  BY DEF IndexIsUnambiguous, Alone
<1>1. ~OlderThanRun(OidIndex)'
  BY DEF OlderThanRun, TypeOK
<1>2. run' = run
  <2>1. CASE Begin \/ BeginFails
    <3>1. run' = run + 1 /\ UNCHANGED out
      BY <2>1 DEF Begin, BeginFails
    <3> QED
      BY <3>1 DEF TypeOK, Sidecars
  <2>2. ~Begin /\ ~BeginFails => run' = run
    BY DEF Next, SkipBlocked, FormatFails, DryRun, Open, Write, NextFormat,
           NextPhase, WriteFails, EmitDone, ReportBlocked, ReportError, ReportDone,
           SkipSidecar, Return, Kill
  <2> QED
    BY <2>1, <2>2
<1>3. Active /\ ActiveInv
  <2>1. ~Begin /\ ~BeginFails /\ ~Kill
    BY <1>2 DEF TypeOK, Begin, BeginFails, Kill
  <2> QED
    BY <2>1 DEF Active, Next, SkipBlocked, FormatFails, DryRun, Open, Write, Due,
       Emitting, WriteFails, EmitDone, ReportBlocked, ReportError, ReportDone, SkipSidecar, Return
<1>4. CASE UNCHANGED <<out, emitted>>
  BY <1>2, <1>3, <1>4 DEF IndexIsUnambiguous, Active, Alone
<1>5. phase' \notin {"emit", "report"}
  BY <1>1 DEF Active, ActiveInv, SidecarInv
<1>6. CASE Open
  <2>1. /\ Due /\ out' = [out EXCEPT ![File] = Cut] /\ UNCHANGED <<run, phase, emitted>>
    BY <1>6 DEF Open
  <2>2. phase = "oid_index" => out'[OidIndex] = Cut
    BY <1>3, <2>1, SidecarsKept DEF ActiveInv
  <2>3. phase # "oid_index" => out'[OidIndex] = out[OidIndex]
    BY <1>3, <2>1, SidecarsKept DEF ActiveInv
  <2>4. phase # "oid_index"
    BY <2>2 DEF Cut
  <2> QED
    BY <1>2, <1>3, <2>1, <2>3, <2>4 DEF IndexIsUnambiguous, Active, Alone
<1>7. CASE Write
  <2>1. phase # "emit"
    BY <1>5, <1>7 DEF Write, NextFormat
  <2>2. /\ Due /\ out' = [out EXCEPT ![File] = Whole(File)] /\ UNCHANGED <<run, emitted>>
    BY <1>7, <2>1 DEF Write, NextPhase
  <2>3. /\ phase # "oid_index" => out'[OidIndex] = out[OidIndex]
        /\ phase = "oid_index" => out'[OidIndex] = Whole(File)
    BY <1>3, <2>2, SidecarsKept DEF ActiveInv
  <2>4. CASE phase = "oid_index"
    <3>1. out'[OidIndex].entries = Index(emitted)
      BY <2>3, <2>4 DEF Whole, File
    <3> QED
      BY <1>3, <2>2, <3>1, IndexIsExact DEF ActiveInv, LocalInv
  <2>5. CASE phase # "oid_index"
    BY <1>2, <1>3, <2>2, <2>3, <2>5 DEF IndexIsUnambiguous, Active, Alone
  <2> QED
    BY <2>4, <2>5
<1>8. ~Open /\ ~Write => UNCHANGED <<out, emitted>> \/ phase' \in {"emit", "report"}
  <2>1. ~Kill
    BY DEF Kill
  <2> QED
    BY <2>1 DEF Next, Begin, BeginFails, SkipBlocked, FormatFails, DryRun, NextFormat, NextPhase,
       Emitting, WriteFails, EmitDone, ReportBlocked, ReportError, ReportDone, SkipSidecar,
       Return, local
<1> QED
  BY <1>4, <1>5, <1>6, <1>7, <1>8

\* The exit code is set at the end.
LEMMA ExitStep ==
    ASSUME ExitInv, Next
    PROVE  ExitInv'
<1>1. CASE Return
  BY <1>1, NoneAssumption DEF Return, ExitInv
<1>2. CASE BeginFails \/ WriteFails
  BY <1>2 DEF BeginFails, WriteFails, ExitInv
<1>3. CASE Begin \/ Kill
  BY <1>3, NoneAssumption DEF Begin, Kill, Gone, Forget, ExitInv
<1>4. ASSUME ~Return, ~BeginFails, ~WriteFails, ~Begin, ~Kill PROVE ExitInv'
  <2>1. UNCHANGED exit /\ phase # "done" /\ phase' # "done"
    BY <1>4 DEF Next, SkipBlocked, FormatFails, DryRun, Open, Write, NextFormat, NextPhase,
       Emitting, Due, EmitDone, ReportBlocked, ReportError, ReportDone, SkipSidecar, local
  <2> QED
    BY <2>1 DEF ExitInv
<1> QED
  BY <1>1, <1>2, <1>3, <1>4

\* The invariant holds before the first run.
LEMMA CompileInit == Init => CompileInv
<1> SUFFICES ASSUME Init PROVE CompileInv
  OBVIOUS
<1>1. /\ \A f \in ModuleFiles \cup Sidecars : out[f] = None
      /\ phase = "idle" /\ run = 0 /\ exit = None
      /\ out \in [ModuleFiles \cup Sidecars -> {None}]
  BY DEF Init
<1>2. TypeOK
  BY <1>1 DEF TypeOK
<1>3. {OidIndex, Manifest} \subseteq ModuleFiles \cup Sidecars
  BY DEF Sidecars
<1>4. SidecarsAreBacked
  BY <1>1, <1>2 DEF SidecarsAreBacked
<1> QED
  BY <1>1, <1>3, <1>4, NoneAssumption
     DEF CompileInv, IndexIsUnambiguous, ListsInv, ExitInv, Active

\* Every step keeps the invariant.
LEMMA CompileNext == CompileInv /\ [Next]_vars => CompileInv'
<1> SUFFICES ASSUME CompileInv, [Next]_vars PROVE CompileInv'
  OBVIOUS
<1>1. /\ TypeOK /\ Backed /\ IndexIsUnambiguous /\ ListsInv /\ ExitInv
      /\ Active => ActiveInv
  BY DEF CompileInv, SidecarsAreBacked, Backed, Behind
<1>2. CASE Next
  <2>1. TypeOK' /\ ListsInv' /\ Backed' /\ ExitInv'
    BY <1>1, <1>2, TypeStep, ListsStep, BackedStep, ExitStep
  <2>2. ASSUME Active' PROVE ActiveInv'
    <3>1. LocalInv'
      BY <1>1, <1>2, <2>2, LocalStep DEF ActiveInv
    <3>2. ReportInv' /\ OutputsInv' /\ SidecarInv'
      BY <1>1, <1>2, <2>2, <3>1, ReportStep, OutputsStep, SidecarStep DEF ActiveInv
    <3> QED
      BY <3>1, <3>2 DEF ActiveInv, OutputsInv
  <2>3. IndexIsUnambiguous'
    BY <1>1, <1>2, <2>1, <2>2, UnambiguousStep
  <2> QED
    BY <2>1, <2>2, <2>3 DEF CompileInv, SidecarsAreBacked, Backed, Behind
<1>3. CASE UNCHANGED vars
  <2>1. UNCHANGED <<out, run, phase, config, result, blocked, at, fmt, left, opened, warned,
                    emitted, results, exit>>
    BY <1>3 DEF vars, local
  <2>2. TypeOK' /\ ListsInv' /\ Backed' /\ ExitInv' /\ IndexIsUnambiguous'
    BY <1>1, <2>1 DEF TypeOK, ListsInv, Backed, Behind, ExitInv, IndexIsUnambiguous
  <2>3. ASSUME Active PROVE ActiveInv'
    <3>1. LocalInv'
      BY <1>1, <2>1, <2>3 DEF ActiveInv, LocalInv, Errors, Emitting, Due, Wanted, Current
    <3>2. UNCHANGED <<GoodTold, BlockedTold, ErrorsTold>>
      BY <2>1 DEF GoodTold, BlockedTold, ErrorsTold, Errors, Before, Resolved
    <3>3. ReportInv'
      BY <1>1, <2>1, <2>3, <3>2, TellNothing DEF ActiveInv
    <3>4. OutputsInv'
      BY <1>1, <2>1, <2>3, OutputsKept DEF ActiveInv, OutputsInv, Past, WholeNow, WholeAfter, Output
    <3>5. SidecarInv'
      BY <1>1, <2>1, <2>3 DEF ActiveInv, SidecarInv, OlderThanRun, WholeNow, HasIndex, Listed
    <3> QED
      BY <3>1, <3>3, <3>4, <3>5 DEF ActiveInv, OutputsInv
  <2>4. Active' = Active
    BY <2>1 DEF Active
  <2> QED
    BY <2>2, <2>3, <2>4 DEF CompileInv, SidecarsAreBacked, Backed, Behind
<1> QED
  BY <1>2, <1>3

\* Whatever the runs, the invariant that follows their loops holds: what
\* compile() has told, written and listed is what it should be so far.
THEOREM CompileInvariant == Spec => []CompileInv
BY CompileInit, CompileNext, PTL DEF Spec

\* json_bundle.py:33-43, docs/cli.md:436: whatever happened to the runs, a
\* manifest or an index is never newer than a file it lists, and the files of
\* its own run are whole.
THEOREM SidecarsAreAlwaysBacked == Spec => []SidecarsAreBacked
<1>1. CompileInv => SidecarsAreBacked
  BY DEF CompileInv
<1> QED
  BY <1>1, CompileInvariant, PTL

\* json_bundle.py:151-172: the index of a run has exactly the OIDs that one
\* object of the emitted modules claims.
THEOREM IndexIsAlwaysUnambiguous == Spec => []IndexIsUnambiguous
<1>1. CompileInv => IndexIsUnambiguous
  BY DEF CompileInv
<1> QED
  BY <1>1, CompileInvariant, PTL

\* What is compiled in the end.
LEMMA CompiledInTheEnd ==
    ASSUME CompileInv, phase = "done"
    PROVE  /\ ActiveInv
           /\ Compiled = Resolved \ blocked /\ blocked \subseteq Resolved
           /\ GoodTold \cup BlockedTold = Resolved
           /\ BlockedTold = blocked
           /\ ErrorsTold = Errors
<1>1. ActiveInv
  BY DEF CompileInv, Active
<1>2. left = {} /\ result \in Resolutions /\ blocked = Blocked(result)
  BY <1>1 DEF ActiveInv, LocalInv
<1>3. GoodTold = Resolved \ blocked /\ BlockedTold = blocked \cap Resolved /\ ErrorsTold = Errors
  BY <1>2 DEF GoodTold, BlockedTold, ErrorsTold
<1>4. blocked \subseteq Resolved
  BY <1>2, ResultFacts DEF Resolved
<1>5. Compiled = GoodTold
  BY <1>1 DEF ActiveInv, ReportInv, StatusInv
<1> QED
  BY <1>1, <1>3, <1>4, <1>5

\* The invariant makes the report exact.
LEMMA ReportIsExactInTheEnd ==
    ASSUME CompileInv
    PROVE  ReportIsExact
<1> SUFFICES ASSUME phase = "done" PROVE ReportIsExact
  BY DEF ReportIsExact
<1>1. /\ ActiveInv
      /\ Compiled = Resolved \ blocked /\ blocked \subseteq Resolved
      /\ GoodTold \cup BlockedTold = Resolved /\ ErrorsTold = Errors
  BY CompiledInTheEnd
<1>2. result \in Resolutions /\ blocked = Blocked(result)
  BY <1>1 DEF ActiveInv, LocalInv
<1>3. ASSUME NEW n \in Names
      PROVE  Cardinality(Named(n)) = (IF n \in Resolved THEN 1 ELSE 0)
                                       + (IF result.errors[n] # None THEN 1 ELSE 0)
  BY <1>1 DEF ActiveInv, ReportInv, CountInv, Errors, ErrorsIn
<1>4. ASSUME NEW m \in Resolved
      PROVE  m \in Compiled <=>
                 \A n \in result.imports[m] :
                     Target(n) \notin BaseMibs =>
                         Target(n) \in Compiled \cup {m} /\ result.errors[Target(n)] = None
  <2>1. m \in blocked <=> Unresolved(result, m, blocked \ {m}) # {}
    BY <1>2, BlockedIsExact DEF Resolved
  <2>2. Unresolved(result, m, blocked \ {m}) = {} <=>
            \A n \in result.imports[m] :
                Target(n) \notin BaseMibs =>
                    /\ result.errors[Target(n)] = None
                    /\ Target(n) \notin blocked \ {m} /\ Target(n) \in Resolved
    BY DEF Unresolved, Target, Resolved
  <2>3. \A t : t \notin blocked \ {m} /\ t \in Resolved <=> t \in Compiled \cup {m}
    BY <1>1
  <2> QED
    BY <1>1, <2>1, <2>2, <2>3
<1>5. ASSUME ~config.dry_run, NEW m \in Compiled, NEW f \in ToSet(config.formats)
      PROVE  <<m, f>> \in warned \/ (out[<<m, f>>].run = run /\ out[<<m, f>>].whole)
  <2>1. PICK i \in DOMAIN result.modules : result.modules[i] = m
    BY <1>1, <1>5 DEF Resolved, ToSet
  <2>2. PICK j \in DOMAIN config.formats : config.formats[j] = f
    BY <1>5 DEF ToSet
  <2>3. Past(i, j)
    BY DEF Past
  <2> QED
    BY <1>1, <1>5, <2>1, <2>2, <2>3 DEF ActiveInv, OutputInv, WholeNow
<1> QED
  BY <1>3, <1>4, <1>5 DEF ReportIsExact

\* compiler.py:136-156: compile() reports every module and every error once;
\* compiled are just those whose imports are, with all their outputs but for
\* warnings.
THEOREM ReportIsAlwaysExact == Spec => []ReportIsExact
BY ReportIsExactInTheEnd, CompileInvariant, PTL

\* The invariant makes a clean exit complete.
LEMMA CleanExit ==
    ASSUME CompileInv
    PROVE  CleanExitIsComplete
<1> SUFFICES ASSUME exit = 0 PROVE CleanExitIsComplete
  BY DEF CleanExitIsComplete
<1>1. phase = "done" /\ \A r \in ToSet(results) : r.status \notin FailingStatus
  BY DEF CompileInv, ExitInv
<1>2. /\ ActiveInv
      /\ Compiled = Resolved \ blocked
      /\ BlockedTold = blocked /\ ErrorsTold = Errors
  BY <1>1, CompiledInTheEnd
<1>3. blocked = {} /\ Errors = {} /\ Compiled = Resolved
  BY <1>1, <1>2 DEF ActiveInv, ReportInv, StatusInv
<1>4. /\ result \in Resolutions /\ config \in Configs
      /\ IsClosed(result) /\ result.asked \subseteq Names \cup BaseMibs
      /\ result.imports \in [Names -> SUBSET (Names \cup BaseMibs)]
      /\ Resolved \subseteq Names
  BY <1>2, ResolutionsAssumption, ResultFacts DEF ActiveInv, LocalInv, Resolved, IsResolution
<1>5. \A n \in Names : result.errors[n] = None
  BY <1>3 DEF Errors, ErrorsIn
<1>6. ASSUME NEW n \in Names \cup BaseMibs, Accounted(result, n)
      PROVE  Target(n) \in Compiled \cup BaseMibs
  <2>1. TargetIn(result, n) \in Resolved \/ TargetIn(result, n) = n
    BY <1>4 DEF IsClosed, TargetIn, Resolved
  <2> QED
    BY <1>3, <1>5, <1>6, <2>1 DEF Target, TargetIn, Accounted, Resolved
<1>7. \A n \in result.asked : Target(n) \in Compiled \cup BaseMibs
  BY <1>4, <1>6 DEF IsClosed
<1>8. \A m \in Compiled : \A n \in result.imports[m] : Target(n) \in Compiled \cup BaseMibs
  BY <1>3, <1>4, <1>6 DEF IsClosed, Resolved
<1>9. ASSUME config.emit_manifest, ~config.dry_run, emitted # <<>>
      PROVE  {<<m, "json">> : m \in Compiled} \ warned \subseteq out[Manifest].files
  <2>1. out[Manifest].files = Listed
    BY <1>1, <1>2, <1>9 DEF ActiveInv, SidecarInv
  <2>2. PICK j \in DOMAIN config.formats : config.formats[j] = "json"
    <3>1. emitted \in Seq(Names)
      BY <1>2 DEF ActiveInv, LocalInv
    <3>2. emitted[1] \in ToSet(emitted)
      BY <1>9, <3>1 DEF ToSet
    <3> QED
      BY <1>2, <3>2 DEF ActiveInv, EmittedInv
  <2>3. ASSUME NEW m \in Compiled, <<m, "json">> \notin warned PROVE m \in ToSet(emitted)
    <3>1. PICK i \in DOMAIN result.modules : result.modules[i] = m
      BY <1>3, <2>3 DEF Resolved, ToSet
    <3>2. Past(i, j)
      BY <1>1 DEF Past
    <3> QED
      BY <1>2, <1>3, <2>2, <2>3, <3>1, <3>2 DEF ActiveInv, OutputInv
  <2> QED
    BY <2>1, <2>3 DEF Listed
<1> QED
  BY <1>7, <1>8, <1>9 DEF CleanExitIsComplete

\* cli/main.py:427-428, json_bundle.py:52-60: after exit code 0 all that was
\* asked for and all it imports is compiled, and the manifest lists it.
THEOREM CleanExitIsAlwaysComplete == Spec => []CleanExitIsComplete
BY CleanExit, CompileInvariant, PTL
=============================================================================
