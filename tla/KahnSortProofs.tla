--------------------------- MODULE KahnSortProofs ----------------------------
(***************************************************************************)
(* What topological_sort guarantees for every import graph and every alias *)
(* map.  The invariant follows the set of imports a module still waits     *)
(* for: in_degree counts it, and it is empty exactly for the modules that  *)
(* are placed or queued.                                                   *)
(***************************************************************************)
EXTENDS KahnSort, FiniteSetTheorems, SequenceTheorems, WellFoundedInduction, TLAPS

Waiting(m) == {d \in Deps(m) : Provider(d) \notin Range(result)}

DegreeInv ==
    /\ \A m \in modules : in_degree[m] = Cardinality(Waiting(m))
    /\ \A m \in modules :
          m \in Range(result) \cup Range(queue) <=> Waiting(m) = {}
    /\ outcome # "running" => queue = <<>>
    /\ outcome # "running" =>
          (outcome = "cycle" <=> Len(result) # Cardinality(modules))

\* No module of a knot is ever queued.
KnotsWait ==
    \A S : Knot(S) => S \cap (Range(result) \cup Range(queue)) = {}

KahnInv == TypeOK /\ PlacedOnce /\ DepsComeFirst /\ DegreeInv /\ KnotsWait
-----------------------------------------------------------------------------
(* The ranges of sequences.                                                *)

\* What it means to be in the range of a sequence.
LEMMA InRange ==
    ASSUME NEW S, NEW s \in Seq(S)
    PROVE  \A x : x \in Range(s) <=> \E i \in 1..Len(s) : s[i] = x
BY DEF Range

\* The empty sequence has nothing in it.
LEMMA RangeOfEmpty ==
    ASSUME NEW S, NEW s \in Seq(S), s = <<>>
    PROVE  Range(s) = {}
<1>1. Len(s) = 0
  OBVIOUS
<1>2. \A x : x \in Range(s) <=> \E i \in 1..Len(s) : s[i] = x
  BY InRange
<1>3. QED
  BY <1>1, <1>2

\* A sequence has its head and what its tail has.
LEMMA RangeOfHeadTail ==
    ASSUME NEW S, NEW s \in Seq(S), s # <<>>
    PROVE  /\ Head(s) \in S
           /\ Tail(s) \in Seq(S)
           /\ Range(s) = {Head(s)} \cup Range(Tail(s))
<1>1. /\ Head(s) \in S
      /\ Tail(s) \in Seq(S)
      /\ Len(Tail(s)) = Len(s) - 1
      /\ \A i \in 1..Len(Tail(s)) : Tail(s)[i] = s[i + 1]
  BY HeadTailProperties
<1>2. Head(s) = s[1] /\ Len(s) \in Nat \ {0}
  OBVIOUS
<1>3. ASSUME NEW x \in Range(s) PROVE x \in {Head(s)} \cup Range(Tail(s))
  <2>1. PICK i \in 1..Len(s) : s[i] = x
    BY <1>3, InRange
  <2>2. CASE i = 1
    BY <1>2, <2>1, <2>2
  <2>3. CASE i # 1
    <3>1. i - 1 \in 1..Len(Tail(s))
      BY <1>1, <1>2, <2>3
    <3>2. Tail(s)[i - 1] = s[(i - 1) + 1]
      BY <1>1, <3>1
    <3>3. (i - 1) + 1 = i
      OBVIOUS
    <3>4. QED
      BY <1>1, <2>1, <3>1, <3>2, <3>3, InRange
  <2>4. QED
    BY <2>2, <2>3
<1>4. ASSUME NEW x \in Range(Tail(s)) PROVE x \in Range(s)
  <2>1. PICK i \in 1..Len(Tail(s)) : Tail(s)[i] = x
    BY <1>1, <1>4, InRange
  <2>2. i + 1 \in 1..Len(s) /\ s[i + 1] = x
    BY <1>1, <1>2, <2>1
  <2>3. QED
    BY <2>2, InRange
<1>5. Head(s) \in Range(s)
  BY <1>2, InRange
<1>6. QED
  BY <1>1, <1>3, <1>4, <1>5

\* Appending adds one element to the range.
LEMMA RangeOfAppend ==
    ASSUME NEW S, NEW s \in Seq(S), NEW x \in S
    PROVE  Range(Append(s, x)) = Range(s) \cup {x}
<1>1. /\ Append(s, x) \in Seq(S)
      /\ Len(Append(s, x)) = Len(s) + 1
      /\ \A i \in 1..Len(s) : Append(s, x)[i] = s[i]
      /\ Append(s, x)[Len(s) + 1] = x
      /\ Len(s) \in Nat
  BY AppendProperties, LenProperties
<1>2. \A i \in 1..(Len(s) + 1) : i \in 1..Len(s) \/ i = Len(s) + 1
  BY <1>1
<1>3. \A i \in 1..Len(s) : i \in 1..(Len(s) + 1)
  BY <1>1
<1>4. Len(s) + 1 \in 1..(Len(s) + 1)
  BY <1>1
<1>5. \A y : y \in Range(s) <=> \E i \in 1..Len(s) : s[i] = y
  BY InRange
<1>6. \A y : y \in Range(Append(s, x)) <=>
                \E i \in 1..(Len(s) + 1) : Append(s, x)[i] = y
  <2> DEFINE t == Append(s, x)
  <2>1. t \in Seq(S) /\ Len(t) = Len(s) + 1
    BY <1>1
  <2> HIDE DEF t
  <2>2. \A y : y \in Range(t) <=> \E i \in 1..Len(t) : t[i] = y
    BY <2>1, InRange
  <2>3. \A y : y \in Range(t) <=> \E i \in 1..(Len(s) + 1) : t[i] = y
    BY <2>1, <2>2
  <2>4. QED
    BY <2>3 DEF t
<1>7. ASSUME NEW y
      PROVE  y \in Range(Append(s, x)) <=> y \in Range(s) \/ y = x
  BY <1>1, <1>2, <1>3, <1>4, <1>5, <1>6
<1>8. QED
  BY <1>7

\* A sequence is its head followed by its tail.
LEMMA HeadThenTail ==
    ASSUME NEW S, NEW s \in Seq(S), s # <<>>
    PROVE  <<Head(s)>> \o Tail(s) = s
OBVIOUS

\* Two lists without repetitions and with nothing in common make one.
LEMMA InjectiveConcat ==
    ASSUME NEW S, NEW s \in Seq(S), NEW t \in Seq(S),
           IsInjective(s), IsInjective(t), Range(s) \cap Range(t) = {}
    PROVE  IsInjective(s \o t)
<1>1. /\ s \o t \in Seq(S)
      /\ Len(s \o t) = Len(s) + Len(t)
      /\ \A i \in 1..(Len(s) + Len(t)) :
            (s \o t)[i] = IF i <= Len(s) THEN s[i] ELSE t[i - Len(s)]
  BY ConcatProperties
<1>2. SUFFICES ASSUME NEW i \in 1..Len(s \o t), NEW j \in 1..Len(s \o t),
                      (s \o t)[i] = (s \o t)[j]
               PROVE  i = j
  BY <1>1 DEF IsInjective
<1>3. \A k \in 1..Len(s \o t) :
          IF k <= Len(s) THEN k \in 1..Len(s) ELSE k - Len(s) \in 1..Len(t)
  BY <1>1
<1>4. CASE i <= Len(s) /\ j <= Len(s)
  BY <1>1, <1>2, <1>3, <1>4 DEF IsInjective
<1>5. CASE ~(i <= Len(s)) /\ ~(j <= Len(s))
  <2>1. i - Len(s) = j - Len(s)
    BY <1>1, <1>2, <1>3, <1>5 DEF IsInjective
  <2>2. QED
    BY <2>1
<1>6. ASSUME NEW k \in 1..Len(s \o t), NEW l \in 1..Len(s \o t),
             k <= Len(s), ~(l <= Len(s))
      PROVE  (s \o t)[k] # (s \o t)[l]
  <2>1. (s \o t)[k] = s[k] /\ (s \o t)[l] = t[l - Len(s)]
    BY <1>1, <1>6
  <2>2. s[k] \in Range(s) /\ t[l - Len(s)] \in Range(t)
    BY <1>3, <1>6, InRange
  <2>3. QED
    BY <2>1, <2>2
<1>7. QED
  BY <1>2, <1>4, <1>5, <1>6

\* And the other way round.
LEMMA InjectiveSplit ==
    ASSUME NEW S, NEW s \in Seq(S), NEW t \in Seq(S), IsInjective(s \o t)
    PROVE  IsInjective(s) /\ Range(s) \cap Range(t) = {}
<1>1. /\ s \o t \in Seq(S)
      /\ Len(s \o t) = Len(s) + Len(t)
      /\ \A i \in 1..(Len(s) + Len(t)) :
            (s \o t)[i] = IF i <= Len(s) THEN s[i] ELSE t[i - Len(s)]
  BY ConcatProperties
<1>2. \A i \in 1..Len(s) : i \in 1..Len(s \o t) /\ (s \o t)[i] = s[i]
  BY <1>1
<1>3. \A i \in 1..Len(t) : /\ i + Len(s) \in 1..Len(s \o t)
                           /\ (s \o t)[i + Len(s)] = t[i]
  BY <1>1
<1>4. IsInjective(s)
  BY <1>1, <1>2 DEF IsInjective
<1>5. ASSUME NEW x \in Range(s), x \in Range(t) PROVE FALSE
  <2>1. PICK i \in 1..Len(s) : s[i] = x
    BY InRange
  <2>2. PICK j \in 1..Len(t) : t[j] = x
    BY <1>5, InRange
  <2>3. (s \o t)[i] = (s \o t)[j + Len(s)] /\ i # j + Len(s)
    BY <1>2, <1>3, <2>1, <2>2
  <2>4. QED
    BY SMTT(30), <1>1, <1>2, <1>3, <2>3 DEF IsInjective
<1>6. QED
  BY <1>4, <1>5

\* Counting a finite set without some of its elements.
LEMMA CardinalityOfRest ==
    ASSUME NEW S, IsFiniteSet(S), NEW T \in SUBSET S
    PROVE  /\ IsFiniteSet(S \ T) /\ IsFiniteSet(T)
           /\ Cardinality(S) \in Nat /\ Cardinality(T) \in Nat
           /\ Cardinality(S \ T) = Cardinality(S) - Cardinality(T)
           /\ Cardinality(S) = Cardinality(T) => S = T
<1>1. IsFiniteSet(S \ T) /\ IsFiniteSet(T)
      /\ (Cardinality(S) = Cardinality(T) => S = T)
  BY FS_Subset
<1>2. Cardinality(S) \in Nat /\ Cardinality(T) \in Nat /\ Cardinality(S \ T) \in Nat
  BY <1>1, FS_CardinalityType
<1>3. (S \ T) \cup T = S /\ (S \ T) \cap T = {}
  OBVIOUS
<1>4. Cardinality(S) =
          Cardinality(S \ T) + Cardinality(T) - Cardinality((S \ T) \cap T)
  BY <1>1, <1>3, FS_Union
<1>5. Cardinality((S \ T) \cap T) = 0
  BY <1>3, FS_EmptySet
<1>6. QED
  BY <1>1, <1>2, <1>4, <1>5

\* sorted() of a set lists it, each element once.
LEMMA SortingLists ==
    ASSUME NEW S \in SUBSET Names, NEW q \in Sortings(S)
    PROVE  q \in Seq(S) /\ Range(q) = S /\ IsInjective(q)
<1>1. IsFiniteSet(S) /\ S \subseteq Nat
  BY NamesAreOrderedAndFew, FS_Subset
<1>2. Cardinality(S) \in Nat
  BY <1>1, FS_CardinalityType
<1> DEFINE n == Cardinality(S)
<1>3. q \in [1..n -> S] /\ \A i, j \in 1..n : i < j => q[i] < q[j]
  BY DEF Sortings
<1>4. q \in Seq(S)
  BY <1>2, <1>3
<1>5. IsInjective(q)
  <2> SUFFICES ASSUME NEW i \in 1..n, NEW j \in 1..n, q[i] = q[j] PROVE i = j
    BY <1>3 DEF IsInjective
  <2>1. q[i] \in Nat /\ q[j] \in Nat
    BY <1>1, <1>3
  <2>2. QED
    BY <1>2, <1>3, <2>1
<1>6. Range(q) = S
  <2>1. IsFiniteSet(1..n) /\ Cardinality(1..n) = n
    BY <1>2, FS_Interval
  <2>2. q \in Injection(1..n, S)
    BY <1>3, <1>5 DEF Injection
  <2>3. q \in Surjection(1..n, S)
    BY <1>1, <2>1, <2>2, FS_Injection
  <2>4. QED
    BY <2>3, <1>3 DEF Surjection, Range
<1>7. QED
  BY <1>4, <1>5, <1>6

\* Counting an initial segment.
LEMMA UpTo ==
    ASSUME NEW n \in Nat
    PROVE  IsFiniteSet(1..n) /\ Cardinality(1..n) = n
BY FS_Interval

\* A list without repetitions is as long as its range is large.
LEMMA LengthOfInjective ==
    ASSUME NEW S, NEW s \in Seq(S), IsInjective(s)
    PROVE  Cardinality(Range(s)) = Len(s)
<1>1. s \in [1..Len(s) -> S] /\ Len(s) \in Nat
  BY LenProperties
<1>2. s \in Surjection(1..Len(s), Range(s)) /\ s \in Injection(1..Len(s), Range(s))
  BY <1>1 DEF Surjection, Injection, Range
<1>3. IsFiniteSet(1..Len(s)) /\ Cardinality(1..Len(s)) = Len(s)
  BY <1>1, UpTo
<1>4. QED
  BY <1>2, <1>3, FS_Surjection
-----------------------------------------------------------------------------
(* The imports of a module are few, and so are those it waits for.         *)

\* All the counts of the algorithm are counts of finite sets.
LEMMA ModulesAreFew ==
    ASSUME TypeOK
    PROVE  /\ IsFiniteSet(modules)
           /\ \A m \in modules : /\ IsFiniteSet(Deps(m))
                                 /\ Waiting(m) \subseteq Deps(m)
                                 /\ IsFiniteSet(Waiting(m))
                                 /\ Cardinality(Waiting(m)) \in Nat
<1>1. IsFiniteSet(modules)
  BY NamesAreOrderedAndFew, FS_Subset DEF TypeOK
<1>2. ASSUME NEW m \in modules
      PROVE  IsFiniteSet(Deps(m)) /\ IsFiniteSet(Waiting(m))
  <2>1. Deps(m) \subseteq Names /\ Waiting(m) \subseteq Names
    BY DEF TypeOK, Deps, Waiting
  <2>2. QED
    BY <2>1, NamesAreOrderedAndFew, FS_Subset
<1>3. QED
  BY <1>1, <1>2, FS_CardinalityType DEF Waiting

\* The invariant holds when the queue has been seeded.
LEMMA InitKahn == Init => KahnInv
<1> SUFFICES ASSUME Init PROVE KahnInv
  OBVIOUS
<1> DEFINE Free == {m \in modules : in_degree[m] = 0}
<1>1. /\ modules \subseteq Names
      /\ imports \in [modules -> SUBSET Names]
      /\ aliases \in [Names -> Names \cup {None}]
  BY InputsAreGraphs DEF Init
<1>2. \A m \in modules : IsFiniteSet(Deps(m)) /\ Cardinality(Deps(m)) \in Nat
  <2> SUFFICES ASSUME NEW m \in modules
               PROVE  IsFiniteSet(Deps(m)) /\ Cardinality(Deps(m)) \in Nat
    OBVIOUS
  <2>1. Deps(m) \subseteq Names
    BY <1>1 DEF Deps
  <2>2. QED
    BY <2>1, NamesAreOrderedAndFew, FS_Subset, FS_CardinalityType
<1>3. Free \subseteq modules /\ Free \subseteq Names /\ queue \in Sortings(Free)
  BY <1>1 DEF Init
<1>4. queue \in Seq(Free) /\ Range(queue) = Free /\ IsInjective(queue)
  BY <1>3, SortingLists
<1>5. queue \in Seq(modules)
  BY <1>3, <1>4, SeqMonotonic
<1>6. result = <<>> /\ Range(result) = {} /\ result \o queue = queue
  <2>1. result = <<>> /\ result \in Seq(modules)
    BY DEF Init
  <2>2. Range(result) = {}
    BY <2>1, RangeOfEmpty
  <2>3. QED
    BY <2>1, <2>2, <1>5, ConcatEmptySeq
<1>7. TypeOK
  BY <1>1, <1>2, <1>5, <1>6 DEF Init, TypeOK
<1>8. PlacedOnce
  BY <1>4, <1>6 DEF PlacedOnce
<1>9. DepsComeFirst
  BY <1>6 DEF DepsComeFirst
<1>10. \A m \in modules : Waiting(m) = Deps(m)
  BY <1>6 DEF Waiting
<1>11. DegreeInv
  <2>1. \A m \in modules : in_degree[m] = Cardinality(Waiting(m))
    BY <1>10 DEF Init
  <2>2. \A m \in modules : Cardinality(Deps(m)) = 0 <=> Deps(m) = {}
    BY <1>2, FS_EmptySet
  <2>3. \A m \in modules :
            m \in Range(result) \cup Range(queue) <=> Waiting(m) = {}
    BY <2>1, <2>2, <1>4, <1>6, <1>10
  <2>4. outcome = "running"
    BY DEF Init
  <2>5. QED
    BY <2>1, <2>3, <2>4 DEF DegreeInv
<1>12. KnotsWait
  <2> SUFFICES ASSUME NEW S, Knot(S), NEW m \in S, m \in Range(queue)
               PROVE  FALSE
    BY <1>6 DEF KnotsWait
  <2>1. m \in modules /\ Waiting(m) = {}
    BY <1>11 DEF DegreeInv, Knot
  <2>2. PICK d \in imports[m] : Provider(d) \in S
    BY DEF Knot
  <2>3. d \in Deps(m)
    BY <2>2 DEF Knot, Deps
  <2>4. QED
    BY <2>1, <2>3, <1>10
<1>13. QED
  BY <1>7, <1>8, <1>9, <1>11, <1>12 DEF KahnInv
-----------------------------------------------------------------------------
(* Placing a module takes its edges off what the others wait for.          *)

\* Placing a module moves it from queue to result and queues those it frees.
LEMMA PlaceSteps ==
    ASSUME KahnInv, Place
    PROVE  LET node == Head(queue) IN
           /\ node \in modules /\ Waiting(node) = {}
           /\ result' \in Seq(modules) /\ queue' \in Seq(modules)
           /\ Range(result') = Range(result) \cup {node}
           /\ Range(queue') = Range(Tail(queue)) \cup Freed(node)
           /\ Range(queue) = {node} \cup Range(Tail(queue))
           /\ node \notin Range(result)
           /\ \E q \in Seq(modules) :
                 /\ IsInjective(q) /\ Range(q) = Freed(node)
                 /\ result' \o queue' = (result \o queue) \o q
<1> DEFINE node == Head(queue)
<1>1. queue # <<>> /\ queue \in Seq(modules) /\ result \in Seq(modules)
  BY DEF Place, KahnInv, TypeOK
<1>2. /\ node \in modules
      /\ Tail(queue) \in Seq(modules)
      /\ Range(queue) = {node} \cup Range(Tail(queue))
  BY <1>1, RangeOfHeadTail
<1>3. Waiting(node) = {}
  BY <1>2 DEF KahnInv, DegreeInv
<1>4. PICK q \in Sortings(Freed(node)) : queue' = Tail(queue) \o q
  BY DEF Place
<1>5. Freed(node) \subseteq modules /\ Freed(node) \subseteq Names
  BY DEF Freed, KahnInv, TypeOK
<1>6. q \in Seq(modules) /\ Range(q) = Freed(node) /\ IsInjective(q)
  <2>1. q \in Seq(Freed(node)) /\ Range(q) = Freed(node) /\ IsInjective(q)
    BY <1>4, <1>5, SortingLists
  <2>2. QED
    BY <2>1, <1>5, SeqMonotonic
<1>7. queue' \in Seq(modules) /\ Range(queue') = Range(Tail(queue)) \cup Freed(node)
  <2> DEFINE t == Tail(queue)
  <2>1. t \in Seq(modules) /\ q \in Seq(modules)
    BY <1>2, <1>6
  <2> HIDE DEF t
  <2>2. t \o q \in Seq(modules)
    BY <2>1, ConcatProperties
  <2>3. Range(t \o q) = Range(t) \cup Range(q)
    BY <2>1, RangeConcatenation
  <2>4. QED
    BY <2>2, <2>3, <1>4, <1>6 DEF t
<1>8. result' = Append(result, node)
  BY DEF Place
<1>9. result' \in Seq(modules) /\ Range(result') = Range(result) \cup {node}
  BY <1>1, <1>2, <1>8, AppendProperties, RangeOfAppend
<1>10. node \notin Range(result)
  <2>1. Range(result) \cap Range(queue) = {}
    BY <1>1, InjectiveSplit DEF KahnInv, PlacedOnce
  <2>2. QED
    BY <1>2, <2>1
<1>11. result' \o queue' = (result \o queue) \o q
  <2>1. <<node>> \in Seq(modules)
    BY <1>2
  <2>2. result' = result \o <<node>>
    BY <1>1, <1>2, <1>8, AppendIsConcat
  <2>3. result' \o Tail(queue) = result \o (<<node>> \o Tail(queue))
    BY <1>1, <1>2, <2>1, <2>2, ConcatAssociative
  <2>4. <<node>> \o Tail(queue) = queue
    BY <1>1, HeadThenTail
  <2>5. result' \o (Tail(queue) \o q) = (result' \o Tail(queue)) \o q
    <3>1. result' \in Seq(modules) /\ Tail(queue) \in Seq(modules) /\ q \in Seq(modules)
      BY <1>2, <1>6, <1>9
    <3>2. QED
      BY SMTT(30), <3>1, ConcatAssociative
  <2>6. QED
    BY <1>4, <2>3, <2>4, <2>5, Zenon
<1>12. QED
  BY <1>2, <1>3, <1>6, <1>7, <1>9, <1>10, <1>11

\* The imports each module waits for, after one more has been placed.
LEMMA PlaceWaiting ==
    ASSUME KahnInv, Place
    PROVE  \A m \in modules :
              /\ Deps(m)' = Deps(m)
              /\ Edges(Head(queue), m) \subseteq Waiting(m)
              /\ Waiting(m)' = Waiting(m) \ Edges(Head(queue), m)
              /\ in_degree'[m] \in Nat
              /\ in_degree'[m] = Cardinality(Waiting(m)')
              /\ m \in Freed(Head(queue)) <=>
                     Waiting(m) # {} /\ Waiting(m)' = {}
<1> DEFINE node == Head(queue)
<1> SUFFICES ASSUME NEW m \in modules
             PROVE  /\ Deps(m)' = Deps(m)
                    /\ Edges(node, m) \subseteq Waiting(m)
                    /\ Waiting(m)' = Waiting(m) \ Edges(node, m)
                    /\ in_degree'[m] \in Nat
                    /\ in_degree'[m] = Cardinality(Waiting(m)')
                    /\ m \in Freed(node) <=> Waiting(m) # {} /\ Waiting(m)' = {}
  OBVIOUS
<1>1. /\ node \in modules
      /\ node \notin Range(result)
      /\ Range(result') = Range(result) \cup {node}
  BY PlaceSteps
<1>2. UNCHANGED args
  BY DEF Place
<1>3. Deps(m)' = Deps(m) /\ \A d : Provider(d)' = Provider(d)
  BY <1>2 DEF args, Deps, Provider
<1>4. Edges(node, m) \subseteq Waiting(m)
  BY <1>1 DEF Edges, Waiting, Deps
<1>5. Waiting(m)' = {d \in Deps(m) : Provider(d) \notin Range(result')}
  BY <1>3 DEF Waiting
<1>6. \A d \in Deps(m) : d \in Edges(node, m) <=> Provider(d) = node
  BY DEF Edges, Deps
<1>7. Waiting(m)' = Waiting(m) \ Edges(node, m)
  BY <1>1, <1>5, <1>6 DEF Waiting
<1>8. IsFiniteSet(Waiting(m)) /\ in_degree[m] = Cardinality(Waiting(m))
  BY ModulesAreFew DEF KahnInv, DegreeInv
<1>9. in_degree'[m] = in_degree[m] - Cardinality(Edges(node, m))
  BY DEF Place
<1>10. in_degree'[m] = Cardinality(Waiting(m)') /\ in_degree'[m] \in Nat
  <2>1. /\ Cardinality(Waiting(m) \ Edges(node, m)) =
                Cardinality(Waiting(m)) - Cardinality(Edges(node, m))
        /\ IsFiniteSet(Waiting(m) \ Edges(node, m))
    BY <1>4, <1>8, CardinalityOfRest
  <2>2. QED
    BY <2>1, <1>7, <1>8, <1>9, FS_CardinalityType
<1>11. m \in Freed(node) <=> Waiting(m) # {} /\ Waiting(m)' = {}
  <2>1. Cardinality(Waiting(m)) = Cardinality(Edges(node, m))
            <=> Waiting(m) = Edges(node, m)
    BY <1>4, <1>8, CardinalityOfRest
  <2>2. QED
    BY <2>1, <1>4, <1>7, <1>8 DEF Freed
<1>12. QED
  BY <1>3, <1>4, <1>7, <1>10, <1>11

\* Placing a module keeps the invariant.
LEMMA PlaceKeepsInv == KahnInv /\ Place => KahnInv'
<1> SUFFICES ASSUME KahnInv, Place PROVE KahnInv'
  OBVIOUS
<1> DEFINE node == Head(queue)
<1>1. /\ node \in modules /\ Waiting(node) = {}
      /\ result' \in Seq(modules) /\ queue' \in Seq(modules)
      /\ Range(result') = Range(result) \cup {node}
      /\ Range(queue') = Range(Tail(queue)) \cup Freed(node)
      /\ Range(queue) = {node} \cup Range(Tail(queue))
  BY PlaceSteps
<1>2. \A m \in modules :
         /\ Deps(m)' = Deps(m)
         /\ Waiting(m)' = Waiting(m) \ Edges(node, m)
         /\ in_degree'[m] \in Nat
         /\ in_degree'[m] = Cardinality(Waiting(m)')
         /\ m \in Freed(node) <=> Waiting(m) # {} /\ Waiting(m)' = {}
  BY PlaceWaiting
<1>3. /\ modules' = modules /\ imports' = imports /\ aliases' = aliases
      /\ outcome' = outcome /\ outcome = "running"
  BY DEF Place, args
<1>4. TypeOK'
  <2>1. in_degree' \in [modules -> Nat]
    BY <1>2 DEF Place
  <2>2. QED
    BY <1>1, <1>3, <2>1 DEF KahnInv, TypeOK
<1>5. \A m \in modules :
          m \in Range(result') \cup Range(queue') <=>
              m \in Range(result) \cup Range(queue) \/ m \in Freed(node)
  BY <1>1
<1>6. DegreeInv'
  <2>1. \A m \in modules :
            m \in Range(result') \cup Range(queue') <=> Waiting(m)' = {}
    <3> SUFFICES ASSUME NEW m \in modules
                 PROVE  m \in Range(result') \cup Range(queue') <=> Waiting(m)' = {}
      OBVIOUS
    <3>1. m \in Range(result) \cup Range(queue) <=> Waiting(m) = {}
      BY DEF KahnInv, DegreeInv
    <3>2. QED
      BY <3>1, <1>2, <1>5
  <2>2. QED
    BY <2>1, <1>2, <1>3 DEF DegreeInv
<1>7. PlacedOnce'
  <2>1. PICK q \in Seq(modules) :
                 /\ IsInjective(q) /\ Range(q) = Freed(node)
                 /\ result' \o queue' = (result \o queue) \o q
    BY PlaceSteps
  <2>2. result \in Seq(modules) /\ queue \in Seq(modules)
    BY DEF KahnInv, TypeOK
  <2>3. /\ result \o queue \in Seq(modules)
        /\ Range(result \o queue) = Range(result) \cup Range(queue)
    BY <2>2, ConcatProperties, RangeConcatenation
  <2>4. Range(result \o queue) \cap Range(q) = {}
    BY <2>1, <2>3, <1>2 DEF Freed, KahnInv, DegreeInv
  <2>5. QED
    BY <2>1, <2>3, <2>4, InjectiveConcat DEF KahnInv, PlacedOnce
<1>8. DepsComeFirst'
  <2>1. /\ result' = Append(result, node)
        /\ result \in Seq(modules)
    BY DEF Place, KahnInv, TypeOK
  <2>2. /\ Len(result) \in Nat
        /\ Len(result') = Len(result) + 1
        /\ \A i \in 1..Len(result) : result'[i] = result[i] /\ result[i] \in modules
        /\ result'[Len(result) + 1] = node
    BY <2>1, <1>1, AppendProperties, LenProperties, ElementOfSeq
  <2> SUFFICES ASSUME NEW i \in 1..Len(result'),
                      NEW d \in Deps(result'[i])
               PROVE  \E j \in 1..(i - 1) : result'[j] = Provider(d)
    BY <1>3 DEF DepsComeFirst, Deps, Provider
  <2>4. CASE i \in 1..Len(result)
    <3>1. d \in Deps(result[i])
      BY <2>2, <2>4
    <3>2. PICK j \in 1..(i - 1) : result[j] = Provider(d)
      BY <2>4, <3>1 DEF KahnInv, DepsComeFirst
    <3>3. j \in 1..Len(result)
      BY <2>2, <2>4, <3>2
    <3>4. QED
      BY <2>2, <3>2, <3>3
  <2>5. CASE i = Len(result) + 1
    <3>1. d \in Deps(node)
      BY <2>2, <2>5
    <3>2. Provider(d) \in Range(result)
      BY <3>1, <1>1 DEF Waiting
    <3>3. PICK j \in 1..Len(result) : result[j] = Provider(d)
      BY <3>2, <2>1, InRange
    <3>4. j \in 1..(i - 1)
      BY <2>2, <2>5
    <3>5. QED
      BY <2>2, <3>3, <3>4
  <2>6. QED
    BY <2>2, <2>4, <2>5
<1>9. KnotsWait'
  <2> SUFFICES ASSUME NEW S, Knot(S)', NEW m \in S,
                      m \in Range(result') \cup Range(queue')
               PROVE  FALSE
    BY DEF KnotsWait
  <2>1. Knot(S)
    BY <1>3 DEF Knot, Provider
  <2>2. S \cap (Range(result) \cup Range(queue)) = {}
    BY <2>1 DEF KahnInv, KnotsWait
  <2>3. m \in modules /\ m \in Freed(node)
    BY <2>1, <2>2, <1>5 DEF Knot
  <2>4. Waiting(m)' = {}
    BY <2>3, <1>2
  <2>5. PICK d \in imports[m] : Provider(d) \in S
    BY <2>1 DEF Knot
  <2>6. d \in Deps(m) /\ Provider(d)' = Provider(d) /\ Deps(m)' = Deps(m)
    BY <2>1, <2>3, <2>5, <1>2, <1>3 DEF Knot, Deps, Provider
  <2>7. Provider(d) \in Range(result')
    BY <2>4, <2>6 DEF Waiting
  <2>8. QED
    BY <2>2, <2>5, <2>7, <1>1
<1>10. QED
  BY <1>4, <1>6, <1>7, <1>8, <1>9 DEF KahnInv

\* Every step keeps the invariant.
LEMMA StepKeepsInv == KahnInv /\ [Next]_vars => KahnInv'
<1>1. KahnInv /\ Finish => KahnInv'
  <2> SUFFICES ASSUME KahnInv, Finish PROVE KahnInv'
    OBVIOUS
  <2>1. UNCHANGED <<modules, imports, aliases, in_degree, queue, result>>
    BY DEF Finish, args
  <2>2. \A m : Waiting(m)' = Waiting(m) /\ Deps(m)' = Deps(m)
    BY <2>1 DEF Waiting, Deps, Provider
  <2>3. /\ queue' = <<>>
        /\ outcome' \in {"sorted", "cycle"}
        /\ outcome' = "cycle" <=> Len(result) # Cardinality(modules)
    BY <2>1 DEF Finish
  <2>4. TypeOK' /\ PlacedOnce'
    BY <2>1, <2>3 DEF KahnInv, TypeOK, PlacedOnce
  <2>5. DepsComeFirst'
    BY <2>1, <2>2 DEF KahnInv, DepsComeFirst, Provider
  <2>6. DegreeInv'
    BY <2>1, <2>2, <2>3 DEF KahnInv, DegreeInv
  <2>7. KnotsWait'
    BY <2>1 DEF KahnInv, KnotsWait, Knot, Provider
  <2>8. QED
    BY <2>4, <2>5, <2>6, <2>7 DEF KahnInv
<1>2. KahnInv /\ UNCHANGED vars => KahnInv'
  <2> SUFFICES ASSUME KahnInv, UNCHANGED vars PROVE KahnInv'
    OBVIOUS
  <2>1. UNCHANGED <<modules, imports, aliases, in_degree, queue, result, outcome>>
    BY DEF vars, args
  <2>2. TypeOK' /\ PlacedOnce'
    BY <2>1 DEF KahnInv, TypeOK, PlacedOnce
  <2>3. DepsComeFirst'
    BY <2>1 DEF KahnInv, DepsComeFirst, Deps, Provider
  <2>4. DegreeInv'
    BY <2>1 DEF KahnInv, DegreeInv, Waiting, Deps, Provider
  <2>5. KnotsWait'
    BY <2>1 DEF KahnInv, KnotsWait, Knot, Provider
  <2>6. QED
    BY <2>2, <2>3, <2>4, <2>5 DEF KahnInv
<1>3. QED
  BY <1>1, <1>2, PlaceKeepsInv DEF Next

\* The invariant of the loop, for every import graph and every alias map.
THEOREM KahnInvHolds == Spec => []KahnInv
<1>1. QED
  BY InitKahn, StepKeepsInv, PTL DEF Spec

\* The counters stay natural and the lists hold modules only: a module's
\* in_degree is never taken below zero by imports that share a provider.
THEOREM TypeCorrect == Spec => []TypeOK
<1>1. KahnInv => TypeOK
  BY DEF KahnInv
<1>2. QED
  BY <1>1, KahnInvHolds, PTL

\* topological_sort returns dependencies before dependents: at every moment
\* of the loop, whatever the graph and the aliases.
THEOREM DependenciesFirst == Spec => []DepsComeFirst
<1>1. KahnInv => DepsComeFirst
  BY DEF KahnInv
<1>2. QED
  BY <1>1, KahnInvHolds, PTL

\* No module is placed twice.
THEOREM NothingPlacedTwice == Spec => []PlacedOnce
<1>1. KahnInv => PlacedOnce
  BY DEF KahnInv
<1>2. QED
  BY <1>1, KahnInvHolds, PTL

\* What has been placed is as many modules as result is long.
LEMMA PlacedCount ==
    ASSUME KahnInv
    PROVE  /\ Range(result) \subseteq modules
           /\ Len(result) = Cardinality(Range(result))
           /\ Cardinality(Range(result)) = Cardinality(modules)
                 => Range(result) = modules
<1>1. result \in Seq(modules) /\ queue \in Seq(modules) /\ IsFiniteSet(modules)
  BY ModulesAreFew DEF KahnInv, TypeOK
<1>2. IsInjective(result)
  BY <1>1, InjectiveSplit DEF KahnInv, PlacedOnce
<1>3. Range(result) \subseteq modules
  BY <1>1, RangeOfSeq
<1>4. QED
  BY <1>1, <1>2, <1>3, LengthOfInjective, CardinalityOfRest

\* A circular import is reported exactly when there is one, also when the
\* circle only closes through an alias.
THEOREM CyclesAreReal == Spec => []CycleIsCircular
<1>1. KahnInv => CycleIsCircular
  <2> SUFFICES ASSUME KahnInv, outcome # "running"
               PROVE  outcome = "cycle" <=> \E S \in SUBSET modules : Knot(S)
    BY DEF CycleIsCircular
  <2>1. /\ queue = <<>>
        /\ outcome = "cycle" <=> Len(result) # Cardinality(modules)
    BY DEF KahnInv, DegreeInv
  <2>2. Range(queue) = {}
    BY <2>1, RangeOfEmpty DEF KahnInv, TypeOK
  <2>3. /\ Range(result) \subseteq modules
        /\ Len(result) # Cardinality(modules) <=> Range(result) # modules
    BY PlacedCount
  <2>4. ASSUME Range(result) # modules
        PROVE  \E S \in SUBSET modules : Knot(S)
    <3> DEFINE S == modules \ Range(result)
    <3>1. S # {} /\ S \subseteq modules
      BY <2>3, <2>4
    <3>2. ASSUME NEW m \in S PROVE \E d \in imports[m] : Provider(d) \in S
      <4>1. Waiting(m) # {}
        BY <2>2 DEF KahnInv, DegreeInv
      <4>2. QED
        BY <4>1 DEF Waiting, Deps
    <3>3. Knot(S)
      BY <3>1, <3>2 DEF Knot
    <3>4. QED
      BY <3>1, <3>3
  <2>5. ASSUME NEW S \in SUBSET modules, Knot(S)
        PROVE  Range(result) # modules
    <3>1. S # {} /\ S \cap Range(result) = {}
      BY <2>5 DEF KahnInv, KnotsWait, Knot
    <3>2. QED
      BY <3>1
  <2>6. QED
    BY <2>1, <2>3, <2>4, <2>5
<1>2. QED
  BY <1>1, KahnInvHolds, PTL

\* A list that is returned has every module in it.
THEOREM SortedIsComplete == Spec => []AllPlaced
<1>1. KahnInv => AllPlaced
  BY PlacedCount DEF AllPlaced, KahnInv, DegreeInv
<1>2. QED
  BY <1>1, KahnInvHolds, PTL

\* The sort returns every module, or fails for a circle of imports.
THEOREM OutcomeExact == Spec => []OutcomeIsExact
<1>1. CycleIsCircular /\ AllPlaced => OutcomeIsExact
  BY DEF OutcomeIsExact
<1>2. QED
  BY <1>1, CyclesAreReal, SortedIsComplete, PTL
-----------------------------------------------------------------------------
(* What resolve() relies on: the list is an order of the modules, and the  *)
(* error means that they have none.                                        *)

\* The sort knows no base MIBs: an import is an edge if it is a module.
R == INSTANCE ResolveResult WITH BaseMibs <- {}

Call == [imports |-> imports, aliases |-> aliases]

OrderOrNone ==
    /\ outcome = "sorted" => R!IsOrder(result, modules, Call)
    /\ outcome = "cycle" => \A q \in Seq(modules) : ~R!IsOrder(q, modules, Call)

\* The provider of an import is what the record of the call makes of it.
LEMMA ProviderIsTarget ==
    ASSUME TypeOK
    PROVE  \A m \in modules : \A d \in imports[m] : R!TargetIn(Call, d) = Provider(d)
BY DEF TypeOK, R!TargetIn, Call, Provider

\* A nonempty set of positions has a first one.
LEMMA FirstPosition ==
    ASSUME NEW S \in SUBSET Nat, S # {}
    PROVE  \E n \in S : \A m \in S : n <= m
<1> DEFINE L == {p \in Nat \X Nat : p[1] < p[2]}
<1>1. IsWellFoundedOn(L, Nat)
  BY NatLessThanWellFounded DEF OpToRel
<1> HIDE DEF L
<1>2. PICK n \in S : \A m \in S : ~(<<m, n>> \in L)
  BY <1>1, WFMin
<1>3. \A m \in S : ~(m < n)
  BY <1>2 DEF L
<1>4. QED
  BY <1>3

\* The first module of a knot in an order would wait for an earlier one.
LEMMA KnotHasNoOrder ==
    ASSUME TypeOK, NEW S \in SUBSET modules, Knot(S),
           NEW q \in Seq(modules), R!IsOrder(q, modules, Call)
    PROVE  FALSE
<1> DEFINE P == {i \in DOMAIN q : q[i] \in S}
<1>1. /\ DOMAIN q \subseteq Nat
      /\ modules = {q[i] : i \in DOMAIN q}
      /\ \A i \in DOMAIN q : \A j \in 1..(i - 1) : j \in DOMAIN q /\ j < i
  BY DEF R!IsOrder, R!ToSet
<1>2. P \subseteq Nat /\ P # {}
  BY <1>1 DEF Knot
<1>3. PICK i \in P : \A j \in P : i <= j
  <2> HIDE DEF P
  <2>1. QED
    BY <1>2, FirstPosition
<1>4. PICK d \in imports[q[i]] : Provider(d) \in S
  BY DEF Knot
<1>5. R!TargetIn(Call, d) = Provider(d) /\ Provider(d) \in R!ToSet(q)
  BY <1>4, ProviderIsTarget DEF R!IsOrder
<1>6. PICK j \in 1..(i - 1) : q[j] = Provider(d)
  BY <1>4, <1>5 DEF R!IsOrder, R!InOrder, Call
<1>7. j \in P /\ ~(i <= j)
  BY <1>1, <1>2, <1>4, <1>6
<1>8. QED
  BY <1>3, <1>7

\* resolver.py:467-474: the list that topological_sort returns is an order of
\* all the modules, every import after its provider, and it raises
\* CircularDependencyError only if no list of the modules is such an order.
THEOREM ReturnsAnOrder == Spec => []OrderOrNone
<1>1. KahnInv /\ OutcomeIsExact => OrderOrNone
  <2> SUFFICES ASSUME KahnInv, OutcomeIsExact PROVE OrderOrNone
    OBVIOUS
  <2>1. TypeOK /\ DepsComeFirst /\ result \in Seq(modules) /\ IsInjective(result)
    BY InjectiveSplit DEF KahnInv, PlacedOnce, TypeOK
  <2>2. ASSUME outcome = "sorted" PROVE R!IsOrder(result, modules, Call)
    <3>1. R!ToSet(result) = modules /\ R!IsInjective(result)
      BY <2>1, <2>2 DEF OutcomeIsExact, AllPlaced, Range, R!ToSet, IsInjective,
                        R!IsInjective
    <3>2. ASSUME NEW i \in DOMAIN result, NEW d \in imports[result[i]],
                 R!TargetIn(Call, d) \in R!ToSet(result)
          PROVE  \E j \in 1..(i - 1) : result[j] = R!TargetIn(Call, d)
      <4>1. i \in 1..Len(result) /\ result[i] \in modules
        BY <2>1
      <4>2. R!TargetIn(Call, d) = Provider(d) /\ d \in Deps(result[i])
        BY <2>1, <3>1, <3>2, <4>1, ProviderIsTarget DEF Deps
      <4>3. QED
        BY <2>1, <4>1, <4>2 DEF DepsComeFirst
    <3>3. R!InOrder(result, Call)
      BY <3>2 DEF R!InOrder, Call
    <3>4. QED
      BY <2>1, <3>1, <3>3 DEF R!IsOrder
  <2>3. ASSUME outcome = "cycle", NEW q \in Seq(modules)
        PROVE  ~R!IsOrder(q, modules, Call)
    <3>1. \E S \in SUBSET modules : Knot(S)
      BY <2>3 DEF OutcomeIsExact, CycleIsCircular
    <3>2. QED
      BY <2>1, <3>1, KnotHasNoOrder
  <2>4. QED
    BY <2>2, <2>3 DEF OrderOrNone
<1>2. QED
  BY <1>1, KahnInvHolds, OutcomeExact, PTL
=============================================================================
