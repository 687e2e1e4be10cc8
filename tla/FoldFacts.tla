------------------------------ MODULE FoldFacts ------------------------------
(***************************************************************************)
(* Induction over naturals and over finite sets, in a form that speaks of  *)
(* sets rather than of predicates, and what follows from it of the folds   *)
(* of the community modules: MapThenFoldSet and SumFunctionOnSet.          *)
(***************************************************************************)
EXTENDS Integers, SequencesExt, FiniteSetTheorems, SequenceTheorems,
        WellFoundedInduction, TLAPS

-----------------------------------------------------------------------------
(* Induction                                                               *)

LEMMA LeastNumber ==
  ASSUME NEW S, S \subseteq Nat, S # {}
  PROVE  \E m \in S : \A k \in S : m <= k
<1> DEFINE R == {ss \in Nat \X Nat : ss[1] < ss[2]}
<1>1. IsWellFoundedOn(R, Nat)
  BY NatLessThanWellFounded DEF OpToRel
<1>2. \E m \in S : \A k \in S : <<k, m>> \notin R
  <2> HIDE DEF R
  <2> QED BY <1>1, WFMin
<1>3. PICK m \in S : \A k \in S : <<k, m>> \notin R
  BY <1>2
<1>4. ASSUME NEW k \in S PROVE m <= k
  <2>1. <<k, m>> \in Nat \X Nat /\ ~(k < m)
    BY <1>3
  <2> QED BY <2>1
<1> QED BY <1>3, <1>4

\* Induction over the naturals: S is the set of those for which it holds.
LEMMA Induction ==
  ASSUME NEW S, 0 \in S, \A n \in Nat : n \in S => n + 1 \in S
  PROVE  Nat \subseteq S
<1> SUFFICES ASSUME Nat \ S # {} PROVE FALSE
  OBVIOUS
<1>1. PICK m \in Nat \ S : \A k \in Nat \ S : m <= k
  BY LeastNumber
<1>2. m # 0 /\ m - 1 \in Nat /\ m - 1 \in S
  BY <1>1
<1>3. m - 1 + 1 \in S
  BY <1>2
<1> QED BY <1>1, <1>3

\* Induction over the subsets of a finite set.
LEMMA SubsetInduction ==
  ASSUME NEW D, IsFiniteSet(D), NEW G, {} \in G,
         \A t \in SUBSET D : t # {} /\ (\A x \in t : t \ {x} \in G) => t \in G
  PROVE  SUBSET D \subseteq G
<1> DEFINE S == {n \in Nat : \A t \in SUBSET D : Cardinality(t) = n => t \in G}
<1>1. \A t \in SUBSET D : IsFiniteSet(t) /\ Cardinality(t) \in Nat
  BY FS_Subset, FS_CardinalityType
<1>2. 0 \in S
  BY <1>1, FS_EmptySet
<1>3. ASSUME NEW n \in Nat, n \in S PROVE n + 1 \in S
  <2> SUFFICES ASSUME NEW t \in SUBSET D, Cardinality(t) = n + 1
               PROVE  t \in G
    OBVIOUS
  <2>1. t # {} /\ IsFiniteSet(t)
    BY <1>1, FS_EmptySet
  <2>2. ASSUME NEW x \in t PROVE t \ {x} \in G
    <3>1. Cardinality(t \ {x}) = Cardinality(t) - 1
      BY <2>1, FS_RemoveElement
    <3> QED BY <1>3, <3>1
  <2> QED BY <2>1, <2>2
<1>4. Nat \subseteq S
  <2> HIDE DEF S
  <2> QED BY <1>2, <1>3, Induction
<1> QED BY <1>1, <1>4

\* A finite set of numbers, but the empty one, has a greatest.
LEMMA Greatest ==
  ASSUME NEW n \in Nat, NEW S \in SUBSET (0 .. n), S # {}
  PROVE  /\ Max(S) \in S
         /\ \A k \in S : k <= Max(S)
<1> DEFINE T == {k \in 0 .. n : n - k \in S}
<1>1. T \subseteq Nat /\ T # {}
  <2>1. PICK k \in S : TRUE
    OBVIOUS
  <2>2. k \in 0 .. n /\ n - k \in 0 .. n /\ n - (n - k) = k
    BY <2>1
  <2>3. n - k \in T
    BY <2>1, <2>2
  <2>4. \A i \in 0 .. n : i \in Nat
    OBVIOUS
  <2> QED BY <2>3, <2>4
<1>2. PICK m \in T : \A k \in T : m <= k
  <2> HIDE DEF T
  <2> QED BY <1>1, LeastNumber
<1>3. ASSUME NEW k \in S PROVE n - m >= k
  <2>1. k \in 0 .. n /\ n - k \in 0 .. n /\ n - (n - k) = k
    BY <1>3
  <2>2. n - k \in T
    BY <1>3, <2>1
  <2>3. m \in 0 .. n /\ m <= n - k
    BY <2>2, <1>2
  <2> QED BY <2>1, <2>3
<1>4. n - m \in S
  BY <1>2
<1>5. \E x \in S : \A k \in S : x >= k
  BY <1>3, <1>4
<1>6. Max(S) \in S /\ \A k \in S : Max(S) >= k
  BY <1>5 DEF Max
<1> QED BY <1>6

-----------------------------------------------------------------------------
(* Functions that are defined by recursion over the subsets of a set       *)

\* A run over the subsets of D takes from each an element and goes on with the
\* rest.
Picks(D, pick) == \A t \in SUBSET D : t # {} => pick[t] \in t

IsRun(D, base, pick, op, it) ==
  \A t \in SUBSET D :
    it[t] = IF t = {} THEN base ELSE op[pick[t]][it[t \ {pick[t]}]]

LEMMA RunExists ==
  ASSUME NEW D, IsFiniteSet(D), NEW pick, Picks(D, pick),
         NEW V, NEW base \in V, NEW op \in [D -> [V -> V]]
  PROVE  \E it \in [SUBSET D -> V] : IsRun(D, base, pick, op, it)
<1> DEFINE Upto(n) == {t \in SUBSET D : Cardinality(t) <= n}
           Good(it, n) ==
             \A t \in Upto(n) :
               it[t] = IF t = {} THEN base ELSE op[pick[t]][it[t \ {pick[t]}]]
           S == {n \in Nat : \E it \in [Upto(n) -> V] : Good(it, n)}
<1>1. \A t \in SUBSET D : IsFiniteSet(t) /\ Cardinality(t) \in Nat
  BY FS_Subset, FS_CardinalityType
<1>2. 0 \in S
  <2>1. \A t \in Upto(0) : t = {}
    BY <1>1, FS_EmptySet
  <2>2. [t \in Upto(0) |-> base] \in [Upto(0) -> V]
    OBVIOUS
  <2>3. Good([t \in Upto(0) |-> base], 0)
    BY <2>1
  <2> QED BY <2>2, <2>3
<1>3. ASSUME NEW n \in Nat, n \in S PROVE n + 1 \in S
  <2>1. PICK it \in [Upto(n) -> V] : Good(it, n)
    BY <1>3
  <2> DEFINE next == [t \in Upto(n + 1) |->
                        IF t = {} THEN base
                        ELSE op[pick[t]][it[t \ {pick[t]}]]]
  <2>2. ASSUME NEW t \in Upto(n + 1), t # {}
        PROVE  /\ pick[t] \in D /\ t \ {pick[t]} \in Upto(n)
               /\ t \ {pick[t]} \in Upto(n + 1)
    <3>1. pick[t] \in t
      BY <2>2 DEF Picks
    <3>2. Cardinality(t \ {pick[t]}) = Cardinality(t) - 1
      BY <1>1, <3>1, FS_RemoveElement
    <3> QED BY <1>1, <3>1, <3>2
  <2>3. next \in [Upto(n + 1) -> V]
    BY <2>2
  <2>4. ASSUME NEW t \in Upto(n) PROVE next[t] = it[t]
    <3>1. t \in Upto(n + 1)
      BY <1>1
    <3> QED BY <2>1, <3>1
  <2>5. Good(next, n + 1)
    BY <2>2, <2>4
  <2>6. \E other \in [Upto(n + 1) -> V] : Good(other, n + 1)
    <3> HIDE DEF next, Good, Upto
    <3> QED BY <2>3, <2>5
  <2> HIDE DEF next, Good, Upto
  <2> QED BY <2>6
<1> HIDE DEF Good
<1>4. Cardinality(D) \in S
  <2>1. Nat \subseteq S
    <3> HIDE DEF S
    <3> QED BY <1>2, <1>3, Induction
  <2> QED BY <1>1, <2>1
<1>5. Upto(Cardinality(D)) = SUBSET D
  BY <1>1, FS_Subset
<1>6. PICK it \in [Upto(Cardinality(D)) -> V] : Good(it, Cardinality(D))
  BY <1>4
<1> QED BY <1>5, <1>6 DEF Good, IsRun

-----------------------------------------------------------------------------
(* Sums                                                                    *)

\* A sum is computed by a run over the subsets of what it is of.
SumRun(f, D, it) ==
  \A t \in SUBSET D :
    it[t] = IF t = {} THEN 0
            ELSE f[CHOOSE x \in t : TRUE] + it[t \ {CHOOSE x \in t : TRUE}]

LEMMA SumRuns ==
  ASSUME NEW D, IsFiniteSet(D), NEW f, \A x \in D : f[x] \in Nat
  PROVE  \E it \in [SUBSET D -> Nat] :
           SumRun(f, D, it) /\ SumFunctionOnSet(f, D) = it[D]
<1> DEFINE pick == [t \in SUBSET D |-> CHOOSE x \in t : TRUE]
           op == [x \in D |-> [n \in Nat |-> f[x] + n]]
           Step(it) == [t \in SUBSET D |->
                         IF t = {} THEN 0
                         ELSE f[CHOOSE x \in t : TRUE]
                                + it[t \ {CHOOSE x \in t : TRUE}]]
           run == CHOOSE it : it = Step(it)
<1>1. \A t \in SUBSET D : t # {} => pick[t] \in t /\ pick[t] \in D
  OBVIOUS
<1>2. op \in [D -> [Nat -> Nat]]
  OBVIOUS
<1>3. PICK it \in [SUBSET D -> Nat] : IsRun(D, 0, pick, op, it)
  <2> HIDE DEF pick, op
  <2>1. 0 \in Nat /\ Picks(D, pick)
    BY <1>1 DEF Picks
  <2> QED BY <1>2, <2>1, RunExists
<1>4. SumRun(f, D, it)
  <2>1. ASSUME NEW t \in SUBSET D, t # {}
        PROVE  it[t] = f[pick[t]] + it[t \ {pick[t]}]
    <3>1. pick[t] \in D /\ it[t \ {pick[t]}] \in Nat
      BY <1>1, <2>1
    <3>2. it[t] = op[pick[t]][it[t \ {pick[t]}]]
      BY <1>3, <2>1 DEF IsRun
    <3> QED BY <3>1, <3>2
  <2>2. it[{}] = 0
    BY <1>3 DEF IsRun
  <2> QED BY <2>1, <2>2 DEF SumRun
<1>5. it = Step(it)
  BY <1>4 DEF SumRun
<1>6. run = Step(run)
  <2> HIDE DEF Step
  <2> QED BY <1>5
<1>7. SumRun(f, D, run)
  BY <1>6 DEF SumRun
<1>8. SumFunctionOnSet(f, D) = run[D]
  BY DEF SumFunctionOnSet, FoldFunctionOnSet, MapThenFoldSet
<1>9. SUBSET D \subseteq {t \in SUBSET D : run[t] = it[t]}
  <2> HIDE DEF run
  <2> DEFINE G == {t \in SUBSET D : run[t] = it[t]}
  <2>1. {} \in G
    BY <1>4, <1>7 DEF SumRun
  <2>2. ASSUME NEW t \in SUBSET D, t # {}, \A x \in t : t \ {x} \in G
        PROVE  t \in G
    <3>1. t \ {pick[t]} \in G /\ t \ {pick[t]} \in SUBSET D
      BY <1>1, <2>2
    <3> QED BY <1>4, <1>7, <2>2, <3>1 DEF SumRun
  <2>3. SUBSET D \subseteq G
    <3> HIDE DEF G
    <3> QED BY <2>1, <2>2, SubsetInduction
  <2> QED BY <2>3
<1> QED BY <1>4, <1>8, <1>9

LEMMA SumType ==
  ASSUME NEW D, IsFiniteSet(D), NEW f, \A x \in D : f[x] \in Nat
  PROVE  /\ SumFunctionOnSet(f, D) \in Nat
         /\ D = {} => SumFunctionOnSet(f, D) = 0
<1>1. PICK it \in [SUBSET D -> Nat] :
        SumRun(f, D, it) /\ SumFunctionOnSet(f, D) = it[D]
  BY SumRuns
<1> QED BY <1>1 DEF SumRun

\* Two runs with the same numbers agree.
LEMMA RunsAgree ==
  ASSUME NEW D, IsFiniteSet(D), NEW f, NEW it, NEW other,
         SumRun(f, D, it), SumRun(f, D, other)
  PROVE  it[D] = other[D]
<1> DEFINE G == {t \in SUBSET D : it[t] = other[t]}
<1>1. {} \in G
  BY DEF SumRun
<1>2. ASSUME NEW t \in SUBSET D, t # {}, \A x \in t : t \ {x} \in G
      PROVE  t \in G
  <2> DEFINE x == CHOOSE x \in t : TRUE
  <2>1. x \in t /\ it[t \ {x}] = other[t \ {x}]
    BY <1>2
  <2> QED BY <1>2, <2>1 DEF SumRun
<1>3. SUBSET D \subseteq G
  <2> HIDE DEF G
  <2> QED BY <1>1, <1>2, SubsetInduction
<1> QED BY <1>3

LEMMA SumFirst ==
  ASSUME NEW D, IsFiniteSet(D), D # {}, NEW f, \A x \in D : f[x] \in Nat
  PROVE  LET x == CHOOSE x \in D : TRUE
         IN  SumFunctionOnSet(f, D) = f[x] + SumFunctionOnSet(f, D \ {x})
<1> DEFINE x == CHOOSE x \in D : TRUE
           E == D \ {x}
<1>1. PICK it \in [SUBSET D -> Nat] :
        SumRun(f, D, it) /\ SumFunctionOnSet(f, D) = it[D]
  BY SumRuns
<1>2. IsFiniteSet(E)
  BY FS_Subset
<1>3. PICK other \in [SUBSET E -> Nat] :
        SumRun(f, E, other) /\ SumFunctionOnSet(f, E) = other[E]
  BY <1>2, SumRuns
<1>4. SumRun(f, E, it)
  BY <1>1 DEF SumRun
<1>5. it[E] = other[E]
  <2> HIDE DEF E
  <2> QED BY <1>2, <1>3, <1>4, RunsAgree
<1>6. it[D] = f[x] + it[E]
  BY <1>1 DEF SumRun
<1> QED BY <1>1, <1>3, <1>5, <1>6

\* Whichever is taken first, the sum is the same.
LEMMA SumRemove ==
  ASSUME NEW D, IsFiniteSet(D), NEW f, \A x \in D : f[x] \in Nat, NEW y \in D
  PROVE  SumFunctionOnSet(f, D) = f[y] + SumFunctionOnSet(f, D \ {y})
<1> DEFINE Sum(S) == SumFunctionOnSet(f, S)
           G == {t \in SUBSET D : \A z \in t : Sum(t) = f[z] + Sum(t \ {z})}
<1>1. \A t \in SUBSET D : IsFiniteSet(t) /\ Sum(t) \in Nat
  <2> SUFFICES ASSUME NEW t \in SUBSET D PROVE IsFiniteSet(t) /\ Sum(t) \in Nat
    OBVIOUS
  <2>1. IsFiniteSet(t)
    BY FS_Subset
  <2> QED BY <2>1, SumType
<1>2. ASSUME NEW t \in SUBSET D, t # {}, \A x \in t : t \ {x} \in G,
             NEW z \in t
      PROVE  Sum(t) = f[z] + Sum(t \ {z})
  <2> DEFINE x == CHOOSE x \in t : TRUE
  <2>1. x \in t /\ Sum(t) = f[x] + Sum(t \ {x})
    BY <1>1, <1>2, SumFirst
  <2>2. CASE z = x
    BY <2>1, <2>2
  <2>3. CASE z # x
    <3> HIDE DEF Sum, x
    <3>1. Sum(t \ {x}) = f[z] + Sum((t \ {x}) \ {z})
      BY <1>2, <2>1, <2>3
    <3>2. Sum(t \ {z}) = f[x] + Sum((t \ {z}) \ {x})
      BY <1>2, <2>1, <2>3
    <3>3. (t \ {x}) \ {z} = (t \ {z}) \ {x} /\ (t \ {x}) \ {z} \in SUBSET D
      OBVIOUS
    <3>4. /\ f[z] \in Nat /\ f[x] \in Nat /\ Sum((t \ {x}) \ {z}) \in Nat
      BY <1>1, <2>1, <3>3
    <3> QED BY <2>1, <3>1, <3>2, <3>3, <3>4
  <2> QED BY <2>2, <2>3
<1>3. SUBSET D \subseteq G
  <2>1. \A t \in SUBSET D :
          t # {} /\ (\A x \in t : t \ {x} \in G) => t \in G
    <3> HIDE DEF Sum
    <3> QED BY <1>2
  <2>2. {} \in G
    OBVIOUS
  <2> HIDE DEF G
  <2> QED BY <2>1, <2>2, SubsetInduction
<1> QED BY <1>3

\* Fewer and smaller numbers have no greater sum.
LEMMA SumAtMost ==
  ASSUME NEW E, IsFiniteSet(E), NEW D \in SUBSET E, NEW f, NEW g,
         \A x \in E : g[x] \in Nat,
         \A x \in D : f[x] \in Nat /\ f[x] <= g[x]
  PROVE  SumFunctionOnSet(f, D) <= SumFunctionOnSet(g, E)
<1> DEFINE Less(t) == SumFunctionOnSet(f, t \cap D) <= SumFunctionOnSet(g, t)
           G == {t \in SUBSET E : Less(t)}
<1>1. ASSUME NEW t \in SUBSET E
      PROVE  /\ IsFiniteSet(t) /\ IsFiniteSet(t \cap D)
             /\ SumFunctionOnSet(f, t \cap D) \in Nat
             /\ SumFunctionOnSet(g, t) \in Nat
  <2>1. IsFiniteSet(t) /\ IsFiniteSet(t \cap D)
    BY FS_Subset
  <2>2. SumFunctionOnSet(g, t) \in Nat
    BY <2>1, SumType
  <2>3. SumFunctionOnSet(f, t \cap D) \in Nat
    BY <2>1, SumType
  <2> QED BY <2>1, <2>2, <2>3
<1>2. {} \in G
  <2>1. {} \cap D = {} /\ IsFiniteSet({})
    BY FS_EmptySet
  <2>2. SumFunctionOnSet(f, {}) = 0 /\ SumFunctionOnSet(g, {}) = 0
    BY <2>1, SumType
  <2> QED BY <2>1, <2>2
<1>3. ASSUME NEW t \in SUBSET E, t # {}, \A x \in t : t \ {x} \in G
      PROVE  Less(t)
  <2>1. PICK x \in t : TRUE
    BY <1>3
  <2>2. /\ t \ {x} \in SUBSET E /\ Less(t \ {x})
    BY <1>3, <2>1
  <2>3. SumFunctionOnSet(g, t) = g[x] + SumFunctionOnSet(g, t \ {x})
    BY <1>1, SumRemove
  <2>4. CASE x \in D
    <3>1. (t \cap D) \ {x} = (t \ {x}) \cap D /\ x \in t \cap D
      BY <2>4
    <3>2. SumFunctionOnSet(f, t \cap D)
            = f[x] + SumFunctionOnSet(f, (t \cap D) \ {x})
      BY <1>1, <3>1, SumRemove
    <3>3. f[x] \in Nat /\ g[x] \in Nat /\ f[x] <= g[x]
      BY <2>4
    <3> HIDE DEF G
    <3>4. /\ SumFunctionOnSet(f, (t \cap D) \ {x}) \in Nat
          /\ SumFunctionOnSet(g, t \ {x}) \in Nat
          /\ SumFunctionOnSet(f, (t \cap D) \ {x})
               <= SumFunctionOnSet(g, t \ {x})
      BY <1>1, <2>2, <3>1
    <3> QED BY <2>3, <3>2, <3>3, <3>4
  <2>5. CASE x \notin D
    <3>1. t \cap D = (t \ {x}) \cap D
      BY <2>5
    <3>2. /\ SumFunctionOnSet(f, t \cap D) \in Nat
          /\ SumFunctionOnSet(g, t \ {x}) \in Nat /\ g[x] \in Nat
          /\ SumFunctionOnSet(f, t \cap D) <= SumFunctionOnSet(g, t \ {x})
      BY <1>1, <2>2, <3>1
    <3> QED BY <2>3, <3>2
  <2> QED BY <2>4, <2>5
<1>4. SUBSET E \subseteq G
  <2>1. \A t \in SUBSET E :
          t # {} /\ (\A x \in t : t \ {x} \in G) => t \in G
    <3> HIDE DEF Less
    <3> QED BY <1>3
  <2> HIDE DEF G
  <2> QED BY <1>2, <2>1, SubsetInduction
<1>5. E \in G /\ E \cap D = D
  <2> HIDE DEF G
  <2> QED BY <1>4
<1> QED BY <1>5

=============================================================================
