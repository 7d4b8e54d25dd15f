---------------------------- MODULE QualityProofs ----------------------------
(***************************************************************************)
(* The quality tools around the agent: regression pipeline, chaos drills,  *)
(* experiments, evaluation and the retrieval cache, for any number of      *)
(* runs, scenarios, variants, samples, workers, readers and keys.          *)
(***************************************************************************)
EXTENDS RegressionPipeline, ChaosDrill, Experiments, Evaluation, RagCache,
        FiniteSetTheorems, FunctionTheorems, NaturalsInduction, TLAPS

-----------------------------------------------------------------------------
(* Sums and counts.  SumOf(f) is the number of units of f, so the facts    *)
(* about finite sets bound and compare sums.                               *)

\* A unit of a function is an argument with a number up to its value.
LEMMA UnitIn ==
    ASSUME NEW f, NEW p
    PROVE  p \in Units(f) <=> \E x \in DOMAIN f : \E u \in 1..f[x] : p = <<x, u>>
<1>1. \A x, T : p \in {x} \X T <=> \E u \in T : p = <<x, u>>
  OBVIOUS
<1>2. p \in Units(f) <=> \E x \in DOMAIN f : p \in {x} \X (1..f[x])
  BY Zenon DEF Units
<1> QED BY <1>1, <1>2, Zenon

\* A function on a finite set with values up to n has finitely many units.
LEMMA UnitsWithin ==
    ASSUME NEW D, IsFiniteSet(D), NEW n \in Nat, NEW f \in [D -> 0..n]
    PROVE  /\ Units(f) \subseteq D \X (1..n)
           /\ IsFiniteSet(Units(f)) /\ SumOf(f) \in Nat
<1>1. \A x \in D : 1..f[x] \subseteq 1..n
  OBVIOUS
<1>2. Units(f) \subseteq D \X (1..n)
  <2> SUFFICES ASSUME NEW p \in Units(f) PROVE p \in D \X (1..n)
    BY Zenon
  <2>0. DOMAIN f = D
    BY Zenon
  <2>1. PICK x \in D : \E u \in 1..f[x] : p = <<x, u>>
    BY <2>0, UnitIn
  <2>2. PICK u \in 1..f[x] : p = <<x, u>>
    BY <2>1, Zenon
  <2> QED BY <1>1, <2>2, Zenon
<1>3. IsFiniteSet(1..n)
  BY FS_Interval
<1>4. IsFiniteSet(D \X (1..n))
  BY <1>3, FS_Product, Zenon
<1>5. IsFiniteSet(Units(f))
  BY <1>2, <1>4, FS_Subset, Zenon
<1> QED BY <1>2, <1>5, FS_CardinalityType, Zenon DEF SumOf

\* A sum grows with its terms.
LEMMA SumGrows ==
    ASSUME NEW D, IsFiniteSet(D), NEW n \in Nat, NEW f \in [D -> 0..n], NEW g \in [D -> 0..n],
           \A x \in D : f[x] <= g[x]
    PROVE  SumOf(f) <= SumOf(g)
<1>1. \A x \in D : 1..f[x] \subseteq 1..g[x]
  OBVIOUS
<1>2. Units(f) \subseteq Units(g)
  <2> SUFFICES ASSUME NEW p \in Units(f) PROVE p \in Units(g)
    BY Zenon
  <2>0. DOMAIN f = D
    BY Zenon
  <2>1. PICK x \in D : \E u \in 1..f[x] : p = <<x, u>>
    BY <2>0, UnitIn
  <2>2. PICK u \in 1..f[x] : p = <<x, u>>
    BY <2>1, Zenon
  <2>3. u \in 1..g[x] /\ x \in DOMAIN g
    BY <1>1, <2>2, Zenon
  <2> QED BY <2>2, <2>3, UnitIn, Zenon
<1> QED BY <1>2, UnitsWithin, FS_Subset, Zenon DEF SumOf

\* A sum of terms up to n is n times their number only if each of them is n.
LEMMA SumBelow ==
    ASSUME NEW D, IsFiniteSet(D), NEW n \in Nat, NEW f \in [D -> 0..n],
           NEW x \in D, f[x] < n
    PROVE  SumOf(f) < n * Cardinality(D)
<1>1. n \in 1..n /\ n \notin 1..f[x]
  OBVIOUS
<1>2. <<x, n>> \in D \X (1..n) /\ <<x, n>> \notin Units(f)
  <2>1. \A y, u : <<x, n>> = <<y, u>> => x = y /\ n = u
    BY Zenon
  <2>2. ASSUME <<x, n>> \in Units(f) PROVE FALSE
    <3>1. PICK y \in DOMAIN f : \E u \in 1..f[y] : <<x, n>> = <<y, u>>
      BY <2>2, UnitIn, Zenon
    <3> QED BY <1>1, <2>1, <3>1, Zenon
  <2> QED BY <1>1, <2>2, Zenon
<1>3. IsFiniteSet(1..n) /\ Cardinality(1..n) = n
  BY FS_Interval
<1>4. /\ IsFiniteSet(D \X (1..n))
      /\ Cardinality(D \X (1..n)) = Cardinality(D) * Cardinality(1..n)
  BY <1>3, FS_Product, Zenon
<1>5. Units(f) \subseteq D \X (1..n) /\ Units(f) # D \X (1..n)
  BY <1>2, UnitsWithin, Zenon
<1>6. Cardinality(Units(f)) < Cardinality(D \X (1..n))
  <2>1. /\ Cardinality(Units(f)) <= Cardinality(D \X (1..n))
        /\ Cardinality(Units(f)) # Cardinality(D \X (1..n))
    BY <1>4, <1>5, FS_Subset, Zenon
  <2>2. Cardinality(Units(f)) \in Nat /\ Cardinality(D \X (1..n)) \in Nat
    BY <1>4, <1>5, FS_Subset, FS_CardinalityType, Zenon
  <2> QED BY <2>1, <2>2
<1>7. Cardinality(D) \in Nat
  BY FS_CardinalityType, Zenon
<1>8. Cardinality(D) * Cardinality(1..n) = n * Cardinality(D)
  BY <1>3, <1>7
<1> QED BY <1>4, <1>6, <1>8, Zenon DEF SumOf

-----------------------------------------------------------------------------

\* A nonempty set of numbers has a least one.
LEMMA LeastOf ==
    ASSUME NEW S, S \subseteq Nat, S # {}
    PROVE  \E m \in S : \A x \in S : m <= x
<1>1. PICK m \in S : \A x \in S : ~(<<x, m>> \in OpToRel(<, Nat))
  BY NatLessThanWellFounded, WFMin, Zenon
<1>2. \A x \in S : ~(x < m)
  BY <1>1, Zenon DEF OpToRel
<1> QED BY <1>2

-----------------------------------------------------------------------------

\* A set of numbers that is finite has a greatest.
LEMMA GreatestOf ==
    ASSUME NEW S, IsFiniteSet(S), S \subseteq Nat, S # {}
    PROVE  \E m \in S : \A x \in S : x <= m
<1> DEFINE HasMax(A) == \E m \in A : \A x \in A : x <= m
           Sizes == {n \in Nat : \E A \in SUBSET S : A # {} /\ ~HasMax(A) /\ Cardinality(A) = n}
<1>1. SUFFICES ASSUME ~HasMax(S) PROVE FALSE
  BY Zenon
<1>2. Cardinality(S) \in Sizes
  BY <1>1, FS_CardinalityType, Zenon
<1>3. PICK n \in Sizes : \A k \in Sizes : n <= k
  <2>1. Sizes \subseteq Nat /\ Sizes # {}
    BY <1>2, Zenon
  <2> HIDE DEF Sizes
  <2> QED BY <2>1, LeastOf, Zenon
<1>4. PICK A \in SUBSET S : A # {} /\ ~HasMax(A) /\ Cardinality(A) = n
  BY <1>3, Zenon
<1>5. PICK a \in A : TRUE
  BY <1>4, Zenon
<1> DEFINE B == A \ {a}
<1>6. IsFiniteSet(A) /\ IsFiniteSet(B) /\ Cardinality(B) = Cardinality(A) - 1
  BY <1>5, FS_Subset, FS_RemoveElement, Zenon
<1>7. n \in Nat /\ Cardinality(B) \in Nat /\ Cardinality(B) < n
  BY <1>3, <1>4, <1>6, FS_CardinalityType
<1>8. Cardinality(B) \notin Sizes
  <2> HIDE DEF Sizes, B
  <2>1. \A k \in Sizes : n <= k
    BY <1>3, Zenon
  <2> QED BY <1>7, <2>1
<1>9. CASE B = {}
  <2>1. A = {a} /\ a \in Nat
    BY <1>5, <1>9, Zenon
  <2>2. HasMax(A)
    BY <2>1
  <2> QED BY <1>4, <2>2, Zenon
<1>10. CASE B # {}
  <2>1. HasMax(B)
    BY <1>7, <1>8, <1>10, Zenon
  <2>2. PICK m \in B : \A x \in B : x <= m
    BY <2>1, Zenon
  <2>3. A \subseteq Nat /\ m \in A /\ \A x \in A : x = a \/ x <= m
    BY <2>2, Zenon
  <2>4. HasMax(A)
    <3>1. CASE a <= m
      BY <2>3, <3>1, Zenon
    <3>2. CASE ~(a <= m)
      BY <1>5, <2>3, <3>2
    <3> QED BY <3>1, <3>2, Zenon
  <2> QED BY <1>4, <2>4, Zenon
<1> QED BY <1>9, <1>10, Zenon

\* Grouping a finite set by a key: the sizes of the groups add up to the size of the set.
GroupSizes(D, k) == [b \in {k[i] : i \in D} |-> Cardinality({i \in D : k[i] = b})]

LEMMA SumOfGroups ==
    ASSUME NEW D, IsFiniteSet(D), NEW k
    PROVE  SumOf(GroupSizes(D, k)) = Cardinality(D)
<1> DEFINE f == GroupSizes(D, k)
<1>0. /\ DOMAIN f = {k[i] : i \in D}
      /\ \A b \in DOMAIN f : f[b] = Cardinality({i \in D : k[i] = b})
  BY Zenon DEF GroupSizes
<1> HIDE DEF f
<1> SUFFICES SumOf(f) = Cardinality(D)
  BY Zenon DEF f
<1> USE <1>0
<1> DEFINE group(b) == {i \in D : k[i] = b}
           g(b) == CHOOSE h : h \in Bijection(group(b), 1..Cardinality(group(b)))
           place == [i \in D |-> <<k[i], g(k[i])[i]>>]
<1>1. ASSUME NEW b \in DOMAIN f PROVE g(b) \in Bijection(group(b), 1..f[b])
  <2>1. IsFiniteSet(group(b)) /\ f[b] = Cardinality(group(b))
    BY FS_Subset, Zenon
  <2> HIDE DEF group
  <2>2. ExistsBijection(group(b), 1..Cardinality(group(b)))
    BY <2>1, FS_CardinalityType, Fun_ExistsBijSymmetric, Zenon
  <2>3. \E h : h \in Bijection(group(b), 1..Cardinality(group(b)))
    BY <2>2, Zenon DEF ExistsBijection
  <2> QED BY <2>1, <2>3, Zenon
<1> HIDE DEF g
<1>2. ASSUME NEW b \in DOMAIN f
      PROVE  /\ g(b) \in [group(b) -> 1..f[b]]
             /\ \A i, j \in group(b) : g(b)[i] = g(b)[j] => i = j
             /\ \A u \in 1..f[b] : \E i \in group(b) : g(b)[i] = u
  BY <1>1, Zenon DEF Bijection, Injection, Surjection, IsInjective
<1>3. ASSUME NEW i \in D
      PROVE  k[i] \in DOMAIN f /\ i \in group(k[i]) /\ g(k[i])[i] \in 1..f[k[i]]
  <2>1. k[i] \in DOMAIN f /\ i \in group(k[i])
    BY Zenon
  <2>2. g(k[i]) \in [group(k[i]) -> 1..f[k[i]]]
    BY <1>2, <2>1, Zenon
  <2> QED BY <2>1, <2>2, Zenon
<1>4. place \in [D -> Units(f)]
  BY <1>3, UnitIn, Zenon
<1>5. ASSUME NEW i \in D, NEW j \in D, place[i] = place[j] PROVE i = j
  <2>1. k[i] = k[j] /\ g(k[i])[i] = g(k[j])[j]
    BY <1>5, Zenon
  <2>2. i \in group(k[i]) /\ j \in group(k[i]) /\ k[i] \in DOMAIN f
    BY <2>1, Zenon
  <2> HIDE DEF group, place
  <2> QED BY <1>2, <2>1, <2>2, Zenon
<1>6. ASSUME NEW p \in Units(f) PROVE \E i \in D : place[i] = p
  <2>1. PICK b \in DOMAIN f : \E u \in 1..f[b] : p = <<b, u>>
    BY UnitIn
  <2>2. PICK u \in 1..f[b] : p = <<b, u>>
    BY <2>1, Zenon
  <2>3. PICK i \in group(b) : g(b)[i] = u
    BY <1>2, Zenon
  <2> QED BY <2>2, <2>3, Zenon
<1> HIDE DEF place
<1>7. place \in Bijection(D, Units(f))
  BY <1>4, <1>5, <1>6, Fun_IsBij, Zenon
<1> QED BY <1>7, FS_Bijection, Zenon DEF ExistsBijection, SumOf

\* A predicate and its complement count every member of a finite set once.
LEMMA SplitCount ==
    ASSUME NEW D, IsFiniteSet(D), NEW A \in SUBSET D, NEW B \in SUBSET D, A \cap B = {}
    PROVE  /\ Cardinality(A) \in Nat /\ Cardinality(B) \in Nat
           /\ Cardinality(A \cup B) = Cardinality(A) + Cardinality(B)
<1>1. IsFiniteSet(A) /\ IsFiniteSet(B)
  BY FS_Subset, Zenon
<1>2. Cardinality(A \cap B) = 0
  BY FS_EmptySet, Zenon
<1>3. Cardinality(A \cup B) = Cardinality(A) + Cardinality(B) - Cardinality(A \cap B)
  BY <1>1, FS_Union, Zenon
<1>4. Cardinality(A) \in Nat /\ Cardinality(B) \in Nat
  BY <1>1, FS_CardinalityType, Zenon
<1> QED BY <1>2, <1>3, <1>4

-----------------------------------------------------------------------------
(* The regression pipeline.                                                *)

\* PassMeansHealthy is inductive once the recorded runs have their types.
PipelineInv == PipelineTypeOK /\ PassMeansHealthy

\* What the gate's first condition comes to when no P1 alert is tolerated.
LEMMA NoP1Alert ==
    ASSUME NEW summary, MaxP1Alerts = 0,
           Cardinality(Firing(summary) \cap P1) <= MaxP1Alerts
    PROVE  ~(Rate(summary) < 75) /\ ~(summary.toolFailures >= 1)
<1> DEFINE alerts == Firing(summary) \cap P1
<1>1. IsFiniteSet(P1)
  <2>1. IsFiniteSet({}) /\ IsFiniteSet({"low_e2e_success_rate"})
    BY FS_EmptySet, FS_Singleton, Zenon
  <2>2. IsFiniteSet({"low_e2e_success_rate"} \cup {"tool_execution_failures"})
    BY <2>1, FS_AddElement, Zenon
  <2> QED BY <2>2, Zenon DEF P1
<1>2. IsFiniteSet(alerts) /\ alerts \subseteq P1
  BY <1>1, FS_Subset, Zenon
<1>3. Cardinality(alerts) \in Nat /\ (Cardinality(alerts) = 0 <=> alerts = {})
  BY <1>2, FS_CardinalityType, FS_EmptySet, Zenon
<1>4. alerts = {}
  <2> HIDE DEF alerts
  <2> QED BY <1>3 DEF alerts
<1> QED BY <1>4, Zenon DEF Firing, P1

\* What the assumption on the constants says of the single numbers.
LEMMA PipelineNumbers ==
    /\ MaxRuns \in Nat /\ SloTarget \in Nat /\ Totals \cup {0} \subseteq Nat
    /\ Totals \subseteq {1, 2, 4, 5, 10, 20, 25, 50, 100}
<1>1. /\ MaxRuns \in Nat /\ SloTarget \in 1..100
      /\ Totals \subseteq {1, 2, 4, 5, 10, 20, 25, 50, 100}
  BY PipelineAssumption, Zenon
<1>2. \A n \in 1..100 : n \in Nat
  OBVIOUS
<1>3. 0 \in Nat /\ {1, 2, 4, 5, 10, 20, 25, 50, 100} \subseteq Nat
  OBVIOUS
<1>4. Totals \cup {0} \subseteq Nat
  BY <1>1, <1>3
<1> QED BY <1>1, <1>2, <1>4, Zenon

\* A success rate of at least 75 percent: the totals divide 100, so that the rate is exact.
LEMMA RateIsExact ==
    ASSUME NEW total \in Totals \cup {0}, NEW good \in 0..total, NEW summary,
           summary.total = total, summary.good = good, ~(Rate(summary) < 75)
    PROVE  4 * good >= 3 * total
<1>1. CASE total = 0
  <2>1. good = 0
    BY <1>1
  <2> QED BY <1>1, <2>1
<1>2. CASE total # 0
  <2>0. total \in {1, 2, 4, 5, 10, 20, 25, 50, 100}
    BY <1>2, PipelineNumbers, Zenon
  <2>1. total \in Nat \ {0} /\ good \in Nat
    BY <2>0
  <2>2. (100 * good) \div total >= 75
    BY <1>2, <2>1 DEF Rate
  <2>3. CASE total = 1
    BY <2>1, <2>2, <2>3
  <2>4. CASE total = 2
    BY <2>1, <2>2, <2>4
  <2>5. CASE total = 4
    BY <2>1, <2>2, <2>5
  <2>6. CASE total = 5
    BY <2>1, <2>2, <2>6
  <2>7. CASE total = 10
    BY <2>1, <2>2, <2>7
  <2>8. CASE total = 20
    BY <2>1, <2>2, <2>8
  <2>9. CASE total = 25
    BY <2>1, <2>2, <2>9
  <2>10. CASE total = 50
    BY <2>1, <2>2, <2>10
  <2>11. CASE total = 100
    BY <2>1, <2>2, <2>11
  <2> QED BY <2>0, <2>3, <2>4, <2>5, <2>6, <2>7, <2>8, <2>9, <2>10, <2>11, Zenon
<1> QED BY <1>1, <1>2, Zenon

\* The record before the first run.
LEMMA NoRunIsARun == NoRun \in RunRecords /\ NoRun.summary.good <= NoRun.summary.total /\ NoRun.at = "idle"
<1>1. <<>> \in Seq(StepNames)
  BY DEF StepNames
<1> QED BY <1>1 DEF NoRun, NoSummary, RunRecords, Summaries

\* The steps of a run stay step names.
LEMMA StepAdded ==
    ASSUME NEW r \in RunRecords, NEW name \in {"evaluate", "chaos", "gate"}
    PROVE  r.steps \in Seq(StepNames) /\ Append(r.steps, name) \in Seq(StepNames)
<1>1. r.steps \in Seq(StepNames)
  BY Zenon DEF RunRecords
<1>2. name \in StepNames
  BY Zenon DEF StepNames
<1>3. \A S : \A t \in Seq(S), x \in S : Append(t, x) \in Seq(S)
  OBVIOUS
<1> QED BY <1>1, <1>2, <1>3, Zenon

LEMMA PipelineInitInv == PipelineInit => PipelineInv
  BY PipelineNumbers, NoRunIsARun DEF PipelineInit, PipelineInv, PipelineTypeOK, PassMeansHealthy

\* One proof per step of RegressionPipeline.run; only the gate's step sets passed.
LEMMA PipelineStepInv == PipelineInv /\ [PipelineNext]_pipelineVars => PipelineInv'
<1> SUFFICES ASSUME PipelineInv, [PipelineNext]_pipelineVars PROVE PipelineInv'
  BY Zenon
<1>0. /\ runs \in 0..MaxRuns /\ MaxRuns \in Nat
      /\ run \in RunRecords /\ run.summary.good <= run.summary.total
      /\ budget \in [total : Nat, bad : Nat]
      /\ run.summary.total \in Nat /\ run.summary.good \in Nat /\ run.summary.toolFailures \in Nat
      /\ run.summary.total \in Totals \cup {0} /\ run.summary.good \in 0..run.summary.total
  <2>1. run.summary \in Summaries
    BY Zenon DEF PipelineInv, PipelineTypeOK, RunRecords
  <2>2. run.summary.total \in Totals \cup {0} /\ run.summary.good \in Nat /\ run.summary.toolFailures \in Nat
    BY <2>1, Zenon DEF Summaries
  <2>3. run.summary.total \in Nat
    BY <2>2, PipelineNumbers, Zenon
  <2>4. run.summary.good <= run.summary.total
    BY Zenon DEF PipelineInv, PipelineTypeOK
  <2>5. run.summary.good \in 0..run.summary.total
    BY <2>2, <2>3, <2>4
  <2> QED BY <2>2, <2>3, <2>4, <2>5, PipelineNumbers, Zenon DEF PipelineInv, PipelineTypeOK
<1>1. ASSUME NEW chaos \in BOOLEAN, NEW optional \in OptionalSteps, StartRun(chaos, optional)
      PROVE  PipelineInv'
  <2>1. optional \in Seq(StepNames)
    <3>1. ASSUME NEW S, NEW a \in S, NEW b \in S
          PROVE  <<>> \in Seq(S) /\ <<a>> \in Seq(S) /\ <<b>> \in Seq(S) /\ <<a, b>> \in Seq(S)
      BY SMT
    <3>2. "replay" \in StepNames /\ "ab_route" \in StepNames
      BY Zenon DEF StepNames
    <3> QED BY <3>1, <3>2, Zenon DEF OptionalSteps
  <2>2. run' \in RunRecords
    BY <1>1, <2>1, NoRunIsARun, Zenon DEF StartRun, RunRecords
  <2>3. run'.summary = NoRun.summary /\ run'.at = "evaluate"
    BY <1>1, Zenon DEF StartRun, NoRun
  <2> QED BY <1>0, <1>1, <2>2, <2>3, NoRunIsARun DEF StartRun, PipelineInv, PipelineTypeOK, PassMeansHealthy
<1>2. CASE EvaluateStep
  <2>1. PICK total \in Totals \cup {0} :
          \E good \in 0..total, slow \in BOOLEAN, f1 \in {0, 100} :
          \E failures \in {0, total - good} :
             run' = [run EXCEPT !.at = "chaos", !.steps = Append(@, "evaluate"),
                                !.summary = [total |-> total, good |-> good, slow |-> slow,
                                             toolFailures |-> failures, f1 |-> f1]]
    BY <1>2, Zenon DEF EvaluateStep
  <2>2. PICK good \in 0..total, slow \in BOOLEAN, f1 \in {0, 100} :
          \E failures \in {0, total - good} :
             run' = [run EXCEPT !.at = "chaos", !.steps = Append(@, "evaluate"),
                                !.summary = [total |-> total, good |-> good, slow |-> slow,
                                             toolFailures |-> failures, f1 |-> f1]]
    BY <2>1, Zenon
  <2>3. PICK failures \in {0, total - good} :
             run' = [run EXCEPT !.at = "chaos", !.steps = Append(@, "evaluate"),
                                !.summary = [total |-> total, good |-> good, slow |-> slow,
                                             toolFailures |-> failures, f1 |-> f1]]
    BY <2>2, Zenon
  <2>4. total \in Nat /\ good \in Nat /\ good <= total /\ failures \in Nat
    <3>1. total \in Nat
      BY PipelineNumbers, Zenon
    <3> QED BY <2>2, <2>3, <3>1
  <2>5. run' \in RunRecords /\ run'.summary.good = good /\ run'.summary.total = total /\ run'.at = "chaos"
    <3>1. [total |-> total, good |-> good, slow |-> slow,
           toolFailures |-> failures, f1 |-> f1] \in Summaries
      BY <2>4, Zenon DEF Summaries
    <3> DEFINE steps == Append(run.steps, "evaluate")
    <3>4. /\ steps \in Seq(StepNames)
          /\ run' = [run EXCEPT !.at = "chaos", !.steps = steps,
                                !.summary = [total |-> total, good |-> good, slow |-> slow,
                                             toolFailures |-> failures, f1 |-> f1]]
      BY <1>0, <2>3, StepAdded, Zenon
    <3> HIDE DEF steps
    <3>2. run' \in RunRecords
      BY <1>0, <3>1, <3>4, Zenon DEF RunRecords
    <3>3. run'.summary = [total |-> total, good |-> good, slow |-> slow,
                          toolFailures |-> failures, f1 |-> f1] /\ run'.at = "chaos"
      BY <1>0, <3>4, Zenon DEF RunRecords
    <3> QED BY <3>2, <3>3
  <2> QED BY <1>0, <1>2, <2>4, <2>5, Zenon DEF EvaluateStep, PipelineInv, PipelineTypeOK, PassMeansHealthy
<1>3. CASE ChaosStep
  <2>1. run' \in RunRecords /\ run'.summary = run.summary /\ run'.at = "assess"
    <3> DEFINE steps == IF run.chaos THEN Append(run.steps, "chaos") ELSE run.steps
    <3>1. steps \in Seq(StepNames) /\ run' = [run EXCEPT !.at = "assess", !.steps = steps]
      BY <1>0, <1>3, StepAdded, Zenon DEF ChaosStep
    <3> HIDE DEF steps
    <3>2. run' \in RunRecords
      BY <1>0, <3>1, Zenon DEF RunRecords
    <3> QED BY <1>0, <3>1, <3>2, Zenon DEF RunRecords
  <2> QED BY <1>0, <1>3, <2>1, Zenon DEF ChaosStep, PipelineInv, PipelineTypeOK, PassMeansHealthy
<1>4. CASE AssessStep
  <2>1. run' \in RunRecords /\ run'.summary = run.summary /\ run'.at = "gate"
    BY <1>0, <1>4, Zenon DEF AssessStep, RunRecords
  <2>2. \A bad \in BadCounted(run.summary) : bad \in Nat
    BY <1>0 DEF BadCounted
  <2>3. budget' \in [total : Nat, bad : Nat]
    BY <1>0, <1>4, <2>2 DEF AssessStep
  <2> QED BY <1>0, <1>4, <2>1, <2>3, Zenon DEF AssessStep, PipelineInv, PipelineTypeOK, PassMeansHealthy
<1>5. CASE GateStep
  <2>1. run' \in RunRecords /\ run'.summary = run.summary /\ run'.passed = Decides(run.summary, budget)
    <3> DEFINE steps == Append(run.steps, "gate")
    <3>1. /\ steps \in Seq(StepNames)
          /\ run' = [run EXCEPT !.at = "persist", !.passed = Decides(run.summary, budget),
                                !.steps = steps]
      BY <1>0, <1>5, StepAdded, Zenon DEF GateStep
    <3> HIDE DEF steps
    <3>2. Decides(run.summary, budget) \in BOOLEAN
      BY Zenon DEF Decides
    <3>3. run' \in RunRecords
      BY <1>0, <3>1, <3>2, Zenon DEF RunRecords
    <3> QED BY <1>0, <3>1, <3>3, Zenon DEF RunRecords
  <2>2. ASSUME MaxP1Alerts = 0, Decides(run.summary, budget)
        PROVE  /\ 4 * run.summary.good >= 3 * run.summary.total
               /\ run.summary.toolFailures = 0
               /\ budget.total > 0 => 100 * budget.bad < budget.total * (100 - SloTarget)
    <3>1. ~(Rate(run.summary) < 75) /\ ~(run.summary.toolFailures >= 1)
      BY <2>2, NoP1Alert, Zenon DEF Decides
    <3>2. 4 * run.summary.good >= 3 * run.summary.total
      BY <1>0, <3>1, RateIsExact, Zenon
    <3>3. run.summary.toolFailures = 0
      BY <1>0, <3>1
    <3>4. budget.total > 0 => ~(100 * budget.bad >= budget.total * (100 - SloTarget))
      BY <2>2, Zenon DEF Decides, BudgetExhausted
    <3>5. budget.total \in Nat /\ budget.bad \in Nat /\ SloTarget \in Nat
      BY <1>0, PipelineNumbers, Zenon
    <3> QED BY <3>2, <3>3, <3>4, <3>5
  <2>3. PassMeansHealthy'
    BY <1>5, <2>1, <2>2, Zenon DEF GateStep, PassMeansHealthy
  <2> QED BY <1>0, <1>5, <2>1, <2>3, Zenon DEF GateStep, PipelineInv, PipelineTypeOK
<1>6. CASE PersistStep
  <2>1. /\ run' \in RunRecords /\ run'.summary = run.summary /\ run'.passed = run.passed
        /\ run.at = "persist"
    BY <1>0, <1>6, Zenon DEF PersistStep, RunRecords
  <2> QED BY <1>0, <1>6, <2>1, Zenon DEF PersistStep, PipelineInv, PipelineTypeOK, PassMeansHealthy
<1>7. CASE CompleteStep
  BY <1>0, <1>7, NoRunIsARun, Zenon DEF CompleteStep, PipelineInv, PipelineTypeOK, PassMeansHealthy
<1>8. CASE RaiseInRun
  BY <1>0, <1>8, NoRunIsARun, Zenon DEF RaiseInRun, PipelineInv, PipelineTypeOK, PassMeansHealthy
<1>9. CASE ResetBudget
  BY <1>0, <1>9 DEF ResetBudget, PipelineInv, PipelineTypeOK, PassMeansHealthy
<1>10. CASE UNCHANGED pipelineVars
  BY <1>10, Zenon DEF pipelineVars, PipelineInv, PipelineTypeOK, PassMeansHealthy
<1> QED BY <1>1, <1>2, <1>3, <1>4, <1>5, <1>6, <1>7, <1>8, <1>9, <1>10, Zenon DEF PipelineNext

\* With no P1 alert tolerated, a run of the regression pipeline that passes the gate
\* succeeded on three quarters of its samples, no tool failed, and the error budget is not
\* used up, for any number of runs, targets and thresholds.
THEOREM PipelineSafe == PipelineSpec => []PassMeansHealthy
<1>1. PipelineInv => PassMeansHealthy
  BY Zenon DEF PipelineInv
<1> QED BY <1>1, PipelineInitInv, PipelineStepInv, PTL DEF PipelineSpec

-----------------------------------------------------------------------------
(* The chaos drills.                                                       *)

\* A drill that did not succeed has at most one point: what _score_result gives.
ScoresFit ==
    \A i \in DOMAIN results : ~results[i].ok => results[i].score <= 1
DrillInv == DrillTypeOK /\ ScoresFit

LEMMA DrillInitInv == DrillInit => DrillInv
<1> SUFFICES ASSUME DrillInit PROVE DrillInv
  BY Zenon
<1>1. todo \in Seq(Scenarios)
  BY DrillAssumption DEF DrillInit
<1> QED BY <1>1 DEF DrillInit, DrillInv, DrillTypeOK, ScoresFit

LEMMA DrillStepInv == DrillInv /\ [DrillNext]_drillVars => DrillInv'
<1> SUFFICES ASSUME DrillInv, [DrillNext]_drillVars PROVE DrillInv'
  BY Zenon
<1> USE DEF DrillInv, DrillTypeOK
<1>1. CASE EnterFault
  <2>1. Head(todo) \in Scenarios /\ Tail(todo) \in Seq(Scenarios) /\ <<Head(todo)>> \in Seq(Scenarios)
    BY <1>1 DEF EnterFault
  <2>2. activeFaults' \subseteq Scenarios
    BY <1>1, <2>1, Zenon DEF EnterFault, Injected
  <2> QED BY <1>1, <2>1, <2>2, Zenon DEF EnterFault, ScoresFit
<1>2. ASSUME NEW ok \in BOOLEAN, NEW fast \in {0, 1}, LeaveFault(ok, fast) PROVE DrillInv'
  <2>1. running[1] \in Scenarios
    BY <1>2 DEF LeaveFault
  <2> DEFINE new == [label |-> ValueOf[running[1]], ok |-> ok, score |-> SingleScore(fast, ok)]
  <2>2. new \in DrillResults
    BY <2>1 DEF DrillResults, SingleScore
  <2>3. ~new.ok => new.score <= 1
    BY DEF SingleScore
  <2>4. results' = Append(results, new) /\ results \in Seq(DrillResults)
    BY <1>2, Zenon DEF LeaveFault
  <2> HIDE DEF new
  <2>5. results' \in Seq(DrillResults)
    BY <2>2, <2>4
  <2>6. ScoresFit'
    BY <2>2, <2>3, <2>4 DEF ScoresFit
  <2> QED BY <1>2, <2>5, <2>6 DEF LeaveFault, AfterFault
<1>3. ASSUME NEW s \in Scenarios, InjectFault(s) PROVE DrillInv'
  BY <1>3, Zenon DEF InjectFault, Injected, ScoresFit
<1>4. ASSUME NEW s \in Scenarios, RemoveFault(s) PROVE DrillInv'
  BY <1>4, Zenon DEF RemoveFault, ScoresFit
<1>5. CASE UNCHANGED drillVars
  BY <1>5, Zenon DEF drillVars, ScoresFit
<1> QED BY <1>1, <1>2, <1>3, <1>4, <1>5, Zenon DEF DrillNext

\* With as many labels as results, no label has two results.
LEMMA LabelsDistinct ==
    ASSUME DrillInv, Cardinality(Labels) = Len(results),
           NEW i \in DOMAIN results, NEW j \in DOMAIN results, results[i].label = results[j].label
    PROVE  i = j
<1> DEFINE D == DOMAIN results
           f == [k \in D |-> results[k].label]
<1>1. D = 1..Len(results) /\ Len(results) \in Nat
  BY DEF DrillInv, DrillTypeOK
<1>2. IsFiniteSet(D) /\ Cardinality(D) = Len(results)
  <2>1. /\ IsFiniteSet(1..Len(results))
        /\ Cardinality(1..Len(results)) = IF 1 > Len(results) THEN 0 ELSE Len(results) - 1 + 1
    BY <1>1, FS_Interval
  <2> QED BY <1>1, <2>1
<1>3. f \in Surjection(D, Labels)
  BY Zenon DEF Surjection, Labels
<1>4. f \in Injection(D, Labels)
  BY <1>2, <1>3, FS_Surjection, Zenon
<1>5. f[i] = f[j]
  BY Zenon
<1> QED BY <1>4, <1>5, Zenon DEF Injection, IsInjective

\* The ratings of the drills of a session add up to the full score only if all are full.
LEMMA DrillShows == DrillInv => WeaknessShows
<1> SUFFICES ASSUME DrillInv PROVE WeaknessShows
  BY Zenon
<1>1. \A i \in DOMAIN results : results[i].score \in 0..3
  <2>1. \A i \in DOMAIN results : results[i] \in DrillResults
    BY DEF DrillInv, DrillTypeOK
  <2> QED BY <2>1, Zenon DEF DrillResults
<1>2. ASSUME NEW i \in DOMAIN results, ~results[i].ok
      PROVE  results[i].label \in Weaknesses
  <2>1. 10 * results[i].score < 21
    BY <1>1, <1>2 DEF DrillInv, ScoresFit
  <2> QED BY <2>1, Zenon DEF Weaknesses
<1>3. ASSUME Weaknesses # {}, Cardinality(Labels) = Len(results)
      PROVE  ScoreTotal < 3 * Cardinality(Labels)
  <2>1. PICK j \in DOMAIN results : 10 * results[j].score < 21
    BY <1>3, Zenon DEF Weaknesses
  <2>2. \A i \in DOMAIN results : LabelScore(results[i].label) = results[i].score
    <3> SUFFICES ASSUME NEW i \in DOMAIN results
                 PROVE  LabelScore(results[i].label) = results[i].score
      BY Zenon
    <3> DEFINE L(k) == /\ results[k].label = results[i].label
                       /\ \A m \in DOMAIN results : results[m].label = results[i].label => m <= k
    <3>1. \A m \in DOMAIN results : results[m].label = results[i].label => m = i
      BY <1>3, LabelsDistinct, Zenon
    <3>2. DOMAIN results \subseteq Nat
      BY DEF DrillInv, DrillTypeOK
    <3>3. L(i)
      BY <3>1, <3>2
    <3>4. (CHOOSE k \in DOMAIN results : L(k)) = i
      BY <3>1, <3>3, Zenon
    <3> QED BY <3>4, Zenon DEF LabelScore
  <2> DEFINE f == [label \in Labels |-> LabelScore(label)]
  <2>3. f \in [Labels -> 0..3]
    BY <1>1, <2>2, Zenon DEF Labels
  <2>4. results[j].label \in Labels /\ f[results[j].label] < 3
    BY <1>1, <2>1, <2>2 DEF Labels
  <2>5. IsFiniteSet(Labels)
    <3> DEFINE g == [k \in DOMAIN results |-> results[k].label]
    <3>1. DOMAIN results = 1..Len(results) /\ Len(results) \in Nat
      BY DEF DrillInv, DrillTypeOK
    <3>2. IsFiniteSet(DOMAIN results)
      BY <3>1, FS_Interval
    <3>3. g \in Surjection(DOMAIN results, Labels)
      BY Zenon DEF Surjection, Labels
    <3> QED BY <3>2, <3>3, FS_Surjection, Zenon
  <2> HIDE DEF f
  <2> QED BY <2>3, <2>4, <2>5, SumBelow, Zenon DEF ScoreTotal, f
<1> QED BY <1>2, <1>3, Zenon DEF WeaknessShows

\* ChaosDrillRunner lists every failed scenario as a weakness, and its resilience score is
\* then below 1 if no two scenarios share a label, for any scenarios in any order.
THEOREM DrillSafe == DrillSpec => []WeaknessShows
<1> QED BY DrillInitInv, DrillStepInv, DrillShows, PTL DEF DrillSpec

-----------------------------------------------------------------------------
(* The experiments.  _select_variant walks the cumulated shares: a bucket  *)
(* goes to the first variant whose boundary is above it.                   *)

LEMMA VariantNumbers ==
    Len(Variants) \in Nat \ {0} /\ DOMAIN Variants = 1..Len(Variants)
<1> DEFINE names == {Variants[v] : v \in DOMAIN Variants}
<1>1. Variants \in Seq(names) /\ Variants # <<>>
  BY ExperimentAssumption, Zenon
<1> HIDE DEF names
<1> QED BY <1>1

LEMMA SharesDomain ==
    ASSUME NEW shares \in ValidShares
    PROVE  /\ shares \in [1..Len(Variants) -> 0..Buckets] /\ DOMAIN shares = 1..Len(Variants)
           /\ Len(shares) = Len(Variants)
<1>1. shares \in [1..Len(Variants) -> 0..Buckets]
  BY VariantNumbers, Zenon DEF ValidShares
<1>2. Len(shares) = Len(Variants)
  BY <1>1, VariantNumbers
<1> QED BY <1>1, <1>2, Zenon

\* The upper end of a variant's buckets is a number.
LEMMA BoundaryIsNat ==
    ASSUME NEW shares \in ValidShares, NEW n \in 0..Len(Variants)
    PROVE  Boundary(shares, n) \in Nat
<1>1. [v \in 1..n |-> shares[v]] \in [1..n -> 0..Buckets]
  BY SharesDomain, VariantNumbers
<1>2. IsFiniteSet(1..n) /\ Buckets \in Nat
  BY FS_Interval, VariantNumbers, ExperimentAssumption
<1> QED BY <1>1, <1>2, UnitsWithin, Zenon DEF Boundary

\* Taking traffic from the earlier variants moves no boundary of theirs up.
LEMMA BoundaryFalls ==
    ASSUME NEW old \in ValidShares, NEW new \in ValidShares, NEW n \in 1..(Len(Variants) - 1),
           \A v \in 1..(Len(Variants) - 1) : new[v] <= old[v]
    PROVE  Boundary(new, n) <= Boundary(old, n)
<1> DEFINE f == [v \in 1..n |-> new[v]]
           g == [v \in 1..n |-> old[v]]
<1>1. f \in [1..n -> 0..Buckets] /\ g \in [1..n -> 0..Buckets]
  <2>1. 1..n \subseteq 1..Len(Variants)
    BY VariantNumbers
  <2> QED BY <2>1, SharesDomain, Zenon
<1>2. IsFiniteSet(1..n) /\ Buckets \in Nat
  BY FS_Interval, VariantNumbers, ExperimentAssumption
<1>3. \A v \in 1..n : f[v] <= g[v]
  BY VariantNumbers
<1> HIDE DEF f, g
<1> QED BY <1>1, <1>2, <1>3, SumGrows, Zenon DEF Boundary, f, g

\* What _select_variant returns: the first variant whose boundary is above the bucket.
LEMMA FirstAbove ==
    ASSUME NEW shares \in ValidShares, NEW bucket
    PROVE  LET n == Select(shares, bucket) IN
           /\ n \in 1..Len(Variants)
           /\ \A v \in 1..Len(Variants) : bucket < Boundary(shares, v) => n <= v
           /\ n = Len(Variants) \/ bucket < Boundary(shares, n)
<1> DEFINE hit == {v \in DOMAIN shares : bucket < Boundary(shares, v)}
           first == CHOOSE v \in hit : \A w \in hit : v <= w
<1>1. hit \subseteq 1..Len(Variants) /\ hit \subseteq Nat
  BY SharesDomain, VariantNumbers
<1>2. \A v \in 1..Len(Variants) : v \in hit <=> bucket < Boundary(shares, v)
  BY SharesDomain, Zenon
<1>3. Len(shares) = Len(Variants) /\ Len(Variants) \in 1..Len(Variants)
  BY SharesDomain, VariantNumbers
<1>4. CASE hit = {}
  <2>1. Select(shares, bucket) = Len(Variants)
    BY <1>3, <1>4, Zenon DEF Select
  <2> HIDE DEF hit
  <2> QED BY <1>2, <1>3, <1>4, <2>1, Zenon
<1>5. CASE hit # {}
  <2>1. Select(shares, bucket) = first
    BY <1>5, Zenon DEF Select
  <2> HIDE DEF hit
  <2>2. \E v \in hit : \A w \in hit : v <= w
    BY <1>1, <1>5, LeastOf, Zenon
  <2>3. first \in hit /\ \A w \in hit : first <= w
    BY <2>2, Zenon
  <2> HIDE DEF first
  <2> QED BY <1>1, <1>2, <2>1, <2>3, Zenon
<1> QED BY <1>4, <1>5, Zenon

\* A bucket is the last variant's exactly if no other boundary is above it.
LEMMA LastSelected ==
    ASSUME NEW shares \in ValidShares, NEW bucket
    PROVE  Select(shares, bucket) = Len(Variants)
              <=> \A v \in 1..(Len(Variants) - 1) : ~(bucket < Boundary(shares, v))
<1> DEFINE n == Select(shares, bucket)
<1>1. /\ n \in 1..Len(Variants)
      /\ \A v \in 1..Len(Variants) : bucket < Boundary(shares, v) => n <= v
      /\ n = Len(Variants) \/ bucket < Boundary(shares, n)
  BY FirstAbove, Zenon
<1> DEFINE above(v) == bucket < Boundary(shares, v)
<1>2. /\ n \in 1..Len(Variants)
      /\ \A v \in 1..Len(Variants) : above(v) => n <= v
      /\ n = Len(Variants) \/ above(n)
  BY <1>1, Zenon
<1> HIDE DEF n, above
<1>3. n = Len(Variants) => \A v \in 1..(Len(Variants) - 1) : ~above(v)
  BY <1>2, VariantNumbers
<1>4. n # Len(Variants) => n \in 1..(Len(Variants) - 1)
  <2>1. \A a \in Nat : \A b \in 1..a : b # a => b \in 1..(a - 1)
    OBVIOUS
  <2>2. Len(Variants) \in Nat
    BY VariantNumbers, Zenon
  <2> QED BY <1>2, <2>1, <2>2, Zenon
<1> QED BY <1>2, <1>3, <1>4, Zenon DEF n, above

\* RampUpKeepsSubjects is inductive with the types alone: the ramp-up step carries it.
ExperimentInv == ExperimentTypeOK /\ RampUpKeepsSubjects

LEMMA ExperimentInitInv == ExperimentInit => ExperimentInv
  BY VariantNumbers DEF ExperimentInit, ExperimentInv, ExperimentTypeOK, RampUpKeepsSubjects, NotRouted

LEMMA ExperimentStepInv == ExperimentInv /\ [ExperimentNext]_experimentVars => ExperimentInv'
<1> SUFFICES ASSUME ExperimentInv, [ExperimentNext]_experimentVars PROVE ExperimentInv'
  BY Zenon
<1>0. experiment \in Configs /\ experiment.shares \in ValidShares
  BY Zenon DEF ExperimentInv, ExperimentTypeOK, Configs
<1> DEFINE Decisions == [variant : 0..Len(Variants),
                         reason : {"none", "experiment_disabled", "manual_override", "bucket_assignment"}]
<1>1. ASSUME NEW s \in Subjects, NEW override \in 0..Len(Variants), RouteSubject(s, override)
      PROVE  ExperimentInv'
  <2> DEFINE d == RouteDecision(s, override)
  <2>1. /\ d \in Decisions
        /\ d.reason = "bucket_assignment" => d.variant = Select(experiment.shares, BucketOf[s])
    BY <1>0, FirstAbove, VariantNumbers DEF RouteDecision, Configs
  <2>2. routed' = [routed EXCEPT ![s] = d] /\ UNCHANGED <<experiment, safety>>
    BY <1>1, Zenon DEF RouteSubject
  <2> HIDE DEF d
  <2>3. routed' \in [Subjects -> Decisions]
    BY <2>1, <2>2, Zenon DEF ExperimentInv, ExperimentTypeOK
  <2>4. RampUpKeepsSubjects'
    <3> SUFFICES ASSUME NEW t \in Subjects, routed'[t].reason = "bucket_assignment",
                        routed'[t].variant = Len(Variants)
                 PROVE  Select(experiment.shares, BucketOf[t]) = Len(Variants)
      BY <2>2, Zenon DEF RampUpKeepsSubjects
    <3>1. CASE t = s
      BY <2>1, <2>2, <3>1, Zenon DEF ExperimentInv, ExperimentTypeOK
    <3>2. CASE t # s
      BY <2>2, <3>2, Zenon DEF ExperimentInv, ExperimentTypeOK, RampUpKeepsSubjects
    <3> QED BY <3>1, <3>2, Zenon
  <2> QED BY <2>2, <2>3, <2>4, Zenon DEF ExperimentInv, ExperimentTypeOK
<1>2. ASSUME NEW config \in Configs, Reconfigure(config) PROVE ExperimentInv'
  BY <1>2, VariantNumbers DEF Reconfigure, ExperimentInv, ExperimentTypeOK, RampUpKeepsSubjects, NotRouted
<1>3. ASSUME NEW shares \in ValidShares, RampUp(shares) PROVE ExperimentInv'
  <2>1. experiment' = [experiment EXCEPT !.shares = shares] /\ UNCHANGED <<routed, safety>>
    BY <1>3, Zenon DEF RampUp
  <2>2. experiment' \in Configs /\ experiment'.shares = shares
    BY <1>0, <2>1, Zenon DEF Configs
  <2>3. ASSUME NEW s \in Subjects, Select(experiment.shares, BucketOf[s]) = Len(Variants)
        PROVE  Select(shares, BucketOf[s]) = Len(Variants)
    <3>1. BucketOf[s] \in Nat
      BY ExperimentAssumption
    <3>2. ASSUME NEW v \in 1..(Len(Variants) - 1) PROVE ~(BucketOf[s] < Boundary(shares, v))
      <4>1. ~(BucketOf[s] < Boundary(experiment.shares, v))
        BY <1>0, <2>3, LastSelected, Zenon
      <4>2. Boundary(shares, v) <= Boundary(experiment.shares, v)
        BY <1>0, <1>3, BoundaryFalls, Zenon DEF RampUp
      <4>3. Boundary(shares, v) \in Nat /\ Boundary(experiment.shares, v) \in Nat
        BY <1>0, BoundaryIsNat, VariantNumbers
      <4> QED BY <3>1, <4>1, <4>2, <4>3
    <3> QED BY <3>2, LastSelected, Zenon
  <2> QED BY <2>1, <2>2, <2>3, Zenon DEF ExperimentInv, ExperimentTypeOK, RampUpKeepsSubjects
<1>4. ASSUME NEW metrics \in Reports, EvaluateGuardrails(metrics) PROVE ExperimentInv'
  <2>1. safety' \in {"ok", "warn", "stop"}
    <3>1. Hits(metrics) \subseteq {"stop_experiment", "warn"}
      BY Zenon DEF Hits
    <3> QED BY <1>4, <3>1, Zenon DEF EvaluateGuardrails
  <2> QED BY <1>4, <2>1, Zenon DEF EvaluateGuardrails, ExperimentInv, ExperimentTypeOK, RampUpKeepsSubjects
<1>5. CASE UNCHANGED experimentVars
  BY <1>5, Zenon DEF experimentVars, ExperimentInv, ExperimentTypeOK, RampUpKeepsSubjects
<1> QED BY <1>1, <1>2, <1>3, <1>4, <1>5, Zenon DEF ExperimentNext

\* A subject routed to the last variant by its bucket is routed there again after any number
\* of ramp-ups, for any variants, shares and subjects: no other boundary moves above it.
THEOREM ExperimentSafe == ExperimentSpec => []RampUpKeepsSubjects
<1>1. ExperimentInv => RampUpKeepsSubjects
  BY Zenon DEF ExperimentInv
<1> QED BY <1>1, ExperimentInitInv, ExperimentStepInv, PTL DEF ExperimentSpec

-----------------------------------------------------------------------------
(* The evaluation runner.                                                  *)

\* The result of a sample, as its worker builds it.
IsResultOf(r, sample) ==
    \E latency \in Latencies, score \in Scores :
        IF sample.tool THEN \E outcome \in GatewayOutcomes : r = ToolResult(sample, outcome, latency, score)
        ELSE \E kept \in BOOLEAN : r = RagResult(sample, kept, latency, score)

\* A collected result is one a worker built, and a run that returned has collected all.
EvaluationInv ==
    /\ EvaluationTypeOK /\ DOMAIN result = Indexes
    /\ \A i \in 1..collected : future[i] = "done"
    /\ \A i \in Indexes : future[i] = "done" => IsResultOf(result[i], samples[i])
    /\ runPhase = "returned" => collected = SampleCount

LEMMA EvaluationInitInv == EvaluationInit => EvaluationInv
  BY EvaluationAssumption DEF EvaluationInit, EvaluationInv, EvaluationTypeOK, Indexes

LEMMA EvaluationStepInv == EvaluationInv /\ [EvaluationNext]_evaluationVars => EvaluationInv'
<1> SUFFICES ASSUME EvaluationInv, [EvaluationNext]_evaluationVars PROVE EvaluationInv'
  BY Zenon
<1>0. SampleCount \in Nat \ {0} /\ OutputCount \in Nat
  BY EvaluationAssumption, Zenon
<1> USE DEF EvaluationInv, EvaluationTypeOK
<1>1. ASSUME NEW i \in Indexes, StartSample(i) PROVE EvaluationInv'
  <2>1. /\ future' = [future EXCEPT ![i] = "running"] /\ future[i] = "queued"
        /\ UNCHANGED <<samples, result, collected, runPhase, written>>
    BY <1>1, Zenon DEF StartSample
  <2>2. \A j \in Indexes : future'[j] = "done" => future[j] = "done"
    BY <2>1, Zenon
  <2>3. \A j \in 1..collected : j \in Indexes /\ future'[j] = "done"
    BY <1>0, <2>1 DEF Indexes
  <2> QED BY <2>1, <2>2, <2>3, Zenon
<1>2. ASSUME NEW i \in Indexes, FinishSample(i) PROVE EvaluationInv'
  <2>1. /\ future' = [future EXCEPT ![i] = "done"] /\ future[i] = "running"
        /\ UNCHANGED <<samples, collected, runPhase, written>>
    BY <1>2, Zenon DEF FinishSample
  <2>2. \E r : IsResultOf(r, samples[i]) /\ result' = [result EXCEPT ![i] = r]
    BY <1>2, Zenon DEF FinishSample, IsResultOf
  <2>3. PICK r : IsResultOf(r, samples[i]) /\ result' = [result EXCEPT ![i] = r]
    BY <2>2, Zenon
  <2>4. \A j \in Indexes : future'[j] = "done" => IsResultOf(result'[j], samples[j])
    BY <2>1, <2>3, Zenon
  <2>5. \A j \in 1..collected : j \in Indexes /\ future'[j] = "done"
    BY <1>0, <2>1 DEF Indexes
  <2> QED BY <2>1, <2>3, <2>4, <2>5, Zenon
<1>3. ASSUME NEW i \in Indexes, RaiseInSample(i) PROVE EvaluationInv'
  <2>1. /\ future' = [future EXCEPT ![i] = "raised"] /\ future[i] = "running"
        /\ UNCHANGED <<samples, result, collected, runPhase, written>>
    BY <1>3, Zenon DEF RaiseInSample
  <2>2. \A j \in Indexes : future'[j] = "done" => future[j] = "done"
    BY <2>1, Zenon
  <2>3. \A j \in 1..collected : j \in Indexes /\ future'[j] = "done"
    BY <1>0, <2>1 DEF Indexes
  <2> QED BY <2>1, <2>2, <2>3, Zenon
<1>4. CASE Collect
  <2>1. /\ collected' = collected + 1 /\ collected < SampleCount /\ future[collected + 1] = "done"
        /\ runPhase = "collecting" /\ UNCHANGED <<samples, future, result, runPhase, written>>
    BY <1>4, Zenon DEF Collect
  <2>2. \A j \in 1..collected' : future[j] = "done"
    BY <1>0, <2>1
  <2> QED BY <1>0, <2>1, <2>2
<1>5. CASE GiveUpCollecting
  BY <1>5, Zenon DEF GiveUpCollecting
<1>6. CASE LeavePool
  BY <1>6, Zenon DEF LeavePool
<1>7. CASE WriteOutputs
  BY <1>7, Zenon DEF WriteOutputs
<1>8. CASE UNCHANGED evaluationVars
  BY <1>8, Zenon DEF evaluationVars
<1> QED BY <1>1, <1>2, <1>3, <1>4, <1>5, <1>6, <1>7, <1>8, Zenon DEF EvaluationNext, WorkerStep, EvaluationOver

\* What the counts of the summary depend on.
Coherent(r) ==
    /\ r.success \in BOOLEAN /\ r.latency \in Nat /\ r.score \in 0..10
    /\ r.error \in {"none", "number", "unauthorized", "tool_execution_failed"}
    /\ Audited(r) <=> IsTool(r)
    /\ IsTool(r) <=> (r.rejected \/ StepOk("validation", r))
    /\ ~(r.rejected /\ StepOk("validation", r))
    /\ Attempted("authorization", r) <=> StepOk("validation", r)
    /\ Attempted("rate_limit", r) <=> StepOk("authorization", r)
    /\ Attempted("execution", r) <=> r.calls > 0

\* The result of a tool sample, for each way its call can end.
LEMMA ToolCoherent ==
    ASSUME NEW sample \in Dataset, NEW outcome \in GatewayOutcomes,
           NEW latency \in Latencies, NEW score \in Scores
    PROVE  Coherent(ToolResult(sample, outcome, latency, score))
<1> DEFINE r == ToolResult(sample, outcome, latency, score)
<1>1. /\ r.success \in BOOLEAN /\ r.latency \in Nat /\ r.score \in 0..10
      /\ r.error = ErrorOf[outcome] /\ r.steps = StepOutcomes[outcome]
      /\ r.rejected = (outcome = "rejected")
      /\ r.audit = (IF outcome \in {"success", "failure"} THEN 2 ELSE 1)
      /\ r.calls = (IF outcome \in {"success", "failure"} THEN 1 ELSE 0)
  BY EvaluationAssumption DEF ToolResult
<1> SUFFICES Coherent(r)
  BY Zenon
<1> HIDE DEF r
<1>0. r.rejected <=> (outcome = "rejected")
  BY <1>1, Zenon
<1>2. CASE outcome = "rejected"
  <2>1. r.error = "number" /\ r.steps = StepOutcomes["rejected"]
    BY <1>1, <1>2, Zenon DEF ErrorOf
  <2>2. /\ DOMAIN r.steps = {"validation"}
        /\ r.steps["validation"] = FALSE
    BY <2>1 DEF StepOutcomes
  <2>3. /\ StepOk("validation", r) = FALSE
        /\ StepOk("authorization", r) = FALSE
        /\ IsTool(r)
        /\ Attempted("authorization", r) = FALSE
        /\ Attempted("rate_limit", r) = FALSE
        /\ Attempted("execution", r) = FALSE
    BY <2>2 DEF StepOk, IsTool, Attempted
  <2>4. /\ Audited(r)
        /\ r.calls > 0 <=> FALSE
        /\ r.rejected <=> TRUE
    BY <1>0, <1>1, <1>2 DEF Audited
  <2> QED BY <1>1, <2>1, <2>3, <2>4, Zenon DEF Coherent
<1>3. CASE outcome = "denied"
  <2>1. r.error = "unauthorized" /\ r.steps = StepOutcomes["denied"]
    BY <1>1, <1>3, Zenon DEF ErrorOf
  <2>2. /\ DOMAIN r.steps = {"validation", "authorization"}
        /\ r.steps["validation"] = TRUE
        /\ r.steps["authorization"] = FALSE
    BY <2>1 DEF StepOutcomes
  <2>3. /\ StepOk("validation", r) = TRUE
        /\ StepOk("authorization", r) = FALSE
        /\ IsTool(r)
        /\ Attempted("authorization", r) = TRUE
        /\ Attempted("rate_limit", r) = FALSE
        /\ Attempted("execution", r) = FALSE
    BY <2>2 DEF StepOk, IsTool, Attempted
  <2>4. /\ Audited(r)
        /\ r.calls > 0 <=> FALSE
        /\ r.rejected <=> FALSE
    BY <1>0, <1>1, <1>3 DEF Audited
  <2> QED BY <1>1, <2>1, <2>3, <2>4, Zenon DEF Coherent
<1>4. CASE outcome = "success"
  <2>1. r.error = "none" /\ r.steps = StepOutcomes["success"]
    BY <1>1, <1>4, Zenon DEF ErrorOf
  <2>2. /\ DOMAIN r.steps = {"validation", "authorization", "rate_limit", "execution"}
        /\ r.steps["validation"] = TRUE
        /\ r.steps["authorization"] = TRUE
        /\ r.steps["rate_limit"] = TRUE
        /\ r.steps["execution"] = TRUE
    BY <2>1 DEF StepOutcomes
  <2>3. /\ StepOk("validation", r) = TRUE
        /\ StepOk("authorization", r) = TRUE
        /\ IsTool(r)
        /\ Attempted("authorization", r) = TRUE
        /\ Attempted("rate_limit", r) = TRUE
        /\ Attempted("execution", r) = TRUE
    BY <2>2, Zenon DEF StepOk, IsTool, Attempted
  <2>4. /\ Audited(r)
        /\ r.calls > 0 <=> TRUE
        /\ r.rejected <=> FALSE
    BY <1>0, <1>1, <1>4 DEF Audited
  <2> QED BY <1>1, <2>1, <2>3, <2>4, Zenon DEF Coherent
<1>5. CASE outcome = "failure"
  <2>1. r.error = "tool_execution_failed" /\ r.steps = StepOutcomes["failure"]
    BY <1>1, <1>5, Zenon DEF ErrorOf
  <2>2. /\ DOMAIN r.steps = {"validation", "authorization", "rate_limit", "execution"}
        /\ r.steps["validation"] = TRUE
        /\ r.steps["authorization"] = TRUE
        /\ r.steps["rate_limit"] = TRUE
        /\ r.steps["execution"] = FALSE
    BY <2>1 DEF StepOutcomes
  <2>3. /\ StepOk("validation", r) = TRUE
        /\ StepOk("authorization", r) = TRUE
        /\ IsTool(r)
        /\ Attempted("authorization", r) = TRUE
        /\ Attempted("rate_limit", r) = TRUE
        /\ Attempted("execution", r) = TRUE
    BY <2>2, Zenon DEF StepOk, IsTool, Attempted
  <2>4. /\ Audited(r)
        /\ r.calls > 0 <=> TRUE
        /\ r.rejected <=> FALSE
    BY <1>0, <1>1, <1>5 DEF Audited
  <2> QED BY <1>1, <2>1, <2>3, <2>4, Zenon DEF Coherent
<1> QED BY <1>2, <1>3, <1>4, <1>5, Zenon DEF GatewayOutcomes

\* The result of a retrieval sample.
LEMMA RagCoherent ==
    ASSUME NEW sample \in Dataset, NEW kept \in BOOLEAN,
           NEW latency \in Latencies, NEW score \in Scores
    PROVE  Coherent(RagResult(sample, kept, latency, score))
<1> DEFINE r == RagResult(sample, kept, latency, score)
<1>1. score \in 0..10 /\ latency \in Nat
  BY EvaluationAssumption, Zenon
<1>2. /\ r.success = (score >= 5 /\ sample.expects = "none") /\ r.error = "none"
      /\ r.steps = [retrieval |-> TRUE, rerank |-> kept, compression |-> kept]
      /\ r.latency = latency /\ r.score = score /\ r.rejected = FALSE /\ r.denied = FALSE
      /\ r.audit = 0 /\ r.calls = 0 /\ r.expectsAnswer = TRUE
  BY Zenon DEF RagResult
<1>3. DOMAIN r.steps = {"retrieval", "rerank", "compression"}
  BY <1>2, Zenon
<1> HIDE DEF r
<1>4. Coherent(r)
  BY <1>1, <1>2, <1>3 DEF Coherent, Audited, IsTool, StepOk, Attempted
<1> QED BY <1>4, Zenon DEF r

\* The counts of the summary from the coherence of the single results.
LEMMA EvaluationAddsUp == EvaluationInv => SummaryAddsUp
<1> SUFFICES ASSUME EvaluationInv, runPhase = "returned" PROVE SummaryAddsUp
  BY Zenon DEF SummaryAddsUp
<1>0. SampleCount \in Nat \ {0}
  BY EvaluationAssumption, Zenon
<1>1. ASSUME NEW i \in Indexes PROVE Coherent(result[i])
  <2>1. IsResultOf(result[i], samples[i]) /\ samples[i] \in Dataset
    BY Zenon DEF EvaluationInv, EvaluationTypeOK, Indexes
  <2> QED BY <2>1, ToolCoherent, RagCoherent, Zenon DEF IsResultOf
<1>2. IsFiniteSet(Indexes) /\ Cardinality(Indexes) = SampleCount
  BY <1>0, FS_Interval DEF Indexes
<1> DEFINE good == {i \in Indexes : result[i].success}
<1>3. /\ Cardinality(good) + Cardinality(Archive) = SampleCount
      /\ IsFiniteSet(Archive) /\ Cardinality(good) \in Nat
  <2>1. good \subseteq Indexes /\ Archive \subseteq Indexes /\ good \cap Archive = {}
        /\ good \cup Archive = Indexes
    BY Zenon DEF Archive
  <2> HIDE DEF good
  <2> QED BY <1>2, <2>1, SplitCount, FS_Subset
<1>4. BucketTotal = Cardinality(Archive)
  <2> DEFINE k == [i \in Archive |-> FailureBucket(result[i])]
             f == [b \in FailureBuckets |-> BucketSize(b)]
             B == {"quality_regression", "number", "unauthorized", "tool_execution_failed"}
  <2>1. ASSUME NEW i \in Indexes
        PROVE  /\ FailureBucket(result[i]) = "no bucket" <=> i \notin Archive
               /\ i \in Archive => FailureBucket(result[i]) \in B
    BY <1>1, Zenon DEF Archive, FailureBucket, Coherent
  <2>2. k \in [Archive -> B] /\ Archive \subseteq Indexes
    BY <2>1, Zenon DEF Archive
  <2>3. FailureBuckets = {k[i] : i \in Archive}
    BY <2>1, <2>2, Zenon DEF FailureBuckets
  <2>4. ASSUME NEW b \in FailureBuckets
        PROVE  BucketSize(b) = Cardinality({i \in Archive : k[i] = b})
    <3>1. {i \in Indexes : FailureBucket(result[i]) = b} = {i \in Archive : k[i] = b}
      BY <2>1, <2>2, Zenon DEF FailureBuckets
    <3> QED BY <3>1, Zenon DEF BucketSize
  <2>5. f = GroupSizes(Archive, k)
    BY <2>3, <2>4, Zenon DEF GroupSizes
  <2> HIDE DEF k, f
  <2>6. SumOf(f) = Cardinality(Archive)
    BY <1>3, <2>5, SumOfGroups, Zenon
  <2> QED BY <2>6, Zenon DEF BucketTotal, f
<1>5. Count(Succeeded) = Cardinality(good)
  BY Zenon DEF Count, Succeeded
<1>6. Count(Audited) = Count(IsTool)
  <2>1. {i \in Indexes : Audited(result[i])} = {i \in Indexes : IsTool(result[i])}
    BY <1>1, Zenon DEF Coherent
  <2> QED BY <2>1, Zenon DEF Count
<1>7. Count(LAMBDA r : r.rejected) + Count(LAMBDA r : StepOk("validation", r)) = Count(IsTool)
  <2> DEFINE A == {i \in Indexes : result[i].rejected}
             B == {i \in Indexes : StepOk("validation", result[i])}
             C == {i \in Indexes : IsTool(result[i])}
  <2>1. A \subseteq Indexes /\ B \subseteq Indexes /\ A \cap B = {} /\ C = A \cup B
    BY <1>1, Zenon DEF Coherent
  <2>2. /\ Count(LAMBDA r : r.rejected) = Cardinality(A)
        /\ Count(LAMBDA r : StepOk("validation", r)) = Cardinality(B)
        /\ Count(IsTool) = Cardinality(C)
    BY Zenon DEF Count
  <2> HIDE DEF A, B, C
  <2>3. Cardinality(A \cup B) = Cardinality(A) + Cardinality(B)
    <3>1. A \in SUBSET Indexes /\ B \in SUBSET Indexes /\ A \cap B = {}
      BY <2>1, Zenon
    <3> QED BY <1>2, <3>1, SplitCount, Zenon
  <2> QED BY <2>1, <2>2, <2>3, Zenon
<1>8. Count(LAMBDA r : Attempted("authorization", r)) = Count(LAMBDA r : StepOk("validation", r))
  <2>1. {i \in Indexes : Attempted("authorization", result[i])}
          = {i \in Indexes : StepOk("validation", result[i])}
    BY <1>1, Zenon DEF Coherent
  <2> QED BY <2>1, Zenon DEF Count
<1>9. Count(LAMBDA r : Attempted("rate_limit", r)) = Count(LAMBDA r : StepOk("authorization", r))
  <2>1. {i \in Indexes : Attempted("rate_limit", result[i])}
          = {i \in Indexes : StepOk("authorization", result[i])}
    BY <1>1, Zenon DEF Coherent
  <2> QED BY <2>1, Zenon DEF Count
<1>10. Count(LAMBDA r : Attempted("execution", r)) = Count(LAMBDA r : r.calls > 0)
  <2>1. {i \in Indexes : Attempted("execution", result[i])} = {i \in Indexes : result[i].calls > 0}
    BY <1>1, Zenon DEF Coherent
  <2> QED BY <2>1, Zenon DEF Count
<1>11. ASSUME NEW before \in Baselines
       PROVE  /\ NoBetter(before, Summary) => Issues(before, Summary) = {}
              /\ before.success = SampleCount /\ Summary.success = 0 =>
                    "success" \in Issues(before, Summary)
  <2>1. Count(Succeeded) \in Nat /\ Count(Accurate) \in Nat
    <3>1. IsFiniteSet({i \in Indexes : Succeeded(result[i])}) /\ IsFiniteSet({i \in Indexes : Accurate(result[i])})
      BY <1>2, FS_Subset, Zenon
    <3> QED BY <3>1, FS_CardinalityType, Zenon DEF Count
  <2>2. SumOf([i \in Indexes |-> result[i].score]) \in Nat
    <3>1. [i \in Indexes |-> result[i].score] \in [Indexes -> 0..10]
      BY <1>1, Zenon DEF Coherent
    <3> QED BY <1>2, <3>1, UnitsWithin, Zenon
  <2>3. P95 \in Nat
    <3> DEFINE rank == (19 * SampleCount + 19) \div 20
               reaches(l) == Cardinality({i \in Indexes : result[i].latency <= l}) >= rank
               values == {result[i].latency : i \in Indexes}
               reaching == {l \in values : reaches(l)}
    <3>1. IsFiniteSet(values) /\ values \subseteq Nat /\ values # {}
      <4>1. IsFiniteSet(values)
        <5> DEFINE h == [i \in Indexes |-> result[i].latency]
        <5>1. h \in Surjection(Indexes, values)
          BY Zenon DEF Surjection
        <5> HIDE DEF h, values
        <5> QED BY <1>2, <5>1, FS_Surjection, Zenon DEF ExistsSurjection
      <4>2. \A i \in Indexes : result[i].latency \in Nat
        BY <1>1, Zenon DEF Coherent
      <4>3. Indexes # {}
        BY <1>0 DEF Indexes
      <4> QED BY <4>1, <4>2, <4>3, Zenon
    <3>2. PICK m \in values : \A l \in values : l <= m
      <4> HIDE DEF values
      <4> QED BY <3>1, GreatestOf, Zenon
    <3>3. reaches(m)
      <4>1. {i \in Indexes : result[i].latency <= m} = Indexes
        BY <3>2, Zenon
      <4>2. rank <= SampleCount
        BY <1>0
      <4> QED BY <1>0, <1>2, <4>1, <4>2, Zenon
    <3>4. PICK l \in reaching : \A x \in reaching : l <= x
      <4>1. reaching \subseteq Nat /\ reaching # {}
        <5> HIDE DEF reaches
        <5> QED BY <3>1, <3>3, Zenon
      <4> HIDE DEF reaching
      <4> QED BY <4>1, LeastOf, Zenon
    <3>5. P95 = CHOOSE x \in values : reaches(x) /\ \A y \in values : reaches(y) => x <= y
      BY Zenon DEF P95
    <3>6. \E x \in values : reaches(x) /\ \A y \in values : reaches(y) => x <= y
      BY <3>4, Zenon
    <3>7. P95 \in values
      <4> HIDE DEF values, reaches
      <4> QED BY <3>5, <3>6, Zenon
    <3> QED BY <3>1, <3>7, Zenon
  <2>4. /\ Summary.success = Count(Succeeded) /\ Summary.accuracy = Count(Accurate)
        /\ Summary.score = SumOf([i \in Indexes |-> result[i].score]) /\ Summary.p95 = P95
    BY Zenon DEF Summary
  <2>5. /\ before.p95 \in Nat
        /\ \A m \in {"success", "score", "accuracy"} : before[m] \in Nat /\ Summary[m] \in Nat
    <3>1. before.p95 \in Nat
      BY EvaluationAssumption DEF Baselines
    <3>2. before.success \in Nat /\ before.score \in Nat /\ before.accuracy \in Nat
      BY <1>0 DEF Baselines
    <3> QED BY <2>1, <2>2, <2>4, <3>1, <3>2, Zenon
  <2>6. ASSUME NoBetter(before, Summary) PROVE Issues(before, Summary) = {}
    <3>1. ~Exceeded("p95", before, Summary)
      BY <2>3, <2>4, <2>5, <2>6 DEF Exceeded, NoBetter
    <3>2. ASSUME NEW m \in {"success", "score", "accuracy"} PROVE ~Regressed(m, before, Summary)
      <4>1. Summary[m] \in Nat /\ before[m] \in Nat /\ before[m] <= Summary[m]
        BY <2>5, <2>6, Zenon DEF NoBetter
      <4> QED BY <1>0, <4>1 DEF Regressed
    <3> QED BY <3>1, <3>2, Zenon DEF Issues
  <2>7. ASSUME before.success = SampleCount, Summary.success = 0
        PROVE  "success" \in Issues(before, Summary)
    <3>1. Regressed("success", before, Summary)
      BY <1>0, <2>7 DEF Regressed
    <3> QED BY <3>1, Zenon DEF Issues
  <2> QED BY <2>6, <2>7, Zenon
<1> QED BY <1>3, <1>4, <1>5, <1>6, <1>7, <1>8, <1>9, <1>10, <1>11, Zenon DEF SummaryAddsUp

\* The summary of an evaluation run that returned adds up, for any number of samples and
\* workers and any order in which the workers finish.
THEOREM EvaluationSafe == EvaluationSpec => []SummaryAddsUp
  BY EvaluationInitInv, EvaluationStepInv, EvaluationAddsUp, PTL DEF EvaluationSpec

-----------------------------------------------------------------------------
(* The retrieval cache.                                                    *)

\* What SubSeq leaves of a sequence from a position on.
LEMMA After ==
    ASSUME NEW R, NEW t \in Seq(R), NEW p \in 1..Len(t)
    PROVE  LET b == SubSeq(t, p + 1, Len(t)) IN
           /\ b \in Seq(R) /\ Len(b) = Len(t) - p
           /\ \A i \in 1..(Len(t) - p) : b[i] = t[i + p]
  OBVIOUS

\* The entries without those of a key, position by position.
LEMMA WithoutKey ==
    ASSUME NEW R, NEW entries \in Seq(R), NEW k, OneEntryPerKey(entries)
    PROVE  LET W == Without(entries, k) IN
           /\ W \in Seq(R) /\ Len(W) <= Len(entries)
           /\ k \in KeysOf(entries) => Len(W) + 1 = Len(entries)
           /\ \A i \in DOMAIN W : W[i].key # k /\ \E j \in DOMAIN entries : W[i] = entries[j]
           /\ OneEntryPerKey(W)
<1>1. CASE k \notin KeysOf(entries)
  <2>1. Without(entries, k) = entries
    BY <1>1, Zenon DEF Without
  <2> QED BY <1>1, <2>1 DEF KeysOf
<1>2. CASE k \in KeysOf(entries)
  <2> DEFINE p == Position(entries, k)
             W == Without(entries, k)
  <2>1. p \in DOMAIN entries /\ entries[p].key = k
    BY <1>2, Zenon DEF KeysOf, Position
  <2>2. W = SubSeq(entries, 1, p - 1) \o SubSeq(entries, p + 1, Len(entries))
    BY <1>2, Zenon DEF Without
  <2> HIDE DEF p, W
  <2>3. p \in 1..Len(entries) /\ Len(entries) \in Nat
    BY <2>1
  <2>4. /\ W \in Seq(R) /\ Len(W) + 1 = Len(entries)
        /\ \A i \in 1..Len(W) : W[i] = IF i < p THEN entries[i] ELSE entries[i + 1]
    <3> DEFINE a == SubSeq(entries, 1, p - 1)
               b == SubSeq(entries, p + 1, Len(entries))
    <3>1. a \in Seq(R) /\ Len(a) = p - 1 /\ \A i \in 1..(p - 1) : a[i] = entries[i]
      BY <2>3
    <3>2. /\ b \in Seq(R) /\ Len(b) = Len(entries) - p
          /\ \A i \in 1..(Len(entries) - p) : b[i] = entries[i + p]
      BY <2>3, After, Zenon
    <3>3. W = a \o b
      BY <2>2, Zenon
    <3> HIDE DEF a, b
    <3>4. W \in Seq(R) /\ Len(W) = Len(a) + Len(b)
      BY <3>1, <3>2, <3>3
    <3>5. \A i \in 1..Len(W) : W[i] = IF i <= Len(a) THEN a[i] ELSE b[i - Len(a)]
      BY <3>1, <3>2, <3>3
    <3>6. ASSUME NEW i \in 1..Len(W) PROVE W[i] = IF i < p THEN entries[i] ELSE entries[i + 1]
      <4>1. CASE i < p
        BY <2>3, <3>1, <3>5, <4>1
      <4>2. CASE ~(i < p)
        <5>1. i - Len(a) \in 1..(Len(entries) - p) /\ (i - Len(a)) + p = i + 1
          BY <2>3, <3>1, <3>2, <3>4, <4>2
        <5>2. W[i] = b[i - Len(a)]
          BY <2>3, <3>1, <3>5, <4>2
        <5> QED BY <3>2, <4>2, <5>1, <5>2, Zenon
      <4> QED BY <4>1, <4>2, Zenon
    <3> QED BY <2>3, <3>1, <3>2, <3>4, <3>6
  <2>5. Len(W) \in Nat /\ DOMAIN W = 1..Len(W) /\ DOMAIN entries = 1..Len(entries)
    BY <2>4
  <2> DEFINE at(i) == IF i < p THEN i ELSE i + 1
  <2>6. \A i \in 1..Len(W) : at(i) \in DOMAIN entries /\ at(i) # p /\ W[i] = entries[at(i)]
    BY <2>3, <2>4, <2>5
  <2>7. \A i, j \in 1..Len(W) : at(i) = at(j) => i = j
    BY <2>3, <2>5
  <2> HIDE DEF at
  <2>8. \A i \in DOMAIN W : W[i].key # k
    BY <2>1, <2>5, <2>6, Zenon DEF OneEntryPerKey
  <2>9. OneEntryPerKey(W)
    BY <2>5, <2>6, <2>7 DEF OneEntryPerKey
  <2>10. Len(W) <= Len(entries)
    BY <2>4, <2>5
  <2> QED BY <1>2, <2>4, <2>5, <2>6, <2>8, <2>9, <2>10, Zenon DEF W
<1> QED BY <1>1, <1>2, Zenon

\* What a cache holds after a step: entries it held, and perhaps a new one.
LEMMA AfterGetOf ==
    ASSUME NEW R, NEW entries \in Seq(R), NEW k, OneEntryPerKey(entries)
    PROVE  LET A == AfterGet(entries, k) IN
           /\ A \in Seq(R) /\ Len(A) <= Len(entries) /\ OneEntryPerKey(A)
           /\ \A i \in DOMAIN A : \E j \in DOMAIN entries : A[i] = entries[j]
<1> DEFINE W == Without(entries, k)
<1>1. /\ W \in Seq(R) /\ Len(W) <= Len(entries)
      /\ k \in KeysOf(entries) => Len(W) + 1 = Len(entries)
      /\ \A i \in DOMAIN W : W[i].key # k /\ \E j \in DOMAIN entries : W[i] = entries[j]
      /\ OneEntryPerKey(W)
  BY WithoutKey, Zenon
<1> HIDE DEF W
<1>2. CASE ~Hit(entries, k)
  <2>1. AfterGet(entries, k) = W
    BY <1>2, Zenon DEF AfterGet, W
  <2> QED BY <1>1, <2>1, Zenon
<1>3. CASE Hit(entries, k)
  <2> DEFINE e == Entry(entries, k)
             A == Append(W, e)
  <2>1. k \in KeysOf(entries)
    BY <1>3, Zenon DEF Hit
  <2>2. Position(entries, k) \in DOMAIN entries /\ entries[Position(entries, k)].key = k
    BY <2>1, Zenon DEF KeysOf, Position
  <2>3. e \in R /\ e.key = k /\ \E j \in DOMAIN entries : e = entries[j]
    BY <2>2 DEF Entry
  <2>4. AfterGet(entries, k) = A
    BY <1>3, Zenon DEF AfterGet, W
  <2> HIDE DEF e
  <2>5. A \in Seq(R) /\ Len(A) = Len(W) + 1 /\ DOMAIN A = 1..(Len(W) + 1) /\ Len(W) \in Nat
    BY <1>1, <2>3
  <2>6. (\A i \in DOMAIN W : A[i] = W[i]) /\ A[Len(W) + 1] = e /\ DOMAIN W = 1..Len(W)
    BY <1>1, <2>3
  <2> HIDE DEF A
  <2>7. \A i \in DOMAIN A : i \in DOMAIN W \/ i = Len(W) + 1
    BY <2>5, <2>6
  <2>8. \A i \in DOMAIN A : \E j \in DOMAIN entries : A[i] = entries[j]
    BY <1>1, <2>3, <2>6, <2>7, Zenon
  <2>9. OneEntryPerKey(A)
    BY <1>1, <2>3, <2>6, <2>7, Zenon DEF OneEntryPerKey
  <2> QED BY <1>1, <2>1, <2>4, <2>5, <2>8, <2>9
<1> QED BY <1>2, <1>3, Zenon

\* After put: the new entry, and entries the cache held; never more than max_size.
LEMMA AfterPutOf ==
    ASSUME NEW R, NEW entries \in Seq(R), NEW k, NEW value, NEW now, OneEntryPerKey(entries),
           Len(entries) <= MaxSize,
           NEW e \in R, e = [key |-> k, asOf |-> value, put |-> now, expired |-> FALSE]
    PROVE  LET A == AfterPut(entries, k, value, now) IN
           /\ A \in Seq(R) /\ Len(A) <= MaxSize /\ OneEntryPerKey(A)
           /\ \A i \in DOMAIN A : A[i] = e \/ \E j \in DOMAIN entries : A[i] = entries[j]
<1> DEFINE W == Without(entries, k)
           excess == Len(W) + 1 - MaxSize
           kept == IF excess > 0 THEN SubSeq(W, excess + 1, Len(W)) ELSE W
           A == Append(kept, e)
<1>1. /\ W \in Seq(R) /\ Len(W) <= Len(entries)
      /\ \A i \in DOMAIN W : W[i].key # k /\ \E j \in DOMAIN entries : W[i] = entries[j]
      /\ OneEntryPerKey(W)
  BY WithoutKey
<1>2. AfterPut(entries, k, value, now) = A
  BY Zenon DEF AfterPut
<1>3. e \in R /\ e.key = k
  BY Zenon
<1>4. MaxSize \in Nat \ {0} /\ Len(W) \in Nat /\ Len(W) <= MaxSize
  <2>1. MaxSize \in Nat \ {0}
    BY CacheAssumption, Zenon
  <2>2. Len(W) \in Nat /\ Len(entries) \in Nat
    <3> HIDE DEF W
    <3> QED BY <1>1
  <2> QED BY <1>1, <2>1, <2>2
<1> HIDE DEF W
<1>12. DOMAIN W = 1..Len(W)
  BY <1>1
\* The least recently used entry goes only when the cache is full.
<1>5. /\ kept \in Seq(R) /\ Len(kept) + 1 <= MaxSize
      /\ \E d \in Nat : \A i \in 1..Len(kept) : i + d \in 1..Len(W) /\ kept[i] = W[i + d]
  <2>1. CASE excess > 0
    <3>1. excess \in 1..Len(W) /\ excess \in Nat /\ Len(W) - excess + 1 <= MaxSize
      BY <1>4, <2>1
    <3>2. kept = SubSeq(W, excess + 1, Len(W))
      BY <2>1, Zenon
    <3> HIDE DEF kept, excess
    <3>3. /\ kept \in Seq(R) /\ Len(kept) = Len(W) - excess
          /\ \A i \in 1..(Len(W) - excess) : kept[i] = W[i + excess]
      BY <1>1, <3>1, <3>2, After, Zenon
    <3>4. \A i \in 1..Len(kept) : i + excess \in 1..Len(W) /\ kept[i] = W[i + excess]
      BY <1>4, <3>1, <3>3
    <3>5. \E d \in Nat : \A i \in 1..Len(kept) : i + d \in 1..Len(W) /\ kept[i] = W[i + d]
      BY <3>1, <3>4, Zenon
    <3>6. Len(kept) + 1 <= MaxSize
      BY <3>1, <3>3, Zenon
    <3> QED BY <3>3, <3>5, <3>6, Zenon
  <2>2. CASE ~(excess > 0)
    <3>1. kept = W /\ Len(W) + 1 <= MaxSize
      BY <1>4, <2>2
    <3> HIDE DEF kept
    <3>2. \A i \in 1..Len(kept) : i + 0 \in 1..Len(W) /\ kept[i] = W[i + 0]
      BY <1>4, <3>1
    <3>3. \E d \in Nat : \A i \in 1..Len(kept) : i + d \in 1..Len(W) /\ kept[i] = W[i + d]
      BY <3>2, Zenon
    <3> QED BY <1>1, <3>1, <3>3, Zenon
  <2> QED BY <2>1, <2>2, Zenon
<1> HIDE DEF kept
<1>6. PICK d \in Nat : \A i \in 1..Len(kept) : i + d \in 1..Len(W) /\ kept[i] = W[i + d]
  BY <1>5, Zenon
<1>7. /\ A \in Seq(R) /\ Len(A) = Len(kept) + 1 /\ DOMAIN A = 1..(Len(kept) + 1)
      /\ Len(kept) \in Nat /\ A[Len(kept) + 1] = e /\ \A i \in 1..Len(kept) : A[i] = kept[i]
  BY <1>3, <1>5
<1> HIDE DEF A
<1>8. \A i \in DOMAIN A : i \in 1..Len(kept) \/ i = Len(kept) + 1
  BY <1>7
<1>9. \A i \in 1..Len(kept) : A[i].key # k /\ \E j \in DOMAIN entries : A[i] = entries[j]
  <2> SUFFICES ASSUME NEW i \in 1..Len(kept)
               PROVE  A[i].key # k /\ \E j \in DOMAIN entries : A[i] = entries[j]
    BY Zenon
  <2>1. A[i] = W[i + d] /\ i + d \in DOMAIN W
    BY <1>6, <1>7, <1>12, Zenon
  <2> QED BY <1>1, <2>1, Zenon
<1>10. \A i \in DOMAIN A : A[i] = e \/ \E j \in DOMAIN entries : A[i] = entries[j]
  BY <1>7, <1>8, <1>9, Zenon
<1>11. OneEntryPerKey(A)
  <2>1. ASSUME NEW i \in 1..Len(kept), NEW j \in 1..Len(kept), A[i].key = A[j].key PROVE i = j
    <3>1. i + d \in DOMAIN W /\ j + d \in DOMAIN W /\ W[i + d].key = W[j + d].key
      BY <1>6, <1>7, <1>12, <2>1, Zenon
    <3>2. i + d = j + d
      BY <1>1, <3>1, Zenon DEF OneEntryPerKey
    <3> QED BY <1>6, <1>7, <3>2
  <2>2. A[Len(kept) + 1].key = k
    BY <1>3, <1>7, Zenon
  <2>3. ASSUME NEW i \in DOMAIN A, NEW j \in DOMAIN A, A[i].key = A[j].key PROVE i = j
    <3>1. CASE i \in 1..Len(kept) /\ j \in 1..Len(kept)
      BY <2>1, <2>3, <3>1, Zenon
    <3>2. i \in 1..Len(kept) <=> j \in 1..Len(kept)
      BY <1>8, <1>9, <2>2, <2>3, Zenon
    <3> QED BY <1>8, <3>1, <3>2, Zenon
  <2> QED BY <2>3, Zenon DEF OneEntryPerKey
<1> QED BY <1>2, <1>5, <1>7, <1>10, <1>11, Zenon

\* What CacheTypeOK says of one cache, and that its entries were put since the last update.
Holds(entries, newest) ==
    entries \in Seq(CacheEntries(newest)) /\ Len(entries) <= MaxSize /\ OneEntryPerKey(entries)
PutSince(entries, newest) == \A i \in DOMAIN entries : entries[i].put = newest

\* The inductive invariant: between updates whatever is cached was put since the last one.
CacheInv ==
    /\ CacheTypeOK
    /\ ~updating => /\ embedding = NoEmbedding \/ embedding.put = corpus
                    /\ \A n \in Caches : PutSince(cache[n], corpus)

\* What was put since the last update is fresh, or that update overtook it.
LEMMA SinceIsFresh == CacheInv => CachedIsFresh
<1> SUFFICES ASSUME CacheInv, ~updating
             PROVE  /\ embedding # NoEmbedding => FreshOrOvertaken(embedding)
                    /\ \A n \in Caches : \A i \in DOMAIN cache[n] : FreshOrOvertaken(cache[n][i])
  BY Zenon DEF CachedIsFresh
<1>1. corpus \in Nat
  BY CacheAssumption DEF CacheInv, CacheTypeOK
<1>2. ASSUME NEW item, item.asOf \in 0..corpus, item.put = corpus PROVE FreshOrOvertaken(item)
  BY <1>1, <1>2 DEF FreshOrOvertaken
<1>3. embedding.asOf \in 0..corpus
  BY DEF CacheInv, CacheTypeOK
<1>4. ASSUME NEW n \in Caches, NEW i \in DOMAIN cache[n] PROVE FreshOrOvertaken(cache[n][i])
  <2>1. cache[n] \in Seq(CacheEntries(corpus)) /\ cache[n][i].put = corpus
    BY Zenon DEF CacheInv, CacheTypeOK, PutSince
  <2>2. cache[n][i] \in CacheEntries(corpus)
    BY <2>1
  <2>3. cache[n][i].asOf \in 0..corpus
    BY <2>2, Zenon DEF CacheEntries
  <2> QED BY <1>2, <2>1, <2>3, Zenon
<1> QED BY <1>2, <1>3, <1>4, Zenon DEF CacheInv

LEMMA AllHold ==
    ASSUME NEW c, NEW newest
    PROVE  (/\ c \in [Caches -> Seq(CacheEntries(newest))]
            /\ \A n \in Caches : Len(c[n]) <= MaxSize /\ OneEntryPerKey(c[n]))
           <=> c = [n \in Caches |-> c[n]] /\ \A n \in Caches : Holds(c[n], newest)
<1>1. c \in [Caches -> Seq(CacheEntries(newest))] <=>
        c = [n \in Caches |-> c[n]] /\ \A n \in Caches : c[n] \in Seq(CacheEntries(newest))
  BY Zenon
<1> QED BY <1>1, Zenon DEF Holds

\* get keeps a cache as it should be, and returns what it held.
LEMMA GetHolds ==
    ASSUME NEW v \in Nat, NEW entries, Holds(entries, v), NEW k
    PROVE  /\ Holds(AfterGet(entries, k), v)
           /\ PutSince(entries, v) => PutSince(AfterGet(entries, k), v)
           /\ Hit(entries, k) => Entry(entries, k).asOf \in 0..v
<1> DEFINE A == AfterGet(entries, k)
<1>1. /\ A \in Seq(CacheEntries(v)) /\ Len(A) <= Len(entries) /\ OneEntryPerKey(A)
      /\ \A i \in DOMAIN A : \E j \in DOMAIN entries : A[i] = entries[j]
  <2>1. entries \in Seq(CacheEntries(v)) /\ OneEntryPerKey(entries)
    BY Zenon DEF Holds
  <2> QED BY <2>1, AfterGetOf
<1>2. PutSince(entries, v) => PutSince(A, v)
  BY <1>1, Zenon DEF PutSince
<1>3. Len(A) <= MaxSize
  <2>1. Len(A) \in Nat /\ Len(entries) \in Nat /\ MaxSize \in Nat /\ Len(entries) <= MaxSize
    <3> HIDE DEF A
    <3> QED BY <1>1, CacheAssumption DEF Holds
  <2> QED BY <1>1, <2>1
<1>4. ASSUME Hit(entries, k) PROVE Entry(entries, k).asOf \in 0..v
  <2>1. Position(entries, k) \in DOMAIN entries
    BY <1>4, Zenon DEF Hit, KeysOf, Position
  <2>2. entries[Position(entries, k)] \in CacheEntries(v)
    BY <2>1 DEF Holds
  <2> QED BY <2>2, Zenon DEF Entry, CacheEntries
<1> QED BY <1>1, <1>2, <1>3, <1>4, Zenon DEF Holds

\* put keeps it so, and what it stores is put now.
LEMMA PutHolds ==
    ASSUME NEW v \in Nat, NEW entries, Holds(entries, v), NEW k \in QueryKeys, NEW value \in 0..v
    PROVE  /\ Holds(AfterPut(entries, k, value, v), v)
           /\ PutSince(entries, v) => PutSince(AfterPut(entries, k, value, v), v)
<1> DEFINE A == AfterPut(entries, k, value, v)
           e == [key |-> k, asOf |-> value, put |-> v, expired |-> FALSE]
<1>1. e \in CacheEntries(v) /\ e.put = v
  <2>1. v \in 0..v
    OBVIOUS
  <2> QED BY <2>1, Zenon DEF CacheEntries
<1>2. /\ A \in Seq(CacheEntries(v)) /\ Len(A) <= MaxSize /\ OneEntryPerKey(A)
      /\ \A i \in DOMAIN A : A[i] = e \/ \E j \in DOMAIN entries : A[i] = entries[j]
  <2>1. entries \in Seq(CacheEntries(v)) /\ OneEntryPerKey(entries) /\ Len(entries) <= MaxSize
    BY Zenon DEF Holds
  <2>2. A = AfterPut(entries, k, value, v) /\ e = [key |-> k, asOf |-> value, put |-> v, expired |-> FALSE]
    BY Zenon
  <2> HIDE DEF A, e
  <2> QED BY <1>1, <2>1, <2>2, AfterPutOf
<1> HIDE DEF A, e
<1>3. PutSince(entries, v) => PutSince(A, v)
  BY <1>1, <1>2, Zenon DEF PutSince
<1> QED BY <1>2, <1>3, Zenon DEF Holds, A

\* A later version of the corpus changes nothing in what is cached.
LEMMA HoldsLater ==
    ASSUME NEW v \in Nat, NEW entries, Holds(entries, v)
    PROVE  Holds(entries, v + 1) /\ CacheReads(v) \subseteq CacheReads(v + 1)
<1>1. CacheEntries(v) \subseteq CacheEntries(v + 1)
  BY DEF CacheEntries
<1>2. entries \in Seq(CacheEntries(v + 1))
  <2>1. entries \in Seq(CacheEntries(v))
    BY Zenon DEF Holds
  <2> QED BY <1>1, <2>1
<1>3. CacheReads(v) \subseteq CacheReads(v + 1)
  BY DEF CacheReads
<1> QED BY <1>2, <1>3, Zenon DEF Holds

\* An entry that expires keeps its value.
LEMMA ExpiredHolds ==
    ASSUME NEW v \in Nat, NEW entries, Holds(entries, v), NEW i \in DOMAIN entries
    PROVE  /\ Holds([entries EXCEPT ![i].expired = TRUE], v)
           /\ PutSince(entries, v) => PutSince([entries EXCEPT ![i].expired = TRUE], v)
<1> DEFINE A == [entries EXCEPT ![i].expired = TRUE]
<1>1. entries \in Seq(CacheEntries(v)) /\ entries[i] \in CacheEntries(v)
  BY DEF Holds
<1>2. /\ [entries[i] EXCEPT !.expired = TRUE] \in CacheEntries(v)
      /\ [entries[i] EXCEPT !.expired = TRUE].key = entries[i].key
      /\ [entries[i] EXCEPT !.expired = TRUE].put = entries[i].put
  BY <1>1, Zenon DEF CacheEntries
<1>3. A = [entries EXCEPT ![i] = [entries[i] EXCEPT !.expired = TRUE]]
  BY Zenon
<1>4. /\ A \in Seq(CacheEntries(v)) /\ Len(A) = Len(entries) /\ DOMAIN A = DOMAIN entries
      /\ A[i] = [entries[i] EXCEPT !.expired = TRUE] /\ \A j \in DOMAIN entries \ {i} : A[j] = entries[j]
  <2> DEFINE e == [entries[i] EXCEPT !.expired = TRUE]
  <2>1. e \in CacheEntries(v) /\ A = [entries EXCEPT ![i] = e]
    BY <1>2, <1>3, Zenon
  <2> HIDE DEF e, A
  <2> QED BY <1>1, <2>1 DEF e
<1> HIDE DEF A
<1>5. \A j \in DOMAIN entries : A[j].key = entries[j].key /\ A[j].put = entries[j].put
  BY <1>2, <1>4, Zenon
<1>6. OneEntryPerKey(A)
  BY <1>4, <1>5, Zenon DEF OneEntryPerKey, Holds
<1>7. PutSince(entries, v) => PutSince(A, v)
  BY <1>4, <1>5, Zenon DEF PutSince
<1> QED BY <1>4, <1>6, <1>7, Zenon DEF Holds, A

LEMMA CacheInitInv == CacheInit => CacheInv
<1> SUFFICES ASSUME CacheInit PROVE CacheInv
  BY Zenon
<1>1. Holds(<<>>, 1)
  BY CacheAssumption DEF Holds, OneEntryPerKey
<1>2. CacheIdle \in CacheReads(1) /\ CacheIdle.at = "idle"
  BY DEF CacheIdle, CacheReads
<1>3. CacheTypeOK
  <2>1. cache = [n \in Caches |-> cache[n]] /\ \A n \in Caches : Holds(cache[n], corpus)
    BY <1>1, Zenon DEF CacheInit
  <2>2. corpus \in 1..(MaxUpdates + 1) /\ embedding \in [asOf : 0..corpus, put : 0..corpus]
    BY CacheAssumption DEF CacheInit, NoEmbedding
  <2>3. /\ reader \in [CacheReaders -> CacheReads(corpus)]
        /\ \A r \in CacheReaders : reader[r].at # "idle" => reader[r].key \in QueryKeys
    BY <1>2, Zenon DEF CacheInit
  <2> QED BY <2>1, <2>2, <2>3, AllHold, Zenon DEF CacheTypeOK, CacheInit
<1> QED BY <1>3 DEF CacheInit, CacheInv, PutSince, Caches

\* One proof per step of a query, an update of the corpus and the clock.
LEMMA CacheStepInv ==
    CacheInv /\ [CacheNext]_cacheVars => CacheInv'
<1> SUFFICES ASSUME CacheInv, [CacheNext]_cacheVars
             PROVE  CacheInv'
  BY Zenon
<1>0. /\ corpus \in Nat \ {0} /\ corpus \in 1..(MaxUpdates + 1) /\ embedding \in [asOf : 0..corpus, put : 0..corpus]
      /\ updating \in BOOLEAN
      /\ reader \in [CacheReaders -> CacheReads(corpus)]
      /\ \A r \in CacheReaders : reader[r].at # "idle" => reader[r].key \in QueryKeys
      /\ DOMAIN cache = Caches /\ cache = [n \in Caches |-> cache[n]]
      /\ \A n \in Caches : Holds(cache[n], corpus)
  <2>1. cache = [n \in Caches |-> cache[n]] /\ \A n \in Caches : Holds(cache[n], corpus)
    BY AllHold, Zenon DEF CacheTypeOK, CacheInv
  <2>2. corpus \in Nat \ {0}
    BY CacheAssumption DEF CacheTypeOK, CacheInv
  <2> QED BY <2>1, <2>2, Zenon DEF CacheTypeOK, CacheInv
<1>00. ~updating => /\ embedding = NoEmbedding \/ embedding.put = corpus
                    /\ \A n \in Caches : PutSince(cache[n], corpus)
  BY Zenon DEF CacheInv
\* A step of a reader that leaves the corpus alone.
<1>a. ASSUME UNCHANGED <<corpus, updating>>,
             embedding' \in [asOf : 0..corpus, put : 0..corpus],
             embedding' \in {embedding, NoEmbedding} \/ embedding'.put = corpus,
             reader' \in [CacheReaders -> CacheReads(corpus)],
             \A r \in CacheReaders : reader'[r].at # "idle" => reader'[r].key \in QueryKeys,
             cache' = [n \in Caches |-> cache'[n]],
             \A n \in Caches : Holds(cache'[n], corpus),
             \A n \in Caches : PutSince(cache[n], corpus) => PutSince(cache'[n], corpus)
      PROVE  CacheInv'
  <2>1. CacheTypeOK'
    <3>1. /\ corpus' \in 1..(MaxUpdates + 1) /\ embedding' \in [asOf : 0..corpus', put : 0..corpus']
          /\ updating' \in BOOLEAN
          /\ reader' \in [CacheReaders -> CacheReads(corpus')]
          /\ \A n \in Caches : Holds(cache'[n], corpus')
      BY <1>0, <1>a, Zenon
    <3> QED BY <1>a, <3>1, AllHold, Zenon DEF CacheTypeOK
  <2>2. ~updating' => /\ embedding' = NoEmbedding \/ embedding'.put = corpus'
                      /\ \A n \in Caches : PutSince(cache'[n], corpus')
    BY <1>00, <1>a, Zenon
  <2> QED BY <2>1, <2>2, Zenon DEF CacheInv, NoEmbedding
<1>1. ASSUME NEW r \in CacheReaders, NEW k \in QueryKeys, AskQuery(r, k)
      PROVE  CacheInv'
  <2>1. PICK asOf \in 0..corpus, at \in {"answered", "missed"} :
          reader' = [reader EXCEPT ![r] = [at |-> at, key |-> k, asOf |-> asOf]]
    <3>1. CASE Hit(cache["query"], k)
      <4>1. Entry(cache["query"], k).asOf \in 0..corpus
        BY <1>0, <3>1, GetHolds, Zenon DEF Caches
      <4> QED BY <1>1, <3>1, <4>1, Zenon DEF AskQuery
    <3>2. CASE ~Hit(cache["query"], k)
      <4>1. 0 \in 0..corpus
        BY <1>0
      <4> QED BY <1>1, <3>2, <4>1, Zenon DEF AskQuery
    <3> QED BY <3>1, <3>2, Zenon
  <2>2. /\ reader' \in [CacheReaders -> CacheReads(corpus)]
        /\ \A q \in CacheReaders : reader'[q].at # "idle" => reader'[q].key \in QueryKeys
    BY <1>0, <2>1, Zenon DEF CacheReads
  <2>3. cache' = [cache EXCEPT !["query"] = AfterGet(cache["query"], k)]
    BY <1>1, Zenon DEF AskQuery
  <2>4. /\ cache' = [n \in Caches |-> cache'[n]]
        /\ \A n \in Caches : cache'[n] \in {cache[n], AfterGet(cache[n], k)}
    BY <1>0, <2>3, Zenon
  <2>5. \A n \in Caches : Holds(cache'[n], corpus) /\ (PutSince(cache[n], corpus) => PutSince(cache'[n], corpus))
    BY <1>0, <2>4, GetHolds
  <2>6. UNCHANGED <<corpus, updating, embedding>>
    BY <1>1, Zenon DEF AskQuery
  <2> QED BY <1>0, <1>a, <2>2, <2>4, <2>5, <2>6, Zenon
<1>2. ASSUME NEW r \in CacheReaders, RetrieveMissed(r) PROVE CacheInv'
  <2>1. PICK at \in {"retrieved", "embedded"}, asOf \in 0..corpus :
          reader' = [reader EXCEPT ![r] = [reader[r] EXCEPT !.at = at, !.asOf = asOf]]
    <3>1. corpus \in 0..corpus /\ embedding.asOf \in 0..corpus
      BY <1>0
    <3>2. \/ reader' = [reader EXCEPT ![r].at = "retrieved", ![r].asOf = embedding.asOf]
          \/ reader' = [reader EXCEPT ![r].at = "embedded", ![r].asOf = corpus]
      BY <1>2, Zenon DEF RetrieveMissed
    <3>3. \/ reader' = [reader EXCEPT ![r] = [reader[r] EXCEPT !.at = "retrieved",
                                                            !.asOf = embedding.asOf]]
          \/ reader' = [reader EXCEPT ![r] = [reader[r] EXCEPT !.at = "embedded", !.asOf = corpus]]
      BY <1>0, <3>2, Zenon
    <3> QED BY <3>1, <3>3, Zenon
  <2>2. reader[r].at = "missed" /\ UNCHANGED <<cache, embedding, corpus, updating>>
    BY <1>2, Zenon DEF RetrieveMissed
  <2>3. /\ reader' \in [CacheReaders -> CacheReads(corpus)]
        /\ \A q \in CacheReaders : reader'[q].at # "idle" => reader'[q].key \in QueryKeys
    <3> DEFINE new == [reader[r] EXCEPT !.at = at, !.asOf = asOf]
    <3>1. new \in CacheReads(corpus) /\ new.key = reader[r].key
      <4>1. reader[r] \in CacheReads(corpus)
        BY <1>0, Zenon
      <4> QED BY <4>1, <2>1, Zenon DEF CacheReads
    <3>2. reader' = [reader EXCEPT ![r] = new]
      BY <2>1, Zenon
    <3> HIDE DEF new
    <3> QED BY <1>0, <2>2, <3>1, <3>2, Zenon
  <2>4. cache' = [n \in Caches |-> cache'[n]] /\ \A n \in Caches : Holds(cache'[n], corpus)
    BY <1>0, <2>2, Zenon
  <2> QED BY <1>0, <1>a, <2>2, <2>3, <2>4, Zenon
<1>10. ASSUME NEW r \in CacheReaders, PutEmbedding(r) PROVE CacheInv'
  <2> DEFINE new == [asOf |-> reader[r].asOf, put |-> corpus]
  <2>1. /\ reader[r].at = "embedded" /\ reader' = [reader EXCEPT ![r].at = "retrieved"]
        /\ embedding' = new /\ UNCHANGED <<cache, corpus, updating>>
    BY <1>10, Zenon DEF PutEmbedding
  <2>2. new \in [asOf : 0..corpus, put : 0..corpus] /\ new.put = corpus
    <3>1. reader[r].asOf \in 0..corpus /\ corpus \in 0..corpus
      BY <1>0 DEF CacheReads
    <3> QED BY <3>1, Zenon
  <2> HIDE DEF new
  <2>3. /\ reader' \in [CacheReaders -> CacheReads(corpus)]
        /\ \A q \in CacheReaders : reader'[q].at # "idle" => reader'[q].key \in QueryKeys
    BY <1>0, <2>1 DEF CacheReads
  <2>4. cache' = [n \in Caches |-> cache'[n]] /\ \A n \in Caches : Holds(cache'[n], corpus)
    BY <1>0, <2>1, Zenon
  <2> QED BY <1>0, <1>a, <2>1, <2>2, <2>3, <2>4, Zenon
<1>11. CASE DropEmbedding
  <2>1. embedding' = NoEmbedding /\ UNCHANGED <<cache, corpus, updating, reader>>
    BY <1>11, Zenon DEF DropEmbedding
  <2>2. NoEmbedding \in [asOf : 0..corpus, put : 0..corpus]
    BY <1>0 DEF NoEmbedding
  <2>3. cache' = [n \in Caches |-> cache'[n]] /\ \A n \in Caches : Holds(cache'[n], corpus)
    BY <1>0, <2>1, Zenon
  <2> QED BY <1>0, <1>a, <2>1, <2>2, <2>3, Zenon
<1>3. ASSUME NEW r \in CacheReaders, PutResult(r) PROVE CacheInv'
  <2>1. /\ reader' = [reader EXCEPT ![r].at = "answered"]
        /\ cache' = [n \in Caches |-> AfterPut(cache[n], reader[r].key, reader[r].asOf, corpus)]
        /\ UNCHANGED <<corpus, updating, embedding>> /\ reader[r].at = "retrieved"
    BY <1>3, Zenon DEF PutResult
  <2>2. reader[r].key \in QueryKeys /\ reader[r].asOf \in 0..corpus
    BY <1>0, <2>1, Zenon DEF CacheReads
  <2>3. /\ reader' \in [CacheReaders -> CacheReads(corpus)]
        /\ \A q \in CacheReaders : reader'[q].at # "idle" => reader'[q].key \in QueryKeys
    BY <1>0, <2>1 DEF CacheReads
  <2>4. cache' = [n \in Caches |-> cache'[n]]
        /\ \A n \in Caches : cache'[n] = AfterPut(cache[n], reader[r].key, reader[r].asOf, corpus)
    BY <2>1, Zenon
  <2>5. \A n \in Caches : /\ Holds(cache'[n], corpus)
                          /\ PutSince(cache[n], corpus) => PutSince(cache'[n], corpus)
    BY <1>0, <2>1, <2>2, <2>4, PutHolds, Zenon
  <2> QED BY <1>0, <1>a, <2>1, <2>3, <2>4, <2>5, Zenon
<1>4. ASSUME NEW r \in CacheReaders, FallBack(r) PROVE CacheInv'
  <2> DEFINE k == reader[r].key
             from == {n \in Caches : Hit(cache[n], k)}
             asOf == IF from = {} THEN 0
                     ELSE Entry(cache[IF "query" \in from THEN "query" ELSE "context"], k).asOf
  <2>1. /\ reader' = [reader EXCEPT ![r] = [at |-> "answered", key |-> k, asOf |-> asOf]]
        /\ UNCHANGED <<corpus, updating, embedding>> /\ reader[r].at = "missed"
    BY <1>4, Zenon DEF FallBack
  <2>2. asOf \in 0..corpus
    <3>1. \A n \in from : Entry(cache[n], k).asOf \in 0..corpus
      BY <1>0, GetHolds, Zenon
    <3>2. from # {} => (IF "query" \in from THEN "query" ELSE "context") \in from
      BY Zenon DEF Caches
    <3>3. 0 \in 0..corpus
      BY <1>0
    <3> HIDE DEF from
    <3>4. CASE from = {}
      BY <3>3, <3>4, Zenon
    <3>5. CASE from # {}
      BY <3>1, <3>2, <3>5, Zenon
    <3> QED BY <3>4, <3>5, Zenon
  <2>3. k \in QueryKeys
    BY <1>0, <2>1, Zenon
  <2>4. cache' = [cache EXCEPT !["query"] = AfterGet(cache["query"], k),
                     !["context"] = IF Hit(cache["query"], k) THEN cache["context"]
                                    ELSE AfterGet(cache["context"], k)]
    BY <1>4, Zenon DEF FallBack
  <2> HIDE DEF asOf, k
  <2>5. /\ reader' \in [CacheReaders -> CacheReads(corpus)]
        /\ \A q \in CacheReaders : reader'[q].at # "idle" => reader'[q].key \in QueryKeys
    BY <1>0, <2>1, <2>2, <2>3, Zenon DEF CacheReads
  <2>6. /\ cache' = [n \in Caches |-> cache'[n]]
        /\ \A n \in Caches : cache'[n] \in {cache[n], AfterGet(cache[n], k)}
    BY <1>0, <2>4, Zenon DEF Caches
  <2>7. \A n \in Caches : Holds(cache'[n], corpus) /\ (PutSince(cache[n], corpus) => PutSince(cache'[n], corpus))
    BY <1>0, <2>6, GetHolds
  <2> QED BY <1>0, <1>a, <2>1, <2>5, <2>6, <2>7, Zenon
<1>5. ASSUME NEW r \in CacheReaders, Leave(r) PROVE CacheInv'
  <2>1. reader' = [reader EXCEPT ![r] = CacheIdle] /\ UNCHANGED <<cache, embedding, corpus, updating>>
    BY <1>5, Zenon DEF Leave
  <2>2. /\ reader' \in [CacheReaders -> CacheReads(corpus)]
        /\ \A q \in CacheReaders : reader'[q].at # "idle" => reader'[q].key \in QueryKeys
    BY <1>0, <2>1 DEF CacheReads, CacheIdle
  <2>3. cache' = [n \in Caches |-> cache'[n]] /\ \A n \in Caches : Holds(cache'[n], corpus)
    BY <1>0, <2>1, Zenon
  <2> QED BY <1>0, <1>a, <2>1, <2>2, <2>3, Zenon
<1>6. ASSUME NEW n \in Caches, NEW i \in DOMAIN cache[n], Expire(n, i)
      PROVE  CacheInv'
  <2>1. /\ cache' = [cache EXCEPT ![n] = [cache[n] EXCEPT ![i].expired = TRUE]]
        /\ UNCHANGED <<embedding, corpus, updating, reader>>
    BY <1>6, Zenon DEF Expire
  <2>2. cache' = [m \in Caches |-> cache'[m]]
    BY <1>0, <2>1, Zenon
  <2>3. \A m \in Caches : Holds(cache'[m], corpus) /\ (PutSince(cache[m], corpus) => PutSince(cache'[m], corpus))
    <3> DEFINE new == [cache[n] EXCEPT ![i].expired = TRUE]
    <3>1. Holds(new, corpus) /\ (PutSince(cache[n], corpus) => PutSince(new, corpus))
      BY <1>0, ExpiredHolds, Zenon
    <3> HIDE DEF new
    <3> QED BY <1>0, <2>1, <3>1, Zenon DEF new
  <2> QED BY <1>0, <1>a, <2>1, <2>2, <2>3, Zenon
<1>7. CASE UpdateSource
  <2>1. /\ corpus' = corpus + 1 /\ updating' = TRUE /\ UNCHANGED <<cache, embedding, reader>>
        /\ corpus' \in 1..(MaxUpdates + 1)
    BY <1>0, <1>7, CacheAssumption DEF UpdateSource
  <2>2. reader' \in [CacheReaders -> CacheReads(corpus')]
    <3>1. CacheReads(corpus) \subseteq CacheReads(corpus + 1)
      BY <1>0, HoldsLater, Zenon DEF Caches
    <3> QED BY <1>0, <2>1, <3>1, Zenon
  <2>3. \A n \in Caches : Holds(cache'[n], corpus')
    BY <1>0, <2>1, HoldsLater, Zenon
  <2>4. embedding' \in [asOf : 0..corpus', put : 0..corpus'] /\ updating' \in BOOLEAN
    BY <1>0, <2>1
  <2>5. CacheTypeOK'
    <3>1. cache' = [n \in Caches |-> cache'[n]]
      BY <1>0, <2>1, Zenon
    <3>2. \A r \in CacheReaders : reader'[r].at # "idle" => reader'[r].key \in QueryKeys
      BY <1>0, <2>1, Zenon
    <3> QED BY <2>1, <2>2, <2>3, <2>4, <3>1, <3>2, AllHold, Zenon DEF CacheTypeOK
  <2> QED BY <2>1, <2>5, Zenon DEF CacheInv
<1>8. CASE InvalidateSource
  <2>1. /\ cache' = [n \in Caches |-> <<>>] /\ embedding' = NoEmbedding /\ updating' = FALSE
        /\ UNCHANGED <<corpus, reader>>
    BY <1>8, Zenon DEF InvalidateSource
  <2>2. Holds(<<>>, corpus)
    BY <1>0, CacheAssumption DEF Holds, OneEntryPerKey
  <2>3. CacheTypeOK'
    <3>1. /\ cache' = [n \in Caches |-> cache'[n]]
          /\ \A n \in Caches : Holds(cache'[n], corpus')
      BY <2>1, <2>2, Zenon
    <3>2. /\ corpus' \in 1..(MaxUpdates + 1) /\ embedding' \in [asOf : 0..corpus', put : 0..corpus']
          /\ updating' \in BOOLEAN
          /\ reader' \in [CacheReaders -> CacheReads(corpus')]
          /\ \A r \in CacheReaders : reader'[r].at # "idle" => reader'[r].key \in QueryKeys
      <4>1. NoEmbedding \in [asOf : 0..corpus, put : 0..corpus]
        BY <1>0 DEF NoEmbedding
      <4> QED BY <1>0, <2>1, <4>1, Zenon
    <3> QED BY <3>1, <3>2, AllHold, Zenon DEF CacheTypeOK
  <2>4. embedding' = NoEmbedding /\ \A n \in Caches : PutSince(cache'[n], corpus')
    BY <2>1 DEF PutSince
  <2> QED BY <2>3, <2>4, Zenon DEF CacheInv, NoEmbedding
<1>9. CASE UNCHANGED cacheVars
  <2>1. UNCHANGED <<cache, embedding, corpus, updating, reader>>
    BY <1>9, Zenon DEF cacheVars
  <2> QED BY <2>1, Zenon DEF CacheInv, CacheTypeOK, PutSince, NoEmbedding
<1> QED BY <1>1, <1>2, <1>3, <1>4, <1>5, <1>6, <1>7, <1>8, <1>9, <1>10, <1>11, Zenon DEF CacheNext

\* For any number of readers, keys and versions: a cache has one entry per key and at most
\* max_size entries, and between updates a cached query, context or embedding is as new as
\* the corpus or was put after the last update by a reader that it overtook.
THEOREM CacheSafe == CacheSpec => [](CacheTypeOK /\ CachedIsFresh)
<1>1. CacheSpec => []CacheInv
  BY CacheInitInv, CacheStepInv, PTL DEF CacheSpec
<1>2. CacheInv => CacheTypeOK /\ CachedIsFresh
  BY SinceIsFresh, Zenon DEF CacheInv
<1> QED BY <1>1, <1>2, PTL
=============================================================================
