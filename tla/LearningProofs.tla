--------------------------- MODULE LearningProofs ---------------------------
(***************************************************************************)
(* How the engine learns, for every value of the constants: the continuous *)
(* loop that trains and deploys generations of the model, the tree search  *)
(* that looks for a repair, and the episodes' dialogues with the policy    *)
(* together with the datasets made of them.                                *)
(***************************************************************************)
EXTENDS ContinuousLoop, MctsSearch, PolicyDialogue, FiniteSetTheorems, SequenceTheorems,
        WellFoundedInduction, TLAPS

\* A set of naturals that is not empty has a least element.
LEMMA LeastOf ==
    ASSUME NEW ns \in SUBSET Nat, ns # {}
    PROVE  \E n \in ns : \A m \in ns : n <= m
<1> DEFINE R == OpToRel(<, Nat)
<1>1. \A m, n \in Nat : m < n => <<m, n>> \in R
  BY DEF OpToRel
<1>2. PICK n \in ns : \A m \in ns : ~ (<<m, n>> \in R)
  BY NatLessThanWellFounded, WFMin
<1>3. \A m \in ns : ~ (m < n)
  BY <1>1, <1>2
<1> QED
  BY <1>3

----------------------------------------------------------------------------
(* The continuous loop *)

\* Between the baseline and the decision the iteration is one of the loop's.
LoopMidway == {"collect", "train", "deploy", "evaluate", "decide"}

\* Generations that can have been made when an iteration has come this far.
LoopBudget ==
    (loopStart - 1) * LoopIterations
        + (IF loopAt \in {"evaluate", "decide"} THEN loopIter ELSE loopIter - 1)

\* Each iteration makes at most one generation, and one more can be under way.
LoopProgress ==
    /\ loopAt \in LoopMidway => loopIter <= LoopIterations
    /\ loopAt \in {"over", "dead"} \/ loopMade <= LoopBudget + 1
    /\ loopMade <= loopStart * LoopIterations + 1

\* The current model is the one the run started from, or new tags are later ones.
LoopRegistry ==
    /\ loopCurrent = loopFirst \/ loopCurrent < loopIter
    /\ loopOllama[loopCurrent] = loopStable \/ LoopReused

\* What was measured is still there when it is judged.
LoopMeasurements ==
    /\ loopAt \in LoopMidway =>
           loopBase.of = loopCurrent /\ (loopBase.weights = loopStable \/ LoopReused)
    /\ loopAt = "decide" =>
           loopEval.of = LoopNewTag /\ loopEval.weights = loopOllama[LoopNewTag]

\* The invariant of the loop.
LoopInv == LoopTypeOK /\ LoopProgress /\ LoopRegistry /\ LoopMeasurements

\* How many generations a number of starts can make.
LEMMA LoopWeightsAreNumbers ==
    /\ LoopIterations \in Nat /\ LoopStarts \in Nat
    /\ LoopStarts * LoopIterations \in Nat
    /\ \A n \in 1 .. LoopStarts :
           /\ (n - 1) * LoopIterations \in Nat /\ n * LoopIterations \in Nat
           /\ n * LoopIterations <= LoopStarts * LoopIterations
           /\ n * LoopIterations = (n - 1) * LoopIterations + LoopIterations
  BY LoopAssumption

\* The invariant holds when the process starts on a registry with the model it starts from.
LEMMA LoopInvInit == LoopInit => LoopInv
  BY LoopAssumption, LoopWeightsAreNumbers
  DEF LoopInit, LoopInv, LoopTypeOK, LoopProgress, LoopRegistry, LoopMeasurements, LoopBudget,
      LoopMidway, LoopTag, LoopWeights, LoopMeasure, LoopNothing, LoopNewTag

\* No phase, no failure and no restart breaks the invariant.
LEMMA LoopInvStep == LoopInv /\ [LoopNext]_loopVars => LoopInv'
<1> SUFFICES ASSUME LoopInv, [LoopNext]_loopVars PROVE LoopInv'
  OBVIOUS
<1> USE LoopAssumption
<1>1. CASE LoopBaseline
  <2>1. LoopTypeOK'
    BY <1>1 DEF LoopBaseline, loopInputs, LoopInv, LoopTypeOK
  <2>2. LoopProgress'
    BY <1>1 DEF LoopBaseline, LoopInv, LoopProgress, LoopBudget
  <2>3. LoopRegistry'
    BY <1>1 DEF LoopBaseline, LoopReused, loopInputs, LoopInv, LoopRegistry
  <2>4. LoopMeasurements'
    BY <1>1
    DEF LoopBaseline, LoopReused, loopInputs, LoopMeasured, LoopInv, LoopRegistry,
        LoopMeasurements
  <2> QED
    BY <2>1, <2>2, <2>3, <2>4 DEF LoopInv
<1>2. CASE LoopCollect
  <2>1. LoopTypeOK'
    BY <1>2 DEF LoopCollect, loopInputs, LoopInv, LoopTypeOK
  <2>2. LoopProgress'
    BY <1>2 DEF LoopCollect, LoopInv, LoopProgress, LoopBudget, LoopMidway
  <2>3. LoopRegistry'
    BY <1>2 DEF LoopCollect, LoopReused, loopInputs, LoopInv, LoopRegistry
  <2>4. LoopMeasurements'
    BY <1>2 DEF LoopCollect, LoopReused, loopInputs, LoopInv, LoopMeasurements, LoopMidway
  <2> QED
    BY <2>1, <2>2, <2>3, <2>4 DEF LoopInv
<1>3. CASE LoopTrain
  <2>1. LoopTypeOK'
    BY <1>3 DEF LoopTrain, loopInputs, LoopInv, LoopTypeOK
  <2>2. LoopProgress'
    BY <1>3 DEF LoopTrain, LoopInv, LoopProgress, LoopBudget, LoopMidway
  <2>3. LoopRegistry'
    BY <1>3 DEF LoopTrain, LoopReused, loopInputs, LoopInv, LoopRegistry
  <2>4. LoopMeasurements'
    BY <1>3 DEF LoopTrain, LoopReused, loopInputs, LoopInv, LoopMeasurements, LoopMidway
  <2> QED
    BY <2>1, <2>2, <2>3, <2>4 DEF LoopInv
<1>4. CASE LoopDeploy
  <2>1. LoopTypeOK'
    <3>1. loopMade + 1 \in LoopWeights \ {0}
      BY <1>4, LoopWeightsAreNumbers
      DEF LoopDeploy, LoopInv, LoopTypeOK, LoopProgress, LoopBudget, LoopMidway, LoopWeights
    <3>2. loopOllama' \in [LoopTag -> LoopWeights] /\ loopMade' \in LoopWeights \ {0}
      BY <1>4, <3>1 DEF LoopDeploy, create_model, LoopInv, LoopTypeOK
    <3> QED
      BY <1>4, <3>2 DEF LoopDeploy, loopInputs, LoopInv, LoopTypeOK
  <2>2. LoopProgress'
    BY <1>4
    DEF LoopDeploy, LoopInv, LoopTypeOK, LoopProgress, LoopBudget, LoopMidway, LoopWeights
  <2>3. LoopRegistry'
    BY <1>4
    DEF LoopDeploy, LoopReused, loopInputs, create_model, LoopInv, LoopTypeOK, LoopRegistry,
        LoopTag, LoopNewTag
  <2>4. LoopMeasurements'
    BY <1>4 DEF LoopDeploy, LoopReused, loopInputs, LoopInv, LoopMeasurements, LoopMidway
  <2> QED
    BY <2>1, <2>2, <2>3, <2>4 DEF LoopInv
<1>5. CASE LoopEvaluate
  <2>1. LoopTypeOK'
    BY <1>5 DEF LoopEvaluate, LoopMeasured, loopInputs, LoopInv, LoopTypeOK, LoopMeasure
  <2>2. LoopProgress'
    BY <1>5 DEF LoopEvaluate, LoopInv, LoopProgress, LoopBudget, LoopMidway
  <2>3. LoopRegistry'
    BY <1>5 DEF LoopEvaluate, LoopReused, loopInputs, LoopInv, LoopRegistry
  <2>4. LoopMeasurements'
    BY <1>5
    DEF LoopEvaluate, LoopReused, loopInputs, LoopMeasured, LoopInv, LoopMeasurements,
        LoopMidway, LoopNewTag
  <2> QED
    BY <2>1, <2>2, <2>3, <2>4 DEF LoopInv
<1>6. CASE LoopDecide
  <2>1. LoopTypeOK'
    <3>1. LoopNewTag \in LoopTag /\ loopIter + 1 \in 1 .. LoopIterations + 1
      BY <1>6
      DEF LoopDecide, LoopInv, LoopTypeOK, LoopProgress, LoopMidway, LoopNewTag, LoopTag
    <3>2. loopOllama[LoopNewTag] \in LoopWeights
      BY <3>1 DEF LoopInv, LoopTypeOK
    <3> QED
      BY <1>6, <3>1, <3>2 DEF LoopDecide, loopInputs, LoopInv, LoopTypeOK
  <2>2. LoopProgress'
    BY <1>6 DEF LoopDecide, LoopInv, LoopTypeOK, LoopProgress, LoopBudget, LoopMidway
  <2>3. LoopRegistry'
    BY <1>6
    DEF LoopDecide, LoopReused, loopInputs, Regressed, LoopInv, LoopTypeOK, LoopRegistry,
        LoopMeasurements, LoopTag, LoopNewTag
  <2>4. LoopMeasurements'
    BY <1>6 DEF LoopDecide, LoopReused, loopInputs, LoopMeasurements, LoopMidway
  <2> QED
    BY <2>1, <2>2, <2>3, <2>4 DEF LoopInv
<1>7. CASE LoopFinish
  <2>1. LoopTypeOK'
    BY <1>7 DEF LoopFinish, loopInputs, LoopInv, LoopTypeOK
  <2>2. LoopProgress'
    BY <1>7 DEF LoopFinish, LoopInv, LoopProgress, LoopMidway
  <2>3. LoopRegistry'
    BY <1>7 DEF LoopFinish, LoopReused, loopInputs, LoopInv, LoopRegistry
  <2>4. LoopMeasurements'
    BY <1>7 DEF LoopFinish, LoopReused, loopInputs, LoopMeasurements, LoopMidway
  <2> QED
    BY <2>1, <2>2, <2>3, <2>4 DEF LoopInv
<1>8. CASE LoopDie
  <2>1. LoopTypeOK'
    BY <1>8 DEF LoopDie, loopInputs, LoopInv, LoopTypeOK
  <2>2. LoopProgress'
    BY <1>8 DEF LoopDie, LoopInv, LoopProgress, LoopMidway
  <2>3. LoopRegistry'
    BY <1>8 DEF LoopDie, LoopReused, loopInputs, LoopInv, LoopRegistry
  <2>4. LoopMeasurements'
    BY <1>8 DEF LoopDie, LoopReused, loopInputs, LoopMeasurements, LoopMidway
  <2> QED
    BY <2>1, <2>2, <2>3, <2>4 DEF LoopInv
<1>9. CASE LoopRestart
  <2>1. LoopTypeOK'
    BY <1>9
    DEF LoopRestart, LoopNothing, loopInputs, LoopInv, LoopTypeOK, LoopTag, LoopWeights,
        LoopMeasure
  <2>2. LoopProgress'
    BY <1>9 DEF LoopRestart, LoopInv, LoopTypeOK, LoopProgress, LoopBudget, LoopWeights
  <2>3. LoopRegistry'
    BY <1>9 DEF LoopRestart, LoopReused, loopInputs, LoopInv, LoopRegistry
  <2>4. LoopMeasurements'
    BY <1>9 DEF LoopRestart, LoopReused, loopInputs, LoopMeasurements, LoopMidway
  <2> QED
    BY <2>1, <2>2, <2>3, <2>4 DEF LoopInv
<1>10. CASE UNCHANGED loopVars
  <2>1. LoopTypeOK'
    BY <1>10 DEF loopVars, LoopInv, LoopTypeOK
  <2>2. LoopProgress'
    BY <1>10 DEF loopVars, LoopInv, LoopProgress, LoopBudget
  <2>3. LoopRegistry'
    BY <1>10 DEF loopVars, LoopReused, LoopInv, LoopRegistry
  <2>4. LoopMeasurements'
    BY <1>10 DEF loopVars, LoopReused, LoopInv, LoopMeasurements, LoopNewTag
  <2> QED
    BY <2>1, <2>2, <2>3, <2>4 DEF LoopInv
<1> QED
  BY <1>1, <1>2, <1>3, <1>4, <1>5, <1>6, <1>7, <1>8, <1>9, <1>10 DEF LoopNext

\* The inductive invariant of the loop.
LEMMA LoopInvariant == LoopSpec => []LoopInv
  BY LoopInvInit, LoopInvStep, PTL DEF LoopSpec

\* Every reachable state of the loop is typed, however often it is started again.
THEOREM LoopTypes == LoopSpec => []LoopTypeOK
  BY LoopInvariant, PTL DEF LoopInv

\* The model to roll back to is never overwritten, for any number of iterations, restarts and
\* failed deployments, unless the run was started from the name of one of its own generations
\* (continuous_loop.py:90-92, 204-219).
THEOREM RollbackTargetSurvives == LoopSpec => []StableIsIntact
<1>1. LoopInv => StableIsIntact
  BY DEF LoopInv, LoopRegistry, StableIsIntact
<1> QED
  BY LoopInvariant, <1>1, PTL

\* No generation is compared with the pass rate of another model than the current one, or
\* judged by a pass rate that is not its own.
THEOREM JudgementsAreFair == LoopSpec => []JudgedFairly
<1>1. LoopInv => JudgedFairly
  BY DEF LoopInv, LoopMeasurements, LoopMidway, JudgedFairly, LoopReused
<1> QED
  BY LoopInvariant, <1>1, PTL

----------------------------------------------------------------------------
(* The tree search *)

\* Nodes are appended below nodes that are already there.
Rooted ==
    /\ mctsTree[1].parent = 0
    /\ \A n \in 2 .. Len(mctsTree) : mctsTree[n].parent \in 1 .. n - 1

\* The recursive function of MctsPath exists.
LEMMA PathsAre ==
    ASSUME Len(mctsTree) \in Nat, Rooted
    PROVE  MctsPaths = [n \in 0 .. Len(mctsTree) |->
               IF n <= 1 THEN <<>> ELSE Append(MctsPaths[mctsTree[n].parent], n)]
<1> DEFINE N == Len(mctsTree)
           next(f, k) == IF k <= 1 THEN <<>> ELSE Append(f[mctsTree[k].parent], k)
           paths(n, f) == f = [k \in 0 .. n |-> next(f, k)]
           stuck == {n \in 0 .. N : ~ \E f : paths(n, f)}
<1>1. \E f : paths(N, f)
  <2>1. SUFFICES ASSUME stuck # {} PROVE FALSE
    OBVIOUS
  <2>2. PICK n \in stuck : \A m \in stuck : n <= m
    <3>1. stuck \in SUBSET Nat
      OBVIOUS
    <3> HIDE DEF stuck
    <3> QED
      BY <2>1, <3>1, LeastOf
  <2>3. n \in 0 .. N
    OBVIOUS
  <2>4. CASE n = 0
    <3>1. paths(0, [k \in 0 .. 0 |-> <<>>])
      OBVIOUS
    <3> QED
      BY <2>2, <2>4, <3>1
  <2>5. CASE n # 0
    <3>1. n - 1 \in 0 .. N /\ n \in Nat /\ ~(n <= n - 1)
      BY <2>3, <2>5
    <3>2. PICK f : paths(n - 1, f)
      <4>1. n - 1 \notin stuck
        <5> HIDE DEF stuck
        <5> QED
          BY <2>2, <3>1
      <4> QED
        BY <3>1, <4>1
    <3> DEFINE g == [k \in 0 .. n |-> next(f, k)]
    <3>3. \A k \in 0 .. n - 1 : g[k] = f[k]
      <4> HIDE DEF next
      <4> QED
        BY <3>1, <3>2
    <3>4. \A k \in 0 .. n : k > 1 => mctsTree[k].parent \in 0 .. n - 1
      BY <2>3, <3>1 DEF Rooted
    <3>5. \A k \in 0 .. n : next(g, k) = next(f, k)
      <4> HIDE DEF g
      <4>1. \A k \in 0 .. n : k > 1 => g[mctsTree[k].parent] = f[mctsTree[k].parent]
        BY <3>3, <3>4
      <4>2. \A k \in 0 .. n : k > 1 \/ k <= 1
        BY <3>1
      <4> QED
        BY <4>1, <4>2
    <3>6. paths(n, g)
      BY <3>5
    <3> QED
      BY <2>2, <3>6
  <2> QED
    BY <2>4, <2>5
<1>2. MctsPaths = CHOOSE f : paths(N, f)
  BY DEF MctsPaths
<1>3. paths(N, MctsPaths)
  BY <1>1, <1>2
<1> QED
  BY <1>3

\* A node with children has a favourite among them.
LEMMA FavouriteIsChild ==
    ASSUME NEW sims \in Nat, NEW n, mctsTree \in Seq(MctsNode), MctsChildren(n) # {},
           \A c \in MctsChildren(n) : mctsTree[c].visits <= sims
    PROVE  MctsFavourite(n) \in MctsChildren(n)
<1> DEFINE visits(c) == mctsTree[c].visits
           left == {sims - visits(c) : c \in MctsChildren(n)}
<1>1. \A c \in MctsChildren(n) : c \in Nat /\ visits(c) \in Nat /\ visits(c) <= sims
  <2>1. \A c \in DOMAIN mctsTree : c \in Nat /\ mctsTree[c] \in MctsNode
    OBVIOUS
  <2> QED
    BY <2>1 DEF MctsChildren, MctsNode
<1>2. PICK least \in left : \A m \in left : least <= m
  <2>1. left \in SUBSET Nat /\ left # {}
    BY <1>1
  <2> HIDE DEF left
  <2> QED
    BY <2>1, LeastOf
<1> DEFINE firsts == {c \in MctsChildren(n) : sims - visits(c) = least}
<1>3. PICK c \in firsts : \A d \in firsts : c <= d
  <2>1. firsts \in SUBSET Nat /\ firsts # {}
    BY <1>1, <1>2
  <2> HIDE DEF firsts
  <2> QED
    BY <2>1, LeastOf
<1>4. c \in MctsChildren(n) /\ least = sims - visits(c)
  BY <1>3
<1>5. ASSUME NEW d \in MctsChildren(n)
      PROVE  \/ visits(c) > visits(d)
             \/ visits(c) = visits(d) /\ c <= d
  <2>1. least <= sims - visits(d)
    BY <1>2
  <2>2. visits(c) = visits(d) => c <= d
    BY <1>3, <1>4
  <2> HIDE DEF visits
  <2> QED
    BY <1>1, <1>4, <2>1, <2>2
<1> QED
  BY <1>4, <1>5 DEF MctsFavourite

\* The recursive function of MctsMostVisited exists.
LEMMA DescentsAre ==
    ASSUME mctsTree \in Seq(MctsNode), Rooted,
           \A n \in DOMAIN mctsTree :
               MctsChildren(n) # {} => MctsFavourite(n) \in MctsChildren(n)
    PROVE  MctsDescents = [n \in DOMAIN mctsTree |->
               IF MctsChildren(n) = {} THEN n ELSE MctsDescents[MctsFavourite(n)]]
<1> DEFINE N == Len(mctsTree)
           next(f, k) == IF MctsChildren(k) = {} THEN k ELSE f[MctsFavourite(k)]
           descents(n, f) == f = [k \in n + 1 .. N |-> next(f, k)]
           stuck == {m \in 0 .. N : ~ \E f : descents(N - m, f)}
<1>1. N \in Nat /\ DOMAIN mctsTree = 1 .. N
  OBVIOUS
<1>2. \E f : descents(0, f)
  <2>0. N \in 0 .. N /\ N - N = 0
    BY <1>1
  <2>1. SUFFICES ASSUME stuck # {} PROVE FALSE
    <3> HIDE DEF descents
    <3> QED
      BY <2>0, <2>1
  <2>2. PICK m \in stuck : \A l \in stuck : m <= l
    <3>1. stuck \in SUBSET Nat
      OBVIOUS
    <3> HIDE DEF stuck
    <3> QED
      BY <2>1, <3>1, LeastOf
  <2>3. m \in 0 .. N
    OBVIOUS
  <2>4. CASE m = 0
    <3> HIDE DEF next
    <3>1. N + 1 .. N = {} /\ N - 0 = N
      BY <1>1
    <3>2. [k \in N + 1 .. N |-> 0] = [k \in N + 1 .. N |-> next([l \in N + 1 .. N |-> 0], k)]
      BY <3>1
    <3>3. \E f : descents(N - 0, f)
      BY <3>1, <3>2
    <3> QED
      BY <2>2, <2>4, <3>3
  <2>5. CASE m # 0
    <3> DEFINE n == N - m
    <3>1. m - 1 \in 0 .. N /\ ~(m <= m - 1) /\ N - (m - 1) = n + 1 /\ n \in Nat
      BY <1>1, <2>3, <2>5
    <3>2. PICK f : descents(n + 1, f)
      <4>1. m - 1 \notin stuck
        <5> HIDE DEF stuck
        <5> QED
          BY <2>2, <3>1
      <4>2. \E f : descents(N - (m - 1), f)
        BY <3>1, <4>1
      <4> HIDE DEF descents
      <4> QED
        BY <3>1, <4>2
    <3> DEFINE g == [k \in n + 1 .. N |-> next(f, k)]
    <3>3. \A k \in n + 1 + 1 .. N : g[k] = f[k]
      <4> HIDE DEF next, n, N
      <4>1. \A k \in n + 1 + 1 .. N : k \in n + 1 .. N
        BY <1>1, <3>1
      <4>2. f = [k \in n + 1 + 1 .. N |-> next(f, k)]
        BY <3>2
      <4> QED
        BY <4>1, <4>2
    <3>4. ASSUME NEW k \in n + 1 .. N, MctsChildren(k) # {}
          PROVE  MctsFavourite(k) \in n + 1 + 1 .. N
      <4>1. k \in DOMAIN mctsTree
        BY <1>1, <3>1
      <4>2. MctsFavourite(k) \in MctsChildren(k)
        BY <3>4, <4>1
      <4>3. ASSUME NEW c \in MctsChildren(k) PROVE c \in k + 1 .. N
        <5>1. c \in 1 .. N /\ mctsTree[c].parent = k
          BY <1>1 DEF MctsChildren
        <5>2. k \in Nat \ {0} /\ c # 1
          BY <1>1, <3>1, <5>1 DEF Rooted
        <5> QED
          BY <1>1, <3>1, <5>1, <5>2 DEF Rooted
      <4> QED
        BY <1>1, <3>1, <4>2, <4>3
    <3>5. \A k \in n + 1 .. N : next(g, k) = next(f, k)
      <4> HIDE DEF g
      <4> QED
        BY <3>3, <3>4
    <3>6. descents(n, g)
      BY <3>5
    <3> QED
      BY <2>2, <3>6
  <2> QED
    BY <2>4, <2>5
<1>3. MctsDescents = CHOOSE f : descents(0, f)
  BY <1>1 DEF MctsDescents
<1>4. descents(0, MctsDescents)
  BY <1>2, <1>3
<1> QED
  BY <1>1, <1>4, SMTT(30)

\* What is in a sequence of nodes after an append, and what its commands are.
LEMMA AppendedIsIn ==
    ASSUME NEW S \in SUBSET Nat, NEW s \in Seq(S), NEW n \in Nat
    PROVE  /\ ToSet(Append(s, n)) = ToSet(s) \cup {n}
           /\ n \in S => Append(s, n) \in Seq(S)
<1>1. /\ Len(Append(s, n)) = Len(s) + 1 /\ Len(s) \in Nat
      /\ \A k \in 1 .. Len(s) : Append(s, n)[k] = s[k]
      /\ Append(s, n)[Len(s) + 1] = n
      /\ DOMAIN s = 1 .. Len(s) /\ DOMAIN Append(s, n) = 1 .. Len(s) + 1
  OBVIOUS
<1> QED
  BY <1>1 DEF ToSet

\* The commands of a path that is one node longer.
LEMMA CommandsAppend ==
    ASSUME NEW s \in Seq(Nat), NEW n \in Nat, NEW f
    PROVE  [k \in DOMAIN Append(s, n) |-> f[Append(s, n)[k]].command] =
               Append([k \in DOMAIN s |-> f[s[k]].command], f[n].command)
<1> DEFINE c == [k \in DOMAIN s |-> f[s[k]].command]
           any == {f[k].command : k \in Nat}
           t == Append(s, n)
<1>1. /\ Len(t) = Len(s) + 1 /\ Len(s) \in Nat
      /\ \A k \in 1 .. Len(s) : t[k] = s[k] /\ s[k] \in Nat
      /\ t[Len(s) + 1] = n
      /\ DOMAIN s = 1 .. Len(s) /\ DOMAIN t = 1 .. Len(s) + 1
  OBVIOUS
<1>2. c \in Seq(any) /\ Len(c) = Len(s)
  BY <1>1
<1>3. /\ DOMAIN Append(c, f[n].command) = 1 .. Len(s) + 1
      /\ \A k \in 1 .. Len(s) : Append(c, f[n].command)[k] = c[k]
      /\ Append(c, f[n].command)[Len(s) + 1] = f[n].command
      /\ Append(c, f[n].command) = [k \in 1 .. Len(s) + 1 |-> Append(c, f[n].command)[k]]
  <2> HIDE DEF c
  <2>1. f[n].command \in any
    OBVIOUS
  <2> HIDE DEF any
  <2> QED
    BY <1>2, <2>1, <1>1
<1>4. \A k \in 1 .. Len(s) + 1 : f[t[k]].command = Append(c, f[n].command)[k]
  <2> HIDE DEF t
  <2> QED
    BY <1>1, <1>3
<1> HIDE DEF t, c
<1>5. [k \in DOMAIN t |-> f[t[k]].command] = Append(c, f[n].command)
  BY <1>1, <1>3, <1>4
<1> QED
  BY <1>5 DEF t, c

\* The path to a node stays in the tree, and goes from the root's children down.
LEMMA PathsStayInside ==
    ASSUME mctsTree \in Seq(MctsNode), Rooted, NEW n \in DOMAIN mctsTree
    PROVE  /\ MctsPath(n) \in Seq(2 .. Len(mctsTree))
           /\ \A k \in ToSet(MctsPath(n)) :
                  mctsTree[k].parent \in ToSet(MctsPath(n)) \cup {1}
<1> DEFINE N == Len(mctsTree)
           Inside(m) == /\ MctsPath(m) \in Seq(2 .. N)
                        /\ \A k \in ToSet(MctsPath(m)) :
                               mctsTree[k].parent \in ToSet(MctsPath(m)) \cup {1}
           outside == {m \in 1 .. N : ~Inside(m)}
<1>1. N \in Nat /\ DOMAIN mctsTree = 1 .. N
  OBVIOUS
<1>2. \A m \in 1 .. N : MctsPath(m) =
          IF m <= 1 THEN <<>> ELSE Append(MctsPath(mctsTree[m].parent), m)
  <2>1. N \in Nat /\ 1 .. N \subseteq 0 .. N
    BY <1>1
  <2> HIDE DEF N
  <2>2. MctsPaths = [m \in 0 .. N |->
            IF m <= 1 THEN <<>> ELSE Append(MctsPaths[mctsTree[m].parent], m)]
    BY <1>1, PathsAre DEF N
  <2> QED
    BY <2>1, <2>2 DEF MctsPath
<1>3. outside = {}
  <2> SUFFICES ASSUME outside # {} PROVE FALSE
    OBVIOUS
  <2>1. outside \in SUBSET Nat
    OBVIOUS
  <2>2. PICK m \in outside : \A l \in outside : m <= l
    <3> HIDE DEF outside
    <3> QED
      BY <2>1, LeastOf
  <2>3. m \in 1 .. N /\ ~Inside(m)
    OBVIOUS
  <2>4. CASE m = 1
    <3>1. MctsPath(m) = <<>>
      BY <1>2, <2>3, <2>4
    <3>2. Inside(m)
      BY <3>1 DEF ToSet
    <3> QED
      BY <2>3, <3>2
  <2>5. CASE m # 1
    <3>0. PICK p : p = mctsTree[m].parent
      OBVIOUS
    <3> DEFINE path == MctsPath(p)
    <3>1. m \in 2 .. N /\ p \in 1 .. N /\ ~(m <= p)
      BY <1>1, <2>3, <2>5, <3>0 DEF Rooted
    <3>2. Inside(p)
      <4>1. p \notin outside
        <5> HIDE DEF outside
        <5> QED
          BY <2>2, <3>1
      <4> QED
        BY <3>1, <4>1
    <3>3. MctsPath(m) = Append(path, m)
      BY <1>2, <2>3, <3>0, <3>1
    <3>4. p = 1 \/ p \in ToSet(path)
      <4>1. CASE p > 1
        <5>1. PICK q : q = mctsTree[p].parent
          OBVIOUS
        <5>2. q \in 1 .. N /\ ~(m <= q)
          BY <1>1, <3>1, <4>1, <5>1 DEF Rooted
        <5>3. path = Append(MctsPath(q), p)
          BY <1>2, <3>1, <4>1, <5>1
        <5>4. Inside(q)
          <6>1. q \notin outside
            <7> HIDE DEF outside
            <7> QED
              BY <2>2, <5>2
          <6> QED
            BY <5>2, <6>1
        <5>5. MctsPath(q) \in Seq(2 .. N) /\ p \in Nat /\ 2 .. N \in SUBSET Nat
          BY <3>1, <5>4
        <5> QED
          BY <5>3, <5>5, AppendedIsIn
      <4> QED
        BY <3>1, <4>1
    <3>5. ToSet(MctsPath(m)) = ToSet(path) \cup {m} /\ MctsPath(m) \in Seq(2 .. N)
      <4>1. path \in Seq(2 .. N)
        BY <3>2
      <4> QED
        BY <3>1, <3>3, <4>1, AppendedIsIn
    <3>6. Inside(m)
      BY <3>0, <3>2, <3>4, <3>5
    <3> QED
      BY <2>3, <3>6
  <2> QED
    BY <2>4, <2>5
<1> QED
  BY <1>1, <1>3

\* A snapshot holds what its parent's holds and the node's own command; only nodes that ran,
\* and ended nothing, have children; and no node has more visits than there were simulations.
TreeFits ==
    /\ Rooted
    /\ ~mctsTree[1].pruned /\ mctsTree[1].snap = <<>>
    /\ \A n \in 2 .. Len(mctsTree) :
           LET parent == mctsTree[mctsTree[n].parent]
           IN  /\ ~parent.pruned /\ ~parent.terminal
               /\ mctsTree[n].pruned
                  \/ mctsTree[n].snap = Append(parent.snap, mctsTree[n].command)
    /\ \A n \in DOMAIN mctsTree : mctsTree[n].visits <= mctsSim

\* The search is at a node that ran, and expands none that ended anything.
HereFits == ~MctsHere.pruned /\ (mctsAt = "expand" => ~MctsHere.terminal)

\* The best node is verified, and no verified one is nearer to the root.
BestFits ==
    /\ \A n \in MctsVerified : mctsBest # 0 /\ mctsTree[mctsBest].depth <= mctsTree[n].depth
    /\ mctsBest # 0 => mctsBest \in MctsVerified
    /\ mctsAt = "over" => (mctsTree[mctsLeaf].verified <=> MctsVerified # {})

\* The invariant of a search.
SearchInv == MctsTypeOK /\ TreeFits /\ HereFits /\ BestFits /\ VisitsAddUp

\* Snapshots that add one command each are replays of the whole way.
LEMMA ReplaysAddUp ==
    ASSUME mctsTree \in Seq(MctsNode), TreeFits
    PROVE  SnapshotsAreReplays
<1> DEFINE N == Len(mctsTree)
           Replay(m) == [k \in DOMAIN MctsPath(m) |-> mctsTree[MctsPath(m)[k]].command]
           wrong == {m \in 1 .. N : ~mctsTree[m].pruned /\ mctsTree[m].snap # Replay(m)}
<1>1. N \in Nat /\ DOMAIN mctsTree = 1 .. N /\ Rooted
  BY DEF TreeFits
<1>2. wrong = {}
  <2> SUFFICES ASSUME wrong # {} PROVE FALSE
    OBVIOUS
  <2>1. wrong \in SUBSET Nat
    OBVIOUS
  <2>2. PICK m \in wrong : \A l \in wrong : m <= l
    <3> HIDE DEF wrong
    <3> QED
      BY <2>1, LeastOf
  <2>3. m \in 1 .. N /\ ~mctsTree[m].pruned /\ mctsTree[m].snap # Replay(m)
    OBVIOUS
  <2>4. MctsPath(m) = IF m <= 1 THEN <<>> ELSE Append(MctsPath(mctsTree[m].parent), m)
    <3>1. m \in 0 .. N
      BY <1>1, <2>3
    <3> HIDE DEF wrong, Replay
    <3>2. MctsPaths[m] = IF m <= 1 THEN <<>> ELSE Append(MctsPaths[mctsTree[m].parent], m)
      BY <1>1, <3>1, PathsAre
    <3> QED
      BY <3>2 DEF MctsPath
  <2>5. CASE m = 1
    <3>1. MctsPath(m) = <<>>
      BY <2>4, <2>5
    <3>2. Replay(m) = <<>>
      BY <3>1
    <3> QED
      BY <2>3, <2>5, <3>2 DEF TreeFits
  <2>6. CASE m # 1
    <3>1. PICK p : p = mctsTree[m].parent
      OBVIOUS
    <3>2. m \in 2 .. N /\ p \in 1 .. N /\ ~(m <= p)
      BY <1>1, <2>3, <2>6, <3>1 DEF Rooted
    <3>3. /\ ~mctsTree[p].pruned
          /\ mctsTree[m].snap = Append(mctsTree[p].snap, mctsTree[m].command)
      BY <2>3, <3>1, <3>2 DEF TreeFits
    <3>4. mctsTree[p].snap = Replay(p)
      <4>1. p \notin wrong
        <5> HIDE DEF wrong
        <5> QED
          BY <2>2, <3>2
      <4> QED
        BY <3>2, <3>3, <4>1
    <3>5. MctsPath(m) = Append(MctsPath(p), m)
      BY <2>4, <3>1, <3>2
    <3>6. MctsPath(p) \in Seq(2 .. N) /\ m \in Nat
      BY <1>1, <3>2, PathsStayInside
    <3>7. MctsPath(p) \in Seq(Nat)
      BY <3>6
    <3>8. Replay(m) = Append(Replay(p), mctsTree[m].command)
      <4> HIDE DEF wrong
      <4> QED
        BY <3>5, <3>6, <3>7, CommandsAppend
    <3> HIDE DEF wrong, Replay
    <3> QED
      BY <2>3, <3>3, <3>4, <3>8
  <2> QED
    BY <2>5, <2>6
<1> QED
  BY <1>1, <1>2 DEF SnapshotsAreReplays

\* The leaf along the most visited children is a node.
LEMMA DescentsEnd ==
    ASSUME mctsTree \in Seq(MctsNode), TreeFits, mctsSim \in Nat, NEW n \in DOMAIN mctsTree
    PROVE  MctsMostVisited(n) \in DOMAIN mctsTree
<1> DEFINE N == Len(mctsTree)
           lost == {m \in 0 .. N : N - m \in 1 .. N /\ MctsDescents[N - m] \notin 1 .. N}
<1>1. N \in Nat /\ DOMAIN mctsTree = 1 .. N /\ Rooted
  BY DEF TreeFits
<1>2. ASSUME NEW k \in 1 .. N, MctsChildren(k) # {}
      PROVE  MctsFavourite(k) \in MctsChildren(k)
  <2>1. \A c \in MctsChildren(k) : mctsTree[c].visits <= mctsSim
    BY DEF MctsChildren, TreeFits
  <2> QED
    BY <1>2, <2>1, FavouriteIsChild
<1>3. \A k \in 1 .. N : MctsDescents[k] =
          IF MctsChildren(k) = {} THEN k ELSE MctsDescents[MctsFavourite(k)]
  <2>1. \A k \in DOMAIN mctsTree :
            MctsChildren(k) # {} => MctsFavourite(k) \in MctsChildren(k)
    BY <1>1, <1>2
  <2>2. MctsDescents = [k \in DOMAIN mctsTree |->
            IF MctsChildren(k) = {} THEN k ELSE MctsDescents[MctsFavourite(k)]]
    BY <1>1, <2>1, DescentsAre
  <2> HIDE DEF N, lost
  <2> QED
    BY <1>1, <2>2
<1>4. lost = {}
  <2> SUFFICES ASSUME lost # {} PROVE FALSE
    OBVIOUS
  <2>1. lost \in SUBSET Nat
    OBVIOUS
  <2>2. PICK m \in lost : \A l \in lost : m <= l
    <3> HIDE DEF lost
    <3> QED
      BY <2>1, LeastOf
  <2>3. m \in 0 .. N /\ N - m \in 1 .. N /\ MctsDescents[N - m] \notin 1 .. N
    OBVIOUS
  <2>4. PICK k : k = N - m
    OBVIOUS
  <2>5. MctsChildren(k) # {} /\ MctsDescents[k] = MctsDescents[MctsFavourite(k)]
    <3> HIDE DEF lost
    <3> QED
      BY <1>3, <2>3, <2>4
  <2>6. PICK c : c = MctsFavourite(k)
    OBVIOUS
  <2>7. c \in 1 .. N /\ mctsTree[c].parent = k
    <3> HIDE DEF lost
    <3> QED
      BY <1>1, <1>2, <2>3, <2>4, <2>5, <2>6 DEF MctsChildren
  <2>8. c > k
    <3>1. c # 1
      BY <1>1, <2>3, <2>4, <2>7 DEF Rooted
    <3> QED
      BY <1>1, <2>3, <2>4, <2>7, <3>1 DEF Rooted
  <2>9. N - c \in 0 .. N /\ N - (N - c) = c /\ ~(m <= N - c)
    BY <1>1, <2>3, <2>4, <2>7, <2>8
  <2>10. N - c \notin lost
    <3> HIDE DEF lost
    <3> QED
      BY <2>2, <2>9
  <2> QED
    BY <2>3, <2>4, <2>5, <2>6, <2>7, <2>9, <2>10
<1>5. N - n \in 0 .. N /\ N - (N - n) = n
  BY <1>1
<1>6. N - n \notin lost
  BY <1>4
<1> QED
  BY <1>1, <1>5, <1>6 DEF MctsMostVisited

\* What an expansion appends, if it appends a node: a pruned one, or one that ran.
LEMMA ExpandAppends ==
    ASSUME MctsTypeOK, NEW command \in MctsCommand \cup {NoCommand}, MctsCandidate(command)
    PROVE  \E child \in MctsNode :
               /\ MctsAppendChild(child)
               /\ child.parent = mctsCurrent /\ child.command = command
               /\ child.depth = MctsHere.depth + 1
               /\ \/ child.pruned /\ ~child.verified /\ ~child.terminal /\ child.visits = 0
                  \/ /\ ~child.pruned /\ child.visits = 1
                     /\ child.snap = Append(MctsHere.snap, command)
               /\ mctsGuest' \in Seq(MctsCommand)
<1>1. mctsCurrent \in Nat /\ MctsHere \in MctsNode /\ MctsRoot \in MctsNode
  <2>1. mctsCurrent \in Nat /\ MctsHere \in MctsNode
    BY DEF MctsTypeOK, MctsHere
  <2>2. <<>> \in Seq(MctsCommand)
    OBVIOUS
  <2>3. MctsRoot \in MctsNode
    BY <2>2 DEF MctsRoot, MctsNode
  <2> QED
    BY <2>1, <2>3
<1>2. MctsHere.depth + 1 \in Nat
  BY <1>1 DEF MctsNode
<1> DEFINE child == [MctsRoot EXCEPT !.parent = mctsCurrent, !.command = command,
                                     !.depth = MctsHere.depth + 1]
<1>3. /\ child \in MctsNode /\ child.parent = mctsCurrent /\ child.command = command
      /\ child.depth = MctsHere.depth + 1 /\ child.visits = MctsRoot.visits
      /\ child.verified = MctsRoot.verified /\ child.terminal = MctsRoot.terminal
      /\ child.pruned = MctsRoot.pruned
  BY <1>1, <1>2 DEF MctsNode
<1>4. MctsRoot.visits = 0 /\ ~MctsRoot.verified /\ ~MctsRoot.terminal /\ ~MctsRoot.pruned
  BY DEF MctsRoot
<1>5. CASE DetectLoopOrFatal(mctsCurrent, command)
  <2> DEFINE cut == [child EXCEPT !.pruned = TRUE]
  <2>1. MctsAppendChild(cut) /\ mctsGuest' = mctsGuest
    BY <1>5 DEF MctsCandidate
  <2> HIDE DEF child
  <2>2. /\ cut \in MctsNode /\ cut.parent = child.parent /\ cut.command = child.command
        /\ cut.depth = child.depth /\ cut.visits = child.visits
        /\ cut.verified = child.verified /\ cut.terminal = child.terminal
    BY <1>3 DEF MctsNode
  <2>3. cut.pruned
    BY <1>3 DEF MctsNode
  <2> HIDE DEF cut
  <2> QED
    BY <1>3, <1>4, <2>1, <2>2, <2>3 DEF MctsTypeOK
<1>6. CASE ~DetectLoopOrFatal(mctsCurrent, command)
  <2>1. command \in MctsCommand /\ mctsGuest' = Append(MctsHere.snap, command)
    BY <1>6 DEF MctsCandidate, MctsRunIn, DetectLoopOrFatal
  <2>2. PICK resolved \in BOOLEAN, is_done \in BOOLEAN :
            MctsAppendChild([child EXCEPT
                !.visits = 1, !.verified = resolved, !.snap = mctsGuest',
                !.terminal = resolved \/ is_done \/ child.depth >= MaxDepth])
    BY <1>6 DEF MctsCandidate
  <2> DEFINE ends == resolved \/ is_done \/ child.depth >= MaxDepth
             ran == [child EXCEPT !.visits = 1, !.verified = resolved, !.snap = mctsGuest',
                                  !.terminal = ends]
  <2>3. ends \in BOOLEAN
    OBVIOUS
  <2>4. MctsAppendChild(ran)
    BY <2>2
  <2>5. mctsGuest' \in Seq(MctsCommand)
    BY <1>1, <2>1 DEF MctsNode
  <2> HIDE DEF ends, child
  <2>6. /\ ran \in MctsNode /\ ran.parent = child.parent /\ ran.command = child.command
        /\ ran.depth = child.depth /\ ran.visits = 1 /\ ran.snap = mctsGuest'
        /\ ran.pruned = child.pruned
    BY <1>3, <2>3, <2>5 DEF MctsNode
  <2> HIDE DEF ran
  <2> QED
    BY <1>3, <1>4, <2>1, <2>4, <2>5, <2>6
<1> QED
  BY <1>5, <1>6

\* Appending such a node keeps the invariant.
LEMMA AppendKeeps ==
    ASSUME SearchInv, NEW command \in MctsCommand \cup {NoCommand}, MctsCandidate(command),
           MctsExpand
    PROVE  SearchInv'
<1>1. PICK child \in MctsNode :
          /\ MctsAppendChild(child)
          /\ child.parent = mctsCurrent /\ child.command = command
          /\ child.depth = MctsHere.depth + 1
          /\ \/ child.pruned /\ ~child.verified /\ ~child.terminal /\ child.visits = 0
             \/ /\ ~child.pruned /\ child.visits = 1
                /\ child.snap = Append(MctsHere.snap, command)
          /\ mctsGuest' \in Seq(MctsCommand)
  BY ExpandAppends DEF SearchInv
<1> DEFINE N == Len(mctsTree)
<1>2. /\ mctsAt' = "expand" /\ mctsAt = "expand"
      /\ UNCHANGED <<mctsSim, mctsCurrent, mctsLeaf>>
      /\ mctsTries' \in 0 .. BranchFactor
  BY MctsAssumption DEF MctsExpand, SearchInv, MctsTypeOK
<1>3. /\ N \in Nat \ {0} /\ DOMAIN mctsTree = 1 .. N /\ mctsTree' \in Seq(MctsNode)
      /\ Len(mctsTree') = N + 1 /\ DOMAIN mctsTree' = 1 .. N + 1
      /\ \A n \in 1 .. N : mctsTree'[n] = mctsTree[n]
      /\ mctsTree'[N + 1] = child
      /\ mctsCurrent \in 1 .. N
  BY <1>1 DEF MctsAppendChild, SearchInv, MctsTypeOK
<1>4. mctsBest' = IF child.verified /\ (mctsBest = 0 \/ child.depth < mctsTree[mctsBest].depth)
                  THEN N + 1 ELSE mctsBest
  BY <1>1, <1>3 DEF MctsAppendChild
<1>5. mctsSim \in Nat \ {0} /\ mctsTree \in Seq(MctsNode)
      /\ {mctsBest, mctsLeaf} \subseteq {0} \cup (1 .. N)
      /\ \A n \in 1 .. N : mctsTree[n] \in MctsNode
  BY <1>3, MctsAssumption DEF SearchInv, MctsTypeOK
<1> HIDE DEF N
<1>6. MctsTypeOK'
  BY <1>1, <1>2, <1>3, <1>4, <1>5 DEF SearchInv, MctsTypeOK
<1>7. TreeFits'
  <2>1. Rooted'
    <3>1. mctsTree'[1].parent = 0
      BY <1>3 DEF SearchInv, TreeFits, Rooted
    <3>2. \A n \in 2 .. N : mctsTree'[n].parent \in 1 .. n - 1
      BY <1>3 DEF SearchInv, TreeFits, Rooted, N
    <3>3. mctsTree'[N + 1].parent \in 1 .. N + 1 - 1
      BY <1>1, <1>3
    <3>4. \A n \in 2 .. N + 1 : n \in 2 .. N \/ n = N + 1
      BY <1>3
    <3> QED
      BY <1>3, <3>1, <3>2, <3>3, <3>4 DEF Rooted
  <2>2. ~mctsTree'[1].pruned /\ mctsTree'[1].snap = <<>>
    BY <1>3 DEF SearchInv, TreeFits
  <2>3. ASSUME NEW n \in 2 .. N + 1
        PROVE  /\ ~mctsTree'[mctsTree'[n].parent].pruned
               /\ ~mctsTree'[mctsTree'[n].parent].terminal
               /\ \/ mctsTree'[n].pruned
                  \/ mctsTree'[n].snap
                         = Append(mctsTree'[mctsTree'[n].parent].snap, mctsTree'[n].command)
    <3>1. CASE n = N + 1
      <4>1. mctsTree'[mctsTree'[n].parent] = MctsHere /\ ~MctsHere.pruned /\ ~MctsHere.terminal
        BY <1>1, <1>2, <1>3, <3>1 DEF SearchInv, HereFits, MctsHere
      <4> QED
        BY <1>1, <1>3, <3>1, <4>1
    <3>2. CASE n # N + 1
      <4>1. n \in 2 .. N /\ mctsTree'[n] = mctsTree[n]
        BY <1>3, <3>2
      <4>2. mctsTree'[mctsTree[n].parent] = mctsTree[mctsTree[n].parent]
        BY <1>3, <4>1 DEF SearchInv, TreeFits, Rooted, N
      <4> QED
        BY <4>1, <4>2 DEF SearchInv, TreeFits, N
    <3> QED
      BY <3>1, <3>2
  <2>4. ASSUME NEW n \in 1 .. N + 1 PROVE mctsTree'[n].visits <= mctsSim'
    <3>1. CASE n = N + 1
      BY <1>1, <1>2, <1>3, <1>5, <3>1
    <3>2. CASE n # N + 1
      BY <1>2, <1>3, <3>2 DEF SearchInv, TreeFits
    <3> QED
      BY <3>1, <3>2
  <2> QED
    BY <1>3, <2>1, <2>2, <2>3, <2>4 DEF TreeFits
<1>8. HereFits'
  BY <1>2, <1>3 DEF SearchInv, HereFits, MctsHere
<1>9. BestFits'
  <2>1. MctsVerified' = IF child.verified THEN MctsVerified \cup {N + 1} ELSE MctsVerified
    <3>1. \A n \in 1 .. N : n # N + 1
      BY <1>3
    <3> QED
      BY <1>3, <3>1 DEF MctsVerified
  <2>2. MctsVerified \subseteq 1 .. N /\ \A n \in MctsVerified : mctsTree[n].depth \in Nat
    BY <1>3, <1>5 DEF MctsVerified, MctsNode
  <2>3. /\ \A n \in MctsVerified :
               mctsBest # 0 /\ mctsTree[mctsBest].depth <= mctsTree[n].depth
        /\ mctsBest # 0 => mctsBest \in MctsVerified
    BY DEF SearchInv, BestFits
  <2>4. child.depth \in Nat
    BY DEF MctsNode
  <2>5. CASE child.verified /\ (mctsBest = 0 \/ child.depth < mctsTree[mctsBest].depth)
    <3>1. mctsBest' = N + 1 /\ mctsBest' \in MctsVerified' /\ mctsTree'[mctsBest'] = child
      BY <1>3, <1>4, <2>1, <2>5
    <3>2. \A n \in MctsVerified : child.depth <= mctsTree[n].depth
      <4>1. PICK depth \in Nat : depth = child.depth
        BY <2>4
      <4>2. \A n \in MctsVerified : depth <= mctsTree[n].depth
        <5>1. CASE mctsBest = 0
          BY <2>3, <5>1
        <5>2. CASE mctsBest # 0
          <6>1. mctsBest \in MctsVerified /\ depth < mctsTree[mctsBest].depth
            BY <2>3, <2>5, <4>1, <5>2
          <6>2. PICK best \in Nat : best = mctsTree[mctsBest].depth
            BY <2>2, <6>1
          <6>3. ASSUME NEW n \in MctsVerified PROVE depth <= mctsTree[n].depth
            <7>1. mctsTree[n].depth \in Nat /\ best <= mctsTree[n].depth
              BY <2>2, <2>3, <6>2
            <7> QED
              BY <6>1, <6>2, <7>1
          <6> QED
            BY <6>3
        <5> QED
          BY <5>1, <5>2
      <4> QED
        BY <4>1, <4>2
    <3>3. \A n \in MctsVerified' : child.depth <= mctsTree'[n].depth
      BY <1>3, <2>1, <2>2, <2>4, <2>5, <3>2
    <3> QED
      BY <1>2, <1>3, <3>1, <3>3 DEF BestFits
  <2>6. CASE ~(child.verified /\ (mctsBest = 0 \/ child.depth < mctsTree[mctsBest].depth))
    <3>1. mctsBest' = mctsBest
      BY <1>4, <2>6
    <3>2. child.verified => mctsBest # 0 /\ mctsTree[mctsBest].depth <= child.depth
      <4>1. child.verified => mctsBest # 0 /\ ~(child.depth < mctsTree[mctsBest].depth)
        BY <2>6, Zenon
      <4>2. mctsBest # 0 => mctsTree[mctsBest].depth \in Nat
        BY <2>2, <2>3
      <4> QED
        BY <2>4, <4>1, <4>2
    <3>3. mctsBest # 0 => mctsTree'[mctsBest] = mctsTree[mctsBest]
      BY <1>3, <1>5
    <3>4. \A n \in MctsVerified' :
              mctsBest' # 0 /\ mctsTree'[mctsBest'].depth <= mctsTree'[n].depth
      BY <1>3, <2>1, <2>2, <2>3, <3>1, <3>2, <3>3
    <3> QED
      BY <1>2, <2>1, <2>3, <3>1, <3>4 DEF BestFits
  <2> QED
    BY <2>5, <2>6
<1>10. VisitsAddUp'
  <2>1. mctsTree'[1].visits = mctsSim' - 1
    BY <1>2, <1>3 DEF SearchInv, VisitsAddUp
  <2>2. ASSUME NEW n \in 1 .. N + 1, n # 1, ~mctsTree'[n].pruned
        PROVE  /\ mctsTree'[n].visits >= 1
               /\ mctsTree'[n].visits <= mctsTree'[mctsTree'[n].parent].visits + 1
    <3>1. CASE n = N + 1
      <4>1. mctsTree'[n].visits = 1 /\ mctsTree'[mctsTree'[n].parent] = mctsTree[mctsCurrent]
        BY <1>1, <1>3, <2>2, <3>1
      <4>2. mctsTree[mctsCurrent].visits \in Nat
        BY <1>3, <1>5 DEF MctsNode
      <4> QED
        BY <4>1, <4>2
    <3>2. CASE n # N + 1
      <4>1. n \in 2 .. N /\ mctsTree'[n] = mctsTree[n]
        BY <1>3, <2>2, <3>2
      <4>2. mctsTree'[mctsTree[n].parent] = mctsTree[mctsTree[n].parent]
        BY <1>3, <4>1 DEF SearchInv, TreeFits, Rooted, N
      <4> QED
        BY <1>3, <2>2, <4>1, <4>2 DEF SearchInv, VisitsAddUp
    <3> QED
      BY <3>1, <3>2
  <2> QED
    BY <1>3, <2>1, <2>2 DEF VisitsAddUp
<1> QED
  BY <1>6, <1>7, <1>8, <1>9, <1>10 DEF SearchInv

\* Backpropagation gives a node a visit only with its parent.
LEMMA BackpropagationKeeps ==
    ASSUME SearchInv, mctsSim <= MaxSimulations, MctsBackpropagate
    PROVE  SearchInv'
<1> DEFINE N == Len(mctsTree)
           visited == ToSet(MctsPath(mctsCurrent)) \cup {1}
<1>1. /\ N \in Nat /\ DOMAIN mctsTree = 1 .. N /\ mctsCurrent \in 1 .. N
      /\ mctsTree \in Seq(MctsNode) /\ \A n \in 1 .. N : mctsTree[n] \in MctsNode
      /\ mctsSim \in Nat /\ mctsSim' = mctsSim + 1 /\ mctsSim' \in 1 .. MaxSimulations + 1
      /\ mctsAt' = "select" /\ mctsCurrent' = 1
      /\ UNCHANGED <<mctsTries, mctsGuest, mctsBest, mctsLeaf>>
  BY MctsAssumption DEF SearchInv, MctsTypeOK, MctsBackpropagate
<1>2. /\ visited \subseteq 1 .. N
      /\ \A n \in visited : n # 1 => mctsTree[n].parent \in visited
  <2>1. Rooted
    BY DEF SearchInv, TreeFits
  <2>2. /\ MctsPath(mctsCurrent) \in Seq(2 .. N)
        /\ \A k \in ToSet(MctsPath(mctsCurrent)) :
               mctsTree[k].parent \in ToSet(MctsPath(mctsCurrent)) \cup {1}
    BY <1>1, <2>1, PathsStayInside
  <2>3. ToSet(MctsPath(mctsCurrent)) \subseteq 2 .. N
    BY <2>2 DEF ToSet
  <2> QED
    BY <1>1, <2>2, <2>3
<1>3. /\ DOMAIN mctsTree' = 1 .. N
      /\ \A n \in visited : mctsTree'[n] = [mctsTree[n] EXCEPT !.visits = @ + 1]
      /\ \A n \in 1 .. N \ visited : mctsTree'[n] = mctsTree[n]
  <2>1. mctsTree' = [n \in 1 .. N |->
            IF n \in visited THEN [mctsTree[n] EXCEPT !.visits = @ + 1] ELSE mctsTree[n]]
    BY <1>1 DEF MctsBackpropagate
  <2> HIDE DEF visited, N
  <2> QED
    BY <1>2, <2>1
<1> HIDE DEF visited
<1>4. ASSUME NEW n \in 1 .. N
      PROVE  /\ mctsTree'[n] \in MctsNode /\ mctsTree[n].visits \in Nat
             /\ mctsTree'[n].visits = mctsTree[n].visits + (IF n \in visited THEN 1 ELSE 0)
             /\ mctsTree'[n].parent = mctsTree[n].parent
             /\ mctsTree'[n].command = mctsTree[n].command
             /\ mctsTree'[n].depth = mctsTree[n].depth /\ mctsTree'[n].snap = mctsTree[n].snap
             /\ mctsTree'[n].pruned = mctsTree[n].pruned
             /\ mctsTree'[n].terminal = mctsTree[n].terminal
             /\ mctsTree'[n].verified = mctsTree[n].verified
  <2>1. mctsTree[n] \in MctsNode
    BY <1>1
  <2>2. mctsTree[n].visits \in Nat
    BY <2>1 DEF MctsNode
  <2>3. CASE n \in visited
    <3>1. PICK r \in MctsNode : r = mctsTree[n]
      BY <2>1
    <3>2. PICK v \in Nat : v = r.visits + 1
      BY <2>2, <3>1
    <3>3. mctsTree'[n] = [r EXCEPT !.visits = v]
      BY <1>3, <2>3, <3>1, <3>2
    <3>4. /\ [r EXCEPT !.visits = v] \in MctsNode /\ [r EXCEPT !.visits = v].visits = v
          /\ [r EXCEPT !.visits = v].parent = r.parent
          /\ [r EXCEPT !.visits = v].command = r.command
          /\ [r EXCEPT !.visits = v].depth = r.depth /\ [r EXCEPT !.visits = v].snap = r.snap
          /\ [r EXCEPT !.visits = v].pruned = r.pruned
          /\ [r EXCEPT !.visits = v].terminal = r.terminal
          /\ [r EXCEPT !.visits = v].verified = r.verified
      BY DEF MctsNode
    <3> QED
      BY <2>2, <2>3, <3>1, <3>2, <3>3, <3>4
  <2>4. CASE n \notin visited
    BY <1>3, <2>1, <2>2, <2>4
  <2> QED
    BY <2>3, <2>4
<1>5. mctsTree' \in Seq(MctsNode) /\ Len(mctsTree') = N
  <2>1. mctsTree' = [n \in 1 .. N |-> mctsTree'[n]]
    BY <1>1 DEF MctsBackpropagate
  <2> HIDE DEF N
  <2>2. \A n \in 1 .. N : mctsTree'[n] \in MctsNode
    BY <1>4
  <2>3. N \in Nat
    BY <1>1
  <2>4. PICK t : t = mctsTree'
    OBVIOUS
  <2>5. t = [n \in 1 .. N |-> t[n]] /\ \A n \in 1 .. N : t[n] \in MctsNode
    BY <2>1, <2>2, <2>4
  <2>6. t \in [1 .. N -> MctsNode]
    BY <2>5
  <2>7. t \in Seq(MctsNode) /\ Len(t) = N
    BY <2>3, <2>6
  <2> QED
    BY <2>4, <2>7
<1> HIDE DEF N
<1>6. 1 \in 1 .. N /\ 1 \in visited /\ \A n \in 1 .. N : n # 1 <=> n \in 2 .. N
  BY <1>1 DEF visited
<1>7. MctsTypeOK'
  BY <1>1, <1>3, <1>5, <1>6 DEF SearchInv, MctsTypeOK
<1>8. Rooted /\ \A n \in 2 .. N : mctsTree[n].parent \in 1 .. N
  <2>1. Rooted
    BY DEF SearchInv, TreeFits
  <2> QED
    BY <1>1, <2>1 DEF Rooted, N
<1>9. TreeFits'
  <2>1. Rooted'
    <3>1. Len(mctsTree') = Len(mctsTree) /\ mctsTree'[1].parent = mctsTree[1].parent
      BY <1>4, <1>5, <1>6 DEF N
    <3>2. \A n \in 2 .. Len(mctsTree) : mctsTree'[n].parent = mctsTree[n].parent
      BY <1>4, <1>6 DEF N
    <3> QED
      BY <1>8, <3>1, <3>2 DEF Rooted
  <2>2. ~mctsTree'[1].pruned /\ mctsTree'[1].snap = <<>>
    BY <1>4, <1>6 DEF SearchInv, TreeFits
  <2>3. ASSUME NEW n \in 2 .. N
        PROVE  /\ ~mctsTree'[mctsTree'[n].parent].pruned
               /\ ~mctsTree'[mctsTree'[n].parent].terminal
               /\ \/ mctsTree'[n].pruned
                  \/ mctsTree'[n].snap
                         = Append(mctsTree'[mctsTree'[n].parent].snap, mctsTree'[n].command)
    <3>1. PICK p : p = mctsTree[n].parent
      OBVIOUS
    <3>2. p \in 1 .. N /\ n \in 1 .. N /\ mctsTree'[n].parent = p
      BY <1>4, <1>6, <1>8, <3>1
    <3>3. /\ ~mctsTree[p].pruned /\ ~mctsTree[p].terminal
          /\ mctsTree[n].pruned
             \/ mctsTree[n].snap = Append(mctsTree[p].snap, mctsTree[n].command)
      BY <3>1 DEF SearchInv, TreeFits, N
    <3> QED
      BY <1>4, <3>2, <3>3
  <2>4. \A n \in 1 .. N : mctsTree'[n].visits <= mctsSim'
    BY <1>1, <1>4 DEF SearchInv, TreeFits
  <2> QED
    BY <1>3, <1>5, <2>1, <2>2, <2>3, <2>4 DEF TreeFits
<1>10. HereFits'
  BY <1>1, <1>4, <1>6 DEF SearchInv, TreeFits, HereFits, MctsHere
<1>11. BestFits'
  <2>1. MctsVerified' = MctsVerified /\ MctsVerified \subseteq 1 .. N
    BY <1>1, <1>3, <1>4 DEF MctsVerified
  <2> QED
    BY <1>1, <1>4, <2>1 DEF SearchInv, BestFits
<1>12. VisitsAddUp'
  <2>1. mctsTree'[1].visits = mctsSim' - 1
    BY <1>1, <1>4, <1>6 DEF SearchInv, VisitsAddUp
  <2>2. ASSUME NEW n \in 1 .. N, n # 1, ~mctsTree'[n].pruned
        PROVE  /\ mctsTree'[n].visits >= 1
               /\ mctsTree'[n].visits <= mctsTree'[mctsTree'[n].parent].visits + 1
    <3>1. PICK p : p = mctsTree[n].parent
      OBVIOUS
    <3>2. p \in 1 .. N /\ mctsTree'[n].parent = p /\ (n \in visited => p \in visited)
      BY <1>2, <1>4, <1>6, <1>8, <2>2, <3>1
    <3>3. mctsTree[n].visits >= 1 /\ mctsTree[n].visits <= mctsTree[p].visits + 1
      BY <1>1, <1>4, <2>2, <3>1 DEF SearchInv, VisitsAddUp
    <3> QED
      BY <1>4, <3>2, <3>3
  <2> QED
    BY <1>3, <2>1, <2>2 DEF VisitsAddUp
<1> QED
  BY <1>7, <1>9, <1>10, <1>11, <1>12 DEF SearchInv

\* Every step of a search keeps the invariant.
LEMMA SearchInvStep ==
    ASSUME SearchInv, [MctsNext]_mctsVars
    PROVE  SearchInv'
<1>1. mctsCurrent \in DOMAIN mctsTree /\ 0 \in 0 .. BranchFactor
  BY MctsAssumption DEF SearchInv, MctsTypeOK
<1>2. \A n \in DOMAIN mctsTree : n # 1 => n \in 2 .. Len(mctsTree)
  BY DEF SearchInv, MctsTypeOK
<1>3. CASE MctsSelectChild
  <2>1. PICK c \in MctsChildren(mctsCurrent) : ~mctsTree[c].pruned /\ mctsCurrent' = c
    BY <1>3 DEF MctsSelectChild
  <2>2. /\ c \in DOMAIN mctsTree /\ mctsAt' = "select"
        /\ UNCHANGED <<mctsSim, mctsTree, mctsTries, mctsGuest, mctsBest, mctsLeaf>>
    BY <1>3 DEF MctsSelectChild, MctsChildren
  <2> QED
    BY <2>1, <2>2 DEF SearchInv, MctsTypeOK, TreeFits, Rooted, HereFits, BestFits, VisitsAddUp,
                      MctsHere, MctsVerified
<1>4. CASE MctsSelectLeaf
  <2>1. /\ mctsAt' \in {"expand", "backpropagate"}
        /\ mctsAt' = "expand" => ~MctsHere.terminal
        /\ mctsTries' = 0
        /\ UNCHANGED <<mctsSim, mctsTree, mctsCurrent, mctsGuest, mctsBest, mctsLeaf>>
    BY <1>4 DEF MctsSelectLeaf
  <2> QED
    BY <1>1, <2>1 DEF SearchInv, MctsTypeOK, TreeFits, Rooted, HereFits, BestFits, VisitsAddUp,
                      MctsHere, MctsVerified
<1>5. CASE MctsExpand
  <2>1. ASSUME NEW command \in MctsCommand \cup {NoCommand}, MctsCandidate(command)
        PROVE  SearchInv'
    BY <1>5, <2>1, AppendKeeps
  <2>2. CASE UNCHANGED <<mctsTree, mctsBest, mctsGuest>>
    <3>1. /\ mctsTries' \in 0 .. BranchFactor
          /\ UNCHANGED <<mctsAt, mctsSim, mctsTree, mctsCurrent, mctsGuest, mctsBest,
                         mctsLeaf>>
      BY <1>5, <2>2, MctsAssumption DEF MctsExpand, SearchInv, MctsTypeOK
    <3> QED
      BY <3>1 DEF SearchInv, MctsTypeOK, TreeFits, Rooted, HereFits, BestFits, VisitsAddUp,
                  MctsHere, MctsVerified
  <2> QED
    BY <1>5, <2>1, <2>2 DEF MctsExpand
<1>6. CASE MctsExpanded
  BY <1>6 DEF MctsExpanded, SearchInv, MctsTypeOK, TreeFits, Rooted, HereFits, BestFits,
              VisitsAddUp, MctsHere, MctsVerified
<1>7. CASE mctsSim <= MaxSimulations /\ MctsBackpropagate
  BY <1>7, BackpropagationKeeps
<1>8. CASE MctsExtract
  <2>1. mctsLeaf' \in DOMAIN mctsTree
        /\ (mctsTree[mctsLeaf'].verified <=> MctsVerified # {})
    <3>1. mctsTree \in Seq(MctsNode) /\ TreeFits /\ mctsSim \in Nat /\ 1 \in DOMAIN mctsTree
      BY DEF SearchInv, MctsTypeOK
    <3>2. MctsMostVisited(1) \in DOMAIN mctsTree
      BY <3>1, DescentsEnd
    <3>3. CASE mctsBest # 0
      BY <1>8, <3>3 DEF MctsExtract, SearchInv, BestFits, MctsVerified
    <3>4. CASE mctsBest = 0
      BY <1>8, <3>2, <3>4 DEF MctsExtract, SearchInv, BestFits, MctsVerified
    <3> QED
      BY <3>3, <3>4
  <2>2. /\ mctsAt' = "over"
        /\ UNCHANGED <<mctsSim, mctsTree, mctsCurrent, mctsTries, mctsGuest, mctsBest>>
    BY <1>8 DEF MctsExtract
  <2> QED
    BY <2>1, <2>2 DEF SearchInv, MctsTypeOK, TreeFits, Rooted, HereFits, BestFits, VisitsAddUp,
                      MctsHere, MctsVerified
<1>9. CASE MctsRaise
  BY <1>9 DEF MctsRaise, SearchInv, MctsTypeOK, TreeFits, Rooted, HereFits, BestFits,
              VisitsAddUp, MctsHere, MctsVerified
<1>10. CASE UNCHANGED mctsVars
  BY <1>10 DEF mctsVars, SearchInv, MctsTypeOK, TreeFits, Rooted, HereFits, BestFits,
               VisitsAddUp, MctsHere, MctsVerified
<1> QED
  BY <1>3, <1>4, <1>5, <1>6, <1>7, <1>8, <1>9, <1>10 DEF MctsNext, MctsSimulation

\* A search returns a verified node, and the nearest one, if it ran into any; the snapshot of
\* every node it ran holds the effects of the commands on the way to it and of no others; and
\* no node has more visits than its parent accounts for.
THEOREM SearchesAreSound == MctsSpec => []MctsSound
<1>1. MctsInit => SearchInv
  <2> SUFFICES ASSUME MctsInit PROVE SearchInv
    OBVIOUS
  <2>1. MctsRoot \in MctsNode
    <3>1. <<>> \in Seq(MctsCommand)
      OBVIOUS
    <3> QED
      BY <3>1 DEF MctsRoot, MctsNode
  <2>2. /\ mctsTree \in Seq(MctsNode) /\ Len(mctsTree) = 1 /\ DOMAIN mctsTree = {1}
        /\ mctsTree[1] = MctsRoot /\ mctsCurrent = 1
    BY <2>1 DEF MctsInit
  <2>3. /\ MctsRoot.parent = 0 /\ MctsRoot.visits = 0 /\ ~MctsRoot.pruned
        /\ ~MctsRoot.verified /\ MctsRoot.snap = <<>>
    BY DEF MctsRoot
  <2>4. mctsSim = 1 /\ mctsAt = "select" /\ mctsBest = 0 /\ mctsLeaf = 0 /\ mctsTries = 0
        /\ mctsGuest \in Seq(MctsCommand)
    BY DEF MctsInit
  <2>5. MctsTypeOK
    BY <2>2, <2>4, MctsAssumption DEF MctsTypeOK
  <2>6. TreeFits /\ VisitsAddUp
    BY <2>2, <2>3, <2>4 DEF TreeFits, Rooted, VisitsAddUp
  <2>7. HereFits /\ BestFits
    BY <2>2, <2>3, <2>4 DEF HereFits, BestFits, MctsHere, MctsVerified
  <2> QED
    BY <2>5, <2>6, <2>7 DEF SearchInv
<1>2. SearchInv /\ [MctsNext]_mctsVars => SearchInv'
  BY SearchInvStep
<1>3. SearchInv => MctsSound
  <2> SUFFICES ASSUME SearchInv PROVE BestIsShallowest /\ SnapshotsAreReplays /\ VisitsAddUp
    BY DEF MctsSound
  <2>1. mctsTree \in Seq(MctsNode) /\ TreeFits
    BY DEF SearchInv, MctsTypeOK
  <2>2. SnapshotsAreReplays
    BY <2>1, ReplaysAddUp
  <2>3. ASSUME NEW n \in DOMAIN mctsTree, mctsTree[n].terminal \/ mctsTree[n].pruned
        PROVE  MctsChildren(n) = {}
    <3>1. \A c \in DOMAIN mctsTree : c = 1 \/ c \in 2 .. Len(mctsTree)
      BY <2>1
    <3>2. mctsTree[1].parent = 0 /\ n # 0
      BY <2>1 DEF TreeFits, Rooted
    <3>3. ASSUME NEW c \in DOMAIN mctsTree, mctsTree[c].parent = n PROVE FALSE
      <4>1. c \in 2 .. Len(mctsTree)
        BY <3>1, <3>2, <3>3
      <4>2. ~mctsTree[n].pruned /\ ~mctsTree[n].terminal
        BY <2>1, <3>3, <4>1 DEF TreeFits
      <4> QED
        BY <2>3, <4>2
    <3> QED
      BY <3>3 DEF MctsChildren
  <2>4. BestIsShallowest
    BY <2>3 DEF SearchInv, BestFits, BestIsShallowest
  <2> QED
    BY <2>2, <2>4 DEF SearchInv
<1> QED
  BY <1>1, <1>2, <1>3, PTL DEF MctsSpec

----------------------------------------------------------------------------
(* The dialogues *)

\* The recursive function of FlattenSeq: the first so many sequences, put together.
Flat(seqs) ==
    CHOOSE flatten : flatten = [i \in 1 .. Len(seqs) |->
                                   IF i = 1 THEN seqs[i] ELSE flatten[i-1] \o seqs[i]]

\* It exists.
LEMMA FlatIs ==
    ASSUME NEW seqs, Len(seqs) \in Nat
    PROVE  /\ Flat(seqs) = [i \in 1 .. Len(seqs) |->
                               IF i = 1 THEN seqs[i] ELSE Flat(seqs)[i-1] \o seqs[i]]
           /\ Len(seqs) # 0 => FlattenSeq(seqs) = Flat(seqs)[Len(seqs)]
<1> DEFINE N == Len(seqs)
           next(f, i) == IF i = 1 THEN seqs[i] ELSE f[i-1] \o seqs[i]
           flats(n, f) == f = [i \in 1 .. n |-> next(f, i)]
           stuck == {n \in 0 .. N : ~ \E f : flats(n, f)}
<1>1. \E f : flats(N, f)
  <2>0. N \in 0 .. N
    OBVIOUS
  <2>1. SUFFICES ASSUME stuck # {} PROVE FALSE
    <3> HIDE DEF flats
    <3> QED
      BY <2>0, <2>1
  <2>2. PICK n \in stuck : \A m \in stuck : n <= m
    <3> HIDE DEF flats
    <3>1. stuck \in SUBSET Nat
      OBVIOUS
    <3> HIDE DEF stuck
    <3> QED
      BY <2>1, <3>1, LeastOf
  <2>3. n \in 0 .. N
    OBVIOUS
  <2>4. CASE n = 0
    <3> HIDE DEF next
    <3>1. flats(0, [i \in 1 .. 0 |-> <<>>])
      OBVIOUS
    <3> QED
      BY <2>2, <2>4, <3>1
  <2>5. CASE n # 0
    <3>1. n - 1 \in 0 .. N /\ n \in Nat /\ ~(n <= n - 1)
      BY <2>3, <2>5
    <3>2. PICK f : flats(n - 1, f)
      <4>1. n - 1 \notin stuck
        <5> HIDE DEF stuck
        <5> QED
          BY <2>2, <3>1
      <4> QED
        BY <3>1, <4>1
    <3> DEFINE g == [i \in 1 .. n |-> next(f, i)]
    <3>3. \A i \in 1 .. n - 1 : g[i] = f[i]
      <4> HIDE DEF next
      <4> QED
        BY <3>1, <3>2
    <3>4. \A i \in 1 .. n : next(g, i) = next(f, i)
      <4>1. \A i \in 1 .. n : i # 1 => i - 1 \in 1 .. n - 1
        BY <3>1
      <4> HIDE DEF g
      <4> QED
        BY <3>3, <4>1
    <3>5. flats(n, g)
      BY <3>4
    <3> QED
      BY <2>2, <3>5
  <2> QED
    BY <2>4, <2>5
<1>2. Flat(seqs) = CHOOSE f : flats(N, f)
  BY DEF Flat
<1>3. flats(N, Flat(seqs))
  BY <1>1, <1>2
<1>4. N # 0 => FlattenSeq(seqs) = Flat(seqs)[N]
  BY DEF FlattenSeq, Flat
<1> QED
  BY <1>3, <1>4

\* One more sequence is put at the end.
LEMMA FlattenAppends ==
    ASSUME NEW S, NEW seqs \in Seq(Seq(S)), NEW e \in Seq(S)
    PROVE  /\ FlattenSeq(seqs) \in Seq(S)
           /\ FlattenSeq(Append(seqs, e)) = FlattenSeq(seqs) \o e
<1> DEFINE N == Len(seqs)
           more == Append(seqs, e)
           bad == {i \in 1 .. N : ~(Flat(seqs)[i] \in Seq(S) /\ Flat(more)[i] = Flat(seqs)[i])}
<1>1. /\ N \in Nat /\ \A i \in 1 .. N : seqs[i] \in Seq(S) /\ more[i] = seqs[i]
      /\ Len(more) = N + 1 /\ more[N + 1] = e
  OBVIOUS
<1>2. /\ \A i \in 1 .. N :
             Flat(seqs)[i] = IF i = 1 THEN seqs[i] ELSE Flat(seqs)[i-1] \o seqs[i]
      /\ N # 0 => FlattenSeq(seqs) = Flat(seqs)[N]
  <2>1. /\ Flat(seqs) = [i \in 1 .. Len(seqs) |->
                            IF i = 1 THEN seqs[i] ELSE Flat(seqs)[i-1] \o seqs[i]]
        /\ Len(seqs) # 0 => FlattenSeq(seqs) = Flat(seqs)[Len(seqs)]
    <3> HIDE DEF more, bad
    <3> QED
      BY <1>1, FlatIs
  <2> HIDE DEF bad, more
  <2> QED
    BY <1>1, <2>1
<1>3. /\ \A i \in 1 .. N + 1 :
             Flat(more)[i] = IF i = 1 THEN more[i] ELSE Flat(more)[i-1] \o more[i]
      /\ FlattenSeq(more) = Flat(more)[N + 1]
  <2> HIDE DEF more
  <2>1. /\ Flat(more) = [i \in 1 .. Len(more) |->
                            IF i = 1 THEN more[i] ELSE Flat(more)[i-1] \o more[i]]
        /\ Len(more) # 0 => FlattenSeq(more) = Flat(more)[Len(more)]
    <3>1. Len(more) \in Nat
      BY <1>1
    <3> QED
      BY <3>1, FlatIs, Zenon
  <2>2. Len(more) = N + 1 /\ N + 1 # 0
    BY <1>1
  <2> HIDE DEF N, bad
  <2>3. Flat(more) = [i \in 1 .. N + 1 |->
                         IF i = 1 THEN more[i] ELSE Flat(more)[i-1] \o more[i]]
    BY <2>1, <2>2
  <2>4. FlattenSeq(more) = Flat(more)[N + 1]
    BY <2>1, <2>2
  <2> QED
    BY <2>3, <2>4
<1> HIDE DEF more
<1>4. bad = {}
  <2> SUFFICES ASSUME bad # {} PROVE FALSE
    OBVIOUS
  <2>1. bad \in SUBSET Nat
    OBVIOUS
  <2>2. PICK i \in bad : \A m \in bad : i <= m
    <3> HIDE DEF bad
    <3> QED
      BY <2>1, LeastOf
  <2>3. i \in 1 .. N /\ ~(Flat(seqs)[i] \in Seq(S) /\ Flat(more)[i] = Flat(seqs)[i])
    OBVIOUS
  <2>4. CASE i = 1
    <3> HIDE DEF bad, N
    <3>1. 1 \in 1 .. N /\ 1 \in 1 .. N + 1
      BY <1>1, <2>3, <2>4
    <3>2. Flat(seqs)[1] = seqs[1] /\ Flat(more)[1] = more[1]
      BY <1>2, <1>3, <3>1
    <3> QED
      BY <1>1, <2>3, <2>4, <3>1, <3>2
  <2>5. CASE i # 1
    <3>1. PICK p : p = i - 1
      OBVIOUS
    <3>2. p \in 1 .. N /\ ~(i <= p) /\ i \in 1 .. N + 1
      BY <1>1, <2>3, <2>5, <3>1
    <3>3. Flat(seqs)[p] \in Seq(S) /\ Flat(more)[p] = Flat(seqs)[p]
      <4>1. p \notin bad
        <5> HIDE DEF bad
        <5> QED
          BY <2>2, <3>2
      <4> QED
        BY <3>2, <4>1
    <3> HIDE DEF bad
    <3>4. Flat(seqs)[i] = Flat(seqs)[p] \o seqs[i] /\ Flat(more)[i] = Flat(more)[p] \o more[i]
      BY <1>2, <1>3, <2>3, <2>5, <3>1, <3>2
    <3>5. seqs[i] \in Seq(S) /\ more[i] = seqs[i]
      BY <1>1, <2>3
    <3>6. Flat(seqs)[p] \o seqs[i] \in Seq(S)
      BY <3>3, <3>5
    <3> HIDE DEF N
    <3> QED
      BY <2>3, <3>3, <3>4, <3>5, <3>6
  <2> QED
    BY <2>4, <2>5
<1>5. \A i \in 1 .. N : Flat(seqs)[i] \in Seq(S) /\ Flat(more)[i] = Flat(seqs)[i]
  BY <1>4
<1>6. CASE N = 0
  <2>1. seqs = <<>> /\ FlattenSeq(seqs) = <<>>
    BY <1>6 DEF FlattenSeq
  <2>2. FlattenSeq(more) = e
    BY <1>1, <1>3, <1>6
  <2> QED
    <3>1. <<>> \o e = e /\ <<>> \in Seq(S)
      OBVIOUS
    <3> QED
      BY <2>1, <2>2, <3>1 DEF more
<1>7. CASE N # 0
  <2>1. N \in 1 .. N /\ N + 1 \in 1 .. N + 1 /\ N + 1 # 1 /\ N + 1 - 1 = N
    BY <1>1, <1>7
  <2>2. FlattenSeq(more) = Flat(more)[N] \o e
    <3> HIDE DEF N, bad
    <3>1. PICK i \in 1 .. N + 1 : i = N + 1
      BY <2>1
    <3>2. i # 1 /\ i - 1 = N
      BY <2>1, <3>1
    <3>3. Flat(more)[i] = Flat(more)[i-1] \o more[i]
      BY <1>3, <3>2
    <3> QED
      BY <1>1, <1>3, <3>1, <3>2, <3>3
  <2> QED
    BY <1>2, <1>5, <1>7, <2>1, <2>2 DEF more
<1> QED
  BY <1>6, <1>7

\* What steps, messages and turns look like, whatever the bounds.
Step == [action : Nat, done : BOOLEAN, rewarded : BOOLEAN]
Said == [is : {"prompt", "answer", "mock", "observation", "complaint"}, of : Nat]
Turn == [from : {"human", "gpt"}, of : Nat]

\* A function along a sequence.
Along(f, s) == [k \in DOMAIN s |-> f[s[k]]]

\* It is a sequence.
LEMMA AlongIsSeq ==
    ASSUME NEW T, NEW U, NEW s \in Seq(T), NEW f \in [T -> U]
    PROVE  Along(f, s) \in Seq(U)
  BY DEF Along

\* It goes along with one more element.
LEMMA AppendAlong ==
    ASSUME NEW T, NEW s \in Seq(T), NEW x \in T, NEW f
    PROVE  Along(f, Append(s, x)) = Append(Along(f, s), f[x])
<1> DEFINE c == Along(f, s)
           t == Append(s, x)
           U == {f[y] : y \in T}
<1>1. /\ Len(t) = Len(s) + 1 /\ Len(s) \in Nat
      /\ \A k \in 1 .. Len(s) : t[k] = s[k] /\ s[k] \in T
      /\ t[Len(s) + 1] = x
      /\ DOMAIN s = 1 .. Len(s) /\ DOMAIN t = 1 .. Len(s) + 1
  OBVIOUS
<1>2. c \in Seq(U) /\ Len(c) = Len(s) /\ \A k \in 1 .. Len(s) : c[k] = f[s[k]]
  BY <1>1 DEF Along
<1>3. f[x] \in U
  OBVIOUS
<1> HIDE DEF c, U
<1>4. /\ DOMAIN Append(c, f[x]) = 1 .. Len(s) + 1
      /\ \A k \in 1 .. Len(s) : Append(c, f[x])[k] = c[k]
      /\ Append(c, f[x])[Len(s) + 1] = f[x]
      /\ Append(c, f[x]) = [k \in 1 .. Len(s) + 1 |-> Append(c, f[x])[k]]
  BY <1>1, <1>2, <1>3
<1> HIDE DEF t
<1>5. \A k \in 1 .. Len(s) + 1 : f[t[k]] = Append(c, f[x])[k]
  BY <1>1, <1>2, <1>4
<1>6. Along(f, t) = Append(c, f[x])
  BY <1>1, <1>4, <1>5 DEF Along
<1> QED
  BY <1>6 DEF t, c

\* What a step adds to the dialogue.
Exchange(mock, step) ==
    <<DlgSays(IF mock THEN "mock" ELSE "answer", step.action),
      DlgSays("observation", step.action)>>

\* The dialogue of some steps, with mock answers or without.
Spoken(mock, taken) ==
    <<DlgSays("prompt", 0), DlgSays("observation", 0)>>
        \o FlattenSeq([k \in DOMAIN taken |->
               <<DlgSays(IF mock THEN "mock" ELSE "answer", taken[k].action),
                 DlgSays("observation", taken[k].action)>>])

\* One more step adds its exchange to the dialogue.
LEMMA SpokenAppends ==
    ASSUME NEW mock, NEW steps \in Seq(Step), NEW step \in Step
    PROVE  /\ Spoken(mock, steps) \in Seq(Said) /\ Exchange(mock, step) \in Seq(Said)
           /\ Spoken(mock, Append(steps, step)) = Spoken(mock, steps) \o Exchange(mock, step)
<1> DEFINE f == [x \in Step |-> Exchange(mock, x)]
           said(s) == Along(f, s)
           start == <<DlgSays("prompt", 0), DlgSays("observation", 0)>>
<1>1. \A x \in Step : Exchange(mock, x) \in Seq(Said)
  <2> SUFFICES ASSUME NEW x \in Step PROVE Exchange(mock, x) \in Seq(Said)
    OBVIOUS
  <2>1. x.action \in Nat
    BY DEF Step
  <2>2. /\ DlgSays("mock", x.action) \in Said /\ DlgSays("answer", x.action) \in Said
        /\ DlgSays("observation", x.action) \in Said
    BY <2>1 DEF DlgSays, Said
  <2> QED
    BY <2>2 DEF Exchange
<1>2. f \in [Step -> Seq(Said)] /\ f[step] = Exchange(mock, step)
  BY <1>1
<1>3. start \in Seq(Said)
  <2>1. DlgSays("prompt", 0) \in Said /\ DlgSays("observation", 0) \in Said
    BY DEF DlgSays, Said
  <2> QED
    BY <2>1
<1>4. ASSUME NEW s \in Seq(Step) PROVE Spoken(mock, s) = start \o FlattenSeq(said(s))
  <2>1. \A k \in DOMAIN s : s[k] \in Step
    OBVIOUS
  <2>2. [k \in DOMAIN s |-> <<DlgSays(IF mock THEN "mock" ELSE "answer", s[k].action),
                              DlgSays("observation", s[k].action)>>] = said(s)
    BY <2>1 DEF Exchange, Along
  <2> QED
    BY <2>2 DEF Spoken
<1>5. Append(steps, step) \in Seq(Step)
  OBVIOUS
<1> HIDE DEF f, start
<1>6. /\ said(steps) \in Seq(Seq(Said))
      /\ said(Append(steps, step)) = Append(said(steps), f[step])
  <2>1. f \in [Step -> Seq(Said)] /\ steps \in Seq(Step) /\ step \in Step
    BY <1>2
  <2>2. Along(f, steps) \in Seq(Seq(Said))
    BY <2>1, AlongIsSeq
  <2>3. Along(f, Append(steps, step)) = Append(Along(f, steps), f[step])
    BY <2>1, AppendAlong
  <2> QED
    BY <2>2, <2>3
<1> HIDE DEF said
<1>7. /\ FlattenSeq(said(steps)) \in Seq(Said)
      /\ FlattenSeq(said(Append(steps, step)))
             = FlattenSeq(said(steps)) \o Exchange(mock, step)
  BY <1>1, <1>2, <1>6, FlattenAppends
<1>8. Exchange(mock, step) \in Seq(Said)
  BY <1>1
<1>9. start \o (FlattenSeq(said(steps)) \o Exchange(mock, step))
          = (start \o FlattenSeq(said(steps))) \o Exchange(mock, step)
  <2>1. PICK a \in Seq(Said), b \in Seq(Said), c \in Seq(Said) :
            a = start /\ b = FlattenSeq(said(steps)) /\ c = Exchange(mock, step)
    BY <1>3, <1>7, <1>8
  <2>2. a \o (b \o c) = (a \o b) \o c
    OBVIOUS
  <2> QED
    BY <2>1, <2>2
<1>10. Spoken(mock, steps) \in Seq(Said)
  BY <1>3, <1>4, <1>7, ConcatProperties
<1> QED
  BY <1>4, <1>5, <1>7, <1>8, <1>9, <1>10

\* The conversation exported for some steps.
Talk(steps) ==
    <<DlgTurn("human", 0)>> \o FlattenSeq([k \in DOMAIN steps |-> DlgTurns(steps[k])])

\* One more step adds its turns to the conversation.
LEMMA TalkAppends ==
    ASSUME NEW steps \in Seq(Step), NEW step \in Step
    PROVE  /\ Talk(steps) \in Seq(Turn) /\ DlgTurns(step) \in Seq(Turn)
           /\ Talk(Append(steps, step)) = Talk(steps) \o DlgTurns(step)
<1> DEFINE f == [x \in Step |-> DlgTurns(x)]
           told(s) == Along(f, s)
           start == <<DlgTurn("human", 0)>>
<1>1. \A x \in Step : DlgTurns(x) \in Seq(Turn)
  <2> SUFFICES ASSUME NEW x \in Step PROVE DlgTurns(x) \in Seq(Turn)
    OBVIOUS
  <2>1. x.action \in Nat
    BY DEF Step
  <2>2. DlgTurn("gpt", x.action) \in Turn /\ DlgTurn("human", x.action) \in Turn
    BY <2>1 DEF DlgTurn, Turn
  <2> QED
    BY <2>2 DEF DlgTurns
<1>2. f \in [Step -> Seq(Turn)] /\ f[step] = DlgTurns(step)
  BY <1>1
<1>3. start \in Seq(Turn)
  <2>1. DlgTurn("human", 0) \in Turn
    BY DEF DlgTurn, Turn
  <2> QED
    BY <2>1
<1>4. ASSUME NEW s \in Seq(Step) PROVE Talk(s) = start \o FlattenSeq(told(s))
  <2>1. \A k \in DOMAIN s : s[k] \in Step
    OBVIOUS
  <2>2. [k \in DOMAIN s |-> DlgTurns(s[k])] = told(s)
    BY <2>1 DEF Along
  <2> QED
    BY <2>2 DEF Talk
<1>5. Append(steps, step) \in Seq(Step)
  OBVIOUS
<1> HIDE DEF f, start
<1>6. /\ told(steps) \in Seq(Seq(Turn))
      /\ told(Append(steps, step)) = Append(told(steps), f[step])
  <2>1. f \in [Step -> Seq(Turn)] /\ steps \in Seq(Step) /\ step \in Step
    BY <1>2
  <2>2. Along(f, steps) \in Seq(Seq(Turn))
    BY <2>1, AlongIsSeq
  <2>3. Along(f, Append(steps, step)) = Append(Along(f, steps), f[step])
    BY <2>1, AppendAlong
  <2> QED
    BY <2>2, <2>3
<1> HIDE DEF told
<1>7. /\ FlattenSeq(told(steps)) \in Seq(Turn)
      /\ FlattenSeq(told(Append(steps, step))) = FlattenSeq(told(steps)) \o DlgTurns(step)
  BY <1>1, <1>2, <1>6, FlattenAppends
<1>8. DlgTurns(step) \in Seq(Turn)
  BY <1>1
<1>9. start \o (FlattenSeq(told(steps)) \o DlgTurns(step))
          = (start \o FlattenSeq(told(steps))) \o DlgTurns(step)
  <2>1. PICK a \in Seq(Turn), b \in Seq(Turn), c \in Seq(Turn) :
            a = start /\ b = FlattenSeq(told(steps)) /\ c = DlgTurns(step)
    BY <1>3, <1>7, <1>8
  <2>2. a \o (b \o c) = (a \o b) \o c
    OBVIOUS
  <2> QED
    BY <2>1, <2>2
<1>10. Talk(steps) \in Seq(Turn)
  BY <1>3, <1>4, <1>7, ConcatProperties
<1> QED
  BY <1>4, <1>5, <1>7, <1>8, <1>9, <1>10

\* Before the first step.
LEMMA NothingSaid ==
    ASSUME NEW mock
    PROVE  /\ Spoken(mock, <<>>) = <<DlgSays("prompt", 0), DlgSays("observation", 0)>>
           /\ Talk(<<>>) = <<DlgTurn("human", 0)>>
<1>1. FlattenSeq([k \in DOMAIN <<>> |-> DlgTurns(<<>>[k])]) = <<>>
  <2>1. [k \in DOMAIN <<>> |-> DlgTurns(<<>>[k])] = <<>>
    OBVIOUS
  <2> QED
    BY <2>1 DEF FlattenSeq
<1>2. FlattenSeq([k \in DOMAIN <<>> |->
          <<DlgSays(IF mock THEN "mock" ELSE "answer", <<>>[k].action),
            DlgSays("observation", <<>>[k].action)>>]) = <<>>
  <2>1. [k \in DOMAIN <<>> |->
            <<DlgSays(IF mock THEN "mock" ELSE "answer", <<>>[k].action),
              DlgSays("observation", <<>>[k].action)>>] = <<>>
    OBVIOUS
  <2> QED
    BY <2>1 DEF FlattenSeq
<1>3. \A a, b : <<a, b>> \o <<>> = <<a, b>> /\ <<a>> \o <<>> = <<a>>
  OBVIOUS
<1> QED
  BY <1>1, <1>2, <1>3 DEF Spoken, Talk

\* How the exporters would tell what the policy was shown.
Told(m) == DlgTurn(IF m.is = "observation" THEN "human" ELSE "gpt", m.of)
Heard(messages) == [n \in DOMAIN Tail(messages) |-> Told(Tail(messages)[n])]

\* Two more messages are told as two more turns.
LEMMA HeardAppends ==
    ASSUME NEW m \in Seq(Said), m # <<>>, NEW a \in Said, NEW b \in Said
    PROVE  /\ Heard(m) \in Seq(Turn)
           /\ Heard(m \o <<a, b>>) = Heard(m) \o <<Told(a), Told(b)>>
<1> DEFINE t == m \o <<a, b>>
           h == Heard(m) \o <<Told(a), Told(b)>>
           N == Len(m)
<1>1. \A x \in Said : Told(x) \in Turn
  <2> SUFFICES ASSUME NEW x \in Said PROVE Told(x) \in Turn
    OBVIOUS
  <2>1. x.of \in Nat
    BY DEF Said
  <2> QED
    BY <2>1 DEF Told, DlgTurn, Turn
<1>2. N \in Nat \ {0} /\ \A k \in 1 .. N : m[k] \in Said
  OBVIOUS
<1>3. /\ Tail(m) \in Seq(Said) /\ Len(Tail(m)) = N - 1
      /\ \A k \in 1 .. N - 1 : Tail(m)[k] = m[k + 1]
  OBVIOUS
<1>4. /\ Heard(m) \in Seq(Turn) /\ Len(Heard(m)) = N - 1
      /\ \A k \in 1 .. N - 1 : Heard(m)[k] = Told(m[k + 1])
  <2>1. DOMAIN Tail(m) = 1 .. N - 1
    BY <1>3
  <2> HIDE DEF N
  <2> QED
    BY <1>1, <1>2, <1>3, <2>1 DEF Heard
<1>5. /\ t \in Seq(Said) /\ Len(t) = N + 2 /\ t # <<>>
      /\ \A k \in 1 .. N : t[k] = m[k]
      /\ t[N + 1] = a /\ t[N + 2] = b
  BY <1>2
<1> HIDE DEF t
<1>6. /\ Tail(t) \in Seq(Said) /\ Len(Tail(t)) = N + 1
      /\ \A k \in 1 .. N + 1 : Tail(t)[k] = t[k + 1]
  BY <1>5
<1>7. Heard(t) = [k \in 1 .. N + 1 |-> Told(t[k + 1])]
  <2>1. DOMAIN Tail(t) = 1 .. N + 1
    BY <1>6
  <2> HIDE DEF N
  <2> QED
    BY <1>6, <2>1 DEF Heard
<1>8. /\ h \in Seq(Turn) /\ Len(h) = N + 1
      /\ \A k \in 1 .. N - 1 : h[k] = Heard(m)[k]
      /\ h[N] = Told(a) /\ h[N + 1] = Told(b)
  <2>1. Told(a) \in Turn /\ Told(b) \in Turn
    BY <1>1
  <2>2. PICK s \in Seq(Turn), u \in Turn, v \in Turn :
            s = Heard(m) /\ u = Told(a) /\ v = Told(b)
    BY <1>4, <2>1
  <2> HIDE DEF N
  <2>3. Len(s) = N - 1
    BY <1>4, <2>2
  <2>4. /\ s \o <<u, v>> \in Seq(Turn) /\ Len(s \o <<u, v>>) = N + 1
        /\ \A k \in 1 .. N - 1 : (s \o <<u, v>>)[k] = s[k]
        /\ (s \o <<u, v>>)[N] = u /\ (s \o <<u, v>>)[N + 1] = v
    BY <1>2, <2>3
  <2> QED
    BY <2>2, <2>4
<1> HIDE DEF h, N
<1>9. ASSUME NEW k \in 1 .. N + 1 PROVE h[k] = Told(t[k + 1])
  <2>1. CASE k \in 1 .. N - 1
    <3>1. k + 1 \in 1 .. N
      BY <1>2, <2>1
    <3> QED
      BY <1>4, <1>5, <1>8, <2>1, <3>1
  <2>2. CASE k = N
    BY <1>5, <1>8, <2>2
  <2>3. CASE k = N + 1
    <3>1. k + 1 = N + 2
      BY <1>2, <2>3
    <3> QED
      BY <1>5, <1>8, <2>3, <3>1
  <2> QED
    BY <1>2, <2>1, <2>2, <2>3
<1>10. h = [k \in 1 .. N + 1 |-> h[k]]
  BY <1>2, <1>8
<1>11. h = Heard(t)
  BY <1>7, <1>9, <1>10
<1> QED
  BY <1>4, <1>11 DEF h, t

\* A recorded episode, whatever the bounds.
Trajectory ==
    [scenario : DlgScenario, steps : Seq(Step), success : BOOLEAN, shown : Seq(Said)]

\* The types of the dialogue, whatever the bounds.
DlgFits ==
    /\ dlgAt \in {"idle", "ask", "request", "act", "verify", "record"}
    /\ dlgOf \in DlgScenario
    /\ dlgMade \in Nat /\ dlgAttempt \in Nat
    /\ dlgSteps \in Seq(Step) /\ dlgSuccess \in BOOLEAN
    /\ dlgMessages \in Seq(Said) /\ dlgWorking \in Seq(Said) /\ dlgShown \in Seq(Said)
    /\ dlgBuffer \in Seq(Trajectory)

\* Every action is in the second place of its turn.
ActsAt(steps) ==
    \A n \in 1 .. Len(steps) : Talk(steps)[2 * n] = DlgTurn("gpt", steps[n].action)

\* As long as an episode goes on, the policy was told of each of its steps, each had an
\* action and none repaired anything.
Talking(mock, steps, messages) ==
    /\ messages # <<>> /\ messages = Spoken(mock, steps) /\ Talk(steps) = Heard(messages)
    /\ Len(Talk(steps)) = 2 * Len(steps) + 1 /\ ActsAt(steps)
    /\ \A n \in 1 .. Len(steps) : steps[n].action # 0 /\ ~steps[n].rewarded

\* So it is before every request, while one is answered and before every command.
OnGoing ==
    dlgAt \in {"ask", "request", "act"} =>
        /\ Talking(dlgMock, dlgSteps, dlgMessages) /\ ~dlgSuccess
        /\ dlgAt # "ask" => dlgShown = dlgMessages

\* What is said of an episode that ended.
Learnt(steps, shown, success) ==
    /\ steps # <<>>
    /\ Talk(steps) = Heard(shown) \o <<DlgTurn("gpt", steps[Len(steps)].action)>>
    /\ Len(Talk(steps)) = 2 * Len(steps) /\ ActsAt(steps)
    /\ \A n \in 1 .. Len(steps) - 1 : steps[n].action # 0
    /\ (\E n \in 1 .. Len(steps) : steps[n].rewarded) => success

\* It holds from the last step on, whatever the final pass says, and of all that is recorded.
Ended ==
    /\ dlgAt \in {"verify", "record"} => Learnt(dlgSteps, dlgShown, dlgSuccess)
    /\ dlgAt = "verify" => Learnt(dlgSteps, dlgShown, FALSE)
    /\ \A k \in DOMAIN dlgBuffer :
           Learnt(dlgBuffer[k].steps, dlgBuffer[k].shown, dlgBuffer[k].success)

\* The latest action is completion b; those after it were rejected, and the policy told so.
LastActed(b) ==
    /\ \A k \in DOMAIN dlgSteps : dlgSteps[k].action <= b
    /\ b = 0 \/ \E k \in DOMAIN dlgSteps : dlgSteps[k].action = b

\* The attempts since completion b, in the order in which they were rejected.
Repaired(b) ==
    /\ dlgMade - b < dlgAttempt
    /\ Len(dlgWorking) = Len(dlgMessages) + 2 * (dlgMade - b)
    /\ \A k \in 1 .. Len(dlgMessages) : dlgWorking[k] = dlgMessages[k]
    /\ \A n \in b + 1 .. dlgMade :
           /\ dlgWorking[Len(dlgMessages) + 2 * (n - b) - 1] = DlgSays("answer", n)
           /\ dlgWorking[Len(dlgMessages) + 2 * (n - b)] = DlgSays("complaint", n)

\* Which completion was acted on last, at each step of an episode.
Repairing ==
    /\ dlgAt = "ask" => LastActed(dlgMade)
    /\ dlgAt = "request" => \E b \in 0 .. dlgMade : LastActed(b) /\ Repaired(b)
    /\ dlgAt = "act" => \E b \in 0 .. dlgMade - 1 : LastActed(b)

\* The invariant of the dialogue.
DlgInv == DlgFits /\ OnGoing /\ Ended /\ Repairing

\* The turns of a step, and what the policy hears of it.
LEMMA TurnsAre ==
    ASSUME NEW step \in Step
    PROVE  /\ step.done => DlgTurns(step) = <<DlgTurn("gpt", step.action)>>
           /\ ~step.done => DlgTurns(step) = <<DlgTurn("gpt", step.action),
                                               DlgTurn("human", step.action)>>
  BY DEF DlgTurns

\* An exchange is told as the two turns of a step that ends nothing.
LEMMA ExchangeIsTold ==
    ASSUME NEW mock, NEW step \in Step
    PROVE  \E a, b \in Said : /\ Exchange(mock, step) = <<a, b>>
                              /\ Told(a) = DlgTurn("gpt", step.action)
                              /\ Told(b) = DlgTurn("human", step.action)
<1> DEFINE a == DlgSays(IF mock THEN "mock" ELSE "answer", step.action)
           b == DlgSays("observation", step.action)
<1>1. step.action \in Nat
  BY DEF Step
<1>2. a \in Said /\ b \in Said
  BY <1>1 DEF DlgSays, Said
<1>3. Told(a) = DlgTurn("gpt", step.action) /\ Told(b) = DlgTurn("human", step.action)
  BY DEF DlgSays, Told
<1>4. Exchange(mock, step) = <<a, b>>
  BY DEF Exchange
<1> QED
  BY <1>2, <1>3, <1>4

\* What a step adds to the conversation exported, by position.
LEMMA ActsStay ==
    ASSUME NEW steps \in Seq(Step), NEW step \in Step,
           Len(Talk(steps)) = 2 * Len(steps) + 1, ActsAt(steps)
    PROVE  /\ ActsAt(Append(steps, step))
           /\ Len(Talk(Append(steps, step)))
                  = IF step.done THEN 2 * Len(steps) + 2 ELSE 2 * Len(steps) + 3
<1> DEFINE N == Len(steps)
           all == Append(steps, step)
           gpt == DlgTurn("gpt", step.action)
<1>1. /\ Talk(steps) \in Seq(Turn) /\ DlgTurns(step) \in Seq(Turn)
      /\ Talk(all) = Talk(steps) \o DlgTurns(step)
  BY TalkAppends
<1>2. /\ N \in Nat /\ Len(all) = N + 1 /\ all[N + 1] = step
      /\ \A n \in 1 .. N : all[n] = steps[n]
  OBVIOUS
<1>3. DlgTurns(step)[1] = gpt /\ Len(DlgTurns(step)) = IF step.done THEN 1 ELSE 2
  <2>1. CASE step.done
    <3>1. DlgTurns(step) = <<gpt>>
      BY <2>1, TurnsAre
    <3> QED
      BY <2>1, <3>1
  <2>2. CASE ~step.done
    <3>1. DlgTurns(step) = <<gpt, DlgTurn("human", step.action)>>
      BY <2>2, TurnsAre
    <3> QED
      BY <2>2, <3>1
  <2> QED
    BY <2>1, <2>2
<1> HIDE DEF all, gpt, N
<1>4. /\ Len(Talk(all)) = 2 * N + 1 + Len(DlgTurns(step))
      /\ \A k \in 1 .. 2 * N + 1 : Talk(all)[k] = Talk(steps)[k]
      /\ Talk(all)[2 * N + 2] = gpt
  <2>1. Len(Talk(steps)) = 2 * N + 1
    BY DEF N
  <2>2. PICK s \in Seq(Turn), t \in Seq(Turn) : s = Talk(steps) /\ t = DlgTurns(step)
    BY <1>1
  <2>3. Len(s) = 2 * N + 1 /\ Len(t) \in {1, 2} /\ t[1] = gpt /\ Talk(all) = s \o t
    BY <1>1, <1>3, <2>1, <2>2
  <2>4. Len(s \o t) = 2 * N + 1 + Len(t)
    <3>1. Len(s \o t) = Len(s) + Len(t)
      OBVIOUS
    <3> QED
      BY <2>3, <3>1
  <2>5. \A k \in 1 .. 2 * N + 1 : (s \o t)[k] = s[k]
    BY <1>2, <2>3
  <2>6. (s \o t)[2 * N + 2] = t[1]
    BY <1>2, <2>3
  <2> QED
    BY <2>2, <2>3, <2>4, <2>5, <2>6
<1>5. ASSUME NEW n \in 1 .. N + 1
      PROVE  Talk(all)[2 * n] = DlgTurn("gpt", all[n].action)
  <2>1. CASE n \in 1 .. N
    <3>1. 2 * n \in 1 .. 2 * N + 1
      BY <1>2, <2>1
    <3>2. Talk(steps)[2 * n] = DlgTurn("gpt", steps[n].action)
      BY <2>1 DEF ActsAt, N
    <3> QED
      BY <1>2, <1>4, <2>1, <3>1, <3>2
  <2>2. CASE n = N + 1
    <3>1. 2 * n = 2 * N + 2
      BY <1>2, <2>2
    <3> QED
      BY <1>2, <1>4, <2>2, <3>1 DEF gpt
  <2> QED
    BY <1>2, <2>1, <2>2
<1>6. ActsAt(all)
  BY <1>2, <1>5 DEF ActsAt
<1>7. Len(Talk(all)) = IF step.done THEN 2 * N + 2 ELSE 2 * N + 3
  BY <1>2, <1>3, <1>4
<1> QED
  BY <1>6, <1>7 DEF all, N

\* A step that ends nothing: the policy hears what the exporters will tell.
LEMMA TalkGoesOn ==
    ASSUME NEW mock, NEW steps \in Seq(Step), NEW messages \in Seq(Said),
           Talking(mock, steps, messages),
           NEW step \in Step, ~step.done, step.action # 0, ~step.rewarded
    PROVE  Talking(mock, Append(steps, step), messages \o Exchange(mock, step))
<1> DEFINE all == Append(steps, step)
           more == messages \o Exchange(mock, step)
<1>1. PICK a \in Said, b \in Said : /\ Exchange(mock, step) = <<a, b>>
                                    /\ Told(a) = DlgTurn("gpt", step.action)
                                    /\ Told(b) = DlgTurn("human", step.action)
  BY ExchangeIsTold
<1>2. more = Spoken(mock, all)
  BY SpokenAppends DEF Talking
<1>3. messages # <<>>
  BY DEF Talking
<1>4. more # <<>>
  BY <1>1, <1>3
<1>5. Talk(all) = Heard(more)
  <2>1. Talk(all) = Talk(steps) \o DlgTurns(step)
    BY TalkAppends
  <2>2. DlgTurns(step) = <<Told(a), Told(b)>>
    BY <1>1, TurnsAre
  <2>3. Heard(more) = Heard(messages) \o <<Told(a), Told(b)>>
    BY <1>1, <1>3, HeardAppends
  <2>4. Talk(steps) = Heard(messages)
    BY DEF Talking
  <2> HIDE DEF all, more
  <2> QED
    BY <2>1, <2>2, <2>3, <2>4
<1>6. /\ Len(all) = Len(steps) + 1 /\ Len(steps) \in Nat /\ all[Len(steps) + 1] = step
      /\ \A n \in 1 .. Len(steps) : all[n] = steps[n]
  OBVIOUS
<1>7. ActsAt(all) /\ Len(Talk(all)) = 2 * Len(all) + 1
  <2>1. /\ ActsAt(all)
        /\ Len(Talk(all)) = IF step.done THEN 2 * Len(steps) + 2 ELSE 2 * Len(steps) + 3
    BY ActsStay DEF Talking
  <2> HIDE DEF all
  <2> QED
    BY <1>6, <2>1
<1>8. ASSUME NEW n \in 1 .. Len(all) PROVE all[n].action # 0 /\ ~all[n].rewarded
  <2> HIDE DEF all
  <2>1. CASE n = Len(steps) + 1
    BY <1>6, <2>1
  <2>2. CASE n # Len(steps) + 1
    <3>1. n \in 1 .. Len(steps) /\ all[n] = steps[n]
      BY <1>6, <2>2
    <3> QED
      BY <3>1 DEF Talking
  <2> QED
    BY <2>1, <2>2
<1> HIDE DEF all, more
<1>9. Talking(mock, all, more)
  BY <1>2, <1>4, <1>5, <1>7, <1>8 DEF Talking
<1> QED
  BY <1>9 DEF all, more

\* A step that ends the episode.
LEMMA TalkEnds ==
    ASSUME NEW mock, NEW steps \in Seq(Step), NEW messages \in Seq(Said),
           Talking(mock, steps, messages),
           NEW step \in Step, step.done, NEW success \in BOOLEAN, step.rewarded => success
    PROVE  Learnt(Append(steps, step), messages, success)
<1> DEFINE all == Append(steps, step)
<1>1. /\ Len(all) = Len(steps) + 1 /\ Len(steps) \in Nat /\ all[Len(steps) + 1] = step
      /\ \A n \in 1 .. Len(steps) : all[n] = steps[n]
      /\ all # <<>>
  OBVIOUS
<1>2. Talk(all) = Heard(messages) \o <<DlgTurn("gpt", step.action)>>
  BY TalkAppends, TurnsAre DEF Talking
<1>3. /\ ActsAt(all)
      /\ Len(Talk(all)) = IF step.done THEN 2 * Len(steps) + 2 ELSE 2 * Len(steps) + 3
  BY ActsStay DEF Talking
<1> HIDE DEF all
<1>4. Len(Talk(all)) = 2 * Len(all)
  BY <1>1, <1>3
<1>5. \A n \in 1 .. Len(all) - 1 : all[n].action # 0
  BY <1>1 DEF Talking
<1>6. ASSUME NEW n \in 1 .. Len(all), all[n].rewarded PROVE success
  <2>1. CASE n = Len(steps) + 1
    BY <1>1, <1>6, <2>1
  <2>2. CASE n # Len(steps) + 1
    <3>1. n \in 1 .. Len(steps) /\ all[n] = steps[n]
      BY <1>1, <2>2
    <3>2. ~steps[n].rewarded
      BY <3>1 DEF Talking
    <3> QED
      BY <1>6, <3>1, <3>2
  <2> QED
    BY <2>1, <2>2
<1>7. Learnt(all, messages, success)
  BY <1>1, <1>2, <1>3, <1>4, <1>5, <1>6 DEF Learnt
<1> QED
  BY <1>7 DEF all

\* An LLM error ends the episode with a step that is no action.
LEMMA ErrorEnds ==
    ASSUME NEW steps \in Seq(Step), NEW messages \in Seq(Said), NEW mock,
           Talking(mock, steps, messages)
    PROVE  LET error == [action |-> 0, done |-> TRUE, rewarded |-> FALSE]
           IN  /\ Append(steps, error) \in Seq(Step)
               /\ \A success \in BOOLEAN : Learnt(Append(steps, error), messages, success)
<1> DEFINE error == [action |-> 0, done |-> TRUE, rewarded |-> FALSE]
<1>1. error \in Step /\ error.done /\ ~error.rewarded
  BY DEF Step
<1> HIDE DEF error
<1>2. \A success \in BOOLEAN : Learnt(Append(steps, error), messages, success)
  BY <1>1, TalkEnds
<1>3. Append(steps, error) \in Seq(Step)
  BY <1>1
<1> QED
  BY <1>2, <1>3 DEF error

\* What is recorded stays what it was.
LEMMA BufferStays ==
    ASSUME Ended, dlgBuffer' = dlgBuffer
    PROVE  \A k \in DOMAIN dlgBuffer' :
               Learnt(dlgBuffer'[k].steps, dlgBuffer'[k].shown, dlgBuffer'[k].success)
  BY DEF Ended

\* The beginning of an episode, and the requests.
LEMMA BeginKeeps == ASSUME DlgInv, DlgBegin PROVE DlgInv'
<1> DEFINE prompt == DlgSays("prompt", 0)
           fault == DlgSays("observation", 0)
<1>1. /\ dlgMessages' = <<prompt, fault>> /\ dlgSteps' = <<>> /\ dlgMade' = 0
      /\ dlgSuccess' = FALSE /\ dlgAt' = "ask" /\ dlgMock' = dlgMock /\ dlgBuffer' = dlgBuffer
      /\ dlgWorking' = <<>> /\ dlgShown' = <<>> /\ dlgAttempt' = 0 /\ dlgOf' \in DlgScenario
  BY DEF DlgBegin, dlgConfig
<1>2. prompt \in Said /\ fault \in Said /\ Told(fault) = DlgTurn("human", 0)
  BY DEF DlgSays, Said, Told
<1> HIDE DEF prompt, fault
<1>3. <<prompt, fault>> \in Seq(Said) /\ <<>> \in Seq(Said) /\ <<>> \in Seq(Step)
  BY <1>2
<1>4. DlgFits'
  BY <1>1, <1>3 DEF DlgInv, DlgFits
<1>5. Heard(<<prompt, fault>>) = <<Told(fault)>>
  <2>1. Tail(<<prompt, fault>>) = <<fault>>
    BY <1>2
  <2>2. DOMAIN <<fault>> = {1} /\ <<fault>>[1] = fault
    OBVIOUS
  <2>3. Heard(<<prompt, fault>>) = [n \in {1} |-> Told(fault)]
    BY <2>1, <2>2 DEF Heard
  <2>4. <<Told(fault)>> = [n \in {1} |-> Told(fault)]
    OBVIOUS
  <2> QED
    BY <2>3, <2>4
<1>6. /\ Spoken(dlgMock, <<>>) = <<prompt, fault>>
      /\ Talk(<<>>) = <<Told(fault)>>
  BY <1>2, NothingSaid DEF prompt, fault
<1>7. Talking(dlgMock, <<>>, <<prompt, fault>>)
  <2>1. Len(<<>>) = 0 /\ Len(<<Told(fault)>>) = 1 /\ <<prompt, fault>> # <<>>
    OBVIOUS
  <2> QED
    BY <1>5, <1>6, <2>1 DEF Talking, ActsAt
<1>8. OnGoing'
  BY <1>1, <1>7 DEF OnGoing
<1>9. Ended'
  BY <1>1, BufferStays DEF DlgInv, Ended
<1>10. Repairing'
  BY <1>1 DEF Repairing, LastActed
<1> QED
  BY <1>4, <1>8, <1>9, <1>10 DEF DlgInv

\* A request starts, or is answered at once by the mock, or no attempt is allowed.
LEMMA AskKeeps == ASSUME DlgInv, DlgAsk PROVE DlgInv'
<1>1. /\ dlgAt = "ask" /\ dlgShown' = dlgMessages /\ ~dlgSuccess
      /\ UNCHANGED <<dlgMock, dlgOf, dlgMessages, dlgSuccess, dlgBuffer>>
      /\ Talking(dlgMock, dlgSteps, dlgMessages) /\ LastActed(dlgMade)
  BY DEF DlgAsk, DlgInv, OnGoing, Repairing, dlgConfig
<1>2. DlgFits
  BY DEF DlgInv
<1>3. CASE /\ dlgMade' = dlgMade + 1 /\ dlgAt' = "act"
           /\ UNCHANGED <<dlgWorking, dlgAttempt, dlgSteps>>
  <2>1. DlgFits'
    BY <1>1, <1>2, <1>3 DEF DlgFits
  <2>2. OnGoing'
    BY <1>1, <1>3 DEF OnGoing
  <2>3. Ended'
    BY <1>1, <1>3, BufferStays DEF DlgInv, Ended
  <2>4. Repairing'
    <3>1. dlgMade \in 0 .. dlgMade' - 1
      BY <1>2, <1>3 DEF DlgFits
    <3> QED
      BY <1>1, <1>3, <3>1 DEF Repairing, LastActed
  <2> QED
    BY <2>1, <2>2, <2>3, <2>4 DEF DlgInv
<1>4. CASE /\ dlgWorking' = dlgMessages /\ dlgAttempt' = 1 /\ dlgAt' = "request"
           /\ UNCHANGED <<dlgMade, dlgSteps>>
  <2>1. DlgFits'
    BY <1>1, <1>2, <1>4 DEF DlgFits
  <2>2. OnGoing'
    BY <1>1, <1>4 DEF OnGoing
  <2>3. Ended'
    BY <1>1, <1>4, BufferStays DEF DlgInv, Ended
  <2>4. Repairing'
    <3>1. dlgMade \in 0 .. dlgMade' /\ dlgMade' - dlgMade = 0 /\ dlgMade + 1 .. dlgMade' = {}
      BY <1>2, <1>4 DEF DlgFits
    <3>2. Len(dlgMessages) \in Nat
      BY <1>2 DEF DlgFits
    <3>3. LastActed(dlgMade)' /\ dlgMade' = dlgMade
      BY <1>1, <1>4 DEF LastActed
    <3>4. Repaired(dlgMade)'
      BY <1>1, <1>4, <3>1, <3>2 DEF Repaired
    <3> QED
      BY <1>1, <1>4, <3>1, <3>3, <3>4 DEF Repairing, LastActed, Repaired
  <2> QED
    BY <2>1, <2>2, <2>3, <2>4 DEF DlgInv
<1>5. CASE DlgRecordError /\ UNCHANGED <<dlgWorking, dlgAttempt, dlgMade>>
  <2>1. /\ dlgSteps' = Append(dlgSteps, [action |-> 0, done |-> TRUE, rewarded |-> FALSE])
        /\ dlgAt' = "verify" /\ UNCHANGED <<dlgWorking, dlgAttempt, dlgMade>>
    BY <1>5 DEF DlgRecordError
  <2>2. /\ dlgSteps' \in Seq(Step)
        /\ \A success \in BOOLEAN : Learnt(dlgSteps', dlgMessages, success)
    BY <1>1, <1>2, <2>1, ErrorEnds DEF DlgFits
  <2>3. DlgFits'
    BY <1>1, <1>2, <2>1, <2>2 DEF DlgFits
  <2>4. OnGoing' /\ Repairing'
    BY <2>1 DEF OnGoing, Repairing
  <2>5. Ended'
    BY <1>1, <1>2, <2>1, <2>2, BufferStays DEF DlgInv, DlgFits, Ended
  <2> QED
    BY <2>3, <2>4, <2>5 DEF DlgInv
<1> QED
  BY <1>3, <1>4, <1>5 DEF DlgAsk

\* An answer that parses.
LEMMA AnswerKeeps == ASSUME DlgInv, DlgAnswer PROVE DlgInv'
<1>1. /\ dlgAt = "request" /\ dlgAt' = "act" /\ dlgMade' = dlgMade + 1
      /\ UNCHANGED <<dlgMock, dlgOf, dlgMessages, dlgWorking, dlgAttempt, dlgSteps, dlgSuccess,
                     dlgShown, dlgBuffer>>
  BY DEF DlgAnswer, dlgConfig
<1>2. DlgFits' /\ dlgMade \in Nat
  BY <1>1 DEF DlgInv, DlgFits
<1>3. OnGoing'
  BY <1>1 DEF DlgInv, OnGoing
<1>4. Ended'
  BY <1>1, BufferStays DEF DlgInv, Ended
<1>5. Repairing'
  <2>1. PICK b \in 0 .. dlgMade : LastActed(b)
    BY <1>1 DEF DlgInv, Repairing
  <2>2. b \in 0 .. dlgMade' - 1
    BY <1>1, <1>2
  <2> QED
    BY <1>1, <2>1, <2>2 DEF Repairing, LastActed
<1> QED
  BY <1>2, <1>3, <1>4, <1>5 DEF DlgInv

\* An attempt that gives no action, the last one or not.
LEMMA LastAttemptKeeps ==
    ASSUME DlgInv, dlgAt = "request", DlgRecordError, dlgMade' \in Nat,
           UNCHANGED <<dlgMock, dlgOf, dlgMessages, dlgWorking, dlgAttempt, dlgSuccess,
                       dlgShown, dlgBuffer>>
    PROVE  DlgInv'
<1>1. /\ dlgShown = dlgMessages /\ ~dlgSuccess
      /\ Talking(dlgMock, dlgSteps, dlgMessages) /\ DlgFits
  BY DEF DlgInv, OnGoing
<1>2. /\ dlgSteps' = Append(dlgSteps, [action |-> 0, done |-> TRUE, rewarded |-> FALSE])
      /\ dlgAt' = "verify"
  BY DEF DlgRecordError
<1>3. /\ dlgSteps' \in Seq(Step)
      /\ \A success \in BOOLEAN : Learnt(dlgSteps', dlgMessages, success)
  BY <1>1, <1>2, ErrorEnds DEF DlgFits
<1>4. DlgFits'
  BY <1>1, <1>2, <1>3 DEF DlgFits
<1>5. OnGoing' /\ Repairing'
  BY <1>2 DEF OnGoing, Repairing
<1>6. Ended'
  BY <1>1, <1>2, <1>3, BufferStays DEF DlgInv, DlgFits, Ended
<1> QED
  BY <1>4, <1>5, <1>6 DEF DlgInv

\* An answer that does not: one more repair at the end of the request.
LEMMA MalformedKeeps == ASSUME DlgInv, DlgMalformed PROVE DlgInv'
<1>1. /\ dlgAt = "request" /\ dlgMade' = dlgMade + 1
      /\ UNCHANGED <<dlgMock, dlgOf, dlgMessages, dlgSuccess, dlgShown, dlgBuffer>>
  BY DEF DlgMalformed, dlgConfig
<1>2. DlgFits
  BY DEF DlgInv
<1>3. CASE DlgRecordError /\ UNCHANGED <<dlgWorking, dlgAttempt>>
  <2>1. dlgMade' \in Nat
    BY <1>1, <1>2 DEF DlgFits
  <2> QED
    BY <1>1, <1>3, <2>1, LastAttemptKeeps
<1>4. CASE /\ dlgWorking' = dlgWorking \o DlgComplaint /\ dlgAttempt' = dlgAttempt + 1
           /\ UNCHANGED <<dlgSteps, dlgAt>>
  <2> DEFINE answer == DlgSays("answer", dlgMade + 1)
             complaint == DlgSays("complaint", dlgMade + 1)
             W == Len(dlgWorking)
             M == Len(dlgMessages)
  <2>1. /\ W \in Nat /\ M \in Nat /\ dlgMade \in Nat /\ dlgAttempt \in Nat
        /\ answer \in Said /\ complaint \in Said /\ dlgWorking \in Seq(Said)
    BY <1>2 DEF DlgFits, DlgSays, Said
  <2>2. DlgComplaint = <<answer, complaint>>
    BY DEF DlgComplaint
  <2> HIDE DEF answer, complaint
  <2>3. /\ dlgWorking' \in Seq(Said) /\ Len(dlgWorking') = W + 2
        /\ \A k \in 1 .. W : dlgWorking'[k] = dlgWorking[k]
        /\ dlgWorking'[W + 1] = answer /\ dlgWorking'[W + 2] = complaint
    BY <1>4, <2>1, <2>2
  <2>4. DlgFits'
    BY <1>1, <1>2, <1>4, <2>3 DEF DlgFits
  <2>5. OnGoing'
    BY <1>1, <1>4 DEF DlgInv, OnGoing
  <2>6. Ended'
    BY <1>1, <1>4, BufferStays DEF DlgInv, Ended
  <2>7. PICK b \in 0 .. dlgMade : LastActed(b) /\ Repaired(b)
    BY <1>1 DEF DlgInv, Repairing
  <2>8. /\ dlgMade - b < dlgAttempt /\ W = M + 2 * (dlgMade - b)
        /\ \A k \in 1 .. M : dlgWorking[k] = dlgMessages[k]
    BY <2>7 DEF Repaired
  <2> HIDE DEF W, M
  <2>9. /\ dlgMade' - b < dlgAttempt' /\ Len(dlgWorking') = M + 2 * (dlgMade' - b)
        /\ \A k \in 1 .. M : dlgWorking'[k] = dlgMessages[k]
    BY <1>1, <1>4, <2>1, <2>3, <2>8
  <2>10. ASSUME NEW n \in b + 1 .. dlgMade'
         PROVE  /\ dlgWorking'[M + 2 * (n - b) - 1] = DlgSays("answer", n)
                /\ dlgWorking'[M + 2 * (n - b)] = DlgSays("complaint", n)
    <3>1. CASE n = dlgMade + 1
      <4>1. M + 2 * (n - b) - 1 = W + 1 /\ M + 2 * (n - b) = W + 2
        BY <2>1, <2>8, <3>1
      <4> QED
        BY <2>3, <3>1, <4>1 DEF answer, complaint
    <3>2. CASE n # dlgMade + 1
      <4>1. n \in b + 1 .. dlgMade
        BY <1>1, <2>1, <3>2
      <4>2. M + 2 * (n - b) - 1 \in 1 .. W /\ M + 2 * (n - b) \in 1 .. W
        BY <2>1, <2>8, <4>1
      <4>3. /\ dlgWorking[M + 2 * (n - b) - 1] = DlgSays("answer", n)
            /\ dlgWorking[M + 2 * (n - b)] = DlgSays("complaint", n)
        BY <2>7, <4>1 DEF Repaired, M
      <4> QED
        BY <2>3, <4>2, <4>3
    <3> QED
      BY <3>1, <3>2
  <2>11. Repaired(b)' /\ LastActed(b)'
    BY <1>1, <1>4, <2>7, <2>9, <2>10 DEF Repaired, LastActed, M
  <2>12. b \in 0 .. dlgMade'
    BY <1>1, <2>1
  <2>13. Repairing'
    BY <1>1, <1>4, <2>11, <2>12 DEF Repairing
  <2> QED
    BY <2>4, <2>5, <2>6, <2>13 DEF DlgInv
<1> QED
  BY <1>3, <1>4 DEF DlgMalformed

\* An error of the connection: the request is the same.
LEMMA ConnectionErrorKeeps == ASSUME DlgInv, DlgConnectionError PROVE DlgInv'
<1>1. /\ dlgAt = "request" /\ dlgMade' = dlgMade
      /\ UNCHANGED <<dlgMock, dlgOf, dlgMessages, dlgWorking, dlgSuccess, dlgShown, dlgBuffer>>
  BY DEF DlgConnectionError, dlgConfig
<1>2. DlgFits
  BY DEF DlgInv
<1>3. CASE DlgRecordError /\ UNCHANGED dlgAttempt
  <2>1. dlgMade' \in Nat
    BY <1>1, <1>2 DEF DlgFits
  <2> QED
    BY <1>1, <1>3, <2>1, LastAttemptKeeps
<1>4. CASE dlgAttempt' = dlgAttempt + 1 /\ UNCHANGED <<dlgSteps, dlgAt>>
  <2>1. DlgFits'
    BY <1>1, <1>2, <1>4 DEF DlgFits
  <2>2. OnGoing'
    BY <1>1, <1>4 DEF DlgInv, OnGoing
  <2>3. Ended'
    BY <1>1, <1>4, BufferStays DEF DlgInv, Ended
  <2>4. PICK b \in 0 .. dlgMade : LastActed(b) /\ Repaired(b)
    BY <1>1 DEF DlgInv, Repairing
  <2>5. dlgMade' - b < dlgAttempt'
    BY <1>1, <1>2, <1>4, <2>4 DEF Repaired, DlgFits
  <2>6. Repaired(b)' /\ LastActed(b)'
    BY <1>1, <1>4, <2>4, <2>5 DEF Repaired, LastActed
  <2>7. Repairing'
    BY <1>1, <1>4, <2>4, <2>6 DEF Repairing
  <2> QED
    BY <2>1, <2>2, <2>3, <2>7 DEF DlgInv
<1> QED
  BY <1>3, <1>4 DEF DlgConnectionError

\* A step of the episode.
LEMMA ActKeeps == ASSUME DlgInv, DlgAct PROVE DlgInv'
<1>1. /\ dlgAt = "act" /\ ~dlgSuccess /\ dlgShown = dlgMessages
      /\ Talking(dlgMock, dlgSteps, dlgMessages) /\ DlgFits
      /\ UNCHANGED <<dlgMock, dlgOf, dlgWorking, dlgAttempt, dlgMade, dlgShown, dlgBuffer>>
  BY DEF DlgAct, DlgInv, OnGoing, dlgConfig
<1>2. PICK b \in 0 .. dlgMade - 1 : LastActed(b)
  BY <1>1 DEF DlgInv, Repairing
<1>3. dlgMade \in Nat \ {0} /\ b \in Nat /\ b < dlgMade
  BY <1>1 DEF DlgFits
<1>4. PICK verified \in BOOLEAN, isDone \in BOOLEAN :
          LET done == DlgLastStep(verified, isDone)
          IN  /\ dlgSteps' = Append(dlgSteps,
                               [action |-> dlgMade, done |-> done, rewarded |-> verified])
              /\ dlgSuccess' = (dlgSuccess \/ verified)
              /\ IF done
                 THEN /\ dlgAt' = IF dlgSuccess' THEN "record" ELSE "verify"
                      /\ UNCHANGED dlgMessages
                 ELSE /\ dlgAt' = "ask"
                      /\ dlgMessages' = dlgMessages \o
                             <<DlgSays(IF dlgMock THEN "mock" ELSE "answer", dlgMade),
                               DlgSays("observation", dlgMade)>>
  BY DEF DlgAct
<1> DEFINE done == DlgLastStep(verified, isDone)
           step == [action |-> dlgMade, done |-> done, rewarded |-> verified]
<1>5. done \in BOOLEAN /\ (verified => done)
  BY DEF DlgLastStep
<1>6. dlgSteps' = Append(dlgSteps, step) /\ dlgSuccess' = verified
  BY <1>1, <1>4
<1>7. /\ done => /\ dlgAt' = IF dlgSuccess' THEN "record" ELSE "verify"
                 /\ dlgMessages' = dlgMessages
      /\ ~done => /\ dlgAt' = "ask"
                  /\ dlgMessages' = dlgMessages \o
                         <<DlgSays(IF dlgMock THEN "mock" ELSE "answer", dlgMade),
                           DlgSays("observation", dlgMade)>>
  BY <1>4
<1> HIDE DEF done
<1>8. step \in Step /\ step.action = dlgMade
  BY <1>3, <1>5 DEF Step
<1>9. (step.done <=> done) /\ (step.rewarded <=> verified)
  BY <1>5
<1>10. Exchange(dlgMock, step) = <<DlgSays(IF dlgMock THEN "mock" ELSE "answer", dlgMade),
                                   DlgSays("observation", dlgMade)>>
  BY <1>8 DEF Exchange
<1> HIDE DEF step
<1>11. dlgSteps \in Seq(Step) /\ dlgMessages \in Seq(Said) /\ dlgSteps' \in Seq(Step)
  BY <1>1, <1>6, <1>8 DEF DlgFits
<1>12. CASE done
  <2>1. Learnt(dlgSteps', dlgMessages, verified)
    BY <1>1, <1>6, <1>8, <1>9, <1>11, <1>12, TalkEnds
  <2>2. DlgFits'
    BY <1>1, <1>6, <1>7, <1>11, <1>12 DEF DlgFits
  <2>3. OnGoing' /\ Repairing'
    BY <1>7, <1>12 DEF OnGoing, Repairing
  <2>4. dlgAt' = "verify" => verified = FALSE
    BY <1>6, <1>7, <1>12
  <2>5. Ended'
    BY <1>1, <1>6, <1>7, <1>12, <2>1, <2>4, BufferStays DEF DlgInv, Ended
  <2> QED
    BY <2>2, <2>3, <2>5 DEF DlgInv
<1>13. CASE ~done
  <2>1. dlgMessages' = dlgMessages \o Exchange(dlgMock, step) /\ dlgAt' = "ask"
    BY <1>7, <1>10, <1>13
  <2>2. Talking(dlgMock, dlgSteps', dlgMessages')
    BY <1>1, <1>3, <1>5, <1>6, <1>8, <1>9, <1>11, <1>13, <2>1, TalkGoesOn
  <2>3. dlgMessages' \in Seq(Said)
    <3>1. Exchange(dlgMock, step) \in Seq(Said)
      BY <1>8, <1>11, SpokenAppends
    <3> QED
      BY <1>11, <2>1, <3>1
  <2>4. DlgFits'
    BY <1>1, <1>6, <1>11, <2>1, <2>3 DEF DlgFits
  <2>5. OnGoing'
    BY <1>1, <1>5, <1>6, <1>13, <2>1, <2>2 DEF OnGoing
  <2>6. Ended'
    BY <1>1, <2>1, BufferStays DEF DlgInv, Ended
  <2>7. Repairing'
    <3>1. /\ Len(dlgSteps') = Len(dlgSteps) + 1 /\ Len(dlgSteps) \in Nat
          /\ \A k \in 1 .. Len(dlgSteps) : dlgSteps'[k] = dlgSteps[k]
          /\ dlgSteps'[Len(dlgSteps) + 1] = step
          /\ DOMAIN dlgSteps = 1 .. Len(dlgSteps) /\ DOMAIN dlgSteps' = 1 .. Len(dlgSteps) + 1
      BY <1>6, <1>8, <1>11
    <3>2. ASSUME NEW k \in DOMAIN dlgSteps' PROVE dlgSteps'[k].action <= dlgMade
      <4>1. CASE k \in 1 .. Len(dlgSteps)
        <5>1. dlgSteps[k] \in Step /\ dlgSteps[k].action <= b
          BY <1>2, <1>11, <3>1, <4>1 DEF LastActed
        <5>2. dlgSteps[k].action \in Nat
          BY <5>1 DEF Step
        <5> QED
          BY <1>3, <3>1, <4>1, <5>1, <5>2
      <4>2. CASE k = Len(dlgSteps) + 1
        BY <1>3, <1>8, <3>1, <4>2
      <4> QED
        BY <3>1, <3>2, <4>1, <4>2
    <3>3. \E k \in DOMAIN dlgSteps' : dlgSteps'[k].action = dlgMade
      BY <1>8, <3>1
    <3> QED
      BY <1>1, <2>1, <3>2, <3>3 DEF Repairing, LastActed
  <2> QED
    BY <2>4, <2>5, <2>6, <2>7 DEF DlgInv
<1> QED
  BY <1>12, <1>13

\* The end of an episode.
LEMMA FinalVerifyKeeps == ASSUME DlgInv, DlgFinalVerify PROVE DlgInv'
<1>1. /\ dlgAt = "verify" /\ dlgAt' = "record" /\ dlgSuccess' \in BOOLEAN
      /\ UNCHANGED <<dlgMock, dlgOf, dlgMessages, dlgWorking, dlgAttempt, dlgMade, dlgSteps,
                     dlgShown, dlgBuffer>>
  BY DEF DlgFinalVerify, dlgConfig
<1>2. DlgFits'
  BY <1>1 DEF DlgInv, DlgFits
<1>3. OnGoing' /\ Repairing'
  BY <1>1 DEF OnGoing, Repairing
<1>4. Learnt(dlgSteps, dlgShown, FALSE)
  BY <1>1 DEF DlgInv, Ended
<1>5. \A success \in BOOLEAN : Learnt(dlgSteps, dlgShown, success)
  BY <1>4 DEF Learnt
<1>6. Ended'
  BY <1>1, <1>5, BufferStays DEF DlgInv, Ended
<1> QED
  BY <1>2, <1>3, <1>6 DEF DlgInv

\* What is recorded is what was just said of the episode.
LEMMA RecordKeeps == ASSUME DlgInv, DlgRecord PROVE DlgInv'
<1> DEFINE t == [scenario |-> dlgOf, steps |-> dlgSteps, success |-> dlgSuccess,
                 shown |-> dlgShown]
<1>1. /\ dlgAt = "record" /\ dlgAt' = "idle" /\ dlgBuffer' = Append(dlgBuffer, t)
      /\ UNCHANGED <<dlgMock, dlgOf, dlgMessages, dlgWorking, dlgAttempt, dlgMade, dlgSteps,
                     dlgSuccess, dlgShown>>
  BY DEF DlgRecord, dlgConfig
<1>2. DlgFits /\ Ended
  BY DEF DlgInv
<1>3. t \in Trajectory
  BY <1>2 DEF DlgFits, Trajectory
<1>4. t.steps = dlgSteps /\ t.shown = dlgShown
  OBVIOUS
<1>5. t.success = dlgSuccess
  OBVIOUS
<1>6. Learnt(t.steps, t.shown, t.success)
  BY <1>1, <1>2, <1>4, <1>5 DEF Ended
<1> HIDE DEF t
<1>7. dlgBuffer \in Seq(Trajectory)
  BY <1>2 DEF DlgFits
<1>8. /\ dlgBuffer' \in Seq(Trajectory)
      /\ DOMAIN dlgBuffer' = 1 .. Len(dlgBuffer) + 1 /\ DOMAIN dlgBuffer = 1 .. Len(dlgBuffer)
      /\ \A k \in 1 .. Len(dlgBuffer) : dlgBuffer'[k] = dlgBuffer[k]
      /\ dlgBuffer'[Len(dlgBuffer) + 1] = t /\ Len(dlgBuffer) \in Nat
  BY <1>1, <1>3, <1>7
<1>9. DlgFits'
  BY <1>1, <1>2, <1>8 DEF DlgFits
<1>10. OnGoing' /\ Repairing'
  BY <1>1 DEF OnGoing, Repairing
<1>11. ASSUME NEW k \in DOMAIN dlgBuffer'
       PROVE  Learnt(dlgBuffer'[k].steps, dlgBuffer'[k].shown, dlgBuffer'[k].success)
  <2>1. CASE k = Len(dlgBuffer) + 1
    BY <1>6, <1>8, <2>1
  <2>2. CASE k # Len(dlgBuffer) + 1
    <3>1. k \in DOMAIN dlgBuffer /\ dlgBuffer'[k] = dlgBuffer[k]
      BY <1>8, <2>2
    <3> QED
      BY <1>2, <3>1 DEF Ended
  <2> QED
    BY <2>1, <2>2
<1>12. Ended'
  BY <1>1, <1>11 DEF Ended
<1> QED
  BY <1>9, <1>10, <1>12 DEF DlgInv

\* Every step of an episode keeps the invariant.
LEMMA DlgInvStep == ASSUME DlgInv, [DlgNext]_dlgVars PROVE DlgInv'
<1>1. CASE DlgAbort
  <2>1. /\ dlgAt' = "idle"
        /\ UNCHANGED <<dlgMock, dlgOf, dlgMessages, dlgWorking, dlgAttempt, dlgMade, dlgSteps,
                       dlgSuccess, dlgShown, dlgBuffer>>
    BY <1>1 DEF DlgAbort, dlgConfig
  <2>2. DlgFits'
    BY <2>1 DEF DlgInv, DlgFits
  <2>3. OnGoing' /\ Repairing'
    BY <2>1 DEF OnGoing, Repairing
  <2>4. Ended'
    BY <2>1, BufferStays DEF DlgInv, Ended
  <2> QED
    BY <2>2, <2>3, <2>4 DEF DlgInv
<1>2. CASE UNCHANGED dlgVars
  <2>1. UNCHANGED <<dlgMock, dlgOf, dlgMessages, dlgWorking, dlgAttempt, dlgMade, dlgSteps,
                    dlgSuccess, dlgShown, dlgBuffer, dlgAt>>
    BY <1>2 DEF dlgVars, dlgConfig
  <2>2. DlgFits'
    BY <2>1 DEF DlgInv, DlgFits
  <2>3. OnGoing'
    BY <2>1 DEF DlgInv, OnGoing
  <2>4. Ended'
    BY <2>1 DEF DlgInv, Ended
  <2>5. Repairing'
    BY <2>1 DEF DlgInv, Repairing, LastActed, Repaired
  <2> QED
    BY <2>2, <2>3, <2>4, <2>5 DEF DlgInv
<1> QED
  BY <1>1, <1>2, BeginKeeps, AskKeeps, AnswerKeeps, MalformedKeeps, ConnectionErrorKeeps,
     ActKeeps, FinalVerifyKeeps, RecordKeeps DEF DlgNext

\* Two neighbours in a sequence.
LEMMA PairAt ==
    ASSUME NEW S, NEW s \in Seq(S), NEW k \in 1 .. Len(s) - 1
    PROVE  SubSeq(s, k, k + 1) = <<s[k], s[k + 1]>>
<1>1. Len(s) \in Nat /\ k \in Nat /\ k + 1 - k + 1 = 2 /\ k - 1 + 1 = k /\ k - 1 + 2 = k + 1
  OBVIOUS
<1>2. SubSeq(s, k, k + 1) = [i \in 1 .. 2 |-> s[k - 1 + i]]
  BY <1>1
<1>3. \A i \in 1 .. 2 : s[k - 1 + i] = <<s[k], s[k + 1]>>[i]
  <2>1. \A i \in 1 .. 2 : i = 1 \/ i = 2
    OBVIOUS
  <2> QED
    BY <1>1, <2>1
<1>4. <<s[k], s[k + 1]>> = [i \in 1 .. 2 |-> <<s[k], s[k + 1]>>[i]]
  OBVIOUS
<1> QED
  BY <1>2, <1>3, <1>4

\* The requests of an episode.
LEMMA DlgInvRequests == ASSUME DlgInv PROVE RequestsAreDialogues
<1> SUFFICES ASSUME dlgAt = "request" PROVE RequestsAreDialogues
  BY DEF RequestsAreDialogues
<1> DEFINE M == Len(dlgMessages)
           W == Len(dlgWorking)
           repairs == SubSeq(dlgWorking, M + 1, W)
           rejected == {n \in 1 .. dlgMade : \A k \in DOMAIN dlgSteps : dlgSteps[k].action < n}
<1>1. /\ dlgMade \in Nat /\ dlgAttempt \in Nat /\ dlgSteps \in Seq(Step)
      /\ dlgMessages \in Seq(Said) /\ dlgWorking \in Seq(Said) /\ M \in Nat /\ W \in Nat
  BY DEF DlgInv, DlgFits
<1>2. Dialogue(dlgSteps) = dlgMessages
  <2>1. Talking(dlgMock, dlgSteps, dlgMessages)
    BY DEF DlgInv, OnGoing
  <2> QED
    BY <2>1 DEF Talking, Dialogue, Spoken
<1>3. PICK b \in 0 .. dlgMade : LastActed(b) /\ Repaired(b)
  BY DEF DlgInv, Repairing
<1>4. /\ dlgMade - b < dlgAttempt /\ W = M + 2 * (dlgMade - b)
      /\ \A k \in 1 .. M : dlgWorking[k] = dlgMessages[k]
      /\ \A n \in b + 1 .. dlgMade :
             /\ dlgWorking[M + 2 * (n - b) - 1] = DlgSays("answer", n)
             /\ dlgWorking[M + 2 * (n - b)] = DlgSays("complaint", n)
  BY <1>3 DEF Repaired
<1>5. IsPrefix(dlgMessages, dlgWorking)
  <2>1. M <= W
    BY <1>1, <1>4
  <2>2. /\ SubSeq(dlgMessages, 1, M) = [i \in 1 .. M |-> dlgMessages[i]]
        /\ SubSeq(dlgWorking, 1, M) = [i \in 1 .. M |-> dlgWorking[i]]
    <3> HIDE DEF M
    <3> QED
      BY <1>1
  <2>3. SubSeq(dlgMessages, 1, M) = SubSeq(dlgWorking, 1, M)
    BY <1>4, <2>2
  <2> QED
    BY <2>1, <2>3 DEF IsPrefix
<1>6. rejected = b + 1 .. dlgMade
  <2>1. \A k \in DOMAIN dlgSteps : dlgSteps[k].action \in Nat
    <3>1. \A k \in DOMAIN dlgSteps : dlgSteps[k] \in Step
      BY <1>1
    <3> QED
      BY <3>1 DEF Step
  <2>2. /\ \A k \in DOMAIN dlgSteps : dlgSteps[k].action <= b
        /\ b = 0 \/ \E k \in DOMAIN dlgSteps : dlgSteps[k].action = b
    BY <1>3 DEF LastActed
  <2>3. ASSUME NEW n \in rejected PROVE n \in b + 1 .. dlgMade
    BY <1>1, <2>2
  <2>4. ASSUME NEW n \in b + 1 .. dlgMade PROVE n \in rejected
    BY <1>1, <2>1, <2>2
  <2> QED
    BY <2>3, <2>4
<1>7. Cardinality(rejected) = dlgMade - b
  <2>1. b + 1 \in Int /\ dlgMade \in Int
    BY <1>1
  <2>2. Cardinality(b + 1 .. dlgMade)
            = IF b + 1 > dlgMade THEN 0 ELSE dlgMade - (b + 1) + 1
    BY <2>1, FS_Interval
  <2> HIDE DEF rejected
  <2> QED
    BY <1>1, <1>6, <2>2
<1>8. /\ repairs \in Seq(Said) /\ Len(repairs) = 2 * (dlgMade - b)
      /\ \A i \in 1 .. 2 * (dlgMade - b) : repairs[i] = dlgWorking[M + i]
  <2>1. PICK d \in Nat : d = 2 * (dlgMade - b) /\ W = M + d
    BY <1>1, <1>4
  <2>2. /\ repairs \in Seq(Said) /\ Len(repairs) = d
        /\ \A i \in 1 .. d : repairs[i] = dlgWorking[M + i]
    <3> HIDE DEF M
    <3>1. M + 1 - 1 = M /\ W - (M + 1) + 1 = d
      BY <1>1, <2>1
    <3> QED
      BY <1>1, <2>1, <3>1
  <2> QED
    BY <2>1, <2>2
<1> HIDE DEF M, W, repairs, rejected
<1>9. ASSUME NEW n \in rejected
      PROVE  \E k \in 1 .. Len(repairs) - 1 :
                 SubSeq(repairs, k, k + 1) = <<DlgSays("answer", n), DlgSays("complaint", n)>>
  <2>1. n \in b + 1 .. dlgMade /\ n \in Nat
    BY <1>1, <1>6
  <2>2. PICK k : k = 2 * (n - b) - 1
    OBVIOUS
  <2>3. /\ k \in 1 .. Len(repairs) - 1 /\ k + 1 \in 1 .. 2 * (dlgMade - b)
        /\ k \in 1 .. 2 * (dlgMade - b)
        /\ M + k = M + 2 * (n - b) - 1 /\ M + (k + 1) = M + 2 * (n - b)
    BY <1>1, <1>8, <2>1, <2>2
  <2>4. repairs[k] = DlgSays("answer", n) /\ repairs[k + 1] = DlgSays("complaint", n)
    BY <1>4, <1>8, <2>1, <2>3
  <2>5. SubSeq(repairs, k, k + 1) = <<repairs[k], repairs[k + 1]>>
    BY <1>8, <2>3, PairAt
  <2> QED
    BY <2>3, <2>4, <2>5
<1>10. /\ Len(repairs) = 2 * Cardinality(rejected) /\ Cardinality(rejected) < dlgAttempt
  BY <1>4, <1>7, <1>8
<1> QED
  BY <1>2, <1>5, <1>9, <1>10 DEF RequestsAreDialogues, M, W, repairs, rejected

\* The conversations and the samples exported.
LEMMA DlgInvConversations == ASSUME DlgInv PROVE ConversationsHappened
<1> SUFFICES ASSUME NEW k \in DOMAIN dlgBuffer
             PROVE  LET t == dlgBuffer[k]
                        c == export_unsloth_sharegpt(FALSE)[k]
                        turns == Tail(t.shown)
                        sample == export_trl_grpo[k]
                    IN  /\ c = [n \in DOMAIN turns |->
                                   DlgTurn(IF turns[n].is = "observation"
                                           THEN "human" ELSE "gpt", turns[n].of)]
                               \o <<DlgTurn("gpt", Last(t.steps).action)>>
                        /\ \A n \in 1 .. Len(t.steps) - 1 : t.steps[n].action # 0
                        /\ t.success <=> k \in DOMAIN export_unsloth_sharegpt(TRUE)
                        /\ Len(c) = 2 * Len(sample.actions)
                        /\ \A n \in DOMAIN sample.actions :
                               c[2 * n] = DlgTurn("gpt", sample.actions[n])
                        /\ sample.reward => sample.success
  BY DEF ConversationsHappened
<1> DEFINE t == dlgBuffer[k]
           sample == export_trl_grpo[k]
           steps == t.steps
           actions == [n \in DOMAIN steps |-> steps[n].action]
           reward == \E n \in DOMAIN steps : steps[n].rewarded
<1>1. t \in Trajectory /\ Learnt(steps, t.shown, t.success)
  BY DEF DlgInv, DlgFits, Ended
<1>2. steps \in Seq(Step) /\ t.success \in BOOLEAN /\ steps # <<>>
  BY <1>1 DEF Trajectory, Learnt
<1>3. export_unsloth_sharegpt(FALSE)[k] = Talk(steps)
  BY DEF export_unsloth_sharegpt, DlgConversation, Talk
<1>4. k \in DOMAIN export_unsloth_sharegpt(TRUE) <=> t.success
  BY DEF export_unsloth_sharegpt, get_successful
<1>5. sample = [actions |-> actions, reward |-> reward, success |-> t.success]
  BY <1>2 DEF export_trl_grpo
<1>6. sample.actions = actions
  BY <1>5
<1>7. (sample.reward <=> reward) /\ (sample.success <=> t.success)
  <2> HIDE DEF sample, reward
  <2> QED
    BY <1>5, Zenon
<1>8. DOMAIN steps = 1 .. Len(steps) /\ Len(steps) \in Nat
  BY <1>2
<1>9. DOMAIN actions = 1 .. Len(steps) /\ Len(actions) = Len(steps)
  BY <1>8
<1>10. \A n \in DOMAIN actions : Talk(steps)[2 * n] = DlgTurn("gpt", actions[n])
  BY <1>1, <1>8 DEF Learnt, ActsAt
<1>11. reward => t.success
  BY <1>1, <1>8 DEF Learnt
<1>12. Talk(steps) = [n \in DOMAIN Tail(t.shown) |->
                         DlgTurn(IF Tail(t.shown)[n].is = "observation"
                                 THEN "human" ELSE "gpt",
                                 Tail(t.shown)[n].of)]
                     \o <<DlgTurn("gpt", Last(steps).action)>>
  BY <1>1 DEF Learnt, Heard, Told, Last
<1>13. \A n \in 1 .. Len(steps) - 1 : steps[n].action # 0
  BY <1>1 DEF Learnt
<1>14. Len(Talk(steps)) = 2 * Len(steps)
  BY <1>1 DEF Learnt
<1>15. sample.reward => sample.success
  <2> HIDE DEF sample, reward, t
  <2> QED
    BY <1>7, <1>11, Zenon
<1>16. Len(Talk(steps)) = 2 * Len(sample.actions)
  BY <1>6, <1>9, <1>14
<1>17. \A n \in DOMAIN sample.actions : Talk(steps)[2 * n] = DlgTurn("gpt", sample.actions[n])
  BY <1>6, <1>10
<1> QED
  BY <1>3, <1>4, <1>12, <1>13, <1>15, <1>16, <1>17, Zenon

\* The preference pairs.
LEMMA DlgInvPreferences == ASSUME DlgInv PROVE PreferencesAreComparable
<1> DEFINE good(s) == {k \in DOMAIN dlgBuffer : dlgBuffer[k].scenario = s
                                                  /\ dlgBuffer[k].success = TRUE}
           bad(s) == {k \in DOMAIN dlgBuffer : dlgBuffer[k].scenario = s
                                                 /\ dlgBuffer[k].success = FALSE}
           pairs(s) == good(s) \X (IF bad(s) = {} THEN {0} ELSE bad(s))
<1>1. ASSUME NEW k \in DOMAIN dlgBuffer
      PROVE  /\ k # 0 /\ dlgBuffer[k].scenario \in DlgScenario
             /\ dlgBuffer[k].success \in BOOLEAN
  <2>1. dlgBuffer \in Seq(Trajectory)
    BY DEF DlgInv, DlgFits
  <2>2. k \in Nat \ {0} /\ dlgBuffer[k] \in Trajectory
    BY <2>1
  <2> QED
    BY <2>2 DEF Trajectory
<1>2. /\ \A s \in DlgScenario : DlgByScenario(TRUE)[s] = good(s)
      /\ \A s \in DlgScenario : DlgRejectedFor(s) = bad(s)
  BY DEF DlgByScenario, DlgRejectedFor
<1>3. export_trl_dpo = UNION {pairs(s) : s \in DlgScenario}
  <2> HIDE DEF good, bad
  <2> QED
    BY <1>2 DEF export_trl_dpo
<1>4. ASSUME NEW p \in export_trl_dpo
      PROVE  /\ dlgBuffer[p[1]].success
             /\ IF p[2] # 0
                THEN /\ ~dlgBuffer[p[2]].success
                     /\ dlgBuffer[p[1]].scenario = dlgBuffer[p[2]].scenario
                ELSE \A k \in DOMAIN dlgBuffer :
                         dlgBuffer[k].scenario = dlgBuffer[p[1]].scenario
                             => dlgBuffer[k].success
  <2>1. PICK s \in DlgScenario : p \in pairs(s)
    BY <1>3
  <2>2. /\ p[1] \in good(s)
        /\ p[2] \in IF bad(s) = {} THEN {0} ELSE bad(s)
    <3> HIDE DEF good, bad
    <3> QED
      BY <2>1
  <2>3. dlgBuffer[p[1]].success /\ dlgBuffer[p[1]].scenario = s
    BY <2>2
  <2>4. CASE bad(s) = {}
    <3>1. p[2] = 0
      BY <2>2, <2>4
    <3>2. \A k \in DOMAIN dlgBuffer : dlgBuffer[k].scenario = s => dlgBuffer[k].success
      BY <1>1, <2>4
    <3> QED
      BY <2>3, <3>1, <3>2
  <2>5. CASE bad(s) # {}
    <3>1. p[2] \in bad(s)
      BY <2>2, <2>5
    <3>2. p[2] # 0 /\ ~dlgBuffer[p[2]].success /\ dlgBuffer[p[2]].scenario = s
      BY <1>1, <3>1
    <3> QED
      BY <2>3, <3>2
  <2> QED
    BY <2>4, <2>5
<1>5. ASSUME NEW k \in DOMAIN dlgBuffer, dlgBuffer[k].success
      PROVE  \E p \in export_trl_dpo : p[1] = k
  <2>1. PICK s \in DlgScenario : s = dlgBuffer[k].scenario
    BY <1>1
  <2>2. k \in good(s)
    BY <1>1, <1>5, <2>1
  <2>3. PICK r : r \in IF bad(s) = {} THEN {0} ELSE bad(s)
    <3> HIDE DEF bad
    <3> QED
      OBVIOUS
  <2>4. <<k, r>> \in pairs(s)
    <3> HIDE DEF good, bad
    <3> QED
      BY <2>2, <2>3
  <2>5. <<k, r>> \in export_trl_dpo
    <3> HIDE DEF pairs
    <3> QED
      BY <1>3, <2>4
  <2> QED
    BY <2>5
<1> QED
  BY <1>4, <1>5 DEF PreferencesAreComparable

\* Whatever the retries, the steps and the scenarios: every request shows the policy its
\* episode's steps once and then only this request's repairs, each exported conversation is the
\* one the policy was shown and ends with the action that ended it, and a preference pair
\* compares a repaired episode with an unrepaired one of the same scenario, if there is one.
THEOREM DialoguesAreSound == DlgSpec => []DialogueIsSound
<1>1. DlgInit => DlgInv
  <2> SUFFICES ASSUME DlgInit PROVE DlgInv
    OBVIOUS
  <2>1. DlgFits
    <3>1. <<>> \in Seq(Said) /\ <<>> \in Seq(Step) /\ <<>> \in Seq(Trajectory)
      OBVIOUS
    <3> QED
      BY <3>1 DEF DlgInit, DlgFits
  <2>2. OnGoing /\ Repairing
    BY DEF DlgInit, OnGoing, Repairing
  <2>3. Ended
    BY DEF DlgInit, Ended
  <2> QED
    BY <2>1, <2>2, <2>3 DEF DlgInv
<1>2. DlgInv /\ [DlgNext]_dlgVars => DlgInv'
  BY DlgInvStep
<1>3. DlgInv => DialogueIsSound
  BY DlgInvRequests, DlgInvConversations, DlgInvPreferences DEF DialogueIsSound
<1> QED
  BY <1>1, <1>2, <1>3, PTL DEF DlgSpec

=============================================================================
