------------------------- MODULE FleetRolloutProofs -------------------------
(***************************************************************************)
(* The rollout for any fleet, any plan of tiers in any order and any error *)
(* threshold.  The properties speak of a tier's verdict long after its     *)
(* nodes answered; what carries them is that the nodes judged are exactly  *)
(* those of the finished tiers, that their outcomes are final, and that    *)
(* the rollback loop and its two results split the nodes judged.           *)
(***************************************************************************)
EXTENDS FleetRollout, WellFoundedInduction, TLAPS

\* The nodes of the first k tiers.
Covered(k) == UNION {TierNodes(u) : u \in 1 .. k}

\* The tiers whose outcomes were judged.
Judged == IF phase = "gather" THEN tier - 1 ELSE tier

\* The nodes the rollback loop has yet to visit.
Pending == IF phase = "rollback" THEN todo ELSE {}

PhasesFit ==
    /\ phase \in {"setup", "raised"} => tier = 0
    /\ phase \in {"gather", "rollback", "cleanup", "returned"} => tier > 0
    /\ phase = "tiers" => tier < Len(tiers)
    /\ phase \in {"setup", "raised", "tiers", "gather"} => status = "SUCCESS"
    /\ phase = "rollback" => status = "FROZEN_ROLLED_BACK"
    /\ phase \in {"cleanup", "returned"} /\ status = "SUCCESS" => tier = Len(tiers)

\* applied_nodes are the nodes of the tiers judged; the others wait, or are running.
NodesFit ==
    /\ applied = Covered(Judged)
    /\ \A n \in applied : work[n] \in Outcome
    /\ \A n \in Node : n \notin Covered(tier) => work[n] = "idle" /\ guest[n] = "baseline"

\* Every tier judged passed, but for the one that froze the rollout.
VerdictsFit ==
    /\ \A u \in 1 .. tier :
           u < tier \/ (phase # "gather" /\ status = "SUCCESS") => WithinThreshold(Reached(u))
    /\ status # "SUCCESS" => ~WithinThreshold(Reached(tier))

RollbackFits ==
    status # "SUCCESS" =>
        /\ applied = Pending \cup rolledBack \cup revertErrors
        /\ \A n \in Node : guest[n] = "changed" => n \in Pending \cup revertErrors

IInv == TypeOK /\ PhasesFit /\ NodesFit /\ VerdictsFit /\ RollbackFits

----------------------------------------------------------------------------
(* The tiers *)

\* A tier is a part of the fleet, whatever its percentage (tier_target_count).
LEMMA TiersAreNodes ==
    ASSUME TypeOK, NEW t \in 1 .. Len(tiers)
    PROVE  TierNodes(t) \subseteq Node
<1>1. tiers[t] \in Nat /\ FleetSize \in Nat \ {0}
  BY FleetAssumption DEF TypeOK
<1>2. FleetSize * tiers[t] + 99 \in Nat
  BY <1>1
<1> QED
  BY <1>1, <1>2 DEF TierNodes, TargetCount, Node

\* What each tier adds.
LEMMA CoveredGrows ==
    /\ Covered(0) = {}
    /\ \A k \in Nat : Covered(k + 1) = Covered(k) \cup TierNodes(k + 1)
    /\ \A t \in Nat : Reached(t) = TierNodes(t) \ Covered(t - 1)
<1>1. \A k \in Nat : 1 .. k + 1 = (1 .. k) \cup {k + 1}
  OBVIOUS
<1> QED
  BY <1>1 DEF Covered, Reached

\* The plan never changes, and neither do the tiers.
LEMMA TiersStay ==
    ASSUME UNCHANGED inputs
    PROVE  /\ UNCHANGED <<tiers, threshold>>
           /\ \A t : TierNodes(t)' = TierNodes(t)
           /\ \A t : Reached(t)' = Reached(t)
           /\ \A k : Covered(k)' = Covered(k)
  BY DEF inputs, TierNodes, Reached, Covered

\* While a tier runs, its new nodes are the ones no earlier tier reached.
LEMMA NewNodesAreReached ==
    ASSUME TypeOK, PhasesFit, NodesFit, phase = "gather"
    PROVE  NewNodes(tier) = Reached(tier) /\ Covered(tier) = applied \cup NewNodes(tier)
<1>1. tier \in Nat /\ tier > 0 /\ applied = Covered(tier - 1)
  BY DEF TypeOK, PhasesFit, NodesFit, Judged
<1>2. Covered(tier) = Covered(tier - 1) \cup TierNodes(tier)
  <2>1. tier - 1 \in Nat /\ (tier - 1) + 1 = tier
    BY <1>1
  <2> QED
    BY <2>1, CoveredGrows
<1> QED
  BY <1>1, <1>2, CoveredGrows DEF NewNodes

\* A verdict depends on the outcomes of its nodes alone.
LEMMA VerdictStays ==
    ASSUME UNCHANGED threshold, NEW nodes, \A n \in nodes : work'[n] = work[n]
    PROVE  WithinThreshold(nodes)' = WithinThreshold(nodes)
<1>1. {n \in nodes : work'[n] # "succeeded"} = {n \in nodes : work[n] # "succeeded"}
  OBVIOUS
<1>2. (\A n \in nodes : work'[n] \in Outcome) = (\A n \in nodes : work[n] \in Outcome)
  OBVIOUS
<1> QED
  BY <1>1, <1>2 DEF WithinThreshold

\* The code's test of a tier whose nodes have all answered is the verdict.
LEMMA PassedIsVerdict ==
    ASSUME NEW nodes, Gathered(nodes)
    PROVE  Passed(nodes) <=> WithinThreshold(nodes)
<1>1. Failures(nodes) = {n \in nodes : work[n] # "succeeded"}
  BY DEF Gathered, Failures, Outcome
<1> QED
  BY <1>1 DEF Gathered, Passed, WithinThreshold

\* A loop over a set of nodes takes one of them.
LEMMA LeastIsThere ==
    ASSUME NEW nodes, nodes \subseteq Nat, nodes # {}
    PROVE  First(nodes) \in nodes
<1>1. PICK n \in nodes : \A m \in nodes : n <= m
  <2> DEFINE R == OpToRel(<, Nat)
  <2>1. \A m, n \in Nat : m < n => <<m, n>> \in R
    BY DEF OpToRel
  <2>2. PICK n \in nodes : \A m \in nodes : ~ (<<m, n>> \in R)
    BY NatLessThanWellFounded, WFMin
  <2>3. \A m \in nodes : ~ (m < n)
    BY <2>1, <2>2
  <2> QED
    BY <2>3
<1> QED
  BY <1>1 DEF First

----------------------------------------------------------------------------
(* The inductive invariant *)

\* The invariant holds before the first tier.
LEMMA IInvInit == Init => IInv
<1> SUFFICES ASSUME Init PROVE IInv
  OBVIOUS
<1>1. Len(tiers) \in Nat \ {0}
  BY FleetAssumption DEF Init
<1>2. TypeOK
  BY <1>1 DEF Init, TypeOK
<1>3. NodesFit
  BY CoveredGrows DEF Init, NodesFit, Judged
<1>4. VerdictsFit
  BY DEF Init, VerdictsFit
<1> QED
  BY <1>2, <1>3, <1>4 DEF Init, IInv, PhasesFit, RollbackFits

\* No tier has started while the baseline is set up.
LEMMA SetUpStep ==
    ASSUME IInv, NEW n \in Node, SetUpNode(n) \/ SetUpFails(n)
    PROVE  IInv'
<1>1. /\ UNCHANGED <<inputs, tier, work, guest, applied, status, rolledBack, revertErrors>>
      /\ phase = "setup" /\ phase' \in {"setup", "tiers", "raised"}
      /\ todo' \subseteq todo /\ live' \subseteq live \cup {n}
  BY DEF SetUpNode, SetUpFails, nodeVars, resultVars
<1>2. /\ UNCHANGED <<tiers, threshold>> /\ tier = 0 /\ status = "SUCCESS"
      /\ Len(tiers) \in Nat \ {0}
  BY <1>1, FleetAssumption DEF IInv, TypeOK, PhasesFit, inputs
<1>3. TypeOK'
  BY <1>1, <1>2 DEF IInv, TypeOK
<1>4. PhasesFit'
  BY <1>1, <1>2 DEF PhasesFit
<1>5. NodesFit'
  BY <1>1, <1>2, TiersStay DEF IInv, NodesFit, Judged
<1>6. VerdictsFit' /\ RollbackFits'
  BY <1>1, <1>2 DEF VerdictsFit, RollbackFits
<1> QED
  BY <1>3, <1>4, <1>5, <1>6 DEF IInv

\* A tier that starts touches no node that was judged.
LEMMA StartTierStep ==
    ASSUME IInv, StartTier
    PROVE  IInv'
<1>1. /\ UNCHANGED <<inputs, todo, guest, live, applied, status, rolledBack, revertErrors>>
      /\ phase = "tiers" /\ phase' = "gather" /\ tier' = tier + 1
      /\ work' = [n \in Node |-> IF n \in NewNodes(tier + 1) THEN "running" ELSE work[n]]
  BY DEF StartTier, resultVars
<1>2. /\ UNCHANGED <<tiers, threshold>> /\ status = "SUCCESS"
      /\ tier \in Nat /\ Len(tiers) \in Nat /\ tier < Len(tiers) /\ applied = Covered(tier)
  BY <1>1, FleetAssumption DEF IInv, TypeOK, PhasesFit, NodesFit, Judged, inputs
<1>3. TypeOK'
  BY <1>1, <1>2 DEF IInv, TypeOK
<1>4. PhasesFit'
  BY <1>1, <1>2 DEF PhasesFit
<1>5. Covered(tier + 1) = applied \cup NewNodes(tier + 1)
  BY <1>2, CoveredGrows DEF NewNodes
<1>6. \A n \in applied : n \in Node /\ work'[n] = work[n]
  BY <1>1 DEF NewNodes, IInv, TypeOK
<1>7. NodesFit'
  <2>1. applied' = Covered(Judged)'
    <3>1. Judged' = tier
      BY <1>1, <1>2 DEF Judged
    <3> QED
      BY <3>1, <1>1, <1>2, TiersStay DEF Covered
  <2>2. \A n \in Node :
            n \notin Covered(tier + 1) => work'[n] = "idle" /\ guest'[n] = "baseline"
    BY <1>1, <1>2, <1>5 DEF IInv, NodesFit
  <2>3. Covered(tier)' = Covered(tier + 1)
    BY <1>1, TiersStay DEF Covered
  <2> QED
    BY <2>1, <2>2, <2>3, <1>1, <1>6 DEF IInv, NodesFit
<1>8. VerdictsFit'
  <2>1. SUFFICES ASSUME NEW u \in 1 .. tier PROVE WithinThreshold(Reached(u))'
    BY <1>1, <1>2 DEF VerdictsFit
  <2>2. WithinThreshold(Reached(u))
    BY <1>1, <1>2 DEF IInv, VerdictsFit
  <2>3. Reached(u) \subseteq applied
    BY <1>2 DEF Reached, Covered
  <2>4. Reached(u)' = Reached(u)
    BY <1>1, TiersStay
  <2> QED
    BY <2>2, <2>3, <2>4, <1>2, <1>6, VerdictStays
<1>9. RollbackFits'
  BY <1>1, <1>2 DEF RollbackFits
<1> QED
  BY <1>3, <1>4, <1>7, <1>8, <1>9 DEF IInv

\* A node's coroutine runs in its own tier alone, before the tier is judged.
LEMMA NodeStep ==
    ASSUME IInv, NEW n \in Node, RemediateNode(n)
    PROVE  IInv'
<1>1. /\ UNCHANGED <<inputs, phase, tier, todo, live, applied, status>>
      /\ UNCHANGED <<rolledBack, revertErrors>>
      /\ work[n] = "running"
      /\ work' = work \/ \E outcome \in Outcome : work' = [work EXCEPT ![n] = outcome]
      /\ \A m \in Node \ {n} : work'[m] = work[m] /\ guest'[m] = guest[m]
      /\ guest' \in [Node -> {"baseline", "changed"}]
  BY DEF RemediateNode, ChangeNode, FinishNode, resultVars, IInv, TypeOK
<1>2. UNCHANGED <<tiers, threshold>>
  BY <1>1 DEF inputs
<1>3. n \notin applied /\ n \in Covered(tier)
  BY <1>1 DEF IInv, NodesFit, Outcome
<1>4. phase = "gather" /\ status = "SUCCESS" /\ tier \in Nat /\ applied = Covered(tier - 1)
  BY <1>3 DEF IInv, TypeOK, NodesFit, PhasesFit, Judged
<1>5. TypeOK'
  BY <1>1, <1>2 DEF IInv, TypeOK
<1>6. PhasesFit'
  BY <1>1, <1>2 DEF IInv, PhasesFit
<1>7. NodesFit'
  <2>1. Covered(tier)' = Covered(tier) /\ Covered(Judged)' = Covered(Judged)
    BY <1>1, TiersStay DEF Covered, Judged
  <2> QED
    BY <2>1, <1>1, <1>3 DEF IInv, NodesFit, TypeOK
<1>8. VerdictsFit'
  <2>1. SUFFICES ASSUME NEW u \in 1 .. tier, u < tier PROVE WithinThreshold(Reached(u))'
    BY <1>1, <1>4 DEF VerdictsFit
  <2>2. WithinThreshold(Reached(u))
    BY <2>1 DEF IInv, VerdictsFit
  <2>3. Reached(u) \subseteq applied
    BY <1>4, <2>1 DEF Reached, Covered
  <2>4. Reached(u)' = Reached(u)
    BY <1>1, TiersStay
  <2>5. \A m \in Reached(u) : work'[m] = work[m]
    BY <2>3, <1>1, <1>3 DEF IInv, TypeOK
  <2> QED
    BY <2>2, <2>4, <2>5, <1>2, VerdictStays
<1>9. RollbackFits'
  BY <1>1, <1>4 DEF RollbackFits
<1> QED
  BY <1>5, <1>6, <1>7, <1>8, <1>9 DEF IInv

\* The tier's new nodes join the judged ones with their verdict.
LEMMA JudgeStep ==
    ASSUME IInv, Judge
    PROVE  IInv'
<1>1. /\ UNCHANGED <<inputs, tier, work, guest, live, rolledBack, revertErrors>>
      /\ phase = "gather" /\ Gathered(NewNodes(tier))
      /\ applied' = applied \cup NewNodes(tier)
  BY DEF Judge, nodeVars
<1>2. /\ UNCHANGED <<tiers, threshold>> /\ status = "SUCCESS"
      /\ tier \in 1 .. Len(tiers) /\ Len(tiers) \in Nat
  BY <1>1, FleetAssumption DEF IInv, TypeOK, PhasesFit, inputs
<1>3. NewNodes(tier) = Reached(tier) /\ Covered(tier) = applied \cup NewNodes(tier)
  BY <1>1, NewNodesAreReached DEF IInv
<1>4. \/ /\ phase' = IF tier < Len(tiers) THEN "tiers" ELSE "cleanup"
         /\ UNCHANGED <<todo, status>> /\ WithinThreshold(Reached(tier))
      \/ /\ phase' = "rollback" /\ todo' = applied' /\ status' = "FROZEN_ROLLED_BACK"
         /\ ~WithinThreshold(Reached(tier))
  BY <1>1, <1>2, <1>3, PassedIsVerdict DEF Judge, ToRollBack
<1>5. NewNodes(tier) \subseteq Node
  BY <1>2, TiersAreNodes DEF NewNodes, IInv
<1>6. TypeOK'
  BY <1>1, <1>2, <1>4, <1>5 DEF IInv, TypeOK
<1>7. PhasesFit'
  BY <1>1, <1>2, <1>4 DEF PhasesFit
<1>8. NodesFit'
  <2>1. phase' # "gather" /\ Judged' = tier
    BY <1>1, <1>4 DEF Judged
  <2>2. Covered(tier)' = Covered(tier) /\ Covered(Judged)' = Covered(tier)
    BY <2>1, <1>1, TiersStay DEF Covered
  <2>3. \A n \in applied' : work[n] \in Outcome
    BY <1>1 DEF Gathered, IInv, NodesFit
  <2> QED
    BY <2>2, <2>3, <1>1, <1>3 DEF IInv, NodesFit
<1>9. VerdictsFit'
  <2>1. \A u \in 1 .. tier : WithinThreshold(Reached(u))' = WithinThreshold(Reached(u))
    BY <1>1, <1>2, TiersStay, VerdictStays
  <2>2. \A u \in 1 .. tier : u < tier => WithinThreshold(Reached(u))
    BY DEF IInv, VerdictsFit
  <2>3. \A u \in 1 .. tier : u < tier \/ u = tier
    BY <1>2
  <2>4. WithinThreshold(Reached(tier))' = WithinThreshold(Reached(tier))
    BY <1>1, <1>2, <2>1
  <2> QED
    BY <2>1, <2>2, <2>3, <2>4, <1>1, <1>2, <1>4 DEF VerdictsFit
<1>10. RollbackFits'
  <2>1. CASE status' = "SUCCESS"
    BY <2>1 DEF RollbackFits
  <2>2. CASE phase' = "rollback" /\ todo' = applied'
    <3>1. rolledBack \subseteq applied /\ revertErrors \subseteq applied
      BY DEF IInv, TypeOK
    <3>2. \A n \in Node : guest[n] = "changed" => n \in applied'
      BY <1>1, <1>3 DEF IInv, NodesFit
    <3> QED
      BY <2>2, <3>1, <3>2, <1>1 DEF RollbackFits, Pending
  <2> QED
    BY <2>1, <2>2, <1>2, <1>4
<1> QED
  BY <1>6, <1>7, <1>8, <1>9, <1>10 DEF IInv

\* The rollback loop moves a node from the pending ones to one of its two results.
LEMMA RollBackStep ==
    ASSUME IInv, NEW n \in Node, RollBackNode(n)
    PROVE  IInv'
<1>1. /\ UNCHANGED <<inputs, tier, work, live, applied, status>>
      /\ phase = "rollback" /\ todo' = todo \ {n}
      /\ phase' = IF todo = {n} THEN "cleanup" ELSE "rollback"
      /\ guest' \in {guest, [guest EXCEPT ![n] = "baseline"]}
      /\ \/ /\ guest' = [guest EXCEPT ![n] = "baseline"]
            /\ rolledBack' = rolledBack \cup {n} /\ UNCHANGED revertErrors
         \/ /\ revertErrors' = revertErrors \cup {n} /\ UNCHANGED rolledBack
  BY DEF RollBackNode
<1>2. n \in todo
  <2>1. todo # {} /\ todo \subseteq Nat /\ n = First(todo)
    BY DEF RollBackNode, IInv, TypeOK, Node
  <2> QED
    BY <2>1, LeastIsThere
<1>3. /\ UNCHANGED <<tiers, threshold>> /\ status = "FROZEN_ROLLED_BACK"
      /\ tier > 0
      /\ applied = todo \cup rolledBack \cup revertErrors
  BY <1>1 DEF IInv, PhasesFit, RollbackFits, Pending, inputs
<1>4. TypeOK'
  BY <1>1, <1>2, <1>3 DEF IInv, TypeOK
<1>5. PhasesFit'
  BY <1>1, <1>3 DEF IInv, PhasesFit
<1>6. NodesFit'
  <2>1. Covered(tier)' = Covered(tier) /\ Covered(Judged)' = Covered(Judged)
    BY <1>1, TiersStay DEF Covered, Judged
  <2> QED
    BY <2>1, <1>1 DEF IInv, NodesFit, TypeOK
<1>7. VerdictsFit'
  <2>1. \A u \in 1 .. tier : WithinThreshold(Reached(u))' = WithinThreshold(Reached(u))
    BY <1>1, <1>3, TiersStay, VerdictStays
  <2>2. WithinThreshold(Reached(tier))' = WithinThreshold(Reached(tier))
    BY <1>1, <1>3, TiersStay, VerdictStays
  <2> QED
    BY <2>1, <2>2, <1>1, <1>3 DEF IInv, VerdictsFit
<1>8. RollbackFits'
  <2>1. Pending' = todo \ {n} /\ Pending = todo
    BY <1>1 DEF Pending
  <2>2. applied' = Pending' \cup rolledBack' \cup revertErrors'
    BY <2>1, <1>1, <1>2, <1>3
  <2>3. ASSUME NEW m \in Node, guest'[m] = "changed" PROVE m \in Pending' \cup revertErrors'
    BY <2>1, <2>3, <1>1, <1>3 DEF IInv, RollbackFits, TypeOK
  <2> QED
    BY <2>2, <2>3 DEF RollbackFits
<1> QED
  BY <1>4, <1>5, <1>6, <1>7, <1>8 DEF IInv

\* The clean-up disturbs nothing that was judged.
LEMMA CleanUpStep ==
    ASSUME IInv, CleanUp \/ UNCHANGED vars
    PROVE  IInv'
<1>1. /\ UNCHANGED <<inputs, tier, todo, work, guest, applied, status>>
      /\ UNCHANGED <<rolledBack, revertErrors>>
      /\ phase' = phase \/ (phase = "cleanup" /\ phase' = "returned")
      /\ live' \subseteq live
  BY DEF CleanUp, vars, nodeVars, resultVars
<1>2. UNCHANGED <<tiers, threshold>> /\ UNCHANGED <<Judged, Pending>>
      /\ (phase' = "gather") = (phase = "gather")
  BY <1>1 DEF inputs, Judged, Pending
<1>3. TypeOK'
  BY <1>1, <1>2 DEF IInv, TypeOK
<1>4. PhasesFit'
  BY <1>1, <1>2 DEF IInv, PhasesFit
<1>5. NodesFit'
  <2>1. Covered(tier)' = Covered(tier) /\ Covered(Judged)' = Covered(Judged)
    BY <1>1, <1>2, TiersStay DEF Covered
  <2> QED
    BY <2>1, <1>1 DEF IInv, NodesFit
<1>6. VerdictsFit'
  <2>1. \A u \in 1 .. tier : WithinThreshold(Reached(u))' = WithinThreshold(Reached(u))
    BY <1>1, <1>2, TiersStay, VerdictStays
  <2>2. WithinThreshold(Reached(tier))' = WithinThreshold(Reached(tier))
    BY <1>1, <1>2, TiersStay, VerdictStays
  <2> QED
    BY <2>1, <2>2, <1>1, <1>2 DEF IInv, VerdictsFit
<1>7. RollbackFits'
  BY <1>1, <1>2 DEF IInv, RollbackFits
<1> QED
  BY <1>3, <1>4, <1>5, <1>6, <1>7 DEF IInv

\* So the invariant holds of every execution.
LEMMA IInvHolds == Spec => []IInv
<1>1. IInv /\ [Next]_vars => IInv'
  BY SetUpStep, StartTierStep, NodeStep, JudgeStep, RollBackStep, CleanUpStep
     DEF Next, Rollout
<1> QED
  BY <1>1, IInvInit, PTL DEF Spec

----------------------------------------------------------------------------
(* The theorems *)

\* Types: in particular that only nodes that were judged are rolled back or counted
\* as a failed revert.
THEOREM TypeCorrect == Spec => []TypeOK
<1>1. IInv => TypeOK
  BY DEF IInv
<1> QED
  BY <1>1, IInvHolds, PTL

\* No node of a later tier is touched before every earlier tier ended within the
\* threshold, whatever the plan and however many nodes raise (lines 140-186).
THEOREM CanariesContain == Spec => []CanaryContainment
<1>1. IInv => CanaryContainment
  <2> SUFFICES ASSUME IInv, NEW t \in 1 .. Len(tiers), NEW n \in Node, n \in Reached(t),
                      work[n] # "idle" \/ guest[n] # "baseline",
                      NEW u \in 1 .. t - 1
               PROVE  WithinThreshold(Reached(u))
    BY DEF CanaryContainment
  <2>1. tier \in Nat /\ t \in Nat
    BY FleetAssumption DEF IInv, TypeOK
  <2>2. PICK v \in 1 .. tier : n \in TierNodes(v)
    BY DEF IInv, NodesFit, Covered
  <2>3. ~ (v \in 1 .. t - 1)
    BY <2>2 DEF Reached
  <2>4. u \in 1 .. tier /\ u < tier
    BY <2>1, <2>2, <2>3
  <2> QED
    BY <2>4 DEF IInv, VerdictsFit
<1> QED
  BY <1>1, IInvHolds, PTL

\* SUCCESS is reported exactly when every tier ended within the threshold (182-211, 233).
THEOREM VerdictsAreRight == Spec => []VerdictIsRight
<1>1. IInv => VerdictIsRight
  <2> SUFFICES ASSUME IInv, phase \in {"cleanup", "returned"}
               PROVE  status = "SUCCESS" <=>
                          \A t \in 1 .. Len(tiers) : WithinThreshold(Reached(t))
    BY DEF VerdictIsRight
  <2>1. tier \in 1 .. Len(tiers) /\ phase # "gather"
    BY FleetAssumption DEF IInv, TypeOK, PhasesFit
  <2>2. CASE status = "SUCCESS"
    BY <2>1, <2>2 DEF IInv, PhasesFit, VerdictsFit
  <2>3. CASE status # "SUCCESS"
    BY <2>1, <2>3 DEF IInv, VerdictsFit
  <2> QED
    BY <2>2, <2>3
<1> QED
  BY <1>1, IInvHolds, PTL

\* A frozen rollout has visited every node it reached, and what is still changed is a
\* node whose own revert raised (219-224).
THEOREM RollbacksReachAll == Spec => []RollbackReachesAll
<1>1. IInv => RollbackReachesAll
  BY DEF IInv, RollbackFits, Pending, RollbackReachesAll
<1> QED
  BY <1>1, IInvHolds, PTL
=============================================================================
