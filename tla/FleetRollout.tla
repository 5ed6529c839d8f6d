---------------------------- MODULE FleetRollout ----------------------------
(***************************************************************************)
(* engine/fleet_orchestrator.py: execute_fleet_rollout, which remediates a *)
(* fleet tier by tier, the nodes of a tier concurrently, and rolls every   *)
(* remediated node back when too many nodes of a tier fail.                *)
(*                                                                         *)
(* Percentages are integers: Python's product of the fleet size and a      *)
(* float can come out just above a whole number (70 * 0.1), and its tier   *)
(* is then one node larger.  A node's remediate_node, with a patch command *)
(* or with the swarm of module Swarm, is steps that change the node or put *)
(* it back, and an outcome.  Cancellation of the whole call is left out.   *)
(***************************************************************************)
EXTENDS Naturals, Sequences, FiniteSets

CONSTANTS
    FleetSize,      \* fleet_size
    TierPlans,      \* the values of self.tiers, in percent, that are considered
    Thresholds      \* the values of error_threshold, in percent

\* An empty list of tiers is replaced by DEFAULT_TIERS.
ASSUME FleetAssumption ==
    /\ FleetSize \in Nat \ {0}
    /\ TierPlans \subseteq Seq(Nat) \ {<<>>}
    /\ Thresholds \subseteq Nat

Node == 1 .. FleetSize

VARIABLES
    tiers,          \* self.tiers
    threshold,      \* self.error_threshold
    phase,          \* where execute_fleet_rollout stands
    tier,           \* idx: the tiers started
    todo,           \* the nodes its sequential loop has yet to visit
    work,           \* what has become of each node's remediate_node
    guest,          \* each node, relative to its baseline snapshot
    applied,        \* applied_nodes
    status,         \* final_status
    rolledBack,     \* rolled_back_nodes
    live,           \* the nodes whose instance exists
    revertErrors    \* history: the nodes whose revert raised, which is only logged

inputs == <<tiers, threshold>>
nodeVars == <<work, guest>>
resultVars == <<applied, status, rolledBack, revertErrors>>
vars == <<inputs, phase, tier, todo, nodeVars, live, resultVars>>

Outcome == {"succeeded", "failed", "raised"}

TypeOK ==
    /\ tiers \in TierPlans /\ threshold \in Thresholds
    /\ phase \in {"setup", "tiers", "gather", "rollback", "cleanup", "returned", "raised"}
    /\ tier \in 0 .. Len(tiers)
    /\ todo \subseteq Node
    /\ work \in [Node -> Outcome \cup {"idle", "running"}]
    /\ guest \in [Node -> {"baseline", "changed"}]
    /\ applied \subseteq Node
    /\ status \in {"SUCCESS", "FROZEN_ROLLED_BACK"}
    /\ rolledBack \subseteq applied /\ revertErrors \subseteq applied
    /\ live \subseteq Node

Init ==
    /\ tiers \in TierPlans /\ threshold \in Thresholds
    /\ phase = "setup"
    /\ tier = 0
    /\ todo = Node
    /\ work = [n \in Node |-> "idle"]
    /\ guest = [n \in Node |-> "baseline"]
    /\ applied = {}
    /\ status = "SUCCESS"
    /\ rolledBack = {}
    /\ live = {}
    /\ revertErrors = {}

----------------------------------------------------------------------------
(* A Faulty... operator is a deliberate mistake in the operator below it; only *)
(* substituting it uses it.                                                    *)

\* tier_target_count: rounded up, at least one node and at most the fleet.
TargetCount(percent) ==
    LET rounded == (FleetSize * percent + 99) \div 100
    IN  IF rounded < 1 THEN 1 ELSE IF rounded > FleetSize THEN FleetSize ELSE rounded

TierNodes(t) == 1 .. TargetCount(tiers[t])

\* new_nodes: the nodes of a tier that no earlier tier reached.
NewNodes(t) == TierNodes(t) \ applied

FaultyFailures(nodes) == {n \in nodes : work[n] = "failed"}
Failures(nodes) == {n \in nodes : work[n] \in {"failed", "raised"}}

\* tier_passed: error_rate <= error_threshold, and no error in an empty tier.
FaultyPassed(nodes) ==
    100 * Cardinality(Failures(nodes)) < threshold * Cardinality(nodes)
Passed(nodes) ==
    100 * Cardinality(Failures(nodes)) <= threshold * Cardinality(nodes)

\* gather has an outcome, possibly an exception, of every node.
FaultyGathered(nodes) == \A n \in nodes : work[n] \in {"succeeded", "failed"}
Gathered(nodes) == \A n \in nodes : work[n] \in Outcome

\* The nodes of the rollback loop.
FaultyWideRollback == Node
FaultyNarrowRollback == Failures(TierNodes(tier))
ToRollBack == applied \cup NewNodes(tier)

\* The next node of a sequential loop.
First(nodes) == CHOOSE n \in nodes : \A m \in nodes : n <= m

----------------------------------------------------------------------------
(* The baseline of every node *)

SetUpNode(n) ==
    /\ phase = "setup" /\ todo # {} /\ n = First(todo)
    /\ live' = live \cup {n}
    /\ todo' = todo \ {n}
    /\ phase' = IF todo = {n} THEN "tiers" ELSE "setup"
    /\ UNCHANGED <<inputs, tier, nodeVars, resultVars>>

\* An exception in this loop leaves the method: the try, whose finally cleans up,
\* has not begun.
SetUpFails(n) ==
    /\ phase = "setup" /\ todo # {} /\ n = First(todo)
    /\ live' \in {live, live \cup {n}}
    /\ phase' = "raised"
    /\ UNCHANGED <<inputs, tier, todo, nodeVars, resultVars>>

----------------------------------------------------------------------------
(* The tiers *)

StartTier ==
    /\ phase = "tiers"
    /\ tier' = tier + 1
    /\ work' = [n \in Node |-> IF n \in NewNodes(tier + 1) THEN "running" ELSE work[n]]
    /\ phase' = "gather"
    /\ UNCHANGED <<inputs, todo, guest, live, resultVars>>

\* A node's coroutine changes the node, or takes its own changes back.
ChangeNode(n) ==
    /\ work[n] = "running"
    /\ guest' = [guest EXCEPT ![n] = IF @ = "changed" THEN "baseline" ELSE "changed"]
    /\ UNCHANGED <<inputs, phase, tier, todo, work, live, resultVars>>

FinishNode(n, outcome) ==
    /\ work[n] = "running"
    /\ work' = [work EXCEPT ![n] = outcome]
    /\ UNCHANGED <<inputs, phase, tier, todo, guest, live, resultVars>>

\* All nodes of the tier have answered: go on, end, or freeze and roll back.
Judge ==
    /\ phase = "gather" /\ Gathered(NewNodes(tier))
    /\ applied' = applied \cup NewNodes(tier)
    /\ \/ /\ Passed(NewNodes(tier)) /\ tier < Len(tiers)
          /\ phase' = "tiers"
          /\ UNCHANGED <<todo, status>>
       \/ /\ Passed(NewNodes(tier)) /\ tier = Len(tiers)
          /\ phase' = "cleanup"
          /\ UNCHANGED <<todo, status>>
       \/ /\ ~Passed(NewNodes(tier))
          /\ phase' = "rollback"
          /\ todo' = ToRollBack
          /\ status' = "FROZEN_ROLLED_BACK"
    /\ UNCHANGED <<inputs, tier, nodeVars, live, rolledBack, revertErrors>>

\* One node of the rollback loop.  A revert that raises, before or after the snapshot
\* was restored, is logged, and the loop goes on.
RollBackNode(n) ==
    /\ phase = "rollback" /\ todo # {} /\ n = First(todo)
    /\ todo' = todo \ {n}
    /\ phase' = IF todo = {n} THEN "cleanup" ELSE "rollback"
    /\ \/ /\ guest' = [guest EXCEPT ![n] = "baseline"]
          /\ rolledBack' = rolledBack \cup {n}
          /\ UNCHANGED revertErrors
       \/ /\ guest' \in {guest, [guest EXCEPT ![n] = "baseline"]}
          /\ revertErrors' = revertErrors \cup {n}
          /\ UNCHANGED rolledBack
    /\ UNCHANGED <<inputs, tier, work, live, applied, status>>

\* The finally: every node is cleaned up, and an exception is only logged.
CleanUp ==
    /\ phase = "cleanup"
    /\ live' \in SUBSET live
    /\ phase' = "returned"
    /\ UNCHANGED <<inputs, tier, todo, nodeVars, resultVars>>

RemediateNode(n) == ChangeNode(n) \/ \E outcome \in Outcome : FinishNode(n, outcome)

Rollout ==
    \/ \E n \in Node : SetUpNode(n) \/ SetUpFails(n)
    \/ StartTier
    \/ Judge
    \/ \E n \in Node : RollBackNode(n)
    \/ CleanUp

Next == Rollout \/ \E n \in Node : RemediateNode(n)

Spec == Init /\ [][Next]_vars

\* The sandbox's operations and the client's requests have timeouts: execute_fleet_-
\* rollout goes on when it can, and every node's coroutine ends.
FairSpec ==
    /\ Spec
    /\ WF_vars(Rollout)
    /\ \A n \in Node : WF_vars(\E outcome \in Outcome : FinishNode(n, outcome))

----------------------------------------------------------------------------
(* Correctness *)

\* The nodes that tier t is the first to reach, whatever the order of the tiers.
Reached(t) == TierNodes(t) \ UNION {TierNodes(u) : u \in 1 .. t - 1}

WithinThreshold(nodes) ==
    /\ \A n \in nodes : work[n] \in Outcome
    /\ 100 * Cardinality({n \in nodes : work[n] # "succeeded"})
           <= threshold * Cardinality(nodes)

\* A node of a later tier is not touched before every earlier tier has finished with
\* an error rate within the threshold, exceptions counted as errors (lines 140-186).
CanaryContainment ==
    \A t \in 1 .. Len(tiers), n \in Node :
        n \in Reached(t) /\ (work[n] # "idle" \/ guest[n] # "baseline") =>
            \A u \in 1 .. t - 1 : WithinThreshold(Reached(u))

\* The rollout reports SUCCESS exactly when every tier ended within the threshold
\* (lines 182-211, 233).
VerdictIsRight ==
    phase \in {"cleanup", "returned"} =>
        (status = "SUCCESS" <=> \A t \in 1 .. Len(tiers) : WithinThreshold(Reached(t)))

\* When a rollout was frozen, each node that any tier reached, remediated well or not,
\* was sent back to its baseline, and a node is only left changed if its own revert
\* raised: one failure does not keep the others from being rolled back (219-224).
RollbackReachesAll ==
    phase \in {"cleanup", "returned"} /\ status = "FROZEN_ROLLED_BACK" =>
        /\ applied = rolledBack \cup revertErrors
        /\ \A n \in Node : guest[n] = "changed" => n \in revertErrors

\* Once the baseline is set up the rollout returns a result, whichever nodes raise.
RolloutReturns == phase = "tiers" ~> phase = "returned"

\* "atomic auto-rollback if errors exceed 2.0%" (README.md:142), "atomic snapshot
\* rollback across all applied nodes" (README.md:737): a rollout that reports
\* FROZEN_ROLLED_BACK leaves every node it reached at its baseline.
RollbackIsAtomic ==
    phase \in {"cleanup", "returned"} /\ status = "FROZEN_ROLLED_BACK" =>
        \A n \in applied : guest[n] = "baseline"

=============================================================================
