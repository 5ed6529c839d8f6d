------------------------------ MODULE MctsSearch -----------------------------
(***************************************************************************)
(* trainer/mcts_search.py: run_search and what it calls.                   *)
(*                                                                         *)
(* The tree is the sequence of its nodes in the order they were appended;  *)
(* the root is node 1.  A guest is the commands run in it since the fault  *)
(* was injected.  UCT scores and rewards are left out: among the children  *)
(* that are not pruned any may have the best score.                        *)
(***************************************************************************)
EXTENDS Naturals, Sequences, FiniteSets, SequencesExt

CONSTANTS
    MctsCommand,    \* commands the policy proposes, besides the empty one
    MaxSimulations,
    MaxDepth,
    BranchFactor

NoCommand == "empty"
ASSUME MctsAssumption ==
    /\ MaxSimulations \in Nat /\ MaxDepth \in Nat \ {0} /\ BranchFactor \in Nat
    /\ NoCommand \notin MctsCommand

VARIABLES
    mctsAt,         \* what the search does next
    mctsSim,        \* sim_idx
    mctsTree,       \* the nodes
    mctsCurrent,    \* current
    mctsTries,      \* completions asked for in this expansion
    mctsGuest,      \* the commands run in the guest since the fault
    mctsBest,       \* best_terminal_node, or 0
    mctsLeaf        \* target_leaf, or 0

mctsVars == <<mctsAt, mctsSim, mctsTree, mctsCurrent, mctsTries, mctsGuest, mctsBest, mctsLeaf>>

MctsNode == [parent : Nat, command : MctsCommand \cup {NoCommand}, depth : Nat, visits : Nat,
             terminal : BOOLEAN, verified : BOOLEAN, pruned : BOOLEAN, snap : Seq(MctsCommand)]

MctsTypeOK ==
    /\ mctsAt \in {"select", "expand", "backpropagate", "over", "raised"}
    /\ mctsSim \in 1 .. MaxSimulations + 1
    /\ mctsTree \in Seq(MctsNode)
    /\ mctsCurrent \in DOMAIN mctsTree
    /\ mctsTries \in 0 .. BranchFactor
    /\ mctsGuest \in Seq(MctsCommand)
    /\ {mctsBest, mctsLeaf} \subseteq {0} \cup DOMAIN mctsTree

MctsRoot == [parent |-> 0, command |-> NoCommand, depth |-> 0, visits |-> 0, terminal |-> FALSE,
             verified |-> FALSE, pruned |-> FALSE, snap |-> <<>>]

\* Setup and the injection have succeeded, and "snap-mcts-fault" is taken.
MctsInit ==
    /\ mctsAt = "select"
    /\ mctsSim = 1
    /\ mctsTree = <<MctsRoot>>
    /\ mctsCurrent = 1
    /\ mctsTries = 0
    /\ mctsGuest = <<>>
    /\ mctsBest = 0 /\ mctsLeaf = 0

----------------------------------------------------------------------------
(* The tree *)

MctsChildren(n) == {c \in DOMAIN mctsTree : mctsTree[c].parent = n}
MctsHere == mctsTree[mctsCurrent]

\* node and its ancestors, the root excepted, from the root down.
MctsPaths ==
    LET up[k \in 0 .. Len(mctsTree)] == IF k <= 1 THEN <<>> ELSE Append(up[mctsTree[k].parent], k)
    IN  up
MctsPath(n) == MctsPaths[n]

\* Empty, or already there twice on the way to the node.
DetectLoopOrFatal(n, command) ==
    \/ command = NoCommand
    \/ Cardinality({k \in ToSet(MctsPath(n)) : mctsTree[k].command = command}) >= 2

----------------------------------------------------------------------------
(* One simulation *)

MctsInnerNode == MctsChildren(mctsCurrent) # {} /\ ~MctsHere.terminal

\* A node all of whose children are pruned selects itself, over and over.
MctsStuck ==
    /\ mctsAt = "select" /\ mctsSim <= MaxSimulations /\ MctsInnerNode
    /\ \A c \in MctsChildren(mctsCurrent) : mctsTree[c].pruned

MctsSelectChild ==
    /\ mctsAt = "select"
    /\ MctsInnerNode
    /\ \E c \in MctsChildren(mctsCurrent) : ~mctsTree[c].pruned /\ mctsCurrent' = c
    /\ UNCHANGED <<mctsAt, mctsSim, mctsTree, mctsTries, mctsGuest, mctsBest, mctsLeaf>>

FaultySelectLeaf ==
    /\ mctsAt = "select"
    /\ ~MctsInnerNode
    /\ mctsAt' = IF ~MctsHere.terminal /\ MctsHere.depth < MaxDepth
                 THEN "expand" ELSE "select"
    /\ mctsTries' = 0
    /\ UNCHANGED <<mctsSim, mctsTree, mctsCurrent, mctsGuest, mctsBest, mctsLeaf>>
MctsSelectLeaf ==
    /\ mctsAt = "select"
    /\ ~MctsInnerNode
    /\ mctsAt' = IF ~MctsHere.terminal /\ MctsHere.depth < MaxDepth
                 THEN "expand" ELSE "backpropagate"
    /\ mctsTries' = 0
    /\ UNCHANGED <<mctsSim, mctsTree, mctsCurrent, mctsGuest, mctsBest, mctsLeaf>>

\* A completion that is a new candidate: a command no candidate of this node has, or the
\* empty one if there is no candidate yet.
MctsNewCandidate(command) ==
    IF command = NoCommand THEN MctsChildren(mctsCurrent) = {}
    ELSE \A c \in MctsChildren(mctsCurrent) : mctsTree[c].command # command

FaultyAppendChild(child) ==
    /\ mctsTree' = Append(mctsTree, child)
    /\ mctsBest' = IF child.verified THEN Len(mctsTree') ELSE mctsBest
MctsAppendChild(child) ==
    /\ mctsTree' = Append(mctsTree, child)
    /\ mctsBest' = IF child.verified /\ (mctsBest = 0 \/ child.depth < mctsTree[mctsBest].depth)
                   THEN Len(mctsTree') ELSE mctsBest

\* The guest, reverted to a snapshot, after a command.
MctsRunIn(snap, command) == Append(snap, command)

\* One candidate: pruned, or run in the guest of its parent, verified, and snapshot.
MctsCandidate(command) ==
    LET child == [MctsRoot EXCEPT !.parent = mctsCurrent, !.command = command,
                                  !.depth = MctsHere.depth + 1]
    IN  /\ MctsNewCandidate(command)
        /\ IF DetectLoopOrFatal(mctsCurrent, command)
           THEN MctsAppendChild([child EXCEPT !.pruned = TRUE]) /\ UNCHANGED mctsGuest
           ELSE /\ mctsGuest' = MctsRunIn(MctsHere.snap, command)
                /\ \E resolved, is_done \in BOOLEAN :
                       MctsAppendChild([child EXCEPT
                           !.visits = 1, !.verified = resolved, !.snap = mctsGuest',
                           !.terminal = resolved \/ is_done \/ child.depth >= MaxDepth])

MctsExpand ==
    /\ mctsAt = "expand" /\ mctsTries < BranchFactor
    /\ mctsTries' = mctsTries + 1
    /\ \/ \E command \in MctsCommand \cup {NoCommand} : MctsCandidate(command)
       \/ /\ MctsChildren(mctsCurrent) # {}      \* a repeated candidate
          /\ UNCHANGED <<mctsTree, mctsBest, mctsGuest>>
    /\ UNCHANGED <<mctsAt, mctsSim, mctsCurrent, mctsLeaf>>

\* All completions are in, or the policy failed.
MctsExpanded ==
    /\ mctsAt = "expand"
    /\ mctsAt' = "backpropagate"
    /\ UNCHANGED <<mctsSim, mctsTree, mctsCurrent, mctsTries, mctsGuest, mctsBest, mctsLeaf>>

MctsBackpropagate ==
    /\ mctsAt = "backpropagate"
    /\ mctsTree' = [n \in DOMAIN mctsTree |->
           IF n \in ToSet(MctsPath(mctsCurrent)) \cup {1}
           THEN [mctsTree[n] EXCEPT !.visits = @ + 1] ELSE mctsTree[n]]
    /\ mctsSim' = mctsSim + 1
    /\ mctsAt' = "select"
    /\ mctsCurrent' = 1
    /\ UNCHANGED <<mctsTries, mctsGuest, mctsBest, mctsLeaf>>

\* The most visited child, the first of equals; and the leaf reached along such children.
MctsFavourite(n) ==
    CHOOSE c \in MctsChildren(n) : \A d \in MctsChildren(n) :
        \/ mctsTree[c].visits > mctsTree[d].visits
        \/ mctsTree[c].visits = mctsTree[d].visits /\ c <= d
MctsDescents ==
    LET down[n \in DOMAIN mctsTree] ==
            IF MctsChildren(n) = {} THEN n ELSE down[MctsFavourite(n)]
    IN  down
MctsMostVisited(n) == MctsDescents[n]

MctsExtract ==
    /\ mctsAt = "select" /\ mctsSim > MaxSimulations
    /\ mctsAt' = "over"
    /\ mctsLeaf' = IF mctsBest # 0 THEN mctsBest ELSE MctsMostVisited(1)
    /\ UNCHANGED <<mctsSim, mctsTree, mctsCurrent, mctsTries, mctsGuest, mctsBest>>

\* A revert or a snapshot raises: out of the search, with nothing.
MctsRaise ==
    /\ mctsAt = "expand"
    /\ mctsAt' = "raised"
    /\ UNCHANGED <<mctsSim, mctsTree, mctsCurrent, mctsTries, mctsGuest, mctsBest, mctsLeaf>>

MctsSimulation ==
    /\ mctsSim <= MaxSimulations
    /\ \/ MctsSelectChild
       \/ MctsSelectLeaf
       \/ MctsExpand
       \/ MctsExpanded
       \/ MctsBackpropagate

MctsNext == MctsSimulation \/ MctsExtract \/ MctsRaise

MctsSpec == MctsInit /\ [][MctsNext]_mctsVars
MctsFairSpec == MctsSpec /\ WF_mctsVars(MctsNext)

----------------------------------------------------------------------------
(* Correctness *)

MctsVerified == {n \in DOMAIN mctsTree : mctsTree[n].verified}

\* What the search returns is verified if anything it ran was, and then no verified node is
\* nearer to the root; in between, no terminal node was expanded
\* (mcts_search.py:262-270, 289-297).
BestIsShallowest ==
    /\ \A n \in MctsVerified : mctsBest # 0 /\ mctsTree[mctsBest].depth <= mctsTree[n].depth
    /\ mctsBest # 0 => mctsBest \in MctsVerified
    /\ mctsAt = "over" => (mctsTree[mctsLeaf].verified <=> MctsVerified # {})
    /\ \A n \in DOMAIN mctsTree : mctsTree[n].terminal \/ mctsTree[n].pruned => MctsChildren(n) = {}

\* The snapshot of a node holds the effects of the commands on the way to it and of no
\* other, whatever siblings ran in the same guest before (mcts_search.py:226-243).
SnapshotsAreReplays ==
    \A n \in DOMAIN mctsTree :
        ~mctsTree[n].pruned =>
            LET path == MctsPath(n)
            IN  mctsTree[n].snap = [k \in DOMAIN path |-> mctsTree[path[k]].command]

\* The root was visited once in every simulation, a node it has run once more than the
\* simulations that went through it (mcts_search.py:255-283).
VisitsAddUp ==
    /\ mctsTree[1].visits = mctsSim - 1
    /\ \A n \in DOMAIN mctsTree \ {1} : ~mctsTree[n].pruned =>
           /\ mctsTree[n].visits >= 1
           /\ mctsTree[n].visits <= mctsTree[mctsTree[n].parent].visits + 1

MctsSound == BestIsShallowest /\ SnapshotsAreReplays /\ VisitsAddUp

\* A search ends, with a trajectory or an exception, or is caught at a node whose children
\* are all pruned (mcts_search.py:205-283).
SearchEndsOrSticks == <>(mctsAt \in {"over", "raised"} \/ MctsStuck)

\* "Select best child according to UCT score, skipping pruned branches."
\* (mcts_search.py:83): the selection gets past them, and the search ends.
SearchEnds == <>(mctsAt \in {"over", "raised"})

=============================================================================
