------------------------------ MODULE CrossHost ------------------------------
(***************************************************************************)
(* engine/federation/cross_host_coordinator.py: remediation sessions over  *)
(* the nodes of one topology.                                              *)
(*                                                                         *)
(* Each engine has a raft node; sessions of one engine share it.  A node's *)
(* lock table is its own: acquire_lock and release_lock read and write     *)
(* that table only, and a heartbeat of a leader copies an entry into       *)
(* another.  Who leads when is module ClusterRaft; here any node may send. *)
(* A lock lasts 60 s and is not renewed: an entry may expire at any        *)
(* moment.  Sessions of two engines may so be inside at once, the finding  *)
(* of module ClusterRaft; this module is about what a session does to the  *)
(* nodes, and to the lock.                                                 *)
(*                                                                         *)
(* What a node holds is one value: what it was at first, or what the last  *)
(* repair left.  The tags of two sessions' snapshots are taken to differ.  *)
(* The repairs are execute calls, which never raise and whose results are  *)
(* ignored; snapshots and reverts raise when they fail.                    *)
(***************************************************************************)
EXTENDS Naturals, Sequences, FiniteSets

CONSTANTS
    ChEngine,       \* engines, each with its raft node
    ChSession,      \* sessions
    ChNodes         \* number of nodes; they are visited in order

ChNode == 1 .. ChNodes
ChNobody == "nobody"
ASSUME CrossHostAssumption == ChNodes \in Nat \ {0} /\ ChNobody \notin ChEngine

VARIABLES
    chEngineOf,     \* the engine each session runs in
    chAt,           \* where it is
    chDone,         \* nodes the current loop has visited
    chTable,        \* the engine each raft node's lock table names
    chNode,         \* what each node holds: the session that repaired it last, or "initial"
    chSnap,         \* each session's snapshots: what they saw
    chResult,       \* success, reverted_on_failure
    chStart,        \* history: the nodes when the session got the lock
    chBack,         \* history: the number of its reverts that have returned
    chMet           \* history: the sessions that were inside with it, and whether its lock
                    \* expired or was replaced

chVars == <<chEngineOf, chAt, chDone, chTable, chNode, chSnap, chResult, chStart, chBack, chMet>>

ChContent == ChSession \cup {"initial"}
ChInside == {s \in ChSession : chAt[s] \in {"snapshot", "repair", "verify", "revert", "release"}}

ChTypeOK ==
    /\ chEngineOf \in [ChSession -> ChEngine]
    /\ chAt \in [ChSession -> {"start", "snapshot", "repair", "verify", "revert", "release",
                               "returned", "raised"}]
    /\ chDone \in [ChSession -> 0 .. ChNodes]
    /\ chTable \in [ChEngine -> ChEngine \cup {ChNobody}]
    /\ chNode \in [ChNode -> ChContent]
    /\ chSnap \in [ChSession -> [ChNode -> ChContent \cup {"none"}]]
    /\ chResult \in [ChSession -> {"none", "locked out", "success", "reverted", "exception"}]
    /\ chStart \in [ChSession -> [ChNode -> ChContent]]
    /\ chBack \in [ChSession -> 0 .. ChNodes]
    /\ chMet \in [ChSession -> [others : SUBSET ChSession, lost : BOOLEAN]]

ChInitially == [n \in ChNode |-> "initial"]
ChUnseen == [n \in ChNode |-> "none"]

ChInit ==
    /\ chEngineOf \in [ChSession -> ChEngine]
    /\ chAt = [s \in ChSession |-> "start"]
    /\ chDone = [s \in ChSession |-> 0]
    /\ chTable = [e \in ChEngine |-> ChNobody]
    /\ chNode = ChInitially
    /\ chSnap = [s \in ChSession |-> ChUnseen]
    /\ chResult = [s \in ChSession |-> "none"]
    /\ chStart = [s \in ChSession |-> ChInitially]
    /\ chBack = [s \in ChSession |-> 0]
    /\ chMet = [s \in ChSession |-> [others |-> {}, lost |-> FALSE]]

----------------------------------------------------------------------------
(* The steps of a session *)

ChGoTo(s, at) == chAt' = [chAt EXCEPT ![s] = at] /\ chDone' = [chDone EXCEPT ![s] = 0]
ChVisit(s) == chDone' = [chDone EXCEPT ![s] = @ + 1] /\ UNCHANGED chAt
\* An exception: the finally releases the lock, and the session raises.
ChRaise(s) == ChGoTo(s, "release") /\ chResult' = [chResult EXCEPT ![s] = "exception"]

\* acquire_lock: refused if the own table names another engine.
ChAcquire(s) ==
    LET e == chEngineOf[s]
    IN  /\ chAt[s] = "start"
        /\ IF chTable[e] \in {ChNobody, e}
           THEN /\ chTable' = [chTable EXCEPT ![e] = e]
                /\ ChGoTo(s, "snapshot")
                /\ chStart' = [chStart EXCEPT ![s] = chNode]
                /\ chMet' = [r \in ChSession |->
                       [chMet[r] EXCEPT !.others = IF r = s THEN ChInside
                                                   ELSE IF r \in ChInside THEN @ \cup {s} ELSE @]]
                /\ UNCHANGED chResult
           ELSE /\ ChGoTo(s, "returned")
                /\ chResult' = [chResult EXCEPT ![s] = "locked out"]
                /\ UNCHANGED <<chTable, chStart, chMet>>
        /\ UNCHANGED <<chEngineOf, chNode, chSnap, chBack>>

ChSnapshot(s) ==
    /\ chAt[s] = "snapshot"
    /\ LET n == chDone[s] + 1
       IN  IF n > ChNodes THEN ChGoTo(s, "repair") /\ UNCHANGED <<chSnap, chResult>>
           ELSE \/ /\ chSnap' = [chSnap EXCEPT ![s][n] = chNode[n]]
                   /\ ChVisit(s)
                   /\ UNCHANGED chResult
                \/ ChRaise(s) /\ UNCHANGED chSnap
    /\ UNCHANGED <<chEngineOf, chTable, chNode, chStart, chBack, chMet>>

ChRepair(s) ==
    /\ chAt[s] = "repair"
    /\ LET n == chDone[s] + 1
       IN  IF n > ChNodes THEN ChGoTo(s, "verify") /\ UNCHANGED chNode
           ELSE chNode' \in {chNode, [chNode EXCEPT ![n] = s]} /\ ChVisit(s)
    /\ UNCHANGED <<chEngineOf, chTable, chSnap, chResult, chStart, chBack, chMet>>

\* scenario.verify: whatever it looks at, it says TRUE, FALSE or raises.
ChVerify(s) ==
    /\ chAt[s] = "verify"
    /\ \/ ChGoTo(s, "release") /\ chResult' = [chResult EXCEPT ![s] = "success"]
       \/ ChGoTo(s, "revert") /\ UNCHANGED chResult
       \/ ChRaise(s)
    /\ UNCHANGED <<chEngineOf, chTable, chNode, chSnap, chStart, chBack, chMet>>

\* One node after the other; a revert that raises leaves the rest as it is.
FaultyRevert(s) ==
    /\ chAt[s] = "revert"
    /\ LET n == chDone[s] + 1
       IN  IF n > ChNodes
           THEN /\ ChGoTo(s, "release")
                /\ chResult' = [chResult EXCEPT ![s] = "reverted"]
                /\ UNCHANGED <<chNode, chBack>>
           ELSE /\ chNode' \in {chNode, [chNode EXCEPT ![n] = chSnap[s][n]]}
                /\ chBack' = [chBack EXCEPT ![s] = n]
                /\ ChVisit(s)
                /\ UNCHANGED chResult
    /\ UNCHANGED <<chEngineOf, chTable, chSnap, chStart, chMet>>
ChRevert(s) ==
    /\ chAt[s] = "revert"
    /\ LET n == chDone[s] + 1
       IN  IF n > ChNodes
           THEN /\ ChGoTo(s, "release")
                /\ chResult' = [chResult EXCEPT ![s] = "reverted"]
                /\ UNCHANGED <<chNode, chBack>>
           ELSE \/ /\ chNode' = [chNode EXCEPT ![n] = chSnap[s][n]]
                   /\ chBack' = [chBack EXCEPT ![s] = n]
                   /\ ChVisit(s)
                   /\ UNCHANGED chResult
                \/ /\ ChRaise(s)
                   /\ chNode' \in {chNode, [chNode EXCEPT ![n] = chSnap[s][n]]}
                   /\ UNCHANGED chBack
    /\ UNCHANGED <<chEngineOf, chTable, chSnap, chStart, chMet>>

\* release_lock: only an entry of the own engine, in its own table.  What the session knew
\* ends with it.
ChRelease(s) ==
    LET e == chEngineOf[s]
    IN  /\ chAt[s] = "release"
        /\ chTable' = IF chTable[e] = e THEN [chTable EXCEPT ![e] = ChNobody] ELSE chTable
        /\ ChGoTo(s, IF chResult[s] = "exception" THEN "raised" ELSE "returned")
        /\ chSnap' = [chSnap EXCEPT ![s] = ChUnseen]
        /\ chStart' = [chStart EXCEPT ![s] = ChInitially]
        /\ chBack' = [chBack EXCEPT ![s] = 0]
        /\ chMet' = [chMet EXCEPT ![s] = [others |-> {}, lost |-> FALSE]]
        /\ UNCHANGED <<chEngineOf, chNode, chResult>>

----------------------------------------------------------------------------
(* The lock tables *)

\* The table of engine e now names `holder', whoever works under the entry it had.
ChReplace(e, holder) ==
    /\ chTable' = [chTable EXCEPT ![e] = holder]
    /\ chMet' = [s \in ChSession |->
           [chMet[s] EXCEPT !.lost = @ \/ (s \in ChInside /\ chEngineOf[s] = e)]]
    /\ UNCHANGED <<chEngineOf, chAt, chDone, chNode, chSnap, chResult, chStart, chBack>>

\* 60 s are over.
ChExpire(e) == chTable[e] # ChNobody /\ ChReplace(e, ChNobody)

\* A heartbeat of e reaches f: the entry of e's table replaces that of f's, though its
\* holder may have released it; a release is not told to anybody.
ChHeartbeat(e, f) ==
    /\ chTable[e] # ChNobody /\ chTable[e] # chTable[f]
    /\ ChReplace(f, chTable[e])

ChNext ==
    \/ \E s \in ChSession :
           ChAcquire(s) \/ ChSnapshot(s) \/ ChRepair(s) \/ ChVerify(s) \/ ChRevert(s) \/ ChRelease(s)
    \/ \E e \in ChEngine : ChExpire(e)
    \/ \E e, f \in ChEngine : ChHeartbeat(e, f)

ChSpec == ChInit /\ [][ChNext]_chVars

----------------------------------------------------------------------------
(* Correctness *)

\* While a session works, its engine's table names the engine, unless the entry expired or
\* a heartbeat replaced it, or another session of the same engine was inside with it: the
\* release of one, however late, takes the lock of the other, but never that of a session
\* of another engine (cross_host_coordinator.py:63, 123-124).
ChLockKept ==
    \A s \in ChInside :
        \/ chTable[chEngineOf[s]] = chEngineOf[s]
        \/ chMet[s].lost
        \/ \E r \in chMet[s].others : chEngineOf[r] = chEngineOf[s]

\* What a session that met no other leaves, however it ends: every node whose revert
\* returned is what it was when the session got the lock, every other node is that or what
\* the session's own repair made of it, and only a session all of whose reverts returned
\* says that it reverted.  A session that raised may leave repaired nodes behind
\* (cross_host_coordinator.py:80-127).
ChAllOrNothing ==
    \A s \in ChSession : chAt[s] = "release" /\ chMet[s].others = {} =>
        /\ \A n \in ChNode : chNode[n] \in {chStart[s][n], s}
        /\ \A n \in 1 .. chBack[s] : chNode[n] = chStart[s][n]
        /\ chResult[s] = "reverted" => chBack[s] = ChNodes

ChSound == ChLockKept /\ ChAllOrNothing

=============================================================================
