---------------------------- MODULE MCClusterRaft ----------------------------
(***************************************************************************)
(* Three hosts, one lockable resource.  Every host was built with the full *)
(* peer list; the mesh is complete except that a and c have not registered *)
(* each other when the cluster starts to be used.                          *)
(***************************************************************************)
EXTENDS ClusterRaft, TLC

CONSTANTS a, b, c

MCNode == {a, b, c}
MCPeers == [i \in MCNode |-> MCNode \ {i}]
MCLinks == [i \in MCNode |-> IF i = b THEN {a, c} ELSE {b}]

\* a and c are interchangeable.
Symmetry == Permutations({a, c})

ASSUME FullMembership

==============================================================================
