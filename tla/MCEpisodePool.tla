---------------------------- MODULE MCEpisodePool ----------------------------
(***************************************************************************)
(* Two jobs on one Orchestrator, three episodes of at most two steps: more *)
(* coroutines than slots, episodes that overlap, a queue that is longer    *)
(* than the slots, and workers that find their queue empty.                *)
(***************************************************************************)
EXTENDS EpisodePool

CONSTANTS t1, t2, t3, bench, collect

MCBatch == [j \in {bench, collect} |-> IF j = bench THEN <<t1, t2>> ELSE <<t3>>]
=============================================================================
