--------------------------- MODULE MCFleetRollout ---------------------------
(***************************************************************************)
(* Four nodes under plans that grow (1, 2, 4 nodes), that are not sorted   *)
(* (the second tier is empty), that stop short of the whole fleet, and     *)
(* that round to the same node twice; with a threshold that no error       *)
(* passes, one that one error in two meets exactly, and one in between.    *)
(***************************************************************************)
EXTENDS FleetRollout

MCTierPlans == {<<10, 50, 100>>, <<50, 25, 100>>, <<10, 60>>, <<10, 20, 100>>}
MCThresholds == {2, 34, 50}
=============================================================================
