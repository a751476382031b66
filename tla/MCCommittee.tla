---------------------------- MODULE MCCommittee ----------------------------
(* Model-checking instance of Committee: a vault, an order and a rollup    *)
(* tree of one leaf each, leaves 0 (empty) and 1, two operator batches.   *)
EXTENDS Committee

MCIdx == {0}
MCLeaves == {0, 1}
MCObjectsWithRollup == {"vault", "order", "rollup_vault"}
MCObjectsNoRollup == {"vault", "order"}
MCOperatorModifications == {<<>>, 0 :> 1}
=============================================================================
