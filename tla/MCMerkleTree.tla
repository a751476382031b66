---------------------------- MODULE MCMerkleTree ----------------------------
(* Trees of height 2 (four leaves) over the leaf facts 0 (empty) and 1.    *)
EXTENDS MerkleTree

MCLeafValues == {0, 1}
=============================================================================
