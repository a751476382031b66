------------------------- MODULE MCAerospikeStorage -------------------------
(* Two keys, either in buckets of their own (AerospikeStorage) or in one   *)
(* shared bucket (AerospikeLayeredStorage with colliding bucket keys).      *)
EXTENDS AerospikeStorage, TLC

CONSTANTS k1, k2, v1, v2, c1, c2, b1, b2

MCKeys == {k1, k2}
MCValues == {v1, v2}
MCClients == {c1, c2}
MCOwnBuckets == {b1, b2}
MCOwnBucketOf == (k1 :> b1) @@ (k2 :> b2)
MCSharedBuckets == {b1}
MCSharedBucketOf == (k1 :> b1) @@ (k2 :> b1)

=============================================================================
