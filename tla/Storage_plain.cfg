\* AerospikeStorage: every key in a record of its own; two callers, timeouts.
CONSTANTS
  Clients <- MCClients
  Keys <- MCKeys
  Values <- MCValues
  Buckets <- MCOwnBuckets
  BucketOf <- MCOwnBucketOf
  Layered = FALSE
  RETRY_COUNT = 2
  MaxCalls = 4
  NoValue = NoValue
  NoRecord = NoRecord
  k1 = k1
  k2 = k2
  v1 = v1
  v2 = v2
  c1 = c1
  c2 = c2
  b1 = b1
  b2 = b2
SPECIFICATION Spec
INVARIANT TypeOK
INVARIANT SetnxSingleWinner
PROPERTY GetReadsStored
PROPERTY CallsReturn
\* The storage is passive: once the callers made their MaxCalls calls and
\* these returned, nothing is left to do.
CHECK_DEADLOCK FALSE
