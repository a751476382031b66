\* AerospikeStorage, two callers: a setnx whose put times out after the
\* server applied it is retried by run_with_retry_on_timeouts.
CONSTANTS
  Clients <- MCClients
  Keys <- MCKeys
  Values <- MCValues
  Buckets <- MCOwnBuckets
  BucketOf <- MCOwnBucketOf
  Layered = FALSE
  RETRY_COUNT = 2
  MaxCalls = 2
  NoValue = NoValue
  NoRecord = NoRecord
  k1 = k1
  k2 = k2
  v1 = v1
  v2 = v2
  c1 = c1
  c2 = c2
  b1 = b1
  b2 = b2
SPECIFICATION Spec
PROPERTY SetnxTrueIffWritten
CHECK_DEADLOCK FALSE
