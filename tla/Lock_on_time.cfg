\* Three clients; every holder extends or releases the lock before its TTL runs out.
CONSTANTS
  Clients <- MCClients
  TTL = 3
  N_RETRIES = 3
  MaxLocks = 6
  HoldersOnTime = TRUE
  NoRecord = NoRecord
  c1 = c1
  c2 = c2
  c3 = c3
SPECIFICATION Spec
INVARIANT TypeOK
INVARIANT MutualExclusion
PROPERTY LockCallsEnd
