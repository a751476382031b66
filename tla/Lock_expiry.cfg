\* Three clients; a holder may be slower than the TTL of its lock.
CONSTANTS
  Clients <- MCClients
  TTL = 2
  N_RETRIES = 2
  MaxLocks = 4
  HoldersOnTime = FALSE
  NoRecord = NoRecord
  c1 = c1
  c2 = c2
  c3 = c3
SPECIFICATION Spec
SYMMETRY MCSymmetry
INVARIANT MutualExclusion
