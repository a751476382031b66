\* Safety under full validation: orders and the rollup tree are recomputed, no
\* obsolete order roots, fresh or upgraded storage, one crash; and progress.
CONSTANTS
  CommitteeObjects <- MCObjectsWithRollup
  ValidateOrders = TRUE
  ValidateRollup = TRUE
  NONE = NONE
  MaxBatch = 2
  Idx <- MCIdx
  Leaves <- MCLeaves
  EmptyLeaf = 0
  AllowObsoleteRoot = FALSE
  AllowUpgrade = TRUE
  OperatorModifications <- MCOperatorModifications
  MaxCrashes = 1
  OBSOLETE_ORDER_TREE_ROOT = OBSOLETE_ORDER_TREE_ROOT
  NoInfo = NoInfo
  NotCreated = NotCreated
SPECIFICATION Spec
INVARIANT TypeOK
INVARIANT ApprovedClaimsStored
INVARIANT NextBatchIdSound
INVARIANT StoredRootsCorrect
INVARIANT PrevBatchInfoAvailable
PROPERTY BatchInfoWriteOnce
PROPERTY Progress
\* stop() makes the process exit: a stopped committee really stops.
CHECK_DEADLOCK FALSE
