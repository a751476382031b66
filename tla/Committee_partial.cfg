\* Partial validation: orders and the rollup tree are signed blindly, and the
\* operator may declare the obsolete order root.
CONSTANTS
  CommitteeObjects <- MCObjectsWithRollup
  ValidateOrders = FALSE
  ValidateRollup = FALSE
  NONE = NONE
  MaxBatch = 2
  Idx <- MCIdx
  Leaves <- MCLeaves
  EmptyLeaf = 0
  AllowObsoleteRoot = TRUE
  AllowUpgrade = TRUE
  OperatorModifications <- MCOperatorModifications
  MaxCrashes = 1
  OBSOLETE_ORDER_TREE_ROOT = OBSOLETE_ORDER_TREE_ROOT
  NoInfo = NoInfo
  NotCreated = NotCreated
SPECIFICATION Spec
INVARIANT ApprovedClaimsStored
INVARIANT StoredRootsCorrect
\* stop() makes the process exit: a stopped committee really stops.
CHECK_DEADLOCK FALSE
