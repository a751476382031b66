\* Full validation with obsolete order roots declared by the operator: the
\* committee skips the comparison of the order root but stores the root it
\* computed from the data it was sent.
CONSTANTS
  CommitteeObjects <- MCObjectsWithRollup
  ValidateOrders = TRUE
  ValidateRollup = TRUE
  NONE = NONE
  MaxBatch = 2
  Idx <- MCIdx
  Leaves <- MCLeaves
  EmptyLeaf = 0
  AllowObsoleteRoot = TRUE
  AllowUpgrade = FALSE
  OperatorModifications <- MCOperatorModifications
  MaxCrashes = 0
  OBSOLETE_ORDER_TREE_ROOT = OBSOLETE_ORDER_TREE_ROOT
  NoInfo = NoInfo
  NotCreated = NotCreated
SPECIFICATION Spec
INVARIANT ApprovedClaimsStored
\* stop() makes the process exit: a stopped committee really stops.
CHECK_DEADLOCK FALSE
