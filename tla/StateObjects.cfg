\* One position holding up to two synthetic assets, funding indices that
\* change twice, one vault and one order of each kind.  Ranges are the
\* fields' ranges scaled down: balances in -8 .. 7, funding indices in
\* -1 .. 0, FIXED_POINT_UNIT = 4.
CONSTANTS
  p1 = p1  o1 = o1  v1 = v1
  PositionIds <- MCPositionIds
  PublicKeys = {1}
  AssetIds <- MCAssetIds
  BALANCE_LOWER_BOUND <- MCBalanceLowerBound
  BALANCE_UPPER_BOUND = 8
  FUNDING_INDEX_LOWER_BOUND <- MCFundingIndexLowerBound
  FUNDING_INDEX_UPPER_BOUND = 1
  ASSET_ID_UPPER_BOUND = 2
  N_ASSETS_UPPER_BOUND = 4
  FIXED_POINT_UNIT = 4
  FIELD_PRIME = 67
  TO_BYTES_BOUND = 256
  AMOUNT_UPPER_BOUND = 3
  InitCollaterals = {0}
  InitBalances <- MCInitBalances
  MaxTicks = 2
  MaxApply = 2
  PerpOrderIds = {o1}
  PerpFills <- MCPerpFills
  PerpCapacities = {1}
  VaultIds = {v1}
  StarkKeys <- MCStarkKeys
  Tokens <- MCTokens
  VaultDiffs <- MCVaultDiffs
  MAX_AMOUNT = 2
  OrderIds = {o1}
  OrderDiffs <- MCOrderDiffs
  OrderCapacities = {1}
SPECIFICATION Spec
INVARIANT TypeOK
INVARIANT LeafEncodingExact
INVARIANT FundingRounding
