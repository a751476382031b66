--------------------------- MODULE MCStateObjects ---------------------------
EXTENDS StateObjects

CONSTANTS p1, o1, v1

MCPositionIds == {p1}
MCAssetIds == {0, 1}
MCStarkKeys == {0, 2}
MCTokens == {3}
MCPerpFills == {-1, 1}
MCOrderDiffs == {-1, 1}
MCBalanceLowerBound == -8
MCFundingIndexLowerBound == -1
MCInitBalances == {-1, 3}
MCVaultDiffs == {-1, 1}
=============================================================================
