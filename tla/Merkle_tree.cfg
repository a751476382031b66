\* Four-leaf trees, updates of up to two leaves, up to four trees returned, one call raising midway.
SPECIFICATION Spec
CONSTANTS
  Height = 2
  LeafValues <- MCLeafValues
  EmptyLeaf = 0
  MaxMods = 2
  MaxTrees = 4
  MaxFailures = 1
INVARIANT TypeOK
INVARIANT UpdateMatchesReference
INVARIANT HistoricTreesReadable
INVARIANT DumpExact
INVARIANT DumpInfoRootsExact
\* The tree is a library: it stops when its callers stop calling it.
CHECK_DEADLOCK FALSE
