\* The follower's set and table over restarts.
SPECIFICATION FairSpec
CONSTANTS
    parent = parent
    child = child
    cenotaph = cenotaph
    None = None
    Txs <- MCTxs
    Parent <- MCParent
    Kind <- MCKind
    MaxQueue = 2
    MaxCrashes = 1
INVARIANTS RowsCached RowsOnce
PROPERTIES ScanPrunes FollowerStarts
CHECK_DEADLOCK FALSE
