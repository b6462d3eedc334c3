\* The rows of confirmed transactions stay.
SPECIFICATION Spec
CONSTANTS
    parent = parent
    child = child
    cenotaph = cenotaph
    None = None
    Txs <- MCTxs
    Parent <- MCParent
    Kind <- MCKind
    MaxQueue = 2
    MaxCrashes = 1
INVARIANT ConfirmedRemoved
CHECK_DEADLOCK FALSE
