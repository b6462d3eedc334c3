\* The tables behind the node's chain: forks, restarts, and blocks dropped and scanned again.
SPECIFICATION FairMaintenance
CONSTANTS
    a1 = a1
    a2 = a2
    a3 = a3
    a4 = a4
    b2 = b2
    b3 = b3
    b4 = b4
    b5 = b5
    c3 = c3
    c4 = c4
    c5 = c5
    c6 = c6
    None = None
    Blocks <- MCBlocks
    Chain <- MCChain
    First = a1
    MaxCrashes = 2
    MaxDrops = 1
INVARIANTS OneBlockPerHeight TablesFollowObserver
INVARIANTS MaintenanceTypeOK MaintenanceExact SumsExact
PROPERTY CatchesUp
CHECK_DEADLOCK FALSE
