\* Premine, mints, edicts and cenotaphs followed through the caches, restarts included.
SPECIFICATION ForwardSpec
CONSTANTS
    A = A
    B = B
    etch = etch
    split = split
    join = join
    burn = burn
    mint1 = mint1
    mint2 = mint2
    mint3 = mint3
    free = free
    other = other
    None = None
    Word64 = 16
    RuneIds <- MCRuneIds
    StartHeight <- MCStartHeight
    GenesisRune <- MCGenesisRune
    Txs <- LedgerTxs
    Names <- MCNames
    TxData <- LedgerTxData
    LruSize = 1
    MaxBlocks = 3
    MaxBlockTxs = 3
    MaxReorgs = 2
INVARIANTS InputLookupExact SupplyMatchesLedger BalancesMatchLedger OutputsBacked
INVARIANTS RecordedMintsCapped RuneNumbersOrdered
PROPERTY ImplementsLedger
CHECK_DEADLOCK FALSE
