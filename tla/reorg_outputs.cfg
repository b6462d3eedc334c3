\* A block that comes back after a reorganisation doubles its cached outputs.
SPECIFICATION Spec
CONSTANTS
    A = A
    B = B
    etch = etch
    split = split
    join = join
    burn = burn
    mint1 = mint1
    mint2 = mint2
    mint3 = mint3
    free = free
    other = other
    None = None
    Word64 = 16
    RuneIds <- MCRuneIds
    StartHeight <- MCStartHeight
    GenesisRune <- MCGenesisRune
    Txs <- ReorgTxs
    Names <- MCNames
    TxData <- ReorgTxData
    LruSize = 1
    MaxBlocks = 3
    MaxBlockTxs = 2
    MaxReorgs = 2
INVARIANT InputLookupExact
CHECK_DEADLOCK FALSE
