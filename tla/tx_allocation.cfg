\* One transaction mined, and beside it the same transaction pending in the mempool.
SPECIFICATION ForecastSpec
CONSTANTS
    A = A
    B = B
    None = None
    Word64 = 16
    MaxEdicts = 2
    RuneIds <- MCRuneIds
    Location <- MCLocation
    InputChoices <- ForecastInputChoices
    OutputChoices <- MCOutputChoices
    PointerChoices <- ForecastPointerChoices
    EtchingChoices <- MCEtchingChoices
    MintChoices <- MCMintChoices
    EdictChoices <- MCEdictChoices
    KnownRunes <- MCKnownRunes
    MintTotals = {1, 2}
INVARIANTS NoInflation SendersAccounted CenotaphBurnsAll
INVARIANTS ForecastMatches ForecastWithinInputs
PROPERTIES EdictAllocation RemainderToPointer
CHECK_DEADLOCK FALSE
