\* A premine with no output to go to leaves the ledger without a burn entry.
SPECIFICATION Spec
CONSTANTS
    A = A
    B = B
    None = None
    Word64 = 16
    MaxEdicts = 2
    RuneIds <- MCRuneIds
    Location <- MCLocation
    InputChoices <- NoInputs
    OutputChoices <- Unaddressed
    PointerChoices <- NoPointer
    EtchingChoices <- MCEtchingChoices
    MintChoices <- MCMintChoices
    EdictChoices <- MCEdictChoices
    KnownRunes <- MCKnownRunes
    MintTotals = {1, 2}
INVARIANT BurnsRecorded
CHECK_DEADLOCK FALSE
