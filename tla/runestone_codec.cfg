\* Runestones enciphered and read again, and any other short payloads and bytes read.
SPECIFICATION ScriptSpec
CONSTANTS
    None = None
    MaxU32 = 4
    MaxU64 = 7
    MaxU128 = 31
    MaxDivisibility = 3
    MaxSpacers = 3
    Chars <- MCChars
    Payloads = {}
    Outputs = {}
    Runestones <- ScriptRunestones
    Radix = 4
    TopRadix = 2
    MaxGroups = 3
    ChunkSize = 3
    Transactions <- MCTransactions
    Neighbours <- MCNeighbours
INVARIANTS RoundTrip RunestoneUsable CenotaphIffMeaningless ReadsWhatIsMeant
PROPERTY ImplementsRunestone
CHECK_DEADLOCK FALSE
