\* A stop between a roll back and the new block leaves a gap.
SPECIFICATION Spec
CONSTANTS
    a1 = a1
    a2 = a2
    a3 = a3
    a4 = a4
    b2 = b2
    b3 = b3
    b4 = b4
    b5 = b5
    c3 = c3
    c4 = c4
    c5 = c5
    c6 = c6
    None = None
    Blocks <- MCBlocks
    Chain <- MCChain
    First = a1
    MaxCrashes = 2
INVARIANT AtChainTip
CHECK_DEADLOCK FALSE
