\* Names, sats and numeric columns, written and read.
SPECIFICATION Spec
CONSTANTS
    None = None
    Spacer = Spacer
    Other = Other
INVARIANTS ReadsNames LengthsOpenInTurn PositionExact RarityOfEvents NotationsExact ReadsBack
CHECK_DEADLOCK FALSE
