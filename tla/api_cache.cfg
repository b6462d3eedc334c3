\* One client, four requests, two roll backs.
SPECIFICATION Spec
CONSTANTS
    None = None
    Chains <- MCChains
    WithRows <- MCWithRows
    MaxRollBacks = 2
    MaxAsks = 4
INVARIANT NotModifiedTrue
CHECK_DEADLOCK FALSE
