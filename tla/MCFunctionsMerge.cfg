CONSTANTS
    MaxSide = 1
    MaxItems = 0
    MaxToggled = 0
    MaxWindow = 0
    MaxPasses = 4
    MaxVariance = 1
    MaxMatched = 1
    OFFSET_BITS = 6
    Blocks <- MCBlocks
SPECIFICATION Spec
\* Choosing the arguments is the only step.
CHECK_DEADLOCK FALSE
INVARIANTS
    MergedAreAdjacent
