CONSTANTS
    MaxSide = 7
    MaxItems = 3
    MaxToggled = 4
    MaxWindow = 16
    MaxPasses = 4
    MaxVariance = 70
    MaxMatched = 3
    OFFSET_BITS = 6
    Blocks <- MCBlocks
SPECIFICATION Spec
\* Choosing the arguments is the only step.
CHECK_DEADLOCK FALSE
INVARIANTS
    FiltersTile
    RoundTrip
    HeaderAgrees
    TruncatedIsRefused
    TrailingIsIgnored
    HashIsMajority
    BoxFilterReflects
    PassesAreNearest
    HistogramCountsPairs
    BestAlignmentWins
    SegmentsTile
