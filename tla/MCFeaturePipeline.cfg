CONSTANTS
    RING = 4
    LENGTH = 3
    MAX_ROWS = 4
    COLUMNS = 2
    Classifiers <- MCClassifiers
    Weighted <- MCWeighted
    MaxStream = 12
SPECIFICATION PipelineSpec
INVARIANTS
    IInv
    RowsOfStream
    ItemsOfWholeStream
    AreaIsSum
    AssertionsHold
PROPERTIES
    EachSumIsLastWindow
