CONSTANTS
    TARGET = 4
    PHASES = 2
    FILTER_SIZE = 3
    BUFFER = 8
    MIN_RATE = 1
    HAS_RESAMPLER = TRUE
    Rates = {1, 2, 4, 5, 6}
    Channels = {0, 1, 3}
    Feeds = {0, 1, 2, 5, 17}
    MaxStream = 30
SPECIFICATION Spec
INVARIANTS
    NothingMisplaced
    NoDrift
    BatchIsIdeal
    NothingDropped
PROPERTIES
    ConsumeReturns
    FlushStopsAtFullOutput
