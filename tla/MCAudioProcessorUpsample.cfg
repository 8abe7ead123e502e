CONSTANTS
    TARGET = 4
    PHASES = 2
    FILTER_SIZE = 3
    BUFFER = 8
    MIN_RATE = 1
    HAS_RESAMPLER = TRUE
    Rates = {2}
    Channels = {1}
    Feeds = {1, 2, 5}
    MaxStream = 16
SPECIFICATION Spec
PROPERTIES
    FlushProcessesAll
