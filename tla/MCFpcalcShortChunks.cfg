CONSTANTS
    BUFFER = 4
    FRAME = 3
    OVERLAP = 1
    COEFFICIENTS = 2
    WIDTH = 1
    REMOVE_SILENCE = FALSE
    MaxFeed = 0
    MaxStream = 90
    MaxQuiet = 0
    SIZE_T = 256
    Options <- MCShortChunks
    Files = 1
    Packets <- MCPackets
    Endless <- MCEndless
    FrameSizes = {7}
SPECIFICATION Spec
\* The program exits.
CHECK_DEADLOCK FALSE
INVARIANTS
    ChunksOfThisDuration
