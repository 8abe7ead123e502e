CONSTANTS
    WINDOW = 2
    HALF = 4
    Samples <- MCAllSamples
    Thresholds = {0, 1, 2}
    MaxChunk = 2
    MaxStream = 5
SPECIFICATION Spec
PROPERTIES
    FirstStreamTrimmed
