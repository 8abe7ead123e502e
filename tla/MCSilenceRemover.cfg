CONSTANTS
    WINDOW = 2
    HALF = 4
    Samples <- MCSamples
    Thresholds = {0, 1, 2}
    MaxChunk = 2
    MaxStream = 5
SPECIFICATION Spec
INVARIANTS
    OnlyLeadingRemoved
PROPERTIES
    FirstStreamTrimmed
