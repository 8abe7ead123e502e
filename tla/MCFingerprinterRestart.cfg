CONSTANTS
    BUFFER = 3
    FRAME = 5
    OVERLAP = 3
    COEFFICIENTS = 2
    WIDTH = 2
    REMOVE_SILENCE = TRUE
    MaxFeed = 7
    MaxStream = 6
    MaxQuiet = 2
SPECIFICATION Spec
INVARIANTS
    LeadingSilenceRemoved
