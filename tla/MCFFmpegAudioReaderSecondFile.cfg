CONSTANTS
    Files <- MCFiles
    OutputRates = {0, 1}
    MIN_BUFFER = 4
    LAG = 2
    MaxOpens = 2
SPECIFICATION Spec
PROPERTY ConverterIsForFile
CHECK_DEADLOCK FALSE
