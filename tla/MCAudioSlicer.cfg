CONSTANTS
    SIZE = 5
    INCREMENT = 2
    MaxFeed = 7
    MaxStream = 14
SPECIFICATION Spec
INVARIANTS
    NoOverrun
    IInv
    ChunkInvariance
PROPERTIES
    EachSliceIsNextWindow
    Framing
