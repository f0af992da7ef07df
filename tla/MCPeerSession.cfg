\* Two operations, either end sending, below, at and above the first data length.
SPECIFICATION Spec
CONSTANTS
    Ends <- MCEnds
    PeerOf <- MCPeerOf
    A = a
    B = b
    ItemsPerFlex = 2
    Rounds = 2
    Sizes = {0, 2, 3}
    Limits <- EqualLimits
    ReuseCleared = FALSE
INVARIANTS
    ChunksFit
    NoErrantMessage
PROPERTIES
    ExchangesMessages
    OperationsFinish
