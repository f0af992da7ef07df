\* As messages come or in the order of ranks: successive calls, circles.
SPECIFICATION Spec
CONSTANTS
    Ends <- MCEnds
    PeerOf <- MCPeerOf
    ItemsPerFlex = 2
    Ranks = {0, 1, 2}
    Plans <- MCPlans
    FirstLength = 1
    Orders = {TRUE, FALSE}
INVARIANTS
    DataArrives
    NothingErrant
PROPERTIES
    CommunicateReturns
