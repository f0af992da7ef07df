SPECIFICATION Spec
CONSTANTS
    Ranks <- MCRanks
    Inputs <- MCInputs
    Tolerance = 1
    MaxSpread = 2
    Flexibility = 2
    Unit = 60
INVARIANTS
    RedeemedInFull
    BranchLoadsTrue
    LimitKept
PROPERTIES
    AllReturn
