SPECIFICATION Spec
CONSTANTS
    Ranks <- MCRanks
    Inputs <- MCGroupInputs
    Tolerance = 1
    MaxSpread = 2
    Flexibility = 2
    Unit = 60
INVARIANTS
    KeepsToRankGroup
