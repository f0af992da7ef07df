\* Partitions of boxes with their lower corner elsewhere.
SPECIFICATION Spec
CONSTANTS
    MaxChild = 1
    MaxSize = 1
    Setups <- MCSetups
    MaxRanks = 1
    BoxLists <- Elsewhere
    Averages <- MCAverages
    MaxOwners = 4
INVARIANTS
    OverlapsFound
