\* Every group of up to ten processes, every kind of rank tree over up to
\* twenty, and partitions of boxes with their lower corner at the origin.
SPECIFICATION Spec
CONSTANTS
    MaxChild = 4
    MaxSize = 10
    Setups <- MCSetups
    MaxRanks = 20
    BoxLists <- AtOrigin
    Averages <- MCAverages
    MaxOwners = 9
INVARIANTS
    LinksAgree
    BranchesFit
    EachCellOwned
    OverlapsFound
