\* Two transposes in a row, five processes.
SPECIFICATION Spec
CONSTANTS
    Ranks <- MCRanks
    Root = 0
    Parent <- MCParent
    Children <- MCChildren
    Inputs <- MCInputs
INVARIANTS
    CountsAgree
    StopsWhenDelivered
PROPERTIES
    AllReturn
CHECK_DEADLOCK FALSE
