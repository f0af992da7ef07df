\* Three processes, two root boxes; tags enough.
SPECIFICATION Spec
CONSTANTS
    Size = 3
    Roots = 2
    Nodes <- MCNodes
    TagUpperBound = 40
    Inputs <- MCInputs
INVARIANTS
    NoneStranded
    SameBoxes
    SendersKnown
    TagsUnique
PROPERTIES
    Termination
