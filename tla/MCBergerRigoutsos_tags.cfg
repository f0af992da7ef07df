\* Three tags for each of three processes.
SPECIFICATION Spec
CONSTANTS
    Size = 3
    Roots = 2
    Nodes <- MCNodes
    TagUpperBound = 9
    Inputs <- DeepInputs
INVARIANTS
    TagsUnique
CHECK_DEADLOCK FALSE
