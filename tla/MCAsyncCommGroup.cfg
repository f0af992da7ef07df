\* One or two operations of three or four processes: kinds, roots, trees, groups.
SPECIFICATION Spec
CONSTANTS
    Ranks = {0, 1, 2, 3}
    MaxChild = 2
    Scripts <- AllScripts
INVARIANTS
    BuffersFit
    NothingLeftOver
PROPERTIES
    IsCollective
    ScriptEnds
