SPECIFICATION Spec
CONSTANTS
    MaxLevels = 4
    EndTime = 1296
    GrowDt = 2
    Dts <- MCDts
    Ratios = {2, 3}
    SwitchTime = 324
    MaxRestarts = 1
INVARIANTS
    DataResetOnce
    SyncedOnce
    NewLevelsMatched
    RegridOnTime
    StepsFit
    NoHoles
