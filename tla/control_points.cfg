SPECIFICATION PointSpec
CONSTANTS
    s1 = s1
    a = a
    b = b
    NoModule = NoModule
    Module = {a, b}
    Scheme = {s1}
    HasInputs = {}
    HasOutputs = {}
    Plan <- ThreeStages
    May = {"stopProcess", "pluginStop", "gotoStage", "timeout", "break"}
    MaxCrashes = 2
INVARIANTS
    PointTypeOK
    NothingSkipped
    PointIsCurrent
    ResumePossible
    PointInv
CHECK_DEADLOCK FALSE
