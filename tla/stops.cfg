SPECIFICATION Spec
CONSTANTS
    c1 = c1
    c2 = c2
    s1 = s1
    s2 = s2
    a = a
    b = b
    NoModule = NoModule
    NoJob = NoJob
    Module = {a, b}
    Scheme = {s1}
    Client = {c1, c2}
    Plan <- ThreeJobs
    ClientModules <- Everywhere
    ServerModules = {a, b}
    HasInputs = {b}
    HasOutputs = {a}
    Unfed = {}
    MaxConn = 2
    MaxStarts = 1
    May = {"stopProcess", "pluginStop", "gotoStage"}
INVARIANTS
    JobHasNode
    StopAnswered
    StoppingHasNode
    BusyNodeHasJob
    ProgramIsWanted
    WorkConserving
SYMMETRY Alike
CHECK_DEADLOCK FALSE
