SPECIFICATION FairSpec
CONSTANTS
    c1 = c1
    c2 = c2
    s1 = s1
    s2 = s2
    a = a
    b = b
    NoModule = NoModule
    NoJob = NoJob
    Module = {a, b}
    Scheme = {s1, s2}
    Client = {c1, c2}
    Plan <- Lists
    ClientModules <- Everywhere
    ServerModules = {a, b}
    HasInputs = {b}
    HasOutputs = {a}
    Unfed = {}
    MaxConn = 2
    MaxStarts = 2
    May = {"startFail", "timeout", "outputSendFail"}
INVARIANTS
    TypeOK
    JobHasNode
    OneJobPerNode
    WorkConserving
    DoneJobsRan
    OneProgramPerClient
    ProgramIsWanted
PROPERTIES
    ProcessEnds
CHECK_DEADLOCK FALSE
