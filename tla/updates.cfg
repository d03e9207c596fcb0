SPECIFICATION FairUpdateSpec
CONSTANTS
    g = g
    e = e
    a = a
    b = b
    NoVersion = NoVersion
    NoModule = NoModule
    NoJob = NoJob
    NoProcess = NoProcess
    NoCpu = NoCpu
    Cpu = {g, e}
    General = g
    Listing <- TwoModules
    Process = {p, q}
    Troubles = {"upload", "extract"}
    MaxVersion = 1
    MaxJobs = 2
INVARIANTS
    UpdateTypeOK
    RunsTheServersVersion
    GeneralKeepsJobs
PROPERTIES
    UpdateEnds
CHECK_DEADLOCK FALSE
