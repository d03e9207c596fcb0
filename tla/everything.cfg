SPECIFICATION FairSpec
CONSTANTS
    c1 = c1
    c2 = c2
    s1 = s1
    s2 = s2
    a = a
    b = b
    NoModule = NoModule
    NoJob = NoJob
    Module = {a, b}
    Scheme = {s1, s2}
    Client = {c1}
    Plan <- EitherOf
    ClientModules <- Everywhere
    ServerModules = {a, b}
    HasInputs = {b}
    HasOutputs = {a}
    Unfed = {}
    MaxConn = 1
    MaxStarts = 1
    May = {"break", "rpcDisconnect", "stopProcess", "clearFailed",
           "pluginStop", "gotoStage", "prepareFail", "inputSendFail",
           "startFail", "crash", "timeout", "outputMissing",
           "outputSendFail", "outputLost", "stopFail", "stopRace"}
INVARIANTS
    BusyNodeHasJob
PROPERTIES
    StopEnds
CHECK_DEADLOCK FALSE
