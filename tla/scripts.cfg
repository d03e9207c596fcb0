SPECIFICATION FairScriptSpec
CONSTANTS
    x = x
    y = y
    z = z
    Object = {x, y, z}
    NameOf <- Names
    Offers <- TwoNodes
    Scripts <- AllScripts
    Company = TRUE
    Troubles = {"fail", "break", "kill"}
INVARIANTS
    ScriptTypeOK
    NoDeadSituation
    DoneRan
PROPERTIES
    ScriptEnds
CHECK_DEADLOCK FALSE
