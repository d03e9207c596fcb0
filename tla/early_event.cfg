SPECIFICATION ScriptSpec
CONSTANTS
    x = x
    y = y
    z = z
    Object = {x, y, z}
    NameOf <- Names
    Offers <- TwoNodes
    Scripts <- OnlyEvents
    Company = TRUE
    Troubles = {}
INVARIANTS
    EventsHandled
CHECK_DEADLOCK FALSE
