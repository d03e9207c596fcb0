SPECIFICATION TransferSpec
CONSTANTS
    f1 = f1
    f2 = f2
    f3 = f3
    f4 = f4
    NoFile = NoFile
    File = {f1, f2, f3, f4}
    Missing = {f4}
    Refused = {}
    Faults = {"cross", "stop", "clear", "differ"}
    MaxLosses = 2
INVARIANTS
    DeliveredIntact
    ToldOnce
CHECK_DEADLOCK FALSE
