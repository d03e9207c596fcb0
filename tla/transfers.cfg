SPECIFICATION FairTransferSpec
CONSTANTS
    f1 = f1
    f2 = f2
    f3 = f3
    f4 = f4
    NoFile = NoFile
    File = {f1, f2, f3, f4}
    Missing = {}
    Refused = {f4}
    Faults = {"clear", "differ"}
    MaxLosses = 0
INVARIANTS
    TransferTypeOK
    BusyIsAwaited
    TurnsInv
PROPERTIES
    QueueImplemented
CHECK_DEADLOCK FALSE
