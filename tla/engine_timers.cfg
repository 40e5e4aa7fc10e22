SPECIFICATION FairSpec
CONSTANTS
    a1 = a1 a2 = a2 main = main helper = helper next = next other = other
    None = None
    App = {a1, a2}
    Proc = {main, other}
    Owner <- OwnerOf
    Parent <- ParentOf
    Born = {main, other}
    Protected = {}
    Refusers = {other}
    Configs <- FreezeAndWake
    Sources = {}
    Overrides = {"auto", "ac"}
    Commands = {}
    Capacity = 1
    MaxAttempts = 2
    PersistMayFail = FALSE
    ScanMayFail = FALSE
    GraceMayHold = FALSE
INVARIANTS
    FrozenWillWake
    BackgroundWillSuspend
PROPERTIES
    MaintenanceServed
CHECK_DEADLOCK FALSE
