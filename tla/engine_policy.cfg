SPECIFICATION Spec
CONSTANTS
    a1 = a1 a2 = a2 main = main helper = helper next = next other = other
    None = None
    App = {a1, a2}
    Proc = {main, helper, other}
    Owner <- OwnerOf
    Parent <- ParentOf
    Born = {main, other}
    Protected = {other}
    Refusers = {}
    Configs <- EveryAction
    Sources = {"ac", "battery"}
    Overrides = {}
    Commands = {}
    Capacity = 1
    MaxAttempts = 2
    PersistMayFail = FALSE
    ScanMayFail = FALSE
    GraceMayHold = TRUE
INVARIANTS
    TypeOK
    OnlyFrozenStopped
    UnmanagedNothingSuspended
    IgnoredNotSuspended
PROPERTIES
    FocusResumes
CHECK_DEADLOCK FALSE
