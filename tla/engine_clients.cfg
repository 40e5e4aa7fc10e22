SPECIFICATION Spec
CONSTANTS
    a1 = a1 a2 = a2 main = main helper = helper next = next other = other
    None = None
    App = {a1, a2}
    Proc = {main, helper, other}
    Owner <- OwnerOf
    Parent <- ParentOf
    Born = {main, other}
    Protected = {other}
    Refusers = {}
    Configs <- Freezing
    Sources = {}
    Overrides = {}
    Commands = {"freeze", "thaw", "thawAll"}
    Capacity = 1
    MaxAttempts = 2
    PersistMayFail = TRUE
    ScanMayFail = FALSE
    GraceMayHold = FALSE
INVARIANTS
    StoppedIsRecorded
    ProtectedNeverStopped
    ShutdownReleases
CHECK_DEADLOCK FALSE
