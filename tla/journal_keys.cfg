SPECIFICATION Spec
CONSTANTS
    p1 = p1  p2 = p2  p3 = p3
    Proc = {p1, p2}
    Pid = {p1, p2}
    PidOf <- OwnPid
    Key = {k1, k2}
    None = None
    Refusers = {p1}
    PersistMayFail = TRUE
    MaxCrashes = 1
SYMMETRY KeySymmetry
INVARIANTS IInv StoppedIsRecorded
PROPERTIES ImplementsLedger CleanExitReleases ReplayReleases
