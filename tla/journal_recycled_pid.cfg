SPECIFICATION Spec
CONSTANTS
    p1 = p1  p2 = p2  p3 = p3
    Proc = {p1, p2, p3}
    Pid = {1, 2}
    PidOf <- SharedPid
    Key = {k1}
    None = None
    Refusers = {}
    PersistMayFail = FALSE
    MaxCrashes = 0
INVARIANT AnyStateRecoverable
