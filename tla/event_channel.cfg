SPECIFICATION FairSpec
CONSTANTS
    c1 = c1 c2 = c2 old = old new = new bad = bad
    None = None
    Conn = {c1, c2}
    Ask <- Asked
    Capacity = 2
    MaxConnections = 1
    Budget = 2
    Good = {old, new}
    Broken = {}
    BadRule = {bad}
    Default = Default
    Source = {"ac", "battery"}
    Plans <- SomeOfEach
INVARIANTS TypeOK RequestsKept ShutdownKept PowerKept
PROPERTIES ConnectionsEnd SignalEnds ConfigConverges PowerConverges
CHECK_DEADLOCK FALSE
