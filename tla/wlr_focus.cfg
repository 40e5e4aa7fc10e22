SPECIFICATION FairSpec
CONSTANTS
    w1 = w1 w2 = w2 w3 = w3 browser = browser portal = portal
    None = None
    Denied = {portal}
    Window = {w1, w2}
    Pid = {1}
    Name = {browser, portal}
    Desktop = {1, 2}
    PidOf <- PidOfWindow
    ExeOf <- ExeOfWindow
    ClassOf <- ExeOfWindow
    DesktopOf <- OnDesktop
    Early = {w1}
    Config <- OneConfig
    AtStart <- OneConfig
    Backends = {"wlr"}
    WireLen = 2
    ChannelLen = 1
    MaxMoves = 2
PROPERTIES FocusIsFollowed
CHECK_DEADLOCK FALSE
