SPECIFICATION Spec
CONSTANTS
    None = None
    Policy <- ShortAndLong
    Away = 1
    RETRY_INTERVAL = 1
    MAX_RETRY_INTERVAL = 2
    MAX_SUSPEND_ATTEMPTS = 2
    Horizon = 4
    QueueLen = 3
INVARIANTS TypeOK NothingLost
PROPERTIES NotEarly
