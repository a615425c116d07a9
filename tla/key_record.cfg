SPECIFICATION Spec
CONSTANTS
    k1 = k1
    k2 = k2
    Keys <- ThreeKeys
    ZeroKey = ZeroKey
    NoKey = NoKey
    LOAD_AHEAD = 3
    SAVE_EVERY = 2
    AHEAD = 2
    MaxTime = 4
    MaxSessions = 2
INVARIANT NothingLost
PROPERTIES StoredNotAhead NeverBackwards
