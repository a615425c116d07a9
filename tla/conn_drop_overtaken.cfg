SPECIFICATION Spec
CONSTANTS
    a = a  b = b  s1 = s1  s2 = s2
    NoConn = NoConn  None = None
    Slots <- TwoSlots
    Conns <- TwoConns
    SnapIds <- TwoSnaps
    MASK_BITS = 3
    MaxSessions = 1
    VideoSlots = {}
INVARIANT DropKept
CHECK_DEADLOCK FALSE
