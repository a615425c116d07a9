SPECIFICATION FairSpec
CONSTANTS
    a = a  b = b  s1 = s1  s2 = s2
    NoConn = NoConn  None = None
    Slots <- OneSlot
    Conns <- TwoConns
    SnapIds <- OneSnap
    MASK_BITS = 3
    MaxSessions = 2
    VideoSlots <- OneVideo
INVARIANT TypeOK DropKept
PROPERTY DropHonoured RowsCatchUp VideoRowsCatchUp
CHECK_DEADLOCK FALSE
