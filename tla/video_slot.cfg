SPECIFICATION FairSpec
CONSTANTS
    u1 = u1  u2 = u2
    NoPub = NoPub
    CAP = 2
    CHUNK = 1
    MaxBytes = 3
    VIDEO_MAX_VIEWERS = 1
    Senders <- OneSender
    Alike = {}
    VIDEO_MAX_EPOLL_EVENTS = 2
    VIDEO_MAX_PENDING_RTMP = 1
    Record = TRUE
    Sizes = {1, 2}
INVARIANTS OneSource WholeStream
PROPERTIES SlotReleased ViewersMove
