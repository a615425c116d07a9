SPECIFICATION FairSpec
CONSTANTS
    e1 = e1  e2 = e2  p1 = p1  p2 = p2  va = va  vb = vb
    NoVideo = NoVideo  None = None
    Entries <- TwoEntries
    Ports <- TwoPorts
    Videos <- VideoOff
    UserSocks <- OneUserSock
    EngSocks <- OneEngSock
    TcpSocks <- UserTcp
    MaxEdits = 2
INVARIANT TypeOK EpollExact ListenersCurrent
PROPERTY ServedAgain
