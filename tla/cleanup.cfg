SPECIFICATION FairSpec
CONSTANTS
    t1 = t1
    t2 = t2
    t3 = t3
    None = None
    Ids <- ThreeFiles
    QUOTA = 2
    TARGET = 1
    GRACE = 1
    RETENTION <- ForeverOrNot
    REFRESH = 2
    MaxSize = 1
PROPERTIES QuotaHeld WriterRelieved QuotaRestored
