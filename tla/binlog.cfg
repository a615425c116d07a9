SPECIFICATION BinlogFairSpec
CONSTANTS
    MaxSeq = 3
    SEQNO0_RESTART_MIN_HIGHEST = 2
    NACK_GIVEUP_BLOCKS = 1
    STOP_MIN_GATED_BLOCKS = 2
    MAX_NACKS_PER_TICK = 1
    MAX_FORWARD_JUMP = 3
    TIME_MOD = 3
INVARIANTS AckedOnDisk GapsTracked
PROPERTIES LogResumes AckedAgain
