SPECIFICATION Spec
CHECK_DEADLOCK FALSE
CONSTANTS
    HANDSHAKE = 2
    RECORD = 3
    WS_MAX_TX_QUEUE = 3
    MAX_MESSAGE = 3
    MAX_RX = 4
    BUFFER = 1
    Payloads <- OneOrTwo
    MaxBytes = 4
    MaxPings = 1
    MaxFrames = 3
INVARIANTS WireInOrder RetrySame BytesInOrder
