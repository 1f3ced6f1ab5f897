SPECIFICATION Spec
CONSTANTS
    Conf <- MCConf
    WORD_SZ = 2
    MARKER_PERIOD = 16
    Wrap = 64
    TAGGED_HDR_SZ = 8
    UNTAGGED_HDR_SZ = 10
    PAGE_SIZE = 4
    PayldLen <- MCPayldLen
    Offset <- MCOffset
    Stale <- MCStale
    Sender <- MCSender
    Refuser <- MCRefuser
    MaxFrames = 1
INVARIANTS
    Agreement
    InStep
PROPERTIES
    Answered
CHECK_DEADLOCK FALSE
