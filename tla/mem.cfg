CONSTANTS
    GROW = 2
    Buf <- Overlapping
    Stream = {k1}
    SIZE_T = 8
    MSG_LEN = 4
    MaxRegions = 4
    MaxStag = 2
CHECK_DEADLOCK FALSE
SPECIFICATION Spec
INVARIANTS TypeOK SlotOwned TagsOfLiveRegions AccessInRegion
