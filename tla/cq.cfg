CONSTANTS
    Cqe = {e1, e2, e3}
    MaxCqe = 4
    ENOSPC = ENOSPC
    ENOENT = ENOENT
    OK = OK
SPECIFICATION Spec
INVARIANT TypeOK
PROPERTIES FullMeansOverflow RingIsFifo
