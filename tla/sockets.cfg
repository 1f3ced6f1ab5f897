CONSTANTS
    Sock = {s1, s2, s3}
    Addr = {a1, a2}
    NULL = NULL
    MAX_SOCKETS = 2
    MaxPending = 1
CHECK_DEADLOCK FALSE
SPECIFICATION FairSpec
INVARIANTS TypeOK CacheFresh PollSetExact CountExact
PROPERTY Served
