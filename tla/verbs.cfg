SPECIFICATION Spec
CONSTANTS
    r1 = r1
    c1 = c1
    m1 = m1
    Rnic = {r1}
    Cq = {c1}
    Region = {m1}
    MAX_QP = 2
    MAX_PROT_DOMAIN = 1
    MAX_WRQ = 2
    CqDepth = 1
    MaxFd = 2
    MaxWr = 2
    Misuse = {"not connected", "again", "shared queue", "no room", "bad list", "no domain"}
    MaxMisuse = 1
INVARIANTS
    SocketOwned
    RecvsExact
    NoOrphan
    PdHeld
CHECK_DEADLOCK FALSE
