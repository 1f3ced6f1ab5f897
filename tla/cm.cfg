SPECIFICATION CmSpec
CONSTANTS
    r1 = r1
    c1 = c1
    m1 = m1
    NoRnic = NoRnic
    Rnic = {r1}
    Cq = {c1}
    Region = {m1}
    MAX_QP = 1
    MAX_PROT_DOMAIN = 1
    MAX_WRQ = 1
    CqDepth = 1
    MaxFd = 2
    MaxWr = 1
    Misuse = {"startup failed", "not connected", "again", "shared queue", "no room", "no domain"}
    MaxMisuse = 1
    i1 = i1
    i2 = i2
    Id = {i1, i2}
    NoId = NoId
INVARIANTS
    RequestAcceptable
    EstablishedUp
    NoOrphan
SYMMETRY Sym
CHECK_DEADLOCK FALSE
