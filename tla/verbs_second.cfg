SPECIFICATION Spec
CONSTANTS
    r1 = r1
    c1 = c1
    r2 = r2
    m1 = m1
    Rnic = {r1, r2}
    Cq = {c1}
    Region = {m1}
    MAX_QP = 2
    MAX_PROT_DOMAIN = 1
    MAX_WRQ = 2
    CqDepth = 1
    MaxFd = 2
    MaxWr = 2
    Misuse = {"second RNIC"}
    MaxMisuse = 1
INVARIANT SecondRnicHarmless
CHECK_DEADLOCK FALSE
