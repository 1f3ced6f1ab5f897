SPECIFICATION Spec
CONSTANTS
    File = {f1, f2}
    NoAddr = NoAddr
    Addr = {a1, a2}
    Slot = {1}
    Access = {{"R", "W"}}
    CqDepth = 2
    MaxOpens = 1
    MaxCq = 2
    MaxStag = 1
    MaxStartups = 1
    MaxReads = 1
    MaxRrr = 1
    MaxTagged = 1
SYMMETRY Sym
CHECK_DEADLOCK FALSE
INVARIANTS
    TypeOK CqInUse RegionsHeld PostedExact WildOnlyIfMisused NothingLeft FileRefsExact
