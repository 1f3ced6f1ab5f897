CONSTANTS
    A = A
    B = B
    c1 = c1
    c2 = c2
    c3 = c3
    s1 = s1
    s2 = s2
    NoCq = NoCq
    Cq = {c1, c2, c3}
    Stag = {s1, s2}
    Scq <- Scq_oneway
    Rcq <- Rcq_oneway
    CqCap <- CqCap_oneway
    StagAcc <- StagAcc_oneway
    Work <- Work_oneway
    MaxOps <- MaxOps_oneway
    MaxPosts <- MaxPosts_oneway
    StagLen = 4
    WriteTo = 1
    SendLens = {0, 3}
    WriteLens = {3}
    ReadLens = {1, 3}
    BufLens = {3}
    UNTAGGED_PAYLD_LEN = 2
    TAGGED_PAYLD_LEN = 2
    DistinctSinks = TRUE
CHECK_DEADLOCK FALSE
SPECIFICATION Spec
INVARIANTS
    TypeOK MsnInSync OneUnfinished SendsDelivered WritesBeforeSend WildOnlyIfUnposted
