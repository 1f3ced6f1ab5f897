CONSTANTS
    A = A
    B = B
    c1 = c1
    c2 = c2
    c3 = c3
    s1 = s1
    s2 = s2
    NoCq = NoCq
    Cq = {c1, c2}
    Stag = {s1, s2}
    Scq <- Scq_duplex
    Rcq <- Rcq_duplex
    CqCap <- CqCap_duplex
    StagAcc <- StagAcc_duplex
    Work <- Work_duplex
    MaxOps <- MaxOps_duplex
    MaxPosts <- MaxPosts_duplex
    StagLen = 4
    WriteTo = 1
    SendLens = {1}
    WriteLens = {3}
    ReadLens = {3}
    BufLens = {3}
    UNTAGGED_PAYLD_LEN = 2
    TAGGED_PAYLD_LEN = 2
    DistinctSinks = TRUE
CHECK_DEADLOCK FALSE
SPECIFICATION FairSpec
INVARIANTS ReadsExact ReadRespExpected LossOnlyIfOvercommitted
PROPERTY ReadsComplete
