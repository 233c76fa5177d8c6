SPECIFICATION FairSpec
CONSTANTS
    f1 = f1
    f2 = f2
    m1 = m1
    m2 = m2
    Pods = {p1}
    NoPod = NoPod
    Files = {f1, f2}
    NoFile = NoFile
    Members = {m1, m2}
    Lines <- McLines
    History <- McVanish
    Batch = 2
    PartitionMax = 1
    HashOf <- McHash
    MaxToken = 2
    Budget <- McCrash
    Modes = {TRUE, FALSE}
    Together <- McOne
    SplitPipelines = TRUE
    EarlyReturn = FALSE
    Ahead = FALSE
PROPERTY RemovalRetried
