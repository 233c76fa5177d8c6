SPECIFICATION FairSpec
CONSTANTS
    f1 = f1
    f2 = f2
    m1 = m1
    m2 = m2
    Pods = {p1}
    NoPod = NoPod
    Files = {f1, f2}
    NoFile = NoFile
    Members = {m1, m2}
    Lines <- McLines
    History <- McRemove
    Batch = 2
    PartitionMax = 1
    HashOf <- McHash
    MaxToken = 3
    Budget <- McAny
    Modes = {TRUE, FALSE}
    Together <- McFaults
    SplitPipelines = FALSE
    EarlyReturn = FALSE
    Ahead = FALSE
INVARIANTS
    CaughtUpIndexExact
    DeadTokensEmpty
PROPERTIES
    NoRollback
    RemovalJustified
    Convergence
