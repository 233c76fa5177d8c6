SPECIFICATION Spec
CONSTANTS
    f1 = f1
    f2 = f2
    m1 = m1
    m2 = m2
    Pods = {p1, p2}
    NoPod = NoPod
    Files = {f1, f2}
    NoFile = NoFile
    Members = {m1, m2}
    Lines <- McLines
    History <- McRotate
    Batch = 2
    PartitionMax = 1
    HashOf <- McHash
    MaxToken = 1
    Budget <- McCrash
    Modes = {TRUE}
    Together <- McOne
    SplitPipelines = FALSE
    EarlyReturn = FALSE
    Ahead = TRUE
SYMMETRY PodSymmetry
INVARIANTS
    CaughtUpIndexExact
    CaughtUpSetExact
    DiffProgress
PROPERTY UsesClaim
