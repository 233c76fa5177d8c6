SPECIFICATION FairSpec
CONSTANTS
    c1 = c1
    Conns = {c1}
    Pools <- McPools
    PoolOf <- McPoolOf
    Setups <- McSetups
    Reported = {4, 8, 11}
    MinRefreshDelay = 2
    MinBackoff = 1
    MaxBackoff = 4
    MinLifetime = 8
    MaxLifetime = 10
    MinMargin = 4
    HardMargin = 2
    MinConnAge = 20
    RequestTimeout = 1
    Hold = 1
INVARIANTS
    HeldTokenAlive
    RefreshBeforeGuard
    PromptRecovery
PROPERTIES
    MintSpacing
    StaleRetired
