\* The interval is 3, and 3 + 4 * 1 + 1 < 9 leaves no slack to spare.
SPECIFICATION FairSpec
CONSTANTS
    p1 = p1
    p2 = p2
    Pods = {p1, p2}
    NoPod = NoPod
    TTL = 9
    Lag = 1
    Burst = 1
    Timely = TRUE
INVARIANTS WritersHoldClaim
PROPERTIES ClaimsFreed ImplementsClaim
