SPECIFICATION FairSpec
CONSTANTS
  a = a
  b = b
  Ctxs = {a, b}
  Specs = {"x", "y"}
  MaxTime = 4
  Setups <- McSetups
INVARIANTS NothingMissed
PROPERTIES ClientForward CatchesUp
