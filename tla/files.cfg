\* Four situations of one file that grows once, with up to two faults.
CONSTANTS
  r1 = r1
  r2 = r2
  Readers = {r1, r2}
  Refresher = refresher
  MaxSize = 2
  MaxEvictions = 1
  Setups <- McSetups
SPECIFICATION FairSpec

INVARIANTS CopyExact HintHonoured
PROPERTIES RateLimited Delivered
CHECK_DEADLOCK FALSE
