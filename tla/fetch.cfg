\* Five situations of one context, three versions, one or two faults.
CONSTANTS
  r1 = r1
  r2 = r2
  Readers = {r1, r2}
  Poller = poller
  MaxVersion = 3
  MaxEvictions = 2
  Setups <- McSetups
SPECIFICATION FairSpec
INVARIANTS RegisteredIsStored PollFromStored
PROPERTIES NeverOlder Refreshed
