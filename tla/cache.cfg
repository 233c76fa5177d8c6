\* Two pods, three versions and two faults.
CONSTANTS
  p1 = p1
  p2 = p2
  Pods = {p1, p2}
  MaxVersion = 3
  MaxFaults = 2
  Setups <- McSetups
SPECIFICATION FairSpec
PROPERTIES BackupForward RenewsWhatItKnows LeaderReplaced
