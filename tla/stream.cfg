\* Two clients and room for one counted stream, three versions, two calls.
CONSTANTS
  c1 = c1
  c2 = c2
  Clients = {c1, c2}
  MaxStreams = 1
  MaxVersion = 3
  MaxCalls = 2
  Setups <- McSetups
SPECIFICATION FairSpec
INVARIANTS HeartbeatHonest
PROPERTIES StreamForward Distributed PlacesReturned
CHECK_DEADLOCK FALSE
