SPECIFICATION FairSpec
CONSTANTS
  None = None
  Servers = {old, new}
  Clients = {c1, c2}
  Group = "operators"
  MaxStarts = 3
  MaxKills = 1
INVARIANTS
  SocketKept
  NeverWrongGroup
  NothingAbandoned
  LeftoversHarmless
PROPERTIES
  StopEnds
