SPECIFICATION JwksFairSpec
CONSTANTS
  Nil = Nil
  Kids = {k1, k2}
  Requests = {r1, r2}
  Ttl = 1
  MaxStaleness = 1
  MinRefresh = 2
  FetchTimeout = 1
  MaxClock = 3
INVARIANTS
  JwksTypeOK
PROPERTIES
  ServedKeyRecent
  FetchesSpaced
  WaitersAnswered
