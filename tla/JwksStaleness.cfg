\* keys with a lifetime shorter than the allowed staleness, as by default.
SPECIFICATION JwksFairSpec
CONSTANTS
  Nil = Nil
  Kids = {k1}
  Requests = {r1}
  Ttl = 2
  MaxStaleness = 3
  MinRefresh = 1
  FetchTimeout = 1
  MaxClock = 4
PROPERTIES
  StaleKeysAsDocumented
