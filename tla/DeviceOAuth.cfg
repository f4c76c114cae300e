\* two exchanges, tables with room for one entry, and a clock that ends every entry.
SPECIFICATION FairSpec
CONSTANTS
  t1 = t1
  t2 = t2
  t3 = t3
  None = None
  Tokens = {t1, t2, t3}
  Class <- MCClass
  Exchanges = {x1, x2}
  ReplayTtl = 1
  SessionTtl = 1
  MaxUsed = 1
  MaxSessions = 1
  MaxTime = 1
INVARIANTS
  OneSessionPerToken
  SpentTokensRevoked
  SessionsEligible
  InFlightExact
  TablesBounded
PROPERTIES
  TokenReleased
