\* Two invocations of the CLI share a session file while the server may restart.
SPECIFICATION Spec
CONSTANTS
  None = None
  NoFile = NoFile
  BadFile = BadFile
  Old = t0
  Tokens = {t0, t1, t2}
  Procs = {p1, p2}
  Lifetime = 2
  Timeout = 1
  Margin = 1
  MaxTime = 3
  MaxRestarts = 1
INVARIANTS
  OneLogin
PROPERTIES
  LoadedNotExpired
  StaleFileRetried
  InvocationEnds
