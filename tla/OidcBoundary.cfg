\* No authentication is preempted: only the boundary of the last second is left.
SPECIFICATION Spec
CONSTANTS
  t1 = t1
  t2 = t2
  None = None
  Tokens = {t1}
  Exp <- MCExp
  Attempts = {a1, a2}
  Leeway = 1
  Tps = 2
  MaxSeen = 1
  MayStall = FALSE
  MaxTime = 8
SYMMETRY Symmetry
INVARIANTS
  JtiSingleUse
