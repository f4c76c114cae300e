\* The code's configuration: one unlock permit.
SPECIFICATION FairSpec
CONSTANTS
  k1 = k1
  k2 = k2
  k3 = k3
  k4 = k4
  g1 = g1
  g2 = g2
  p1 = p1
  p2 = p2
  None = None
  Keys = {k1, k2, k3, k4}
  Rings = {g1, g2}
  Passphrases = {p1, p2}
  Requests = {r1, r2}
  Signers = {s1}
  KeyState <- MCKeyState
  RingKeys <- MCRingKeys
  Opens <- MCOpens
  Permits = 1
  MaxPanics = 1
INVARIANTS
  KdfBound
PROPERTIES
  KeyStaysUsable
  UnlockTerminates
