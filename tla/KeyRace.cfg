\* two unlocks at a time: what the locks of the key store
\* guarantee by themselves, without the single permit of the admin API.
SPECIFICATION Spec
CONSTANTS
  k1 = k1
  k2 = k2
  k3 = k3
  k4 = k4
  g1 = g1
  g2 = g2
  p1 = p1
  p2 = p2
  None = None
  Keys = {k1, k2, k3, k4}
  Rings = {g1, g2}
  Passphrases = {p1, p2}
  Requests = {r1, r2, r3}
  Signers = {s1}
  KeyState <- MCKeyState
  RingKeys <- MCRingKeys
  Opens <- MCOpens
  Permits = 2
  MaxPanics = 1
SYMMETRY Symmetry
INVARIANTS
  AllOrNothing
  ReportIsTrue
  StoredOnceWithPassphrase
  ValidatedNeverLocked
PROPERTIES
  ImplementsKeyStore
