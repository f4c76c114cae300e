\* one request after another, next to the unlocking of keys, the minting of sessions
\* and restarts with another configuration.
SPECIFICATION Spec
CONSTANTS
  None = None
  Blank = Blank
  Keys <- MCKeys
  Lower <- MCLower
  WorkflowPaths = {"release.yml", "other.yml"}
  CommitShas = {"aa", "AA", "bb"}
  TagRefs = {"refs/tags/v1"}
  Rings = {"g1"}
  Passphrases = {"p1"}
  KeyState <- MCKeyState
  RingKeys <- MCRingKeys
  Opens <- MCOpens
  OtherKeys = {"k9"}
  Configs <- MCConfigs
  Claims <- MCClaims
  SessionTokens = {s1}
  Requests = {r1}
  Bodies = {"not_json", "malformed", "bad_digest", "digest"}
  SessionTtl = 1
  MaxStall = 1
  MaxTime = 2
  MaxLives = 2
INVARIANTS
  ForeignTokensNotRecorded
PROPERTIES
  TokenSignatureGated
  SessionSignatureGated
  TokenJudgedOnce
