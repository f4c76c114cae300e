\* starts with good and bad configurations, keys and credentials; then tokens.
SPECIFICATION Spec
CONSTANTS
  None = None
  Blank = Blank
  Lower <- MCLower
  WorkflowPaths = {"release.yml", "other.yml"}
  CommitShas = {"aa", "AA", "bb"}
  TagRefs = {"refs/tags/v1"}
  Configs <- MCConfigs
  Inodes <- MCInodes
  Lengths = {1, 2, 3}
  Contents <- MCContents
  Claims <- MCClaims
  MaxSessionTtl = 3
  MaxFileBytes = 2
  MinIterations = 600000
  MaxIterations = 50000000
  MinBlockSize = 8
  MinCost = 131072
  MaxBlocks = 8388608
  MaxWork = 134217728
  MaxLanes = 65535
INVARIANTS
  KeyFilesSound
  ConfigEstablishes
  GateExact
