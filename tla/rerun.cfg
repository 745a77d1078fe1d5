SPECIFICATION Spec
CONSTANTS
  Fields <- MCFields
  Values <- MCValues
  None = None
  Absent = Absent
  NoOrig = NoOrig
  NoItem = NoItem
  TagField = "tag"
  LabelField = "label"
  StrategyField = "strategy"
  GcStrategyAuto = "auto"
  Objects = {"a", "b"}
  Crds = {}
  Stores <- ThreeStores
  StartClock = 2
  Edits <- EditMarks
  Seeds <- SeedTagged
  MaxEnv = 1
  Runs = {r1, r2}
  Items = {"ia", "ib"}
  Target <- TargetEach
  Rank <- RankEach
  Configs <- BothConfigs
  FlagSets <- PlainAndCollecting
  Views = {"v1"}
  ListedIn <- OneResource
  MaxAttempts = 2
INVARIANTS
  CleanPrefix
  CleanGc
PROPERTIES
  Idempotent
CHECK_DEADLOCK FALSE
