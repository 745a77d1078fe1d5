SPECIFICATION Spec
CONSTANTS
  Fields <- MCFields
  Values <- MCValues
  None = None
  Absent = Absent
  NoOrig = NoOrig
  NoItem = NoItem
  TagField = "tag"
  LabelField = "label"
  StrategyField = "strategy"
  GcStrategyAuto = "auto"
  Objects = {"a", "b"}
  Crds = {}
  Stores <- TwoStores
  StartClock = 2
  Edits <- EditData
  Seeds <- SeedTagged
  MaxEnv = 2
  Runs = {r1, r2}
  Items = {"ia", "ib"}
  Target <- TargetEach
  Rank <- RankEach
  Configs <- BothConfigs
  FlagSets <- CollectingFlags
  Views = {"v1"}
  ListedIn <- OneResource
  MaxAttempts = 2
INVARIANTS
  TypeOK
PROPERTIES
  UpdatesAreAtomic
  GcSparesConfig
  GcSparesNewer
CHECK_DEADLOCK FALSE
