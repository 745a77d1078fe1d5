SPECIFICATION Spec
CONSTANTS
  Fields <- MCFields
  Values <- MCValues
  None = None
  Absent = Absent
  NoOrig = NoOrig
  NoItem = NoItem
  TagField = "tag"
  LabelField = "label"
  StrategyField = "strategy"
  GcStrategyAuto = "auto"
  Objects = {"a", "b"}
  Crds = {}
  Stores <- TwoStores
  StartClock = 2
  Edits <- EditMarks
  Seeds <- SeedTagged
  MaxEnv = 2
  Runs = {r1}
  Items = {"ia", "ib"}
  Target <- TargetEach
  Rank <- RankEach
  Configs <- BothConfigs
  FlagSets <- CollectingFlags
  Views = {"v1"}
  ListedIn <- OneResource
  MaxAttempts = 2
PROPERTIES
  NeverCollectIgnored
CHECK_DEADLOCK FALSE
