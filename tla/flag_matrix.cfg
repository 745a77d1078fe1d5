SPECIFICATION Spec
CONSTANTS
  Fields <- MCFields
  Values <- MCValues
  None = None
  Absent = Absent
  NoOrig = NoOrig
  NoItem = NoItem
  TagField = "tag"
  LabelField = "label"
  StrategyField = "strategy"
  GcStrategyAuto = "auto"
  Objects = {"a", "b"}
  Crds = {}
  Stores <- ThreeStores
  StartClock = 2
  Edits <- AllEdits
  Seeds <- AllSeeds
  MaxEnv = 2
  Runs = {r1}
  Items = {"ia", "ja", "ib"}
  Target <- TargetAlias
  Rank <- RankAlias
  Configs <- AliasConfigs
  FlagSets <- AllFlags
  Views = {"v1", "v2"}
  ListedIn <- TwoResources
  MaxAttempts = 2
PROPERTIES
  DryRunReadOnly
  GcSparesConfig
CHECK_DEADLOCK FALSE
