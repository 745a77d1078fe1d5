SPECIFICATION FairSpec
CONSTANTS
  Fields <- MCFields
  Values <- MCValues
  None = None
  Absent = Absent
  NoOrig = NoOrig
  NoItem = NoItem
  TagField = "tag"
  LabelField = "label"
  StrategyField = "strategy"
  GcStrategyAuto = "auto"
  Objects = {"crd", "b"}
  Crds = {"crd"}
  Stores <- CrdStores
  StartClock = 1
  Edits <- EditData
  Seeds <- SeedTagged
  MaxEnv = 1
  Runs = {r1, r2}
  Items = {"icrd", "ib"}
  Target <- TargetCrd
  Rank <- RankCrd
  Configs <- CrdConfigs
  FlagSets <- CollectingFlags
  Views = {"v1"}
  ListedIn <- CrdListed
  MaxAttempts = 2
INVARIANTS
  EstablishedOrWarned
PROPERTIES
  Termination
CHECK_DEADLOCK FALSE
