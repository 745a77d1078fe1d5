SPECIFICATION FairSpec
CONSTANTS
  Fields <- MCFields
  Values <- MCValues
  None = None
  Absent = Absent
  NoOrig = NoOrig
  TagField = "tag"
  LabelField = "label"
  StrategyField = "strategy"
  GcStrategyAuto = "auto"
  Objects <- MCObjects
  Crds = {"crd"}
  Stores <- MCStores
  StartClock = 5
  Edits <- NoEdits
  Seeds <- BlankSeeds
  MaxEnv = 1
  N = 3
  Items <- MCItems
  Gvks <- MCKinds
  GvkOf <- MCKindOf
  Alpha <- MCAlpha
  CrdKinds <- CrdKind
  HookKinds <- HookKind
  Scopes <- MCScopes
  Losses <- MCLosses
  Nodes <- MCNodes
  Below <- MCBelow
  PodSpecs <- MCPodSpecs
  Root <- MCRoot
  NoSchema = NoSchema
  MaxFaults = 1
  Target <- MCTarget
  KindScope <- MCKindScope
  DefinedBy <- MCDefinedBy
  Infos <- MCInfos
  MaxStarts = 2
INVARIANTS
  DeleteTypeOK SwapsKeepPairs DependenciesFirst
  LeavesDependencies DeletesExactly FailsOnlyUnmapped OptionsFit
PROPERTIES VisitEnds
CHECK_DEADLOCK FALSE
