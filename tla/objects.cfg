SPECIFICATION Spec
CONSTANTS
  Urls <- MCUrls
  Dirs <- MCDirs
  Paths <- MCPaths
  Absolute = {"url"}
  Reference <- MCReference
  DirOf <- MCDirOf
  Start = "cwd"
  JPathEnv <- Empty
  JPath <- MCJPath
  JUrl <- Empty
  Internal = "internal"
  Texts = {"s", "t"}
  Gone = "gone"
  Broken = "broken"
  Nothing = Nothing
  Worlds <- AllWorlds
  Imports <- MCImports
  MaxFileChanges = 2
  MaxImports = 3
  Repos = {"r"}
  Tags = {"v1", "latest"}
  Digests = {"d1", "d2"}
  Latest = "latest"
  None = None
  Images <- MCImages
  Resolvers = {"noop", "registry", "typo"}
  FailActions = {"ignore", "warn", "error", "typo"}
  MaxPushes = 2
  MaxCalls = 3
  Files <- MCFiles
  Format <- MCFormat
  Documents <- MCDocuments
  Nodes <- MCNodes
  Type <- MCType
  Array <- MCArray
  Fields <- MCFields
  Kinded <- MCKinded
  Objects <- MCObjectMaps
  Lists <- MCLists
  Items <- MCItems
  Address <- MCAddress
  MaxFiles = 3
INVARIANTS
  ObjectsTypeOK NeverPanics NearestWins OnlyNearerReplaces
  ResolvedIsTrue ErrorMeansPinned NothingMissedOrMadeUp ArrayOrderKept
CHECK_DEADLOCK FALSE
