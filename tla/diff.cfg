SPECIFICATION Spec
CONSTANTS
  Null = "null"
  Empties <- MCEmpties
  Omitted <- MCOmitted
  Defaults <- MCDefaults
  MergeKey <- MCMergeKey
  MaxDepth = 4
  Runs = {r}
  Names <- Four
  None = None
  Place <- FourPlaces
  Unmapped = {"u"}
  Nameless = {"w"}
  Typed = {"m"}
  Tags = {"g"}
  TagKey = "t"
  Bodies <- MCBodies
  Configs <- MCConfigs
  Strategies = {"all", "subset", "last-applied"}
  Edits <- MCEdits
  Contents <- MCContents
  Applied <- MCApplied
  MaxWrites = 3
INVARIANTS VerdictIsExact QuietAfterUpdate 
CHECK_DEADLOCK FALSE
