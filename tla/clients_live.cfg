SPECIFICATION FairSpec
CONSTANTS
  GVs = {"g1", "g2"}
  Core = {"g1"}
  Kinds <- OneKind
  Callers <- Threads
  Main = "main"
  Validator = "main"
  None = None
  Faults <- SomeFaults
  MaxChanges = 1
  MaxFaults = 1
  Items <- MCItems
  Order <- MCOrder
  Gvk <- MCGvk
  Conforming <- MCConforming
  Named <- MCItems
  MaxSchemaChanges = 1
  Focuses = {"anyone", "update"}
  Anyone <- Two
  AnyoneChanges = 0
PROPERTIES CallsReturn ThreadReturns
CHECK_DEADLOCK FALSE
