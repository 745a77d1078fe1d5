SPECIFICATION Spec
CONSTANTS
  GVs = {"g1", "g2"}
  Core = {"g1"}
  Kinds <- OneKind
  Callers <- Threads
  Main = "main"
  Validator = "main"
  None = None
  Faults <- AllFaults
  MaxChanges = 1
  MaxFaults = 1
  Items <- MCItems
  Order <- MCOrder
  Gvk <- MCGvk
  Conforming <- MCConforming
  Named <- MCItems
  MaxSchemaChanges = 1
  Focuses = {"anyone", "update", "validate"}
  Anyone <- Two
  AnyoneChanges = 1
INVARIANTS
  ClientsTypeOK FreshSinceInvalidate Complete TransientIsLive
  SteadyFound WalkComplete PassMeansChecked ReportIsExact
CHECK_DEADLOCK FALSE
