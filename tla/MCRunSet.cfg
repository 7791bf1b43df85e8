SPECIFICATION Spec
CONSTANTS
  Runs = {1, 2}
  Kinds <- MCKinds
  Policies <- MCPolicies
  Plan <- MCPlan
  References <- MCReferences
  Coordinate <- MCCoordinate
  Slot <- MCSlot
  Numbered <- MCNumbered
  Overlap = FALSE
INVARIANTS
  TypeOK
  ReportIsOwn
  ReferencesDecideFirst
  ExitMatchesManifest
PROPERTIES
  DevelopmentKept
  ImplementsLedger
