SPECIFICATION Spec
CONSTANTS
  Runs = {1, 2}
  Kinds <- MCKinds
  Policies <- MCMatched
  Plan <- MCPlan
  References <- MCReferences
  Coordinate <- MCCoordinate
  Slot <- MCSlot
  Numbered <- MCNumbered
  Overlap = TRUE
PROPERTY DevelopmentKept
