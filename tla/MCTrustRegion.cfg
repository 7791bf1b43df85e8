SPECIFICATION Spec
CONSTANTS
  Objectives <- MCObjectives
  NotFinite = NotFinite
  Norms <- MCNorms
  Predictions <- MCPredictions
  Steps = {1}
  Criteria <- MCAllCriteria
  MaximumIterations = 2
  MaximumTrials = 3
  MaximumSubproblemIterations = 2
  GradientTolerance = 1
  RelativeTolerance = 1
  ObjectiveChangeTolerance = 1
  StepTolerance = 1
  StationaryNorm = 1
  MinimumRadius = 1
  InitialRadius = 4
  MaximumRadius = 8
  RatioUnit = 4
  AcceptanceThreshold = 1
  ShrinkThreshold = 2
  ExpansionThreshold = 3
  ShrinkDivisor = 2
  ExpansionFactor = 2
INVARIANTS
  TypeOK
  AuditNeverFails
  WorkAccounted
  ModelNeedsGradient
PROPERTIES
  ImplementsDescentSearch
  RadiusFollowsModel
