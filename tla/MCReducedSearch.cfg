SPECIFICATION Spec
CONSTANTS
  Objectives = {0, 1, 2}
  Infinite = Infinite
  NaN = NaN
  Norms <- MCNorms
  Slopes <- MCSlopes
  StepNorms = {1, 2}
  DirectionCosts <- MCCosts
  Policies <- MCPolicies
  NoTarget = NoTarget
  MaximumIterations = 2
  MaximumTrials = 3
  GradientTolerance = 1
  RelativeTolerance = 1
  ObjectiveChangeTolerance = 1
  StepTolerance = 1
  StationaryNorm = 0
  InitialStep = 4
  MinimumStep = 2
  BacktrackingDivisor = 2
  FractionUnit = 4
  DecreaseFraction = 1
  CurvatureFraction = 3
  ObjectiveTolerance = 1
INVARIANTS
  TypeOK
  AuditRefusesOnlyNaN
  StationaryReturns
  WorkAccounted
  LogExplainsSteps
PROPERTIES
  ImplementsDescentSearch
