SPECIFICATION Spec
CONSTANTS
  Controls = {1, 2}
  Lower <- MCLower
  Upper <- MCUpper
  Riesz <- MCRiesz
  C = 1
  MaximumIterations = 3
  PrimalTolerance = 1
  DualTolerance = 1
  ComplementarityTolerance = 1
  StationarityTolerance = 1
  EqualityTolerance = 1
  HasOtherBlocks = TRUE
  ControlValues = {1, 3}
  Forces <- MCForces
  OtherResiduals = {0, 2}
  KKTTolerance = 2
INVARIANTS
  TypeOK
  ConvergedIsFirstOrder
  StableSetIsExact
  AnswerIsReported
PROPERTIES
  ImplementsBoxSolve
