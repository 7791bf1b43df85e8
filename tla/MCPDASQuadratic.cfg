SPECIFICATION QSpec
CONSTANTS
  Controls = {1, 2}
  Lower <- MCLower
  Upper <- MCUpper
  Riesz <- MCRiesz
  C = 1
  MaximumIterations = 5
  PrimalTolerance = 0
  DualTolerance = 0
  ComplementarityTolerance = 0
  StationarityTolerance = 0
  EqualityTolerance = 0
  HasOtherBlocks = TRUE
  ControlValues <- MCControlValues
  Forces <- MCForces
  OtherResiduals = {0}
  KKTTolerance = 0
  Diagonal = 2
  Couplings <- MCCouplings
  Loads <- MCLoads
PROPERTY
  FindsMinimiser
