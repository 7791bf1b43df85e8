SPECIFICATION Spec
CONSTANTS
  Problems <- MCProblems
  Policies <- MCPolicies
  Controls <- MCControls
  Derivatives <- MCDerivatives
  CurvatureTolerance <- MCCurvatureTolerance
  SquaredTolerance <- MCSquaredTolerance
  InnerLimit = 3
  InnerAbsolute <- MCInnerAbsolute
  InnerRelative <- MCInnerRelative
  Calls = 4
CHECK_DEADLOCK FALSE
INVARIANTS
  TypeOK
  PolicyEndsSolveByContract
  FallbackOnlyWhenStationary
  TwoLoopIsBFGS
  QuadraticTermination
