CONSTANTS
  NumVars = 2
  Buckets = 3
  MaxPools = 3
  PoolSize = 3
  Built <- ThreeFunctions
  MaxFunctions = 1
  MaxCached = 1

SPECIFICATION Spec

INVARIANT TableIntact
INVARIANT Canonical
INVARIANT ResultsRight
PROPERTY FunctionsKept
