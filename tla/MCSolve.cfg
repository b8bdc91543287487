CONSTANT MaxStatus = 3
SPECIFICATION SolveSpec
INVARIANTS
  NothingOutlivesBuild
PROPERTIES
  KeepsBuildPromise
  BuildReturns
CHECK_DEADLOCK FALSE
