\* Four machines and the options of the program, on small unsigned and doubles.
SPECIFICATION Spec
CONSTANTS
  NULL <- None
  MayRefuse = {9, 11}
  FirstLow = 2
  GB = 1048576
  Machines <- All
  Options <- Mixed
  Supported <- AVX2
  UINT = 1024
  Precision = 64
INVARIANTS
  WholeHierarchy
  MatrixComplete
  NothingTwice
  LevelsAdjoin
  DataOnTarget
  OwnGroup
  NearIntensity
PROPERTY Ends
