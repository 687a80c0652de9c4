\* The entries of the matrix against the level of --src.
SPECIFICATION Spec
CONSTANTS
  NULL <- None
  MayRefuse = {9, 11}
  FirstLow = 2
  GB = 1048576
  Machines <- All
  Options <- Mixed
  Supported <- AVX2
  UINT = 1024
  Precision = 64
INVARIANT MatrixAtSource
