\* The nodes of the buffer when the memory is near more than one.
SPECIFICATION Spec
CONSTANTS
  NULL <- None
  MayRefuse = {9, 11}
  FirstLow = 2
  GB = 1048576
  Machines <- All
  Options <- Mixed
  Supported <- AVX2
  UINT = 1024
  Precision = 64
INVARIANT PolicyFollowed
