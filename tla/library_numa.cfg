\* One program; the NUMA nodes are at no depth of the tree.
SPECIFICATION Spec
CONSTANTS
  NPUs = 4
  Depths <- MCDepths
  ObjectOf <- MCObjectOf
  NodeOf <- MCNodeOf
  TypeDepth <- MCTypeDepth
  Requests <- MCRequests
  MaxRuns = 1
  MaxRegions = 1
  Racing = FALSE
  NULL = NULL
  Missing = Missing
INVARIANT LocationAsAsked
CHECK_DEADLOCK FALSE
