\* Three programs on four PUs, one after the other, with up to two regions each.
\* When no call of init is left the model stops.
SPECIFICATION Spec
CONSTANTS
  NPUs = 4
  Depths <- MCDepths
  ObjectOf <- MCObjectOf
  NodeOf <- MCNodeOf
  TypeDepth <- MCTypeDepth
  Requests <- MCRequests
  MaxRuns = 3
  MaxRegions = 2
  Racing = FALSE
  NULL = NULL
  Missing = Missing
INVARIANTS EachSampleOnce GivesBack HeaderFirst ResultsKept
CHECK_DEADLOCK FALSE
