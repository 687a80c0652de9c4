\* The team binds itself to the machine or to one of its groups, one call after
\* the other, and the system refuses one of the leaves.  Kernels on buffers of
\* one to three chunks with 256-bit registers, and a linked buffer of three
\* sizes, with one to three repetitions.
SPECIFICATION MCSpec
CONSTANTS
  N = 4
  Leaves = {0, 1, 2, 3}
  Roots <- ThreeRoots
  Width <- LeafCount
  Leaf <- LeafOf
  Unbound = 9
  CanBind = {0, 1, 3}
  MaxCalls = 2
  Target = "AVX2"
  FMA = TRUE
  Lengths = {1, 2, 3}
  Counts = {1, 2, 3}
  Capacity = 5
  Sizes = {2, 4, 5}
  Repeats = {1, 2}
  Junk = Junk
INVARIANTS
  BoundToOwnLeaf
  AccessesInBuffer
  EveryByteMoved
  CountsOfLoops
  LinksPermute
  ChaseInBuffer
  NoShortcut
  ClosesCycle
PROPERTY CountsDown
