\* Two calls for any of the intensities of "roofline -v" and a few more.
SPECIFICATION Spec
CONSTANTS
  MemTypes <- Two
  FlopTypes <- Tried
  Requests <- Asked
  SimdBytes = 32
  SimdFlops = 4
  NRegs = 16
  Alignement = 64
  NSizes = 16
  UINT = 1048576
  MaxCalls = 2
INVARIANTS
  TypeOK
  IntensityExact
  LoopEndsWithBuffer
  ChunkOfBenchmark
  BlocksBounded
