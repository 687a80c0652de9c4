\* Two threads of a parallel region on one PU: the bytes of one of them are lost.
SPECIFICATION Spec
CONSTANTS
  t0 = t0
  t1 = t1
  t2 = t2
  Threads = {t0, t1, t2}
  Master = t0
  PUs = {0, 1, 2}
  Locations = {"node0", "node1"}
  LocationOf <- TwoNodes
  Bound = {t0, t1, t2}
  Pin <- SharedPU
  MayFail = {}
  Modes = {"inpar"}
  Work = {2, 3}
  MaxRegions = 1
  MaxClock = 0
INVARIANTS
  BytesAsDeclared
