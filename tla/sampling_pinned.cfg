\* Every thread bound to a PU of its own, all three modes: the printed lines are
\* the promised ones.
SPECIFICATION Spec
CONSTANTS
  t0 = t0
  t1 = t1
  t2 = t2
  Threads = {t0, t1}
  Master = t0
  PUs = {0, 1, 2}
  Locations = {"node0", "node1"}
  LocationOf <- TwoNodes
  Bound = {t0, t1}
  Pin <- Pair
  MayFail = {}
  Modes = {"inpar", "forced", "seq"}
  Work = {2, 4}
  MaxRegions = 2
  MaxClock = 2
INVARIANTS
  TypeOK
  PrintedIsFinal
  CleanBetweenRegions
PROPERTY KeepsPromise
