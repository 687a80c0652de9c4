\* A team of one, the master, which is not bound and moves between start and
\* stop of a forced region: no PU is shared.
SPECIFICATION Spec
CONSTANTS
  t0 = t0
  t1 = t1
  t2 = t2
  Threads = {t0}
  Master = t0
  PUs = {0, 1, 2}
  Locations = {"node0", "node1"}
  LocationOf <- TwoNodes
  Bound = {}
  Pin <- Alone
  MayFail = {}
  Modes = {"forced"}
  Work = {2}
  MaxRegions = 1
  MaxClock = 1
INVARIANTS
  NanosIsElapsed
