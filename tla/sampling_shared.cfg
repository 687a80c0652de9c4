\* The master is bound, the others move at any time; two of them share a PU.
\* The lookups of the master and of one other may fail.
SPECIFICATION FairSpec
CONSTANTS
  t0 = t0
  t1 = t1
  t2 = t2
  Threads = {t0, t1, t2}
  Master = t0
  PUs = {0, 1}
  Locations = {"node0", "node1"}
  LocationOf <- TwoPUs
  Bound = {t0}
  Pin <- Crowded
  MayFail = {t0, t1}
  Modes = {"inpar", "forced", "seq"}
  Work = {2}
  MaxRegions = 2
  MaxClock = 0

  
  
PROPERTY RegionsEnd
