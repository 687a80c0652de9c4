\* Three threads in two memory groups, sizes to skip, an overhead stage before
\* each measure, and the same team in roofline_fpeak; the calls return.
SPECIFICATION MCSpec
CONSTANTS
  t0 = t0
  t1 = t1
  t2 = t2
  Threads = {t0, t1, t2}
  Master = t0
  Groups = {0, 1, 2}
  GroupOf <- ThreeGroups
  Kind = "memory"
  Sizes <- RoundedSizes
  LowSize = 2
  Stages <- MovStages
  NSamples = 2
  InitialRepeat = 3
  Limit = 4
  Costs = {1, 2}
  Overheads = {0}
INVARIANTS
  TypeOK
  BarriersMatch
  MeasuredTogether
  LinesComplete
  EveryLineOnce
PROPERTY Returns
