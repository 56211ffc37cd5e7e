SPECIFICATION Spec
CONSTANTS
  w1 = w1
  w2 = w2
  me = me
  p1 = p1
  p2 = p2
  p3 = p3
  Workers = {w1, w2}
  Pids = {me, p1, p2, p3}
  Self = me
  MemLimit = 0
  BaseRss = 0
  MaxCost = 1
  BaseFds = 0
  FdLimits <- MCFdLimits
  NoPid = NoPid
  NoWorker = NoWorker
INVARIANTS
  OvershootBound
  LimitReported
  FdsSuffice
PROPERTIES
  Terminates
  ImplementsCensus
