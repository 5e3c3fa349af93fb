\* One worker core with room for one request at a time; two requests share an
\* id and kassert is compiled in.
SPECIFICATION FairSpec
CONSTANTS
  c0 = c0
  c1 = c1
  c2 = c2
  t1 = t1
  t2 = t2
  t3 = t3
  f1 = f1
  f2 = f2
  Core = {c0, c1}
  IOCores = {c0}
  Request = {t1, t2, t3}
  TidOf <- MCSharedTid
  Fid = {f1, f2}
  FidOf <- MCFidOf
  ConcurrencyLimit = 1
  CounterModulus = 3
  HotLimit = 1
  ReuseLimit = 0
  SnapLimit = 1
  NDEBUG = FALSE
  None = None
PROPERTIES
  DispatcherFairSpec
