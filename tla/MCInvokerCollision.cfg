\* Two cores cold start the same function; kassert is compiled in.
SPECIFICATION Spec
CONSTANTS
  c0 = c0
  c1 = c1
  c2 = c2
  t1 = t1
  t2 = t2
  t3 = t3
  f1 = f1
  f2 = f2
  Core = {c0, c1, c2}
  IOCores = {c0}
  Request = {t1, t2}
  TidOf <- MCOwnTid
  Fid = {f1, f2}
  FidOf <- MCFidOf
  ConcurrencyLimit = 1
  CounterModulus = 3
  HotLimit = 0
  ReuseLimit = 0
  SnapLimit = 2
  NDEBUG = FALSE
  None = None
INVARIANTS
  NoSnapshotCollision
