\* A warm start that answers and then fails.
SPECIFICATION Spec
CONSTANTS
  c0 = c0
  c1 = c1
  c2 = c2
  t1 = t1
  t2 = t2
  t3 = t3
  f1 = f1
  f2 = f2
  Core = {c0, c1}
  IOCores = {c0}
  Request = {t1, t2}
  TidOf <- MCOwnTid
  Fid = {f1, f2}
  FidOf <- MCOneFunction
  ConcurrencyLimit = 1
  CounterModulus = 3
  HotLimit = 0
  ReuseLimit = 0
  SnapLimit = 1
  NDEBUG = TRUE
  None = None
INVARIANTS
  AnsweredOnce
