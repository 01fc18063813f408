SPECIFICATION Spec
CONSTANTS
  a = a
  b = b
  s1 = s1
  s2 = s2
  s3 = s3
  c1 = c1
  c2 = c2
  Ids = {a}
  Sess = {s1, s2}
  Conns = {c1, c2}
  Ops <- DaemonOps
  MaxOut = 1
  MaxScrollback = 1
  DiskMayFail = FALSE
  Nil = Nil
  NoLog = NoLog
SYMMETRY Interchangeable
INVARIANTS MapExact LiveLogCurrent
PROPERTIES OnlyLiveSessionsSave
CHECK_DEADLOCK FALSE
