SPECIFICATION LiveSpec
CONSTANTS
  a = a
  b = b
  s1 = s1
  s2 = s2
  s3 = s3
  c1 = c1
  c2 = c2
  Ids = {a}
  Sess = {s1, s2}
  Conns = {c1}
  Ops <- LiveOps
  MaxOut = 1
  MaxScrollback = 1
  DiskMayFail = FALSE
  Nil = Nil
  NoLog = NoLog
CHECK_DEADLOCK FALSE
PROPERTIES KilledSessionEnds ClosedLogGoes OutputIsSaved
