SPECIFICATION LiveSpec
CONSTANTS
  w1 = w1
  t1 = t1
  t2 = t2
  c1 = c1
  c2 = c2
  Trees = {w1}
  Tabs = {t1, t2}
  Calls = {c1, c2}
  Ops <- CloseOps
  Nil = Nil
INVARIANTS NoStrayShell
PROPERTIES ArchivedShellsEnd
CHECK_DEADLOCK FALSE
