SPECIFICATION LiveSpec
CONSTANTS
  own = own
  ext = ext
  i1 = i1
  i2 = i2
  sw = sw
  c1 = c1
  c2 = c2
  Paths = {own, ext}
  Managed = {own}
  Importable = {ext}
  Ids = {i1, i2}
  Calls = {sw, c1}
  Sweeper = sw
  Ops <- SweepOps
  Nil = Nil
PROPERTIES ExpiredGo
CHECK_DEADLOCK FALSE
