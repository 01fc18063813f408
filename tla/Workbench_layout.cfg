SPECIFICATION Spec
CONSTANTS
  k1 = k1
  k2 = k2
  w1 = w1
  w2 = w2
  NoTree = NoTree
  Trees = {w1, w2}
  Cmds = {k1, k2}
  MaxSessions = 2
  MaxActs = 2
  MaxDrops = 1
  Mixes <- LayoutMixes
SYMMETRY Symmetric
INVARIANTS PanesSound SyncSound
PROPERTIES ReloadsHarmless
