SPECIFICATION PanesSpec
CONSTANTS
  s1 = s1
  s2 = s2
  s3 = s3
  Blank = Blank
  Contents <- MCContents
  Areas <- MCAreas
  MaxNudges = 1
SYMMETRY MCSymmetry
INVARIANTS TreeTiles Navigable
PROPERTIES DividersFollow
