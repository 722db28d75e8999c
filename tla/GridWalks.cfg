CONSTANTS
  HeaderWidth = 63
  HeaderHeight = 3
  WordBits = 64
  BaseBits = 8
  Wrap = 65536
  PointWrap = 65536
  BMI2 = FALSE
  Walkable = {61, 62, 63, 124, 125, 188}
  Junk = {{}, {0, 1, 2, 3, 4, 5, 6, 7}}
SPECIFICATION Spec
INVARIANTS
  PlacesAgree
  TilesAreCells
  WritesAreLocal
  SpansAreRead
