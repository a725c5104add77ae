CONSTANTS
  kNumRows = 2
  kNumCols = 3
  kNumTab = 2
  ByteMod = 3
  Glyphs <- TwoGlyphs
  FgColors = {15}
  BgColors = {0, 1}
SPECIFICATION Spec
INVARIANT
  TypeOK
PROPERTIES
  DisplayedCursor
  ImplementsTerminal
