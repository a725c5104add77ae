CONSTANTS
  kNumRows = 2
  kNumCols = 3
  kNumTab = 2
  ByteMod = 3
  Glyphs <- TwoGlyphs
  FgColors = {15}
  BgColors = {0}
  Texts <- Messages
  KeyChars = {"a", "BS", "TAB", "LF", "none"}
  MaxKeys = 1
SPECIFICATION ConsoleSpec
PROPERTY
  KeysOnScreen
