CONSTANTS
  MemSize = 4
  Bytes <- SomeBytes
  Values <- SomeValues
  IntMax = 4
  Formats <- ShortFormats
  Strings <- SomeStrings
SPECIFICATION Spec
INVARIANTS
  AnswersRight
  CountsTheText
PROPERTY
  CopiesWhatWasThere
CHECK_DEADLOCK FALSE
