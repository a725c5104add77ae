CONSTANTS
  StackSize = 34
  Tops <- AllAlignments
  Contexts <- SomeContexts
  ErrCode = 777
  IntMax = 127
  Formats <- SomeFormats
  Args <- ArgsOf
SPECIFICATION Spec
INVARIANTS
  HandlerSeesInterrupt
  ReturnsToInterrupted
  PrintfShowsText
  BeyondOnlyAfterPercent
  UnhandledIsNamed
CHECK_DEADLOCK FALSE
