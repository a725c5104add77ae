CONSTANTS
  PageSize = 8
  NumPages = 4
  KERNEL_PAGE_NUMBER = 3
  loader = 2
  Ends <- SomeEnds
  Infos <- LowMemory
  VGA = 1
  magic = 99
  kMaxIdtEntries = 52
  Links <- SomeLinks
  ExtraGates <- SomeGates
  OtherSegments <- SomeSegments
SPECIFICATION Spec
INVARIANTS
  InstructionsFetched
  ParametersInOrder
  LowHalfUnmapped
  SegmentsAsAsked
  SelectorsUsable
  InterruptRunsItsStub
