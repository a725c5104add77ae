CONSTANTS
  COMPort = {"kCOM1", "kCOM2"}
  BaudRate = {12, 96}
  Bytes = {65, 66}
  ByteMod = 256
  FifoSize = 2
  MaxString = 3
SPECIFICATION Spec
INVARIANTS
  TestedIsSetUp
  LineInOrder
PROPERTY
  StringPrinted
