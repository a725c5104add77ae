CONSTANTS
  BiosMasks <- AnyMask
  ScanCodes = {0, 1, 2}
  kNumKeys = 2
  MaxKeys = 3
SPECIFICATION Spec
INVARIANTS
  TypeOK
  BootedMasks
  ShownInOrder
PROPERTIES
  RemapEndsPanics
  EoiRetiresKeyboard
  BootEnds
  KeysAppear
