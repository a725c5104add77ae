CONSTANTS
  BiosMasks <- AnyMask
  ScanCodes = {0, 1, 2}
  kNumKeys = 2
  MaxKeys = 1
SPECIFICATION Spec
PROPERTY
  KeyboardServed
