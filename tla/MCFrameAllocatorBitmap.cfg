CONSTANTS
  FrameSize = 4
  KB = 2
  LowKB = 6
  BitsPerByte = 2
  DwordBytes = 2
  WordMod = 64
  KernelStart = 12
  KernelEnd = 18
  VirtualStart = 60
  VirtualBase = 48
  BootInfos <- PlainMaps
  RamContents <- AnyRam
SPECIFICATION Spec
INVARIANT
  BitmapNeverAllocated
