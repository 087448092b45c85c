\* BUG_ON stops the kernel when the frames run out.
CONSTANTS
  MaxPid = 3
  NFrames = 10
  L2Entries = 2
  KernelPage = 8
  StackPages = 1
  HeapPages = 2
  ImageSizes <- MCImageSizes
  StorePages <- MCStorePages
  Increments <- MCIncrements
  IntRange = 16
SPECIFICATION Spec
CHECK_DEADLOCK FALSE
INVARIANTS
  TypeOK
  FramesCounted
  Isolated
  TranslationsSound
  MemoryAsWritten
  HeapSound
