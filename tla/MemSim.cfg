\* Four pages of eight bytes, one of them read-only and one invalid.
CONSTANTS
  MEMORY_PAGE_NUM = 4
  MEMORY_PAGE_SIZE = 8
  ByteRange = 2
  ReadOnly = {2}
  Invalid = {1}
  MaxStores = 2
SPECIFICATION Spec
INVARIANT SelfTestsPass
PROPERTY ImplementsFlatMemory
