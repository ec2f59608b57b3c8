CONSTANTS
  NumStackType = 10
  StackType <- MCStackType
  NumEntryMemBlock = 2
  PtrSize = 8
  PageSize = 64
  MemBlockBase = 4096
  MemPointerBlockBase = 20480
  HeapBase = 65536
  NaN = NaN
  Configs <- ConfigsGood
  Requests <- RequestsPooled
  MaxHeld = 3
  HeapLimit = 98304
SPECIFICATION WorkloadSpec
CONSTRAINT WorkloadHeapBound
INVARIANTS
  TypeOK
  NoAliasing
  LiveMemoryMapped
  StackWithinCapacity
PROPERTIES
  AbsSpec
