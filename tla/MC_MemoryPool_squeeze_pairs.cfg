CONSTANTS
  NumStackType = 10
  StackType <- MCStackType
  NumEntryMemBlock = 2
  PtrSize = 8
  PageSize = 64
  MemBlockBase = 4096
  MemPointerBlockBase = 20480
  HeapBase = 65536
  NaN = NaN
  Configs <- ConfigsSqueezePairs
  Requests <- RequestsMapped
  MaxHeld = 3
  HeapLimit = 98304
SPECIFICATION Spec
CONSTRAINT HeapBound
PROPERTY SqueezeMovesPairsUp
