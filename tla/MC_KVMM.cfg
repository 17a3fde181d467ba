CONSTANTS
  RamTop <- MC_RamTop
  BiosStart <- MC_BiosStart
  BiosEnd <- MC_BiosEnd
  KernBase <- MC_KernBase
  KernTop <- MC_KernTop
  VTop <- MC_VTop
  PagingFrames <- MC_PagingFrames
  KvmmBase <- MC_KvmmBase
  StackBottom <- MC_StackBottom
  StackTop <- MC_StackTop
  ObjPerSlab <- MC_ObjPerSlab
  MaxDepth <- MC_MaxDepth
  MaxAlloc <- MC_MaxAlloc
  MaxCalls <- MC_MaxCalls
  NoRange = NoRange
SPECIFICATION Spec
INVARIANT TypeOK
INVARIANT NoFatal
INVARIANT FreeRangesNonEmpty
INVARIANT FreeRangesExact
INVARIANT SortedAndCoalesced
INVARIANT ListsHoldLiveStructs
INVARIANT SlabAccounting
INVARIANT SlabRangeLinks
INVARIANT OwnedRangesBacked
INVARIANT MappedFramesHeld
CONSTRAINT CallBound
