CONSTANTS
  RamTop <- MC_RamTop
  BiosStart <- MC_BiosStart
  BiosEnd <- MC_BiosEnd
  KernBase <- MC_KernBase
  KernTop <- MC_KernTop
  NoRange = NoRange
  VTop = 1
  PagingFrames = 0
  W <- MC_W
  UserOffset <- MC_UserOffset
  StackHint <- MC_StackHint
  StackSize <- MC_StackSize
  MaxRes <- MC_MaxRes
  ArenaCap <- RS_ArenaCap
  MaxLoop <- MC_MaxLoop
  MapArgs <- RS_MapArgs
  UnmapArgs <- MC_UnmapArgs
  ResizeArgs <- RS_Move
  BrkTops <- RS_BrkTops
  MaxCalls <- RS_MaxCalls

SPECIFICATION Spec
CONSTRAINT CallBound
CHECK_DEADLOCK FALSE
INVARIANT FrameRefsMatchMappings
