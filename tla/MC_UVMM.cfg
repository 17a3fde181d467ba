CONSTANTS
  RamTop <- MC_RamTop
  BiosStart <- MC_BiosStart
  BiosEnd <- MC_BiosEnd
  KernBase <- MC_KernBase
  KernTop <- MC_KernTop
  NoRange = NoRange
  VTop = 1
  PagingFrames = 0
  W <- MC_W
  UserOffset <- MC_UserOffset
  StackHint <- MC_StackHint
  StackSize <- MC_StackSize
  MaxRes <- MC_MaxRes
  ArenaCap <- MC_ArenaCap
  MaxLoop <- MC_MaxLoop
  MapArgs <- MC_MapArgs
  UnmapArgs <- MC_UnmapArgs
  ResizeArgs <- MC_ResizeArgs
  BrkTops <- MC_BrkTops
  MaxCalls <- MC_MaxCalls

SPECIFICATION Spec
CONSTRAINT CallBound
CHECK_DEADLOCK FALSE
INVARIANT TypeOK
INVARIANT FrameRefsMatchMappings
INVARIANT ResourceRefsMatchArenas
INVARIANT VmStatsMatchArenas
