CONSTANTS
  RamTop <- MC_RamTop
  BiosStart <- MC_BiosStart
  BiosEnd <- MC_BiosEnd
  KernBase <- MC_KernBase
  KernTop <- MC_KernTop
  NoRange = NoRange
  VTop = 1
  PagingFrames = 0
  W <- MC_W
  UserOffset <- MC_UserOffset
  StackHint <- MC_StackHint
  StackSize <- MC_StackSize
  MaxRes <- MC_MaxRes
  ArenaCap <- API_ArenaCap
  MaxLoop <- MC_MaxLoop
  MapArgs <- API_MapArgs
  UnmapArgs <- API_UnmapArgs
  ResizeArgs <- API_ResizeArgs
  BrkTops <- API_BrkTops
  MaxCalls <- API_MaxCalls

SPECIFICATION Spec
CONSTRAINT CallBound
CHECK_DEADLOCK FALSE
INVARIANT ResourceRefsMatchArenas
INVARIANT VmStatsMatchArenas
