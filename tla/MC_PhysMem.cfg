CONSTANTS
  RamTop <- MC_RamTop
  BiosStart <- MC_BiosStart
  BiosEnd <- MC_BiosEnd
  KernBase <- MC_KernBase
  KernTop <- MC_KernTop
  MaxRef <- MC_MaxRef
  NoRange = NoRange

SPECIFICATION Spec
INVARIANT TypeOK
INVARIANT ListsMatchRefcounts
PROPERTY AbstractSpec
