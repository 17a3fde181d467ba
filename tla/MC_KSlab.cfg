CONSTANTS
  PageSize = 4096
  KslabSize = 28
  CacheSize = 44
  FreeObjSize = 8
  MaxPagesPerSlab = 32
  Classes <- MC_Classes
  CachesPage = 1
  PoolLo = 2
  PoolTop = 11
  Sizes = {8, 4096, 20000}
  MaxLive = 5
SPECIFICATION Spec
INVARIANT TypeOK
INVARIANT SlabLayoutFits
INVARIANT SlabsConsistent
INVARIANT LiveBlocksHeld
INVARIANT NothingHeldWhenIdle
PROPERTY AllocatorRefined
