CONSTANTS
  MaxDrivers = 3
  DriverNames <- MC_DriverNames
  MountNames <- MC_MountNames
  Paths <- MC_Paths
  Devices <- MC_Devices
  FsTypes <- MC_FsTypes
  ReadSizes <- MC_ReadSizes
  OfdIds <- MC_OfdIds
  MaxInsts = 2
  MaxCalls = 6
  NULL = NULL
  FdMax = 2
  Bits = 8
  UserSpace = 192
  UserLens <- MC_UserLens
  UserFds <- MC_UserFds

SPECIFICATION SSpec
CHECK_DEADLOCK FALSE
INVARIANT STypeOK
INVARIANT DevfsReaddirExact
