CONSTANTS
  MemTop = 4
  Bits = 8
  Bytes <- MC_Bytes
  Ints <- MC_Ints
  LLInts <- MC_LLInts
  Strs <- MC_Strs
  CharArgs <- MC_CharArgs
  KDirs <- MC_KDirs
  SDirs <- MC_SDirs
  Lens <- MC_Lens
SPECIFICATION Spec
CHECK_DEADLOCK FALSE
INVARIANT TypeOK
INVARIANT MemoryCopiesExact
INVARIANT StringRoutinesExact
INVARIANT ItoaRoundTrip
INVARIANT KprintfMatchesStd
INVARIANT SnprintfTruncates
