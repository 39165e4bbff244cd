\* Data that is not what it said it would be; a caller that seeks and retries.
SPECIFICATION FairSpec
CONSTANTS
  LocalFileHeaderSize        = 2
  Zip64ExtraFieldSize        = 1
  DataDescriptor64Size       = 2
  CentralDirectoryHeaderSize = 2
  Zip64EocdRecordSize        = 1
  Zip64EocdLocatorSize       = 1
  EndOfCentralDirectorySize  = 2
  Archives      <- FaultyArchives
  ReadSizes     =  {1, 40}
  SeekOffsets   <- AllOffsets
  U64Max        =  32
  ScratchSize   =  2
  CallerOps     =  {"Start"}
  CanPend       =  TRUE
  CanFail       =  TRUE
  RetriedErrors =  {"Io"}
INVARIANTS Delivered NoAssertionFails
PROPERTIES DataChecked CrcStable CallAdvances CallReturns
CHECK_DEADLOCK FALSE
