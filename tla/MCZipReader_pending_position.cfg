\* Doc of tell(): sources that stay pending.
SPECIFICATION Spec
CONSTANTS
  LocalFileHeaderSize        = 2
  Zip64ExtraFieldSize        = 1
  DataDescriptor64Size       = 2
  CentralDirectoryHeaderSize = 2
  Zip64EocdRecordSize        = 1
  Zip64EocdLocatorSize       = 1
  EndOfCentralDirectorySize  = 2
  Archives      <- TwoArchives
  ReadSizes     =  {3, 40}
  SeekOffsets   <- AllOffsets
  U64Max        =  32
  ScratchSize   =  2
  CallerOps     =  {"Start"}
  CanPend       =  TRUE
  CanFail       =  FALSE
  RetriedErrors =  {}
INVARIANTS TellIsCursor
CHECK_DEADLOCK FALSE
