\* Does data that ends while it is skipped make the response fail?
SPECIFICATION ServedSpec
CONSTANTS
  LocalFileHeaderSize        = 2
  Zip64ExtraFieldSize        = 1
  DataDescriptor64Size       = 2
  CentralDirectoryHeaderSize = 2
  Zip64EocdRecordSize        = 1
  Zip64EocdLocatorSize       = 1
  EndOfCentralDirectorySize  = 2
  Archives      <- ShortArchives
  ReadSizes     =  {3}
  SeekOffsets   =  {0}
  U64Max        =  32
  ScratchSize   =  3
  CallerOps     =  {}
  CanPend       =  TRUE
  CanFail       =  FALSE
  RetriedErrors =  {}
PROPERTIES ErrorComesLater
CHECK_DEADLOCK FALSE
