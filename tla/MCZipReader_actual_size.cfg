\* Doc of ReadError::SizeMismatch::actual_size.
SPECIFICATION Spec
CONSTANTS
  LocalFileHeaderSize        = 2
  Zip64ExtraFieldSize        = 1
  DataDescriptor64Size       = 2
  CentralDirectoryHeaderSize = 2
  Zip64EocdRecordSize        = 1
  Zip64EocdLocatorSize       = 1
  EndOfCentralDirectorySize  = 2
  Archives      <- FaultyArchives
  ReadSizes     =  {3, 40}
  SeekOffsets   <- AllOffsets
  U64Max        =  32
  ScratchSize   =  2
  CallerOps     =  {"Start"}
  CanPend       =  FALSE
  CanFail       =  FALSE
  RetriedErrors =  {}
INVARIANTS ActualSizeReported
CHECK_DEADLOCK FALSE
