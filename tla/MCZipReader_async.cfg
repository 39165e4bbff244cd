\* Sources that may stay pending or fail; after an error the caller seeks.
SPECIFICATION Spec
CONSTANTS
  LocalFileHeaderSize        = 2
  Zip64ExtraFieldSize        = 1
  DataDescriptor64Size       = 2
  CentralDirectoryHeaderSize = 2
  Zip64EocdRecordSize        = 1
  Zip64EocdLocatorSize       = 1
  EndOfCentralDirectorySize  = 2
  Archives      <- HonestArchives
  ReadSizes     =  {1, 3, 40}
  SeekOffsets   <- AllOffsets
  U64Max        =  32
  ScratchSize   =  2
  CallerOps     =  {"Start", "End"}
  CanPend       =  TRUE
  CanFail       =  TRUE
  RetriedErrors =  {}
INVARIANTS OpensOnlyWhatItNeeds CrcTrue
PROPERTIES ImplementsStream
CHECK_DEADLOCK FALSE
