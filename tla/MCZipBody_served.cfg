\* A response from respond_to to its end, dropped at any poll.
SPECIFICATION ServedSpec
CONSTANTS
  LocalFileHeaderSize        = 2
  Zip64ExtraFieldSize        = 1
  DataDescriptor64Size       = 2
  CentralDirectoryHeaderSize = 2
  Zip64EocdRecordSize        = 1
  Zip64EocdLocatorSize       = 1
  EndOfCentralDirectorySize  = 2
  Archives      <- ServedArchives
  ReadSizes     =  {3}
  SeekOffsets   =  {0}
  U64Max        =  32
  ScratchSize   =  3
  CallerOps     =  {}
  CanPend       =  TRUE
  CanFail       =  TRUE
  RetriedErrors =  {}
INVARIANTS BodySendsRange BodyNeverPanics CompleteIsHonest ReaderComesBack
PROPERTIES ResponseEnds
CHECK_DEADLOCK FALSE
