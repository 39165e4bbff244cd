\* Sources that answer at once: every operation of the caller.
SPECIFICATION Spec
CONSTANTS
  LocalFileHeaderSize        = 2
  Zip64ExtraFieldSize        = 1
  DataDescriptor64Size       = 2
  CentralDirectoryHeaderSize = 2
  Zip64EocdRecordSize        = 1
  Zip64EocdLocatorSize       = 1
  EndOfCentralDirectorySize  = 2
  Archives      <- HonestArchives
  ReadSizes     =  {0, 1, 3, 40}
  SeekOffsets   <- AllOffsets
  U64Max        =  32
  ScratchSize   =  2
  CallerOps     =  {"Start", "Current", "End", "Take"}
  CanPend       =  FALSE
  CanFail       =  FALSE
  RetriedErrors =  {}
INVARIANTS TypeOK TellIsCursor
PROPERTIES ImplementsStream DataLeavesCrc
CHECK_DEADLOCK FALSE
