\* Does a caller that keeps polling get to the end, over every kind of source?
SPECIFICATION SourcesSpec
CONSTANTS
  LocalFileHeaderSize        = 2
  Zip64ExtraFieldSize        = 1
  DataDescriptor64Size       = 2
  CentralDirectoryHeaderSize = 2
  Zip64EocdRecordSize        = 1
  Zip64EocdLocatorSize       = 1
  EndOfCentralDirectorySize  = 2
  Archives      <- MCArchives
  ReadSizes     =  {1, 40}
  SeekOffsets   <- MCOffsets
  U64Max        =  32
  ScratchSize   =  2
  CallerOps     =  {"Start", "Take"}
  CanPend       =  TRUE
  CanFail       =  TRUE
  RetriedErrors =  {}
  Kinds         =  {"AsRef", "File", "Symlink", "Directory", "Zeros", "Lazy", "EmptyUnsupported"}
  MaxMoves      =  1
INVARIANTS SourceInStep
PROPERTIES ReadsToEnd
CHECK_DEADLOCK FALSE
