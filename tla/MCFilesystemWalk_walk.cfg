\* Walks over trees that change, with failures and dropped futures.
SPECIFICATION FairWalkSpec
CONSTANTS
  LocalFileHeaderSize        = 2
  Zip64ExtraFieldSize        = 1
  DataDescriptor64Size       = 2
  CentralDirectoryHeaderSize = 2
  Zip64EocdRecordSize        = 1
  Zip64EocdLocatorSize       = 1
  EndOfCentralDirectorySize  = 2
  Names       <- MCNames
  NameLen     <- MCNameLen
  Data        <- MCData
  U16Max      =  4
  U32Max      =  70
  U64Max      =  60
  MaxEntries  =  9
  MaxSetters  =  0
  MaxWrites   =  0
  Crc32s      =  {}
  Fields      =  {}
  Times       =  {"now"}
  NoTime      =  NoTime
  Converters  =  {}
  NoConverter =  NoConverter
  Convert     <- MCConvert
  Modes       =  {}
  Metadatas   =  {}
  Lossy       <- MCLossy
  Trees       <- MCTrees
  Paths       <- MCPaths
  Nodes       <- MCNodes
  RootNames   <- MCRootNames
  EntryNames  <- MCEntryNames
  CanFail     =  TRUE
  MaxChanges  =  1
  MaxCalls    =  2
INVARIANTS WalkTypeOK OkWalkIsTheTree DirectoriesInOrder EntriesAgree
PROPERTIES WalkEnds
CHECK_DEADLOCK FALSE
