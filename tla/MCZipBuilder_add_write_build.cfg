\* add_entry, setters, writes through get_entries_mut, and build after any of them.
SPECIFICATION Spec
CONSTANTS
  LocalFileHeaderSize        = 30
  Zip64ExtraFieldSize        = 28
  DataDescriptor64Size       = 24
  CentralDirectoryHeaderSize = 46
  Zip64EocdRecordSize        = 56
  Zip64EocdLocatorSize       = 20
  EndOfCentralDirectorySize  = 22
  Names       <- MCNames
  NameLen     <- MCNameLen
  Data        <- MCData
  U16Max      =  3
  U32Max      =  100
  U64Max      =  581
  MaxEntries  =  3
  MaxSetters  =  1
  MaxWrites   =  1
  Crc32s      <- MCCrc32s
  Fields      <- MCFields
  Times       <- MCTimes
  NoTime      =  NoTime
  Converters  <- MCConverters
  NoConverter =  NoConverter
  Convert     <- MCConvert
  Modes       <- MCModes
  Metadatas   <- MCMetadatas
INVARIANTS TypeOK SizeIsBuiltUnlessWritten BuiltIsWellLaidOut AcceptsExactlyWhatFits BuiltUnzips
CHECK_DEADLOCK FALSE
