\* Docs of the _or_default setters, for times that cannot be represented.
SPECIFICATION Spec
CONSTANTS
  LocalFileHeaderSize        = 30
  Zip64ExtraFieldSize        = 28
  DataDescriptor64Size       = 24
  CentralDirectoryHeaderSize = 46
  Zip64EocdRecordSize        = 56
  Zip64EocdLocatorSize       = 20
  EndOfCentralDirectorySize  = 22
  Names       <- MCNames
  NameLen     <- MCNameLen
  Data        <- MCData
  U16Max      =  3
  U32Max      =  500
  U64Max      =  581
  MaxEntries  =  1
  MaxSetters  =  3
  MaxWrites   =  0
  Crc32s      <- MCCrc32s
  Fields      <- MCFields
  Times       <- MCTimes
  NoTime      =  NoTime
  Converters  <- MCConverters
  NoConverter =  NoConverter
  Convert     <- MCConvert
  Modes       <- MCModes
  Metadatas   <- MCMetadatas
INVARIANTS OrDefaultIsDefault
