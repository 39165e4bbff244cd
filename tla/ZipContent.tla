----------------------------- MODULE ZipContent -----------------------------
(***************************************************************************)
(* The structures the reader writes (read_local_header and the others in   *)
(* src/reader.rs, the packed structs in src/structs.rs), one piece after   *)
(* the other, and the way back: the pointers a program that unzips the     *)
(* archive follows, from the end of the file to the data of every entry.   *)
(*                                                                         *)
(* A structure is the record of its fields, a name or an entry's data one  *)
(* piece.  The writer puts pieces in the order of the chunks; whether an   *)
(* offset it writes is where something lies is for Unzips to find out.     *)
(***************************************************************************)
EXTENDS ZipLayout, FiniteSets

CONSTANTS
  U16Max,        \* u16::MAX: the longest name, and "see the Zip64 fields"
  U32Max         \* u32::MAX

ASSUME ContentAssumption == U16Max \in Nat /\ U32Max \in Nat

Store              == 0
Unix               == 3
Zip64Version       == 45
Zip64ExtraFieldTag == 1

(* Flags are the set of the bits that are 1 on the wire.  A packed 16-bit  *)
(* number is the bytes of its bits in the order of packed_struct, high     *)
(* byte first, read as a number with the low byte first: bit 11 arrives as *)
(* bit 3, which is why the fields of GpBitFlag carry each other's numbers. *)
WireBit(bit) == (bit + 8) % 16

GpBitFlag(use_data_descriptor, language_encoding) ==
  (IF use_data_descriptor THEN {WireBit(11)} ELSE {})
    \union (IF language_encoding THEN {WireBit(3)} ELSE {})

VersionMadeBy == Zip64Version + 256 * Unix

-----------------------------------------------------------------------------
(* The structures.  a is what build() laid out; d[i] is the rest of the    *)
(* i-th ReaderEntry: [name, datetime, external_attributes].                *)

Piece(kind, size, fields) == [kind |-> kind, size |-> size, fields |-> fields]

LocalFileHeader(a, d, i) ==
  [version_to_extract |-> Zip64Version,
   flags              |-> GpBitFlag(TRUE, TRUE),
   compression        |-> Store,
   last_mod_datetime  |-> d[i].datetime,
   compressed_size    |-> U32Max,
   uncompressed_size  |-> U32Max,
   file_name_len      |-> a.entries[i].name_len,
   extra_field_len    |-> Zip64ExtraFieldSize]

(* The values are uncompressed size, compressed size and offset.  The first *)
(* four bytes are tag and size.                                            *)
Zip64ExtraField(uncompressed_size, compressed_size, offset) ==
  [tag    |-> Zip64ExtraFieldTag,
   size   |-> Zip64ExtraFieldSize - 4,
   values |-> << uncompressed_size, compressed_size, offset >>]

(* The CRC that ReaderEntry::get_crc finds: the given one, or that of the  *)
(* data.                                                                   *)
GetCrc(a, i) ==
  IF a.entries[i].crc32 # NoCrc THEN a.entries[i].crc32
  ELSE CrcOf(i, a.entries[i].actual)

DataDescriptor64(a, i) ==
  [crc32             |-> GetCrc(a, i),
   compressed_size   |-> a.entries[i].size,
   uncompressed_size |-> a.entries[i].size]

CentralDirectoryHeader(a, d, i) ==
  [version_made_by     |-> VersionMadeBy,
   version_to_extract  |-> Zip64Version,
   flags               |-> GpBitFlag(FALSE, TRUE),
   compression         |-> Store,
   last_mod_datetime   |-> d[i].datetime,
   crc32               |-> GetCrc(a, i),
   compressed_size     |-> U32Max,
   uncompressed_size   |-> U32Max,
   file_name_len       |-> a.entries[i].name_len,
   extra_field_len     |-> Zip64ExtraFieldSize,
   file_comment_length |-> 0,
   external_attributes |-> d[i].external_attributes,
   local_header_offset |-> U32Max]

Zip64EocdRecord(a) ==
  [size_of_zip64_eocd   |-> Zip64EocdRecordSize - 12,
   version_made_by      |-> VersionMadeBy,
   version_to_extract   |-> Zip64Version,
   total_cd_entry_count |-> Len(a.entries),
   size_of_cd           |-> a.cd_size,
   cd_offset            |-> a.cd_offset]

Zip64EocdLocator_Directory(a) == [zip64_eocd_offset |-> a.cd_offset]
Zip64EocdLocator(a)           == [zip64_eocd_offset |-> a.eocd_offset]

EndOfCentralDirectory ==
  [total_cd_entry_count |-> U16Max, size_of_cd |-> U32Max, cd_offset |-> U32Max,
   file_comment_length |-> 0]

Pieces(a, d, c) ==
  LET i    == c.entry_index
      name == Piece("Name", a.entries[i].name_len, d[i].name)
      Extra(uncompressed, compressed) ==
        Piece("Zip64ExtraField", Zip64ExtraFieldSize,
              Zip64ExtraField(uncompressed, compressed, a.entries[i].offset))
  IN
  CASE c.kind = "LocalHeader" ->
         << Piece(c.kind, LocalFileHeaderSize, LocalFileHeader(a, d, i)),
            name, Extra(0, 0) >>
    [] c.kind = "EntryData" ->
         << Piece(c.kind, a.entries[i].actual, i) >>
    [] c.kind = "DataDescriptor" ->
         << Piece(c.kind, DataDescriptor64Size, DataDescriptor64(a, i)) >>
    [] c.kind = "CDFileHeader" ->
         << Piece(c.kind, CentralDirectoryHeaderSize,
                  CentralDirectoryHeader(a, d, i)),
            name, Extra(a.entries[i].size, a.entries[i].size) >>
    [] c.kind = "Eocd" ->
         << Piece("Zip64EocdRecord", Zip64EocdRecordSize, Zip64EocdRecord(a)),
            Piece("Zip64EocdLocator", Zip64EocdLocatorSize, Zip64EocdLocator(a)),
            Piece("EndOfCentralDirectory", EndOfCentralDirectorySize,
                  EndOfCentralDirectory) >>

(* The chunks in the order in which the reader comes to them, and the      *)
(* offsets where they come to lie, the end of the file being the last: each *)
(* piece is written behind the one before.                                 *)
ChunkOrder(entries) ==
  LET chunk[k \in 1 .. 4 * Len(entries) + 1] ==
        IF k = 1 THEN FirstChunk(entries) ELSE NextChunk(entries, chunk[k - 1])
  IN chunk

PieceOffsets(pieces) == RunningSum([j \in 1 .. Len(pieces) |-> pieces[j].size])

ChunkOffsets(a, d) ==
  RunningSum([k \in 1 .. 4 * Len(a.entries) + 1 |->
                LET pieces == Pieces(a, d, ChunkOrder(a.entries)[k])
                IN PieceOffsets(pieces)[Len(pieces) + 1]])

(* The whole file: its length, and all pieces with where they lie. *)
Placed(pieces, start) ==
  {[kind |-> pieces[j].kind, at |-> start + PieceOffsets(pieces)[j],
    fields |-> pieces[j].fields] : j \in 1 .. Len(pieces)}

Image(a, d) ==
  LET count == 4 * Len(a.entries) + 1
      start == ChunkOffsets(a, d)
  IN
  [end    |-> start[count + 1],
   placed |-> UNION {Placed(Pieces(a, d, ChunkOrder(a.entries)[k]), start[k])
                       : k \in 1 .. count}]

-----------------------------------------------------------------------------
(* Unzipping: a program that knows nothing but the image.                  *)

Found(image, kind, at) ==
  \E piece \in image.placed : piece.kind = kind /\ piece.at = at
ReadAt(image, kind, at) ==
  (CHOOSE piece \in image.placed : piece.kind = kind /\ piece.at = at).fields

HasBit(flags, bit) == bit \in flags

(* Which of the Zip64 values stands for a field: they are there for the    *)
(* fields that are U32Max, in a fixed order.                               *)
Zip64Value(field, before, extra) ==
  IF field # U32Max THEN field
  ELSE extra.values[1 + Cardinality({k \in DOMAIN before : before[k] = U32Max})]

(* The record at the end of the directory: from the end of the file, where *)
(* everything is "see Zip64", over the locator.                            *)
EndFound(image) ==
  LET eocd_at    == image.end - EndOfCentralDirectorySize
      locator_at == eocd_at - Zip64EocdLocatorSize
  IN
  /\ Found(image, "EndOfCentralDirectory", eocd_at)
  /\ ReadAt(image, "EndOfCentralDirectory", eocd_at).cd_offset = U32Max
  /\ Found(image, "Zip64EocdLocator", locator_at)
  /\ LET at == ReadAt(image, "Zip64EocdLocator", locator_at).zip64_eocd_offset IN
     /\ Found(image, "Zip64EocdRecord", at)
     /\ at + 12 + ReadAt(image, "Zip64EocdRecord", at).size_of_zip64_eocd
          = locator_at

EndRecord(image) ==
  LET locator == ReadAt(image, "Zip64EocdLocator",
                   image.end - EndOfCentralDirectorySize - Zip64EocdLocatorSize)
  IN ReadAt(image, "Zip64EocdRecord", locator.zip64_eocd_offset)

(* Where the i-th central directory header lies, and -1 where no header    *)
(* leads to it.                                                            *)
HeaderAt(image) ==
  LET at[i \in 1 .. EndRecord(image).total_cd_entry_count + 1] ==
        IF i = 1 THEN EndRecord(image).cd_offset
        ELSE LET before == at[i - 1] IN
             IF ~Found(image, "CDFileHeader", before) THEN -1
             ELSE LET h == ReadAt(image, "CDFileHeader", before) IN
                  before + CentralDirectoryHeaderSize + h.file_name_len
                    + h.extra_field_len + h.file_comment_length
  IN at

(* A local header at this offset leads to data of this size, then to a     *)
(* data descriptor that agrees.                                            *)
LocalPartUnzips(image, at, e) ==
  /\ Found(image, "LocalHeader", at)
  /\ LET h       == ReadAt(image, "LocalHeader", at)
         data_at == at + LocalFileHeaderSize + h.file_name_len
                      + h.extra_field_len
     IN
     /\ HasBit(h.flags, 3) /\ HasBit(h.flags, 11)
     /\ h.last_mod_datetime = e.datetime
     /\ Found(image, "Name", at + LocalFileHeaderSize)
     /\ ReadAt(image, "Name", at + LocalFileHeaderSize) = e.name
     /\ Found(image, "EntryData", data_at)
     /\ ReadAt(image, "EntryData", data_at) = e.data
     /\ Found(image, "DataDescriptor", data_at + e.size)
     /\ LET descriptor == ReadAt(image, "DataDescriptor", data_at + e.size) IN
        /\ descriptor.crc32 = e.crc32
        /\ descriptor.uncompressed_size = e.size
        /\ descriptor.compressed_size = e.size

(* The central directory header at this offset describes entry e, and      *)
(* leads to the rest of it.                                                *)
EntryUnzips(image, at, e) ==
  /\ Found(image, "CDFileHeader", at)
  /\ LET h        == ReadAt(image, "CDFileHeader", at)
         name_at  == at + CentralDirectoryHeaderSize
         extra_at == name_at + h.file_name_len
     IN
     /\ Found(image, "Name", name_at) /\ Found(image, "Zip64ExtraField", extra_at)
     /\ ReadAt(image, "Name", name_at) = e.name
     /\ h.crc32 = e.crc32
     /\ h.last_mod_datetime = e.datetime
     /\ h.version_made_by \div 256 = Unix
     /\ h.external_attributes.high = e.mode
     /\ ~HasBit(h.flags, 3) /\ HasBit(h.flags, 11)
     /\ LET extra  == ReadAt(image, "Zip64ExtraField", extra_at)
            size   == Zip64Value(h.uncompressed_size, << >>, extra)
            packed == Zip64Value(h.compressed_size, << h.uncompressed_size >>,
                                 extra)
            offset == Zip64Value(h.local_header_offset,
                         << h.uncompressed_size, h.compressed_size >>, extra)
        IN
        /\ extra.size = 8 * Len(extra.values)
        /\ size = e.size /\ packed = e.size
        /\ LocalPartUnzips(image, offset, e)

(* The image is an archive of these entries, in their order. *)
Unzips(image, expected) ==
  /\ EndFound(image)
  /\ LET n  == EndRecord(image).total_cd_entry_count
         at == HeaderAt(image)
     IN
     /\ n = Len(expected)
     /\ \A i \in 1 .. n : EntryUnzips(image, at[i], expected[i])
     /\ at[n + 1] = EndRecord(image).cd_offset + EndRecord(image).size_of_cd

=============================================================================
