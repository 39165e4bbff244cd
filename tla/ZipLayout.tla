----------------------------- MODULE ZipLayout -----------------------------
(***************************************************************************)
(* The layout of the archive zippity produces: its chunks, their sizes and *)
(* their order (Chunk in src/reader.rs), and the offsets that              *)
(* Builder::build writes down for the reader (src/builder.rs).             *)
(*                                                                         *)
(* Every structure is reduced to its length in bytes.  The lengths are     *)
(* parameters; the packed structs of src/structs.rs have the values        *)
(* 30, 28, 24, 46, 56, 20 and 22.  Entry indices start at 1.               *)
(***************************************************************************)
EXTENDS Integers, Sequences

CONSTANTS
  LocalFileHeaderSize,         \* structs::LocalFileHeader::packed_size()
  Zip64ExtraFieldSize,         \* structs::Zip64ExtraField::packed_size()
  DataDescriptor64Size,        \* structs::DataDescriptor64::packed_size()
  CentralDirectoryHeaderSize,  \* structs::CentralDirectoryHeader::packed_size()
  Zip64EocdRecordSize,         \* structs::Zip64EndOfCentralDirectoryRecord
  Zip64EocdLocatorSize,        \* structs::Zip64EndOfCentralDirectoryLocator
  EndOfCentralDirectorySize    \* structs::EndOfCentralDirectory

ASSUME StructSizesAssumption ==
  /\ LocalFileHeaderSize        \in Nat \ {0}
  /\ Zip64ExtraFieldSize        \in Nat \ {0}
  /\ DataDescriptor64Size       \in Nat \ {0}
  /\ CentralDirectoryHeaderSize \in Nat \ {0}
  /\ Zip64EocdRecordSize        \in Nat \ {0}
  /\ Zip64EocdLocatorSize       \in Nat \ {0}
  /\ EndOfCentralDirectorySize  \in Nat \ {0}

-----------------------------------------------------------------------------
(* Sizes the builder computes.                                             *)

LocalHeaderSize_NoDescriptor(name_len) ==
  LocalFileHeaderSize + Zip64ExtraFieldSize + name_len
LocalHeaderSize(name_len) ==
  LocalFileHeaderSize + Zip64ExtraFieldSize + name_len + DataDescriptor64Size

CdHeaderSize(name_len) ==
  CentralDirectoryHeaderSize + Zip64ExtraFieldSize + name_len

EocdSize ==
  Zip64EocdRecordSize + Zip64EocdLocatorSize + EndOfCentralDirectorySize

-----------------------------------------------------------------------------
(* Chunks: the high level cursor of the reader.                            *)

EntryKinds == {"LocalHeader", "EntryData", "DataDescriptor", "CDFileHeader"}

Chunk(kind, i) == [kind |-> kind, entry_index |-> i]
Eocd           == Chunk("Eocd", 0)
Finished       == Chunk("Finished", 0)

Chunks(entries) ==
  [kind : EntryKinds, entry_index : 1 .. Len(entries)] \union {Eocd, Finished}

FirstChunk(entries) ==
  IF entries = << >> THEN Eocd ELSE Chunk("LocalHeader", 1)

ChunkSize(entries, c) ==
  LET i == c.entry_index IN
  CASE c.kind = "LocalHeader"    -> LocalFileHeaderSize + entries[i].name_len
                                      + Zip64ExtraFieldSize
    [] c.kind = "EntryData"      -> entries[i].size
    [] c.kind = "DataDescriptor" -> DataDescriptor64Size
    [] c.kind = "CDFileHeader"   -> CentralDirectoryHeaderSize
                                      + entries[i].name_len + Zip64ExtraFieldSize
    [] c.kind = "Eocd"           -> EocdSize

NextChunk_OneMore(entries, c) ==
  LET i == c.entry_index IN
  CASE c.kind = "LocalHeader"    -> Chunk("EntryData", i)
    [] c.kind = "EntryData"      -> Chunk("DataDescriptor", i)
    [] c.kind = "DataDescriptor" -> Chunk("LocalHeader", i + 1)
    [] c.kind = "CDFileHeader"   -> Chunk("CDFileHeader", i + 1)
    [] c.kind = "Eocd"           -> Finished

NextChunk(entries, c) ==
  LET i    == c.entry_index
      more == i + 1 <= Len(entries)
  IN
  CASE c.kind = "LocalHeader"    -> Chunk("EntryData", i)
    [] c.kind = "EntryData"      -> Chunk("DataDescriptor", i)
    [] c.kind = "DataDescriptor" -> IF more THEN Chunk("LocalHeader", i + 1)
                                            ELSE Chunk("CDFileHeader", 1)
    [] c.kind = "CDFileHeader"   -> IF more THEN Chunk("CDFileHeader", i + 1)
                                            ELSE Eocd
    [] c.kind = "Eocd"           -> Finished

-----------------------------------------------------------------------------
(* An archive is what the builder hands to Reader::new: the entries with   *)
(* their offsets, and the Sizes.  An entry's crc32 is the value the reader *)
(* starts from.  Two fields are not in the code: actual, the number of     *)
(* bytes the entry's data really yields, and cd_pos, where each central    *)
(* directory header lies (the code knows only the first, cd_offset, and    *)
(* walks to the others).                                                   *)

(* A CRC32 is identified with what it was computed from: the first n bytes *)
(* of entry i.  NoCrc is None, WrongCrc a value that is not the entry's.   *)
Crc      == Nat \X Nat
NoCrc    == << 0, 0 >>
EmptyCrc == << 0, 1 >>
WrongCrc == << 0, 2 >>
CrcOf(i, n) == IF n = 0 THEN EmptyCrc ELSE << i, n >>

Entry == [name_len : Nat, size : Nat, offset : Nat, actual : Nat, crc32 : Crc]

DataStart(a, i) ==
  a.entries[i].offset + LocalFileHeaderSize + a.entries[i].name_len
    + Zip64ExtraFieldSize

(* Where a chunk starts in the file. *)
ChunkStart(a, c) ==
  LET i == c.entry_index IN
  CASE c.kind = "LocalHeader"    -> a.entries[i].offset
    [] c.kind = "EntryData"      -> DataStart(a, i)
    [] c.kind = "DataDescriptor" -> DataStart(a, i) + a.entries[i].size
    [] c.kind = "CDFileHeader"   -> a.cd_pos[i]
    [] c.kind = "Eocd"           -> a.eocd_offset
    [] c.kind = "Finished"       -> a.total_size

(* The layout the reader takes for granted: chunks in NextChunk order tile *)
(* the file from 0 to total_size, and the offsets that were written down   *)
(* are where those chunks start.                                           *)
WellLaidOut(a) ==
  LET n == Len(a.entries) IN
  /\ a.entries \in Seq(Entry)
  /\ a.cd_offset \in Nat /\ a.eocd_offset \in Nat /\ a.total_size \in Nat
  /\ a.cd_pos \in [1 .. n + 1 -> Nat]
  /\ a.cd_pos[1] = a.cd_offset
  /\ a.cd_pos[n + 1] = a.eocd_offset
  /\ ChunkStart(a, FirstChunk(a.entries)) = 0
  /\ \A c \in Chunks(a.entries) \ {Finished} :
       ChunkStart(a, NextChunk(a.entries, c))
         = ChunkStart(a, c) + ChunkSize(a.entries, c)

(* What comes before each of the sizes, and all of them last: the sums     *)
(* that build() keeps as it goes from entry to entry.                      *)
RunningSum(sizes) ==
  LET sum[i \in 1 .. Len(sizes) + 1] ==
        IF i = 1 THEN 0 ELSE sum[i - 1] + sizes[i - 1]
  IN sum

(* Builder::build: the offsets of the entries added in this order.  An item *)
(* is what the builder knows of an entry, with its actual size.            *)
EntrySizes(items) ==
  [i \in 1 .. Len(items) |-> LocalHeaderSize(items[i].name_len) + items[i].size]
CdHeaderSizes(items) ==
  [i \in 1 .. Len(items) |-> CdHeaderSize(items[i].name_len)]

Build(items) ==
  LET n           == Len(items)
      offset      == RunningSum(EntrySizes(items))
      cd_size     == RunningSum(CdHeaderSizes(items))
      cd_offset   == offset[n + 1]
      eocd_offset == cd_offset + cd_size[n + 1]
  IN
  [entries     |-> [i \in 1 .. n |->
                      [name_len |-> items[i].name_len, size |-> items[i].size,
                       offset |-> offset[i], actual |-> items[i].actual,
                       crc32 |-> items[i].crc32]],
   cd_offset   |-> cd_offset,
   cd_size     |-> cd_size[n + 1],
   eocd_offset |-> eocd_offset,
   total_size  |-> eocd_offset + EocdSize,
   cd_pos      |-> [i \in 1 .. n + 1 |-> cd_offset + cd_size[i]]]

(* Reader::new_empty_file, which is also what take_pinned leaves behind.   *)
NewEmptyFile ==
  [entries |-> << >>, cd_offset |-> 0, cd_size |-> 0, eocd_offset |-> 0,
   total_size |-> EocdSize, cd_pos |-> << 0 >>]

(* The data of every entry has the size the entry reports. *)
HonestSizes(a) ==
  \A i \in 1 .. Len(a.entries) : a.entries[i].actual = a.entries[i].size

=============================================================================
