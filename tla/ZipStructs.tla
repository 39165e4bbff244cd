----------------------------- MODULE ZipStructs -----------------------------
(***************************************************************************)
(* The packed structures of src/structs.rs: the widths in bytes of their   *)
(* fields, in their order, and the packed size of a structure.             *)
(***************************************************************************)
EXTENDS Integers, SequencesExt

PackedSize(widths) == FoldLeft(LAMBDA sum, width : sum + width, 0, widths)

(* Types of fields that are structures or enums themselves. *)
GpBitFlagWidth     == 2
CompressionWidth   == 2
VersionMadeByWidth == PackedSize(<< 1, 1 >>)
DosDatetimeWidth   == PackedSize(<< 2, 2 >>)

(* signature, version_to_extract, flags, compression, last_mod_datetime,   *)
(* crc32, two sizes, two lengths.                                          *)
LocalFileHeaderWidths ==
  << 4, 2, GpBitFlagWidth, CompressionWidth, DosDatetimeWidth, 4, 4, 4, 2, 2 >>

(* tag, size, two sizes, offset. *)
Zip64ExtraFieldWidths == << 2, 2, 8, 8, 8 >>

(* signature, crc32, two sizes. *)
DataDescriptor64Widths == << 4, 4, 8, 8 >>

(* As in the local header, with version_made_by before and comment length, *)
(* disk number, two kinds of attributes and the offset behind.             *)
CentralDirectoryHeaderWidths ==
  << 4, VersionMadeByWidth, 2, GpBitFlagWidth, CompressionWidth,
     DosDatetimeWidth, 4, 4, 4, 2, 2, 2, 2, 2, 4, 4 >>

(* signature, own size, versions, two disk numbers, two counts, size and   *)
(* offset of the directory.                                                *)
Zip64EocdRecordWidths == << 4, 8, VersionMadeByWidth, 2, 4, 4, 8, 8, 8, 8 >>

(* signature, disk number, offset of the record, number of disks. *)
Zip64EocdLocatorWidths == << 4, 4, 8, 4 >>

(* signature, two disk numbers, two counts, size and offset, comment. *)
EndOfCentralDirectoryWidths == << 4, 2, 2, 2, 2, 4, 4, 2 >>
=============================================================================
