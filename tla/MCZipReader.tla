---------------------------- MODULE MCZipReader ----------------------------
(***************************************************************************)
(* Instances of ZipReader for TLC.  The structures are a few bytes long    *)
(* instead of 20 to 56, but keep what the code distinguishes: a header is  *)
(* several pieces, a buffer may be shorter or longer than any of them.     *)
(***************************************************************************)
EXTENDS ZipReader

Item(name_len, size, actual, crc) ==
  [name_len |-> name_len, size |-> size, actual |-> actual, crc32 |-> crc]

(* The empty file that is made without a builder is the one a builder would *)
(* make.                                                                   *)
ASSUME EmptyFileAssumption == NewEmptyFile = Build(<< >>)

(* Data that keeps its promises: with and without a given CRC. *)
Honest(name_len, size)     == Item(name_len, size, size, NoCrc)
WithCrc(i, name_len, size) == Item(name_len, size, size, CrcOf(i, size))

EmptyZip    == NewEmptyFile
TwoFiles    == Build(<< Honest(1, 2), Honest(1, 2) >>)
FileAndDir  == Build(<< Honest(1, 0), WithCrc(2, 2, 3) >>)
CachedFirst == Build(<< WithCrc(1, 1, 3), Honest(0, 2) >>)

HonestArchives == {EmptyZip, TwoFiles, FileAndDir, CachedFirst}
TwoArchives    == {TwoFiles, CachedFirst}

(* Data that is shorter or longer than it said, or has another CRC, beside *)
(* data that is as it said.                                                *)
FaultyArchives ==
  {Build(<< Item(1, 3, 1, NoCrc), Honest(1, 1) >>),
   Build(<< Item(1, 1, 2, NoCrc), Honest(1, 1) >>),
   Build(<< Honest(1, 1), Item(1, 3, 1, CrcOf(2, 1)) >>),
   Build(<< Honest(1, 1), Item(1, 2, 1, WrongCrc) >>),
   Build(<< Item(1, 2, 2, WrongCrc), Honest(1, 1) >>),
   Build(<< WithCrc(1, 1, 2), Honest(1, 2) >>)}

AllOffsets   == -1 .. 26

=============================================================================
