---------------------------- MODULE MCZipSources ----------------------------
(* Instances of ZipSources for TLC: two entries of any kind, of which one   *)
(* may be empty, with and without a CRC.                                    *)
EXTENDS ZipSources

Item(size, crc) ==
  [name_len |-> 1, size |-> size, actual |-> size, crc32 |-> crc]

MCArchives == {Build(<< Item(3, NoCrc), Item(0, NoCrc) >>),
               Build(<< Item(3, CrcOf(1, 3)), Item(2, NoCrc) >>)}
MCOffsets  == 0 .. 26
=============================================================================
