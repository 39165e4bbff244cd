----------------------------- MODULE MCZipBody -----------------------------
(* Instances of ZipBody for TLC: honest data, data that is shorter than it  *)
(* said, so long that it fills the rest of the response, or has another    *)
(* CRC.                                                                    *)
EXTENDS ZipBody, MCZipReader

ServedArchives ==
  {Build(<< Honest(0, 0), WithCrc(2, 1, 2) >>),
   Build(<< WithCrc(1, 0, 2), Honest(0, 1) >>),
   Build(<< Item(0, 4, 2, NoCrc) >>),
   Build(<< Item(0, 2, 2, WrongCrc) >>),
   Build(<< Honest(0, 1), Item(0, 1, 12, NoCrc) >>),
   Build(<< Honest(0, 1), Item(0, 1, 13, NoCrc) >>),
   Build(<< Item(0, 1, 20, NoCrc), Honest(0, 0) >>)}

ShortArchives == {Build(<< Item(0, 4, 2, NoCrc) >>)}

=============================================================================
