---------------------------- MODULE MCZipBuilder ----------------------------
(* Instances of ZipBuilder for TLC. *)
EXTENDS ZipBuilder, ZipStructs

(* The structures have their real sizes. *)
ASSUME PackedSizesAssumption ==
  /\ LocalFileHeaderSize        = PackedSize(LocalFileHeaderWidths)
  /\ Zip64ExtraFieldSize        = PackedSize(Zip64ExtraFieldWidths)
  /\ DataDescriptor64Size       = PackedSize(DataDescriptor64Widths)
  /\ CentralDirectoryHeaderSize = PackedSize(CentralDirectoryHeaderWidths)
  /\ Zip64EocdRecordSize        = PackedSize(Zip64EocdRecordWidths)
  /\ Zip64EocdLocatorSize       = PackedSize(Zip64EocdLocatorWidths)
  /\ EndOfCentralDirectorySize  = PackedSize(EndOfCentralDirectoryWidths)

(* Two short names, an empty one, and one that is longer than U16Max. *)
MCNames   == {"", "a", "bb", "long"}
MCNameLen == [n \in MCNames |-> CASE n = "" -> 0 [] n = "a" -> 1
                                  [] n = "bb" -> 2 [] n = "long" -> 4]

MCData == {[size |-> n] : n \in {0, 9}}

Date(year, day, second) ==
  [year |-> year, month |-> 12, day |-> day, hour |-> 23, minute |-> 59,
   second |-> second]
LastDate == Date(2107, 31, 59)
TooLate  == Date(2108, 1, 0)
NoDay    == Date(1985, 32, 0)

MCFields     == {LastDate, NoDay}
MCTimes      == {"now", "later"}
MCConverters == {"utc"}
MCConvert    == [c \in MCConverters |->
                   [t \in MCTimes |-> IF t = "now" THEN Date(2024, 1, 2)
                                                   ELSE TooLate]]
MCCrc32s     == {WrongCrc}
MCModes      == {\o100640}
MCMetadatas  ==
  {[kind |-> "Directory", mode |-> \o40555, modified |-> "now"],
   [kind |-> "Symlink", mode |-> \o120644, modified |-> NoTime]}
=============================================================================
