------------------------------ MODULE ZipEntry ------------------------------
(***************************************************************************)
(* zippity::BuilderEntry (src/builder.rs): the data of an entry and what   *)
(* is to be written about it.  Every setter takes &mut self; here it is    *)
(* the function from the entry before to the entry after.                  *)
(*                                                                         *)
(* A SystemTime is a value of Times.  A time converter is one of           *)
(* Converters, and Convert says what fields it gives; a chrono TimeZone is *)
(* such a converter.  The std::fs types are reduced to what is asked of    *)
(* them: Permissions to its mode (a unix build), Metadata to a record      *)
(* [kind, mode, modified], with NoTime where modified() is an error.       *)
(***************************************************************************)
EXTENDS ZipLayout, DosDatetime

CONSTANTS Times, NoTime, Converters, NoConverter, Convert

ASSUME ConvertAssumption ==
  /\ Convert \in [Converters -> [Times -> DateFields]]
  /\ NoConverter \notin Converters
  /\ NoTime \notin Times

BuilderFileType == {"File", "Directory", "Symlink"}

Rw == [kind |-> "Rw", mode |-> 0]
Ro == [kind |-> "Ro", mode |-> 0]
BuilderPermissions ==
  {Rw, Ro} \union [kind : {"UnixPermissions"}, mode : 0 .. \o777]

BuilderEntry(Data) ==
  [data : Data, crc32 : Crc, datetime : Seq(DosDatetimes),
   file_type : BuilderFileType, permissions : BuilderPermissions,
   time_converter : Converters \union {NoConverter}]

(* BuilderEntry::new. *)
NewBuilderEntry(data, converter) ==
  [data |-> data, crc32 |-> NoCrc, datetime |-> None, file_type |-> "File",
   permissions |-> Rw, time_converter |-> converter]

SetCrc32(e, crc32) == [e EXCEPT !.crc32 = crc32]

-----------------------------------------------------------------------------
(* Modification time.  A setter that returns an Option has its ..Fails     *)
(* beside it: when it returns None the entry is as it was.                 *)

DatetimeFieldsFails(e, f) == DosNew(f) = None
DatetimeFields(e, f) ==
  IF DosNew(f) = None THEN e ELSE [e EXCEPT !.datetime = DosNew(f)]

DatetimeFieldsOrDefault(e, f) == [e EXCEPT !.datetime = DosNew(f)]

DatetimeSystemFails(e, t) ==
  \/ e.time_converter = NoConverter
  \/ DatetimeFieldsFails(e, Convert[e.time_converter][t])
DatetimeSystem(e, t) ==
  IF e.time_converter = NoConverter THEN e
  ELSE DatetimeFields(e, Convert[e.time_converter][t])

DatetimeSystemOrDefault(e, t) == DatetimeSystem(e, t)

(* datetime and datetime_or_default, which take a NaiveDateTime apart. *)
Datetime(e, f)          == DatetimeFields(e, f)
DatetimeOrDefault(e, f) == DatetimeFields(e, f)

-----------------------------------------------------------------------------
(* Type and permissions.                                                   *)

File(e)      == [e EXCEPT !.file_type = "File"]
Directory(e) == [e EXCEPT !.file_type = "Directory"]
Symlink(e)   == [e EXCEPT !.file_type = "Symlink"]

UnixPermissions(e, mode) ==
  [e EXCEPT !.permissions = [kind |-> "UnixPermissions", mode |-> mode % \o1000]]
Permissions(e, permissions) == UnixPermissions(e, permissions)
Readonly(e, ro) == [e EXCEPT !.permissions = IF ro THEN Ro ELSE Rw]

(* BuilderEntry::metadata. *)
Metadata(e, md) ==
  LET typed == CASE md.kind = "Directory" -> Directory(e)
                 [] md.kind = "Symlink"   -> Symlink(e)
                 [] OTHER                 -> File(e)
      permitted == Permissions(typed, md.mode)
  IN
  IF md.modified = NoTime THEN permitted
  ELSE DatetimeSystemOrDefault(permitted, md.modified)

-----------------------------------------------------------------------------
(* What build() makes of it.                                               *)

(* The unix mode in the upper half of the external attributes; the lower   *)
(* half is 0 (get_external_attributes).                                    *)
FileTypeBits(file_type) ==
  CASE file_type = "File"      -> \o100000
    [] file_type = "Directory" -> \o040000
    [] file_type = "Symlink"   -> \o120000

ExecutableBits(file_type) == IF file_type = "Directory" THEN \o111 ELSE 0

PermBits(file_type, permissions) ==
  IF file_type = "Symlink" THEN \o777
  ELSE CASE permissions.kind = "Rw" -> \o644 + ExecutableBits(file_type)
         [] permissions.kind = "Ro" -> \o444 + ExecutableBits(file_type)
         [] OTHER                   -> permissions.mode % \o1000

ExternalAttributes(file_type, permissions) ==
  [high |-> FileTypeBits(file_type) + PermBits(file_type, permissions),
   low  |-> 0]

(* datetime.unwrap_or_default(). *)
EffectiveDatetime(e) == IF e.datetime = None THEN DosDefault ELSE e.datetime[1]

=============================================================================
