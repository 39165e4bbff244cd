----------------------------- MODULE ZipBuilder -----------------------------
(***************************************************************************)
(* zippity::Builder (src/builder.rs): the ordered map of entries, the size *)
(* it keeps beside them, what a caller may do to the entries while they    *)
(* are in the map, and Builder::build, which lays the archive out and      *)
(* hands it to the reader.                                                 *)
(*                                                                         *)
(* All the sizes are u64 in the code: U64Max is u64::MAX, and a sum beyond *)
(* it overflows.                                                           *)
(***************************************************************************)
EXTENDS ZipEntry, ZipContent, SequencesExt

CONSTANTS
  Names,         \* names a caller may give
  NameLen,       \* their lengths in bytes
  Data,          \* the EntryData values, records with their size()
  U64Max,
  MaxEntries,    \* bound: more entries are not tried
  MaxSetters,    \* bound: more calls of setters are not tried
  MaxWrites,     \* bound: more writes to the map are not tried
  Crc32s,        \* values a caller may give to the setters
  Fields, Modes, Metadatas

ASSUME BuilderAssumption ==
  /\ NameLen \in [Names -> Nat]
  /\ \A data \in Data : data.size \in Nat
  /\ U64Max \in Nat
  /\ EocdSize <= U64Max
  /\ MaxEntries \in Nat /\ MaxSetters \in Nat /\ MaxWrites \in Nat
  /\ Crc32s \subseteq Crc \ {NoCrc}
  /\ Fields \subseteq DateFields
  /\ Modes \subseteq Nat
  /\ \A md \in Metadatas : md.mode \in Nat /\ md.modified \in Times \union {NoTime}

VARIABLES
  entries,      \* IndexMap<String, BuilderEntry>, in its order
  time_converter,
  total_size,
  writes,       \* writes to the map, behind total_size, so far
  setters,      \* calls of setters so far
  last          \* what the last call returned

vars == << entries, time_converter, total_size, writes, setters, last >>

AddErrors == {"TooLongEntryName", "DuplicateEntryName", "TooLongZipFile"}

TypeOK ==
  /\ entries \in Seq([name : Names, value : BuilderEntry(Data)])
  /\ time_converter \in Converters \union {NoConverter}
  /\ total_size \in 0 .. U64Max
  /\ writes \in 0 .. MaxWrites
  /\ setters \in 0 .. MaxSetters
  /\ last \in {"Ok", "None"} \union AddErrors

Init ==
  /\ entries = << >>
  /\ time_converter = NoConverter
  /\ total_size = EocdSize
  /\ writes = 0
  /\ setters = 0
  /\ last = "Ok"

Taken == {entries[i].name : i \in DOMAIN entries}

(* Builder::size. *)
Size == total_size

-----------------------------------------------------------------------------
(* Builder::add_entry.                                                     *)

HeadersSize(name) == LocalHeaderSize(NameLen[name]) + CdHeaderSize(NameLen[name])

(* total_size once the entry is in, headers_size.checked_add(..) and so on. *)
SizeWith_NoCentralHeader(name, size) ==
  LocalHeaderSize(NameLen[name]) + size + total_size
SizeWith(name, size) == HeadersSize(name) + size + total_size

TooLong(name) == NameLen[name] > U16Max

IsDuplicate(name) == name \in Taken

DoesNotFit_Never(name, size)   == FALSE
DoesNotFit_AtLimit(name, size) == SizeWith(name, size) >= U64Max
DoesNotFit(name, size) == SizeWith(name, size) > U64Max

AddResult(name, data) ==
  CASE TooLong(name)                -> "TooLongEntryName"
    [] ~TooLong(name) /\ IsDuplicate(name) -> "DuplicateEntryName"
    [] ~TooLong(name) /\ ~IsDuplicate(name) /\ DoesNotFit(name, data.size)
                                    -> "TooLongZipFile"
    [] OTHER                        -> "Ok"

(* add_entry, with what the caller at once makes of the entry it gets.     *)
AddEntryAs(name, value) ==
  /\ last' = AddResult(name, value.data)
  /\ IF last' = "Ok" THEN
       /\ total_size' = SizeWith(name, value.data.size)
       /\ entries' = Append(entries, [name |-> name, value |-> value])
     ELSE UNCHANGED << entries, total_size >>
  /\ UNCHANGED << time_converter, writes, setters >>

AddEntry(name, data) ==
  AddEntryAs(name, NewBuilderEntry(data, time_converter))

-----------------------------------------------------------------------------
(* The setters, on an entry just added or reached through get_entries_mut. *)
(* None is returned by one that could not do what it was asked for.        *)

Sets(i, new, returned) ==
  /\ setters < MaxSetters
  /\ setters' = setters + 1
  /\ entries' = [entries EXCEPT ![i].value = new]
  /\ last' = returned
  /\ UNCHANGED << time_converter, total_size, writes >>

OkUnless(fails) == IF fails THEN "None" ELSE "Ok"

SetTime(i) ==
  LET e == entries[i].value IN
  \/ \E f \in Fields :
       \/ Sets(i, DatetimeFields(e, f), OkUnless(DatetimeFieldsFails(e, f)))
       \/ Sets(i, Datetime(e, f), OkUnless(DatetimeFieldsFails(e, f)))
       \/ Sets(i, DatetimeFieldsOrDefault(e, f), "Ok")
       \/ Sets(i, DatetimeOrDefault(e, f), "Ok")
  \/ \E t \in Times :
       \/ Sets(i, DatetimeSystem(e, t), OkUnless(DatetimeSystemFails(e, t)))
       \/ Sets(i, DatetimeSystemOrDefault(e, t), "Ok")

SetType(i) ==
  LET e == entries[i].value IN
  \E new \in {File(e), Directory(e), Symlink(e)} : Sets(i, new, "Ok")

SetPermissions(i) ==
  LET e == entries[i].value IN
  \/ \E mode \in Modes :
       \E new \in {UnixPermissions(e, mode), Permissions(e, mode)} :
         Sets(i, new, "Ok")
  \/ \E ro \in BOOLEAN : Sets(i, Readonly(e, ro), "Ok")

SetRest(i) ==
  LET e == entries[i].value IN
  \/ \E crc32 \in Crc32s : Sets(i, SetCrc32(e, crc32), "Ok")
  \/ \E md \in Metadatas : Sets(i, Metadata(e, md), "Ok")

(* system_time_converter and system_time_timezone: for entries to come.    *)
SystemTimeConverter(converter) ==
  /\ time_converter' = converter
  /\ last' = "Ok"
  /\ UNCHANGED << entries, total_size, writes, setters >>

-----------------------------------------------------------------------------
(* Writing through get_entries_mut: nothing but the map changes.  A caller *)
(* may take entries out, keeping the order or not, and, since a            *)
(* BuilderEntry can be cloned, put a copy in under any name.               *)

WritesMap(new) ==
  /\ entries' = new
  /\ writes < MaxWrites
  /\ writes' = writes + 1
  /\ last' = "Ok"
  /\ UNCHANGED << time_converter, total_size, setters >>

ShiftRemove(i) == WritesMap(RemoveAt(entries, i))

SwapRemove(i) ==
  WritesMap(Front([entries EXCEPT ![i] = entries[Len(entries)]]))

InsertCopy(i, name) ==
  LET copy == [entries[i] EXCEPT !.name = name] IN
  IF name \in Taken
  THEN WritesMap([j \in DOMAIN entries |->
                    IF entries[j].name = name THEN copy ELSE entries[j]])
  ELSE WritesMap(Append(entries, copy))

-----------------------------------------------------------------------------
(* Builder::build, which takes the builder as it is.  The actual data of   *)
(* the entries is not the builder's business.                              *)

BuiltOf(map) ==
  Build([i \in DOMAIN map |->
           [name_len |-> NameLen[map[i].name], size |-> map[i].value.data.size,
            actual |-> map[i].value.data.size, crc32 |-> map[i].value.crc32]])
Built == BuiltOf(entries)

(* The rest of what is handed to ReaderEntry::new. *)
BuiltDetails ==
  [i \in DOMAIN entries |->
     LET e == entries[i].value IN
     [name                |-> entries[i].name,
      datetime            |-> EffectiveDatetime(e),
      external_attributes |-> ExternalAttributes(e.file_type, e.permissions)]]

-----------------------------------------------------------------------------

Room == Len(entries) < MaxEntries

Next ==
  \/ Room /\ \E name \in Names, data \in Data : AddEntry(name, data)
  \/ \E converter \in Converters : SystemTimeConverter(converter)
  \/ \E i \in DOMAIN entries :
       \/ SetTime(i)
       \/ SetType(i)
       \/ SetPermissions(i)
       \/ SetRest(i)
       \/ ShiftRemove(i)
       \/ SwapRemove(i)
       \/ Room /\ \E name \in Names : InsertCopy(i, name)

Spec == Init /\ [][Next]_vars

-----------------------------------------------------------------------------
(* Properties.                                                             *)

(* Doc of Builder::size(): it "returns the same value as                   *)
(* self.build().size()".                                                   *)
SizeIsBuilt == Size = Built.total_size

(* As long as entries are only added and described, that is so.            *)
SizeIsBuiltUnlessWritten == writes = 0 => SizeIsBuilt

(* Whatever was added, refused, removed or replaced, build hands the reader *)
(* a layout whose chunks tile the file, with every offset where its chunk  *)
(* starts, unless its sums overflow: what ZipReader assumes of archives.   *)
BuiltIsWellLaidOut == Built.total_size <= U64Max => WellLaidOut(Built)

(* TooLongZipFile is returned for exactly the entries with which the sums  *)
(* of build() would overflow: an archive of u64::MAX bytes can be made.    *)
AcceptsExactlyWhatFits ==
  writes = 0 =>
    \A name \in Names, data \in Data :
      ~TooLong(name) /\ ~IsDuplicate(name) =>
        (DoesNotFit(name, data.size) <=>
           BuiltOf(Append(entries, [name |-> name,
                     value |-> NewBuilderEntry(data, time_converter)])).total_size
             > U64Max)

(* The mode an entry should have in the archive, from the docs of the      *)
(* setters: the type, and 0755 for directories and 0644 for files unless   *)
(* the permissions were set, without write permission if read only.        *)
DocumentedMode(e) ==
  LET type == CASE e.file_type = "File"      -> 8
                [] e.file_type = "Directory" -> 4
                [] e.file_type = "Symlink"   -> 10
      default == IF e.file_type = "Directory" THEN \o755 ELSE \o644
  IN
  type * 4096
    + (IF e.file_type = "Symlink" THEN \o777
       ELSE CASE e.permissions = Rw -> default
              [] e.permissions = Ro -> default - \o200
              [] OTHER              -> e.permissions.mode)

(* What unzipping has to find: the entries, in the order they were added.  *)
ExpectedEntries ==
  [i \in DOMAIN entries |->
     LET e == entries[i].value IN
     [name     |-> entries[i].name,
      data     |-> i,
      size     |-> e.data.size,
      crc32    |-> IF e.crc32 # NoCrc THEN e.crc32 ELSE CrcOf(i, e.data.size),
      mode     |-> DocumentedMode(e),
      datetime |-> EffectiveDatetime(e)]]

(* All the names fit the 16 bits their length has: try_into of             *)
(* read_local_header is unreachable!.  Only a caller that writes to the    *)
(* map can bring a longer name in.                                         *)
NamesFit == \A name \in Taken : NameLen[name] <= U16Max

(* The comment in build(): its sums, which are where chunks start, end at  *)
(* total_size and "are guaranteed to not overflow".                        *)
SumsFit == \A c \in Chunks(Built.entries) : ChunkStart(Built, c) <= U64Max

(* The archive that build() makes can be unzipped: from the end of the     *)
(* file, its pointers lead through the directory to every entry, with its  *)
(* name, data, CRC, time, type and permissions.  Unless the map was written *)
(* to, every length and sum fits the integer it is kept in.                *)
BuiltUnzips ==
  /\ writes = 0 => NamesFit /\ SumsFit
  /\ NamesFit /\ SumsFit =>
       Unzips(Image(Built, BuiltDetails), ExpectedEntries)

(* Docs of the setters ending in _or_default: when the time cannot be      *)
(* represented, "the datetime is set to the default value                  *)
(* (1980-01-01T00:00:00)".                                                 *)
OrDefaultIsDefault ==
  \A i \in DOMAIN entries :
    LET e == entries[i].value IN
    /\ \A f \in Fields : ~InRange(f) =>
         \A new \in {DatetimeFieldsOrDefault(e, f), DatetimeOrDefault(e, f)} :
           Unpacked(EffectiveDatetime(new)) = Jan1980
    /\ \A t \in Times : DatetimeSystemFails(e, t) =>
         Unpacked(EffectiveDatetime(DatetimeSystemOrDefault(e, t))) = Jan1980

=============================================================================
