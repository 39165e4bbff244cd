----------------------------- MODULE ZipReader -----------------------------
(***************************************************************************)
(* zippity::Reader (src/reader.rs) with the CrcReader it wraps every entry *)
(* source in (src/crc_reader.rs): a state machine that produces the bytes  *)
(* of a ZIP file that exists nowhere, from any position, on demand.        *)
(*                                                                         *)
(* One poll_read is PollRead, a sequence of loop steps, and a return.      *)
(* Nothing runs beside it (the reader is borrowed mutably), but between    *)
(* two polls the caller may seek, clone, take or drop the reader, and at   *)
(* every call into the entry's data the source chooses to complete, to     *)
(* stay pending or to fail.                                                *)
(*                                                                         *)
(* A byte is identified with its offset in the file, so that what reaches  *)
(* the caller can be compared with what belongs there.  A CRC32 is what    *)
(* was hashed: the first n bytes of entry i's data (see CrcOf).            *)
(*                                                                         *)
(* Definitions whose name ends in _<something> are slips one could make in *)
(* the definition that follows them; nothing else refers to them.          *)
(***************************************************************************)
EXTENDS ZipLayout, FiniteSets

CONSTANTS
  Archives,         \* what Builder::build may hand to Reader::new
  ReadSizes,        \* capacities of the buffers a caller passes to poll_read
  SeekOffsets,      \* the integers a caller passes to start_seek
  U64Max,           \* u64::MAX
  ScratchSize,      \* READ_SIZE: capacity of the buffer data is skipped into
  CallerOps,        \* which of "Start", "Current", "End", "Take" it calls
  CanPend,          \* sources may stay pending
  CanFail,          \* sources may fail
  RetriedErrors     \* errors after which the caller may read on without a seek

ASSUME ReaderAssumption ==
  /\ \A a \in Archives : WellLaidOut(a) /\ a.total_size <= U64Max
  /\ ReadSizes \subseteq Nat
  /\ SeekOffsets \subseteq Int
  /\ U64Max \in Nat
  /\ ScratchSize \in Nat \ {0}
  /\ CallerOps \subseteq {"Start", "Current", "End", "Take"}
  /\ CanPend \in BOOLEAN /\ CanFail \in BOOLEAN
  /\ RetriedErrors \subseteq {"Io", "SizeMismatch", "Crc32Mismatch"}

VARIABLES
  archive,               \* sizes and entries: never written
  crc32,                 \* entries[i].crc32, the one field that is
  current_chunk,
  chunk_processed_size,
  position,
  staging_buffer,
  to_skip,
  pinned,                \* what the reader holds of the entry it is reading
  pc,                    \* where in poll_read the reader is; "idle" outside
  cap,                   \* room in the caller's buffer when the call began
  out,                   \* bytes written to it
  base,                  \* file position of the first of them
  result                 \* what the last call returned

readState == << current_chunk, chunk_processed_size, staging_buffer, to_skip >>
vars == << archive, crc32, current_chunk, chunk_processed_size, position,
           staging_buffer, to_skip, pinned, pc, cap, out, base, result >>

-----------------------------------------------------------------------------
(* The pinned part: the future of an entry's reader, or the open reader in *)
(* a CrcReader.  entry is the one it was got from, pos is where the source *)
(* stands; hashed, did_seek and seek_in_progress are the CrcReader's;      *)
(* target is the seek the source was asked for.  A SpentFuture has         *)
(* resolved to an error and is still there.                                *)

ReaderPinned ==
  [state : {"Nothing", "ReaderFuture", "SpentFuture", "FileReader"},
   entry : Nat, pos : Nat, hashed : Nat,
   did_seek : BOOLEAN, seek_in_progress : BOOLEAN, target : Nat]

Held(state, i) ==
  [state |-> state, entry |-> i, pos |-> 0, hashed |-> 0,
   did_seek |-> FALSE, seek_in_progress |-> FALSE, target |-> 0]

Nothing == Held("Nothing", 0)

(* CrcReader::poll_read of n bytes. *)
Pulled(p, n) == [p EXCEPT !.pos = @ + n, !.hashed = @ + n]

(* CrcReader::start_seek, which CrcReader::seek leaves out when the flag of *)
(* an earlier one is still up.                                             *)
SeekStarted(p, target) ==
  IF p.seek_in_progress THEN p
  ELSE [p EXCEPT !.did_seek = TRUE, !.seek_in_progress = TRUE,
                 !.target = target]

(* CrcReader::poll_seek_complete, when the source completes. *)
SeekCompleted(p) == [p EXCEPT !.pos = p.target, !.seek_in_progress = FALSE]

(* CrcReader::get_crc32. *)
ReaderCrc(p) == IF p.did_seek THEN NoCrc ELSE CrcOf(p.entry, p.hashed)

-----------------------------------------------------------------------------
(* Vocabulary.                                                             *)

Idx       == current_chunk.entry_index
Entries   == archive.entries
Remaining == cap - Len(out)

(* The n bytes of the file that start at b. *)
Run(b, n) == [k \in 1 .. n |-> b + k - 1]

(* The file position of the next byte this state delivers. *)
Cursor ==
  ChunkStart(archive, current_chunk) + chunk_processed_size
    - Len(staging_buffer) + to_skip

ReadErrors  == {"Io", "SizeMismatch", "Crc32Mismatch"}
PanicKinds  == {"SeekPosition", "ChunkProcessed", "CrcUnknown",
                "SpentFuture", "SeekOverflow"}
ResultKinds == {"None", "Ok", "Pending", "SeekingBeforeStart"}
                 \union ReadErrors \union PanicKinds

InCall == pc \in {"loop", "data", "pull", "crc"}

Returns(kind, actual_size) ==
  /\ pc' = "idle"
  /\ result' = [kind |-> kind, actual_size |-> actual_size]

Panics(kind) ==
  /\ pc' = "panicked"
  /\ result' = [kind |-> kind, actual_size |-> 0]

(* zippity_ready! on Poll::Pending: bytes already written are returned.    *)
PendingKind_Bare == "Pending"
PendingKind == IF out = << >> THEN "Pending" ELSE "Ok"

(* Only the fall through to the end of ReadState::read moves the position; *)
(* an error or a pending source leaves it behind.                          *)
ReturnsPending == CanPend /\ Returns(PendingKind, 0)
ReturnsIoError == CanFail /\ Returns("Io", 0)

TypeOK ==
  /\ archive \in Archives
  /\ crc32 \in [1 .. Len(Entries) -> Crc]
  /\ current_chunk \in Chunks(Entries)
  /\ chunk_processed_size \in Nat
  /\ position \in Nat
  /\ staging_buffer \in Seq(Nat)
  /\ to_skip \in Nat
  /\ pinned \in ReaderPinned
  /\ pc \in {"idle", "loop", "data", "pull", "crc", "panicked"}
  /\ cap \in Nat
  /\ out \in Seq(Nat)
  /\ base \in Nat
  /\ result \in [kind : ResultKinds, actual_size : Nat]

(* Reader::new. *)
Init ==
  /\ archive \in Archives
  /\ crc32 = [i \in 1 .. Len(Entries) |-> Entries[i].crc32]
  /\ current_chunk = FirstChunk(Entries)
  /\ chunk_processed_size = 0
  /\ position = 0
  /\ staging_buffer = << >>
  /\ to_skip = 0
  /\ pinned = Nothing
  /\ pc = "idle"
  /\ cap = 0
  /\ out = << >>
  /\ base = 0
  /\ result = [kind |-> "None", actual_size |-> 0]

-----------------------------------------------------------------------------
(* The caller's operations.                                                *)

(* poll_read with room for n bytes. *)
PollRead(n) ==
  /\ pc = "idle"
  /\ result.kind \notin ReadErrors \ RetriedErrors
  /\ pc' = "loop"
  /\ cap' = n
  /\ out' = << >>
  /\ base' = base + Len(out)
  /\ UNCHANGED << archive, crc32, readState, position, pinned, result >>

(* The entry whose local header is the last at or before offset.           *)
EntryAt_Next(offset) ==
  CHOOSE i \in DOMAIN Entries :
    /\ i > 1 => Entries[i - 1].offset < offset
    /\ i < Len(Entries) => offset <= Entries[i].offset
EntryAt(offset) ==
  CHOOSE i \in DOMAIN Entries :
    /\ Entries[i].offset <= offset
    /\ i < Len(Entries) => offset < Entries[i + 1].offset

(* The chunk a seek lands in. *)
SeekTarget(offset) ==
  IF offset >= archive.eocd_offset THEN Eocd
  ELSE IF offset >= archive.cd_offset THEN Chunk("CDFileHeader", 1)
  ELSE Chunk("LocalHeader", EntryAt(offset))

(* What seek_from_start_pinned, seek_from_start_mut and take_pinned leave  *)
(* in the pinned part: ReadState::seek_from_start needs it cleared.        *)
PinnedAfterSeek_Kept == pinned
PinnedAfterSeek      == Nothing

(* ReadState::seek_from_start, and the pinned part cleared with it. *)
SeekFromStart(offset) ==
  /\ current_chunk' = SeekTarget(offset)
  /\ chunk_processed_size' = 0
  /\ position' = offset
  /\ staging_buffer' = << >>
  /\ to_skip' = offset - ChunkStart(archive, SeekTarget(offset))
  /\ pinned' = PinnedAfterSeek
  /\ out' = << >>
  /\ base' = offset
  /\ UNCHANGED << archive, crc32, cap >>

(* start_seek once SeekFrom is an offset d from origin: checked_add_signed.*)
StartSeek(origin, d) ==
  /\ pc = "idle"
  /\ IF origin + d < 0 THEN
       /\ Returns("SeekingBeforeStart", 0)
       /\ UNCHANGED << archive, crc32, readState, position, pinned, cap, out,
                       base >>
     ELSE IF origin + d > U64Max THEN
       /\ Panics("SeekOverflow")
       /\ UNCHANGED << archive, crc32, readState, position, pinned, cap, out,
                       base >>
     ELSE
       /\ SeekFromStart(origin + d)
       /\ Returns("None", 0)

SeekStart(d)   == "Start" \in CallerOps /\ d >= 0 /\ d <= U64Max
                    /\ StartSeek(0, d)
SeekCurrent(d) == "Current" \in CallerOps /\ StartSeek(position, d)
SeekEnd(d)     == "End" \in CallerOps /\ StartSeek(archive.total_size, d)

(* Reader::clone and take_pinned: the copy the caller goes on with is a new *)
(* reader, positioned where this one says it is.                           *)
TakePinned ==
  /\ pc = "idle"
  /\ "Take" \in CallerOps
  /\ SeekFromStart(position)
  /\ Returns("None", 0)

-----------------------------------------------------------------------------
(* The loop of ReadState::read.                                            *)

(* A chunk still has bytes to give and the caller has room for them. *)
Reading ==
  /\ pc = "loop"
  /\ Remaining > 0
  /\ staging_buffer = << >>
  /\ current_chunk # Finished
  /\ to_skip < ChunkSize(Entries, current_chunk)

(* The loop ends because the buffer is full, because nothing is left, or   *)
(* because entry data, which may be pending, would follow other bytes.     *)
BreaksBeforeData_Always == current_chunk.kind = "EntryData"
BreaksBeforeData        == current_chunk.kind = "EntryData" /\ out # << >>

LoopEnds ==
  /\ pc = "loop"
  /\ \/ Remaining = 0
     \/ staging_buffer = << >> /\ current_chunk = Finished
     \/ Reading /\ BreaksBeforeData

PositionAfterRead_Room == position + cap
PositionAfterRead      == position + Len(out)

ReturnOk ==
  /\ LoopEnds
  /\ position' = PositionAfterRead
  /\ Returns("Ok", 0)
  /\ UNCHANGED << archive, crc32, readState, pinned, cap, out, base >>

(* read_from_staging: what the caller has room for, from to_skip on. *)
ReadFromStaging ==
  LET last == to_skip + Remaining >= Len(staging_buffer)
      end  == IF last THEN Len(staging_buffer) ELSE to_skip + Remaining
  IN
  /\ pc = "loop"
  /\ Remaining > 0
  /\ staging_buffer # << >>
  /\ out' = out \o SubSeq(staging_buffer, to_skip + 1, end)
  /\ to_skip' = IF last THEN 0 ELSE end
  /\ staging_buffer' = IF last THEN << >> ELSE staging_buffer
  /\ UNCHANGED << archive, crc32, current_chunk, chunk_processed_size, position,
                  pinned, pc, cap, base, result >>

SkipChunk ==
  /\ pc = "loop"
  /\ Remaining > 0
  /\ staging_buffer = << >>
  /\ current_chunk # Finished
  /\ to_skip >= ChunkSize(Entries, current_chunk)
  /\ to_skip' = to_skip - ChunkSize(Entries, current_chunk)
  /\ current_chunk' = NextChunk(Entries, current_chunk)
  /\ UNCHANGED << archive, crc32, chunk_processed_size, position,
                  staging_buffer, pinned, pc, cap, out, base, result >>

(* The end of a loop turn whose chunk is done after `processed` bytes. *)
FinishChunk(processed) ==
  IF processed = ChunkSize(Entries, current_chunk) THEN
    /\ current_chunk' = NextChunk(Entries, current_chunk)
    /\ chunk_processed_size' = 0
    /\ pc' = "loop"
    /\ UNCHANGED result
  ELSE
    /\ Panics("ChunkProcessed")
    /\ chunk_processed_size' = processed
    /\ UNCHANGED current_chunk

-----------------------------------------------------------------------------
(* ZIP structures.  read_packed_struct and read_str are one: a piece of    *)
(* `size` bytes starting at s.at is skipped, written to the caller's       *)
(* buffer, or staged behind what is already staged.                        *)

ReadPiece_Overtaking(s, size) ==
  IF s.staging = << >> /\ s.to_skip >= size THEN
    [s EXCEPT !.at = @ + size, !.to_skip = @ - size]
  ELSE IF s.to_skip = 0 /\ cap - Len(s.out) >= size THEN
    [s EXCEPT !.at = @ + size, !.out = @ \o Run(s.at, size)]
  ELSE
    [s EXCEPT !.at = @ + size, !.staging = @ \o Run(s.at, size)]

ReadPiece(s, size) ==
  IF s.staging = << >> /\ s.to_skip >= size THEN
    [s EXCEPT !.at = @ + size, !.to_skip = @ - size]
  ELSE IF s.staging = << >> /\ s.to_skip = 0 /\ cap - Len(s.out) >= size THEN
    [s EXCEPT !.at = @ + size, !.out = @ \o Run(s.at, size)]
  ELSE
    [s EXCEPT !.at = @ + size, !.staging = @ \o Run(s.at, size)]

Pieces0 == [at |-> ChunkStart(archive, current_chunk), to_skip |-> to_skip,
            staging |-> staging_buffer, out |-> out]

(* The pieces of the current chunk, and the state after reading them all. *)
PieceSizes ==
  CASE current_chunk.kind = "LocalHeader" ->
         << LocalFileHeaderSize, Entries[Idx].name_len, Zip64ExtraFieldSize >>
    [] current_chunk.kind = "DataDescriptor" ->
         << DataDescriptor64Size, 0, 0 >>
    [] current_chunk.kind = "CDFileHeader" ->
         << CentralDirectoryHeaderSize, Entries[Idx].name_len,
            Zip64ExtraFieldSize >>
    [] current_chunk.kind = "Eocd" ->
         << Zip64EocdRecordSize, Zip64EocdLocatorSize,
            EndOfCentralDirectorySize >>

AllPieces(s, sizes) ==
  ReadPiece(ReadPiece(ReadPiece(s, sizes[1]), sizes[2]), sizes[3])

ReadStructure ==
  LET s == AllPieces(Pieces0, PieceSizes) IN
  /\ to_skip' = s.to_skip
  /\ staging_buffer' = s.staging
  /\ out' = s.out
  /\ FinishChunk(chunk_processed_size
                   + PieceSizes[1] + PieceSizes[2] + PieceSizes[3])

ReadLocalHeaderOrEocd ==
  /\ Reading
  /\ current_chunk.kind \in {"LocalHeader", "Eocd"}
  /\ ReadStructure
  /\ UNCHANGED << archive, crc32, position, pinned, cap, base >>

(* What get_crc keeps of the CRC of an empty entry. *)
CrcOfEmpty_NotKept == NoCrc
CrcOfEmpty         == EmptyCrc

(* read_data_descriptor and read_cd_file_header, when get_crc has the CRC: *)
(* it is known already, or the entry is empty.                             *)
ReadCrcStructure ==
  /\ Reading
  /\ current_chunk.kind \in {"DataDescriptor", "CDFileHeader"}
  /\ \/ crc32[Idx] # NoCrc /\ UNCHANGED crc32
     \/ /\ crc32[Idx] = NoCrc
        /\ Entries[Idx].size = 0
        /\ crc32' = [crc32 EXCEPT ![Idx] = CrcOfEmpty]
  /\ ReadStructure
  /\ UNCHANGED << archive, position, pinned, cap, base >>

-----------------------------------------------------------------------------
(* Opening an entry (ReaderEntry::get_reader), for its data or for a CRC   *)
(* that is not known yet.                                                  *)

WantsData == current_chunk.kind = "EntryData" /\ out = << >>
WantsCrc_EvenEmpty ==
  /\ current_chunk.kind \in {"DataDescriptor", "CDFileHeader"}
  /\ crc32[Idx] = NoCrc
WantsCrc  == /\ current_chunk.kind \in {"DataDescriptor", "CDFileHeader"}
             /\ crc32[Idx] = NoCrc
             /\ Entries[Idx].size # 0

Opened == pc' = IF WantsData THEN "data" ELSE "crc"

NeedsReader == Reading /\ (WantsData \/ WantsCrc)

UseOpenReader ==
  /\ NeedsReader
  /\ pinned.state = "FileReader"
  /\ Opened
  /\ UNCHANGED << archive, crc32, readState, position, pinned, cap, out, base,
                  result >>

OpenReader ==
  /\ NeedsReader
  /\ pinned.state \in {"Nothing", "ReaderFuture"}
  /\ \/ pinned' = Held("FileReader", Idx) /\ Opened /\ UNCHANGED result
     \/ pinned' = Held("ReaderFuture", Idx) /\ ReturnsPending
     \/ pinned' = Held("SpentFuture", Idx) /\ ReturnsIoError
  /\ UNCHANGED << archive, crc32, readState, position, cap, out, base >>

(* Polling a future that has completed panics. *)
PollSpentFuture ==
  /\ NeedsReader
  /\ pinned.state = "SpentFuture"
  /\ Panics("SpentFuture")
  /\ UNCHANGED << archive, crc32, readState, position, pinned, cap, out, base >>

-----------------------------------------------------------------------------
(* Entry data (read_entry_data), with the reader open.                     *)

Actual == Entries[pinned.entry].actual

(* What a source that reads at pos into `room` bytes may give at once. *)
SourceReads(room) ==
  1 .. (IF room < Actual - pinned.pos THEN room ELSE Actual - pinned.pos)
SourceAtEof == pinned.pos >= Actual

(* The CRC decides how data before the position wanted is passed over. *)
SkipsByReading_Never == FALSE
SkipsByReading == crc32[Idx] = NoCrc

(* Where the skipping ends when the data ends: to_skip stays. *)
AfterSkipEof_Again == "data"
AfterSkipEof       == "pull"

(* Data is read into the scratch buffer and dropped. *)
SkipByReading ==
  /\ pc = "data" /\ to_skip > 0 /\ SkipsByReading
  /\ \/ \E n \in SourceReads(IF to_skip < ScratchSize THEN to_skip
                                                      ELSE ScratchSize) :
          /\ pinned' = Pulled(pinned, n)
          /\ chunk_processed_size' = chunk_processed_size + n
          /\ to_skip' = to_skip - n
          /\ UNCHANGED << pc, result >>
     \/ /\ SourceAtEof
        /\ pc' = AfterSkipEof
        /\ UNCHANGED << chunk_processed_size, to_skip, pinned, result >>
     \/ /\ ReturnsPending \/ ReturnsIoError
        /\ UNCHANGED << chunk_processed_size, to_skip, pinned >>
  /\ UNCHANGED << archive, crc32, current_chunk, position, staging_buffer, cap,
                  out, base >>

(* The source is asked to seek.  It may refuse at start_seek or fail later;*)
(* either way the CrcReader has its flag up, and a retry does not ask again *)
(* but waits for a seek the source has given up: it stays where it was.    *)
SeekSource ==
  LET p    == SeekStarted(pinned, to_skip)
      done == SeekCompleted(p)
  IN
  /\ pc = "data" /\ to_skip > 0 /\ ~SkipsByReading
  /\ \/ /\ pinned' = done
        /\ IF done.pos = to_skip THEN
             /\ chunk_processed_size' = chunk_processed_size + to_skip
             /\ to_skip' = 0
             /\ UNCHANGED << pc, result >>
           ELSE
             /\ Panics("SeekPosition")
             /\ UNCHANGED << chunk_processed_size, to_skip >>
     \/ /\ pinned' = p
        /\ ReturnsPending
        /\ UNCHANGED << chunk_processed_size, to_skip >>
     \/ /\ pinned' = [p EXCEPT !.target = pinned.pos]
        /\ ReturnsIoError
        /\ UNCHANGED << chunk_processed_size, to_skip >>
  /\ UNCHANGED << archive, crc32, current_chunk, position, staging_buffer, cap,
                  out, base >>

AtPull ==
  \/ pc = "pull"
  \/ pc = "data" /\ to_skip = 0

(* Data goes straight to the caller's buffer. *)
PullData ==
  /\ AtPull
  /\ \/ \E n \in SourceReads(Remaining) :
          /\ out' = out \o Run(DataStart(archive, pinned.entry) + pinned.pos, n)
          /\ pinned' = Pulled(pinned, n)
          /\ chunk_processed_size' = chunk_processed_size + n
          /\ pc' = "loop"
          /\ UNCHANGED result
     \/ /\ ReturnsPending \/ ReturnsIoError
        /\ UNCHANGED << chunk_processed_size, pinned, out >>
  /\ UNCHANGED << archive, crc32, current_chunk, position, staging_buffer,
                  to_skip, cap, base >>

(* The end of the data: the CRC is compared or kept, the size checked. *)
DataMismatch_Unchecked == FALSE
DataMismatch ==
  /\ ReaderCrc(pinned) # NoCrc
  /\ crc32[Idx] # NoCrc
  /\ crc32[Idx] # ReaderCrc(pinned)

(* The CRC the entry has from now on. *)
CrcAfterData_Overwritten == ReaderCrc(pinned)
CrcAfterData ==
  IF ReaderCrc(pinned) = NoCrc THEN crc32[Idx] ELSE ReaderCrc(pinned)

SizeMatches_Unchecked == TRUE
SizeMatches == chunk_processed_size = Entries[Idx].size

FinishData ==
  /\ AtPull
  /\ SourceAtEof
  /\ IF DataMismatch THEN
       /\ Returns("Crc32Mismatch", 0)
       /\ UNCHANGED << crc32, pinned, current_chunk, chunk_processed_size >>
     ELSE
       /\ crc32' = [crc32 EXCEPT ![Idx] = CrcAfterData]
       /\ pinned' = Nothing
       /\ IF SizeMatches
          THEN FinishChunk(chunk_processed_size)
          ELSE /\ Returns("SizeMismatch", chunk_processed_size)
               /\ UNCHANGED << current_chunk, chunk_processed_size >>
  /\ UNCHANGED << archive, position, staging_buffer, to_skip, cap, out, base >>

-----------------------------------------------------------------------------
(* ReaderEntry::get_crc: the entry is read from start to end, unseen.      *)

(* What get_crc leaves pinned, and in the entry. *)
PinnedAfterCrc_Kept == pinned
PinnedAfterCrc      == Nothing

CrcFound_NotKept == NoCrc
CrcFound         == ReaderCrc(pinned)

ReadForCrc ==
  /\ pc = "crc"
  /\ \/ \E n \in SourceReads(ScratchSize) :
          /\ pinned' = Pulled(pinned, n)
          /\ UNCHANGED << pc, result >>
     \/ /\ ReturnsPending \/ ReturnsIoError
        /\ UNCHANGED pinned
  /\ UNCHANGED << archive, crc32, readState, position, cap, out, base >>

FinishCrc ==
  /\ pc = "crc"
  /\ SourceAtEof
  /\ IF ReaderCrc(pinned) = NoCrc THEN
       /\ Panics("CrcUnknown")
       /\ UNCHANGED << crc32, pinned >>
     ELSE
       /\ crc32' = [crc32 EXCEPT ![Idx] = CrcFound]
       /\ pinned' = PinnedAfterCrc
       /\ pc' = "loop"
       /\ UNCHANGED result
  /\ UNCHANGED << archive, readState, position, cap, out, base >>

-----------------------------------------------------------------------------

CallerStep ==
  \/ \E n \in ReadSizes : PollRead(n)
  \/ \E d \in SeekOffsets : SeekStart(d) \/ SeekCurrent(d) \/ SeekEnd(d)
  \/ TakePinned

(* Steps inside poll_read that only the reader decides. *)
LoopStep ==
  \/ ReturnOk
  \/ ReadFromStaging
  \/ SkipChunk
  \/ ReadLocalHeaderOrEocd
  \/ ReadCrcStructure
  \/ UseOpenReader
  \/ PollSpentFuture

(* Steps that end as the entry's source pleases. *)
SourceStep ==
  \/ OpenReader
  \/ SkipByReading
  \/ SeekSource
  \/ PullData
  \/ FinishData
  \/ ReadForCrc
  \/ FinishCrc

Next == CallerStep \/ LoopStep \/ SourceStep

Spec == Init /\ [][Next]_vars

-----------------------------------------------------------------------------
(* Properties.                                                             *)

(* Whatever was read, skipped, staged or retried before, the bytes in the  *)
(* caller's buffer are those that belong at its file position, and the     *)
(* chunk cursor stands right behind the last of them (ReadState::read).    *)
Delivered ==
  HonestSizes(archive) /\ pc # "panicked" =>
    /\ out = Run(base, Len(out))
    /\ Cursor = base + Len(out)

(* Doc of Reader::tell: "if not seeking, this is the number of bytes       *)
(* already read".  tell() is the position the next byte comes from, so a   *)
(* clone, a taken reader and SeekFrom::Current go on where this one stands. *)
TellIsCursor == pc = "idle" => position = Cursor

(* An entry is opened only for data or for a CRC that is not known, and an *)
(* empty one never: FilesystemEntry::get_reader is unreachable! for a      *)
(* directory, which has size 0.                                            *)
OpensOnlyWhatItNeeds ==
  pinned.state # "Nothing" =>
    /\ current_chunk.kind \in {"EntryData", "DataDescriptor", "CDFileHeader"}
    /\ Entries[Idx].size # 0
    /\ current_chunk.kind # "EntryData" => crc32[Idx] = NoCrc

(* A CRC the reader holds was given to the builder or is the CRC of all    *)
(* the entry's data, however the data was skipped, sought and re-read; an  *)
(* entry that reports no data is never read, and has the CRC of none.      *)
TrueCrc(i) ==
  IF Entries[i].size = 0 THEN EmptyCrc ELSE CrcOf(i, Entries[i].actual)

CrcTrue ==
  \A i \in DOMAIN Entries : crc32[i] \in {Entries[i].crc32, TrueCrc(i)}

(* Once known, a CRC does not change: the data descriptor and the central  *)
(* directory header written before and after agree.                        *)
CrcStable ==
  [][\A i \in DOMAIN Entries : crc32[i] # NoCrc => crc32'[i] = crc32[i]]_vars

(* Data that was read leaves its CRC behind: passing over the start of an  *)
(* entry by reading exists so that the data descriptor that follows need   *)
(* not open the file again (comment in read_entry_data).                   *)
DataLeavesCrc ==
  [][AtPull /\ current_chunk'.kind = "DataDescriptor" => crc32'[Idx] # NoCrc]_vars

(* The assertions on the reader's own bookkeeping hold whatever the data   *)
(* is: a chunk that is done has given its size (ReadState::read), and a    *)
(* reader opened for its CRC has one (ReaderEntry::get_crc).               *)
NoAssertionFails == result.kind \notin {"ChunkProcessed", "CrcUnknown"}

(* The assertion in read_entry_data: the source is where the CrcReader was *)
(* asked to bring it.                                                      *)
SourceSeekAssertion == result.kind # "SeekPosition"

(* Doc of SizeMismatch: actual_size is "the actual size of the entry".     *)
ActualSizeReported ==
  pc = "idle" /\ result.kind = "SizeMismatch" =>
    result.actual_size = Entries[Idx].actual

(* The reader goes on to the data descriptor of an entry whose data it has *)
(* read only if the data had the size it reported, and the CRC given with  *)
(* it unless the source had to seek.  (An entry that reports no data is    *)
(* passed over without a look.)                                            *)
DataChecked ==
  [][AtPull /\ current_chunk'.kind = "DataDescriptor" =>
       /\ Entries[Idx].actual = Entries[Idx].size
       /\ pinned.did_seek \/ Entries[Idx].crc32 \in {NoCrc, TrueCrc(Idx)}]_vars

(* How far a call is from its end: the chunks that are left, whether the   *)
(* CRC that the current one needs is, the room in the caller's buffer,     *)
(* what is staged, where in the loop the reader is, and what is left to    *)
(* skip or to hash.                                                        *)
ChunksLeft ==
  LET n == Len(Entries) IN
  CASE current_chunk.kind = "LocalHeader"    -> 4 * n - 3 * Idx + 4
    [] current_chunk.kind = "EntryData"      -> 4 * n - 3 * Idx + 3
    [] current_chunk.kind = "DataDescriptor" -> 4 * n - 3 * Idx + 2
    [] current_chunk.kind = "CDFileHeader"   -> n - Idx + 2
    [] current_chunk.kind = "Eocd"           -> 1
    [] current_chunk.kind = "Finished"       -> 0

CrcsLeft ==
  IF /\ current_chunk.kind \in {"DataDescriptor", "CDFileHeader"}
     /\ crc32[Idx] = NoCrc
  THEN 1 ELSE 0

StagesLeft == CASE pc = "loop" -> 2 [] pc = "data" -> 1 [] OTHER -> 0

Distance ==
  << ChunksLeft, CrcsLeft, Remaining, Len(staging_buffer), StagesLeft, to_skip,
     IF pc = "crc" THEN Actual - pinned.pos ELSE 0 >>

(* The lexicographic order in which nothing can decrease for ever: what    *)
(* decreases does not go below 0.                                          *)
Closer(d, e) ==
  \E k \in DOMAIN e :
    /\ d[k] \in Nat /\ d[k] < e[k]
    /\ \A j \in 1 .. k - 1 : d[j] = e[j]

(* What every loop of poll_read owes its caller, whatever the data is: a   *)
(* turn that neither returns nor panics is one turn less to go.  In        *)
(* particular a reader that was opened for a CRC leaves one behind, and    *)
(* data that ends while it is skipped is not asked for again in that call. *)
CallAdvances == [][InCall /\ InCall' => Closer(Distance', Distance)]_vars

(* The reader as a ZipStream. *)
StreamStatus ==
  CASE pc = "panicked" -> "panicked"
    [] InCall          -> "busy"
    [] OTHER ->
       CASE result.kind = "None"               -> "none"
         [] result.kind = "Ok"                 -> "ok"
         [] result.kind = "Pending"            -> "pending"
         [] result.kind = "SeekingBeforeStart" -> "refused"
         [] result.kind = "Io"                 -> "failed"
         [] OTHER                              -> "mismatch"

Stream == INSTANCE ZipStream WITH
  size   <- archive.total_size,
  at     <- IF InCall THEN base ELSE base + Len(out),
  got    <- IF InCall THEN << >> ELSE out,
  room   <- cap,
  status <- StreamStatus

(* The reader implements the file that ZipStream describes: reads deliver  *)
(* consecutive bytes, end of file is reported only there, a pending read   *)
(* delivers nothing, no assertion fails and, when entries have the data    *)
(* they promised, no mismatch is reported.                                 *)
ImplementsStream == Stream!Spec

(* Liveness.  The steps of a call are taken, and a source that could       *)
(* answer does, unless its call ends otherwise.                            *)
SourceAnswers ==
  \/ OpenReader    /\ pc' # "idle"
  \/ SkipByReading /\ pc' # "idle"
  \/ SeekSource    /\ pc' # "idle"
  \/ PullData      /\ pc' # "idle"
  \/ ReadForCrc    /\ pc' # "idle"
  \/ FinishData
  \/ FinishCrc

FairSpec == Spec /\ WF_vars(LoopStep) /\ WF_vars(SourceAnswers)

(* poll_read always comes back: no loop of it spins, whatever the data is. *)
CallReturns == InCall ~> ~InCall
=============================================================================
