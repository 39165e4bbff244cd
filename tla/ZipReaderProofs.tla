-------------------------- MODULE ZipReaderProofs --------------------------
(***************************************************************************)
(* Proofs about ZipReader for every value of its constants: any entries,   *)
(* any sizes of the structures, any buffers and seeks, sources that may    *)
(* stay pending or fail at every call, data that keeps its promises or     *)
(* not, and callers that go on after errors or not.                        *)
(***************************************************************************)
EXTENDS ZipReader, ZipLayoutProofs

-----------------------------------------------------------------------------
(* The inductive invariant.                                                *)

(* What is pinned belongs to the current chunk, and that chunk is neither  *)
(* passed over nor read by other means while it is pinned.                 *)
PinnedFits ==
  pinned.state # "Nothing" =>
    /\ pinned.entry = Idx
    /\ current_chunk.kind \in {"EntryData", "DataDescriptor", "CDFileHeader"}
    /\ Entries[Idx].size # 0
    /\ staging_buffer = << >>
    /\ to_skip < ChunkSize(Entries, current_chunk)
    /\ current_chunk.kind # "EntryData" => crc32[Idx] = NoCrc

(* Inside read_entry_data and get_crc the reader is open. *)
PcFits ==
  /\ pc \in {"data", "pull"} =>
       current_chunk.kind = "EntryData" /\ pinned.state = "FileReader"
  /\ pc = "crc" =>
       /\ current_chunk.kind \in {"DataDescriptor", "CDFileHeader"}
       /\ pinned.state = "FileReader"

(* A reader that has not sought has hashed what it has read, and a reader  *)
(* that has is one of data whose CRC is known.                             *)
ReaderFits ==
  pinned.state = "FileReader" =>
    IF pinned.did_seek
    THEN current_chunk.kind = "EntryData" /\ crc32[Idx] # NoCrc
    ELSE /\ ~ pinned.seek_in_progress
         /\ pinned.hashed = pinned.pos
         /\ pinned.pos <= Actual

(* Bytes of a chunk are counted from one turn of the loop to the next only *)
(* for entry data.                                                         *)
ProcessedFits ==
  chunk_processed_size # 0 =>
    /\ current_chunk.kind = "EntryData"
    /\ staging_buffer = << >>
    /\ to_skip < ChunkSize(Entries, current_chunk)

Inv ==
  /\ TypeOK
  /\ PinnedFits
  /\ PcFits
  /\ ReaderFits
  /\ ProcessedFits
  /\ CrcTrue
  /\ NoAssertionFails

-----------------------------------------------------------------------------
(* Lemmas about archives and their chunks.                                 *)

(* The types of what an archive is made of. *)
LEMMA ArchiveTypes ==
  ASSUME NEW a \in Archives
  PROVE  /\ a.entries \in Seq(Entry)
         /\ Len(a.entries) \in Nat
         /\ a.cd_offset \in Nat /\ a.eocd_offset \in Nat
         /\ a.total_size \in Nat
         /\ \A i \in 1 .. Len(a.entries) : a.entries[i] \in Entry
  BY ReaderAssumption DEF WellLaidOut

(* A chunk before the end belongs to an entry or is the last structure. *)
LEMMA ChunkCases ==
  ASSUME NEW a \in Archives, NEW c \in Chunks(a.entries)
  PROVE  \/ /\ c.kind \in EntryKinds
            /\ c.entry_index \in 1 .. Len(a.entries)
            /\ a.entries[c.entry_index].name_len \in Nat
            /\ a.entries[c.entry_index].size \in Nat
            /\ a.entries[c.entry_index].offset \in Nat
         \/ c = Eocd /\ c.kind = "Eocd"
         \/ c = Finished /\ c.kind = "Finished"
<1>1. c \in [kind : EntryKinds, entry_index : 1 .. Len(a.entries)]
        \/ c = Eocd \/ c = Finished
  BY DEF Chunks
<1>2. CASE c \in [kind : EntryKinds, entry_index : 1 .. Len(a.entries)]
  BY <1>2, ArchiveTypes DEF Entry
<1> QED
  BY <1>1, <1>2 DEF Eocd, Finished, Chunk

LEMMA ChunkSizeType ==
  ASSUME NEW a \in Archives, NEW c \in Chunks(a.entries) \ {Finished}
  PROVE  ChunkSize(a.entries, c) \in Nat
<1>1. CASE c.kind = "Eocd"
  BY <1>1, StructSizesAssumption DEF ChunkSize, EocdSize
<1>2. CASE c.kind \in EntryKinds
  <2>1. /\ a.entries[c.entry_index].name_len \in Nat
        /\ a.entries[c.entry_index].size \in Nat
    BY <1>2, ChunkCases DEF EntryKinds
  <2>2. CASE c.kind = "LocalHeader"
    BY <2>1, <2>2, StructSizesAssumption DEF ChunkSize
  <2>3. CASE c.kind = "EntryData"
    BY <2>1, <2>3 DEF ChunkSize
  <2>4. CASE c.kind = "DataDescriptor"
    BY <2>4, StructSizesAssumption DEF ChunkSize
  <2>5. CASE c.kind = "CDFileHeader"
    BY <2>1, <2>5, StructSizesAssumption DEF ChunkSize
  <2> QED
    BY <1>2, <2>2, <2>3, <2>4, <2>5 DEF EntryKinds
<1> QED
  BY <1>1, <1>2, ChunkCases

LEMMA NextChunkType ==
  ASSUME NEW a \in Archives, NEW c \in Chunks(a.entries) \ {Finished}
  PROVE  NextChunk(a.entries, c) \in Chunks(a.entries)
  BY ArchiveTypes
  DEF Chunks, EntryKinds, Chunk, Eocd, Finished, NextChunk

LEMMA FirstChunkType ==
  ASSUME NEW a \in Archives
  PROVE  FirstChunk(a.entries) \in Chunks(a.entries)
  BY ArchiveTypes
  DEF Chunks, EntryKinds, Chunk, Eocd, Finished, FirstChunk

LEMMA ChunkStartType ==
  ASSUME NEW a \in Archives, NEW c \in Chunks(a.entries)
  PROVE  ChunkStart(a, c) \in Nat
<1>1. CASE c.kind = "CDFileHeader"
  <2>1. a.cd_pos \in [1 .. Len(a.entries) + 1 -> Nat]
    BY ReaderAssumption DEF WellLaidOut
  <2>2. c.entry_index \in 1 .. Len(a.entries) + 1
    BY <1>1, ChunkCases, ArchiveTypes DEF Eocd, Finished, Chunk
  <2> QED
    BY <1>1, <2>1, <2>2 DEF ChunkStart
<1>2. CASE c.kind \in EntryKinds \ {"CDFileHeader"}
  <2>1. /\ a.entries[c.entry_index].name_len \in Nat
        /\ a.entries[c.entry_index].size \in Nat
        /\ a.entries[c.entry_index].offset \in Nat
    BY <1>2, ChunkCases DEF EntryKinds
  <2>2. DataStart(a, c.entry_index) \in Nat
    BY <2>1, StructSizesAssumption DEF DataStart
  <2>3. CASE c.kind = "LocalHeader"
    BY <2>1, <2>3 DEF ChunkStart
  <2>4. CASE c.kind = "EntryData"
    BY <2>2, <2>4 DEF ChunkStart
  <2>5. CASE c.kind = "DataDescriptor"
    BY <2>1, <2>2, <2>5 DEF ChunkStart
  <2> QED
    BY <1>2, <2>3, <2>4, <2>5 DEF EntryKinds
<1>3. CASE c.kind \in {"Eocd", "Finished"}
  BY <1>3, ArchiveTypes DEF ChunkStart
<1> QED
  BY <1>1, <1>2, <1>3, ChunkCases

(* Entries at both ends: no entries mean no central directory, and the     *)
(* first entry lies at the start of the file.                              *)
LEMMA ArchiveEnds ==
  ASSUME NEW a \in Archives
  PROVE  /\ a.entries = << >> => a.cd_offset = 0 /\ a.eocd_offset = 0
         /\ a.entries # << >> => 1 \in 1 .. Len(a.entries)
                                   /\ a.entries[1].offset = 0
  <1>1. WellLaidOut(a)
    BY ReaderAssumption
  <1>2. CASE a.entries = << >>
    BY <1>1, <1>2 DEF WellLaidOut, FirstChunk, ChunkStart, Eocd, Chunk
  <1>3. CASE a.entries # << >>
    BY <1>1, <1>3, ArchiveTypes, EmptySeq
    DEF WellLaidOut, FirstChunk, ChunkStart, Chunk
  <1> QED
    BY <1>2, <1>3

(* binary_search_by_key in seek_from_start finds an entry, and the three   *)
(* assertions behind it hold.                                              *)
LEMMA EntryAtFinds ==
  ASSUME archive \in Archives, NEW offset \in Nat, Entries # << >>
  PROVE  /\ EntryAt(offset) \in 1 .. Len(Entries)
         /\ Entries[EntryAt(offset)].offset <= offset
<1> DEFINE n == Len(Entries)
           T == {i \in 1 .. n : Entries[i].offset <= offset}
<1>1. /\ n \in Nat
      /\ DOMAIN Entries = 1 .. n
      /\ \A i \in 1 .. n : Entries[i].offset \in Nat
  BY ArchiveTypes, LenProperties DEF Entries, Entry
<1>2. 1 \in T
  BY ArchiveEnds DEF Entries
<1> HIDE DEF n
<1>3. PICK i \in T : \A j \in T : j <= i
  BY <1>1, <1>2, LastIndex
<1>4. i < n => offset < Entries[i + 1].offset
  <2> SUFFICES ASSUME i < n, ~ (offset < Entries[i + 1].offset)
               PROVE  FALSE
    OBVIOUS
  <2>1. i + 1 \in T
    BY <1>1
  <2> QED
    BY <2>1, <1>1, <1>3
<1>5. \E k \in DOMAIN Entries :
        /\ Entries[k].offset <= offset
        /\ k < Len(Entries) => offset < Entries[k + 1].offset
  BY <1>1, <1>4 DEF n
<1> QED
  BY <1>1, <1>5 DEF EntryAt, n

(* A seek lands in a chunk, at or before the position wanted. *)
LEMMA SeekTargetFits ==
  ASSUME archive \in Archives, NEW offset \in Nat
  PROVE  /\ SeekTarget(offset) \in Chunks(Entries)
         /\ offset - ChunkStart(archive, SeekTarget(offset)) \in Nat
<1>1. CASE offset >= archive.eocd_offset
  BY <1>1, ArchiveTypes
  DEF SeekTarget, Chunks, ChunkStart, Eocd, Chunk, Entries
<1>2. CASE offset < archive.eocd_offset /\ offset >= archive.cd_offset
  <2>1. Entries # << >>
    BY <1>2, ArchiveEnds DEF Entries
  <2>2. 1 \in 1 .. Len(Entries)
    BY <2>1, ArchiveEnds DEF Entries
  <2>3. archive.cd_pos[1] = archive.cd_offset
    BY ReaderAssumption DEF WellLaidOut
  <2>4. SeekTarget(offset) = Chunk("CDFileHeader", 1)
    BY <1>2, ArchiveTypes DEF SeekTarget
  <2> QED
    BY <1>2, <2>2, <2>3, <2>4, ArchiveTypes
    DEF Chunks, EntryKinds, ChunkStart, Chunk
<1>3. CASE offset < archive.eocd_offset /\ offset < archive.cd_offset
  <2>1. Entries # << >>
    BY <1>3, ArchiveEnds DEF Entries
  <2>2. /\ EntryAt(offset) \in 1 .. Len(Entries)
        /\ Entries[EntryAt(offset)].offset <= offset
    BY <2>1, EntryAtFinds
  <2>3. SeekTarget(offset) = Chunk("LocalHeader", EntryAt(offset))
    BY <1>3, ArchiveTypes DEF SeekTarget
  <2>4. SeekTarget(offset) \in Chunks(Entries)
    BY <2>2, <2>3 DEF Chunks, EntryKinds, Chunk
  <2>5. ChunkStart(archive, SeekTarget(offset)) = Entries[EntryAt(offset)].offset
    BY <2>3 DEF ChunkStart, Chunk, Entries
  <2> QED
    BY <2>2, <2>4, <2>5, ChunkStartType DEF Entries
<1> QED
  BY <1>1, <1>2, <1>3, ArchiveTypes

-----------------------------------------------------------------------------
(* Every action keeps the invariant.                                       *)

(* What the type invariant says of the chunk the reader is in. *)
LEMMA CurrentChunk ==
  ASSUME TypeOK
  PROVE  /\ archive \in Archives
         /\ Entries \in Seq(Entry)
         /\ Len(Entries) \in Nat
         /\ DOMAIN Entries = 1 .. Len(Entries)
         /\ \A i \in 1 .. Len(Entries) : /\ Entries[i] \in Entry
                                         /\ Entries[i].actual \in Nat
                                         /\ Entries[i].size \in Nat
         /\ ChunkStart(archive, current_chunk) \in Nat
         /\ current_chunk # Finished =>
              /\ ChunkSize(Entries, current_chunk) \in Nat
              /\ NextChunk(Entries, current_chunk) \in Chunks(Entries)
         /\ current_chunk.kind \in EntryKinds => Idx \in 1 .. Len(Entries)
         /\ current_chunk.kind = "EntryData" =>
              ChunkSize(Entries, current_chunk) = Entries[Idx].size
<1>1. archive \in Archives /\ current_chunk \in Chunks(Entries)
  BY DEF TypeOK
<1>2. /\ Entries \in Seq(Entry)
      /\ Len(Entries) \in Nat
      /\ DOMAIN Entries = 1 .. Len(Entries)
  BY <1>1, ArchiveTypes, LenProperties DEF Entries
<1>3. \A i \in 1 .. Len(Entries) : /\ Entries[i] \in Entry
                                   /\ Entries[i].actual \in Nat
                                   /\ Entries[i].size \in Nat
  BY <1>1, ArchiveTypes DEF Entries, Entry
<1>4. ChunkStart(archive, current_chunk) \in Nat
  BY <1>1, ChunkStartType DEF Entries
<1>5. current_chunk # Finished =>
        /\ ChunkSize(Entries, current_chunk) \in Nat
        /\ NextChunk(Entries, current_chunk) \in Chunks(Entries)
  BY <1>1, ChunkSizeType, NextChunkType DEF Entries
<1>6. current_chunk.kind \in EntryKinds => Idx \in 1 .. Len(Entries)
  BY <1>1, ChunkCases DEF Entries, Idx, EntryKinds
<1>7. current_chunk.kind = "EntryData" =>
        ChunkSize(Entries, current_chunk) = Entries[Idx].size
  BY DEF ChunkSize, Idx
<1> QED
  BY <1>1, <1>2, <1>3, <1>4, <1>5, <1>6, <1>7

LEMMA InitInv ==
  ASSUME Init
  PROVE  Inv
<1>1. archive \in Archives /\ pc = "idle" /\ pinned = Nothing
      /\ chunk_processed_size = 0 /\ result.kind = "None"
  BY DEF Init
<1>2. TypeOK
  <2>1. crc32 \in [1 .. Len(Entries) -> Crc]
    BY <1>1, ArchiveTypes DEF Init, Entries, Entry
  <2>2. current_chunk \in Chunks(Entries)
    BY <1>1, FirstChunkType DEF Init, Entries
  <2>3. pinned \in ReaderPinned
    BY <1>1 DEF Nothing, Held, ReaderPinned
  <2> QED
    BY <2>1, <2>2, <2>3 DEF Init, TypeOK, ResultKinds
<1>3. CrcTrue
  BY <1>1, ArchiveTypes, LenProperties DEF Init, CrcTrue, Entries
<1> QED
  BY <1>1, <1>2, <1>3
  DEF Inv, PinnedFits, PcFits, ReaderFits, ProcessedFits, NoAssertionFails,
      Nothing, Held

(* A seek leaves nothing behind that could be wrong. *)
LEMMA SeekFromStartInv ==
  ASSUME Inv, NEW offset \in Nat, SeekFromStart(offset), Returns("None", 0)
  PROVE  Inv'
<1>1. /\ SeekTarget(offset) \in Chunks(Entries)
      /\ offset - ChunkStart(archive, SeekTarget(offset)) \in Nat
  BY SeekTargetFits DEF Inv, TypeOK
<1>2. pinned' = Nothing /\ Nothing \in ReaderPinned
  BY DEF SeekFromStart, PinnedAfterSeek, Nothing, Held, ReaderPinned
<1>3. TypeOK'
  BY <1>1, <1>2 DEF Inv, TypeOK, SeekFromStart, Returns, ResultKinds, Entries
<1>4. CrcTrue'
  BY DEF Inv, CrcTrue, TrueCrc, SeekFromStart, Entries
<1> QED
  BY <1>2, <1>3, <1>4
  DEF Inv, PinnedFits, PcFits, ReaderFits, ProcessedFits, NoAssertionFails,
      SeekFromStart, Returns, Nothing, Held, PanicKinds

(* A call that only returns or panics changes nothing else, if it panics   *)
(* for a reason that is not an assertion of the reader on itself.          *)
LEMMA ReturnInv ==
  ASSUME Inv,
         UNCHANGED << archive, crc32, readState, pinned, cap, out, base >>,
         position' \in Nat,
         pc' \in {"idle", "panicked"},
         result' \in [kind : ResultKinds \ {"ChunkProcessed", "CrcUnknown"},
                      actual_size : Nat]
  PROVE  Inv'
<1>1. TypeOK'
  BY DEF Inv, TypeOK, readState, Entries
<1>2. PinnedFits' /\ ReaderFits' /\ ProcessedFits' /\ CrcTrue'
  BY DEF Inv, PinnedFits, ReaderFits, ProcessedFits, CrcTrue, TrueCrc,
         readState, Idx, Entries, Actual
<1> QED
  BY <1>1, <1>2 DEF Inv, PcFits, NoAssertionFails

(* The beginning of a call, whatever the caller's buffer. *)
LEMMA PollReadInv ==
  ASSUME Inv, NEW n \in Nat, PollRead(n)
  PROVE  Inv'
<1>1. base + Len(out) \in Nat
  BY DEF Inv, TypeOK
<1>2. TypeOK'
  BY <1>1 DEF Inv, TypeOK, PollRead, readState, Entries
<1> QED
  BY <1>2
  DEF Inv, PinnedFits, PcFits, ReaderFits, ProcessedFits, CrcTrue, TrueCrc,
      NoAssertionFails, PollRead, readState, Idx, Entries, Actual

LEMMA CallerInv ==
  ASSUME Inv, CallerStep
  PROVE  Inv'
<1>1. ASSUME NEW n \in ReadSizes, PollRead(n)
      PROVE  Inv'
  BY <1>1, PollReadInv, ReaderAssumption
<1>2. ASSUME NEW origin \in Nat, NEW d \in Int, StartSeek(origin, d)
      PROVE  Inv'
  <2>1. CASE origin + d < 0
    BY <1>2, <2>1, ReturnInv
    DEF Inv, TypeOK, StartSeek, Returns, ResultKinds, ReadErrors, PanicKinds
  <2>2. CASE origin + d >= 0 /\ origin + d > U64Max
    BY <1>2, <2>2, ReturnInv
    DEF Inv, TypeOK, StartSeek, Panics, ResultKinds, ReadErrors, PanicKinds
  <2>3. CASE origin + d >= 0 /\ ~ (origin + d > U64Max)
    BY <1>2, <2>3, SeekFromStartInv DEF StartSeek
  <2> QED
    BY <2>1, <2>2, <2>3
<1>3. ASSUME NEW d \in SeekOffsets,
             SeekStart(d) \/ SeekCurrent(d) \/ SeekEnd(d)
      PROVE  Inv'
  <2>1. d \in Int /\ position \in Nat /\ archive.total_size \in Nat
    BY ReaderAssumption, ArchiveTypes DEF Inv, TypeOK
  <2> QED
    BY <1>2, <1>3, <2>1 DEF SeekStart, SeekCurrent, SeekEnd
<1>4. CASE TakePinned
  BY <1>4, SeekFromStartInv DEF TakePinned, Inv, TypeOK
<1> QED
  BY <1>1, <1>3, <1>4 DEF CallerStep

(* The pieces of a structure. *)
PieceState ==
  [at : Nat, to_skip : Nat, staging : Seq(Nat), out : Seq(Nat)]

LEMMA RunType ==
  ASSUME NEW b \in Nat, NEW n \in Nat
  PROVE  /\ Run(b, n) \in Seq(Nat)
         /\ Len(Run(b, n)) = n
         /\ \A k \in 1 .. n : Run(b, n)[k] = b + k - 1
<1>1. Run(b, n) \in [1 .. n -> Nat]
  BY DEF Run
<1>2. Run(b, n) \in Seq(Nat)
  BY <1>1, SeqDef
<1> QED
  BY <1>1, <1>2, LenProperties DEF Run

LEMMA ReadPieceType ==
  ASSUME NEW s \in PieceState, NEW size \in Nat
  PROVE  ReadPiece(s, size) \in PieceState
<1>1. /\ s.staging \o Run(s.at, size) \in Seq(Nat)
      /\ s.out \o Run(s.at, size) \in Seq(Nat)
  BY RunType, ConcatProperties DEF PieceState
<1>2. /\ s.at + size \in Nat
      /\ s.to_skip >= size => s.to_skip - size \in Nat
  BY DEF PieceState
<1> QED
  BY <1>1, <1>2 DEF ReadPiece, PieceState

(* The pieces of a structure make up its chunk. *)
LEMMA PiecesMakeChunk ==
  ASSUME TypeOK, current_chunk.kind \in {"LocalHeader", "DataDescriptor",
                                         "CDFileHeader", "Eocd"}
  PROVE  /\ PieceSizes[1] \in Nat /\ PieceSizes[2] \in Nat
         /\ PieceSizes[3] \in Nat
         /\ PieceSizes[1] + PieceSizes[2] + PieceSizes[3]
              = ChunkSize(Entries, current_chunk)
<1>1. CASE current_chunk.kind = "LocalHeader"
  <2>1. Entries[Idx].name_len \in Nat
    BY <1>1, CurrentChunk DEF EntryKinds, Entry
  <2>2. PieceSizes = << LocalFileHeaderSize, Entries[Idx].name_len,
                        Zip64ExtraFieldSize >>
    BY <1>1 DEF PieceSizes
  <2> QED
    BY <1>1, <2>1, <2>2, StructSizesAssumption DEF ChunkSize, Idx
<1>2. CASE current_chunk.kind = "DataDescriptor"
  <2>1. PieceSizes = << DataDescriptor64Size, 0, 0 >>
    BY <1>2 DEF PieceSizes
  <2> QED
    BY <1>2, <2>1, StructSizesAssumption DEF ChunkSize
<1>3. CASE current_chunk.kind = "CDFileHeader"
  <2>1. Entries[Idx].name_len \in Nat
    BY <1>3, CurrentChunk DEF EntryKinds, Entry
  <2>2. PieceSizes = << CentralDirectoryHeaderSize, Entries[Idx].name_len,
                        Zip64ExtraFieldSize >>
    BY <1>3 DEF PieceSizes
  <2> QED
    BY <1>3, <2>1, <2>2, StructSizesAssumption DEF ChunkSize, Idx
<1>4. CASE current_chunk.kind = "Eocd"
  <2>1. PieceSizes = << Zip64EocdRecordSize, Zip64EocdLocatorSize,
                        EndOfCentralDirectorySize >>
    BY <1>4 DEF PieceSizes
  <2> QED
    BY <1>4, <2>1, StructSizesAssumption DEF ChunkSize, EocdSize
<1> QED
  BY <1>1, <1>2, <1>3, <1>4

(* Reading a structure finishes its chunk: chunk_processed_size is what    *)
(* the assertion in ReadState::read expects.                               *)
LEMMA ReadStructureFinishes ==
  ASSUME Inv, Reading, ReadStructure,
         current_chunk.kind \in {"LocalHeader", "DataDescriptor",
                                 "CDFileHeader", "Eocd"}
  PROVE  /\ current_chunk' = NextChunk(Entries, current_chunk)
         /\ current_chunk' \in Chunks(Entries)
         /\ chunk_processed_size' = 0
         /\ pc' = "loop"
         /\ result' = result
         /\ to_skip' \in Nat
         /\ staging_buffer' \in Seq(Nat)
         /\ out' \in Seq(Nat)
<1>1. /\ PieceSizes[1] \in Nat /\ PieceSizes[2] \in Nat
      /\ PieceSizes[3] \in Nat
      /\ PieceSizes[1] + PieceSizes[2] + PieceSizes[3]
           = ChunkSize(Entries, current_chunk)
  BY PiecesMakeChunk DEF Inv
<1>2. chunk_processed_size = 0
  BY DEF Inv, ProcessedFits
<1>3. Pieces0 \in PieceState
  BY CurrentChunk DEF Inv, TypeOK, Pieces0, PieceState
<1>4. AllPieces(Pieces0, PieceSizes) \in PieceState
  BY <1>1, <1>3, ReadPieceType DEF AllPieces
<1>5. FinishChunk(ChunkSize(Entries, current_chunk))
  <2>1. chunk_processed_size
          + PieceSizes[1] + PieceSizes[2] + PieceSizes[3]
          = ChunkSize(Entries, current_chunk)
    BY <1>1, <1>2
  <2> QED
    BY <2>1 DEF ReadStructure
<1> QED
  BY <1>4, <1>5, CurrentChunk
  DEF Inv, Reading, FinishChunk, ReadStructure, PieceState

LEMMA LoopInv ==
  ASSUME Inv, LoopStep
  PROVE  Inv'
<1>1. CASE ReturnOk
  <2>1. position + Len(out) \in Nat
    BY DEF Inv, TypeOK
  <2> QED
    BY <1>1, <2>1, ReturnInv
    DEF ReturnOk, Returns, PositionAfterRead, ResultKinds, ReadErrors,
        PanicKinds
<1>2. CASE ReadFromStaging
  <2> DEFINE last == to_skip + Remaining >= Len(staging_buffer)
             end  == IF last THEN Len(staging_buffer) ELSE to_skip + Remaining
  <2>1. /\ end \in Nat
        /\ Remaining \in Nat
        /\ end <= Len(staging_buffer)
    BY <1>2 DEF Inv, TypeOK, ReadFromStaging, Remaining
  <2>2. SubSeq(staging_buffer, to_skip + 1, end) \in Seq(Nat)
    <3>1. \A i \in to_skip + 1 .. end : staging_buffer[i] \in Nat
      BY <2>1, ElementOfSeq DEF Inv, TypeOK
    <3> QED
      BY <3>1, <2>1, SubSeqProperties DEF Inv, TypeOK
  <2>3. TypeOK'
    <3>1. out' \in Seq(Nat)
      BY <1>2, <2>2, ConcatProperties DEF Inv, TypeOK, ReadFromStaging
    <3>2. to_skip' \in Nat /\ staging_buffer' \in Seq(Nat)
      BY <1>2, <2>1 DEF Inv, TypeOK, ReadFromStaging
    <3> QED
      BY <1>2, <3>1, <3>2 DEF Inv, TypeOK, ReadFromStaging, Entries
  <2>4. pinned.state = "Nothing" /\ chunk_processed_size = 0
    BY <1>2 DEF Inv, PinnedFits, ProcessedFits, ReadFromStaging
  <2> QED
    BY <1>2, <2>3, <2>4
    DEF Inv, PinnedFits, PcFits, ReaderFits, ProcessedFits, CrcTrue, TrueCrc,
        NoAssertionFails, ReadFromStaging, Idx, Entries, Actual
<1>3. CASE SkipChunk
  <2>1. /\ pinned.state = "Nothing"
        /\ chunk_processed_size = 0
    BY <1>3, CurrentChunk DEF Inv, TypeOK, PinnedFits, ProcessedFits, SkipChunk
  <2>2. TypeOK'
    BY <1>3, CurrentChunk DEF Inv, TypeOK, SkipChunk, Entries
  <2> QED
    BY <1>3, <2>1, <2>2
    DEF Inv, PinnedFits, PcFits, ReaderFits, ProcessedFits, CrcTrue, TrueCrc,
        NoAssertionFails, SkipChunk, Entries
<1>4. CASE ReadLocalHeaderOrEocd
  <2>1. pinned.state = "Nothing"
    BY <1>4 DEF Inv, PinnedFits, ReadLocalHeaderOrEocd
  <2>2. TypeOK'
    BY <1>4, ReadStructureFinishes
    DEF Inv, TypeOK, ReadLocalHeaderOrEocd, Entries
  <2> QED
    BY <1>4, <2>1, <2>2, ReadStructureFinishes
    DEF Inv, PinnedFits, PcFits, ReaderFits, ProcessedFits, CrcTrue, TrueCrc,
        NoAssertionFails, ReadLocalHeaderOrEocd, Entries
<1>5. CASE ReadCrcStructure
  <2>1. Idx \in 1 .. Len(Entries)
    BY <1>5, CurrentChunk DEF Inv, ReadCrcStructure, EntryKinds
  <2>2. pinned.state = "Nothing"
    BY <1>5 DEF Inv, PinnedFits, ReadCrcStructure
  <2>3. crc32' \in [1 .. Len(Entries) -> Crc]
    <3>1. EmptyCrc \in Crc
      BY DEF Crc, EmptyCrc
    <3> QED
      BY <1>5, <2>1, <3>1 DEF Inv, TypeOK, ReadCrcStructure, CrcOfEmpty
  <2>4. TypeOK'
    BY <1>5, <2>3, ReadStructureFinishes
    DEF Inv, TypeOK, ReadCrcStructure, Entries
  <2>5. CrcTrue'
    <3>1. CASE crc32' = crc32
      BY <1>5, <3>1 DEF Inv, CrcTrue, TrueCrc, ReadCrcStructure, Entries
    <3>2. CASE /\ Entries[Idx].size = 0
               /\ crc32' = [crc32 EXCEPT ![Idx] = EmptyCrc]
      BY <1>5, <2>1, <3>2, CurrentChunk
      DEF Inv, TypeOK, CrcTrue, TrueCrc, ReadCrcStructure, Entries
    <3> QED
      BY <1>5, <3>1, <3>2 DEF ReadCrcStructure, CrcOfEmpty
  <2> QED
    BY <1>5, <2>2, <2>4, <2>5, ReadStructureFinishes
    DEF Inv, PinnedFits, PcFits, ReaderFits, ProcessedFits, NoAssertionFails,
        ReadCrcStructure
<1>6. CASE UseOpenReader
  <2>1. TypeOK'
    BY <1>6 DEF Inv, TypeOK, UseOpenReader, Opened, readState, Entries
  <2>2. PcFits'
    BY <1>6
    DEF Inv, PcFits, UseOpenReader, NeedsReader, WantsData, WantsCrc, Opened,
        readState
  <2> QED
    BY <1>6, <2>1, <2>2
    DEF Inv, PinnedFits, ReaderFits, ProcessedFits, CrcTrue, TrueCrc,
        NoAssertionFails, UseOpenReader, readState, Idx, Entries, Actual
<1>7. CASE PollSpentFuture
  BY <1>7, ReturnInv
  DEF PollSpentFuture, Panics, ResultKinds, ReadErrors, PanicKinds, Inv, TypeOK
<1> QED
  BY <1>1, <1>2, <1>3, <1>4, <1>5, <1>6, <1>7 DEF LoopStep

(* The CRC of some data is one a reader can hold, and not None. *)
LEMMA CrcOfType ==
  ASSUME NEW i \in Nat \ {0}, NEW n \in Nat
  PROVE  CrcOf(i, n) \in Crc /\ CrcOf(i, n) # NoCrc
<1>1. << i, n >> \in Crc /\ EmptyCrc \in Crc
  BY DEF Crc, EmptyCrc
<1>2. << i, n >> # NoCrc /\ EmptyCrc # NoCrc
  BY DEF NoCrc, EmptyCrc
<1> QED
  BY <1>1, <1>2 DEF CrcOf

(* A source gives no more than there is room for, and no more than it has. *)
LEMMA SourceReadsWithin ==
  ASSUME Inv, pinned.state = "FileReader", NEW room \in Nat,
         NEW n \in SourceReads(room)
  PROVE  /\ n \in Nat \ {0} /\ n <= room
         /\ pinned.pos + n <= Actual
         /\ pinned.pos \in Nat /\ pinned.hashed \in Nat
         /\ Pulled(pinned, n) \in ReaderPinned
<1>1. /\ pinned.entry \in 1 .. Len(Entries)
      /\ Actual \in Nat
  BY CurrentChunk DEF Inv, PinnedFits, EntryKinds, Actual
<1>2. pinned \in ReaderPinned /\ pinned.pos \in Nat /\ pinned.hashed \in Nat
  BY DEF Inv, TypeOK, ReaderPinned
<1>3. n \in Nat \ {0} /\ n <= room /\ pinned.pos + n <= Actual
  BY <1>1, <1>2 DEF SourceReads
<1>4. Pulled(pinned, n) \in ReaderPinned
  <2>1. pinned.pos + n \in Nat /\ pinned.hashed + n \in Nat
    BY <1>2, <1>3
  <2> QED
    BY <1>2, <2>1 DEF Pulled, ReaderPinned
<1> QED
  BY <1>2, <1>3, <1>4

(* At the end of its data, a reader that has not sought has the CRC of all *)
(* the data; a reader that has is one of data whose CRC is known.          *)
LEMMA CrcAtEof ==
  ASSUME Inv, pinned.state = "FileReader", SourceAtEof
  PROVE  /\ Idx \in 1 .. Len(Entries)
         /\ ReaderCrc(pinned) \in {NoCrc, TrueCrc(Idx)}
         /\ ReaderCrc(pinned) = NoCrc <=> pinned.did_seek
         /\ ReaderCrc(pinned) \in Crc
<1>1. /\ Idx \in 1 .. Len(Entries) /\ Idx \in Nat \ {0}
      /\ pinned.entry = Idx
      /\ Entries[Idx].size # 0
      /\ Actual \in Nat
  BY CurrentChunk DEF Inv, PinnedFits, EntryKinds, Actual
<1>2. pinned.pos \in Nat
  BY DEF Inv, TypeOK, ReaderPinned
<1>3. NoCrc \in Crc
  BY DEF NoCrc, Crc
<1>4. CASE pinned.did_seek
  BY <1>1, <1>3, <1>4 DEF ReaderCrc
<1>5. CASE ~ pinned.did_seek
  <2>1. pinned.hashed = Actual
    BY <1>1, <1>2, <1>5 DEF Inv, ReaderFits, SourceAtEof
  <2>2. CrcOf(Idx, Actual) \in Crc /\ CrcOf(Idx, Actual) # NoCrc
    BY <1>1, CrcOfType
  <2>3. ReaderCrc(pinned) = CrcOf(Idx, Actual)
    BY <1>1, <1>5, <2>1 DEF ReaderCrc
  <2>4. TrueCrc(Idx) = CrcOf(Idx, Actual)
    BY <1>1 DEF TrueCrc, Actual
  <2> QED
    BY <1>1, <1>5, <2>2, <2>3, <2>4
<1> QED
  BY <1>4, <1>5

(* A reader that goes on reading stays what it is. *)
LEMMA PulledInv ==
  ASSUME Inv, pinned.state = "FileReader",
         NEW room \in Nat, NEW n \in SourceReads(room),
         pinned' = Pulled(pinned, n),
         UNCHANGED << archive, crc32, current_chunk >>
  PROVE  ReaderFits'
<1>1. /\ pinned.pos + n <= Actual
      /\ pinned.pos \in Nat /\ n \in Nat
  BY SourceReadsWithin
<1>2. /\ pinned'.state = pinned.state
      /\ pinned'.entry = pinned.entry
      /\ pinned'.did_seek = pinned.did_seek
      /\ pinned'.seek_in_progress = pinned.seek_in_progress
      /\ pinned'.pos = pinned.pos + n
      /\ pinned'.hashed = pinned.hashed + n
  BY DEF Inv, TypeOK, ReaderPinned, Pulled
<1>3. Actual' = Actual
  BY <1>2 DEF Actual, Entries
<1> QED
  BY <1>1, <1>2, <1>3 DEF Inv, ReaderFits, Idx

(* An error or a pending source ends the call; what is pinned may change.  *)
LEMMA GivesUpInv ==
  ASSUME Inv, ReturnsPending \/ ReturnsIoError,
         UNCHANGED << archive, crc32, readState, position, cap, out, base >>,
         pinned' \in ReaderPinned, PinnedFits', ReaderFits'
  PROVE  Inv'
<1>1. /\ pc' = "idle"
      /\ result' \in [kind : {"Pending", "Ok", "Io"}, actual_size : {0}]
  BY DEF ReturnsPending, ReturnsIoError, Returns, PendingKind
<1>2. TypeOK'
  BY <1>1 DEF Inv, TypeOK, readState, Entries, ResultKinds, ReadErrors
<1> QED
  BY <1>1, <1>2
  DEF Inv, PcFits, ProcessedFits, CrcTrue, TrueCrc, NoAssertionFails,
      readState, Idx, Entries

LEMMA OpenReaderInv ==
  ASSUME Inv, OpenReader
  PROVE  Inv'
<1>1. /\ Reading
      /\ WantsData \/ WantsCrc
      /\ UNCHANGED << archive, crc32, readState, position, cap, out, base >>
  BY DEF OpenReader, NeedsReader
<1>2. /\ current_chunk.kind \in {"EntryData", "DataDescriptor", "CDFileHeader"}
      /\ Idx \in 1 .. Len(Entries)
      /\ Entries[Idx].size # 0
      /\ Entries[Idx].actual \in Nat
      /\ staging_buffer = << >>
      /\ to_skip < ChunkSize(Entries, current_chunk)
      /\ current_chunk.kind # "EntryData" => crc32[Idx] = NoCrc
  BY <1>1, CurrentChunk
  DEF Inv, TypeOK, Reading, WantsData, WantsCrc, EntryKinds
<1>3. PICK state \in {"FileReader", "ReaderFuture", "SpentFuture"} :
        pinned' = Held(state, Idx)
  BY DEF OpenReader
<1>4. pinned' \in ReaderPinned
  BY <1>2, <1>3 DEF Held, ReaderPinned
<1>5. PinnedFits'
  BY <1>1, <1>2, <1>3 DEF PinnedFits, Held, readState, Idx, Entries
<1>6. ReaderFits'
  BY <1>1, <1>2, <1>3 DEF ReaderFits, Held, readState, Idx, Entries, Actual
<1>7. CASE pinned' = Held("FileReader", Idx) /\ Opened /\ UNCHANGED result
  <2>1. TypeOK'
    BY <1>1, <1>4, <1>7 DEF Inv, TypeOK, Opened, readState, Entries
  <2>2. PcFits'
    BY <1>1, <1>7
    DEF PcFits, Opened, WantsData, WantsCrc, Held, readState
  <2> QED
    BY <1>1, <1>5, <1>6, <1>7, <2>1, <2>2
    DEF Inv, ProcessedFits, CrcTrue, TrueCrc, NoAssertionFails, readState, Idx,
        Entries
<1>8. CASE ReturnsPending \/ ReturnsIoError
  BY <1>1, <1>4, <1>5, <1>6, <1>8, GivesUpInv
<1> QED
  BY <1>7, <1>8 DEF OpenReader

LEMMA SkipByReadingInv ==
  ASSUME Inv, SkipByReading
  PROVE  Inv'
<1>1. /\ pc = "data" /\ to_skip > 0
      /\ current_chunk.kind = "EntryData"
      /\ pinned.state = "FileReader"
      /\ UNCHANGED << archive, crc32, current_chunk, position, staging_buffer,
                      cap, out, base >>
  BY DEF Inv, PcFits, SkipByReading
<1>2. CASE \E n \in SourceReads(IF to_skip < ScratchSize THEN to_skip
                                                         ELSE ScratchSize) :
             /\ pinned' = Pulled(pinned, n)
             /\ chunk_processed_size' = chunk_processed_size + n
             /\ to_skip' = to_skip - n
             /\ UNCHANGED << pc, result >>
  <2> DEFINE room == IF to_skip < ScratchSize THEN to_skip ELSE ScratchSize
  <2>1. room \in Nat /\ room <= to_skip
    BY ReaderAssumption DEF Inv, TypeOK
  <2>2. PICK n \in SourceReads(room) :
          /\ pinned' = Pulled(pinned, n)
          /\ chunk_processed_size' = chunk_processed_size + n
          /\ to_skip' = to_skip - n
          /\ UNCHANGED << pc, result >>
    BY <1>2
  <2> HIDE DEF room
  <2>3. /\ n \in Nat \ {0} /\ n <= room
        /\ pinned' \in ReaderPinned
    BY <1>1, <2>1, <2>2, SourceReadsWithin
  <2>4. to_skip' \in Nat /\ to_skip' < to_skip
    BY <2>1, <2>2, <2>3 DEF Inv, TypeOK
  <2>5. TypeOK'
    BY <1>1, <2>2, <2>3, <2>4 DEF Inv, TypeOK, Entries
  <2>6. ReaderFits'
    BY <1>1, <2>1, <2>2, PulledInv
  <2>7. /\ pinned'.state = "FileReader"
        /\ pinned'.entry = pinned.entry
    BY <1>1, <2>2 DEF Inv, TypeOK, ReaderPinned, Pulled
  <2>8. PinnedFits' /\ ProcessedFits'
    <3>1. /\ staging_buffer = << >>
          /\ to_skip < ChunkSize(Entries, current_chunk)
          /\ ChunkSize(Entries, current_chunk) \in Nat
      BY <1>1, CurrentChunk DEF Inv, PinnedFits, Finished, Chunk
    <3> QED
      BY <1>1, <2>4, <2>7, <3>1
      DEF Inv, TypeOK, PinnedFits, ProcessedFits, Idx, Entries
  <2> QED
    BY <1>1, <2>2, <2>5, <2>6, <2>7, <2>8
    DEF Inv, PcFits, CrcTrue, TrueCrc, NoAssertionFails, Entries
<1>3. CASE /\ pc' = AfterSkipEof
           /\ UNCHANGED << chunk_processed_size, to_skip, pinned, result >>
  <2>1. TypeOK'
    BY <1>1, <1>3 DEF Inv, TypeOK, AfterSkipEof, Entries
  <2> QED
    BY <1>1, <1>3, <2>1
    DEF Inv, PinnedFits, PcFits, ReaderFits, ProcessedFits, CrcTrue, TrueCrc,
        NoAssertionFails, AfterSkipEof, Idx, Entries, Actual
<1>4. CASE /\ ReturnsPending \/ ReturnsIoError
           /\ UNCHANGED << chunk_processed_size, to_skip, pinned >>
  <2>1. PinnedFits' /\ ReaderFits' /\ pinned' \in ReaderPinned
    BY <1>1, <1>4
    DEF Inv, TypeOK, PinnedFits, ReaderFits, Idx, Entries, Actual
  <2> QED
    BY <1>1, <1>4, <2>1, GivesUpInv DEF readState
<1> QED
  BY <1>2, <1>3, <1>4 DEF SkipByReading

LEMMA SeekSourceInv ==
  ASSUME Inv, SeekSource
  PROVE  Inv'
<1> DEFINE p    == SeekStarted(pinned, to_skip)
           done == SeekCompleted(p)
<1>1. /\ pc = "data" /\ to_skip > 0
      /\ crc32[Idx] # NoCrc
      /\ current_chunk.kind = "EntryData"
      /\ pinned.state = "FileReader"
      /\ UNCHANGED << archive, crc32, current_chunk, position, staging_buffer,
                      cap, out, base >>
  BY DEF Inv, PcFits, SeekSource, SkipsByReading
<1>2. /\ pinned \in ReaderPinned /\ to_skip \in Nat
      /\ pinned.seek_in_progress => pinned.did_seek
  BY <1>1 DEF Inv, TypeOK, ReaderFits
<1>3. /\ staging_buffer = << >>
      /\ Entries[Idx].size # 0
      /\ ChunkSize(Entries, current_chunk) = Entries[Idx].size
      /\ ChunkSize(Entries, current_chunk) \in Nat
      /\ 0 < ChunkSize(Entries, current_chunk)
      /\ to_skip < ChunkSize(Entries, current_chunk)
  <2>1. /\ staging_buffer = << >>
        /\ Entries[Idx].size # 0
        /\ to_skip < ChunkSize(Entries, current_chunk)
    BY <1>1 DEF Inv, PinnedFits
  <2>2. /\ ChunkSize(Entries, current_chunk) = Entries[Idx].size
        /\ ChunkSize(Entries, current_chunk) \in Nat
    BY <1>1, CurrentChunk DEF Inv, Finished, Chunk
  <2> QED
    BY <2>1, <2>2
<1>4. ASSUME NEW q \in {done, p, [p EXCEPT !.target = pinned.pos]}
      PROVE  /\ q \in ReaderPinned
             /\ q.state = "FileReader"
             /\ q.entry = pinned.entry
             /\ q.did_seek = TRUE
  <2>1. /\ p \in ReaderPinned
        /\ p.state = "FileReader"
        /\ p.entry = pinned.entry
        /\ p.did_seek = TRUE
    BY <1>1, <1>2 DEF SeekStarted, ReaderPinned
  <2> HIDE DEF p
  <2>2. p.target \in Nat /\ pinned.pos \in Nat
    BY <1>2, <2>1 DEF ReaderPinned
  <2> QED
    BY <2>1, <2>2 DEF SeekCompleted, ReaderPinned
<1>5. pinned' \in {done, p, [p EXCEPT !.target = pinned.pos]}
  BY DEF SeekSource
<1>6. /\ pinned' \in ReaderPinned
      /\ pinned'.state = "FileReader"
      /\ pinned'.entry = pinned.entry
      /\ pinned'.did_seek = TRUE
  BY <1>4, <1>5
<1> HIDE DEF p, done
<1>7. ReaderFits'
  BY <1>1, <1>6 DEF ReaderFits, Idx
<1>8. to_skip' \in {0, to_skip}
  BY DEF SeekSource
<1>9. PinnedFits'
  BY <1>1, <1>3, <1>6, <1>8 DEF Inv, PinnedFits, Idx, Entries
<1>10. CASE /\ chunk_processed_size' = chunk_processed_size + to_skip
            /\ to_skip' = 0
            /\ UNCHANGED << pc, result >>
  <2>1. TypeOK'
    BY <1>1, <1>2, <1>6, <1>10 DEF Inv, TypeOK, Entries
  <2> QED
    BY <1>1, <1>3, <1>6, <1>7, <1>9, <1>10, <2>1
    DEF Inv, PcFits, ProcessedFits, CrcTrue, TrueCrc, NoAssertionFails, Entries
<1>11. CASE Panics("SeekPosition")
            /\ UNCHANGED << chunk_processed_size, to_skip >>
  <2>1. TypeOK'
    BY <1>1, <1>6, <1>11
    DEF Inv, TypeOK, Panics, ResultKinds, PanicKinds, Entries
  <2> QED
    BY <1>1, <1>7, <1>9, <1>11, <2>1
    DEF Inv, PcFits, ProcessedFits, CrcTrue, TrueCrc, NoAssertionFails, Panics,
        Entries
<1>12. CASE /\ ReturnsPending \/ ReturnsIoError
            /\ UNCHANGED << chunk_processed_size, to_skip >>
  BY <1>1, <1>6, <1>7, <1>9, <1>12, GivesUpInv DEF readState
<1> QED
  BY <1>10, <1>11, <1>12 DEF SeekSource

(* In read_entry_data, skipped or not, the reader is open. *)
LEMMA AtPullReads ==
  ASSUME Inv, AtPull
  PROVE  /\ current_chunk.kind = "EntryData"
         /\ current_chunk # Finished
         /\ pinned.state = "FileReader"
         /\ pinned.entry = Idx
         /\ Idx \in 1 .. Len(Entries)
         /\ Entries[Idx].size # 0
         /\ staging_buffer = << >>
         /\ to_skip < ChunkSize(Entries, current_chunk)
<1>1. /\ current_chunk.kind = "EntryData"
      /\ pinned.state = "FileReader"
  BY DEF Inv, AtPull, PcFits
<1> QED
  BY <1>1, CurrentChunk
  DEF Inv, PinnedFits, EntryKinds, Finished, Chunk

LEMMA PullDataInv ==
  ASSUME Inv, PullData
  PROVE  Inv'
<1>1. /\ AtPull
      /\ UNCHANGED << archive, crc32, current_chunk, position, staging_buffer,
                      to_skip, cap, base >>
  BY DEF PullData
<1>2. CASE \E n \in SourceReads(Remaining) :
             /\ out' = out \o Run(DataStart(archive, pinned.entry)
                                    + pinned.pos, n)
             /\ pinned' = Pulled(pinned, n)
             /\ chunk_processed_size' = chunk_processed_size + n
             /\ pc' = "loop"
             /\ UNCHANGED result
  <2>1. PICK n \in SourceReads(Remaining) :
          /\ out' = out \o Run(DataStart(archive, pinned.entry)
                                 + pinned.pos, n)
          /\ pinned' = Pulled(pinned, n)
          /\ chunk_processed_size' = chunk_processed_size + n
          /\ pc' = "loop"
          /\ UNCHANGED result
    BY <1>2
  <2>2. Remaining \in Nat /\ n \in SourceReads(Remaining)
    <3>1. Remaining \in Int
      BY DEF Inv, TypeOK, Remaining
    <3>2. pinned.pos \in Nat /\ Actual \in Nat
      BY <1>1, AtPullReads, CurrentChunk
      DEF Inv, TypeOK, ReaderPinned, Actual
    <3> QED
      BY <2>1, <3>1, <3>2 DEF SourceReads
  <2>3. /\ n \in Nat \ {0}
        /\ pinned' \in ReaderPinned
        /\ pinned.pos \in Nat
    BY <1>1, <2>1, <2>2, AtPullReads, SourceReadsWithin
  <2>4. DataStart(archive, pinned.entry) \in Nat
    <3>1. ChunkStart(archive, current_chunk) \in Nat
      BY CurrentChunk DEF Inv
    <3>2. current_chunk.kind = "EntryData" /\ pinned.entry = Idx
      BY <1>1, AtPullReads
    <3>3. ChunkStart(archive, current_chunk) = DataStart(archive, Idx)
      BY <3>2 DEF ChunkStart, Idx
    <3> QED
      BY <3>1, <3>2, <3>3
  <2>5. out' \in Seq(Nat)
    <3>1. Run(DataStart(archive, pinned.entry) + pinned.pos, n) \in Seq(Nat)
      <4>1. DataStart(archive, pinned.entry) + pinned.pos \in Nat /\ n \in Nat
        BY <2>3, <2>4
      <4> QED
        BY <4>1, RunType
    <3> QED
      BY <2>1, <3>1, ConcatProperties DEF Inv, TypeOK
  <2>6. TypeOK'
    BY <1>1, <2>1, <2>3, <2>5 DEF Inv, TypeOK, Entries
  <2>7. ReaderFits'
    BY <1>1, <2>1, <2>2, AtPullReads, PulledInv
  <2>8. /\ pinned'.state = "FileReader"
        /\ pinned'.entry = pinned.entry
    BY <1>1, <2>1, AtPullReads DEF Inv, TypeOK, ReaderPinned, Pulled
  <2>9. PinnedFits' /\ ProcessedFits'
    BY <1>1, <2>8, AtPullReads DEF Inv, PinnedFits, ProcessedFits, Idx, Entries
  <2> QED
    BY <1>1, <2>1, <2>6, <2>7, <2>9
    DEF Inv, PcFits, CrcTrue, TrueCrc, NoAssertionFails, Entries
<1>3. CASE /\ ReturnsPending \/ ReturnsIoError
           /\ UNCHANGED << chunk_processed_size, pinned, out >>
  <2>1. PinnedFits' /\ ReaderFits' /\ pinned' \in ReaderPinned
    BY <1>1, <1>3
    DEF Inv, TypeOK, PinnedFits, ReaderFits, Idx, Entries, Actual
  <2> QED
    BY <1>1, <1>3, <2>1, GivesUpInv DEF readState
<1> QED
  BY <1>2, <1>3 DEF PullData

LEMMA FinishDataInv ==
  ASSUME Inv, FinishData
  PROVE  Inv'
<1>1. /\ AtPull /\ SourceAtEof
      /\ UNCHANGED << archive, position, staging_buffer, to_skip, cap, out,
                      base >>
  BY DEF FinishData
<1>2. CASE /\ Returns("Crc32Mismatch", 0)
           /\ UNCHANGED << crc32, pinned, current_chunk, chunk_processed_size >>
  BY <1>1, <1>2, ReturnInv
  DEF Returns, ResultKinds, ReadErrors, PanicKinds, readState, Inv, TypeOK
<1>3. CASE /\ ~ DataMismatch
           /\ crc32' = [crc32 EXCEPT ![Idx] = CrcAfterData]
           /\ pinned' = Nothing
           /\ IF SizeMatches
              THEN FinishChunk(chunk_processed_size)
              ELSE /\ Returns("SizeMismatch", chunk_processed_size)
                   /\ UNCHANGED << current_chunk, chunk_processed_size >>
  <2>1. /\ Idx \in 1 .. Len(Entries)
        /\ crc32[Idx] \in Crc
        /\ CrcAfterData \in Crc
        /\ CrcAfterData \in {crc32[Idx], TrueCrc(Idx)}
    BY <1>1, AtPullReads, CrcAtEof DEF Inv, TypeOK, CrcAfterData
  <2>2. crc32' \in [1 .. Len(Entries) -> Crc]
    BY <1>3, <2>1 DEF Inv, TypeOK
  <2>3. CrcTrue'
    <3>1. \A i \in 1 .. Len(Entries) :
            crc32'[i] = IF i = Idx THEN CrcAfterData ELSE crc32[i]
      BY <1>3, <2>1 DEF Inv, TypeOK
    <3>2. \A i \in 1 .. Len(Entries) : TrueCrc(i)' = TrueCrc(i)
      BY <1>1 DEF TrueCrc, Entries
    <3> QED
      BY <1>1, <2>1, <3>1, <3>2, CurrentChunk DEF Inv, CrcTrue, Entries
  <2>4. pinned' \in ReaderPinned /\ pinned'.state = "Nothing"
    BY <1>3 DEF Nothing, Held, ReaderPinned
  <2>5. PinnedFits' /\ ReaderFits'
    BY <2>4 DEF PinnedFits, ReaderFits
  <2>6. CASE SizeMatches
    <3>1. /\ current_chunk' = NextChunk(Entries, current_chunk)
          /\ chunk_processed_size' = 0
          /\ pc' = "loop"
          /\ UNCHANGED result
      BY <1>1, <1>3, <2>6, AtPullReads, CurrentChunk
      DEF Inv, SizeMatches, FinishChunk
    <3>2. current_chunk' \in Chunks(Entries)
      BY <1>1, <3>1, AtPullReads, CurrentChunk DEF Inv
    <3>3. TypeOK'
      BY <1>1, <2>2, <2>4, <3>1, <3>2 DEF Inv, TypeOK, Entries
    <3> QED
      BY <2>3, <2>5, <3>1, <3>3
      DEF Inv, PcFits, ProcessedFits, NoAssertionFails
  <2>7. CASE ~ SizeMatches
    <3>1. /\ UNCHANGED << current_chunk, chunk_processed_size >>
          /\ pc' = "idle"
          /\ result' = [kind |-> "SizeMismatch",
                        actual_size |-> chunk_processed_size]
      BY <1>3, <2>7 DEF Returns
    <3>2. TypeOK'
      BY <1>1, <2>2, <2>4, <3>1
      DEF Inv, TypeOK, ResultKinds, ReadErrors, Entries
    <3>3. ProcessedFits'
      BY <1>1, <3>1, AtPullReads DEF ProcessedFits, Entries
    <3> QED
      BY <2>3, <2>5, <3>1, <3>2, <3>3 DEF Inv, PcFits, NoAssertionFails
  <2> QED
    BY <2>6, <2>7
<1> QED
  BY <1>2, <1>3 DEF FinishData

LEMMA ReadForCrcInv ==
  ASSUME Inv, ReadForCrc
  PROVE  Inv'
<1>1. /\ pc = "crc"
      /\ pinned.state = "FileReader"
      /\ UNCHANGED << archive, crc32, readState, position, cap, out, base >>
  BY DEF Inv, PcFits, ReadForCrc
<1>2. CASE \E n \in SourceReads(ScratchSize) :
             /\ pinned' = Pulled(pinned, n)
             /\ UNCHANGED << pc, result >>
  <2>1. PICK n \in SourceReads(ScratchSize) :
          /\ pinned' = Pulled(pinned, n)
          /\ UNCHANGED << pc, result >>
    BY <1>2
  <2>2. pinned' \in ReaderPinned
    BY <1>1, <2>1, SourceReadsWithin, ReaderAssumption
  <2>3. ReaderFits'
    BY <1>1, <2>1, PulledInv, ReaderAssumption DEF readState
  <2>4. /\ pinned'.state = "FileReader"
        /\ pinned'.entry = pinned.entry
    BY <1>1, <2>1 DEF Inv, TypeOK, ReaderPinned, Pulled
  <2>5. TypeOK'
    BY <1>1, <2>1, <2>2 DEF Inv, TypeOK, readState, Entries
  <2> QED
    BY <1>1, <2>1, <2>3, <2>4, <2>5
    DEF Inv, PinnedFits, PcFits, ProcessedFits, CrcTrue, TrueCrc,
        NoAssertionFails, readState, Idx, Entries
<1>3. CASE (ReturnsPending \/ ReturnsIoError) /\ UNCHANGED pinned
  <2>1. PinnedFits' /\ ReaderFits' /\ pinned' \in ReaderPinned
    BY <1>1, <1>3
    DEF Inv, TypeOK, PinnedFits, ReaderFits, readState, Idx, Entries, Actual
  <2> QED
    BY <1>1, <1>3, <2>1, GivesUpInv
<1> QED
  BY <1>2, <1>3 DEF ReadForCrc

(* The expect in get_crc holds: the reader has never sought. *)
LEMMA FinishCrcFinds ==
  ASSUME Inv, FinishCrc
  PROVE  /\ Idx \in 1 .. Len(Entries)
         /\ crc32[Idx] = NoCrc
         /\ crc32' = [crc32 EXCEPT ![Idx] = TrueCrc(Idx)]
         /\ TrueCrc(Idx) \in Crc
         /\ pinned' = Nothing
         /\ pc' = "loop"
         /\ UNCHANGED << archive, readState, position, cap, out, base, result >>
<1>1. /\ pc = "crc" /\ SourceAtEof
      /\ pinned.state = "FileReader"
      /\ current_chunk.kind \in {"DataDescriptor", "CDFileHeader"}
      /\ UNCHANGED << archive, readState, position, cap, out, base >>
  BY DEF Inv, PcFits, FinishCrc
<1>2. crc32[Idx] = NoCrc
  BY <1>1 DEF Inv, PinnedFits
<1>3. ~ pinned.did_seek
  BY <1>1 DEF Inv, ReaderFits
<1>4. /\ Idx \in 1 .. Len(Entries)
      /\ ReaderCrc(pinned) = TrueCrc(Idx)
      /\ ReaderCrc(pinned) # NoCrc
      /\ ReaderCrc(pinned) \in Crc
  BY <1>1, <1>3, CrcAtEof
<1>5. /\ crc32' = [crc32 EXCEPT ![Idx] = ReaderCrc(pinned)]
      /\ pinned' = Nothing
      /\ pc' = "loop"
      /\ UNCHANGED result
  BY <1>4 DEF FinishCrc, PinnedAfterCrc, CrcFound
<1> QED
  BY <1>1, <1>2, <1>4, <1>5

LEMMA FinishCrcInv ==
  ASSUME Inv, FinishCrc
  PROVE  Inv'
<1>1. pinned' \in ReaderPinned /\ pinned'.state = "Nothing"
  <2>1. pinned' = Nothing
    BY FinishCrcFinds
  <2> QED
    BY <2>1 DEF Nothing, Held, ReaderPinned
<1>2. crc32' \in [1 .. Len(Entries) -> Crc]
  BY FinishCrcFinds DEF Inv, TypeOK
<1>3. TypeOK'
  BY <1>1, <1>2, FinishCrcFinds DEF Inv, TypeOK, readState, Entries
<1>4. CrcTrue'
  <2>1. \A i \in 1 .. Len(Entries) : TrueCrc(i)' = TrueCrc(i)
    BY FinishCrcFinds DEF TrueCrc, Entries
  <2>2. \A i \in 1 .. Len(Entries) :
          crc32'[i] = IF i = Idx THEN TrueCrc(Idx) ELSE crc32[i]
    BY FinishCrcFinds DEF Inv, TypeOK
  <2> QED
    BY <2>1, <2>2, FinishCrcFinds, CurrentChunk DEF Inv, CrcTrue, Entries
<1> QED
  BY <1>1, <1>3, <1>4, FinishCrcFinds
  DEF Inv, PinnedFits, PcFits, ReaderFits, ProcessedFits, NoAssertionFails,
      readState, Entries

(* A step that changes nothing. *)
LEMMA StutterInv ==
  ASSUME Inv, UNCHANGED vars
  PROVE  Inv'
  BY DEF Inv, TypeOK, PinnedFits, PcFits, ReaderFits, ProcessedFits, CrcTrue,
         TrueCrc, NoAssertionFails, vars, Idx, Entries, Actual

LEMMA NextInv ==
  ASSUME Inv, [Next]_vars
  PROVE  Inv'
<1>1. CASE CallerStep
  BY <1>1, CallerInv
<1>2. CASE LoopStep
  BY <1>2, LoopInv
<1>3. CASE SourceStep
  BY <1>3, OpenReaderInv, SkipByReadingInv, SeekSourceInv, PullDataInv,
     FinishDataInv, ReadForCrcInv, FinishCrcInv
  DEF SourceStep
<1>4. CASE UNCHANGED vars
  BY <1>4, StutterInv
<1> QED
  BY <1>1, <1>2, <1>3, <1>4 DEF Next

-----------------------------------------------------------------------------
(* The theorems.                                                           *)

(* Inv holds in every state of every reader. *)
THEOREM Invariant == Spec => []Inv
<1>1. Init => Inv
  BY InitInv
<1>2. Inv /\ [Next]_vars => Inv'
  BY NextInv
<1> QED
  BY <1>1, <1>2, PTL DEF Spec

(* The state of the reader keeps its types: to_skip never underflows, the  *)
(* chunk is one of the archive and a seek finds the entry it lands in      *)
(* (ReadState::seek_from_start).                                           *)
THEOREM TypeCorrect == Spec => []TypeOK
<1>1. Inv => TypeOK
  BY DEF Inv
<1> QED
  BY <1>1, Invariant, PTL

(* No entry is opened but for its data or for a CRC that is not known, and *)
(* no empty one at all (get_reader of FilesystemEntry).                    *)
THEOREM OpensOnlyNeeded == Spec => []OpensOnlyWhatItNeeds
<1>1. Inv => OpensOnlyWhatItNeeds
  BY DEF Inv, PinnedFits, OpensOnlyWhatItNeeds
<1> QED
  BY <1>1, Invariant, PTL

(* A CRC the reader holds is the one it was given or that of the data      *)
(* (ReaderEntry::get_crc, read_entry_data).                                *)
THEOREM CrcCorrect == Spec => []CrcTrue
<1>1. Inv => CrcTrue
  BY DEF Inv
<1> QED
  BY <1>1, Invariant, PTL

(* The assertion of ReadState::read on chunk_processed_size and the expect *)
(* of get_crc never fail, whatever the data is and the caller does.        *)
THEOREM AssertionsHold == Spec => []NoAssertionFails
<1>1. Inv => NoAssertionFails
  BY DEF Inv
<1> QED
  BY <1>1, Invariant, PTL

(* A CRC that is known is written neither by the data nor by get_crc to    *)
(* any other value.                                                        *)
LEMMA CrcKept ==
  ASSUME Inv, [Next]_vars, NEW i \in 1 .. Len(Entries), crc32[i] # NoCrc
  PROVE  crc32'[i] = crc32[i]
<1>1. CASE ReadCrcStructure
  BY <1>1 DEF Inv, TypeOK, ReadCrcStructure
<1>2. CASE FinishData
  <2>1. AtPull /\ SourceAtEof
    BY <1>2 DEF FinishData
  <2>2. CASE UNCHANGED crc32
    BY <2>2
  <2>3. CASE ~ DataMismatch /\ crc32' = [crc32 EXCEPT ![Idx] = CrcAfterData]
    <3>1. CASE i = Idx
      <4>1. CrcAfterData = crc32[Idx]
        BY <2>3, <3>1 DEF DataMismatch, CrcAfterData
      <4> QED
        BY <2>3, <3>1, <4>1 DEF Inv, TypeOK
    <3>2. CASE i # Idx
      BY <2>3, <3>2 DEF Inv, TypeOK
    <3> QED
      BY <3>1, <3>2
  <2> QED
    BY <1>2, <2>2, <2>3 DEF FinishData
<1>3. CASE FinishCrc
  BY <1>3, FinishCrcFinds DEF Inv, TypeOK
<1>4. CASE UNCHANGED crc32
  BY <1>4
<1>5. \/ ReadCrcStructure \/ FinishData \/ FinishCrc
      \/ UNCHANGED crc32
  BY DEF Next, CallerStep, LoopStep, SourceStep, PollRead, SeekStart,
         SeekCurrent, SeekEnd, StartSeek, SeekFromStart, TakePinned, ReturnOk,
         ReadFromStaging, SkipChunk, ReadLocalHeaderOrEocd, UseOpenReader,
         PollSpentFuture, OpenReader, SkipByReading, SeekSource, PullData,
         ReadForCrc, vars
<1> QED
  BY <1>1, <1>2, <1>3, <1>4, <1>5

(* The CRC in the data descriptor and that in the central directory agree: *)
(* once known, it stays (entries[i].crc32).                                *)
THEOREM CrcNeverChanges == Spec => CrcStable
<1>1. Inv /\ [Next]_vars =>
        [\A i \in DOMAIN Entries : crc32[i] # NoCrc => crc32'[i] = crc32[i]]_vars
  <2> SUFFICES ASSUME Inv, [Next]_vars, NEW i \in DOMAIN Entries,
                      crc32[i] # NoCrc
               PROVE  crc32'[i] = crc32[i]
    OBVIOUS
  <2>1. i \in 1 .. Len(Entries)
    BY CurrentChunk DEF Inv
  <2> QED
    BY <2>1, CrcKept
<1> QED
  BY <1>1, Invariant, PTL DEF Spec, CrcStable

(* The data descriptor behind data that was read finds its CRC known: the  *)
(* file is not opened a second time (comment in read_entry_data).          *)
THEOREM DataBringsCrc == Spec => DataLeavesCrc
<1>1. Inv /\ [Next]_vars =>
        [AtPull /\ current_chunk'.kind = "DataDescriptor"
           => crc32'[Idx] # NoCrc]_vars
  <2> SUFFICES ASSUME Inv, [Next]_vars, AtPull,
                      current_chunk'.kind = "DataDescriptor"
               PROVE  crc32'[Idx] # NoCrc
    OBVIOUS
  <2>1. /\ pc \in {"data", "pull"}
        /\ current_chunk.kind = "EntryData"
        /\ Idx \in 1 .. Len(Entries)
        /\ pinned.state = "FileReader"
    BY AtPullReads DEF AtPull
  <2>2. FinishData
    BY <2>1
    DEF Next, CallerStep, LoopStep, SourceStep, PollRead, SeekStart,
        SeekCurrent, SeekEnd, StartSeek, TakePinned, ReturnOk, LoopEnds,
        Reading, ReadFromStaging, SkipChunk, ReadLocalHeaderOrEocd,
        ReadCrcStructure, UseOpenReader, NeedsReader, PollSpentFuture,
        OpenReader, SkipByReading, SeekSource, PullData, ReadForCrc, FinishCrc,
        vars
  <2>3. crc32' = [crc32 EXCEPT ![Idx] = CrcAfterData] /\ SourceAtEof
    BY <2>1, <2>2 DEF FinishData
  <2>4. CrcAfterData # NoCrc
    <3>1. CASE pinned.did_seek
      BY <2>1, <2>3, <3>1, CrcAtEof DEF Inv, ReaderFits, CrcAfterData
    <3>2. CASE ~ pinned.did_seek
      BY <2>1, <2>3, <3>2, CrcAtEof DEF CrcAfterData
    <3> QED
      BY <3>1, <3>2
  <2> QED
    BY <2>1, <2>3, <2>4 DEF Inv, TypeOK
<1> QED
  BY <1>1, Invariant, PTL DEF Spec, DataLeavesCrc

-----------------------------------------------------------------------------
(* A call gets closer to its end with every step.                          *)

(* The components, one by one: the first that changes decides. *)
LEMMA DistanceIs ==
  /\ DOMAIN Distance = 1 .. 7
  /\ Distance[1] = ChunksLeft /\ Distance'[1] = ChunksLeft'
  /\ Distance[2] = CrcsLeft /\ Distance'[2] = CrcsLeft'
  /\ Distance[3] = Remaining /\ Distance'[3] = Remaining'
  /\ Distance[4] = Len(staging_buffer) /\ Distance'[4] = Len(staging_buffer')
  /\ Distance[5] = StagesLeft /\ Distance'[5] = StagesLeft'
  /\ Distance[6] = to_skip /\ Distance'[6] = to_skip'
  /\ pc = "crc" => Distance[7] = Actual - pinned.pos
  /\ pc' = "crc" => Distance'[7] = Actual' - pinned'.pos
<1> USE DEF Distance
<1>1. DOMAIN Distance = 1 .. 7
  OBVIOUS
<1>2. /\ Distance[1] = ChunksLeft /\ Distance'[1] = ChunksLeft'
      /\ Distance[2] = CrcsLeft /\ Distance'[2] = CrcsLeft'
  OBVIOUS
<1>3. /\ Distance[3] = Remaining /\ Distance'[3] = Remaining'
      /\ Distance[4] = Len(staging_buffer) /\ Distance'[4] = Len(staging_buffer')
  OBVIOUS
<1>4. /\ Distance[5] = StagesLeft /\ Distance'[5] = StagesLeft'
      /\ Distance[6] = to_skip /\ Distance'[6] = to_skip'
  OBVIOUS
<1>5. /\ pc = "crc" => Distance[7] = Actual - pinned.pos
      /\ pc' = "crc" => Distance'[7] = Actual' - pinned'.pos
  OBVIOUS
<1> QED
  BY <1>1, <1>2, <1>3, <1>4, <1>5

LEMMA CloserAt ==
  ASSUME NEW d, NEW e, DOMAIN e = 1 .. 7, NEW k \in 1 .. 7,
         d[k] \in Nat, d[k] < e[k],
         \A j \in 1 .. k - 1 : d[j] = e[j]
  PROVE  Closer(d, e)
  BY DEF Closer

(* The chunk that follows is one nearer to the last. *)
LEMMA ChunksDecrease ==
  ASSUME TypeOK, current_chunk # Finished, archive' = archive,
         current_chunk' = NextChunk(Entries, current_chunk)
  PROVE  Closer(Distance', Distance)
<1> DEFINE n == Len(Entries)
           i == Idx
<1>1. n \in Nat /\ Len(Entries)' = n
  BY CurrentChunk DEF Entries
<1>2. CASE current_chunk.kind \in EntryKinds
  <2>1. i \in 1 .. n
    BY <1>2, CurrentChunk
  <2>2. /\ current_chunk'.kind =
             CASE current_chunk.kind = "LocalHeader"    -> "EntryData"
               [] current_chunk.kind = "EntryData"      -> "DataDescriptor"
               [] current_chunk.kind = "DataDescriptor" ->
                    IF i + 1 <= n THEN "LocalHeader" ELSE "CDFileHeader"
               [] current_chunk.kind = "CDFileHeader"   ->
                    IF i + 1 <= n THEN "CDFileHeader" ELSE "Eocd"
        /\ current_chunk.kind \in {"LocalHeader", "EntryData"} => Idx' = i
        /\ current_chunk.kind = "DataDescriptor" =>
             Idx' = IF i + 1 <= n THEN i + 1 ELSE 1
        /\ current_chunk.kind = "CDFileHeader" /\ i + 1 <= n => Idx' = i + 1
    BY <1>2 DEF NextChunk, Chunk, Eocd, Idx, EntryKinds
  <2> HIDE DEF n, i
  <2>3. ChunksLeft' \in Nat /\ ChunksLeft' < ChunksLeft
    <3>1. CASE current_chunk.kind = "LocalHeader"
      <4>1. /\ ChunksLeft = 4 * n - 3 * i + 4
            /\ ChunksLeft' = 4 * n - 3 * i + 3
        BY <1>1, <2>2, <3>1 DEF ChunksLeft, n, i
      <4> QED
        BY <1>1, <2>1, <4>1
    <3>2. CASE current_chunk.kind = "EntryData"
      <4>1. /\ ChunksLeft = 4 * n - 3 * i + 3
            /\ ChunksLeft' = 4 * n - 3 * i + 2
        BY <1>1, <2>2, <3>2 DEF ChunksLeft, n, i
      <4> QED
        BY <1>1, <2>1, <4>1
    <3>3. CASE current_chunk.kind = "DataDescriptor" /\ i + 1 <= n
      <4>1. /\ ChunksLeft = 4 * n - 3 * i + 2
            /\ ChunksLeft' = 4 * n - 3 * (i + 1) + 4
        BY <1>1, <2>2, <3>3 DEF ChunksLeft, n, i
      <4> QED
        BY <1>1, <2>1, <3>3, <4>1
    <3>4. CASE current_chunk.kind = "DataDescriptor" /\ ~ (i + 1 <= n)
      <4>1. /\ ChunksLeft = 4 * n - 3 * i + 2
            /\ ChunksLeft' = n - 1 + 2
        BY <1>1, <2>2, <3>4 DEF ChunksLeft, n, i
      <4> QED
        BY <1>1, <2>1, <3>4, <4>1
    <3>5. CASE current_chunk.kind = "CDFileHeader" /\ i + 1 <= n
      <4>1. /\ ChunksLeft = n - i + 2
            /\ ChunksLeft' = n - (i + 1) + 2
        BY <1>1, <2>2, <3>5 DEF ChunksLeft, n, i
      <4> QED
        BY <1>1, <2>1, <3>5, <4>1
    <3>6. CASE current_chunk.kind = "CDFileHeader" /\ ~ (i + 1 <= n)
      <4>1. /\ ChunksLeft = n - i + 2
            /\ ChunksLeft' = 1
        BY <1>1, <2>2, <3>6 DEF ChunksLeft, n, i
      <4> QED
        BY <1>1, <2>1, <4>1
    <3> QED
      BY <1>2, <3>1, <3>2, <3>3, <3>4, <3>5, <3>6 DEF EntryKinds
  <2> QED
    BY <2>3, DistanceIs, CloserAt
<1>3. CASE current_chunk = Eocd
  <2>1. ChunksLeft = 1 /\ ChunksLeft' = 0
    BY <1>3 DEF ChunksLeft, NextChunk, Eocd, Finished, Chunk
  <2> QED
    BY <2>1, DistanceIs, CloserAt
<1> QED
  <2>1. archive \in Archives /\ current_chunk \in Chunks(archive.entries)
    BY DEF TypeOK, Entries
  <2> QED
    BY <1>2, <1>3, <2>1, ChunkCases

(* While the reader stays in its chunk, what is before the component that  *)
(* decreases stays too.                                                    *)
LEMMA ChunkStays ==
  ASSUME UNCHANGED << archive, crc32, current_chunk >>
  PROVE  /\ Distance'[1] = Distance[1]
         /\ Distance'[2] = Distance[2]
         /\ UNCHANGED << cap, out >> => Distance'[3] = Distance[3]
         /\ UNCHANGED staging_buffer => Distance'[4] = Distance[4]
         /\ UNCHANGED pc => Distance'[5] = Distance[5]
         /\ UNCHANGED to_skip => Distance'[6] = Distance[6]
  BY DistanceIs DEF ChunksLeft, CrcsLeft, Remaining, StagesLeft, Idx, Entries

LEMMA RoomDecreases ==
  ASSUME TypeOK, UNCHANGED << archive, crc32, current_chunk, cap >>,
         NEW written \in Seq(Nat), out' = out \o written, Len(written) # 0,
         Len(written) <= Remaining
  PROVE  Closer(Distance', Distance)
<1>1. /\ cap \in Nat /\ Len(out) \in Nat /\ Len(written) \in Nat
      /\ Len(out') = Len(out) + Len(written)
  BY ConcatProperties DEF TypeOK
<1>2. Remaining' \in Nat /\ Remaining' < Remaining
  BY <1>1 DEF Remaining
<1>3. Distance'[3] \in Nat /\ Distance'[3] < Distance[3]
  BY <1>2, DistanceIs
<1>4. Distance'[1] = Distance[1] /\ Distance'[2] = Distance[2]
  BY ChunkStays
<1>5. \A j \in 1 .. 3 - 1 : Distance'[j] = Distance[j]
  BY <1>4
<1>6. DOMAIN Distance = 1 .. 7
  BY DistanceIs
<1> QED
  BY <1>3, <1>5, <1>6, CloserAt

LEMMA StagesDecrease ==
  ASSUME UNCHANGED << archive, crc32, current_chunk, cap, out, staging_buffer >>,
         \/ pc = "loop" /\ pc' \in {"data", "crc"}
         \/ pc = "data" /\ pc' = "pull"
  PROVE  Closer(Distance', Distance)
<1>1. StagesLeft' \in Nat /\ StagesLeft' < StagesLeft
  BY DEF StagesLeft
<1>2. Distance'[5] \in Nat /\ Distance'[5] < Distance[5]
  BY <1>1, DistanceIs
<1> QED
  BY <1>2, ChunkStays, DistanceIs, CloserAt

LEMMA SkipDecreases ==
  ASSUME UNCHANGED << archive, crc32, current_chunk, cap, out, staging_buffer,
                      pc >>,
         to_skip' \in Nat, to_skip' < to_skip
  PROVE  Closer(Distance', Distance)
<1>1. Distance'[6] \in Nat /\ Distance'[6] < Distance[6]
  BY DistanceIs
<1> QED
  BY <1>1, ChunkStays, DistanceIs, CloserAt

(* What is staged is delivered as far as there is room, and dropped when   *)
(* nothing of it is left.                                                  *)
LEMMA StagingAdvances ==
  ASSUME Inv, ReadFromStaging
  PROVE  Closer(Distance', Distance)
<1> DEFINE length == Len(staging_buffer)
           last   == to_skip + Remaining >= length
           end    == IF last THEN length ELSE to_skip + Remaining
           given  == SubSeq(staging_buffer, to_skip + 1, end)
<1>1. /\ length \in Nat /\ length # 0 /\ to_skip \in Nat
      /\ Remaining \in Nat \ {0}
      /\ staging_buffer \in Seq(Nat)
      /\ out \in Seq(Nat)
  BY EmptySeq DEF Inv, TypeOK, ReadFromStaging, Remaining
<1>2. /\ UNCHANGED << archive, crc32, current_chunk, cap >>
      /\ out' = out \o given
      /\ staging_buffer' = IF last THEN << >> ELSE staging_buffer
  BY DEF ReadFromStaging
<1>3. CASE to_skip < length
  <2>1. end \in Nat /\ end <= length /\ to_skip < end /\ end - to_skip <= Remaining
    BY <1>1, <1>3
  <2>2. given \in Seq(Nat) /\ Len(given) = end - to_skip
    <3>1. \A i \in to_skip + 1 .. end : staging_buffer[i] \in Nat
      BY <1>1, <2>1, ElementOfSeq
    <3> QED
      BY <1>1, <2>1, <3>1, SubSeqProperties
  <2> HIDE DEF given, end
  <2>3. Len(given) # 0 /\ Len(given) <= Remaining
    BY <1>1, <2>1, <2>2
  <2> QED
    BY <1>2, <2>2, <2>3, RoomDecreases DEF Inv
<1>4. CASE ~ (to_skip < length)
  <2>1. last /\ end = length
    BY <1>1, <1>4
  <2>2. given = << >>
    BY <1>1, <1>4, <2>1, SubSeqProperties
  <2>3. out' = out
    BY <1>1, <1>2, <2>2, ConcatEmptySeq
  <2>4. Distance'[4] = 0 /\ Distance[4] = length
    BY <1>2, <2>1, DistanceIs, EmptySeq
  <2>5. Distance'[4] \in Nat /\ Distance'[4] < Distance[4]
    BY <1>1, <2>4
  <2>6. /\ Distance'[1] = Distance[1] /\ Distance'[2] = Distance[2]
        /\ Distance'[3] = Distance[3]
    BY <1>2, <2>3, ChunkStays
  <2>7. \A j \in 1 .. 4 - 1 : Distance'[j] = Distance[j]
    BY <2>6
  <2> QED
    BY <2>5, <2>7, DistanceIs, CloserAt
<1> QED
  BY <1>1, <1>3, <1>4

LEMMA LoopAdvances ==
  ASSUME Inv, LoopStep, InCall'
  PROVE  Closer(Distance', Distance)
<1>1. CASE ReturnOk
  BY <1>1 DEF ReturnOk, Returns, InCall
<1>2. CASE ReadFromStaging
  BY <1>2, StagingAdvances
<1>3. CASE SkipChunk
  BY <1>3, ChunksDecrease DEF Inv, SkipChunk
<1>4. CASE ReadLocalHeaderOrEocd
  BY <1>4, ChunksDecrease, ReadStructureFinishes
  DEF Inv, ReadLocalHeaderOrEocd, Reading
<1>5. CASE ReadCrcStructure
  BY <1>5, ChunksDecrease, ReadStructureFinishes
  DEF Inv, ReadCrcStructure, Reading
<1>6. CASE UseOpenReader
  BY <1>6, StagesDecrease
  DEF UseOpenReader, NeedsReader, Reading, Opened, readState
<1>7. CASE PollSpentFuture
  BY <1>7 DEF PollSpentFuture, Panics, InCall
<1> QED
  BY <1>1, <1>2, <1>3, <1>4, <1>5, <1>6, <1>7 DEF LoopStep

LEMMA GivesUpEnds ==
  ASSUME ReturnsPending \/ ReturnsIoError
  PROVE  ~ InCall'
  BY DEF ReturnsPending, ReturnsIoError, Returns, InCall

LEMMA OpenAdvances ==
  ASSUME OpenReader, InCall'
  PROVE  Closer(Distance', Distance)
  BY GivesUpEnds, StagesDecrease
  DEF OpenReader, NeedsReader, Reading, Opened, readState

(* Skipping is shortened by what is read, or over at the end of the data.  *)
LEMMA SkipAdvances ==
  ASSUME Inv, SkipByReading, InCall'
  PROVE  Closer(Distance', Distance)
<1>1. /\ pc = "data" /\ to_skip > 0 /\ to_skip \in Nat
      /\ pinned.state = "FileReader"
      /\ UNCHANGED << archive, crc32, current_chunk, position, staging_buffer,
                      cap, out, base >>
  BY DEF Inv, TypeOK, PcFits, SkipByReading
<1>2. CASE \E n \in SourceReads(IF to_skip < ScratchSize THEN to_skip
                                                         ELSE ScratchSize) :
             /\ to_skip' = to_skip - n
             /\ UNCHANGED pc
  <2> DEFINE room == IF to_skip < ScratchSize THEN to_skip ELSE ScratchSize
  <2>1. room \in Nat /\ room <= to_skip
    BY <1>1, ReaderAssumption
  <2>2. PICK n \in SourceReads(room) : to_skip' = to_skip - n /\ UNCHANGED pc
    BY <1>2
  <2> HIDE DEF room
  <2>3. n \in Nat \ {0} /\ n <= room
    BY <1>1, <2>1, SourceReadsWithin
  <2>4. to_skip' \in Nat /\ to_skip' < to_skip
    BY <1>1, <2>1, <2>2, <2>3
  <2> QED
    BY <1>1, <2>2, <2>4, SkipDecreases
<1>3. CASE pc' = AfterSkipEof
  BY <1>1, <1>3, StagesDecrease DEF AfterSkipEof
<1> QED
  BY <1>2, <1>3, GivesUpEnds DEF SkipByReading

LEMMA SeekAdvances ==
  ASSUME Inv, SeekSource, InCall'
  PROVE  Closer(Distance', Distance)
<1>1. /\ to_skip > 0 /\ to_skip \in Nat
      /\ UNCHANGED << archive, crc32, current_chunk, position, staging_buffer,
                      cap, out, base >>
  BY DEF Inv, TypeOK, SeekSource
<1>2. to_skip' = 0 /\ UNCHANGED pc
  BY GivesUpEnds DEF SeekSource, Panics, InCall
<1> QED
  BY <1>1, <1>2, SkipDecreases

(* A source gives at least a byte, into room that was there. *)
LEMMA PullAdvances ==
  ASSUME Inv, PullData, InCall'
  PROVE  Closer(Distance', Distance)
<1>1. /\ AtPull
      /\ UNCHANGED << archive, crc32, current_chunk, cap >>
  BY DEF PullData
<1> DEFINE at == DataStart(archive, pinned.entry) + pinned.pos
<1>2. PICK n \in SourceReads(Remaining) : out' = out \o Run(at, n)
  BY GivesUpEnds DEF PullData
<1>3. Remaining \in Nat /\ n \in Nat \ {0} /\ n <= Remaining
  <2>1. Remaining \in Int
    BY DEF Inv, TypeOK, Remaining
  <2>2. pinned.pos \in Nat /\ Actual \in Nat
    BY <1>1, AtPullReads, CurrentChunk DEF Inv, TypeOK, ReaderPinned, Actual
  <2> QED
    BY <1>2, <2>1, <2>2 DEF SourceReads
<1>4. at \in Nat
  <2>1. /\ ChunkStart(archive, current_chunk) \in Nat
        /\ ChunkStart(archive, current_chunk) = DataStart(archive, pinned.entry)
    BY <1>1, AtPullReads, CurrentChunk DEF Inv, ChunkStart, Idx
  <2>2. pinned.pos \in Nat
    BY DEF Inv, TypeOK, ReaderPinned
  <2> QED
    BY <2>1, <2>2
<1> HIDE DEF at
<1>5. Run(at, n) \in Seq(Nat) /\ Len(Run(at, n)) = n
  BY <1>3, <1>4, RunType
<1> DEFINE written == Run(at, n)
<1>6. /\ written \in Seq(Nat) /\ out' = out \o written
      /\ Len(written) # 0 /\ Len(written) <= Remaining
  BY <1>2, <1>3, <1>5
<1> HIDE DEF written
<1> QED
  BY <1>1, <1>6, RoomDecreases DEF Inv

LEMMA FinishDataAdvances ==
  ASSUME Inv, FinishData, InCall'
  PROVE  Closer(Distance', Distance)
<1>1. AtPull /\ archive' = archive
  BY DEF FinishData
<1>2. current_chunk # Finished
  BY <1>1, AtPullReads
<1>3. current_chunk' = NextChunk(Entries, current_chunk)
  BY DEF FinishData, FinishChunk, Returns, Panics, InCall
<1> QED
  BY <1>1, <1>2, <1>3, ChunksDecrease DEF Inv

(* What is read for its CRC is read once. *)
LEMMA CrcAdvances ==
  ASSUME Inv, ReadForCrc, InCall'
  PROVE  Closer(Distance', Distance)
<1>1. /\ pc = "crc" /\ pinned.state = "FileReader"
      /\ UNCHANGED << archive, crc32, readState, position, cap, out, base >>
  BY DEF Inv, PcFits, ReadForCrc
<1>2. PICK n \in SourceReads(ScratchSize) :
        pinned' = Pulled(pinned, n) /\ UNCHANGED pc
  BY GivesUpEnds DEF ReadForCrc
<1>3. /\ n \in Nat \ {0} /\ pinned.pos \in Nat
      /\ pinned.pos + n <= Actual
  BY <1>1, <1>2, SourceReadsWithin, ReaderAssumption
<1>4. /\ pinned'.pos = pinned.pos + n
      /\ pinned'.entry = pinned.entry
      /\ Actual' = Actual
  BY <1>1, <1>2 DEF Inv, TypeOK, ReaderPinned, Pulled, Actual, Entries
<1>5. Actual \in Nat
  BY <1>1, CurrentChunk DEF Inv, PcFits, PinnedFits, EntryKinds, Actual
<1>6. Distance'[7] \in Nat /\ Distance'[7] < Distance[7]
  <2>1. /\ Distance'[7] = Actual - (pinned.pos + n)
        /\ Distance[7] = Actual - pinned.pos
    BY <1>1, <1>2, <1>4, DistanceIs
  <2> HIDE DEF Actual
  <2> QED
    BY <1>3, <1>5, <2>1
<1> QED
  BY <1>1, <1>2, <1>6, ChunkStays, DistanceIs, CloserAt DEF readState

(* The CRC it was read for is known from then on: the structure that wants *)
(* it does not open the entry again.                                       *)
LEMMA FinishCrcAdvances ==
  ASSUME Inv, FinishCrc, InCall'
  PROVE  Closer(Distance', Distance)
<1>1. current_chunk.kind \in {"DataDescriptor", "CDFileHeader"}
  BY DEF Inv, PcFits, FinishCrc
<1>2. /\ crc32[Idx] = NoCrc
      /\ crc32'[Idx] # NoCrc
      /\ UNCHANGED << archive, current_chunk >>
  <2>1. TrueCrc(Idx) # NoCrc
    BY FinishCrcFinds, CurrentChunk, CrcOfType
    DEF Inv, TrueCrc, EmptyCrc, NoCrc
  <2> QED
    BY <2>1, FinishCrcFinds DEF Inv, TypeOK, readState
<1>3. CrcsLeft = 1 /\ CrcsLeft' = 0
  BY <1>1, <1>2 DEF CrcsLeft, Idx
<1>4. ChunksLeft' = ChunksLeft
  BY <1>2 DEF ChunksLeft, Idx, Entries
<1>5. /\ Distance'[1] = Distance[1]
      /\ Distance'[2] \in Nat /\ Distance'[2] < Distance[2]
  BY <1>3, <1>4, DistanceIs
<1> QED
  BY <1>5, DistanceIs, CloserAt

(* No loop of poll_read spins, whatever the data is and the caller did:    *)
(* there is a well-founded distance to the end of the call, and every step *)
(* that stays in the call shortens it (ReadState::read, read_entry_data,   *)
(* get_crc).                                                               *)
THEOREM EveryCallAdvances == Spec => CallAdvances
<1>1. Inv /\ [Next]_vars => [InCall /\ InCall' => Closer(Distance', Distance)]_vars
  <2> SUFFICES ASSUME Inv, Next, InCall, InCall'
               PROVE  Closer(Distance', Distance)
    OBVIOUS
  <2>1. ~ CallerStep
    BY DEF CallerStep, PollRead, SeekStart, SeekCurrent, SeekEnd, StartSeek,
           TakePinned, InCall
  <2>2. CASE LoopStep
    BY <2>2, LoopAdvances
  <2>3. CASE SourceStep
    BY <2>3, OpenAdvances, SkipAdvances, SeekAdvances, PullAdvances,
       FinishDataAdvances, CrcAdvances, FinishCrcAdvances
    DEF SourceStep
  <2> QED
    BY <2>1, <2>2, <2>3 DEF Next
<1> QED
  BY <1>1, Invariant, PTL DEF Spec, CallAdvances

-----------------------------------------------------------------------------
(* What is checked of the data, for a caller that does not read on after   *)
(* SizeMismatch: the entry's reader is gone then, but its bytes are still  *)
(* counted.                                                                *)

(* No seek of the caller leads to before the start of the file.            *)
NeverRefused ==
  \A d \in SeekOffsets :
    d < 0 => /\ "Current" \notin CallerOps
             /\ "End" \in CallerOps =>
                  \A a \in Archives : a.total_size + d >= 0

SeeksAfterMismatch == "SizeMismatch" \notin RetriedErrors /\ NeverRefused

(* A CRC that was given is never replaced. *)
GivenKept ==
  \A i \in 1 .. Len(Entries) :
    Entries[i].crc32 # NoCrc => crc32[i] = Entries[i].crc32

(* What is counted of an entry's data is where its source stands, however  *)
(* much the entry claimed: past the end of the data only a seek leads, and *)
(* that stays before the size claimed.                                     *)
CountFits ==
  pc # "panicked" =>
    /\ pinned.state # "FileReader" =>
         \/ chunk_processed_size = 0
         \/ pc = "idle" /\ result.kind = "SizeMismatch"
    /\ pinned.state = "FileReader" /\ current_chunk.kind = "EntryData" =>
         /\ pinned.pos = chunk_processed_size
         /\ pinned.pos > Actual => pinned.pos < Entries[Idx].size
         /\ to_skip > 0 /\ crc32[Idx] # NoCrc => chunk_processed_size = 0
    /\ pc = "pull" => SourceAtEof

CheckedInv == Inv /\ GivenKept /\ CountFits

LEMMA CheckedInit ==
  ASSUME Init
  PROVE  CheckedInv
<1>1. Inv
  BY InitInv
<1>2. /\ crc32 = [i \in 1 .. Len(Entries) |-> Entries[i].crc32]
      /\ chunk_processed_size = 0 /\ pinned.state = "Nothing" /\ pc = "idle"
  BY DEF Init, Nothing, Held
<1> QED
  BY <1>1, <1>2 DEF CheckedInv, GivenKept, CountFits

LEMMA ArchiveKept ==
  ASSUME Inv, [Next]_vars
  PROVE  archive' = archive
  BY FinishCrcFinds
  DEF Next, CallerStep, LoopStep, SourceStep, PollRead, SeekStart,
      SeekCurrent, SeekEnd, StartSeek, SeekFromStart, TakePinned, ReturnOk,
      ReadFromStaging, SkipChunk, ReadLocalHeaderOrEocd, ReadCrcStructure,
      UseOpenReader, PollSpentFuture, OpenReader, SkipByReading, SeekSource,
      PullData, FinishData, ReadForCrc, vars

LEMMA GivenKeptNext ==
  ASSUME Inv, GivenKept, [Next]_vars
  PROVE  GivenKept'
<1>1. archive' = archive
  BY ArchiveKept
<1> SUFFICES ASSUME NEW i \in 1 .. Len(Entries), Entries[i].crc32 # NoCrc
             PROVE  crc32'[i] = Entries[i].crc32
  BY <1>1 DEF GivenKept, Entries
<1> QED
  BY CrcKept DEF GivenKept

LEMMA PollReadCounts ==
  ASSUME CountFits, NEW n \in Nat, PollRead(n), result.kind # "SizeMismatch"
  PROVE  CountFits'
<1>1. /\ pc = "idle" /\ pc' = "loop"
      /\ UNCHANGED << archive, crc32, readState, pinned >>
  BY DEF PollRead
<1> QED
  BY <1>1 DEF CountFits, readState, Entries, Idx, Actual

LEMMA SeekCounts ==
  ASSUME NEW offset \in Nat, SeekFromStart(offset), Returns("None", 0)
  PROVE  CountFits'
<1>1. /\ chunk_processed_size' = 0 /\ pinned'.state = "Nothing"
      /\ pc' = "idle"
  BY DEF SeekFromStart, PinnedAfterSeek, Nothing, Held, Returns
<1> QED
  BY <1>1 DEF CountFits

LEMMA CallerCounts ==
  ASSUME SeeksAfterMismatch, Inv, CountFits, CallerStep
  PROVE  CountFits'
<1>1. ASSUME NEW n \in ReadSizes, PollRead(n)
      PROVE  CountFits'
  <2>1. n \in Nat /\ result.kind # "SizeMismatch"
    BY <1>1, ReaderAssumption DEF PollRead, SeeksAfterMismatch, ReadErrors
  <2> QED
    BY <1>1, <2>1, PollReadCounts
<1>2. ASSUME NEW offset \in Nat, SeekFromStart(offset), Returns("None", 0)
      PROVE  CountFits'
  BY <1>2, SeekCounts
<1>3. ASSUME NEW origin \in Nat, NEW d \in Int, StartSeek(origin, d),
             origin + d >= 0
      PROVE  CountFits'
  <2>1. CASE ~ (origin + d > U64Max)
    BY <1>2, <1>3, <2>1 DEF StartSeek
  <2>2. CASE origin + d > U64Max
    BY <1>3, <2>2 DEF StartSeek, Panics, CountFits
  <2> QED
    BY <2>1, <2>2
<1>4. ASSUME NEW d \in SeekOffsets,
             SeekStart(d) \/ SeekCurrent(d) \/ SeekEnd(d)
      PROVE  CountFits'
  <2>1. /\ d \in Int /\ position \in Nat /\ 0 \in Nat
        /\ archive \in Archives /\ archive.total_size \in Nat
    BY ReaderAssumption, ArchiveTypes DEF Inv, TypeOK
  <2>2. CASE SeekStart(d)
    BY <1>3, <2>1, <2>2 DEF SeekStart
  <2>3. CASE SeekCurrent(d)
    <3>1. d >= 0
      BY <2>1, <2>3 DEF SeekCurrent, SeeksAfterMismatch, NeverRefused
    <3> QED
      BY <1>3, <2>1, <2>3, <3>1 DEF SeekCurrent
  <2>4. CASE SeekEnd(d)
    <3>1. archive.total_size + d >= 0
      BY <2>1, <2>4 DEF SeekEnd, SeeksAfterMismatch, NeverRefused
    <3> QED
      BY <1>3, <2>1, <2>4, <3>1 DEF SeekEnd
  <2> QED
    BY <1>4, <2>2, <2>3, <2>4
<1>5. CASE TakePinned
  BY <1>2, <1>5 DEF TakePinned, Inv, TypeOK
<1> QED
  BY <1>1, <1>4, <1>5 DEF CallerStep

LEMMA LoopCounts ==
  ASSUME Inv, CountFits, LoopStep
  PROVE  CountFits'
<1>1. CASE ReturnOk \/ UseOpenReader
  <2>1. /\ pc = "loop" /\ pc' # "pull"
        /\ UNCHANGED << archive, crc32, readState, pinned >>
    BY <1>1 DEF ReturnOk, LoopEnds, UseOpenReader, NeedsReader, Reading,
                Returns, Opened
  <2> QED
    BY <2>1 DEF CountFits, readState, Entries, Idx, Actual
<1>2. CASE ReadFromStaging
  <2>1. pc = "loop" /\ pinned.state = "Nothing" /\ chunk_processed_size = 0
    BY <1>2 DEF ReadFromStaging, Inv, PinnedFits, CountFits
  <2> QED
    BY <1>2, <2>1 DEF ReadFromStaging, CountFits
<1>3. CASE SkipChunk
  <2>1. pc = "loop" /\ pinned.state = "Nothing" /\ chunk_processed_size = 0
    <3>1. pc = "loop" /\ to_skip >= ChunkSize(Entries, current_chunk)
      BY <1>3 DEF SkipChunk
    <3>2. /\ to_skip \in Nat
          /\ ChunkSize(Entries, current_chunk) \in Nat
      BY <1>3, CurrentChunk DEF SkipChunk, Inv, TypeOK
    <3> QED
      BY <3>1, <3>2 DEF Inv, PinnedFits, CountFits
  <2> QED
    BY <1>3, <2>1 DEF SkipChunk, CountFits
<1>4. CASE ReadLocalHeaderOrEocd \/ ReadCrcStructure
  <2>1. chunk_processed_size' = 0 /\ pinned' = pinned /\ pc' = "loop"
    BY <1>4, ReadStructureFinishes DEF ReadLocalHeaderOrEocd, ReadCrcStructure
  <2>2. pinned.state = "Nothing"
    <3>1. CASE ReadLocalHeaderOrEocd
      BY <3>1 DEF ReadLocalHeaderOrEocd, Inv, PinnedFits
    <3>2. CASE ReadCrcStructure
      BY <3>2 DEF ReadCrcStructure, Inv, PinnedFits
    <3> QED
      BY <1>4, <3>1, <3>2
  <2> QED
    BY <2>1, <2>2 DEF CountFits
<1>5. CASE PollSpentFuture
  BY <1>5 DEF PollSpentFuture, Panics, CountFits
<1> QED
  BY <1>1, <1>2, <1>3, <1>4, <1>5 DEF LoopStep

LEMMA SourceCounts ==
  ASSUME Inv, CountFits, SourceStep
  PROVE  CountFits'
<1>1. CASE OpenReader
  <2>1. /\ pc = "loop" /\ pinned.state \in {"Nothing", "ReaderFuture"}
        /\ pinned'.pos = 0 /\ pinned'.entry = Idx /\ pc' # "pull"
        /\ UNCHANGED << archive, crc32, readState >>
    BY <1>1 DEF OpenReader, NeedsReader, Reading, Held, Opened,
                ReturnsPending, ReturnsIoError, Returns
  <2>2. chunk_processed_size = 0
    BY <2>1 DEF CountFits
  <2>3. Actual' \in Nat \/ current_chunk.kind # "EntryData"
    BY <2>1, CurrentChunk DEF Actual, Entries, Idx, Inv, readState, EntryKinds
  <2> QED
    BY <2>1, <2>2, <2>3 DEF CountFits, readState
<1>2. CASE SkipByReading \/ PullData
  <2>1. /\ pc # "panicked" /\ current_chunk.kind = "EntryData"
        /\ pinned.state = "FileReader"
        /\ UNCHANGED << archive, crc32, current_chunk >>
    BY <1>2 DEF SkipByReading, PullData, AtPull, Inv, PcFits
  <2>2. CASE UNCHANGED << pinned, chunk_processed_size, to_skip >>
    <3>1. SkipByReading => pc' \in {"idle", "data"} \/ SourceAtEof
      BY DEF SkipByReading, ReturnsPending, ReturnsIoError, Returns
    <3>2. PullData => pc' \in {"idle", "loop"}
      BY DEF PullData, ReturnsPending, ReturnsIoError, Returns
    <3> QED
      BY <1>2, <2>1, <2>2, <3>1, <3>2
      DEF CountFits, Entries, Idx, Actual, SourceAtEof
  <2>3. ASSUME NEW room \in Nat, NEW n \in SourceReads(room),
               pinned' = Pulled(pinned, n),
               chunk_processed_size' = chunk_processed_size + n,
               crc32[Idx] = NoCrc \/ to_skip' = 0, pc' # "pull"
        PROVE  CountFits'
    <3>1. /\ n \in Nat /\ pinned.pos + n <= Actual /\ pinned.pos \in Nat
          /\ chunk_processed_size \in Nat /\ Actual \in Nat
      BY <2>1, <2>3, SourceReadsWithin, CurrentChunk
      DEF Inv, TypeOK, PinnedFits, EntryKinds, Actual
    <3>2. /\ pinned'.pos = pinned.pos + n /\ pinned'.entry = pinned.entry
          /\ pinned'.state = pinned.state
      BY <2>3 DEF Pulled, Inv, TypeOK, ReaderPinned
    <3>3. Actual' = Actual /\ Entries' = Entries /\ Idx' = Idx
      BY <2>1, <3>2 DEF Actual, Entries, Idx
    <3>4. pinned.pos = chunk_processed_size
      BY <2>1 DEF CountFits
    <3>5. ~ (pinned'.pos > Actual') /\ pinned'.pos = chunk_processed_size'
      BY <2>3, <3>1, <3>2, <3>3, <3>4
    <3> QED
      BY <2>1, <2>3, <3>2, <3>3, <3>5 DEF CountFits
  <2>4. CASE SkipByReading
    <3> DEFINE room == IF to_skip < ScratchSize THEN to_skip ELSE ScratchSize
    <3>1. room \in Nat
      BY ReaderAssumption DEF Inv, TypeOK
    <3>2. \/ UNCHANGED << pinned, chunk_processed_size, to_skip >>
          \/ \E n \in SourceReads(room) :
               /\ crc32[Idx] = NoCrc
               /\ pinned' = Pulled(pinned, n)
               /\ chunk_processed_size' = chunk_processed_size + n
               /\ pc' = "data"
      BY <2>4 DEF SkipByReading, SkipsByReading
    <3> QED
      BY <2>2, <2>3, <3>1, <3>2
  <2>5. CASE PullData
    <3>1. CASE UNCHANGED << pinned, chunk_processed_size, to_skip >>
      BY <2>2, <3>1
    <3>2. ASSUME NEW n \in SourceReads(Remaining),
                 pinned' = Pulled(pinned, n),
                 chunk_processed_size' = chunk_processed_size + n,
                 to_skip' = to_skip, pc' = "loop"
          PROVE  CountFits'
      <4>1. Remaining \in Nat
        <5>1. Remaining \in Int /\ Actual - pinned.pos \in Int
          BY <2>1, CurrentChunk
          DEF Inv, TypeOK, PinnedFits, EntryKinds, Actual, Remaining,
              ReaderPinned
        <5> QED
          BY <3>2, <5>1 DEF SourceReads
      <4>2. to_skip = 0
        <5>1. pc # "pull"
          <6>1. Actual \in Nat /\ pinned.pos \in Nat /\ pinned.pos < Actual
            BY <2>1, <3>2, <4>1, SourceReadsWithin, CurrentChunk
            DEF Inv, PinnedFits, EntryKinds, Actual
          <6> QED
            BY <2>1, <6>1 DEF CountFits, SourceAtEof
        <5> QED
          BY <2>5, <5>1 DEF PullData, AtPull
      <4> QED
        BY <2>3, <3>2, <4>1, <4>2
    <3> QED
      BY <2>5, <3>1, <3>2 DEF PullData
  <2> QED
    BY <1>2, <2>4, <2>5
<1>3. CASE SeekSource
  <2> DEFINE p    == SeekStarted(pinned, to_skip)
             done == SeekCompleted(p)
  <2>1. /\ pc = "data" /\ to_skip > 0 /\ crc32[Idx] # NoCrc
        /\ current_chunk.kind = "EntryData" /\ pinned.state = "FileReader"
        /\ UNCHANGED << archive, crc32, current_chunk >>
    BY <1>3 DEF SeekSource, SkipsByReading, Inv, PcFits
  <2>2. /\ pinned.pos = 0 /\ chunk_processed_size = 0 /\ to_skip \in Nat
        /\ to_skip < Entries[Idx].size
    <3>1. to_skip < ChunkSize(Entries, current_chunk)
      BY <2>1 DEF Inv, PinnedFits
    <3>2. ChunkSize(Entries, current_chunk) = Entries[Idx].size
      BY <2>1 DEF ChunkSize, Idx
    <3> QED
      BY <2>1, <3>1, <3>2 DEF CountFits, Inv, TypeOK
  <2>3. /\ p.pos = pinned.pos /\ p.entry = pinned.entry
        /\ p.state = pinned.state /\ p \in ReaderPinned
    BY <2>2 DEF SeekStarted, Inv, TypeOK, ReaderPinned
  <2>4. /\ done.entry = pinned.entry /\ done.state = pinned.state
    BY <2>3 DEF SeekCompleted, ReaderPinned
  <2>5. pinned'.entry = pinned.entry /\ pinned'.state = pinned.state
    BY <1>3, <2>3, <2>4 DEF SeekSource, ReaderPinned
  <2>6. Actual' = Actual /\ Entries' = Entries /\ Idx' = Idx
    BY <2>1, <2>5 DEF Actual, Entries, Idx
  <2>7. Actual \in Nat
    BY <2>1, CurrentChunk DEF Inv, PinnedFits, EntryKinds, Actual
  <2>8. \/ pc' = "panicked"
        \/ /\ pinned'.pos = to_skip /\ chunk_processed_size' = to_skip
           /\ to_skip' = 0 /\ pc' = "data"
        \/ /\ pinned'.pos = 0 /\ chunk_processed_size' = 0
           /\ pc' = "idle"
    <3>1. CASE /\ pinned' = done
               /\ IF done.pos = to_skip THEN
                    /\ chunk_processed_size' = chunk_processed_size + to_skip
                    /\ to_skip' = 0
                    /\ UNCHANGED << pc, result >>
                  ELSE
                    /\ Panics("SeekPosition")
                    /\ UNCHANGED << chunk_processed_size, to_skip >>
      BY <2>1, <2>2, <3>1 DEF Panics
    <3>2. CASE /\ pinned' = p \/ pinned' = [p EXCEPT !.target = pinned.pos]
               /\ ReturnsPending \/ ReturnsIoError
               /\ UNCHANGED << chunk_processed_size, to_skip >>
      BY <2>2, <2>3, <3>2 DEF ReturnsPending, ReturnsIoError, Returns,
                              ReaderPinned
    <3> QED
      BY <1>3, <3>1, <3>2 DEF SeekSource
  <2>9. Entries[Idx].size \in Nat
    BY <2>1, CurrentChunk DEF Inv, EntryKinds
  <2> QED
    BY <2>1, <2>2, <2>5, <2>6, <2>7, <2>8, <2>9 DEF CountFits
<1>4. CASE FinishData
  <2>1. /\ pc \in {"data", "pull"} /\ current_chunk.kind = "EntryData"
        /\ UNCHANGED << archive, to_skip >>
    BY <1>4, AtPullReads DEF FinishData, AtPull
  <2>2. CASE DataMismatch
    <3>1. /\ pc' = "idle"
          /\ UNCHANGED << crc32, pinned, current_chunk, chunk_processed_size >>
      BY <1>4, <2>2 DEF FinishData, Returns
    <3>2. pinned.state = "FileReader"
      BY <2>1 DEF Inv, PcFits
    <3> QED
      BY <2>1, <3>1, <3>2 DEF CountFits, Entries, Idx, Actual
  <2>3. CASE ~ DataMismatch
    <3>1. pinned'.state = "Nothing"
      BY <1>4, <2>3 DEF FinishData, Nothing, Held
    <3>2. \/ pc' = "panicked"
          \/ pc' = "loop" /\ chunk_processed_size' = 0
          \/ pc' = "idle" /\ result'.kind = "SizeMismatch"
      BY <1>4, <2>3 DEF FinishData, FinishChunk, Panics, Returns
    <3> QED
      BY <3>1, <3>2 DEF CountFits
  <2> QED
    BY <2>2, <2>3
<1>5. CASE ReadForCrc
  <2>1. /\ pc = "crc" /\ pc' \in {"crc", "idle"}
        /\ pinned.state = "FileReader" /\ current_chunk.kind # "EntryData"
        /\ UNCHANGED readState
    BY <1>5 DEF ReadForCrc, ReturnsPending, ReturnsIoError, Returns, Inv, PcFits
  <2>2. pinned'.state = "FileReader"
    BY <1>5, <2>1 DEF ReadForCrc, Pulled, Inv, TypeOK, ReaderPinned
  <2> QED
    BY <2>1, <2>2 DEF CountFits, readState
<1>6. CASE FinishCrc
  <2>1. /\ pc' = "loop" /\ pinned'.state = "Nothing"
        /\ chunk_processed_size' = chunk_processed_size
    BY <1>6, FinishCrcFinds DEF readState, Nothing, Held
  <2>2. chunk_processed_size = 0
    BY <1>6 DEF FinishCrc, Inv, PcFits, ProcessedFits
  <2> QED
    BY <2>1, <2>2 DEF CountFits
<1> QED
  BY <1>1, <1>2, <1>3, <1>4, <1>5, <1>6 DEF SourceStep

LEMMA CheckedNext ==
  ASSUME SeeksAfterMismatch, CheckedInv, [Next]_vars
  PROVE  CheckedInv'
<1>1. Inv' /\ GivenKept'
  BY NextInv, GivenKeptNext DEF CheckedInv
<1>2. CASE UNCHANGED vars
  BY <1>1, <1>2 DEF CheckedInv, CountFits, vars, Entries, Idx, Actual,
                    SourceAtEof
<1> QED
  BY <1>1, <1>2, CallerCounts, LoopCounts, SourceCounts DEF CheckedInv, Next

(* Only the end of the data leads to the data descriptor behind it. *)
LEMMA DataEnds ==
  ASSUME Inv, [Next]_vars, AtPull, current_chunk'.kind = "DataDescriptor"
  PROVE  FinishData /\ ~ DataMismatch /\ SizeMatches
<1>1. pc \in {"data", "pull"} /\ current_chunk.kind = "EntryData"
  BY AtPullReads DEF AtPull
<1>2. FinishData
  BY <1>1
  DEF Next, CallerStep, LoopStep, SourceStep, PollRead, SeekStart,
      SeekCurrent, SeekEnd, StartSeek, TakePinned, ReturnOk, LoopEnds,
      ReadFromStaging, SkipChunk, ReadLocalHeaderOrEocd, ReadCrcStructure,
      UseOpenReader, PollSpentFuture, OpenReader, NeedsReader, Reading,
      SkipByReading, SeekSource, PullData, ReadForCrc, FinishCrc, vars
<1> QED
  BY <1>1, <1>2 DEF FinishData

(* The reader passes from the data of an entry to its data descriptor only *)
(* if the data had the size the entry reported and, unless the source had  *)
(* to seek, the CRC it was given (read_entry_data), for every source and   *)
(* every claim, as long as the caller seeks after a SizeMismatch.          *)
THEOREM DataIsChecked ==
  ASSUME SeeksAfterMismatch
  PROVE  Spec => DataChecked
<1>1. Init => CheckedInv
  BY CheckedInit
<1>2. CheckedInv /\ [Next]_vars => CheckedInv'
  BY CheckedNext
<1>3. CheckedInv /\ [Next]_vars =>
        [AtPull /\ current_chunk'.kind = "DataDescriptor" =>
           /\ Entries[Idx].actual = Entries[Idx].size
           /\ pinned.did_seek
                \/ Entries[Idx].crc32 \in {NoCrc, TrueCrc(Idx)}]_vars
  <2> SUFFICES ASSUME CheckedInv, [Next]_vars, AtPull,
                      current_chunk'.kind = "DataDescriptor"
               PROVE  /\ Entries[Idx].actual = Entries[Idx].size
                      /\ pinned.did_seek
                           \/ Entries[Idx].crc32 \in {NoCrc, TrueCrc(Idx)}
    OBVIOUS
  <2>1. /\ Inv /\ GivenKept /\ CountFits
        /\ SourceAtEof /\ ~ DataMismatch /\ SizeMatches
    BY DataEnds DEF CheckedInv, FinishData
  <2>2. /\ current_chunk.kind = "EntryData" /\ pinned.state = "FileReader"
        /\ pinned.entry = Idx /\ Idx \in 1 .. Len(Entries)
        /\ pc # "panicked"
    BY <2>1, AtPullReads DEF AtPull
  <2>3. Entries[Idx].actual = Entries[Idx].size
    <3>1. /\ Actual = Entries[Idx].actual /\ Actual \in Nat
          /\ Entries[Idx].size \in Nat /\ pinned.pos \in Nat
      BY <2>1, <2>2, CurrentChunk DEF Actual, Inv, TypeOK, ReaderPinned
    <3>2. /\ pinned.pos = Entries[Idx].size
          /\ pinned.pos > Actual => pinned.pos < Entries[Idx].size
      BY <2>1, <2>2 DEF CountFits, SizeMatches
    <3> QED
      BY <2>1, <3>1, <3>2 DEF SourceAtEof
  <2>4. ASSUME ~ pinned.did_seek
        PROVE  Entries[Idx].crc32 \in {NoCrc, TrueCrc(Idx)}
    BY <2>1, <2>2, <2>4, CrcAtEof DEF DataMismatch, GivenKept
  <2> QED
    BY <2>3, <2>4
<1> QED
  BY <1>1, <1>2, <1>3, PTL DEF Spec, DataChecked

=============================================================================
