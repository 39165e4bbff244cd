-------------------------- MODULE ZipReaderRefines --------------------------
(***************************************************************************)
(* The proof that zippity::Reader is the file ZipStream describes          *)
(* (ImplementsStream), and that tell() is where the next byte comes from   *)
(* as long as nothing is pending and nothing fails (TellIsCursor), built   *)
(* on the invariants of ZipReaderProofs and ZipReaderDelivers.             *)
(***************************************************************************)
EXTENDS ZipReaderDelivers

-----------------------------------------------------------------------------
(* What the theorems assume of the data and of the caller.                 *)

(* Every entry has the data, and the CRC if one was given, that it claims. *)
TruthfulData ==
  \A a \in Archives :
    /\ HonestSizes(a)
    /\ \A i \in 1 .. Len(a.entries) :
         a.entries[i].size # 0 =>
           a.entries[i].crc32 \in {NoCrc, CrcOf(i, a.entries[i].actual)}

(* After an error of a source the caller seeks before it reads on: it does *)
(* not just retry, nor after a seek that was refused, which leaves the     *)
(* reader with what failed.                                                *)
SeeksAfterError == CanFail => "Io" \notin RetriedErrors /\ NeverRefused

-----------------------------------------------------------------------------
(* The file ends where its last chunk ends.                                *)

LEMMA ChunkStartWithin ==
  ASSUME NEW a \in Archives, NEW c \in Chunks(a.entries)
  PROVE  ChunkStart(a, c) <= a.total_size
<1> DEFINE n    == Len(a.entries)
           end  == a.total_size
           At(k, i) == ChunkStart(a, Chunk(k, i))
<1>1. /\ WellLaidOut(a) /\ n \in Nat /\ end \in Nat
      /\ a.eocd_offset \in Nat
  BY ReaderAssumption, ArchiveTypes
<1>2. \A k \in EntryKinds, i \in 1 .. n :
        /\ Chunk(k, i) \in Chunks(a.entries) \ {Finished}
        /\ At(k, i) \in Nat
        /\ ChunkSize(a.entries, Chunk(k, i)) \in Nat
  <2> TAKE k \in EntryKinds, i \in 1 .. n
  <2>1. Chunk(k, i) \in Chunks(a.entries) \ {Finished}
    BY DEF Chunks, Chunk, Finished, EntryKinds
  <2> QED
    BY <2>1, ChunkStartType, ChunkSizeType
<1>3. ASSUME NEW k \in EntryKinds, NEW i \in 1 .. n
      PROVE  At(k, i) <= ChunkStart(a, NextChunk(a.entries, Chunk(k, i)))
  <2>1. ChunkStart(a, NextChunk(a.entries, Chunk(k, i)))
          = At(k, i) + ChunkSize(a.entries, Chunk(k, i))
    BY <1>1, <1>2 DEF WellLaidOut
  <2>2. At(k, i) \in Nat /\ ChunkSize(a.entries, Chunk(k, i)) \in Nat
    BY <1>2
  <2> HIDE DEF At
  <2> QED
    BY <2>1, <2>2
<1>4. ChunkStart(a, Eocd) <= end
  <2>1. Eocd \in Chunks(a.entries) \ {Finished} /\ Finished \in Chunks(a.entries)
    BY DEF Chunks, Eocd, Finished, Chunk
  <2>2. NextChunk(a.entries, Eocd) = Finished
    BY DEF NextChunk, Eocd, Chunk
  <2>3. ChunkStart(a, Finished) = end
    BY DEF ChunkStart, Finished, Chunk
  <2>4. end = ChunkStart(a, Eocd) + ChunkSize(a.entries, Eocd)
    BY <1>1, <2>1, <2>2, <2>3 DEF WellLaidOut
  <2>5. ChunkStart(a, Eocd) \in Nat /\ ChunkSize(a.entries, Eocd) \in Nat
    BY <2>1, ChunkStartType, ChunkSizeType
  <2> QED
    BY <2>4, <2>5
<1>5. \A i \in 1 .. n : At("CDFileHeader", i) <= end
  <2> DEFINE T == {i \in 1 .. n : At("CDFileHeader", i) > end}
  <2>1. ASSUME NEW i \in T, \A j \in T : j <= i
        PROVE  FALSE
    <3>1. /\ i \in 1 .. n /\ "CDFileHeader" \in EntryKinds
          /\ At("CDFileHeader", i) \in Nat
          /\ At("CDFileHeader", i) > end
      BY <1>2, <2>1 DEF EntryKinds
    <3>2. NextChunk(a.entries, Chunk("CDFileHeader", i))
            = IF i + 1 <= n THEN Chunk("CDFileHeader", i + 1) ELSE Eocd
      BY DEF NextChunk, Chunk
    <3>3. At("CDFileHeader", i)
            <= ChunkStart(a, NextChunk(a.entries, Chunk("CDFileHeader", i)))
      BY <1>3, <3>1
    <3>4. CASE i + 1 <= n
      <4>1. i + 1 \in 1 .. n /\ At("CDFileHeader", i + 1) \in Nat
        BY <1>1, <1>2, <3>1, <3>4
      <4>2. At("CDFileHeader", i) <= At("CDFileHeader", i + 1)
        BY <3>2, <3>3, <3>4
      <4> HIDE DEF At
      <4>3. At("CDFileHeader", i + 1) > end
        BY <1>1, <3>1, <4>1, <4>2
      <4> QED
        BY <1>1, <2>1, <3>1, <4>1, <4>3
    <3>5. CASE ~ (i + 1 <= n)
      <4>1. At("CDFileHeader", i) <= ChunkStart(a, Eocd)
        BY <3>2, <3>3, <3>5
      <4>2. ChunkStart(a, Eocd) \in Nat
        BY ChunkStartType DEF Chunks
      <4> HIDE DEF At
      <4> QED
        BY <1>1, <1>4, <3>1, <4>1, <4>2
    <3> QED
      BY <3>4, <3>5
  <2>2. T = {}
    <3>1. T \in SUBSET (1 .. n)
      OBVIOUS
    <3> HIDE DEF T, n
    <3> QED
      BY <1>1, <2>1, <3>1, LastIndex
  <2> SUFFICES ASSUME NEW i \in 1 .. n
               PROVE  At("CDFileHeader", i) <= end
    OBVIOUS
  <2>3. At("CDFileHeader", i) \in Nat /\ ~ (At("CDFileHeader", i) > end)
    BY <1>2, <2>2 DEF EntryKinds
  <2> HIDE DEF At
  <2> QED
    BY <1>1, <2>3
<1>6. ASSUME NEW i \in 1 .. n
      PROVE  /\ At("LocalHeader", i) <= At("EntryData", i)
             /\ At("EntryData", i) <= At("DataDescriptor", i)
             /\ At("DataDescriptor", i)
                  <= ChunkStart(a, IF i + 1 <= n THEN Chunk("LocalHeader", i + 1)
                                   ELSE Chunk("CDFileHeader", 1))
  <2>1. /\ NextChunk(a.entries, Chunk("LocalHeader", i)) = Chunk("EntryData", i)
        /\ NextChunk(a.entries, Chunk("EntryData", i))
             = Chunk("DataDescriptor", i)
        /\ NextChunk(a.entries, Chunk("DataDescriptor", i))
             = IF i + 1 <= n THEN Chunk("LocalHeader", i + 1)
                             ELSE Chunk("CDFileHeader", 1)
    BY DEF NextChunk, Chunk
  <2>2. {"LocalHeader", "EntryData", "DataDescriptor"} \subseteq EntryKinds
    BY DEF EntryKinds
  <2> QED
    BY <1>3, <2>1, <2>2
<1>7. \A i \in 1 .. n : At("DataDescriptor", i) <= end
  <2> DEFINE T == {i \in 1 .. n : At("DataDescriptor", i) > end}
  <2>1. ASSUME NEW i \in T, \A j \in T : j <= i
        PROVE  FALSE
    <3>1. /\ i \in 1 .. n
          /\ At("DataDescriptor", i) \in Nat
          /\ At("DataDescriptor", i) > end
      BY <1>2, <2>1 DEF EntryKinds
    <3>2. CASE i + 1 <= n
      <4>1. /\ i + 1 \in 1 .. n
            /\ At("LocalHeader", i + 1) \in Nat
            /\ At("EntryData", i + 1) \in Nat
            /\ At("DataDescriptor", i + 1) \in Nat
        BY <1>1, <1>2, <3>1, <3>2 DEF EntryKinds
      <4>2. At("DataDescriptor", i) <= At("LocalHeader", i + 1)
        BY <1>6, <3>1, <3>2
      <4>3. /\ At("LocalHeader", i + 1) <= At("EntryData", i + 1)
            /\ At("EntryData", i + 1) <= At("DataDescriptor", i + 1)
        BY <1>6, <4>1
      <4> HIDE DEF At
      <4>4. At("DataDescriptor", i + 1) > end
        BY <1>1, <3>1, <4>1, <4>2, <4>3
      <4> QED
        BY <1>1, <2>1, <3>1, <4>1, <4>4
    <3>3. CASE ~ (i + 1 <= n)
      <4>1. 1 \in 1 .. n
        BY <1>1, <3>1
      <4>2. At("DataDescriptor", i) <= At("CDFileHeader", 1)
        BY <1>6, <3>1, <3>3
      <4>3. /\ At("CDFileHeader", 1) \in Nat
            /\ At("CDFileHeader", 1) <= end
        BY <1>2, <1>5, <4>1 DEF EntryKinds
      <4> HIDE DEF At
      <4> QED
        BY <1>1, <3>1, <4>2, <4>3
    <3> QED
      BY <3>2, <3>3
  <2>2. T = {}
    <3>1. T \in SUBSET (1 .. n)
      OBVIOUS
    <3> HIDE DEF T, n
    <3> QED
      BY <1>1, <2>1, <3>1, LastIndex
  <2> SUFFICES ASSUME NEW i \in 1 .. n
               PROVE  At("DataDescriptor", i) <= end
    OBVIOUS
  <2>3. At("DataDescriptor", i) \in Nat /\ ~ (At("DataDescriptor", i) > end)
    BY <1>2, <2>2 DEF EntryKinds
  <2> HIDE DEF At
  <2> QED
    BY <1>1, <2>3
<1>8. CASE c.kind \in EntryKinds /\ c.entry_index \in 1 .. n
  <2>1. c = Chunk(c.kind, c.entry_index)
    BY <1>8 DEF Chunks, Chunk, EntryKinds, Eocd, Finished
  <2>2. PICK i \in 1 .. n : c \in {Chunk(k, i) : k \in EntryKinds}
    BY <1>8, <2>1
  <2>3. /\ At("LocalHeader", i) \in Nat /\ At("EntryData", i) \in Nat
        /\ At("DataDescriptor", i) \in Nat /\ At("CDFileHeader", i) \in Nat
    BY <1>2 DEF EntryKinds
  <2>4. /\ At("LocalHeader", i) <= At("EntryData", i)
        /\ At("EntryData", i) <= At("DataDescriptor", i)
        /\ At("DataDescriptor", i) <= end
        /\ At("CDFileHeader", i) <= end
    BY <1>5, <1>6, <1>7
  <2>5. ChunkStart(a, c) \in {At("LocalHeader", i), At("EntryData", i),
                              At("DataDescriptor", i), At("CDFileHeader", i)}
    BY <2>2 DEF EntryKinds
  <2> HIDE DEF At
  <2> QED
    BY <1>1, <2>3, <2>4, <2>5
<1>9. CASE c = Finished
  BY <1>1, <1>9 DEF ChunkStart, Finished, Chunk
<1> QED
  BY <1>4, <1>8, <1>9, ChunkCases

(* What was written to the caller's buffer lies inside the file, unless    *)
(* something is still to be skipped.                                       *)
LEMMA OutWithin ==
  ASSUME DeliversInv, Sound, out # << >>,
         staging_buffer = << >> => to_skip = 0
  PROVE  base + Len(out) <= archive.total_size
<1> DEFINE start == ChunkStart(archive, current_chunk)
           n     == Len(staging_buffer)
           end   == archive.total_size
<1>1. /\ start \in Nat /\ n \in Nat /\ to_skip \in Nat /\ end \in Nat
      /\ chunk_processed_size \in Nat
      /\ archive \in Archives /\ current_chunk \in Chunks(Entries)
  BY CurrentChunk, ArchiveTypes DEF DeliversInv, Inv, TypeOK
<1>2. start <= end
  BY <1>1, ChunkStartWithin DEF Entries
<1>3. base + Len(out) = start + chunk_processed_size - n + to_skip
  BY DEF DeliversInv, Delivered, Sound, Cursor
<1> SUFFICES base + Len(out) <= end
  OBVIOUS
<1>4. CASE staging_buffer # << >>
  <2>1. to_skip < n
    BY <1>4 DEF DeliversInv, StagedFits
  <2>2. chunk_processed_size = 0
    BY <1>4 DEF DeliversInv, Inv, ProcessedFits
  <2> HIDE DEF start, n, end
  <2> QED
    BY <1>1, <1>2, <1>3, <2>1, <2>2
<1>5. CASE staging_buffer = << >> /\ chunk_processed_size = 0
  <2>1. to_skip = 0 /\ n = 0
    BY <1>5, EmptySeq
  <2> HIDE DEF start, n, end
  <2> QED
    BY <1>1, <1>2, <1>3, <1>5, <2>1
<1>6. CASE staging_buffer = << >> /\ chunk_processed_size # 0
  <2>1. to_skip = 0 /\ n = 0
    BY <1>6, EmptySeq
  <2>2. current_chunk.kind = "EntryData"
    BY <1>6 DEF DeliversInv, Inv, ProcessedFits
  <2>3. chunk_processed_size + to_skip <= Entries[Idx].size
    BY <1>6, <2>2 DEF DeliversInv, DataFits
  <2>4. current_chunk # Finished /\ NextChunk(Entries, current_chunk) \in Chunks(Entries)
    BY <2>2, CurrentChunk DEF DeliversInv, Inv, Finished, Chunk
  <2>5. ChunkStart(archive, NextChunk(Entries, current_chunk))
          = start + Entries[Idx].size
    BY <2>2, <2>4, Tiling, CurrentChunk DEF DeliversInv, Inv
  <2>6. start + Entries[Idx].size <= end
    BY <1>1, <2>4, <2>5, ChunkStartWithin DEF Entries
  <2>7. Entries[Idx].size \in Nat
    BY <2>2, CurrentChunk DEF DeliversInv, Inv, EntryKinds
  <2> HIDE DEF start, n, end
  <2> QED
    BY <1>1, <1>3, <2>1, <2>3, <2>6, <2>7
<1> QED
  BY <1>4, <1>5, <1>6

-----------------------------------------------------------------------------
(* The inductive invariant.                                                *)

(* No more is written than there is room for, and entry data or a CRC is   *)
(* only looked for while there is room.                                    *)
RoomFits ==
  /\ Len(out) <= cap
  /\ pc \in {"data", "pull", "crc"} => Len(out) < cap

(* What has to be skipped is skipped before anything is written. *)
SkippedFirst ==
  Sound /\ out # << >> /\ staging_buffer = << >> => to_skip = 0

(* What has failed is not asked again, and a seek in progress is the one   *)
(* the reader is waiting for.                                              *)
Failed == pc = "idle" /\ result.kind = "Io"

SourceFits ==
  /\ result.kind = "Io" => CanFail
  /\ pc # "panicked" =>
       /\ pinned.state = "SpentFuture" => Failed
       /\ pinned.seek_in_progress =>
            /\ pinned.state = "FileReader"
            /\ pinned.target = to_skip \/ Failed

RefinesInv ==
  /\ DeliversInv
  /\ RoomFits
  /\ SkippedFirst
  /\ SourceFits

-----------------------------------------------------------------------------
(* Every action keeps the invariant.                                       *)

LEMMA RefinesInit ==
  ASSUME Init
  PROVE  RefinesInv
<1>1. DeliversInv
  BY DeliversInit
<1>2. /\ pc = "idle" /\ out = << >> /\ cap = 0 /\ result.kind = "None"
      /\ pinned.state = "Nothing" /\ ~ pinned.seek_in_progress
  BY DEF Init, Nothing, Held
<1>3. Len(out) = 0
  BY <1>2, EmptySeq
<1> QED
  BY <1>1, <1>2, <1>3 DEF RefinesInv, RoomFits, SkippedFirst, SourceFits

(* A new position, with nothing pinned and nothing written. *)
LEMMA SeekRefines ==
  ASSUME RefinesInv, NEW offset \in Nat, SeekFromStart(offset),
         Returns("None", 0)
  PROVE  RoomFits' /\ SkippedFirst' /\ SourceFits'
<1>1. /\ pinned'.state = "Nothing" /\ ~ pinned'.seek_in_progress
      /\ pc' = "idle" /\ result'.kind = "None"
      /\ out' = << >> /\ cap' = cap
  BY DEF SeekFromStart, PinnedAfterSeek, Nothing, Held, Returns
<1>2. Len(out') = 0 /\ cap \in Nat
  BY <1>1, EmptySeq DEF RefinesInv, DeliversInv, Inv, TypeOK
<1> QED
  BY <1>1, <1>2 DEF RoomFits, SkippedFirst, SourceFits

(* The beginning of a call, which is not made after an error of a source.  *)
LEMMA PollReadRefines ==
  ASSUME RefinesInv, NEW n \in Nat, PollRead(n), result.kind # "Io"
  PROVE  RoomFits' /\ SkippedFirst' /\ SourceFits'
<1>1. /\ pc = "idle" /\ pc' = "loop"
      /\ out' = << >> /\ cap' = n
      /\ UNCHANGED << readState, pinned, result >>
  BY DEF PollRead
<1>2. Len(out') = 0
  BY <1>1, EmptySeq
<1> QED
  BY <1>1, <1>2
  DEF RefinesInv, RoomFits, SkippedFirst, SourceFits, Failed, readState

LEMMA CallerRefines ==
  ASSUME SeeksAfterError, RefinesInv, CallerStep
  PROVE  RoomFits' /\ SkippedFirst' /\ SourceFits'
<1>1. ASSUME NEW n \in ReadSizes, PollRead(n)
      PROVE  RoomFits' /\ SkippedFirst' /\ SourceFits'
  <2>1. n \in Nat /\ result.kind \notin ReadErrors \ RetriedErrors
    BY <1>1, ReaderAssumption DEF PollRead
  <2>2. result.kind # "Io"
    BY <2>1 DEF SeeksAfterError, RefinesInv, SourceFits, ReadErrors
  <2> QED
    BY <1>1, <2>1, <2>2, PollReadRefines
<1>2. ASSUME NEW origin \in Nat, NEW d \in Int, StartSeek(origin, d),
             CanFail => origin + d >= 0
      PROVE  RoomFits' /\ SkippedFirst' /\ SourceFits'
  <2>1. CASE ~ (origin + d < 0) /\ ~ (origin + d > U64Max)
    BY <1>2, <2>1, SeekRefines DEF StartSeek
  <2>2. CASE origin + d < 0
    <3>1. /\ pc = "idle" /\ pc' = "idle" /\ result'.kind # "Io"
          /\ UNCHANGED << archive, readState, pinned, cap, out >>
      BY <1>2, <2>2 DEF StartSeek, Returns
    <3>2. ~ Failed
      BY <1>2, <2>2 DEF RefinesInv, SourceFits, Failed
    <3> QED
      BY <3>1, <3>2
      DEF RefinesInv, RoomFits, SkippedFirst, Sound, SourceFits, readState
  <2>3. CASE ~ (origin + d < 0) /\ origin + d > U64Max
    <3>1. /\ pc = "idle" /\ pc' = "panicked" /\ result'.kind # "Io"
          /\ UNCHANGED << cap, out >>
      BY <1>2, <2>3 DEF StartSeek, Panics
    <3> QED
      BY <3>1 DEF RefinesInv, RoomFits, SkippedFirst, Sound, SourceFits
  <2> QED
    BY <2>1, <2>2, <2>3
<1>3. ASSUME NEW d \in SeekOffsets,
             SeekStart(d) \/ SeekCurrent(d) \/ SeekEnd(d)
      PROVE  RoomFits' /\ SkippedFirst' /\ SourceFits'
  <2>1. /\ d \in Int /\ position \in Nat
        /\ archive \in Archives /\ archive.total_size \in Nat
    BY ReaderAssumption, ArchiveTypes DEF RefinesInv, DeliversInv, Inv, TypeOK
  <2>2. CASE SeekStart(d)
    BY <1>2, <2>1, <2>2 DEF SeekStart
  <2>3. CASE SeekCurrent(d)
    <3>1. CanFail => d >= 0
      BY <2>1, <2>3 DEF SeekCurrent, SeeksAfterError, NeverRefused
    <3> QED
      BY <1>2, <2>1, <2>3, <3>1 DEF SeekCurrent
  <2>4. CASE SeekEnd(d)
    <3>1. CanFail => archive.total_size + d >= 0
      BY <2>1, <2>4 DEF SeekEnd, SeeksAfterError, NeverRefused
    <3> QED
      BY <1>2, <2>1, <2>4, <3>1 DEF SeekEnd
  <2> QED
    BY <1>3, <2>2, <2>3, <2>4
<1>4. CASE TakePinned
  BY <1>4, SeekRefines DEF TakePinned, RefinesInv, DeliversInv, Inv, TypeOK
<1> QED
  BY <1>1, <1>3, <1>4 DEF CallerStep

(* While the loop has other things to do, nothing is pinned that waits. *)
LEMMA NothingWaits ==
  ASSUME RefinesInv, pc # "panicked", pinned.state = "Nothing",
         pc' # "panicked", UNCHANGED << pinned, result >>
  PROVE  SourceFits'
  BY DEF RefinesInv, SourceFits, Failed

LEMMA ReadFromStagingRefines ==
  ASSUME RefinesInv, ReadFromStaging
  PROVE  RoomFits' /\ SkippedFirst' /\ SourceFits'
<1> DEFINE n    == Len(staging_buffer)
           m    == Len(out)
           last == to_skip + Remaining >= n
           end  == IF last THEN n ELSE to_skip + Remaining
           s    == SubSeq(staging_buffer, to_skip + 1, end)
<1>1. /\ pc = "loop" /\ Remaining > 0 /\ staging_buffer # << >>
      /\ out' = out \o s
      /\ to_skip' = IF last THEN 0 ELSE end
      /\ staging_buffer' = IF last THEN << >> ELSE staging_buffer
      /\ UNCHANGED << archive, pinned, pc, cap, result >>
  BY DEF ReadFromStaging
<1>2. /\ pinned.state = "Nothing"
      /\ staging_buffer \in Seq(Nat) /\ out \in Seq(Nat) /\ cap \in Nat
      /\ n \in Nat /\ m \in Nat /\ to_skip \in Nat
      /\ Remaining = cap - m
  BY <1>1 DEF RefinesInv, DeliversInv, Inv, TypeOK, PinnedFits, Remaining
<1>3. SourceFits'
  BY <1>1, <1>2, NothingWaits
<1>4. SkippedFirst'
  BY <1>1 DEF SkippedFirst
<1>5. end \in Int /\ end <= n /\ end <= to_skip + Remaining
  <2> HIDE DEF n, m
  <2> QED
    BY <1>2
<1>6. s \in Seq(Nat) /\ Len(s) \in Nat /\ Len(s) <= Remaining
  <2> HIDE DEF end
  <2>1. \A k \in to_skip + 1 .. end : staging_buffer[k] \in Nat
    <3> SUFFICES ASSUME NEW k \in to_skip + 1 .. end
                 PROVE  staging_buffer[k] \in Nat
      OBVIOUS
    <3>1. k \in 1 .. Len(staging_buffer)
      BY <1>2, <1>5
    <3> QED
      BY <1>2, <3>1, ElementOfSeq
  <2>2. /\ s \in Seq(Nat)
        /\ Len(s) = IF to_skip + 1 <= end THEN end - (to_skip + 1) + 1 ELSE 0
    BY <1>2, <1>5, <2>1, SubSeqProperties
  <2> HIDE DEF s, m, n
  <2> QED
    BY <1>1, <1>2, <1>5, <2>2
<1>7. Len(out') = m + Len(s)
  <2> HIDE DEF s
  <2> QED
    BY <1>1, <1>2, <1>6, ConcatProperties
<1>8. RoomFits'
  <2>1. Len(out') <= cap
    <3> HIDE DEF s, m
    <3> QED
      BY <1>2, <1>6, <1>7
  <2> QED
    BY <1>1, <2>1 DEF RoomFits
<1> QED
  BY <1>3, <1>4, <1>8

(* A structure is written where there is room, once nothing is to be       *)
(* skipped any more.                                                       *)
PieceRefines(s) ==
  /\ s \in PieceState
  /\ Len(s.out) <= cap
  /\ Sound /\ s.out # << >> /\ s.staging = << >> => s.to_skip = 0

LEMMA ReadPieceRefines ==
  ASSUME cap \in Nat, NEW s, PieceRefines(s), NEW size \in Nat
  PROVE  PieceRefines(ReadPiece(s, size))
<1> DEFINE r == ReadPiece(s, size)
           t == Run(s.at, size)
<1>1. /\ s \in PieceState
      /\ s.at \in Nat /\ s.to_skip \in Nat
      /\ s.staging \in Seq(Nat) /\ s.out \in Seq(Nat)
      /\ Len(s.out) <= cap
      /\ Sound /\ s.out # << >> /\ s.staging = << >> => s.to_skip = 0
  BY DEF PieceRefines, PieceState
<1>2. r \in PieceState
  BY <1>1, ReadPieceType
<1>3. CASE s.staging = << >> /\ s.to_skip >= size
  <2>1. r = [s EXCEPT !.at = @ + size, !.to_skip = @ - size]
    BY <1>3 DEF ReadPiece
  <2>2. r.out = s.out /\ r.staging = s.staging /\ r.to_skip = s.to_skip - size
    BY <1>1, <2>1 DEF PieceState
  <2>3. s.to_skip = 0 => r.to_skip = 0
    BY <1>1, <1>3, <2>2
  <2> HIDE DEF r
  <2> QED
    BY <1>1, <1>2, <2>2, <2>3 DEF r, PieceRefines
<1>4. CASE s.staging = << >> /\ s.to_skip = 0 /\ ~ (s.to_skip >= size)
             /\ cap - Len(s.out) >= size
  <2>1. r = [s EXCEPT !.at = @ + size, !.out = @ \o Run(s.at, size)]
    BY <1>4 DEF ReadPiece
  <2>2. r.out = s.out \o Run(s.at, size) /\ r.to_skip = 0
    BY <1>1, <1>4, <2>1 DEF PieceState
  <2>3. Len(r.out) = Len(s.out) + size
    <3>1. t \in Seq(Nat) /\ Len(t) = size /\ r.out = s.out \o t
      BY <1>1, <2>2, RunType
    <3> HIDE DEF t, r
    <3> QED
      BY <1>1, <3>1, ConcatProperties
  <2>4. Len(r.out) <= cap
    <3>1. Len(s.out) \in Nat
      BY <1>1
    <3> HIDE DEF r
    <3> QED
      BY <1>4, <2>3, <3>1
  <2> HIDE DEF r
  <2> QED
    BY <1>2, <2>2, <2>4 DEF r, PieceRefines
<1>5. CASE ~ (s.staging = << >> /\ s.to_skip >= size)
             /\ ~ (s.staging = << >> /\ s.to_skip = 0
                     /\ cap - Len(s.out) >= size)
  <2>1. r = [s EXCEPT !.at = @ + size, !.staging = @ \o Run(s.at, size)]
    BY <1>5 DEF ReadPiece
  <2>2. /\ r.out = s.out /\ r.to_skip = s.to_skip
        /\ r.staging = s.staging \o Run(s.at, size)
    BY <1>1, <2>1 DEF PieceState
  <2>3. r.staging = << >> => s.staging = << >>
    <3>1. Len(r.staging) = Len(s.staging) + size /\ Len(s.staging) \in Nat
      <4>1. t \in Seq(Nat) /\ Len(t) = size /\ r.staging = s.staging \o t
        BY <1>1, <2>2, RunType
      <4>2. Len(s.staging) \in Nat
        BY <1>1
      <4> HIDE DEF t, r
      <4>3. Len(r.staging) = Len(s.staging) + size
        BY <1>1, <4>1, ConcatProperties
      <4> QED
        BY <4>2, <4>3
    <3>2. r.staging = << >> => Len(s.staging) = 0
      BY <3>1, EmptySeq
    <3> QED
      BY <1>1, <3>2, EmptySeq
  <2> HIDE DEF r
  <2> QED
    BY <1>1, <1>2, <2>2, <2>3 DEF r, PieceRefines
<1> QED
  BY <1>3, <1>4, <1>5

LEMMA StructureRefines ==
  ASSUME RefinesInv, Reading, ReadStructure,
         pinned.state = "Nothing",
         current_chunk.kind \in {"LocalHeader", "DataDescriptor",
                                 "CDFileHeader", "Eocd"},
         UNCHANGED << archive, pinned, cap >>
  PROVE  RoomFits' /\ SkippedFirst' /\ SourceFits'
<1> DEFINE s == AllPieces(Pieces0, PieceSizes)
<1>1. /\ pc = "loop" /\ pc' = "loop" /\ result' = result
      /\ staging_buffer = << >>
      /\ staging_buffer' = s.staging /\ to_skip' = s.to_skip /\ out' = s.out
  BY ReadStructureFinishes DEF RefinesInv, DeliversInv, ReadStructure, Reading
<1>2. SourceFits'
  BY <1>1, NothingWaits
<1>3. cap \in Nat
  BY DEF RefinesInv, DeliversInv, Inv, TypeOK
<1>4. PieceRefines(Pieces0)
  <2>1. Pieces0 \in PieceState
    BY CurrentChunk DEF RefinesInv, DeliversInv, Inv, TypeOK, Pieces0, PieceState
  <2> QED
    BY <1>1, <2>1
    DEF RefinesInv, RoomFits, SkippedFirst, Pieces0, PieceRefines
<1>5. /\ PieceSizes[1] \in Nat /\ PieceSizes[2] \in Nat
      /\ PieceSizes[3] \in Nat
  BY PiecesMakeChunk DEF RefinesInv, DeliversInv, Inv
<1>6. PieceRefines(s)
  BY <1>3, <1>4, <1>5, ReadPieceRefines DEF AllPieces
<1>7. Sound' => Sound
  BY <1>1 DEF Sound
<1> HIDE DEF s
<1> QED
  BY <1>1, <1>2, <1>6, <1>7 DEF PieceRefines, RoomFits, SkippedFirst

LEMMA LoopRefines ==
  ASSUME RefinesInv, LoopStep
  PROVE  RoomFits' /\ SkippedFirst' /\ SourceFits'
<1>1. CASE ReturnOk
  <2>1. /\ pc = "loop" /\ pc' = "idle" /\ result'.kind = "Ok"
        /\ UNCHANGED << archive, readState, pinned, cap, out >>
    BY <1>1 DEF ReturnOk, LoopEnds, Reading, Returns
  <2> QED
    BY <2>1 DEF RefinesInv, RoomFits, SkippedFirst, SourceFits, Failed, Sound,
       readState
<1>2. CASE ReadFromStaging
  BY <1>2, ReadFromStagingRefines
<1>3. CASE SkipChunk
  <2>1. /\ pc = "loop" /\ pc' = "loop" /\ staging_buffer = << >>
        /\ to_skip >= ChunkSize(Entries, current_chunk)
        /\ current_chunk # Finished
        /\ to_skip' = to_skip - ChunkSize(Entries, current_chunk)
        /\ UNCHANGED << archive, staging_buffer, pinned, cap, out, result >>
    BY <1>3 DEF SkipChunk
  <2>2. ChunkSize(Entries, current_chunk) \in Nat /\ to_skip \in Nat
    BY <2>1, CurrentChunk DEF RefinesInv, DeliversInv, Inv, TypeOK
  <2>3. pinned.state = "Nothing"
    BY <2>1, <2>2 DEF RefinesInv, DeliversInv, Inv, PinnedFits
  <2>4. SourceFits'
    BY <2>1, <2>3, NothingWaits
  <2>5. to_skip = 0 => to_skip' = 0
    BY <2>1, <2>2
  <2> QED
    BY <2>1, <2>4, <2>5 DEF RefinesInv, RoomFits, SkippedFirst, Sound
<1>4. CASE ReadLocalHeaderOrEocd
  <2>1. /\ Reading /\ ReadStructure
        /\ current_chunk.kind \in {"LocalHeader", "Eocd"}
        /\ UNCHANGED << archive, pinned, cap >>
    BY <1>4 DEF ReadLocalHeaderOrEocd
  <2>2. pinned.state = "Nothing"
    BY <2>1 DEF RefinesInv, DeliversInv, Inv, PinnedFits
  <2> QED
    BY <2>1, <2>2, StructureRefines
<1>5. CASE ReadCrcStructure
  <2>1. /\ Reading /\ ReadStructure
        /\ current_chunk.kind \in {"DataDescriptor", "CDFileHeader"}
        /\ crc32[Idx] # NoCrc \/ Entries[Idx].size = 0
        /\ UNCHANGED << archive, pinned, cap >>
    BY <1>5 DEF ReadCrcStructure
  <2>2. pinned.state = "Nothing"
    BY <2>1 DEF RefinesInv, DeliversInv, Inv, PinnedFits
  <2> QED
    BY <2>1, <2>2, StructureRefines
<1>6. CASE UseOpenReader
  <2>1. /\ pc = "loop" /\ pc' \in {"data", "crc"} /\ Remaining > 0
        /\ UNCHANGED << archive, readState, pinned, cap, out, result >>
    BY <1>6 DEF UseOpenReader, NeedsReader, Reading, Opened
  <2>2. Len(out) < cap
    BY <2>1 DEF Remaining, RefinesInv, DeliversInv, Inv, TypeOK
  <2> QED
    BY <2>1, <2>2
    DEF RefinesInv, RoomFits, SkippedFirst, SourceFits, Failed, Sound, readState
<1>7. CASE PollSpentFuture
  <2>1. pc = "loop" /\ pinned.state = "SpentFuture"
    BY <1>7 DEF PollSpentFuture, NeedsReader, Reading
  <2> QED
    BY <2>1 DEF RefinesInv, SourceFits, Failed
<1> QED
  BY <1>1, <1>2, <1>3, <1>4, <1>5, <1>6, <1>7 DEF LoopStep

(* What ends a call, but for an error, leaves the pinned part able to go on.*)
LEMMA OpenReaderRefines ==
  ASSUME RefinesInv, OpenReader
  PROVE  RoomFits' /\ SkippedFirst' /\ SourceFits'
<1>1. /\ pc = "loop" /\ Remaining > 0
      /\ ~ pinned'.seek_in_progress
      /\ UNCHANGED << archive, readState, cap, out >>
  BY DEF OpenReader, NeedsReader, Reading, Held
<1>2. Len(out) < cap
  BY <1>1 DEF Remaining, RefinesInv, DeliversInv, Inv, TypeOK
<1>3. /\ pc' # "panicked"
      /\ pinned'.state = "SpentFuture" => Failed'
      /\ result'.kind = "Io" => CanFail
  BY DEF OpenReader, Opened, Held, ReturnsPending, ReturnsIoError, Returns,
     PendingKind, Failed, RefinesInv, SourceFits
<1> QED
  BY <1>1, <1>2, <1>3
  DEF RefinesInv, RoomFits, SkippedFirst, SourceFits, Sound, readState

LEMMA SkipByReadingRefines ==
  ASSUME RefinesInv, SkipByReading
  PROVE  RoomFits' /\ SkippedFirst' /\ SourceFits'
<1>1. /\ pc = "data" /\ to_skip > 0 /\ crc32[Idx] = NoCrc
      /\ pc' \in {"data", "pull", "idle"}
      /\ result'.kind = "Io" => result.kind = "Io" \/ CanFail
      /\ UNCHANGED << archive, staging_buffer, cap, out >>
      /\ pinned' = pinned
           \/ \E n \in SourceReads(IF to_skip < ScratchSize THEN to_skip
                                                          ELSE ScratchSize) :
                pinned' = Pulled(pinned, n)
  BY DEF SkipByReading, SkipsByReading, AfterSkipEof, ReturnsPending,
     ReturnsIoError, Returns, PendingKind
<1>2. pinned.state = "FileReader" /\ ~ pinned.seek_in_progress
  BY <1>1 DEF RefinesInv, DeliversInv, Inv, PcFits, ReaderFits
<1>3. pinned'.state = "FileReader" /\ ~ pinned'.seek_in_progress
  BY <1>1, <1>2 DEF RefinesInv, DeliversInv, Inv, TypeOK, ReaderPinned, Pulled
<1>4. SourceFits'
  BY <1>1, <1>3 DEF RefinesInv, SourceFits
<1>5. Sound /\ out # << >> /\ staging_buffer = << >> => FALSE
  BY <1>1 DEF RefinesInv, SkippedFirst, DeliversInv, Inv, TypeOK
<1>6. Sound' => Sound
  BY <1>1 DEF Sound
<1> QED
  BY <1>1, <1>4, <1>5, <1>6 DEF RefinesInv, RoomFits, SkippedFirst

(* A source that is asked to seek ends up where it was asked to: the       *)
(* assertion in read_entry_data holds.                                     *)
LEMMA SeekSourceFits ==
  ASSUME RefinesInv, SeekSource
  PROVE  /\ pc' # "panicked"
         /\ SourceFits'
         /\ to_skip' \in {0, to_skip}
         /\ result'.kind \in {result.kind, PendingKind, "Io"}
<1> DEFINE p    == SeekStarted(pinned, to_skip)
           done == SeekCompleted(p)
<1>1. /\ pc = "data" /\ pinned \in ReaderPinned
      /\ pinned.state = "FileReader"
      /\ pinned.seek_in_progress => pinned.target = to_skip
  BY DEF RefinesInv, DeliversInv, Inv, TypeOK, PcFits, SeekSource, SourceFits,
     Failed
<1>2. /\ p.state = "FileReader" /\ p.target = to_skip /\ p \in ReaderPinned
      /\ p.seek_in_progress
  BY <1>1 DEF SeekStarted, ReaderPinned, RefinesInv, DeliversInv, Inv, TypeOK
<1> HIDE DEF p
<1>3. /\ done.pos = to_skip /\ ~ done.seek_in_progress
      /\ done.state = "FileReader"
  BY <1>2 DEF SeekCompleted, ReaderPinned
<1> HIDE DEF done
<1>4. \/ /\ pinned' = done
         /\ to_skip' = 0
         /\ UNCHANGED << pc, result >>
      \/ /\ pinned' = p
         /\ ReturnsPending
         /\ UNCHANGED << chunk_processed_size, to_skip >>
      \/ /\ pinned' = [p EXCEPT !.target = pinned.pos]
         /\ ReturnsIoError
         /\ UNCHANGED << chunk_processed_size, to_skip >>
  BY <1>3 DEF SeekSource, p, done
<1>5. CASE pinned' = done /\ to_skip' = 0 /\ UNCHANGED << pc, result >>
  BY <1>1, <1>3, <1>5 DEF RefinesInv, SourceFits
<1>6. CASE pinned' = p /\ ReturnsPending /\ UNCHANGED to_skip
  BY <1>2, <1>6 DEF SourceFits, ReturnsPending, Returns, PendingKind
<1>7. CASE /\ pinned' = [p EXCEPT !.target = pinned.pos]
           /\ ReturnsIoError /\ UNCHANGED to_skip
  <2>1. pinned'.state = "FileReader"
    BY <1>2, <1>7 DEF ReaderPinned
  <2>2. /\ pc' = "idle" /\ result'.kind = "Io" /\ CanFail
    BY <1>7 DEF ReturnsIoError, Returns
  <2> QED
    BY <1>7, <2>1, <2>2 DEF SourceFits, Failed
<1> QED
  BY <1>4, <1>5, <1>6, <1>7

LEMMA SeekSourceRefines ==
  ASSUME RefinesInv, SeekSource
  PROVE  RoomFits' /\ SkippedFirst' /\ SourceFits'
<1>1. /\ pc = "data" /\ to_skip > 0
      /\ UNCHANGED << archive, staging_buffer, cap, out >>
  BY DEF SeekSource
<1>2. Sound /\ out # << >> /\ staging_buffer = << >> => FALSE
  BY <1>1 DEF RefinesInv, SkippedFirst, DeliversInv, Inv, TypeOK
<1>3. Sound' => Sound
  BY <1>1 DEF Sound
<1> QED
  BY <1>1, <1>2, <1>3, SeekSourceFits DEF RefinesInv, RoomFits, SkippedFirst

LEMMA PullDataRefines ==
  ASSUME RefinesInv, PullData
  PROVE  RoomFits' /\ SkippedFirst' /\ SourceFits'
<1>1. /\ pc \in {"data", "pull"} /\ (pc = "data" => to_skip = 0)
      /\ Len(out) < cap
      /\ pinned.state = "FileReader"
      /\ UNCHANGED << archive, staging_buffer, to_skip, cap >>
  BY AtPullReads DEF PullData, AtPull, RefinesInv, RoomFits, DeliversInv, Inv
<1>2. Sound => pc # "pull"
  BY DEF RefinesInv, DeliversInv, DataFits
<1>3. SkippedFirst'
  BY <1>1, <1>2 DEF SkippedFirst, Sound
<1>4. CASE \E n \in SourceReads(Remaining) :
             /\ out' = out \o Run(DataStart(archive, pinned.entry)
                                    + pinned.pos, n)
             /\ pinned' = Pulled(pinned, n)
             /\ pc' = "loop"
             /\ UNCHANGED result
  <2>1. PICK n \in SourceReads(Remaining) :
          /\ out' = out \o Run(DataStart(archive, pinned.entry)
                                 + pinned.pos, n)
          /\ pinned' = Pulled(pinned, n)
          /\ pc' = "loop"
          /\ UNCHANGED result
    BY <1>4
  <2> DEFINE b == DataStart(archive, pinned.entry) + pinned.pos
             t == Run(b, n)
  <2>2. Remaining \in Nat /\ Remaining = cap - Len(out)
    BY <1>1 DEF Remaining, RefinesInv, DeliversInv, Inv, TypeOK
  <2>3. n \in Nat /\ n <= Remaining /\ pinned.pos \in Nat
    BY <1>1, <2>2, SourceReadsWithin DEF RefinesInv, DeliversInv, Inv
  <2>4. b \in Nat
    <3>1. /\ ChunkStart(archive, current_chunk) \in Nat
          /\ current_chunk.kind = "EntryData" /\ pinned.entry = Idx
      BY CurrentChunk, AtPullReads DEF RefinesInv, DeliversInv, Inv, PullData
    <3>2. ChunkStart(archive, current_chunk) = DataStart(archive, Idx)
      BY <3>1 DEF ChunkStart, Idx
    <3> QED
      BY <2>3, <3>1, <3>2
  <2> HIDE DEF b
  <2>5. t \in Seq(Nat) /\ Len(t) = n
    BY <2>3, <2>4, RunType
  <2>6. Len(out') = Len(out) + n
    <3>1. out' = out \o t /\ out \in Seq(Nat)
      BY <2>1 DEF b, RefinesInv, DeliversInv, Inv, TypeOK
    <3> HIDE DEF t
    <3> QED
      BY <2>5, <3>1, ConcatProperties
  <2>7. RoomFits'
    <3>1. Len(out) \in Nat /\ cap \in Nat
      BY DEF RefinesInv, DeliversInv, Inv, TypeOK
    <3> QED
      BY <1>1, <2>1, <2>2, <2>3, <2>6, <3>1 DEF RoomFits
  <2>8. /\ pinned'.state = pinned.state /\ pinned'.target = pinned.target
        /\ pinned'.seek_in_progress = pinned.seek_in_progress
    BY <2>1 DEF Pulled, RefinesInv, DeliversInv, Inv, TypeOK, ReaderPinned
  <2>9. SourceFits'
    BY <1>1, <2>1, <2>8 DEF RefinesInv, SourceFits, Failed
  <2> QED
    BY <1>3, <2>7, <2>9
<1>5. CASE (ReturnsPending \/ ReturnsIoError) /\ UNCHANGED << pinned, out >>
  <2>1. pc' = "idle" /\ (result'.kind = "Io" => CanFail)
    BY <1>5 DEF ReturnsPending, ReturnsIoError, Returns, PendingKind
  <2> QED
    BY <1>1, <1>3, <1>5, <2>1 DEF RefinesInv, RoomFits, SourceFits, Failed
<1> QED
  BY <1>4, <1>5 DEF PullData

LEMMA FinishDataRefines ==
  ASSUME RefinesInv, FinishData
  PROVE  RoomFits' /\ SkippedFirst' /\ SourceFits'
<1>1. /\ Len(out) \in Nat /\ cap \in Nat /\ Len(out) <= cap
      /\ pc # "panicked"
      /\ UNCHANGED << archive, staging_buffer, to_skip, cap, out >>
  BY DEF FinishData, AtPull, RefinesInv, RoomFits, DeliversInv, Inv, TypeOK
<1>2. SkippedFirst'
  BY <1>1 DEF RefinesInv, SkippedFirst, Sound
<1>3. /\ pc' \in {"idle", "loop", "panicked"}
      /\ result'.kind = "Io" => result.kind = "Io"
      /\ pinned' = Nothing \/ pinned' = pinned
  BY DEF FinishData, FinishChunk, Returns, Panics
<1>4. RoomFits'
  BY <1>1, <1>3 DEF RoomFits
<1>5. CASE pinned' = Nothing
  <2>1. pinned'.state = "Nothing" /\ ~ pinned'.seek_in_progress
    BY <1>5 DEF Nothing, Held
  <2>2. result'.kind = "Io" => CanFail
    BY <1>3 DEF RefinesInv, SourceFits
  <2> QED
    BY <1>2, <1>4, <2>1, <2>2 DEF SourceFits
<1>6. CASE pinned' = pinned /\ pinned # Nothing
  <2>1. pinned.state = "FileReader"
    BY AtPullReads DEF FinishData, RefinesInv, DeliversInv, Inv
  <2>2. /\ DataMismatch
        /\ Returns("Crc32Mismatch", 0)
    BY <1>6 DEF FinishData
  <2>3. ~ pinned.seek_in_progress
    <3>1. pinned.did_seek => ReaderCrc(pinned) = NoCrc
      BY DEF ReaderCrc
    <3>2. ~ pinned.did_seek
      BY <2>2, <3>1 DEF DataMismatch
    <3> QED
      BY <2>1, <3>2 DEF RefinesInv, DeliversInv, Inv, ReaderFits
  <2>4. result'.kind = "Io" => CanFail
    BY <1>3 DEF RefinesInv, SourceFits
  <2>5. pinned'.state = "FileReader" /\ ~ pinned'.seek_in_progress
    BY <1>6, <2>1, <2>3
  <2> QED
    BY <1>2, <1>4, <2>4, <2>5 DEF SourceFits
<1> QED
  BY <1>2, <1>3, <1>4, <1>5, <1>6

LEMMA ReadForCrcRefines ==
  ASSUME RefinesInv, ReadForCrc
  PROVE  RoomFits' /\ SkippedFirst' /\ SourceFits'
<1>1. /\ pc = "crc" /\ pc' \in {"crc", "idle"}
      /\ result'.kind = "Io" => result.kind = "Io" \/ CanFail
      /\ UNCHANGED << archive, staging_buffer, to_skip, cap, out >>
      /\ pinned' = pinned
           \/ \E n \in SourceReads(ScratchSize) : pinned' = Pulled(pinned, n)
  BY DEF ReadForCrc, ReturnsPending, ReturnsIoError, Returns, PendingKind,
         readState
<1>2. pinned.state = "FileReader" /\ ~ pinned.seek_in_progress
  <2>1. pinned.state = "FileReader" /\ current_chunk.kind # "EntryData"
    BY <1>1 DEF RefinesInv, DeliversInv, Inv, PcFits
  <2> QED
    BY <2>1 DEF RefinesInv, DeliversInv, Inv, ReaderFits
<1>3. /\ pinned'.state = pinned.state
      /\ pinned'.seek_in_progress = pinned.seek_in_progress
  BY <1>1 DEF Pulled, RefinesInv, DeliversInv, Inv, TypeOK, ReaderPinned
<1>4. RoomFits' /\ SkippedFirst'
  BY <1>1 DEF RefinesInv, RoomFits, SkippedFirst, Sound
<1>5. SourceFits'
  BY <1>1, <1>2, <1>3 DEF RefinesInv, SourceFits
<1> QED
  BY <1>4, <1>5

LEMMA FinishCrcRefines ==
  ASSUME RefinesInv, FinishCrc
  PROVE  RoomFits' /\ SkippedFirst' /\ SourceFits'
<1>1. /\ pc = "crc" /\ pc' = "loop"
      /\ pinned' = Nothing
      /\ UNCHANGED << archive, staging_buffer, to_skip, cap, out, result >>
  BY FinishCrcFinds DEF FinishCrc, RefinesInv, DeliversInv, Inv, readState
<1> QED
  BY <1>1 DEF RefinesInv, RoomFits, SkippedFirst, Sound, SourceFits, Nothing,
              Held

LEMMA RefinesNext ==
  ASSUME SeeksAfterError, RefinesInv, [Next]_vars
  PROVE  RefinesInv'
<1>1. DeliversInv'
  BY DeliversNext DEF RefinesInv
<1>2. CASE CallerStep
  BY <1>1, <1>2, CallerRefines DEF RefinesInv
<1>3. CASE LoopStep
  BY <1>1, <1>3, LoopRefines DEF RefinesInv
<1>4. CASE SourceStep
  BY <1>1, <1>4, OpenReaderRefines, SkipByReadingRefines, SeekSourceRefines,
     PullDataRefines, FinishDataRefines, ReadForCrcRefines, FinishCrcRefines
  DEF SourceStep, RefinesInv
<1>5. CASE UNCHANGED vars
  BY <1>1, <1>5 DEF RefinesInv, RoomFits, SkippedFirst, Sound, SourceFits,
                    Failed, vars
<1> QED
  BY <1>2, <1>3, <1>4, <1>5 DEF Next

-----------------------------------------------------------------------------
(* Every step is one of ZipStream or a stutter.                            *)

LEMMA StatusCases ==
  /\ InCall => StreamStatus = "busy"
  /\ pc = "panicked" => StreamStatus = "panicked"
  /\ pc = "idle" => StreamStatus \notin {"busy", "panicked"} /\ ~ InCall
  /\ pc = "idle" /\ result.kind = "None" => StreamStatus = "none"
  BY DEF InCall, StreamStatus

LEMMA NextStatusCases ==
  /\ InCall' => StreamStatus' = "busy"
  /\ pc' = "panicked" => StreamStatus' = "panicked" /\ ~ InCall'
  /\ pc' = "idle" => ~ InCall'
  /\ pc' = "idle" /\ result'.kind = "None" => StreamStatus' = "none"
  /\ pc' = "idle" /\ result'.kind = "Ok" => StreamStatus' = "ok"
  /\ pc' = "idle" /\ result'.kind = "Pending" => StreamStatus' = "pending"
  /\ pc' = "idle" /\ result'.kind = "Io" => StreamStatus' = "failed"
  /\ pc' = "idle" /\ result'.kind = "SeekingBeforeStart"
       => StreamStatus' = "refused"
  BY DEF InCall, StreamStatus

LEMMA InitImplements ==
  ASSUME Init
  PROVE  Stream!Init
<1>1. /\ pc = "idle" /\ result.kind = "None" /\ out = << >>
      /\ base = 0 /\ cap = 0 /\ archive \in Archives
  BY DEF Init
<1>2. archive.total_size \in Nat /\ Len(out) = 0
  BY <1>1, ArchiveTypes, EmptySeq
<1> QED
  BY <1>1, <1>2, StatusCases DEF Stream!Init

(* What poll_read does before it returns is not seen from outside. *)
LEMMA InnerStutters ==
  ASSUME InCall, InCall', UNCHANGED << archive, cap, base >>
  PROVE  UNCHANGED Stream!vars
  BY StatusCases, NextStatusCases DEF Stream!vars

(* How poll_read may return. *)
LEMMA ReturnImplements ==
  ASSUME RefinesInv, HonestSizes(archive), InCall, pc' = "idle",
         UNCHANGED << archive, cap, base, out >>,
         \/ /\ result'.kind = "Ok"
            /\ out # << >> \/ cap = 0 \/ base >= archive.total_size
         \/ result'.kind = "Pending" /\ out = << >>
         \/ result'.kind = "Io" /\ Len(out) < cap
  PROVE  Stream!Next
<1>1. /\ StreamStatus = "busy" /\ ~ InCall' /\ pc # "panicked"
      /\ UNCHANGED << archive.total_size, cap >>
  BY StatusCases, NextStatusCases DEF InCall
<1>2. /\ out \in Seq(Nat) /\ Len(out) \in Nat /\ base \in Nat /\ cap \in Nat
      /\ Len(out) <= cap
  BY DEF RefinesInv, DeliversInv, Inv, TypeOK, RoomFits
<1>3. out = Stream!Bytes(base, Len(out))
  BY <1>1 DEF RefinesInv, DeliversInv, Delivered, Run, Stream!Bytes
<1>4. CASE result'.kind = "Ok"
  <2>1. StreamStatus' = "ok"
    BY <1>4, NextStatusCases
  <2>2. out # << >> => base + Len(out) <= archive.total_size
    BY <1>1, OutWithin DEF RefinesInv, SkippedFirst, Sound
  <2>3. out = << >> => cap = 0 \/ base >= archive.total_size
    BY <1>4
  <2> QED
    BY <1>1, <1>2, <1>3, <2>1, <2>2, <2>3 DEF Stream!Next, Stream!EndRead
<1>5. CASE result'.kind = "Pending"
  <2>1. StreamStatus' = "pending" /\ out = << >> /\ Len(out) = 0
    BY <1>5, NextStatusCases, EmptySeq
  <2> QED
    BY <1>1, <1>2, <2>1 DEF Stream!Next, Stream!PendRead
<1>6. CASE result'.kind = "Io"
  <2>1. StreamStatus' = "failed" /\ Len(out) < cap
    BY <1>6, NextStatusCases
  <2> QED
    BY <1>1, <1>2, <1>3, <2>1 DEF Stream!Next, Stream!FailRead
<1> QED
  BY <1>4, <1>5, <1>6

(* A source that stays pending or fails ends the call. *)
LEMMA GivesUpImplements ==
  ASSUME RefinesInv, HonestSizes(archive), InCall, Len(out) < cap,
         ReturnsPending \/ ReturnsIoError,
         UNCHANGED << archive, cap, base, out >>
  PROVE  Stream!Next
<1>1. /\ pc' = "idle"
      /\ \/ result'.kind = "Ok" /\ out # << >>
         \/ result'.kind = "Pending" /\ out = << >>
         \/ result'.kind = "Io"
  BY DEF ReturnsPending, ReturnsIoError, Returns, PendingKind
<1> QED
  BY <1>1, ReturnImplements

LEMMA CallerImplements ==
  ASSUME RefinesInv, CallerStep
  PROVE  Stream!Next
<1> DEFINE AtRest == pc = "idle" /\ ~ InCall
                       /\ StreamStatus \notin {"busy", "panicked"}
<1>1. /\ out \in Seq(Nat) /\ Len(out) \in Nat /\ base \in Nat /\ cap \in Nat
  BY DEF RefinesInv, DeliversInv, Inv, TypeOK
<1>2. ASSUME NEW n \in ReadSizes, PollRead(n)
      PROVE  Stream!Next
  <2>1. AtRest /\ InCall' /\ n \in Nat
    BY <1>2, StatusCases, ReaderAssumption DEF PollRead, InCall
  <2>2. /\ cap' = n /\ out' = << >> /\ base' = base + Len(out)
        /\ archive' = archive
    BY <1>2 DEF PollRead
  <2>3. StreamStatus' = "busy"
    BY <2>1, NextStatusCases
  <2> QED
    BY <2>1, <2>2, <2>3 DEF Stream!Next, Stream!BeginRead, Stream!AtRest
<1>3. ASSUME NEW offset \in Nat, pc = "idle", SeekFromStart(offset),
             Returns("None", 0)
      PROVE  Stream!Next
  <2>1. AtRest /\ ~ InCall' /\ StreamStatus' = "none"
    BY <1>3, StatusCases, NextStatusCases DEF Returns
  <2>2. /\ out' = << >> /\ base' = offset
        /\ UNCHANGED << archive, cap >>
    BY <1>3 DEF SeekFromStart
  <2>3. Len(out') = 0
    BY <2>2, EmptySeq
  <2>4. base' + Len(out') \in Nat
    BY <2>2, <2>3
  <2> QED
    BY <2>1, <2>2, <2>4 DEF Stream!Next, Stream!Seek, Stream!AtRest
<1>4. ASSUME NEW origin \in Nat, NEW d \in Int, StartSeek(origin, d)
      PROVE  Stream!Next
  <2>1. AtRest
    BY <1>4, StatusCases DEF StartSeek
  <2>2. CASE ~ (origin + d < 0) /\ ~ (origin + d > U64Max)
    BY <1>3, <1>4, <2>2 DEF StartSeek
  <2>3. CASE origin + d < 0
    <3>1. /\ ~ InCall' /\ StreamStatus' = "refused"
          /\ UNCHANGED << archive, cap, out, base >>
      BY <1>4, <2>3, NextStatusCases DEF StartSeek, Returns
    <3> QED
      BY <2>1, <3>1 DEF Stream!Next, Stream!RefuseSeek, Stream!AtRest
  <2>4. CASE ~ (origin + d < 0) /\ origin + d > U64Max
    <3>1. /\ ~ InCall' /\ StreamStatus' = "panicked"
          /\ UNCHANGED << archive, cap, out, base >>
      BY <1>4, <2>4, NextStatusCases DEF StartSeek, Panics
    <3> QED
      BY <2>1, <3>1 DEF Stream!Next, Stream!OverflowSeek, Stream!AtRest
  <2> QED
    BY <2>2, <2>3, <2>4
<1>5. ASSUME NEW d \in SeekOffsets,
             SeekStart(d) \/ SeekCurrent(d) \/ SeekEnd(d)
      PROVE  Stream!Next
  <2>1. /\ d \in Int /\ position \in Nat /\ 0 \in Nat
        /\ archive.total_size \in Nat
    BY ReaderAssumption, ArchiveTypes DEF RefinesInv, DeliversInv, Inv, TypeOK
  <2> QED
    BY <1>4, <1>5, <2>1 DEF SeekStart, SeekCurrent, SeekEnd
<1>6. CASE TakePinned
  BY <1>3, <1>6 DEF TakePinned, RefinesInv, DeliversInv, Inv, TypeOK
<1> QED
  BY <1>2, <1>5, <1>6 DEF CallerStep

(* poll_read comes to its end with nothing delivered only when there was   *)
(* no room, or when the position is past the last byte.                    *)
LEMMA ReturnOkImplements ==
  ASSUME RefinesInv, HonestSizes(archive), ReturnOk
  PROVE  Stream!Next
<1>1. /\ pc = "loop" /\ LoopEnds
      /\ pc' = "idle" /\ result'.kind = "Ok"
      /\ UNCHANGED << archive, cap, base, out >>
  BY DEF ReturnOk, LoopEnds, Reading, Returns
<1>2. ASSUME out = << >>
      PROVE  cap = 0 \/ base >= archive.total_size
  <2>1. Len(out) = 0 /\ cap \in Nat /\ base \in Nat
    BY <1>2, EmptySeq DEF RefinesInv, DeliversInv, Inv, TypeOK
  <2>2. CASE Remaining = 0
    BY <2>1, <2>2 DEF Remaining
  <2>3. CASE staging_buffer = << >> /\ current_chunk = Finished
    <3>1. /\ Len(staging_buffer) = 0 /\ to_skip \in Nat
          /\ archive.total_size \in Nat
      BY <2>3, EmptySeq, ArchiveTypes DEF RefinesInv, DeliversInv, Inv, TypeOK
    <3>2. chunk_processed_size = 0
      BY <2>3 DEF RefinesInv, DeliversInv, Inv, ProcessedFits, Finished, Chunk
    <3>3. ChunkStart(archive, current_chunk) = archive.total_size
      BY <2>3 DEF ChunkStart, Finished, Chunk
    <3>4. Cursor = base + Len(out)
      BY <1>1 DEF RefinesInv, DeliversInv, Delivered
    <3> QED
      BY <2>1, <3>1, <3>2, <3>3, <3>4 DEF Cursor
  <2>4. CASE Reading /\ BreaksBeforeData
    BY <1>2, <2>4 DEF BreaksBeforeData
  <2> QED
    BY <1>1, <2>2, <2>3, <2>4 DEF LoopEnds
<1>3. InCall
  BY <1>1 DEF InCall
<1> QED
  BY <1>1, <1>2, <1>3, ReturnImplements

LEMMA LoopImplements ==
  ASSUME RefinesInv, HonestSizes(archive), LoopStep
  PROVE  Stream!Next \/ UNCHANGED Stream!vars
<1>1. pc = "loop" /\ InCall
  BY DEF LoopStep, ReturnOk, LoopEnds, ReadFromStaging, SkipChunk,
         ReadLocalHeaderOrEocd, ReadCrcStructure, UseOpenReader,
         PollSpentFuture, NeedsReader, Reading, InCall
<1>2. CASE ReturnOk
  BY <1>2, ReturnOkImplements
<1>3. CASE ReadFromStaging \/ SkipChunk \/ UseOpenReader
  BY <1>1, <1>3, InnerStutters
  DEF ReadFromStaging, SkipChunk, UseOpenReader, Opened, InCall
<1>4. CASE ReadLocalHeaderOrEocd \/ ReadCrcStructure
  <2>1. pc' = "loop" /\ UNCHANGED << archive, cap, base >>
    BY <1>4, ReadStructureFinishes
    DEF ReadLocalHeaderOrEocd, ReadCrcStructure, RefinesInv, DeliversInv
  <2> QED
    BY <1>1, <2>1, InnerStutters DEF InCall
<1>5. CASE PollSpentFuture
  BY <1>1, <1>5 DEF PollSpentFuture, RefinesInv, SourceFits, Failed
<1> QED
  BY <1>2, <1>3, <1>4, <1>5 DEF LoopStep

(* Truthful data is never reported to be otherwise. *)
LEMMA FinishDataSucceeds ==
  ASSUME TruthfulData, DeliversInv, FinishData
  PROVE  pc' = "loop"
<1>1. /\ AtPull /\ pc \in {"data", "pull"} /\ SourceAtEof
      /\ archive \in Archives /\ HonestSizes(archive)
  BY DEF FinishData, AtPull, DeliversInv, Inv, TypeOK, TruthfulData
<1>2. /\ pinned.state = "FileReader" /\ pinned.entry = Idx
      /\ pinned.pos = chunk_processed_size
      /\ Actual = Entries[Idx].size
      /\ Entries[Idx].size \in Nat
      /\ ChunkSize(Entries, current_chunk) = Entries[Idx].size
      /\ chunk_processed_size \in Nat /\ to_skip \in Nat
      /\ chunk_processed_size + to_skip <= Entries[Idx].size
  BY <1>1, DataState
<1>3. chunk_processed_size = Entries[Idx].size
  <2>1. chunk_processed_size >= Entries[Idx].size
    BY <1>1, <1>2 DEF SourceAtEof
  <2> QED
    BY <1>2, <2>1
<1>4. Idx \in 1 .. Len(Entries) /\ Entries[Idx].size # 0
  BY <1>1, AtPullReads DEF DeliversInv, Inv
<1>5. Entries[Idx].crc32 \in {NoCrc, TrueCrc(Idx)}
  BY <1>1, <1>4 DEF TruthfulData, TrueCrc, Entries
<1>6. crc32[Idx] \in {NoCrc, TrueCrc(Idx)}
  <2>1. crc32[Idx] \in {Entries[Idx].crc32, TrueCrc(Idx)}
    BY <1>4, CurrentChunk DEF DeliversInv, Inv, CrcTrue
  <2> QED
    BY <1>5, <2>1
<1>7. ~ DataMismatch
  BY <1>1, <1>2, <1>6, CrcAtEof DEF DataMismatch, DeliversInv
<1>8. FinishChunk(chunk_processed_size)
  BY <1>3, <1>7 DEF FinishData, SizeMatches
<1> QED
  BY <1>2, <1>3, <1>8 DEF FinishChunk

LEMMA SourceImplements ==
  ASSUME TruthfulData, RefinesInv, SourceStep
  PROVE  Stream!Next \/ UNCHANGED Stream!vars
<1>1. HonestSizes(archive)
  BY DEF TruthfulData, RefinesInv, DeliversInv, Inv, TypeOK
<1>2. UNCHANGED << archive, cap, base >>
  BY FinishCrcFinds
  DEF SourceStep, OpenReader, SkipByReading, SeekSource, PullData, FinishData,
      ReadForCrc, FinishCrc
<1>3. InCall
  BY DEF SourceStep, OpenReader, NeedsReader, Reading, SkipByReading,
         SeekSource, PullData, FinishData, AtPull, ReadForCrc, FinishCrc,
         InCall
<1>4. Len(out) < cap
  <2>1. CASE OpenReader
    <3>1. Remaining > 0 /\ cap \in Nat /\ Len(out) \in Nat
      BY <2>1 DEF OpenReader, NeedsReader, Reading, RefinesInv, DeliversInv,
                  Inv, TypeOK
    <3> QED
      BY <3>1 DEF Remaining
  <2>2. CASE ~ OpenReader
    BY <2>2 DEF SourceStep, SkipByReading, SeekSource, PullData, FinishData,
                AtPull, ReadForCrc, FinishCrc, RefinesInv, RoomFits
  <2> QED
    BY <2>1, <2>2
<1>5. CASE (ReturnsPending \/ ReturnsIoError) /\ UNCHANGED out
  BY <1>1, <1>2, <1>3, <1>4, <1>5, GivesUpImplements
<1>6. CASE InCall'
  BY <1>2, <1>3, <1>6, InnerStutters
<1>7. CASE OpenReader
  BY <1>3, <1>5, <1>6, <1>7 DEF OpenReader, Opened, InCall
<1>8. CASE SkipByReading
  BY <1>3, <1>5, <1>6, <1>8 DEF SkipByReading, AfterSkipEof, InCall
<1>9. CASE SeekSource
  <2>1. pc' # "panicked"
    BY <1>9, SeekSourceFits
  <2> QED
    BY <1>3, <1>5, <1>6, <1>9, <2>1 DEF SeekSource, Panics, InCall
<1>10. CASE PullData
  BY <1>3, <1>5, <1>6, <1>10 DEF PullData, InCall
<1>11. CASE FinishData
  BY <1>6, <1>11, FinishDataSucceeds DEF RefinesInv, InCall
<1>12. CASE ReadForCrc
  BY <1>3, <1>5, <1>6, <1>12 DEF ReadForCrc, InCall
<1>13. CASE FinishCrc
  BY <1>6, <1>13, FinishCrcFinds DEF RefinesInv, DeliversInv, InCall
<1> QED
  BY <1>7, <1>8, <1>9, <1>10, <1>11, <1>12, <1>13 DEF SourceStep

(* The reader is the file that ZipStream describes: reads deliver           *)
(* consecutive bytes, report the end of the file only there and nothing    *)
(* while they are pending, and, with the data the entries promised, no     *)
(* read reports a mismatch or panics (Reader::poll_read, start_seek).      *)
THEOREM ReaderIsStream ==
  ASSUME TruthfulData, SeeksAfterError
  PROVE  Spec => ImplementsStream
<1>1. Init => RefinesInv /\ Stream!Init
  BY RefinesInit, InitImplements
<1>2. RefinesInv /\ [Next]_vars => RefinesInv'
  BY RefinesNext
<1>3. RefinesInv /\ [Next]_vars => [Stream!Next]_(Stream!vars)
  <2> SUFFICES ASSUME RefinesInv, [Next]_vars
               PROVE  Stream!Next \/ UNCHANGED Stream!vars
    OBVIOUS
  <2>1. HonestSizes(archive)
    BY DEF TruthfulData, RefinesInv, DeliversInv, Inv, TypeOK
  <2>2. CASE UNCHANGED vars
    BY <2>2 DEF vars, Stream!vars, InCall, StreamStatus
  <2> QED
    BY <2>1, <2>2, CallerImplements, LoopImplements, SourceImplements DEF Next
<1> QED
  BY <1>1, <1>2, <1>3, PTL DEF Spec, ImplementsStream, Stream!Spec

-----------------------------------------------------------------------------
(* tell() when every source answers at once.                               *)

(* The position is moved at the end of a call, and data is asked for only  *)
(* before anything was written.                                            *)
TellFits ==
  /\ pc # "panicked" => position = IF InCall THEN base ELSE base + Len(out)
  /\ pc \in {"data", "pull"} => out = << >>

LEMMA TellInit ==
  ASSUME Init
  PROVE  TellFits
<1>1. pc = "idle" /\ position = 0 /\ base = 0 /\ out = << >>
  BY DEF Init
<1>2. Len(out) = 0
  BY <1>1, EmptySeq
<1> QED
  BY <1>1, <1>2 DEF TellFits, InCall

LEMMA TellNext ==
  ASSUME ~ CanPend, ~ CanFail, Inv, TellFits, [Next]_vars
  PROVE  TellFits'
<1>1. /\ position \in Nat /\ base \in Nat /\ Len(out) \in Nat
      /\ ~ ReturnsPending /\ ~ ReturnsIoError
  BY DEF Inv, TypeOK, ReturnsPending, ReturnsIoError
<1>2. ASSUME NEW n \in ReadSizes, PollRead(n)
      PROVE  TellFits'
  BY <1>1, <1>2 DEF PollRead, TellFits, InCall
<1>3. ASSUME NEW offset \in Nat, SeekFromStart(offset), Returns("None", 0)
      PROVE  TellFits'
  <2>1. /\ pc' = "idle" /\ position' = offset /\ base' = offset
        /\ out' = << >>
    BY <1>3 DEF SeekFromStart, Returns
  <2>2. Len(out') = 0
    BY <2>1, EmptySeq
  <2> QED
    BY <2>1, <2>2 DEF TellFits, InCall
<1>4. ASSUME NEW origin \in Nat, NEW d \in Int, StartSeek(origin, d)
      PROVE  TellFits'
  <2>1. CASE ~ (origin + d < 0) /\ ~ (origin + d > U64Max)
    BY <1>3, <1>4, <2>1 DEF StartSeek
  <2>2. CASE origin + d < 0 \/ origin + d > U64Max
    BY <1>4, <2>2 DEF StartSeek, Returns, Panics, TellFits, InCall
  <2> QED
    BY <2>1, <2>2
<1>5. ASSUME NEW d \in SeekOffsets,
             SeekStart(d) \/ SeekCurrent(d) \/ SeekEnd(d)
      PROVE  TellFits'
  <2>1. /\ d \in Int /\ 0 \in Nat /\ archive.total_size \in Nat
    BY ReaderAssumption, ArchiveTypes DEF Inv, TypeOK
  <2> QED
    BY <1>1, <1>4, <1>5, <2>1 DEF SeekStart, SeekCurrent, SeekEnd
<1>6. CASE TakePinned
  BY <1>1, <1>3, <1>6 DEF TakePinned
<1>7. CASE ReturnOk
  BY <1>1, <1>7
  DEF ReturnOk, LoopEnds, Reading, PositionAfterRead, Returns, TellFits, InCall
<1> DEFINE Inner == /\ InCall /\ UNCHANGED << position, base >>
                    /\ \/ pc' \in {"loop", "crc", "panicked"}
                       \/ pc' = "data" /\ out' = << >>
<1>8. Inner => TellFits'
  BY DEF TellFits, InCall
<1>9. ReadFromStaging \/ SkipChunk \/ PollSpentFuture => Inner
  BY DEF ReadFromStaging, SkipChunk, PollSpentFuture, NeedsReader, Reading,
         Panics, InCall
<1>10. ReadLocalHeaderOrEocd \/ ReadCrcStructure => Inner
  BY DEF ReadLocalHeaderOrEocd, ReadCrcStructure, ReadStructure, FinishChunk,
         Reading, Panics, InCall
<1>11. UseOpenReader \/ OpenReader => Inner
  BY <1>1 DEF UseOpenReader, OpenReader, Opened, WantsData, NeedsReader,
              Reading, InCall
<1>12. CASE SkipByReading \/ SeekSource
  BY <1>1, <1>12 DEF SkipByReading, SeekSource, Panics, TellFits, InCall
<1>13. PullData => Inner
  BY <1>1 DEF PullData, AtPull, InCall
<1>14. CASE FinishData
  <2>1. /\ out = << >> /\ InCall /\ position = base
        /\ UNCHANGED << position, base, out >>
    BY <1>14 DEF FinishData, AtPull, TellFits, InCall
  <2>2. Len(out) = 0
    BY <2>1, EmptySeq
  <2>3. pc' \in {"idle", "loop", "panicked"}
    BY <1>14 DEF FinishData, FinishChunk, Returns, Panics
  <2> QED
    BY <1>1, <2>1, <2>2, <2>3 DEF TellFits, InCall
<1>15. ReadForCrc \/ FinishCrc => Inner
  BY <1>1 DEF ReadForCrc, FinishCrc, Panics, InCall
<1>16. CASE UNCHANGED vars
  BY <1>16 DEF TellFits, InCall, vars
<1> QED
  BY <1>2, <1>5, <1>6, <1>7, <1>8, <1>9, <1>10, <1>11, <1>12, <1>13, <1>14,
     <1>15, <1>16 DEF Next, CallerStep, LoopStep, SourceStep

(* With sources that answer at once, tell() is between calls the position  *)
(* of the next byte, after reads of every size, seeks of every kind and    *)
(* data that is not what it said (Reader::tell, the end of                 *)
(* ReadState::read).                                                       *)
THEOREM TellIsNextByte ==
  ASSUME ~ CanPend, ~ CanFail
  PROVE  Spec => []TellIsCursor
<1>1. Init => Inv /\ CursorFits /\ TellFits
  BY InitInv, CursorInit, TellInit
<1>2. Inv /\ CursorFits /\ TellFits /\ [Next]_vars
        => Inv' /\ CursorFits' /\ TellFits'
  BY NextInv, CursorNext, TellNext
<1>3. Inv /\ CursorFits /\ TellFits => TellIsCursor
  BY DEF CursorFits, TellFits, TellIsCursor, InCall
<1> QED
  BY <1>1, <1>2, <1>3, PTL DEF Spec

=============================================================================
