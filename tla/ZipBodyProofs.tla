--------------------------- MODULE ZipBodyProofs ---------------------------
(***************************************************************************)
(* Proofs about ZipBody for every archive, every range that is asked for,  *)
(* every way the sources answer and every time the server drops the body:  *)
(* what is sent is what was promised, the expect in Body::poll_next holds, *)
(* a complete download is one of data that was as promised, and the reader *)
(* that is given back knows what was sent.                                 *)
(*                                                                         *)
(* The body keeps what the theorems about the reader ask of a caller: it   *)
(* does not poll after an error, and a seek of it is never refused.        *)
(***************************************************************************)
EXTENDS ZipBody, ZipReaderRefines

-----------------------------------------------------------------------------
(* The reader, as the body uses it.                                        *)

(* Ready(Ok) with nothing written is the end of the file, unless there was *)
(* no room.                                                                *)
OkFits ==
  pc = "idle" /\ result.kind = "Ok" /\ out = << >> =>
    cap = 0 \/ Cursor >= archive.total_size

(* A call that is pending has written nothing. *)
PendFits == pc = "idle" /\ result.kind = "Pending" => out = << >>

ReaderServes ==
  /\ RefinesInv
  /\ GivenKept
  /\ CountFits
  /\ CursorFits
  /\ pc # "panicked"
  /\ OkFits
  /\ PendFits

LEMMA ServesInv ==
  ASSUME ReaderServes
  PROVE  Inv /\ DeliversInv /\ RefinesInv
BY DEF ReaderServes, RefinesInv, DeliversInv

LEMMA ServesStutter ==
  ASSUME ReaderServes, UNCHANGED vars
  PROVE  ReaderServes'
<1>1. RefinesInv /\ GivenKept /\ Inv
  BY ServesInv DEF ReaderServes
<1>2. RefinesInv'
  <2>1. DeliversInv'
    BY <1>1, DeliversNext DEF RefinesInv
  <2> QED
    BY <1>1, <2>1 DEF RefinesInv, RoomFits, SkippedFirst, Sound, SourceFits,
                      Failed, vars
<1>3. GivenKept' /\ CursorFits'
  BY <1>1, GivenKeptNext, CursorNext DEF ReaderServes
<1>4. CountFits'
  BY DEF ReaderServes, CountFits, vars, Entries, Idx, Actual, SourceAtEof
<1>5. OkFits' /\ PendFits' /\ pc' = pc
  BY DEF ReaderServes, OkFits, PendFits, vars, Cursor
<1> QED
  BY <1>2, <1>3, <1>4, <1>5 DEF ReaderServes

LEMMA ServesInit ==
  ASSUME Init
  PROVE  ReaderServes
<1>1. pc = "idle" /\ result.kind = "None"
  BY DEF Init
<1> QED
  BY <1>1, RefinesInit, CheckedInit, CursorInit
  DEF ReaderServes, CheckedInv, OkFits, PendFits

LEMMA ServesSeek ==
  ASSUME ReaderServes, NEW offset \in Nat, SeekFromStart(offset),
         Returns("None", 0)
  PROVE  ReaderServes'
<1>1. Inv /\ DeliversInv /\ RefinesInv
  BY ServesInv
<1>2. RefinesInv'
  BY <1>1, SeekFromStartInv, SeekDelivers, SeekRefines
  DEF RefinesInv, DeliversInv
<1>3. pc' = "idle" /\ result'.kind = "None" /\ UNCHANGED << archive, crc32 >>
  BY DEF SeekFromStart, Returns
<1>4. GivenKept'
  BY <1>3 DEF ReaderServes, GivenKept, Entries
<1> QED
  BY <1>1, <1>2, <1>3, <1>4, SeekCounts, SeekCursor
  DEF ReaderServes, OkFits, PendFits

LEMMA ServesPoll ==
  ASSUME ReaderServes, NEW n \in Nat, PollRead(n), result.kind \notin ReadErrors
  PROVE  ReaderServes'
<1>1. Inv /\ DeliversInv /\ RefinesInv
  BY ServesInv
<1>2. result.kind # "Io" /\ result.kind # "SizeMismatch"
  BY DEF ReadErrors
<1>3. RefinesInv'
  BY <1>1, <1>2, PollReadInv, PollReadDelivers, PollReadRefines
  DEF RefinesInv, DeliversInv
<1>4. pc' = "loop" /\ UNCHANGED << archive, crc32 >>
  BY DEF PollRead
<1>5. GivenKept'
  BY <1>4 DEF ReaderServes, GivenKept, Entries
<1> QED
  BY <1>1, <1>2, <1>3, <1>4, <1>5, PollReadCounts, PollReadCursor
  DEF ReaderServes, OkFits, PendFits

(* No assertion of the reader fails during a call. *)
LEMMA RunsOn ==
  ASSUME RefinesInv, pc # "panicked", LoopStep \/ SourceStep
  PROVE  RefinesInv' /\ pc' # "panicked"
<1>1. Inv /\ DeliversInv
  BY DEF RefinesInv, DeliversInv
<1>2. DeliversInv' /\ Inv'
  BY <1>1, DeliversNext DEF Next, DeliversInv
<1>3. RoomFits' /\ SkippedFirst' /\ SourceFits'
  BY LoopRefines, OpenReaderRefines, SkipByReadingRefines, SeekSourceRefines,
     PullDataRefines, FinishDataRefines, ReadForCrcRefines, FinishCrcRefines
  DEF SourceStep
<1>4. result'.kind \notin {"ChunkProcessed", "CrcUnknown"}
  BY <1>2 DEF Inv, NoAssertionFails
<1>5. ASSUME NEW n, FinishChunk(n)
      PROVE  pc' # "panicked"
  BY <1>4, <1>5 DEF FinishChunk, Panics
<1>6. ~ PollSpentFuture
  BY DEF PollSpentFuture, NeedsReader, Reading, RefinesInv, SourceFits, Failed
<1>7. RefinesInv'
  BY <1>2, <1>3 DEF RefinesInv
<1> SUFFICES pc' # "panicked"
  BY <1>7
<1>8. CASE LoopStep
  <2>1. CASE ReturnOk \/ ReadFromStaging \/ SkipChunk \/ UseOpenReader
    BY <2>1 DEF ReturnOk, Returns, ReadFromStaging, SkipChunk, UseOpenReader,
                Opened
  <2>2. CASE ReadLocalHeaderOrEocd \/ ReadCrcStructure
    BY <1>5, <2>2 DEF ReadLocalHeaderOrEocd, ReadCrcStructure, ReadStructure
  <2> QED
    BY <1>6, <1>8, <2>1, <2>2 DEF LoopStep
<1>9. CASE SourceStep
  <2>1. CASE OpenReader \/ SkipByReading \/ PullData \/ ReadForCrc
    BY <2>1 DEF OpenReader, Opened, SkipByReading, AfterSkipEof, PullData,
                ReadForCrc, ReturnsPending, ReturnsIoError, Returns
  <2>2. CASE SeekSource
    BY <2>2, SeekSourceFits
  <2>3. CASE FinishData
    BY <1>5, <2>3 DEF FinishData, Returns
  <2>4. CASE FinishCrc
    BY <1>4, <2>4 DEF FinishCrc, Panics
  <2> QED
    BY <1>9, <2>1, <2>2, <2>3, <2>4 DEF SourceStep
<1> QED
  BY <1>8, <1>9

LEMMA RunKeeps ==
  ASSUME LoopStep \/ SourceStep
  PROVE  UNCHANGED << archive, cap, base >>
BY DEF LoopStep, SourceStep, ReturnOk, ReadFromStaging, SkipChunk,
       ReadLocalHeaderOrEocd, ReadCrcStructure, UseOpenReader,
       PollSpentFuture, OpenReader, SkipByReading, SeekSource, PullData,
       FinishData, ReadForCrc, FinishCrc

(* How a call comes back. *)
LEMMA ReturnFits ==
  ASSUME ReaderServes, LoopStep \/ SourceStep, pc' = "idle"
  PROVE  \/ ReturnOk
         \/ result'.kind = PendingKind /\ out' = out
         \/ result'.kind \in ReadErrors
<1>1. Inv
  BY ServesInv
<1>2. CASE LoopStep
  <2>1. CASE ReadFromStaging \/ SkipChunk \/ UseOpenReader \/ PollSpentFuture
    BY <2>1 DEF ReadFromStaging, SkipChunk, UseOpenReader, Opened,
                PollSpentFuture, Panics
  <2>2. CASE ReadLocalHeaderOrEocd \/ ReadCrcStructure
    BY <2>2 DEF ReadLocalHeaderOrEocd, ReadCrcStructure, ReadStructure,
                FinishChunk, Panics
  <2> QED
    BY <1>2, <2>1, <2>2 DEF LoopStep
<1>3. CASE SourceStep
  <2>1. CASE OpenReader
    BY <2>1 DEF OpenReader, Opened, ReturnsPending, ReturnsIoError, Returns,
                ReadErrors
  <2>2. CASE SkipByReading \/ SeekSource \/ ReadForCrc
    BY <2>2 DEF SkipByReading, AfterSkipEof, SeekSource, Panics, ReadForCrc,
                ReturnsPending, ReturnsIoError, Returns, ReadErrors
  <2>3. CASE PullData
    BY <2>3 DEF PullData, ReturnsPending, ReturnsIoError, Returns, ReadErrors
  <2>4. CASE FinishData
    BY <2>4 DEF FinishData, FinishChunk, Panics, Returns, ReadErrors
  <2>5. CASE FinishCrc
    BY <2>5 DEF FinishCrc, Panics
  <2> QED
    BY <1>3, <2>1, <2>2, <2>3, <2>4, <2>5 DEF SourceStep
<1> QED
  BY <1>2, <1>3

(* The call ends with nothing written: no room, or the end of the file. *)
LEMMA ReturnOkFits ==
  ASSUME ReaderServes, ReturnOk, out = << >>
  PROVE  cap = 0 \/ Cursor' >= archive.total_size
<1>1. /\ Inv /\ Len(out) = 0 /\ cap \in Nat /\ to_skip \in Nat
      /\ archive.total_size \in Nat
  BY ServesInv, EmptySeq, ArchiveTypes DEF Inv, TypeOK
<1>2. /\ \/ Remaining = 0
         \/ staging_buffer = << >> /\ current_chunk = Finished
      /\ UNCHANGED << archive, readState >>
  BY DEF ReturnOk, LoopEnds, BreaksBeforeData
<1>3. CASE Remaining = 0
  BY <1>1, <1>3 DEF Remaining
<1>4. CASE staging_buffer = << >> /\ current_chunk = Finished
  <2>1. Len(staging_buffer) = 0
    BY <1>4, EmptySeq
  <2>2. chunk_processed_size = 0
    BY <1>1, <1>4 DEF Inv, ProcessedFits, Finished, Chunk
  <2>3. ChunkStart(archive, current_chunk) = archive.total_size
    BY <1>4 DEF ChunkStart, Finished, Chunk
  <2>4. Cursor = archive.total_size + 0 - 0 + to_skip
    BY <2>1, <2>2, <2>3 DEF Cursor
  <2>5. Cursor' = Cursor
    BY <1>2 DEF Cursor, readState
  <2> QED
    BY <1>1, <2>4, <2>5
<1> QED
  BY <1>2, <1>3, <1>4

LEMMA ServesRun ==
  ASSUME ReaderServes, LoopStep \/ SourceStep
  PROVE  ReaderServes' /\ UNCHANGED << archive, cap, base >>
<1>1. Inv /\ RefinesInv
  BY ServesInv
<1>2. RefinesInv' /\ pc' # "panicked"
  BY <1>1, RunsOn DEF ReaderServes
<1>3. UNCHANGED << archive, cap, base >>
  BY RunKeeps
<1>4. GivenKept' /\ CountFits' /\ CursorFits'
  BY <1>1, GivenKeptNext, LoopCounts, SourceCounts, LoopCursor, SourceCursor
  DEF ReaderServes, Next
<1>5. PendingKind = "Ok" => out # << >>
  BY DEF PendingKind
<1>6. PendingKind = "Pending" => out = << >>
  BY DEF PendingKind
<1>7. OkFits'
  <2> SUFFICES ASSUME pc' = "idle", result'.kind = "Ok", out' = << >>
               PROVE  cap = 0 \/ Cursor' >= archive.total_size
    BY <1>3 DEF OkFits
  <2>1. ReturnOk
    BY <1>5, ReturnFits DEF ReadErrors
  <2>2. out = << >>
    BY <2>1 DEF ReturnOk
  <2> QED
    BY <2>1, <2>2, ReturnOkFits
<1>8. PendFits'
  <2> SUFFICES ASSUME pc' = "idle", result'.kind = "Pending"
               PROVE  out' = << >>
    BY DEF PendFits
  <2>1. ~ ReturnOk
    BY DEF ReturnOk, Returns
  <2> QED
    BY <1>6, <2>1, ReturnFits DEF ReadErrors
<1> QED
  BY <1>2, <1>3, <1>4, <1>7, <1>8 DEF ReaderServes

-----------------------------------------------------------------------------
(* The body.                                                               *)

(* The range lies inside the archive. *)
RequestFits ==
  /\ request[1] \in Nat /\ request[2] \in Nat
  /\ request[1] <= request[2]
  /\ request[2] < archive.total_size

(* What was sent and what remains make up what was asked for. *)
SentFits ==
  /\ body \in BodyStates
  /\ sent \in Seq(Nat) /\ remaining \in Nat
  /\ Len(sent) <= Wanted
  /\ body = "none" => sent = << >>
  /\ body \in {"open", "polling", "ended", "failed"} =>
       remaining = Wanted - Len(sent)
  /\ body = "ended" => remaining = 0
  /\ body \in {"polling", "failed"} => remaining > 0
  /\ HonestSizes(archive) => sent = Run(request[1], Len(sent))

(* The reader goes on where what was sent ends, with room for a block. *)
PlaceFits ==
  /\ body # "polling" => pc = "idle"
  /\ body = "open" =>
       /\ result.kind \notin ReadErrors
       /\ remaining # 0 => base + Len(out) = request[1] + Len(sent)
  /\ body = "polling" =>
       /\ cap = ScratchSize
       /\ base = request[1] + Len(sent)

BodyInv ==
  /\ ReaderServes
  /\ RequestFits
  /\ SentFits
  /\ PlaceFits
  /\ BodyNeverPanics

(* There is always a byte to ask for. *)
LEMMA NotEmpty ==
  ASSUME NEW a \in Archives
  PROVE  a.total_size \in Nat /\ a.total_size > 0
<1>1. /\ WellLaidOut(a)
      /\ a.total_size \in Nat /\ a.eocd_offset \in Nat
  BY ReaderAssumption, ArchiveTypes
<1>2. Eocd \in Chunks(a.entries) \ {Finished}
  BY DEF Chunks, Eocd, Finished, Chunk
<1>3. ChunkStart(a, NextChunk(a.entries, Eocd))
        = ChunkStart(a, Eocd) + ChunkSize(a.entries, Eocd)
  BY <1>1, <1>2 DEF WellLaidOut
<1>4. a.total_size = a.eocd_offset + EocdSize
  BY <1>3 DEF ChunkStart, NextChunk, ChunkSize, Eocd, Finished, Chunk
<1>5. EocdSize \in Nat /\ EocdSize > 0
  BY StructSizesAssumption DEF EocdSize
<1> QED
  BY <1>1, <1>4, <1>5

LEMMA BodyTypes ==
  ASSUME BodyInv
  PROVE  /\ archive \in Archives /\ archive.total_size \in Nat
         /\ position \in Nat /\ base \in Nat
         /\ out \in Seq(Nat) /\ Len(out) \in Nat
         /\ sent \in Seq(Nat) /\ Len(sent) \in Nat
         /\ remaining \in Nat /\ Wanted \in Nat
         /\ request[1] \in Nat /\ request[2] \in Nat
         /\ Wanted = request[2] - request[1] + 1
<1>1. Inv
  BY ServesInv DEF BodyInv
<1>2. archive \in Archives /\ archive.total_size \in Nat
  BY <1>1, NotEmpty DEF Inv, TypeOK
<1>3. sent \in Seq(Nat) /\ Len(sent) \in Nat /\ remaining \in Nat
  BY DEF BodyInv, SentFits
<1>4. /\ request[1] \in Nat /\ request[2] \in Nat
      /\ request[1] <= request[2]
  BY DEF BodyInv, RequestFits
<1> QED
  BY <1>1, <1>2, <1>3, <1>4 DEF Inv, TypeOK, Wanted

LEMMA BodyStarts ==
  ASSUME BodyInit
  PROVE  BodyInv
<1>1. /\ Init /\ body = "none" /\ remaining = 0 /\ sent = << >>
      /\ request = << 0, archive.total_size - 1 >>
      /\ pc = "idle" /\ archive \in Archives
  BY DEF BodyInit, Init
<1>2. archive.total_size \in Nat /\ archive.total_size > 0
  BY <1>1, NotEmpty
<1>3. /\ request[1] = 0 /\ request[2] = archive.total_size - 1
  BY <1>1
<1>4. RequestFits
  BY <1>2, <1>3 DEF RequestFits
<1>5. Len(sent) = 0 /\ sent = Run(0, 0) /\ sent \in Seq(Nat)
  BY <1>1, EmptySeq, RunEmpty
<1>6. SentFits
  BY <1>1, <1>2, <1>3, <1>5 DEF SentFits, BodyStates, Wanted
<1>7. PlaceFits /\ BodyNeverPanics
  BY <1>1 DEF PlaceFits, BodyNeverPanics
<1> QED
  BY <1>1, <1>4, <1>6, <1>7, ServesInit DEF BodyInv

LEMMA RespondKeeps ==
  ASSUME BodyInv, NEW first \in 0 .. archive.total_size - 1,
         NEW last \in first .. archive.total_size - 1, Respond(first, last)
  PROVE  BodyInv'
<1>1. archive.total_size \in Nat
  BY BodyTypes
<1>2. /\ first \in Nat /\ last \in Nat /\ first <= last
      /\ last < archive.total_size
  BY <1>1
<1>3. /\ body = "none" /\ body' = "open"
      /\ request' = << first, last >> /\ remaining' = last - first + 1
      /\ SeekFromStart(first) /\ Returns("None", 0)
      /\ sent' = sent
  BY DEF Respond, RangeLength
<1>4. ReaderServes'
  BY <1>2, <1>3, ServesSeek DEF BodyInv
<1>5. /\ archive' = archive /\ pc' = "idle" /\ result'.kind = "None"
      /\ base' = first /\ out' = << >>
  BY <1>3 DEF SeekFromStart, Returns
<1>6. request'[1] = first /\ request'[2] = last
  BY <1>3
<1>7. RequestFits'
  BY <1>2, <1>5, <1>6 DEF RequestFits
<1>8. /\ sent' = << >> /\ Len(sent') = 0 /\ Len(out') = 0
      /\ sent' \in Seq(Nat) /\ sent' = Run(first, 0)
  BY <1>2, <1>3, <1>5, EmptySeq, RunEmpty DEF BodyInv, SentFits
<1>9. SentFits'
  BY <1>2, <1>3, <1>6, <1>8 DEF SentFits, BodyStates, Wanted
<1>10. PlaceFits' /\ BodyNeverPanics'
  BY <1>2, <1>3, <1>5, <1>6, <1>8
  DEF PlaceFits, BodyNeverPanics, ReadErrors
<1> QED
  BY <1>4, <1>7, <1>9, <1>10 DEF BodyInv

(* Whatever was asked for or sent, the body may be dropped between polls. *)
LEMMA DropKeeps ==
  ASSUME BodyInv, Refuse \/ Drop
  PROVE  /\ BodyInv'
         /\ UNCHANGED << archive, crc32, request, remaining, sent >>
<1>1. /\ body # "polling" /\ body' = "dropped"
      /\ UNCHANGED << request, remaining, sent >>
      /\ \/ SeekFromStart(position) /\ Returns("None", 0)
         \/ UNCHANGED vars
  BY DEF Refuse, Drop, DropInner
<1>2. ReaderServes' /\ pc' = "idle" /\ UNCHANGED << archive, crc32 >>
  <2>1. CASE SeekFromStart(position) /\ Returns("None", 0)
    BY <2>1, BodyTypes, ServesSeek DEF BodyInv, SeekFromStart, Returns
  <2>2. CASE UNCHANGED vars
    <3>1. pc = "idle"
      BY <1>1 DEF BodyInv, PlaceFits
    <3> QED
      BY <2>2, <3>1, ServesStutter DEF BodyInv, vars
  <2> QED
    BY <1>1, <2>1, <2>2
<1>3. RequestFits' /\ Wanted' = Wanted
  BY <1>1, <1>2 DEF BodyInv, RequestFits, Wanted
<1>4. SentFits'
  BY <1>1, <1>2, <1>3 DEF BodyInv, SentFits, BodyStates
<1>5. PlaceFits' /\ BodyNeverPanics'
  BY <1>1, <1>2 DEF PlaceFits, BodyNeverPanics
<1> QED
  BY <1>1, <1>2, <1>3, <1>4, <1>5 DEF BodyInv

LEMMA PollNextKeeps ==
  ASSUME BodyInv, PollNext
  PROVE  BodyInv'
<1>1. /\ body = "open" /\ UNCHANGED << request, remaining, sent >>
      /\ result.kind \notin ReadErrors
      /\ remaining # 0 => base + Len(out) = request[1] + Len(sent)
  BY DEF PollNext, BodyInv, PlaceFits
<1>2. remaining \in Nat
  BY BodyTypes
<1>3. CASE remaining = 0
  <2>1. body' = "ended" /\ UNCHANGED vars
    BY <1>3 DEF PollNext
  <2>2. ReaderServes' /\ archive' = archive /\ pc' = "idle"
    BY <1>1, <2>1, ServesStutter DEF BodyInv, PlaceFits, vars
  <2>3. RequestFits' /\ Wanted' = Wanted
    BY <1>1, <2>2 DEF BodyInv, RequestFits, Wanted
  <2>4. SentFits'
    BY <1>1, <1>3, <2>1, <2>2, <2>3 DEF BodyInv, SentFits, BodyStates
  <2> QED
    BY <2>1, <2>2, <2>3, <2>4 DEF BodyInv, PlaceFits, BodyNeverPanics
<1>4. CASE remaining # 0
  <2>1. body' = "polling" /\ PollRead(ScratchSize)
    BY <1>4 DEF PollNext
  <2>2. ReaderServes'
    BY <1>1, <2>1, ReaderAssumption, ServesPoll DEF BodyInv
  <2>3. archive' = archive /\ cap' = ScratchSize /\ base' = base + Len(out)
    BY <2>1 DEF PollRead
  <2>4. RequestFits' /\ Wanted' = Wanted
    BY <1>1, <2>3 DEF BodyInv, RequestFits, Wanted
  <2>5. SentFits'
    BY <1>1, <1>2, <1>4, <2>1, <2>3, <2>4 DEF BodyInv, SentFits, BodyStates
  <2>6. PlaceFits'
    BY <1>1, <1>4, <2>1, <2>3 DEF PlaceFits
  <2> QED
    BY <2>1, <2>2, <2>4, <2>5, <2>6 DEF BodyInv, BodyNeverPanics
<1> QED
  BY <1>3, <1>4

LEMMA ReaderRunsKeeps ==
  ASSUME BodyInv, ReaderRuns
  PROVE  BodyInv'
<1>1. /\ body = "polling" /\ UNCHANGED << request, body, remaining, sent >>
      /\ LoopStep \/ SourceStep
  BY DEF ReaderRuns, bodyVars
<1>2. ReaderServes' /\ UNCHANGED << archive, cap, base >>
  BY <1>1, ServesRun DEF BodyInv
<1>3. RequestFits' /\ SentFits' /\ PlaceFits' /\ BodyNeverPanics'
  BY <1>1, <1>2
  DEF BodyInv, RequestFits, SentFits, PlaceFits, BodyNeverPanics, Wanted
<1> QED
  BY <1>2, <1>3 DEF BodyInv

(* The reader has not come to the end of the file: the byte at base is     *)
(* still wanted, and lies inside it.                                       *)
LEMMA BlockComes ==
  ASSUME BodyInv, body = "polling", pc = "idle", result.kind = "Ok"
  PROVE  out # << >>
<1>1. /\ base = request[1] + Len(sent) /\ cap = ScratchSize
      /\ remaining = request[2] - request[1] + 1 - Len(sent)
      /\ remaining > 0 /\ request[2] < archive.total_size
  BY DEF BodyInv, PlaceFits, SentFits, RequestFits, Wanted
<1>2. base < archive.total_size
  BY <1>1, BodyTypes
<1> SUFFICES ASSUME out = << >>
             PROVE  FALSE
  OBVIOUS
<1>3. Len(out) = 0
  BY EmptySeq
<1>4. Cursor = base
  BY <1>3, BodyTypes DEF BodyInv, ReaderServes, CursorFits
<1>5. cap = 0 \/ Cursor >= archive.total_size
  BY DEF BodyInv, ReaderServes, OkFits
<1> QED
  BY <1>1, <1>2, <1>4, <1>5, BodyTypes, ReaderAssumption

(* What of a block is passed on. *)
LEMMA LimitedFits ==
  ASSUME BodyInv
  PROVE  /\ Limited \in Seq(Nat) /\ Len(Limited) \in Nat
         /\ RemainingAfter = remaining - Len(Limited)
         /\ RemainingAfter \in Nat
         /\ RemainingAfter # 0 => Len(Limited) = Len(out)
         /\ HonestSizes(archive) => Limited = Run(base, Len(Limited))
<1>1. /\ remaining \in Nat /\ base \in Nat
      /\ out \in Seq(Nat) /\ Len(out) \in Nat
  BY BodyTypes
<1>2. HonestSizes(archive) => out = Run(base, Len(out))
  BY DEF BodyInv, ReaderServes, RefinesInv, DeliversInv, Delivered
<1>3. CASE ~ (remaining < Len(out))
  <2>1. Limited = out /\ RemainingAfter = remaining - Len(out)
    BY <1>3 DEF Limited, RemainingAfter
  <2> QED
    BY <1>1, <1>2, <1>3, <2>1
<1>4. CASE remaining < Len(out)
  <2> DEFINE s == SubSeq(out, 1, remaining)
  <2>1. Limited = s /\ RemainingAfter = 0
    BY <1>4 DEF Limited, RemainingAfter
  <2>2. \A k \in 1 .. remaining : out[k] \in Nat
    <3> SUFFICES ASSUME NEW k \in 1 .. remaining
                 PROVE  out[k] \in Nat
      OBVIOUS
    <3>1. k \in 1 .. Len(out)
      BY <1>1, <1>4
    <3> QED
      BY <1>1, <3>1, ElementOfSeq
  <2>3. s \in Seq(Nat) /\ Len(s) = remaining
    <3>1. /\ s \in Seq(Nat)
          /\ Len(s) = IF 1 <= remaining THEN remaining - 1 + 1 ELSE 0
      BY <1>1, <2>2, SubSeqProperties
    <3> HIDE DEF s
    <3> QED
      BY <1>1, <3>1
  <2>4. ASSUME HonestSizes(archive)
        PROVE  s = Run(base, remaining)
    <3> DEFINE n == Len(out)
    <3>1. out = Run(base, n) /\ n \in Nat
      BY <1>1, <1>2, <2>4
    <3>2. 0 \in 0 .. n /\ remaining \in 0 .. n
      BY <1>1, <1>4
    <3> HIDE DEF n
    <3>3. SubSeq(Run(base, n), 0 + 1, remaining) = Run(base + 0, remaining - 0)
      BY <1>1, <3>1, <3>2, RunSubSeq
    <3>4. 0 + 1 = 1 /\ base + 0 = base /\ remaining - 0 = remaining
      BY <1>1
    <3> QED
      BY <3>1, <3>3, <3>4
  <2> HIDE DEF s
  <2> QED
    BY <1>1, <2>1, <2>3, <2>4
<1> QED
  BY <1>3, <1>4

LEMMA TakeBlockKeeps ==
  ASSUME BodyInv, TakeBlock
  PROVE  /\ BodyInv'
         /\ body' = "open" /\ remaining' = RemainingAfter
         /\ UNCHANGED << vars, request >>
         /\ Len(sent') = Len(sent) + Len(Limited)
<1>1. /\ body = "polling" /\ pc = "idle" /\ result.kind = "Ok"
      /\ UNCHANGED << vars, request >>
  BY DEF TakeBlock
<1>2. body' = "open" /\ sent' = sent \o Limited /\ remaining' = RemainingAfter
  BY <1>1, BlockComes DEF TakeBlock
<1>3. ReaderServes' /\ UNCHANGED << archive, pc, result, base, out >>
  BY <1>1, ServesStutter DEF BodyInv, vars
<1>4. RequestFits' /\ Wanted' = Wanted
  BY <1>1, <1>3 DEF BodyInv, RequestFits, Wanted
<1> DEFINE n == Len(sent)
           m == Len(Limited)
<1>5. /\ sent \in Seq(Nat) /\ Limited \in Seq(Nat) /\ n \in Nat /\ m \in Nat
      /\ request[1] \in Nat /\ base \in Nat /\ Wanted \in Nat
      /\ remaining \in Nat /\ Len(out) \in Nat
  BY BodyTypes, LimitedFits
<1>6. sent' \in Seq(Nat) /\ Len(sent') = n + m
  <2> HIDE DEF n, m
  <2>1. sent \o Limited \in Seq(Nat) /\ Len(sent \o Limited) = n + m
    BY <1>5, ConcatProperties DEF n, m
  <2> QED
    BY <1>2, <2>1
<1>7. /\ remaining' = remaining - m /\ remaining' \in Nat
      /\ remaining' # 0 => m = Len(out)
  BY <1>2, LimitedFits
<1>8. /\ remaining = Wanted - n /\ base = request[1] + n
  BY <1>1 DEF BodyInv, SentFits, PlaceFits
<1>9. ASSUME HonestSizes(archive)
      PROVE  sent' = Run(request[1], n + m)
  <2>1. sent = Run(request[1], n) /\ Limited = Run(request[1] + n, m)
    BY <1>8, <1>9, LimitedFits DEF BodyInv, SentFits
  <2> HIDE DEF n, m
  <2>2. Run(request[1], n) \o Run(request[1] + n, m) = Run(request[1], n + m)
    BY <1>5, RunConcat
  <2> QED
    BY <1>2, <2>1, <2>2
<1> HIDE DEF n, m
<1>10. SentFits'
  <2>1. remaining' = Wanted' - Len(sent') /\ Len(sent') <= Wanted'
    BY <1>4, <1>5, <1>6, <1>7, <1>8
  <2>2. HonestSizes(archive)' => sent' = Run(request'[1], Len(sent'))
    BY <1>1, <1>3, <1>6, <1>9
  <2> QED
    BY <1>2, <1>6, <1>7, <2>1, <2>2 DEF SentFits, BodyStates
<1>11. PlaceFits'
  <2>1. remaining' # 0 => base + Len(out) = request[1] + Len(sent')
    BY <1>5, <1>6, <1>7, <1>8
  <2> QED
    BY <1>1, <1>2, <1>3, <2>1 DEF PlaceFits, ReadErrors
<1> QED
  BY <1>1, <1>2, <1>3, <1>4, <1>6, <1>10, <1>11
  DEF BodyInv, BodyNeverPanics, n, m

LEMMA NoBlockKeeps ==
  ASSUME BodyInv, NoBlock
  PROVE  /\ BodyInv'
         /\ UNCHANGED << vars, request, remaining, sent >>
         /\ body = "polling"
<1>1. /\ body = "polling" /\ pc # "panicked"
      /\ UNCHANGED << vars, request, remaining, sent >>
  BY DEF NoBlock, BodyInv, ReaderServes
<1>2. /\ pc = "idle"
      /\ \/ result.kind = "Pending" /\ body' = "open"
         \/ result.kind \in ReadErrors /\ body' = "failed"
  BY <1>1 DEF NoBlock
<1>3. ReaderServes' /\ UNCHANGED << archive, pc, result, base, out >>
  BY <1>1, ServesStutter DEF BodyInv, vars
<1>4. RequestFits' /\ Wanted' = Wanted
  BY <1>1, <1>3 DEF BodyInv, RequestFits, Wanted
<1>5. SentFits'
  BY <1>1, <1>2, <1>3, <1>4 DEF BodyInv, SentFits, BodyStates
<1>6. PlaceFits'
  <2>1. CASE result.kind = "Pending" /\ body' = "open"
    <3>1. Len(out) = 0 /\ base = request[1] + Len(sent) /\ base \in Nat
      BY <1>1, <1>2, <2>1, EmptySeq, BodyTypes
      DEF BodyInv, ReaderServes, PendFits, PlaceFits
    <3>2. base + Len(out) = request[1] + Len(sent)
      BY <3>1
    <3> QED
      BY <1>1, <1>2, <1>3, <2>1, <3>2 DEF PlaceFits, ReadErrors
  <2>2. CASE body' = "failed"
    BY <1>2, <1>3, <2>2 DEF PlaceFits
  <2> QED
    BY <1>2, <2>1, <2>2
<1> QED
  BY <1>1, <1>2, <1>3, <1>4, <1>5, <1>6 DEF BodyInv, BodyNeverPanics

LEMMA BodyKeeps ==
  ASSUME BodyInv, [BodyNext]_allVars
  PROVE  BodyInv'
<1>1. CASE UNCHANGED allVars
  <2>1. UNCHANGED vars /\ UNCHANGED << request, body, remaining, sent >>
    BY <1>1 DEF allVars, bodyVars
  <2>2. ReaderServes' /\ UNCHANGED << archive, pc, result, base, out, cap >>
    BY <2>1, ServesStutter DEF BodyInv, vars
  <2> QED
    BY <2>1, <2>2
    DEF BodyInv, RequestFits, SentFits, PlaceFits, BodyNeverPanics, Wanted
<1> QED
  BY <1>1, RespondKeeps, DropKeeps, PollNextKeeps, ReaderRunsKeeps,
     TakeBlockKeeps, NoBlockKeeps
  DEF BodyNext

(* The expect in Body::poll_next holds: as the total is limited, the end   *)
(* of the stream is never reached, whatever the data and the range, and    *)
(* the reader below never panics, as the body does not poll it after an    *)
(* error.                                                                  *)
THEOREM ExpectHolds == BodySpec => []BodyNeverPanics
<1>1. BodyInit => BodyInv
  BY BodyStarts
<1>2. BodyInv /\ [BodyNext]_allVars => BodyInv'
  BY BodyKeeps
<1>3. BodyInv => BodyNeverPanics
  BY DEF BodyInv
<1> QED
  BY <1>1, <1>2, <1>3, PTL DEF BodySpec

(* What was sent is the beginning of the range that was asked for, and all *)
(* of it when the body has ended, for honest data: Content-Length is kept  *)
(* (Body::poll_next, respond_to).                                          *)
THEOREM RangeIsSent == BodySpec => []BodySendsRange
<1>1. BodyInit => BodyInv
  BY BodyStarts
<1>2. BodyInv /\ [BodyNext]_allVars => BodyInv'
  BY BodyKeeps
<1>3. BodyInv => BodySendsRange
  <2> SUFFICES ASSUME BodyInv
               PROVE  BodySendsRange
    OBVIOUS
  <2>1. body = "ended" => Len(sent) = Wanted
    BY BodyTypes DEF BodyInv, SentFits
  <2> QED
    BY <2>1 DEF BodyInv, SentFits, BodySendsRange
<1> QED
  BY <1>1, <1>2, <1>3, PTL DEF BodySpec

-----------------------------------------------------------------------------
(* A reader that goes through the file from the start.                     *)

(* The chunk comes after the data of an entry, or after what follows that. *)
PastData(c, i) ==
  \/ c.kind \in {"LocalHeader", "EntryData"} /\ c.entry_index > i
  \/ c.kind = "DataDescriptor" /\ c.entry_index >= i
  \/ c.kind \in {"CDFileHeader", "Eocd", "Finished"}
PastDescriptor(c, i) ==
  \/ /\ c.kind \in {"LocalHeader", "EntryData", "DataDescriptor"}
     /\ c.entry_index > i
  \/ c.kind \in {"CDFileHeader", "Eocd", "Finished"}

(* The entry has the data, and the CRC if one was given, that it claims. *)
AsPromised(i) ==
  Entries[i].size # 0 =>
    /\ Entries[i].actual = Entries[i].size
    /\ Entries[i].crc32 \in {NoCrc, TrueCrc(i)}

(* Nothing is skipped, so all data is read from its start and hashed: what *)
(* lies behind the reader is honest, and its CRC known.                    *)
Straight ==
  /\ staging_buffer = << >> => to_skip = 0
  /\ ~ pinned.did_seek
  /\ \A i \in 1 .. Len(Entries) :
       /\ PastData(current_chunk, i) => AsPromised(i)
       /\ PastDescriptor(current_chunk, i) => crc32[i] # NoCrc

(* Who has read as far as byte n knows that the entries whose data ends     *)
(* before it are honest, and their CRCs, up to one whose data reaches as   *)
(* far as n.                                                               *)
DataEnd(i) == DataStart(archive, i) + Entries[i].size
CompleteTo(n) ==
  \A i \in 1 .. Len(Entries) : DataEnd(i) < n =>
    \/ AsPromised(i) /\ crc32[i] # NoCrc
    \/ \E j \in 1 .. i : Reaches(j, n)

-----------------------------------------------------------------------------
(* The chunks, in order.                                                   *)

LEMMA PassesData ==
  ASSUME NEW a \in Archives, NEW c \in Chunks(a.entries) \ {Finished},
         NEW i \in 1 .. Len(a.entries),
         PastData(NextChunk(a.entries, c), i), ~ PastData(c, i)
  PROVE  c.kind = "EntryData" /\ c.entry_index = i
<1>1. Len(a.entries) \in Nat
  BY ArchiveTypes
<1>2. c.kind \in EntryKinds /\ c.entry_index \in 1 .. Len(a.entries)
  BY ChunkCases DEF PastData
<1> QED
  BY <1>1, <1>2 DEF PastData, NextChunk, Chunk, Eocd, EntryKinds

LEMMA PassesDescriptor ==
  ASSUME NEW a \in Archives, NEW c \in Chunks(a.entries) \ {Finished},
         NEW i \in 1 .. Len(a.entries),
         PastDescriptor(NextChunk(a.entries, c), i), ~ PastDescriptor(c, i)
  PROVE  c.kind = "DataDescriptor" /\ c.entry_index = i
<1>1. Len(a.entries) \in Nat
  BY ArchiveTypes
<1>2. c.kind \in EntryKinds /\ c.entry_index \in 1 .. Len(a.entries)
  BY ChunkCases DEF PastDescriptor
<1> QED
  BY <1>1, <1>2 DEF PastDescriptor, NextChunk, Chunk, Eocd, EntryKinds

(* Structures are not empty, so what follows one starts behind it. *)
LEMMA NextStartsBehind ==
  ASSUME NEW a \in Archives, NEW k \in EntryKinds \ {"EntryData"},
         NEW i \in 1 .. Len(a.entries)
  PROVE  /\ ChunkSize(a.entries, Chunk(k, i)) > 0
         /\ ChunkStart(a, NextChunk(a.entries, Chunk(k, i)))
              > ChunkStart(a, Chunk(k, i))
<1> DEFINE c == Chunk(k, i)
<1>1. c \in Chunks(a.entries) \ {Finished}
  BY DEF Chunks, Chunk, Finished, EntryKinds
<1>2. c.kind = k /\ c.entry_index = i
  BY DEF Chunk
<1>3. /\ ChunkStart(a, c) \in Nat
      /\ ChunkStart(a, NextChunk(a.entries, c))
           = ChunkStart(a, c) + ChunkSize(a.entries, c)
  BY <1>1, ChunkStartType, ReaderAssumption DEF WellLaidOut
<1>4. a.entries[i].name_len \in Nat
  BY ArchiveTypes DEF Entry
<1>5. ChunkSize(a.entries, c) \in Nat /\ ChunkSize(a.entries, c) > 0
  <2> HIDE DEF c
  <2>1. CASE k = "LocalHeader"
    <3>1. ChunkSize(a.entries, c)
            = LocalFileHeaderSize + a.entries[i].name_len + Zip64ExtraFieldSize
      BY <1>2, <2>1 DEF ChunkSize
    <3> QED
      BY <1>4, <3>1, StructSizesAssumption
  <2>2. CASE k = "DataDescriptor"
    BY <1>2, <1>4, <2>2, StructSizesAssumption DEF ChunkSize
  <2>3. CASE k = "CDFileHeader"
    <3>1. ChunkSize(a.entries, c)
            = CentralDirectoryHeaderSize + a.entries[i].name_len
                + Zip64ExtraFieldSize
      BY <1>2, <2>3 DEF ChunkSize
    <3> QED
      BY <1>4, <3>1, StructSizesAssumption
  <2> QED
    BY <2>1, <2>2, <2>3 DEF EntryKinds
<1> HIDE DEF c
<1> QED
  BY <1>3, <1>5 DEF c

(* Byte 0 is in the first chunk, and in no other. *)
LEMMA StartsAtFirst ==
  ASSUME archive \in Archives, NEW i \in 1 .. Len(Entries)
  PROVE  SeekTarget(0) = Chunk("LocalHeader", 1)
<1> DEFINE n == Len(Entries)
<1>1. n \in Nat /\ WellLaidOut(archive) /\ Entries = archive.entries
  BY ArchiveTypes, ReaderAssumption DEF Entries
<1>2. 1 \in 1 .. n /\ n \in 1 .. n /\ Entries # << >>
  BY <1>1, EmptySeq
<1>3. \A k \in EntryKinds, j \in 1 .. n :
        ChunkStart(archive, Chunk(k, j)) \in Nat
  <2> TAKE k \in EntryKinds, j \in 1 .. n
  <2>1. Chunk(k, j) \in Chunks(Entries)
    BY DEF Chunks, Chunk, EntryKinds
  <2> QED
    BY <1>1, <2>1, ChunkStartType
<1>4. archive.cd_offset > 0 /\ archive.cd_offset \in Nat
  <2>1. NextChunk(Entries, Chunk("DataDescriptor", n)) = Chunk("CDFileHeader", 1)
    BY <1>1 DEF NextChunk, Chunk
  <2>2. ChunkStart(archive, Chunk("CDFileHeader", 1)) = archive.cd_offset
    BY <1>1 DEF ChunkStart, Chunk, WellLaidOut
  <2>3. ChunkStart(archive, Chunk("DataDescriptor", n)) \in Nat
    BY <1>2, <1>3 DEF EntryKinds
  <2>4. archive.cd_offset > ChunkStart(archive, Chunk("DataDescriptor", n))
    BY <1>1, <1>2, <2>1, <2>2, NextStartsBehind DEF EntryKinds
  <2>5. archive.cd_offset \in Nat
    BY ArchiveTypes
  <2> QED
    BY <2>3, <2>4, <2>5
<1>5. archive.eocd_offset > 0 /\ archive.eocd_offset \in Nat
  <2>1. NextChunk(Entries, Chunk("CDFileHeader", n)) = Eocd
    BY <1>1 DEF NextChunk, Chunk
  <2>2. ChunkStart(archive, Eocd) = archive.eocd_offset
    BY DEF ChunkStart, Chunk, Eocd
  <2>3. archive.eocd_offset \in Nat
    BY ArchiveTypes
  <2>4. ChunkStart(archive, Chunk("CDFileHeader", n)) \in Nat
    BY <1>2, <1>3 DEF EntryKinds
  <2>5. archive.eocd_offset > ChunkStart(archive, Chunk("CDFileHeader", n))
    BY <1>1, <1>2, <2>1, <2>2, NextStartsBehind DEF EntryKinds
  <2> QED
    BY <2>3, <2>4, <2>5
<1>6. EntryAt(0) \in 1 .. n /\ Entries[EntryAt(0)].offset <= 0
  BY <1>2, EntryAtFinds
<1>7. ASSUME NEW j \in 1 .. n, j # 1
      PROVE  Entries[j].offset > 0
  <2>1. j - 1 \in 1 .. n /\ j - 1 + 1 = j /\ j <= n
    BY <1>1, <1>7
  <2>2. NextChunk(Entries, Chunk("DataDescriptor", j - 1))
          = Chunk("LocalHeader", j)
    BY <1>1, <2>1 DEF NextChunk, Chunk
  <2>3. ChunkStart(archive, Chunk("LocalHeader", j)) = Entries[j].offset
    BY DEF ChunkStart, Chunk, Entries
  <2>4. /\ ChunkStart(archive, Chunk("DataDescriptor", j - 1)) \in Nat
        /\ ChunkStart(archive, Chunk("LocalHeader", j)) \in Nat
    BY <1>3, <2>1 DEF EntryKinds
  <2>5. ChunkStart(archive, Chunk("LocalHeader", j))
          > ChunkStart(archive, Chunk("DataDescriptor", j - 1))
    BY <1>1, <2>1, <2>2, NextStartsBehind DEF EntryKinds
  <2> QED
    BY <2>3, <2>4, <2>5
<1>8. EntryAt(0) = 1
  <2>1. Entries[EntryAt(0)].offset \in Nat
    BY <1>1, <1>6, ArchiveTypes DEF Entry
  <2> QED
    BY <1>6, <1>7, <2>1
<1> QED
  BY <1>4, <1>5, <1>8 DEF SeekTarget

-----------------------------------------------------------------------------
(* The reader goes straight on.                                            *)

LEMMA SeekStraight ==
  ASSUME ReaderServes, SeekFromStart(0)
  PROVE  Straight'
<1>1. archive \in Archives /\ Entries' = Entries
  BY ServesInv DEF Inv, TypeOK, SeekFromStart, Entries
<1>2. /\ current_chunk' = SeekTarget(0)
      /\ to_skip' = 0 - ChunkStart(archive, SeekTarget(0))
      /\ pinned' = Nothing
  BY DEF SeekFromStart, PinnedAfterSeek
<1>3. to_skip' = 0
  <2>1. SeekTarget(0) \in Chunks(Entries)
    BY <1>1, SeekTargetFits
  <2>2. /\ 0 - ChunkStart(archive, SeekTarget(0)) \in Nat
        /\ ChunkStart(archive, SeekTarget(0)) \in Nat
    BY <1>1, <2>1, SeekTargetFits, ChunkStartType DEF Entries
  <2> QED
    BY <1>2, <2>2
<1>4. ASSUME NEW i \in 1 .. Len(Entries)
      PROVE  /\ ~ PastData(current_chunk', i)
             /\ ~ PastDescriptor(current_chunk', i)
  <2>1. current_chunk' = Chunk("LocalHeader", 1)
    BY <1>1, <1>2, <1>4, StartsAtFirst
  <2>2. i >= 1
    BY <1>1, <1>4, ArchiveTypes DEF Entries
  <2> QED
    BY <2>1, <2>2 DEF PastData, PastDescriptor, Chunk
<1> QED
  BY <1>1, <1>2, <1>3, <1>4 DEF Straight, Nothing, Held

(* What the reader knows stays known. *)
LEMMA KeepsStraight ==
  ASSUME Straight, Inv, [Next]_vars,
         UNCHANGED << archive, current_chunk >>,
         staging_buffer' = << >> => to_skip' = 0,
         ~ pinned'.did_seek
  PROVE  Straight'
<1>1. Entries' = Entries
  BY DEF Entries
<1>2. \A i \in 1 .. Len(Entries) : crc32[i] # NoCrc => crc32'[i] # NoCrc
  BY CrcKept
<1> QED
  BY <1>1, <1>2 DEF Straight, AsPromised, TrueCrc

(* On to the next chunk. *)
LEMMA GoesOnStraight ==
  ASSUME Straight, Inv, [Next]_vars, archive' = archive,
         current_chunk # Finished,
         current_chunk' = NextChunk(Entries, current_chunk),
         staging_buffer' = << >> => to_skip' = 0,
         ~ pinned'.did_seek,
         current_chunk.kind = "EntryData" => AsPromised(Idx),
         current_chunk.kind = "DataDescriptor" => crc32'[Idx] # NoCrc
  PROVE  Straight'
<1>1. Entries' = Entries /\ Entries = archive.entries
  BY DEF Entries
<1>2. \A i \in 1 .. Len(Entries) : crc32[i] # NoCrc => crc32'[i] # NoCrc
  BY CrcKept
<1>3. archive \in Archives /\ current_chunk \in Chunks(Entries) \ {Finished}
  BY DEF Inv, TypeOK
<1>4. ASSUME NEW i \in 1 .. Len(Entries), PastData(current_chunk', i)
      PROVE  AsPromised(i)
  <2>1. CASE PastData(current_chunk, i)
    BY <2>1 DEF Straight
  <2>2. CASE ~ PastData(current_chunk, i)
    <3>1. current_chunk.kind = "EntryData" /\ Idx = i
      BY <1>1, <1>3, <1>4, <2>2, PassesData DEF Idx
    <3> QED
      BY <3>1
  <2> QED
    BY <2>1, <2>2
<1>5. ASSUME NEW i \in 1 .. Len(Entries), PastDescriptor(current_chunk', i)
      PROVE  crc32'[i] # NoCrc
  <2>1. CASE PastDescriptor(current_chunk, i)
    BY <1>2, <2>1 DEF Straight
  <2>2. CASE ~ PastDescriptor(current_chunk, i)
    <3>1. current_chunk.kind = "DataDescriptor" /\ Idx = i
      BY <1>1, <1>3, <1>5, <2>2, PassesDescriptor DEF Idx
    <3> QED
      BY <3>1
  <2> QED
    BY <2>1, <2>2
<1>6. \A i \in 1 .. Len(Entries) : AsPromised(i) => AsPromised(i)'
  BY <1>1 DEF AsPromised, TrueCrc
<1> QED
  BY <1>1, <1>4, <1>5, <1>6 DEF Straight

(* A structure that is wanted from its start is never skipped. *)
LEMMA StructureStraight ==
  ASSUME Straight, Inv, Reading, ReadStructure,
         current_chunk.kind \in {"LocalHeader", "DataDescriptor",
                                 "CDFileHeader", "Eocd"}
  PROVE  to_skip' = 0
<1> DEFINE Still(s) == s \in PieceState /\ s.to_skip = 0
<1>1. Still(Pieces0)
  <2>1. ChunkStart(archive, current_chunk) \in Nat
    BY ChunkStartType DEF Inv, TypeOK, Entries
  <2> QED
    BY <2>1 DEF Pieces0, PieceState, Straight, Reading, Inv, TypeOK
<1>2. ASSUME NEW s, NEW size \in Nat, Still(s)
      PROVE  Still(ReadPiece(s, size))
  <2>1. ReadPiece(s, size) \in PieceState
    BY <1>2, ReadPieceType
  <2>2. s.to_skip >= size => s.to_skip - size = 0
    BY <1>2
  <2>3. ReadPiece(s, size).to_skip = 0
    BY <1>2, <2>2 DEF ReadPiece, PieceState
  <2> QED
    BY <2>1, <2>3
<1>3. PieceSizes[1] \in Nat /\ PieceSizes[2] \in Nat /\ PieceSizes[3] \in Nat
  BY PiecesMakeChunk DEF Inv
<1> HIDE DEF Still
<1>4. Still(AllPieces(Pieces0, PieceSizes))
  BY <1>1, <1>2, <1>3 DEF AllPieces
<1> QED
  BY <1>4 DEF ReadStructure, Still

LEMMA LoopStraight ==
  ASSUME ReaderServes, Straight, LoopStep
  PROVE  Straight'
<1>1. Inv /\ [Next]_vars /\ ~ PollSpentFuture
  BY ServesInv
  DEF Next, PollSpentFuture, NeedsReader, Reading, ReaderServes, RefinesInv,
      SourceFits, Failed
<1>2. /\ staging_buffer = << >> => to_skip = 0
      /\ ~ pinned.did_seek
  BY DEF Straight
<1>3. CASE ReturnOk \/ UseOpenReader
  BY <1>1, <1>2, <1>3, KeepsStraight DEF ReturnOk, UseOpenReader, readState
<1>4. CASE ReadFromStaging
  BY <1>1, <1>2, <1>4, KeepsStraight DEF ReadFromStaging
<1>5. CASE SkipChunk
  <2>1. /\ staging_buffer = << >> /\ current_chunk # Finished
        /\ to_skip >= ChunkSize(Entries, current_chunk)
        /\ to_skip' = to_skip - ChunkSize(Entries, current_chunk)
        /\ current_chunk' = NextChunk(Entries, current_chunk)
        /\ UNCHANGED << archive, crc32, staging_buffer, pinned >>
    BY <1>5 DEF SkipChunk
  <2>2. /\ to_skip = 0 /\ ChunkSize(Entries, current_chunk) \in Nat
        /\ archive \in Archives
        /\ current_chunk \in Chunks(Entries) \ {Finished}
    BY <1>1, <1>2, <2>1, ChunkSizeType DEF Inv, TypeOK, Entries
  <2>3. ChunkSize(Entries, current_chunk) = 0 /\ to_skip' = 0
    BY <2>1, <2>2
  <2>4. current_chunk.kind = "EntryData" => AsPromised(Idx)
    BY <2>3 DEF ChunkSize, AsPromised, Idx
  <2>5. current_chunk.kind # "DataDescriptor"
    BY <2>3, StructSizesAssumption DEF ChunkSize
  <2> QED
    BY <1>1, <1>2, <2>1, <2>3, <2>4, <2>5, GoesOnStraight
<1>6. CASE ReadLocalHeaderOrEocd
  <2>1. /\ Reading /\ ReadStructure
        /\ current_chunk.kind \in {"LocalHeader", "Eocd"}
        /\ UNCHANGED << archive, crc32, pinned >>
    BY <1>6 DEF ReadLocalHeaderOrEocd
  <2>2. current_chunk' = NextChunk(Entries, current_chunk) /\ to_skip' = 0
    BY <1>1, <2>1, ReadStructureFinishes, StructureStraight
  <2>3. current_chunk # Finished
    BY <2>1 DEF Reading
  <2> QED
    BY <1>1, <1>2, <2>1, <2>2, <2>3, GoesOnStraight
<1>7. CASE ReadCrcStructure
  <2>1. /\ Reading /\ ReadStructure
        /\ current_chunk.kind \in {"DataDescriptor", "CDFileHeader"}
        /\ UNCHANGED << archive, pinned >>
        /\ \/ crc32[Idx] # NoCrc /\ UNCHANGED crc32
           \/ crc32' = [crc32 EXCEPT ![Idx] = CrcOfEmpty]
    BY <1>7 DEF ReadCrcStructure
  <2>2. current_chunk' = NextChunk(Entries, current_chunk) /\ to_skip' = 0
    BY <1>1, <2>1, ReadStructureFinishes, StructureStraight
  <2>3. current_chunk # Finished
    BY <2>1 DEF Reading
  <2>4. crc32'[Idx] # NoCrc
    <3>1. Idx \in 1 .. Len(Entries)
      BY <1>1, <2>1, CurrentChunk DEF Inv, Idx, EntryKinds
    <3>2. CrcOfEmpty # NoCrc
      BY DEF CrcOfEmpty, EmptyCrc, NoCrc
    <3>3. crc32 \in [1 .. Len(Entries) -> Crc]
      BY <1>1 DEF Inv, TypeOK
    <3> QED
      BY <2>1, <3>1, <3>2, <3>3
  <2> QED
    BY <1>1, <1>2, <2>1, <2>2, <2>3, <2>4, GoesOnStraight
<1> QED
  BY <1>1, <1>3, <1>4, <1>5, <1>6, <1>7 DEF LoopStep

(* The data ends: all of it was hashed, and it was as promised. *)
LEMMA FinishDataStraight ==
  ASSUME ReaderServes, Straight, FinishData
  PROVE  Straight'
<1>1. Inv /\ [Next]_vars /\ GivenKept /\ CountFits /\ pc # "panicked"
  BY ServesInv DEF Next, SourceStep, ReaderServes
<1>2. /\ AtPull /\ SourceAtEof
      /\ UNCHANGED << archive, staging_buffer, to_skip >>
  BY DEF FinishData
<1>3. /\ staging_buffer = << >> => to_skip = 0
      /\ ~ pinned.did_seek
  BY DEF Straight
<1>4. CASE UNCHANGED << pinned, current_chunk >>
  BY <1>1, <1>2, <1>3, <1>4, KeepsStraight
<1>5. CASE /\ ~ DataMismatch /\ pinned' = Nothing
           /\ current_chunk' = current_chunk
  <2>1. ~ pinned'.did_seek
    BY <1>5 DEF Nothing, Held
  <2> QED
    BY <1>1, <1>2, <1>3, <1>5, <2>1, KeepsStraight
<1>6. CASE /\ ~ DataMismatch /\ pinned' = Nothing /\ SizeMatches
           /\ current_chunk' = NextChunk(Entries, current_chunk)
  <2>1. ~ pinned'.did_seek
    BY <1>6 DEF Nothing, Held
  <2>2. /\ current_chunk.kind = "EntryData" /\ current_chunk # Finished
        /\ pinned.state = "FileReader" /\ pinned.entry = Idx
        /\ Idx \in 1 .. Len(Entries) /\ Entries[Idx].size # 0
    BY <1>1, <1>2, AtPullReads
  <2>3. Entries[Idx].actual = Entries[Idx].size
    <3>1. /\ pinned.pos = Entries[Idx].size
          /\ pinned.pos > Actual => pinned.pos < Entries[Idx].size
      BY <1>1, <1>6, <2>2 DEF CountFits, SizeMatches
    <3>2. pinned.pos >= Actual /\ Actual = Entries[Idx].actual
      BY <1>2, <2>2 DEF SourceAtEof, Actual
    <3>3. Entries[Idx].actual \in Nat /\ Entries[Idx].size \in Nat
      BY <1>1, <2>2, CurrentChunk DEF Inv
    <3> QED
      BY <3>1, <3>2, <3>3
  <2>4. ReaderCrc(pinned) = TrueCrc(Idx) /\ ReaderCrc(pinned) # NoCrc
    BY <1>1, <1>2, <1>3, <2>2, CrcAtEof
  <2>5. Entries[Idx].crc32 # NoCrc => Entries[Idx].crc32 = TrueCrc(Idx)
    BY <1>1, <1>6, <2>2, <2>4 DEF DataMismatch, GivenKept
  <2>6. AsPromised(Idx)
    BY <2>3, <2>5 DEF AsPromised
  <2> QED
    BY <1>1, <1>2, <1>3, <1>6, <2>1, <2>2, <2>6, GoesOnStraight
<1> QED
  BY <1>2, <1>4, <1>5, <1>6 DEF FinishData, FinishChunk

LEMMA SourceStraight ==
  ASSUME ReaderServes, Straight, SourceStep
  PROVE  Straight'
<1>1. Inv /\ [Next]_vars
  BY ServesInv DEF Next
<1>2. /\ staging_buffer = << >> => to_skip = 0
      /\ ~ pinned.did_seek
  BY DEF Straight
<1>3. pc = "data" => staging_buffer = << >>
  BY <1>1 DEF Inv, PcFits, PinnedFits
<1>4. ~ SkipByReading /\ ~ SeekSource
  <2>1. pc = "data" => ~ (to_skip > 0)
    BY <1>2, <1>3
  <2> QED
    BY <2>1 DEF SkipByReading, SeekSource
<1>5. CASE OpenReader
  <2>1. ~ pinned'.did_seek
    BY <1>5 DEF OpenReader, Held
  <2>2. UNCHANGED << archive, current_chunk, staging_buffer, to_skip >>
    BY <1>5 DEF OpenReader, readState
  <2> QED
    BY <1>1, <1>2, <2>1, <2>2, KeepsStraight
<1>6. CASE PullData \/ ReadForCrc
  <2>1. UNCHANGED << archive, current_chunk, staging_buffer, to_skip >>
    BY <1>6 DEF PullData, ReadForCrc, readState
  <2>2. pinned' = pinned \/ \E n \in Nat : pinned' = Pulled(pinned, n)
    <3>1. Actual \in Nat /\ pinned.pos \in Nat
      <4>1. /\ pinned.state = "FileReader" /\ pinned.entry = Idx
            /\ current_chunk.kind \in EntryKinds
        BY <1>1, <1>6 DEF PullData, ReadForCrc, AtPull, Inv, PcFits,
                          PinnedFits, EntryKinds
      <4> QED
        BY <1>1, <4>1, CurrentChunk DEF Inv, TypeOK, ReaderPinned, Actual
    <3>2. \A room : SourceReads(room) \subseteq Nat
      BY DEF SourceReads
    <3> QED
      BY <1>6, <3>2 DEF PullData, ReadForCrc
  <2>3. ~ pinned'.did_seek
    <3>1. pinned \in ReaderPinned
      BY <1>1 DEF Inv, TypeOK
    <3>2. \A n \in Nat : Pulled(pinned, n).did_seek = pinned.did_seek
      BY <3>1 DEF Pulled, ReaderPinned
    <3> QED
      BY <1>2, <2>2, <3>2
  <2> QED
    BY <1>1, <1>2, <2>1, <2>3, KeepsStraight
<1>7. CASE FinishCrc
  <2>1. pinned' = Nothing
    BY <1>1, <1>7, FinishCrcFinds
  <2>2. ~ pinned'.did_seek
    BY <2>1 DEF Nothing, Held
  <2>3. UNCHANGED << archive, current_chunk, staging_buffer, to_skip >>
    BY <1>7 DEF FinishCrc, readState
  <2> QED
    BY <1>1, <1>2, <2>2, <2>3, KeepsStraight
<1> QED
  BY <1>4, <1>5, <1>6, <1>7, FinishDataStraight DEF SourceStep

(* Data descriptors follow each other in the order of their entries. *)
LEMMA DescriptorsInOrder ==
  ASSUME NEW a \in Archives, NEW p \in 1 .. Len(a.entries),
         NEW i \in p .. Len(a.entries)
  PROVE  /\ ChunkStart(a, Chunk("LocalHeader", p))
              <= ChunkStart(a, Chunk("DataDescriptor", i))
         /\ ChunkStart(a, Chunk("EntryData", p))
              <= ChunkStart(a, Chunk("DataDescriptor", i))
         /\ ChunkStart(a, Chunk("DataDescriptor", p))
              <= ChunkStart(a, Chunk("DataDescriptor", i))
<1> DEFINE n == Len(a.entries)
           At(k, j) == ChunkStart(a, Chunk(k, j))
<1>1. WellLaidOut(a) /\ n \in Nat /\ i \in 1 .. n
  BY ReaderAssumption, ArchiveTypes
<1>2. \A k \in EntryKinds, j \in 1 .. n :
        /\ Chunk(k, j) \in Chunks(a.entries) \ {Finished}
        /\ At(k, j) \in Nat
        /\ ChunkSize(a.entries, Chunk(k, j)) \in Nat
  <2> TAKE k \in EntryKinds, j \in 1 .. n
  <2>1. Chunk(k, j) \in Chunks(a.entries) \ {Finished}
    BY DEF Chunks, Chunk, Finished, EntryKinds
  <2> QED
    BY <2>1, ChunkStartType, ChunkSizeType
<1>3. ASSUME NEW k \in EntryKinds, NEW j \in 1 .. n
      PROVE  At(k, j) <= ChunkStart(a, NextChunk(a.entries, Chunk(k, j)))
  <2>1. ChunkStart(a, NextChunk(a.entries, Chunk(k, j)))
          = At(k, j) + ChunkSize(a.entries, Chunk(k, j))
    BY <1>1, <1>2 DEF WellLaidOut
  <2>2. At(k, j) \in Nat /\ ChunkSize(a.entries, Chunk(k, j)) \in Nat
    BY <1>2
  <2> HIDE DEF At
  <2> QED
    BY <2>1, <2>2
<1>4. ASSUME NEW j \in 1 .. n
      PROVE  /\ At("LocalHeader", j) <= At("EntryData", j)
             /\ At("EntryData", j) <= At("DataDescriptor", j)
             /\ j + 1 <= n =>
                  At("DataDescriptor", j) <= At("LocalHeader", j + 1)
  <2>1. /\ NextChunk(a.entries, Chunk("LocalHeader", j)) = Chunk("EntryData", j)
        /\ NextChunk(a.entries, Chunk("EntryData", j))
             = Chunk("DataDescriptor", j)
        /\ j + 1 <= n => NextChunk(a.entries, Chunk("DataDescriptor", j))
                           = Chunk("LocalHeader", j + 1)
    BY DEF NextChunk, Chunk
  <2>2. {"LocalHeader", "EntryData", "DataDescriptor"} \subseteq EntryKinds
    BY DEF EntryKinds
  <2> QED
    BY <1>3, <2>1, <2>2
<1>5. \A j \in 1 .. n : /\ At("LocalHeader", j) \in Nat
                        /\ At("EntryData", j) \in Nat
                        /\ At("DataDescriptor", j) \in Nat
  BY <1>2 DEF EntryKinds
<1> DEFINE end == At("DataDescriptor", i)
           T   == {j \in 1 .. i : At("DataDescriptor", j) > end}
<1>6. ASSUME NEW j \in T, \A x \in T : x <= j
      PROVE  FALSE
  <2>1. /\ j \in 1 .. i /\ j \in 1 .. n /\ end \in Nat
        /\ At("DataDescriptor", j) > end
    BY <1>1, <1>5, <1>6
  <2>2. j # i
    BY <2>1
  <2>3. j + 1 \in 1 .. i /\ j + 1 \in 1 .. n /\ j + 1 <= n
    BY <1>1, <2>1, <2>2
  <2>4. /\ At("DataDescriptor", j) <= At("LocalHeader", j + 1)
        /\ At("LocalHeader", j + 1) <= At("EntryData", j + 1)
        /\ At("EntryData", j + 1) <= At("DataDescriptor", j + 1)
    BY <1>4, <2>1, <2>3
  <2>5. /\ At("DataDescriptor", j) \in Nat /\ At("LocalHeader", j + 1) \in Nat
        /\ At("EntryData", j + 1) \in Nat
        /\ At("DataDescriptor", j + 1) \in Nat
    BY <1>5, <2>1, <2>3
  <2> HIDE DEF At
  <2>6. At("DataDescriptor", j + 1) > end
    BY <2>1, <2>4, <2>5
  <2>7. j + 1 \in T
    BY <2>3, <2>6
  <2> QED
    BY <1>6, <2>1, <2>7
<1>7. T = {}
  <2>1. T \in SUBSET (1 .. i) /\ i \in Nat
    BY <1>1
  <2> HIDE DEF T
  <2> QED
    BY <1>6, <2>1, LastIndex
<1>8. p \in 1 .. n /\ p \in 1 .. i
  BY <1>1
<1>9. /\ ~ (At("DataDescriptor", p) > end) /\ end \in Nat
      /\ At("LocalHeader", p) \in Nat /\ At("EntryData", p) \in Nat
      /\ At("DataDescriptor", p) \in Nat
      /\ At("LocalHeader", p) <= At("EntryData", p)
      /\ At("EntryData", p) <= At("DataDescriptor", p)
  BY <1>1, <1>4, <1>5, <1>7, <1>8
<1> HIDE DEF At
<1>10. /\ At("LocalHeader", p) <= end
       /\ At("EntryData", p) <= end
       /\ At("DataDescriptor", p) <= end
  BY <1>9
<1> QED
  BY <1>10 DEF At

(* The data of an entry ends where its descriptor starts, which is before  *)
(* the end of the file.                                                    *)
LEMMA DataEndFits ==
  ASSUME archive \in Archives, NEW i \in 1 .. Len(Entries)
  PROVE  /\ DataEnd(i) = ChunkStart(archive, Chunk("DataDescriptor", i))
         /\ DataEnd(i) \in Nat /\ DataEnd(i) < archive.total_size
<1> DEFINE d == Chunk("DataDescriptor", i)
<1>1. /\ Entries = archive.entries /\ i \in 1 .. Len(archive.entries)
      /\ archive.total_size \in Nat
  BY NotEmpty DEF Entries
<1>2. DataEnd(i) = ChunkStart(archive, d)
  BY <1>1 DEF DataEnd, ChunkStart, Chunk
<1>3. d \in Chunks(archive.entries) \ {Finished}
  BY <1>1 DEF Chunks, EntryKinds, Chunk, Finished
<1>4. /\ NextChunk(archive.entries, d) \in Chunks(archive.entries)
      /\ ChunkStart(archive, d) \in Nat
  BY <1>3, NextChunkType, ChunkStartType
<1>5. /\ ChunkStart(archive, NextChunk(archive.entries, d)) \in Nat
      /\ ChunkStart(archive, NextChunk(archive.entries, d))
           <= archive.total_size
  BY <1>4, ChunkStartType, ChunkStartWithin
<1>6. ChunkStart(archive, NextChunk(archive.entries, d)) > ChunkStart(archive, d)
  BY <1>1, NextStartsBehind DEF EntryKinds
<1> HIDE DEF d
<1>7. ChunkStart(archive, d) < archive.total_size
  BY <1>1, <1>4, <1>5, <1>6
<1> QED
  BY <1>2, <1>4, <1>7 DEF d

(* Data that ends before the place the reader has come to is behind the    *)
(* reader, unless that is still in the middle of data: a header still to   *)
(* come would start behind that place.                                     *)
LEMMA StraightSoFar ==
  ASSUME ReaderServes, Straight, pc = "idle", result.kind = "Ok",
         NEW n \in Nat, n <= Cursor
  PROVE  CompleteTo(n)
<1> DEFINE c   == current_chunk
           len == Len(staging_buffer)
<1>1. /\ Inv /\ CountFits /\ StagedWanted
      /\ archive \in Archives /\ c \in Chunks(Entries)
      /\ Entries = archive.entries
      /\ to_skip \in Nat /\ len \in Nat /\ chunk_processed_size \in Nat
  BY ServesInv
  DEF ReaderServes, CursorFits, Inv, TypeOK, Entries
<1>2. ChunkStart(archive, c) \in Nat
  BY <1>1, ChunkStartType
<1>3. Cursor = ChunkStart(archive, c) + chunk_processed_size - len + to_skip
  BY DEF Cursor
<1>4. c.kind \in EntryKinds \union {"Eocd", "Finished"}
  BY <1>1, ChunkCases DEF Finished, Chunk
<1> SUFFICES ASSUME NEW i \in 1 .. Len(Entries), DataEnd(i) < n
             PROVE  \/ AsPromised(i) /\ crc32[i] # NoCrc
                    \/ \E j \in 1 .. i : Reaches(j, n)
  BY DEF CompleteTo
<1>5. CASE PastDescriptor(c, i)
  <2>1. PastData(c, i)
    <3>1. CASE c.kind \in {"CDFileHeader", "Eocd", "Finished"}
      BY <3>1 DEF PastData
    <3>2. CASE c.kind \in {"LocalHeader", "EntryData", "DataDescriptor"}
      <4>1. c.entry_index \in 1 .. Len(Entries) /\ c.entry_index > i
        BY <1>1, <1>5, <3>2, CurrentChunk
        DEF Inv, PastDescriptor, EntryKinds, Idx
      <4>2. Len(Entries) \in Nat
        BY <1>1, ArchiveTypes
      <4>3. c.entry_index >= i
        BY <4>1, <4>2
      <4> QED
        BY <3>2, <4>1, <4>3 DEF PastData
    <3> QED
      BY <1>4, <3>1, <3>2 DEF EntryKinds
  <2> HIDE DEF c
  <2>2. AsPromised(i) /\ crc32[i] # NoCrc
    BY <1>5, <2>1 DEF Straight, c
  <2> QED
    BY <2>2
<1>6. CASE ~ PastDescriptor(c, i)
  <2>1. c.kind \in {"LocalHeader", "EntryData", "DataDescriptor"}
    BY <1>4, <1>6 DEF PastDescriptor, EntryKinds
  <2>2. /\ Idx \in 1 .. Len(Entries) /\ c = Chunk(c.kind, Idx)
        /\ Idx = c.entry_index
        /\ Entries[Idx].size \in Nat /\ Entries[Idx].actual \in Nat
    BY <1>1, <2>1, CurrentChunk
    DEF Inv, EntryKinds, Chunks, Chunk, Eocd, Finished, Idx
  <2>3. i \in Idx .. Len(Entries) /\ Idx \in 1 .. i
    <3>1. Len(Entries) \in Nat
      BY <1>1, ArchiveTypes
    <3>2. ~ (Idx > i)
      BY <1>6, <2>1, <2>2 DEF PastDescriptor
    <3> QED
      BY <2>2, <3>1, <3>2
  <2>4. ChunkStart(archive, c) <= DataEnd(i) /\ DataEnd(i) \in Nat
    BY <1>1, <2>1, <2>2, <2>3, DescriptorsInOrder, DataEndFits
  <2>5. ChunkStart(archive, c) < n
    <3> HIDE DEF c
    <3> QED
      BY <1>2, <2>4
  <2>6. /\ staging_buffer = << >> /\ len = 0 /\ to_skip = 0
        /\ chunk_processed_size # 0
    <3>1. CASE chunk_processed_size = 0
      <4>1. staging_buffer # << >> => to_skip < len
        BY <1>1 DEF StagedWanted
      <4>2. staging_buffer = << >> => to_skip = 0
        BY DEF Straight
      <4>3. to_skip <= len
        BY <1>1, <4>1, <4>2
      <4> HIDE DEF len, c
      <4> QED
        BY <1>1, <1>2, <1>3, <2>5, <3>1, <4>3
    <3>2. CASE chunk_processed_size # 0
      <4>1. staging_buffer = << >>
        BY <1>1, <3>2 DEF Inv, ProcessedFits
      <4> QED
        BY <3>2, <4>1, EmptySeq DEF Straight
    <3> QED
      BY <3>1, <3>2
  <2>7. c.kind = "EntryData" /\ pinned.state = "FileReader"
    BY <1>1, <2>6 DEF Inv, ProcessedFits, CountFits
  <2>8. chunk_processed_size <= Entries[Idx].actual /\ Entries[Idx].size # 0
    BY <1>1, <2>7
    DEF Inv, PinnedFits, ReaderFits, CountFits, Straight, Actual
  <2>9. ChunkStart(archive, c) = DataStart(archive, Idx)
    BY <2>7 DEF ChunkStart, Idx
  <2>10. Reaches(Idx, n)
    <3>1. DataStart(archive, Idx) + chunk_processed_size >= n
      BY <1>1, <1>2, <1>3, <2>6, <2>9
    <3>2. DataStart(archive, Idx) \in Nat
      BY <1>2, <2>9
    <3> QED
      BY <1>1, <2>2, <2>8, <3>1, <3>2 DEF Reaches
  <2> QED
    BY <2>3, <2>10
<1> QED
  BY <1>5, <1>6

-----------------------------------------------------------------------------
(* A download of the whole file.                                           *)

(* The reader was put at the first byte and goes straight on from there;   *)
(* and what it has seen of what was sent stays true.                       *)
WholeFits ==
  /\ Whole /\ body \in {"open", "polling"} => Straight
  /\ Whole => CompleteTo(Len(sent))

WholeInv == BodyInv /\ WholeFits

(* With nothing sent, nothing is known. *)
LEMMA NothingSent ==
  ASSUME archive \in Archives, sent = << >>
  PROVE  CompleteTo(Len(sent))
<1>1. Len(sent) = 0
  BY EmptySeq
<1>2. \A i \in 1 .. Len(Entries) : DataEnd(i) \in Nat
  BY DataEndFits
<1> QED
  BY <1>1, <1>2 DEF CompleteTo

(* What is known stays known. *)
LEMMA CompleteKept ==
  ASSUME CompleteTo(Len(sent)), UNCHANGED << archive, sent >>,
         \A i \in 1 .. Len(Entries) : crc32[i] # NoCrc => crc32'[i] # NoCrc
  PROVE  CompleteTo(Len(sent))'
BY DEF CompleteTo, AsPromised, Reaches, TrueCrc, Entries, DataEnd

LEMMA StraightKept ==
  ASSUME Straight, UNCHANGED vars
  PROVE  Straight'
BY DEF Straight, AsPromised, TrueCrc, Entries, vars

LEMMA WholeStarts ==
  ASSUME BodyInit
  PROVE  WholeInv
BY BodyStarts, NothingSent DEF WholeInv, WholeFits, BodyInit, Init

(* The last byte asked for is the last of the file. *)
LEMMA WholeIsAll ==
  ASSUME BodyInv, Whole
  PROVE  request[1] = 0 /\ Wanted = archive.total_size
<1>1. request[1] = 0 /\ request[2] = archive.total_size - 1
  BY DEF Whole
<1>2. archive.total_size \in Nat /\ Wanted = request[2] - request[1] + 1
  BY BodyTypes
<1> QED
  BY <1>1, <1>2

(* The reader has come at least as far as what is sent with a block. *)
LEMMA TakeBlockWhole ==
  ASSUME WholeInv, TakeBlock
  PROVE  WholeFits'
<1>1. /\ BodyInv /\ body = "polling" /\ pc = "idle" /\ result.kind = "Ok"
      /\ body' = "open" /\ UNCHANGED vars /\ UNCHANGED request
      /\ UNCHANGED << archive, crc32 >>
      /\ Len(sent') = Len(sent) + Len(Limited)
  BY TakeBlockKeeps DEF WholeInv, TakeBlock, vars
<1>2. Whole' = Whole /\ (Whole => Straight)
  BY <1>1 DEF Whole, WholeInv, WholeFits
<1>3. ASSUME Whole
      PROVE  CompleteTo(Len(sent))'
  <2> DEFINE n == Len(sent) + Len(Limited)
  <2>1. request[1] = 0 /\ base = request[1] + Len(sent)
    BY <1>1, <1>3, WholeIsAll DEF BodyInv, PlaceFits
  <2>2. Cursor = base + Len(out)
    BY <1>1 DEF BodyInv, ReaderServes, CursorFits
  <2>3. /\ Len(Limited) \in Nat /\ Len(Limited) <= Len(out)
        /\ Len(sent) \in Nat /\ Len(out) \in Nat /\ base \in Nat
    BY <1>1, LimitedFits, BodyTypes DEF RemainingAfter
  <2>4. n \in Nat /\ n <= Cursor
    BY <2>1, <2>2, <2>3
  <2>5. CompleteTo(n)
    <3> HIDE DEF n
    <3> QED
      BY <1>1, <1>2, <1>3, <2>4, StraightSoFar DEF BodyInv
  <2> QED
    BY <1>1, <2>5
    DEF CompleteTo, AsPromised, Reaches, TrueCrc, Entries, DataEnd
<1>4. Whole => Straight'
  BY <1>1, <1>2, StraightKept
<1> QED
  BY <1>1, <1>2, <1>3, <1>4 DEF WholeFits

LEMMA WholeKeeps ==
  ASSUME WholeInv, [BodyNext]_allVars
  PROVE  WholeInv'
<1>1. BodyInv /\ BodyInv' /\ WholeFits
  BY BodyKeeps DEF WholeInv
<1> SUFFICES WholeFits'
  BY <1>1 DEF WholeInv
<1>2. ASSUME NEW first \in 0 .. archive.total_size - 1,
             NEW last \in first .. archive.total_size - 1,
             Respond(first, last)
      PROVE  WholeFits'
  <2>1. /\ sent' = << >> /\ SeekFromStart(first)
        /\ request' = << first, last >>
    BY <1>1, <1>2 DEF Respond, BodyInv, SentFits
  <2>2. Whole' => first = 0
    BY <2>1 DEF Whole
  <2>3. Whole' => Straight'
    BY <1>1, <2>1, <2>2, SeekStraight DEF BodyInv
  <2>4. CompleteTo(Len(sent)) /\ UNCHANGED << archive, crc32, sent >>
    <3>1. archive \in Archives /\ sent = << >>
      BY <1>1, <1>2, BodyTypes DEF Respond, BodyInv, SentFits
    <3> QED
      BY <2>1, <3>1, NothingSent DEF SeekFromStart
  <2>5. CompleteTo(Len(sent))'
    BY <2>4, CompleteKept
  <2> QED
    BY <2>3, <2>5 DEF WholeFits
<1>3. CASE Refuse \/ Drop
  <2>1. /\ UNCHANGED << archive, crc32, request, sent >>
        /\ body' = "dropped"
    BY <1>1, <1>3, DropKeeps DEF Refuse, Drop, DropInner
  <2>2. Whole' = Whole
    BY <2>1 DEF Whole
  <2> QED
    BY <1>1, <2>1, <2>2, CompleteKept DEF WholeFits
<1>4. CASE PollNext
  <2>1. /\ body = "open" /\ UNCHANGED << request, sent >>
        /\ \/ UNCHANGED vars
           \/ PollRead(ScratchSize)
    BY <1>4 DEF PollNext
  <2>2. UNCHANGED << archive, crc32, current_chunk, staging_buffer, to_skip,
                     pinned >>
    BY <2>1 DEF PollRead, vars, readState
  <2>3. Whole' = Whole /\ (Straight => Straight')
    BY <2>1, <2>2 DEF Whole, Straight, AsPromised, TrueCrc, Entries
  <2>4. CompleteTo(Len(sent)) => CompleteTo(Len(sent))'
    BY <2>1, <2>2, CompleteKept
  <2> QED
    BY <1>1, <2>1, <2>3, <2>4 DEF WholeFits
<1>5. CASE ReaderRuns
  <2>1. /\ body = "polling" /\ UNCHANGED << request, body, sent >>
        /\ LoopStep \/ SourceStep
    BY <1>5 DEF ReaderRuns, bodyVars
  <2>2. Whole' = Whole /\ archive' = archive
    BY <2>1, RunKeeps DEF Whole
  <2>3. Straight => Straight'
    BY <1>1, <2>1, LoopStraight, SourceStraight DEF BodyInv
  <2>4. \A i \in 1 .. Len(Entries) : crc32[i] # NoCrc => crc32'[i] # NoCrc
    BY <1>1, <2>1, ServesInv, CrcKept DEF BodyInv, Next
  <2>5. CompleteTo(Len(sent)) => CompleteTo(Len(sent))'
    BY <2>1, <2>2, <2>4, CompleteKept
  <2> QED
    BY <1>1, <2>1, <2>2, <2>3, <2>5 DEF WholeFits
<1>6. CASE TakeBlock
  BY <1>6, TakeBlockWhole
<1>7. CASE NoBlock
  <2>1. /\ UNCHANGED << vars, request, sent >> /\ body = "polling"
        /\ UNCHANGED << archive, crc32 >>
    BY <1>1, <1>7, NoBlockKeeps DEF vars
  <2>2. Whole' = Whole /\ (Straight => Straight')
    BY <2>1, StraightKept DEF Whole
  <2>3. CompleteTo(Len(sent)) => CompleteTo(Len(sent))'
    BY <2>1, CompleteKept
  <2> QED
    BY <1>1, <2>1, <2>2, <2>3 DEF WholeFits
<1>8. CASE UNCHANGED allVars
  <2>1. UNCHANGED vars /\ UNCHANGED << request, body, sent >>
        /\ UNCHANGED << archive, crc32 >>
    BY <1>8 DEF allVars, bodyVars, vars
  <2>2. Whole' = Whole /\ (Straight => Straight')
    BY <2>1, StraightKept DEF Whole
  <2>3. CompleteTo(Len(sent)) => CompleteTo(Len(sent))'
    BY <2>1, CompleteKept
  <2> QED
    BY <1>1, <2>1, <2>2, <2>3 DEF WholeFits
<1> QED
  BY <1>2, <1>3, <1>4, <1>5, <1>6, <1>7, <1>8 DEF BodyNext

(* A download of the whole archive that comes to its end is of data with   *)
(* the sizes and CRCs that were promised, whatever the sources did: data   *)
(* that is not makes read_entry_data fail, unless there is so much of it   *)
(* that the body is full before the reader sees where it ends.             *)
THEOREM CompleteDownloadIsHonest == BodySpec => []CompleteIsHonest
<1>1. BodyInit => WholeInv
  BY WholeStarts
<1>2. WholeInv /\ [BodyNext]_allVars => WholeInv'
  BY WholeKeeps
<1>3. WholeInv => CompleteIsHonest
  <2> SUFFICES ASSUME WholeInv, body = "ended", Whole,
                      NEW i \in DOMAIN Entries, Entries[i].size # 0
               PROVE  \/ /\ Entries[i].actual = Entries[i].size
                         /\ Entries[i].crc32 \in {NoCrc, TrueCrc(i)}
                      \/ \E j \in 1 .. i : Overruns(j)
    BY DEF CompleteIsHonest
  <2>1. BodyInv
    BY DEF WholeInv
  <2>2. remaining = 0 /\ remaining = archive.total_size - Len(sent)
    BY <2>1, WholeIsAll DEF BodyInv, SentFits
  <2>3. Len(sent) = archive.total_size
    BY <2>1, <2>2, BodyTypes
  <2>4. i \in 1 .. Len(Entries) /\ archive \in Archives
    BY <2>1, ServesInv, CurrentChunk, BodyTypes DEF BodyInv, Inv
  <2>5. DataEnd(i) < archive.total_size
    BY <2>4, DataEndFits
  <2>6. CompleteTo(archive.total_size)
    BY <2>3 DEF WholeInv, WholeFits
  <2> QED
    BY <2>4, <2>5, <2>6 DEF CompleteTo, AsPromised, Overruns
<1> QED
  BY <1>1, <1>2, <1>3, PTL DEF BodySpec

-----------------------------------------------------------------------------
(* The reader that is given back.                                          *)

SentReaderFits ==
  channel = "sent" => body = "dropped" /\ pinned = Nothing /\ position = Cursor

LEMMA SentReaderKept ==
  ASSUME BodyInv, SentReaderFits, [BodyNext]_allVars
  PROVE  SentReaderFits'
<1>1. CASE Refuse \/ Drop
  <2>1. /\ BodyInv' /\ body' = "dropped" /\ body # "dropped"
        /\ \/ SeekFromStart(position) /\ Returns("None", 0)
           \/ UNCHANGED << vars, channel >>
    BY <1>1, DropKeeps DEF Refuse, Drop, DropInner
  <2>2. CASE SeekFromStart(position) /\ Returns("None", 0)
    <3>1. /\ pinned' = Nothing /\ position' = base' /\ out' = << >>
          /\ pc' = "idle"
      BY <2>2 DEF SeekFromStart, Returns, PinnedAfterSeek
    <3>2. Len(out') = 0 /\ base' \in Nat
      BY <2>1, <2>2, <3>1, EmptySeq, BodyTypes DEF SeekFromStart
    <3>3. Cursor' = base' + Len(out')
      BY <2>1, <3>1 DEF BodyInv, ReaderServes, CursorFits
    <3>4. Cursor' = base' + 0 /\ \A b \in Nat : b + 0 = b
      BY <3>2, <3>3
    <3>5. Cursor' = position'
      BY <3>1, <3>2, <3>4
    <3> QED
      BY <2>1, <3>1, <3>5 DEF SentReaderFits
  <2>3. CASE UNCHANGED << vars, channel >>
    <3>1. channel' = channel
      BY <2>3
    <3> QED
      BY <2>1, <3>1 DEF SentReaderFits
  <2> QED
    BY <2>1, <2>2, <2>3
<1>2. CASE UNCHANGED allVars
  <2>1. UNCHANGED vars /\ UNCHANGED << body, channel >>
    BY <1>2 DEF allVars, bodyVars
  <2> QED
    BY <2>1 DEF SentReaderFits, Cursor, vars
<1>3. ASSUME channel' = channel, body # "dropped"
      PROVE  SentReaderFits'
  BY <1>3 DEF SentReaderFits
<1>4. ASSUME NEW first, NEW last, Respond(first, last)
      PROVE  SentReaderFits'
  BY <1>3, <1>4 DEF Respond
<1>5. CASE PollNext \/ ReaderRuns \/ TakeBlock \/ NoBlock
  BY <1>3, <1>5 DEF PollNext, ReaderRuns, TakeBlock, NoBlock, bodyVars
<1> QED
  BY <1>1, <1>2, <1>4, <1>5 DEF BodyNext

(* Whenever the body of a download of the whole archive is dropped, the    *)
(* reader that comes out of the channel (into_responder_with_channel) has  *)
(* the CRC of every entry that was passed, up to one whose data goes on to *)
(* where the download stands; and for any range it holds on to no source   *)
(* and goes on at tell().                                                  *)
THEOREM ReaderAlwaysComesBack == BodySpec => []ReaderComesBack
<1>1. BodyInit => WholeInv /\ SentReaderFits
  BY WholeStarts DEF BodyInit, SentReaderFits
<1>2. WholeInv /\ SentReaderFits /\ [BodyNext]_allVars
        => (WholeInv /\ SentReaderFits)'
  BY WholeKeeps, SentReaderKept DEF WholeInv
<1>3. WholeInv /\ SentReaderFits => ReaderComesBack
  <2> SUFFICES ASSUME WholeInv, SentReaderFits
               PROVE  ReaderComesBack
    OBVIOUS
  <2>1. DOMAIN Entries = 1 .. Len(Entries)
    BY ServesInv, CurrentChunk DEF WholeInv, BodyInv, Inv
  <2> QED
    BY <2>1
    DEF WholeInv, WholeFits, CompleteTo, DataEnd, SentReaderFits,
        ReaderComesBack, Passed
<1> QED
  BY <1>1, <1>2, <1>3, PTL DEF BodySpec

=============================================================================
