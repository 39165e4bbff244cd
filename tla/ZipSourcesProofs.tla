-------------------------- MODULE ZipSourcesProofs --------------------------
(***************************************************************************)
(* The proof that the reader knows where its sources are: for every kind   *)
(* of entry, every mix of seeks, polls and pending sources, the place it   *)
(* counts for a source is the one the source has for itself.               *)
(***************************************************************************)
EXTENDS ZipSources, ZipReaderDelivers

-----------------------------------------------------------------------------
(* The inductive invariant.                                                *)

(* A seek in progress is one to data that is still to be skipped: nothing  *)
(* is read from the source before it has completed.                        *)
SeekWaits ==
  pinned.seek_in_progress /\ pc # "panicked" =>
    /\ pinned.state = "FileReader"
    /\ to_skip > 0

(* The fields of a source are numbers, and an entry has the data that its  *)
(* kind gives it.                                                          *)
SourcesType ==
  /\ source \in [position : Int, remaining : Int, delay : BOOLEAN]
  /\ kinds \in [1 .. Len(Entries) -> AllKinds]
  /\ \A i \in 1 .. Len(Entries) : SizeFits(kinds[i], Entries[i])

SourcesInv ==
  /\ DeliversInv
  /\ SeekWaits
  /\ SourcesType
  /\ SourceInStep

(* Where a source of some kind says it is. *)
At(kind, s) == IF kind = "Zeros" THEN Size - s.remaining ELSE s.position

LEMMA NoSourceType ==
  NoSource \in [position : Int, remaining : Int, delay : BOOLEAN]
BY DEF NoSource

LEMMA NoSourceAtStart ==
  NoSource.position = 0
BY DEF NoSource

LEMMA SourcesStart ==
  ASSUME SourcesInit
  PROVE  SourcesInv
<1>1. Init /\ source = NoSource
  BY DEF SourcesInit
<1>2. pinned.state = "Nothing" /\ ~ pinned.seek_in_progress
  BY <1>1 DEF Init, Nothing, Held
<1>3. DeliversInv /\ Inv
  BY <1>1, DeliversInit DEF DeliversInv
<1>4. DOMAIN Entries = 1 .. Len(Entries)
  BY <1>3, CurrentChunk DEF Inv
<1>5. SourcesType
  BY <1>1, <1>4, NoSourceType, SourcesAssumption DEF SourcesInit, SourcesType
<1> QED
  BY <1>2, <1>3, <1>5 DEF SourcesInv, SeekWaits, SourceInStep

(* What is open is of an entry that has data, hence of a kind that can be  *)
(* read.                                                                   *)
LEMMA OpenIsReadable ==
  ASSUME SourcesInv, pinned.state # "Nothing"
  PROVE  /\ pinned.entry = Idx /\ Idx \in 1 .. Len(Entries)
         /\ Kind \in Readable /\ Size = Entries[Idx].size /\ Size \in Nat
         /\ pinned \in ReaderPinned /\ pinned.pos \in Nat
         /\ pinned.target \in Nat
<1>1. /\ Inv /\ pinned.entry = Idx /\ current_chunk.kind \in EntryKinds
      /\ Entries[Idx].size # 0
  BY DEF SourcesInv, DeliversInv, Inv, PinnedFits, EntryKinds
<1>2. Idx \in 1 .. Len(Entries) /\ Entries[Idx].actual \in Nat
  BY <1>1, CurrentChunk DEF Inv
<1>3. Kind \in Readable /\ Size = Entries[Idx].size
  BY <1>1, <1>2 DEF SourcesInv, SourcesType, SizeFits, Readable, Kind, Size
<1>4. pinned \in ReaderPinned
  BY <1>1 DEF Inv, TypeOK
<1> QED
  BY <1>1, <1>2, <1>3, <1>4 DEF ReaderPinned, Size

LEMMA StepKeepsInv ==
  ASSUME SourcesInv, [Next]_vars
  PROVE  DeliversInv' /\ Inv'
BY DeliversNext DEF SourcesInv, DeliversInv

LEMMA KindsKept ==
  ASSUME SourcesInv, UNCHANGED << archive, kinds >>,
         source' \in [position : Int, remaining : Int, delay : BOOLEAN]
  PROVE  SourcesType'
BY DEF SourcesInv, SourcesType, Entries, SizeFits

-----------------------------------------------------------------------------
(* Steps that leave the source alone.                                      *)

LEMMA LoopWaits ==
  ASSUME SourcesInv, LoopStep
  PROVE  UNCHANGED << archive, pinned >> /\ SeekWaits'
<1>1. Inv
  BY DEF SourcesInv, DeliversInv
<1>2. CASE ReturnOk \/ UseOpenReader \/ PollSpentFuture
  <2>1. UNCHANGED << archive, pinned, to_skip >> /\ pc = "loop"
    BY <1>2 DEF ReturnOk, LoopEnds, UseOpenReader, PollSpentFuture,
                NeedsReader, Reading, readState
  <2> QED
    BY <2>1 DEF SourcesInv, SeekWaits
<1>3. CASE ReadFromStaging \/ SkipChunk
  <2>1. UNCHANGED << archive, pinned >> /\ pc = "loop"
    BY <1>3 DEF ReadFromStaging, SkipChunk
  <2>2. pinned.state = "Nothing"
    <3>1. CASE ReadFromStaging
      BY <1>1, <3>1 DEF ReadFromStaging, Inv, PinnedFits
    <3>2. CASE SkipChunk
      <4>1. /\ to_skip >= ChunkSize(Entries, current_chunk)
            /\ to_skip \in Nat
            /\ ChunkSize(Entries, current_chunk) \in Nat
        BY <1>1, <3>2, CurrentChunk DEF SkipChunk, Inv, TypeOK
      <4> QED
        BY <1>1, <4>1 DEF Inv, PinnedFits
    <3> QED
      BY <1>3, <3>1, <3>2
  <2> QED
    BY <2>1, <2>2 DEF SourcesInv, SeekWaits
<1>4. CASE ReadLocalHeaderOrEocd \/ ReadCrcStructure
  <2>1. UNCHANGED << archive, pinned >> /\ pc = "loop"
    BY <1>4 DEF ReadLocalHeaderOrEocd, ReadCrcStructure, Reading
  <2>2. pinned.state = "Nothing"
    <3>1. CASE ReadLocalHeaderOrEocd
      BY <1>1, <3>1 DEF ReadLocalHeaderOrEocd, Inv, PinnedFits
    <3>2. CASE ReadCrcStructure
      BY <1>1, <3>2 DEF ReadCrcStructure, Inv, PinnedFits
    <3> QED
      BY <1>4, <3>1, <3>2
  <2> QED
    BY <2>1, <2>2 DEF SourcesInv, SeekWaits
<1> QED
  BY <1>2, <1>3, <1>4 DEF LoopStep

(* The entry that something is pinned of is the current one, before and    *)
(* after.                                                                  *)
LEMMA LeftAlone ==
  ASSUME SourcesInv, Inv', UNCHANGED << archive, pinned, kinds, source >>
  PROVE  SourceInStep'
<1> SUFFICES ASSUME pinned.state = "FileReader"
             PROVE  SourceInStep'
  BY DEF SourceInStep
<1>1. pinned.entry = Idx /\ pinned'.entry = Idx'
  BY DEF SourcesInv, DeliversInv, Inv, PinnedFits
<1>2. Idx' = Idx
  BY <1>1
<1> QED
  BY <1>2 DEF SourcesInv, SourceInStep, Kind, Size, Entries

LEMMA ReaderRunsInStep ==
  ASSUME SourcesInv, ReaderRuns
  PROVE  SourcesInv'
<1>1. LoopStep /\ UNCHANGED << kinds, source >>
  BY DEF ReaderRuns
<1>2. DeliversInv' /\ Inv'
  BY <1>1, StepKeepsInv DEF Next
<1>3. UNCHANGED << archive, pinned >> /\ SeekWaits'
  BY <1>1, LoopWaits
<1>4. SourcesType' /\ SourceInStep'
  BY <1>1, <1>2, <1>3, KindsKept, LeftAlone DEF SourcesInv, SourcesType
<1> QED
  BY <1>2, <1>3, <1>4 DEF SourcesInv

LEMMA CallerInStep ==
  ASSUME SourcesInv, CallerMoves \/ CallerReads
  PROVE  SourcesInv'
<1>1. CallerStep /\ kinds' = kinds
  BY DEF CallerMoves, CallerReads, CallerStep
<1>2. DeliversInv' /\ Inv'
  BY <1>1, StepKeepsInv DEF Next
<1>3. /\ archive' = archive /\ pc = "idle"
      /\ \/ pinned' = Nothing /\ source' \in {source, NoSource}
         \/ UNCHANGED << pinned, to_skip >> /\ source' \in {source, NoSource}
            /\ (pinned # Nothing => source' = source)
  BY DEF CallerMoves, CallerReads, SeekStart, SeekEnd, StartSeek, TakePinned,
         SeekFromStart, PinnedAfterSeek, PollRead, readState
<1>4. SourcesType'
  BY <1>1, <1>3, KindsKept, NoSourceType DEF SourcesInv, SourcesType
<1>5. CASE pinned' = Nothing
  <2>1. pinned'.state = "Nothing" /\ ~ pinned'.seek_in_progress
    BY <1>5 DEF Nothing, Held
  <2> QED
    BY <1>2, <1>4, <2>1 DEF SourcesInv, SeekWaits, SourceInStep
<1>6. CASE pinned' # Nothing
  <2>1. UNCHANGED << archive, pinned, kinds, source, to_skip >>
    BY <1>1, <1>3, <1>6
  <2>2. SourceInStep'
    BY <1>2, <2>1, LeftAlone
  <2> QED
    BY <1>2, <1>3, <1>4, <2>1, <2>2 DEF SourcesInv, SeekWaits
<1> QED
  BY <1>5, <1>6

-----------------------------------------------------------------------------
(* What the sources do, kind by kind.                                      *)

(* A poll_read that gives n bytes moves the source by n. *)
LEMMA ReadMoves ==
  ASSUME NEW s \in [position : Int, remaining : Int, delay : BOOLEAN],
         NEW kind \in Readable \ {"File"}, Size \in Nat, NEW room \in Int,
         NEW a, a = PollReadOf(kind, s, Size, room)
  PROVE  /\ a.s \in [position : Int, remaining : Int, delay : BOOLEAN]
         /\ a.value \in Int
         /\ At(kind, a.s) = At(kind, s) + (IF a.ready THEN a.value ELSE 0)
<1> DEFINE S == [position : Int, remaining : Int, delay : BOOLEAN]
           Moves(b, t) == /\ b.s \in S /\ b.value \in Int /\ b.ready
                          /\ b.s.position = t.position + b.value
<1>1. ASSUME NEW t \in S
      PROVE  Moves(AsRefPollRead(t, Size, room), t)
  <2> DEFINE n == IF t.position > Size THEN 0 ELSE Least(Size - t.position, room)
  <2>1. n \in Int
    BY DEF Least
  <2> HIDE DEF n
  <2>2. AsRefPollRead(t, Size, room) = Ready(n, [t EXCEPT !.position = @ + n])
    BY DEF AsRefPollRead, n
  <2> QED
    BY <2>1, <2>2 DEF Ready
<1>2. CASE kind \in {"AsRef", "Symlink"}
  <2>1. a = AsRefPollRead(s, Size, room)
    BY <1>2 DEF PollReadOf, CursorPollRead
  <2> QED
    BY <1>1, <1>2, <2>1 DEF At
<1>3. CASE kind = "Zeros"
  <2> DEFINE n == Least(s.remaining, room)
  <2>1. n \in Int
    BY DEF Least
  <2> HIDE DEF n
  <2>2. a = Ready(n, [s EXCEPT !.remaining = @ - n])
    BY <1>3 DEF PollReadOf, ZerosPollRead, n
  <2> QED
    BY <1>3, <2>1, <2>2 DEF Ready, At
<1>4. CASE kind = "Lazy"
  <2>1. Toggled(s) \in S /\ Toggled(s).position = s.position
    BY DEF Toggled
  <2>2. \/ a = AsRefPollRead(Toggled(s), Size, room)
        \/ a = Pending(Toggled(s))
    BY <1>4 DEF PollReadOf, LazyPollRead, CursorPollRead
  <2>3. Moves(AsRefPollRead(Toggled(s), Size, room), Toggled(s))
    BY <1>1, <2>1
  <2> QED
    BY <1>4, <2>1, <2>2, <2>3 DEF Pending, At
<1> QED
  BY <1>2, <1>3, <1>4 DEF Readable, AllKinds

(* start_seek brings a source to where it was asked to go. *)
LEMMA SeekMoves ==
  ASSUME NEW s \in [position : Int, remaining : Int, delay : BOOLEAN],
         NEW kind \in Readable \ {"File"}, Size \in Nat, NEW offset \in Int
  PROVE  LET t == StartSeekOf(kind, s, Size, offset) IN
         /\ t \in [position : Int, remaining : Int, delay : BOOLEAN]
         /\ At(kind, t) = offset
<1>1. CASE kind \in {"AsRef", "Symlink", "Lazy"}
  <2>1. StartSeekOf(kind, s, Size, offset) = [s EXCEPT !.position = offset]
    BY <1>1 DEF StartSeekOf, AsRefStartSeek, CursorStartSeek
  <2> QED
    BY <1>1, <2>1 DEF At
<1>2. CASE kind = "Zeros"
  <2> DEFINE rest == Size - offset
  <2>1. rest \in Int /\ Size - rest = offset
    OBVIOUS
  <2> HIDE DEF rest
  <2>2. StartSeekOf(kind, s, Size, offset) = [s EXCEPT !.remaining = rest]
    BY <1>2 DEF StartSeekOf, ZerosStartSeek, rest
  <2> QED
    BY <1>2, <2>1, <2>2 DEF At
<1> QED
  BY <1>1, <1>2 DEF Readable, AllKinds

(* poll_seek_complete says where the source is, and leaves it there. *)
LEMMA SeekCompletes ==
  ASSUME NEW s \in [position : Int, remaining : Int, delay : BOOLEAN],
         NEW kind \in Readable \ {"File"}, Size \in Nat,
         NEW a, a = PollSeekCompleteOf(kind, s, Size)
  PROVE  /\ a.s \in [position : Int, remaining : Int, delay : BOOLEAN]
         /\ At(kind, a.s) = At(kind, s)
         /\ a.ready => a.value = At(kind, s)
<1>1. CASE kind \in {"AsRef", "Symlink"}
  <2>1. a = Ready(s.position, s)
    BY <1>1 DEF PollSeekCompleteOf, AsRefPollSeekComplete, CursorPollComplete
  <2> QED
    BY <1>1, <2>1 DEF Ready, At
<1>2. CASE kind = "Zeros"
  <2>1. a = Ready(Size - s.remaining, s)
    BY <1>2 DEF PollSeekCompleteOf, ZerosPollComplete
  <2> QED
    BY <1>2, <2>1 DEF Ready, At
<1>3. CASE kind = "Lazy"
  <2>1. /\ Toggled(s) \in [position : Int, remaining : Int, delay : BOOLEAN]
        /\ Toggled(s).position = s.position
    BY DEF Toggled
  <2>2. \/ a = Ready(Toggled(s).position, Toggled(s))
        \/ a = Pending(Toggled(s))
    BY <1>3 DEF PollSeekCompleteOf, LazyPollComplete, CursorPollComplete
  <2> QED
    BY <1>3, <2>1, <2>2 DEF Ready, Pending, At
<1> QED
  BY <1>1, <1>2, <1>3 DEF Readable, AllKinds

-----------------------------------------------------------------------------
(* Steps that ask the source.                                              *)

(* Where the reader takes the source it has pinned to be. *)
Place(p) == IF p.seek_in_progress THEN p.target ELSE p.pos

(* What is pinned after a step is of the entry that was current before, so *)
(* the source has the kind it had.                                         *)
LEMMA InStepAgain ==
  ASSUME SourcesInv, Inv', UNCHANGED << archive, kinds >>,
         pinned'.state = "FileReader" =>
           /\ pinned'.entry = Idx
           /\ Kind # "File" => At(Kind, source') = Place(pinned')
  PROVE  SourceInStep'
<1> SUFFICES ASSUME pinned'.state = "FileReader"
             PROVE  SourceInStep'
  BY DEF SourceInStep
<1>1. pinned'.entry = Idx'
  BY DEF Inv, PinnedFits
<1>2. Idx' = Idx
  BY <1>1
<1>3. Kind' = Kind /\ Size' = Size
  BY <1>2 DEF Kind, Size, Entries
<1> QED
  BY <1>3 DEF SourceInStep, At, Place

(* A source that is new to the reader, and the future of one, stand at the *)
(* start.                                                                  *)
LEMMA FutureOpens ==
  ASSUME NEW s \in [position : Int, remaining : Int, delay : BOOLEAN],
         NEW kind \in Readable \ {"File"}, Size \in Nat,
         NEW a, a = PollFuture(kind, s, Size)
  PROVE  /\ a.s \in [position : Int, remaining : Int, delay : BOOLEAN]
         /\ a.ready => At(kind, a.s) = 0
<1>1. CASE kind \in {"AsRef", "Symlink"}
  <2>1. a = Ready(0, NoSource)
    BY <1>1 DEF PollFuture, NewAsRefReader, NewCursor
  <2> QED
    BY <1>1, <2>1, NoSourceType, NoSourceAtStart DEF Ready, At
<1>2. CASE kind = "Zeros"
  <2>1. a = Ready(0, NewZeros(Size))
    BY <1>2 DEF PollFuture
  <2>2. /\ NewZeros(Size) \in
              [position : Int, remaining : Int, delay : BOOLEAN]
        /\ NewZeros(Size).remaining = Size
    BY NoSourceType DEF NewZeros
  <2>3. Size - NewZeros(Size).remaining = 0
    BY <2>2
  <2> QED
    BY <1>2, <2>1, <2>2, <2>3 DEF Ready, At
<1>3. CASE kind = "Lazy"
  <2>1. \/ a = Ready(0, NoSource)
        \/ a = Pending(Toggled(s))
    BY <1>3 DEF PollFuture, LazyFuturePoll, NewLazyReader, NewCursor
  <2>2. Toggled(s) \in [position : Int, remaining : Int, delay : BOOLEAN]
    BY DEF Toggled
  <2>3. CASE a = Ready(0, NoSource)
    BY <1>3, <2>3, NoSourceType, NoSourceAtStart DEF Ready, At
  <2>4. CASE a = Pending(Toggled(s))
    BY <2>2, <2>4 DEF Pending
  <2> QED
    BY <2>1, <2>3, <2>4
<1> QED
  BY <1>1, <1>2, <1>3 DEF Readable, AllKinds

LEMMA OpenSourceInStep ==
  ASSUME SourcesInv, OpenSource
  PROVE  SourcesInv'
<1> DEFINE a == PollFuture(Kind, FutureToPoll, Size)
<1>1. OpenReader /\ Kind \in Readable
  BY DEF OpenSource
<1>2. DeliversInv' /\ Inv'
  BY <1>1, StepKeepsInv DEF Next, SourceStep
<1>3. /\ UNCHANGED << archive, kinds >>
      /\ \/ pinned' = Held("FileReader", Idx)
         \/ pinned' = Held("ReaderFuture", Idx)
         \/ pinned' = Held("SpentFuture", Idx)
  BY <1>1 DEF OpenReader, OpenSource, Becomes
<1>4. ~ pinned'.seek_in_progress /\ pinned'.pos = 0
  BY <1>3 DEF Held
<1>5. Size \in Nat
  <2>1. Inv /\ current_chunk.kind \in EntryKinds
    BY <1>1 DEF OpenReader, NeedsReader, WantsData, WantsCrc, EntryKinds,
                SourcesInv, DeliversInv
  <2> QED
    BY <2>1, CurrentChunk DEF Size, Inv
<1>6. FutureToPoll \in [position : Int, remaining : Int, delay : BOOLEAN]
  BY NoSourceType DEF SourcesInv, SourcesType, FutureToPoll, GetReader
<1> HIDE DEF a
<1>7. Kind # "File" =>
        /\ a.s \in [position : Int, remaining : Int, delay : BOOLEAN]
        /\ a.ready => At(Kind, a.s) = 0
  BY <1>1, <1>5, <1>6, FutureOpens DEF a
<1>8. /\ source' \in {NoSource, a.s}
      /\ Kind = "File" => source' = NoSource
      /\ Kind # "File" /\ pinned'.state = "FileReader" =>
           a.ready /\ source' = a.s
  BY <1>1 DEF OpenSource, Becomes, a
<1>9. SourcesType'
  BY <1>3, <1>7, <1>8, KindsKept, NoSourceType
<1>10. pinned'.state = "FileReader" =>
         /\ pinned'.entry = Idx
         /\ Kind # "File" => At(Kind, source') = Place(pinned')
  BY <1>3, <1>4, <1>7, <1>8 DEF Held, Place
<1>11. SourceInStep'
  BY <1>2, <1>3, <1>10, InStepAgain
<1> QED
  BY <1>2, <1>4, <1>9, <1>11 DEF SourcesInv, SeekWaits

(* The data is what its entry says, so no read follows the end of the data *)
(* that is met while skipping; a reader that skips by reading does not     *)
(* seek, and one that seeks does not read before it has arrived.           *)
LEMMA ReadsSettled ==
  ASSUME SourcesInv, ReadSource \/ EndSource
  PROVE  pinned.state = "FileReader" /\ ~ pinned.seek_in_progress
<1>1. DeliversInv /\ Inv
  BY DEF SourcesInv, DeliversInv
<1>2. pc \in {"data", "pull", "crc"}
  BY DEF ReadSource, EndSource, SkipByReading, PullData, ReadForCrc,
         FinishData, FinishCrc, AtPull
<1>3. pinned.state = "FileReader"
  BY <1>1, <1>2 DEF Inv, PcFits
<1>4. HonestSizes(archive)
  BY DEF SourcesInv, SourcesType, SizeFits, HonestSizes, Entries
<1>5. pc # "pull"
  BY <1>1, <1>2, <1>4 DEF DeliversInv, DataFits, Sound
<1>6. CASE AtPull
  BY <1>2, <1>3, <1>5, <1>6 DEF AtPull, SourcesInv, SeekWaits, DeliversInv,
                                 Inv, TypeOK
<1>7. CASE SkipByReading
  BY <1>1, <1>3, <1>7 DEF SkipByReading, SkipsByReading, Inv, ReaderFits
<1>8. CASE pc = "crc"
  BY <1>1, <1>3, <1>8 DEF Inv, PcFits, ReaderFits
<1> QED
  BY <1>3, <1>6, <1>7, <1>8
  DEF ReadSource, EndSource, PullData, ReadForCrc, FinishData, FinishCrc

LEMMA RoomType ==
  ASSUME SourcesInv, ReadSource \/ EndSource
  PROVE  Room \in Int
<1>1. cap - Len(out) \in Int /\ to_skip \in Int
  BY DEF SourcesInv, DeliversInv, Inv, TypeOK
<1>2. ScratchSize \in Int
  BY ReaderAssumption
<1>3. Least(to_skip, ScratchSize) \in Int
  BY <1>1, <1>2 DEF Least
<1>4. AtPull \/ pc = "data" \/ pc = "crc"
  BY DEF ReadSource, EndSource, SkipByReading, PullData, ReadForCrc,
         FinishData, FinishCrc
<1> QED
  BY <1>1, <1>2, <1>3, <1>4 DEF Room, Remaining

(* A read moves the source and the reader's count alike, or neither. *)
LEMMA ReadSourceInStep ==
  ASSUME SourcesInv, ReadSource
  PROVE  SourcesInv'
<1> DEFINE a == PollReadOf(Kind, source, Size, Room)
<1>1. SkipByReading \/ PullData \/ ReadForCrc
  BY DEF ReadSource
<1>2. DeliversInv' /\ Inv'
  BY <1>1, StepKeepsInv DEF Next, SourceStep
<1>3. pinned.state = "FileReader" /\ ~ pinned.seek_in_progress
  BY ReadsSettled
<1>4. /\ pinned.entry = Idx /\ Kind \in Readable /\ Size \in Nat
      /\ pinned \in ReaderPinned
  BY <1>3, OpenIsReadable
<1>5. UNCHANGED << archive, kinds >>
  BY <1>1 DEF SkipByReading, PullData, ReadForCrc, ReadSource, Becomes
<1>6. /\ pinned' = pinned \/ \E n : pinned' = Pulled(pinned, n)
      /\ Waits => pinned' = pinned
  <2>1. CASE SkipByReading
    BY <2>1 DEF SkipByReading, Waits
  <2>2. CASE PullData
    BY <2>2 DEF PullData, Waits
  <2>3. CASE ReadForCrc
    BY <2>3 DEF ReadForCrc, Waits
  <2> QED
    BY <1>1, <2>1, <2>2, <2>3
<1>7. /\ pinned'.state = "FileReader" /\ pinned'.entry = Idx
      /\ ~ pinned'.seek_in_progress
  BY <1>3, <1>4, <1>6 DEF Pulled, ReaderPinned
<1>8. Room \in Int
  BY RoomType
<1> HIDE DEF a
<1>9. Kind # "File" =>
        /\ a.s \in [position : Int, remaining : Int, delay : BOOLEAN]
        /\ a.value \in Int
        /\ At(Kind, a.s) = At(Kind, source) + (IF a.ready THEN a.value ELSE 0)
  BY <1>4, <1>8, ReadMoves DEF a, SourcesInv, SourcesType
<1>10. /\ Kind = "File" => source' = NoSource
       /\ Kind # "File" =>
            /\ source' = a.s
            /\ IF a.ready THEN pinned'.pos = pinned.pos + a.value
                          ELSE pinned' = pinned
  BY <1>6, <1>7 DEF ReadSource, Becomes, a
<1>11. SourcesType'
  BY <1>5, <1>9, <1>10, KindsKept, NoSourceType
<1>12. Kind # "File" => At(Kind, source) = pinned.pos
  BY <1>3 DEF SourcesInv, SourceInStep, At
<1>13. At(Kind, source) \in Int
  BY <1>4 DEF At, SourcesInv, SourcesType
<1>14. Kind # "File" => At(Kind, source') = Place(pinned')
  <2>1. Place(pinned') = pinned'.pos
    BY <1>7 DEF Place
  <2> QED
    BY <1>9, <1>10, <1>12, <1>13, <2>1
<1>15. SourceInStep'
  BY <1>2, <1>5, <1>7, <1>14, InStepAgain
<1> QED
  BY <1>2, <1>7, <1>11, <1>15 DEF SourcesInv, SeekWaits

(* At the end of the data nothing moves: the reader is dropped, or stays   *)
(* where it is with its source.                                            *)
LEMMA EndSourceInStep ==
  ASSUME SourcesInv, EndSource
  PROVE  SourcesInv'
<1> DEFINE a == PollReadOf(Kind, source, Size, Room)
<1>1. FinishData \/ FinishCrc
  BY DEF EndSource
<1>2. DeliversInv' /\ Inv'
  BY <1>1, StepKeepsInv DEF Next, SourceStep
<1>3. pinned.state = "FileReader" /\ ~ pinned.seek_in_progress
  BY ReadsSettled
<1>4. /\ pinned.entry = Idx /\ Kind \in Readable /\ Size \in Nat
      /\ pinned \in ReaderPinned
  BY <1>3, OpenIsReadable
<1>5. UNCHANGED << archive, kinds >>
  BY <1>1 DEF FinishData, FinishCrc, EndSource, Becomes
<1>6. pinned' \in {pinned, Nothing}
  BY <1>1 DEF FinishData, FinishCrc, PinnedAfterCrc
<1>7. /\ pinned'.state = "FileReader" => pinned' = pinned
      /\ ~ pinned'.seek_in_progress
  BY <1>3, <1>6 DEF Nothing, Held
<1>8. Room \in Int
  BY RoomType
<1> HIDE DEF a
<1>9. Kind # "File" =>
        /\ a.s \in [position : Int, remaining : Int, delay : BOOLEAN]
        /\ a.value \in Int
        /\ At(Kind, a.s) = At(Kind, source) + (IF a.ready THEN a.value ELSE 0)
  BY <1>4, <1>8, ReadMoves DEF a, SourcesInv, SourcesType
<1>10. /\ Kind = "File" => source' = NoSource
       /\ Kind # "File" =>
            /\ a.ready /\ a.value = 0
            /\ source' \in {a.s, NoSource}
            /\ pinned'.state = "FileReader" => source' = a.s
  BY DEF EndSource, Becomes, a
<1>11. SourcesType'
  BY <1>5, <1>9, <1>10, KindsKept, NoSourceType
<1>12. Kind # "File" => At(Kind, source) = pinned.pos
  BY <1>3 DEF SourcesInv, SourceInStep, At
<1>13. At(Kind, source) \in Int
  BY <1>4 DEF At, SourcesInv, SourcesType
<1>14. pinned'.state = "FileReader" =>
         /\ pinned'.entry = Idx
         /\ Kind # "File" => At(Kind, source') = Place(pinned')
  <2>1. Place(pinned') = pinned'.pos
    BY <1>7 DEF Place
  <2> QED
    BY <1>4, <1>7, <1>9, <1>10, <1>12, <1>13, <2>1
<1>15. SourceInStep'
  BY <1>2, <1>5, <1>14, InStepAgain
<1> QED
  BY <1>2, <1>7, <1>11, <1>15 DEF SourcesInv, SeekWaits

(* A seek that is asked for makes the source go to the target, and the     *)
(* reader counts from there once it has completed.                         *)
LEMMA SeekTheSourceInStep ==
  ASSUME SourcesInv, SeekTheSource
  PROVE  SourcesInv'
<1> DEFINE started == IF pinned.seek_in_progress THEN source
                      ELSE StartSeekOf(Kind, source, Size, to_skip)
           a == PollSeekCompleteOf(Kind, started, Size)
           p == SeekStarted(pinned, to_skip)
<1>1. SeekSource
  BY DEF SeekTheSource
<1>2. DeliversInv' /\ Inv' /\ Inv
  BY <1>1, StepKeepsInv DEF Next, SourceStep, SourcesInv, DeliversInv
<1>3. pinned.state = "FileReader" /\ to_skip \in Nat /\ to_skip > 0
  BY <1>1, <1>2 DEF SeekSource, Inv, PcFits, TypeOK
<1>4. /\ pinned.entry = Idx /\ Kind \in Readable /\ Size \in Nat
      /\ pinned \in ReaderPinned
  BY <1>3, OpenIsReadable
<1>5. UNCHANGED << archive, kinds >>
  BY <1>1 DEF SeekSource, SeekTheSource, Becomes
<1>6. /\ p \in ReaderPinned /\ p.seek_in_progress
      /\ p.state = "FileReader" /\ p.entry = Idx
      /\ p.target = IF pinned.seek_in_progress THEN pinned.target ELSE to_skip
  BY <1>3, <1>4 DEF SeekStarted, ReaderPinned
<1>7. Kind # "File" =>
        /\ started \in [position : Int, remaining : Int, delay : BOOLEAN]
        /\ At(Kind, started) = p.target
  <2>1. CASE pinned.seek_in_progress
    BY <1>3, <1>6, <2>1 DEF SourcesInv, SourcesType, SourceInStep, At
  <2>2. CASE ~ pinned.seek_in_progress
    <3>1. started = StartSeekOf(Kind, source, Size, to_skip)
      BY <2>2
    <3>2. p.target = to_skip
      BY <1>6, <2>2
    <3> HIDE DEF started, p
    <3>3. to_skip \in Int
      BY <1>3
    <3> QED
      BY <1>4, <3>1, <3>2, <3>3, SeekMoves DEF SourcesInv, SourcesType
  <2> QED
    BY <2>1, <2>2
<1> HIDE DEF started
<1>8. Kind # "File" =>
        /\ a.s \in [position : Int, remaining : Int, delay : BOOLEAN]
        /\ At(Kind, a.s) = p.target
        /\ a.ready => a.value = p.target
  <2> HIDE DEF p
  <2> QED
    BY <1>4, <1>7, SeekCompletes
<1>9. \/ pinned' = SeekCompleted(p) /\ pc' # "idle"
      \/ pinned' = p /\ pc' = "idle" /\ UNCHANGED to_skip
      \/ /\ pinned' = [p EXCEPT !.target = pinned.pos]
         /\ pc' = "idle" /\ result'.kind = "Io" /\ UNCHANGED to_skip
  BY <1>1 DEF SeekSource, Panics, ReturnsPending, ReturnsIoError, Returns
<1>10. /\ pinned'.state = "FileReader" /\ pinned'.entry = Idx
       /\ pinned'.seek_in_progress => to_skip' > 0
  <2> HIDE DEF p
  <2> QED
    BY <1>3, <1>6, <1>9 DEF SeekCompleted, ReaderPinned
<1> HIDE DEF p, a
<1>11. /\ Kind = "File" => source' = NoSource
       /\ Kind # "File" =>
            /\ source' = a.s
            /\ IF a.ready THEN pc' # "idle" ELSE Waits
  BY <1>10 DEF SeekTheSource, Becomes, a, started
<1>12. SourcesType'
  BY <1>5, <1>8, <1>11, KindsKept, NoSourceType
<1>13. Kind # "File" => Place(pinned') = p.target
  <2>1. CASE a.ready /\ Kind # "File"
    BY <1>6, <1>9, <1>11, <2>1 DEF SeekCompleted, Place, ReaderPinned
  <2>2. CASE ~ a.ready /\ Kind # "File"
    BY <1>6, <1>9, <1>11, <2>2 DEF Waits, Place
  <2> QED
    BY <2>1, <2>2
<1>14. SourceInStep'
  BY <1>2, <1>5, <1>8, <1>10, <1>11, <1>13, InStepAgain
<1> QED
  BY <1>2, <1>10, <1>12, <1>14 DEF SourcesInv, SeekWaits

-----------------------------------------------------------------------------
(* The theorem.                                                            *)

LEMMA SourcesNextKeeps ==
  ASSUME SourcesInv, [SourcesNext]_sourcesVars
  PROVE  SourcesInv'
<1>1. CASE CallerMoves \/ CallerReads
  BY <1>1, CallerInStep
<1>2. CASE ReaderRuns
  BY <1>2, ReaderRunsInStep
<1>3. CASE OpenSource
  BY <1>3, OpenSourceInStep
<1>4. CASE ReadSource
  BY <1>4, ReadSourceInStep
<1>5. CASE EndSource
  BY <1>5, EndSourceInStep
<1>6. CASE SeekTheSource
  BY <1>6, SeekTheSourceInStep
<1>7. CASE UNCHANGED sourcesVars
  <2>1. UNCHANGED vars /\ UNCHANGED << kinds, source >>
    BY <1>7 DEF sourcesVars
  <2>2. DeliversInv' /\ Inv'
    BY <2>1, StepKeepsInv
  <2>3. UNCHANGED << archive, pinned, pc, to_skip >>
    BY <2>1 DEF vars, readState
  <2>4. SourcesType' /\ SeekWaits'
    BY <2>1, <2>3, KindsKept DEF SourcesInv, SourcesType, SeekWaits
  <2>5. SourceInStep'
    BY <2>1, <2>2, <2>3, LeftAlone
  <2> QED
    BY <2>2, <2>4, <2>5 DEF SourcesInv
<1> QED
  BY <1>1, <1>2, <1>3, <1>4, <1>5, <1>6, <1>7 DEF SourcesNext, SourceRuns

(* Wherever the caller seeks and however often a source stays pending, the *)
(* reader and the source agree on the place: what read_entry_data and      *)
(* get_crc count as read, and what a seek of CrcReader is taken to have    *)
(* reached, is what AsRefReader, Cursor, Zeros and LazyReader hold.  *)
THEOREM SourcesStayInStep == SourcesSpec => []SourceInStep
<1>1. SourcesInit => SourcesInv
  BY SourcesStart
<1>2. SourcesInv /\ [SourcesNext]_sourcesVars => SourcesInv'
  BY SourcesNextKeeps
<1>3. SourcesInv => SourceInStep
  BY DEF SourcesInv
<1> QED
  BY <1>1, <1>2, <1>3, PTL DEF SourcesSpec

=============================================================================
