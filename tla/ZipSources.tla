----------------------------- MODULE ZipSources -----------------------------
(***************************************************************************)
(* The reader over the data sources there are: the readers behind          *)
(* EntryData::get_reader and EntryReader (src/entry_data.rs), of files,    *)
(* directories and symlinks (src/filesystem_entry.rs), and of the tests    *)
(* (src/test_util/funky_entry_data.rs).  In ZipReader a source completes,  *)
(* stays pending or fails as it pleases, and stands where it should; here  *)
(* it has a state of its own and that state decides.                       *)
(*                                                                         *)
(* A File is the operating system's, and still does as it pleases.  Of the *)
(* others the data is as long as they say, so no seek of the reader leaves *)
(* it, and errors of start_seek are not part of the model.                 *)
(***************************************************************************)
EXTENDS ZipReader

CONSTANTS
  Kinds,       \* the types of entries in the archive
  MaxMoves     \* bound: seeks and clones of the caller

(* AsRef: anything in memory.  Symlink: a Cursor over its target.  Zeros   *)
(* and Lazy: of the tests; Lazy is pending every other time it is asked.   *)
AllKinds == {"AsRef", "File", "Symlink", "Directory",
             "Zeros", "Lazy", "EmptyUnsupported"}

(* get_reader of the other kinds is unreachable!() or unimplemented!().    *)
Readable == AllKinds \ {"Directory", "EmptyUnsupported"}

ASSUME SourcesAssumption == Kinds \subseteq AllKinds /\ MaxMoves \in Nat

VARIABLES
  kinds,       \* the type of each entry: never written
  source,      \* the fields of the future or the reader that is pinned
  moves

sourcesVars == << vars, kinds, source, moves >>

(* Zeros counts remaining, the others position; only Lazy has a delay. *)
NoSource == [position |-> 0, remaining |-> 0, delay |-> TRUE]

(* EntryData::size. *)
SizeFits(kind, entry) ==
  /\ entry.actual = entry.size
  /\ kind \notin Readable => entry.size = 0

SourcesInit ==
  /\ Init
  /\ kinds \in [DOMAIN Entries -> Kinds]
  /\ \A i \in DOMAIN Entries : SizeFits(kinds[i], Entries[i])
  /\ source = NoSource
  /\ moves = 0

-----------------------------------------------------------------------------
(* The operations of the sources.  What is polled gives the value it       *)
(* resolved to, or stays pending; either way it has a state afterwards.    *)
(* len is the length of the data.                                          *)

Ready(value, s) == [ready |-> TRUE, value |-> value, s |-> s]
Pending(s)      == [ready |-> FALSE, value |-> 0, s |-> s]

Least(m, n) == IF m < n THEN m ELSE n

(* AsRefReader. *)
NewAsRefReader == NoSource
AsRefPollRead_Kept(s, len, room) ==
  Ready(IF s.position > len THEN 0 ELSE Least(len - s.position, room), s)
AsRefPollRead(s, len, room) ==
  LET n == IF s.position > len THEN 0 ELSE Least(len - s.position, room)
  IN  Ready(n, [s EXCEPT !.position = @ + n])
AsRefStartSeek(s, offset)   == [s EXCEPT !.position = offset]
AsRefPollSeekComplete(s)    == Ready(s.position, s)

(* std::io::Cursor does the same, and FilesystemEntryReader::Symlink is it. *)
NewCursor == NoSource
CursorPollRead(s, len, room) == AsRefPollRead(s, len, room)
CursorStartSeek(s, offset)   == [s EXCEPT !.position = offset]
CursorPollComplete(s)        == Ready(s.position, s)

(* Zeros. *)
NewZeros(size) == [NoSource EXCEPT !.remaining = size]
ZerosPollRead(s, room) ==
  LET n == Least(s.remaining, room)
  IN  Ready(n, [s EXCEPT !.remaining = @ - n])
ZerosStartSeek(s, len, offset) == [s EXCEPT !.remaining = len - offset]
ZerosPollComplete(s, len)      == Ready(len - s.remaining, s)

(* LazyReader and LazyReaderFuture: a Cursor behind a delay. *)
NewLazyReader == NewCursor
Toggled(s) == [s EXCEPT !.delay = ~@]
LazyPollRead(s, len, room) ==
  IF Toggled(s).delay THEN CursorPollRead(Toggled(s), len, room)
                      ELSE Pending(Toggled(s))
LazyPollComplete(s) ==
  IF Toggled(s).delay THEN CursorPollComplete(Toggled(s))
                      ELSE Pending(Toggled(s))
LazyFuturePoll(s) ==
  IF Toggled(s).delay THEN Ready(0, NewLazyReader) ELSE Pending(Toggled(s))

(* EntryData::get_reader: the future, and what polling it comes to. *)
GetReader == NoSource

PollFuture(kind, s, len) ==
  CASE kind = "AsRef"   -> Ready(0, NewAsRefReader)
    [] kind = "Symlink" -> Ready(0, NewCursor)
    [] kind = "Zeros"   -> Ready(0, NewZeros(len))
    [] kind = "Lazy"    -> LazyFuturePoll(s)

(* EntryReader, and FilesystemEntryReader for a symlink. *)
PollReadOf(kind, s, len, room) ==
  CASE kind = "AsRef"   -> AsRefPollRead(s, len, room)
    [] kind = "Symlink" -> CursorPollRead(s, len, room)
    [] kind = "Zeros"   -> ZerosPollRead(s, room)
    [] kind = "Lazy"    -> LazyPollRead(s, len, room)

StartSeekOf(kind, s, len, offset) ==
  CASE kind = "AsRef"               -> AsRefStartSeek(s, offset)
    [] kind \in {"Symlink", "Lazy"} -> CursorStartSeek(s, offset)
    [] kind = "Zeros"               -> ZerosStartSeek(s, len, offset)

PollSeekCompleteOf(kind, s, len) ==
  CASE kind = "AsRef"   -> AsRefPollSeekComplete(s)
    [] kind = "Symlink" -> CursorPollComplete(s)
    [] kind = "Zeros"   -> ZerosPollComplete(s, len)
    [] kind = "Lazy"    -> LazyPollComplete(s)

-----------------------------------------------------------------------------
(* The reader's side: what it asks of the source.                          *)

(* A step of ZipReader whose source is pending leaves poll_read.           *)
Waits == pc' = "idle" /\ result'.kind # "Io"

(* A dropped future or reader takes its state with it. *)
Becomes(s) ==
  /\ source' = IF pinned'.state \in {"ReaderFuture", "FileReader"}
               THEN s ELSE NoSource
  /\ UNCHANGED << kinds, moves >>

Kind == kinds[Idx]
Size == Entries[Idx].actual

(* get_reader is called once, and its future kept. *)
FutureToPoll_Fresh == GetReader
FutureToPoll == IF pinned.state = "Nothing" THEN GetReader ELSE source

OpenSource ==
  LET a == PollFuture(Kind, FutureToPoll, Size) IN
  /\ OpenReader
  /\ Kind \in Readable
  /\ IF Kind = "File" THEN Becomes(NoSource)
     ELSE /\ pinned'.state = IF a.ready THEN "FileReader" ELSE "ReaderFuture"
          /\ Becomes(a.s)

(* Room in the buffer the source is read into. *)
Room ==
  CASE AtPull      -> Remaining
    [] pc = "data" -> Least(to_skip, ScratchSize)
    [] pc = "crc"  -> ScratchSize

(* poll_read while there is data, or while the source stays pending; the   *)
(* end of the data too, if it is met while passing over.                   *)
ReadSource ==
  LET a == PollReadOf(Kind, source, Size, Room) IN
  /\ SkipByReading \/ PullData \/ ReadForCrc
  /\ IF Kind = "File" THEN Becomes(NoSource)
     ELSE /\ IF a.ready THEN pc' # "idle" /\ pinned'.pos = pinned.pos + a.value
                        ELSE Waits
          /\ Becomes(a.s)

(* poll_read at the end of the data. *)
EndSource ==
  LET a == PollReadOf(Kind, source, Size, Room) IN
  /\ FinishData \/ FinishCrc
  /\ IF Kind = "File" THEN Becomes(NoSource)
     ELSE a.ready /\ a.value = 0 /\ Becomes(a.s)

(* start_seek unless one is in progress, and poll_seek_complete. *)
SeekTheSource ==
  LET started == IF pinned.seek_in_progress THEN source
                 ELSE StartSeekOf(Kind, source, Size, to_skip)
      a       == PollSeekCompleteOf(Kind, started, Size)
  IN
  /\ SeekSource
  /\ IF Kind = "File" THEN Becomes(NoSource)
     ELSE /\ IF a.ready THEN pc' # "idle" /\ pinned'.pos = a.value ELSE Waits
          /\ Becomes(a.s)

-----------------------------------------------------------------------------

CallerMoves ==
  /\ moves < MaxMoves
  /\ \/ \E d \in SeekOffsets : SeekStart(d) \/ SeekEnd(d)
     \/ TakePinned
  /\ moves' = moves + 1
  /\ source' = IF pinned' = Nothing THEN NoSource ELSE source
  /\ UNCHANGED kinds

CallerReads ==
  /\ \E n \in ReadSizes : PollRead(n)
  /\ UNCHANGED << kinds, source, moves >>

ReaderRuns == LoopStep /\ UNCHANGED << kinds, source, moves >>

SourceRuns == OpenSource \/ ReadSource \/ EndSource \/ SeekTheSource

SourcesNext == CallerMoves \/ CallerReads \/ ReaderRuns \/ SourceRuns

(* The caller polls on, unless it got an error; the steps of a call are    *)
(* taken.  An operation on a file does not stay pending for ever; of the   *)
(* other sources only their own state is relied on.                        *)
SourcesSpec ==
  /\ SourcesInit /\ [][SourcesNext]_sourcesVars
  /\ WF_sourcesVars(CallerReads)
  /\ WF_sourcesVars(ReaderRuns)
  /\ WF_sourcesVars(SourceRuns)
  /\ SF_sourcesVars(SourceRuns /\ SourceAnswers /\ Kind = "File")

-----------------------------------------------------------------------------
(* Properties.                                                             *)

(* The place the reader takes the source to be at, from which it names the *)
(* bytes it passes on and counts those it passes over, is where the source *)
(* is by its own account, or where it is going (AsRefReader::position and  *)
(* its like in the other readers).                                         *)
SourceInStep ==
  pinned.state = "FileReader" /\ Kind # "File" =>
    (IF Kind = "Zeros" THEN Size - source.remaining ELSE source.position)
      = (IF pinned.seek_in_progress THEN pinned.target ELSE pinned.pos)

(* A caller that keeps polling gets to the end of the archive, unless it   *)
(* seeks for ever or a file fails.  So no poll throws away what the one    *)
(* before it achieved, no call asks a directory for a reader, and every    *)
(* source answers in a way that the reader can go on from.                 *)
AtEnd == pc = "idle" /\ result.kind = "Ok" /\ out = << >>
           /\ Cursor >= archive.total_size
FileFailed == result.kind = "Io" /\ Kind = "File"
ReadsToEnd == <>(AtEnd \/ FileFailed)
=============================================================================
