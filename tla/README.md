# zippity: a TLA+ verification project

zippity builds a ZIP file that never exists in one piece: a `Reader`
(an `AsyncRead` and `AsyncSeek`) computes any part of it on demand from the
entries' own data, which it opens, seeks and reads only when it has to.  The
modules here model the reader, the sources it reads from, the layout it walks,
the structures it writes, the builder that makes it all and the walk that fills
a builder from a directory tree, and the HTTP response that serves it.  TLC checks
them on small instances.  TLAPS proves every safety property that the passing
runs check, for every value of the parameters, and that the reader implements
its abstract specification.

## 1. Inventory

| Component | State | Operations |
|---|---|---|
| `Reader` / `ReadState` (`src/reader.rs`) | current chunk, bytes done of it, `position`, `staging_buffer`, `to_skip`, the CRCs filled in so far, the pinned entry reader | `poll_read`, `start_seek`, `tell`, `take_pinned`, `clone`, `seek_from_start_mut` |
| `CrcReader` (`src/crc_reader.rs`) | CRC so far, `did_seek`, `seek_in_progress` | `poll_read`, `seek`, `start_seek`, `poll_seek_complete`, `get_crc32` |
| Layout (`Chunk` in `src/reader.rs`) | none: a function of the entries | `new`, `size`, `next` |
| Structures (`src/structs.rs`) | none | fields, widths and packed sizes; `DosDatetime::new` and its accessors |
| `Builder` (`src/builder.rs`) | ordered map of entries, `total_size` | `add_entry`, `get_entries_mut`, `system_time_converter`, `size`, `build` |
| `BuilderEntry` (`src/builder.rs`) | CRC, modification time, type, permissions | setters, some of which can fail; external attributes |
| `EntryData`, `AsRefReader` (`src/entry_data.rs`) | position in memory | size, opening, reading, seeking |
| `FilesystemEntry` (`src/filesystem_entry.rs`) | path, kind, link target; open file or cursor | opening, reading, seeking |
| Directory walk (`src/filesystem_entry.rs`) | stack of directories, the one being listed, root name and metadata | `add_directory_recursive`, `add_filesystem_entry` |
| Test sources (`src/test_util/funky_entry_data.rs`) | position, delay | opening, reading, seeking |
| `BytesStream` (`src/bytes.rs`) | reader, block buffer | `poll_next` |
| `ActixWebAdapter`, `Body` (`src/actix_web.rs`) | range, bytes left, drop channel | range handling, `poll_next`, `drop` |

How they interact.  `Builder::build` computes the offset of every entry and of
the central directory once and hands them to `Reader::new`; from then on the
reader trusts them and never looks back.  A `poll_read` runs a loop over chunks
(local header, data, data descriptor of each entry; then the central directory
headers; then the end records).  Structures are written piece by piece to the
caller's buffer, or to the staging buffer when they do not fit or their start
is to be skipped.  Entry data comes from a source opened through a future and
wrapped in a `CrcReader`; both live in the pinned part of the reader and
survive from one poll to the next.  A data descriptor or central directory
header needs the entry's CRC, and if nobody knows it the reader opens the entry
a second time to compute it.  The directory walk borrows the builder for as long
as its future lives, adds an entry for everything it meets and fills in what the
file system said of it; the entries open their files only when they are read.
`BytesStream` polls a reader block by block, and
the actix adapter serves a range of it and gives the reader back through a
channel when the response is dropped.

What is hard about it.  There are no threads: the reader is borrowed mutably by
every call.  But a source may stay pending or fail at each of four places
(opening, skipping, seeking, reading), in the middle of a call that may already
have delivered bytes; and between two polls the caller may seek anywhere, clone
the reader, take it apart, retry or give up.  Five fields (`current_chunk`,
`chunk_processed_size`, `staging_buffer`, `to_skip` and what is pinned) must
together name one position in the file at every such point.  The directory walk
has the file system for an adversary: between any two of its awaits the tree may
change, an operation may fail, and the future may be dropped, and the type, the
size, the name and the contents of an entry come from different awaits.
`PROJECT.json` lists the hazards line by line.

What makes each part correct:

- Reader: the bytes delivered are those that belong at their position, nothing
  is repeated or left out, end of file comes only there, polls come back and a
  caller that keeps polling gets to the end; a CRC is the CRC of the data, is
  stable, and is known after the data was read; data that contradicts its size
  or CRC is never papered over; entries are opened only when needed.
- Layout and builder: chunks tile the file, offsets are where the chunks are,
  sums end at `u64::MAX`, `size()` is the size of what is built, names are
  distinct and fit their length field.
- Stream and web adapter: what is sent is the range that was promised, or the
  response fails; it ends; the reader handed back when the response is dropped
  has the CRCs that were computed and can be read on.
- Structures and metadata: from the end of the file, pointers lead an unzipping
  program to every entry, with its name, time, type and permissions as they
  were set; a time survives its packing; a setter that fails does what it says.
- Sources: where the reader takes a source to be is where it is, and whatever a
  source answers, the reader can go on from it.
- Directory walk: if it succeeds, what did not change meanwhile is in the
  archive exactly once; however it ends, directories below the root precede their
  contents, the root's own entry comes after everything else, and entries agree
  with themselves; it ends.

## 2. Modules

| Module | Models |
|---|---|
| `ZipLayout` | `Chunk`, `Builder::build`, `Reader::new_empty_file`; `WellLaidOut`, what the reader takes for granted |
| `ZipReader` | `Reader`, `ReadState`, `CrcReader`; EXTENDS `ZipLayout` |
| `ZipStream` | the promise: a file that is read from any position |
| `ZipSources` | `AsRefReader`, `FilesystemEntryReader`, the test sources, composed with the reader; EXTENDS `ZipReader` |
| `ZipBody` | `BytesStream`, `ActixWebAdapter` and `Body`, composed with the reader they poll; EXTENDS `ZipReader` |
| `DosDatetime` | `structs::DosDatetime` |
| `ZipEntry` | `BuilderEntry`, `get_external_attributes`; EXTENDS `ZipLayout`, `DosDatetime` |
| `ZipContent` | the structures with their fields, and the promise: an archive that can be unzipped; EXTENDS `ZipLayout` |
| `ZipStructs` | the widths of the fields of the packed structures |
| `ZipBuilder` | `Builder`; EXTENDS `ZipEntry`, `ZipContent` |
| `FilesystemWalk` | `Builder<FilesystemEntry>`, composed with the builder it fills and a file system; EXTENDS `ZipBuilder` |
| `MCZipReader`, `MCZipSources`, `MCZipBody`, `MCZipBuilder`, `MCFilesystemWalk` | constants for TLC |
| `ZipLayoutProofs` | that `build()` makes what the reader takes for granted |
| `ZipReaderProofs` | the inductive invariant of `ZipReader`, theorems; EXTENDS `ZipLayoutProofs` |
| `ZipReaderDelivers` | that every byte is delivered at its place; EXTENDS `ZipReaderProofs` |
| `ZipReaderRefines` | that `ZipReader` implements `ZipStream`, and `tell()`; EXTENDS `ZipReaderDelivers` |
| `ZipSourcesProofs` | that the reader knows where its sources are; EXTENDS `ZipReaderDelivers` |
| `ZipBodyProofs` | the HTTP body; EXTENDS `ZipReaderRefines` |
| `ZipBuilderProofs` | the round trip of a time, the builder; EXTENDS `ZipLayoutProofs` |
| `FilesystemWalkProofs` | the directory walk; EXTENDS `ZipBuilderProofs` |

**ZipReader.**  A byte of the file is identified with its offset, so `out`, the
caller's buffer, shows what was delivered and from where; a CRC32 is what was
hashed (`CrcOf(i, n)`, the first `n` bytes of entry `i`).  `pc` says where in
`poll_read` the reader is: outside (`idle`), at the head of the loop of
`ReadState::read` (`loop`), in `read_entry_data` with the reader open (`data`),
in the same behind the skipping (`pull`), in `get_crc` (`crc`), or `panicked`.
One `poll_read` is `PollRead(n)`, a number of steps, and a return:

| Action | Code |
|---|---|
| `ReadFromStaging`, `SkipChunk`, `ReturnOk` | head and end of the loop in `ReadState::read` |
| `ReadLocalHeaderOrEocd`, `ReadCrcStructure` | `read_local_header`, `read_eocd`, `read_data_descriptor`, `read_cd_file_header`, with `read_packed_struct`/`read_str` as `ReadPiece` |
| `UseOpenReader`, `OpenReader`, `PollSpentFuture` | `ReaderEntry::get_reader` |
| `SkipByReading`, `SeekSource`, `PullData`, `FinishData` | `read_entry_data`, with `CrcReader` |
| `ReadForCrc`, `FinishCrc` | `ReaderEntry::get_crc` |
| `PollRead`, `SeekStart`, `SeekCurrent`, `SeekEnd`, `TakePinned` | the caller; `Clone` and `take_pinned` make a new reader at `tell()` with the same CRCs, which is `TakePinned`; the reader `take_pinned` leaves behind is `NewEmptyFile`, one of the archives of the runs |

The source is the environment: at each call it gives any number of bytes it
has, reports the end of its data, stays pending (`CanPend`) or fails
(`CanFail`).  How long its data really is (`actual`) need not be what the entry
reports (`size`).  After an error in `RetriedErrors` the caller may poll again
without a seek.

**ZipSources.**  In `ZipReader` the environment answers for the source; here
every kind of source has a state (`source`, of the future or reader that is
pinned) and answers for itself.  An action is one of `ZipReader`'s in which the
source takes part, conjoined with what the source does: `OpenSource` (its future
is polled), `ReadSource` and `EndSource` (`poll_read`, `EndSource` where it gave
nothing), `SeekTheSource` (`start_seek` and `poll_seek_complete`).  `Kinds` are
in-memory data, symlinks (a cursor over their target), directories (which have
no reader: `get_reader` is `unreachable!`), and from the tests `Zeros`,
`LazyReader` (pending every other time) and `EmptyUnsupportedReader`.  A `File`
is the operating system's and keeps the freedom it has in `ZipReader`.

**DosDatetime, ZipEntry.**  The setters of a `BuilderEntry` are functions from
the entry before to the entry after; one that returns an `Option` has a `..Fails`
beside it that says when that is `None`.  A `SystemTime` is a model value, and
`Convert` what the time converter makes of it; a chrono time zone is such a
converter.  The encoding of a time is arithmetic, as in the code.

**ZipContent, ZipStructs.**  `Pieces` are what the reader writes for a chunk, as
records of the fields that carry information, `ChunkOrder` and `ChunkOffsets`
what the reader comes to and where, and `Image` is the whole file: its length, and
the set of all pieces with the offsets where they came to lie.  `Unzips` knows nothing but an
image: it goes from the end of the file over the locator and the Zip64 record to
the headers and on to names, data and data descriptors, and compares what it
finds.  Flags are the set of the bits that are 1 as they are serialized, high
byte first, because the declaration of `GpBitFlag` swaps them to make up for it.

**ZipBuilder.**  `AddEntry` is `add_entry` with its three refusals in the code's
order; `SetTime`, `SetType`, `SetPermissions` and `SetRest` call every setter, on
an entry just added or reached through the map; `ShiftRemove`, `SwapRemove` and
`InsertCopy` are what a caller can do to the map behind `get_entries_mut`;
`Built` and `BuiltDetails` are what `build` hands to the reader.

**FilesystemWalk.**  `fs` is the tree on disk, a function from paths to nodes.
`call` holds the locals of the one future there can be, as the builder is
borrowed by it, and `call.at` the await it is suspended at.  An action is what
runs from the answer of one await to the next: `StatRoot` (`symlink_metadata`),
`OpenDir` (`read_dir`), `NextEntry`, `PopDirectory` and `FinishWalk` (the three
outcomes of `next_entry`), `EntryMetadata` (`metadata`), `ReadLink`
(`read_link`).  Each may fail.  Between any two, `Deleted`, `Created` and
`Replaced` change the tree, and `DropCall` drops the future.  A listing that is
being read may or may not show a change.  A name is the sequence of its parts;
`Lossy` is `to_string_lossy`, under which different names may become one.

**ZipBody.**  The caller of the reader is here the HTTP body, and the caller of
the body is the server.  `Respond` and `Refuse` are `respond_to`; `PollNext`
starts a `poll_next` (which calls `poll_read` through `BytesStream` and
`poll_read_buf`), `ReaderRuns` are the reader's own steps, and `TakeBlock` and
`NoBlock` are what `poll_next` makes of the answer.  The server may drop the
body between any two polls (`Drop`), which sends the reader through the channel
if there is one.  The actions are those of `ZipReader`, not those of its
abstraction `ZipStream`: the CRCs and the errors matter here.

**ZipStream.**  Five variables: size, position, and what the last call
delivered.  `ZipReader` implements it under the refinement mapping at the end
of that module: the position of the stream is `base + Len(out)`, not the
`position` field, because the two differ (see findings).

Definitions whose name ends in `_<Something>` are slips one could make in the
definition that follows; each is shown to break a property.

## 3. Runs

In the runs of the reader the structures are 1 or 2 bytes long instead of 20 to
56: what the code distinguishes is whether a piece fits, is skipped or staged,
and headers keep being made of up to three pieces.  In those of the builder they
have their real sizes, which an assumption of `MCZipBuilder` compares with the
widths of their fields.

| Run | What it shows |
|---|---|
| `sync` | Sources that answer at once, all operations, buffers of 0, 1, 3 and 40 bytes, every offset from -1 to behind the end. Reads, seeks and clones behave as a file (`ImplementsStream`), and `tell()` is its position (`TellIsCursor`); CRCs are left behind (`DataLeavesCrc`). |
| `async` | Sources may stay pending or fail everywhere; the caller seeks at any time. The reader is still a file, CRCs are true, no entry is opened in vain. |
| `faulty` | Data shorter or longer than reported, wrong CRCs, a caller that retries I/O errors. Each byte is in its place where data is honest, data that lies is never passed as complete, assertions hold, every poll returns, and every step of it brings it closer to that (`CallAdvances`). |
| `live` | Two entries of any kind, every combination of sources. Where the reader takes a source to be is where it is (`SourceInStep`); a polled reader reaches the end of the file unless a file fails (`ReadsToEnd`). |
| `add_write_build` | Builder: entries accepted and refused, described by setters, the map changed behind its back, `build` at every point. The layout is what the reader assumes, what is built can be unzipped and every entry is found as it was described, also with the pieces at real sizes and sizes and offsets above `U32Max`; `size()` is right while entries are only added, and at the edge of `u64` exactly the entries that fit are accepted. |
| `walk` | Walks and single entries over five trees (nested, with a symlink and an empty file, with two files of one directory whose names collide, absent, a symlink) that change at one path meanwhile, with failures and drops at every await. Ok means the tree is in the archive (`OkWalkIsTheTree`); however it went, `DirectoriesInOrder` and `EntriesAgree` hold; a walk ends. |
| `served` | HTTP responses with any valid range, or none, over honest data, data that is shorter or longer than reported, up to filling the rest of the response, and data of which the CRC given is wrong; sources stay pending or fail, the body is dropped at any poll. What is sent is the beginning of the range and, at the end, all of it; the `expect` and the reader's assertions hold; a complete download is of data that is what was promised, up to an entry that overruns the response. At any point of a download the reader has the CRCs of what was passed, and the one that comes back when the body is dropped goes on at `tell()` (`ReaderComesBack`). A response ends, unless it stays where data ended while it was skipped (`ResponseEnds`). |
| `pending_position`, `seek_assert`, `actual_size`, `skip_livelock`, `or_default` | the findings |

Bounds.  Archives have 0 to 2 entries: with two there is a first and a last
local header, a previous entry to binary-search to, and a CRC of one entry that
could be mistaken for the other's; the reader looks at no pair of entries that
are further apart.  Entry data is 0 to 3 bytes, with a scratch buffer
(`ScratchSize`, `READ_SIZE` in the code) of 2, so that skipping needs one read,
several, or a part of one.  Buffers of 1 byte stop within every piece, 3 within
a header, 40 hold a whole archive.  Archives end between 4 and 26; offsets
beyond that, and the overflow at `U64Max` = 32, are tried.  In the builder
the structures are real, `U64Max` is 581, which several mixes of up to three
entries reach or exceed, `U32Max` 100, which total sizes, the offset of the
directory behind two entries and that of a third entry exceed before that, and
`U16Max` 3, which one name does; there are at most
three entries (`MaxEntries`), one call of a setter (`MaxSetters`; each overwrites
fields of one entry whatever they were, but for a failed conversion, which leaves
the entry alone) and one write to the map (`MaxWrites`).  In `walk` a tree is up to three levels deep, so that a directory
waits on the stack while another is listed; one path changes during a call
(`MaxChanges`), at any await and to anything; there are two calls (`MaxCalls`),
the second of which finds the entries of the first; `U16Max` 4 and `U64Max` 60
make add_entry refuse names and sizes in the middle of a walk.  In `live` the
caller seeks or clones once (`MaxMoves`), at any time.  In `served` a block is at most 3 bytes, of
archives of 14 to 24: ranges end in the middle of a block and at the end of
one, and a block holds the end of one chunk and the beginning of another.  Data
of 12 bytes where 1 was promised just misses the end of its archive, 13 reach it
and 20 exceed it.

Deadlock is not checked in runs whose reader can panic or, after an error that
is not retried, may be left alone, nor in `add_write_build` and `walk`, which stop
at their bounds.

Fairness.  `FairSpec`: inside a `poll_read` the thread goes on
(`WF(LoopStep)`), and a source that is called and neither pends nor fails for
ever answers (`WF(SourceAnswers)`).  Nothing else is needed for `CallReturns`,
because all of it happens within one synchronous call.  `SourcesSpec`, for
`ReadsToEnd`, adds that the caller polls again, and that a file which is asked
again and again answers at last (strong fairness: each pending answer ends the
call, and disables it).  Without the latter an archive behind a dead disk would
have to be finished.  Of the other sources nothing is assumed: they answer
because of the state they keep, and if the reader threw that away, as a fresh
future in every poll would, a lazy one would never answer.  `FairWalkSpec`, for
`WalkEnds`, says that the future is polled and the file system answers each
operation, with a result or an error; the tree changes a bounded number of times,
without which a walk could chase directories that are made faster than it lists.  `ServedSpec`, for `ResponseEnds`, is `FairSpec` with
the server as the caller, which polls an open body, and a source that is asked
again and again answers at last.  It does not say that each question is answered: a
source that reports the end of its data whenever it is asked by the loop that
skips, and is pending whenever it is asked by the read behind that loop, answers
often enough.  A `LazyReader` does just that, or a `tokio::fs::File`.  Hence the exception
`[]SkippingPastEnd` in `ResponseEnds`, and the finding `skip_livelock`.

## 4. Findings

- `tell()` lags behind: `zippity_ready!` returns `Ok` from the middle of the
  loop when a source is pending and bytes have been written, skipping the
  update of `position` at the end.  It takes one unknown CRC that is needed after
  bytes have been written in the same call, as in a read that starts in the
  central directory.  A clone, `take_pinned`, or a relative seek then delivers
  these bytes again (`pending_position`).
- After a failed seek of a source the retry panics on
  `assert!(pos_after_seek == self.to_skip)` (`seek_assert`).
- `SizeMismatch::actual_size` counts bytes that were sought past and may not
  exist (`actual_size`).
- Where data of unknown CRC ends while it is skipped, the reader announces an error
  for later (`src/reader.rs:569`), but leaves `to_skip` above 0.  If the read that would
  bring the error is pending, the next poll goes back to the loop that skips,
  which consumes the answer, and the read is asked anew.  From a source that is
  pending every other time, the error never comes, and the response neither fails nor
  ends (`skip_livelock`).
- The default of an entry's time is the bit pattern 0, the year 1980 with month 0
  and day 0, and not the 1980-01-01 of the docs (`or_default`).

Observations that no run is about:

- `Builder::size()` is not `build().size()`, as its doc says
  (`src/builder.rs:427`), once `get_entries_mut` has been used to change the map:
  `total_size` is not adjusted, and `add_entry` then refuses entries that would fit.
- `get_entries_mut` lets a caller give an entry a name that `add_entry` would have
  refused; `NamesFit` is therefore part of `BuiltUnzips` only as long as the map is
  not written, and beyond that the `unreachable!("Checked when constructing
  entries.")` of `read_local_header` is reachable.
- `datetime_or_default` and `datetime_system_or_default` leave a time that was set
  before where their docs (`src/builder.rs:151`, `184`) say that it is replaced.
- `BytesStream` derives `Clone`, and a cloned empty `BytesMut` has no spare capacity:
  the assertion on it (`src/bytes.rs:34`) can fail when the clone is polled.
- Where the build is not unix, `BuilderEntry::permissions` (`src/builder.rs:249`)
  calls a method `ro` that does not exist; the model is of a unix build.

## 5. Proofs

Eight modules prove, for every value of the constants, every safety property
that the passing runs check.  A theorem has no hypothesis
but the named assumptions of the modules, unless the table says so.

| Module | Theorem | Property |
|---|---|---|
| `ZipReaderProofs` | `TypeCorrect` | `TypeOK` |
| | `CrcCorrect` | `CrcTrue` |
| | `CrcNeverChanges` | `CrcStable` |
| | `DataBringsCrc` | `DataLeavesCrc` |
| | `OpensOnlyNeeded` | `OpensOnlyWhatItNeeds` |
| | `AssertionsHold` | `NoAssertionFails` |
| | `EveryCallAdvances` | `CallAdvances` |
| | `DataIsChecked`, if `SeeksAfterMismatch` | `DataChecked` |
| `ZipReaderDelivers` | `DeliversInPlace` | `Delivered` |
| `ZipReaderRefines` | `ReaderIsStream`, if `TruthfulData` and `SeeksAfterError` | `ImplementsStream` |
| | `TellIsNextByte`, if sources neither pend nor fail | `TellIsCursor` |
| `ZipSourcesProofs` | `SourcesStayInStep` | `SourceInStep` |
| `ZipBodyProofs` | `RangeIsSent` | `BodySendsRange` |
| | `ExpectHolds` | `BodyNeverPanics` |
| | `CompleteDownloadIsHonest` | `CompleteIsHonest` |
| | `ReaderAlwaysComesBack` | `ReaderComesBack` |
| `ZipLayoutProofs` | `BuildLaysOut` | what `ReaderAssumption` takes for granted |
| `ZipBuilderProofs` | `BuilderTypeCorrect` | `TypeOK` of the builder |
| | `SizeIsCorrect` | `SizeIsBuiltUnlessWritten` |
| | `NamesFitUnlessWritten`, `SumsFitUnlessWritten` | the first part of `BuiltUnzips` |
| | `BuiltIsAnArchive`, if `Zip64ExtraFieldSize` is 28 | `BuiltUnzips` |
| | `WellLaidOutUnzips`, under the same | the promise of `ZipContent`, of any archive that is `WellLaidOut` |
| | `AcceptsWhatFits` | `AcceptsExactlyWhatFits` |
| | `BuiltForReader` | `BuiltIsWellLaidOut` |
| | `RoundTrip`, `PackedDistinct`, `DefaultIsNoTime` | times, which `BuiltUnzips` compares packed |
| `FilesystemWalkProofs` | `WalkTypeCorrect` | `WalkTypeOK` |
| | `WalkSizeIsCorrect` | `SizeIsBuiltUnlessWritten` |
| | `WalkIsAnArchive`, if `Zip64ExtraFieldSize` is 28 | `BuiltUnzips`, without its condition, of every walk |
| | `EntriesAlwaysAgree` | `EntriesAgree` |
| | `DirectoriesAlwaysInOrder` | `DirectoriesInOrder` |
| | `OkWalkIsTheWholeTree` | `OkWalkIsTheTree` |

**Assumptions.**  `StructSizesAssumption`: the structures have positive lengths.
`ReaderAssumption`: buffer sizes are naturals, and every archive is
`WellLaidOut`, that is, its chunks tile the file and its offsets are theirs, and
ends below `U64Max`.  The first is what `BuildLaysOut` proves of `Builder::build`
for any list of entries, and `BuiltForReader` of whatever was done to a builder;
the second is what `AcceptsWhatFits` keeps up.  `BuilderAssumption`: an empty
archive fits a `u64`, and the times, modes and CRCs that setters are called with
have their types.  `WalkAssumption` and `NamesAssumption`: a tree on disk has the
directory of every path, no file name is empty, and the builder's `Names` and
`Data` contain what a walk may hand to it.

The length of the Zip64 extra field is 2 + 2 + 3 * 8 bytes in the code, which
`PackedSizesAssumption` of `MCZipBuilder` compares with the widths of its fields; the
field carries its own length, and a program that unzips reads it.  The lengths of
the other structures are free: what matters is that the reader that writes them
and the builder that adds them up mean the same.

The other hypotheses are restrictions of the caller and of the data, under which the
properties were stated and are checked:

- `SeeksAfterMismatch`: after a `SizeMismatch` the caller seeks before it reads
  on, with a seek that is not refused, because a refused one returns its own
  error and leaves the reader as it was.  Reading on starts the entry again with
  the old byte count (`src/reader.rs:606`).
- `SeeksAfterError`: the same after an I/O error.  A file that is read from any
  position has no panics, and a retry may bring one: see `seek_assert`.
- `TruthfulData`: sizes and given CRCs are those of the data, as a stream does
  not have the errors that data which lies brings about.
- No pending and no failing sources for `tell()`: the run `pending_position`
  shows what a pending one does.

Nothing is assumed of the sources in the other theorems, nor of the entries' real
data, nor of the caller's choices.  `Delivered`, `BodySendsRange` speak of
archives whose data has the size it reports, in their own statements.

**The reader.**  None of its properties is inductive alone.  `Inv` adds:

- `PinnedFits`: what is pinned belongs to the current chunk's entry, and while
  it is pinned that chunk is neither skipped nor read from the staging buffer.
  Without it, a reader left over from another entry could be asked for data.
- `PcFits`: inside `read_entry_data` and `get_crc` the reader is open.
- `ReaderFits`: a reader that has not sought has hashed exactly what it has
  read; one that has sought is of an entry whose CRC is known.  This is what
  makes a CRC taken at the end of the data the CRC of all of it, and what keeps
  `get_crc`'s `expect` from failing.
- `ProcessedFits`: bytes of a chunk are carried over from one turn of the loop
  to the next only for entry data, hence the assertion on
  `chunk_processed_size` holds for structures.

`EveryCallAdvances` is as much of `CallReturns` as can be proved.  `Distance` is
seven numbers, compared in order: chunks left, whether the CRC that the current one
needs is missing, the room in the caller's buffer, what is staged, the place in the
loop, what is left to skip, what is left to hash.  Every step that stays in the call
lowers one and keeps those before it, and none goes below 0; `FairSpec` says that a
step is taken.

`CheckedInv` adds, for `DataChecked` and data of any size, that a CRC which was
given is kept (`GivenKept`), and that the byte count is the place in the source,
past the end of which only a seek leads (`CountFits`).

`DeliversInv` adds, for honest data, `DataFits` (what is counted of the data is
where the source stands, the rest of what is to be skipped lies inside it, and
a seek in the source is the first thing that happens to it) and `StagedFits`
(staged are the last bytes before the current chunk, with some of them still
wanted).  `PieceFits` is its counterpart between two pieces of one structure.
With them, every action either keeps the file position that the cursor stands
for or moves it by the bytes it delivers.  `CursorFits` says that the cursor is
`base + Len(out)` for data of any size.

`RefinesInv` adds what a step of the stream has to know: there is room for what
is written (`RoomFits`), nothing is written before all is skipped
(`SkippedFirst`), and what has failed is not asked again (`SourceFits`).  The
refinement has one lemma per action: a return is a step of `ZipStream`, every
other step of a call a stutter, as the stream reads in one step what a call
gathers.  That a call which returns nothing is at the end of the file is where
most of it is needed.  `TellFits` is small, because with sources that answer at
once a call always ends where it moves `position`.

**Sources.**  `SourcesInv` adds to `DeliversInv` that a seek in progress is one
to data that is still to be skipped (`SeekWaits`), hence nothing is read before
it has arrived, and that sizes are honest.  Then reader and source move together:
`ReadMoves`, `SeekMoves` and `SeekCompletes` say what the sources do, kind by kind.

**The HTTP body.**  `BodyInv` consists of the reader's invariant as the body uses
it (`ReaderServes`: it is never polled after an error, so it never panics), the
range (`RequestFits`), the accounts of what was sent and what remains
(`SentFits`), and that the reader stands where what was sent ends (`PlaceFits`).
The `expect` holds because a body with bytes remaining is not at the end of the
file.  For downloads of the whole archive, `Straight` says of a reader that was put
at the first byte that it has skipped nothing and therefore hashed everything: what
lies behind it is honest and has its CRC.  `CompleteTo(n)` says it of what was sent:
of the entries whose data ends before byte `n`, none that is dishonest and none
without its CRC, up to one whose data reaches `n`.  The body is always `CompleteTo`
what it has sent, also when it is dropped in the middle of an entry, and
`SentReaderFits` follows the reader through the channel: `take_pinned` puts it at
its position, with nothing pinned.

**Layout and builder.**  The sums of `build` are recursive functions, and
induction over data is out of the prover's reach; what has to be known of them is
proved from the last index at which it holds (`LastIndex`, from the
well-foundedness of finite sets).  `RunningSumIs` is the recursion,
`RunningSumAppend` that an entry more changes no sum before it; with them the
running `total_size` of `add_entry` is the total of `build`.  `BuilderInv` has
beside the types that `size()` is right and names fit while the map is not
written.  The same argument finds the entry that a seek lands in (`EntryAtFinds`)
and keeps the cursor from underflowing.

**The archive.**  `BuiltUnzips` relates what a loop has written, piece by piece, to
what pointers lead to.  `Rank` numbers the chunks; the number of the next chunk is
one higher (`RankNext`), and no chunk is left out, hence the k-th chunk the loop
comes to is the one of rank k (`ChunkOrderIs`).  The pieces of a chunk fill it
(`PiecesFill`), so the sum of what was written before a chunk is where
`WellLaidOut` says it starts (`OffsetsAreStarts`).  Chunks do not overlap, so at
one place there is at most one piece of a kind (`PiecesApart`; pieces may be
empty, as data or a name can be, which is why the kind is needed), and what a
pointer finds is what was put there (`PieceLies`).  From there it is a walk:
`EndIsFound`, `HeadersFollow` from one directory header to the next, which is
where `file_name_len` and `extra_field_len` have to be right, `EntryIsFound` for
each of them, and `WellLaidOutUnzips` for all.  `BuiltIsExpected` brings in the
builder: what it hands to the reader is what the callers of its setters described
(`SettersDescribe` goes through every setter, `ModeIsDocumented` through every mode).
No chunk starts behind the end of the file (`StartsWithin`), which add_entry keeps
below `U64Max`: hence `SumsFitUnlessWritten`.

**The directory walk.**  `TypeInv` types the locals of the call by the await it
is suspended at.  `OrderInv`: every entry of the walk has the name that its path
gives it and, below the root, comes after the entry of its directory, and every
directory on the stack or being listed has its entry (`DirSeen`).  `RootLast`: the
root has no entry while its walk goes on, and afterwards only as the last of it.  `CoverInv`: every path that did
not change is `Entered`, or still `Pending`: on the stack, in the listing, at hand,
or below a path that is not entered itself; and every entry is of something that
is or was on disk.  When the stack is empty and the listing done, nothing is
pending, and by the shortest path that would be missing (`AllEntered`) nothing is
missing.  A walk adds entries and never writes to the map behind the builder, so
`BuilderInv` is its invariant too, and what it leaves can be unzipped
(`WalkIsAnArchive`): from the tree on disk to the bytes and back, save the reading
of the files in between, which is the reader's.

**What the proofs found in the model.**  `CompleteIsHonest`, and what is now in
`ReaderComesBack`, were false of data that is longer than its entry says: `read_entry_data` reads
whatever the source gives, and if that fills the rest of the response, the body is
complete before the reader has seen where the data ends.  The doc of `EntryData`
(`src/entry_data.rs:24`) promises detection only "in some cases"; the properties
now say which, and the run `served` has data that just misses, fills and exceeds
the response.  `EndSource` of `ZipSources` dropped the state of a source whose
CRC did not match, although the reader stays pinned.

`DocumentedMode` and `PermBits` had a `CASE` whose guards overlap, of which TLA+
does not say which arm is taken.

**Only model-checked.**  Liveness (`CallReturns`, `ReadsToEnd`, `ResponseEnds`,
`WalkEnds`) is beyond the prover; of `CallReturns` it has what no fairness is needed
for.  The properties that runs find violated have nothing to prove.

## 6. What is not modelled

- Bytes: signatures are the kinds of pieces, and integers are not split into
  bytes, except for the flags.  Disk numbers, which are always 0, and the number
  of entries "on this disk", which is the total, are left out.  UTF-8.
- In the walk: a directory that is replaced by a symlink while it waits on the
  stack, which `read_dir` would follow out of the tree; hard links; more than one
  change of the same path during a call.  `OkWalkIsTheTree` leaves open what is entered
  below a path that changed, and does not compare the root's metadata.
- Sources: seeks outside the data, which the reader never asks for, and the
  errors and overflows of `start_seek` that follow from them.  `BadSize` of the
  tests is what `actual` is in `ZipReader`.
- Permissions of builds that are not unix.  The three functions of `Debug`.
- A `BytesStream` that is polled on after an error (the bytes that a failing
  `poll_read` wrote are lost); the server does not poll a failed body.  A
  `BytesStream` that was cloned.  The
  syntax of the Range header, which a library parses, and the response's other
  headers.
- Reading on after `SizeMismatch` or `Crc32Mismatch` without a seek: the code
  starts the entry again and again and no document says what should happen.
  The proofs cover it (`RetriedErrors`), save `DataIsChecked`, which excludes it;
  the runs do not.
- A buffer that is dropped or filled by someone else between polls; `ReadBuf`
  forbids it.

## 7. Plan

All the modules of the plan are written: every component of the library is
modelled, except for what section 6 lists, and every safety property is proved.
What could follow:

1. `ZipStructs`: that every number fits the width of the field it is written to, of
   which `NamesFit` and `SumsFit` are the two that depend on the entries.
2. `ZipBody`: responses one after the other with the reader that came back, of
   which `ReaderComesBack` says that it may be used again.
