------------------------- MODULE ZipReaderDelivers -------------------------
(***************************************************************************)
(* The proof that zippity::Reader delivers every byte at its place         *)
(* (Delivered), built on the invariant of ZipReaderProofs.                 *)
(***************************************************************************)
EXTENDS ZipReaderProofs

-----------------------------------------------------------------------------
(* The inductive invariant.                                                *)

(* Data that has the size it reports, and no assertion has failed. *)
Sound == HonestSizes(archive) /\ pc # "panicked"

(* What is counted of entry data is where its source stands, and the rest  *)
(* of what is to be skipped lies inside the data.  A seek in the source is *)
(* the first thing that happens to it.                                     *)
DataFits ==
  Sound =>
    /\ current_chunk.kind = "EntryData" /\ pinned.state = "FileReader" =>
         /\ pinned.pos = chunk_processed_size
         /\ chunk_processed_size + to_skip <= Entries[Idx].size
         /\ to_skip > 0 /\ crc32[Idx] # NoCrc => chunk_processed_size = 0
    /\ pinned.state # "FileReader" => chunk_processed_size = 0
    /\ pc # "pull"

(* Staged are the last bytes before the current chunk, and some of them    *)
(* are still wanted.                                                       *)
StagedFits ==
  Sound /\ staging_buffer # << >> =>
    LET n     == Len(staging_buffer)
        start == ChunkStart(archive, current_chunk)
    IN
    /\ to_skip < n
    /\ n <= start
    /\ staging_buffer = Run(start - n, n)

DeliversInv ==
  /\ Inv
  /\ DataFits
  /\ StagedFits
  /\ Delivered

-----------------------------------------------------------------------------
(* Runs of consecutive bytes.                                              *)

LEMMA RunEmpty ==
  ASSUME NEW b \in Nat
  PROVE  Run(b, 0) = << >>
<1>1. Run(b, 0) \in Seq(Nat) /\ Len(Run(b, 0)) = 0
  BY RunType
<1> QED
  BY <1>1, EmptySeq

LEMMA RunConcat ==
  ASSUME NEW b \in Nat, NEW n \in Nat, NEW m \in Nat
  PROVE  Run(b, n) \o Run(b + n, m) = Run(b, n + m)
<1>1. /\ Run(b, n) \in Seq(Nat) /\ Len(Run(b, n)) = n
      /\ \A k \in 1 .. n : Run(b, n)[k] = b + k - 1
  BY RunType
<1>2. /\ Run(b + n, m) \in Seq(Nat) /\ Len(Run(b + n, m)) = m
      /\ \A k \in 1 .. m : Run(b + n, m)[k] = b + n + k - 1
  <2>1. b + n \in Nat
    OBVIOUS
  <2> QED
    BY <2>1, RunType
<1>3. /\ Run(b, n + m) \in Seq(Nat) /\ Len(Run(b, n + m)) = n + m
      /\ \A k \in 1 .. n + m : Run(b, n + m)[k] = b + k - 1
  <2>1. n + m \in Nat
    OBVIOUS
  <2> QED
    BY <2>1, RunType
<1> DEFINE s == Run(b, n) \o Run(b + n, m)
<1>4. /\ s \in Seq(Nat) /\ Len(s) = n + m
      /\ \A i \in 1 .. n + m :
           s[i] = IF i <= n THEN Run(b, n)[i] ELSE Run(b + n, m)[i - n]
  <2> DEFINE s1 == Run(b, n)
             s2 == Run(b + n, m)
  <2>1. /\ s1 \in Seq(Nat) /\ Len(s1) = n
        /\ s2 \in Seq(Nat) /\ Len(s2) = m
    BY <1>1, <1>2
  <2> HIDE DEF s1, s2
  <2>2. /\ s1 \o s2 \in Seq(Nat)
        /\ Len(s1 \o s2) = Len(s1) + Len(s2)
        /\ \A i \in 1 .. Len(s1) + Len(s2) :
             (s1 \o s2)[i] = IF i <= Len(s1) THEN s1[i] ELSE s2[i - Len(s1)]
    BY <2>1, ConcatProperties
  <2>3. /\ s1 \o s2 \in Seq(Nat)
        /\ Len(s1 \o s2) = n + m
        /\ \A i \in 1 .. n + m :
             (s1 \o s2)[i] = IF i <= n THEN s1[i] ELSE s2[i - n]
    BY <2>1, <2>2
  <2> QED
    BY <2>3 DEF s1, s2
<1> HIDE DEF s
<1>5. ASSUME NEW i \in 1 .. n + m
      PROVE  s[i] = Run(b, n + m)[i]
  <2>1. CASE i <= n
    BY <1>1, <1>3, <1>4, <2>1
  <2>2. CASE i > n
    <3>1. i - n \in 1 .. m
      BY <2>2
    <3>2. Run(b + n, m)[i - n] = b + n + (i - n) - 1
      BY <1>2, <3>1
    <3>3. s[i] = Run(b + n, m)[i - n]
      BY <1>4, <2>2
    <3> QED
      BY <1>3, <3>2, <3>3
  <2> QED
    BY <2>1, <2>2
<1>6. s = Run(b, n + m)
  BY <1>3, <1>4, <1>5, SeqEqual
<1> QED
  BY <1>6 DEF s

LEMMA RunSubSeq ==
  ASSUME NEW b \in Nat, NEW n \in Nat, NEW i \in 0 .. n, NEW j \in i .. n
  PROVE  SubSeq(Run(b, n), i + 1, j) = Run(b + i, j - i)
<1>1. /\ Run(b, n) \in Seq(Nat) /\ Len(Run(b, n)) = n
      /\ \A k \in 1 .. n : Run(b, n)[k] = b + k - 1
  BY RunType
<1>2. b + i \in Nat /\ j - i \in Nat
  OBVIOUS
<1>3. /\ Run(b + i, j - i) \in Seq(Nat)
      /\ Len(Run(b + i, j - i)) = j - i
      /\ \A k \in 1 .. j - i : Run(b + i, j - i)[k] = b + i + k - 1
  BY <1>2, RunType
<1> DEFINE s == SubSeq(Run(b, n), i + 1, j)
<1>4. /\ s \in Seq(Nat) /\ Len(s) = j - i
      /\ \A k \in 1 .. j - i : s[k] = Run(b, n)[i + k]
  <2>1. \A k \in i + 1 .. j : Run(b, n)[k] \in Nat
    BY <1>1
  <2>2. /\ s \in Seq(Nat)
        /\ Len(s) = IF i + 1 <= j THEN j - (i + 1) + 1 ELSE 0
        /\ \A k \in 1 .. j - (i + 1) + 1 : s[k] = Run(b, n)[(i + 1) + k - 1]
    BY <2>1, SubSeqProperties
  <2> HIDE DEF s
  <2> QED
    BY <2>2
<1>5. \A k \in 1 .. j - i : s[k] = Run(b + i, j - i)[k]
  <2> HIDE DEF s
  <2> SUFFICES ASSUME NEW k \in 1 .. j - i
               PROVE  s[k] = Run(b + i, j - i)[k]
    OBVIOUS
  <2>1. i + k \in 1 .. n
    OBVIOUS
  <2>2. Run(b, n)[i + k] = b + (i + k) - 1
    BY <1>1, <2>1
  <2> QED
    BY <1>3, <1>4, <2>2
<1> HIDE DEF s
<1>6. s = Run(b + i, j - i)
  BY <1>3, <1>4, <1>5, SeqEqual
<1> QED
  BY <1>6 DEF s

-----------------------------------------------------------------------------
(* Reading a structure.                                                    *)

(* Between two pieces, what has come out, what is staged and what is still *)
(* to be skipped meet at s.at.                                             *)
PieceFits(s) ==
  /\ s \in PieceState
  /\ s.out = Run(base, Len(s.out))
  /\ s.at - Len(s.staging) + s.to_skip = base + Len(s.out)
  /\ Len(s.staging) <= s.at
  /\ s.staging = Run(s.at - Len(s.staging), Len(s.staging))
  /\ s.staging # << >> => s.to_skip < Len(s.staging)

LEMMA ReadPieceFits ==
  ASSUME base \in Nat, cap \in Nat, NEW s, PieceFits(s), NEW size \in Nat
  PROVE  /\ PieceFits(ReadPiece(s, size))
         /\ ReadPiece(s, size).at = s.at + size
<1>1. /\ s \in PieceState
      /\ s.at \in Nat /\ s.to_skip \in Nat
      /\ s.staging \in Seq(Nat) /\ s.out \in Seq(Nat)
      /\ Len(s.staging) \in Nat /\ Len(s.out) \in Nat
      /\ s.out = Run(base, Len(s.out))
      /\ s.at - Len(s.staging) + s.to_skip = base + Len(s.out)
      /\ Len(s.staging) <= s.at
      /\ s.staging = Run(s.at - Len(s.staging), Len(s.staging))
      /\ s.staging # << >> => s.to_skip < Len(s.staging)
  BY DEF PieceFits, PieceState
<1> DEFINE r == ReadPiece(s, size)
<1>2. r \in PieceState
  BY <1>1, ReadPieceType
<1>3. CASE s.staging = << >> /\ s.to_skip >= size
  <2>1. r = [s EXCEPT !.at = @ + size, !.to_skip = @ - size]
    BY <1>3 DEF ReadPiece
  <2>2. /\ r.at = s.at + size /\ r.to_skip = s.to_skip - size
        /\ r.staging = << >> /\ r.out = s.out
    BY <1>1, <1>3, <2>1 DEF PieceState
  <2>3. Len(r.staging) = 0 /\ r.staging = Run(r.at - Len(r.staging), 0)
    <3>1. r.at - 0 \in Nat
      BY <1>1, <2>2
    <3> QED
      BY <2>2, <3>1, EmptySeq, RunEmpty
  <2> HIDE DEF r
  <2>4. PieceFits(r)
    <3>1. s.at - 0 + s.to_skip = base + Len(s.out)
      BY <1>1, <1>3, EmptySeq
    <3> QED
      BY <1>1, <1>2, <2>2, <2>3, <3>1 DEF PieceFits
  <2> QED
    BY <2>2, <2>4 DEF r
<1>4. CASE s.staging = << >> /\ s.to_skip = 0 /\ ~ (s.to_skip >= size)
             /\ cap - Len(s.out) >= size
  <2>1. r = [s EXCEPT !.at = @ + size, !.out = @ \o Run(s.at, size)]
    BY <1>4 DEF ReadPiece
  <2>2. /\ r.at = s.at + size /\ r.to_skip = s.to_skip
        /\ r.staging = << >> /\ r.out = s.out \o Run(s.at, size)
    BY <1>1, <1>4, <2>1 DEF PieceState
  <2>3. s.at = base + Len(s.out)
    <3>1. s.at - 0 + 0 = base + Len(s.out)
      BY <1>1, <1>4, EmptySeq
    <3> QED
      BY <1>1, <3>1
  <2>4. /\ r.out = Run(base, Len(s.out) + size)
        /\ Len(r.out) = Len(s.out) + size
    <3>1. Len(s.out) + size \in Nat
      BY <1>1
    <3>2. r.out = Run(base, Len(s.out)) \o Run(base + Len(s.out), size)
      BY <1>1, <2>2, <2>3
    <3>3. r.out = Run(base, Len(s.out) + size)
      BY <1>1, <3>2, RunConcat
    <3> QED
      BY <3>1, <3>3, RunType
  <2>5. Len(r.staging) = 0 /\ r.staging = Run(r.at - Len(r.staging), 0)
    <3>1. r.at - 0 \in Nat
      BY <1>1, <2>2
    <3> QED
      BY <2>2, <3>1, EmptySeq, RunEmpty
  <2> HIDE DEF r
  <2>6. PieceFits(r)
    <3>1. r.out = Run(base, Len(r.out))
      BY <2>4
    <3>2. /\ r.at - Len(r.staging) + r.to_skip = base + Len(r.out)
          /\ Len(r.staging) <= r.at
      <4>1. /\ r.at = s.at + size /\ r.to_skip = 0
            /\ s.at = base + Len(s.out) /\ Len(s.out) \in Nat
            /\ Len(r.staging) = 0 /\ Len(r.out) = Len(s.out) + size
        BY <1>1, <1>4, <2>2, <2>3, <2>4, <2>5
      <4> QED
        BY <4>1
    <3>3. r.staging = Run(r.at - Len(r.staging), Len(r.staging))
      BY <2>5
    <3> QED
      BY <1>2, <2>2, <3>1, <3>2, <3>3 DEF PieceFits
  <2> QED
    BY <2>2, <2>6 DEF r
<1>5. CASE ~ (s.staging = << >> /\ s.to_skip >= size)
             /\ ~ (s.staging = << >> /\ s.to_skip = 0
                     /\ cap - Len(s.out) >= size)
  <2> DEFINE n == Len(s.staging)
             m == Len(s.out)
             b == s.at - n
  <2>1. /\ n \in Nat /\ m \in Nat
        /\ s.at \in Nat /\ s.to_skip \in Nat
        /\ n <= s.at
        /\ s.at - n + s.to_skip = base + m
        /\ s.staging = Run(s.at - n, n)
        /\ s.out = Run(base, m)
    BY <1>1
  <2>2. s.to_skip < n + size
    <3>1. CASE s.staging = << >>
      BY <1>5, <2>1, <3>1
    <3>2. CASE s.staging # << >>
      BY <1>1, <2>1, <3>2
    <3> QED
      BY <3>1, <3>2
  <2>3. /\ r.at = s.at + size /\ r.to_skip = s.to_skip
        /\ r.staging = s.staging \o Run(s.at, size) /\ r.out = s.out
    <3>1. r = [s EXCEPT !.at = @ + size, !.staging = @ \o Run(s.at, size)]
      BY <1>5 DEF ReadPiece
    <3> QED
      BY <1>1, <3>1 DEF PieceState
  <2>4. Len(r.out) = m
    BY <2>3
  <2>5. /\ b \in Nat /\ n \in Nat /\ n + size \in Nat
        /\ s.at = b + n
        /\ s.staging = Run(b, n)
    BY <2>1
  <2> HIDE DEF n, m, b, r
  <2>6. r.staging = Run(b, n + size)
    <3>1. r.staging = Run(b, n) \o Run(b + n, size)
      BY <2>3, <2>5
    <3>2. Run(b, n) \o Run(b + n, size) = Run(b, n + size)
      BY <2>5, RunConcat
    <3> QED
      BY <3>1, <3>2
  <2>7. Len(r.staging) = n + size
    BY <2>5, <2>6, RunType
  <2>8. PieceFits(r)
    <3>1. r.out = Run(base, Len(r.out))
      BY <2>1, <2>3, <2>4
    <3>2. /\ r.at - Len(r.staging) + r.to_skip = base + Len(r.out)
          /\ Len(r.staging) <= r.at
          /\ r.to_skip < Len(r.staging)
      <4>1. s.at - n + s.to_skip = base + m
        BY <2>1
      <4> QED
        BY <2>1, <2>2, <2>3, <2>4, <2>7, <4>1
    <3>3. r.staging = Run(r.at - Len(r.staging), Len(r.staging))
      <4>1. r.at - Len(r.staging) = b
        <5>1. r.at = (b + n) + size
          BY <2>3, <2>5
        <5> QED
          BY <2>5, <2>7, <5>1
      <4> QED
        BY <2>6, <2>7, <4>1
    <3>4. r \in PieceState
      BY <1>2 DEF r
    <3> QED
      BY <3>1, <3>2, <3>3, <3>4 DEF PieceFits
  <2> QED
    BY <2>3, <2>8 DEF r
<1> QED
  BY <1>1, <1>3, <1>4, <1>5

-----------------------------------------------------------------------------
(* Every action keeps the invariant.                                       *)

(* The chunks tile the file. *)
LEMMA Tiling ==
  ASSUME TypeOK, current_chunk # Finished
  PROVE  ChunkStart(archive, NextChunk(Entries, current_chunk))
           = ChunkStart(archive, current_chunk)
               + ChunkSize(Entries, current_chunk)
<1>1. WellLaidOut(archive) /\ current_chunk \in Chunks(Entries) \ {Finished}
  BY ReaderAssumption DEF TypeOK
<1> QED
  BY <1>1 DEF WellLaidOut, Entries

(* As far as the place in the file is concerned, only these variables count. *)
LEMMA KeepsPlace ==
  ASSUME DeliversInv, pc # "panicked",
         UNCHANGED << archive, readState, out, base >>
  PROVE  StagedFits' /\ Delivered'
  BY DEF DeliversInv, StagedFits, Delivered, Sound, Cursor, readState

LEMMA DeliversInit ==
  ASSUME Init
  PROVE  DeliversInv
<1>1. Inv
  BY InitInv
<1>2. /\ staging_buffer = << >> /\ out = << >>
      /\ chunk_processed_size = 0 /\ to_skip = 0 /\ base = 0
      /\ pinned.state = "Nothing" /\ pc = "idle"
      /\ current_chunk = FirstChunk(Entries)
      /\ archive \in Archives
  BY DEF Init, Nothing, Held
<1>3. ChunkStart(archive, current_chunk) = 0
  BY <1>2, ReaderAssumption DEF WellLaidOut, Entries
<1>4. Len(staging_buffer) = 0 /\ Len(out) = 0 /\ out = Run(base, 0)
  BY <1>2, EmptySeq, RunEmpty
<1>5. Delivered
  <2>1. Cursor = 0 + 0 - Len(staging_buffer) + 0
    BY <1>2, <1>3 DEF Cursor
  <2>2. Cursor = base + Len(out)
    BY <1>2, <1>4, <2>1
  <2> QED
    BY <1>4, <2>2 DEF Delivered
<1> QED
  BY <1>1, <1>2, <1>5 DEF DeliversInv, DataFits, StagedFits

LEMMA SeekDelivers ==
  ASSUME DeliversInv, NEW offset \in Nat, SeekFromStart(offset),
         Returns("None", 0)
  PROVE  DataFits' /\ StagedFits' /\ Delivered'
<1> DEFINE start == ChunkStart(archive, SeekTarget(offset))
<1>1. /\ pinned'.state = "Nothing" /\ pc' = "idle"
      /\ chunk_processed_size' = 0
      /\ staging_buffer' = << >> /\ out' = << >> /\ base' = offset
      /\ archive' = archive
      /\ current_chunk' = SeekTarget(offset)
      /\ to_skip' = offset - start
  BY DEF SeekFromStart, PinnedAfterSeek, Nothing, Held, Returns
<1>2. start \in Nat
  <2>1. archive \in Archives
    BY DEF DeliversInv, Inv, TypeOK
  <2> QED
    BY <2>1, SeekTargetFits, ChunkStartType DEF Entries
<1>3. Cursor' = start + 0 - Len(staging_buffer') + (offset - start)
  BY <1>1 DEF Cursor
<1> HIDE DEF start
<1>4. Len(staging_buffer') = 0 /\ Len(out') = 0 /\ out' = Run(base', 0)
  BY <1>1, EmptySeq, RunEmpty
<1>5. Delivered'
  BY <1>1, <1>2, <1>3, <1>4 DEF Delivered
<1> QED
  BY <1>1, <1>5 DEF DataFits, StagedFits

LEMMA PollReadDelivers ==
  ASSUME DeliversInv, NEW n \in Nat, PollRead(n)
  PROVE  DataFits' /\ StagedFits' /\ Delivered'
<1>1. /\ pc = "idle" /\ pc' = "loop"
      /\ out' = << >> /\ base' = base + Len(out)
      /\ UNCHANGED << archive, crc32, readState, pinned >>
  BY DEF PollRead
<1>2. DataFits' /\ StagedFits'
  BY <1>1
  DEF DeliversInv, DataFits, StagedFits, Sound, readState, Entries, Idx
<1>3. base + Len(out) \in Nat
  BY DEF DeliversInv, Inv, TypeOK
<1>4. Len(out') = 0 /\ out' = Run(base', 0)
  BY <1>1, <1>3, EmptySeq, RunEmpty
<1>5. Cursor' = Cursor
  BY <1>1 DEF Cursor, readState
<1>6. Delivered'
  BY <1>1, <1>3, <1>4, <1>5 DEF DeliversInv, Delivered
<1> QED
  BY <1>2, <1>6

LEMMA CallerDelivers ==
  ASSUME DeliversInv, CallerStep
  PROVE  DataFits' /\ StagedFits' /\ Delivered'
<1>1. ASSUME NEW n \in ReadSizes, PollRead(n)
      PROVE  DataFits' /\ StagedFits' /\ Delivered'
  BY <1>1, PollReadDelivers, ReaderAssumption
<1>2. ASSUME NEW origin \in Nat, NEW d \in Int, StartSeek(origin, d)
      PROVE  DataFits' /\ StagedFits' /\ Delivered'
  <2>1. CASE ~ (origin + d < 0) /\ ~ (origin + d > U64Max)
    BY <1>2, <2>1, SeekDelivers DEF StartSeek
  <2>2. CASE origin + d < 0 \/ origin + d > U64Max
    <3>1. /\ pc = "idle" /\ pc' \in {"idle", "panicked"}
          /\ UNCHANGED << archive, crc32, readState, pinned, out, base >>
      BY <1>2, <2>2 DEF StartSeek, Returns, Panics
    <3>2. DataFits'
      BY <3>1 DEF DeliversInv, DataFits, Sound, readState, Entries, Idx
    <3> QED
      BY <3>1, <3>2, KeepsPlace
  <2> QED
    BY <2>1, <2>2
<1>3. ASSUME NEW d \in SeekOffsets,
             SeekStart(d) \/ SeekCurrent(d) \/ SeekEnd(d)
      PROVE  DataFits' /\ StagedFits' /\ Delivered'
  <2>1. d \in Int /\ position \in Nat /\ archive.total_size \in Nat
    BY ReaderAssumption, ArchiveTypes DEF DeliversInv, Inv, TypeOK
  <2> QED
    BY <1>2, <1>3, <2>1 DEF SeekStart, SeekCurrent, SeekEnd
<1>4. CASE TakePinned
  BY <1>4, SeekDelivers DEF TakePinned, DeliversInv, Inv, TypeOK
<1> QED
  BY <1>1, <1>3, <1>4 DEF CallerStep

LEMMA ReadFromStagingDelivers ==
  ASSUME DeliversInv, ReadFromStaging
  PROVE  DataFits' /\ StagedFits' /\ Delivered'
<1> DEFINE n     == Len(staging_buffer)
           m     == Len(out)
           start == ChunkStart(archive, current_chunk)
           last  == to_skip + Remaining >= n
           end   == IF last THEN n ELSE to_skip + Remaining
<1>1. /\ pc = "loop" /\ Remaining > 0 /\ staging_buffer # << >>
      /\ out' = out \o SubSeq(staging_buffer, to_skip + 1, end)
      /\ to_skip' = IF last THEN 0 ELSE end
      /\ staging_buffer' = IF last THEN << >> ELSE staging_buffer
      /\ UNCHANGED << archive, crc32, current_chunk, chunk_processed_size,
                      pinned, pc, base >>
  BY DEF ReadFromStaging
<1>2. /\ pinned.state = "Nothing" /\ chunk_processed_size = 0
      /\ n \in Nat /\ m \in Nat /\ to_skip \in Nat /\ Remaining \in Int
      /\ base \in Nat /\ start \in Nat
  BY <1>1, CurrentChunk
  DEF DeliversInv, Inv, TypeOK, PinnedFits, ProcessedFits, Remaining
<1>3. DataFits'
  BY <1>1, <1>2 DEF DataFits
<1>4. SUFFICES ASSUME HonestSizes(archive)
                PROVE  /\ StagedFits'
                       /\ out' = Run(base, Len(out'))
                       /\ Cursor' = base + Len(out')
  BY <1>1, <1>3 DEF Delivered, StagedFits, Sound
<1>5. /\ to_skip < n /\ n <= start
      /\ staging_buffer = Run(start - n, n)
  BY <1>1, <1>4 DEF DeliversInv, StagedFits, Sound
<1>6. Cursor = start + 0 - n + to_skip
  BY <1>2 DEF Cursor
<1>7. start' = start
  BY <1>1
<1>8. StagedFits'
  BY <1>1, <1>2, <1>5, <1>7 DEF StagedFits
<1>9. Cursor' = start + 0 - Len(staging_buffer') + to_skip'
  BY <1>1, <1>2 DEF Cursor
<1> HIDE DEF n, m, start, last
<1>10. end \in to_skip .. n
  BY <1>1, <1>2, <1>5 DEF last
<1>11. Cursor' = start - n + end
  <2>1. CASE last
    BY <1>1, <1>2, <1>9, <2>1, EmptySeq
  <2>2. CASE ~ last
    BY <1>1, <1>2, <1>9, <2>2 DEF n
  <2> QED
    BY <2>1, <2>2
<1> HIDE DEF end
<1>12. out = Run(base, m) /\ start - n + to_skip = base + m
  BY <1>1, <1>2, <1>6, <1>4 DEF DeliversInv, Delivered, m
<1>13. /\ start - n \in Nat /\ to_skip \in 0 .. n
       /\ end - to_skip \in Nat
  BY <1>2, <1>5, <1>10
<1>14. SubSeq(staging_buffer, to_skip + 1, end)
         = Run(base + m, end - to_skip)
  <2>1. SubSeq(Run(start - n, n), to_skip + 1, end)
          = Run((start - n) + to_skip, end - to_skip)
    BY <1>2, <1>10, <1>13, RunSubSeq
  <2> QED
    BY <1>5, <1>12, <2>1
<1>15. out' = Run(base, m + (end - to_skip))
  <2>1. out' = Run(base, m) \o Run(base + m, end - to_skip)
    BY <1>1, <1>12, <1>14
  <2> QED
    BY <1>2, <1>13, <2>1, RunConcat
<1>16. Len(out') = m + (end - to_skip)
  <2>1. m + (end - to_skip) \in Nat
    BY <1>2, <1>13
  <2> QED
    BY <1>2, <1>15, <2>1, RunType
<1> QED
  BY <1>2, <1>8, <1>10, <1>11, <1>12, <1>15, <1>16

LEMMA SkipChunkDelivers ==
  ASSUME DeliversInv, SkipChunk
  PROVE  DataFits' /\ StagedFits' /\ Delivered'
<1> DEFINE start == ChunkStart(archive, current_chunk)
           size  == ChunkSize(Entries, current_chunk)
<1>1. /\ pc = "loop" /\ pc' = "loop" /\ staging_buffer = << >>
      /\ to_skip >= size /\ to_skip' = to_skip - size
      /\ current_chunk # Finished
      /\ current_chunk' = NextChunk(Entries, current_chunk)
      /\ UNCHANGED << archive, chunk_processed_size, staging_buffer, pinned,
                      out, base >>
  BY DEF SkipChunk
<1>2. start \in Nat /\ size \in Nat /\ to_skip \in Nat
  BY <1>1, CurrentChunk DEF DeliversInv, Inv, TypeOK
<1>3. pinned.state = "Nothing" /\ chunk_processed_size = 0
  BY <1>1, <1>2 DEF DeliversInv, Inv, PinnedFits, ProcessedFits
<1>4. ChunkStart(archive, current_chunk)' = start + size
  BY <1>1, Tiling DEF DeliversInv, Inv
<1>5. Len(staging_buffer) = 0
  BY <1>1, EmptySeq
<1>6. Cursor = start + 0 - 0 + to_skip
  BY <1>3, <1>5 DEF Cursor
<1>7. Cursor' = (start + size) + 0 - 0 + (to_skip - size)
  BY <1>1, <1>3, <1>4, <1>5 DEF Cursor
<1> HIDE DEF start, size
<1>8. Cursor' = Cursor
  BY <1>2, <1>6, <1>7
<1>9. Delivered'
  BY <1>1, <1>8 DEF DeliversInv, Delivered
<1> QED
  BY <1>1, <1>3, <1>9 DEF DataFits, StagedFits

LEMMA StructureDelivers ==
  ASSUME DeliversInv, Reading, ReadStructure,
         pinned.state = "Nothing",
         current_chunk.kind \in {"LocalHeader", "DataDescriptor",
                                 "CDFileHeader", "Eocd"},
         UNCHANGED << archive, pinned, base >>
  PROVE  DataFits' /\ StagedFits' /\ Delivered'
<1> DEFINE start == ChunkStart(archive, current_chunk)
           size  == ChunkSize(Entries, current_chunk)
           s     == AllPieces(Pieces0, PieceSizes)
<1>1. /\ current_chunk' = NextChunk(Entries, current_chunk)
      /\ chunk_processed_size' = 0 /\ pc' = "loop"
      /\ staging_buffer' = s.staging /\ to_skip' = s.to_skip /\ out' = s.out
  BY ReadStructureFinishes DEF DeliversInv, ReadStructure
<1>2. DataFits'
  BY <1>1 DEF DataFits
<1>3. /\ pc = "loop" /\ staging_buffer = << >>
      /\ Len(staging_buffer) = 0
      /\ current_chunk # Finished
      /\ chunk_processed_size = 0
  BY EmptySeq DEF Reading, DeliversInv, Inv, ProcessedFits
<1>4. /\ start \in Nat /\ size \in Nat /\ to_skip \in Nat
      /\ base \in Nat /\ cap \in Nat
      /\ out \in Seq(Nat) /\ staging_buffer \in Seq(Nat)
  BY <1>3, CurrentChunk DEF DeliversInv, Inv, TypeOK
<1>5. ChunkStart(archive, current_chunk)' = start + size
  BY <1>1, <1>3, Tiling DEF DeliversInv, Inv
<1>6. /\ PieceSizes[1] \in Nat /\ PieceSizes[2] \in Nat
      /\ PieceSizes[3] \in Nat
      /\ PieceSizes[1] + PieceSizes[2] + PieceSizes[3] = size
  BY PiecesMakeChunk DEF DeliversInv, Inv
<1>7. /\ Pieces0 \in PieceState
      /\ Pieces0.at = start /\ Pieces0.to_skip = to_skip
      /\ Pieces0.staging = << >> /\ Pieces0.out = out
  BY <1>3, <1>4 DEF Pieces0, PieceState
<1>8. SUFFICES ASSUME HonestSizes(archive)
               PROVE  StagedFits' /\ out' = Run(base, Len(out'))
                        /\ Cursor' = base + Len(out')
  BY <1>1, <1>2 DEF StagedFits, Delivered, Sound
<1>9. /\ out = Run(base, Len(out)) /\ Len(out) \in Nat
      /\ start + to_skip = base + Len(out)
  <2>1. Cursor = start + 0 - 0 + to_skip
    BY <1>3 DEF Cursor
  <2>2. out = Run(base, Len(out)) /\ Cursor = base + Len(out)
    BY <1>3, <1>8 DEF DeliversInv, Delivered
  <2>3. Len(out) \in Nat
    BY <1>4
  <2> QED
    BY <1>4, <2>1, <2>2, <2>3
<1> HIDE DEF start, size, s
<1>10. PieceFits(Pieces0)
  <2>1. Len(Pieces0.staging) = 0 /\ Len(Pieces0.out) = Len(out)
    BY <1>7, EmptySeq
  <2>2. Pieces0.staging = Run(Pieces0.at - 0, 0)
    <3>1. Pieces0.at - 0 \in Nat
      BY <1>4, <1>7
    <3> QED
      BY <1>7, <3>1, RunEmpty
  <2>3. start - 0 + to_skip = base + Len(out) /\ 0 <= start
    BY <1>4, <1>9
  <2> QED
    BY <1>7, <1>9, <2>1, <2>2, <2>3 DEF PieceFits
<1>11. PieceFits(s) /\ s.at = start + size
  <2> DEFINE s1 == ReadPiece(Pieces0, PieceSizes[1])
             s2 == ReadPiece(s1, PieceSizes[2])
             s3 == ReadPiece(s2, PieceSizes[3])
  <2>1. PieceFits(s1) /\ s1.at = start + PieceSizes[1]
    BY <1>4, <1>6, <1>7, <1>10, ReadPieceFits
  <2> HIDE DEF s1
  <2>2. PieceFits(s2) /\ s2.at = start + PieceSizes[1] + PieceSizes[2]
    BY <1>4, <1>6, <2>1, ReadPieceFits
  <2> HIDE DEF s2
  <2>3. /\ PieceFits(s3)
        /\ s3.at = start + PieceSizes[1] + PieceSizes[2] + PieceSizes[3]
    BY <1>4, <1>6, <2>2, ReadPieceFits
  <2>4. s = s3
    BY DEF s, s1, s2, s3, AllPieces
  <2> HIDE DEF s3
  <2>5. s3.at = start + size
    <3>1. s3.at = start + PieceSizes[1] + PieceSizes[2] + PieceSizes[3]
      BY <2>3
    <3>2. start + PieceSizes[1] + PieceSizes[2] + PieceSizes[3]
            = start + (PieceSizes[1] + PieceSizes[2] + PieceSizes[3])
      BY <1>4, <1>6
    <3> QED
      BY <1>6, <3>1, <3>2
  <2> QED
    BY <2>3, <2>4, <2>5
<1>12. Cursor' = (start + size) + 0 - Len(s.staging) + s.to_skip
  BY <1>1, <1>5 DEF Cursor
<1>13. Cursor' = base + Len(s.out)
  <2> DEFINE e == start + size
             n == Len(s.staging)
             t == s.to_skip
             m == base + Len(s.out)
  <2>1. e \in Nat /\ n \in Nat /\ t \in Nat /\ m \in Nat /\ e - n + t = m
    BY <1>4, <1>11 DEF PieceFits, PieceState
  <2>2. Cursor' = e + 0 - n + t
    BY <1>12
  <2> HIDE DEF e, n, t, m
  <2>3. Cursor' = m
    BY <2>1, <2>2
  <2> QED
    BY <2>3 DEF m
<1>14. StagedFits'
  BY <1>1, <1>5, <1>11 DEF StagedFits, PieceFits
<1> QED
  BY <1>1, <1>11, <1>13, <1>14 DEF PieceFits

(* What is counted of entry data stays as long as none is read. *)
LEMMA KeepsData ==
  ASSUME DeliversInv, pc # "panicked", pc' # "pull",
         UNCHANGED << archive, crc32, readState, pinned >>
  PROVE  DataFits'
  BY DEF DeliversInv, DataFits, Sound, readState, Entries, Idx

(* An assertion that fails is the end of it. *)
LEMMA PanicDelivers ==
  ASSUME pc' = "panicked"
  PROVE  DataFits' /\ StagedFits' /\ Delivered'
  BY DEF DataFits, StagedFits, Delivered, Sound

LEMMA LoopDelivers ==
  ASSUME DeliversInv, LoopStep
  PROVE  DataFits' /\ StagedFits' /\ Delivered'
<1>1. CASE ReturnOk
  <2>1. pc # "panicked" /\ pc' # "pull"
    BY <1>1 DEF ReturnOk, LoopEnds, Returns
  <2> QED
    BY <1>1, <2>1, KeepsData, KeepsPlace DEF ReturnOk
<1>2. CASE ReadFromStaging
  BY <1>2, ReadFromStagingDelivers
<1>3. CASE SkipChunk
  BY <1>3, SkipChunkDelivers
<1>4. CASE ReadLocalHeaderOrEocd
  <2>1. /\ Reading /\ ReadStructure
        /\ current_chunk.kind \in {"LocalHeader", "Eocd"}
        /\ UNCHANGED << archive, pinned, base >>
    BY <1>4 DEF ReadLocalHeaderOrEocd
  <2>2. pinned.state = "Nothing"
    BY <2>1 DEF DeliversInv, Inv, PinnedFits
  <2> QED
    BY <2>1, <2>2, StructureDelivers
<1>5. CASE ReadCrcStructure
  <2>1. /\ Reading /\ ReadStructure
        /\ current_chunk.kind \in {"DataDescriptor", "CDFileHeader"}
        /\ crc32[Idx] # NoCrc \/ Entries[Idx].size = 0
        /\ UNCHANGED << archive, pinned, base >>
    BY <1>5 DEF ReadCrcStructure
  <2>2. pinned.state = "Nothing"
    BY <2>1 DEF DeliversInv, Inv, PinnedFits
  <2> QED
    BY <2>1, <2>2, StructureDelivers
<1>6. CASE UseOpenReader
  <2>1. pc # "panicked" /\ pc' # "pull"
    BY <1>6 DEF UseOpenReader, NeedsReader, Reading, Opened
  <2> QED
    BY <1>6, <2>1, KeepsData, KeepsPlace DEF UseOpenReader
<1>7. CASE PollSpentFuture
  BY <1>7, PanicDelivers DEF PollSpentFuture, Panics
<1> QED
  BY <1>1, <1>2, <1>3, <1>4, <1>5, <1>6, <1>7 DEF LoopStep

LEMMA OpenReaderDelivers ==
  ASSUME DeliversInv, OpenReader
  PROVE  DataFits' /\ StagedFits' /\ Delivered'
<1>1. /\ pc = "loop" /\ pc' \in {"data", "crc", "idle"}
      /\ pinned.state \in {"Nothing", "ReaderFuture"}
      /\ pinned'.pos = 0
      /\ to_skip < ChunkSize(Entries, current_chunk)
      /\ UNCHANGED << archive, crc32, readState, out, base >>
  BY DEF OpenReader, NeedsReader, Reading, Opened, Held, ReturnsPending,
         ReturnsIoError, Returns
<1>2. StagedFits' /\ Delivered'
  BY <1>1, KeepsPlace
<1>3. UNCHANGED << current_chunk, chunk_processed_size, to_skip >>
  BY <1>1 DEF readState
<1>4. ASSUME HonestSizes(archive)
      PROVE  chunk_processed_size = 0
  BY <1>1, <1>4 DEF DeliversInv, DataFits, Sound
<1>5. ASSUME current_chunk.kind = "EntryData", HonestSizes(archive)
      PROVE  chunk_processed_size + to_skip <= Entries[Idx].size
  <2>1. /\ to_skip < Entries[Idx].size
        /\ Entries[Idx].size \in Nat /\ to_skip \in Nat
    BY <1>1, <1>5, CurrentChunk DEF DeliversInv, Inv, TypeOK, EntryKinds
  <2> QED
    BY <1>4, <1>5, <2>1
<1>6. DataFits'
  BY <1>1, <1>3, <1>4, <1>5 DEF DataFits, Sound, Entries, Idx
<1> QED
  BY <1>2, <1>6

(* What there is to know of honest entry data while its reader is open. *)
LEMMA DataState ==
  ASSUME DeliversInv, pc \in {"data", "pull"}, HonestSizes(archive)
  PROVE  /\ pc = "data"
         /\ current_chunk.kind = "EntryData"
         /\ current_chunk # Finished
         /\ pinned.state = "FileReader" /\ pinned.entry = Idx
         /\ pinned.pos = chunk_processed_size
         /\ staging_buffer = << >> /\ Len(staging_buffer) = 0
         /\ Actual = Entries[Idx].size
         /\ ChunkSize(Entries, current_chunk) = Entries[Idx].size
         /\ ChunkStart(archive, current_chunk)
              = DataStart(archive, pinned.entry)
         /\ Entries[Idx].size \in Nat
         /\ ChunkStart(archive, current_chunk) \in Nat
         /\ chunk_processed_size \in Nat /\ to_skip \in Nat
         /\ base \in Nat /\ out \in Seq(Nat) /\ Len(out) \in Nat
         /\ chunk_processed_size + to_skip <= Entries[Idx].size
         /\ to_skip > 0 /\ crc32[Idx] # NoCrc => chunk_processed_size = 0
         /\ out = Run(base, Len(out))
         /\ ChunkStart(archive, current_chunk) + chunk_processed_size + to_skip
              = base + Len(out)
<1>1. /\ current_chunk.kind = "EntryData"
      /\ pinned.state = "FileReader"
  BY DEF DeliversInv, Inv, PcFits
<1>2. /\ pinned.entry = Idx /\ staging_buffer = << >>
  BY <1>1 DEF DeliversInv, Inv, PinnedFits
<1>3. /\ pc = "data"
      /\ pinned.pos = chunk_processed_size
      /\ chunk_processed_size + to_skip <= Entries[Idx].size
      /\ to_skip > 0 /\ crc32[Idx] # NoCrc => chunk_processed_size = 0
  BY <1>1 DEF DeliversInv, DataFits, Sound
<1>4. /\ current_chunk # Finished
      /\ Idx \in 1 .. Len(Entries)
      /\ Entries[Idx].size \in Nat
      /\ ChunkStart(archive, current_chunk) \in Nat
      /\ ChunkSize(Entries, current_chunk) = Entries[Idx].size
  BY <1>1, CurrentChunk
  DEF DeliversInv, Inv, EntryKinds, Finished, Chunk
<1>5. Actual = Entries[Idx].size
  BY <1>2, <1>4 DEF HonestSizes, Actual, Entries
<1>6. ChunkStart(archive, current_chunk) = DataStart(archive, pinned.entry)
  BY <1>1, <1>2 DEF ChunkStart, Idx
<1>7. /\ chunk_processed_size \in Nat /\ to_skip \in Nat
      /\ base \in Nat /\ out \in Seq(Nat) /\ Len(out) \in Nat
  BY DEF DeliversInv, Inv, TypeOK
<1>8. Len(staging_buffer) = 0
  BY <1>2, EmptySeq
<1>9. out = Run(base, Len(out)) /\ Cursor = base + Len(out)
  BY <1>3 DEF DeliversInv, Delivered
<1>10. ChunkStart(archive, current_chunk) + chunk_processed_size + to_skip
         = base + Len(out)
  <2> DEFINE start == ChunkStart(archive, current_chunk)
  <2>1. Cursor = start + chunk_processed_size - 0 + to_skip
    BY <1>8 DEF Cursor
  <2>2. start \in Nat
    BY <1>4
  <2> HIDE DEF start
  <2>3. start + chunk_processed_size + to_skip = base + Len(out)
    BY <1>7, <1>9, <2>1, <2>2
  <2> QED
    BY <2>3 DEF start
<1> QED
  BY <1>1, <1>2, <1>3, <1>4, <1>5, <1>6, <1>7, <1>8, <1>9, <1>10

(* The same place, reached inside the entry data. *)
LEMMA DataPlace ==
  ASSUME DeliversInv, pc = "data", HonestSizes(archive), pc' # "panicked",
         UNCHANGED << archive, current_chunk, staging_buffer, base >>,
         NEW m \in Nat, out' = Run(base, m),
         chunk_processed_size' \in Nat, to_skip' \in Nat,
         ChunkStart(archive, current_chunk) + chunk_processed_size' + to_skip'
           = base + m
  PROVE  StagedFits' /\ Delivered'
<1> DEFINE start == ChunkStart(archive, current_chunk)
           c     == chunk_processed_size'
           t     == to_skip'
<1>1. /\ start \in Nat /\ Len(staging_buffer) = 0 /\ staging_buffer = << >>
      /\ base \in Nat
  BY DataState
<1>2. Len(out') = m
  BY <1>1, RunType
<1>3. Cursor' = start + c - 0 + t
  BY <1>1 DEF Cursor
<1>4. start + c + t = base + m /\ c \in Nat /\ t \in Nat
  OBVIOUS
<1> HIDE DEF start, c, t
<1>5. start + c - 0 + t = start + c + t
  BY <1>1, <1>4
<1>6. Cursor' = base + m
  BY <1>3, <1>4, <1>5
<1> QED
  BY <1>1, <1>2, <1>6 DEF StagedFits, Delivered

LEMMA SkipByReadingDelivers ==
  ASSUME DeliversInv, SkipByReading
  PROVE  DataFits' /\ StagedFits' /\ Delivered'
<1>1. /\ pc = "data" /\ to_skip > 0 /\ crc32[Idx] = NoCrc
      /\ UNCHANGED << archive, crc32, current_chunk, staging_buffer, out, base >>
  BY DEF SkipByReading, SkipsByReading
<1>2. SUFFICES ASSUME HonestSizes(archive)
               PROVE  DataFits' /\ StagedFits' /\ Delivered'
  BY <1>1 DEF DataFits, StagedFits, Delivered, Sound
<1>3. ASSUME NEW n \in SourceReads(IF to_skip < ScratchSize THEN to_skip
                                                         ELSE ScratchSize),
             pinned' = Pulled(pinned, n),
             chunk_processed_size' = chunk_processed_size + n,
             to_skip' = to_skip - n,
             UNCHANGED << pc, result >>
      PROVE  DataFits' /\ StagedFits' /\ Delivered'
  <2> DEFINE room == IF to_skip < ScratchSize THEN to_skip ELSE ScratchSize
  <2>1. room \in Nat /\ room <= to_skip
    BY <1>1, <1>2, DataState, ReaderAssumption
  <2>2. n \in Nat /\ n <= to_skip
    <3> HIDE DEF room
    <3>1. n \in SourceReads(room)
      BY <1>3 DEF room
    <3>2. n \in Nat /\ n <= room
      BY <1>1, <1>2, <2>1, <3>1, DataState, SourceReadsWithin DEF DeliversInv
    <3>3. to_skip \in Nat
      BY <1>1, <1>2, DataState
    <3> QED
      BY <2>1, <3>2, <3>3
  <2>3. /\ pinned'.state = "FileReader" /\ pinned'.pos = pinned.pos + n
    BY <1>1, <1>2, <1>3, DataState DEF Pulled, DeliversInv, Inv, TypeOK, ReaderPinned
  <2>4. /\ chunk_processed_size \in Nat /\ to_skip \in Nat
        /\ chunk_processed_size + to_skip <= Entries[Idx].size
        /\ Entries[Idx].size \in Nat
        /\ pinned.pos = chunk_processed_size
    BY <1>1, <1>2, DataState
  <2>5. /\ chunk_processed_size' \in Nat /\ to_skip' \in Nat
        /\ chunk_processed_size' + to_skip' = chunk_processed_size + to_skip
    BY <1>3, <2>2, <2>4
  <2>6. UNCHANGED << Entries, Idx >>
    BY <1>1 DEF Entries, Idx
  <2>7. pinned'.pos = chunk_processed_size'
    BY <1>3, <2>3, <2>4
  <2>8. DataFits'
    BY <1>1, <1>3, <2>3, <2>4, <2>5, <2>6, <2>7 DEF DataFits
  <2>9. ChunkStart(archive, current_chunk) + chunk_processed_size' + to_skip'
          = base + Len(out)
    <3> DEFINE start == ChunkStart(archive, current_chunk)
    <3>1. /\ start \in Nat
          /\ start + chunk_processed_size + to_skip = base + Len(out)
      BY <1>1, <1>2, DataState
    <3> HIDE DEF start
    <3>2. start + (chunk_processed_size + to_skip) = base + Len(out)
      BY <2>4, <3>1
    <3>3. start + chunk_processed_size' + to_skip'
            = start + (chunk_processed_size' + to_skip')
      BY <2>5, <3>1
    <3>4. start + chunk_processed_size' + to_skip' = base + Len(out)
      BY <2>5, <3>2, <3>3
    <3> QED
      BY <3>4 DEF start
  <2>10. Len(out) \in Nat /\ out' = Run(base, Len(out))
    BY <1>1, <1>2, DataState
  <2>11. StagedFits' /\ Delivered'
    BY <1>1, <1>2, <1>3, <2>5, <2>9, <2>10, DataPlace
  <2> QED
    BY <2>8, <2>11
<1>4. ~ SourceAtEof
  <2>1. /\ pinned.pos = chunk_processed_size /\ Actual = Entries[Idx].size
        /\ chunk_processed_size + to_skip <= Entries[Idx].size
        /\ chunk_processed_size \in Nat /\ to_skip \in Nat
        /\ Entries[Idx].size \in Nat
    BY <1>1, <1>2, DataState
  <2> QED
    BY <1>1, <2>1 DEF SourceAtEof
<1>5. CASE /\ ReturnsPending \/ ReturnsIoError
           /\ UNCHANGED << chunk_processed_size, to_skip, pinned >>
  <2>1. pc' # "pull" /\ UNCHANGED readState
    BY <1>1, <1>5 DEF ReturnsPending, ReturnsIoError, Returns, readState
  <2> QED
    BY <1>1, <1>5, <2>1, KeepsData, KeepsPlace
<1> QED
  BY <1>3, <1>4, <1>5 DEF SkipByReading

LEMMA SeekSourceDelivers ==
  ASSUME DeliversInv, SeekSource
  PROVE  DataFits' /\ StagedFits' /\ Delivered'
<1> DEFINE p    == SeekStarted(pinned, to_skip)
           done == SeekCompleted(p)
<1>1. /\ pc = "data" /\ to_skip > 0 /\ crc32[Idx] # NoCrc
      /\ UNCHANGED << archive, crc32, current_chunk, staging_buffer, out, base >>
  BY DEF SeekSource, SkipsByReading
<1>2. SUFFICES ASSUME HonestSizes(archive)
               PROVE  DataFits' /\ StagedFits' /\ Delivered'
  BY <1>1 DEF DataFits, StagedFits, Delivered, Sound
<1>3. /\ chunk_processed_size = 0 /\ to_skip \in Nat
      /\ pinned.pos = 0 /\ pinned.state = "FileReader"
      /\ 0 + to_skip <= Entries[Idx].size
      /\ current_chunk.kind = "EntryData"
  BY <1>1, <1>2, DataState
<1>4. /\ p.state = pinned.state /\ p.pos = pinned.pos
      /\ done.state = pinned.state
  BY DEF DeliversInv, Inv, TypeOK, ReaderPinned, SeekStarted, SeekCompleted
<1>5. [p EXCEPT !.target = pinned.pos].state = pinned.state
        /\ [p EXCEPT !.target = pinned.pos].pos = pinned.pos
  BY DEF DeliversInv, Inv, TypeOK, ReaderPinned, SeekStarted
<1>6. UNCHANGED << Entries, Idx >>
  BY <1>1 DEF Entries, Idx
<1> HIDE DEF p, done
<1>7. CASE /\ pinned' = done
           /\ done.pos = to_skip
           /\ chunk_processed_size' = chunk_processed_size + to_skip
           /\ to_skip' = 0
           /\ UNCHANGED << pc, result >>
  <2>1. /\ pinned'.pos = to_skip /\ chunk_processed_size' = to_skip
        /\ pinned'.state = "FileReader" /\ to_skip' = 0
    BY <1>3, <1>4, <1>7
  <2>2. chunk_processed_size' + to_skip' <= Entries[Idx].size
    BY <1>3, <2>1
  <2>3. DataFits'
    BY <1>1, <1>6, <1>7, <2>1, <2>2 DEF DataFits
  <2>4. ChunkStart(archive, current_chunk) + chunk_processed_size' + to_skip'
          = base + Len(out)
    <3> DEFINE start == ChunkStart(archive, current_chunk)
    <3>1. /\ start \in Nat
          /\ start + chunk_processed_size + to_skip = base + Len(out)
      BY <1>1, <1>2, DataState
    <3> HIDE DEF start
    <3>2. start + 0 + to_skip = start + to_skip + 0
      BY <1>3, <3>1
    <3>3. start + chunk_processed_size' + to_skip' = base + Len(out)
      BY <1>3, <2>1, <3>1, <3>2
    <3> QED
      BY <3>3 DEF start
  <2>5. Len(out) \in Nat /\ out' = Run(base, Len(out))
    BY <1>1, <1>2, DataState
  <2>6. /\ chunk_processed_size' \in Nat /\ to_skip' \in Nat
        /\ pc' # "panicked"
    BY <1>1, <1>3, <1>7, <2>1
  <2>7. StagedFits' /\ Delivered'
    BY <1>1, <1>2, <2>4, <2>5, <2>6, DataPlace
  <2> QED
    BY <2>3, <2>7
<1>8. CASE Panics("SeekPosition")
  BY <1>8, PanicDelivers DEF Panics
<1>9. CASE /\ ReturnsPending \/ ReturnsIoError
           /\ pinned' = p \/ pinned' = [p EXCEPT !.target = pinned.pos]
           /\ UNCHANGED << chunk_processed_size, to_skip >>
  <2>1. pc' = "idle" /\ UNCHANGED readState
    BY <1>1, <1>9 DEF ReturnsPending, ReturnsIoError, Returns, readState
  <2>2. pinned'.pos = pinned.pos /\ pinned'.state = pinned.state
    BY <1>4, <1>5, <1>9
  <2>3. DataFits'
    BY <1>1, <1>2, <1>3, <1>6, <1>9, <2>1, <2>2 DEF DataFits
  <2> QED
    BY <1>1, <2>1, <2>3, KeepsPlace
<1>10. \/ /\ pinned' = done
          /\ done.pos = to_skip
          /\ chunk_processed_size' = chunk_processed_size + to_skip
          /\ to_skip' = 0
          /\ UNCHANGED << pc, result >>
       \/ Panics("SeekPosition")
       \/ /\ ReturnsPending \/ ReturnsIoError
          /\ pinned' = p \/ pinned' = [p EXCEPT !.target = pinned.pos]
          /\ UNCHANGED << chunk_processed_size, to_skip >>
  BY DEF SeekSource, p, done
<1> QED
  BY <1>7, <1>8, <1>9, <1>10

LEMMA PullDataDelivers ==
  ASSUME DeliversInv, PullData
  PROVE  DataFits' /\ StagedFits' /\ Delivered'
<1>1. /\ pc \in {"data", "pull"} /\ (pc = "data" => to_skip = 0)
      /\ UNCHANGED << archive, crc32, current_chunk, staging_buffer, to_skip,
                      base >>
  BY DEF PullData, AtPull
<1>2. SUFFICES ASSUME HonestSizes(archive)
               PROVE  DataFits' /\ StagedFits' /\ Delivered'
  BY <1>1 DEF DataFits, StagedFits, Delivered, Sound
<1>3. pc = "data" /\ to_skip = 0
  BY <1>1, <1>2, DataState
<1>4. ASSUME NEW n \in SourceReads(Remaining),
             out' = out \o Run(DataStart(archive, pinned.entry) + pinned.pos, n),
             pinned' = Pulled(pinned, n),
             chunk_processed_size' = chunk_processed_size + n,
             pc' = "loop"
      PROVE  DataFits' /\ StagedFits' /\ Delivered'
  <2> DEFINE start == ChunkStart(archive, current_chunk)
             c     == chunk_processed_size
             m     == Len(out)
             size  == Entries[Idx].size
  <2>1. n \in Nat /\ c + n <= size
    <3>1. /\ pinned.pos = c /\ Actual = size
          /\ size \in Nat /\ c \in Nat
      BY <1>3, <1>2, DataState
    <3>2. n \in Int /\ n >= 1 /\ n <= Actual - pinned.pos
      <4> HIDE DEF c, size
      <4>1. n \in 1 .. (IF Remaining < Actual - pinned.pos
                        THEN Remaining ELSE Actual - pinned.pos)
        BY <1>4 DEF SourceReads
      <4>2. Remaining \in Int
        BY DEF DeliversInv, Inv, TypeOK, Remaining
      <4> QED
        BY <3>1, <4>1, <4>2
    <3> HIDE DEF c, size
    <3> QED
      BY <3>1, <3>2
  <2>2. pinned'.state = "FileReader" /\ pinned'.pos = pinned.pos + n
    BY <1>2, <1>3, <1>4, DataState
    DEF Pulled, DeliversInv, Inv, TypeOK, ReaderPinned
  <2>3. UNCHANGED << Entries, Idx >>
    BY <1>1 DEF Entries, Idx
  <2>4. /\ pinned.pos = c /\ c \in Nat /\ start \in Nat /\ m \in Nat
        /\ base \in Nat /\ out = Run(base, m)
        /\ start + c + to_skip = base + m
        /\ start = DataStart(archive, pinned.entry)
    BY <1>2, <1>3, DataState
  <2>5. DataFits'
    <3>1. chunk_processed_size' + to_skip' <= size
      BY <1>1, <1>3, <1>4, <2>1, <2>4
    <3>2. pinned'.pos = chunk_processed_size' /\ ~ (to_skip' > 0)
      BY <1>1, <1>3, <1>4, <2>2, <2>4
    <3> QED
      BY <1>4, <2>2, <2>3, <3>1, <3>2 DEF DataFits
  <2> HIDE DEF start, c, m, size
  <2>6. start + c = base + m
    BY <1>3, <2>4
  <2>7. out' = Run(base, m + n)
    <3>1. out' = Run(base, m) \o Run(base + m, n)
      BY <1>4, <2>4, <2>6
    <3> QED
      BY <2>1, <2>4, <3>1, RunConcat
  <2>8. /\ m + n \in Nat /\ chunk_processed_size' \in Nat /\ to_skip' \in Nat
        /\ start + chunk_processed_size' + to_skip' = base + (m + n)
    <3>1. chunk_processed_size' = c + n /\ to_skip' = 0
      BY <1>1, <1>3, <1>4 DEF c
    <3>2. m + n \in Nat /\ c + n \in Nat
      BY <2>1, <2>4
    <3>3. start + (c + n) + 0 = base + (m + n)
      <4>1. /\ start \in Nat /\ c \in Nat /\ n \in Nat
            /\ base \in Nat /\ m \in Nat
        BY <2>1, <2>4
      <4> QED
        BY <2>6, <4>1
    <3>4. start + chunk_processed_size' + to_skip' = start + (c + n) + 0
      BY <3>1
    <3> QED
      BY <3>1, <3>2, <3>3, <3>4
  <2>9. StagedFits' /\ Delivered'
    <3>1. ChunkStart(archive, current_chunk) + chunk_processed_size' + to_skip'
            = base + (m + n)
      BY <2>8 DEF start
    <3> QED
      BY <1>1, <1>2, <1>3, <1>4, <2>7, <2>8, <3>1, DataPlace
  <2> QED
    BY <2>5, <2>9
<1>5. CASE /\ ReturnsPending \/ ReturnsIoError
           /\ UNCHANGED << chunk_processed_size, pinned, out >>
  <2>1. pc' = "idle" /\ UNCHANGED readState
    BY <1>1, <1>5 DEF ReturnsPending, ReturnsIoError, Returns, readState
  <2> QED
    BY <1>1, <1>3, <1>5, <2>1, KeepsData, KeepsPlace
<1> QED
  BY <1>4, <1>5 DEF PullData

LEMMA FinishDataDelivers ==
  ASSUME DeliversInv, FinishData
  PROVE  DataFits' /\ StagedFits' /\ Delivered'
<1> DEFINE start == ChunkStart(archive, current_chunk)
           size  == Entries[Idx].size
<1>1. /\ pc \in {"data", "pull"} /\ (pc = "data" => to_skip = 0)
      /\ SourceAtEof
      /\ UNCHANGED << archive, staging_buffer, to_skip, out, base >>
  BY DEF FinishData, AtPull
<1>2. SUFFICES ASSUME HonestSizes(archive)
               PROVE  DataFits' /\ StagedFits' /\ Delivered'
  BY <1>1 DEF DataFits, StagedFits, Delivered, Sound
<1>3. pc = "data" /\ to_skip = 0
  BY <1>1, <1>2, DataState
<1>4. CASE DataMismatch
  <2>1. /\ pc' = "idle"
        /\ UNCHANGED << crc32, pinned, current_chunk, chunk_processed_size >>
    BY <1>4 DEF FinishData, Returns
  <2>2. UNCHANGED readState
    BY <1>1, <2>1 DEF readState
  <2> QED
    BY <1>1, <1>3, <2>1, <2>2, KeepsData, KeepsPlace
<1>5. CASE ~ DataMismatch
  <2>1. /\ start \in Nat /\ size \in Nat /\ current_chunk # Finished
        /\ chunk_processed_size = size
        /\ staging_buffer = << >> /\ Len(staging_buffer) = 0
        /\ ChunkSize(Entries, current_chunk) = size
        /\ out = Run(base, Len(out))
        /\ start + chunk_processed_size + to_skip = base + Len(out)
    <3>1. /\ pinned.pos = chunk_processed_size /\ Actual = size
          /\ chunk_processed_size \in Nat /\ size \in Nat /\ to_skip \in Nat
          /\ chunk_processed_size + to_skip <= size
      BY <1>2, <1>3, DataState
    <3>2. pinned.pos >= Actual
      BY <1>1 DEF SourceAtEof
    <3>3. chunk_processed_size = size
      <4> HIDE DEF size
      <4> QED
        BY <3>1, <3>2
    <3> QED
      BY <1>2, <1>3, <3>3, DataState
  <2>2. /\ pinned'.state = "Nothing" /\ FinishChunk(chunk_processed_size)
    BY <1>5, <2>1 DEF FinishData, SizeMatches, Nothing, Held
  <2>3. /\ current_chunk' = NextChunk(Entries, current_chunk)
        /\ chunk_processed_size' = 0 /\ pc' = "loop"
    BY <2>1, <2>2 DEF FinishChunk
  <2>4. DataFits'
    BY <2>2, <2>3 DEF DataFits
  <2>5. ChunkStart(archive, current_chunk)' = start + size
    BY <1>1, <2>1, <2>3, Tiling DEF DeliversInv, Inv
  <2>6. Cursor' = (start + size) + 0 - 0 + 0
    BY <1>1, <1>3, <2>1, <2>3, <2>5 DEF Cursor
  <2> HIDE DEF start, size
  <2>7. Cursor' = start + size + 0
    BY <2>1, <2>6
  <2>8. Cursor' = base + Len(out)
    BY <1>3, <2>1, <2>7
  <2> QED
    BY <1>1, <2>1, <2>4, <2>8 DEF StagedFits, Delivered
<1> QED
  BY <1>4, <1>5

LEMMA ReadForCrcDelivers ==
  ASSUME DeliversInv, ReadForCrc
  PROVE  DataFits' /\ StagedFits' /\ Delivered'
<1>1. /\ pc = "crc" /\ pc' \in {"crc", "idle"}
      /\ UNCHANGED << archive, crc32, readState, out, base >>
      /\ \/ UNCHANGED pinned
         \/ \E n \in SourceReads(ScratchSize) : pinned' = Pulled(pinned, n)
  BY DEF ReadForCrc, ReturnsPending, ReturnsIoError, Returns
<1>2. /\ current_chunk.kind # "EntryData" /\ pinned.state = "FileReader"
  BY <1>1 DEF DeliversInv, Inv, PcFits
<1>3. pinned'.state = "FileReader"
  BY <1>1, <1>2 DEF DeliversInv, Inv, TypeOK, ReaderPinned, Pulled
<1>4. current_chunk' = current_chunk
  BY <1>1 DEF readState
<1>5. DataFits'
  BY <1>1, <1>2, <1>3, <1>4 DEF DataFits
<1> QED
  BY <1>1, <1>5, KeepsPlace

LEMMA FinishCrcDelivers ==
  ASSUME DeliversInv, FinishCrc
  PROVE  DataFits' /\ StagedFits' /\ Delivered'
<1>1. /\ pc = "crc" /\ UNCHANGED << archive, readState, out, base >>
  BY DEF FinishCrc
<1>2. CASE Panics("CrcUnknown")
  BY <1>2, PanicDelivers DEF Panics
<1>3. CASE pinned' = PinnedAfterCrc /\ pc' = "loop"
  <2>1. chunk_processed_size = 0
    BY <1>1 DEF DeliversInv, Inv, PcFits, ProcessedFits
  <2>2. pinned'.state = "Nothing" /\ chunk_processed_size' = 0
    BY <1>1, <1>3, <2>1 DEF PinnedAfterCrc, Nothing, Held, readState
  <2>3. DataFits'
    BY <1>3, <2>2 DEF DataFits
  <2> QED
    BY <1>1, <2>3, KeepsPlace
<1> QED
  BY <1>2, <1>3 DEF FinishCrc

LEMMA DeliversNext ==
  ASSUME DeliversInv, [Next]_vars
  PROVE  DeliversInv'
<1>1. Inv'
  BY NextInv DEF DeliversInv
<1>2. CASE CallerStep
  BY <1>1, <1>2, CallerDelivers DEF DeliversInv
<1>3. CASE LoopStep
  BY <1>1, <1>3, LoopDelivers DEF DeliversInv
<1>4. CASE SourceStep
  BY <1>1, <1>4, OpenReaderDelivers, SkipByReadingDelivers,
     SeekSourceDelivers, PullDataDelivers, FinishDataDelivers,
     ReadForCrcDelivers, FinishCrcDelivers
  DEF SourceStep, DeliversInv
<1>5. CASE UNCHANGED vars
  BY <1>1, <1>5
  DEF DeliversInv, DataFits, StagedFits, Delivered, Sound, Cursor, vars,
      Entries, Idx
<1> QED
  BY <1>2, <1>3, <1>4, <1>5 DEF Next

-----------------------------------------------------------------------------
(* The theorem.                                                            *)

(* Whatever was read, skipped, staged, sought or retried before, every byte *)
(* in the caller's buffer is the one that belongs at its place in the file, *)
(* and the reader stands behind the last of them (ReadState::read).        *)
THEOREM DeliversInPlace == Spec => []Delivered
<1>1. Init => DeliversInv
  BY DeliversInit
<1>2. DeliversInv /\ [Next]_vars => DeliversInv'
  BY DeliversNext
<1>3. DeliversInv => Delivered
  BY DEF DeliversInv
<1> QED
  BY <1>1, <1>2, <1>3, PTL DEF Spec

-----------------------------------------------------------------------------
(* Where the reader stands, whatever the data is.                          *)

(* The cursor counts what was written, and something staged is wanted:     *)
(* this holds of data that is shorter or longer than it said as well.      *)
StagedWanted == staging_buffer # << >> => to_skip < Len(staging_buffer)
CursorFits ==
  /\ StagedWanted
  /\ pc # "panicked" => Cursor = base + Len(out)

LEMMA CursorInit ==
  ASSUME Init
  PROVE  CursorFits
<1>1. /\ staging_buffer = << >> /\ out = << >>
      /\ chunk_processed_size = 0 /\ to_skip = 0 /\ base = 0
      /\ current_chunk = FirstChunk(Entries)
      /\ archive \in Archives
  BY DEF Init
<1>2. ChunkStart(archive, current_chunk) = 0
  BY <1>1, ReaderAssumption DEF WellLaidOut, Entries
<1>3. Len(staging_buffer) = 0 /\ Len(out) = 0
  BY <1>1, EmptySeq
<1>4. Cursor = 0 + 0 - 0 + 0
  BY <1>1, <1>2, <1>3 DEF Cursor
<1> QED
  BY <1>1, <1>3, <1>4 DEF CursorFits, StagedWanted

LEMMA SeekCursor ==
  ASSUME Inv, NEW offset \in Nat, SeekFromStart(offset)
  PROVE  CursorFits'
<1> DEFINE start == ChunkStart(archive, SeekTarget(offset))
<1>1. /\ chunk_processed_size' = 0
      /\ staging_buffer' = << >> /\ out' = << >> /\ base' = offset
      /\ archive' = archive
      /\ current_chunk' = SeekTarget(offset)
      /\ to_skip' = offset - start
  BY DEF SeekFromStart
<1>2. start \in Nat
  BY SeekTargetFits, ChunkStartType DEF Entries, Inv, TypeOK
<1>3. Cursor' = start + 0 - Len(staging_buffer') + (offset - start)
  BY <1>1 DEF Cursor
<1> HIDE DEF start
<1>4. Len(staging_buffer') = 0 /\ Len(out') = 0
  BY <1>1, EmptySeq
<1>5. Cursor' = base' + Len(out')
  BY <1>1, <1>2, <1>3, <1>4
<1> QED
  BY <1>1, <1>5 DEF CursorFits, StagedWanted

LEMMA PollReadCursor ==
  ASSUME Inv, CursorFits, NEW n \in Nat, PollRead(n)
  PROVE  CursorFits'
<1>1. /\ pc = "idle" /\ out' = << >> /\ base' = base + Len(out)
      /\ UNCHANGED << archive, readState >>
  BY DEF PollRead
<1>2. Len(out') = 0 /\ base + Len(out) \in Nat
  BY <1>1, EmptySeq DEF Inv, TypeOK
<1>3. Cursor' = Cursor
  BY <1>1 DEF Cursor, readState
<1>4. Cursor' = base' + Len(out')
  BY <1>1, <1>2, <1>3 DEF CursorFits
<1> QED
  BY <1>1, <1>4 DEF CursorFits, StagedWanted, readState

(* As far as the cursor is concerned, only these variables count. *)
LEMMA KeepsCursor ==
  ASSUME CursorFits, pc # "panicked",
         UNCHANGED << archive, readState, out, base >>
  PROVE  CursorFits'
BY DEF CursorFits, StagedWanted, Cursor, readState

LEMMA ReadFromStagingCursor ==
  ASSUME Inv, CursorFits, ReadFromStaging
  PROVE  CursorFits'
<1> DEFINE n     == Len(staging_buffer)
           m     == Len(out)
           start == ChunkStart(archive, current_chunk)
           last  == to_skip + Remaining >= n
           end   == IF last THEN n ELSE to_skip + Remaining
           s     == SubSeq(staging_buffer, to_skip + 1, end)
<1>1. /\ pc = "loop" /\ Remaining > 0 /\ staging_buffer # << >>
      /\ out' = out \o s
      /\ to_skip' = IF last THEN 0 ELSE end
      /\ staging_buffer' = IF last THEN << >> ELSE staging_buffer
      /\ UNCHANGED << archive, current_chunk, chunk_processed_size, base >>
  BY DEF ReadFromStaging
<1>2. /\ chunk_processed_size = 0
      /\ staging_buffer \in Seq(Nat) /\ out \in Seq(Nat)
      /\ n \in Nat /\ m \in Nat /\ to_skip \in Nat /\ Remaining \in Int
      /\ base \in Nat /\ start \in Nat
  <2>1. start \in Nat
    BY CurrentChunk DEF Inv
  <2> QED
    BY <1>1, <2>1 DEF Inv, TypeOK, ProcessedFits, Remaining
<1>3. to_skip < n
  BY <1>1 DEF CursorFits, StagedWanted
<1>4. end \in to_skip + 1 .. n
  <2> HIDE DEF n
  <2> QED
    BY <1>1, <1>2, <1>3
<1>5. s \in Seq(Nat) /\ Len(s) = end - to_skip
  <2> HIDE DEF end
  <2>1. \A k \in to_skip + 1 .. end : staging_buffer[k] \in Nat
    <3> SUFFICES ASSUME NEW k \in to_skip + 1 .. end
                 PROVE  staging_buffer[k] \in Nat
      OBVIOUS
    <3>1. k \in 1 .. Len(staging_buffer)
      BY <1>2, <1>4
    <3> QED
      BY <1>2, <3>1, ElementOfSeq
  <2>2. /\ s \in Seq(Nat)
        /\ Len(s) = IF to_skip + 1 <= end THEN end - (to_skip + 1) + 1 ELSE 0
    BY <1>2, <1>4, <2>1, SubSeqProperties
  <2> HIDE DEF s, n
  <2> QED
    BY <1>2, <1>4, <2>2
<1>6. Len(out') = m + Len(s)
  <2> HIDE DEF s
  <2> QED
    BY <1>1, <1>2, <1>5, ConcatProperties
<1>7. start + 0 - n + to_skip = base + m
  BY <1>1, <1>2 DEF CursorFits, Cursor
<1>8. Cursor' = start + 0 - Len(staging_buffer') + to_skip'
  BY <1>1, <1>2 DEF Cursor
<1> HIDE DEF m, start, s
<1>9. CASE last
  <2>1. to_skip' = 0 /\ staging_buffer' = << >> /\ end = n
    BY <1>1, <1>9
  <2>2. Len(staging_buffer') = 0
    BY <2>1, EmptySeq
  <2> HIDE DEF n, last, end
  <2>3. Cursor' = base + Len(out')
    BY <1>2, <1>3, <1>5, <1>6, <1>7, <1>8, <2>1, <2>2
  <2> QED
    BY <1>1, <2>1, <2>3 DEF CursorFits, StagedWanted
<1>10. CASE ~ last
  <2>1. to_skip' = end /\ staging_buffer' = staging_buffer
        /\ Len(staging_buffer') = n
    BY <1>1, <1>10
  <2>2. end < n
    <3> HIDE DEF n
    <3> QED
      BY <1>2, <1>10
  <2> HIDE DEF last, end
  <2>3. Cursor' = base + Len(out')
    <3> HIDE DEF n
    <3> QED
      BY <1>2, <1>3, <1>4, <1>5, <1>6, <1>7, <1>8, <2>1
  <2> QED
    BY <1>1, <2>1, <2>2, <2>3 DEF CursorFits, StagedWanted
<1> QED
  BY <1>9, <1>10

LEMMA SkipChunkCursor ==
  ASSUME Inv, CursorFits, SkipChunk
  PROVE  CursorFits'
<1> DEFINE start == ChunkStart(archive, current_chunk)
           size  == ChunkSize(Entries, current_chunk)
<1>1. /\ pc = "loop" /\ staging_buffer = << >>
      /\ to_skip >= size /\ to_skip' = to_skip - size
      /\ current_chunk # Finished
      /\ current_chunk' = NextChunk(Entries, current_chunk)
      /\ UNCHANGED << archive, chunk_processed_size, staging_buffer, out, base >>
  BY DEF SkipChunk
<1>2. start \in Nat /\ size \in Nat /\ to_skip \in Nat
  BY <1>1, CurrentChunk DEF Inv, TypeOK
<1>3. chunk_processed_size = 0
  BY <1>1, <1>2 DEF Inv, ProcessedFits
<1>4. ChunkStart(archive, current_chunk)' = start + size
  BY <1>1, Tiling DEF Inv
<1>5. Len(staging_buffer) = 0
  BY <1>1, EmptySeq
<1>6. Cursor = start + 0 - 0 + to_skip
  BY <1>3, <1>5 DEF Cursor
<1>7. Cursor' = (start + size) + 0 - 0 + (to_skip - size)
  BY <1>1, <1>3, <1>4, <1>5 DEF Cursor
<1> HIDE DEF start, size
<1>8. Cursor' = Cursor
  BY <1>2, <1>6, <1>7
<1> QED
  BY <1>1, <1>8 DEF CursorFits, StagedWanted

(* Between two pieces of a structure. *)
PieceCounts(s) ==
  /\ s \in PieceState
  /\ s.at - Len(s.staging) + s.to_skip = base + Len(s.out)
  /\ s.staging # << >> => s.to_skip < Len(s.staging)

LEMMA ReadPieceCounts ==
  ASSUME base \in Nat, cap \in Nat, NEW s, PieceCounts(s), NEW size \in Nat
  PROVE  /\ PieceCounts(ReadPiece(s, size))
         /\ ReadPiece(s, size).at = s.at + size
<1>1. /\ s \in PieceState
      /\ s.at \in Nat /\ s.to_skip \in Nat
      /\ s.staging \in Seq(Nat) /\ s.out \in Seq(Nat)
      /\ Len(s.staging) \in Nat /\ Len(s.out) \in Nat
      /\ s.at - Len(s.staging) + s.to_skip = base + Len(s.out)
      /\ s.staging # << >> => s.to_skip < Len(s.staging)
  BY DEF PieceCounts, PieceState
<1> DEFINE r == ReadPiece(s, size)
           piece == Run(s.at, size)
<1>2. r \in PieceState
  BY <1>1, ReadPieceType
<1>3. piece \in Seq(Nat) /\ Len(piece) = size
  BY <1>1, RunType
<1>4. CASE s.staging = << >> /\ s.to_skip >= size
  <2>1. r = [s EXCEPT !.at = @ + size, !.to_skip = @ - size]
    BY <1>4 DEF ReadPiece
  <2>2. /\ r.at = s.at + size /\ r.to_skip = s.to_skip - size
        /\ r.staging = s.staging /\ r.out = s.out
    BY <1>1, <2>1 DEF PieceState
  <2>3. Len(r.staging) = Len(s.staging) /\ Len(r.out) = Len(s.out)
    BY <2>2
  <2>4. r.at - Len(r.staging) + r.to_skip = base + Len(r.out)
    <3> HIDE DEF r
    <3> QED
      BY <1>1, <1>4, <2>2, <2>3
  <2> QED
    BY <1>2, <1>4, <2>2, <2>4 DEF PieceCounts
<1>5. CASE /\ ~ (s.staging = << >> /\ s.to_skip >= size)
           /\ s.staging = << >> /\ s.to_skip = 0 /\ cap - Len(s.out) >= size
  <2>1. r = [s EXCEPT !.at = @ + size, !.out = @ \o piece]
    BY <1>5 DEF ReadPiece
  <2>2. /\ r.at = s.at + size /\ r.to_skip = s.to_skip
        /\ r.staging = s.staging /\ r.out = s.out \o piece
    BY <1>1, <2>1 DEF PieceState
  <2>3. Len(r.staging) = Len(s.staging)
    BY <2>2
  <2>4. Len(r.out) = Len(s.out) + size
    <3> DEFINE o == s.out
    <3>1. o \in Seq(Nat) /\ r.out = o \o piece
      BY <1>1, <2>2
    <3> HIDE DEF o, r, piece
    <3>2. Len(r.out) = Len(o) + Len(piece)
      BY <1>3, <3>1, ConcatProperties
    <3> QED
      BY <1>3, <3>2 DEF o
  <2>5. r.at - Len(r.staging) + r.to_skip = base + Len(r.out)
    <3> DEFINE at == s.at
               t  == s.to_skip
               n  == Len(s.staging)
               m  == Len(s.out)
    <3>1. /\ at \in Nat /\ t \in Nat /\ n \in Nat /\ m \in Nat
          /\ at - n + t = base + m
      BY <1>1
    <3>2. /\ r.at = at + size /\ r.to_skip = t
          /\ Len(r.staging) = n /\ Len(r.out) = m + size
      BY <2>2, <2>3, <2>4
    <3> HIDE DEF at, t, n, m, r
    <3>3. (at + size) - n + t = base + (m + size)
      BY <3>1
    <3> QED
      BY <3>2, <3>3
  <2> QED
    BY <1>2, <1>5, <2>2, <2>5 DEF PieceCounts
<1>6. CASE /\ ~ (s.staging = << >> /\ s.to_skip >= size)
           /\ ~ (s.staging = << >> /\ s.to_skip = 0 /\ cap - Len(s.out) >= size)
  <2>1. r = [s EXCEPT !.at = @ + size, !.staging = @ \o piece]
    BY <1>6 DEF ReadPiece
  <2>2. /\ r.at = s.at + size /\ r.to_skip = s.to_skip
        /\ r.staging = s.staging \o piece /\ r.out = s.out
    BY <1>1, <2>1 DEF PieceState
  <2>3. Len(r.out) = Len(s.out)
    BY <2>2
  <2>4. Len(r.staging) = Len(s.staging) + size
    <3> DEFINE o == s.staging
    <3>1. o \in Seq(Nat) /\ r.staging = o \o piece
      BY <1>1, <2>2
    <3> HIDE DEF o, r, piece
    <3>2. Len(r.staging) = Len(o) + Len(piece)
      BY <1>3, <3>1, ConcatProperties
    <3> QED
      BY <1>3, <3>2 DEF o
  <2>5. r.at - Len(r.staging) + r.to_skip = base + Len(r.out)
    <3> HIDE DEF r
    <3> QED
      BY <1>1, <2>2, <2>3, <2>4
  <2>6. r.to_skip < Len(r.staging)
    <3>1. s.staging = << >> => Len(s.staging) = 0
      BY EmptySeq
    <3> HIDE DEF r
    <3> QED
      BY <1>1, <1>6, <2>2, <2>4, <3>1
  <2> QED
    BY <1>2, <2>2, <2>5, <2>6 DEF PieceCounts
<1> QED
  BY <1>4, <1>5, <1>6

LEMMA StructureCursor ==
  ASSUME Inv, CursorFits, Reading, ReadStructure,
         current_chunk.kind \in {"LocalHeader", "DataDescriptor",
                                 "CDFileHeader", "Eocd"},
         UNCHANGED << archive, base >>
  PROVE  CursorFits'
<1> DEFINE start == ChunkStart(archive, current_chunk)
           size  == ChunkSize(Entries, current_chunk)
           s     == AllPieces(Pieces0, PieceSizes)
<1>1. /\ current_chunk' = NextChunk(Entries, current_chunk)
      /\ chunk_processed_size' = 0
      /\ staging_buffer' = s.staging /\ to_skip' = s.to_skip /\ out' = s.out
  BY ReadStructureFinishes DEF ReadStructure
<1>2. /\ pc = "loop" /\ staging_buffer = << >>
      /\ Len(staging_buffer) = 0
      /\ current_chunk # Finished
      /\ chunk_processed_size = 0
  BY EmptySeq DEF Reading, Inv, ProcessedFits
<1>3. /\ start \in Nat /\ size \in Nat /\ to_skip \in Nat
      /\ base \in Nat /\ cap \in Nat
      /\ out \in Seq(Nat) /\ staging_buffer \in Seq(Nat)
  BY <1>2, CurrentChunk DEF Inv, TypeOK
<1>4. ChunkStart(archive, current_chunk)' = start + size
  BY <1>1, <1>2, Tiling DEF Inv
<1>5. /\ PieceSizes[1] \in Nat /\ PieceSizes[2] \in Nat
      /\ PieceSizes[3] \in Nat
      /\ PieceSizes[1] + PieceSizes[2] + PieceSizes[3] = size
  BY PiecesMakeChunk DEF Inv
<1>6. /\ Pieces0 \in PieceState
      /\ Pieces0.at = start /\ Pieces0.to_skip = to_skip
      /\ Pieces0.staging = << >> /\ Pieces0.out = out
  BY <1>2, <1>3 DEF Pieces0, PieceState
<1>7. start - 0 + to_skip = base + Len(out)
  <2>1. start + 0 - 0 + to_skip = base + Len(out)
    BY <1>2 DEF Cursor, CursorFits
  <2> HIDE DEF start
  <2> QED
    BY <1>3, <2>1
<1> HIDE DEF start, size, s
<1>8. PieceCounts(Pieces0)
  <2>1. Len(Pieces0.staging) = 0 /\ Len(Pieces0.out) = Len(out)
    BY <1>6, EmptySeq
  <2> QED
    BY <1>6, <1>7, <2>1 DEF PieceCounts
<1>9. PieceCounts(s) /\ s.at = start + size
  <2> DEFINE s1 == ReadPiece(Pieces0, PieceSizes[1])
             s2 == ReadPiece(s1, PieceSizes[2])
             s3 == ReadPiece(s2, PieceSizes[3])
  <2>1. PieceCounts(s1) /\ s1.at = start + PieceSizes[1]
    BY <1>3, <1>5, <1>6, <1>8, ReadPieceCounts
  <2> HIDE DEF s1
  <2>2. PieceCounts(s2) /\ s2.at = start + PieceSizes[1] + PieceSizes[2]
    BY <1>3, <1>5, <2>1, ReadPieceCounts
  <2> HIDE DEF s2
  <2>3. /\ PieceCounts(s3)
        /\ s3.at = start + PieceSizes[1] + PieceSizes[2] + PieceSizes[3]
    BY <1>3, <1>5, <2>2, ReadPieceCounts
  <2>4. s = s3
    BY DEF s, s1, s2, s3, AllPieces
  <2> HIDE DEF s3
  <2>5. start + PieceSizes[1] + PieceSizes[2] + PieceSizes[3]
          = start + (PieceSizes[1] + PieceSizes[2] + PieceSizes[3])
    BY <1>3, <1>5
  <2>6. s3.at = start + size
    BY <1>5, <2>3, <2>5
  <2> QED
    BY <2>3, <2>4, <2>6
<1>10. Cursor' = (start + size) + 0 - Len(s.staging) + s.to_skip
  BY <1>1, <1>4 DEF Cursor
<1>11. Cursor' = base + Len(s.out)
  <2> DEFINE e == start + size
             n == Len(s.staging)
             t == s.to_skip
             m == base + Len(s.out)
  <2>1. e \in Nat /\ n \in Nat /\ t \in Nat /\ m \in Nat /\ e - n + t = m
    BY <1>3, <1>9 DEF PieceCounts, PieceState
  <2>2. Cursor' = e + 0 - n + t
    BY <1>10
  <2> HIDE DEF e, n, t, m
  <2>3. Cursor' = m
    BY <2>1, <2>2
  <2> QED
    BY <2>3 DEF m
<1> QED
  BY <1>1, <1>9, <1>11 DEF PieceCounts, CursorFits, StagedWanted

LEMMA LoopCursor ==
  ASSUME Inv, CursorFits, LoopStep
  PROVE  CursorFits'
<1>1. CASE ReturnOk \/ UseOpenReader \/ PollSpentFuture
  BY <1>1, KeepsCursor
  DEF ReturnOk, LoopEnds, Reading, UseOpenReader, PollSpentFuture, NeedsReader
<1>2. CASE ReadFromStaging
  BY <1>2, ReadFromStagingCursor
<1>3. CASE SkipChunk
  BY <1>3, SkipChunkCursor
<1>4. CASE ReadLocalHeaderOrEocd \/ ReadCrcStructure
  BY <1>4, StructureCursor DEF ReadLocalHeaderOrEocd, ReadCrcStructure
<1> QED
  BY <1>1, <1>2, <1>3, <1>4 DEF LoopStep

(* Inside entry data: what is counted or skipped is one for the other, and *)
(* what is written is counted.                                             *)
LEMMA DataCursor ==
  ASSUME Inv, CursorFits, pc \in {"data", "pull"}, NEW n \in Nat,
         UNCHANGED << archive, current_chunk, staging_buffer, base >>,
         Len(out') = Len(out) + n, to_skip' \in Nat,
         chunk_processed_size' \in Nat,
         chunk_processed_size' + to_skip' = chunk_processed_size + to_skip + n
  PROVE  CursorFits'
<1> DEFINE start == ChunkStart(archive, current_chunk)
           c     == chunk_processed_size'
           t     == to_skip'
<1>1. /\ start \in Nat /\ base \in Nat /\ Len(out) \in Nat
      /\ chunk_processed_size \in Nat /\ to_skip \in Nat
  BY CurrentChunk DEF Inv, TypeOK
<1>2. staging_buffer = << >> /\ staging_buffer' = << >>
  BY DEF Inv, PcFits, PinnedFits
<1>3. Len(staging_buffer) = 0 /\ Len(staging_buffer') = 0
  BY <1>2, EmptySeq
<1>4. start + chunk_processed_size - 0 + to_skip = base + Len(out)
  BY <1>3 DEF CursorFits, Cursor
<1>5. Cursor' = start + c - 0 + t
  BY <1>3 DEF Cursor
<1>6. c \in Nat /\ t \in Nat /\ c + t = chunk_processed_size + to_skip + n
  OBVIOUS
<1> HIDE DEF start, c, t
<1>7. Cursor' = base + (Len(out) + n)
  BY <1>1, <1>4, <1>5, <1>6
<1> QED
  BY <1>2, <1>7 DEF CursorFits, StagedWanted

LEMMA SourceCursor ==
  ASSUME Inv, CursorFits, SourceStep
  PROVE  CursorFits'
<1>1. CASE OpenReader \/ ReadForCrc
  BY <1>1, KeepsCursor DEF OpenReader, NeedsReader, Reading, ReadForCrc
<1>2. CASE FinishCrc
  <2>1. pc = "crc" /\ UNCHANGED << archive, readState, out, base >>
    BY <1>2 DEF FinishCrc
  <2> QED
    BY <2>1, KeepsCursor
<1>3. /\ chunk_processed_size \in Nat /\ to_skip \in Nat /\ out \in Seq(Nat)
      /\ Len(out) \in Nat
  BY DEF Inv, TypeOK
<1>4. CASE SkipByReading
  <2>1. /\ pc = "data" /\ to_skip > 0
        /\ UNCHANGED << archive, current_chunk, staging_buffer, base, out >>
    BY <1>4 DEF SkipByReading
  <2>2. CASE UNCHANGED << chunk_processed_size, to_skip >>
    BY <2>1, <2>2, KeepsCursor DEF readState
  <2> DEFINE room == IF to_skip < ScratchSize THEN to_skip ELSE ScratchSize
  <2>3. ASSUME NEW n \in SourceReads(room),
               chunk_processed_size' = chunk_processed_size + n,
               to_skip' = to_skip - n
        PROVE  CursorFits'
    <3>1. room \in Nat /\ room <= to_skip
      BY <1>3, ReaderAssumption
    <3> HIDE DEF room
    <3>2. n \in Nat /\ n <= room
      BY <2>1, <2>3, <3>1, SourceReadsWithin DEF Inv, PcFits
    <3>3. /\ to_skip' \in Nat /\ chunk_processed_size' \in Nat
          /\ chunk_processed_size' + to_skip'
               = chunk_processed_size + to_skip + 0
      BY <1>3, <2>3, <3>1, <3>2
    <3>4. Len(out') = Len(out)
      BY <2>1
    <3>5. Len(out') = Len(out) + 0
      BY <1>3, <3>4
    <3> QED
      BY <2>1, <3>3, <3>5, DataCursor
  <2> QED
    BY <1>4, <2>2, <2>3 DEF SkipByReading
<1>5. CASE SeekSource
  <2>1. /\ pc = "data" /\ to_skip > 0
        /\ UNCHANGED << archive, current_chunk, staging_buffer, base, out >>
        /\ \/ UNCHANGED << chunk_processed_size, to_skip >>
           \/ /\ chunk_processed_size' = chunk_processed_size + to_skip
              /\ to_skip' = 0
    BY <1>5 DEF SeekSource
  <2>2. CASE UNCHANGED << chunk_processed_size, to_skip >>
    BY <2>1, <2>2, KeepsCursor DEF readState
  <2>3. CASE chunk_processed_size' = chunk_processed_size + to_skip /\ to_skip' = 0
    <3>1. /\ to_skip' \in Nat /\ chunk_processed_size' \in Nat
          /\ chunk_processed_size' + to_skip'
               = chunk_processed_size + to_skip + 0
      BY <1>3, <2>3
    <3>2. Len(out') = Len(out)
      BY <2>1
    <3>3. Len(out') = Len(out) + 0
      BY <1>3, <3>2
    <3> QED
      BY <2>1, <3>1, <3>3, DataCursor
  <2> QED
    BY <2>1, <2>2, <2>3
<1>6. CASE PullData
  <2>1. /\ pc \in {"data", "pull"}
        /\ UNCHANGED << archive, current_chunk, staging_buffer, to_skip, base >>
    BY <1>6 DEF PullData, AtPull
  <2>2. CASE UNCHANGED << chunk_processed_size, out >>
    BY <2>1, <2>2, KeepsCursor DEF readState
  <2>3. ASSUME NEW n \in SourceReads(Remaining),
               out' = out \o Run(DataStart(archive, pinned.entry) + pinned.pos, n),
               chunk_processed_size' = chunk_processed_size + n
        PROVE  CursorFits'
    <3> DEFINE from  == DataStart(archive, pinned.entry) + pinned.pos
               piece == Run(from, n)
    <3>1. n \in Nat /\ from \in Nat
      <4>1. /\ current_chunk.kind = "EntryData"
            /\ pinned.state = "FileReader" /\ pinned.entry = Idx
        BY <2>1 DEF Inv, PcFits, PinnedFits
      <4>2. ChunkStart(archive, current_chunk) = DataStart(archive, pinned.entry)
        BY <4>1 DEF ChunkStart, Idx
      <4>3. from \in Nat
        BY <4>2, CurrentChunk DEF Inv, TypeOK, ReaderPinned
      <4>4. Actual \in Nat /\ pinned.pos \in Nat /\ Remaining \in Int
        BY <4>1, CurrentChunk
        DEF Inv, TypeOK, ReaderPinned, Remaining, Actual, EntryKinds
      <4>5. n \in Nat
        BY <2>3, <4>4 DEF SourceReads
      <4> QED
        BY <4>3, <4>5
    <3> HIDE DEF from
    <3>2. piece \in Seq(Nat) /\ Len(piece) = n
      BY <3>1, RunType
    <3>3. out' = out \o piece
      BY <2>3 DEF from
    <3> HIDE DEF piece
    <3>4. Len(out') = Len(out) + n
      BY <1>3, <3>2, <3>3, ConcatProperties
    <3>5. /\ to_skip' \in Nat /\ chunk_processed_size' \in Nat
          /\ chunk_processed_size' + to_skip'
               = chunk_processed_size + to_skip + n
      BY <1>3, <2>1, <2>3, <3>1
    <3> QED
      BY <2>1, <3>1, <3>4, <3>5, DataCursor
  <2> QED
    BY <1>6, <2>2, <2>3 DEF PullData
<1>7. CASE FinishData
  <2> DEFINE start == ChunkStart(archive, current_chunk)
             size  == Entries[Idx].size
  <2>1. /\ pc \in {"data", "pull"} /\ current_chunk.kind = "EntryData"
        /\ UNCHANGED << archive, staging_buffer, to_skip, base, out >>
    BY <1>7, AtPullReads DEF FinishData, AtPull
  <2>2. CASE UNCHANGED << current_chunk, chunk_processed_size >>
    BY <2>1, <2>2, KeepsCursor DEF readState
  <2>3. CASE SizeMatches /\ FinishChunk(chunk_processed_size)
    <3>1. /\ start \in Nat /\ size \in Nat /\ current_chunk # Finished
          /\ ChunkSize(Entries, current_chunk) = size
          /\ chunk_processed_size = size
      BY <2>1, <2>3, CurrentChunk
      DEF Inv, SizeMatches, EntryKinds, Finished, Chunk
    <3>2. /\ current_chunk' = NextChunk(Entries, current_chunk)
          /\ chunk_processed_size' = 0
      BY <2>3, <3>1 DEF FinishChunk
    <3>3. ChunkStart(archive, current_chunk)' = start + size
      BY <2>1, <3>1, <3>2, Tiling DEF Inv
    <3>4. staging_buffer = << >> /\ Len(staging_buffer) = 0
      BY <2>1, EmptySeq DEF Inv, PcFits, PinnedFits
    <3>5. Cursor = start + size - 0 + to_skip
      BY <3>1, <3>4 DEF Cursor
    <3>6. Cursor' = (start + size) + 0 - 0 + to_skip
      BY <2>1, <3>2, <3>3, <3>4 DEF Cursor
    <3> HIDE DEF start, size
    <3>7. Cursor' = Cursor
      BY <1>3, <3>1, <3>5, <3>6
    <3> QED
      BY <2>1, <3>4, <3>7 DEF CursorFits, StagedWanted
  <2> QED
    BY <1>7, <2>2, <2>3 DEF FinishData
<1> QED
  BY <1>1, <1>2, <1>4, <1>5, <1>6, <1>7 DEF SourceStep

LEMMA CursorNext ==
  ASSUME Inv, CursorFits, [Next]_vars
  PROVE  CursorFits'
<1>1. ASSUME NEW origin \in Nat, NEW d \in Int, StartSeek(origin, d)
      PROVE  CursorFits'
  <2>1. CASE ~ (origin + d < 0) /\ ~ (origin + d > U64Max)
    BY <1>1, <2>1, SeekCursor DEF StartSeek
  <2>2. CASE origin + d < 0 \/ origin + d > U64Max
    BY <1>1, <2>2, KeepsCursor DEF StartSeek
  <2> QED
    BY <2>1, <2>2
<1>2. CASE CallerStep
  <2>1. CASE \E n \in ReadSizes : PollRead(n)
    BY <2>1, PollReadCursor, ReaderAssumption
  <2>2. ASSUME NEW d \in SeekOffsets,
               SeekStart(d) \/ SeekCurrent(d) \/ SeekEnd(d)
        PROVE  CursorFits'
    <3>1. /\ d \in Int /\ 0 \in Nat /\ position \in Nat
          /\ archive.total_size \in Nat
      BY ReaderAssumption, ArchiveTypes DEF Inv, TypeOK
    <3> QED
      BY <1>1, <2>2, <3>1 DEF SeekStart, SeekCurrent, SeekEnd
  <2>3. CASE TakePinned
    BY <2>3, SeekCursor DEF TakePinned, Inv, TypeOK
  <2> QED
    BY <1>2, <2>1, <2>2, <2>3 DEF CallerStep
<1>3. CASE UNCHANGED vars
  BY <1>3 DEF CursorFits, StagedWanted, Cursor, vars
<1> QED
  BY <1>2, <1>3, LoopCursor, SourceCursor DEF Next

=============================================================================
