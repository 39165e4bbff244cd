-------------------------- MODULE ZipBuilderProofs --------------------------
(***************************************************************************)
(* Proofs about ZipBuilder for any names, data, limits and callers: the    *)
(* size the builder keeps is that of the file it builds as long as nobody  *)
(* writes to the map behind its back, an entry is refused exactly if it    *)
(* would not fit, and whatever is built is laid out as the reader assumes, *)
(* and unzips to the entries it was built from.                            *)
(* Before that, about DosDatetime, the times the entries are given, and    *)
(* ZipContent: where the pieces of an archive lie, and what is read there. *)
(***************************************************************************)
EXTENDS ZipBuilder, ZipLayoutProofs

-----------------------------------------------------------------------------
(* What a time keeps when it goes through a DosDatetime, for every time.   *)

LEMMA U16Nat == LastU16 \in Nat
BY DEF LastU16

(* Both halves are numbers of three digits, of 5 bits, of 4 or 6, and of   *)
(* the rest; the accessors' divisions and remainders take them apart.      *)
LEMMA RoundTripOf ==
  ASSUME NEW year \in Int, NEW month \in Nat, NEW day \in Nat,
         NEW hour \in Nat, NEW minute \in Nat, NEW second \in Nat,
         NEW f, f = [year |-> year, month |-> month, day |-> day,
                     hour |-> hour, minute |-> minute, second |-> second],
         InRange(f)
  PROVE  /\ DosNew(f) = Some(Packed(f))
         /\ Packed(f) \in DosDatetimes
         /\ Unpacked(Packed(f)) = EvenSecond(f)
<1> DEFINE half == second \div 2
           since == year - 1980
           time == half + 32 * minute + 2048 * hour
           date == day + 32 * month + 512 * since
<1>1. /\ day \in 0 .. 31 /\ month \in 0 .. 15 /\ since \in 0 .. 127
      /\ half \in 0 .. 31 /\ minute \in 0 .. 63 /\ hour \in 0 .. 31
  BY DEF InRange
<1>2. Packed(f) = [time |-> time, date |-> date]
  BY DEF Packed
<1>3. /\ time \in 0 .. LastU16
      /\ time % 32 = half /\ (time \div 32) % 64 = minute
      /\ time \div 2048 = hour
  <2> DEFINE rest == minute + 64 * hour
  <2> HIDE DEF half
  <2>1. rest \in Nat /\ rest % 64 = minute
    BY <1>1
  <2>2. time = half + 32 * rest
    BY <1>1
  <2>3. time % 32 = half /\ time \div 32 = rest
    <3> HIDE DEF rest, time
    <3> QED BY <1>1, <2>1, <2>2
  <2>4. time \div 2048 = hour
    BY <1>1
  <2>5. time \in Nat /\ time <= LastU16
    BY <1>1 DEF LastU16
  <2> HIDE DEF time, rest
  <2> QED BY <2>1, <2>3, <2>4, <2>5, U16Nat
<1>4. /\ date \in 0 .. LastU16
      /\ date % 32 = day /\ (date \div 32) % 16 = month
      /\ date \div 512 = since
  <2> DEFINE rest == month + 16 * since
  <2> HIDE DEF since
  <2>1. rest \in Nat /\ rest % 16 = month
    BY <1>1
  <2>2. date = day + 32 * rest
    BY <1>1
  <2>3. date % 32 = day /\ date \div 32 = rest
    <3> HIDE DEF rest, date
    <3> QED BY <1>1, <2>1, <2>2
  <2>4. date \div 512 = since
    BY <1>1
  <2>5. date \in Nat /\ date <= LastU16
    BY <1>1 DEF LastU16
  <2> HIDE DEF date, rest
  <2> QED BY <2>1, <2>3, <2>4, <2>5, U16Nat
<1>5. Packed(f) \in DosDatetimes
  <2> HIDE DEF time, date
  <2> QED BY <1>2, <1>3, <1>4 DEF DosDatetimes
<1>6. /\ Year(Packed(f)) = year /\ Month(Packed(f)) = month
      /\ Day(Packed(f)) = day
  <2>1. since + 1980 = year
    OBVIOUS
  <2> HIDE DEF date, time, since
  <2> QED BY <1>2, <1>4, <2>1 DEF Year, Month, Day
<1>7. /\ Hour(Packed(f)) = hour /\ Minute(Packed(f)) = minute
      /\ Second(Packed(f)) = 2 * half
  <2>1. half \in Nat
    BY <1>1
  <2> HIDE DEF date, time, half
  <2> QED BY <1>2, <1>3, <2>1 DEF Hour, Minute, Second
<1>8. Unpacked(Packed(f)) = EvenSecond(f)
  <2> HIDE DEF half
  <2>1. EvenSecond(f) = [f EXCEPT !.second = 2 * half]
    BY DEF EvenSecond, half
  <2> QED BY <1>6, <1>7, <2>1 DEF Unpacked
<1> QED BY <1>5, <1>8 DEF DosNew

(* DosDatetime::new takes every time from 1980 to 2107, and the accessors  *)
(* give it back, but for the last bit of the second.                       *)
THEOREM RoundTrip ==
  ASSUME NEW f \in DateFields, InRange(f)
  PROVE  /\ DosNew(f) = Some(Packed(f))
         /\ Packed(f) \in DosDatetimes
         /\ Unpacked(Packed(f)) = EvenSecond(f)
<1>1. f = [year |-> f.year, month |-> f.month, day |-> f.day,
           hour |-> f.hour, minute |-> f.minute, second |-> f.second]
  BY DEF DateFields
<1>2. /\ f.year \in Int /\ f.month \in Nat /\ f.day \in Nat
      /\ f.hour \in Nat /\ f.minute \in Nat /\ f.second \in Nat
  BY DEF DateFields
<1> QED BY <1>1, <1>2, RoundTripOf

(* Different times, of even seconds, are different in the archive: the     *)
(* order of the fields, or two of them that overlap, cannot confuse them.  *)
THEOREM PackedDistinct ==
  ASSUME NEW f \in DateFields, NEW g \in DateFields, InRange(f), InRange(g),
         Packed(f) = Packed(g)
  PROVE  EvenSecond(f) = EvenSecond(g)
<1>1. Unpacked(Packed(f)) = EvenSecond(f) /\ Unpacked(Packed(g)) = EvenSecond(g)
  BY RoundTrip
<1> QED BY <1>1

(* The default of DosDatetime is not a time that new would make, and so    *)
(* not the documented 1980-01-01.                                          *)
THEOREM DefaultIsNoTime ==
  ASSUME NEW f \in DateFields
  PROVE  DosNew(f) # Some(DosDefault)
<1> SUFFICES ASSUME InRange(f), Packed(f) = DosDefault
             PROVE  FALSE
  BY DEF DosNew, None, Some
<1>1. f.day + 32 * f.month + 512 * (f.year - 1980) = 0
  BY DEF Packed, DosDefault
<1>2. f.day \in 1 .. 31 /\ f.month \in 1 .. 12 /\ f.year - 1980 \in Nat
  BY DEF InRange, DateFields
<1> QED BY <1>1, <1>2

-----------------------------------------------------------------------------
(* The order of the chunks.                                                *)

(* The chunks that are written, all but Finished, and the place of each. *)
Written(list) == Chunks(list) \ {Finished}

Rank(n, c) ==
  LET i == c.entry_index IN
  CASE c.kind = "LocalHeader"    -> 3 * i - 2
    [] c.kind = "EntryData"      -> 3 * i - 1
    [] c.kind = "DataDescriptor" -> 3 * i
    [] c.kind = "CDFileHeader"   -> 3 * n + i
    [] c.kind = "Eocd"           -> 4 * n + 1

LEMMA RankOf ==
  ASSUME NEW n, NEW i
  PROVE  /\ Rank(n, Chunk("LocalHeader", i)) = 3 * i - 2
         /\ Rank(n, Chunk("EntryData", i)) = 3 * i - 1
         /\ Rank(n, Chunk("DataDescriptor", i)) = 3 * i
         /\ Rank(n, Chunk("CDFileHeader", i)) = 3 * n + i
         /\ Rank(n, Eocd) = 4 * n + 1
  BY DEF Rank, Chunk, Eocd

LEMMA WrittenIs ==
  ASSUME NEW list \in Seq(Entry), NEW c
  PROVE  c \in Written(list) <=>
           \/ c = Eocd
           \/ \E k \in EntryKinds, i \in 1 .. Len(list) : c = Chunk(k, i)
  BY DEF Written, Chunks, Chunk, Eocd, Finished, EntryKinds

LEMMA RankInRange ==
  ASSUME NEW list \in Seq(Entry), NEW c \in Written(list)
  PROVE  Rank(Len(list), c) \in 1 .. 4 * Len(list) + 1
<1> DEFINE n == Len(list)
<1>1. n \in Nat
  OBVIOUS
<1> HIDE DEF n
<1>2. CASE c = Eocd
  BY <1>1, <1>2, RankOf DEF n
<1>3. ASSUME NEW k \in EntryKinds, NEW i \in 1 .. n, c = Chunk(k, i)
      PROVE  Rank(n, c) \in 1 .. 4 * n + 1
  <2>1. Rank(n, c) \in {3 * i - 2, 3 * i - 1, 3 * i, 3 * n + i}
    BY <1>3, RankOf DEF EntryKinds
  <2> QED
    BY <1>1, <2>1
<1> QED
  BY <1>2, <1>3, WrittenIs DEF n

LEMMA RankInjective ==
  ASSUME NEW list \in Seq(Entry),
         NEW c \in Written(list), NEW b \in Written(list),
         Rank(Len(list), c) = Rank(Len(list), b)
  PROVE  c = b
<1> DEFINE n == Len(list)
<1>1. n \in Nat
  OBVIOUS
<1> HIDE DEF n
<1>2. \A x \in Written(list) :
        \/ x = Eocd
        \/ \E i \in 1 .. n : \/ x = Chunk("LocalHeader", i)
                             \/ x = Chunk("EntryData", i)
                             \/ x = Chunk("DataDescriptor", i)
                             \/ x = Chunk("CDFileHeader", i)
  BY WrittenIs DEF n, EntryKinds
<1>3. CASE c = Eocd
  <2>1. \A i \in 1 .. n : {3 * i - 2, 3 * i - 1, 3 * i, 3 * n + i} \subseteq 1 .. 4 * n
    BY <1>1
  <2>2. Rank(n, b) = 4 * n + 1
    BY <1>3, RankOf DEF n
  <2>3. ~ (4 * n + 1 \in 1 .. 4 * n)
    BY <1>1
  <2> QED
    BY <1>2, <1>3, <2>1, <2>2, <2>3, RankOf
<1>4. CASE b = Eocd
  <2>1. \A i \in 1 .. n : {3 * i - 2, 3 * i - 1, 3 * i, 3 * n + i} \subseteq 1 .. 4 * n
    BY <1>1
  <2>2. Rank(n, c) = 4 * n + 1
    BY <1>4, RankOf DEF n
  <2>3. ~ (4 * n + 1 \in 1 .. 4 * n)
    BY <1>1
  <2> QED
    BY <1>2, <1>4, <2>1, <2>2, <2>3, RankOf
<1>5. ASSUME NEW k \in EntryKinds, NEW i \in 1 .. n, c = Chunk(k, i),
             NEW l \in EntryKinds, NEW j \in 1 .. n, b = Chunk(l, j)
      PROVE  c = b
  <2>1. Rank(n, Chunk(k, i)) = Rank(n, Chunk(l, j))
    BY <1>5 DEF n
  <2>2. /\ k = "LocalHeader"    => Rank(n, Chunk(k, i)) = 3 * i - 2
        /\ k = "EntryData"      => Rank(n, Chunk(k, i)) = 3 * i - 1
        /\ k = "DataDescriptor" => Rank(n, Chunk(k, i)) = 3 * i
        /\ k = "CDFileHeader"   => Rank(n, Chunk(k, i)) = 3 * n + i
        /\ l = "LocalHeader"    => Rank(n, Chunk(l, j)) = 3 * j - 2
        /\ l = "EntryData"      => Rank(n, Chunk(l, j)) = 3 * j - 1
        /\ l = "DataDescriptor" => Rank(n, Chunk(l, j)) = 3 * j
        /\ l = "CDFileHeader"   => Rank(n, Chunk(l, j)) = 3 * n + j
    BY RankOf
  <2>3. k = l /\ i = j
    BY <1>1, <2>1, <2>2 DEF EntryKinds
  <2> QED
    BY <1>5, <2>3
<1> QED
  BY <1>3, <1>4, <1>5, WrittenIs DEF n

LEMMA RankNext ==
  ASSUME NEW list \in Seq(Entry), NEW c \in Written(list),
         Rank(Len(list), c) # 4 * Len(list) + 1
  PROVE  /\ NextChunk(list, c) \in Written(list)
         /\ Rank(Len(list), NextChunk(list, c)) = Rank(Len(list), c) + 1
<1> DEFINE n == Len(list)
<1>1. n \in Nat
  OBVIOUS
<1>2. c # Eocd
  BY RankOf
<1>3. PICK k \in EntryKinds, i \in 1 .. n : c = Chunk(k, i)
  BY <1>2, WrittenIs
<1>4. /\ NextChunk(list, Chunk("LocalHeader", i)) = Chunk("EntryData", i)
      /\ NextChunk(list, Chunk("EntryData", i)) = Chunk("DataDescriptor", i)
      /\ NextChunk(list, Chunk("DataDescriptor", i))
           = IF i + 1 <= n THEN Chunk("LocalHeader", i + 1)
                           ELSE Chunk("CDFileHeader", 1)
      /\ NextChunk(list, Chunk("CDFileHeader", i))
           = IF i + 1 <= n THEN Chunk("CDFileHeader", i + 1) ELSE Eocd
  BY DEF NextChunk, Chunk
<1>5. 1 \in 1 .. n /\ (i + 1 <= n => i + 1 \in 1 .. n) /\ (~(i + 1 <= n) => i = n)
  BY <1>1
<1>6. NextChunk(list, c) \in Written(list)
  BY <1>3, <1>4, <1>5, WrittenIs DEF EntryKinds
<1> HIDE DEF n
<1>7. Rank(n, NextChunk(list, c)) = Rank(n, c) + 1
  <2>1. CASE k \in {"LocalHeader", "EntryData"}
    BY <1>1, <1>3, <1>4, <2>1, RankOf
  <2>2. CASE k = "DataDescriptor"
    <3>1. Rank(n, NextChunk(list, c))
            = IF i + 1 <= n THEN 3 * (i + 1) - 2 ELSE 3 * n + 1
      BY <1>3, <1>4, <2>2, RankOf
    <3> QED
      BY <1>1, <1>3, <1>5, <2>2, <3>1, RankOf
  <2>3. CASE k = "CDFileHeader"
    <3>1. Rank(n, c) = 3 * n + i
      BY <1>3, <2>3, RankOf
    <3>2. CASE i + 1 <= n
      <4>1. NextChunk(list, c) = Chunk("CDFileHeader", i + 1)
        BY <1>3, <1>4, <2>3, <3>2
      <4>2. Rank(n, Chunk("CDFileHeader", i + 1)) = 3 * n + (i + 1)
        BY RankOf
      <4> QED
        BY <1>1, <3>1, <4>1, <4>2
    <3>3. CASE ~(i + 1 <= n)
      <4>1. NextChunk(list, c) = Eocd /\ i = n
        BY <1>3, <1>4, <1>5, <2>3, <3>3
      <4>2. Rank(n, Eocd) = 4 * n + 1
        BY RankOf
      <4> QED
        BY <1>1, <3>1, <4>1, <4>2
    <3> QED
      BY <3>2, <3>3
  <2> QED
    BY <2>1, <2>2, <2>3 DEF EntryKinds
<1> QED
  BY <1>6, <1>7 DEF n

LEMMA RankFirst ==
  ASSUME NEW list \in Seq(Entry)
  PROVE  /\ FirstChunk(list) \in Written(list)
         /\ Rank(Len(list), FirstChunk(list)) = 1
<1>1. CASE list = << >>
  <2>1. Len(list) = 0 /\ FirstChunk(list) = Eocd
    BY <1>1 DEF FirstChunk
  <2>2. Rank(0, Eocd) = 1
    BY DEF Rank, Chunk, Eocd
  <2>3. Eocd \in Written(list)
    BY WrittenIs
  <2> QED
    BY <2>1, <2>2, <2>3
<1>2. CASE list # << >>
  <2>1. 1 \in 1 .. Len(list)
    BY <1>2
  <2> QED
    BY <1>2, <2>1, WrittenIs, RankOf DEF FirstChunk, EntryKinds
<1> QED
  BY <1>1, <1>2

(* There is a chunk at every place. *)
LEMMA ChunkAtRank ==
  ASSUME NEW list \in Seq(Entry), NEW k \in 1 .. 4 * Len(list) + 1
  PROVE  \E c \in Written(list) : Rank(Len(list), c) = k
<1> DEFINE m == 4 * Len(list)
           T == {l \in 1 .. m + 1 :
                   \E c \in Written(list) : Rank(Len(list), c) = l}
<1>1. m \in Nat
  OBVIOUS
<1>2. 1 \in T
  BY <1>1, RankFirst
<1>3. ASSUME NEW l \in 1 .. m, l \in T
      PROVE  l + 1 \in T
  <2>1. PICK c \in Written(list) : Rank(Len(list), c) = l
    BY <1>3
  <2>2. l # m + 1 /\ l + 1 \in 1 .. m + 1
    BY <1>1
  <2> QED
    BY <2>1, <2>2, RankNext
<1>4. T = 1 .. m + 1
  <2>1. T \in SUBSET (1 .. m + 1)
    OBVIOUS
  <2> HIDE DEF T, m
  <2>2. \A l \in 1 .. m : (\A j \in 1 .. l : j \in T) => l + 1 \in T
    <3>1. \A l \in 1 .. m : l \in 1 .. l
      BY <1>1
    <3> QED
      BY <1>3, <3>1
  <2> QED
    BY <1>1, <1>2, <2>1, <2>2, StepByStep
<1> QED
  BY <1>4

(* The reader comes to every chunk once. *)
LEMMA ChunkOrderIs ==
  ASSUME NEW list \in Seq(Entry)
  PROVE  LET n == Len(list)
             f == ChunkOrder(list)
         IN
         /\ \A k \in 1 .. 4 * n + 1 : f[k] \in Written(list) /\ Rank(n, f[k]) = k
         /\ f[1] = FirstChunk(list)
         /\ \A k \in 1 .. 4 * n : f[k + 1] = NextChunk(list, f[k])
         /\ \A c \in Written(list) : f[Rank(n, c)] = c
<1> DEFINE n == Len(list)
           m == 4 * n
           f == ChunkOrder(list)
           g == [k \in 1 .. m + 1 |->
                   CHOOSE c \in Written(list) : Rank(n, c) = k]
           After(h, k) == IF k = 1 THEN FirstChunk(list)
                          ELSE NextChunk(list, h[k - 1])
<1>1. m \in Nat
  OBVIOUS
<1>2. \A k \in 1 .. m + 1 : g[k] \in Written(list) /\ Rank(n, g[k]) = k
  <2> SUFFICES ASSUME NEW k \in 1 .. m + 1
               PROVE  g[k] \in Written(list) /\ Rank(n, g[k]) = k
    OBVIOUS
  <2>1. \E c \in Written(list) : Rank(n, c) = k
    BY ChunkAtRank
  <2> QED
    BY <2>1
<1>3. \A k \in 1 .. m + 1 : g[k] = After(g, k)
  <2> SUFFICES ASSUME NEW k \in 1 .. m + 1
               PROVE  g[k] = After(g, k)
    OBVIOUS
  <2> HIDE DEF g
  <2>1. CASE k = 1
    BY <1>2, <2>1, RankFirst, RankInjective
  <2>2. CASE k # 1
    <3>1. k - 1 \in 1 .. m + 1 /\ k - 1 # m + 1 /\ (k - 1) + 1 = k
      BY <1>1, <2>2
    <3> DEFINE c == g[k - 1]
    <3>2. c \in Written(list) /\ Rank(n, c) = k - 1
      BY <1>2, <3>1
    <3> HIDE DEF c
    <3>3. /\ NextChunk(list, c) \in Written(list)
          /\ Rank(n, NextChunk(list, c)) = k
      BY <3>1, <3>2, RankNext
    <3>4. g[k] = NextChunk(list, c)
      BY <1>2, <3>3, RankInjective
    <3> QED
      BY <2>2, <3>4 DEF c
  <2> QED
    BY <2>1, <2>2
<1>4. g = [k \in 1 .. m + 1 |-> After(g, k)]
  <2>1. g = [k \in 1 .. m + 1 |-> g[k]]
    OBVIOUS
  <2> HIDE DEF g
  <2> QED
    BY <1>3, <2>1
<1>5. f = [k \in 1 .. m + 1 |-> After(f, k)]
  <2> HIDE DEF g
  <2> QED
    BY <1>4 DEF ChunkOrder
<1> HIDE DEF f, g
<1>6. f[1] = FirstChunk(list)
  BY <1>1, <1>5
<1>7. \A k \in 1 .. m : f[k + 1] = NextChunk(list, f[k])
  <2> SUFFICES ASSUME NEW k \in 1 .. m
               PROVE  f[k + 1] = NextChunk(list, f[k])
    OBVIOUS
  <2>1. k + 1 \in 1 .. m + 1 /\ k + 1 # 1 /\ (k + 1) - 1 = k
    BY <1>1
  <2> QED
    BY <1>5, <2>1
<1>8. \A k \in 1 .. m + 1 : f[k] = g[k]
  <2> DEFINE T == {k \in 1 .. m + 1 : f[k] = g[k]}
  <2>1. 1 \in T
    BY <1>1, <1>3, <1>6
  <2>2. ASSUME NEW k \in 1 .. m, k \in T
        PROVE  k + 1 \in T
    <3>1. k + 1 \in 1 .. m + 1 /\ k + 1 # 1 /\ (k + 1) - 1 = k
      BY <1>1
    <3> QED
      BY <1>3, <1>7, <2>2, <3>1
  <2>3. T \in SUBSET (1 .. m + 1)
    OBVIOUS
  <2>4. T = 1 .. m + 1
    <3> HIDE DEF T, m
    <3>1. \A l \in 1 .. m : (\A j \in 1 .. l : j \in T) => l + 1 \in T
      <4>1. \A l \in 1 .. m : l \in 1 .. l
        BY <1>1
      <4> QED
        BY <2>2, <4>1
    <3> QED
      BY <1>1, <2>1, <2>3, <3>1, StepByStep
  <2> QED
    BY <2>4
<1>9. \A c \in Written(list) : f[Rank(n, c)] = c
  BY <1>2, <1>8, RankInRange, RankInjective
<1> QED
  BY <1>2, <1>6, <1>7, <1>8, <1>9 DEF f

-----------------------------------------------------------------------------
(* Where the pieces come to lie.                                           *)

LEMMA OffsetsOfOne ==
  ASSUME NEW p, p.size \in Nat
  PROVE  /\ PieceOffsets(<< p >>)[1] = 0
         /\ PieceOffsets(<< p >>)[2] = p.size
<1> DEFINE s == [j \in 1 .. 1 |-> << p >>[j].size]
<1>1. s \in Seq(Nat) /\ Len(s) = 1 /\ s[1] = p.size
  OBVIOUS
<1>2. PieceOffsets(<< p >>) = RunningSum(s)
  BY DEF PieceOffsets
<1> HIDE DEF s
<1>3. RunningSum(s)[1] = 0 /\ RunningSum(s)[1 + 1] = RunningSum(s)[1] + s[1]
  BY <1>1, RunningSumIs
<1> QED
  BY <1>1, <1>2, <1>3

LEMMA OffsetsOfThree ==
  ASSUME NEW p, NEW q, NEW r, p.size \in Nat, q.size \in Nat, r.size \in Nat
  PROVE  LET f == PieceOffsets(<< p, q, r >>) IN
         /\ f[1] = 0
         /\ f[2] = p.size
         /\ f[3] = p.size + q.size
         /\ f[4] = p.size + q.size + r.size
<1> DEFINE s == [j \in 1 .. 3 |-> << p, q, r >>[j].size]
<1>1. /\ s \in Seq(Nat) /\ Len(s) = 3
      /\ s[1] = p.size /\ s[2] = q.size /\ s[3] = r.size
  <2>1. \A j \in 1 .. 3 : j = 1 \/ j = 2 \/ j = 3
    OBVIOUS
  <2>2. \A j \in 1 .. 3 : << p, q, r >>[j].size \in Nat
    BY <2>1
  <2> QED
    BY <2>2
<1>2. PieceOffsets(<< p, q, r >>) = RunningSum(s)
  BY DEF PieceOffsets
<1> HIDE DEF s
<1> DEFINE f == RunningSum(s)
<1>3. f[1] = 0 /\ \A j \in 1 .. 3 : f[j + 1] = f[j] + s[j]
  BY <1>1, RunningSumIs
<1> HIDE DEF f
<1>4. f[2] = f[1] + s[1] /\ f[3] = f[2] + s[2] /\ f[4] = f[3] + s[3]
  <2>1. f[1 + 1] = f[1] + s[1] /\ f[2 + 1] = f[2] + s[2] /\ f[3 + 1] = f[3] + s[3]
    BY <1>3
  <2> QED
    BY <2>1
<1> QED
  BY <1>1, <1>2, <1>3, <1>4 DEF f

(* The pieces of a chunk, with the names they have in what follows. *)
NamePiece(a, d, i) == Piece("Name", a.entries[i].name_len, d[i].name)
ExtraPiece(a, i, size) ==
  Piece("Zip64ExtraField", Zip64ExtraFieldSize,
        Zip64ExtraField(size, size, a.entries[i].offset))

LEMMA PiecesOf ==
  ASSUME NEW a, NEW d, NEW i
  PROVE  /\ Pieces(a, d, Chunk("LocalHeader", i))
              = << Piece("LocalHeader", LocalFileHeaderSize, LocalFileHeader(a, d, i)),
                   NamePiece(a, d, i), ExtraPiece(a, i, 0) >>
         /\ Pieces(a, d, Chunk("EntryData", i))
              = << Piece("EntryData", a.entries[i].actual, i) >>
         /\ Pieces(a, d, Chunk("DataDescriptor", i))
              = << Piece("DataDescriptor", DataDescriptor64Size,
                         DataDescriptor64(a, i)) >>
         /\ Pieces(a, d, Chunk("CDFileHeader", i))
              = << Piece("CDFileHeader", CentralDirectoryHeaderSize,
                         CentralDirectoryHeader(a, d, i)),
                   NamePiece(a, d, i), ExtraPiece(a, i, a.entries[i].size) >>
         /\ Pieces(a, d, Eocd)
              = << Piece("Zip64EocdRecord", Zip64EocdRecordSize, Zip64EocdRecord(a)),
                   Piece("Zip64EocdLocator", Zip64EocdLocatorSize, Zip64EocdLocator(a)),
                   Piece("EndOfCentralDirectory", EndOfCentralDirectorySize,
                         EndOfCentralDirectory) >>
  BY DEF Pieces, Chunk, Eocd, NamePiece, ExtraPiece

LEMMA SizesOf ==
  ASSUME NEW e, NEW i
  PROVE  /\ ChunkSize(e, Chunk("LocalHeader", i))
              = LocalFileHeaderSize + e[i].name_len + Zip64ExtraFieldSize
         /\ ChunkSize(e, Chunk("EntryData", i)) = e[i].size
         /\ ChunkSize(e, Chunk("DataDescriptor", i)) = DataDescriptor64Size
         /\ ChunkSize(e, Chunk("CDFileHeader", i))
              = CentralDirectoryHeaderSize + e[i].name_len + Zip64ExtraFieldSize
         /\ ChunkSize(e, Eocd) = EocdSize
  BY DEF ChunkSize, Chunk, Eocd

(* What holds of the pieces of one chunk: they fill it, none is of the     *)
(* kind of another, and only an empty entry has a piece that ends where it *)
(* starts.                                                                 *)
Fills(a, d, c) ==
  LET p    == Pieces(a, d, c)
      at   == PieceOffsets(p)
      size == ChunkSize(a.entries, c)
  IN
  /\ Len(p) \in {1, 3}
  /\ size \in Nat
  /\ at[Len(p) + 1] = size
  /\ \A j \in 1 .. Len(p) :
       /\ at[j] \in Nat
       /\ at[j] <= size
       /\ c.kind # "EntryData" => at[j] < size /\ p[j].kind # "EntryData"
  /\ \A j, l \in 1 .. Len(p) : p[j].kind = p[l].kind => j = l

LEMMA FillsOne ==
  ASSUME NEW a, NEW d, NEW c, NEW p,
         Pieces(a, d, c) = << p >>, p.size = ChunkSize(a.entries, c),
         p.size \in Nat, c.kind # "EntryData" => p.size > 0 /\ p.kind # "EntryData"
  PROVE  Fills(a, d, c)
<1> DEFINE s == << p >>
           at == PieceOffsets(s)
<1>1. Len(s) = 1 /\ s[1] = p /\ \A j \in 1 .. 1 : j = 1
  OBVIOUS
<1>2. at[1] = 0 /\ at[2] = p.size
  BY OffsetsOfOne
<1> HIDE DEF s, at
<1>3. at[Len(s) + 1] = p.size
  BY <1>1, <1>2
<1> QED
  BY <1>1, <1>2, <1>3 DEF Fills, s, at

LEMMA FillsThree ==
  ASSUME NEW a, NEW d, NEW c, NEW p, NEW q, NEW r,
         Pieces(a, d, c) = << p, q, r >>,
         p.size + q.size + r.size = ChunkSize(a.entries, c),
         p.size \in Nat \ {0}, q.size \in Nat, r.size \in Nat \ {0},
         p.kind # q.kind, p.kind # r.kind, q.kind # r.kind,
         p.kind # "EntryData", q.kind # "EntryData", r.kind # "EntryData"
  PROVE  Fills(a, d, c)
<1> DEFINE s == << p, q, r >>
           at == PieceOffsets(s)
           size == ChunkSize(a.entries, c)
<1>1. Len(s) = 3 /\ s[1] = p /\ s[2] = q /\ s[3] = r
  OBVIOUS
<1>2. \A j \in 1 .. 3 : j = 1 \/ j = 2 \/ j = 3
  OBVIOUS
<1>3. /\ at[1] = 0 /\ at[2] = p.size /\ at[3] = p.size + q.size
      /\ at[4] = p.size + q.size + r.size
  BY OffsetsOfThree
<1> HIDE DEF s, at, size
<1>4. size \in Nat /\ at[Len(s) + 1] = size
  BY <1>1, <1>3 DEF size
<1>5. \A j \in 1 .. 3 : at[j] \in Nat /\ at[j] < size /\ s[j].kind # "EntryData"
  BY <1>1, <1>2, <1>3 DEF size
<1>6. \A j, l \in 1 .. 3 : s[j].kind = s[l].kind => j = l
  BY <1>1, <1>2
<1> QED
  BY <1>1, <1>4, <1>5, <1>6 DEF Fills, s, at, size

LEMMA PiecesFill ==
  ASSUME NEW a, NEW d, WellLaidOut(a), HonestSizes(a),
         NEW c \in Written(a.entries)
  PROVE  Fills(a, d, c)
<1> DEFINE e == a.entries
<1>1. e \in Seq(Entry)
  BY DEF WellLaidOut
<1>2. \A i \in 1 .. Len(e) : /\ e[i].name_len \in Nat /\ e[i].size \in Nat
                              /\ e[i].actual = e[i].size
  <2>1. \A i \in 1 .. Len(e) : e[i] \in Entry
    BY <1>1
  <2> QED
    BY <2>1 DEF Entry, HonestSizes
<1>3. CASE c = Eocd
  <2> DEFINE p == Piece("Zip64EocdRecord", Zip64EocdRecordSize, Zip64EocdRecord(a))
             q == Piece("Zip64EocdLocator", Zip64EocdLocatorSize, Zip64EocdLocator(a))
             r == Piece("EndOfCentralDirectory", EndOfCentralDirectorySize,
                        EndOfCentralDirectory)
  <2>1. Pieces(a, d, c) = << p, q, r >>
    BY <1>3, PiecesOf
  <2>2. /\ p.size = Zip64EocdRecordSize /\ p.kind = "Zip64EocdRecord"
        /\ q.size = Zip64EocdLocatorSize /\ q.kind = "Zip64EocdLocator"
        /\ r.size = EndOfCentralDirectorySize /\ r.kind = "EndOfCentralDirectory"
    BY DEF Piece
  <2>3. ChunkSize(e, c) = p.size + q.size + r.size
    BY <1>3, <2>2, SizesOf DEF EocdSize
  <2> HIDE DEF p, q, r
  <2> QED
    BY <2>1, <2>2, <2>3, FillsThree, StructSizesAssumption
<1>4. ASSUME NEW k \in EntryKinds, NEW i \in 1 .. Len(e), c = Chunk(k, i)
      PROVE  Fills(a, d, c)
  <2>1. c.kind = k
    BY <1>4 DEF Chunk
  <2> DEFINE q == NamePiece(a, d, i)
  <2>2. q.size = e[i].name_len /\ q.kind = "Name"
    BY DEF NamePiece, Piece
  <2>3. \A size : LET r == ExtraPiece(a, i, size) IN
                  r.size = Zip64ExtraFieldSize /\ r.kind = "Zip64ExtraField"
    BY DEF ExtraPiece, Piece
  <2> HIDE DEF q
  <2>4. CASE k = "LocalHeader"
    <3> DEFINE p == Piece("LocalHeader", LocalFileHeaderSize, LocalFileHeader(a, d, i))
               r == ExtraPiece(a, i, 0)
    <3>1. Pieces(a, d, c) = << p, q, r >>
      BY <1>4, <2>4, PiecesOf DEF q
    <3>2. p.size = LocalFileHeaderSize /\ p.kind = "LocalHeader"
      BY DEF Piece
    <3>3. r.size = Zip64ExtraFieldSize /\ r.kind = "Zip64ExtraField"
      BY <2>3
    <3>4. ChunkSize(e, c) = LocalFileHeaderSize + e[i].name_len + Zip64ExtraFieldSize
      BY <1>4, <2>4, SizesOf
    <3> HIDE DEF p, r
    <3> QED
      BY <1>2, <2>2, <3>1, <3>2, <3>3, <3>4, FillsThree, StructSizesAssumption
  <2>5. CASE k = "EntryData"
    <3> DEFINE p == Piece("EntryData", e[i].actual, i)
    <3>1. Pieces(a, d, c) = << p >>
      BY <1>4, <2>5, PiecesOf
    <3>2. p.size = e[i].size
      BY <1>2 DEF Piece
    <3>3. ChunkSize(e, c) = e[i].size
      BY <1>4, <2>5, SizesOf
    <3> HIDE DEF p
    <3> QED
      BY <1>2, <2>1, <2>5, <3>1, <3>2, <3>3, FillsOne
  <2>6. CASE k = "DataDescriptor"
    <3> DEFINE p == Piece("DataDescriptor", DataDescriptor64Size, DataDescriptor64(a, i))
    <3>1. Pieces(a, d, c) = << p >>
      BY <1>4, <2>6, PiecesOf
    <3>2. p.size = DataDescriptor64Size /\ p.kind = "DataDescriptor"
      BY DEF Piece
    <3>3. ChunkSize(e, c) = DataDescriptor64Size
      BY <1>4, <2>6, SizesOf
    <3> HIDE DEF p
    <3> QED
      BY <3>1, <3>2, <3>3, FillsOne, StructSizesAssumption
  <2>7. CASE k = "CDFileHeader"
    <3> DEFINE p == Piece("CDFileHeader", CentralDirectoryHeaderSize,
                          CentralDirectoryHeader(a, d, i))
               r == ExtraPiece(a, i, e[i].size)
    <3>1. Pieces(a, d, c) = << p, q, r >>
      BY <1>4, <2>7, PiecesOf DEF q
    <3>2. p.size = CentralDirectoryHeaderSize /\ p.kind = "CDFileHeader"
      BY DEF Piece
    <3>3. r.size = Zip64ExtraFieldSize /\ r.kind = "Zip64ExtraField"
      BY <2>3
    <3>4. ChunkSize(e, c)
            = CentralDirectoryHeaderSize + e[i].name_len + Zip64ExtraFieldSize
      BY <1>4, <2>7, SizesOf
    <3> HIDE DEF p, r
    <3> QED
      BY <1>2, <2>2, <3>1, <3>2, <3>3, <3>4, FillsThree, StructSizesAssumption
  <2> QED
    BY <2>4, <2>5, <2>6, <2>7 DEF EntryKinds
<1> QED
  BY <1>1, <1>3, <1>4, WrittenIs

-----------------------------------------------------------------------------
(* The image.                                                              *)

(* What never falls does not fall over several steps. *)
LEMMA Monotone ==
  ASSUME NEW n \in Nat, NEW f \in [1 .. n + 1 -> Nat],
         \A k \in 1 .. n : f[k] <= f[k + 1],
         NEW i \in 1 .. n + 1, NEW j \in 1 .. n + 1, i <= j
  PROVE  f[i] <= f[j]
<1> DEFINE T == {k \in 1 .. n + 1 : i <= k => f[i] <= f[k]}
<1>1. 1 \in T
  BY SMT
<1>2. ASSUME NEW k \in 1 .. n, k \in T
      PROVE  k + 1 \in T
  <2>1. k + 1 \in 1 .. n + 1 /\ k \in 1 .. n + 1
    OBVIOUS
  <2>2. f[i] \in Nat /\ f[k] \in Nat /\ f[k + 1] \in Nat /\ f[k] <= f[k + 1]
    BY <2>1
  <2>3. CASE i <= k
    BY <1>2, <2>1, <2>2, <2>3
  <2>4. CASE ~(i <= k)
    BY <2>1, <2>2, <2>4
  <2> QED
    BY <2>3, <2>4
<1>3. T \in SUBSET (1 .. n + 1)
  OBVIOUS
<1>4. T = 1 .. n + 1
  <2> HIDE DEF T
  <2>1. \A k \in 1 .. n : (\A l \in 1 .. k : l \in T) => k + 1 \in T
    <3>1. \A k \in 1 .. n : k \in 1 .. k
      OBVIOUS
    <3> QED
      BY <1>2, <3>1
  <2> QED
    BY <1>1, <1>3, <2>1, StepByStep
<1> QED
  BY <1>4

(* The running sum of the sizes of the chunks is where they start. *)
LEMMA OffsetsAreStarts ==
  ASSUME NEW a, NEW d, WellLaidOut(a), HonestSizes(a)
  PROVE  LET m == 4 * Len(a.entries)
             f == ChunkOffsets(a, d)
             c == ChunkOrder(a.entries)
         IN
         /\ m \in Nat
         /\ f \in [1 .. m + 1 + 1 -> Nat]
         /\ \A k \in 1 .. m + 1 :
              /\ f[k] = ChunkStart(a, c[k])
              /\ f[k + 1] = f[k] + ChunkSize(a.entries, c[k])
              /\ c[k] \in Written(a.entries)
         /\ f[m + 2] = a.total_size
<1> DEFINE e == a.entries
           m == 4 * Len(e)
           c == ChunkOrder(e)
           f == ChunkOffsets(a, d)
           z == [k \in 1 .. m + 1 |->
                   LET pieces == Pieces(a, d, ChunkOrder(a.entries)[k])
                   IN PieceOffsets(pieces)[Len(pieces) + 1]]
<1>1. e \in Seq(Entry) /\ m \in Nat /\ a.total_size \in Nat
  BY DEF WellLaidOut
<1>2. /\ \A k \in 1 .. m + 1 : c[k] \in Written(e) /\ Rank(Len(e), c[k]) = k
      /\ c[1] = FirstChunk(e)
      /\ \A k \in 1 .. m : c[k + 1] = NextChunk(e, c[k])
      /\ \A b \in Written(e) : c[Rank(Len(e), b)] = b
  BY <1>1, ChunkOrderIs
<1>3. f = RunningSum(z)
  BY DEF ChunkOffsets
<1>4. \A k \in 1 .. m + 1 :
        z[k] = ChunkSize(e, c[k]) /\ ChunkSize(e, c[k]) \in Nat
  <2> SUFFICES ASSUME NEW k \in 1 .. m + 1
               PROVE  z[k] = ChunkSize(e, c[k]) /\ ChunkSize(e, c[k]) \in Nat
    OBVIOUS
  <2>1. z[k] = PieceOffsets(Pieces(a, d, c[k]))[Len(Pieces(a, d, c[k])) + 1]
    OBVIOUS
  <2>2. Fills(a, d, c[k])
    BY <1>2, PiecesFill
  <2> HIDE DEF z, c
  <2> QED
    BY <2>1, <2>2 DEF Fills
<1> HIDE DEF z, c, f
<1>5. z \in Seq(Nat) /\ Len(z) = m + 1
  <2>1. z \in [1 .. m + 1 -> Nat]
    BY <1>4 DEF z
  <2> HIDE DEF m
  <2> QED
    BY <1>1, <2>1
<1>6. /\ f \in [1 .. m + 1 + 1 -> Nat] /\ f[1] = 0
      /\ \A k \in 1 .. m + 1 : f[k + 1] = f[k] + ChunkSize(e, c[k])
  <2>1. /\ f \in [1 .. Len(z) + 1 -> Nat] /\ f[1] = 0
        /\ \A k \in 1 .. Len(z) : f[k + 1] = f[k] + z[k]
    BY <1>3, <1>5, RunningSumIs
  <2> QED
    BY <1>4, <1>5, <2>1
<1>7. /\ ChunkStart(a, FirstChunk(e)) = 0
      /\ \A b \in Written(e) :
           ChunkStart(a, NextChunk(e, b)) = ChunkStart(a, b) + ChunkSize(e, b)
  BY DEF WellLaidOut, Written
<1> DEFINE T == {k \in 1 .. m + 1 : f[k] = ChunkStart(a, c[k])}
<1>8. T = 1 .. m + 1
  <2>1. T \in SUBSET (1 .. m + 1)
    OBVIOUS
  <2>2. 1 \in T
    BY <1>1, <1>2, <1>6, <1>7
  <2>3. ASSUME NEW k \in 1 .. m, k \in T
        PROVE  k + 1 \in T
    <3>1. k \in 1 .. m + 1 /\ k + 1 \in 1 .. m + 1
      BY <1>1
    <3> QED
      BY <1>2, <1>6, <1>7, <2>3, <3>1
  <2> HIDE DEF T, m
  <2>4. \A k \in 1 .. m : (\A l \in 1 .. k : l \in T) => k + 1 \in T
    <3>1. \A k \in 1 .. m : k \in 1 .. k
      BY <1>1
    <3> QED
      BY <2>3, <3>1
  <2> QED
    BY <1>1, <2>1, <2>2, <2>4, StepByStep
<1>9. f[m + 2] = a.total_size
  <2>1. Eocd \in Written(e) /\ Rank(Len(e), Eocd) = m + 1
    BY <1>1, WrittenIs, RankOf
  <2>2. m + 1 \in 1 .. m + 1
    BY <1>1
  <2>3. c[m + 1] = Eocd
    BY <1>2, <2>1
  <2>4. f[(m + 1) + 1] = ChunkStart(a, Eocd) + ChunkSize(e, Eocd)
    BY <1>6, <1>8, <2>2, <2>3
  <2>5. NextChunk(e, Eocd) = Finished /\ ChunkStart(a, Finished) = a.total_size
    BY DEF NextChunk, ChunkStart, Chunk, Eocd, Finished
  <2>6. (m + 1) + 1 = m + 2
    BY <1>1
  <2> QED
    BY <1>7, <2>1, <2>4, <2>5, <2>6
<1> QED
  BY <1>1, <1>2, <1>6, <1>8, <1>9 DEF f, c

(* The j-th piece of a chunk, as it lies in the file. *)
PieceAt(a, d, c, j) ==
  LET p == Pieces(a, d, c) IN
  [kind |-> p[j].kind, at |-> ChunkStart(a, c) + PieceOffsets(p)[j],
   fields |-> p[j].fields]

LEMMA ImageIs ==
  ASSUME NEW a, NEW d, WellLaidOut(a), HonestSizes(a)
  PROVE  /\ Image(a, d).end = a.total_size
         /\ \A x : x \in Image(a, d).placed <=>
                \E c \in Written(a.entries) : \E j \in 1 .. Len(Pieces(a, d, c)) :
                  x = PieceAt(a, d, c, j)
<1> DEFINE e == a.entries
           m == 4 * Len(e)
           c == ChunkOrder(e)
           f == ChunkOffsets(a, d)
<1>1. /\ e \in Seq(Entry) /\ m \in Nat
      /\ \A k \in 1 .. m + 1 : f[k] = ChunkStart(a, c[k]) /\ c[k] \in Written(e)
      /\ f[m + 2] = a.total_size
  <2>1. e \in Seq(Entry)
    BY DEF WellLaidOut
  <2> QED
    BY <2>1, OffsetsAreStarts
<1>2. \A b \in Written(e) : c[Rank(Len(e), b)] = b /\ Rank(Len(e), b) \in 1 .. m + 1
  BY <1>1, ChunkOrderIs, RankInRange
<1>3. /\ Image(a, d).end = f[(m + 1) + 1]
      /\ Image(a, d).placed = UNION {Placed(Pieces(a, d, c[k]), f[k]) : k \in 1 .. m + 1}
  BY DEF Image
<1> HIDE DEF e, m, c, f
<1>4. (m + 1) + 1 = m + 2
  BY <1>1
<1>5. \A k \in 1 .. m + 1 :
        Placed(Pieces(a, d, c[k]), f[k])
          = {PieceAt(a, d, c[k], j) : j \in 1 .. Len(Pieces(a, d, c[k]))}
  BY <1>1 DEF Placed, PieceAt
<1> DEFINE Q(x, b) == \E j \in 1 .. Len(Pieces(a, d, b)) : x = PieceAt(a, d, b, j)
<1>6. \A x : x \in Image(a, d).placed <=> \E k \in 1 .. m + 1 : Q(x, c[k])
  <2> DEFINE U(k) == Placed(Pieces(a, d, c[k]), f[k])
  <2>1. \A k \in 1 .. m + 1 : \A x : x \in U(k) <=> Q(x, c[k])
    BY <1>5
  <2>2. Image(a, d).placed = UNION {U(k) : k \in 1 .. m + 1}
    BY <1>3
  <2> HIDE DEF U, Q
  <2> QED
    BY <2>1, <2>2
<1>7. \A x : x \in Image(a, d).placed <=> \E b \in Written(e) : Q(x, b)
  <2> HIDE DEF Q
  <2>1. ASSUME NEW x, NEW b \in Written(e), Q(x, b)
        PROVE  \E k \in 1 .. m + 1 : Q(x, c[k])
    <3>1. c[Rank(Len(e), b)] = b /\ Rank(Len(e), b) \in 1 .. m + 1
      BY <1>2, <2>1
    <3> QED
      BY <2>1, <3>1
  <2> QED
    BY <1>1, <1>6, <2>1
<1>8. Image(a, d).end = a.total_size
  BY <1>1, <1>3, <1>4
<1> QED
  BY <1>7, <1>8 DEF e

(* No two pieces of one kind lie at the same place. *)
LEMMA PiecesApart ==
  ASSUME NEW a, NEW d, WellLaidOut(a), HonestSizes(a),
         NEW b \in Written(a.entries), NEW c \in Written(a.entries),
         NEW i \in 1 .. Len(Pieces(a, d, b)), NEW j \in 1 .. Len(Pieces(a, d, c)),
         PieceAt(a, d, b, i).kind = PieceAt(a, d, c, j).kind,
         PieceAt(a, d, b, i).at = PieceAt(a, d, c, j).at
  PROVE  PieceAt(a, d, b, i) = PieceAt(a, d, c, j)
<1> DEFINE e == a.entries
           m == 4 * Len(e)
           f == ChunkOffsets(a, d)
           g == ChunkOrder(e)
           R(x) == Rank(Len(e), x)
           S(x) == ChunkSize(e, x)
           K(x, l) == Pieces(a, d, x)[l].kind
           O(x, l) == PieceOffsets(Pieces(a, d, x))[l]
           N(x) == Len(Pieces(a, d, x))
<1>1. e \in Seq(Entry)
  BY DEF WellLaidOut
<1>2. /\ m \in Nat /\ f \in [1 .. m + 1 + 1 -> Nat]
      /\ \A k \in 1 .. m + 1 :
           /\ f[k] = ChunkStart(a, g[k])
           /\ f[k + 1] = f[k] + ChunkSize(e, g[k])
           /\ g[k] \in Written(e)
  BY OffsetsAreStarts
<1>3. \A x \in Written(e) : g[R(x)] = x /\ R(x) \in 1 .. m + 1
  BY <1>1, ChunkOrderIs, RankInRange
<1>4. \A x \in Written(e) :
        /\ S(x) \in Nat
        /\ \A l \in 1 .. N(x) :
             /\ O(x, l) \in Nat /\ O(x, l) <= S(x)
             /\ x.kind # "EntryData" => O(x, l) < S(x) /\ K(x, l) # "EntryData"
        /\ \A l, k \in 1 .. N(x) : K(x, l) = K(x, k) => l = k
  BY PiecesFill DEF Fills
<1>5. \A x \in Written(e) : x.kind = "EntryData" =>
        \A l \in 1 .. N(x) : K(x, l) = "EntryData"
  <2> SUFFICES ASSUME NEW x \in Written(e), x.kind = "EntryData"
               PROVE  \A l \in 1 .. N(x) : K(x, l) = "EntryData"
    OBVIOUS
  <2>1. PICK l \in 1 .. Len(e) : x = Chunk("EntryData", l)
    BY <1>1, WrittenIs DEF Chunk, Eocd
  <2> QED
    BY <2>1, PiecesOf DEF Piece
<1>6. \A x \in Written(e) : f[R(x)] = ChunkStart(a, x) /\ f[R(x) + 1] = f[R(x)] + S(x)
                             /\ f[R(x)] \in Nat /\ f[R(x) + 1] \in Nat
  <2> SUFFICES ASSUME NEW x \in Written(e)
               PROVE  /\ f[R(x)] = ChunkStart(a, x) /\ f[R(x) + 1] = f[R(x)] + S(x)
                      /\ f[R(x)] \in Nat /\ f[R(x) + 1] \in Nat
    OBVIOUS
  <2> HIDE DEF f, g, m, R
  <2>1. g[R(x)] = x /\ R(x) \in 1 .. m + 1
    BY <1>3
  <2>2. R(x) \in 1 .. m + 1 + 1 /\ R(x) + 1 \in 1 .. m + 1 + 1
    BY <1>2, <2>1
  <2> QED
    BY <1>2, <2>1, <2>2
<1>7. K(b, i) = K(c, j) /\ f[R(b)] + O(b, i) = f[R(c)] + O(c, j)
  BY <1>6 DEF PieceAt
<1>8. CASE b = c
  BY <1>4, <1>7, <1>8
<1>9. ASSUME NEW x \in Written(e), NEW y \in Written(e), R(x) < R(y),
             NEW k \in 1 .. N(x), NEW l \in 1 .. N(y), K(x, k) = K(y, l)
      PROVE  f[R(x)] + O(x, k) # f[R(y)] + O(y, l)
  <2> HIDE DEF f, g, R, S, K, O, N, m
  <2>1. \A p, q \in 1 .. m + 1 : p <= q => f[p] <= f[q]
    <3>1. \A p \in 1 .. m + 1 : f[p] <= f[p + 1]
      <4> SUFFICES ASSUME NEW p \in 1 .. m + 1
                   PROVE  f[p] <= f[p + 1]
        OBVIOUS
      <4>1. f[p + 1] = f[p] + S(g[p]) /\ S(g[p]) \in Nat /\ f[p] \in Nat
        BY <1>2, <1>4 DEF S
      <4> QED
        BY <4>1
    <3> DEFINE w == m + 1
    <3>2. w \in Nat /\ f \in [1 .. w + 1 -> Nat] /\ \A p \in 1 .. w : f[p] <= f[p + 1]
      BY <1>2, <3>1
    <3>3. \A p \in 1 .. w : p \in 1 .. w + 1
      BY <3>2
    <3> HIDE DEF w
    <3>4. \A p, q \in 1 .. w + 1 : p <= q => f[p] <= f[q]
      BY <3>2, Monotone
    <3> QED
      BY <3>3, <3>4 DEF w
  <2>2. /\ R(x) \in 1 .. m + 1 /\ R(y) \in 1 .. m + 1
        /\ O(x, k) \in Nat /\ O(x, k) <= S(x) /\ S(x) \in Nat
        /\ O(y, l) \in Nat
        /\ f[R(x)] \in Nat /\ f[R(y)] \in Nat
        /\ f[R(x) + 1] = f[R(x)] + S(x)
        /\ R(x) + 1 \in 1 .. m + 1
    <3>1. R(x) \in 1 .. m + 1 /\ R(y) \in 1 .. m + 1
      BY <1>3
    <3>2. R(x) + 1 \in 1 .. m + 1
      <4> DEFINE p == R(x)
                 q == R(y)
      <4>1. p \in 1 .. m + 1 /\ q \in 1 .. m + 1 /\ p < q
        BY <1>9, <3>1
      <4> HIDE DEF p, q
      <4>2. p + 1 \in 1 .. m + 1
        BY <1>2, <4>1
      <4> QED
        BY <4>2 DEF p
    <3> QED
      BY <1>4, <1>6, <1>9, <3>1, <3>2
  <2>3. CASE x.kind # "EntryData"
    <3>1. O(x, k) < S(x)
      BY <1>4, <2>3
    <3>2. f[R(x) + 1] <= f[R(y)]
      BY <1>9, <2>1, <2>2
    <3> DEFINE r == f[R(x)]
               s == S(x)
               u == O(x, k)
               w == O(y, l)
               z == f[R(y)]
    <3>3. /\ r + s <= z /\ r \in Nat /\ s \in Nat /\ z \in Nat
          /\ u \in Nat /\ u < s /\ w \in Nat
      BY <2>2, <3>1, <3>2
    <3> HIDE DEF r, s, u, w, z
    <3>4. r + u # z + w
      BY <3>3
    <3> QED
      BY <3>4 DEF r, u, w, z
  <2>4. CASE x.kind = "EntryData"
    <3>1. y.kind = "EntryData"
      BY <1>4, <1>5, <1>9, <2>4
    <3>2. PICK p \in 1 .. Len(e), q \in 1 .. Len(e) :
            x = Chunk("EntryData", p) /\ y = Chunk("EntryData", q)
      BY <1>1, <2>4, <3>1, WrittenIs DEF Chunk, Eocd
    <3> DEFINE v == Chunk("DataDescriptor", p)
    <3>3. v \in Written(e) /\ v.kind = "DataDescriptor"
      BY <1>1, WrittenIs DEF Chunk, EntryKinds
    <3>4. R(v) = R(x) + 1 /\ R(x) + 2 <= R(y) /\ R(x) \in Int
      <4>1. R(x) = 3 * p - 1 /\ R(y) = 3 * q - 1 /\ R(v) = 3 * p
        BY <3>2, RankOf DEF R
      <4>2. p \in Int /\ q \in Int
        BY <1>1
      <4> QED
        BY <1>9, <4>1, <4>2
    <3> HIDE DEF v
    <3>5. S(v) > 0 /\ S(v) \in Nat
      <4>1. S(v) = DataDescriptor64Size
        BY SizesOf DEF S, v
      <4> QED
        BY <4>1, StructSizesAssumption
    <3>6. f[R(v) + 1] = f[R(v)] + S(v) /\ f[R(v)] \in Nat
      BY <1>6, <3>3
    <3>7. R(v) + 1 \in 1 .. m + 1 /\ R(v) + 1 <= R(y)
      <4>1. R(v) + 1 = R(x) + 2 /\ R(x) \in 1 .. m + 1 /\ R(y) \in 1 .. m + 1
        BY <2>2, <3>4
      <4>2. R(x) + 2 \in 1 .. m + 1
        <5> DEFINE s == R(x)
                   t == R(y)
        <5>1. s \in 1 .. m + 1 /\ t \in 1 .. m + 1 /\ s + 2 <= t
          BY <3>4, <4>1
        <5> HIDE DEF s, t
        <5>2. s + 2 \in 1 .. m + 1
          BY <1>2, <5>1
        <5> QED
          BY <5>2 DEF s
      <4> QED
        BY <3>4, <4>1, <4>2
    <3>8. f[R(v) + 1] <= f[R(y)]
      BY <2>1, <2>2, <3>7
    <3>9. f[R(v)] = f[R(x)] + S(x)
      BY <2>2, <3>4
    <3> DEFINE r == f[R(x)]
               s == S(x)
               t == S(v)
               u == O(x, k)
               w == O(y, l)
               z == f[R(y)]
    <3>10. /\ r + s + t <= z /\ r \in Nat /\ s \in Nat /\ t \in Nat /\ z \in Nat
           /\ u \in Nat /\ u <= s /\ t > 0 /\ w \in Nat
      BY <2>2, <3>5, <3>6, <3>8, <3>9
    <3> HIDE DEF r, s, t, u, w, z
    <3>11. r + u # z + w
      BY <3>10
    <3> QED
      BY <3>11 DEF r, u, w, z
  <2> QED
    BY <2>3, <2>4
<1>10. CASE b # c
  <2>1. R(b) # R(c)
    BY <1>1, <1>10, RankInjective
  <2>2. R(b) < R(c) \/ R(c) < R(b)
    <3>1. R(b) \in Int /\ R(c) \in Int
      BY <1>2, <1>3
    <3> QED
      BY <2>1, <3>1
  <2> HIDE DEF f, g, R, S, K, O, N, m
  <2>3. CASE R(b) < R(c)
    BY <1>7, <1>9, <2>3 DEF N
  <2>4. CASE R(c) < R(b)
    BY <1>7, <1>9, <2>4 DEF N
  <2> QED
    BY <2>2, <2>3, <2>4
<1> QED
  BY <1>8, <1>10

-----------------------------------------------------------------------------
(* Reading it.                                                             *)

(* A piece is found at a place, and what is read there is what is in it. *)
Lies(image, kind, at, fields) ==
  Found(image, kind, at) /\ ReadAt(image, kind, at) = fields

LEMMA PieceLies ==
  ASSUME NEW a, NEW d, WellLaidOut(a), HonestSizes(a),
         NEW c \in Written(a.entries), NEW j \in 1 .. Len(Pieces(a, d, c))
  PROVE  Lies(Image(a, d), Pieces(a, d, c)[j].kind,
              ChunkStart(a, c) + PieceOffsets(Pieces(a, d, c))[j],
              Pieces(a, d, c)[j].fields)
<1> DEFINE x == PieceAt(a, d, c, j)
           placed == Image(a, d).placed
<1>1. x \in placed
  BY ImageIs
<1>2. \A y \in placed : y.kind = x.kind /\ y.at = x.at => y = x
  <2> SUFFICES ASSUME NEW y \in placed, y.kind = x.kind, y.at = x.at
               PROVE  y = x
    OBVIOUS
  <2>1. PICK b \in Written(a.entries) : \E i \in 1 .. Len(Pieces(a, d, b)) :
          y = PieceAt(a, d, b, i)
    BY ImageIs
  <2> QED
    BY <2>1, PiecesApart
<1>3. /\ x.kind = Pieces(a, d, c)[j].kind
      /\ x.at = ChunkStart(a, c) + PieceOffsets(Pieces(a, d, c))[j]
      /\ x.fields = Pieces(a, d, c)[j].fields
  BY DEF PieceAt
<1> DEFINE y == CHOOSE y \in placed : y.kind = x.kind /\ y.at = x.at
<1> HIDE DEF x, placed
<1>4. y = x
  BY <1>1, <1>2
<1>5. Found(Image(a, d), x.kind, x.at)
  BY <1>1 DEF Found, placed
<1>6. ReadAt(Image(a, d), x.kind, x.at) = x.fields
  BY <1>4 DEF ReadAt, placed
<1> QED
  BY <1>3, <1>5, <1>6 DEF Lies

LEMMA LiesInOne ==
  ASSUME NEW a, NEW d, WellLaidOut(a), HonestSizes(a),
         NEW c \in Written(a.entries), NEW p, Pieces(a, d, c) = << p >>,
         p.size \in Nat, NEW at \in Nat, ChunkStart(a, c) = at
  PROVE  Lies(Image(a, d), p.kind, at, p.fields)
<1> DEFINE s == << p >>
           o == PieceOffsets(s)
<1>1. Len(s) = 1 /\ s[1] = p /\ o[1] = 0
  BY OffsetsOfOne
<1> HIDE DEF s, o
<1>2. \A j \in 1 .. 1 : Lies(Image(a, d), s[j].kind, at + o[j], s[j].fields)
  BY <1>1, PieceLies DEF s, o
<1>3. at + o[1] = at
  BY <1>1
<1> QED
  BY <1>1, <1>2, <1>3

LEMMA LiesInThree ==
  ASSUME NEW a, NEW d, WellLaidOut(a), HonestSizes(a),
         NEW c \in Written(a.entries), NEW p, NEW q, NEW r,
         Pieces(a, d, c) = << p, q, r >>,
         p.size \in Nat, q.size \in Nat, r.size \in Nat,
         NEW at \in Nat, ChunkStart(a, c) = at
  PROVE  /\ Lies(Image(a, d), p.kind, at, p.fields)
         /\ Lies(Image(a, d), q.kind, at + p.size, q.fields)
         /\ Lies(Image(a, d), r.kind, at + p.size + q.size, r.fields)
<1> DEFINE s == << p, q, r >>
           o == PieceOffsets(s)
<1>1. Len(s) = 3 /\ s[1] = p /\ s[2] = q /\ s[3] = r
  OBVIOUS
<1>2. o[1] = 0 /\ o[2] = p.size /\ o[3] = p.size + q.size
  BY OffsetsOfThree
<1> HIDE DEF s, o
<1>3. \A j \in 1 .. 3 : Lies(Image(a, d), s[j].kind, at + o[j], s[j].fields)
  BY <1>1, PieceLies DEF s, o
<1>4. /\ at + o[1] = at /\ at + o[2] = at + p.size
      /\ at + o[3] = at + p.size + q.size
  BY <1>2
<1>5. /\ Lies(Image(a, d), s[1].kind, at + o[1], s[1].fields)
      /\ Lies(Image(a, d), s[2].kind, at + o[2], s[2].fields)
      /\ Lies(Image(a, d), s[3].kind, at + o[3], s[3].fields)
  BY <1>3
<1> QED
  BY <1>1, <1>4, <1>5

LEMMA StartsOf ==
  ASSUME NEW a, NEW i
  PROVE  /\ ChunkStart(a, Chunk("LocalHeader", i)) = a.entries[i].offset
         /\ ChunkStart(a, Chunk("EntryData", i)) = DataStart(a, i)
         /\ ChunkStart(a, Chunk("DataDescriptor", i))
              = DataStart(a, i) + a.entries[i].size
         /\ ChunkStart(a, Chunk("CDFileHeader", i)) = a.cd_pos[i]
         /\ ChunkStart(a, Eocd) = a.eocd_offset
  BY DEF ChunkStart, Chunk, Eocd

LEMMA EntryTypes ==
  ASSUME NEW a, WellLaidOut(a), HonestSizes(a), NEW i \in 1 .. Len(a.entries)
  PROVE  /\ a.entries \in Seq(Entry)
         /\ a.entries[i].name_len \in Nat
         /\ a.entries[i].size \in Nat
         /\ a.entries[i].actual = a.entries[i].size
         /\ a.entries[i].offset \in Nat
         /\ a.entries[i].crc32 \in Crc
         /\ a.cd_pos[i] \in Nat
         /\ DataStart(a, i) \in Nat
         /\ \A k \in EntryKinds : Chunk(k, i) \in Written(a.entries)
<1>1. a.entries \in Seq(Entry)
  BY DEF WellLaidOut
<1>2. a.entries[i] \in Entry
  BY <1>1
<1>3. a.cd_pos[i] \in Nat
  <2>1. i \in 1 .. Len(a.entries) + 1 /\ a.cd_pos \in [1 .. Len(a.entries) + 1 -> Nat]
    BY <1>1 DEF WellLaidOut
  <2> QED
    BY <2>1
<1>4. /\ a.entries[i].name_len \in Nat /\ a.entries[i].size \in Nat
      /\ a.entries[i].offset \in Nat /\ a.entries[i].crc32 \in Crc
      /\ a.entries[i].actual = a.entries[i].size
  BY <1>2 DEF Entry, HonestSizes
<1>5. DataStart(a, i) \in Nat
  <2> DEFINE o == a.entries[i].offset
             l == a.entries[i].name_len
  <2>1. o \in Nat /\ l \in Nat
    BY <1>4
  <2>2. DataStart(a, i) = o + LocalFileHeaderSize + l + Zip64ExtraFieldSize
    BY DEF DataStart
  <2> HIDE DEF o, l
  <2> QED
    BY <2>1, <2>2, StructSizesAssumption
<1>6. \A k \in EntryKinds : Chunk(k, i) \in Written(a.entries)
  BY <1>1, WrittenIs
<1> QED
  BY <1>1, <1>3, <1>4, <1>5, <1>6

(* What is found of an entry: where its local header, and where its header *)
(* in the directory start.                                                 *)
LEMMA LocalLies ==
  ASSUME NEW a, NEW d, WellLaidOut(a), HonestSizes(a),
         NEW i \in 1 .. Len(a.entries)
  PROVE  LET image == Image(a, d)
             at    == a.entries[i].offset
         IN
         /\ Lies(image, "LocalHeader", at, LocalFileHeader(a, d, i))
         /\ Lies(image, "Name", at + LocalFileHeaderSize, d[i].name)
         /\ Lies(image, "EntryData", DataStart(a, i), i)
         /\ Lies(image, "DataDescriptor", DataStart(a, i) + a.entries[i].size,
                 DataDescriptor64(a, i))
<1>1. /\ a.entries[i].name_len \in Nat /\ a.entries[i].size \in Nat
      /\ a.entries[i].actual = a.entries[i].size
      /\ a.entries[i].offset \in Nat /\ DataStart(a, i) \in Nat
      /\ DataStart(a, i) + a.entries[i].size \in Nat
  BY EntryTypes
<1>2. /\ Chunk("LocalHeader", i) \in Written(a.entries)
      /\ Chunk("EntryData", i) \in Written(a.entries)
      /\ Chunk("DataDescriptor", i) \in Written(a.entries)
  BY EntryTypes DEF EntryKinds
<1> DEFINE p == Piece("LocalHeader", LocalFileHeaderSize, LocalFileHeader(a, d, i))
           q == NamePiece(a, d, i)
           r == ExtraPiece(a, i, 0)
           s == Piece("EntryData", a.entries[i].actual, i)
           t == Piece("DataDescriptor", DataDescriptor64Size, DataDescriptor64(a, i))
<1>3. /\ Pieces(a, d, Chunk("LocalHeader", i)) = << p, q, r >>
      /\ Pieces(a, d, Chunk("EntryData", i)) = << s >>
      /\ Pieces(a, d, Chunk("DataDescriptor", i)) = << t >>
  BY PiecesOf
<1>4. /\ p.kind = "LocalHeader" /\ p.size = LocalFileHeaderSize
      /\ p.fields = LocalFileHeader(a, d, i)
      /\ q.kind = "Name" /\ q.size = a.entries[i].name_len /\ q.fields = d[i].name
      /\ r.size = Zip64ExtraFieldSize
      /\ s.kind = "EntryData" /\ s.size = a.entries[i].actual /\ s.fields = i
      /\ t.kind = "DataDescriptor" /\ t.size = DataDescriptor64Size
      /\ t.fields = DataDescriptor64(a, i)
  BY DEF Piece, NamePiece, ExtraPiece
<1> HIDE DEF p, q, r, s, t
<1>5. /\ p.size \in Nat /\ q.size \in Nat /\ r.size \in Nat
      /\ s.size \in Nat /\ t.size \in Nat
  BY <1>1, <1>4, StructSizesAssumption
<1>6. /\ Lies(Image(a, d), p.kind, a.entries[i].offset, p.fields)
      /\ Lies(Image(a, d), q.kind, a.entries[i].offset + p.size, q.fields)
  BY <1>1, <1>2, <1>3, <1>5, StartsOf, LiesInThree
<1>7. Lies(Image(a, d), s.kind, DataStart(a, i), s.fields)
  BY <1>1, <1>2, <1>3, <1>5, StartsOf, LiesInOne
<1>8. Lies(Image(a, d), t.kind, DataStart(a, i) + a.entries[i].size, t.fields)
  BY <1>1, <1>2, <1>3, <1>5, StartsOf, LiesInOne
<1> QED
  BY <1>4, <1>6, <1>7, <1>8

LEMMA DirectoryLies ==
  ASSUME NEW a, NEW d, WellLaidOut(a), HonestSizes(a),
         NEW i \in 1 .. Len(a.entries)
  PROVE  LET image == Image(a, d)
             e     == a.entries[i]
             at    == a.cd_pos[i]
         IN
         /\ Lies(image, "CDFileHeader", at, CentralDirectoryHeader(a, d, i))
         /\ Lies(image, "Name", at + CentralDirectoryHeaderSize, d[i].name)
         /\ Lies(image, "Zip64ExtraField",
                 at + CentralDirectoryHeaderSize + e.name_len,
                 Zip64ExtraField(e.size, e.size, e.offset))
<1>1. a.entries[i].name_len \in Nat /\ a.cd_pos[i] \in Nat
  BY EntryTypes
<1>2. Chunk("CDFileHeader", i) \in Written(a.entries)
  BY EntryTypes DEF EntryKinds
<1> DEFINE p == Piece("CDFileHeader", CentralDirectoryHeaderSize,
                      CentralDirectoryHeader(a, d, i))
           q == NamePiece(a, d, i)
           r == ExtraPiece(a, i, a.entries[i].size)
<1>3. Pieces(a, d, Chunk("CDFileHeader", i)) = << p, q, r >>
  BY PiecesOf
<1>4. /\ p.kind = "CDFileHeader" /\ p.size = CentralDirectoryHeaderSize
      /\ p.fields = CentralDirectoryHeader(a, d, i)
      /\ q.kind = "Name" /\ q.size = a.entries[i].name_len /\ q.fields = d[i].name
      /\ r.kind = "Zip64ExtraField" /\ r.size = Zip64ExtraFieldSize
      /\ r.fields = Zip64ExtraField(a.entries[i].size, a.entries[i].size,
                                    a.entries[i].offset)
  BY DEF Piece, NamePiece, ExtraPiece
<1> HIDE DEF p, q, r
<1>5. p.size \in Nat /\ q.size \in Nat /\ r.size \in Nat
  BY <1>1, <1>4, StructSizesAssumption
<1>6. /\ Lies(Image(a, d), p.kind, a.cd_pos[i], p.fields)
      /\ Lies(Image(a, d), q.kind, a.cd_pos[i] + p.size, q.fields)
      /\ Lies(Image(a, d), r.kind, a.cd_pos[i] + p.size + q.size, r.fields)
  BY <1>1, <1>2, <1>3, <1>5, StartsOf, LiesInThree
<1> QED
  BY <1>4, <1>6

(* What is found at the end of the file. *)
LEMMA EndLies ==
  ASSUME NEW a, NEW d, WellLaidOut(a), HonestSizes(a)
  PROVE  LET image == Image(a, d)
             at    == a.eocd_offset
         IN
         /\ Lies(image, "Zip64EocdRecord", at, Zip64EocdRecord(a))
         /\ Lies(image, "Zip64EocdLocator", at + Zip64EocdRecordSize,
                 Zip64EocdLocator(a))
         /\ Lies(image, "EndOfCentralDirectory",
                 at + Zip64EocdRecordSize + Zip64EocdLocatorSize,
                 EndOfCentralDirectory)
         /\ at \in Nat
         /\ image.end = at + EocdSize
<1>1. a.entries \in Seq(Entry) /\ a.eocd_offset \in Nat
  BY DEF WellLaidOut
<1>2. Eocd \in Written(a.entries)
  BY <1>1, WrittenIs
<1> DEFINE p == Piece("Zip64EocdRecord", Zip64EocdRecordSize, Zip64EocdRecord(a))
           q == Piece("Zip64EocdLocator", Zip64EocdLocatorSize, Zip64EocdLocator(a))
           r == Piece("EndOfCentralDirectory", EndOfCentralDirectorySize,
                      EndOfCentralDirectory)
<1>3. Pieces(a, d, Eocd) = << p, q, r >>
  BY PiecesOf
<1>4. /\ p.kind = "Zip64EocdRecord" /\ p.size = Zip64EocdRecordSize
      /\ p.fields = Zip64EocdRecord(a)
      /\ q.kind = "Zip64EocdLocator" /\ q.size = Zip64EocdLocatorSize
      /\ q.fields = Zip64EocdLocator(a)
      /\ r.kind = "EndOfCentralDirectory" /\ r.size = EndOfCentralDirectorySize
      /\ r.fields = EndOfCentralDirectory
  BY DEF Piece
<1> HIDE DEF p, q, r
<1>5. p.size \in Nat /\ q.size \in Nat /\ r.size \in Nat
  BY <1>4, StructSizesAssumption
<1>6. /\ Lies(Image(a, d), p.kind, a.eocd_offset, p.fields)
      /\ Lies(Image(a, d), q.kind, a.eocd_offset + p.size, q.fields)
      /\ Lies(Image(a, d), r.kind, a.eocd_offset + p.size + q.size, r.fields)
  BY <1>1, <1>2, <1>3, <1>5, StartsOf, LiesInThree
<1>7. Image(a, d).end = a.eocd_offset + EocdSize
  <2>1. /\ NextChunk(a.entries, Eocd) = Finished
        /\ ChunkStart(a, Finished) = a.total_size
    BY DEF NextChunk, ChunkStart, Chunk, Eocd, Finished
  <2>2. a.total_size = ChunkStart(a, Eocd) + ChunkSize(a.entries, Eocd)
    BY <1>2, <2>1 DEF WellLaidOut, Written
  <2> QED
    BY <2>2, ImageIs, StartsOf, SizesOf
<1> QED
  BY <1>1, <1>4, <1>6, <1>7

-----------------------------------------------------------------------------
(* Unzipping what is laid out well.                                        *)

(* What the entries of an archive and their details say about it.          *)
ExpectedOf(a, d, i) ==
  [name     |-> d[i].name,
   data     |-> i,
   size     |-> a.entries[i].size,
   crc32    |-> GetCrc(a, i),
   mode     |-> d[i].external_attributes.high,
   datetime |-> d[i].datetime]

LEMMA EndIsFound ==
  ASSUME NEW a, NEW d, WellLaidOut(a), HonestSizes(a)
  PROVE  EndFound(Image(a, d)) /\ EndRecord(Image(a, d)) = Zip64EocdRecord(a)
<1> DEFINE image      == Image(a, d)
           at         == a.eocd_offset
           locator_at == image.end - EndOfCentralDirectorySize - Zip64EocdLocatorSize
           eocd_at    == image.end - EndOfCentralDirectorySize
<1>1. /\ Lies(image, "Zip64EocdRecord", at, Zip64EocdRecord(a))
      /\ Lies(image, "Zip64EocdLocator", at + Zip64EocdRecordSize, Zip64EocdLocator(a))
      /\ Lies(image, "EndOfCentralDirectory",
              at + Zip64EocdRecordSize + Zip64EocdLocatorSize, EndOfCentralDirectory)
      /\ at \in Nat
      /\ image.end = at + EocdSize
  BY EndLies
<1> HIDE DEF image, at
<1>2. /\ locator_at = at + Zip64EocdRecordSize
      /\ eocd_at = at + Zip64EocdRecordSize + Zip64EocdLocatorSize
  BY <1>1, StructSizesAssumption DEF EocdSize
<1>3. /\ Zip64EocdLocator(a).zip64_eocd_offset = at
      /\ EndOfCentralDirectory.cd_offset = U32Max
      /\ Zip64EocdRecord(a).size_of_zip64_eocd = Zip64EocdRecordSize - 12
  BY DEF Zip64EocdLocator, EndOfCentralDirectory, Zip64EocdRecord, at
<1>4. at + 12 + (Zip64EocdRecordSize - 12) = at + Zip64EocdRecordSize
  BY <1>1, StructSizesAssumption
<1>5. EndFound(image)
  BY <1>1, <1>2, <1>3, <1>4 DEF EndFound, Lies
<1>6. EndRecord(image) = Zip64EocdRecord(a)
  BY <1>1, <1>2, <1>3 DEF EndRecord, Lies
<1> QED
  BY <1>5, <1>6 DEF image

(* From header to header through the directory. *)
LEMMA HeadersFollow ==
  ASSUME NEW a, NEW d, WellLaidOut(a), HonestSizes(a), NEW i \in 1 .. Len(a.entries)
  PROVE  LET h == CentralDirectoryHeader(a, d, i) IN
         a.cd_pos[i + 1]
           = a.cd_pos[i] + CentralDirectoryHeaderSize + h.file_name_len
               + h.extra_field_len + h.file_comment_length
<1> DEFINE e == a.entries
           n == Len(e)
           c == Chunk("CDFileHeader", i)
           l == e[i].name_len
           p == a.cd_pos[i]
<1>1. /\ e \in Seq(Entry) /\ l \in Nat /\ p \in Nat
      /\ c \in Written(e)
  BY EntryTypes DEF EntryKinds
<1>2. n \in Nat
  BY <1>1
<1>3. ChunkStart(a, NextChunk(e, c)) = ChunkStart(a, c) + ChunkSize(e, c)
  BY <1>1 DEF WellLaidOut, Written
<1>4. NextChunk(e, c) = IF i + 1 <= n THEN Chunk("CDFileHeader", i + 1) ELSE Eocd
  BY DEF NextChunk, Chunk
<1>5. ChunkStart(a, NextChunk(e, c)) = a.cd_pos[i + 1]
  <2>1. CASE i + 1 <= n
    BY <1>4, <2>1, StartsOf
  <2>2. CASE ~(i + 1 <= n)
    <3>1. i = n
      BY <1>2, <2>2
    <3>2. a.cd_pos[n + 1] = a.eocd_offset
      BY DEF WellLaidOut
    <3> QED
      BY <1>4, <2>2, <3>1, <3>2, StartsOf
  <2> QED
    BY <2>1, <2>2
<1>6. ChunkStart(a, c) = p /\ ChunkSize(e, c)
        = CentralDirectoryHeaderSize + l + Zip64ExtraFieldSize
  BY StartsOf, SizesOf
<1> DEFINE h == CentralDirectoryHeader(a, d, i)
<1>7. /\ h.file_name_len = l /\ h.extra_field_len = Zip64ExtraFieldSize
      /\ h.file_comment_length = 0
  BY DEF CentralDirectoryHeader
<1> DEFINE q == a.cd_pos[i + 1]
<1> HIDE DEF e, n, c, l, p, h, q
<1>8. q = p + CentralDirectoryHeaderSize + h.file_name_len
            + h.extra_field_len + h.file_comment_length
  <2>1. q = p + (CentralDirectoryHeaderSize + l + Zip64ExtraFieldSize)
    BY <1>3, <1>5, <1>6 DEF q
  <2>2. q = p + CentralDirectoryHeaderSize + l + Zip64ExtraFieldSize + 0
    BY <1>1, <2>1, StructSizesAssumption
  <2> QED
    BY <1>7, <2>2
<1> QED
  BY <1>8 DEF p, h, q

LEMMA HeadersAt ==
  ASSUME NEW a, NEW d, WellLaidOut(a), HonestSizes(a)
  PROVE  \A i \in 1 .. Len(a.entries) + 1 : HeaderAt(Image(a, d))[i] = a.cd_pos[i]
<1> DEFINE image == Image(a, d)
           n == Len(a.entries)
           f == HeaderAt(image)
           g == a.cd_pos
           H(x) == ReadAt(image, "CDFileHeader", x)
           After(x) == IF ~Found(image, "CDFileHeader", x) THEN -1
                       ELSE x + CentralDirectoryHeaderSize + H(x).file_name_len
                              + H(x).extra_field_len + H(x).file_comment_length
<1>1. n \in Nat /\ g \in [1 .. n + 1 -> Nat] /\ g[1] = a.cd_offset
  BY DEF WellLaidOut
<1>2. /\ EndRecord(image) = Zip64EocdRecord(a)
      /\ EndRecord(image).total_cd_entry_count = n
      /\ EndRecord(image).cd_offset = a.cd_offset
  BY EndIsFound DEF Zip64EocdRecord
<1>3. \A i \in 1 .. n : g[i + 1] = After(g[i])
  <2> SUFFICES ASSUME NEW i \in 1 .. n
               PROVE  g[i + 1] = After(g[i])
    OBVIOUS
  <2>1. /\ Found(image, "CDFileHeader", g[i])
        /\ H(g[i]) = CentralDirectoryHeader(a, d, i)
    BY DirectoryLies DEF Lies
  <2> HIDE DEF image, H
  <2> QED
    BY <2>1, HeadersFollow
<1> HIDE DEF n, After
<1>4. g = [i \in 1 .. n + 1 |-> IF i = 1 THEN a.cd_offset ELSE After(g[i - 1])]
  <2> SUFFICES ASSUME NEW i \in 1 .. n + 1
               PROVE  g[i] = IF i = 1 THEN a.cd_offset ELSE After(g[i - 1])
    BY <1>1
  <2>1. CASE i # 1
    <3>1. i - 1 \in 1 .. n /\ (i - 1) + 1 = i
      BY <1>1, <2>1
    <3> QED
      BY <1>3, <2>1, <3>1
  <2> QED
    BY <1>1, <2>1
<1>5. f = [i \in 1 .. n + 1 |-> IF i = 1 THEN a.cd_offset ELSE After(f[i - 1])]
  <2> HIDE DEF image, f, g
  <2> DEFINE r == EndRecord(image)
             Step(h) ==
               [i \in 1 .. r.total_cd_entry_count + 1 |->
                  IF i = 1 THEN r.cd_offset ELSE After(h[i - 1])]
  <2>1. \A h : Step(h) = [i \in 1 .. n + 1 |-> IF i = 1 THEN a.cd_offset
                                                       ELSE After(h[i - 1])]
    BY <1>2
  <2>2. f = CHOOSE h : h = Step(h)
    BY DEF f, HeaderAt, After
  <2>3. g = Step(g)
    BY <1>4, <2>1
  <2> HIDE DEF Step
  <2>4. f = Step(f)
    BY <2>2, <2>3
  <2> QED
    BY <2>1, <2>4
<1> HIDE DEF f, g
<1>6. f[1] = g[1] /\ \A i \in 1 .. n : f[i + 1] = After(f[i])
  <2>1. f[1] = g[1]
    BY <1>1, <1>5
  <2>2. ASSUME NEW i \in 1 .. n
        PROVE  f[i + 1] = After(f[i])
    <3>1. i + 1 \in 1 .. n + 1 /\ i + 1 # 1 /\ (i + 1) - 1 = i
      BY <1>1
    <3> QED
      BY <1>5, <3>1
  <2> QED
    BY <2>1, <2>2
<1> DEFINE T == {i \in 1 .. n + 1 : f[i] = g[i]}
<1>7. T = 1 .. n + 1
  <2>1. T \in SUBSET (1 .. n + 1)
    OBVIOUS
  <2>2. 1 \in T
    BY <1>1, <1>6
  <2>3. ASSUME NEW i \in 1 .. n, i \in T
        PROVE  i + 1 \in T
    <3>1. i + 1 \in 1 .. n + 1
      BY <1>1
    <3> QED
      BY <1>3, <1>6, <2>3, <3>1
  <2> HIDE DEF T
  <2>4. \A i \in 1 .. n : (\A j \in 1 .. i : j \in T) => i + 1 \in T
    <3>1. \A i \in 1 .. n : i \in 1 .. i
      BY <1>1
    <3> QED
      BY <2>3, <3>1
  <2> QED
    BY <1>1, <2>1, <2>2, <2>4, StepByStep
<1> QED
  BY <1>7 DEF n, f, g, image

(* The flags of the two headers, as they are read. *)
LEMMA FlagsRead ==
  /\ HasBit(GpBitFlag(TRUE, TRUE), 3) /\ HasBit(GpBitFlag(TRUE, TRUE), 11)
  /\ ~HasBit(GpBitFlag(FALSE, TRUE), 3) /\ HasBit(GpBitFlag(FALSE, TRUE), 11)
<1>1. WireBit(11) = 3 /\ WireBit(3) = 11
  BY DEF WireBit
<1> QED
  BY <1>1 DEF HasBit, GpBitFlag

LEMMA MadeByRead == VersionMadeBy \div 256 = Unix
  BY DEF VersionMadeBy, Zip64Version, Unix

LEMMA LocalPartIsFound ==
  ASSUME NEW a, NEW d, WellLaidOut(a), HonestSizes(a), NEW i \in 1 .. Len(a.entries)
  PROVE  LocalPartUnzips(Image(a, d), a.entries[i].offset, ExpectedOf(a, d, i))
<1> DEFINE image == Image(a, d)
           at    == a.entries[i].offset
           e     == ExpectedOf(a, d, i)
           h     == LocalFileHeader(a, d, i)
           x     == DataDescriptor64(a, i)
<1>1. /\ Lies(image, "LocalHeader", at, h)
      /\ Lies(image, "Name", at + LocalFileHeaderSize, d[i].name)
      /\ Lies(image, "EntryData", DataStart(a, i), i)
      /\ Lies(image, "DataDescriptor", DataStart(a, i) + a.entries[i].size, x)
  BY LocalLies
<1>2. /\ h.flags = GpBitFlag(TRUE, TRUE) /\ h.last_mod_datetime = d[i].datetime
      /\ h.file_name_len = a.entries[i].name_len
      /\ h.extra_field_len = Zip64ExtraFieldSize
  BY DEF LocalFileHeader
<1>3. at + LocalFileHeaderSize + h.file_name_len + h.extra_field_len = DataStart(a, i)
  BY <1>2 DEF DataStart
<1>4. /\ x.crc32 = GetCrc(a, i) /\ x.compressed_size = a.entries[i].size
      /\ x.uncompressed_size = a.entries[i].size
  BY DEF DataDescriptor64
<1>5. /\ e.name = d[i].name /\ e.data = i /\ e.size = a.entries[i].size
      /\ e.crc32 = GetCrc(a, i) /\ e.datetime = d[i].datetime
  BY DEF ExpectedOf
<1> HIDE DEF image, at, e, h, x
<1>6. LocalPartUnzips(image, at, e)
  BY <1>1, <1>2, <1>3, <1>4, <1>5, FlagsRead DEF LocalPartUnzips, Lies
<1> QED
  BY <1>6 DEF image, at, e

LEMMA CardinalityTo ==
  ASSUME NEW n \in Nat
  PROVE  Cardinality(1 .. n) = n
<1>1. Cardinality(1 .. n) = IF 1 > n THEN 0 ELSE n - 1 + 1
  BY FS_Interval
<1> QED
  BY <1>1

(* The Zip64 values that stand for the three fields of a central header. *)
LEMMA ValuesRead ==
  ASSUME NEW extra
  PROVE  /\ Zip64Value(U32Max, << >>, extra) = extra.values[1]
         /\ Zip64Value(U32Max, << U32Max >>, extra) = extra.values[2]
         /\ Zip64Value(U32Max, << U32Max, U32Max >>, extra) = extra.values[3]
<1> DEFINE C(before) == Cardinality({k \in DOMAIN before : before[k] = U32Max})
<1>1. C(<< >>) = 0
  <2>1. {k \in DOMAIN << >> : << >>[k] = U32Max} = {}
    OBVIOUS
  <2> QED
    BY <2>1, FS_EmptySet
<1>2. C(<< U32Max >>) = 1
  <2>1. {k \in DOMAIN << U32Max >> : << U32Max >>[k] = U32Max} = 1 .. 1
    OBVIOUS
  <2>2. Cardinality(1 .. 1) = 1
    BY CardinalityTo
  <2> QED
    BY <2>1, <2>2
<1>3. C(<< U32Max, U32Max >>) = 2
  <2> DEFINE s == << U32Max, U32Max >>
  <2>1. DOMAIN s = 1 .. 2 /\ s[1] = U32Max /\ s[2] = U32Max
    OBVIOUS
  <2>2. \A k \in 1 .. 2 : k = 1 \/ k = 2
    OBVIOUS
  <2> HIDE DEF s
  <2>3. {k \in DOMAIN s : s[k] = U32Max} = 1 .. 2
    BY <2>1, <2>2
  <2>4. Cardinality(1 .. 2) = 2
    BY CardinalityTo
  <2> QED
    BY <2>3, <2>4 DEF s
<1> HIDE DEF C
<1>4. \A before : Zip64Value(U32Max, before, extra) = extra.values[1 + C(before)]
  BY DEF Zip64Value, C
<1> QED
  BY <1>1, <1>2, <1>3, <1>4

LEMMA EntryIsFound ==
  ASSUME NEW a, NEW d, WellLaidOut(a), HonestSizes(a), NEW i \in 1 .. Len(a.entries),
         Zip64ExtraFieldSize = 28
  PROVE  EntryUnzips(Image(a, d), a.cd_pos[i], ExpectedOf(a, d, i))
<1> DEFINE image == Image(a, d)
           at    == a.cd_pos[i]
           e     == ExpectedOf(a, d, i)
           h     == CentralDirectoryHeader(a, d, i)
           x     == Zip64ExtraField(a.entries[i].size, a.entries[i].size,
                                    a.entries[i].offset)
<1>1. /\ Lies(image, "CDFileHeader", at, h)
      /\ Lies(image, "Name", at + CentralDirectoryHeaderSize, d[i].name)
      /\ Lies(image, "Zip64ExtraField",
              at + CentralDirectoryHeaderSize + a.entries[i].name_len, x)
  BY DirectoryLies
<1>2. /\ h.version_made_by = VersionMadeBy /\ h.flags = GpBitFlag(FALSE, TRUE)
      /\ h.last_mod_datetime = d[i].datetime /\ h.crc32 = GetCrc(a, i)
      /\ h.compressed_size = U32Max /\ h.uncompressed_size = U32Max
      /\ h.file_name_len = a.entries[i].name_len
      /\ h.external_attributes = d[i].external_attributes
      /\ h.local_header_offset = U32Max
  BY DEF CentralDirectoryHeader
<1>3. /\ x.size = Zip64ExtraFieldSize - 4
      /\ Len(x.values) = 3
      /\ x.values[1] = a.entries[i].size /\ x.values[2] = a.entries[i].size
      /\ x.values[3] = a.entries[i].offset
  BY DEF Zip64ExtraField
<1>4. x.size = 8 * Len(x.values)
  BY <1>3
<1>5. /\ e.name = d[i].name /\ e.size = a.entries[i].size
      /\ e.crc32 = GetCrc(a, i) /\ e.datetime = d[i].datetime
      /\ e.mode = d[i].external_attributes.high
  BY DEF ExpectedOf
<1>6. LocalPartUnzips(image, a.entries[i].offset, e)
  BY LocalPartIsFound
<1> HIDE DEF image, at, e, h, x
<1>7. /\ Zip64Value(h.uncompressed_size, << >>, x) = e.size
      /\ Zip64Value(h.compressed_size, << h.uncompressed_size >>, x) = e.size
      /\ Zip64Value(h.local_header_offset,
                    << h.uncompressed_size, h.compressed_size >>, x)
           = a.entries[i].offset
  BY <1>2, <1>3, <1>5, ValuesRead
<1>8. EntryUnzips(image, at, e)
  BY <1>1, <1>2, <1>4, <1>5, <1>6, <1>7, FlagsRead, MadeByRead DEF EntryUnzips, Lies
<1> QED
  BY <1>8 DEF image, at, e

(* Whatever archive is laid out well, with entries of the size they say    *)
(* and a directory of the size written down for it, unzips to what was     *)
(* said about its entries.  28 is the size of the extra field in bytes: a  *)
(* 2-byte tag, a 2-byte length and three 8-byte values.                    *)
THEOREM WellLaidOutUnzips ==
  ASSUME NEW a, NEW d, WellLaidOut(a), HonestSizes(a),
         a.eocd_offset = a.cd_offset + a.cd_size,
         Zip64ExtraFieldSize = 28,
         NEW expected, Len(expected) = Len(a.entries),
         \A i \in 1 .. Len(a.entries) : expected[i] = ExpectedOf(a, d, i)
  PROVE  Unzips(Image(a, d), expected)
<1> DEFINE n == Len(a.entries)
           image == Image(a, d)
<1>1. /\ EndFound(image)
      /\ EndRecord(image).total_cd_entry_count = n
      /\ EndRecord(image).cd_offset = a.cd_offset
      /\ EndRecord(image).size_of_cd = a.cd_size
  BY EndIsFound DEF Zip64EocdRecord
<1>2. n \in Nat /\ a.cd_pos[n + 1] = a.eocd_offset
  BY DEF WellLaidOut
<1>3. \A i \in 1 .. n + 1 : HeaderAt(image)[i] = a.cd_pos[i]
  BY HeadersAt
<1>4. \A i \in 1 .. n : EntryUnzips(image, a.cd_pos[i], expected[i])
  BY EntryIsFound
<1> HIDE DEF n, image
<1>5. n + 1 \in 1 .. n + 1 /\ \A i \in 1 .. n : i \in 1 .. n + 1
  BY <1>2
<1>6. Unzips(image, expected)
  BY <1>1, <1>2, <1>3, <1>4, <1>5 DEF Unzips, n
<1> QED
  BY <1>6 DEF image

-----------------------------------------------------------------------------
(* The entries of the map.                                                 *)

MapEntry == [name : Names, value : BuilderEntry(Data)]

-----------------------------------------------------------------------------
(* What the size of a built archive depends on.                            *)

(* What build() takes from the map. *)
ItemsOf(map) ==
  [i \in DOMAIN map |->
     [name_len |-> NameLen[map[i].name], size |-> map[i].value.data.size,
      actual |-> map[i].value.data.size, crc32 |-> map[i].value.crc32]]

LEMMA MapEntryTypes ==
  ASSUME NEW x \in MapEntry
  PROVE  /\ x.name \in Names /\ x.value \in BuilderEntry(Data)
         /\ x.value.data \in Data /\ x.value.crc32 \in Crc
         /\ NameLen[x.name] \in Nat /\ x.value.data.size \in Nat
  BY BuilderAssumption DEF MapEntry, BuilderEntry

LEMMA ItemsType ==
  ASSUME NEW map \in Seq(MapEntry)
  PROVE  /\ BuiltOf(map) = Build(ItemsOf(map))
         /\ ItemsOf(map) \in Seq(Item)
         /\ Len(ItemsOf(map)) = Len(map) /\ Len(map) \in Nat
         /\ \A i \in 1 .. Len(map) :
              /\ map[i] \in MapEntry
              /\ ItemsOf(map)[i].name_len = NameLen[map[i].name]
              /\ ItemsOf(map)[i].size = map[i].value.data.size
<1>1. /\ Len(map) \in Nat /\ DOMAIN map = 1 .. Len(map)
      /\ \A i \in 1 .. Len(map) : map[i] \in MapEntry
  OBVIOUS
<1>2. ItemsOf(map) \in [1 .. Len(map) -> Item]
  BY <1>1, MapEntryTypes DEF ItemsOf, Item
<1> QED
  BY <1>1, <1>2 DEF ItemsOf, BuiltOf

LEMMA BuiltTotal ==
  ASSUME NEW map \in Seq(MapEntry)
  PROVE  LET s == EntrySizes(ItemsOf(map))
             t == CdHeaderSizes(ItemsOf(map))
             n == Len(map)
         IN
         /\ s \in Seq(Nat) /\ t \in Seq(Nat) /\ Len(s) = n /\ Len(t) = n
         /\ RunningSum(s)[n + 1] \in Nat /\ RunningSum(t)[n + 1] \in Nat
         /\ BuiltOf(map).total_size
              = RunningSum(s)[n + 1] + RunningSum(t)[n + 1] + EocdSize
<1> DEFINE items == ItemsOf(map)
<1>1. /\ items \in Seq(Item) /\ Len(items) = Len(map) /\ Len(map) \in Nat
      /\ BuiltOf(map) = Build(items)
  BY ItemsType
<1> HIDE DEF items
<1> DEFINE s == EntrySizes(items)
           t == CdHeaderSizes(items)
           n == Len(items)
<1>2. s \in Seq(Nat) /\ t \in Seq(Nat) /\ Len(s) = n /\ Len(t) = n
  BY <1>1, SizesOfItems
<1>3. /\ RunningSum(s) \in [1 .. n + 1 -> Nat]
      /\ RunningSum(t) \in [1 .. n + 1 -> Nat]
      /\ Build(items).total_size
           = RunningSum(s)[n + 1] + RunningSum(t)[n + 1] + EocdSize
  BY <1>1, BuildSums
<1>4. n + 1 \in 1 .. n + 1
  BY <1>1
<1> QED
  BY <1>1, <1>2, <1>3, <1>4 DEF items

(* Names and sizes are all that counts. *)
LEMMA SameSize ==
  ASSUME NEW map \in Seq(MapEntry), NEW new \in Seq(MapEntry),
         Len(new) = Len(map),
         \A i \in 1 .. Len(map) :
           new[i].name = map[i].name /\ new[i].value.data = map[i].value.data
  PROVE  BuiltOf(new).total_size = BuiltOf(map).total_size
<1>1. /\ Len(ItemsOf(map)) = Len(map) /\ Len(ItemsOf(new)) = Len(map)
      /\ \A i \in 1 .. Len(map) :
           /\ ItemsOf(new)[i].name_len = ItemsOf(map)[i].name_len
           /\ ItemsOf(new)[i].size = ItemsOf(map)[i].size
  BY ItemsType
<1>2. /\ EntrySizes(ItemsOf(new)) = EntrySizes(ItemsOf(map))
      /\ CdHeaderSizes(ItemsOf(new)) = CdHeaderSizes(ItemsOf(map))
  BY <1>1 DEF EntrySizes, CdHeaderSizes
<1> QED
  BY <1>2, BuiltTotal

(* One more entry adds its headers and its data. *)
LEMMA SizeOfAppend ==
  ASSUME NEW map \in Seq(MapEntry), NEW x \in MapEntry
  PROVE  BuiltOf(Append(map, x)).total_size
           = HeadersSize(x.name) + x.value.data.size + BuiltOf(map).total_size
<1> DEFINE new == Append(map, x)
           n   == Len(map)
           h   == LocalHeaderSize(NameLen[x.name])
           k   == CdHeaderSize(NameLen[x.name])
           z   == x.value.data.size
           s   == EntrySizes(ItemsOf(map))
           t   == CdHeaderSizes(ItemsOf(map))
           s2  == EntrySizes(ItemsOf(new))
           t2  == CdHeaderSizes(ItemsOf(new))
<1>1. /\ n \in Nat /\ new \in Seq(MapEntry) /\ Len(new) = n + 1
      /\ new[n + 1] = x /\ \A i \in 1 .. n : new[i] = map[i]
  OBVIOUS
<1>2. h \in Nat /\ k \in Nat /\ z \in Nat
  BY MapEntryTypes, HeaderSizes
<1>3. /\ s \in Seq(Nat) /\ t \in Seq(Nat) /\ Len(s) = n /\ Len(t) = n
      /\ s2 \in Seq(Nat) /\ t2 \in Seq(Nat)
      /\ Len(s2) = n + 1 /\ Len(t2) = n + 1
      /\ RunningSum(s)[n + 1] \in Nat /\ RunningSum(t)[n + 1] \in Nat
      /\ BuiltOf(map).total_size
           = RunningSum(s)[n + 1] + RunningSum(t)[n + 1] + EocdSize
  BY <1>1, BuiltTotal
<1>4. BuiltOf(new).total_size
        = RunningSum(s2)[n + 2] + RunningSum(t2)[n + 2] + EocdSize
  <2>1. BuiltOf(new).total_size
          = RunningSum(s2)[Len(new) + 1] + RunningSum(t2)[Len(new) + 1] + EocdSize
    BY <1>1, BuiltTotal
  <2>2. Len(new) + 1 = n + 2
    BY <1>1
  <2> QED
    BY <2>1, <2>2
<1>5. \A i \in 1 .. n + 1 :
        /\ ItemsOf(new)[i].name_len = NameLen[new[i].name]
        /\ ItemsOf(new)[i].size = new[i].value.data.size
  BY <1>1, ItemsType
<1>6. \A i \in 1 .. n :
        /\ ItemsOf(map)[i].name_len = NameLen[map[i].name]
        /\ ItemsOf(map)[i].size = map[i].value.data.size
  BY ItemsType
<1>7. Len(ItemsOf(new)) = n + 1 /\ Len(ItemsOf(map)) = n
  BY <1>1, ItemsType
<1>8. /\ s2 = Append(s, h + z)
      /\ t2 = Append(t, k)
  <2>1. \A i \in 1 .. n : i \in 1 .. n + 1
    BY <1>1
  <2>2. n + 1 \in 1 .. n + 1
    BY <1>1
  <2>3. \A i \in 1 .. n : s2[i] = s[i] /\ t2[i] = t[i]
    BY <1>1, <1>5, <1>6, <1>7, <2>1 DEF EntrySizes, CdHeaderSizes
  <2>4. s2[n + 1] = h + z /\ t2[n + 1] = k
    BY <1>1, <1>5, <1>7, <2>2 DEF EntrySizes, CdHeaderSizes
  <2> HIDE DEF s, t, s2, t2, h, k, z, n
  <2>5. h + z \in Nat
    BY <1>2
  <2> DEFINE y == h + z
  <2> HIDE DEF y
  <2>6. s2 = Append(s, y)
    BY <1>1, <1>3, <2>3, <2>4, <2>5 DEF y
  <2>7. t2 = Append(t, k)
    BY <1>1, <1>2, <1>3, <2>3, <2>4
  <2> QED
    BY <2>6, <2>7 DEF y
<1>9. /\ RunningSum(s2)[n + 2] = RunningSum(s)[n + 1] + (h + z)
      /\ RunningSum(t2)[n + 2] = RunningSum(t)[n + 1] + k
  <2>1. h + z \in Nat
    BY <1>2
  <2> HIDE DEF s, t, s2, t2, h, k, z, n
  <2> DEFINE y == h + z
  <2> HIDE DEF y
  <2>2. RunningSum(s2)[n + 2] = RunningSum(s)[n + 1] + y
    BY <1>3, <1>8, <2>1, RunningSumAppend DEF y
  <2>3. t \in Seq(Nat) /\ k \in Nat /\ t2 = Append(t, k) /\ Len(t) = n
    BY <1>2, <1>3, <1>8
  <2>4. RunningSum(t2)[n + 2] = RunningSum(t)[n + 1] + k
    BY <2>3, RunningSumAppend
  <2> QED
    BY <2>2, <2>4 DEF y
<1>10. EocdSize \in Nat
  BY StructSizesAssumption DEF EocdSize
<1> DEFINE p == RunningSum(s)[n + 1]
           q == RunningSum(t)[n + 1]
<1>11. /\ BuiltOf(map).total_size = p + q + EocdSize
       /\ BuiltOf(new).total_size = (p + (h + z)) + (q + k) + EocdSize
       /\ p \in Nat /\ q \in Nat
  BY <1>3, <1>4, <1>9
<1>12. HeadersSize(x.name) = h + k
  BY DEF HeadersSize
<1> HIDE DEF p, q, h, k, z
<1>13. BuiltOf(new).total_size = (h + k) + z + BuiltOf(map).total_size
  BY <1>2, <1>10, <1>11
<1> QED
  BY <1>12, <1>13 DEF z

LEMMA EmptySize == BuiltOf(<< >>).total_size = EocdSize
<1>1. << >> \in Seq(MapEntry) /\ Len(<< >>) = 0
  OBVIOUS
<1> DEFINE items == ItemsOf(<< >>)
<1>2. items \in Seq(Item) /\ Len(items) = 0 /\ BuiltOf(<< >>) = Build(items)
  BY <1>1, ItemsType
<1>3. LET n == Len(items)
          o == RunningSum(EntrySizes(items))
          d == RunningSum(CdHeaderSizes(items))
      IN o[1] = 0 /\ d[1] = 0
         /\ Build(items).total_size = o[n + 1] + d[n + 1] + EocdSize
  BY <1>2, BuildSums
<1>4. EocdSize \in Nat /\ 0 + 1 = 1
  BY StructSizesAssumption DEF EocdSize
<1> QED
  BY <1>2, <1>3, <1>4

(* What was documented for an entry is what is written about it. *)
LEMMA ModeIsDocumented ==
  ASSUME NEW e \in BuilderEntry(Data)
  PROVE  ExternalAttributes(e.file_type, e.permissions).high = DocumentedMode(e)
<1> DEFINE p == e.permissions
           t == e.file_type
<1>1. ExternalAttributes(t, p).high = FileTypeBits(t) + PermBits(t, p)
  BY DEF ExternalAttributes
<1>2. t \in {"File", "Directory", "Symlink"}
  BY DEF BuilderEntry, BuilderFileType
<1>3. \/ p = Rw
      \/ p = Ro
      \/ p.kind = "UnixPermissions" /\ p.mode \in 0 .. 511 /\ p # Rw /\ p # Ro
  <2>1. p \in {Rw, Ro} \union [kind : {"UnixPermissions"}, mode : 0 .. 511]
    BY DEF BuilderEntry, BuilderPermissions
  <2> QED
    BY <2>1 DEF Rw, Ro
<1>4. Rw.kind = "Rw" /\ Ro.kind = "Ro" /\ Rw # Ro
  BY DEF Rw, Ro
<1>5. FileTypeBits(t) = IF t = "File" THEN 32768
                        ELSE IF t = "Directory" THEN 16384 ELSE 40960
  BY <1>2 DEF FileTypeBits
<1>6. PermBits(t, p)
        = IF t = "Symlink" THEN 511
          ELSE IF p = Rw THEN (IF t = "Directory" THEN 493 ELSE 420)
          ELSE IF p = Ro THEN (IF t = "Directory" THEN 365 ELSE 292)
          ELSE p.mode
  <2>1. CASE t = "Symlink"
    BY <2>1 DEF PermBits
  <2>2. CASE t # "Symlink" /\ p = Rw
    BY <1>2, <1>4, <2>2 DEF PermBits, ExecutableBits
  <2>3. CASE t # "Symlink" /\ p = Ro
    BY <1>2, <1>4, <2>3 DEF PermBits, ExecutableBits
  <2>4. CASE t # "Symlink" /\ p # Rw /\ p # Ro
    <3>1. p.mode % 512 = p.mode
      BY <1>3, <2>4
    <3>2. PermBits(t, p) = p.mode % 512
      BY <1>3, <2>4 DEF PermBits
    <3> QED
      BY <2>4, <3>1, <3>2
  <2> QED
    BY <2>1, <2>2, <2>3, <2>4
<1>7. DocumentedMode(e)
        = (IF t = "File" THEN 8 ELSE IF t = "Directory" THEN 4 ELSE 10) * 4096
          + (IF t = "Symlink" THEN 511
             ELSE IF p = Rw THEN (IF t = "Directory" THEN 493 ELSE 420)
             ELSE IF p = Ro THEN (IF t = "Directory" THEN 493 ELSE 420) - 128
             ELSE p.mode)
  BY <1>2, <1>4 DEF DocumentedMode
<1> HIDE DEF p, t
<1>8. FileTypeBits(t) + PermBits(t, p) = DocumentedMode(e)
  BY <1>2, <1>3, <1>5, <1>6, <1>7
<1> QED
  BY <1>1, <1>8 DEF p, t

LEMMA BuildWrites ==
  ASSUME NEW items \in Seq(Item)
  PROVE  LET a == Build(items) IN
         /\ a.eocd_offset = a.cd_offset + a.cd_size
         /\ \A i \in 1 .. Len(items) :
              /\ a.entries[i].size = items[i].size
              /\ a.entries[i].actual = items[i].actual
              /\ a.entries[i].crc32 = items[i].crc32
  BY DEF Build

(* The archive built from a map is one of the entries of the map. *)
LEMMA BuiltIsExpected ==
  ASSUME entries \in Seq(MapEntry)
  PROVE  /\ HonestSizes(Built)
         /\ Built.eocd_offset = Built.cd_offset + Built.cd_size
         /\ Len(ExpectedEntries) = Len(Built.entries)
         /\ \A i \in 1 .. Len(Built.entries) :
              ExpectedEntries[i] = ExpectedOf(Built, BuiltDetails, i)
<1> DEFINE n == Len(entries)
           items == ItemsOf(entries)
           a == Built
<1>1. /\ a = Build(items) /\ items \in Seq(Item) /\ Len(items) = n /\ n \in Nat
      /\ DOMAIN entries = 1 .. n
      /\ \A i \in 1 .. n : entries[i] \in MapEntry
  BY ItemsType DEF Built
<1>2. \A i \in 1 .. n :
        /\ items[i].size = entries[i].value.data.size
        /\ items[i].actual = entries[i].value.data.size
        /\ items[i].crc32 = entries[i].value.crc32
  BY <1>1 DEF ItemsOf
<1>3. /\ Len(a.entries) = n
      /\ a.eocd_offset = a.cd_offset + a.cd_size
      /\ \A i \in 1 .. n :
           /\ a.entries[i].size = entries[i].value.data.size
           /\ a.entries[i].actual = entries[i].value.data.size
           /\ a.entries[i].crc32 = entries[i].value.crc32
  BY <1>1, <1>2, BuildSums, BuildWrites
<1>4. Len(ExpectedEntries) = n
  BY <1>1 DEF ExpectedEntries
<1> HIDE DEF a, items
<1>5. ASSUME NEW i \in 1 .. n
      PROVE  ExpectedEntries[i] = ExpectedOf(a, BuiltDetails, i)
  <2> DEFINE e == entries[i].value
             x == BuiltDetails[i]
  <2>1. e \in BuilderEntry(Data)
    BY <1>1, MapEntryTypes
  <2>2. /\ x.name = entries[i].name
        /\ x.datetime = EffectiveDatetime(e)
        /\ x.external_attributes = ExternalAttributes(e.file_type, e.permissions)
    BY <1>1 DEF BuiltDetails
  <2>3. x.external_attributes.high = DocumentedMode(e)
    BY <2>1, <2>2, ModeIsDocumented
  <2>4. GetCrc(a, i) = IF e.crc32 # NoCrc THEN e.crc32 ELSE CrcOf(i, e.data.size)
    BY <1>3 DEF GetCrc
  <2>5. ExpectedEntries[i]
          = [name     |-> entries[i].name,
             data     |-> i,
             size     |-> e.data.size,
             crc32    |-> IF e.crc32 # NoCrc THEN e.crc32 ELSE CrcOf(i, e.data.size),
             mode     |-> DocumentedMode(e),
             datetime |-> EffectiveDatetime(e)]
    BY <1>1 DEF ExpectedEntries
  <2>6. ExpectedOf(a, BuiltDetails, i)
          = [name     |-> x.name,
             data     |-> i,
             size     |-> a.entries[i].size,
             crc32    |-> GetCrc(a, i),
             mode     |-> x.external_attributes.high,
             datetime |-> x.datetime]
    BY DEF ExpectedOf
  <2>7. a.entries[i].size = e.data.size
    BY <1>3
  <2> HIDE DEF e, x
  <2> QED
    BY <2>2, <2>3, <2>4, <2>5, <2>6, <2>7
<1>6. HonestSizes(a)
  BY <1>3 DEF HonestSizes
<1> QED
  BY <1>3, <1>4, <1>5, <1>6 DEF a

-----------------------------------------------------------------------------
(* What the setters leave alone.                                           *)

(* An entry after a setter: of the same data, which is what it weighs. *)
Describes(e, new) == new \in BuilderEntry(Data) /\ new.data = e.data

LEMMA DatetimeDescribes ==
  ASSUME NEW e \in BuilderEntry(Data), NEW f \in DateFields
  PROVE  Describes(e, DatetimeFields(e, f)) /\ Describes(e, DatetimeFieldsOrDefault(e, f))
<1>1. DosNew(f) \in Seq(DosDatetimes)
  <2>1. CASE InRange(f)
    <3>1. DosNew(f) = << Packed(f) >> /\ Packed(f) \in DosDatetimes
      BY <2>1, RoundTrip DEF Some
    <3> QED
      BY <3>1
  <2>2. CASE ~InRange(f)
    BY <2>2 DEF DosNew, None
  <2> QED
    BY <2>1, <2>2
<1>2. Describes(e, [e EXCEPT !.datetime = DosNew(f)])
  BY <1>1 DEF Describes, BuilderEntry
<1>3. Describes(e, e)
  BY DEF Describes
<1> QED
  BY <1>2, <1>3 DEF DatetimeFields, DatetimeFieldsOrDefault

LEMMA SystemDescribes ==
  ASSUME NEW e \in BuilderEntry(Data), NEW t \in Times
  PROVE  Describes(e, DatetimeSystem(e, t))
<1>1. CASE e.time_converter = NoConverter
  BY <1>1 DEF Describes, DatetimeSystem
<1>2. CASE e.time_converter # NoConverter
  <2>1. e.time_converter \in Converters
    BY <1>2 DEF BuilderEntry
  <2>2. Convert[e.time_converter][t] \in DateFields
    BY <2>1, ConvertAssumption
  <2> QED
    BY <1>2, <2>2, DatetimeDescribes DEF DatetimeSystem
<1> QED
  BY <1>1, <1>2

LEMMA TypeDescribes ==
  ASSUME NEW e \in BuilderEntry(Data)
  PROVE  /\ Describes(e, File(e)) /\ Describes(e, Directory(e))
         /\ Describes(e, Symlink(e))
  BY DEF Describes, BuilderEntry, BuilderFileType, File, Directory, Symlink

LEMMA PermissionsDescribe ==
  ASSUME NEW e \in BuilderEntry(Data)
  PROVE  /\ \A mode \in Nat : Describes(e, UnixPermissions(e, mode))
         /\ \A mode \in Nat : Describes(e, Permissions(e, mode))
         /\ \A ro \in BOOLEAN : Describes(e, Readonly(e, ro))
<1>1. ASSUME NEW mode \in Nat
      PROVE  Describes(e, UnixPermissions(e, mode))
  <2>1. mode % \o1000 \in 0 .. \o777
    OBVIOUS
  <2> DEFINE p == [kind |-> "UnixPermissions", mode |-> mode % \o1000]
  <2>2. p \in BuilderPermissions
    BY <2>1 DEF BuilderPermissions
  <2>3. UnixPermissions(e, mode) = [e EXCEPT !.permissions = p]
    BY DEF UnixPermissions
  <2> HIDE DEF p
  <2> QED
    BY <2>2, <2>3 DEF Describes, BuilderEntry
<1>2. ASSUME NEW ro \in BOOLEAN
      PROVE  Describes(e, Readonly(e, ro))
  <2>1. Ro \in BuilderPermissions /\ Rw \in BuilderPermissions
    BY DEF BuilderPermissions
  <2> QED
    BY <2>1 DEF Describes, BuilderEntry, Readonly
<1> QED
  BY <1>1, <1>2 DEF Permissions

LEMMA MetadataDescribes ==
  ASSUME NEW e \in BuilderEntry(Data), NEW md,
         md.mode \in Nat, md.modified \in Times \union {NoTime}
  PROVE  Describes(e, Metadata(e, md))
<1>1. PICK typed \in {File(e), Directory(e), Symlink(e)} :
        LET permitted == Permissions(typed, md.mode)
        IN Metadata(e, md) = IF md.modified = NoTime THEN permitted
                             ELSE DatetimeSystem(permitted, md.modified)
  BY DEF Metadata, DatetimeSystemOrDefault
<1>2. Describes(e, typed)
  BY <1>1, TypeDescribes
<1> DEFINE permitted == Permissions(typed, md.mode)
<1>3. Describes(e, permitted)
  <2>1. typed \in BuilderEntry(Data) /\ typed.data = e.data
    BY <1>2 DEF Describes
  <2>2. Describes(typed, permitted)
    BY <2>1, PermissionsDescribe
  <2> QED
    BY <2>1, <2>2 DEF Describes
<1> HIDE DEF permitted
<1>4. CASE md.modified = NoTime
  BY <1>1, <1>3, <1>4 DEF permitted
<1>5. CASE md.modified # NoTime
  <2>1. permitted \in BuilderEntry(Data) /\ md.modified \in Times
    BY <1>3, <1>5 DEF Describes
  <2>2. Describes(permitted, DatetimeSystem(permitted, md.modified))
    BY <2>1, SystemDescribes
  <2>3. Metadata(e, md) = DatetimeSystem(permitted, md.modified)
    BY <1>1, <1>5 DEF permitted
  <2> QED
    BY <1>3, <2>2, <2>3 DEF Describes
<1> QED
  BY <1>4, <1>5

LEMMA RestDescribes ==
  ASSUME NEW e \in BuilderEntry(Data)
  PROVE  /\ \A crc32 \in Crc32s : Describes(e, SetCrc32(e, crc32))
         /\ \A md \in Metadatas : Describes(e, Metadata(e, md))
<1>1. ASSUME NEW crc32 \in Crc32s
      PROVE  Describes(e, SetCrc32(e, crc32))
  BY BuilderAssumption DEF Describes, BuilderEntry, SetCrc32
<1>2. ASSUME NEW md \in Metadatas
      PROVE  Describes(e, Metadata(e, md))
  BY BuilderAssumption, MetadataDescribes
<1> QED
  BY <1>1, <1>2

(* Every setter, with whatever argument, is a Sets that describes. *)
LEMMA SettersDescribe ==
  ASSUME NEW i \in DOMAIN entries, entries[i].value \in BuilderEntry(Data),
         SetTime(i) \/ SetType(i) \/ SetPermissions(i) \/ SetRest(i)
  PROVE  \E new : \E returned \in {"Ok", "None"} :
           Sets(i, new, returned) /\ Describes(entries[i].value, new)
<1> DEFINE e == entries[i].value
<1>1. e \in BuilderEntry(Data)
  OBVIOUS
<1>2. \A b : OkUnless(b) \in {"Ok", "None"}
  BY DEF OkUnless
<1> HIDE DEF e
<1>3. CASE SetTime(i)
  <2>1. CASE \E f \in Fields :
               \/ Sets(i, DatetimeFields(e, f), OkUnless(DatetimeFieldsFails(e, f)))
               \/ Sets(i, Datetime(e, f), OkUnless(DatetimeFieldsFails(e, f)))
               \/ Sets(i, DatetimeFieldsOrDefault(e, f), "Ok")
               \/ Sets(i, DatetimeOrDefault(e, f), "Ok")
    <3>1. PICK f \in Fields :
            \E new \in {DatetimeFields(e, f), DatetimeFieldsOrDefault(e, f)} :
              \E returned \in {"Ok", "None"} : Sets(i, new, returned)
      BY <1>2, <2>1 DEF Datetime, DatetimeOrDefault
    <3>2. f \in DateFields
      BY BuilderAssumption
    <3> QED
      BY <1>1, <3>1, <3>2, DatetimeDescribes DEF e
  <2>2. CASE \E t \in Times :
               \/ Sets(i, DatetimeSystem(e, t), OkUnless(DatetimeSystemFails(e, t)))
               \/ Sets(i, DatetimeSystemOrDefault(e, t), "Ok")
    <3>1. PICK t \in Times :
            \E returned \in {"Ok", "None"} : Sets(i, DatetimeSystem(e, t), returned)
      BY <1>2, <2>2 DEF DatetimeSystemOrDefault
    <3> QED
      BY <1>1, <3>1, SystemDescribes DEF e
  <2> QED
    BY <1>3, <2>1, <2>2 DEF SetTime, e
<1>4. CASE SetType(i)
  BY <1>1, <1>4, TypeDescribes DEF SetType, e
<1>5. CASE SetPermissions(i)
  <2>1. PICK new : Sets(i, new, "Ok")
                   /\ \/ \E mode \in Modes : new \in {UnixPermissions(e, mode), Permissions(e, mode)}
                      \/ \E ro \in BOOLEAN : new = Readonly(e, ro)
    BY <1>5 DEF SetPermissions, e
  <2>2. Describes(e, new)
    BY <1>1, <2>1, PermissionsDescribe, BuilderAssumption
  <2> QED
    BY <2>1, <2>2 DEF e
<1>6. CASE SetRest(i)
  BY <1>1, <1>6, RestDescribes DEF SetRest, e
<1> QED
  BY <1>3, <1>4, <1>5, <1>6

-----------------------------------------------------------------------------
(* The builder's invariant.                                                *)

(* The names are in it because only a caller that writes to the map can    *)
(* bring one past 16 bits in.                                              *)
BuilderInv ==
  /\ TypeOK
  /\ SizeIsBuiltUnlessWritten
  /\ writes = 0 => NamesFit

LEMMA BuilderInit == Init => BuilderInv
<1> SUFFICES ASSUME Init
             PROVE  BuilderInv
  OBVIOUS
<1>1. EocdSize \in 0 .. U64Max
  BY StructSizesAssumption, BuilderAssumption DEF EocdSize
<1>2. TypeOK
  BY <1>1, BuilderAssumption DEF Init, TypeOK
<1>3. SizeIsBuilt
  BY EmptySize DEF Init, SizeIsBuilt, Size, Built
<1>4. NamesFit
  BY DEF Init, NamesFit, Taken
<1> QED
  BY <1>2, <1>3, <1>4 DEF BuilderInv, SizeIsBuiltUnlessWritten

LEMMA NewEntryType ==
  ASSUME NEW data \in Data, time_converter \in Converters \union {NoConverter}
  PROVE  /\ NewBuilderEntry(data, time_converter) \in BuilderEntry(Data)
         /\ NewBuilderEntry(data, time_converter).data = data
  BY DEF NewBuilderEntry, BuilderEntry, BuilderFileType, BuilderPermissions,
         Crc, NoCrc, None

(* add_entry refuses what its size cannot count, and counts what it takes. *)
LEMMA BuilderAdd ==
  ASSUME BuilderInv, NEW name \in Names, NEW value \in BuilderEntry(Data),
         AddEntryAs(name, value)
  PROVE  BuilderInv'
<1> DEFINE data == value.data
           x == [name |-> name, value |-> value]
<1> USE DEF BuilderInv
<1>1. data \in Data /\ x \in MapEntry
  BY DEF BuilderEntry, MapEntry
<1>2. /\ last' = AddResult(name, data)
      /\ UNCHANGED << time_converter, writes, setters >>
      /\ IF last' = "Ok"
         THEN total_size' = SizeWith(name, data.size) /\ entries' = Append(entries, x)
         ELSE UNCHANGED << entries, total_size >>
  BY DEF AddEntryAs
<1>3. AddResult(name, data) \in {"Ok"} \union AddErrors
  BY DEF AddResult, AddErrors
<1>4. CASE last' # "Ok"
  <2>1. UNCHANGED << entries, total_size, time_converter, writes, setters >>
    BY <1>2, <1>4
  <2> QED
    BY <1>2, <1>3, <2>1 DEF TypeOK, SizeIsBuiltUnlessWritten, SizeIsBuilt, Size,
       Built, NamesFit, Taken
<1>5. CASE last' = "Ok"
  <2>1. /\ total_size' = SizeWith(name, data.size)
        /\ entries' = Append(entries, x)
        /\ UNCHANGED << time_converter, writes, setters >>
    BY <1>2, <1>5
  <2>2. ~TooLong(name) /\ ~DoesNotFit(name, data.size)
    BY <1>2, <1>5 DEF AddResult
  <2>3. NameLen[name] \in Nat /\ data.size \in Nat
    BY <1>1, BuilderAssumption
  <2>4. HeadersSize(name) \in Nat
    BY <2>3, HeaderSizes DEF HeadersSize
  <2>5. SizeWith(name, data.size) \in 0 .. U64Max
    BY <2>2, <2>3, <2>4, BuilderAssumption DEF SizeWith, DoesNotFit, TypeOK
  <2>6. entries \in Seq(MapEntry)
    BY DEF TypeOK, MapEntry
  <2>7. TypeOK'
    <3>1. entries' \in Seq(MapEntry)
      BY <1>1, <2>1, <2>6
    <3> QED
      BY <1>2, <1>3, <2>1, <2>5, <3>1 DEF TypeOK, MapEntry
  <2>8. SizeIsBuiltUnlessWritten'
    <3> SUFFICES ASSUME writes = 0
                 PROVE  SizeIsBuilt'
      BY <2>1 DEF SizeIsBuiltUnlessWritten
    <3>1. BuiltOf(Append(entries, x)).total_size
            = HeadersSize(name) + data.size + BuiltOf(entries).total_size
      BY <1>1, <2>6, SizeOfAppend DEF data
    <3>2. total_size = BuiltOf(entries).total_size
      BY DEF SizeIsBuiltUnlessWritten, SizeIsBuilt, Size, Built
    <3> QED
      BY <2>1, <3>1, <3>2 DEF SizeIsBuilt, Size, Built, SizeWith
  <2>9. (writes = 0 => NamesFit)'
    <3> SUFFICES ASSUME writes = 0, NEW i \in DOMAIN entries'
                 PROVE  NameLen[entries'[i].name] <= U16Max
      BY <2>1 DEF NamesFit, Taken
    <3>1. CASE i = Len(entries) + 1
      BY <2>1, <2>2, <2>3, <2>6, <3>1, ContentAssumption DEF TooLong
    <3>2. CASE i # Len(entries) + 1
      <4>1. i \in DOMAIN entries /\ entries'[i] = entries[i]
        BY <2>1, <2>6, <3>2
      <4> QED
        BY <4>1 DEF NamesFit, Taken
    <3> QED
      BY <3>1, <3>2
  <2> QED
    BY <2>7, <2>8, <2>9
<1> QED
  BY <1>4, <1>5

(* A setter changes neither a name nor a size. *)
LEMMA BuilderSets ==
  ASSUME BuilderInv, NEW i \in DOMAIN entries,
         SetTime(i) \/ SetType(i) \/ SetPermissions(i) \/ SetRest(i)
  PROVE  BuilderInv'
<1> USE DEF BuilderInv
<1>1. entries \in Seq(MapEntry)
  BY DEF TypeOK, MapEntry
<1>2. i \in 1 .. Len(entries) /\ entries[i] \in MapEntry
      /\ entries[i].value \in BuilderEntry(Data)
  BY <1>1, MapEntryTypes
<1>3. PICK new : \E returned \in {"Ok", "None"} :
        Sets(i, new, returned) /\ Describes(entries[i].value, new)
  BY <1>2, SettersDescribe
<1> DEFINE after == [entries EXCEPT ![i].value = new]
<1>4. /\ entries' = after /\ last' \in {"Ok", "None"}
      /\ setters < MaxSetters /\ setters' = setters + 1
      /\ UNCHANGED << time_converter, total_size, writes >>
  BY <1>3 DEF Sets
<1>5. new \in BuilderEntry(Data) /\ new.data = entries[i].value.data
  BY <1>3 DEF Describes
<1>6. /\ after \in Seq(MapEntry) /\ Len(after) = Len(entries)
      /\ DOMAIN after = DOMAIN entries
      /\ \A j \in 1 .. Len(entries) :
           /\ after[j].name = entries[j].name
           /\ after[j].value.data = entries[j].value.data
  <2>1. \A j \in 1 .. Len(entries) :
          entries[j] \in [name : Names, value : BuilderEntry(Data)]
    <3>1. \A j \in 1 .. Len(entries) : entries[j] \in MapEntry
      BY <1>1
    <3> QED
      BY <3>1 DEF MapEntry
  <2>2. after = [j \in 1 .. Len(entries) |->
                   IF j = i THEN [entries[i] EXCEPT !.value = new] ELSE entries[j]]
    BY <1>1, <1>2
  <2>3. [entries[i] EXCEPT !.value = new]
          = [name |-> entries[i].name, value |-> new]
    BY <1>2, <2>1
  <2>4. \A j \in 1 .. Len(entries) : after[j] \in MapEntry
    BY <1>2, <1>5, <2>1, <2>2, <2>3 DEF MapEntry
  <2>5. \A j \in 1 .. Len(entries) :
           /\ after[j].name = entries[j].name
           /\ after[j].value.data = entries[j].value.data
    BY <1>2, <1>5, <2>1, <2>2, <2>3
  <2>6. Len(entries) \in Nat /\ DOMAIN entries = 1 .. Len(entries)
    BY <1>1
  <2>7. after \in [1 .. Len(entries) -> MapEntry]
    BY <2>2, <2>4
  <2> HIDE DEF after
  <2>8. after \in Seq(MapEntry) /\ Len(after) = Len(entries)
    BY <2>6, <2>7
  <2> QED
    BY <2>5, <2>6, <2>7, <2>8
<1>7. BuiltOf(after).total_size = BuiltOf(entries).total_size
  BY <1>1, <1>6, SameSize
<1> HIDE DEF after
<1>8. TypeOK'
  BY <1>4, <1>6, BuilderAssumption DEF TypeOK, MapEntry
<1>9. SizeIsBuiltUnlessWritten'
  BY <1>4, <1>7 DEF SizeIsBuiltUnlessWritten, SizeIsBuilt, Size, Built
<1>10. (writes = 0 => NamesFit)'
  BY <1>1, <1>4, <1>6 DEF NamesFit, Taken
<1> QED
  BY <1>8, <1>9, <1>10

(* A write to the map ends what is known of the size, not of the types. *)
LEMMA BuilderWrites ==
  ASSUME BuilderInv, NEW new \in Seq(MapEntry), WritesMap(new)
  PROVE  BuilderInv'
<1>1. writes' # 0
  BY DEF WritesMap, BuilderInv, TypeOK
<1>2. TypeOK'
  BY BuilderAssumption DEF WritesMap, BuilderInv, TypeOK, MapEntry
<1> QED
  BY <1>1, <1>2 DEF BuilderInv, SizeIsBuiltUnlessWritten

LEMMA WritesTypes ==
  ASSUME entries \in Seq(MapEntry), NEW i \in DOMAIN entries
  PROVE  /\ RemoveAt(entries, i) \in Seq(MapEntry)
         /\ Front([entries EXCEPT ![i] = entries[Len(entries)]]) \in Seq(MapEntry)
         /\ \A name \in Names :
              LET copy == [entries[i] EXCEPT !.name = name] IN
              /\ [j \in DOMAIN entries |->
                    IF entries[j].name = name THEN copy ELSE entries[j]]
                   \in Seq(MapEntry)
              /\ Append(entries, copy) \in Seq(MapEntry)
<1> DEFINE n == Len(entries)
<1>1. /\ n \in Nat /\ DOMAIN entries = 1 .. n /\ i \in 1 .. n /\ n \in 1 .. n
      /\ \A j \in 1 .. n : entries[j] \in MapEntry
  OBVIOUS
<1>2. RemoveAt(entries, i) \in Seq(MapEntry)
  <2>1. /\ SubSeq(entries, 1, i - 1) \in Seq(MapEntry)
        /\ SubSeq(entries, i + 1, n) \in Seq(MapEntry)
    BY <1>1, SubSeqProperties
  <2> QED
    BY <2>1, ConcatProperties DEF RemoveAt
<1>3. Front([entries EXCEPT ![i] = entries[n]]) \in Seq(MapEntry)
  <2> DEFINE s == [entries EXCEPT ![i] = entries[n]]
  <2>1. s \in Seq(MapEntry) /\ Len(s) = n
    BY <1>1
  <2> HIDE DEF s
  <2>2. SubSeq(s, 1, n - 1) \in Seq(MapEntry)
    BY <1>1, <2>1, SubSeqProperties
  <2> QED
    BY <2>1, <2>2 DEF Front, s
<1>4. ASSUME NEW name \in Names
      PROVE  LET copy == [entries[i] EXCEPT !.name = name] IN
             /\ [j \in DOMAIN entries |->
                   IF entries[j].name = name THEN copy ELSE entries[j]]
                  \in Seq(MapEntry)
             /\ Append(entries, copy) \in Seq(MapEntry)
  <2> DEFINE copy == [entries[i] EXCEPT !.name = name]
  <2>1. copy \in MapEntry
    BY <1>1 DEF MapEntry
  <2> HIDE DEF copy
  <2>2. Append(entries, copy) \in Seq(MapEntry)
    BY <2>1
  <2>3. [j \in DOMAIN entries |->
           IF entries[j].name = name THEN copy ELSE entries[j]] \in Seq(MapEntry)
    <3> DEFINE s == [j \in 1 .. n |->
                       IF entries[j].name = name THEN copy ELSE entries[j]]
    <3>1. s \in [1 .. n -> MapEntry]
      BY <1>1, <2>1
    <3>2. s \in Seq(MapEntry)
      BY <1>1, <3>1
    <3> QED
      BY <1>1, <3>2
  <2> QED
    BY <2>2, <2>3 DEF copy
<1> QED
  BY <1>2, <1>3, <1>4

LEMMA BuilderNext == BuilderInv /\ [Next]_vars => BuilderInv'
<1> SUFFICES ASSUME BuilderInv, [Next]_vars
             PROVE  BuilderInv'
  OBVIOUS
<1>1. entries \in Seq(MapEntry)
  BY DEF BuilderInv, TypeOK, MapEntry
<1>2. CASE UNCHANGED vars
  BY <1>2 DEF BuilderInv, TypeOK, SizeIsBuiltUnlessWritten, SizeIsBuilt, Size,
     Built, NamesFit, Taken, vars
<1>3. CASE \E name \in Names, data \in Data : AddEntry(name, data)
  <2>1. PICK name \in Names, data \in Data : AddEntry(name, data)
    BY <1>3
  <2>2. NewBuilderEntry(data, time_converter) \in BuilderEntry(Data)
    BY NewEntryType DEF BuilderInv, TypeOK
  <2> QED
    BY <2>1, <2>2, BuilderAdd DEF AddEntry
<1>4. CASE \E converter \in Converters : SystemTimeConverter(converter)
  BY <1>4 DEF SystemTimeConverter, BuilderInv, TypeOK, SizeIsBuiltUnlessWritten,
     SizeIsBuilt, Size, Built, NamesFit, Taken
<1>5. ASSUME NEW i \in DOMAIN entries,
             SetTime(i) \/ SetType(i) \/ SetPermissions(i) \/ SetRest(i)
      PROVE  BuilderInv'
  BY <1>5, BuilderSets
<1>6. ASSUME NEW i \in DOMAIN entries,
             \/ ShiftRemove(i)
             \/ SwapRemove(i)
             \/ \E name \in Names : InsertCopy(i, name)
      PROVE  BuilderInv'
  <2>1. \E new \in Seq(MapEntry) : WritesMap(new)
    <3>1. CASE ShiftRemove(i)
      BY <1>1, <3>1, WritesTypes DEF ShiftRemove
    <3>2. CASE SwapRemove(i)
      BY <1>1, <3>2, WritesTypes DEF SwapRemove
    <3>3. CASE \E name \in Names : InsertCopy(i, name)
      BY <1>1, <3>3, WritesTypes DEF InsertCopy
    <3> QED
      BY <1>6, <3>1, <3>2, <3>3
  <2> QED
    BY <2>1, BuilderWrites
<1> QED
  BY <1>2, <1>3, <1>4, <1>5, <1>6 DEF Next

LEMMA BuilderAlways == Spec => []BuilderInv
  BY BuilderInit, BuilderNext, PTL DEF Spec

-----------------------------------------------------------------------------
(* The theorems.                                                           *)

(* Whatever is added, refused, described, taken out or copied, the map     *)
(* holds entries that build() can write and total_size stays within u64.   *)
THEOREM BuilderTypeCorrect == Spec => []TypeOK
<1>1. BuilderInv => TypeOK
  BY DEF BuilderInv
<1> QED
  BY <1>1, BuilderAlways, PTL

(* Builder::size() is the size of what build() would make, after any       *)
(* sequence of add_entry, accepted or refused, and of setters: for as long *)
(* as nobody writes to the map through get_entries_mut.                    *)
THEOREM SizeIsCorrect == Spec => []SizeIsBuiltUnlessWritten
<1>1. BuilderInv => SizeIsBuiltUnlessWritten
  BY DEF BuilderInv
<1> QED
  BY <1>1, BuilderAlways, PTL

(* The try_into of read_local_header, whose failure is unreachable!(), can *)
(* fail only after such a write.                                           *)
THEOREM NamesFitUnlessWritten == Spec => [](writes = 0 => NamesFit)
<1>1. BuilderInv => (writes = 0 => NamesFit)
  BY DEF BuilderInv
<1> QED
  BY <1>1, BuilderAlways, PTL

(* No chunk starts behind the end of the file. *)
LEMMA StartsWithin ==
  ASSUME NEW a, WellLaidOut(a), HonestSizes(a), NEW c \in Chunks(a.entries)
  PROVE  ChunkStart(a, c) \in Nat /\ ChunkStart(a, c) <= a.total_size
<1> DEFINE m == 4 * Len(a.entries)
           f == ChunkOffsets(a, << >>)
           g == ChunkOrder(a.entries)
           r == Rank(Len(a.entries), c)
<1>1. a.entries \in Seq(Entry) /\ a.total_size \in Nat
  BY DEF WellLaidOut
<1>2. CASE c = Finished
  BY <1>1, <1>2 DEF ChunkStart, Finished, Chunk
<1>3. CASE c \in Written(a.entries)
  <2>1. /\ m \in Nat /\ f \in [1 .. m + 1 + 1 -> Nat]
        /\ \A k \in 1 .. m + 1 :
             /\ f[k] = ChunkStart(a, g[k])
             /\ f[k + 1] = f[k] + ChunkSize(a.entries, g[k])
             /\ g[k] \in Written(a.entries)
        /\ f[m + 2] = a.total_size
    BY OffsetsAreStarts
  <2>2. r \in 1 .. m + 1 /\ g[r] = c
    BY <1>1, <1>3, ChunkOrderIs, RankInRange
  <2>3. \A b \in Written(a.entries) : ChunkSize(a.entries, b) \in Nat
    BY PiecesFill DEF Fills
  <2> HIDE DEF f, g, m, r
  <2>4. \A k \in 1 .. m + 1 : f[k] <= f[k + 1]
    <3> SUFFICES ASSUME NEW k \in 1 .. m + 1
                 PROVE  f[k] <= f[k + 1]
      OBVIOUS
    <3> DEFINE s == ChunkSize(a.entries, g[k])
    <3>1. f[k + 1] = f[k] + s /\ s \in Nat
      BY <2>1, <2>3
    <3>2. f[k] \in Nat
      BY <2>1
    <3> HIDE DEF s
    <3> QED
      BY <3>1, <3>2
  <2>5. f[r] <= f[m + 2]
    <3> DEFINE n == m + 1
               l == m + 2
    <3>1. n \in Nat /\ f \in [1 .. n + 1 -> Nat]
          /\ r \in 1 .. n + 1 /\ l \in 1 .. n + 1 /\ r <= l
      BY <2>1, <2>2
    <3>2. \A k \in 1 .. n : f[k] <= f[k + 1]
      BY <2>4
    <3> HIDE DEF n, l
    <3>3. f[r] <= f[l]
      BY <3>1, <3>2, Monotone
    <3> QED
      BY <3>3 DEF l
  <2>6. f[r] \in Nat
    BY <2>1, <2>2
  <2> QED
    BY <2>1, <2>2, <2>5, <2>6
<1> QED
  BY <1>2, <1>3 DEF Written

LEMMA SumsAlwaysFit == BuilderInv /\ writes = 0 => SumsFit
<1> SUFFICES ASSUME BuilderInv, writes = 0, NEW c \in Chunks(Built.entries)
             PROVE  ChunkStart(Built, c) <= U64Max
  BY DEF SumsFit
<1>1. entries \in Seq(MapEntry)
  BY DEF BuilderInv, TypeOK, MapEntry
<1>2. Built = Build(ItemsOf(entries)) /\ ItemsOf(entries) \in Seq(Item)
  BY <1>1, ItemsType DEF Built
<1>3. WellLaidOut(Built)
  BY <1>2, BuildLaysOut
<1>4. HonestSizes(Built)
  BY <1>1, <1>3, BuiltIsExpected
<1>5. ChunkStart(Built, c) \in Nat /\ ChunkStart(Built, c) <= Built.total_size
  BY <1>3, <1>4, StartsWithin
<1>6. Built.total_size = total_size /\ total_size \in Nat /\ total_size <= U64Max
  BY BuilderAssumption
  DEF BuilderInv, TypeOK, SizeIsBuiltUnlessWritten, SizeIsBuilt, Size
<1>7. U64Max \in Nat
  BY BuilderAssumption
<1> DEFINE start == ChunkStart(Built, c)
<1> HIDE DEF start
<1> QED
  BY <1>5, <1>6, <1>7 DEF start

(* The comment in build() is right: the offsets and sizes it adds up never *)
(* overflow, because add_entry has refused what would make the last of     *)
(* these sums overflow, as long as the map is not written to behind it.    *)
THEOREM SumsFitUnlessWritten == Spec => [](writes = 0 => SumsFit)
<1>1. BuilderInv => (writes = 0 => SumsFit)
  BY SumsAlwaysFit
<1> QED
  BY <1>1, BuilderAlways, PTL

(* add_entry returns TooLongZipFile for exactly the entries whose sums     *)
(* would overflow in build().                                              *)
THEOREM AcceptsWhatFits == Spec => []AcceptsExactlyWhatFits
<1>1. BuilderInv => AcceptsExactlyWhatFits
  <2> SUFFICES ASSUME BuilderInv, writes = 0, NEW name \in Names, NEW data \in Data
               PROVE  DoesNotFit(name, data.size) <=>
                        BuiltOf(Append(entries, [name |-> name,
                          value |-> NewBuilderEntry(data, time_converter)])).total_size
                            > U64Max
    BY DEF AcceptsExactlyWhatFits
  <2> DEFINE value == NewBuilderEntry(data, time_converter)
             x == [name |-> name, value |-> value]
  <2>1. value.data = data /\ x \in MapEntry
    BY NewEntryType DEF BuilderInv, TypeOK, MapEntry
  <2>2. entries \in Seq(MapEntry)
    BY DEF BuilderInv, TypeOK, MapEntry
  <2>3. total_size = BuiltOf(entries).total_size
    BY DEF BuilderInv, SizeIsBuiltUnlessWritten, SizeIsBuilt, Size, Built
  <2> HIDE DEF value
  <2>4. BuiltOf(Append(entries, x)).total_size = SizeWith(name, data.size)
    BY <2>1, <2>2, <2>3, SizeOfAppend DEF SizeWith
  <2> QED
    BY <2>4 DEF DoesNotFit, value
<1> QED
  BY <1>1, BuilderAlways, PTL

(* What build() hands to the reader is laid out as the reader takes for    *)
(* granted, also after writes to the map: the chunks follow each other     *)
(* from the first byte to the last, each at the offset written down for it. *)
THEOREM BuiltForReader == Spec => []BuiltIsWellLaidOut
<1>1. BuilderInv => BuiltIsWellLaidOut
  <2> SUFFICES ASSUME BuilderInv
               PROVE  WellLaidOut(Built)
    BY DEF BuiltIsWellLaidOut
  <2>1. entries \in Seq(MapEntry)
    BY DEF BuilderInv, TypeOK, MapEntry
  <2>2. Built = Build(ItemsOf(entries)) /\ ItemsOf(entries) \in Seq(Item)
    BY <2>1, ItemsType DEF Built
  <2> QED
    BY <2>2, BuildLaysOut
<1> QED
  BY <1>1, BuilderAlways, PTL

LEMMA BuilderUnzips ==
  ASSUME Zip64ExtraFieldSize = 28
  PROVE  BuilderInv => BuiltUnzips
<1> SUFFICES ASSUME BuilderInv
             PROVE  /\ writes = 0 => NamesFit /\ SumsFit
                    /\ Unzips(Image(Built, BuiltDetails), ExpectedEntries)
  BY DEF BuiltUnzips
<1>1. writes = 0 => NamesFit /\ SumsFit
  BY SumsAlwaysFit DEF BuilderInv
<1>2. entries \in Seq(MapEntry)
  BY DEF BuilderInv, TypeOK, MapEntry
<1>3. WellLaidOut(Built)
  <2>1. Built = Build(ItemsOf(entries)) /\ ItemsOf(entries) \in Seq(Item)
    BY <1>2, ItemsType DEF Built
  <2> QED
    BY <2>1, BuildLaysOut
<1>4. Unzips(Image(Built, BuiltDetails), ExpectedEntries)
  <2> DEFINE a == Built
             expected == ExpectedEntries
  <2>1. /\ WellLaidOut(a) /\ HonestSizes(a)
        /\ a.eocd_offset = a.cd_offset + a.cd_size
        /\ Len(expected) = Len(a.entries)
        /\ \A i \in 1 .. Len(a.entries) :
             expected[i] = ExpectedOf(a, BuiltDetails, i)
    BY <1>2, <1>3, BuiltIsExpected
  <2> HIDE DEF a, expected
  <2>2. Unzips(Image(a, BuiltDetails), expected)
    BY <2>1, WellLaidOutUnzips
  <2> QED
    BY <2>2 DEF a, expected
<1> QED
  BY <1>1, <1>4

(* The archive that build() makes of whatever is in the map can be         *)
(* unzipped: from the end of the file, its pointers lead through the       *)
(* directory to every entry, in the order in which they were added, with   *)
(* its name, data, CRC, time, type and permissions as documented.  28      *)
(* bytes is the size of the extra field as structs.rs packs it.            *)
THEOREM BuiltIsAnArchive ==
  ASSUME Zip64ExtraFieldSize = 28
  PROVE  Spec => []BuiltUnzips
<1>1. BuilderInv => BuiltUnzips
  BY BuilderUnzips
<1> QED
  BY <1>1, BuilderAlways, PTL
=============================================================================
