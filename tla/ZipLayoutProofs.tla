-------------------------- MODULE ZipLayoutProofs --------------------------
(***************************************************************************)
(* Proofs about ZipLayout: what the sums of Builder::build come to for any *)
(* list of entries, and that the archive it lays out is one that the       *)
(* reader can walk through.  A sum is a recursive function; what holds of  *)
(* all its values is proved by the last index at which it does.            *)
(***************************************************************************)
EXTENDS ZipLayout, FiniteSetTheorems, SequenceTheorems, TLAPS

(* A set of indices has a last element: i is the last one if the indices   *)
(* behind it are a minimal set.                                            *)
LEMMA LastIndex ==
  ASSUME NEW n \in Nat, NEW T \in SUBSET (1 .. n), T # {}
  PROVE  \E i \in T : \A j \in T : j <= i
<1> DEFINE S == 1 .. n
           R == StrictSubsetOrdering(S)
           D == {(i + 1) .. n : i \in T}
<1>1. IsWellFoundedOn(R, SUBSET S)
  <2>1. IsFiniteSet(S)
    BY FS_Interval
  <2>2. FiniteSubsetsOf(S) = SUBSET S
    BY <2>1, FS_FiniteSubsetsOfFinite
  <2> QED
    BY <2>2, FS_StrictSubsetOrderingWellFounded
<1>2. D \subseteq SUBSET S
  OBVIOUS
<1>3. D # {}
  <2>1. PICK i \in T : TRUE
    OBVIOUS
  <2>2. (i + 1) .. n \in D
    BY <2>1
  <2> QED
    BY <2>2
<1> HIDE DEF R, D
<1>4. PICK d \in D : \A e \in D : ~ (<< e, d >> \in R)
  BY <1>1, <1>2, <1>3, WFMin
<1>5. PICK i \in T : d = (i + 1) .. n
  BY DEF D
<1>6. \A j \in T : j <= i
  <2> SUFFICES ASSUME NEW j \in T, j > i
               PROVE  FALSE
    OBVIOUS
  <2> DEFINE e == (j + 1) .. n
  <2>1. e \in D
    BY DEF D
  <2>2. e \subseteq d /\ j \in d /\ j \notin e
    BY <1>5
  <2>3. << e, d >> \in R
    BY <2>1, <2>2, <1>2 DEF R, StrictSubsetOrdering
  <2> QED
    BY <2>1, <2>3, <1>4
<1> QED
  BY <1>6

-----------------------------------------------------------------------------
(* Running sums.                                                           *)

(* What holds of 1, and of i + 1 if it does of i, holds up to n + 1.       *)
LEMMA StepByStep ==
  ASSUME NEW n \in Nat, NEW T \in SUBSET (1 .. n + 1), 1 \in T,
         \A i \in 1 .. n : (\A j \in 1 .. i : j \in T) => i + 1 \in T
  PROVE  T = 1 .. n + 1
<1> DEFINE K == {k \in 1 .. n + 1 : \A j \in 1 .. k : j \in T}
<1>1. K \in SUBSET (1 .. n + 1) /\ 1 \in K
  OBVIOUS
<1>2. PICK k \in K : \A j \in K : j <= k
  <2>1. n + 1 \in Nat /\ K # {}
    BY <1>1
  <2> HIDE DEF K
  <2> DEFINE m == n + 1
  <2> HIDE DEF m
  <2> QED
    BY <1>1, <2>1, LastIndex DEF m
<1>3. k = n + 1
  <2> SUFFICES ASSUME k # n + 1
               PROVE  FALSE
    OBVIOUS
  <2>1. k \in 1 .. n /\ k + 1 \in T
    BY <1>2
  <2>2. k + 1 \in K
    BY <1>2, <2>1
  <2> QED
    BY <1>2, <2>1, <2>2
<1> QED
  BY <1>2, <1>3

(* There is a function that sums up as RunningSum does. *)
LEMMA SumExists ==
  ASSUME NEW s \in Seq(Nat)
  PROVE  \E g \in [1 .. Len(s) + 1 -> Nat] :
           g[1] = 0 /\ \A i \in 1 .. Len(s) : g[i + 1] = g[i] + s[i]
<1> DEFINE n == Len(s)
           Sums(g, k) == g[1] = 0 /\ \A i \in 1 .. k - 1 : g[i + 1] = g[i] + s[i]
           T == {k \in 1 .. n + 1 : \E g \in [1 .. k -> Nat] : Sums(g, k)}
<1>1. n \in Nat /\ \A i \in 1 .. n : s[i] \in Nat
  OBVIOUS
<1>2. 1 \in T
  <2>1. [i \in 1 .. 1 |-> 0] \in [1 .. 1 -> Nat] /\ Sums([i \in 1 .. 1 |-> 0], 1)
    OBVIOUS
  <2>2. 1 \in 1 .. n + 1
    BY <1>1
  <2> HIDE DEF Sums, n
  <2> QED
    BY <2>1, <2>2
<1>3. ASSUME NEW k \in 1 .. n, k \in T
      PROVE  k + 1 \in T
  <2>1. PICK g \in [1 .. k -> Nat] : Sums(g, k)
    BY <1>3
  <2> DEFINE h == [i \in 1 .. k + 1 |-> IF i <= k THEN g[i] ELSE g[k] + s[k]]
  <2>2. h \in [1 .. k + 1 -> Nat]
    BY <1>1, <1>3, <2>1
  <2>3. h[1] = 0
    BY <1>3, <2>1
  <2>4. ASSUME NEW i \in 1 .. k
        PROVE  h[i + 1] = h[i] + s[i]
    <3>1. CASE i = k
      BY <1>1, <1>3, <2>1, <3>1
    <3>2. CASE i # k
      <4>1. i \in 1 .. k - 1 /\ i + 1 <= k /\ i <= k /\ i + 1 \in 1 .. k + 1
            /\ i \in 1 .. k + 1
        BY <1>1, <1>3, <3>2
      <4>2. h[i + 1] = g[i + 1] /\ h[i] = g[i]
        BY <4>1
      <4> QED
        BY <2>1, <4>1, <4>2
    <3> QED
      BY <3>1, <3>2
  <2>5. k + 1 \in 1 .. n + 1 /\ (k + 1) - 1 = k
    BY <1>1, <1>3
  <2> HIDE DEF h
  <2>6. Sums(h, k + 1)
    BY <2>3, <2>4, <2>5
  <2> QED
    BY <2>2, <2>5, <2>6
<1>4. T = 1 .. n + 1
  <2>1. T \in SUBSET (1 .. n + 1)
    OBVIOUS
  <2>2. \A i \in 1 .. n : (\A j \in 1 .. i : j \in T) => i + 1 \in T
    <3> HIDE DEF T, n
    <3>1. \A i \in 1 .. n : i \in 1 .. i
      BY <1>1
    <3> QED
      BY <1>3, <3>1
  <2> HIDE DEF T, n
  <2> QED
    BY <1>1, <1>2, <2>1, <2>2, StepByStep
<1>5. n + 1 \in T /\ (n + 1) - 1 = n
  BY <1>1, <1>4
<1> QED
  BY <1>1, <1>5

(* The recursive function is that function. *)
LEMMA RunningSumIs ==
  ASSUME NEW s \in Seq(Nat)
  PROVE  /\ RunningSum(s) \in [1 .. Len(s) + 1 -> Nat]
         /\ RunningSum(s)[1] = 0
         /\ \A i \in 1 .. Len(s) : RunningSum(s)[i + 1] = RunningSum(s)[i] + s[i]
<1> DEFINE n == Len(s)
           f == RunningSum(s)
<1>1. n \in Nat
  OBVIOUS
<1>2. PICK g \in [1 .. n + 1 -> Nat] :
        g[1] = 0 /\ \A i \in 1 .. n : g[i + 1] = g[i] + s[i]
  BY SumExists
<1>3. g = [i \in 1 .. n + 1 |-> IF i = 1 THEN 0 ELSE g[i - 1] + s[i - 1]]
  <2> SUFFICES ASSUME NEW i \in 1 .. n + 1
               PROVE  g[i] = IF i = 1 THEN 0 ELSE g[i - 1] + s[i - 1]
    BY <1>2
  <2>1. CASE i # 1
    <3>1. i - 1 \in 1 .. n /\ (i - 1) + 1 = i
      BY <1>1, <2>1
    <3> QED
      BY <1>2, <2>1, <3>1
  <2> QED
    BY <1>2, <2>1
<1>4. f = [i \in 1 .. n + 1 |-> IF i = 1 THEN 0 ELSE f[i - 1] + s[i - 1]]
  BY <1>3 DEF RunningSum
<1> HIDE DEF f
<1>5. \A i \in 1 .. n + 1 : f[i] = g[i]
  <2> DEFINE T == {i \in 1 .. n + 1 : f[i] = g[i]}
  <2>1. 1 \in T
    BY <1>1, <1>2, <1>4
  <2>2. ASSUME NEW i \in 1 .. n, i \in T
        PROVE  i + 1 \in T
    <3>1. i + 1 \in 1 .. n + 1 /\ i + 1 # 1 /\ (i + 1) - 1 = i
      BY <1>1
    <3>2. f[i + 1] = f[i] + s[i]
      BY <1>4, <3>1
    <3> QED
      BY <1>2, <2>2, <3>1, <3>2
  <2>3. T \in SUBSET (1 .. n + 1)
    OBVIOUS
  <2>4. \A i \in 1 .. n : (\A j \in 1 .. i : j \in T) => i + 1 \in T
    BY <1>1, <2>2
  <2>5. T = 1 .. n + 1
    <3> HIDE DEF T, n
    <3> QED
      BY <1>1, <2>1, <2>3, <2>4, StepByStep
  <2> QED
    BY <2>5
<1>6. f = g
  BY <1>2, <1>4, <1>5
<1> QED
  BY <1>2, <1>6 DEF f

(* One more size changes nothing before it, and the last sum by itself. *)
LEMMA RunningSumAppend ==
  ASSUME NEW s \in Seq(Nat), NEW x \in Nat
  PROVE  RunningSum(Append(s, x))[Len(s) + 2]
           = RunningSum(s)[Len(s) + 1] + x
<1> DEFINE n == Len(s)
           t == Append(s, x)
           f == RunningSum(s)
           g == RunningSum(t)
<1>1. /\ n \in Nat /\ t \in Seq(Nat) /\ Len(t) = n + 1
      /\ t[n + 1] = x /\ \A i \in 1 .. n : t[i] = s[i]
  OBVIOUS
<1>2. f[1] = 0 /\ \A i \in 1 .. n : f[i + 1] = f[i] + s[i]
  BY RunningSumIs
<1>3. g[1] = 0 /\ \A i \in 1 .. n + 1 : g[i + 1] = g[i] + t[i]
  BY <1>1, RunningSumIs
<1> HIDE DEF f, g, t
<1>4. \A i \in 1 .. n + 1 : f[i] = g[i]
  <2> DEFINE T == {i \in 1 .. n + 1 : f[i] = g[i]}
  <2>1. 1 \in T
    BY <1>1, <1>2, <1>3
  <2>2. ASSUME NEW i \in 1 .. n, i \in T
        PROVE  i + 1 \in T
    BY <1>1, <1>2, <1>3, <2>2
  <2>3. T \in SUBSET (1 .. n + 1)
    OBVIOUS
  <2>4. \A i \in 1 .. n : (\A j \in 1 .. i : j \in T) => i + 1 \in T
    BY <1>1, <2>2
  <2>5. T = 1 .. n + 1
    <3> HIDE DEF T, n
    <3> QED
      BY <1>1, <2>1, <2>3, <2>4, StepByStep
  <2> QED
    BY <2>5
<1>5. g[(n + 1) + 1] = f[n + 1] + x /\ (n + 1) + 1 = n + 2
  BY <1>1, <1>3, <1>4
<1> QED
  BY <1>5 DEF f, g, t

-----------------------------------------------------------------------------
(* The archive that build() lays out.                                      *)

Item == [name_len : Nat, size : Nat, actual : Nat, crc32 : Crc]

LEMMA HeaderSizes ==
  ASSUME NEW l \in Nat
  PROVE  LocalHeaderSize(l) \in Nat /\ CdHeaderSize(l) \in Nat
  BY StructSizesAssumption DEF LocalHeaderSize, CdHeaderSize

(* The two lists of sizes that build() sums up. *)
LEMMA SizesOfItems ==
  ASSUME NEW items \in Seq(Item)
  PROVE  /\ EntrySizes(items) \in Seq(Nat)
         /\ CdHeaderSizes(items) \in Seq(Nat)
         /\ Len(EntrySizes(items)) = Len(items)
         /\ Len(CdHeaderSizes(items)) = Len(items)
         /\ \A i \in 1 .. Len(items) :
              /\ items[i] \in Item
              /\ EntrySizes(items)[i]
                   = LocalHeaderSize(items[i].name_len) + items[i].size
              /\ CdHeaderSizes(items)[i] = CdHeaderSize(items[i].name_len)
<1>1. Len(items) \in Nat /\ \A i \in 1 .. Len(items) : items[i] \in Item
  OBVIOUS
<1>2. \A i \in 1 .. Len(items) :
        /\ LocalHeaderSize(items[i].name_len) + items[i].size \in Nat
        /\ CdHeaderSize(items[i].name_len) \in Nat
  <2> SUFFICES ASSUME NEW i \in 1 .. Len(items)
               PROVE  /\ LocalHeaderSize(items[i].name_len) + items[i].size \in Nat
                      /\ CdHeaderSize(items[i].name_len) \in Nat
    OBVIOUS
  <2>1. items[i].name_len \in Nat /\ items[i].size \in Nat
    BY <1>1 DEF Item
  <2>2. /\ LocalHeaderSize(items[i].name_len) \in Nat
        /\ CdHeaderSize(items[i].name_len) \in Nat
    BY <2>1, HeaderSizes
  <2> QED
    BY <2>1, <2>2
<1>3. /\ EntrySizes(items) \in [1 .. Len(items) -> Nat]
      /\ CdHeaderSizes(items) \in [1 .. Len(items) -> Nat]
  BY <1>2 DEF EntrySizes, CdHeaderSizes
<1> QED
  BY <1>1, <1>3 DEF EntrySizes, CdHeaderSizes

LEMMA BuildSums ==
  ASSUME NEW items \in Seq(Item)
  PROVE  LET n == Len(items)
             a == Build(items)
             o == RunningSum(EntrySizes(items))
             d == RunningSum(CdHeaderSizes(items))
         IN
         /\ n \in Nat
         /\ o \in [1 .. n + 1 -> Nat] /\ d \in [1 .. n + 1 -> Nat]
         /\ o[1] = 0 /\ d[1] = 0
         /\ \A i \in 1 .. n :
              /\ o[i + 1] = o[i] + LocalHeaderSize(items[i].name_len)
                              + items[i].size
              /\ d[i + 1] = d[i] + CdHeaderSize(items[i].name_len)
         /\ a.cd_offset = o[n + 1]
         /\ a.eocd_offset = o[n + 1] + d[n + 1]
         /\ a.total_size = o[n + 1] + d[n + 1] + EocdSize
         /\ a.cd_pos = [i \in 1 .. n + 1 |-> o[n + 1] + d[i]]
         /\ a.entries \in Seq(Entry) /\ Len(a.entries) = n
         /\ \A i \in 1 .. n : /\ a.entries[i].offset = o[i]
                              /\ a.entries[i].name_len = items[i].name_len
                              /\ a.entries[i].size = items[i].size
<1> DEFINE n == Len(items)
           a == Build(items)
           s == EntrySizes(items)
           t == CdHeaderSizes(items)
           o == RunningSum(s)
           d == RunningSum(t)
<1>1. /\ n \in Nat /\ s \in Seq(Nat) /\ t \in Seq(Nat)
      /\ Len(s) = n /\ Len(t) = n
      /\ \A i \in 1 .. n :
           /\ items[i] \in Item
           /\ s[i] = LocalHeaderSize(items[i].name_len) + items[i].size
           /\ t[i] = CdHeaderSize(items[i].name_len)
  BY SizesOfItems
<1>2. a = [entries     |-> [i \in 1 .. n |->
                             [name_len |-> items[i].name_len,
                              size     |-> items[i].size,
                              offset   |-> o[i],
                              actual   |-> items[i].actual,
                              crc32    |-> items[i].crc32]],
           cd_offset   |-> o[n + 1],
           cd_size     |-> d[n + 1],
           eocd_offset |-> o[n + 1] + d[n + 1],
           total_size  |-> o[n + 1] + d[n + 1] + EocdSize,
           cd_pos      |-> [i \in 1 .. n + 1 |-> o[n + 1] + d[i]]]
  BY DEF Build
<1>3. /\ o \in [1 .. n + 1 -> Nat] /\ o[1] = 0
      /\ \A i \in 1 .. n : o[i + 1] = o[i] + s[i]
  BY <1>1, RunningSumIs
<1>4. /\ d \in [1 .. n + 1 -> Nat] /\ d[1] = 0
      /\ \A i \in 1 .. n : d[i + 1] = d[i] + t[i]
  BY <1>1, RunningSumIs
<1> HIDE DEF o, d, s, t, n, a
<1>5. \A i \in 1 .. n : o[i] \in Nat
  BY <1>1, <1>3
<1>6. ASSUME NEW i \in 1 .. n
      PROVE  o[i + 1] = o[i] + LocalHeaderSize(items[i].name_len)
                          + items[i].size
  <2>1. /\ LocalHeaderSize(items[i].name_len) \in Nat
        /\ items[i].size \in Nat
    BY <1>1, HeaderSizes DEF Item
  <2> DEFINE h == LocalHeaderSize(items[i].name_len)
             z == items[i].size
  <2>2. /\ h \in Nat /\ z \in Nat /\ o[i] \in Nat
        /\ s[i] = h + z /\ o[i + 1] = o[i] + s[i]
    BY <1>1, <1>3, <1>5, <2>1
  <2> HIDE DEF h, z
  <2>3. o[i + 1] = o[i] + h + z
    BY <2>2
  <2> QED
    BY <2>3 DEF h, z
<1>7. a.entries \in [1 .. n -> Entry]
  BY <1>1, <1>2, <1>5 DEF Item, Entry
<1>8. a.entries \in Seq(Entry) /\ Len(a.entries) = n
  BY <1>1, <1>7
<1>9. \A i \in 1 .. n : /\ a.entries[i].offset = o[i]
                       /\ a.entries[i].name_len = items[i].name_len
                       /\ a.entries[i].size = items[i].size
  BY <1>2
<1>10. /\ a.cd_offset = o[n + 1]
       /\ a.eocd_offset = o[n + 1] + d[n + 1]
       /\ a.total_size = o[n + 1] + d[n + 1] + EocdSize
       /\ a.cd_pos = [i \in 1 .. n + 1 |-> o[n + 1] + d[i]]
  BY <1>2
<1>11. \A i \in 1 .. n : d[i + 1] = d[i] + CdHeaderSize(items[i].name_len)
  BY <1>1, <1>4
<1> QED
  BY <1>1, <1>3, <1>4, <1>6, <1>8, <1>9, <1>10, <1>11
  DEF o, d, s, t, n, a

(* The archive that Builder::build makes of any entries is one the reader   *)
(* can take: its chunks tile the file from the first local header to the   *)
(* last byte, and every offset is where its chunk starts.                  *)
THEOREM BuildLaysOut ==
  ASSUME NEW items \in Seq(Item)
  PROVE  WellLaidOut(Build(items))
<1> DEFINE n == Len(items)
           a == Build(items)
           o == RunningSum(EntrySizes(items))
           d == RunningSum(CdHeaderSizes(items))
           e == a.entries
           At(k, i) == ChunkStart(a, Chunk(k, i))
           Size(k, i) == ChunkSize(e, Chunk(k, i))
<1>1. /\ n \in Nat
      /\ o \in [1 .. n + 1 -> Nat] /\ d \in [1 .. n + 1 -> Nat]
      /\ o[1] = 0 /\ d[1] = 0
      /\ \A i \in 1 .. n :
           /\ o[i + 1] = o[i] + LocalHeaderSize(items[i].name_len)
                           + items[i].size
           /\ d[i + 1] = d[i] + CdHeaderSize(items[i].name_len)
  BY BuildSums
<1>2. /\ a.cd_offset = o[n + 1]
      /\ a.eocd_offset = o[n + 1] + d[n + 1]
      /\ a.total_size = o[n + 1] + d[n + 1] + EocdSize
      /\ a.cd_pos = [i \in 1 .. n + 1 |-> o[n + 1] + d[i]]
  BY BuildSums
<1>3. /\ e \in Seq(Entry) /\ Len(e) = n
      /\ \A i \in 1 .. n : /\ e[i].offset = o[i]
                           /\ e[i].name_len = items[i].name_len
                           /\ e[i].size = items[i].size
                           /\ e[i].name_len \in Nat /\ e[i].size \in Nat
                           /\ e[i] \in Entry
  <2>1. /\ e \in Seq(Entry) /\ Len(e) = n
        /\ \A i \in 1 .. n : /\ e[i].offset = o[i]
                             /\ e[i].name_len = items[i].name_len
                             /\ e[i].size = items[i].size
    BY BuildSums
  <2>2. \A i \in 1 .. n : e[i] \in Entry
    BY <2>1
  <2> QED
    BY <2>1, <2>2 DEF Entry
<1> HIDE DEF o, d, e, n
<1>4. /\ EocdSize \in Nat
      /\ n + 1 \in 1 .. n + 1 /\ 1 \in 1 .. n + 1
      /\ o[n + 1] \in Nat /\ d[n + 1] \in Nat
  BY <1>1, StructSizesAssumption DEF EocdSize
<1>5. \A i \in 1 .. n :
        /\ At("LocalHeader", i) = e[i].offset
        /\ At("EntryData", i) = DataStart(a, i)
        /\ At("DataDescriptor", i) = DataStart(a, i) + e[i].size
        /\ At("CDFileHeader", i) = a.cd_pos[i]
        /\ DataStart(a, i) = e[i].offset + LocalFileHeaderSize + e[i].name_len
                                + Zip64ExtraFieldSize
        /\ Size("LocalHeader", i) = LocalFileHeaderSize + e[i].name_len
                                      + Zip64ExtraFieldSize
        /\ Size("EntryData", i) = e[i].size
        /\ Size("DataDescriptor", i) = DataDescriptor64Size
        /\ Size("CDFileHeader", i) = CentralDirectoryHeaderSize
                                       + e[i].name_len + Zip64ExtraFieldSize
  BY DEF ChunkStart, ChunkSize, Chunk, DataStart, e
<1>6. \A i \in 1 .. n :
        /\ NextChunk(e, Chunk("LocalHeader", i)) = Chunk("EntryData", i)
        /\ NextChunk(e, Chunk("EntryData", i)) = Chunk("DataDescriptor", i)
        /\ NextChunk(e, Chunk("DataDescriptor", i))
             = IF i + 1 <= n THEN Chunk("LocalHeader", i + 1)
                             ELSE Chunk("CDFileHeader", 1)
        /\ NextChunk(e, Chunk("CDFileHeader", i))
             = IF i + 1 <= n THEN Chunk("CDFileHeader", i + 1) ELSE Eocd
  BY <1>3 DEF NextChunk, Chunk
<1>7. /\ ChunkStart(a, Eocd) = a.eocd_offset
      /\ ChunkStart(a, Finished) = a.total_size
      /\ ChunkSize(e, Eocd) = EocdSize
      /\ NextChunk(e, Eocd) = Finished
  BY DEF ChunkStart, ChunkSize, NextChunk, Chunk, Eocd, Finished
<1> HIDE DEF At, Size, a
<1>8. ASSUME NEW i \in 1 .. n
      PROVE  /\ o[i] \in Nat /\ d[i] \in Nat
             /\ LocalHeaderSize(items[i].name_len)
                  = LocalFileHeaderSize + Zip64ExtraFieldSize + e[i].name_len
                      + DataDescriptor64Size
             /\ CdHeaderSize(items[i].name_len)
                  = CentralDirectoryHeaderSize + Zip64ExtraFieldSize
                      + e[i].name_len
  BY <1>1, <1>3 DEF LocalHeaderSize, CdHeaderSize
<1>9. ASSUME NEW i \in 1 .. n
      PROVE  /\ At("EntryData", i) = At("LocalHeader", i) + Size("LocalHeader", i)
             /\ At("DataDescriptor", i)
                  = At("EntryData", i) + Size("EntryData", i)
             /\ o[i + 1] = At("DataDescriptor", i) + Size("DataDescriptor", i)
             /\ o[n + 1] + d[i + 1]
                  = At("CDFileHeader", i) + Size("CDFileHeader", i)
  <2> DEFINE f == o[i]
             g == d[i]
             l == e[i].name_len
             z == e[i].size
             c == o[n + 1]
  <2>1. f \in Nat /\ g \in Nat /\ l \in Nat /\ z \in Nat /\ c \in Nat
    BY <1>3, <1>4, <1>8
  <2>2. /\ At("LocalHeader", i) = f
        /\ At("EntryData", i)
             = f + LocalFileHeaderSize + l + Zip64ExtraFieldSize
        /\ At("DataDescriptor", i)
             = f + LocalFileHeaderSize + l + Zip64ExtraFieldSize + z
        /\ Size("LocalHeader", i)
             = LocalFileHeaderSize + l + Zip64ExtraFieldSize
        /\ Size("EntryData", i) = z
        /\ Size("DataDescriptor", i) = DataDescriptor64Size
        /\ Size("CDFileHeader", i)
             = CentralDirectoryHeaderSize + l + Zip64ExtraFieldSize
    BY <1>3, <1>5
  <2>3. At("CDFileHeader", i) = c + g
    <3>1. i \in 1 .. n + 1
      BY <1>1
    <3>2. a.cd_pos[i] = c + g
      BY <1>2, <3>1
    <3> QED
      BY <1>5, <3>2
  <2> DEFINE h == LocalHeaderSize(items[i].name_len)
             k == CdHeaderSize(items[i].name_len)
  <2>4. /\ h = LocalFileHeaderSize + Zip64ExtraFieldSize + l
                 + DataDescriptor64Size
        /\ k = CentralDirectoryHeaderSize + Zip64ExtraFieldSize + l
    BY <1>8
  <2>5. o[i + 1] = f + h + z /\ d[i + 1] = g + k
    BY <1>1, <1>3
  <2> HIDE DEF f, g, l, z, c, h, k
  <2>6. /\ At("EntryData", i) = At("LocalHeader", i) + Size("LocalHeader", i)
        /\ At("DataDescriptor", i) = At("EntryData", i) + Size("EntryData", i)
    BY <2>1, <2>2, StructSizesAssumption
  <2>7. o[i + 1] = At("DataDescriptor", i) + Size("DataDescriptor", i)
    BY <2>1, <2>2, <2>4, <2>5, StructSizesAssumption
  <2>8. c + d[i + 1] = At("CDFileHeader", i) + Size("CDFileHeader", i)
    BY <2>1, <2>2, <2>3, <2>4, <2>5, StructSizesAssumption
  <2> QED
    BY <2>6, <2>7, <2>8 DEF c
<1>10. ASSUME NEW c \in Chunks(e) \ {Finished}
       PROVE  ChunkStart(a, NextChunk(e, c)) = ChunkStart(a, c) + ChunkSize(e, c)
  <2>1. CASE c = Eocd
    BY <1>2, <1>4, <1>7, <2>1
  <2>2. CASE c # Eocd
    <3>1. PICK k \in EntryKinds, i \in 1 .. n : c = Chunk(k, i)
      BY <1>3, <2>2 DEF Chunks, Chunk
    <3>2. CASE k = "LocalHeader"
      BY <1>6, <1>9, <3>1, <3>2 DEF At, Size
    <3>3. CASE k = "EntryData"
      BY <1>6, <1>9, <3>1, <3>3 DEF At, Size
    <3>4. CASE k = "DataDescriptor"
      <4>1. CASE i + 1 <= n
        <5>1. i + 1 \in 1 .. n
          BY <1>1, <4>1
        <5>2. At("LocalHeader", i + 1) = o[i + 1]
          BY <1>3, <1>5, <5>1
        <5> QED
          BY <1>6, <1>9, <3>1, <3>4, <4>1, <5>2 DEF At, Size
      <4>2. CASE ~ (i + 1 <= n)
        <5>1. i = n /\ 1 \in 1 .. n
          BY <1>1, <4>2
        <5>2. At("CDFileHeader", 1) = o[i + 1]
          <6>1. a.cd_pos[1] = o[n + 1] + 0
            BY <1>1, <1>2, <1>4
          <6> QED
            BY <1>4, <1>5, <5>1, <6>1
        <5> QED
          BY <1>6, <1>9, <3>1, <3>4, <4>2, <5>2 DEF At, Size
      <4> QED
        BY <4>1, <4>2
    <3>5. CASE k = "CDFileHeader"
      <4>1. CASE i + 1 <= n
        <5>1. i + 1 \in 1 .. n /\ i + 1 \in 1 .. n + 1
          BY <1>1, <4>1
        <5>2. At("CDFileHeader", i + 1) = o[n + 1] + d[i + 1]
          BY <1>2, <1>5, <5>1
        <5> QED
          BY <1>6, <1>9, <3>1, <3>5, <4>1, <5>2 DEF At, Size
      <4>2. CASE ~ (i + 1 <= n)
        <5>1. i = n
          BY <1>1, <4>2
        <5> QED
          BY <1>2, <1>6, <1>7, <1>9, <3>1, <3>5, <4>2, <5>1 DEF At, Size
      <4> QED
        BY <4>1, <4>2
    <3> QED
      BY <3>1, <3>2, <3>3, <3>4, <3>5 DEF EntryKinds
  <2> QED
    BY <2>1, <2>2
<1>11. ChunkStart(a, FirstChunk(e)) = 0
  <2>1. CASE e = << >>
    BY <1>1, <1>2, <1>3, <1>7, <2>1, EmptySeq DEF FirstChunk
  <2>2. CASE e # << >>
    <3>1. 1 \in 1 .. n
      BY <1>3, <2>2, EmptySeq
    <3> QED
      BY <1>1, <1>3, <1>5, <2>2, <3>1 DEF FirstChunk, At
  <2> QED
    BY <2>1, <2>2
<1>12. /\ a.cd_offset \in Nat /\ a.eocd_offset \in Nat /\ a.total_size \in Nat
       /\ a.cd_pos \in [1 .. n + 1 -> Nat]
       /\ a.cd_pos[1] = a.cd_offset
       /\ a.cd_pos[n + 1] = a.eocd_offset
  BY <1>1, <1>2, <1>4
<1> QED
  BY <1>3, <1>10, <1>11, <1>12 DEF WellLaidOut, a, e

=============================================================================
