------------------------ MODULE FilesystemWalkProofs ------------------------
(***************************************************************************)
(* Proofs about FilesystemWalk, for any trees, whatever happens to them    *)
(* while a walk goes on, and any number of calls: what a walk leaves in    *)
(* the builder, and that one that returns Ok left nothing out.             *)
(***************************************************************************)
EXTENDS FilesystemWalk, ZipBuilderProofs

-----------------------------------------------------------------------------
(* Paths.                                                                  *)

LEMMA FrontAppend ==
  ASSUME NEW S, NEW s \in Seq(S), NEW x \in S
  PROVE  /\ Front(Append(s, x)) = s /\ Last(Append(s, x)) = x
         /\ Append(s, x) \in Seq(S) /\ Len(Append(s, x)) = Len(s) + 1
<1> DEFINE p == Append(s, x)
<1>1. /\ Len(s) \in Nat /\ Len(p) = Len(s) + 1 /\ p[Len(s) + 1] = x
      /\ p \in Seq(S) /\ \A k \in 1 .. Len(s) : p[k] = s[k]
  OBVIOUS
<1> HIDE DEF p
<1>2. Last(p) = x
  BY <1>1 DEF Last
<1>3. Front(p) = s
  <2>1. Len(p) - 1 = Len(s)
    BY <1>1
  <2>2. Front(p) = SubSeq(p, 1, Len(s))
    BY <2>1 DEF Front
  <2>3. /\ SubSeq(p, 1, Len(s)) \in Seq(S)
        /\ Len(SubSeq(p, 1, Len(s))) = Len(s)
        /\ \A k \in 1 .. Len(s) : SubSeq(p, 1, Len(s))[k] = p[k]
    BY <1>1, SubSeqProperties
  <2> QED
    BY <1>1, <2>2, <2>3
<1> QED
  BY <1>1, <1>2, <1>3 DEF p

LEMMA FrontOf ==
  ASSUME NEW S, NEW s \in Seq(S), s # << >>
  PROVE  /\ Len(s) >= 1
         /\ Front(s) \in Seq(S) /\ Len(Front(s)) = Len(s) - 1
         /\ \A k \in 1 .. Len(s) - 1 : Front(s)[k] = s[k]
         /\ Last(s) \in S
         /\ s = Append(Front(s), Last(s))
<1> DEFINE m == Len(s) - 1
<1>1. Len(s) \in Nat /\ Len(s) >= 1 /\ m \in Nat /\ m + 1 = Len(s)
  BY EmptySeq
<1>2. Front(s) = SubSeq(s, 1, m) /\ s[m + 1] = Last(s)
  BY <1>1 DEF Front, Last
<1> HIDE DEF m
<1>3. /\ SubSeq(s, 1, m) \in Seq(S) /\ Len(SubSeq(s, 1, m)) = m
      /\ \A k \in 1 .. m : SubSeq(s, 1, m)[k] = s[k]
  BY <1>1, SubSeqProperties
<1>4. Last(s) \in S
  BY <1>1, <1>2
<1>5. s = Append(SubSeq(s, 1, m), Last(s))
  BY <1>1, <1>2, <1>3, <1>4
<1> QED
  BY <1>1, <1>2, <1>3, <1>4, <1>5 DEF m

LEMMA PathType ==
  ASSUME NEW p \in KnownPaths
  PROVE  /\ p \in Seq(DOMAIN Lossy) /\ Len(p) \in Nat
         /\ p # Root => /\ Len(p) >= 1
                        /\ Front(p) \in Seq(DOMAIN Lossy)
                        /\ Len(Front(p)) = Len(p) - 1
                        /\ \A k \in 1 .. Len(p) - 1 : Front(p)[k] = p[k]
                        /\ Last(p) \in DOMAIN Lossy
                        /\ p = Append(Front(p), Last(p))
                        /\ Front(p) # p
<1>1. p \in Seq(DOMAIN Lossy)
  BY WalkAssumption
<1>2. ASSUME p # Root
      PROVE  /\ Len(p) >= 1
             /\ Front(p) \in Seq(DOMAIN Lossy)
             /\ Len(Front(p)) = Len(p) - 1
             /\ \A k \in 1 .. Len(p) - 1 : Front(p)[k] = p[k]
             /\ Last(p) \in DOMAIN Lossy
             /\ p = Append(Front(p), Last(p))
             /\ Front(p) # p
  <2>1. Len(Front(p)) # Len(p)
    BY <1>1, <1>2, FrontOf DEF Root
  <2> QED
    BY <1>1, <1>2, <2>1, FrontOf DEF Root
<1> QED
  BY <1>1, <1>2

LEMMA AppendPath ==
  ASSUME NEW d \in Seq(DOMAIN Lossy), NEW x \in DOMAIN Lossy
  PROVE  /\ Front(Append(d, x)) = d /\ Last(Append(d, x)) = x
         /\ Append(d, x) # Root
<1>1. Len(Append(d, x)) = Len(d) + 1 /\ Len(d) \in Nat
  OBVIOUS
<1>2. Append(d, x) # << >>
  BY <1>1
<1> QED
  BY <1>2, FrontAppend DEF Root

LEMMA PrefixIs ==
  ASSUME NEW S, NEW q \in Seq(S), NEW p \in Seq(S)
  PROVE  IsPrefix(q, p) <=>
           Len(q) <= Len(p) /\ \A k \in 1 .. Len(q) : q[k] = p[k]
<1>1. Len(q) \in Nat /\ Len(p) \in Nat
  OBVIOUS
<1>2. /\ SubSeq(q, 1, Len(q)) \in Seq(S)
      /\ Len(SubSeq(q, 1, Len(q))) = Len(q)
      /\ \A k \in 1 .. Len(q) : SubSeq(q, 1, Len(q))[k] = q[k]
  BY <1>1, SubSeqProperties
<1>3. ASSUME Len(q) <= Len(p)
      PROVE  /\ SubSeq(p, 1, Len(q)) \in Seq(S)
             /\ Len(SubSeq(p, 1, Len(q))) = Len(q)
             /\ \A k \in 1 .. Len(q) : SubSeq(p, 1, Len(q))[k] = p[k]
  BY <1>1, <1>3, SubSeqProperties
<1> QED
  BY <1>1, <1>2, <1>3 DEF IsPrefix

(* What is below a path is below what the path is in. *)
LEMMA PrefixOfFront ==
  ASSUME NEW q \in KnownPaths, NEW p \in KnownPaths, p # Root,
         Front(p) \in Seq(DOMAIN Lossy)
  PROVE  /\ IsPrefix(q, Front(p)) => IsPrefix(q, p)
         /\ ~IsPrefix(p, Front(p))
         /\ IsPrefix(p, p)
<1>1. /\ p \in Seq(DOMAIN Lossy) /\ q \in Seq(DOMAIN Lossy)
      /\ Len(p) \in Nat /\ Len(q) \in Nat /\ Len(p) >= 1
      /\ Len(Front(p)) = Len(p) - 1
      /\ \A k \in 1 .. Len(p) - 1 : Front(p)[k] = p[k]
  BY PathType
<1> QED
  BY <1>1, PrefixIs

LEMMA LastOf ==
  ASSUME NEW p \in KnownPaths, NEW r \in KnownPaths, p # Root, r # Root,
         Front(p) = Front(r), Last(p) = Last(r)
  PROVE  p = r
  BY PathType

-----------------------------------------------------------------------------
(* Names.                                                                  *)

LossyPath(path) == [k \in DOMAIN path |-> Lossy[path[k]]]

NamePrefix(root_name) == IF root_name = None THEN << >> ELSE Front(root_name[1])

LEMMA PartsHas ==
  EmptyPart \in Parts /\ \A x \in DOMAIN Lossy : Lossy[x] \in Parts /\ Lossy[x] # EmptyPart
  BY NamesAssumption DEF Parts

LEMMA TrimTypes ==
  ASSUME NEW name \in Seq(Parts)
  PROVE  /\ TrimEnd(name) \in Seq(Parts) /\ Len(TrimEnd(name)) >= 1
         /\ ~EndsWithSlash(TrimEnd(name))
         /\ TrimBoth(name) \in Seq(Parts) /\ Len(TrimBoth(name)) >= 1
<1> DEFINE n == Len(name)
<1>1. n \in Nat /\ DOMAIN name = 1 .. n
  OBVIOUS
<1>2. << EmptyPart >> \in Seq(Parts) /\ Len(<< EmptyPart >>) = 1
  <2>1. \A x \in Parts : << x >> \in Seq(Parts) /\ Len(<< x >>) = 1
    OBVIOUS
  <2> QED
    BY <2>1, PartsHas
<1>3. CASE Solid(name) = {}
  <2>1. TrimEnd(name) = << EmptyPart >> /\ TrimBoth(name) = << EmptyPart >>
    BY <1>3 DEF TrimEnd, TrimBoth
  <2>2. ~EndsWithSlash(<< EmptyPart >>)
    BY <1>2 DEF EndsWithSlash
  <2> QED
    BY <1>2, <2>1, <2>2
<1>4. CASE Solid(name) # {}
  <2> DEFINE S == Solid(name)
             a == Min(S)
             b == Max(S)
  <2>1. S \in SUBSET (1 .. n) /\ S # {}
    BY <1>1, <1>4 DEF Solid
  <2>2. b \in S /\ \A j \in S : j <= b
    <3> HIDE DEF S
    <3>1. PICK i \in S : \A j \in S : j <= i
      BY <1>1, <2>1, LastIndex
    <3>2. \A j \in S : i >= j
      BY <1>1, <2>1, <3>1
    <3>3. b \in S /\ \A j \in S : b >= j
      BY <3>2 DEF Max
    <3>4. \A j \in S : j \in Int
      BY <1>1, <2>1
    <3> HIDE DEF b
    <3> QED
      BY <3>3, <3>4
  <2>3. a \in S /\ a <= b
    <3> HIDE DEF S, b
    <3> DEFINE T == {n + 1 - i : i \in S}
    <3>1. T \in SUBSET (1 .. n) /\ T # {}
      <4>1. \A i \in S : n + 1 - i \in 1 .. n
        BY <1>1, <2>1
      <4>2. T \subseteq 1 .. n
        BY <4>1
      <4>3. PICK i \in S : TRUE
        BY <2>1
      <4>4. n + 1 - i \in T
        BY <4>3
      <4> QED
        BY <4>2, <4>4
    <3>2. PICK i \in T : \A j \in T : j <= i
      <4> HIDE DEF T
      <4> QED
        BY <1>1, <3>1, LastIndex
    <3>3. PICK m \in S : i = n + 1 - m
      BY <3>2
    <3>4. \A j \in S : m <= j
      <4> SUFFICES ASSUME NEW j \in S
                   PROVE  m <= j
        OBVIOUS
      <4>1. n + 1 - j <= i
        BY <3>2
      <4> QED
        BY <1>1, <2>1, <3>3, <4>1
    <3>5. a \in S /\ \A j \in S : a <= j
      BY <3>4 DEF Min
    <3> QED
      BY <2>2, <3>5
  <2>4. name[b] # EmptyPart
    BY <2>2 DEF Solid
  <2>5. a \in Nat /\ b \in Nat /\ 1 <= a /\ a <= b /\ b <= n
    <3> HIDE DEF S, a, b
    <3> QED
      BY <1>1, <2>1, <2>2, <2>3
  <2>6. TrimEnd(name) = SubSeq(name, 1, b) /\ TrimBoth(name) = SubSeq(name, a, b)
    BY <1>4 DEF TrimEnd, TrimBoth
  <2> HIDE DEF a, b
  <2>7. /\ SubSeq(name, 1, b) \in Seq(Parts) /\ Len(SubSeq(name, 1, b)) = b
        /\ SubSeq(name, 1, b)[b] = name[b]
    BY <1>1, <2>5, SubSeqProperties
  <2>8. /\ SubSeq(name, a, b) \in Seq(Parts)
        /\ Len(SubSeq(name, a, b)) = b - a + 1
    BY <1>1, <2>5, SubSeqProperties
  <2>9. ~EndsWithSlash(SubSeq(name, 1, b))
    BY <2>4, <2>7 DEF EndsWithSlash, Last
  <2>10. b - a + 1 >= 1
    BY <2>5
  <2> QED
    BY <2>5, <2>6, <2>7, <2>8, <2>9, <2>10
<1> QED
  BY <1>3, <1>4

LEMMA SlashAdded ==
  ASSUME NEW name \in Seq(Parts), Len(name) >= 1
  PROVE  EndsWithSlash(WithSlash(name)) /\ WithSlash(name) \in Seq(Parts)
<1>1. EmptyPart \in Parts
  BY PartsHas
<1>2. Len(name) \in Nat
  OBVIOUS
<1>3. /\ Last(WithSlash(name)) = EmptyPart /\ Len(WithSlash(name)) = Len(name) + 1
      /\ WithSlash(name) \in Seq(Parts)
  BY <1>1, FrontAppend DEF WithSlash
<1> QED
  BY <1>2, <1>3 DEF EndsWithSlash

(* A cleaned root_name ends with a slash, make_entry_name's assertion. *)
LEMMA RootNameClean ==
  ASSUME NEW r \in RootNames
  PROVE  LET c == CleanRootName(r) IN
         c = None \/ /\ Len(c) = 1 /\ c # None
                     /\ c[1] \in Names /\ c[1] \in Seq(Parts)
                     /\ EndsWithSlash(c[1])
<1>1. CASE r = None
  BY <1>1 DEF CleanRootName
<1>2. CASE r # None
  <2>1. r[1] \in Seq(Parts)
    <3> DEFINE S == Seq(Parts)
    <3>1. r \in Seq(S) /\ Len(r) = 1
      BY <1>2, NamesAssumption
    <3> HIDE DEF S
    <3>2. r[1] \in S
      BY <3>1
    <3> QED
      BY <3>2 DEF S
  <2> DEFINE w == WithSlash(TrimBoth(r[1]))
  <2>2. w \in Seq(Parts) /\ EndsWithSlash(w)
    BY <2>1, TrimTypes, SlashAdded
  <2>3. CleanRootName(r) = << w >>
    BY <1>2 DEF CleanRootName, Some
  <2>4. CleanRootName(r)[1] \in Names
    BY <1>2, NamesAssumption
  <2> HIDE DEF w
  <2>5. << w >> # << >> /\ Len(<< w >>) = 1 /\ << w >>[1] = w
    OBVIOUS
  <2> QED
    BY <2>2, <2>3, <2>4, <2>5 DEF None
<1> QED
  BY <1>1, <1>2

(* add_filesystem_entry's names. *)
LEMMA SanitizedName ==
  ASSUME NEW name \in EntryNames, NEW is_directory \in BOOLEAN
  PROVE  LET new == SanitizeEntryNameSlashes(name, is_directory) IN
         new \in Names /\ (is_directory <=> EndsWithSlash(new))
<1>1. name \in Seq(Parts)
  BY NamesAssumption
<1>2. SanitizeEntryNameSlashes(name, is_directory) \in Names
  BY NamesAssumption
<1> QED
  BY <1>1, <1>2, TrimTypes, SlashAdded DEF SanitizeEntryNameSlashes

(* The names a walk makes: what is in a directory is named after it. *)
LEMMA MadeName ==
  ASSUME NEW r \in RootNames, NEW path \in KnownPaths, path # Root
  PROVE  LET c    == CleanRootName(r)
             base == MakeEntryName(path, c, FALSE)
         IN
         /\ base \in Names /\ base \in Seq(Parts)
         /\ ~EndsWithSlash(base)
         /\ MakeEntryName(path, c, TRUE) \in Names
         /\ MakeEntryName(path, c, TRUE) = Append(base, EmptyPart)
         /\ EndsWithSlash(Append(base, EmptyPart)) /\ Front(Append(base, EmptyPart)) = base
         /\ Front(path) \in KnownPaths \ {Root} =>
              base = Append(MakeEntryName(Front(path), c, FALSE), Lossy[Last(path)])
         /\ IsStrictPrefix(NamePrefix(c), base)
         /\ IsStrictPrefix(NamePrefix(c), Append(base, EmptyPart))
<1> DEFINE c == CleanRootName(r)
           prefix == NamePrefix(c)
           base == MakeEntryName(path, c, FALSE)
<1>1. prefix \in Seq(Parts)
  <2>1. CASE c = None
    BY <2>1 DEF NamePrefix
  <2>2. CASE c # None
    <3>1. c[1] \in Seq(Parts) /\ EndsWithSlash(c[1])
      BY <2>2, RootNameClean
    <3>2. c[1] # << >>
      BY <3>1 DEF EndsWithSlash
    <3> QED
      BY <2>2, <3>1, <3>2, FrontOf DEF NamePrefix
  <2> QED
    BY <2>1, <2>2
<1>2. /\ path \in Seq(DOMAIN Lossy) /\ Len(path) \in Nat /\ Len(path) >= 1
      /\ Last(path) \in DOMAIN Lossy /\ path = Append(Front(path), Last(path))
  BY PathType
<1>3. ASSUME NEW p \in Seq(DOMAIN Lossy)
      PROVE  LossyPath(p) \in Seq(Parts) /\ Len(LossyPath(p)) = Len(p)
  <2>1. \A k \in 1 .. Len(p) : p[k] \in DOMAIN Lossy
    OBVIOUS
  <2>2. LossyPath(p) \in [1 .. Len(p) -> Parts]
    <3>1. DOMAIN p = 1 .. Len(p)
      OBVIOUS
    <3>2. \A k \in 1 .. Len(p) : Lossy[p[k]] \in Parts
      BY <2>1, PartsHas
    <3> QED
      BY <3>1, <3>2 DEF LossyPath
  <2>3. Len(p) \in Nat
    OBVIOUS
  <2> QED
    BY <2>2, <2>3
<1>4. \A p : /\ MakeEntryName(p, c, FALSE) = prefix \o LossyPath(p) \o << >>
             /\ MakeEntryName(p, c, TRUE) = prefix \o LossyPath(p) \o << EmptyPart >>
  BY DEF MakeEntryName, NamePrefix, LossyPath
<1> HIDE DEF c, prefix
<1>5. ASSUME NEW p \in Seq(DOMAIN Lossy)
      PROVE  /\ MakeEntryName(p, c, FALSE) = prefix \o LossyPath(p)
             /\ MakeEntryName(p, c, FALSE) \in Seq(Parts)
             /\ MakeEntryName(p, c, TRUE) = Append(MakeEntryName(p, c, FALSE), EmptyPart)
  <2> DEFINE l == LossyPath(p)
  <2>1. l \in Seq(Parts)
    BY <1>3
  <2> HIDE DEF l
  <2>2. prefix \o l \in Seq(Parts)
    BY <1>1, <2>1, ConcatProperties
  <2> DEFINE m == prefix \o l
  <2> HIDE DEF m
  <2>3. m \o << >> = m /\ m \o << EmptyPart >> = Append(m, EmptyPart)
    <3>1. m \in Seq(Parts)
      BY <2>2 DEF m
    <3>2. \A x \in Parts : m \o << x >> = Append(m, x)
      BY <3>1
    <3>3. m \o << >> = m
      BY <3>1
    <3> QED
      BY <3>2, <3>3, PartsHas
  <2> QED
    BY <1>4, <2>2, <2>3 DEF m, l
<1>6. base \in Names /\ MakeEntryName(path, c, TRUE) \in Names
  BY NamesAssumption DEF c
<1>7. ASSUME NEW p \in Seq(DOMAIN Lossy), NEW x \in DOMAIN Lossy
      PROVE  MakeEntryName(Append(p, x), c, FALSE)
               = Append(MakeEntryName(p, c, FALSE), Lossy[x])
  <2>1. LossyPath(Append(p, x)) = Append(LossyPath(p), Lossy[x])
    BY <1>3 DEF LossyPath
  <2>2. Append(p, x) \in Seq(DOMAIN Lossy)
    OBVIOUS
  <2> DEFINE l == LossyPath(p)
             y == Lossy[x]
  <2>3. l \in Seq(Parts) /\ y \in Parts
    BY <1>3, PartsHas
  <2> HIDE DEF l, y
  <2>4. prefix \o Append(l, y) = Append(prefix \o l, y)
    BY <1>1, <2>3
  <2> QED
    BY <1>5, <2>1, <2>2, <2>4 DEF l, y
<1>8. ~EndsWithSlash(base)
  <2> DEFINE d == Front(path)
             y == Lossy[Last(path)]
             m == MakeEntryName(d, c, FALSE)
  <2>1. d \in Seq(DOMAIN Lossy)
    BY PathType
  <2>2. base = Append(m, y)
    BY <1>2, <1>7, <2>1
  <2>3. m \in Seq(Parts) /\ y \in Parts /\ y # EmptyPart
    BY <1>2, <1>5, <2>1, PartsHas
  <2> HIDE DEF d, y, m, base
  <2>4. Last(base) = y
    BY <2>2, <2>3, FrontAppend
  <2> QED
    BY <2>3, <2>4 DEF EndsWithSlash
<1>9. /\ MakeEntryName(path, c, TRUE) = Append(base, EmptyPart)
      /\ base \in Seq(Parts)
  BY <1>2, <1>5
<1>10. Len(base) >= 1
  <2> DEFINE l == LossyPath(path)
  <2>1. l \in Seq(Parts) /\ Len(l) \in Nat /\ Len(l) >= 1
    BY <1>2, <1>3
  <2>2. base = prefix \o l
    BY <1>2, <1>5
  <2> HIDE DEF l, base
  <2>3. Len(base) = Len(prefix) + Len(l)
    BY <1>1, <2>1, <2>2
  <2>4. Len(prefix) \in Nat
    BY <1>1
  <2> QED
    BY <2>1, <2>3, <2>4
<1>11. EndsWithSlash(Append(base, EmptyPart))
  BY <1>9, <1>10, SlashAdded DEF WithSlash
<1>12. Front(Append(base, EmptyPart)) = base
  <2>1. EmptyPart \in Parts
    BY PartsHas
  <2> QED
    BY <1>9, <2>1, FrontAppend
<1>13. Front(path) \in KnownPaths \ {Root} =>
         base = Append(MakeEntryName(Front(path), c, FALSE), Lossy[Last(path)])
  <2>1. Front(path) \in Seq(DOMAIN Lossy)
    BY PathType
  <2> QED
    BY <1>2, <1>7, <2>1
<1>14. /\ IsStrictPrefix(prefix, base)
       /\ IsStrictPrefix(prefix, Append(base, EmptyPart))
  <2> DEFINE l == LossyPath(path)
             longer == Append(base, EmptyPart)
  <2>1. l \in Seq(Parts) /\ Len(l) \in Nat /\ Len(l) >= 1
    BY <1>2, <1>3
  <2>2. base = prefix \o l /\ base \in Seq(Parts)
    BY <1>2, <1>5
  <2> HIDE DEF l, base
  <2>3. /\ Len(base) = Len(prefix) + Len(l)
        /\ \A k \in 1 .. Len(prefix) : base[k] = prefix[k]
    BY <1>1, <2>1, <2>2
  <2>4. /\ longer \in Seq(Parts) /\ Len(longer) = Len(base) + 1
        /\ \A k \in 1 .. Len(base) : longer[k] = base[k]
    BY <2>2, PartsHas
  <2> HIDE DEF longer
  <2>5. Len(prefix) \in Nat /\ Len(prefix) < Len(base) /\ Len(base) \in Nat
        /\ Len(prefix) < Len(longer)
    BY <1>1, <2>1, <2>2, <2>3, <2>4
  <2>6. \A k \in 1 .. Len(prefix) : longer[k] = prefix[k]
    BY <2>3, <2>4, <2>5
  <2>7. IsPrefix(prefix, base) /\ IsPrefix(prefix, longer)
    <3>1. Len(prefix) <= Len(base) /\ Len(prefix) <= Len(longer)
      BY <2>3, <2>4, <2>5
    <3>2. \A k \in 1 .. Len(prefix) : base[k] = prefix[k]
      BY <2>3
    <3>3. base \in Seq(Parts) /\ longer \in Seq(Parts)
      BY <2>2, <2>4
    <3> HIDE DEF prefix
    <3>4. IsPrefix(prefix, base)
      BY <1>1, <3>1, <3>2, <3>3, PrefixIs
    <3>5. IsPrefix(prefix, longer)
      BY <1>1, <2>6, <3>1, <3>3, PrefixIs
    <3> QED
      BY <3>4, <3>5
  <2>8. prefix # base /\ prefix # longer
    BY <2>5
  <2> QED
    BY <2>7, <2>8 DEF IsStrictPrefix, longer
<1> QED
  BY <1>6, <1>8, <1>9, <1>11, <1>12, <1>13, <1>14 DEF c, prefix

-----------------------------------------------------------------------------
(* The invariant.                                                          *)

CleanRootNames == {CleanRootName(r) : r \in RootNames}

(* The call is in the loop of add_directory_recursive. *)
Walking == call.op = "walk" /\ call.at \in {"open", "next", "metadata", "link"}

CallType ==
  [op : {"none", "walk", "entry"},
   at : {"idle", "root", "open", "next", "metadata", "link"},
   root_name : CleanRootNames \union {None}, before : Nat,
   root_metadata : KnownNodes \union {NoNode}, stack : Seq(KnownPaths),
   dir : KnownPaths, listing : SUBSET DOMAIN Lossy, path : KnownPaths,
   metadata : KnownNodes \union {NoNode},
   name : EntryNames \union {<< >>}]

OnDisk ==
  /\ fs \in [DOMAIN fs -> KnownNodes]
  /\ DOMAIN fs \subseteq KnownPaths
  /\ \A p \in DOMAIN fs \ {Root} :
       Front(p) \in DOMAIN fs /\ fs[Front(p)].kind = "Directory"

(* The locals of the call, as far as they depend on where it is. *)
CallFits ==
  /\ call \in CallType
  /\ call.before <= Len(entries)
  /\ \A x \in call.listing : Append(call.dir, x) \in KnownPaths
  /\ InCall => call.op # "none"
  /\ call.at = "root" => call.stack = << >> /\ call.listing = {}
  /\ call.op = "walk" => call.root_name \in CleanRootNames
  /\ InCall /\ call.op = "entry" => call.at = "link" /\ call.name \in EntryNames
  /\ call.at = "link" => call.metadata \in KnownNodes /\ call.metadata.kind = "Symlink"
  /\ Walking => call.root_metadata \in KnownNodes /\ call.root_metadata.kind = "Directory"
  /\ call.op = "walk" /\ call.at \in {"metadata", "link"} =>
       \E x \in DOMAIN Lossy : call.path = Append(call.dir, x)

TypeInv ==
  /\ BuilderInv
  /\ OnDisk
  /\ CallFits
  /\ touched \subseteq KnownPaths
  /\ calls \in 0 .. MaxCalls
  /\ outcome \in {"None", "Ok", "IOError", "NotADirectory", "Dropped"} \union AddErrors

(* The path that entry i was made from. *)
PathOf(i) == entries[i].value.data.path

(* The entry that a directory gets, and every directory has that a walk    *)
(* is in or will come to.                                                  *)
DirSeen(dir) ==
  \/ dir = Root
  \/ \E j \in Walked :
       /\ PathOf(j) = dir
       /\ entries[j].value.file_type = "Directory"
       /\ entries[j].name = MakeEntryName(dir, call.root_name, TRUE)

(* Directories before what is in them. *)
OrderInv ==
  /\ \A i \in Walked : PathOf(i) # Root =>
       /\ PathOf(i) \in KnownPaths
       /\ entries[i].name = MakeEntryName(PathOf(i), call.root_name,
                                          entries[i].value.file_type = "Directory")
       /\ \/ Front(PathOf(i)) = Root
          \/ \E j \in Walked :
               /\ j < i
               /\ PathOf(j) = Front(PathOf(i))
               /\ entries[j].value.file_type = "Directory"
               /\ entries[j].name = MakeEntryName(PathOf(j), call.root_name, TRUE)
  /\ Walking => /\ DirSeen(call.dir)
                /\ \A k \in DOMAIN call.stack : DirSeen(call.stack[k])

(* With the entry of the root the walk is over. *)
RootLast ==
  \A i \in Walked : PathOf(i) = Root =>
    /\ ~InCall
    /\ i = Len(entries)
    /\ call.root_name # None
    /\ entries[i].name = call.root_name[1]

(* The path is in the archive, as it is on disk. *)
Entered(p) ==
  \E i \in Walked : LET e == entries[i].value IN
    /\ e.data = FilesystemEntry(p, fs[p])
    /\ entries[i].name = MakeEntryName(p, call.root_name, fs[p].kind = "Directory")
    /\ ExternalAttributes(e.file_type, e.permissions).high % \o1000
         = IF fs[p].kind = "Symlink" THEN \o777 ELSE fs[p].mode % \o1000

(* The walk will come to the path: it is what the walk looks at, it is     *)
(* listed, its directory is still to be listed, or not entered itself.     *)
Pending(p) ==
  \/ Front(p) # Root /\ ~Entered(Front(p))
  \/ \E k \in DOMAIN call.stack : call.stack[k] = Front(p)
  \/ /\ call.dir = Front(p)
     /\ \/ call.at = "open"
        \/ Last(p) \in call.listing
        \/ call.at \in {"metadata", "link"} /\ call.path = p

(* What was on disk, or is where something changed. *)
Explained(p) == p \in DOMAIN fs \/ \E q \in touched : IsPrefix(q, p)

CoverInv ==
  /\ Walking =>
       /\ \A p \in Untouched : Entered(p) \/ Pending(p)
       /\ \A i \in Walked : PathOf(i) # Root /\ Explained(PathOf(i))
  /\ call.op = "walk" /\ call.at = "root" => Walked = {}
  /\ OkWalkIsTheTree

-----------------------------------------------------------------------------
(* What a step adds to the builder.                                        *)

LEMMA NodeType ==
  ASSUME NEW md \in KnownNodes
  PROVE  /\ md \in Node /\ md.kind \in BuilderFileType /\ md.mode \in Nat
         /\ md.modified \in Times \union {NoTime} /\ md.size \in Nat
<1>1. md \in Node
  <2>1. CASE md \in Nodes
    BY <2>1, WalkAssumption
  <2>2. CASE \E t \in Trees : \E p \in DOMAIN t : md = t[p]
    BY <2>2, WalkAssumption
  <2> QED
    BY <2>1, <2>2 DEF KnownNodes
<1> QED
  BY <1>1 DEF Node

ModeOf(md) == [kind |-> "UnixPermissions", mode |-> md.mode % \o1000]

(* BuilderEntry::metadata keeps the data, and takes type and mode. *)
LEMMA MetadataKeeps ==
  ASSUME NEW e \in BuilderEntry(Data), NEW md \in KnownNodes
  PROVE  LET new == Metadata(e, md) IN
         /\ new \in BuilderEntry(Data)
         /\ new.data = e.data
         /\ new.file_type = md.kind
         /\ new.permissions = ModeOf(md)
<1>1. /\ md.kind \in BuilderFileType /\ md.mode \in Nat
      /\ md.modified \in Times \union {NoTime}
  BY NodeType
<1>2. Metadata(e, md) \in BuilderEntry(Data) /\ Metadata(e, md).data = e.data
  BY <1>1, MetadataDescribes DEF Describes
<1> DEFINE typed == [e EXCEPT !.file_type = md.kind]
           p     == [kind |-> "UnixPermissions", mode |-> md.mode % \o1000]
           permitted == [typed EXCEPT !.permissions = p]
<1>3. Metadata(e, md) = IF md.modified = NoTime THEN permitted
                        ELSE DatetimeSystem(permitted, md.modified)
  <2>1. typed = CASE md.kind = "Directory" -> Directory(e)
                  [] md.kind = "Symlink"   -> Symlink(e)
                  [] OTHER                 -> File(e)
    <3>1. md.kind = "File" \/ md.kind = "Directory" \/ md.kind = "Symlink"
      BY <1>1 DEF BuilderFileType
    <3> QED
      BY <3>1 DEF File, Directory, Symlink
  <2>2. permitted = Permissions(typed, md.mode)
    <3> HIDE DEF typed
    <3> QED
      BY DEF Permissions, UnixPermissions, p
  <2> HIDE DEF permitted, typed
  <2> QED
    BY <2>1, <2>2 DEF Metadata, DatetimeSystemOrDefault
<1> HIDE DEF p
<1>4. permitted.file_type = md.kind /\ permitted.permissions = p
  BY DEF BuilderEntry
<1>5. \E d : \/ Metadata(e, md) = permitted
             \/ Metadata(e, md) = [permitted EXCEPT !.datetime = d]
  <2> HIDE DEF permitted
  <2> QED
    BY <1>3 DEF DatetimeSystem, DatetimeFields
<1>6. \A d : LET new == [permitted EXCEPT !.datetime = d] IN
             new.file_type = md.kind /\ new.permissions = p
  BY DEF BuilderEntry
<1> HIDE DEF permitted
<1>7. /\ Metadata(e, md).file_type = md.kind
      /\ Metadata(e, md).permissions = p
  BY <1>4, <1>5, <1>6
<1> QED
  BY <1>2, <1>7 DEF p, ModeOf

(* An entry that a walk or a call adds. *)
LEMMA DescribedIs ==
  ASSUME BuilderInv, NEW path \in KnownPaths, NEW node \in KnownNodes,
         NEW md \in KnownNodes
  PROVE  LET e == Described(FilesystemEntry(path, node), md) IN
         /\ e \in BuilderEntry(Data)
         /\ e.data = FilesystemEntry(path, node)
         /\ e.data.path = path /\ e.data.kind = node.kind
         /\ e.file_type = md.kind
         /\ node.kind = "Directory" => e.data.size = 0
<1> DEFINE data == FilesystemEntry(path, node)
<1>1. data \in Data
  BY NamesAssumption
<1>2. /\ data.path = path /\ data.kind = node.kind
      /\ node.kind = "Directory" => data.size = 0
  BY DEF FilesystemEntry
<1> HIDE DEF data
<1>3. /\ NewBuilderEntry(data, time_converter) \in BuilderEntry(Data)
      /\ NewBuilderEntry(data, time_converter).data = data
  BY <1>1, NewEntryType DEF BuilderInv, TypeOK
<1>4. LET e == Metadata(NewBuilderEntry(data, time_converter), md) IN
      /\ e \in BuilderEntry(Data) /\ e.data = data /\ e.file_type = md.kind
  <2> DEFINE n == NewBuilderEntry(data, time_converter)
  <2>1. n \in BuilderEntry(Data) /\ n.data = data
    BY <1>3
  <2> HIDE DEF n
  <2>2. LET e == Metadata(n, md) IN
        /\ e \in BuilderEntry(Data) /\ e.data = n.data /\ e.file_type = md.kind
    BY <2>1, MetadataKeeps
  <2> QED
    BY <2>1, <2>2 DEF n
<1> QED
  BY <1>2, <1>4 DEF Described, data

LEMMA DescribedMode ==
  ASSUME BuilderInv, NEW path \in KnownPaths, NEW node \in KnownNodes,
         NEW md \in KnownNodes
  PROVE  Described(FilesystemEntry(path, node), md).permissions = ModeOf(md)
<1>1. FilesystemEntry(path, node) \in Data
  BY NamesAssumption
<1>2. NewBuilderEntry(FilesystemEntry(path, node), time_converter)
        \in BuilderEntry(Data)
  BY <1>1, NewEntryType DEF BuilderInv, TypeOK
<1> QED
  BY <1>2, MetadataKeeps DEF Described

(* The mode that is written for it. *)
LEMMA ModeWritten ==
  ASSUME NEW kind \in BuilderFileType, NEW md, md.mode \in Nat
  PROVE  ExternalAttributes(kind, ModeOf(md)).high % \o1000
           = IF kind = "Symlink" THEN \o777 ELSE md.mode % \o1000
  BY DEF ModeOf, ExternalAttributes, FileTypeBits, PermBits, BuilderFileType

(* An entry is what EntriesAgree asks of it. *)
Agrees(x) ==
  /\ x.value.file_type = x.value.data.kind
  /\ x.value.file_type = "Directory" <=> EndsWithSlash(x.name)
  /\ x.value.file_type = "Directory" => x.value.data.size = 0

Adding(name, value) ==
  /\ name \in Names /\ value \in BuilderEntry(Data)
  /\ AddEntryAs(name, value)
  /\ Agrees([name |-> name, value |-> value])

LEMMA WalkName ==
  ASSUME CallFits, call.op = "walk"
  PROVE  \E r \in RootNames : call.root_name = CleanRootName(r)
  BY DEF CallFits, CleanRootNames

LEMMA WalkPath ==
  ASSUME CallFits, call.op = "walk", call.at \in {"metadata", "link"}
  PROVE  /\ call.path \in KnownPaths /\ call.path # Root
         /\ Front(call.path) = call.dir
<1>1. PICK x \in DOMAIN Lossy : call.path = Append(call.dir, x)
  BY DEF CallFits
<1>2. call.path \in KnownPaths /\ call.dir \in Seq(DOMAIN Lossy)
  BY PathType DEF CallFits, CallType
<1> QED
  BY <1>1, <1>2, AppendPath

(* Every step leaves the builder alone, or is one add_entry of an entry    *)
(* whose name, type and data agree.                                        *)
LEMMA StepAdds ==
  ASSUME TypeInv, WalkNext
  PROVE  UNCHANGED vars \/ \E name, value : Adding(name, value)
<1> USE DEF TypeInv
<1>1. ASSUME NEW name \in EntryNames, NEW path \in DOMAIN fs,
             AddFilesystemEntry(name, path)
      PROVE  UNCHANGED vars \/ \E n, v : Adding(n, v)
  <2> DEFINE md == fs[path]
             value == Described(FilesystemEntry(path, md), md)
             new == SanitizeEntryNameSlashes(name, md.kind = "Directory")
  <2>1. path \in KnownPaths /\ md \in KnownNodes
    BY DEF OnDisk
  <2>2. UNCHANGED vars \/ AddEntryAs(new, value)
    BY <1>1 DEF AddFilesystemEntry
  <2>3. new \in Names /\ ((md.kind = "Directory") <=> EndsWithSlash(new))
    BY SanitizedName
  <2>4. /\ value \in BuilderEntry(Data) /\ value.file_type = md.kind
        /\ value.data.kind = md.kind
        /\ md.kind = "Directory" => value.data.size = 0
    BY <2>1, DescribedIs
  <2> HIDE DEF value, new
  <2> QED
    BY <2>2, <2>3, <2>4 DEF Adding, Agrees
<1>2. ASSUME FinishWalk
      PROVE  UNCHANGED vars \/ \E n, v : Adding(n, v)
  <2> DEFINE md == call.root_metadata
             e == Described(FilesystemEntry(Root, md), md)
             value == Directory(e)
             new == call.root_name[1]
  <2>1. UNCHANGED vars \/ (call.root_name # None /\ AddEntryAs(new, value))
    BY <1>2 DEF FinishWalk
  <2>2. call.op = "walk" /\ md \in KnownNodes /\ md.kind = "Directory"
    BY <1>2 DEF FinishWalk, CallFits, CallType, InCall, Walking
  <2>3. call.root_name # None => new \in Names /\ EndsWithSlash(new)
    BY <2>2, WalkName, RootNameClean
  <2>4. Root \in KnownPaths
    BY DEF KnownPaths
  <2>5. /\ e \in BuilderEntry(Data)
        /\ e.data.kind = "Directory" /\ e.data.size = 0
    BY <2>2, <2>4, DescribedIs
  <2>6. Describes(e, value)
    BY <2>5, TypeDescribes
  <2>7. value.file_type = "Directory"
    BY <2>5 DEF Directory, BuilderEntry
  <2>8. value \in BuilderEntry(Data) /\ value.data = e.data
    BY <2>6 DEF Describes
  <2> HIDE DEF e, value, new
  <2> QED
    BY <2>1, <2>3, <2>5, <2>7, <2>8 DEF Adding, Agrees
<1>3. ASSUME EntryMetadata
      PROVE  UNCHANGED vars \/ \E n, v : Adding(n, v)
  <2> DEFINE md == fs[call.path]
             value == Described(FilesystemEntry(call.path, md), md)
             new == MakeEntryName(call.path, call.root_name, md.kind = "Directory")
  <2>1. UNCHANGED vars \/ (call.path \in DOMAIN fs /\ AddEntryAs(new, value))
    BY <1>3 DEF EntryMetadata, Adds, MayFail, Fails
  <2> SUFFICES ASSUME call.path \in DOMAIN fs
               PROVE  AddEntryAs(new, value) => \E n, v : Adding(n, v)
    BY <2>1
  <2>2. call.op = "walk"
    BY <1>3 DEF EntryMetadata, CallFits, CallType, InCall
  <2>3. call.path \in KnownPaths /\ call.path # Root /\ md \in KnownNodes
    BY <1>3, <2>2, WalkPath DEF EntryMetadata, OnDisk
  <2>4. new \in Names /\ ((md.kind = "Directory") <=> EndsWithSlash(new))
    BY <2>2, <2>3, WalkName, MadeName
  <2>5. /\ value \in BuilderEntry(Data) /\ value.file_type = md.kind
        /\ value.data.kind = md.kind
        /\ md.kind = "Directory" => value.data.size = 0
    BY <2>3, DescribedIs
  <2> HIDE DEF value, new
  <2> QED
    BY <2>4, <2>5 DEF Adding, Agrees
<1>4. ASSUME ReadLink
      PROVE  UNCHANGED vars \/ \E n, v : Adding(n, v)
  <2> DEFINE node == fs[call.path]
             value == Described(FilesystemEntry(call.path, node), call.metadata)
             new == IF call.op = "walk"
                    THEN MakeEntryName(call.path, call.root_name, FALSE)
                    ELSE SanitizeEntryNameSlashes(call.name, FALSE)
  <2>1. UNCHANGED vars \/ (Symlinks(call.path) /\ AddEntryAs(new, value))
    BY <1>4 DEF ReadLink, Adds, MayFail, Fails
  <2> SUFFICES ASSUME Symlinks(call.path)
               PROVE  AddEntryAs(new, value) => \E n, v : Adding(n, v)
    BY <2>1
  <2>2. /\ call.path \in KnownPaths /\ node \in KnownNodes
        /\ node.kind = "Symlink"
        /\ call.metadata \in KnownNodes /\ call.metadata.kind = "Symlink"
    BY <1>4 DEF ReadLink, Symlinks, CallFits, OnDisk
  <2>3. new \in Names /\ ~EndsWithSlash(new)
    <3>1. CASE call.op = "walk"
      <4>1. call.path # Root
        BY <1>4, <3>1, WalkPath DEF ReadLink
      <4> QED
        BY <2>2, <3>1, <4>1, WalkName, MadeName
    <3>2. CASE call.op # "walk"
      <4>1. call.name \in EntryNames
        BY <1>4, <3>2 DEF ReadLink, CallFits, CallType, InCall
      <4> QED
        BY <3>2, <4>1, SanitizedName
    <3> QED
      BY <3>1, <3>2
  <2>4. /\ value \in BuilderEntry(Data) /\ value.file_type = "Symlink"
        /\ value.data.kind = "Symlink"
    BY <2>2, DescribedIs
  <2> HIDE DEF value, new
  <2> QED
    BY <2>3, <2>4 DEF Adding, Agrees
<1>5. ASSUME FsChange
      PROVE  UNCHANGED vars
  BY <1>5 DEF FsChange, Deleted, Created, Replaced, Changes
<1>6. StatRoot \/ OpenDir \/ NextEntry \/ PopDirectory \/ DropCall => UNCHANGED vars
  BY DEF StatRoot, OpenDir, NextEntry, PopDirectory, DropCall, MayFail, Fails
<1>7. (\E root_name \in RootNames : AddDirectoryRecursive(root_name)) => UNCHANGED vars
  BY DEF AddDirectoryRecursive
<1> QED
  BY <1>1, <1>2, <1>3, <1>4, <1>5, <1>6, <1>7 DEF WalkNext, WalkStep, Begin

LEMMA AddedAt ==
  ASSUME TypeInv, NEW name \in Names, NEW value \in BuilderEntry(Data),
         AddEntryAs(name, value)
  PROVE  LET n == Len(entries) IN
         /\ n \in Nat /\ DOMAIN entries = 1 .. n
         /\ last' = "Ok" => /\ DOMAIN entries' = 1 .. n + 1 /\ Len(entries') = n + 1
                            /\ \A i \in 1 .. n : entries'[i] = entries[i]
                            /\ entries'[n + 1] = [name |-> name, value |-> value]
         /\ last' # "Ok" => entries' = entries /\ last' \in AddErrors
<1>1. entries \in Seq(MapEntry)
  BY DEF TypeInv, BuilderInv, TypeOK, MapEntry
<1>2. [name |-> name, value |-> value] \in MapEntry
  BY DEF MapEntry
<1>3. CASE last' = "Ok"
  <2>1. entries' = Append(entries, [name |-> name, value |-> value])
    BY <1>3 DEF AddEntryAs
  <2> DEFINE x == [name |-> name, value |-> value]
  <2> HIDE DEF x
  <2> QED
    BY <1>1, <1>2, <1>3, <2>1 DEF x
<1>4. CASE last' # "Ok"
  <2>1. last' \in AddErrors /\ entries' = entries
    BY <1>4 DEF AddEntryAs, AddResult, AddErrors
  <2> QED
    BY <1>1, <1>4, <2>1
<1> QED
  BY <1>3, <1>4

(* The entries there are stay; a call adds behind them. *)
LEMMA EntriesGrow ==
  ASSUME TypeInv, [WalkNext]_allVars
  PROVE  /\ Len(entries) \in Nat /\ Len(entries') \in Nat
         /\ DOMAIN entries = 1 .. Len(entries) /\ DOMAIN entries' = 1 .. Len(entries')
         /\ Len(entries) <= Len(entries') /\ Len(entries') <= Len(entries) + 1
         /\ \A i \in 1 .. Len(entries) : entries'[i] = entries[i]
<1>1. entries \in Seq(MapEntry)
  BY DEF TypeInv, BuilderInv, TypeOK, MapEntry
<1>2. CASE entries' = entries
  BY <1>1, <1>2
<1>3. CASE \E name, value : Adding(name, value)
  <2>1. PICK name \in Names, value \in BuilderEntry(Data) : AddEntryAs(name, value)
    BY <1>3 DEF Adding
  <2>2. CASE last' = "Ok"
    <3>1. /\ Len(entries) \in Nat /\ DOMAIN entries = 1 .. Len(entries)
          /\ DOMAIN entries' = 1 .. Len(entries) + 1
          /\ Len(entries') = Len(entries) + 1
          /\ \A i \in 1 .. Len(entries) : entries'[i] = entries[i]
      BY <2>1, <2>2, AddedAt
    <3> QED
      BY <3>1
  <2>3. CASE last' # "Ok"
    BY <1>2, <2>1, <2>3, AddedAt
  <2> QED
    BY <2>2, <2>3
<1> QED
  BY <1>2, <1>3, StepAdds DEF allVars, vars

LEMMA AgreeNext ==
  ASSUME TypeInv, EntriesAgree, [WalkNext]_allVars
  PROVE  EntriesAgree'
<1> SUFFICES ASSUME NEW i \in DOMAIN entries'
             PROVE  Agrees(entries'[i])
  BY DEF EntriesAgree, Agrees
<1>1. \A j \in DOMAIN entries : Agrees(entries[j])
  BY DEF EntriesAgree, Agrees
<1>2. CASE i \in 1 .. Len(entries)
  BY <1>1, <1>2, EntriesGrow
<1>3. CASE i \notin 1 .. Len(entries)
  <2>1. i = Len(entries) + 1 /\ entries' # entries /\ DOMAIN entries = 1 .. Len(entries)
    BY <1>3, EntriesGrow
  <2>2. PICK name, value : Adding(name, value)
    BY <2>1, StepAdds DEF allVars, vars
  <2>3. entries'[Len(entries) + 1] = [name |-> name, value |-> value]
    BY <2>1, <2>2, AddedAt DEF Adding
  <2> QED
    BY <2>1, <2>2, <2>3 DEF Adding
<1> QED
  BY <1>2, <1>3

-----------------------------------------------------------------------------
(* The types.                                                              *)

LEMMA DiskNext == ASSUME TypeInv, [WalkNext]_allVars PROVE OnDisk'
<1> USE DEF TypeInv, OnDisk
<1>1. CASE UNCHANGED fs
  BY <1>1
<1>2. CASE FsChange
  <2>1. PICK path \in Paths :
          Deleted(path) \/ \E node \in Nodes : Created(path, node) \/ Replaced(path, node)
    BY <1>2 DEF FsChange
  <2>2. path \in KnownPaths
    BY DEF KnownPaths
  <2>3. \A p \in DOMAIN fs \ {Root} :
          /\ p \in KnownPaths /\ Front(p) \in DOMAIN fs
          /\ Front(p) \in Below(path) => p \in Below(path)
    <3> SUFFICES ASSUME NEW p \in DOMAIN fs \ {Root}
                 PROVE  /\ p \in KnownPaths /\ Front(p) \in DOMAIN fs
                        /\ Front(p) \in Below(path) => p \in Below(path)
      OBVIOUS
    <3>1. p \in KnownPaths /\ Front(p) \in DOMAIN fs /\ p # Root
      OBVIOUS
    <3>2. Front(p) \in Seq(DOMAIN Lossy)
      BY <3>1, PathType
    <3> QED
      BY <2>2, <3>1, <3>2, PrefixOfFront DEF Below
  <2>4. path # Root => ~IsPrefix(path, Front(path))
    <3> SUFFICES ASSUME path # Root
                 PROVE  ~IsPrefix(path, Front(path))
      OBVIOUS
    <3>1. Front(path) \in Seq(DOMAIN Lossy)
      BY <2>2, PathType
    <3> QED
      BY <2>2, <3>1, PrefixOfFront
  <2>5. CASE Deleted(path)
    <3>1. fs' = [p \in DOMAIN fs \ Below(path) |-> fs[p]]
      BY <2>5 DEF Deleted, Changes
    <3> QED
      BY <2>3, <3>1
  <2>6. ASSUME NEW node \in Nodes, Created(path, node)
        PROVE  OnDisk'
    <3>1. /\ fs' = [p \in DOMAIN fs \union {path} |-> IF p = path THEN node ELSE fs[p]]
          /\ path \notin DOMAIN fs
          /\ path = Root \/ (Front(path) \in DOMAIN fs /\ fs[Front(path)].kind = "Directory")
      BY <2>6 DEF Created, Changes, IsDirectory
    <3>2. node \in KnownNodes
      BY DEF KnownNodes
    <3>3. DOMAIN fs' = DOMAIN fs \union {path} /\ \A p \in DOMAIN fs : fs'[p] = fs[p]
      BY <3>1
    <3>4. ASSUME NEW p \in DOMAIN fs' \ {Root}
          PROVE  Front(p) \in DOMAIN fs' /\ fs'[Front(p)].kind = "Directory"
      <4>1. Front(p) \in DOMAIN fs /\ fs[Front(p)].kind = "Directory"
        BY <3>1, <3>3
      <4> QED
        BY <3>3, <4>1
    <3>5. fs' \in [DOMAIN fs' -> KnownNodes] /\ DOMAIN fs' \subseteq KnownPaths
      BY <2>2, <3>1, <3>2
    <3> QED
      BY <3>4, <3>5
  <2>7. ASSUME NEW node \in Nodes, Replaced(path, node)
        PROVE  OnDisk'
    <3>1. /\ fs' = [p \in (DOMAIN fs \ Below(path)) \union {path} |->
                      IF p = path THEN node ELSE fs[p]]
          /\ path \in DOMAIN fs
      BY <2>7 DEF Replaced, Changes
    <3>2. node \in KnownNodes
      BY DEF KnownNodes
    <3>3. /\ DOMAIN fs' = (DOMAIN fs \ Below(path)) \union {path}
          /\ \A p \in DOMAIN fs : p # path /\ p \notin Below(path) => fs'[p] = fs[p]
      BY <3>1
    <3>4. path \in Below(path)
      <4>1. IsPrefix(path, path)
        BY <2>2, PathType, PrefixIs
      <4> QED
        BY <3>1, <4>1 DEF Below
    <3>5. ASSUME NEW p \in DOMAIN fs' \ {Root}
          PROVE  Front(p) \in DOMAIN fs' /\ fs'[Front(p)].kind = "Directory"
      <4>1. /\ p \in DOMAIN fs \ {Root}
            /\ Front(p) \in DOMAIN fs /\ fs[Front(p)].kind = "Directory"
        BY <3>1, <3>3
      <4>2. Front(p) \notin Below(path)
        <5>1. CASE p = path
          BY <2>4, <4>1, <5>1 DEF Below
        <5>2. CASE p # path
          BY <2>3, <3>3, <4>1, <5>2
        <5> QED
          BY <5>1, <5>2
      <4>3. Front(p) # path
        BY <3>4, <4>2
      <4> QED
        BY <3>3, <4>1, <4>2, <4>3
    <3>6. fs' \in [DOMAIN fs' -> KnownNodes] /\ DOMAIN fs' \subseteq KnownPaths
      BY <2>2, <3>1, <3>2
    <3> QED
      BY <3>5, <3>6
  <2> QED
    BY <2>1, <2>5, <2>6, <2>7
<1>3. CASE WalkNext /\ ~FsChange
  <2>1. UNCHANGED fs
    BY <1>3 DEF WalkNext, WalkStep, Begin, AddDirectoryRecursive, AddFilesystemEntry,
       StatRoot, OpenDir, NextEntry, PopDirectory, FinishWalk, EntryMetadata, ReadLink,
       DropCall, MayFail, Fails, Ends, Goes, Adds
  <2> QED
    BY <1>1, <2>1
<1> QED
  BY <1>1, <1>2, <1>3 DEF allVars, walkVars

LEMMA NoCallType == NoCall \in CallType
<1>1. Root \in KnownPaths /\ << >> \in Seq(KnownPaths)
  BY DEF KnownPaths
<1> QED
  BY <1>1 DEF NoCall, CallType

(* Where a call ends, all its locals are gone. *)
LEMMA EndsFits ==
  ASSUME TypeInv, NEW result, Ends(result), Len(entries) <= Len(entries'),
         Len(entries) \in Nat, Len(entries') \in Nat
  PROVE  CallFits'
<1>1. /\ call' = [op |-> call.op, at |-> "idle", root_name |-> call.root_name,
                  before |-> call.before, root_metadata |-> NoNode,
                  stack |-> << >>, dir |-> Root, listing |-> {}, path |-> Root,
                  metadata |-> NoNode, name |-> << >>]
  BY DEF Ends, NoCall
<1>2. /\ call \in CallType /\ call.before <= Len(entries)
      /\ call.op = "walk" => call.root_name \in CleanRootNames
  BY DEF TypeInv, CallFits
<1>3. call' \in CallType
  <2>1. Root \in KnownPaths /\ << >> \in Seq(KnownPaths)
    BY DEF KnownPaths
  <2> QED
    BY <1>1, <1>2, <2>1 DEF CallType
<1>4. call'.before <= Len(entries')
  BY <1>1, <1>2 DEF CallType
<1> QED
  BY <1>1, <1>2, <1>3, <1>4 DEF CallFits, InCall, Walking

LEMMA CallNext == ASSUME TypeInv, [WalkNext]_allVars PROVE CallFits'
<1>1. /\ Len(entries) \in Nat /\ Len(entries') \in Nat
      /\ Len(entries) <= Len(entries')
  BY EntriesGrow
<1>2. call \in CallType /\ CallFits
  BY DEF TypeInv, CallFits
<1>3. CASE \E result : Ends(result)
  BY <1>1, <1>3, EndsFits
<1>4. CASE call' = call
  BY <1>1, <1>2, <1>4 DEF CallFits, CallType, InCall, Walking
<1>5. ASSUME NEW root_name \in RootNames, AddDirectoryRecursive(root_name)
      PROVE  CallFits'
  <2>1. /\ call' = [NoCall EXCEPT !.op = "walk", !.at = "root",
                                  !.root_name = CleanRootName(root_name),
                                  !.before = Len(entries)]
        /\ entries' = entries
    BY <1>5 DEF AddDirectoryRecursive, vars
  <2>2. CleanRootName(root_name) \in CleanRootNames
    BY DEF CleanRootNames
  <2> DEFINE c == CleanRootName(root_name)
             n == Len(entries)
  <2> HIDE DEF c, n
  <2>3. call' = [op |-> "walk", at |-> "root", root_name |-> c, before |-> n,
                 root_metadata |-> NoNode, stack |-> << >>, dir |-> Root,
                 listing |-> {}, path |-> Root, metadata |-> NoNode, name |-> << >>]
    BY <2>1 DEF NoCall, c, n
  <2>4. Root \in KnownPaths /\ << >> \in Seq(KnownPaths)
    BY DEF KnownPaths
  <2>5. call' \in CallType
    BY <1>1, <2>2, <2>3, <2>4 DEF CallType, c, n
  <2>6. call'.before <= Len(entries')
    BY <1>1, <2>1, <2>3 DEF n
  <2> QED
    BY <2>2, <2>3, <2>5, <2>6 DEF CallFits, InCall, Walking, c
<1>6. ASSUME NEW name \in EntryNames, NEW path \in DOMAIN fs,
             AddFilesystemEntry(name, path)
      PROVE  CallFits'
  <2> DEFINE md == fs[path]
             n  == Len(entries)
  <2>1. path \in KnownPaths /\ md \in KnownNodes
    BY DEF TypeInv, OnDisk
  <2>2. Root \in KnownPaths /\ << >> \in Seq(KnownPaths)
    BY DEF KnownPaths
  <2>3. CASE md.kind = "Symlink"
    <3>1. /\ call' = [NoCall EXCEPT !.op = "entry", !.at = "link", !.path = path,
                                    !.metadata = md, !.name = name, !.before = n]
      BY <1>6, <2>3 DEF AddFilesystemEntry
    <3> HIDE DEF md, n
    <3>2. call' = [op |-> "entry", at |-> "link", root_name |-> None, before |-> n,
                   root_metadata |-> NoNode, stack |-> << >>, dir |-> Root,
                   listing |-> {}, path |-> path, metadata |-> md, name |-> name]
      BY <3>1 DEF NoCall
    <3>3. call' \in CallType
      BY <1>1, <2>1, <2>2, <3>2 DEF CallType, n
    <3>4. call'.before <= Len(entries')
      BY <1>1, <3>2 DEF n
    <3> QED
      BY <2>1, <2>3, <3>2, <3>3, <3>4 DEF CallFits, InCall, Walking
  <2>4. CASE md.kind # "Symlink"
    <3>1. /\ call' = [NoCall EXCEPT !.op = "entry", !.before = n]
      BY <1>6, <2>4 DEF AddFilesystemEntry
    <3> HIDE DEF md, n
    <3>2. call' = [op |-> "entry", at |-> "idle", root_name |-> None, before |-> n,
                   root_metadata |-> NoNode, stack |-> << >>, dir |-> Root,
                   listing |-> {}, path |-> Root, metadata |-> NoNode, name |-> << >>]
      BY <3>1 DEF NoCall
    <3>3. call' \in CallType
      BY <1>1, <2>1, <2>2, <3>2 DEF CallType, n
    <3>4. call'.before <= Len(entries')
      BY <1>1, <3>2 DEF n
    <3> QED
      BY <3>2, <3>3, <3>4 DEF CallFits, InCall, Walking
  <2> QED
    BY <2>3, <2>4
<1>7. CASE StatRoot /\ ~ \E result : Ends(result)
  <2>1. /\ call.at = "root" /\ Root \in DOMAIN fs /\ fs[Root].kind = "Directory"
        /\ call' = [call EXCEPT !.at = "open", !.dir = Root, !.root_metadata = fs[Root]]
    BY <1>7 DEF StatRoot, Goes, MayFail, Fails
  <2>2. fs[Root] \in KnownNodes /\ Root \in KnownPaths
    BY <2>1 DEF TypeInv, OnDisk
  <2>3. call.op = "walk" /\ \A x \in call.listing : Append(Root, x) \in KnownPaths
    BY <1>2, <2>1, <2>2 DEF CallFits, CallType, InCall
  <2>4. call' \in CallType
    BY <1>2, <2>1, <2>2 DEF CallType
  <2> QED
    BY <1>1, <1>2, <2>1, <2>2, <2>3, <2>4 DEF CallFits, CallType, InCall, Walking
<1>8. CASE OpenDir /\ ~ \E result : Ends(result)
  <2>1. /\ call.at = "open"
        /\ call' = [call EXCEPT !.at = "next", !.listing = Children(call.dir)]
    BY <1>8 DEF OpenDir, Goes, MayFail, Fails
  <2>2. \A x \in Children(call.dir) : Append(call.dir, x) \in KnownPaths /\ x \in DOMAIN Lossy
    <3> SUFFICES ASSUME NEW p \in DOMAIN fs \ {Root}, Front(p) = call.dir
                 PROVE  Append(call.dir, Last(p)) \in KnownPaths /\ Last(p) \in DOMAIN Lossy
      BY DEF Children
    <3>1. p \in KnownPaths
      BY DEF TypeInv, OnDisk
    <3> QED
      BY <3>1, PathType
  <2>3. call' \in CallType
    BY <1>2, <2>1, <2>2 DEF CallType
  <2>4. call'.before <= Len(entries')
    BY <1>1, <1>2, <2>1 DEF CallFits, CallType
  <2> HIDE DEF Children
  <2> QED
    BY <1>2, <2>1, <2>2, <2>3, <2>4 DEF CallFits, CallType, InCall, Walking
<1>9. CASE NextEntry /\ ~ \E result : Ends(result)
  <2>1. PICK x \in call.listing :
          call' = [call EXCEPT !.at = "metadata", !.path = Append(call.dir, x),
                               !.listing = @ \ {x}]
    BY <1>9 DEF NextEntry, Goes, MayFail, Fails
  <2>2. call.at = "next" /\ call.op = "walk"
    BY <1>2, <1>9 DEF NextEntry, CallFits, CallType, InCall
  <2>3. x \in DOMAIN Lossy /\ Append(call.dir, x) \in KnownPaths
    BY <1>2 DEF CallFits, CallType
  <2>4. call' \in CallType
    BY <1>2, <2>1, <2>3 DEF CallType
  <2>5. call'.before <= Len(entries')
    BY <1>1, <1>2, <2>1 DEF CallFits, CallType
  <2> QED
    BY <1>2, <2>1, <2>2, <2>3, <2>4, <2>5 DEF CallFits, CallType, InCall, Walking
<1>10. CASE PopDirectory
  <2>1. /\ call.at = "next" /\ call.listing = {} /\ call.stack # << >>
        /\ call' = [call EXCEPT !.at = "open", !.dir = Last(call.stack),
                                !.stack = Popped(call.stack)]
    BY <1>10 DEF PopDirectory, Goes
  <2>2. Last(call.stack) \in KnownPaths /\ Popped(call.stack) \in Seq(KnownPaths)
    BY <1>2, <2>1, FrontOf DEF CallType, Popped
  <2>3. call' \in CallType
    BY <1>2, <2>1, <2>2 DEF CallType
  <2>4. call'.before <= Len(entries')
    BY <1>1, <1>2, <2>1 DEF CallFits, CallType
  <2> QED
    BY <1>2, <2>1, <2>3, <2>4 DEF CallFits, CallType, InCall, Walking
<1>11. CASE FinishWalk
  BY <1>3, <1>11 DEF FinishWalk
<1>12. CASE EntryMetadata /\ ~ \E result : Ends(result)
  <2>1. CASE call' = [call EXCEPT !.at = "link", !.metadata = fs[call.path]]
             /\ call.path \in DOMAIN fs /\ fs[call.path].kind = "Symlink"
    <3>1. call.at = "metadata" /\ fs[call.path] \in KnownNodes
      BY <1>12, <2>1 DEF EntryMetadata, TypeInv, OnDisk
    <3>2. call' \in CallType
      BY <1>2, <2>1, <3>1 DEF CallType
    <3>3. call'.before <= Len(entries')
      BY <1>1, <1>2, <2>1 DEF CallFits, CallType
    <3> QED
      BY <1>2, <2>1, <3>1, <3>2, <3>3 DEF CallFits, CallType, InCall, Walking
  <2>2. CASE call' = [call EXCEPT !.at = "next",
                                  !.stack = Pushed(@, call.path, fs[call.path])]
    <3>1. call.at = "metadata"
      BY <1>12 DEF EntryMetadata
    <3> DEFINE stack == Pushed(call.stack, call.path, fs[call.path])
    <3>2. stack \in Seq(KnownPaths)
      BY <1>2 DEF CallType, Pushed
    <3> HIDE DEF stack
    <3>3. call' = [call EXCEPT !.at = "next", !.stack = stack]
      BY <1>2, <2>2 DEF stack, CallType
    <3>4. call' \in CallType
      BY <1>2, <3>2, <3>3 DEF CallType
    <3>5. call'.before <= Len(entries')
      BY <1>1, <1>2, <3>3 DEF CallFits, CallType
    <3> QED
      BY <1>2, <3>1, <3>3, <3>4, <3>5 DEF CallFits, CallType, InCall, Walking
  <2> QED
    BY <1>12, <2>1, <2>2 DEF EntryMetadata, Adds, Goes, MayFail, Fails
<1>13. CASE ReadLink /\ ~ \E result : Ends(result)
  <2>1. call.at = "link" /\ call' = [call EXCEPT !.at = "next"] /\ call.op = "walk"
    BY <1>13 DEF ReadLink, Adds, Goes, MayFail, Fails
  <2>2. call' \in CallType
    BY <1>2, <2>1 DEF CallType
  <2>3. call'.before <= Len(entries')
    BY <1>1, <1>2, <2>1 DEF CallFits, CallType
  <2> QED
    BY <1>2, <2>1, <2>2, <2>3 DEF CallFits, CallType, InCall, Walking
<1>14. CASE DropCall
  BY <1>3, <1>14 DEF DropCall
<1>15. CASE FsChange
  <2>1. CASE call' = call
    BY <1>4, <2>1
  <2>2. CASE call' # call
    <3>1. PICK path \in Paths : \E listing :
            /\ listing \subseteq call.listing \union {Last(path)}
            /\ call.at # "root"
            /\ path # Root /\ Front(path) = call.dir
            /\ call' = [call EXCEPT !.listing = listing]
      BY <1>15, <2>2 DEF FsChange, Deleted, Created, Replaced, Changes
    <3> PICK listing :
            /\ listing \subseteq call.listing \union {Last(path)}
            /\ call.at # "root"
            /\ path # Root /\ Front(path) = call.dir
            /\ call' = [call EXCEPT !.listing = listing]
      BY <3>1
    <3>2. path \in KnownPaths
      BY DEF KnownPaths
    <3>3. Last(path) \in DOMAIN Lossy /\ Append(call.dir, Last(path)) \in KnownPaths
      BY <3>1, <3>2, PathType
    <3>4. call' \in CallType
      BY <1>2, <3>1, <3>3 DEF CallType
    <3>5. call'.before <= Len(entries')
      BY <1>1, <1>2, <3>1 DEF CallFits, CallType
    <3> QED
      BY <1>2, <3>1, <3>3, <3>4, <3>5 DEF CallFits, CallType, InCall, Walking
  <2> QED
    BY <2>1, <2>2
<1> QED
  BY <1>3, <1>4, <1>5, <1>6, <1>7, <1>8, <1>9, <1>10, <1>11, <1>12, <1>13, <1>14,
     <1>15 DEF WalkNext, WalkStep, Begin, allVars, walkVars

LEMMA TypeInit == WalkInit => TypeInv /\ EntriesAgree
<1> SUFFICES ASSUME WalkInit
             PROVE  TypeInv /\ EntriesAgree
  OBVIOUS
<1>1. BuilderInv
  BY BuilderInit DEF WalkInit
<1>2. OnDisk
  BY WalkAssumption DEF WalkInit, OnDisk, KnownPaths, KnownNodes
<1>3. call = NoCall /\ entries = << >>
  BY DEF WalkInit, Init
<1>4. /\ call.before = 0 /\ call.listing = {} /\ call.at = "idle" /\ call.op = "none"
      /\ Len(entries) = 0
  BY <1>3 DEF NoCall
<1>5. call \in CallType
  BY <1>3, NoCallType
<1>6. CallFits
  BY <1>4, <1>5 DEF CallFits, InCall, Walking
<1> QED
  BY <1>1, <1>2, <1>3, <1>6, WalkAssumption DEF WalkInit, TypeInv, EntriesAgree

LEMMA TypeNext == ASSUME TypeInv, [WalkNext]_allVars PROVE TypeInv'
<1>1. BuilderInv'
  <2>1. CASE UNCHANGED vars
    BY <2>1, BuilderNext DEF TypeInv
  <2>2. CASE \E name, value : Adding(name, value)
    BY <2>2, BuilderAdd DEF TypeInv, Adding
  <2> QED
    BY <2>1, <2>2, StepAdds DEF allVars
<1>2. OnDisk' /\ CallFits'
  BY DiskNext, CallNext
<1>3. touched' \subseteq KnownPaths
  <2>1. touched' = touched \/ touched' = {} \/ \E p \in Paths : touched' = touched \union {p}
    BY DEF WalkNext, WalkStep, Begin, AddDirectoryRecursive, AddFilesystemEntry,
       StatRoot, OpenDir, NextEntry, PopDirectory, FinishWalk, EntryMetadata, ReadLink,
       DropCall, MayFail, Fails, Ends, Goes, Adds, FsChange, Deleted, Created, Replaced,
       Changes, allVars, walkVars
  <2> QED
    BY <2>1 DEF TypeInv, KnownPaths
<1>4. calls' \in 0 .. MaxCalls
  <2>1. calls' = calls \/ (calls < MaxCalls /\ calls' = calls + 1)
    BY DEF WalkNext, WalkStep, Begin, AddDirectoryRecursive, AddFilesystemEntry,
       StatRoot, OpenDir, NextEntry, PopDirectory, FinishWalk, EntryMetadata, ReadLink,
       DropCall, MayFail, Fails, Ends, Goes, Adds, FsChange, Deleted, Created, Replaced,
       Changes, allVars, walkVars
  <2> QED
    BY <2>1, WalkAssumption DEF TypeInv
<1>5. outcome' \in {"None", "Ok", "IOError", "NotADirectory", "Dropped"} \union AddErrors
  <2>1. \/ outcome' \in {outcome, "None", "Ok", "IOError", "NotADirectory", "Dropped"}
        \/ outcome' = last'
    BY DEF WalkNext, WalkStep, Begin, AddDirectoryRecursive, AddFilesystemEntry,
       StatRoot, OpenDir, NextEntry, PopDirectory, FinishWalk, EntryMetadata, ReadLink,
       DropCall, MayFail, Fails, Ends, Goes, Adds, FsChange, Deleted, Created, Replaced,
       Changes, allVars, walkVars
  <2>2. outcome' = last' => last' \in {"Ok"} \union AddErrors \/ UNCHANGED vars
    BY StepAdds DEF Adding, AddEntryAs, AddResult, AddErrors, allVars
  <2>3. last \in {"Ok", "None"} \union AddErrors
    BY DEF TypeInv, BuilderInv, TypeOK
  <2> QED
    BY <2>1, <2>2, <2>3 DEF TypeInv, vars
<1> QED
  BY <1>1, <1>2, <1>3, <1>4, <1>5 DEF TypeInv

LEMMA TypeAlways == WalkSpec => [](TypeInv /\ EntriesAgree)
<1>1. TypeInv /\ EntriesAgree /\ [WalkNext]_allVars => (TypeInv /\ EntriesAgree)'
  BY TypeNext, AgreeNext
<1> QED
  BY <1>1, TypeInit, PTL DEF WalkSpec

(* Walks and calls keep the builder, the tree, and their own locals to     *)
(* their types, whatever the tree turns into: no name but one that can be  *)
(* given, no data but that of something on disk, no sum past u64.          *)
THEOREM WalkTypeCorrect == WalkSpec => []WalkTypeOK
<1>1. TypeInv => WalkTypeOK
  <2> SUFFICES ASSUME TypeInv
               PROVE  WalkTypeOK
    OBVIOUS
  <2>1. KnownPaths \subseteq FileSystemPath /\ \A md \in KnownNodes : md \in Node
    BY WalkAssumption, NodeType DEF FileSystemPath
  <2>2. NoNode \in Node
    BY DEF NoNode, Node, BuilderFileType
  <2>3. TypeOK /\ fs \in [DOMAIN fs -> Node] /\ DOMAIN fs \subseteq FileSystemPath
    BY <2>1 DEF TypeInv, OnDisk, BuilderInv
  <2>4. call \in CallType
    BY DEF TypeInv, CallFits
  <2>5. call.stack \in Seq(FileSystemPath)
    <3>1. call.stack \in Seq(KnownPaths)
      BY <2>4 DEF CallType
    <3> HIDE DEF FileSystemPath, KnownPaths
    <3> QED
      BY <2>1, <3>1
  <2> QED
    BY <2>1, <2>2, <2>3, <2>4, <2>5 DEF WalkTypeOK, TypeInv, CallType
<1> QED
  BY <1>1, TypeAlways, PTL

(* Builder::size() keeps up with build() through walks and calls too: also *)
(* after one that failed or was dropped halfway.                           *)
THEOREM WalkSizeIsCorrect == WalkSpec => []SizeIsBuiltUnlessWritten
<1>1. TypeInv => SizeIsBuiltUnlessWritten
  BY DEF TypeInv, BuilderInv
<1> QED
  BY <1>1, TypeAlways, PTL

(* What a walk or a call leaves in the builder can be built and unzipped,  *)
(* also after one that failed or was dropped halfway: no name is too long, *)
(* no sum of build() overflows, and whoever unzips the archive finds every *)
(* entry with its name, data, time, type and mode.  With OkWalkIsTheTree,  *)
(* what is found after an Ok is the tree.                                  *)
THEOREM WalkIsAnArchive ==
  ASSUME Zip64ExtraFieldSize = 28
  PROVE  WalkSpec => [](NamesFit /\ SumsFit /\ BuiltUnzips)
<1>1. WalkInit => writes = 0
  BY DEF WalkInit, Init
<1>2. TypeInv /\ writes = 0 /\ [WalkNext]_allVars => (writes = 0)'
  <2> SUFFICES ASSUME TypeInv, writes = 0, [WalkNext]_allVars
               PROVE  writes' = 0
    OBVIOUS
  <2>1. CASE UNCHANGED vars
    BY <2>1 DEF vars
  <2>2. CASE \E name, value : Adding(name, value)
    BY <2>2 DEF Adding, AddEntryAs
  <2> QED
    BY <2>1, <2>2, StepAdds DEF allVars
<1>3. TypeInv /\ writes = 0 => NamesFit /\ SumsFit /\ BuiltUnzips
  BY SumsAlwaysFit, BuilderUnzips DEF TypeInv, BuilderInv
<1> QED
  BY <1>1, <1>2, <1>3, TypeAlways, PTL DEF WalkSpec

(* The slash at the end of an entry's name, its type and its data agree,   *)
(* also where they come from two answers of the file system: what stops    *)
(* being a symlink between metadata and read_link makes the call fail.     *)
THEOREM EntriesAlwaysAgree == WalkSpec => []EntriesAgree
  BY TypeAlways, PTL

-----------------------------------------------------------------------------
(* What a walk does.                                                       *)

(* The call goes on, or has ended and is not forgotten. *)
SameCall ==
  /\ call'.op = call.op
  /\ call'.root_name = call.root_name
  /\ call'.before = call.before

LEMMA CallFields ==
  ASSUME TypeInv
  PROVE  /\ call \in CallType /\ call.before \in Nat /\ call.before <= Len(entries)
         /\ Len(entries) \in Nat /\ DOMAIN entries = 1 .. Len(entries)
<1>1. entries \in Seq(MapEntry)
  BY DEF TypeInv, BuilderInv, TypeOK, MapEntry
<1> QED
  BY <1>1 DEF TypeInv, CallFits, CallType

LEMMA CallGoesOn ==
  ASSUME TypeInv, [WalkNext]_allVars
  PROVE  \/ Walked' = {} /\ ~InCall /\ call'.at # "idle" /\ ~Walking'
            /\ call'.stack = << >>
         \/ Walked' = {} /\ call'.op = "entry"
         \/ SameCall
<1>1. call \in CallType /\ Len(entries) \in Nat /\ DOMAIN entries = 1 .. Len(entries)
  BY CallFields
<1>2. ASSUME NEW root_name \in RootNames, AddDirectoryRecursive(root_name), ~InCall
      PROVE  Walked' = {} /\ ~InCall /\ call'.at # "idle" /\ ~Walking'
             /\ call'.stack = << >>
  BY <1>1, <1>2 DEF AddDirectoryRecursive, Walked, Walking, NoCall, vars
<1>3. ASSUME NEW name \in EntryNames, NEW path \in DOMAIN fs,
             AddFilesystemEntry(name, path)
      PROVE  Walked' = {} /\ call'.op = "entry"
  BY <1>3 DEF AddFilesystemEntry, Walked, NoCall
<1>4. ASSUME NEW result, Ends(result)
      PROVE  SameCall
  BY <1>4 DEF Ends, SameCall, NoCall
<1>5. CASE WalkStep \/ DropCall
  BY <1>1, <1>4, <1>5 DEF WalkStep, DropCall, StatRoot, OpenDir, NextEntry,
     PopDirectory, FinishWalk, EntryMetadata, ReadLink, MayFail, Fails, Goes, Adds,
     SameCall, CallType
<1>6. CASE FsChange
  BY <1>1, <1>6 DEF FsChange, Deleted, Created, Replaced, Changes, SameCall, CallType
<1>7. CASE UNCHANGED allVars
  BY <1>7 DEF allVars, walkVars, SameCall
<1> QED
  BY <1>2, <1>3, <1>5, <1>6, <1>7 DEF WalkNext, Begin

(* The entries of a walk stay, and the new one is the last. *)
LEMMA WalkedGrows ==
  ASSUME TypeInv, [WalkNext]_allVars, SameCall
  PROVE  /\ \A i \in Walked : i \in Walked' /\ entries'[i] = entries[i]
         /\ \A i \in Walked' : i \in Walked
              \/ /\ call.op = "walk" /\ i = Len(entries) + 1
                 /\ Len(entries') = Len(entries) + 1
  BY EntriesGrow, CallFields DEF Walked, SameCall

(* An entry that is made of what is on disk at this path. *)
MadeFrom(x, p) ==
  /\ x.value.data = FilesystemEntry(p, fs[p])
  /\ x.value.data.path = p
  /\ x.name = MakeEntryName(p, call.root_name, fs[p].kind = "Directory")
  /\ x.value.file_type = fs[p].kind
  /\ ExternalAttributes(x.value.file_type, x.value.permissions).high % \o1000
       = IF fs[p].kind = "Symlink" THEN \o777 ELSE fs[p].mode % \o1000

(* The root's own entry ends the walk; any other is of the path at hand,   *)
(* and the walk will come back to it if it is a directory.                 *)
LEMMA WalkAdds ==
  ASSUME TypeInv, WalkNext, call.op = "walk", call'.op = "walk", entries' # entries
  PROVE  LET n == Len(entries)
             x == entries'[n + 1]
         IN
         /\ Len(entries') = n + 1
         /\ UNCHANGED << fs, touched >>
         /\ \/ /\ FinishWalk /\ call'.at = "idle" /\ outcome' = "Ok"
               /\ call.root_name # None
               /\ x.name = call.root_name[1]
               /\ x.value.data.path = Root
            \/ /\ EntryMetadata \/ ReadLink
               /\ call.at \in {"metadata", "link"} /\ call'.at = "next"
               /\ call'.dir = call.dir /\ call'.listing = call.listing
               /\ call.path \in DOMAIN fs
               /\ call'.stack = Pushed(call.stack, call.path, fs[call.path])
               /\ MadeFrom(x, call.path)
<1> USE DEF TypeInv
<1>1. call \in CallType /\ Len(entries) \in Nat /\ entries \in Seq(MapEntry)
  BY CallFields DEF BuilderInv, TypeOK, MapEntry
<1>2. CASE FinishWalk
  <2> DEFINE md == call.root_metadata
             e == Described(FilesystemEntry(Root, md), md)
             value == Directory(e)
             new == call.root_name[1]
  <2>1. call.root_name # None /\ AddEntryAs(new, value) /\ Ends(last')
    BY <1>2 DEF FinishWalk, vars
  <2>2. last' = "Ok"
    BY <2>1 DEF AddEntryAs
  <2>3. entries' = Append(entries, [name |-> new, value |-> value])
    BY <2>1, <2>2 DEF AddEntryAs
  <2>4. md \in KnownNodes /\ Root \in KnownPaths
    BY <1>2 DEF FinishWalk, CallFits, Walking, KnownPaths
  <2>5. e \in BuilderEntry(Data) /\ e.data.path = Root
    BY <2>4, DescribedIs
  <2>6. value \in BuilderEntry(Data) /\ value.data = e.data
    BY <2>5, TypeDescribes DEF Describes
  <2>7. new \in Names
    BY <2>1, WalkName, RootNameClean
  <2> HIDE DEF e, value, new
  <2> DEFINE x == [name |-> new, value |-> value]
  <2>8. x \in MapEntry /\ x.name = new /\ x.value = value
    BY <2>6, <2>7 DEF MapEntry
  <2> HIDE DEF x
  <2>9. Len(entries') = Len(entries) + 1 /\ entries'[Len(entries) + 1] = x
    BY <1>1, <2>3, <2>8 DEF x
  <2> QED
    BY <1>2, <2>1, <2>2, <2>5, <2>6, <2>8, <2>9 DEF Ends, NoCall, new
<1>3. CASE EntryMetadata
  <2> DEFINE md == fs[call.path]
             value == Described(FilesystemEntry(call.path, md), md)
             new == MakeEntryName(call.path, call.root_name, md.kind = "Directory")
  <2>1. /\ call.path \in DOMAIN fs
        /\ AddEntryAs(new, value)
        /\ last' = "Ok" => Goes([call EXCEPT !.at = "next",
                                             !.stack = Pushed(@, call.path, md)])
    BY <1>3 DEF EntryMetadata, Adds, MayFail, Fails, vars
  <2>2. last' = "Ok"
    BY <2>1 DEF AddEntryAs
  <2>3. call.at = "metadata" /\ UNCHANGED << fs, touched >>
        /\ call' = [call EXCEPT !.at = "next", !.stack = Pushed(@, call.path, md)]
    BY <1>3, <2>1, <2>2 DEF EntryMetadata, Goes
  <2>4. call.path \in KnownPaths /\ call.path # Root /\ md \in KnownNodes
    BY <2>1, <2>3, WalkPath DEF OnDisk
  <2>5. /\ value \in BuilderEntry(Data)
        /\ value.data = FilesystemEntry(call.path, md) /\ value.data.path = call.path
        /\ value.file_type = md.kind
    BY <2>4, DescribedIs
  <2>6. value.permissions = ModeOf(md)
    BY <2>4, DescribedMode
  <2>7. ExternalAttributes(md.kind, ModeOf(md)).high % \o1000
          = IF md.kind = "Symlink" THEN \o777 ELSE md.mode % \o1000
    BY <2>4, NodeType, ModeWritten
  <2>8. new \in Names
    BY <2>4, WalkName, MadeName
  <2> DEFINE x == [name |-> new, value |-> value]
  <2>9. MadeFrom(x, call.path)
    <3> HIDE DEF new, value
    <3> QED
      BY <2>5, <2>6, <2>7 DEF MadeFrom, new
  <2> HIDE DEF new, value
  <2>10. x \in MapEntry
    BY <2>5, <2>8 DEF MapEntry
  <2>11. entries' = Append(entries, x)
    BY <2>1, <2>2 DEF AddEntryAs
  <2> HIDE DEF x
  <2>12. Len(entries') = Len(entries) + 1 /\ entries'[Len(entries) + 1] = x
    BY <1>1, <2>10, <2>11
  <2>13. /\ call'.at = "next" /\ call'.dir = call.dir /\ call'.listing = call.listing
         /\ call'.stack = Pushed(call.stack, call.path, md)
    <3> HIDE DEF md
    <3> QED
      BY <1>1, <2>3 DEF CallType
  <2> QED
    BY <1>3, <2>1, <2>3, <2>9, <2>12, <2>13
<1>4. CASE ReadLink
  <2> DEFINE md == fs[call.path]
             value == Described(FilesystemEntry(call.path, md), call.metadata)
             new == MakeEntryName(call.path, call.root_name, FALSE)
  <2>1. /\ Symlinks(call.path)
        /\ AddEntryAs(new, value)
        /\ last' = "Ok" => Goes([call EXCEPT !.at = "next"])
    BY <1>4 DEF ReadLink, Adds, MayFail, Fails, vars
  <2>2. last' = "Ok"
    BY <2>1 DEF AddEntryAs
  <2>3. call.at = "link" /\ UNCHANGED << fs, touched >>
        /\ call' = [call EXCEPT !.at = "next"]
    BY <1>4, <2>1, <2>2 DEF ReadLink, Goes
  <2>4. /\ call.path \in KnownPaths /\ call.path # Root
        /\ call.path \in DOMAIN fs /\ md \in KnownNodes /\ md.kind = "Symlink"
        /\ call.metadata \in KnownNodes /\ call.metadata.kind = "Symlink"
    BY <2>1, <2>3, WalkPath DEF Symlinks, OnDisk, CallFits
  <2>5. /\ value \in BuilderEntry(Data)
        /\ value.data = FilesystemEntry(call.path, md) /\ value.data.path = call.path
        /\ value.file_type = md.kind
    BY <2>4, DescribedIs
  <2>6. value.permissions = ModeOf(call.metadata)
    BY <2>4, DescribedMode
  <2>7. ExternalAttributes("Symlink", ModeOf(call.metadata)).high % \o1000 = \o777
    BY <2>4, NodeType, ModeWritten
  <2>8. new \in Names /\ new = MakeEntryName(call.path, call.root_name,
                                             md.kind = "Directory")
    BY <2>4, WalkName, MadeName
  <2> DEFINE x == [name |-> new, value |-> value]
  <2>9. MadeFrom(x, call.path)
    <3> HIDE DEF new, value
    <3> QED
      BY <2>4, <2>5, <2>6, <2>7, <2>8 DEF MadeFrom
  <2> HIDE DEF new, value
  <2>10. x \in MapEntry
    BY <2>5, <2>8 DEF MapEntry
  <2>11. entries' = Append(entries, x)
    BY <2>1, <2>2 DEF AddEntryAs
  <2> HIDE DEF x
  <2>12. Len(entries') = Len(entries) + 1 /\ entries'[Len(entries) + 1] = x
    BY <1>1, <2>10, <2>11
  <2>13. /\ call'.at = "next" /\ call'.dir = call.dir /\ call'.listing = call.listing
         /\ call'.stack = Pushed(call.stack, call.path, md)
    BY <1>1, <2>3, <2>4 DEF CallType, Pushed
  <2> QED
    BY <1>4, <2>3, <2>4, <2>9, <2>12, <2>13
<1>5. \/ StatRoot \/ OpenDir \/ NextEntry \/ PopDirectory \/ DropCall \/ FsChange
      \/ \E root_name \in RootNames : AddDirectoryRecursive(root_name)
      => UNCHANGED vars
  BY DEF StatRoot, OpenDir, NextEntry, PopDirectory, DropCall, MayFail, Fails,
     FsChange, Deleted, Created, Replaced, Changes, AddDirectoryRecursive
<1>6. ASSUME NEW name \in EntryNames, NEW path \in DOMAIN fs,
             AddFilesystemEntry(name, path)
      PROVE  FALSE
  BY <1>6 DEF AddFilesystemEntry, NoCall
<1> QED
  BY <1>2, <1>3, <1>4, <1>5, <1>6 DEF WalkNext, WalkStep, Begin, vars

(* Where the rest of the world did something: below one path, which is     *)
(* touched from then on, and not behind the back of a listing.             *)
DiskChanges ==
  \E q \in KnownPaths :
    /\ touched' = touched \union {q}
    /\ \A p \in DOMAIN fs' : ~IsPrefix(q, p) => p \in DOMAIN fs /\ fs'[p] = fs[p]
    /\ \A p \in DOMAIN fs \ DOMAIN fs' : IsPrefix(q, p)
    /\ \/ call'.listing = call.listing
       \/ /\ q # Root /\ Front(q) = call.dir
          /\ call.listing \ {Last(q)} \subseteq call'.listing

(* What moves a walk on, but for adding entries. *)
WalkMove ==
  \/ /\ call.at = "root" /\ call'.at = "open"
     /\ call'.dir = Root /\ call'.stack = << >>
     /\ UNCHANGED << fs, touched >>
  \/ /\ call.at = "open" /\ call'.at = "next"
     /\ call'.listing = Children(call.dir)
     /\ call'.dir = call.dir /\ call'.stack = call.stack
     /\ UNCHANGED << fs, touched >>
  \/ /\ call.at = "next" /\ call'.at = "metadata"
     /\ \E x \in call.listing : /\ call'.path = Append(call.dir, x)
                                /\ call'.listing = call.listing \ {x}
     /\ call'.dir = call.dir /\ call'.stack = call.stack
     /\ UNCHANGED << fs, touched >>
  \/ /\ call.at = "next" /\ call'.at = "open"
     /\ call.listing = {} /\ call.stack # << >>
     /\ call'.dir = Last(call.stack) /\ call'.stack = Front(call.stack)
     /\ UNCHANGED << fs, touched >>
  \/ /\ call.at = "metadata" /\ call'.at = "link"
     /\ call'.path = call.path /\ call'.listing = call.listing
     /\ call'.dir = call.dir /\ call'.stack = call.stack
     /\ UNCHANGED << fs, touched >>
  \/ /\ Walking /\ call'.at = call.at /\ call'.path = call.path
     /\ call'.dir = call.dir /\ call'.stack = call.stack
     /\ DiskChanges \/ (UNCHANGED << fs, touched >> /\ call'.listing = call.listing)

LEMMA ChangesDisk ==
  ASSUME TypeInv, FsChange
  PROVE  /\ DiskChanges
         /\ call'.at = call.at /\ call'.path = call.path /\ call'.op = call.op
         /\ call'.dir = call.dir /\ call'.stack = call.stack
<1>1. PICK q \in Paths :
        Deleted(q) \/ \E node \in Nodes : Created(q, node) \/ Replaced(q, node)
  BY DEF FsChange
<1>2. q \in KnownPaths /\ q \in Seq(DOMAIN Lossy)
  BY PathType DEF KnownPaths
<1>3. call \in CallType /\ OnDisk
  BY CallFields DEF TypeInv
<1>4. IsPrefix(q, q)
  BY <1>2, PrefixIs
<1>5. touched' = touched \union {q}
  BY <1>1 DEF Deleted, Created, Replaced, Changes
<1>6. /\ \A p \in DOMAIN fs' : ~IsPrefix(q, p) => p \in DOMAIN fs /\ fs'[p] = fs[p]
      /\ \A p \in DOMAIN fs \ DOMAIN fs' : IsPrefix(q, p)
  <2>1. CASE Deleted(q)
    <3>1. fs' = [p \in DOMAIN fs \ Below(q) |-> fs[p]]
      BY <2>1 DEF Deleted, Changes
    <3> QED
      BY <3>1 DEF Below
  <2>2. ASSUME NEW node \in Nodes, Created(q, node)
        PROVE  <1>6!1 /\ <1>6!2
    <3>1. fs' = [p \in DOMAIN fs \union {q} |-> IF p = q THEN node ELSE fs[p]]
      BY <2>2 DEF Created, Changes
    <3> QED
      BY <1>4, <3>1
  <2>3. ASSUME NEW node \in Nodes, Replaced(q, node)
        PROVE  <1>6!1 /\ <1>6!2
    <3>1. fs' = [p \in (DOMAIN fs \ Below(q)) \union {q} |-> IF p = q THEN node ELSE fs[p]]
      BY <2>3 DEF Replaced, Changes
    <3> QED
      BY <1>4, <3>1 DEF Below
  <2> QED
    BY <1>1, <2>1, <2>2, <2>3
<1>7. \/ call' = call
      \/ /\ q # Root /\ Front(q) = call.dir
         /\ \E listing : /\ call.listing \ {Last(q)} \subseteq listing
                         /\ call' = [call EXCEPT !.listing = listing]
  BY <1>1, <1>3 DEF Deleted, Created, Replaced, Changes, CallType
<1> QED
  BY <1>2, <1>3, <1>5, <1>6, <1>7 DEF DiskChanges, CallType

LEMMA WalkMoves ==
  ASSUME TypeInv, [WalkNext]_allVars, SameCall, entries' = entries, Walking'
  PROVE  WalkMove
<1>1. /\ call \in CallType /\ call.op = "walk" /\ call'.at # "idle"
      /\ Len(entries) \in Nat
  BY CallFields DEF Walking, SameCall
<1>2. ASSUME NEW result, Ends(result)
      PROVE  FALSE
  BY <1>1, <1>2 DEF Ends, NoCall
<1>3. CASE UNCHANGED allVars
  BY <1>3 DEF allVars, walkVars, WalkMove, Walking
<1>4. CASE FsChange
  BY <1>4, ChangesDisk DEF WalkMove, Walking
<1>5. CASE StatRoot
  <2>1. call.stack = << >>
    BY <1>5 DEF StatRoot, TypeInv, CallFits
  <2> QED
    BY <1>1, <1>2, <1>5, <2>1 DEF StatRoot, MayFail, Fails, Goes, WalkMove, CallType
<1>6. CASE OpenDir
  BY <1>1, <1>2, <1>6 DEF OpenDir, MayFail, Fails, Goes, WalkMove, CallType
<1>7. CASE NextEntry
  BY <1>1, <1>2, <1>7 DEF NextEntry, MayFail, Fails, Goes, WalkMove, CallType
<1>8. CASE PopDirectory
  BY <1>1, <1>2, <1>8 DEF PopDirectory, Popped, Goes, WalkMove, CallType
<1>9. CASE FinishWalk
  BY <1>2, <1>9 DEF FinishWalk
<1>10. \A name, value : Adding(name, value) => last' # "Ok"
  <2> SUFFICES ASSUME NEW name \in Names, NEW value \in BuilderEntry(Data),
                      AddEntryAs(name, value), last' = "Ok"
               PROVE  FALSE
    BY DEF Adding
  <2>1. Len(entries') = Len(entries) + 1
    BY AddedAt
  <2> QED
    BY <1>1, <2>1
<1>11. CASE EntryMetadata
  <2>1. CASE call' = [call EXCEPT !.at = "link", !.metadata = fs[call.path]]
             /\ UNCHANGED << fs, touched >>
    BY <1>1, <1>11, <2>1 DEF EntryMetadata, WalkMove, CallType
  <2>2. CASE \E name, value : AddEntryAs(name, value) /\ last' = "Ok"
    <3>1. entries' # entries
      <4>1. PICK x : entries' = Append(entries, x)
        BY <2>2 DEF AddEntryAs
      <4>2. entries \in Seq(MapEntry)
        BY DEF TypeInv, BuilderInv, TypeOK, MapEntry
      <4>3. Len(Append(entries, x)) = Len(entries) + 1
        BY <4>2
      <4> QED
        BY <1>1, <4>1, <4>3
    <3> QED
      BY <3>1
  <2> QED
    BY <1>2, <1>11, <2>1, <2>2 DEF EntryMetadata, Adds, Goes, MayFail, Fails
<1>12. CASE ReadLink
  <2>1. \E name, value : AddEntryAs(name, value) /\ last' = "Ok"
    BY <1>2, <1>12 DEF ReadLink, Adds, MayFail, Fails
  <2>2. PICK x : entries' = Append(entries, x)
    BY <2>1 DEF AddEntryAs
  <2>3. entries \in Seq(MapEntry)
    BY DEF TypeInv, BuilderInv, TypeOK, MapEntry
  <2>4. Len(Append(entries, x)) = Len(entries) + 1
    BY <2>3
  <2> QED
    BY <1>1, <2>2, <2>4
<1>13. CASE DropCall
  BY <1>2, <1>13 DEF DropCall
<1>14. ASSUME NEW root_name \in RootNames, AddDirectoryRecursive(root_name)
       PROVE  FALSE
  BY <1>14 DEF AddDirectoryRecursive, NoCall, Walking
<1>15. ASSUME NEW name \in EntryNames, NEW path \in DOMAIN fs,
              AddFilesystemEntry(name, path)
       PROVE  FALSE
  BY <1>1, <1>15 DEF AddFilesystemEntry, NoCall, SameCall
<1> QED
  BY <1>3, <1>4, <1>5, <1>6, <1>7, <1>8, <1>9, <1>11, <1>12, <1>13, <1>14, <1>15
     DEF WalkNext, WalkStep, Begin

-----------------------------------------------------------------------------
(* Directories come before what is in them.                                *)

LEMMA OrderNext ==
  ASSUME TypeInv, OrderInv, [WalkNext]_allVars
  PROVE  OrderInv'
<1>1. CASE Walked' = {} /\ ~Walking'
  BY <1>1 DEF OrderInv
<1>2. CASE SameCall
  <2>1. /\ \A i \in Walked : i \in Walked' /\ entries'[i] = entries[i]
        /\ \A i \in Walked' : i \in Walked
             \/ /\ call.op = "walk" /\ i = Len(entries) + 1
                /\ Len(entries') = Len(entries) + 1
    BY <1>2, WalkedGrows
  <2>2. Len(entries) \in Nat /\ call \in CallType /\ DOMAIN entries = 1 .. Len(entries)
    BY CallFields
  <2>3. \A d : DirSeen(d) => DirSeen(d)'
    BY <1>2, <2>1 DEF DirSeen, PathOf, SameCall
  <2>4. ASSUME NEW i \in Walked
        PROVE  PathOf(i)' # Root =>
                 /\ PathOf(i)' \in KnownPaths
                 /\ entries'[i].name = MakeEntryName(PathOf(i)', call'.root_name,
                                          entries'[i].value.file_type = "Directory")
                 /\ \/ Front(PathOf(i)') = Root
                    \/ \E j \in Walked' :
                         /\ j < i
                         /\ PathOf(j)' = Front(PathOf(i)')
                         /\ entries'[j].value.file_type = "Directory"
                         /\ entries'[j].name = MakeEntryName(PathOf(j)', call'.root_name, TRUE)
    <3>1. i \in Walked' /\ PathOf(i)' = PathOf(i) /\ entries'[i] = entries[i]
      BY <2>1 DEF PathOf
    <3> SUFFICES ASSUME PathOf(i) # Root
                 PROVE  /\ PathOf(i) \in KnownPaths
                        /\ entries[i].name = MakeEntryName(PathOf(i), call.root_name,
                                                 entries[i].value.file_type = "Directory")
                        /\ \/ Front(PathOf(i)) = Root
                           \/ \E j \in Walked' :
                                /\ j < i
                                /\ PathOf(j)' = Front(PathOf(i))
                                /\ entries'[j].value.file_type = "Directory"
                                /\ entries'[j].name = MakeEntryName(PathOf(j)', call.root_name, TRUE)
      BY <1>2, <3>1 DEF SameCall
    <3>2. CASE Front(PathOf(i)) = Root
      BY <3>2 DEF OrderInv
    <3>3. CASE Front(PathOf(i)) # Root
      <4>1. PICK j \in Walked :
              /\ j < i
              /\ PathOf(j) = Front(PathOf(i))
              /\ entries[j].value.file_type = "Directory"
              /\ entries[j].name = MakeEntryName(PathOf(j), call.root_name, TRUE)
        BY <3>3 DEF OrderInv
      <4>2. j \in Walked' /\ PathOf(j)' = PathOf(j) /\ entries'[j] = entries[j]
        BY <2>1 DEF PathOf
      <4> QED
        BY <4>1, <4>2 DEF OrderInv
    <3> QED
      BY <3>2, <3>3
  <2>5. CASE entries' = entries
    <3>1. \A i \in Walked' : i \in Walked
      <4>1. Len(entries') # Len(entries) + 1
        <5>1. Len(entries') = Len(entries)
          BY <2>5
        <5>2. Len(entries) \in Nat
          BY <2>2
        <5> QED
          BY <5>1, <5>2
      <4> QED
        BY <2>1, <4>1
    <3>2. ASSUME Walking'
          PROVE  /\ DirSeen(call.dir)'
                 /\ (\A k \in DOMAIN call.stack : DirSeen(call.stack[k]))'
      <4>1. WalkMove
        BY <1>2, <2>5, <3>2, WalkMoves
      <4>2. CASE call.at = "root" /\ call'.dir = Root /\ call'.stack = << >>
        BY <4>2 DEF DirSeen
      <4>3. CASE Walking /\ call'.dir = call.dir /\ call'.stack = call.stack
        <5>1. DirSeen(call.dir) /\ \A k \in DOMAIN call.stack : DirSeen(call.stack[k])
          BY <4>3 DEF OrderInv
        <5>2. \A d : d = call'.dir => DirSeen(d)'
          BY <2>3, <4>3, <5>1
        <5>3. \A d : \A k \in DOMAIN call'.stack : d = call'.stack[k] => DirSeen(d)'
          BY <2>3, <4>3, <5>1
        <5> QED
          BY <5>2, <5>3 DEF DirSeen
      <4>4. CASE /\ Walking /\ call.stack # << >>
                 /\ call'.dir = Last(call.stack) /\ call'.stack = Front(call.stack)
        <5>1. \A k \in DOMAIN call.stack : DirSeen(call.stack[k])
          BY <4>4 DEF OrderInv
        <5>2. call.stack \in Seq(KnownPaths)
          BY <2>2 DEF CallType
        <5>3. Len(call.stack) \in DOMAIN call.stack
              /\ \A k \in DOMAIN call'.stack : /\ k \in DOMAIN call.stack
                                               /\ call'.stack[k] = call.stack[k]
          <6> DEFINE s == call.stack
                     t == Front(s)
          <6> HIDE DEF s, t
          <6>1. s \in Seq(KnownPaths) /\ s # << >> /\ call'.stack = t
            BY <4>4, <5>2 DEF s, t
          <6>2. /\ Len(s) >= 1 /\ t \in Seq(KnownPaths) /\ Len(t) = Len(s) - 1
                /\ \A k \in 1 .. Len(s) - 1 : t[k] = s[k]
            BY <6>1, FrontOf DEF t
          <6>3. Len(s) \in DOMAIN s
                /\ \A k \in DOMAIN t : k \in DOMAIN s /\ t[k] = s[k]
            BY <6>1, <6>2
          <6> QED
            BY <6>1, <6>3 DEF s
        <5>4. \A d : d = call'.dir => DirSeen(d)'
          BY <2>3, <4>4, <5>1, <5>3 DEF Last
        <5>5. \A d : \A k \in DOMAIN call'.stack : d = call'.stack[k] => DirSeen(d)'
          BY <2>3, <5>1, <5>3
        <5> QED
          BY <5>4, <5>5 DEF DirSeen
      <4>5. call.op = "walk"
        BY <1>2, <3>2 DEF Walking, SameCall
      <4> QED
        BY <4>1, <4>2, <4>3, <4>4, <4>5 DEF WalkMove, Walking
    <3> QED
      BY <2>4, <3>1, <3>2 DEF OrderInv
  <2>6. CASE entries' # entries
    <3>1. CASE call.op # "walk"
      BY <1>2, <3>1 DEF OrderInv, Walked, Walking, SameCall
    <3>2. CASE call.op = "walk"
      <4> DEFINE n == Len(entries)
                 x == entries'[n + 1]
      <4>1. WalkNext /\ call'.op = "walk"
        BY <1>2, <2>6, <3>2 DEF SameCall, allVars, vars
      <4>2. Len(entries') = n + 1 /\ n + 1 \in Walked'
        <5>1. Len(entries') = n + 1
          BY <2>6, <3>2, <4>1, WalkAdds
        <5>2. DOMAIN entries' = 1 .. n + 1
          BY <5>1, EntriesGrow
        <5> QED
          BY <1>2, <2>2, <4>1, <5>1, <5>2, CallFields DEF Walked, SameCall
      <4>3. CASE call'.at = "idle" /\ x.value.data.path = Root
        BY <2>1, <2>4, <4>3 DEF OrderInv, PathOf, Walking
      <4>4. CASE /\ call.at \in {"metadata", "link"} /\ call'.at = "next"
                 /\ call'.dir = call.dir
                 /\ call.path \in DOMAIN fs
                 /\ call'.stack = Pushed(call.stack, call.path, fs[call.path])
                 /\ MadeFrom(x, call.path)
        <5>1. /\ call.path \in KnownPaths /\ call.path # Root
              /\ Front(call.path) = call.dir /\ Walking
          BY <3>2, <4>4, WalkPath DEF TypeInv, Walking
        <5>2. /\ x.value.data.path = call.path
              /\ x.name = MakeEntryName(call.path, call.root_name,
                                        x.value.file_type = "Directory")
              /\ x.value.file_type = fs[call.path].kind
          BY <4>4 DEF MadeFrom
        <5>3. DirSeen(call.dir) /\ \A k \in DOMAIN call.stack : DirSeen(call.stack[k])
          BY <5>1 DEF OrderInv
        <5>4. \/ Front(call.path) = Root
              \/ \E j \in Walked' :
                   /\ j < n + 1
                   /\ PathOf(j)' = Front(call.path)
                   /\ entries'[j].value.file_type = "Directory"
                   /\ entries'[j].name = MakeEntryName(PathOf(j)', call'.root_name, TRUE)
          <6>1. CASE call.dir = Root
            BY <5>1, <6>1
          <6>2. CASE call.dir # Root
            <7>1. PICK j \in Walked :
                    /\ PathOf(j) = call.dir
                    /\ entries[j].value.file_type = "Directory"
                    /\ entries[j].name = MakeEntryName(call.dir, call.root_name, TRUE)
              BY <5>3, <6>2 DEF DirSeen
            <7>2. j \in Walked' /\ entries'[j] = entries[j] /\ j < n + 1
              BY <2>1, <2>2 DEF Walked
            <7> QED
              BY <1>2, <5>1, <7>1, <7>2 DEF PathOf, SameCall
          <6> QED
            BY <6>1, <6>2
        <5>5. ASSUME NEW i \in Walked', PathOf(i)' # Root
              PROVE  /\ PathOf(i)' \in KnownPaths
                     /\ entries'[i].name = MakeEntryName(PathOf(i)', call'.root_name,
                                              entries'[i].value.file_type = "Directory")
                     /\ \/ Front(PathOf(i)') = Root
                        \/ \E j \in Walked' :
                             /\ j < i
                             /\ PathOf(j)' = Front(PathOf(i)')
                             /\ entries'[j].value.file_type = "Directory"
                             /\ entries'[j].name = MakeEntryName(PathOf(j)', call'.root_name, TRUE)
          <6>1. CASE i \in Walked
            BY <2>4, <5>5, <6>1
          <6>2. CASE i = n + 1
            BY <1>2, <5>1, <5>2, <5>4, <6>2 DEF PathOf, SameCall
          <6> QED
            BY <2>1, <6>1, <6>2
        <5>6. \A d : d = call'.dir => DirSeen(d)'
          BY <2>3, <4>4, <5>3
        <5>7. \A d : d = call.path /\ fs[call.path].kind = "Directory" => DirSeen(d)'
          BY <1>2, <4>2, <5>2 DEF DirSeen, PathOf, SameCall
        <5>8. \A d : \A k \in DOMAIN call'.stack : d = call'.stack[k] => DirSeen(d)'
          <6>1. CASE fs[call.path].kind = "Directory"
            <7>1. call'.stack = Append(call.stack, call.path)
              BY <4>4, <6>1 DEF Pushed
            <7>2. call.stack \in Seq(KnownPaths)
              BY <2>2 DEF CallType
            <7>3. \A k \in DOMAIN call'.stack :
                    \/ k \in DOMAIN call.stack /\ call'.stack[k] = call.stack[k]
                    \/ call'.stack[k] = call.path
              BY <5>1, <7>1, <7>2
            <7> QED
              BY <2>3, <5>3, <5>7, <6>1, <7>3
          <6>2. CASE fs[call.path].kind # "Directory"
            BY <2>3, <4>4, <5>3, <6>2 DEF Pushed
          <6> QED
            BY <6>1, <6>2
        <5> QED
          BY <5>5, <5>6, <5>8 DEF OrderInv, DirSeen
      <4> QED
        BY <2>6, <3>2, <4>1, <4>3, <4>4, WalkAdds
    <3> QED
      BY <3>1, <3>2
  <2> QED
    BY <2>5, <2>6
<1> QED
  BY <1>1, <1>2, CallGoesOn DEF OrderInv, Walked, Walking

(* Between calls nothing happens but that one begins. *)
LEMMA IdleStays ==
  ASSUME TypeInv, [WalkNext]_allVars, ~InCall
  PROVE  Walked' = {} \/ UNCHANGED << call, entries >>
<1>1. call \in CallType /\ Len(entries) \in Nat /\ DOMAIN entries = 1 .. Len(entries)
  BY CallFields
<1>2. ASSUME NEW root_name \in RootNames, AddDirectoryRecursive(root_name)
      PROVE  Walked' = {}
  BY <1>1, <1>2 DEF AddDirectoryRecursive, Walked, NoCall, vars
<1>3. ASSUME NEW name \in EntryNames, NEW path \in DOMAIN fs,
             AddFilesystemEntry(name, path)
      PROVE  Walked' = {}
  BY <1>3 DEF AddFilesystemEntry, Walked, NoCall
<1>4. ~WalkStep /\ ~DropCall
  BY DEF InCall, WalkStep, StatRoot, OpenDir, NextEntry, PopDirectory,
         FinishWalk, EntryMetadata, ReadLink, DropCall
<1>5. ~FsChange
  BY DEF FsChange, Deleted, Created, Replaced, Changes
<1>6. CASE UNCHANGED allVars
  BY <1>6 DEF allVars, vars, walkVars
<1> QED
  BY <1>2, <1>3, <1>4, <1>5, <1>6 DEF WalkNext, Begin

LEMMA RootLastNext ==
  ASSUME TypeInv, RootLast, [WalkNext]_allVars
  PROVE  RootLast'
<1>1. CASE Walked' = {}
  BY <1>1 DEF RootLast
<1>2. CASE ~InCall /\ UNCHANGED << call, entries >>
  <2>1. call' = call /\ entries' = entries
    BY <1>2
  <2> QED
    BY <2>1 DEF RootLast, Walked, PathOf, InCall
<1>3. CASE InCall /\ SameCall
  <2>1. /\ \A i \in Walked : i \in Walked' /\ entries'[i] = entries[i]
        /\ \A i \in Walked' : i \in Walked
             \/ /\ call.op = "walk" /\ i = Len(entries) + 1
                /\ Len(entries') = Len(entries) + 1
    BY <1>3, WalkedGrows
  <2> SUFFICES ASSUME NEW i \in Walked', PathOf(i)' = Root
               PROVE  /\ ~InCall'
                      /\ i = Len(entries')
                      /\ call'.root_name # None
                      /\ entries'[i].name = call'.root_name[1]
    BY DEF RootLast
  <2>2. i \notin Walked
    BY <1>3, <2>1 DEF RootLast, PathOf
  <2>3. /\ call.op = "walk" /\ i = Len(entries) + 1
        /\ Len(entries') = Len(entries) + 1
    BY <2>1, <2>2
  <2>4. entries' # entries
    <3>1. Len(entries) \in Nat
      BY CallFields
    <3> QED
      BY <2>3, <3>1
  <2>5. WalkNext /\ call'.op = "walk"
    BY <1>3, <2>3, <2>4 DEF SameCall, allVars, vars
  <2>6. \/ /\ call'.at = "idle" /\ call.root_name # None
           /\ entries'[i].name = call.root_name[1]
        \/ /\ call.at \in {"metadata", "link"}
           /\ MadeFrom(entries'[i], call.path)
    BY <2>3, <2>4, <2>5, WalkAdds
  <2>7. CASE /\ call.at \in {"metadata", "link"}
             /\ MadeFrom(entries'[i], call.path)
    <3>1. call.path # Root
      BY <2>3, <2>7, WalkPath DEF TypeInv
    <3>2. entries'[i].value.data.path = call.path
      BY <2>7 DEF MadeFrom, FilesystemEntry
    <3> QED
      BY <3>1, <3>2 DEF PathOf
  <2> QED
    BY <1>3, <2>3, <2>6, <2>7 DEF SameCall, InCall
<1>4. CASE call'.op = "entry"
  BY <1>1, <1>4 DEF Walked
<1> QED
  BY <1>1, <1>2, <1>3, <1>4, CallGoesOn, IdleStays

LEMMA OrderInit == WalkInit => OrderInv /\ RootLast
<1> SUFFICES ASSUME WalkInit
             PROVE  OrderInv /\ RootLast
  OBVIOUS
<1>1. call.op = "none"
  BY DEF WalkInit, NoCall
<1> QED
  BY <1>1 DEF OrderInv, RootLast, Walked, Walking

LEMMA LongerName ==
  ASSUME NEW S, NEW s \in Seq(S), NEW x \in S, NEW y \in S
  PROVE  /\ IsStrictPrefix(s, Append(s, x))
         /\ IsStrictPrefix(s, Append(Append(s, x), y))
<1> DEFINE t == Append(s, x)
           u == Append(t, y)
<1>1. /\ Len(s) \in Nat /\ t \in Seq(S) /\ Len(t) = Len(s) + 1
      /\ \A k \in 1 .. Len(s) : t[k] = s[k]
  OBVIOUS
<1> HIDE DEF t
<1>2. /\ u \in Seq(S) /\ Len(u) = Len(s) + 2
      /\ \A k \in 1 .. Len(s) : u[k] = s[k]
  BY <1>1
<1> HIDE DEF u
<1>3. IsPrefix(s, t) /\ IsPrefix(s, u)
  BY <1>1, <1>2, PrefixIs
<1>4. Len(s) # Len(t) /\ Len(s) # Len(u)
  BY <1>1, <1>2
<1>5. s # t /\ s # u
  BY <1>4
<1> QED
  BY <1>3, <1>5 DEF IsStrictPrefix, t, u

LEMMA ParentsFirst ==
  ASSUME TypeInv, OrderInv, NEW i \in Walked, Len(PathOf(i)) >= 2
  PROVE  \E j \in Walked :
           /\ j < i
           /\ entries[j].value.data.path = Front(PathOf(i))
           /\ entries[j].value.file_type = "Directory"
           /\ EndsWithSlash(entries[j].name)
           /\ IsStrictPrefix(Front(entries[j].name), entries[i].name)
<1> DEFINE p == PathOf(i)
           d == Front(p)
<1>1. p # Root
  <2>1. Len(Root) = 0
    BY DEF Root
  <2> QED
    BY <2>1
<1>2. /\ p \in KnownPaths
      /\ entries[i].name = MakeEntryName(p, call.root_name,
                                         entries[i].value.file_type = "Directory")
  BY <1>1 DEF OrderInv
<1>3. d # Root
  <2>1. Len(d) = Len(p) - 1 /\ Len(p) \in Nat
    BY <1>1, <1>2, PathType
  <2>2. Len(Root) = 0
    BY DEF Root
  <2> QED
    BY <2>1, <2>2
<1>4. PICK j \in Walked :
        /\ j < i
        /\ PathOf(j) = d
        /\ entries[j].value.file_type = "Directory"
        /\ entries[j].name = MakeEntryName(d, call.root_name, TRUE)
  BY <1>1, <1>3 DEF OrderInv
<1>5. d \in KnownPaths
  BY <1>3, <1>4 DEF OrderInv
<1>6. PICK r \in RootNames : call.root_name = CleanRootName(r)
  BY WalkName DEF Walked, TypeInv
<1> HIDE DEF p, d
<1> DEFINE c == CleanRootName(r)
           s == MakeEntryName(d, c, FALSE)
           t == MakeEntryName(p, c, FALSE)
           x == Lossy[Last(p)]
<1>7. /\ s \in Seq(Parts) /\ entries[j].name = Append(s, EmptyPart)
      /\ EndsWithSlash(entries[j].name) /\ Front(entries[j].name) = s
  BY <1>3, <1>4, <1>5, <1>6, MadeName
<1>8. t = Append(s, x)
  <2>1. Front(p) \in KnownPaths \ {Root}
    BY <1>3, <1>5 DEF d
  <2> QED
    BY <1>1, <1>2, <2>1, MadeName DEF d
<1>9. entries[i].name = t \/ entries[i].name = Append(t, EmptyPart)
  <2>1. MakeEntryName(p, c, TRUE) = Append(t, EmptyPart)
    BY <1>1, <1>2, MadeName
  <2> QED
    BY <1>2, <1>6, <2>1
<1>10. x \in Parts /\ EmptyPart \in Parts
  BY <1>1, <1>2, PathType, PartsHas
<1> HIDE DEF s, t, x
<1>11. IsStrictPrefix(s, entries[i].name)
  BY <1>7, <1>8, <1>9, <1>10, LongerName
<1> QED
  BY <1>4, <1>7, <1>11 DEF PathOf, d, p

LEMMA RootAfterAll ==
  ASSUME TypeInv, OrderInv, RootLast, NEW i \in Walked, PathOf(i) = Root
  PROVE  /\ EndsWithSlash(entries[i].name)
         /\ \A j \in Walked \ {i} :
              /\ j < i
              /\ IsStrictPrefix(Front(entries[i].name), entries[j].name)
<1>1. /\ i = Len(entries) /\ call.root_name # None
      /\ entries[i].name = call.root_name[1]
  BY DEF RootLast
<1>2. PICK r \in RootNames : call.root_name = CleanRootName(r)
  BY WalkName DEF Walked, TypeInv
<1> DEFINE c == CleanRootName(r)
<1>3. EndsWithSlash(entries[i].name) /\ Front(entries[i].name) = NamePrefix(c)
  BY <1>1, <1>2, RootNameClean DEF NamePrefix
<1>4. ASSUME NEW j \in Walked \ {i}
      PROVE  /\ j < i
             /\ IsStrictPrefix(NamePrefix(c), entries[j].name)
  <2>1. j \in 1 .. i /\ j # i /\ i \in Nat
    BY <1>1, <1>4, CallFields DEF Walked
  <2>2. j < i
    BY <2>1
  <2>3. PathOf(j) # Root
    BY <1>1, <2>1 DEF RootLast
  <2>4. /\ PathOf(j) \in KnownPaths
        /\ entries[j].name = MakeEntryName(PathOf(j), c,
                                entries[j].value.file_type = "Directory")
    BY <1>2, <2>3 DEF OrderInv
  <2> DEFINE name == MakeEntryName(PathOf(j), c, FALSE)
  <2>5. /\ IsStrictPrefix(NamePrefix(c), name)
        /\ IsStrictPrefix(NamePrefix(c), Append(name, EmptyPart))
        /\ MakeEntryName(PathOf(j), c, TRUE) = Append(name, EmptyPart)
    BY <2>3, <2>4, MadeName
  <2>6. entries[j].name = name \/ entries[j].name = Append(name, EmptyPart)
    BY <2>4, <2>5
  <2> HIDE DEF name, c
  <2> QED
    BY <2>2, <2>5, <2>6
<1> QED
  BY <1>3, <1>4

LEMMA OrderIsEnough ==
  ASSUME TypeInv, OrderInv, RootLast
  PROVE  DirectoriesInOrder
BY ParentsFirst, RootAfterAll DEF DirectoriesInOrder, PathOf

LEMMA OrderAlways == WalkSpec => [](TypeInv /\ OrderInv /\ RootLast)
<1>1. TypeInv /\ OrderInv /\ RootLast /\ [WalkNext]_allVars
        => (TypeInv /\ OrderInv /\ RootLast)'
  BY TypeNext, OrderNext, RootLastNext
<1>2. WalkInit => TypeInv /\ OrderInv /\ RootLast
  BY TypeInit, OrderInit
<1> QED
  BY <1>1, <1>2, PTL DEF WalkSpec

(* What add_directory_recursive put into the builder is in order, whether  *)
(* the walk ended, failed or was dropped: what is in a directory below the *)
(* root comes after that directory, whose name is a prefix of its own, and *)
(* the root itself, which is added after the loop, after everything else.  *)
(* The stack of directories and the entries are two records of where the   *)
(* walk has been, and the tree they are of need not be there any more.     *)
THEOREM DirectoriesAlwaysInOrder == WalkSpec => []DirectoriesInOrder
<1>1. TypeInv /\ OrderInv /\ RootLast => DirectoriesInOrder
  BY OrderIsEnough
<1> QED
  BY <1>1, OrderAlways, PTL

-----------------------------------------------------------------------------
(* Nothing is left out.                                                    *)

LEMMA FrontUntouched ==
  ASSUME TypeInv, NEW p \in Untouched, Front(p) # Root
  PROVE  Front(p) \in Untouched /\ Len(Front(p)) = Len(p) - 1
<1>1. /\ p \in DOMAIN fs \ {Root} /\ p \in KnownPaths
      /\ Front(p) \in DOMAIN fs /\ touched \subseteq KnownPaths
      /\ \A q \in touched : ~IsPrefix(q, p)
  BY DEF TypeInv, OnDisk, Untouched
<1>2. Front(p) \in Seq(DOMAIN Lossy) /\ Len(Front(p)) = Len(p) - 1
  BY <1>1, PathType
<1>3. \A q \in touched : ~IsPrefix(q, Front(p))
  BY <1>1, <1>2, PrefixOfFront
<1> QED
  BY <1>1, <1>2, <1>3 DEF Untouched

(* When the stack and the listing are empty: of the paths left out the     *)
(* shortest would be in a directory that is not left out.                  *)
LEMMA AllEntered ==
  ASSUME TypeInv, CoverInv, call.op = "walk", call.at = "next",
         call.listing = {}, call.stack = << >>
  PROVE  \A p \in Untouched : Entered(p)
<1> SUFFICES ASSUME NEW r \in Untouched, ~Entered(r)
             PROVE  FALSE
  OBVIOUS
<1> DEFINE B == {p \in Untouched : ~Entered(p)}
           n == Len(r)
           T == {n + 1 - Len(p) : p \in {p \in B : Len(p) <= n}}
<1>1. \A p \in B : Len(p) \in Nat /\ Len(p) >= 1
  <2> SUFFICES ASSUME NEW p \in B
               PROVE  Len(p) \in Nat /\ Len(p) >= 1
    OBVIOUS
  <2>1. p \in KnownPaths /\ p # Root
    BY DEF TypeInv, OnDisk, Untouched
  <2> QED
    BY <2>1, PathType
<1>2. r \in B
  OBVIOUS
<1> HIDE DEF B
<1>3. n \in Nat /\ T \in SUBSET (1 .. n) /\ T # {}
  <2>1. n \in Nat
    BY <1>1, <1>2
  <2>2. \A p \in B : Len(p) <= n => n + 1 - Len(p) \in 1 .. n
    BY <1>1, <2>1
  <2>3. T \subseteq 1 .. n
    BY <2>2
  <2>4. n + 1 - Len(r) \in T
    BY <1>2, <2>1
  <2> QED
    BY <2>1, <2>3, <2>4
<1>4. PICK t \in T : \A j \in T : j <= t
  <2> HIDE DEF T, n
  <2> QED
    BY <1>3, LastIndex
<1>5. PICK p \in B : Len(p) <= n /\ t = n + 1 - Len(p)
  BY <1>4
<1>6. \A q \in B : Len(q) <= n => Len(p) <= Len(q)
  <2> SUFFICES ASSUME NEW q \in B, Len(q) <= n
               PROVE  Len(p) <= Len(q)
    OBVIOUS
  <2>1. n + 1 - Len(q) <= n + 1 - Len(p)
    BY <1>4, <1>5
  <2> QED
    BY <1>1, <1>3, <2>1
<1>7. p \in Untouched /\ ~Entered(p)
  BY DEF B
<1>8. Walking
  BY DEF Walking
<1>9. Front(p) # Root /\ ~Entered(Front(p))
  BY <1>7, <1>8 DEF CoverInv, Pending
<1>10. Front(p) \in B /\ Len(Front(p)) = Len(p) - 1
  BY <1>7, <1>9, FrontUntouched DEF B
<1>11. Len(Front(p)) <= n /\ ~(Len(p) <= Len(Front(p)))
  BY <1>1, <1>3, <1>5, <1>10
<1> QED
  BY <1>6, <1>10, <1>11

LEMMA EnteredStays ==
  ASSUME TypeInv, [WalkNext]_allVars, SameCall, call.op = "walk"
  PROVE  /\ \A p : Entered(p) /\ fs'[p] = fs[p] => Entered(p)'
         /\ \A p : entries' = entries /\ Entered(p)' /\ fs'[p] = fs[p] => Entered(p)
<1>1. \A i \in Walked : i \in Walked' /\ entries'[i] = entries[i]
  BY WalkedGrows
<1>2. ASSUME NEW p, Entered(p), fs'[p] = fs[p]
      PROVE  Entered(p)'
  <2>1. PICK i \in Walked :
          /\ entries[i].value.data = FilesystemEntry(p, fs[p])
          /\ entries[i].name = MakeEntryName(p, call.root_name, fs[p].kind = "Directory")
          /\ ExternalAttributes(entries[i].value.file_type,
                                entries[i].value.permissions).high % \o1000
               = IF fs[p].kind = "Symlink" THEN \o777 ELSE fs[p].mode % \o1000
    BY <1>2 DEF Entered
  <2>2. i \in Walked' /\ entries'[i] = entries[i] /\ call'.root_name = call.root_name
    BY <1>1 DEF SameCall
  <2> QED
    BY <1>2, <2>1, <2>2 DEF Entered
<1>3. ASSUME NEW p, entries' = entries, Entered(p)', fs'[p] = fs[p]
      PROVE  Entered(p)
  <2>1. Walked' = Walked
    BY <1>3 DEF Walked, SameCall
  <2> QED
    BY <1>3, <2>1 DEF Entered, SameCall
<1> QED
  BY <1>2, <1>3

(* What is untouched after a step was so before, and is as it was, like    *)
(* the directory it is in.                                                 *)
LEMMA StillUntouched ==
  ASSUME TypeInv, [WalkNext]_allVars, DiskChanges \/ UNCHANGED << fs, touched >>,
         NEW p \in Untouched'
  PROVE  /\ p \in Untouched /\ p \in KnownPaths /\ p # Root
         /\ fs'[p] = fs[p] /\ fs'[Front(p)] = fs[Front(p)]
<1>1. /\ p \in DOMAIN fs' /\ p # Root /\ p \in KnownPaths
      /\ Front(p) \in DOMAIN fs'
      /\ \A q \in touched' : ~IsPrefix(q, p)
  BY DiskNext DEF OnDisk, Untouched
<1>2. Front(p) \in Seq(DOMAIN Lossy)
  BY <1>1, PathType
<1>3. CASE UNCHANGED << fs, touched >>
  BY <1>1, <1>3 DEF Untouched
<1>4. CASE DiskChanges
  <2>1. PICK q \in KnownPaths :
          /\ touched' = touched \union {q}
          /\ \A r \in DOMAIN fs' : ~IsPrefix(q, r) => r \in DOMAIN fs /\ fs'[r] = fs[r]
    BY <1>4 DEF DiskChanges
  <2>2. ~IsPrefix(q, p) /\ ~IsPrefix(q, Front(p))
    BY <1>1, <1>2, <2>1, PrefixOfFront
  <2> QED
    BY <1>1, <2>1, <2>2 DEF Untouched
<1> QED
  BY <1>3, <1>4

(* A step that adds nothing leaves no path behind. *)
LEMMA MoveCovers ==
  ASSUME TypeInv, CoverInv, [WalkNext]_allVars, SameCall, Walking',
         entries' = entries, NEW p \in Untouched'
  PROVE  Entered(p)' \/ Pending(p)'
<1>1. WalkMove /\ call.op = "walk"
  BY WalkMoves DEF SameCall, Walking
<1>2. DiskChanges \/ UNCHANGED << fs, touched >>
  BY <1>1 DEF WalkMove
<1>3. /\ p \in Untouched /\ p \in KnownPaths /\ p # Root
      /\ fs'[p] = fs[p] /\ fs'[Front(p)] = fs[Front(p)]
  BY <1>2, StillUntouched
<1>4. Entered(p) => Entered(p)'
  BY <1>1, <1>3, EnteredStays
<1>5. Entered(Front(p))' => Entered(Front(p))
  BY <1>1, <1>3, EnteredStays
<1>6. CASE call.at = "root" /\ call'.at = "open" /\ call'.dir = Root
  <2>1. Walked = {}
    BY <1>1, <1>6 DEF CoverInv
  <2>2. ~Entered(Front(p))
    BY <2>1 DEF Entered
  <2> QED
    BY <1>5, <1>6, <2>2 DEF Pending
<1>7. CASE Walking
  <2>1. Entered(p) \/ Pending(p)
    BY <1>3, <1>7 DEF CoverInv
  <2>2. CASE \E k \in DOMAIN call.stack : call.stack[k] = Front(p)
    <3>1. PICK k \in DOMAIN call.stack : call.stack[k] = Front(p)
      BY <2>2
    <3>2. CASE call'.stack = call.stack
      BY <3>1, <3>2 DEF Pending
    <3>3. CASE /\ call'.at = "open" /\ call.stack # << >>
               /\ call'.dir = Last(call.stack) /\ call'.stack = Front(call.stack)
      <4> DEFINE s == call.stack
                 t == Front(s)
      <4>1. s \in Seq(KnownPaths) /\ s # << >> /\ call'.stack = t
            /\ call'.dir = Last(s) /\ k \in DOMAIN s /\ s[k] = Front(p)
        BY <3>1, <3>3, CallFields DEF CallType
      <4> HIDE DEF s, t
      <4>2. /\ Len(s) \in Nat /\ DOMAIN s = 1 .. Len(s)
            /\ t \in Seq(KnownPaths) /\ Len(t) = Len(s) - 1
            /\ \A j \in 1 .. Len(s) - 1 : t[j] = s[j]
        BY <4>1, FrontOf DEF t
      <4>3. CASE k = Len(s)
        BY <3>3, <4>1, <4>3 DEF Pending, Last
      <4>4. CASE k # Len(s)
        <5>1. k \in 1 .. Len(s) - 1 /\ DOMAIN t = 1 .. Len(s) - 1
          BY <4>1, <4>2, <4>4
        <5> QED
          BY <4>1, <4>2, <5>1 DEF Pending
      <4> QED
        BY <4>3, <4>4
    <3> QED
      BY <1>1, <1>7, <3>2, <3>3 DEF WalkMove, Walking
  <2>3. CASE call.dir = Front(p) /\ call.at = "open"
    <3>1. CASE call'.listing = Children(call.dir) /\ call'.dir = call.dir
      <4>1. Last(p) \in Children(call.dir)
        BY <1>3, <2>3 DEF Children, Untouched
      <4> QED
        BY <2>3, <3>1, <4>1 DEF Pending
    <3>2. CASE call'.at = call.at /\ call'.dir = call.dir
      BY <2>3, <3>2 DEF Pending
    <3> QED
      BY <1>1, <2>3, <3>1, <3>2 DEF WalkMove
  <2>4. CASE call.dir = Front(p) /\ Last(p) \in call.listing /\ call.at # "open"
    <3>1. CASE call'.dir = call.dir /\ Last(p) \in call'.listing
      BY <2>4, <3>1 DEF Pending
    <3>2. ASSUME NEW x \in call.listing, call'.path = Append(call.dir, x),
                 call'.listing = call.listing \ {x}, call'.at = "metadata",
                 call'.dir = call.dir
          PROVE  Pending(p)'
      <4>1. CASE x = Last(p)
        <5>1. call'.path = p
          BY <1>3, <2>4, <3>2, <4>1, PathType
        <5> QED
          BY <2>4, <3>2, <5>1 DEF Pending
      <4> QED
        BY <2>4, <3>2, <4>1 DEF Pending
    <3>3. CASE DiskChanges /\ call'.dir = call.dir
      <4>1. PICK q \in KnownPaths :
              /\ touched' = touched \union {q}
              /\ \/ call'.listing = call.listing
                 \/ /\ q # Root /\ Front(q) = call.dir
                    /\ call.listing \ {Last(q)} \subseteq call'.listing
        BY <3>3 DEF DiskChanges
      <4>2. ~IsPrefix(q, p)
        BY <4>1 DEF Untouched
      <4>3. q # p
        BY <1>3, <4>2, PathType, PrefixOfFront
      <4>4. ~(q # Root /\ Front(q) = call.dir /\ Last(q) = Last(p))
        BY <1>3, <2>4, <4>3, LastOf
      <4> QED
        BY <2>4, <3>3, <4>1, <4>4 DEF Pending
    <3> QED
      BY <1>1, <1>7, <2>4, <3>1, <3>2, <3>3 DEF WalkMove, Walking
  <2>5. CASE call.dir = Front(p) /\ call.at \in {"metadata", "link"} /\ call.path = p
    BY <1>1, <2>5 DEF WalkMove, Pending
  <2> QED
    BY <1>4, <1>5, <2>1, <2>2, <2>3, <2>4, <2>5 DEF Pending
<1> QED
  BY <1>1, <1>6, <1>7 DEF WalkMove, Walking

(* Nor does one that adds the entry of the path at hand. *)
LEMMA AddCovers ==
  ASSUME TypeInv, CoverInv, [WalkNext]_allVars, SameCall, Walking',
         entries' # entries
  PROVE  /\ \A p \in Untouched' : Entered(p)' \/ Pending(p)'
         /\ \A i \in Walked' : PathOf(i)' # Root /\ Explained(PathOf(i))'
<1> DEFINE n == Len(entries)
           x == entries'[n + 1]
<1>1. WalkNext /\ call.op = "walk" /\ call'.op = "walk" /\ call'.at # "idle"
  BY DEF Walking, SameCall, allVars, vars
<1>2. /\ Len(entries') = n + 1
      /\ UNCHANGED << fs, touched >>
      /\ call.at \in {"metadata", "link"}
      /\ call'.dir = call.dir /\ call'.listing = call.listing
      /\ call.path \in DOMAIN fs
      /\ call'.stack = Pushed(call.stack, call.path, fs[call.path])
      /\ MadeFrom(x, call.path)
  BY <1>1, WalkAdds
<1>3. /\ \A i \in Walked : i \in Walked' /\ entries'[i] = entries[i]
      /\ \A i \in Walked' : i \in Walked \/ i = n + 1
  BY WalkedGrows
<1>4. /\ n \in Nat /\ call.before \in Nat /\ call.before <= n
      /\ DOMAIN entries' = 1 .. n + 1
      /\ call \in CallType /\ call.stack \in Seq(KnownPaths)
  BY <1>2, CallFields, EntriesGrow DEF CallType
<1>5. n + 1 \in Walked'
  BY <1>1, <1>4 DEF Walked, SameCall
<1>6. /\ call.path \in KnownPaths /\ call.path # Root
      /\ Front(call.path) = call.dir /\ Walking
  BY <1>1, <1>2, WalkPath DEF TypeInv, Walking
<1>7. x.value.data.path = call.path
  BY <1>2 DEF MadeFrom
<1>8. \A q : q = call.path => Entered(q)'
  BY <1>2, <1>5 DEF MadeFrom, Entered, SameCall
<1>9. \A q : Entered(q)' => Entered(q) \/ q = call.path
  <2> SUFFICES ASSUME NEW q, Entered(q)'
               PROVE  Entered(q) \/ q = call.path
    OBVIOUS
  <2>1. PICK i \in Walked' :
          /\ entries'[i].value.data = FilesystemEntry(q, fs'[q])
          /\ entries'[i].name = MakeEntryName(q, call'.root_name, fs'[q].kind = "Directory")
          /\ ExternalAttributes(entries'[i].value.file_type,
                                entries'[i].value.permissions).high % \o1000
               = IF fs'[q].kind = "Symlink" THEN \o777 ELSE fs'[q].mode % \o1000
    BY DEF Entered
  <2>2. CASE i = n + 1
    BY <1>7, <2>1, <2>2 DEF FilesystemEntry
  <2>3. CASE i \in Walked
    <3>1. entries'[i] = entries[i] /\ fs' = fs /\ call'.root_name = call.root_name
      BY <1>2, <1>3, <2>3 DEF SameCall
    <3> QED
      BY <2>1, <2>3, <3>1 DEF Entered
  <2> QED
    BY <1>3, <2>2, <2>3
<1>10. /\ \A k \in DOMAIN call.stack : k \in DOMAIN call'.stack
                                       /\ call'.stack[k] = call.stack[k]
       /\ fs[call.path].kind = "Directory" =>
            \E k \in DOMAIN call'.stack : call'.stack[k] = call.path
  <2>1. CASE fs[call.path].kind = "Directory"
    <3>1. call'.stack = Append(call.stack, call.path)
      BY <1>2, <2>1 DEF Pushed
    <3>2. /\ Len(call.stack) \in Nat /\ DOMAIN call'.stack = 1 .. Len(call.stack) + 1
          /\ DOMAIN call.stack = 1 .. Len(call.stack)
          /\ \A k \in 1 .. Len(call.stack) : call'.stack[k] = call.stack[k]
          /\ call'.stack[Len(call.stack) + 1] = call.path
      BY <1>4, <1>6, <3>1
    <3> QED
      BY <3>2
  <2>2. CASE fs[call.path].kind # "Directory"
    BY <1>2, <2>2 DEF Pushed
  <2> QED
    BY <2>1, <2>2
<1>11. ASSUME NEW p \in Untouched'
       PROVE  Entered(p)' \/ Pending(p)'
  <2>1. p \in Untouched /\ fs'[p] = fs[p]
    BY <1>2 DEF Untouched
  <2>2. Entered(p) \/ Pending(p)
    BY <1>6, <2>1 DEF CoverInv
  <2>3. CASE Entered(p)
    BY <1>1, <2>1, <2>3, EnteredStays
  <2>4. CASE Front(p) # Root /\ ~Entered(Front(p))
    <3>1. fs[Front(p)].kind = "Directory"
      BY <2>1 DEF Untouched, TypeInv, OnDisk
    <3>2. CASE Front(p) = call.path
      BY <1>10, <3>1, <3>2 DEF Pending
    <3>3. CASE Front(p) # call.path
      BY <1>9, <2>4, <3>3 DEF Pending
    <3> QED
      BY <3>2, <3>3
  <2>5. CASE \E k \in DOMAIN call.stack : call.stack[k] = Front(p)
    BY <1>10, <2>5 DEF Pending
  <2>6. CASE call.dir = Front(p) /\ (Last(p) \in call.listing \/ call.path = p)
    BY <1>2, <1>8, <2>6 DEF Pending
  <2> QED
    BY <1>2, <2>2, <2>3, <2>4, <2>5, <2>6 DEF Pending
<1>12. ASSUME NEW i \in Walked'
       PROVE  PathOf(i)' # Root /\ Explained(PathOf(i))'
  <2>1. CASE i \in Walked
    <3>1. PathOf(i) # Root /\ Explained(PathOf(i))
      BY <1>6, <2>1 DEF CoverInv
    <3>2. entries'[i] = entries[i] /\ fs' = fs /\ touched' = touched
      BY <1>2, <1>3, <2>1
    <3> QED
      BY <3>1, <3>2 DEF PathOf, Explained
  <2>2. CASE i = n + 1
    BY <1>2, <1>6, <1>7, <2>2 DEF PathOf, Explained
  <2> QED
    BY <1>3, <2>1, <2>2
<1> QED
  BY <1>11, <1>12

(* What was entered was on disk, or is where something changed. *)
LEMMA MoveExplains ==
  ASSUME TypeInv, CoverInv, [WalkNext]_allVars, SameCall, Walking',
         entries' = entries, NEW i \in Walked'
  PROVE  PathOf(i)' # Root /\ Explained(PathOf(i))'
<1>1. WalkMove /\ call.op = "walk"
  BY WalkMoves DEF SameCall, Walking
<1>2. i \in Walked /\ entries'[i] = entries[i]
  BY DEF Walked, SameCall
<1>3. Walking
  BY <1>1, <1>2 DEF WalkMove, Walking, CoverInv
<1>4. PathOf(i) # Root /\ Explained(PathOf(i))
  BY <1>2, <1>3 DEF CoverInv
<1>5. CASE UNCHANGED << fs, touched >>
  BY <1>2, <1>4, <1>5 DEF PathOf, Explained
<1>6. CASE DiskChanges
  <2>1. PICK q \in KnownPaths :
          /\ touched' = touched \union {q}
          /\ \A p \in DOMAIN fs \ DOMAIN fs' : IsPrefix(q, p)
    BY <1>6 DEF DiskChanges
  <2> QED
    BY <1>2, <1>4, <2>1 DEF PathOf, Explained
<1> QED
  BY <1>1, <1>5, <1>6 DEF WalkMove

(* Ok is what only the end of the loop returns. *)
LEMMA OkFromFinish ==
  ASSUME TypeInv, [WalkNext]_allVars, SameCall, call.op = "walk", InCall,
         ~InCall', outcome' = "Ok"
  PROVE  FinishWalk
<1>1. call \in CallType /\ call'.at = "idle" /\ call.at # "idle" /\ call'.op = "walk"
  BY CallFields DEF InCall, SameCall
<1>2. ASSUME NEW result, Ends(result)
      PROVE  result = "Ok"
  BY <1>2 DEF Ends
<1>3. ~UNCHANGED allVars
  BY <1>1 DEF allVars, walkVars
<1>4. ~StatRoot /\ ~OpenDir
  BY <1>1, <1>2 DEF StatRoot, OpenDir, MayFail, Fails, Goes, CallType
<1>5. ~NextEntry /\ ~PopDirectory /\ ~DropCall
  BY <1>1, <1>2 DEF NextEntry, PopDirectory, DropCall, MayFail, Fails, Goes, CallType
<1>6. ~EntryMetadata
  BY <1>1, <1>2 DEF EntryMetadata, Adds, MayFail, Fails, Goes, CallType
<1>7. ~ReadLink
  BY <1>1, <1>2 DEF ReadLink, Adds, MayFail, Fails, Goes, CallType
<1>8. ~FsChange
  BY <1>1, ChangesDisk
<1>9. ~Begin
  BY <1>1 DEF Begin, InCall
<1> QED
  BY <1>3, <1>4, <1>5, <1>6, <1>7, <1>8, <1>9 DEF WalkNext, WalkStep

LEMMA OkCovers ==
  ASSUME TypeInv, CoverInv, [WalkNext]_allVars, SameCall, call.op = "walk"
  PROVE  OkWalkIsTheTree'
<1> SUFFICES ASSUME ~InCall', outcome' = "Ok"
             PROVE  OkWalkIsTheTree'
  BY DEF OkWalkIsTheTree
<1>1. CASE ~InCall
  <2>1. call.at = "idle" /\ call'.at = "idle" /\ call'.op = "walk"
    BY <1>1 DEF InCall, SameCall
  <2>2. ~Begin
    BY <2>1 DEF Begin, AddDirectoryRecursive, AddFilesystemEntry, NoCall
  <2>3. ~WalkStep
    BY <2>1 DEF WalkStep, StatRoot, OpenDir, NextEntry, PopDirectory, FinishWalk,
       EntryMetadata, ReadLink
  <2>4. ~DropCall /\ ~FsChange
    BY <1>1 DEF DropCall, FsChange, Deleted, Created, Replaced, Changes
  <2>5. UNCHANGED allVars
    BY <2>2, <2>3, <2>4 DEF WalkNext
  <2> QED
    BY <2>5 DEF CoverInv, OkWalkIsTheTree, Walked, Untouched, InCall, allVars, vars,
       walkVars
<1>2. CASE InCall
  <2>1. FinishWalk
    BY <1>2, OkFromFinish
  <2>2. /\ call.at = "next" /\ call.listing = {} /\ call.stack = << >>
        /\ UNCHANGED << fs, touched >> /\ Walking
    BY <2>1 DEF FinishWalk, Ends, Walking
  <2>3. Untouched' = Untouched
    BY <2>2 DEF Untouched
  <2>4. \A p \in Untouched : Entered(p)
    BY <2>2, AllEntered
  <2>5. \A p \in Untouched' : Entered(p)'
    BY <2>2, <2>3, <2>4, EnteredStays
  <2>6. /\ \A i \in Walked : i \in Walked' /\ entries'[i] = entries[i]
        /\ \A i \in Walked' : i \in Walked \/ i = Len(entries) + 1
    BY WalkedGrows
  <2>7. \A i \in Walked : PathOf(i) # Root /\ Explained(PathOf(i))
    BY <2>2 DEF CoverInv
  <2>8. \A i \in Walked : i \in 1 .. Len(entries)
    BY CallFields DEF Walked
  <2>9. Len(entries) \in Nat /\ call'.root_name = call.root_name
    BY CallFields DEF SameCall
  <2>10. \A i \in Walked :
           LET p == entries'[i].value.data.path IN
           /\ p # Root
           /\ p \in Untouched' \union {Root} \/ \E q \in touched' : IsPrefix(q, p)
    BY <2>2, <2>3, <2>6, <2>7 DEF PathOf, Explained, Untouched
  <2>11. CASE call.root_name = None
    <3>1. entries' = entries
      BY <2>1, <2>11 DEF FinishWalk, vars
    <3>2. Walked' = Walked
      BY <3>1 DEF Walked, SameCall
    <3> QED
      BY <2>5, <2>9, <2>10, <2>11, <3>2 DEF OkWalkIsTheTree, Entered
  <2>12. CASE call.root_name # None
    <3> DEFINE n == Len(entries)
               x == entries'[n + 1]
    <3>1. \E name, value : AddEntryAs(name, value) /\ last' = "Ok"
      BY <2>1, <2>12 DEF FinishWalk, Ends
    <3>2. entries' # entries
      <4>1. PICK y : entries' = Append(entries, y)
        BY <3>1 DEF AddEntryAs
      <4>2. entries \in Seq(MapEntry)
        BY DEF TypeInv, BuilderInv, TypeOK, MapEntry
      <4>3. Len(Append(entries, y)) = n + 1
        BY <4>2
      <4>4. Len(entries') # Len(entries)
        BY <2>9, <4>1, <4>3
      <4> QED
        BY <4>4
    <3>3. WalkNext /\ call'.op = "walk"
      BY <3>2 DEF allVars, vars, SameCall
    <3>4. /\ Len(entries') = n + 1
          /\ x.name = call.root_name[1]
          /\ x.value.data.path = Root
      <4>1. call'.at # "next"
        BY DEF InCall
      <4> QED
        BY <3>2, <3>3, <4>1, WalkAdds
    <3>5. n + 1 \in Walked'
      <4>1. DOMAIN entries' = 1 .. n + 1
        BY <3>4, EntriesGrow
      <4> QED
        BY <2>9, <3>3, <4>1, CallFields DEF Walked, SameCall
    <3>6. \A i \in Walked : i # n + 1
      BY <2>8, <2>9
    <3>7. \A i \in Walked' : i \in Walked \/ i = n + 1
      BY <2>6
    <3>8. \A i \in Walked' : LET p == entries'[i].value.data.path IN
            /\ p = Root <=> i = n + 1
            /\ p \in Untouched' \union {Root} \/ \E q \in touched' : IsPrefix(q, p)
      BY <2>10, <3>4, <3>6, <3>7
    <3> QED
      BY <2>5, <2>9, <2>12, <3>4, <3>5, <3>8 DEF OkWalkIsTheTree, Entered
  <2> QED
    BY <2>11, <2>12
<1> QED
  BY <1>1, <1>2

LEMMA StaysAtRoot ==
  ASSUME TypeInv, CoverInv, [WalkNext]_allVars, SameCall, call.op = "walk",
         call'.at = "root"
  PROVE  Walked' = {}
<1>1. call \in CallType /\ call'.op = "walk"
  BY CallFields DEF SameCall
<1>2. entries' = entries
  <2> SUFFICES ASSUME entries' # entries
               PROVE  FALSE
    OBVIOUS
  <2>1. WalkNext
    BY DEF allVars, vars
  <2> QED
    BY <1>1, <2>1, WalkAdds
<1>3. ASSUME NEW result, Ends(result)
      PROVE  FALSE
  BY <1>3 DEF Ends, NoCall
<1>4. CASE call.at = "root"
  BY <1>2, <1>4 DEF CoverInv, Walked, SameCall
<1>5. CASE Begin
  <2>1. ASSUME NEW root_name \in RootNames, AddDirectoryRecursive(root_name)
        PROVE  Walked' = {}
    BY <1>1, <2>1, CallFields DEF AddDirectoryRecursive, Walked, NoCall, vars
  <2>2. ASSUME NEW name \in EntryNames, NEW path \in DOMAIN fs,
               AddFilesystemEntry(name, path)
        PROVE  FALSE
    BY <1>1, <2>2 DEF AddFilesystemEntry, NoCall
  <2> QED
    BY <1>5, <2>1, <2>2 DEF Begin
<1>6. UNCHANGED allVars \/ FsChange => call.at = "root"
  BY ChangesDisk DEF allVars, walkVars
<1>7. ~StatRoot /\ ~OpenDir /\ ~NextEntry /\ ~PopDirectory /\ ~DropCall
  BY <1>1, <1>3 DEF StatRoot, OpenDir, NextEntry, PopDirectory, DropCall, MayFail,
     Fails, Goes, CallType
<1>8. ~FinishWalk /\ ~EntryMetadata /\ ~ReadLink
  BY <1>1, <1>3 DEF FinishWalk, EntryMetadata, ReadLink, Adds, MayFail, Fails, Goes,
     CallType
<1> QED
  BY <1>4, <1>5, <1>6, <1>7, <1>8 DEF WalkNext, WalkStep

LEMMA CoverNext ==
  ASSUME TypeInv, CoverInv, [WalkNext]_allVars
  PROVE  CoverInv'
<1>1. CASE Walked' = {} /\ call'.at # "idle" /\ ~Walking'
  BY <1>1 DEF CoverInv, OkWalkIsTheTree, InCall
<1>2. CASE call'.op = "entry"
  BY <1>2 DEF CoverInv, OkWalkIsTheTree, Walking
<1>3. CASE SameCall /\ call.op # "walk"
  BY <1>3 DEF CoverInv, OkWalkIsTheTree, Walking, SameCall
<1>4. CASE SameCall /\ call.op = "walk"
  <2>1. OkWalkIsTheTree'
    BY <1>4, OkCovers
  <2>2. ASSUME Walking'
        PROVE  /\ \A p \in Untouched' : Entered(p)' \/ Pending(p)'
               /\ \A i \in Walked' : PathOf(i)' # Root /\ Explained(PathOf(i))'
    BY <1>4, <2>2, MoveCovers, MoveExplains, AddCovers
  <2>3. ASSUME call'.at = "root"
        PROVE  Walked' = {}
    BY <1>4, <2>3, StaysAtRoot
  <2> QED
    BY <2>1, <2>2, <2>3 DEF CoverInv
<1> QED
  BY <1>1, <1>2, <1>3, <1>4, CallGoesOn

LEMMA CoverInit == WalkInit => CoverInv
<1> SUFFICES ASSUME WalkInit
             PROVE  CoverInv
  OBVIOUS
<1>1. call.op = "none"
  BY DEF WalkInit, NoCall
<1> QED
  BY <1>1 DEF CoverInv, OkWalkIsTheTree, Walking

(* What add_directory_recursive says when it returns Ok: everything below  *)
(* the directory that nobody changed meanwhile is in the builder, under    *)
(* the name that says where it was, with its data, type and mode; nothing  *)
(* is there that was not on disk; and the root is the last entry, if it    *)
(* was to have a name.  A path leaves the listing before it is entered,    *)
(* and the directories wait on the stack, while the tree changes under     *)
(* both: this says that none is lost on the way.                           *)
THEOREM OkWalkIsTheWholeTree == WalkSpec => []OkWalkIsTheTree
<1>1. TypeInv /\ CoverInv /\ [WalkNext]_allVars => (TypeInv /\ CoverInv)'
  BY TypeNext, CoverNext
<1>2. WalkInit => TypeInv /\ CoverInv
  BY TypeInit, CoverInit
<1>3. CoverInv => OkWalkIsTheTree
  BY DEF CoverInv
<1> QED
  BY <1>1, <1>2, <1>3, PTL DEF WalkSpec

=============================================================================
