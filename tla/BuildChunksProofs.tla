--------------------------- MODULE BuildChunksProofs ---------------------------
(***************************************************************************)
(* Proofs about BuildChunks: for every list of file sizes, every chunk     *)
(* size and every number of files per chunk.                               *)
(***************************************************************************)
EXTENDS BuildChunks, FiniteSetTheorems, TLAPS

Ranges == [file : Nat, from : Nat, to : Nat]
ChunkLists == Seq(Seq(Ranges))

\* The bytes of all chunks.
BytesIn(chunks) == UNION {Bytes(chunks[k]) : k \in DOMAIN chunks}

\* The bytes the loops have passed when they are at offset off of file i.
Before(sz, i, off) ==
    {x \in (DOMAIN sz) \X Nat : /\ x[2] < sz[x[1]]
                                /\ x[1] < i \/ (x[1] = i /\ x[2] < off)}

\* A range that is within its file and before that point.
Behind(sz, r, i, off) ==
    /\ r.file \in DOMAIN sz /\ r.from < r.to /\ r.to <= sz[r.file]
    /\ r.file < i \/ (r.file = i /\ r.to <= off)
AllBehind(sz, chunks, i, off) ==
    \A k \in DOMAIN chunks : \A j \in DOMAIN chunks[k] : Behind(sz, chunks[k][j], i, off)

(***************************************************************************)
(* What appending a range, or a chunk, does.                               *)
(***************************************************************************)

\* The bytes of a chunk that is extended.
LEMMA BytesAppend ==
    ASSUME NEW c \in Seq(Ranges), NEW r \in Ranges
    PROVE  Bytes(Append(c, r)) = Bytes(c) \cup RangeBytes(r)
<1> DEFINE a == Append(c, r)
<1>1. /\ Len(c) \in Nat /\ DOMAIN c = 1..Len(c) /\ DOMAIN a = 1..(Len(c) + 1)
      /\ \A j \in 1..Len(c) : a[j] = c[j]
      /\ a[Len(c) + 1] = r
  OBVIOUS
<1> HIDE DEF a
<1>2. \A x : x \in Bytes(a) <=> \E j \in DOMAIN a : x \in RangeBytes(a[j])
  BY DEF Bytes
<1>3. \A x : x \in Bytes(c) <=> \E j \in DOMAIN c : x \in RangeBytes(c[j])
  BY DEF Bytes
<1>4. \A j : j \in DOMAIN a <=> j \in DOMAIN c \/ j = Len(c) + 1
  BY <1>1
<1>5. ASSUME NEW x
      PROVE  x \in Bytes(a) <=> x \in Bytes(c) \/ x \in RangeBytes(r)
  BY <1>1, <1>2, <1>3, <1>4
<1> QED
  BY <1>5 DEF a

\* What Append does to a list of chunks.
LEMMA ListAppend ==
    ASSUME NEW cs \in ChunkLists, NEW c \in Seq(Ranges)
    PROVE  /\ Append(cs, c) \in ChunkLists
           /\ Len(cs) \in Nat /\ DOMAIN cs = 1..Len(cs)
           /\ DOMAIN Append(cs, c) = 1..(Len(cs) + 1)
           /\ \A k \in 1..Len(cs) : Append(cs, c)[k] = cs[k]
           /\ Append(cs, c)[Len(cs) + 1] = c
  BY DEF ChunkLists

\* The bytes of a list that is extended.
LEMMA BytesInAppend ==
    ASSUME NEW cs \in ChunkLists, NEW c \in Seq(Ranges)
    PROVE  BytesIn(Append(cs, c)) = BytesIn(cs) \cup Bytes(c)
<1> DEFINE a == Append(cs, c)
<1>1. /\ Len(cs) \in Nat /\ DOMAIN cs = 1..Len(cs) /\ DOMAIN a = 1..(Len(cs) + 1)
      /\ \A k \in 1..Len(cs) : a[k] = cs[k]
      /\ a[Len(cs) + 1] = c
  BY ListAppend
<1> HIDE DEF a
<1>2. \A x : x \in BytesIn(a) <=> \E k \in DOMAIN a : x \in Bytes(a[k])
  BY DEF BytesIn
<1>3. \A x : x \in BytesIn(cs) <=> \E k \in DOMAIN cs : x \in Bytes(cs[k])
  BY DEF BytesIn
<1>4. \A k : k \in DOMAIN a <=> k \in DOMAIN cs \/ k = Len(cs) + 1
  BY <1>1
<1>5. ASSUME NEW x
      PROVE  x \in BytesIn(a) <=> x \in BytesIn(cs) \/ x \in Bytes(c)
  BY <1>1, <1>2, <1>3, <1>4
<1> QED
  BY <1>5 DEF a

\* An empty chunk has no bytes.
LEMMA NoBytes == Bytes(<< >>) = {}
  BY DEF Bytes

\* The number of bytes of a range.
LEMMA RangeSize ==
    ASSUME NEW r \in Ranges, r.from < r.to
    PROVE  IsFiniteSet(RangeBytes(r)) /\ Cardinality(RangeBytes(r)) = r.to - r.from
<1>1. r.from \in Int /\ r.to - 1 \in Int /\ r.from \in Nat /\ r.to \in Nat
  BY DEF Ranges
<1>2. IsFiniteSet(r.from .. (r.to - 1)) /\ Cardinality(r.from .. (r.to - 1)) = r.to - r.from
  <2> DEFINE a == r.from
             b == r.to - 1
  <2>1. a \in Int /\ b \in Int /\ ~(a > b) /\ b - a + 1 = r.to - r.from
    BY <1>1
  <2> HIDE DEF a, b
  <2>2. IsFiniteSet(a..b) /\ Cardinality(a..b) = b - a + 1
    BY <2>1, FS_Interval
  <2> QED
    BY <2>1, <2>2 DEF a, b
<1>3. IsFiniteSet({r.file}) /\ Cardinality({r.file}) = 1
  BY FS_Singleton
<1>4. /\ IsFiniteSet(RangeBytes(r))
      /\ Cardinality(RangeBytes(r)) = Cardinality({r.file}) * Cardinality(r.from .. (r.to - 1))
  BY <1>2, <1>3, FS_Product DEF RangeBytes
<1> QED
  BY <1>1, <1>2, <1>3, <1>4

\* The size of a chunk grows by that of a range behind all of its ranges.
LEMMA SizeAppend ==
    ASSUME NEW c \in Seq(Ranges), NEW r \in Ranges, r.from < r.to, IsFiniteSet(Bytes(c)),
           \A j \in DOMAIN c : LiesBefore(c[j], r)
    PROVE  /\ IsFiniteSet(Bytes(Append(c, r)))
           /\ Cardinality(Bytes(Append(c, r))) = Cardinality(Bytes(c)) + (r.to - r.from)
<1>1. Bytes(Append(c, r)) = Bytes(c) \cup RangeBytes(r)
  BY BytesAppend
<1>2. IsFiniteSet(RangeBytes(r)) /\ Cardinality(RangeBytes(r)) = r.to - r.from
  BY RangeSize
<1>3. Bytes(c) \cap RangeBytes(r) = {}
  <2> SUFFICES ASSUME NEW x \in Bytes(c), x \in RangeBytes(r) PROVE FALSE
    OBVIOUS
  <2>1. PICK j \in DOMAIN c : x \in RangeBytes(c[j])
    BY DEF Bytes
  <2>2. c[j] \in Ranges /\ LiesBefore(c[j], r)
    OBVIOUS
  <2>3. x[1] = c[j].file /\ x[2] \in c[j].from .. (c[j].to - 1)
    BY <2>1 DEF RangeBytes
  <2>4. x[1] = r.file /\ x[2] \in r.from .. (r.to - 1)
    BY DEF RangeBytes
  <2>5. /\ c[j].file \in Nat /\ c[j].from \in Nat /\ c[j].to \in Nat
        /\ r.file \in Nat /\ r.from \in Nat /\ r.to \in Nat
    BY <2>2 DEF Ranges
  <2> QED
    BY <2>2, <2>3, <2>4, <2>5 DEF LiesBefore
<1>4. /\ IsFiniteSet(Bytes(c) \cup RangeBytes(r))
      /\ Cardinality(Bytes(c) \cup RangeBytes(r))
            = Cardinality(Bytes(c)) + Cardinality(RangeBytes(r)) - Cardinality({})
  <2> DEFINE S == Bytes(c)
             T == RangeBytes(r)
  <2>1. IsFiniteSet(S) /\ IsFiniteSet(T) /\ S \cap T = {}
    BY <1>2, <1>3
  <2> HIDE DEF S, T
  <2>2. /\ IsFiniteSet(S \cup T)
        /\ Cardinality(S \cup T) = Cardinality(S) + Cardinality(T) - Cardinality(S \cap T)
    BY <2>1, FS_Union
  <2> QED
    BY <2>1, <2>2 DEF S, T
<1>5. Cardinality({}) = 0 /\ Cardinality(Bytes(c)) \in Nat /\ r.to - r.from \in Int
  BY FS_EmptySet, FS_CardinalityType DEF Ranges
<1> QED
  BY <1>1, <1>2, <1>4, <1>5

\* The ranges of a file: an empty chunk adds none, a range adds its place.
LEMMA RangesOfAppend ==
    ASSUME NEW cs \in ChunkLists, NEW c \in Seq(Ranges), NEW r \in Ranges, NEW i
    PROVE  /\ RangesOf(Append(cs, << >>), i) = RangesOf(cs, i)
           /\ RangesOf(Append(cs, Append(c, r)), i)
                 = RangesOf(Append(cs, c), i)
                      \cup (IF r.file = i THEN {<<Len(cs) + 1, Len(c) + 1>>} ELSE {})
           /\ <<Len(cs) + 1, Len(c) + 1>> \notin RangesOf(Append(cs, c), i)
<1> DEFINE e == Append(cs, << >>)
           d == Append(c, r)
           a == Append(cs, c)
           b == Append(cs, d)
<1>0. d \in Seq(Ranges) /\ << >> \in Seq(Ranges)
  OBVIOUS
<1>1. /\ Len(cs) \in Nat /\ DOMAIN cs = 1..Len(cs)
      /\ DOMAIN e = 1..(Len(cs) + 1) /\ e[Len(cs) + 1] = << >>
      /\ DOMAIN a = 1..(Len(cs) + 1) /\ a[Len(cs) + 1] = c
      /\ DOMAIN b = 1..(Len(cs) + 1) /\ b[Len(cs) + 1] = d
      /\ \A k \in 1..Len(cs) : e[k] = cs[k] /\ a[k] = cs[k] /\ b[k] = cs[k]
  BY <1>0, ListAppend
<1>2. /\ Len(c) \in Nat /\ DOMAIN c = 1..Len(c) /\ DOMAIN d = 1..(Len(c) + 1)
      /\ \A j \in 1..Len(c) : d[j] = c[j]
      /\ d[Len(c) + 1] = r /\ DOMAIN << >> = {}
  OBVIOUS
<1> HIDE DEF a, b, d, e
<1>3. ASSUME NEW x, NEW f
      PROVE  x \in RangesOf(f, i) <=>
                \E k \in DOMAIN f : \E j \in DOMAIN f[k] : f[k][j].file = i /\ x = <<k, j>>
  <2>1. x \in RangesOf(f, i) <=>
           \E k \in DOMAIN f : x \in {k} \X {j \in DOMAIN f[k] : f[k][j].file = i}
    BY DEF RangesOf
  <2>2. ASSUME NEW k
        PROVE  x \in {k} \X {j \in DOMAIN f[k] : f[k][j].file = i}
                  <=> \E j \in DOMAIN f[k] : f[k][j].file = i /\ x = <<k, j>>
    OBVIOUS
  <2> QED
    BY <2>1, <2>2
<1>4. RangesOf(e, i) = RangesOf(cs, i)
  <2>1. ASSUME NEW x
        PROVE  x \in RangesOf(e, i) <=> x \in RangesOf(cs, i)
    BY <1>1, <1>2, <1>3
  <2> QED
    BY <2>1
<1>5. ASSUME NEW x
      PROVE  x \in RangesOf(b, i) <=>
                x \in RangesOf(a, i) \/ (r.file = i /\ x = <<Len(cs) + 1, Len(c) + 1>>)
  <2>1. ASSUME x \in RangesOf(b, i)
        PROVE  x \in RangesOf(a, i) \/ (r.file = i /\ x = <<Len(cs) + 1, Len(c) + 1>>)
    <3>1. PICK k \in DOMAIN b : \E j \in DOMAIN b[k] : b[k][j].file = i /\ x = <<k, j>>
      BY <2>1, <1>3
    <3>2. PICK j \in DOMAIN b[k] : b[k][j].file = i /\ x = <<k, j>>
      BY <3>1
    <3>3. CASE k = Len(cs) + 1
      <4>1. CASE j = Len(c) + 1
        BY <3>2, <3>3, <4>1, <1>1, <1>2
      <4>2. CASE j # Len(c) + 1
        <5>1. k \in DOMAIN a /\ j \in DOMAIN a[k] /\ a[k][j].file = i
          BY <3>2, <3>3, <4>2, <1>1, <1>2
        <5> QED
          BY <5>1, <3>2, <1>3
      <4> QED
        BY <4>1, <4>2
    <3>4. CASE k # Len(cs) + 1
      <4>1. k \in DOMAIN a /\ a[k] = b[k]
        BY <3>4, <1>1
      <4> QED
        BY <4>1, <3>2, <1>3
    <3> QED
      BY <3>3, <3>4
  <2>2. ASSUME x \in RangesOf(a, i)
        PROVE  x \in RangesOf(b, i)
    <3>1. PICK k \in DOMAIN a : \E j \in DOMAIN a[k] : a[k][j].file = i /\ x = <<k, j>>
      BY <2>2, <1>3
    <3>2. PICK j \in DOMAIN a[k] : a[k][j].file = i /\ x = <<k, j>>
      BY <3>1
    <3>3. k \in DOMAIN b /\ j \in DOMAIN b[k] /\ b[k][j] = a[k][j]
      <4>1. CASE k = Len(cs) + 1
        BY <4>1, <3>2, <1>1, <1>2
      <4>2. CASE k # Len(cs) + 1
        BY <4>2, <3>2, <1>1
      <4> QED
        BY <4>1, <4>2
    <3> QED
      BY <3>2, <3>3, <1>3
  <2>3. ASSUME r.file = i, x = <<Len(cs) + 1, Len(c) + 1>>
        PROVE  x \in RangesOf(b, i)
    <3>1. Len(cs) + 1 \in DOMAIN b /\ Len(c) + 1 \in DOMAIN d /\ d[Len(c) + 1].file = i
      BY <2>3, <1>1, <1>2
    <3> QED
      BY <3>1, <2>3, <1>1, <1>3
  <2> QED
    BY <2>1, <2>2, <2>3
<1>6. RangesOf(b, i) = RangesOf(a, i)
                          \cup (IF r.file = i THEN {<<Len(cs) + 1, Len(c) + 1>>} ELSE {})
  BY <1>5
<1>7. <<Len(cs) + 1, Len(c) + 1>> \notin RangesOf(a, i)
  <2> SUFFICES ASSUME <<Len(cs) + 1, Len(c) + 1>> \in RangesOf(a, i) PROVE FALSE
    OBVIOUS
  <2>1. PICK k \in DOMAIN a : \E j \in DOMAIN a[k] : <<Len(cs) + 1, Len(c) + 1>> = <<k, j>>
    BY <1>3
  <2>2. Len(c) + 1 \in DOMAIN c
    BY <2>1, <1>1
  <2> QED
    BY <2>2, <1>2
<1> QED
  BY <1>4, <1>6, <1>7 DEF a, b, d, e

\* The order and the place of the ranges: an empty chunk changes nothing.
LEMMA EmptyAppend ==
    ASSUME NEW sz, NEW cs \in ChunkLists, NEW i, NEW off
    PROVE  /\ Ordered(Append(cs, << >>)) <=> Ordered(cs)
           /\ AllBehind(sz, Append(cs, << >>), i, off) <=> AllBehind(sz, cs, i, off)
<1> DEFINE e == Append(cs, << >>)
<1>0. << >> \in Seq(Ranges)
  OBVIOUS
<1>1. /\ Len(cs) \in Nat /\ DOMAIN cs = 1..Len(cs)
      /\ DOMAIN e = 1..(Len(cs) + 1) /\ e[Len(cs) + 1] = << >>
      /\ \A k \in 1..Len(cs) : e[k] = cs[k]
      /\ DOMAIN << >> = {}
  BY <1>0, ListAppend
<1> HIDE DEF e
<1>2. \A k : k \in DOMAIN e <=> k \in DOMAIN cs \/ k = Len(cs) + 1
  BY <1>1
<1>3. \A k \in DOMAIN e : DOMAIN e[k] # {} => k \in DOMAIN cs /\ e[k] = cs[k]
  BY <1>1, <1>2
<1>4. \A k \in DOMAIN cs : k \in DOMAIN e /\ e[k] = cs[k]
  BY <1>1, <1>2
<1>5. Ordered(e) <=> Ordered(cs)
  BY <1>3, <1>4 DEF Ordered
<1>6. AllBehind(sz, e, i, off) <=> AllBehind(sz, cs, i, off)
  BY <1>3, <1>4 DEF AllBehind
<1> QED
  BY <1>5, <1>6 DEF e

\* A range at the end, with everything else behind its beginning.
LEMMA OrderedAppend ==
    ASSUME NEW cs \in ChunkLists, NEW c \in Seq(Ranges), NEW r \in Ranges, NEW sz,
           Ordered(Append(cs, c)), AllBehind(sz, Append(cs, c), r.file, r.from)
    PROVE  /\ Ordered(Append(cs, Append(c, r)))
           /\ \A j \in DOMAIN c : LiesBefore(c[j], r)
<1> DEFINE d == Append(c, r)
           a == Append(cs, c)
           b == Append(cs, d)
<1>0. d \in Seq(Ranges)
  OBVIOUS
<1>1. /\ Len(cs) \in Nat /\ DOMAIN cs = 1..Len(cs)
      /\ DOMAIN a = 1..(Len(cs) + 1) /\ a[Len(cs) + 1] = c
      /\ DOMAIN b = 1..(Len(cs) + 1) /\ b[Len(cs) + 1] = d
      /\ \A k \in 1..Len(cs) : a[k] = cs[k] /\ b[k] = cs[k]
  BY <1>0, ListAppend
<1>2. /\ Len(c) \in Nat /\ DOMAIN c = 1..Len(c) /\ DOMAIN d = 1..(Len(c) + 1)
      /\ \A j \in 1..Len(c) : d[j] = c[j]
      /\ d[Len(c) + 1] = r
  OBVIOUS
<1>3. \A k \in DOMAIN a : \A j \in DOMAIN a[k] : LiesBefore(a[k][j], r)
  BY DEF AllBehind, Behind, LiesBefore
<1>4. Ordered(a)
  OBVIOUS
<1> HIDE DEF a, b, d
\* The places of b are those of a and the new one.
<1>5. ASSUME NEW k \in DOMAIN b, NEW j \in DOMAIN b[k]
      PROVE  \/ k \in DOMAIN a /\ j \in DOMAIN a[k] /\ b[k][j] = a[k][j] /\ j \in Nat /\ k \in Nat
             \/ k = Len(cs) + 1 /\ j = Len(c) + 1 /\ b[k][j] = r
  <2>1. CASE k = Len(cs) + 1
    BY <2>1, <1>1, <1>2
  <2>2. CASE k # Len(cs) + 1
    <3>1. k \in 1..Len(cs) /\ b[k] = cs[k] /\ a[k] = cs[k] /\ cs[k] \in Seq(Ranges)
      BY <2>2, <1>1 DEF ChunkLists
    <3>2. j \in 1..Len(cs[k])
      BY <3>1
    <3> QED
      BY <3>1, <3>2, <1>1
  <2> QED
    BY <2>1, <2>2
<1>6. ASSUME NEW k \in DOMAIN b, NEW l \in DOMAIN b, NEW i \in DOMAIN b[k], NEW j \in DOMAIN b[l],
             k < l \/ (k = l /\ i < j)
      PROVE  LiesBefore(b[k][i], b[l][j])
  <2>1. ~(k = Len(cs) + 1 /\ i = Len(c) + 1)
    BY <1>1, <1>2, <1>6
  <2>2. k \in DOMAIN a /\ i \in DOMAIN a[k] /\ b[k][i] = a[k][i]
    BY <2>1, <1>5
  <2>3. CASE l \in DOMAIN a /\ j \in DOMAIN a[l] /\ b[l][j] = a[l][j]
    BY <2>2, <2>3, <1>4, <1>6 DEF Ordered
  <2>4. CASE b[l][j] = r
    BY <2>2, <2>4, <1>3
  <2> QED
    BY <2>3, <2>4, <1>5
<1>7. Ordered(b)
  BY <1>6 DEF Ordered
<1>8. \A j \in DOMAIN c : LiesBefore(c[j], r)
  BY <1>1, <1>3
<1> QED
  BY <1>7, <1>8 DEF b, d

\* The ranges stay behind when the loops move on.
LEMMA BehindAppend ==
    ASSUME NEW cs \in ChunkLists, NEW c \in Seq(Ranges), NEW r \in Ranges,
           NEW sz, NEW i, NEW off, NEW m, NEW n,
           AllBehind(sz, Append(cs, c), i, off),
           \A s \in Ranges : Behind(sz, s, i, off) => Behind(sz, s, m, n),
           Behind(sz, r, m, n)
    PROVE  AllBehind(sz, Append(cs, Append(c, r)), m, n)
<1> DEFINE d == Append(c, r)
           a == Append(cs, c)
           b == Append(cs, d)
<1>0. d \in Seq(Ranges)
  OBVIOUS
<1>1. /\ Len(cs) \in Nat /\ DOMAIN cs = 1..Len(cs)
      /\ DOMAIN a = 1..(Len(cs) + 1) /\ a[Len(cs) + 1] = c
      /\ DOMAIN b = 1..(Len(cs) + 1) /\ b[Len(cs) + 1] = d
      /\ \A k \in 1..Len(cs) : a[k] = cs[k] /\ b[k] = cs[k]
  BY <1>0, ListAppend
<1>2. /\ Len(c) \in Nat /\ DOMAIN c = 1..Len(c) /\ DOMAIN d = 1..(Len(c) + 1)
      /\ \A j \in 1..Len(c) : d[j] = c[j]
      /\ d[Len(c) + 1] = r
  OBVIOUS
<1>3. AllBehind(sz, a, i, off)
  OBVIOUS
<1> HIDE DEF a, b, d
<1>4. ASSUME NEW k \in DOMAIN b, NEW j \in DOMAIN b[k]
      PROVE  Behind(sz, b[k][j], m, n)
  <2>1. CASE k = Len(cs) + 1
    <3>1. CASE j = Len(c) + 1
      BY <2>1, <3>1, <1>1, <1>2
    <3>2. CASE j # Len(c) + 1
      <4>1. j \in DOMAIN c /\ b[k][j] = c[j] /\ c[j] \in Ranges
        BY <2>1, <3>2, <1>1, <1>2
      <4>2. Behind(sz, c[j], i, off)
        BY <4>1, <1>1, <1>3 DEF AllBehind
      <4> QED
        BY <4>1, <4>2
    <3> QED
      BY <3>1, <3>2
  <2>2. CASE k # Len(cs) + 1
    <3>1. k \in 1..Len(cs) /\ b[k] = cs[k] /\ a[k] = cs[k] /\ cs[k] \in Seq(Ranges)
      BY <2>2, <1>1 DEF ChunkLists
    <3>2. j \in 1..Len(cs[k]) /\ b[k][j] \in Ranges
      BY <3>1
    <3>3. k \in DOMAIN a /\ j \in DOMAIN a[k] /\ a[k][j] = b[k][j]
      BY <3>1, <3>2, <1>1
    <3>4. Behind(sz, b[k][j], i, off)
      BY <3>3, <1>3 DEF AllBehind
    <3> QED
      BY <3>2, <3>4
  <2> QED
    BY <2>1, <2>2
<1>5. AllBehind(sz, b, m, n)
  BY <1>4 DEF AllBehind
<1> QED
  BY <1>5 DEF b, d

(***************************************************************************)
(* The inductive invariant.                                                *)
(***************************************************************************)

\* The chunks hold what is before offset off of file i and nothing else, in the
\* order of the files, and rem counts their ranges.
Layout(sz, chunks, i, off, rem) ==
    /\ BytesIn(chunks) = Before(sz, i, off)
    /\ Ordered(chunks)
    /\ AllBehind(sz, chunks, i, off)
    /\ \A f \in DOMAIN sz : /\ IsFiniteSet(RangesOf(chunks, f))
                            /\ rem[f] = Cardinality(RangesOf(chunks, f))

\* A chunk that may be in the list, and one that is full.
Proper(c, cap, max) ==
    /\ IsFiniteSet(Bytes(c))
    /\ Cardinality(Bytes(c)) \in 1..cap
    /\ \A j \in DOMAIN c : c[j].from < c[j].to
    /\ max > 0 => Len(c) <= max
Filled(c, cap, max) == Cardinality(Bytes(c)) = cap \/ Len(c) = max

Types ==
    /\ sizes \in Seq(Nat \ {0}) /\ chunkSize \in Nat \ {0} /\ maxFiles \in Int
    /\ index \in 1..(Len(sizes) + 1) /\ start \in Nat
    /\ chunk \in Seq(Ranges) /\ size \in Nat /\ list \in ChunkLists
    /\ remaining \in [DOMAIN sizes -> Nat]
    /\ done \in BOOLEAN

\* The loops are within the file they are at, and leave after the last one.
Position ==
    /\ index <= Len(sizes) => start <= sizes[index]
    /\ index > Len(sizes) => start = 0
    /\ done => index > Len(sizes)

\* currentChunkSize is the size of the open chunk, which has room left.
Room ==
    ~done => /\ IsFiniteSet(Bytes(chunk))
             /\ size = Cardinality(Bytes(chunk)) /\ size < chunkSize
             /\ maxFiles > 0 => Len(chunk) < maxFiles
             /\ chunk # << >> => size > 0

\* The chunks of the list, the last of which may be the rest that Return adds.
Closed ==
    \A k \in DOMAIN list :
        /\ Proper(list[k], chunkSize, maxFiles)
        /\ k < Len(list) \/ ~done => Filled(list[k], chunkSize, maxFiles)

\* The chunks of the list and the open one.
Whole == IF done THEN list ELSE Append(list, chunk)

IInv ==
    /\ Types
    /\ Position
    /\ Room
    /\ Closed
    /\ Layout(sizes, Whole, index, start, remaining)

\* A range that begins where the loops are takes them to its end.
LEMMA LayoutAppend ==
    ASSUME NEW sz \in Seq(Nat \ {0}), NEW cs \in ChunkLists, NEW c \in Seq(Ranges),
           NEW i \in DOMAIN sz, NEW off \in Nat, NEW to \in Nat, off < to, to <= sz[i],
           NEW rem \in [DOMAIN sz -> Nat], Layout(sz, Append(cs, c), i, off, rem)
    PROVE  /\ FileRange(i, off, to) \in Ranges
           /\ \A j \in DOMAIN c : LiesBefore(c[j], FileRange(i, off, to))
           /\ Layout(sz, Append(cs, Append(c, FileRange(i, off, to))), i, to,
                     [rem EXCEPT ![i] = @ + 1])
<1> DEFINE r == FileRange(i, off, to)
           d == Append(c, r)
           a == Append(cs, c)
           b == Append(cs, d)
           new == [rem EXCEPT ![i] = @ + 1]
<1>1. /\ r \in Ranges /\ r.file = i /\ r.from = off /\ r.to = to
      /\ i \in Nat /\ DOMAIN sz = 1..Len(sz) /\ Len(sz) \in Nat
      /\ \A f \in DOMAIN sz : f \in Nat /\ sz[f] \in Nat
  BY DEF FileRange, Ranges
<1>2. /\ BytesIn(a) = Before(sz, i, off) /\ Ordered(a) /\ AllBehind(sz, a, i, off)
      /\ \A f \in DOMAIN sz : /\ IsFiniteSet(RangesOf(a, f))
                              /\ rem[f] = Cardinality(RangesOf(a, f))
  BY DEF Layout
<1> HIDE DEF r
<1>3. d \in Seq(Ranges)
  BY <1>1
<1>4. BytesIn(b) = Before(sz, i, to)
  <2>1. BytesIn(b) = BytesIn(cs) \cup (Bytes(c) \cup RangeBytes(r))
    BY <1>1, <1>3, BytesInAppend, BytesAppend
  <2>2. BytesIn(a) = BytesIn(cs) \cup Bytes(c)
    BY BytesInAppend
  <2>3. BytesIn(b) = Before(sz, i, off) \cup RangeBytes(r)
    BY <2>1, <2>2, <1>2
  <2>4. ASSUME NEW x
        PROVE  x \in Before(sz, i, to) <=> x \in Before(sz, i, off) \/ x \in RangeBytes(r)
    <3>1. x \in RangeBytes(r) <=> x \in {i} \X (off .. (to - 1))
      BY <1>1 DEF RangeBytes
    <3>2. x \in {i} \X (off .. (to - 1))
             <=> x \in (DOMAIN sz) \X Nat /\ x[1] = i /\ off <= x[2] /\ x[2] < to
      BY <1>1
    <3>3. \A o : x \in Before(sz, i, o) <=>
                    /\ x \in (DOMAIN sz) \X Nat
                    /\ x[2] < sz[x[1]]
                    /\ x[1] < i \/ (x[1] = i /\ x[2] < o)
      BY DEF Before
    <3>4. x \in (DOMAIN sz) \X Nat => x[1] \in Nat /\ x[2] \in Nat
      BY <1>1
    <3> QED
      BY <3>1, <3>2, <3>3, <3>4, <1>1
  <2> QED
    BY <2>3, <2>4
<1>5. Ordered(b) /\ \A j \in DOMAIN c : LiesBefore(c[j], r)
  BY <1>1, <1>2, OrderedAppend
<1>6. AllBehind(sz, b, i, to)
  <2>1. \A s \in Ranges : Behind(sz, s, i, off) => Behind(sz, s, i, to)
    BY <1>1 DEF Behind, Ranges
  <2>2. Behind(sz, r, i, to)
    BY <1>1 DEF Behind
  <2> QED
    BY <1>1, <1>2, <2>1, <2>2, BehindAppend
<1>7. ASSUME NEW f \in DOMAIN sz
      PROVE  IsFiniteSet(RangesOf(b, f)) /\ new[f] = Cardinality(RangesOf(b, f))
  <2> DEFINE S == RangesOf(a, f)
             p == <<Len(cs) + 1, Len(c) + 1>>
  <2>1. /\ RangesOf(b, f) = S \cup (IF r.file = f THEN {p} ELSE {})
        /\ p \notin S /\ IsFiniteSet(S) /\ rem[f] = Cardinality(S)
    BY <1>1, <1>2, RangesOfAppend
  <2> HIDE DEF S, p
  <2>2. CASE f = i
    <3>1. RangesOf(b, f) = S \cup {p}
      BY <2>1, <2>2, <1>1
    <3>2. IsFiniteSet(S \cup {p}) /\ Cardinality(S \cup {p}) = Cardinality(S) + 1
      BY <2>1, FS_AddElement
    <3>3. new[f] = rem[f] + 1
      BY <2>2
    <3> QED
      BY <2>1, <3>1, <3>2, <3>3
  <2>3. CASE f # i
    <3>1. RangesOf(b, f) = S
      BY <2>1, <2>3, <1>1
    <3>2. new[f] = rem[f]
      BY <2>3
    <3> QED
      BY <2>1, <3>1, <3>2
  <2> QED
    BY <2>2, <2>3
<1>8. Layout(sz, b, i, to, new)
  BY <1>4, <1>5, <1>6, <1>7 DEF Layout
<1> QED
  BY <1>1, <1>5, <1>8 DEF r

\* The end of a file is the beginning of the next one.
LEMMA LayoutMove ==
    ASSUME NEW sz \in Seq(Nat \ {0}), NEW cs, NEW i \in DOMAIN sz, NEW rem,
           Layout(sz, cs, i, sz[i], rem)
    PROVE  Layout(sz, cs, i + 1, 0, rem)
<1>1. i \in Nat /\ \A f \in DOMAIN sz : f \in Nat /\ sz[f] \in Nat
  OBVIOUS
<1>2. Before(sz, i, sz[i]) = Before(sz, i + 1, 0)
  <2>1. ASSUME NEW x \in (DOMAIN sz) \X Nat
        PROVE  /\ x[2] < sz[x[1]]
               /\ x[1] < i \/ (x[1] = i /\ x[2] < sz[i])
               <=>
               /\ x[2] < sz[x[1]]
               /\ x[1] < i + 1 \/ (x[1] = i + 1 /\ x[2] < 0)
    <3>1. x[1] \in DOMAIN sz /\ x[1] \in Nat /\ x[2] \in Nat /\ sz[x[1]] \in Nat
      BY <1>1
    <3> QED
      BY <3>1, <1>1
  <2> QED
    BY <2>1 DEF Before
<1>3. ASSUME NEW r, Behind(sz, r, i, sz[i])
      PROVE  Behind(sz, r, i + 1, 0)
  BY <1>1, <1>3 DEF Behind
<1>4. AllBehind(sz, cs, i, sz[i]) => AllBehind(sz, cs, i + 1, 0)
  BY <1>3 DEF AllBehind
<1> QED
  BY <1>2, <1>4 DEF Layout

\* An empty chunk changes nothing.
LEMMA LayoutEmpty ==
    ASSUME NEW sz, NEW cs \in ChunkLists, NEW i, NEW off, NEW rem
    PROVE  Layout(sz, Append(cs, << >>), i, off, rem) <=> Layout(sz, cs, i, off, rem)
<1> DEFINE e == Append(cs, << >>)
<1>0. << >> \in Seq(Ranges)
  OBVIOUS
<1>1. BytesIn(e) = BytesIn(cs)
  BY <1>0, BytesInAppend, NoBytes
<1>2. (Ordered(e) <=> Ordered(cs)) /\ (AllBehind(sz, e, i, off) <=> AllBehind(sz, cs, i, off))
  BY EmptyAppend
<1>3. ASSUME NEW f
      PROVE  RangesOf(e, f) = RangesOf(cs, f)
  <2>1. [file |-> 0, from |-> 0, to |-> 0] \in Ranges
    BY DEF Ranges
  <2> QED
    BY <1>0, <2>1, RangesOfAppend
<1> HIDE DEF e
<1>4. Layout(sz, e, i, off, rem) <=> Layout(sz, cs, i, off, rem)
  BY <1>1, <1>2, <1>3 DEF Layout
<1> QED
  BY <1>4 DEF e

(***************************************************************************)
(* The steps.                                                              *)
(***************************************************************************)

\* addToChunk and newChunk, for either of the two ranges the loops cut: the
\* chunk is closed exactly when the range fills it.
LEMMA CutStep ==
    ASSUME IInv, index <= Len(sizes), NEW to \in Nat, start < to, to <= sizes[index],
           size + (to - start) <= chunkSize, NEW full \in BOOLEAN,
           full <=> size + (to - start) = chunkSize \/ Len(chunk) + 1 = maxFiles,
           CountRange, Cut(start, to, full), UNCHANGED <<params, done>>
    PROVE  /\ chunk' \in Seq(Ranges) /\ size' \in Nat /\ list' \in ChunkLists
           /\ remaining' \in [DOMAIN sizes -> Nat]
           /\ ~done /\ Room' /\ Closed'
           /\ Layout(sizes, Whole', index, to, remaining')
<1> DEFINE r == FileRange(index, start, to)
           d == Append(chunk, r)
<1>1. /\ sizes \in Seq(Nat \ {0}) /\ chunkSize \in Nat \ {0} /\ maxFiles \in Int
      /\ index \in DOMAIN sizes /\ start \in Nat
      /\ chunk \in Seq(Ranges) /\ size \in Nat /\ list \in ChunkLists
      /\ remaining \in [DOMAIN sizes -> Nat]
      /\ done = FALSE
  BY DEF IInv, Types, Position
<1>2. /\ sizes' = sizes /\ chunkSize' = chunkSize /\ maxFiles' = maxFiles /\ done' = FALSE
      /\ remaining' = [remaining EXCEPT ![index] = @ + 1]
      /\ remaining' \in [DOMAIN sizes -> Nat]
  BY <1>1 DEF params, CountRange
<1>3. /\ IsFiniteSet(Bytes(chunk)) /\ size = Cardinality(Bytes(chunk)) /\ size < chunkSize
      /\ maxFiles > 0 => Len(chunk) < maxFiles
  BY <1>1 DEF IInv, Room
<1>4. /\ Layout(sizes, Append(list, chunk), index, start, remaining)
      /\ Whole' = Append(list', chunk')
  BY <1>1, <1>2 DEF IInv, Whole
<1>5. /\ r \in Ranges /\ r.from = start /\ r.to = to
      /\ \A j \in DOMAIN chunk : LiesBefore(chunk[j], r)
      /\ Layout(sizes, Append(list, d), index, to, remaining')
  <2>1. r.from = start /\ r.to = to
    BY DEF FileRange
  <2> HIDE DEF IInv
  <2> QED
    BY <1>1, <1>2, <1>4, <2>1, LayoutAppend
<1>6. /\ full => list' = Append(list, d) /\ chunk' = << >> /\ size' = 0
      /\ ~full => list' = list /\ chunk' = d /\ size' = size + (to - start)
  BY DEF Cut
<1> HIDE DEF r
<1>7. /\ d \in Seq(Ranges) /\ Len(d) = Len(chunk) + 1 /\ Len(chunk) \in Nat
  BY <1>1, <1>5
<1>8. IsFiniteSet(Bytes(d)) /\ Cardinality(Bytes(d)) = size + (to - start)
  BY <1>1, <1>3, <1>5, SizeAppend
<1> HIDE DEF d
<1>9. \A j \in DOMAIN d : d[j].from < d[j].to
  <2> DEFINE w == Append(list, d)
  <2>1. DOMAIN w = 1..(Len(list) + 1) /\ w[Len(list) + 1] = d /\ Len(list) \in Nat
    BY <1>1, <1>7, ListAppend
  <2>2. AllBehind(sizes, w, index, to)
    BY <1>5 DEF Layout
  <2> HIDE DEF w
  <2> QED
    BY <2>1, <2>2 DEF AllBehind, Behind
<1>10. /\ Proper(d, chunkSize, maxFiles)
       /\ full => Filled(d, chunkSize, maxFiles)
       /\ ~full => /\ size + (to - start) < chunkSize
                   /\ maxFiles > 0 => Len(d) < maxFiles
  <2>0. Cardinality(Bytes(d)) \in Nat /\ to - start > 0
    BY <1>1, <1>8, FS_CardinalityType
  <2>1. /\ Cardinality(Bytes(d)) \in 1..chunkSize
        /\ maxFiles > 0 => Len(d) <= maxFiles
        /\ full => Cardinality(Bytes(d)) = chunkSize \/ Len(d) = maxFiles
        /\ ~full => /\ size + (to - start) < chunkSize
                    /\ maxFiles > 0 => Len(d) < maxFiles
    BY <2>0, <1>1, <1>3, <1>7, <1>8
  <2> QED
    BY <2>1, <1>8, <1>9 DEF Proper, Filled
<1>11. CASE full
  <2>1. list' = Append(list, d) /\ chunk' = << >> /\ size' = 0
    BY <1>6, <1>11
  <2>2. list' \in ChunkLists /\ chunk' \in Seq(Ranges) /\ size' \in Nat
    BY <2>1, <1>1, <1>7, ListAppend
  <2>3. Room'
    <3>1. IsFiniteSet({}) /\ Cardinality({}) = 0
      BY FS_EmptySet
    <3>2. Len(chunk') = 0 /\ Bytes(chunk') = {}
      BY <2>1, NoBytes
    <3>3. size' < chunkSize' /\ (maxFiles' > 0 => Len(chunk') < maxFiles') /\ chunk' = << >>
      BY <2>1, <3>2, <1>1, <1>2
    <3> QED
      BY <2>1, <3>1, <3>2, <3>3 DEF Room
  <2>4. Closed'
    <3>1. /\ DOMAIN list' = 1..(Len(list) + 1) /\ DOMAIN list = 1..Len(list) /\ Len(list) \in Nat
          /\ \A k \in 1..Len(list) : list'[k] = list[k]
          /\ list'[Len(list) + 1] = d
      BY <2>1, <1>1, <1>7, ListAppend
    <3>2. \A k \in DOMAIN list : /\ Proper(list[k], chunkSize, maxFiles)
                                 /\ Filled(list[k], chunkSize, maxFiles)
      BY <1>1 DEF IInv, Closed
    <3>3. \A k \in DOMAIN list' : /\ Proper(list'[k], chunkSize, maxFiles)
                                  /\ Filled(list'[k], chunkSize, maxFiles)
      BY <3>1, <3>2, <1>10, <1>11
    <3> QED
      BY <3>3, <1>2 DEF Closed
  <2>5. Layout(sizes, Whole', index, to, remaining')
    BY <2>1, <2>2, <1>4, <1>5, LayoutEmpty
  <2> QED
    BY <2>2, <2>3, <2>4, <2>5, <1>1, <1>2
<1>12. CASE ~full
  <2>1. list' = list /\ chunk' = d /\ size' = size + (to - start)
    BY <1>6, <1>12
  <2>2. list' \in ChunkLists /\ chunk' \in Seq(Ranges) /\ size' \in Nat /\ size' > 0
    BY <2>1, <1>1, <1>7
  <2>3. Room'
    BY <2>1, <2>2, <1>2, <1>8, <1>10, <1>12 DEF Room
  <2>4. Closed'
    BY <2>1, <1>1, <1>2 DEF IInv, Closed
  <2>5. Layout(sizes, Whole', index, to, remaining')
    BY <2>1, <1>4, <1>5
  <2> QED
    BY <2>2, <2>3, <2>4, <2>5, <1>1, <1>2
<1> QED
  BY <1>11, <1>12

\* Nothing is before the first byte, and there is no chunk.
LEMMA InitIInv == Init => IInv
<1> SUFFICES ASSUME Init PROVE IInv
  OBVIOUS
<1>1. /\ sizes \in Seq(Nat \ {0}) /\ chunkSize \in Nat \ {0} /\ maxFiles \in Int
      /\ index = 1 /\ start = 0 /\ chunk = << >> /\ size = 0 /\ list = << >>
      /\ remaining = [i \in DOMAIN sizes |-> 0] /\ done = FALSE
  BY SizesAssumption DEF Init
<1>2. /\ << >> \in Seq(Ranges) /\ << >> \in ChunkLists /\ DOMAIN << >> = {} /\ Len(<< >>) = 0
      /\ Len(sizes) \in Nat
  BY <1>1 DEF ChunkLists
<1>3. IsFiniteSet({}) /\ Cardinality({}) = 0
  BY FS_EmptySet
<1>4. Types /\ Position
  <2>1. index <= Len(sizes) => sizes[index] \in Nat
    BY <1>1, <1>2
  <2>2. index \in 1..(Len(sizes) + 1) /\ (index <= Len(sizes) => start <= sizes[index])
    BY <1>1, <1>2, <2>1
  <2>3. remaining \in [DOMAIN sizes -> Nat]
    BY <1>1
  <2>4. Types
    BY <1>1, <1>2, <2>2, <2>3 DEF Types
  <2>5. Position
    BY <1>1, <2>2 DEF Position
  <2> QED
    BY <2>4, <2>5
<1>5. Room
  <2>1. size < chunkSize /\ (maxFiles > 0 => Len(chunk) < maxFiles)
    BY <1>1, <1>2
  <2> QED
    BY <2>1, <1>1, <1>3, NoBytes DEF Room
<1>6. Closed
  BY <1>1, <1>2 DEF Closed
<1>7. Layout(sizes, << >>, 1, 0, remaining)
  <2>1. Before(sizes, 1, 0) = {}
    <3> SUFFICES ASSUME NEW x \in (DOMAIN sizes) \X Nat, x[1] < 1 \/ (x[1] = 1 /\ x[2] < 0)
                 PROVE  FALSE
      BY DEF Before
    <3>1. x[1] \in 1..Len(sizes) /\ x[2] \in Nat
      BY <1>1
    <3> QED
      BY <3>1, <1>2
  <2>2. BytesIn(<< >>) = {}
    BY <1>2 DEF BytesIn
  <2>3. Ordered(<< >>) /\ AllBehind(sizes, << >>, 1, 0)
    BY <1>2 DEF Ordered, AllBehind
  <2>4. \A f : RangesOf(<< >>, f) = {}
    BY <1>2 DEF RangesOf
  <2>5. \A f \in DOMAIN sizes : remaining[f] = 0
    BY <1>1
  <2> QED
    BY <2>1, <2>2, <2>3, <2>4, <2>5, <1>3 DEF Layout
<1>8. Layout(sizes, Whole, index, start, remaining)
  <2> DEFINE none == << >>
  <2>1. none \in ChunkLists /\ Layout(sizes, none, 1, 0, remaining)
    BY <1>2, <1>7
  <2> HIDE DEF none
  <2>2. Layout(sizes, Append(none, << >>), 1, 0, remaining)
    BY <2>1, LayoutEmpty
  <2>3. Whole = Append(none, << >>)
    BY <1>1 DEF Whole, none
  <2> QED
    BY <2>2, <2>3, <1>1
<1> QED
  BY <1>4, <1>5, <1>6, <1>8 DEF IInv

\* The rest of the file fits.
LEMMA FitStep ==
    ASSUME IInv, Fit
    PROVE  IInv'
<1>1. /\ sizes \in Seq(Nat \ {0}) /\ chunkSize \in Nat \ {0} /\ maxFiles \in Int
      /\ index \in DOMAIN sizes /\ start \in Nat /\ size \in Nat /\ done \in BOOLEAN
      /\ index <= Len(sizes) /\ Len(sizes) \in Nat /\ index \in Nat
      /\ sizes[index] \in Nat
  BY DEF IInv, Types, Fit
<1>2. /\ start < sizes[index] /\ size + (sizes[index] - start) < chunkSize
      /\ Cut(start, sizes[index], Len(chunk) + 1 = maxFiles)
      /\ CountRange /\ UNCHANGED <<params, done>>
      /\ index' = index + 1 /\ start' = 0
  BY <1>1 DEF Fit, Left
<1>3. /\ chunk' \in Seq(Ranges) /\ size' \in Nat /\ list' \in ChunkLists
      /\ remaining' \in [DOMAIN sizes -> Nat]
      /\ ~done /\ Room' /\ Closed'
      /\ Layout(sizes, Whole', index, sizes[index], remaining')
  <2> DEFINE to == sizes[index]
             full == Len(chunk) + 1 = maxFiles
  <2>1. /\ to \in Nat /\ start < to /\ to <= sizes[index] /\ size + (to - start) <= chunkSize
        /\ full \in BOOLEAN
        /\ full <=> size + (to - start) = chunkSize \/ Len(chunk) + 1 = maxFiles
        /\ Cut(start, to, full)
    BY <1>1, <1>2
  <2> HIDE DEF full
  <2> QED
    BY <1>1, <1>2, <2>1, CutStep
<1>4. sizes' = sizes /\ chunkSize' = chunkSize /\ maxFiles' = maxFiles /\ done' = done
  BY <1>2 DEF params
<1>5. Layout(sizes, Whole', index + 1, 0, remaining')
  BY <1>1, <1>3, LayoutMove
<1>6. Types'
  BY <1>1, <1>2, <1>3, <1>4 DEF Types
<1>7. Position'
  <2>1. index + 1 <= Len(sizes) => sizes[index + 1] \in Nat
    BY <1>1
  <2> QED
    BY <1>1, <1>2, <1>3, <1>4, <2>1 DEF Position
<1> QED
  BY <1>2, <1>3, <1>4, <1>5, <1>6, <1>7 DEF IInv

\* The chunk is filled up.
LEMMA SplitStep ==
    ASSUME IInv, Split
    PROVE  IInv'
<1>1. /\ sizes \in Seq(Nat \ {0}) /\ chunkSize \in Nat \ {0} /\ maxFiles \in Int
      /\ index \in DOMAIN sizes /\ start \in Nat /\ size \in Nat /\ done \in BOOLEAN
      /\ index <= Len(sizes) /\ Len(sizes) \in Nat /\ index \in Nat
      /\ sizes[index] \in Nat
  BY DEF IInv, Types, Split
<1>2. /\ start < sizes[index] /\ size + (sizes[index] - start) >= chunkSize
      /\ Cut(start, start + (chunkSize - size), TRUE)
      /\ CountRange /\ UNCHANGED <<params, done>>
      /\ index' = index /\ start' = start + (chunkSize - size)
  <2>1. sizes[index] - start > 0 /\ size + (sizes[index] - start) >= chunkSize
    BY DEF Split, Left
  <2>2. /\ Cut(start, start + (chunkSize - size), TRUE)
        /\ CountRange /\ UNCHANGED <<params, done>>
        /\ index' = index /\ start' = start + (chunkSize - size)
    BY DEF Split
  <2>3. start < sizes[index]
    BY <2>1, <1>1
  <2> QED
    BY <2>1, <2>2, <2>3
<1>3. ~done /\ size < chunkSize
  BY <1>1 DEF IInv, Position, Room
<1>4. /\ chunk' \in Seq(Ranges) /\ size' \in Nat /\ list' \in ChunkLists
      /\ remaining' \in [DOMAIN sizes -> Nat]
      /\ Room' /\ Closed'
      /\ Layout(sizes, Whole', index, start + (chunkSize - size), remaining')
      /\ start' \in Nat /\ start' <= sizes[index]
  <2> DEFINE to == start + (chunkSize - size)
             full == TRUE
  <2>1. /\ to \in Nat /\ start < to /\ to <= sizes[index] /\ size + (to - start) = chunkSize
        /\ size + (to - start) <= chunkSize
    BY <1>1, <1>2, <1>3
  <2>2. /\ full \in BOOLEAN
        /\ full <=> size + (to - start) = chunkSize \/ Len(chunk) + 1 = maxFiles
        /\ Cut(start, to, full)
    BY <1>2, <2>1
  <2> HIDE DEF full, to
  <2>3. /\ chunk' \in Seq(Ranges) /\ size' \in Nat /\ list' \in ChunkLists
        /\ remaining' \in [DOMAIN sizes -> Nat]
        /\ Room' /\ Closed'
        /\ Layout(sizes, Whole', index, to, remaining')
    BY <1>1, <1>2, <2>1, <2>2, CutStep
  <2> QED
    BY <1>2, <2>1, <2>3 DEF to
<1>5. sizes' = sizes /\ chunkSize' = chunkSize /\ maxFiles' = maxFiles /\ done' = done
  BY <1>2 DEF params
<1>6. Types'
  BY <1>1, <1>2, <1>4, <1>5 DEF Types
<1>7. Position'
  BY <1>1, <1>2, <1>3, <1>4, <1>5 DEF Position
<1> QED
  BY <1>2, <1>4, <1>5, <1>6, <1>7 DEF IInv

\* The end of a file.
LEMMA NextFileStep ==
    ASSUME IInv, NextFile
    PROVE  IInv'
<1>1. /\ sizes \in Seq(Nat \ {0})
      /\ index \in DOMAIN sizes /\ start \in Nat /\ done \in BOOLEAN
      /\ index <= Len(sizes) /\ Len(sizes) \in Nat /\ index \in Nat
      /\ sizes[index] \in Nat
  BY DEF IInv, Types, NextFile
<1>2. start = sizes[index]
  <2>1. start <= sizes[index]
    BY <1>1 DEF IInv, Position
  <2> QED
    BY <1>1, <2>1 DEF NextFile, Left
<1>3. /\ index' = index + 1 /\ start' = 0
      /\ sizes' = sizes /\ chunkSize' = chunkSize /\ maxFiles' = maxFiles /\ done' = done
      /\ chunk' = chunk /\ size' = size /\ list' = list /\ remaining' = remaining
  BY DEF NextFile, params
<1>4. ~done
  BY <1>1 DEF IInv, Position
<1>5. Layout(sizes, Whole, index + 1, 0, remaining)
  BY <1>1, <1>2, LayoutMove DEF IInv
<1>6. Types'
  BY <1>1, <1>3 DEF IInv, Types
<1>7. Position'
  <2>1. index + 1 <= Len(sizes) => sizes[index + 1] \in Nat
    BY <1>1
  <2> QED
    BY <1>1, <1>3, <1>4, <2>1 DEF Position
<1>8. Room' /\ Closed' /\ Whole' = Whole
  BY <1>3 DEF IInv, Room, Closed, Whole
<1> QED
  BY <1>3, <1>5, <1>6, <1>7, <1>8 DEF IInv

\* The rest becomes the last chunk, unless it is empty.
LEMMA ReturnStep ==
    ASSUME IInv, Return
    PROVE  IInv'
<1>1. /\ chunk \in Seq(Ranges) /\ list \in ChunkLists /\ size \in Nat
      /\ chunkSize \in Nat \ {0} /\ maxFiles \in Int
      /\ done = FALSE /\ done' = TRUE /\ index > Len(sizes)
      /\ sizes' = sizes /\ chunkSize' = chunkSize /\ maxFiles' = maxFiles
      /\ index' = index /\ start' = start /\ chunk' = chunk /\ size' = size
      /\ remaining' = remaining
      /\ list' = IF chunk # << >> THEN Append(list, chunk) ELSE list
  BY DEF IInv, Types, Return, params
<1>2. Layout(sizes, Append(list, chunk), index, start, remaining)
  BY <1>1 DEF IInv, Whole
<1>3. \A k \in DOMAIN list : /\ Proper(list[k], chunkSize, maxFiles)
                             /\ Filled(list[k], chunkSize, maxFiles)
  BY <1>1 DEF IInv, Closed
<1>4. Whole' = list'
  BY <1>1 DEF Whole
<1>5. Position'
  BY <1>1 DEF IInv, Position
<1>6. Room'
  BY <1>1 DEF Room
<1>7. CASE chunk = << >>
  <2>1. list' = list
    BY <1>1, <1>7
  <2>2. Layout(sizes, list, index, start, remaining)
    BY <1>1, <1>2, <1>7, LayoutEmpty
  <2>3. Closed'
    BY <2>1, <1>1, <1>3 DEF Closed
  <2>4. Types'
    BY <2>1, <1>1 DEF IInv, Types
  <2> QED
    BY <2>1, <2>2, <2>3, <2>4, <1>1, <1>4, <1>5, <1>6 DEF IInv
<1>8. CASE chunk # << >>
  <2>1. list' = Append(list, chunk)
    BY <1>1, <1>8
  <2>2. /\ list' \in ChunkLists /\ Len(list) \in Nat /\ DOMAIN list = 1..Len(list)
        /\ DOMAIN list' = 1..(Len(list) + 1)
        /\ \A k \in 1..Len(list) : list'[k] = list[k]
        /\ list'[Len(list) + 1] = chunk
    <3>1. list \in ChunkLists /\ chunk \in Seq(Ranges)
      BY <1>1
    <3>2. /\ Append(list, chunk) \in ChunkLists /\ Len(list) \in Nat /\ DOMAIN list = 1..Len(list)
          /\ DOMAIN Append(list, chunk) = 1..(Len(list) + 1)
          /\ \A k \in 1..Len(list) : Append(list, chunk)[k] = list[k]
          /\ Append(list, chunk)[Len(list) + 1] = chunk
      BY <3>1, ListAppend
    <3> QED
      BY <2>1, <3>2
  <2>3. Len(list') = Len(list) + 1
    BY <2>2 DEF ChunkLists
  <2>4. Proper(chunk, chunkSize, maxFiles)
    <3>1. /\ IsFiniteSet(Bytes(chunk)) /\ size = Cardinality(Bytes(chunk))
          /\ size < chunkSize /\ size > 0 /\ (maxFiles > 0 => Len(chunk) < maxFiles)
      BY <1>1, <1>8 DEF IInv, Room
    <3>2. size \in 1..chunkSize /\ (maxFiles > 0 => Len(chunk) <= maxFiles)
      <4>1. Len(chunk) \in Nat
        BY <1>1
      <4> QED
        BY <3>1, <4>1, <1>1
    <3>3. \A j \in DOMAIN chunk : chunk[j].from < chunk[j].to
      BY <2>1, <2>2, <1>2 DEF Layout, AllBehind, Behind
    <3> QED
      BY <3>1, <3>2, <3>3 DEF Proper
  <2>5. Closed'
    <3>1. \A k \in DOMAIN list' : Proper(list'[k], chunkSize, maxFiles)
      BY <2>2, <2>4, <1>3
    <3>2. \A k \in DOMAIN list' : k < Len(list') => Filled(list'[k], chunkSize, maxFiles)
      BY <2>2, <2>3, <1>3
    <3> QED
      BY <3>1, <3>2, <1>1 DEF Closed
  <2>6. Types'
    BY <2>2, <1>1 DEF IInv, Types
  <2> QED
    BY <2>1, <2>5, <2>6, <1>1, <1>2, <1>4, <1>5, <1>6 DEF IInv
<1> QED
  BY <1>7, <1>8

\* The invariant is inductive.
LEMMA Invariance == Spec => []IInv
<1>1. IInv /\ [Next]_vars => IInv'
  <2> SUFFICES ASSUME IInv, [Next]_vars PROVE IInv'
    OBVIOUS
  <2>1. CASE Fit
    BY <2>1, FitStep
  <2>2. CASE Split
    BY <2>2, SplitStep
  <2>3. CASE NextFile
    BY <2>3, NextFileStep
  <2>4. CASE Return
    BY <2>4, ReturnStep
  <2>5. CASE UNCHANGED vars
    BY <2>5 DEF vars, params, IInv, Types, Position, Room, Closed, Whole
  <2> QED
    BY <2>1, <2>2, <2>3, <2>4, <2>5 DEF Next, Terminated
<1> QED
  BY <1>1, InitIInv, PTL DEF Spec

(***************************************************************************)
(* The theorems.                                                           *)
(***************************************************************************)

\* For all files and options, the chunks BuildChunks returns are the files: they
\* hold every byte once, in the order of the files, and nothing else.
THEOREM ChunksCover == Spec => []ChunksAreTheFiles
<1>1. IInv => ChunksAreTheFiles
  <2> SUFFICES ASSUME IInv, done
               PROVE  Ordered(list) /\ UNION {Bytes(list[k]) : k \in DOMAIN list} = AllBytes
    BY DEF ChunksAreTheFiles
  <2>1. /\ sizes \in Seq(Nat \ {0}) /\ index \in Nat /\ index > Len(sizes) /\ start = 0
        /\ Len(sizes) \in Nat /\ DOMAIN sizes = 1..Len(sizes)
    BY DEF IInv, Types, Position
  <2>2. BytesIn(list) = Before(sizes, index, start) /\ Ordered(list)
    BY DEF IInv, Whole, Layout
  <2>3. ASSUME NEW x
        PROVE  x \in Before(sizes, index, start) <=> x \in AllBytes
    <3>1. x \in Before(sizes, index, start)
             <=> x \in (DOMAIN sizes) \X Nat /\ x[2] < sizes[x[1]]
      <4>1. x \in (DOMAIN sizes) \X Nat => x[1] < index
        BY <2>1
      <4> QED
        BY <4>1 DEF Before
    <3>2. x \in AllBytes <=> \E i \in DOMAIN sizes : x \in {i} \X (0 .. (sizes[i] - 1))
      BY DEF AllBytes
    <3>3. ASSUME NEW i \in DOMAIN sizes
          PROVE  x \in {i} \X (0 .. (sizes[i] - 1))
                    <=> x \in (DOMAIN sizes) \X Nat /\ x[1] = i /\ x[2] < sizes[i]
      <4>1. sizes[i] \in Nat
        BY <2>1
      <4> QED
        BY <4>1
    <3> QED
      BY <3>1, <3>2, <3>3
  <2> QED
    BY <2>2, <2>3 DEF BytesIn
<1> QED
  BY <1>1, Invariance, PTL

\* No chunk of the list is empty, too large or has too many ranges, and only the
\* last may have room left, for every -chunk-size and -files-per-chunk.
THEOREM ChunksFill == Spec => []ChunksAreFull
<1>1. IInv => ChunksAreFull
  BY DEF IInv, Closed, Proper, Filled, ChunksAreFull
<1> QED
  BY <1>1, Invariance, PTL

\* remainingChunkCount of every file is the number of its ranges, which is how
\* often WriteChunk counts it down before the file is complete.
THEOREM RangesCounted == Spec => []CountsRanges
<1>1. IInv => CountsRanges
  BY DEF IInv, Whole, Layout, CountsRanges
<1> QED
  BY <1>1, Invariance, PTL
================================================================================
