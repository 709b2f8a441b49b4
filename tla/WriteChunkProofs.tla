--------------------------- MODULE WriteChunkProofs ----------------------------
(* The safety of WriteChunk, for any files, chunks and number of attempts. *)
EXTENDS WriteChunk, FiniteSetTheorems, TLAPS

\* The ranges of a chunk.
LEMMA RangesFacts ==
    ASSUME NEW c \in Chunks
    PROVE  /\ Ranges[c] \in Seq(Files)
           /\ Len(Ranges[c]) \in Nat \ {0}
           /\ DOMAIN Ranges[c] = 1..Len(Ranges[c])
           /\ \A i \in DOMAIN Ranges[c] : Ranges[c][i] \in Files
BY LayoutAssumption

\* What it is to be a range of f.
LEMMA RangesOfFacts ==
    ASSUME NEW f \in Files
    PROVE  /\ \A r \in RangesOf(f) :
                 /\ r[1] \in Chunks /\ r[2] \in DOMAIN Ranges[r[1]]
                 /\ r = <<r[1], r[2]>> /\ Ranges[r[1]][r[2]] = f
           /\ \A c \in Chunks : \A i \in DOMAIN Ranges[c] :
                 Ranges[c][i] = f => <<c, i>> \in RangesOf(f)
           /\ \A c \in Chunks : \A i \in DOMAIN Ranges[c] :
                 <<c, i>> \in RangesOf(f) => Ranges[c][i] = f
BY RangesFacts DEF RangesOf

\* A file has finitely many ranges.
LEMMA RangesOfFinite ==
    ASSUME NEW f \in Files
    PROVE  IsFiniteSet(RangesOf(f))
<1> DEFINE P(c) == {c} \X {i \in DOMAIN Ranges[c] : Ranges[c][i] = f}
           T == {P(c) : c \in Chunks}
           h == [c \in Chunks |-> P(c)]
<1>1. ASSUME NEW c \in Chunks PROVE IsFiniteSet(P(c))
  <2>1. IsFiniteSet(1..Len(Ranges[c]))
    BY FS_Interval, RangesFacts
  <2>2. IsFiniteSet({i \in DOMAIN Ranges[c] : Ranges[c][i] = f})
    BY <2>1, FS_Subset, RangesFacts
  <2>3. IsFiniteSet({c})
    BY FS_Singleton
  <2> QED
    BY <2>2, <2>3, FS_Product
<1>2. h \in Surjection(Chunks, T)
  BY DEF Surjection
<1>3. IsFiniteSet(T)
  BY <1>2, FS_Surjection, LayoutAssumption
<1>4. \A S \in T : IsFiniteSet(S)
  BY <1>1
<1>5. IsFiniteSet(UNION T)
  BY <1>3, <1>4, FS_UNION
<1> QED
  BY <1>5 DEF RangesOf

\* Finitely many of them are still ahead.
LEMMA AheadFinite ==
    ASSUME NEW f \in Files
    PROVE  IsFiniteSet(Ahead(f)) /\ Cardinality(Ahead(f)) \in Nat
BY RangesOfFinite, FS_Subset, FS_CardinalityType DEF Ahead

\* The initial states.
LEMMA WriteInit == Init => IInv
<1> SUFFICES ASSUME Init PROVE IInv
  OBVIOUS
<1>1. ASSUME NEW f \in Files
      PROVE  /\ Cardinality(RangesOf(f)) \in Nat \ {0}
             /\ Ahead(f) = RangesOf(f)
  <2>1. RangesOf(f) # {}
    BY LayoutAssumption, RangesOfFacts
  <2>2. Cardinality(RangesOf(f)) \in Nat \ {0}
    BY <2>1, RangesOfFinite, FS_CardinalityType, FS_EmptySet
  <2>3. \A r \in RangesOf(f) : r[2] >= at[r[1]]
    BY RangesOfFacts, RangesFacts DEF Init
  <2> QED
    BY <2>2, <2>3 DEF Ahead
<1>2. TypeOK
  BY <1>1, WriteAssumption, RangesFacts DEF Init, TypeOK
<1>3. \A c \in Chunks : AttemptOK(c)
  BY RangesFacts DEF Init, AttemptOK, Passed
<1>4. \A f \in Files : CountOK(f)
  BY <1>1 DEF Init, CountOK
<1> QED
  BY <1>2, <1>3, <1>4 DEF IInv

\* Only Count moves a range out of Ahead.
LEMMA AttemptStep ==
    ASSUME IInv, [Next]_vars, NEW c \in Chunks
    PROVE  AttemptOK(c)'
<1> USE RangesFacts DEF IInv, TypeOK
<1>0. AttemptOK(c)
  OBVIOUS
<1>1. ASSUME NEW d \in Chunks, Begin(d) PROVE AttemptOK(c)'
  BY <1>0, <1>1 DEF Begin, AttemptOK, Passed
<1>2. ASSUME NEW d \in Chunks, NEW bytes \in {"good", "bad"}, WriteRange(d, bytes) PROVE AttemptOK(c)'
  <2>1. CASE c # d
    BY <1>0, <1>2, <2>1 DEF WriteRange, AttemptOK, Passed
  <2>2. CASE c = d
    <3>1. /\ stage[c] = "write" /\ stage'[c] = "count"
          /\ at'[c] = at[c] /\ at[c] \in DOMAIN Ranges[c]
          /\ attempts'[c] = attempts[c]
      BY <1>2, <2>2 DEF WriteRange
    <3>2. \A i \in DOMAIN Ranges[c] : content'[c][i] = IF i = at[c] THEN bytes ELSE content[c][i]
      BY <1>2, <2>2 DEF WriteRange
    <3>3. ~damaged'[c] => ~damaged[c] /\ bytes = "good"
      BY <1>2, <2>2 DEF WriteRange
    <3>4. ASSUME NEW i \in DOMAIN Ranges[c], Passed(c, i)'
          PROVE  /\ content'[c][i] # "none"
                 /\ ~damaged'[c] => content'[c][i] = "good"
      <4>1. CASE i = at[c]
        BY <3>2, <3>3, <4>1
      <4>2. CASE i # at[c]
        BY <1>0, <3>1, <3>2, <3>3, <3>4, <4>2 DEF AttemptOK, Passed
      <4> QED
        BY <4>1, <4>2
    <3> QED
      BY <1>0, <3>1, <3>4 DEF AttemptOK
  <2> QED
    BY <2>1, <2>2
<1>3. ASSUME NEW d \in Chunks, NEW torn \in BOOLEAN, WriteFails(d, torn) PROVE AttemptOK(c)'
  BY <1>0, <1>3 DEF WriteFails, AttemptOK, Passed
<1>4. ASSUME NEW d \in Chunks, Count(d) PROVE AttemptOK(c)'
  <2>1. CASE c # d
    BY <1>0, <1>4, <2>1 DEF Count, AttemptOK, Passed
  <2>2. CASE c = d
    <3>1. /\ stage[c] = "count" /\ at[c] \in 1..Len(Ranges[c])
          /\ at'[c] = at[c] + 1
          /\ stage'[c] = IF at[c] < Len(Ranges[c]) THEN "write" ELSE "check"
          /\ content' = content /\ damaged' = damaged /\ attempts' = attempts
      BY <1>4, <2>2 DEF Count
    <3>2. \A i \in DOMAIN Ranges[c] : Passed(c, i)' => Passed(c, i)
      BY <3>1 DEF Passed
    <3> QED
      BY <1>0, <3>1, <3>2 DEF AttemptOK
  <2> QED
    BY <2>1, <2>2
<1>5. ASSUME NEW d \in Chunks, Check(d) PROVE AttemptOK(c)'
  BY <1>0, <1>5 DEF Check, AttemptOK, Passed
<1>6. CASE UNCHANGED vars
  BY <1>0, <1>6 DEF vars, AttemptOK, Passed
<1> QED
  BY <1>1, <1>2, <1>3, <1>4, <1>5, <1>6 DEF Next, Terminated

\* Every step keeps the types.
LEMMA TypeStep ==
    ASSUME IInv, [Next]_vars
    PROVE  TypeOK'
<1>0. TypeOK
  BY DEF IInv
<1>1. ASSUME NEW d \in Chunks, Begin(d) PROVE TypeOK'
  BY <1>0, <1>1, RangesFacts, WriteAssumption DEF Begin, TypeOK
<1>2. ASSUME NEW d \in Chunks, NEW bytes \in {"good", "bad"}, WriteRange(d, bytes) PROVE TypeOK'
  BY <1>0, <1>2, RangesFacts DEF WriteRange, TypeOK
<1>3. ASSUME NEW d \in Chunks, NEW torn \in BOOLEAN, WriteFails(d, torn) PROVE TypeOK'
  BY <1>0, <1>3, RangesFacts DEF WriteFails, TypeOK
<1>4. ASSUME NEW d \in Chunks, Count(d) PROVE TypeOK'
  <2> DEFINE f == Ranges[d][at[d]]
  <2>1. f \in Files /\ at[d] \in 1..Len(Ranges[d])
    BY <1>0, <1>4, RangesFacts DEF Count, TypeOK
  <2>2. /\ remaining' = [remaining EXCEPT ![f] = @ - 1]
        /\ reported' = [reported EXCEPT ![f] = @ + IF remaining[f] - 1 = 0 THEN 1 ELSE 0]
        /\ at' = [at EXCEPT ![d] = @ + 1]
        /\ stage' = [stage EXCEPT ![d] = IF at[d] < Len(Ranges[d]) THEN "write" ELSE "check"]
        /\ UNCHANGED <<damaged, content, attempts>>
    BY <1>4 DEF Count
  <2> HIDE DEF f
  <2>3. remaining' \in [Files -> Int]
    BY <1>0, <2>1, <2>2 DEF TypeOK
  <2>4. reported' \in [Files -> Nat]
    <3>1. reported \in [Files -> Nat] /\ reported[f] \in Nat
      BY <1>0, <2>1 DEF TypeOK
    <3> QED
      BY <3>1, <2>1, <2>2
  <2>5. at' \in [Chunks -> Nat \ {0}]
    BY <1>0, <2>2 DEF TypeOK
  <2>6. stage' \in [Chunks -> {"pending", "write", "count", "check", "done"}]
    BY <1>0, <2>2 DEF TypeOK
  <2>7. ASSUME NEW c \in Chunks, stage'[c] \in {"write", "count"}
        PROVE  at'[c] \in DOMAIN Ranges[c]
    <3>1. CASE c = d
      BY <1>0, <2>1, <2>2, <2>7, <3>1, RangesFacts DEF TypeOK
    <3>2. CASE c # d
      BY <1>0, <2>2, <2>7, <3>2 DEF TypeOK
    <3> QED
      BY <3>1, <3>2
  <2> QED
    BY <1>0, <2>2, <2>3, <2>4, <2>5, <2>6, <2>7 DEF TypeOK
<1>5. ASSUME NEW d \in Chunks, Check(d) PROVE TypeOK'
  BY <1>0, <1>5 DEF Check, TypeOK
<1>6. CASE UNCHANGED vars
  BY <1>0, <1>6 DEF vars, TypeOK
<1> QED
  BY <1>1, <1>2, <1>3, <1>4, <1>5, <1>6 DEF Next, Terminated

\* The ranges of f ahead after a step, for the three ways at can change.
LEMMA AheadSame ==
    ASSUME NEW f \in Files, UNCHANGED at
    PROVE  Ahead(f)' = Ahead(f)
BY DEF Ahead, RangesOf

\* A range is a chunk and a place in it.
LEMMA RangeType ==
    ASSUME TypeOK, NEW f \in Files, NEW r \in RangesOf(f)
    PROVE  /\ r[1] \in Chunks /\ r[2] \in Nat \ {0} /\ r = <<r[1], r[2]>>
           /\ at[r[1]] \in Nat \ {0}
<1>1. r[1] \in Chunks /\ r[2] \in DOMAIN Ranges[r[1]] /\ r = <<r[1], r[2]>>
  BY RangesOfFacts
<1>2. r[2] \in Nat \ {0}
  BY <1>1, RangesFacts
<1> QED
  BY <1>1, <1>2 DEF TypeOK

\* A chunk that begins again has all its ranges ahead.
LEMMA AheadBegin ==
    ASSUME TypeOK, NEW f \in Files, NEW d \in Chunks, at' = [at EXCEPT ![d] = 1]
    PROVE  /\ Ahead(f) \subseteq Ahead(f)'
           /\ (\A r \in RangesOf(f) : r[1] # d) => Ahead(f)' = Ahead(f)
           /\ at[d] = 1 => Ahead(f)' = Ahead(f)
<1> DEFINE A == Ahead(f)
           B == {r \in RangesOf(f) : r[2] >= at'[r[1]]}
<1>1. B = Ahead(f)'
  BY DEF Ahead, RangesOf
<1>2. ASSUME NEW r \in RangesOf(f)
      PROVE  /\ r[1] \in Chunks /\ r[2] \in Nat \ {0} /\ r = <<r[1], r[2]>>
             /\ at'[r[1]] = IF r[1] = d THEN 1 ELSE at[r[1]]
             /\ at[r[1]] \in Nat \ {0}
  <2>1. at \in [Chunks -> Nat \ {0}]
    BY DEF TypeOK
  <2>2. /\ r[1] \in Chunks /\ r[2] \in Nat \ {0} /\ r = <<r[1], r[2]>>
        /\ at[r[1]] \in Nat \ {0}
    BY RangeType
  <2> QED
    BY <2>1, <2>2
<1>3. A = {r \in RangesOf(f) : r[2] >= at[r[1]]}
  BY DEF Ahead
<1> HIDE DEF A
<1>4. A \subseteq B
  BY <1>2, <1>3
<1>5. (\A r \in RangesOf(f) : r[1] # d) => B = A
  BY <1>2, <1>3
<1>6. at[d] = 1 => B = A
  BY <1>2, <1>3
<1> QED
  BY <1>1, <1>4, <1>5, <1>6 DEF A

\* A range that is counted is no longer ahead.
LEMMA AheadCount ==
    ASSUME TypeOK, NEW f \in Files, NEW d \in Chunks, at[d] \in DOMAIN Ranges[d],
           at' = [at EXCEPT ![d] = @ + 1]
    PROVE  /\ Ahead(f)' = Ahead(f) \ {<<d, at[d]>>}
           /\ <<d, at[d]>> \in Ahead(f) <=> Ranges[d][at[d]] = f
<1> DEFINE A == Ahead(f)
           B == {r \in RangesOf(f) : r[2] >= at'[r[1]]}
<1>1. B = Ahead(f)'
  BY DEF Ahead, RangesOf
<1>2. ASSUME NEW r \in RangesOf(f)
      PROVE  /\ r[1] \in Chunks /\ r[2] \in Nat \ {0} /\ r = <<r[1], r[2]>>
             /\ at'[r[1]] = IF r[1] = d THEN at[d] + 1 ELSE at[r[1]]
             /\ at[r[1]] \in Nat \ {0}
  <2>1. at \in [Chunks -> Nat \ {0}]
    BY DEF TypeOK
  <2>2. /\ r[1] \in Chunks /\ r[2] \in Nat \ {0} /\ r = <<r[1], r[2]>>
        /\ at[r[1]] \in Nat \ {0}
    BY RangeType
  <2> QED
    BY <2>1, <2>2
<1>3. A = {r \in RangesOf(f) : r[2] >= at[r[1]]}
  BY DEF Ahead
<1> HIDE DEF A
<1>4. ASSUME NEW r \in RangesOf(f)
      PROVE  r[2] >= at'[r[1]] <=> r[2] >= at[r[1]] /\ r # <<d, at[d]>>
  <2>1. CASE r[1] = d
    BY <1>2, <1>4, <2>1
  <2>2. CASE r[1] # d
    BY <1>2, <1>4, <2>2
  <2> QED
    BY <2>1, <2>2
<1>5. B = A \ {<<d, at[d]>>}
  BY <1>3, <1>4
<1>6. <<d, at[d]>> \in RangesOf(f) <=> Ranges[d][at[d]] = f
  BY RangesOfFacts
<1>7. at[d] \in Nat
  BY DEF TypeOK
<1> QED
  BY <1>1, <1>3, <1>5, <1>6, <1>7 DEF A

\* Every step keeps the count of every file right.
LEMMA CountStep ==
    ASSUME IInv, [Next]_vars, NEW f \in Files
    PROVE  CountOK(f)'
<1>0. /\ TypeOK /\ CountOK(f)
      /\ remaining[f] \in Int /\ reported[f] \in Nat
      /\ \A c \in Chunks : attempts[c] \in Nat /\ AttemptOK(c)
  BY WriteAssumption DEF IInv, TypeOK
<1>1. IsFiniteSet(Ahead(f)) /\ Cardinality(Ahead(f)) \in Nat
  BY AheadFinite
<1>2. ASSUME UNCHANGED <<at, remaining, reported, attempts>>
      PROVE  CountOK(f)'
  <2>1. Ahead(f)' = Ahead(f)
    BY <1>2, AheadSame
  <2>2. RangesOf(f)' = RangesOf(f)
    BY DEF RangesOf
  <2> QED
    BY <1>0, <1>2, <2>1, <2>2 DEF CountOK
<1>3. ASSUME NEW d \in Chunks, Begin(d)
      PROVE  CountOK(f)'
  <2>1. /\ at' = [at EXCEPT ![d] = 1]
        /\ attempts' = [attempts EXCEPT ![d] = @ + 1]
        /\ remaining' = remaining /\ reported' = reported
    BY <1>3 DEF Begin
  <2>2. /\ Ahead(f) \subseteq Ahead(f)'
        /\ (\A r \in RangesOf(f) : r[1] # d) => Ahead(f)' = Ahead(f)
        /\ at[d] = 1 => Ahead(f)' = Ahead(f)
    BY <1>0, <2>1, AheadBegin
  <2>3. IsFiniteSet(Ahead(f)') /\ Cardinality(Ahead(f)') \in Nat
    <3>1. Ahead(f)' \subseteq RangesOf(f)
      BY DEF Ahead, RangesOf
    <3> QED
      BY <3>1, RangesOfFinite, FS_Subset, FS_CardinalityType
  <2>4. Cardinality(Ahead(f)) <= Cardinality(Ahead(f)')
    BY <2>2, <2>3, FS_Subset
  <2>5. ASSUME \A r \in RangesOf(f) : attempts'[r[1]] <= 1
        PROVE  /\ Ahead(f)' = Ahead(f)
               /\ \A r \in RangesOf(f) : attempts[r[1]] <= 1
    <3>1. CASE \E r \in RangesOf(f) : r[1] = d
      <4>1. attempts[d] = 0
        <5>1. attempts'[d] <= 1
          BY <2>5, <3>1
        <5>2. attempts'[d] = attempts[d] + 1 /\ attempts[d] \in Nat
          BY <1>0, <2>1 DEF TypeOK
        <5> QED
          BY <5>1, <5>2
      <4>2. at[d] = 1
        BY <1>0, <4>1 DEF AttemptOK
      <4>3. ASSUME NEW r \in RangesOf(f) PROVE attempts[r[1]] <= 1
        <5>1. r[1] \in Chunks
          BY <1>0, RangeType
        <5> QED
          BY <1>0, <2>1, <2>5, <4>1, <5>1 DEF TypeOK
      <4> QED
        BY <2>2, <4>2, <4>3
    <3>2. CASE \A r \in RangesOf(f) : r[1] # d
      <4>1. ASSUME NEW r \in RangesOf(f) PROVE attempts[r[1]] <= 1
        <5>1. r[1] \in Chunks
          BY <1>0, RangeType
        <5> QED
          BY <1>0, <2>1, <2>5, <3>2, <5>1 DEF TypeOK
      <4> QED
        BY <2>2, <3>2, <4>1
    <3> QED
      BY <3>1, <3>2
  <2>6. RangesOf(f)' = RangesOf(f)
    BY DEF RangesOf
  <2> QED
    BY <1>0, <1>1, <2>1, <2>3, <2>4, <2>5, <2>6 DEF CountOK
<1>4. ASSUME NEW d \in Chunks, Count(d)
      PROVE  CountOK(f)'
  <2> DEFINE g == Ranges[d][at[d]]
  <2>1. g \in Files /\ at[d] \in DOMAIN Ranges[d]
    BY <1>0, <1>4, RangesFacts DEF Count, TypeOK
  <2>2. /\ remaining' = [remaining EXCEPT ![g] = @ - 1]
        /\ reported' = [reported EXCEPT ![g] = @ + IF remaining[g] - 1 = 0 THEN 1 ELSE 0]
        /\ at' = [at EXCEPT ![d] = @ + 1]
        /\ attempts' = attempts
    BY <1>4 DEF Count
  <2>3. /\ Ahead(f)' = Ahead(f) \ {<<d, at[d]>>}
        /\ <<d, at[d]>> \in Ahead(f) <=> g = f
    BY <1>0, <2>1, <2>2, AheadCount
  <2>4. RangesOf(f)' = RangesOf(f)
    BY DEF RangesOf
  <2> HIDE DEF g
  <2>5. Cardinality(Ahead(f)') = IF g = f THEN Cardinality(Ahead(f)) - 1 ELSE Cardinality(Ahead(f))
    BY <1>1, <2>3, FS_RemoveElement
  <2>6. /\ remaining'[f] = IF g = f THEN remaining[f] - 1 ELSE remaining[f]
        /\ reported'[f] = IF g = f /\ remaining[f] - 1 = 0 THEN reported[f] + 1 ELSE reported[f]
    BY <1>0, <2>1, <2>2 DEF TypeOK
  <2> QED
    BY <1>0, <1>1, <2>2, <2>4, <2>5, <2>6 DEF CountOK
<1>5. ASSUME NEW d \in Chunks, NEW bytes \in {"good", "bad"}, WriteRange(d, bytes)
      PROVE  CountOK(f)'
  BY <1>2, <1>5 DEF WriteRange
<1>6. ASSUME NEW d \in Chunks, NEW torn \in BOOLEAN, WriteFails(d, torn)
      PROVE  CountOK(f)'
  BY <1>2, <1>6 DEF WriteFails
<1>7. ASSUME NEW d \in Chunks, Check(d)
      PROVE  CountOK(f)'
  BY <1>2, <1>7 DEF Check
<1>8. CASE UNCHANGED vars
  BY <1>2, <1>8 DEF vars
<1> QED
  BY <1>3, <1>4, <1>5, <1>6, <1>7, <1>8 DEF Next, Terminated

\* Every step keeps the invariant.
LEMMA WriteStep == IInv /\ [Next]_vars => IInv'
BY TypeStep, AttemptStep, CountStep DEF IInv

\* The invariant holds.
LEMMA WriteInv == Spec => []IInv
BY WriteInit, WriteStep, PTL DEF Spec

\* The state of WriteChunk keeps its types: among others a chunk that is being
\* written or counted is at one of its ranges, never past the last one.
THEOREM WriteTyped == Spec => []TypeOK
<1>1. IInv => TypeOK
  BY DEF IInv
<1> QED
  BY <1>1, WriteInv, PTL

\* With -verify-on-complete, a chunk WriteChunk accepted holds the bytes of the
\* source, whatever failed attempts left behind.
THEOREM DoneChunksAreVerified == Spec => []DoneIsVerified
<1>1. ASSUME IInv, Verify, NEW c \in Chunks, stage[c] = "done", NEW i \in DOMAIN Ranges[c]
      PROVE  content[c][i] = "good"
  <2>1. /\ at[c] = Len(Ranges[c]) + 1 /\ ~damaged[c]
        /\ Passed(c, i) => content[c][i] = "good"
    BY <1>1 DEF IInv, AttemptOK
  <2>2. Passed(c, i)
    BY <2>1, RangesFacts DEF Passed
  <2> QED
    BY <2>1, <2>2
<1>2. IInv => DoneIsVerified
  BY <1>1 DEF DoneIsVerified
<1> QED
  BY <1>2, WriteInv, PTL

\* onFileComplete is called exactly once for every file by the time all its
\* chunks are Done, for any number of chunks, writers and retries.
THEOREM FilesAreReportedOnce == Spec => []ReportedOnce
<1>1. ASSUME IInv, NEW f \in Files
      PROVE  /\ reported[f] <= 1
             /\ (\A r \in RangesOf(f) : stage[r[1]] = "done") => reported[f] = 1
  <2>1. CountOK(f)
    BY <1>1 DEF IInv
  <2>2. ASSUME \A r \in RangesOf(f) : stage[r[1]] = "done"
        PROVE  reported[f] = 1
    <3>1. ASSUME NEW r \in RangesOf(f) PROVE ~(r[2] >= at[r[1]])
      <4>1. r[1] \in Chunks /\ r[2] \in DOMAIN Ranges[r[1]]
        BY RangesOfFacts
      <4>2. at[r[1]] = Len(Ranges[r[1]]) + 1
        BY <1>1, <2>2, <4>1 DEF IInv, AttemptOK
      <4> QED
        BY <4>1, <4>2, RangesFacts
    <3>2. Ahead(f) = {}
      BY <3>1 DEF Ahead
    <3>3. Cardinality(Ahead(f)) = 0
      BY <3>2, FS_EmptySet
    <3> QED
      BY <2>1, <3>3 DEF CountOK
  <2> QED
    BY <2>1, <2>2 DEF CountOK
<1>2. IInv => ReportedOnce
  BY <1>1 DEF ReportedOnce
<1> QED
  BY <1>2, WriteInv, PTL

\* onFileComplete is called with a range of the file unwritten only after a
\* chunk of that file was tried again.
THEOREM EarlyReportsNeedARetry == Spec => EarlyOnlyAfterRetry
<1> DEFINE Early(f) == Written(f) \/ \E r \in RangesOf(f) : attempts[r[1]] > 1
<1>1. ASSUME IInv, [Next]_vars, NEW f \in Files, reported'[f] > reported[f],
             \A r \in RangesOf(f) : ~(attempts[r[1]] > 1)
      PROVE  Written(f)
  <2>1. reported[f] \in Nat /\ remaining[f] \in Int /\ TypeOK
    BY <1>1 DEF IInv, TypeOK
  <2>2. reported' # reported
    BY <1>1, <2>1
  <2>3. PICK d \in Chunks : Count(d)
    BY <1>1, <2>2 DEF Next, Begin, WriteRange, WriteFails, Check, Terminated, vars
  <2> DEFINE g == Ranges[d][at[d]]
  <2>4. /\ g \in Files /\ at[d] \in DOMAIN Ranges[d]
        /\ stage[d] = "count"
        /\ at' = [at EXCEPT ![d] = @ + 1]
        /\ reported' = [reported EXCEPT ![g] = @ + IF remaining[g] - 1 = 0 THEN 1 ELSE 0]
    BY <2>1, <2>3, RangesFacts DEF Count, TypeOK
  <2>5. /\ Ahead(f)' = Ahead(f) \ {<<d, at[d]>>}
        /\ <<d, at[d]>> \in Ahead(f) <=> g = f
    BY <2>1, <2>4, AheadCount
  <2> HIDE DEF g
  <2>6. g = f /\ remaining[f] = 1
    BY <1>1, <2>1, <2>4 DEF TypeOK
  <2>7. ASSUME NEW r \in RangesOf(f) PROVE attempts[r[1]] <= 1
    <3>1. r[1] \in Chunks
      BY <2>1, RangeType
    <3>2. attempts[r[1]] \in Nat
      BY <2>1, <3>1, WriteAssumption DEF TypeOK
    <3> QED
      BY <1>1, <2>7, <3>2
  <2>8. Cardinality(Ahead(f)) = 1
    BY <1>1, <2>6, <2>7 DEF IInv, CountOK
  <2>9. Ahead(f) = {<<d, at[d]>>}
    BY <2>5, <2>6, <2>8, AheadFinite, FS_Singleton
  <2>10. ASSUME NEW r \in RangesOf(f) PROVE content[r[1]][r[2]] # "none"
    <3>1. /\ r[1] \in Chunks /\ r[2] \in DOMAIN Ranges[r[1]] /\ r = <<r[1], r[2]>>
          /\ r[2] \in Nat /\ at[r[1]] \in Nat
      BY <2>1, RangeType, RangesOfFacts
    <3>2. r[2] < at[r[1]] \/ r = <<d, at[d]>>
      BY <2>9, <3>1 DEF Ahead
    <3>3. Passed(r[1], r[2])
      BY <2>4, <3>1, <3>2 DEF Passed
    <3> QED
      BY <1>1, <3>1, <3>3 DEF IInv, AttemptOK
  <2> QED
    BY <2>10 DEF Written
<1>2. IInv /\ [Next]_vars =>
         [\A f \in Files : reported'[f] > reported[f] => Early(f)]_vars
  BY <1>1
<1> QED
  BY <1>2, WriteInv, PTL DEF Spec, EarlyOnlyAfterRetry
================================================================================
