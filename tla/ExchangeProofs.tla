----------------------------- MODULE ExchangeProofs ----------------------------
(***************************************************************************)
(* The safety properties of Exchange, for any number of hosts, any command *)
(* lines, sources and restarts.                                            *)
(***************************************************************************)
EXTENDS Exchange, SequenceTheorems, TLAPS

(***************************************************************************)
(* The inductive invariant.                                                *)
(***************************************************************************)

\* Every variable that is indexed by the address has a value for each.
Shapes ==
    /\ up \in [Hosts -> {"down", "acquire", "serve"}]
    /\ DOMAIN conf = Hosts /\ DOMAIN manifest = Hosts /\ DOMAIN chunks = Hosts
    /\ DOMAIN done = Hosts /\ DOMAIN bytes = Hosts
    /\ \A h \in Hosts : conf[h] \in Configs[h]
    /\ ask \in [Hosts -> SUBSET Hosts] /\ steady \in [Hosts -> SUBSET Hosts]
    /\ link \in [Hosts -> [Hosts -> {"new", "same", "other"}]]
    /\ met \in [Hosts -> [Hosts -> Nat]] /\ starts \in [Hosts -> Nat]
    /\ halted \subseteq Hosts /\ crossed \subseteq Hosts

\* A process without a manifest has nothing that comes with one.
IdleIsEmpty ==
    \A h \in Hosts : up[h] # "serve" =>
        /\ manifest[h] = NoManifest /\ chunks[h] = << >>
        /\ done[h] = {} /\ bytes[h] = << >>

\* A manifest, made or adopted, is the one its own process would compute for
\* the files it lists; if it has a source, these are there.
ManifestOf(h) ==
    /\ manifest[h].size # 0
    /\ manifest[h].files \in Seq(FileEntry)
    /\ conf[h].src # NoTree => conf[h].src \in Sources(manifest[h].files)
    /\ chunks[h] = BuildChunks(Len(manifest[h].files), conf[h])
    /\ manifest[h].sum = Checksum(manifest[h].files, chunks[h])
ServeIsFormed == \A h \in Hosts : up[h] = "serve" => ManifestOf(h)

\* A process that asks for a manifest has no source.
WithoutSource == \A h \in Hosts : up[h] = "acquire" => conf[h].src = NoTree

\* What is kept of a chunk has the type of a chunk's content.
Kept(h) ==
    /\ DOMAIN bytes[h] = DOMAIN chunks[h] /\ done[h] \subseteq DOMAIN chunks[h]
    /\ \A i \in DOMAIN chunks[h] : bytes[h][i] \in Content \cup {<< >>}
    /\ \A i \in done[h] : bytes[h][i] \in Content
AllKept == \A h \in Hosts : Kept(h)

\* The process that was compared is the present one or an earlier one; a
\* process that has no manifest yet was not compared.
MetEarlier ==
    \A h, q \in Hosts :
        /\ met[h][q] <= starts[q]
        /\ up[q] = "acquire" => met[h][q] < starts[q]

\* Two processes that found the same checksum, and are the same, still have it.
SameSum ==
    \A h, q \in Hosts : link[h][q] = "same" =>
        /\ up[h] = "serve"
        /\ up[q] = "serve" /\ met[h][q] = starts[q] => manifest[h].sum = manifest[q].sum

\* A peer that had an acceptable manifest all through the round is yet to be
\* asked, and still has it.
SteadyIsAhead == \A h \in Hosts : up[h] = "acquire" => steady[h] \subseteq ask[h] \cap Offers(h)

IInv ==
    /\ Shapes /\ IdleIsEmpty /\ ServeIsFormed /\ WithoutSource /\ AllKept
    /\ MetEarlier /\ SameSum /\ SteadyIsAhead
    /\ DoneIsRight

(***************************************************************************)
(* The operators.                                                          *)
(***************************************************************************)

\* A chunk that exists is a proper interval: the last one, too, has a file.
LEMMA LastChunkHasFile ==
    ASSUME NEW n \in Nat, NEW per \in Nat \ {0}, NEW i \in 1..((n + per - 1) \div per)
    PROVE  /\ (i - 1) * per + 1 \in Nat /\ i * per \in Nat
           /\ (i - 1) * per + 1 <= i * per
           /\ (i - 1) * per + 1 <= n
  <1> DEFINE k == (n + per - 1) \div per
  <1>1. k \in Int /\ i \in Int /\ 1 <= i /\ i <= k
    OBVIOUS
  <1>2. k * per <= n + per - 1
    OBVIOUS
  <1> HIDE DEF k
  <1>3. i * per <= k * per /\ i * per \in Int /\ k * per \in Int
    BY <1>1
  <1>4. (i - 1) * per = i * per - per
    BY <1>1
  <1>5. 0 <= (i - 1) * per /\ (i - 1) * per \in Int
    BY <1>1
  <1> QED
    BY <1>1, <1>2, <1>3, <1>4, <1>5

\* The chunks of BuildChunks are intervals of the file list.
LEMMA ChunksAreIntervals ==
    ASSUME NEW h \in Hosts, NEW c \in Configs[h], NEW n \in Nat, NEW i \in DOMAIN BuildChunks(n, c)
    PROVE  /\ BuildChunks(n, c)[i].lo \in Nat /\ BuildChunks(n, c)[i].hi \in Nat
           /\ BuildChunks(n, c)[i].lo <= BuildChunks(n, c)[i].hi
  <1> DEFINE per == IF c.count = 0 THEN c.size ELSE Minimum(c.size, c.count)
             cs == [j \in 1..((n + per - 1) \div per) |->
                       [lo |-> (j - 1) * per + 1, hi |-> Minimum(j * per, n)]]
  <1>1. per \in Nat \ {0}
    BY ConfigsAssumption DEF Minimum
  <1>2. BuildChunks(n, c) = cs
    BY DEF BuildChunks
  <1> HIDE DEF per
  <1>3. i \in 1..((n + per - 1) \div per)
    BY <1>2
  <1>4. cs[i] = [lo |-> (i - 1) * per + 1, hi |-> Minimum(i * per, n)]
    BY <1>3
  <1>5. /\ (i - 1) * per + 1 \in Nat /\ i * per \in Nat
        /\ (i - 1) * per + 1 <= i * per /\ (i - 1) * per + 1 <= n
    BY <1>1, <1>3, LastChunkHasFile
  <1> HIDE DEF cs
  <1> QED
    BY <1>2, <1>4, <1>5 DEF Minimum

\* What a process takes of a body is content; it is all of it if the two agree
\* on the chunk.
LEMMA TakenIsContent ==
    ASSUME IInv, NEW h \in Hosts, up[h] = "serve", NEW i \in DOMAIN chunks[h], NEW body \in Content
    PROVE  Taken(h, i, body) \in Content
  <1>1. conf[h] \in Configs[h] /\ Len(manifest[h].files) \in Nat
        /\ chunks[h] = BuildChunks(Len(manifest[h].files), conf[h])
    BY LenProperties DEF IInv, Shapes, ServeIsFormed, ManifestOf
  <1>2. Needs(h, i) \in Nat
    BY <1>1, ChunksAreIntervals DEF Needs
  <1> QED
    BY <1>2 DEF Taken, Content

\* A chunk read from a source is content.
LEMMA ReaderIsContent ==
    ASSUME IInv, NEW h \in Hosts, up[h] = "serve", NEW i \in DOMAIN chunks[h], conf[h].src # NoTree
    PROVE  Reader(h, i) \in Content
  <1>1. conf[h] \in Configs[h] /\ Len(manifest[h].files) \in Nat /\ conf[h].src \in Trees
        /\ chunks[h] = BuildChunks(Len(manifest[h].files), conf[h])
    BY LenProperties DEF IInv, Shapes, ServeIsFormed, ManifestOf, Sources
  <1>2. chunks[h][i].lo \in Nat /\ chunks[h][i].hi \in Nat
    BY <1>1, ChunksAreIntervals
  <1> QED
    BY <1>1, <1>2 DEF Reader, Bytes, Content

\* Equal checksums are equal files and equal chunks.
LEMMA SumsTell ==
    ASSUME IInv, NEW h \in Hosts, NEW q \in Hosts, up[h] = "serve", up[q] = "serve",
           manifest[h].sum = manifest[q].sum
    PROVE  manifest[h].files = manifest[q].files /\ chunks[h] = chunks[q]
  BY DEF IInv, ServeIsFormed, ManifestOf, Checksum

(***************************************************************************)
(* The initial states.                                                     *)
(***************************************************************************)
LEMMA InitIInv == Init => IInv
  <1> SUFFICES ASSUME Init PROVE IInv
    OBVIOUS
  <1>1. Shapes
    <2>1. \A h \in Hosts : conf[h] \in Configs[h]
      BY ConfigsAssumption DEF Init
    <2> QED
      BY <2>1 DEF Init, Shapes
  <1>2. IdleIsEmpty /\ ServeIsFormed /\ WithoutSource /\ SteadyIsAhead
    BY DEF Init, IdleIsEmpty, ServeIsFormed, WithoutSource, SteadyIsAhead
  <1>3. AllKept
    BY DEF Init, AllKept, Kept
  <1>4. MetEarlier /\ SameSum
    BY DEF Init, MetEarlier, SameSum
  <1>5. DoneIsRight
    BY DEF Init, DoneIsRight
  <1> QED
    BY <1>1, <1>2, <1>3, <1>4, <1>5 DEF IInv

(***************************************************************************)
(* The actions.                                                            *)
(***************************************************************************)

\* What the two actions that give a process its manifest have in common.
Begins(h, m, cs) ==
    /\ Serving(h, m, cs) /\ up[h] # "serve"
    /\ m.size # 0 /\ m.files \in Seq(FileEntry)
    /\ conf'[h].src # NoTree => conf'[h].src \in Sources(m.files)
    /\ cs = BuildChunks(Len(m.files), conf'[h]) /\ m.sum = Checksum(m.files, cs)
    /\ DOMAIN conf' = Hosts /\ conf'[h] \in Configs[h]
    /\ \A q \in Hosts : q # h => conf'[q] = conf[q] /\ ask'[q] = ask[q] /\ starts'[q] = starts[q]
    /\ \A q \in Hosts : met[q][h] < starts'[h]
    /\ starts' \in [Hosts -> Nat] /\ ask' \in [Hosts -> SUBSET Hosts]
    /\ UNCHANGED <<done, links, steady, crossed>>

\* A process begins to serve manifest m: everything about the other processes
\* stays, and nobody has compared the new one.
LEMMA ServingIInv ==
    ASSUME IInv, NEW h \in Hosts, NEW m, NEW cs, Begins(h, m, cs)
    PROVE  IInv'
  <1>1. /\ up' \in [Hosts -> {"down", "acquire", "serve"}]
        /\ up'[h] = "serve" /\ \A q \in Hosts : q # h => up'[q] = up[q]
    BY DEF IInv, Shapes, Begins, Serving
  <1>2. /\ DOMAIN manifest' = Hosts /\ manifest'[h] = m
        /\ \A q \in Hosts : q # h => manifest'[q] = manifest[q]
    BY DEF IInv, Shapes, Begins, Serving
  <1>3. /\ DOMAIN chunks' = Hosts /\ chunks'[h] = cs
        /\ \A q \in Hosts : q # h => chunks'[q] = chunks[q]
    BY DEF IInv, Shapes, Begins, Serving
  <1>4. /\ DOMAIN bytes' = Hosts /\ bytes'[h] = [i \in DOMAIN cs |-> << >>]
        /\ \A q \in Hosts : q # h => bytes'[q] = bytes[q]
    BY DEF IInv, Shapes, Begins, Serving
  <1>5. done' = done /\ link' = link /\ met' = met /\ halted' = halted
        /\ steady' = steady /\ crossed' = crossed
    BY DEF Begins, links
  <1>6. done[h] = {}
    BY DEF IInv, IdleIsEmpty, Begins
  <1>7. /\ \A q \in Hosts : q # h => conf'[q] = conf[q] /\ ask'[q] = ask[q] /\ starts'[q] = starts[q]
        /\ DOMAIN conf' = Hosts /\ conf'[h] \in Configs[h]
    BY DEF Begins
  <1>8. Shapes'
    BY <1>1, <1>2, <1>3, <1>4, <1>5, <1>7 DEF IInv, Shapes, Begins
  <1>9. IdleIsEmpty' /\ WithoutSource'
    BY <1>1, <1>2, <1>3, <1>4, <1>5, <1>7 DEF IInv, IdleIsEmpty, WithoutSource
  <1>10. ServeIsFormed'
    <2> SUFFICES ASSUME NEW q \in Hosts, up'[q] = "serve" PROVE ManifestOf(q)'
      BY DEF ServeIsFormed
    <2>1. CASE q = h
      BY <1>2, <1>3, <2>1 DEF ManifestOf, Begins
    <2>2. CASE q # h
      BY <1>1, <1>2, <1>3, <1>7, <2>2 DEF IInv, ServeIsFormed, ManifestOf
    <2> QED
      BY <2>1, <2>2
  <1>11. AllKept'
    <2> SUFFICES ASSUME NEW q \in Hosts PROVE Kept(q)'
      BY DEF AllKept
    <2>1. CASE q = h
      BY <1>3, <1>4, <1>5, <1>6, <2>1 DEF Kept
    <2>2. CASE q # h
      BY <1>3, <1>4, <1>5, <2>2 DEF IInv, AllKept, Kept
    <2> QED
      BY <2>1, <2>2
  <1>12. MetEarlier'
    <2> SUFFICES ASSUME NEW r \in Hosts, NEW q \in Hosts
                 PROVE  met'[r][q] <= starts'[q] /\ (up'[q] = "acquire" => met'[r][q] < starts'[q])
      BY DEF MetEarlier
    <2>1. met[r][q] \in Nat /\ starts'[q] \in Nat
      BY DEF IInv, Shapes, Begins
    <2>2. CASE q = h
      <3>1. met[r][q] < starts'[q]
        BY <2>2 DEF Begins
      <3> QED
        BY <1>5, <2>1, <3>1
    <2>3. CASE q # h
      BY <1>1, <1>5, <1>7, <2>3 DEF IInv, MetEarlier
    <2> QED
      BY <2>2, <2>3
  <1>13. SameSum'
    <2> SUFFICES ASSUME NEW r \in Hosts, NEW q \in Hosts, link'[r][q] = "same"
                 PROVE  /\ up'[r] = "serve"
                        /\ up'[q] = "serve" /\ met'[r][q] = starts'[q] =>
                              manifest'[r].sum = manifest'[q].sum
      BY DEF SameSum
    <2>1. r # h /\ up[r] = "serve"
      BY <1>5 DEF IInv, SameSum, Begins
    <2>2. CASE q = h
      <3>1. met[r][q] < starts'[q] /\ met[r][q] \in Nat /\ starts'[q] \in Nat
        BY <2>2 DEF Begins, IInv, Shapes
      <3> QED
        BY <1>1, <1>5, <2>1, <3>1
    <2>3. CASE q # h
      BY <1>1, <1>2, <1>5, <1>7, <2>1, <2>3 DEF IInv, SameSum
    <2> QED
      BY <2>2, <2>3
  <1>14. SteadyIsAhead'
    <2> SUFFICES ASSUME NEW q \in Hosts, up'[q] = "acquire", NEW r \in steady'[q]
                 PROVE  r \in ask'[q] /\ r \in Offers(q)'
      BY DEF SteadyIsAhead
    <2>1. q # h /\ up[q] = "acquire"
      BY <1>1
    <2>2. r \in ask[q] /\ r \in Offers(q)
      BY <1>5, <2>1 DEF IInv, SteadyIsAhead
    <2>3. r \in Hosts /\ up[r] = "serve" /\ Accepts(conf[q], manifest[r]) /\ r # h
      BY <2>2 DEF Offers, Begins
    <2> QED
      BY <1>1, <1>2, <1>7, <2>1, <2>2, <2>3 DEF Offers
  <1>15. DoneIsRight'
    <2> SUFFICES ASSUME NEW q \in Hosts, q \notin crossed, NEW i \in done'[q]
                 PROVE  \E t \in Sources(manifest'[q].files) : bytes'[q][i] = Bytes(t, q, i)'
      BY <1>5 DEF DoneIsRight, Sources
    <2>1. q # h /\ i \in done[q]
      BY <1>5, <1>6
    <2>2. \E t \in Sources(manifest[q].files) : bytes[q][i] = Bytes(t, q, i)
      BY <2>1 DEF IInv, DoneIsRight
    <2> QED
      BY <1>2, <1>3, <1>4, <2>1, <2>2 DEF Bytes
  <1> QED
    BY <1>8, <1>9, <1>10, <1>11, <1>12, <1>13, <1>14, <1>15 DEF IInv

\* A process starts from a source directory.
LEMMA StartSourceIInv ==
    ASSUME IInv, NEW h \in Hosts, NEW c \in Configs[h],
           NEW n \in 0..(IF c.src = NoTree THEN 0 ELSE Len(Listing[c.src])), StartSource(h, c, n)
    PROVE  IInv'
  <1> DEFINE m == FromStorage(c, n)
  <1>1. c.src \in Trees /\ c.size # 0 /\ Listing[c.src] \in Seq(FileEntry) /\ n \in 0..Len(Listing[c.src])
    BY ConfigsAssumption DEF StartSource
  <1>2. /\ m.size = c.size /\ m.files = SubSeq(Listing[c.src], 1, n)
        /\ m.sum = Checksum(m.files, BuildChunks(n, c))
    BY DEF FromStorage
  <1>3. /\ Serving(h, m, BuildChunks(n, c)) /\ up[h] = "down"
        /\ conf' = [conf EXCEPT ![h] = c] /\ starts' = [starts EXCEPT ![h] = @ + 1]
        /\ UNCHANGED <<done, ask, links, steady, crossed>>
    BY DEF StartSource
  <1> HIDE DEF m
  <1>4. /\ DOMAIN conf' = Hosts /\ conf'[h] = c
        /\ starts' \in [Hosts -> Nat] /\ starts'[h] = starts[h] + 1
        /\ ask' \in [Hosts -> SUBSET Hosts]
        /\ \A q \in Hosts : q # h => conf'[q] = conf[q] /\ ask'[q] = ask[q] /\ starts'[q] = starts[q]
    BY <1>3 DEF IInv, Shapes
  <1>5. \A q \in Hosts : met[q][h] < starts'[h]
    BY <1>4 DEF IInv, Shapes, MetEarlier
  <1>6. Len(Listing[c.src]) \in Nat
    BY <1>1, LenProperties
  <1>7. m.files \in Seq(FileEntry) /\ Len(m.files) = n
    <2>1. 1 <= n + 1 /\ n \in Int /\ n <= Len(Listing[c.src]) /\ 0 <= n
      BY <1>1, <1>6
    <2>2. \A j \in 1..n : j \in 1..Len(Listing[c.src])
      BY <1>6, <2>1
    <2>3. \A j \in 1..n : Listing[c.src][j] \in FileEntry
      BY <1>1, <2>2, ElementOfSeq
    <2>4. SubSeq(Listing[c.src], 1, n) = [j \in 1..n |-> Listing[c.src][j]]
      BY <1>1, <1>6, <2>1, SubSeqProperties
    <2> QED
      BY <1>2, <2>1, <2>3, <2>4
  <1>8. m.size # 0 /\ c.src \in Sources(m.files)
    BY <1>1, <1>2, <1>6, <1>7 DEF Sources
  <1>9. m.sum = Checksum(m.files, BuildChunks(n, c)) /\ BuildChunks(n, c) = BuildChunks(Len(m.files), conf'[h])
    BY <1>2, <1>4, <1>7
  <1>10. Begins(h, m, BuildChunks(n, c))
    BY <1>3, <1>4, <1>5, <1>7, <1>8, <1>9 DEF Begins
  <1> QED
    BY <1>10, ServingIInv

\* A manifest is adopted from a peer.
LEMMA AdoptIInv ==
    ASSUME IInv, NEW h \in Hosts, NEW q \in Hosts, Adopt(h, q)
    PROVE  IInv'
  <1> DEFINE m == manifest[q]
  <1>1. /\ up[h] = "acquire" /\ up[q] = "serve" /\ Accepts(conf[h], m)
        /\ Serving(h, m, BuildChunks(Len(m.files), conf[h]))
        /\ ask' = [ask EXCEPT ![h] = {}]
        /\ UNCHANGED <<conf, done, links, history>>
    BY DEF Adopt, Offers
  <1>2. m.size # 0 /\ m.files \in Seq(FileEntry)
    BY <1>1 DEF IInv, ServeIsFormed, ManifestOf
  <1>3. m.sum = Checksum(m.files, BuildChunks(Len(m.files), conf[h]))
    BY <1>1 DEF Accepts
  <1>4. conf[h].src = NoTree
    BY <1>1 DEF IInv, WithoutSource
  <1> HIDE DEF m
  <1>5. conf' = conf /\ starts' = starts /\ UNCHANGED <<done, links, steady, crossed>>
    BY <1>1 DEF history
  <1>6. ask' \in [Hosts -> SUBSET Hosts] /\ \A r \in Hosts : r # h => ask'[r] = ask[r]
    BY <1>1 DEF IInv, Shapes
  <1>7. \A r \in Hosts : met[r][h] < starts'[h]
    BY <1>1, <1>5 DEF IInv, MetEarlier
  <1>8. DOMAIN conf' = Hosts /\ conf'[h] \in Configs[h] /\ starts' \in [Hosts -> Nat]
    BY <1>5 DEF IInv, Shapes
  <1>9. Begins(h, m, BuildChunks(Len(m.files), conf[h]))
    BY <1>1, <1>2, <1>3, <1>4, <1>5, <1>6, <1>7, <1>8 DEF Begins
  <1> QED
    BY <1>9, ServingIInv

\* Only what a process asks changes: the rest of the invariant speaks of other
\* variables.
LEMMA RoundIInv ==
    ASSUME IInv, UNCHANGED <<own, data, links, starts, crossed>>,
           ask' \in [Hosts -> SUBSET Hosts], steady' \in [Hosts -> SUBSET Hosts],
           \A h \in Hosts : up[h] = "acquire" => steady'[h] \subseteq ask'[h] \cap Offers(h)
    PROVE  IInv'
  <1>1. up' = up /\ conf' = conf /\ manifest' = manifest /\ chunks' = chunks /\ done' = done /\ bytes' = bytes
    BY DEF own, data
  <1>2. link' = link /\ halted' = halted /\ met' = met /\ starts' = starts /\ crossed' = crossed
    BY DEF links
  <1>3. Shapes'
    BY <1>1, <1>2 DEF IInv, Shapes
  <1>4. IdleIsEmpty' /\ ServeIsFormed' /\ WithoutSource' /\ AllKept'
    BY <1>1 DEF IInv, IdleIsEmpty, ServeIsFormed, ManifestOf, WithoutSource, AllKept, Kept
  <1>5. MetEarlier' /\ SameSum'
    BY <1>1, <1>2 DEF IInv, MetEarlier, SameSum
  <1>6. SteadyIsAhead'
    BY <1>1 DEF SteadyIsAhead, Offers
  <1>7. DoneIsRight'
    BY <1>1, <1>2 DEF IInv, DoneIsRight, Bytes
  <1> QED
    BY <1>3, <1>4, <1>5, <1>6, <1>7 DEF IInv

\* A peer without a manifest is passed over.
LEMMA RefusedIInv ==
    ASSUME IInv, NEW h \in Hosts, NEW q \in Hosts, Refused(h, q)
    PROVE  IInv'
  <1>1. /\ q \notin Offers(h) /\ ask' = [ask EXCEPT ![h] = @ \ {q}]
        /\ UNCHANGED <<own, data, links, starts, crossed>> /\ steady' = steady
    BY DEF Refused, history
  <1>2. ask' \in [Hosts -> SUBSET Hosts] /\ steady' \in [Hosts -> SUBSET Hosts]
    BY <1>1 DEF IInv, Shapes
  <1>3. \A r \in Hosts : up[r] = "acquire" => steady'[r] \subseteq ask'[r] \cap Offers(r)
    BY <1>1 DEF IInv, Shapes, SteadyIsAhead
  <1> QED
    BY <1>1, <1>2, <1>3, RoundIInv

\* A request that fails is given up.
LEMMA AskFailsIInv ==
    ASSUME IInv, NEW h \in Hosts, NEW q \in Hosts, AskFails(h, q)
    PROVE  IInv'
  <1>1. /\ ask' = [ask EXCEPT ![h] = @ \ {q}] /\ steady' = [steady EXCEPT ![h] = @ \ {q}]
        /\ UNCHANGED <<own, data, links, starts, crossed>>
    BY DEF AskFails
  <1>2. ask' \in [Hosts -> SUBSET Hosts] /\ steady' \in [Hosts -> SUBSET Hosts]
    BY <1>1 DEF IInv, Shapes
  <1>3. \A r \in Hosts : up[r] = "acquire" => steady'[r] \subseteq ask'[r] \cap Offers(r)
    BY <1>1 DEF IInv, Shapes, SteadyIsAhead
  <1> QED
    BY <1>1, <1>2, <1>3, RoundIInv

\* The next round over the peers that were looked up.
LEMMA NextRoundIInv ==
    ASSUME IInv, NEW h \in Hosts, NEW S \in SUBSET Hosts, NextRound(h, S)
    PROVE  IInv'
  <1>1. /\ ask' = [ask EXCEPT ![h] = S] /\ steady' = [steady EXCEPT ![h] = S \cap Offers(h)]
        /\ UNCHANGED <<own, data, links, starts, crossed>>
    BY DEF NextRound
  <1>2. ask' \in [Hosts -> SUBSET Hosts] /\ steady' \in [Hosts -> SUBSET Hosts]
    BY <1>1 DEF IInv, Shapes
  <1>3. \A r \in Hosts : up[r] = "acquire" => steady'[r] \subseteq ask'[r] \cap Offers(r)
    BY <1>1 DEF IInv, Shapes, SteadyIsAhead
  <1> QED
    BY <1>1, <1>2, <1>3, RoundIInv

\* A process starts without a source.
LEMMA StartPeerIInv ==
    ASSUME IInv, NEW h \in Hosts, NEW c \in Configs[h], NEW S \in SUBSET Hosts, StartPeer(h, c, S)
    PROVE  IInv'
  <1>1. /\ up[h] = "down" /\ up' = [up EXCEPT ![h] = "acquire"]
        /\ conf' = [conf EXCEPT ![h] = c] /\ starts' = [starts EXCEPT ![h] = @ + 1]
        /\ c.src = NoTree /\ ask' = [ask EXCEPT ![h] = S]
        /\ steady' = [steady EXCEPT ![h] = {q \in S : up[q] = "serve" /\ Accepts(c, manifest[q])}]
    BY DEF StartPeer
  <1>2. /\ manifest' = manifest /\ chunks' = chunks /\ done' = done /\ bytes' = bytes
        /\ link' = link /\ halted' = halted /\ met' = met /\ crossed' = crossed
    BY DEF StartPeer, data, links
  <1>3. /\ up' \in [Hosts -> {"down", "acquire", "serve"}] /\ up'[h] = "acquire"
        /\ \A q \in Hosts : q # h => up'[q] = up[q]
    BY <1>1 DEF IInv, Shapes
  <1>4. DOMAIN conf' = Hosts /\ conf'[h] = c /\ \A q \in Hosts : q # h => conf'[q] = conf[q]
    BY <1>1 DEF IInv, Shapes
  <1>5. /\ starts' \in [Hosts -> Nat] /\ starts'[h] = starts[h] + 1
        /\ \A q \in Hosts : q # h => starts'[q] = starts[q]
    BY <1>1 DEF IInv, Shapes
  <1>6. /\ ask' \in [Hosts -> SUBSET Hosts] /\ ask'[h] = S
        /\ \A q \in Hosts : q # h => ask'[q] = ask[q]
    BY <1>1 DEF IInv, Shapes
  <1>7. /\ steady' \in [Hosts -> SUBSET Hosts]
        /\ steady'[h] = {q \in S : up[q] = "serve" /\ Accepts(c, manifest[q])}
        /\ \A q \in Hosts : q # h => steady'[q] = steady[q]
    BY <1>1 DEF IInv, Shapes
  <1>8. Shapes'
    BY <1>2, <1>3, <1>4, <1>5, <1>6, <1>7 DEF IInv, Shapes
  <1>9. IdleIsEmpty'
    BY <1>1, <1>2, <1>3 DEF IInv, IdleIsEmpty
  <1>10. ServeIsFormed'
    BY <1>1, <1>2, <1>3, <1>4 DEF IInv, ServeIsFormed, ManifestOf
  <1>11. AllKept' /\ DoneIsRight'
    BY <1>2 DEF IInv, AllKept, Kept, DoneIsRight, Bytes
  <1>12. MetEarlier'
    <2> SUFFICES ASSUME NEW r \in Hosts, NEW q \in Hosts
                 PROVE  met'[r][q] <= starts'[q] /\ (up'[q] = "acquire" => met'[r][q] < starts'[q])
      BY DEF MetEarlier
    <2>1. met[r][q] \in Nat /\ starts[q] \in Nat /\ met[r][q] <= starts[q]
      BY DEF IInv, Shapes, MetEarlier
    <2>2. CASE q = h
      BY <1>2, <1>5, <2>1, <2>2
    <2>3. CASE q # h
      BY <1>2, <1>3, <1>5, <2>3 DEF IInv, MetEarlier
    <2> QED
      BY <2>2, <2>3
  <1>13. SameSum'
    BY <1>1, <1>2, <1>3, <1>5 DEF IInv, SameSum
  <1>14. SteadyIsAhead'
    <2> SUFFICES ASSUME NEW q \in Hosts, up'[q] = "acquire", NEW r \in steady'[q]
                 PROVE  r \in ask'[q] /\ r \in Offers(q)'
      BY DEF SteadyIsAhead
    <2>1. r \in Hosts /\ up[r] = "serve" /\ Accepts(conf'[q], manifest[r]) /\ r \in ask'[q]
      <3>1. CASE q = h
        BY <1>4, <1>6, <1>7, <3>1
      <3>2. CASE q # h
        BY <1>3, <1>4, <1>6, <1>7, <3>2 DEF IInv, SteadyIsAhead, Offers
      <3> QED
        BY <3>1, <3>2
    <2>2. up'[r] = "serve"
      BY <1>1, <1>3, <2>1
    <2> QED
      BY <1>2, <2>1, <2>2 DEF Offers
  <1>15. WithoutSource'
    BY <1>1, <1>3, <1>4 DEF IInv, WithoutSource
  <1> QED
    BY <1>8, <1>9, <1>10, <1>11, <1>12, <1>13, <1>14, <1>15 DEF IInv

\* A process ends, in whatever way.
LEMMA GoneIInv ==
    ASSUME IInv, NEW h \in Hosts, Gone(h)
    PROVE  IInv'
  <1>1. /\ up' \in [Hosts -> {"down", "acquire", "serve"}] /\ up'[h] = "down"
        /\ \A q \in Hosts : q # h => up'[q] = up[q]
    BY DEF IInv, Shapes, Gone
  <1>2. /\ DOMAIN manifest' = Hosts /\ manifest'[h] = NoManifest
        /\ \A q \in Hosts : q # h => manifest'[q] = manifest[q]
    BY DEF IInv, Shapes, Gone
  <1>3. /\ DOMAIN chunks' = Hosts /\ chunks'[h] = << >>
        /\ \A q \in Hosts : q # h => chunks'[q] = chunks[q]
    BY DEF IInv, Shapes, Gone
  <1>4. /\ DOMAIN done' = Hosts /\ done'[h] = {} /\ DOMAIN bytes' = Hosts /\ bytes'[h] = << >>
        /\ \A q \in Hosts : q # h => done'[q] = done[q] /\ bytes'[q] = bytes[q]
    BY DEF IInv, Shapes, Gone
  <1>5. /\ link' \in [Hosts -> [Hosts -> {"new", "same", "other"}]]
        /\ link'[h] = [q \in Hosts |-> "new"] /\ \A q \in Hosts : q # h => link'[q] = link[q]
    BY DEF IInv, Shapes, Gone
  <1>6. /\ met' \in [Hosts -> [Hosts -> Nat]] /\ met'[h] = [q \in Hosts |-> 0]
        /\ \A q \in Hosts : q # h => met'[q] = met[q]
    BY DEF IInv, Shapes, Gone
  <1>7. /\ ask' \in [Hosts -> SUBSET Hosts] /\ steady' \in [Hosts -> SUBSET Hosts]
        /\ \A q \in Hosts : q # h => ask'[q] = ask[q] /\ steady'[q] = steady[q] \ {h}
    BY DEF IInv, Shapes, Gone
  <1>8. /\ halted' \subseteq Hosts /\ crossed' = crossed \ {h}
        /\ conf' = conf /\ starts' = starts
    BY DEF IInv, Shapes, Gone
  <1>9. Shapes'
    BY <1>1, <1>2, <1>3, <1>4, <1>5, <1>6, <1>7, <1>8 DEF IInv, Shapes
  <1>10. IdleIsEmpty'
    BY <1>1, <1>2, <1>3, <1>4 DEF IInv, IdleIsEmpty
  <1>11. ServeIsFormed' /\ WithoutSource'
    BY <1>1, <1>2, <1>3, <1>8 DEF IInv, ServeIsFormed, ManifestOf, WithoutSource
  <1>12. AllKept'
    <2> SUFFICES ASSUME NEW q \in Hosts PROVE Kept(q)'
      BY DEF AllKept
    <2>1. CASE q = h
      BY <1>3, <1>4, <2>1 DEF Kept
    <2>2. CASE q # h
      BY <1>3, <1>4, <2>2 DEF IInv, AllKept, Kept
    <2> QED
      BY <2>1, <2>2
  <1>13. MetEarlier'
    <2> SUFFICES ASSUME NEW r \in Hosts, NEW q \in Hosts
                 PROVE  met'[r][q] <= starts[q] /\ (up'[q] = "acquire" => met'[r][q] < starts[q])
      BY <1>8 DEF MetEarlier
    <2>1. met[r][q] \in Nat /\ starts[q] \in Nat /\ met[r][q] <= starts[q]
          /\ (up[q] = "acquire" => met[r][q] < starts[q])
      BY DEF IInv, Shapes, MetEarlier
    <2>2. up'[q] = "acquire" => up[q] = "acquire"
      BY <1>1
    <2>3. met'[r][q] \in {0, met[r][q]}
      BY <1>6
    <2> QED
      BY <2>1, <2>2, <2>3
  <1>14. SameSum'
    <2> SUFFICES ASSUME NEW r \in Hosts, NEW q \in Hosts, link'[r][q] = "same"
                 PROVE  /\ up'[r] = "serve"
                        /\ up'[q] = "serve" /\ met'[r][q] = starts'[q] =>
                              manifest'[r].sum = manifest'[q].sum
      BY DEF SameSum
    <2>1. r # h /\ link[r][q] = "same"
      BY <1>5
    <2> QED
      BY <1>1, <1>2, <1>6, <1>8, <2>1 DEF IInv, SameSum
  <1>15. SteadyIsAhead'
    <2> SUFFICES ASSUME NEW q \in Hosts, up'[q] = "acquire", NEW r \in steady'[q]
                 PROVE  r \in ask'[q] /\ r \in Offers(q)'
      BY DEF SteadyIsAhead
    <2>1. q # h /\ r # h /\ r \in steady[q] /\ up[q] = "acquire"
      BY <1>1, <1>7
    <2>2. r \in ask[q] /\ r \in Hosts /\ up[r] = "serve" /\ Accepts(conf[q], manifest[r])
      BY <2>1 DEF IInv, SteadyIsAhead, Offers
    <2> QED
      BY <1>1, <1>2, <1>7, <1>8, <2>1, <2>2 DEF Offers
  <1>16. DoneIsRight'
    <2> SUFFICES ASSUME NEW q \in Hosts \ crossed', NEW i \in done'[q]
                 PROVE  \E t \in Sources(manifest'[q].files) : bytes'[q][i] = Bytes(t, q, i)'
      BY DEF DoneIsRight, Sources
    <2>1. q # h /\ q \in Hosts \ crossed /\ i \in done[q]
      BY <1>4, <1>8
    <2>2. \E t \in Sources(manifest[q].files) : bytes[q][i] = Bytes(t, q, i)
      BY <2>1 DEF IInv, DoneIsRight
    <2> QED
      BY <1>2, <1>3, <1>4, <2>1, <2>2 DEF Bytes
  <1> QED
    BY <1>9, <1>10, <1>11, <1>12, <1>13, <1>14, <1>15, <1>16 DEF IInv

\* Manifests are compared before chunks are fetched.
LEMMA CompareIInv ==
    ASSUME IInv, NEW h \in Hosts, NEW q \in Hosts, Compare(h, q)
    PROVE  IInv'
  <1> DEFINE same == manifest[h].sum = manifest[q].sum
  <1>1. /\ up[h] = "serve" /\ up[q] = "serve"
        /\ link' = [link EXCEPT ![h][q] = IF same THEN "same" ELSE "other"]
        /\ halted' = (IF same THEN halted ELSE halted \cup {h})
        /\ met' = [met EXCEPT ![h][q] = starts[q]]
    BY DEF Compare
  <1>2. /\ up' = up /\ conf' = conf /\ manifest' = manifest /\ chunks' = chunks
        /\ done' = done /\ bytes' = bytes /\ ask' = ask
        /\ starts' = starts /\ steady' = steady /\ crossed' = crossed
    BY DEF Compare, own, data, history
  <1>3. /\ link' \in [Hosts -> [Hosts -> {"new", "same", "other"}]]
        /\ link'[h][q] = "same" => same
        /\ \A r, t \in Hosts : r # h \/ t # q => link'[r][t] = link[r][t]
    BY <1>1 DEF IInv, Shapes
  <1>4. /\ met' \in [Hosts -> [Hosts -> Nat]] /\ met'[h][q] = starts[q]
        /\ \A r, t \in Hosts : r # h \/ t # q => met'[r][t] = met[r][t]
    BY <1>1 DEF IInv, Shapes
  <1>5. Shapes'
    BY <1>1, <1>2, <1>3, <1>4 DEF IInv, Shapes
  <1>6. IdleIsEmpty' /\ ServeIsFormed' /\ WithoutSource' /\ AllKept'
    BY <1>2 DEF IInv, IdleIsEmpty, ServeIsFormed, ManifestOf, WithoutSource, AllKept, Kept
  <1>7. MetEarlier'
    <2> SUFFICES ASSUME NEW r \in Hosts, NEW t \in Hosts
                 PROVE  met'[r][t] <= starts[t] /\ (up[t] = "acquire" => met'[r][t] < starts[t])
      BY <1>2 DEF MetEarlier
    <2>1. CASE r = h /\ t = q
      <3>1. starts[t] \in Nat
        BY DEF IInv, Shapes
      <3> QED
        BY <1>1, <1>4, <2>1, <3>1
    <2>2. CASE r # h \/ t # q
      BY <1>4, <2>2 DEF IInv, MetEarlier
    <2> QED
      BY <2>1, <2>2
  <1>8. SameSum'
    <2> SUFFICES ASSUME NEW r \in Hosts, NEW t \in Hosts, link'[r][t] = "same"
                 PROVE  /\ up[r] = "serve"
                        /\ up[t] = "serve" /\ met'[r][t] = starts[t] =>
                              manifest[r].sum = manifest[t].sum
      BY <1>2 DEF SameSum
    <2>1. CASE r = h /\ t = q
      BY <1>1, <1>3, <2>1
    <2>2. CASE r # h \/ t # q
      BY <1>3, <1>4, <2>2 DEF IInv, SameSum
    <2> QED
      BY <2>1, <2>2
  <1>9. SteadyIsAhead'
    BY <1>2 DEF IInv, SteadyIsAhead, Offers
  <1>10. DoneIsRight'
    BY <1>2 DEF IInv, DoneIsRight, Bytes
  <1> QED
    BY <1>5, <1>6, <1>7, <1>8, <1>9, <1>10 DEF IInv

\* A chunk is kept: right, or by a process that is crossed from now on.
LEMMA KeepIInv ==
    ASSUME IInv, NEW h \in Hosts, up[h] = "serve", NEW i \in DOMAIN chunks[h],
           NEW b \in Content, Keep(h, i, b),
           UNCHANGED <<own, ask, links, starts, steady>>,
           crossed \subseteq crossed', crossed' \subseteq Hosts,
           h \notin crossed' => \E t \in Sources(manifest[h].files) : b = Bytes(t, h, i)
    PROVE  IInv'
  <1>1. /\ up' = up /\ conf' = conf /\ manifest' = manifest /\ chunks' = chunks /\ ask' = ask
        /\ link' = link /\ halted' = halted /\ met' = met
        /\ starts' = starts /\ steady' = steady
    BY DEF own, links
  <1>2. /\ DOMAIN done' = Hosts /\ done'[h] = done[h] \cup {i}
        /\ \A q \in Hosts : q # h => done'[q] = done[q]
    BY DEF IInv, Shapes, Keep
  <1>3. /\ DOMAIN bytes' = Hosts /\ bytes'[h] = [bytes[h] EXCEPT ![i] = b]
        /\ \A q \in Hosts : q # h => bytes'[q] = bytes[q]
    BY DEF IInv, Shapes, Keep
  <1>4. DOMAIN bytes[h] = DOMAIN chunks[h]
    BY DEF IInv, AllKept, Kept
  <1>5. /\ DOMAIN bytes'[h] = DOMAIN chunks[h] /\ bytes'[h][i] = b
        /\ \A j \in DOMAIN chunks[h] : j # i => bytes'[h][j] = bytes[h][j]
    BY <1>3, <1>4
  <1>6. Shapes'
    BY <1>1, <1>2, <1>3 DEF IInv, Shapes
  <1>7. IdleIsEmpty'
    BY <1>1, <1>2, <1>3 DEF IInv, IdleIsEmpty
  <1>8. ServeIsFormed' /\ MetEarlier' /\ SameSum' /\ WithoutSource'
    BY <1>1 DEF IInv, ServeIsFormed, ManifestOf, MetEarlier, SameSum, WithoutSource
  <1>9. SteadyIsAhead'
    BY <1>1 DEF IInv, SteadyIsAhead, Offers
  <1>10. AllKept'
    <2> SUFFICES ASSUME NEW q \in Hosts PROVE Kept(q)'
      BY DEF AllKept
    <2>1. Kept(q)
      BY DEF IInv, AllKept
    <2>2. CASE q = h
      BY <1>1, <1>2, <1>5, <2>1, <2>2 DEF Kept
    <2>3. CASE q # h
      BY <1>1, <1>2, <1>3, <2>1, <2>3 DEF Kept
    <2> QED
      BY <2>2, <2>3
  <1>11. DoneIsRight'
    <2> SUFFICES ASSUME NEW q \in Hosts \ crossed', NEW j \in done'[q]
                 PROVE  \E t \in Sources(manifest[q].files) : bytes'[q][j] = Bytes(t, q, j)
      BY <1>1 DEF DoneIsRight, Bytes
    <2>1. q \in Hosts \ crossed
      OBVIOUS
    <2>2. CASE q = h /\ j = i
      BY <1>5, <2>2
    <2>3. CASE q = h /\ j # i
      <3>1. j \in done[h] /\ j \in DOMAIN chunks[h]
        BY <1>2, <2>3 DEF IInv, AllKept, Kept
      <3> QED
        BY <1>5, <2>1, <2>3, <3>1 DEF IInv, DoneIsRight
    <2>4. CASE q # h
      BY <1>2, <1>3, <2>1, <2>4 DEF IInv, DoneIsRight
    <2> QED
      BY <2>2, <2>3, <2>4
  <1> QED
    BY <1>6, <1>7, <1>8, <1>9, <1>10, <1>11 DEF IInv

\* A chunk is fetched from a peer.
LEMMA FetchIInv ==
    ASSUME IInv, NEW h \in Hosts, NEW q \in Hosts, NEW i, Fetch(h, q, i)
    PROVE  IInv'
  <1> DEFINE body == Body(q, i)
  <1>1. /\ up[h] = "serve" /\ up[q] = "serve" /\ link[h][q] = "same"
        /\ i \in DOMAIN chunks[h] /\ i \in Servable(q)
        /\ Keep(h, i, Taken(h, i, body))
        /\ crossed' = IF met[h][q] # starts[q] \/ q \in crossed THEN crossed \cup {h} ELSE crossed
        /\ UNCHANGED <<own, ask, links, starts, steady>>
    BY DEF Fetch
  <1>2. i \in DOMAIN chunks[q]
    BY <1>1 DEF Servable, IInv, AllKept, Kept
  <1>3. body \in Content
    <2>1. CASE ServeOnly(q)
      <3>1. conf[q].src # NoTree
        BY <2>1, ConfigsAssumption DEF ServeOnly, IInv, Shapes
      <3> QED
        BY <1>1, <1>2, <2>1, <3>1, ReaderIsContent DEF Body
    <2>2. CASE ~ServeOnly(q)
      BY <1>1, <2>2 DEF Body, Servable, IInv, AllKept, Kept
    <2> QED
      BY <2>1, <2>2
  <1>4. ASSUME h \notin crossed'
        PROVE  \E t \in Sources(manifest[h].files) : Taken(h, i, body) = Bytes(t, h, i)
    <2>1. met[h][q] = starts[q] /\ q \notin crossed
      BY <1>1, <1>4
    <2>2. manifest[h].sum = manifest[q].sum
      BY <1>1, <2>1 DEF IInv, SameSum
    <2>3. manifest[h].files = manifest[q].files /\ chunks[h] = chunks[q]
      BY <1>1, <2>2, SumsTell
    <2>4. \E t \in Sources(manifest[q].files) : body = Bytes(t, q, i)
      <3>1. CASE ServeOnly(q)
        <4>1. conf[q].src \in Sources(manifest[q].files)
          BY <1>1, <3>1, ConfigsAssumption DEF ServeOnly, IInv, Shapes, ServeIsFormed, ManifestOf
        <4> QED
          BY <3>1, <4>1 DEF Body, Reader
      <3>2. CASE ~ServeOnly(q)
        BY <1>1, <2>1, <3>2 DEF Body, Servable, IInv, DoneIsRight
      <3> QED
        BY <3>1, <3>2
    <2>5. PICK t \in Sources(manifest[h].files) : body = Bytes(t, h, i)
      BY <2>3, <2>4 DEF Bytes
    <2>6. chunks[h][i].lo \in Nat /\ chunks[h][i].hi \in Nat
      BY <1>1, ChunksAreIntervals, LenProperties DEF IInv, Shapes, ServeIsFormed, ManifestOf
    <2>7. Taken(h, i, body) = Bytes(t, h, i)
      BY <2>5, <2>6 DEF Bytes, Taken, Needs
    <2> QED
      BY <2>7
  <1>5. Taken(h, i, body) \in Content
    BY <1>1, <1>3, TakenIsContent
  <1>6. crossed \subseteq crossed' /\ crossed' \subseteq Hosts
    BY <1>1 DEF IInv, Shapes
  <1> HIDE DEF body
  <1> QED
    BY <1>1, <1>4, <1>5, <1>6, KeepIInv

\* A chunk is read from the own source.
LEMMA FetchLocalIInv ==
    ASSUME IInv, NEW h \in Hosts, NEW i, FetchLocal(h, i)
    PROVE  IInv'
  <1>1. /\ up[h] = "serve" /\ i \in DOMAIN chunks[h] /\ Keep(h, i, Reader(h, i)) /\ conf[h].src # NoTree
        /\ UNCHANGED <<own, ask, links, starts, steady>> /\ crossed' = crossed
    BY DEF FetchLocal, history
  <1>2. Reader(h, i) \in Content
    BY <1>1, ReaderIsContent
  <1>3. crossed' \subseteq Hosts
    BY <1>1 DEF IInv, Shapes
  <1>4. \E t \in Sources(manifest[h].files) : Reader(h, i) = Bytes(t, h, i)
    BY <1>1 DEF Reader, IInv, ServeIsFormed, ManifestOf
  <1> QED
    BY <1>1, <1>2, <1>3, <1>4, KeepIInv

\* Every step keeps the invariant.
LEMMA NextIInv == IInv /\ [Next]_vars => IInv'
  <1> SUFFICES ASSUME IInv, [Next]_vars PROVE IInv'
    OBVIOUS
  <1>1. ASSUME NEW h \in Hosts, NEW c \in Configs[h], NEW S \in SUBSET Hosts, StartPeer(h, c, S) PROVE IInv'
    BY <1>1, StartPeerIInv
  <1>2. ASSUME NEW h \in Hosts, NEW c \in Configs[h],
               NEW n \in 0..(IF c.src = NoTree THEN 0 ELSE Len(Listing[c.src])), StartSource(h, c, n)
        PROVE  IInv'
    BY <1>2, StartSourceIInv
  <1>3. ASSUME NEW h \in Hosts, NEW q \in Hosts,
               Adopt(h, q) \/ Refused(h, q) \/ AskFails(h, q) \/ Compare(h, q)
        PROVE  IInv'
    BY <1>3, AdoptIInv, RefusedIInv, AskFailsIInv, CompareIInv
  <1>4. ASSUME NEW h \in Hosts, GiveUp(h) \/ Stop(h) \/ \E S \in SUBSET Hosts : NextRound(h, S) PROVE IInv'
    BY <1>4, NextRoundIInv, GoneIInv DEF GiveUp, Stop
  <1>5. ASSUME NEW h \in Hosts, NEW i, FetchLocal(h, i) \/ \E q \in Hosts : Fetch(h, q, i) PROVE IInv'
    BY <1>5, FetchLocalIInv, FetchIInv
  <1>6. CASE UNCHANGED vars
    <2>1. UNCHANGED <<own, data, links, starts, crossed>> /\ ask' = ask /\ steady' = steady
      BY <1>6 DEF vars, history
    <2>2. ask' \in [Hosts -> SUBSET Hosts] /\ steady' \in [Hosts -> SUBSET Hosts]
      BY <2>1 DEF IInv, Shapes
    <2>3. \A h \in Hosts : up[h] = "acquire" => steady'[h] \subseteq ask'[h] \cap Offers(h)
      BY <2>1 DEF IInv, SteadyIsAhead
    <2> QED
      BY <2>1, <2>2, <2>3, RoundIInv
  <1> QED
    BY <1>1, <1>2, <1>3, <1>4, <1>5, <1>6 DEF Next

(***************************************************************************)
(* The theorems.                                                           *)
(***************************************************************************)
LEMMA Invariance == Spec => []IInv
  BY InitIInv, NextIInv, PTL DEF Spec

\* Type correctness: among others, only a process that serves has a manifest,
\* and whatever it kept of a chunk is the content of a file interval.
THEOREM Typed == Spec => []TypeOK
  <1>1. IInv => TypeOK
    <2> SUFFICES ASSUME IInv PROVE TypeOK
      OBVIOUS
    <2>1. ASSUME NEW h \in Hosts
          PROVE  /\ conf[h] \in Configs[h]
                 /\ DOMAIN bytes[h] = DOMAIN chunks[h] /\ done[h] \subseteq DOMAIN chunks[h]
                 /\ \A i \in DOMAIN chunks[h] : bytes[h][i] \in Content \cup {<< >>}
      BY <2>1 DEF IInv, Shapes, AllKept, Kept
    <2>2. ASSUME NEW h \in Hosts PROVE up[h] = "serve" <=> manifest[h] # NoManifest
      BY <2>2 DEF IInv, IdleIsEmpty, ServeIsFormed, ManifestOf, NoManifest
    <2>3. {ask[h] : h \in Hosts} \cup {steady[h] : h \in Hosts} \cup {halted, crossed} \subseteq SUBSET Hosts
      BY DEF IInv, Shapes
    <2> QED
      BY <2>1, <2>2, <2>3 DEF TypeOK, IInv, Shapes
  <1> QED
    BY <1>1, Invariance, PTL

\* verifyChecksum is enough: while a downloader goes on with a peer it compared,
\* the two have the same files and the same chunks.
THEOREM Agreement == Spec => []PeersAgree
  <1>1. IInv => PeersAgree
    BY SumsTell DEF IInv, SameSum, PeersAgree
  <1> QED
    BY <1>1, Invariance, PTL

\* A transferred chunk holds the bytes of its files in some source with this
\* file list, in every process that never fetched, directly or through others,
\* from a process started after the comparison.
THEOREM DoneRight == Spec => []DoneIsRight
  <1>1. IInv => DoneIsRight
    BY DEF IInv
  <1> QED
    BY <1>1, Invariance, PTL

\* A round of getManifestFromPeerList misses nobody of its look-up who had an
\* acceptable manifest all through it and answered; the look-up may have any
\* result, or fail.
THEOREM RoundMissesNobody == Spec => []GivesUpAlone
  <1>1. IInv => GivesUpAlone
    BY DEF IInv, SteadyIsAhead, GivesUpAlone
  <1> QED
    BY <1>1, Invariance, PTL
================================================================================
