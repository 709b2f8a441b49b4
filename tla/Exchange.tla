-------------------------------- MODULE Exchange -------------------------------
(***************************************************************************)
(* Several p2pcp processes together: each makes its manifest from its      *)
(* source or gets it from a peer that serves one, listens only then,       *)
(* compares checksums with its peers once, and fetches chunks by index.    *)
(* Processes stop, die and are started again at the same address, with     *)
(* another command line or source.                                         *)
(*                                                                         *)
(* All files have one byte, so that a chunk is an interval of the sorted   *)
(* file list; how BuildChunks cuts longer files is the subject of the      *)
(* module BuildChunks.  A hash is the thing it is a hash of: collisions    *)
(* are left out.  The checksum of a manifest is a hash of the file list,   *)
(* not of the files: two sources may have the same list and other bytes.   *)
(***************************************************************************)
EXTENDS Integers, Sequences, FiniteSets

CONSTANTS
    Hosts,       \* the addresses of the peer list
    Trees,       \* the sources, told apart by the bytes of their files
    NoTree,      \* no -src
    FileEntry,   \* what Walk reports of a file: its name, size and permissions
    Listing,     \* the file list of each source, in the order of Walk
    Configs,     \* the command lines each host may be started with
    MaxStarts    \* bound: how many processes are started at each address

\* src: -src; dst: there is a -dst; major: version.MajorVersion; size:
\* -chunk-size; count: -files-per-chunk; verify: -verify-on-complete.
ASSUME ConfigsAssumption ==
    /\ NoTree \notin Trees /\ DOMAIN Listing = Trees
    /\ \A t \in Trees : Listing[t] \in Seq(FileEntry)
    /\ Configs \in [Hosts -> SUBSET [src : Trees \cup {NoTree}, dst : BOOLEAN, major : Nat,
                                     size : Nat \ {0}, count : Nat, verify : BOOLEAN]]
    /\ \A h \in Hosts : Configs[h] # {} /\ \A c \in Configs[h] : c.src = NoTree => c.dst
    /\ MaxStarts \in [Hosts -> Nat]

VARIABLES
    up,          \* "down", "acquire" (in newManifest) or "serve"
    conf,        \* the command line
    manifest,    \* ChunkManager.manifest
    chunks,      \* ChunkManager.chunks: the file interval of each chunk
    done,        \* the chunks with status Done
    bytes,       \* what the destination holds of each chunk
    ask,         \* the peers still to ask in this round of getManifestFromPeerList
    link,        \* what a downloader of the first host found out about the second
    halted,      \* DownloadCancel was called because of another manifest
    starts,      \* the process number at each address (history)
    met,         \* the number of the process that was compared (history)
    steady,      \* peers with an acceptable manifest all through the round (history)
    crossed      \* hosts that fetched from a process they did not compare, or from
                 \* one that had (history)

own     == <<up, conf, manifest, chunks>>
data    == <<done, bytes>>
links   == <<link, halted, met>>
history == <<starts, steady, crossed>>
vars    == <<own, data, ask, links, history>>

Minimum(m, n) == IF m < n THEN m ELSE n

\* BuildChunks for n one-byte files: a chunk is full at the size, or at the
\* number of files if that is not 0.
BuildChunks(n, c) ==
    LET per == IF c.count = 0 THEN c.size ELSE Minimum(c.size, c.count)
    IN  [i \in 1..((n + per - 1) \div per) |-> [lo |-> (i - 1) * per + 1, hi |-> Minimum(i * per, n)]]

\* computeChecksum: of the file list and the chunks; not of the bytes of the
\* files, nor of the directories, links and empty files, which are not part of
\* this model.
Checksum(files, cs) == <<files, cs>>

NoManifest == [major |-> 0, size |-> 0, sum |-> << >>, total |-> 0, files |-> << >>]

\* getManifestFromStorage, having seen the first n files.
FromStorage(c, n) ==
    LET files == SubSeq(Listing[c.src], 1, n)
        cs == BuildChunks(n, c)
    IN  [major |-> c.major, size |-> c.size, sum |-> Checksum(files, cs), total |-> Len(cs), files |-> files]

\* Variant of Accepts: the checksum is not recomputed.
AcceptsUnchecked(c, m) ==
    /\ m.major = c.major
    /\ m.size = c.size

\* getManifestFromPeer accepts m for command line c.
Accepts(c, m) ==
    /\ m.major = c.major
    /\ m.size = c.size
    /\ LET cs == BuildChunks(Len(m.files), c) IN m.sum = Checksum(m.files, cs) /\ m.total = Len(cs)

Init ==
    /\ up = [h \in Hosts |-> "down"]
    /\ conf = [h \in Hosts |-> CHOOSE c \in Configs[h] : TRUE]
    /\ manifest = [h \in Hosts |-> NoManifest]
    /\ chunks = [h \in Hosts |-> << >>]
    /\ done = [h \in Hosts |-> {}] /\ bytes = [h \in Hosts |-> << >>]
    /\ ask = [h \in Hosts |-> {}]
    /\ link = [h \in Hosts |-> [q \in Hosts |-> "new"]]
    /\ halted = {} /\ met = [h \in Hosts |-> [q \in Hosts |-> 0]]
    /\ starts = [h \in Hosts |-> 0] /\ steady = [h \in Hosts |-> {}]
    /\ crossed = {}

\* The peers that would give h the manifest now.
Offers(h) == {q \in Hosts : up[q] = "serve" /\ Accepts(conf[h], manifest[q])}

Serving(h, m, cs) ==
    /\ up' = [up EXCEPT ![h] = "serve"]
    /\ manifest' = [manifest EXCEPT ![h] = m]
    /\ chunks' = [chunks EXCEPT ![h] = cs]
    /\ bytes' = [bytes EXCEPT ![h] = [i \in DOMAIN cs |-> << >>]]

(***************************************************************************)
(* A process begins and gets its manifest.                                 *)
(***************************************************************************)

\* With a source, the manifest is made of it.  An error of Walk is lost
\* (manifest.go:128, 143): the files seen before it are the manifest.
StartSource(h, c, n) ==
    /\ up[h] = "down" /\ starts[h] < MaxStarts[h]
    /\ c.src # NoTree /\ n \in 0..Len(Listing[c.src])
    /\ conf' = [conf EXCEPT ![h] = c]
    /\ starts' = [starts EXCEPT ![h] = @ + 1]
    /\ Serving(h, FromStorage(c, n), BuildChunks(n, c))
    /\ UNCHANGED <<done, ask, links, steady, crossed>>

\* Without one, a peer is asked for it.  The look-up of the peers (GetPeers)
\* gives any set S; when it fails, or the time is over, nobody is asked in this
\* round (manifest.go:161).
StartPeer(h, c, S) ==
    /\ up[h] = "down" /\ starts[h] < MaxStarts[h]
    /\ c.src = NoTree
    /\ up' = [up EXCEPT ![h] = "acquire"]
    /\ conf' = [conf EXCEPT ![h] = c]
    /\ starts' = [starts EXCEPT ![h] = @ + 1]
    /\ ask' = [ask EXCEPT ![h] = S]
    /\ steady' = [steady EXCEPT ![h] = {q \in S : up[q] = "serve" /\ Accepts(c, manifest[q])}]
    /\ UNCHANGED <<manifest, chunks, data, links, crossed>>

\* The peer gives a manifest that is accepted.
Adopt(h, q) ==
    /\ up[h] = "acquire" /\ q \in ask[h] \cap Offers(h)
    /\ Serving(h, manifest[q], BuildChunks(Len(manifest[q].files), conf[h]))
    /\ ask' = [ask EXCEPT ![h] = {}]
    /\ UNCHANGED <<conf, done, links, history>>

\* Variant of Refused: the first peer without a manifest ends the round.
RefusedEndsRound(h, q) ==
    /\ up[h] = "acquire" /\ q \in ask[h] \ Offers(h)
    /\ ask' = [ask EXCEPT ![h] = {}]
    /\ UNCHANGED <<own, data, links, history>>

\* It does not listen (yet), or its manifest is not accepted.
Refused(h, q) ==
    /\ up[h] = "acquire" /\ q \in ask[h] \ Offers(h)
    /\ ask' = [ask EXCEPT ![h] = @ \ {q}]
    /\ UNCHANGED <<own, data, links, history>>

\* The request fails although the peer is there.
AskFails(h, q) ==
    /\ up[h] = "acquire" /\ q \in ask[h] \cap Offers(h)
    /\ ask' = [ask EXCEPT ![h] = @ \ {q}]
    /\ steady' = [steady EXCEPT ![h] = @ \ {q}]
    /\ UNCHANGED <<own, data, links, starts, crossed>>

\* The peers are looked up again, with any result.
NextRound(h, S) ==
    /\ up[h] = "acquire" /\ ask[h] = {}
    /\ ask' = [ask EXCEPT ![h] = S]
    /\ steady' = [steady EXCEPT ![h] = S \cap Offers(h)]
    /\ UNCHANGED <<own, data, links, starts, crossed>>

\* All that a process knew is gone; the others keep what they found out.
Gone(h) ==
    /\ up' = [up EXCEPT ![h] = "down"]
    /\ manifest' = [manifest EXCEPT ![h] = NoManifest]
    /\ chunks' = [chunks EXCEPT ![h] = << >>]
    /\ done' = [done EXCEPT ![h] = {}]
    /\ bytes' = [bytes EXCEPT ![h] = << >>]
    /\ ask' = [ask EXCEPT ![h] = {}]
    /\ link' = [link EXCEPT ![h] = [q \in Hosts |-> "new"]]
    /\ met' = [met EXCEPT ![h] = [q \in Hosts |-> 0]]
    /\ halted' = halted \ {h}
    /\ steady' = [q \in Hosts |-> IF q = h THEN {} ELSE steady[q] \ {h}]
    /\ crossed' = crossed \ {h}
    /\ UNCHANGED <<conf, starts>>

\* Variant of GiveUp: the timeout is not looked at while peers are tried again.
GiveUpWithoutPeers(h) == up[h] = "acquire" /\ ask[h] = {} /\ Hosts = {} /\ Gone(h)

\* -peer-wait-timeout, which is looked at between rounds: Init fails.
GiveUp(h) == up[h] = "acquire" /\ ask[h] = {} /\ Gone(h)

\* The process exits, is killed or crashes; it does so itself when a peer that
\* was started again answers with a chunk index it does not have
\* (peer_downloader.go:238).
Stop(h) == up[h] # "down" /\ Gone(h)

(***************************************************************************)
(* Downloads from peers.                                                   *)
(***************************************************************************)

\* Variant of Compare: numbers of chunks are compared.
CompareTotals(h, q) ==
    /\ h # q /\ up[h] = "serve" /\ up[q] = "serve"
    /\ conf[h].dst /\ h \notin halted /\ link[h][q] = "new"
    /\ LET same == manifest[h].total = manifest[q].total IN
       /\ link' = [link EXCEPT ![h][q] = IF same THEN "same" ELSE "other"]
       /\ halted' = IF same THEN halted ELSE halted \cup {h}
    /\ met' = [met EXCEPT ![h][q] = starts[q]]
    /\ UNCHANGED <<own, data, ask, history>>

\* verifyChecksum, once for each peer; another checksum ends the download.
Compare(h, q) ==
    /\ h # q /\ up[h] = "serve" /\ up[q] = "serve"
    /\ conf[h].dst /\ h \notin halted /\ link[h][q] = "new"
    /\ LET same == manifest[h].sum = manifest[q].sum IN
       /\ link' = [link EXCEPT ![h][q] = IF same THEN "same" ELSE "other"]
       /\ halted' = IF same THEN halted ELSE halted \cup {h}
    /\ met' = [met EXCEPT ![h][q] = starts[q]]
    /\ UNCHANGED <<own, data, ask, history>>

\* The chunks of the source, or of the destination: a seeder has them all, any
\* other process those that are Done.  (Completed is set when all are.)
ServeOnly(q) == ~conf[q].dst
Servable(q) == IF ServeOnly(q) THEN DOMAIN chunks[q] ELSE done[q]

\* The bytes of chunk i in source tree t, by the layout of q.
Bytes(t, q, i) == [tree |-> t, lo |-> chunks[q][i].lo, hi |-> chunks[q][i].hi]
\* A process with a source reads them there.
Reader(q, i) == Bytes(conf[q].src, q, i)
Body(q, i) == IF ServeOnly(q) THEN Reader(q, i) ELSE bytes[q][i]

\* Storage.Write takes what chunk i of h needs from the front of the body.
Needs(h, i) == chunks[h][i].hi - chunks[h][i].lo
Taken(h, i, body) == [body EXCEPT !.hi = body.lo + Needs(h, i)]

Keep(h, i, b) ==
    /\ done' = [done EXCEPT ![h] = @ \cup {i}]
    /\ bytes' = [bytes EXCEPT ![h][i] = b]

\* Chunk i arrives and is kept: the body is long enough and, with verify,
\* its digest, which the server computes over the whole chunk it has, is the
\* one of the bytes taken.  Otherwise nothing changes and the chunk is tried
\* again.
Fetch(h, q, i) ==
    /\ up[h] = "serve" /\ up[q] = "serve"
    /\ h \notin halted /\ link[h][q] = "same"
    /\ i \in DOMAIN chunks[h] \ done[h]
    /\ i \in Servable(q)
    /\ LET body == Body(q, i) IN
       /\ body.hi - body.lo >= Needs(h, i)
       /\ conf[h].verify => body = Taken(h, i, body)
       /\ Keep(h, i, Taken(h, i, body))
    /\ crossed' = IF met[h][q] # starts[q] \/ q \in crossed THEN crossed \cup {h} ELSE crossed
    /\ UNCHANGED <<own, ask, links, starts, steady>>

\* Variant of FetchLocal: the chunk is recorded at the next index.
FetchLocalPast(h, i) ==
    /\ up[h] = "serve" /\ conf[h].dst /\ conf[h].src # NoTree /\ h \notin halted
    /\ i \in DOMAIN chunks[h] \ done[h]
    /\ Keep(h, i + 1, Reader(h, i))
    /\ UNCHANGED <<own, ask, links, history>>

\* The local downloader, for a process with a source and a destination.
FetchLocal(h, i) ==
    /\ up[h] = "serve" /\ conf[h].dst /\ conf[h].src # NoTree /\ h \notin halted
    /\ i \in DOMAIN chunks[h] \ done[h]
    /\ Keep(h, i, Reader(h, i))
    /\ UNCHANGED <<own, ask, links, history>>

Next ==
    \/ \E h \in Hosts : \E c \in Configs[h] :
          \/ \E S \in SUBSET Hosts : StartPeer(h, c, S)
          \/ \E n \in 0..(IF c.src = NoTree THEN 0 ELSE Len(Listing[c.src])) : StartSource(h, c, n)
    \/ \E h, q \in Hosts : Adopt(h, q) \/ Refused(h, q) \/ AskFails(h, q) \/ Compare(h, q)
    \/ \E h \in Hosts : GiveUp(h) \/ Stop(h) \/ \E S \in SUBSET Hosts : NextRound(h, S)
    \/ \E h \in Hosts : \E i \in DOMAIN chunks[h] :
          FetchLocal(h, i) \/ \E q \in Hosts : Fetch(h, q, i)

Spec == Init /\ [][Next]_vars

\* Requests return, and the timeout of the acquisition fires in the end.
FairSpec ==
    /\ Spec
    /\ \A h \in Hosts :
          /\ WF_vars(\E q \in Hosts : Adopt(h, q) \/ Refused(h, q) \/ AskFails(h, q))
          /\ SF_vars(GiveUp(h))

Content == [tree : Trees, lo : Nat, hi : Nat]

TypeOK ==
    /\ up \in [Hosts -> {"down", "acquire", "serve"}]
    /\ \A h \in Hosts :
          /\ conf[h] \in Configs[h]
          /\ DOMAIN bytes[h] = DOMAIN chunks[h] /\ done[h] \subseteq DOMAIN chunks[h]
          /\ \A i \in DOMAIN chunks[h] : bytes[h][i] \in Content \cup {<< >>}
          /\ up[h] = "serve" <=> manifest[h] # NoManifest
    /\ link \in [Hosts -> [Hosts -> {"new", "same", "other"}]]
    /\ {ask[h] : h \in Hosts} \cup {steady[h] : h \in Hosts} \cup {halted, crossed} \subseteq SUBSET Hosts

(***************************************************************************)
(* What must be true.                                                      *)
(***************************************************************************)

\* "Each p2pcp generates a chunk list from the file list and compares it to
\* ensure identical chunk lists" (manifest.go:33): a downloader and the process
\* it compared have the same file list and the same chunks, through any chain of
\* processes the manifest came by and with any -files-per-chunk.
PeersAgree ==
    \A h, q \in Hosts :
        link[h][q] = "same" /\ up[q] = "serve" /\ met[h][q] = starts[q] =>
            manifest[h].files = manifest[q].files /\ chunks[h] = chunks[q]

\* The sources a file list may be of.
Sources(files) == {t \in Trees : Len(files) <= Len(Listing[t]) /\ files = SubSeq(Listing[t], 1, Len(files))}

\* A transferred chunk holds the bytes that a source with the listed files has
\* at these very files, whatever stops, starts and changes its source meanwhile.
\* Two things are not promised.  Which source: those with equal file lists are
\* not told apart (manifest.go:190), and chunks of both may come together in one
\* destination.  And nothing once a process on the way of the bytes has fetched
\* from one that was started at a known address after the comparison
\* (peer_downloader.go:99), which is not compared again.
DoneIsRight ==
    \A h \in Hosts \ crossed : \A i \in done[h] :
        \E t \in Sources(manifest[h].files) : bytes[h][i] = Bytes(t, h, i)

\* A process gives up only after a round in which each peer of its look-up had
\* no manifest for it at some time of the round, or could not be reached.  (A
\* look-up that fails has no peers: the process may then give up while one
\* serves.)
GivesUpAlone == \A h \in Hosts : up[h] = "acquire" /\ ask[h] = {} => steady[h] = {}

\* Nobody waits for ever for a manifest, not even processes that all wait for
\* one another: they listen only when they have one.
Settles == \A h \in Hosts : up[h] = "acquire" ~> up[h] # "acquire"
================================================================================
