----------------------------- MODULE ChunkTransfer -----------------------------
(***************************************************************************)
(* The download side of one p2pcp process: DownloadFiles and the           *)
(* goroutines it starts.  Every downloader (the local one, which reads     *)
(* -src, and one per peer) runs execDownloader: a dispatcher that pops     *)
(* chunk indices from the downloader's own queue, claims them in the       *)
(* shared chunk table with a compare-and-swap and hands them over an       *)
(* unbuffered channel to its workers.  A peer downloader also has an       *)
(* updater goroutine, which polls the peer's list of available chunks; the *)
(* controller starts and stops peer downloaders; the idle watchdog cancels *)
(* the download when nothing arrives for too long.                         *)
(*                                                                         *)
(* A peer downloader that was removed and whose host comes back is a new   *)
(* PeerDownloader: an element of Downloaders is one such instance.         *)
(***************************************************************************)
EXTENDS Integers, Sequences, FiniteSets, Functions

CONSTANTS
    Chunks,       \* the chunks of the manifest
    NoChunk,      \* no chunk in hand
    Downloaders,  \* the downloader instances
    Local,        \* the instances made by NewLocalDownloader: at most one
    Workers,      \* the downloadWorker goroutines
    Owner,        \* the downloader each worker belongs to
    UseIdle,      \* -transfer-idle-timeout > 0
    Faults        \* which outside events happen; see Interrupt and the rest

ASSUME ChunksAssumption == IsFiniteSet(Chunks) /\ NoChunk \notin Chunks
ASSUME ProcsAssumption ==
    /\ Local \subseteq Downloaders
    /\ Downloaders \cap Workers = {}
    /\ Owner \in [Workers -> Downloaders]
ASSUME FlagsAssumption ==
    /\ UseIdle \in BOOLEAN
    /\ Faults \subseteq {"interrupt", "self", "mismatch", "leave", "commit", "verify"}

Peers == Downloaders \ Local
Procs == Downloaders \cup Workers
Home(p) == IF p \in Workers THEN Owner[p] ELSE p
WorkersOf(d) == {w \in Workers : Owner[w] = d}

VARIABLES
    status,     \* Chunk.status, shared by everybody
    queue,      \* ChunkQueue of each downloader
    avail,      \* AvailableChunkList: the chunks the source is known to have
    num,        \* numCompleted of each execDownloader
    pc,         \* where each dispatcher and each worker is
    hand,       \* chunkIndex of each dispatcher and each worker
    received,   \* chunksReceivedTotal of each execDownloader
    total,      \* Statistics.ChunksReceivedTotal
    valid,      \* ~IsSelf
    upd,        \* the updater goroutine of each peer downloader
    fin,        \* PeerDownloader.Fin of each peer downloader
    ctl,        \* the controller goroutine
    idle,       \* the idle watchdog
    stale,      \* time.Since(LastUpdatedAt) >= flagTransferIdleTimeout
    cancelled,  \* DownloadCtx is done
    completed,  \* MainContext.Completed
    exitCode,   \* MainContext.ExitCode
    main,       \* DownloadFiles itself
    ran         \* Command.RunOnComplete was called

table == <<status, queue, avail, num>>
stats == <<received, total>>
peers == <<valid, upd, fin, ctl>>
timer == <<idle, stale>>
flags == <<cancelled, completed, exitCode>>
tail  == <<main, ran>>
vars  == <<table, pc, hand, stats, peers, timer, flags, tail>>

(***************************************************************************)
(* Parts of the state.                                                     *)
(***************************************************************************)

AllDone == \A c \in Chunks : status[c] = "Done"

\* downloadWorkerReadyCount > 0: the count is raised before the receive and
\* lowered after it, so a worker that has just received still counts.
SomeWorkerReady(d) == \E w \in WorkersOf(d) : pc[w] \in {"recv", "got"}

\* updateCtx is done: its parent was cancelled, or cancelUpdate was called by
\* Fin, for a peer that is this very process, or on a full available list.
UpdateCtxDone(d) ==
    \/ cancelled
    \/ fin[d] # "no"
    \/ ~valid[d]
    \/ upd[d] = "sync" /\ avail[d] = Chunks

\* execDownloader has returned (or was never called).
Joined(d) ==
    \/ pc[d] = "new"
    \/ pc[d] = "closed" /\ \A w \in WorkersOf(d) : pc[w] = "exit"

\* The orders rand.Shuffle may put the elements of S in.
Shuffles(S) == Bijection(1..Cardinality(S), S)

Init ==
    /\ status = [c \in Chunks |-> "Pending"]
    /\ queue \in {q \in [Downloaders -> Shuffles(Chunks) \cup {<< >>}] :
                    \A d \in Downloaders :
                        q[d] \in (IF d \in Local THEN Shuffles(Chunks) ELSE {<< >>})}
    /\ avail = [d \in Downloaders |-> IF d \in Local THEN Chunks ELSE {}]
    /\ num = [d \in Downloaders |-> 0]
    /\ pc = [p \in Procs |-> IF p \in Local THEN "start"
                             ELSE IF p \in Workers THEN "recv" ELSE "new"]
    /\ hand = [p \in Procs |-> NoChunk]
    /\ received = [d \in Downloaders |-> 0]
    /\ total = 0
    /\ valid = [d \in Downloaders |-> TRUE]
    /\ upd = [d \in Downloaders |-> "end"]
    /\ fin = [d \in Downloaders |-> "no"]
    /\ ctl = IF Peers = {} THEN "end" ELSE "run"
    /\ idle = IF UseIdle THEN "run" ELSE "end"
    /\ stale = FALSE
    /\ cancelled = FALSE
    /\ completed = FALSE
    /\ exitCode = 0
    /\ main = "wait"
    /\ ran = FALSE

(***************************************************************************)
(* The dispatcher of downloader d: the main loop of execDownloader.        *)
(***************************************************************************)

\* With no chunk at all the download is complete at once.
Start(d) ==
    /\ pc[d] = "start"
    /\ pc' = [pc EXCEPT ![d] = IF Chunks = {} THEN "cancel" ELSE "loop"]
    /\ UNCHANGED <<table, hand, stats, peers, timer, flags, tail>>

\* Variant of CheckLoop: the context is not looked at.
CheckLoopValidOnly(d) ==
    /\ pc[d] = "loop"
    /\ pc' = [pc EXCEPT ![d] = IF valid[d] THEN "ready" ELSE "stats"]
    /\ UNCHANGED <<table, hand, stats, peers, timer, flags, tail>>

\* IsValid, then DownloadCtx.Err: both only ever turn against the loop, so
\* the two reads may be taken as one.
CheckLoop(d) ==
    /\ pc[d] = "loop"
    /\ pc' = [pc EXCEPT ![d] = IF valid[d] /\ ~cancelled THEN "ready" ELSE "stats"]
    /\ UNCHANGED <<table, hand, stats, peers, timer, flags, tail>>

CheckReady(d) ==
    /\ pc[d] = "ready"
    /\ pc' = [pc EXCEPT ![d] = IF SomeWorkerReady(d) THEN "pop" ELSE "loop"]
    /\ UNCHANGED <<table, hand, stats, peers, timer, flags, tail>>

PopEmpty(d) ==
    /\ pc[d] = "pop"
    /\ queue[d] = << >>
    /\ pc' = [pc EXCEPT ![d] = "loop"]
    /\ UNCHANGED <<table, hand, stats, peers, timer, flags, tail>>

\* Variant of Pop: a chunk in transfer elsewhere counts as transferred.
PopTrusting(d) ==
    /\ pc[d] = "pop"
    /\ queue[d] # << >>
    /\ queue' = [queue EXCEPT ![d] = Tail(@)]
    /\ hand' = [hand EXCEPT ![d] = Head(queue[d])]
    /\ pc' = [pc EXCEPT ![d] = IF status[Head(queue[d])] = "Pending" THEN "cas" ELSE "add"]
    /\ UNCHANGED <<status, avail, num, stats, peers, timer, flags, tail>>

\* queue.Pop, then the switch on GetChunkStatus.
Pop(d) ==
    /\ pc[d] = "pop"
    /\ queue[d] # << >>
    /\ queue' = [queue EXCEPT ![d] = Tail(@)]
    /\ hand' = [hand EXCEPT ![d] = Head(queue[d])]
    /\ pc' = [pc EXCEPT ![d] = CASE status[Head(queue[d])] = "Pending" -> "cas"
                                 [] status[Head(queue[d])] = "Downloading" -> "push"
                                 [] status[Head(queue[d])] = "Done" -> "add"]
    /\ UNCHANGED <<status, avail, num, stats, peers, timer, flags, tail>>

\* Variant of Claim: a plain store instead of the compare-and-swap.
ClaimStore(d) ==
    /\ pc[d] = "cas"
    /\ status' = [status EXCEPT ![hand[d]] = "Downloading"]
    /\ pc' = [pc EXCEPT ![d] = "send"]
    /\ UNCHANGED <<queue, avail, num, hand, stats, peers, timer, flags, tail>>

\* UpdateChunkStatus(chunkIndex, Pending, Downloading) succeeds ...
Claim(d) ==
    /\ pc[d] = "cas"
    /\ status[hand[d]] = "Pending"
    /\ status' = [status EXCEPT ![hand[d]] = "Downloading"]
    /\ pc' = [pc EXCEPT ![d] = "send"]
    /\ UNCHANGED <<queue, avail, num, hand, stats, peers, timer, flags, tail>>

\* ... or another downloader was faster since GetChunkStatus.
ClaimLost(d) ==
    /\ pc[d] = "cas"
    /\ status[hand[d]] # "Pending"
    /\ pc' = [pc EXCEPT ![d] = "push"]
    /\ UNCHANGED <<table, hand, stats, peers, timer, flags, tail>>

\* chanRequest <- chunkIndex meets worker w at <-chanRequest.
Send(d, w) ==
    /\ pc[d] = "send"
    /\ Owner[w] = d
    /\ pc[w] = "recv"
    /\ pc' = [pc EXCEPT ![d] = "loop", ![w] = "got"]
    /\ hand' = [hand EXCEPT ![d] = NoChunk, ![w] = hand[d]]
    /\ UNCHANGED <<table, stats, peers, timer, flags, tail>>

\* AddDownloader reads the downloader's totals, then close(chanRequest).
Leave(d) ==
    /\ pc[d] = "stats"
    /\ total' = total + received[d]
    /\ pc' = [pc EXCEPT ![d] = "closed"]
    /\ UNCHANGED <<table, hand, received, peers, timer, flags, tail>>

(***************************************************************************)
(* queue.PushBack, by a dispatcher that could not claim the chunk and by a *)
(* worker that could not transfer it.                                      *)
(***************************************************************************)
\* Variant of PushBack: the chunk is forgotten.
PushBackForgets(p) ==
    /\ pc[p] = "push"
    /\ hand' = [hand EXCEPT ![p] = NoChunk]
    /\ pc' = [pc EXCEPT ![p] = IF p \in Workers THEN "recv" ELSE "loop"]
    /\ UNCHANGED <<table, stats, peers, timer, flags, tail>>

PushBack(p) ==
    /\ pc[p] = "push"
    /\ queue' = [queue EXCEPT ![Home(p)] = Append(@, hand[p])]
    /\ hand' = [hand EXCEPT ![p] = NoChunk]
    /\ pc' = [pc EXCEPT ![p] = IF p \in Workers THEN "recv" ELSE "loop"]
    /\ UNCHANGED <<status, avail, num, stats, peers, timer, flags, tail>>

(***************************************************************************)
(* CompleteOne, called by a worker after a transfer and by a dispatcher    *)
(* that pops a chunk somebody else has transferred.                        *)
(***************************************************************************)
AddOne(p) ==
    /\ pc[p] = "add"
    /\ num' = [num EXCEPT ![Home(p)] = @ + 1]
    /\ hand' = [hand EXCEPT ![p] = NoChunk]
    /\ pc' = [pc EXCEPT ![p] = "load"]
    /\ UNCHANGED <<status, queue, avail, stats, peers, timer, flags, tail>>

\* Variant of After: the worker's code runs after every CompleteOne.
AfterWorker(p) == "tally"

\* Where CompleteOne returns to.
After(p) == IF p \in Workers THEN "tally" ELSE "loop"

LoadNum(p) ==
    /\ pc[p] = "load"
    /\ pc' = [pc EXCEPT ![p] = IF num[Home(p)] = Cardinality(Chunks)
                               THEN "cancel" ELSE After(p)]
    /\ UNCHANGED <<table, hand, stats, peers, timer, flags, tail>>

DownloadCancel(p) ==
    /\ pc[p] = "cancel"
    /\ cancelled' = TRUE
    /\ pc' = [pc EXCEPT ![p] = "complete"]
    /\ UNCHANGED <<table, hand, stats, peers, timer, completed, exitCode, tail>>

StoreCompleted(p) ==
    /\ pc[p] = "complete"
    /\ completed' = TRUE
    /\ pc' = [pc EXCEPT ![p] = After(p)]
    /\ UNCHANGED <<table, hand, stats, peers, timer, cancelled, exitCode, tail>>

(***************************************************************************)
(* The worker w: downloadWorker.                                           *)
(***************************************************************************)

\* The receive has returned: the worker no longer counts as ready.
Begin(w) ==
    /\ pc[w] = "got"
    /\ pc' = [pc EXCEPT ![w] = "work"]
    /\ UNCHANGED <<table, hand, stats, peers, timer, flags, tail>>

\* RequestDownload and WriteChunk succeed: SetChunkStatusDone.
Succeed(w) ==
    /\ pc[w] = "work"
    /\ status' = [status EXCEPT ![hand[w]] = "Done"]
    /\ pc' = [pc EXCEPT ![w] = "add"]
    /\ UNCHANGED <<queue, avail, num, hand, stats, peers, timer, flags, tail>>

\* One of them fails: SetChunkStatusPending, before the chunk is queued again.
Fail(w) ==
    /\ pc[w] = "work"
    /\ status' = [status EXCEPT ![hand[w]] = "Pending"]
    /\ pc' = [pc EXCEPT ![w] = "push"]
    /\ UNCHANGED <<queue, avail, num, hand, stats, peers, timer, flags, tail>>

\* LastUpdatedAt.Store and the statistics, after CompleteOne.
Tally(w) ==
    /\ pc[w] = "tally"
    /\ received' = [received EXCEPT ![Owner[w]] = @ + 1]
    /\ stale' = FALSE
    /\ pc' = [pc EXCEPT ![w] = "recv"]
    /\ UNCHANGED <<table, hand, total, peers, idle, flags, tail>>

\* The channel is closed.
Exit(w) ==
    /\ pc[w] = "recv"
    /\ pc[Owner[w]] = "closed"
    /\ pc' = [pc EXCEPT ![w] = "exit"]
    /\ UNCHANGED <<table, hand, stats, peers, timer, flags, tail>>

(***************************************************************************)
(* The updater goroutine of peer downloader d.  A request that fails       *)
(* changes nothing and is tried again on the next tick.                    *)
(***************************************************************************)

\* setIsSelf: the peer is another process ...
IsOther(d) ==
    /\ upd[d] = "self"
    /\ valid[d]
    /\ upd' = [upd EXCEPT ![d] = "verify"]
    /\ UNCHANGED <<table, pc, hand, stats, valid, fin, ctl, timer, flags, tail>>

\* ... or this one: the downloader stops.
IsSelf(d) ==
    /\ "self" \in Faults
    /\ upd[d] = "self"
    /\ valid' = [valid EXCEPT ![d] = FALSE]
    /\ UNCHANGED <<table, pc, hand, stats, upd, fin, ctl, timer, flags, tail>>

\* verifyChecksum: the peer has the same manifest ...
SameManifest(d) ==
    /\ upd[d] = "verify"
    /\ upd' = [upd EXCEPT ![d] = "sync"]
    /\ UNCHANGED <<table, pc, hand, stats, valid, fin, ctl, timer, flags, tail>>

\* ... or another one: the whole download is given up.
OtherManifest(d) ==
    /\ "mismatch" \in Faults
    /\ upd[d] = "verify"
    /\ exitCode' = 1
    /\ cancelled' = TRUE
    /\ UNCHANGED <<table, pc, hand, stats, peers, timer, completed, tail>>

\* Variant of UpdateAvailable: markChunkAsReady is always true.
UpdateAvailableAll(d, S) ==
    /\ upd[d] = "sync"
    /\ avail' = [avail EXCEPT ![d] = @ \cup S]
    /\ \E q \in Shuffles(S) : queue' = [queue EXCEPT ![d] = @ \o q]
    /\ UNCHANGED <<status, num, pc, hand, stats, peers, timer, flags, tail>>

\* UpdatePeerAvailableList: the peer reports the chunks in S (all of them
\* when it has completed); those not known yet are queued in random order.
UpdateAvailable(d, S) ==
    /\ upd[d] = "sync"
    /\ avail' = [avail EXCEPT ![d] = @ \cup S]
    /\ \E q \in Shuffles(S \ avail[d]) : queue' = [queue EXCEPT ![d] = @ \o q]
    /\ UNCHANGED <<status, num, pc, hand, stats, peers, timer, flags, tail>>

UpdateEnd(d) ==
    /\ upd[d] # "end"
    /\ UpdateCtxDone(d)
    /\ upd' = [upd EXCEPT ![d] = "end"]
    /\ UNCHANGED <<table, pc, hand, stats, valid, fin, ctl, timer, flags, tail>>

(***************************************************************************)
(* The controller: Controller.Run with PeerDownloaders.Add and Remove.     *)
(***************************************************************************)
Known == {d \in Peers : pc[d] # "new" /\ fin[d] = "no"}

\* reconcile: NewPeerDownloader and execDownloader for the new peers; Fin is
\* called for the ones that left, and reconcile waits for it (FinDone).
Reconcile(want) ==
    /\ \A d \in Peers : fin[d] # "wait"
    /\ want \cap {d \in Peers : fin[d] = "done"} = {}
    /\ pc' = [p \in Procs |-> IF p \in want \ Known THEN "start" ELSE pc[p]]
    /\ upd' = [d \in Downloaders |-> IF d \in want \ Known THEN "self" ELSE upd[d]]
    /\ fin' = [d \in Downloaders |-> IF d \in Known \ want THEN "wait" ELSE fin[d]]
    /\ UNCHANGED <<table, hand, stats, valid, timer, flags, tail>>

\* With a static peer list, without "leave", no peer ever leaves it.
Poll(want) ==
    /\ ctl = "run"
    /\ "leave" \in Faults \/ Known \subseteq want
    /\ Reconcile(want)
    /\ UNCHANGED ctl

\* DownloadCtx is done: stopAll.
StopAll ==
    /\ ctl = "run"
    /\ cancelled
    /\ Reconcile({})
    /\ ctl' = "stopping"

\* Fin: updateDone is closed, and only now the dispatcher is told to stop.
FinDone(d) ==
    /\ fin[d] = "wait"
    /\ upd[d] = "end"
    /\ fin' = [fin EXCEPT ![d] = "done"]
    /\ valid' = [valid EXCEPT ![d] = FALSE]
    /\ UNCHANGED <<table, pc, hand, stats, upd, ctl, timer, flags, tail>>

\* Variant of CtlEnd: PeerDownloaders.Fin does not wait.
CtlEndNoWait ==
    /\ ctl = "stopping"
    /\ \A d \in Peers : fin[d] # "wait"
    /\ ctl' = "end"
    /\ UNCHANGED <<table, pc, hand, stats, valid, upd, fin, timer, flags, tail>>

\* PeerDownloaders.Fin: wait for every execDownloader, removed ones included.
CtlEnd ==
    /\ ctl = "stopping"
    /\ \A d \in Peers : fin[d] # "wait" /\ Joined(d)
    /\ ctl' = "end"
    /\ UNCHANGED <<table, pc, hand, stats, valid, upd, fin, timer, flags, tail>>

(***************************************************************************)
(* The idle watchdog and the outside world.                                *)
(***************************************************************************)

\* flagTransferIdleTimeout has passed since LastUpdatedAt.
TimePasses ==
    /\ idle = "run"
    /\ ~stale
    /\ stale' = TRUE
    /\ UNCHANGED <<table, pc, hand, stats, peers, idle, flags, tail>>

\* The ticker branch of the select.  When the context is done as well, the
\* select may still take this branch.
IdleTimeout ==
    /\ idle = "run"
    /\ stale
    /\ idle' = "fired"
    /\ exitCode' = 1
    /\ cancelled' = TRUE
    /\ UNCHANGED <<table, pc, hand, stats, peers, stale, completed, tail>>

IdleEnd ==
    /\ idle = "run"
    /\ cancelled
    /\ idle' = "end"
    /\ UNCHANGED <<table, pc, hand, stats, peers, stale, flags, tail>>

\* A signal, the seed idle timeout or a failed server cancels the parent of
\* DownloadCtx.
Interrupt ==
    /\ "interrupt" \in Faults
    /\ ~cancelled
    /\ cancelled' = TRUE
    /\ UNCHANGED <<table, pc, hand, stats, peers, timer, completed, exitCode, tail>>

(***************************************************************************)
(* DownloadFiles after wg.Wait.                                            *)
(***************************************************************************)
AllJoined ==
    /\ ctl = "end"
    /\ \A d \in Local : Joined(d)
    /\ idle # "run"

CompleteTransfer ==
    /\ main = "wait"
    /\ AllJoined
    /\ main' = "verify"
    /\ UNCHANGED <<table, pc, hand, stats, peers, timer, flags, ran>>

\* CompleteTransfer returns an error: the process ends with exit code 1.
CompleteTransferFails ==
    /\ "commit" \in Faults
    /\ main = "wait"
    /\ AllJoined
    /\ main' = "returned"
    /\ cancelled' = TRUE
    /\ exitCode' = 1
    /\ UNCHANGED <<table, pc, hand, stats, peers, timer, completed, ran>>

VerifyTransfer(ok) ==
    /\ main = "verify"
    /\ ok \/ "verify" \in Faults
    /\ main' = "command"
    /\ exitCode' = IF ok THEN exitCode ELSE 1
    /\ UNCHANGED <<table, pc, hand, stats, peers, timer, cancelled, completed, ran>>

RunOnComplete ==
    /\ main = "command"
    /\ main' = "returned"
    /\ ran' = TRUE
    /\ UNCHANGED <<table, pc, hand, stats, peers, timer, flags>>

\* DownloadFiles has returned: nothing of it is left running.
Terminated == main = "returned" /\ UNCHANGED vars

CompleteOne(p) == AddOne(p) \/ LoadNum(p) \/ DownloadCancel(p) \/ StoreCompleted(p)

Dispatcher(d) ==
    \/ Start(d) \/ CheckLoop(d) \/ CheckReady(d) \/ PopEmpty(d) \/ Pop(d)
    \/ Claim(d) \/ ClaimLost(d) \/ PushBack(d) \/ CompleteOne(d) \/ Leave(d)
    \/ \E w \in Workers : Send(d, w)

Worker(w) ==
    \/ Begin(w) \/ Succeed(w) \/ Fail(w) \/ PushBack(w) \/ CompleteOne(w)
    \/ Tally(w) \/ Exit(w)

Updater(d) ==
    \/ IsOther(d) \/ IsSelf(d) \/ SameManifest(d) \/ OtherManifest(d)
    \/ \E S \in SUBSET Chunks : UpdateAvailable(d, S)
    \/ UpdateEnd(d)

Controller ==
    \/ \E want \in SUBSET Peers : Poll(want)
    \/ StopAll \/ CtlEnd
    \/ \E d \in Peers : FinDone(d)

Watchdog == TimePasses \/ IdleTimeout \/ IdleEnd

Main ==
    \/ CompleteTransfer \/ CompleteTransferFails \/ RunOnComplete
    \/ \E ok \in BOOLEAN : VerifyTransfer(ok)

Next ==
    \/ \E d \in Downloaders : Dispatcher(d)
    \/ \E w \in Workers : Worker(w)
    \/ \E d \in Peers : Updater(d)
    \/ Controller \/ Watchdog \/ Main \/ Interrupt \/ Terminated

Spec == Init /\ [][Next]_vars

(***************************************************************************)
(* Safety.                                                                 *)
(***************************************************************************)
DispatcherPC ==
    {"new", "start", "loop", "ready", "pop", "cas", "push", "send", "add",
     "load", "cancel", "complete", "stats", "closed"}
WorkerPC ==
    {"recv", "got", "work", "push", "add", "load", "cancel", "complete",
     "tally", "exit"}

\* Every variable has its type; a dispatcher is never in a worker's code.
TypeOK ==
    /\ status \in [Chunks -> {"Pending", "Downloading", "Done"}]
    /\ queue \in [Downloaders -> Seq(Chunks)]
    /\ avail \in [Downloaders -> SUBSET Chunks]
    /\ num \in [Downloaders -> Nat]
    /\ pc \in [Procs -> DispatcherPC \cup WorkerPC]
    /\ \A d \in Downloaders : pc[d] \in DispatcherPC
    /\ \A w \in Workers : pc[w] \in WorkerPC
    /\ hand \in [Procs -> Chunks \cup {NoChunk}]
    /\ received \in [Downloaders -> Nat]
    /\ total \in Nat
    /\ valid \in [Downloaders -> BOOLEAN]
    /\ upd \in [Downloaders -> {"self", "verify", "sync", "end"}]
    /\ fin \in [Downloaders -> {"no", "wait", "done"}]
    /\ ctl \in {"run", "stopping", "end"}
    /\ idle \in {"run", "fired", "end"}
    /\ stale \in BOOLEAN
    /\ cancelled \in BOOLEAN
    /\ completed \in BOOLEAN
    /\ exitCode \in {0, 1}
    /\ main \in {"wait", "verify", "command", "returned"}
    /\ ran \in BOOLEAN

\* Process p is responsible for the transfer of chunk c: its dispatcher won
\* the compare-and-swap and the outcome is not known yet.
Claims(p, c) == hand[p] = c /\ pc[p] \in {"send", "got", "work"}

\* A chunk is ChunkStatusDownloading exactly while one process, and no other,
\* is transferring it: two downloaders never write the same chunk at the same
\* time, and no chunk is left marked Downloading with nobody working on it,
\* whatever fails, is removed or is cancelled.
ExclusiveClaim ==
    \A c \in Chunks :
        /\ status[c] = "Downloading" <=> \E p \in Procs : Claims(p, c)
        /\ \A p, q \in Procs : Claims(p, c) /\ Claims(q, c) => p = q

\* The chunks downloader d has counted in numCompleted: those it learnt of
\* that are neither in its queue nor in the hands of its goroutines.
InHand(d) == {hand[p] : p \in {r \in Procs : Home(r) = d}}
Counted(d) == (avail[d] \ Range(queue[d])) \ InHand(d)

\* numCompleted is the number of those chunks, and each of them really is
\* transferred: a chunk is queued once per downloader, travels between the
\* queue, the dispatcher and the workers without being lost or duplicated,
\* and is counted once.
CountSound ==
    \A d \in Downloaders :
        /\ num[d] = Cardinality(Counted(d))
        /\ \A c \in Counted(d) : status[c] = "Done"

\* Every transferred chunk was transferred once: the chunks the workers have
\* added to the statistics, with those they are about to add, are as many as
\* the chunks marked Done.
Tallied == UNION {{d} \X (1 .. received[d]) : d \in Downloaders}
CountingPC == {"add", "load", "cancel", "complete", "tally"}
Counting == {w \in Workers : pc[w] \in CountingPC}
Transferred == {c \in Chunks : status[c] = "Done"}
TransferredOnce == Cardinality(Tallied) + Cardinality(Counting) = Cardinality(Transferred)

\* The process declares itself completed (and serves every chunk to its
\* peers) only when every chunk has been transferred.
CompletedSound == completed => AllDone

\* Once wg.Wait has returned, no goroutine of DownloadFiles is left that
\* could write to the destination while it is committed and verified, not
\* even one of a peer that left the peer list long ago.
NothingOutlivesJoin ==
    main # "wait" =>
        /\ \A p \in Procs : pc[p] \in {"new", "closed", "exit", "recv"}
        /\ \A d \in Downloaders : upd[d] = "end" /\ fin[d] # "wait"
        /\ \A c \in Chunks : status[c] # "Downloading"

(***************************************************************************)
(* What makes the invariants above inductive.                              *)
(***************************************************************************)

\* A process has a chunk in hand exactly at these places.
Holding == {"cas", "push", "send", "got", "work", "add"}
HandOK == \A p \in Procs : hand[p] \in Chunks <=> pc[p] \in Holding

\* A queue holds no chunk twice.
NoRepeat(s) == \A i, j \in 1..Len(s) : s[i] = s[j] => i = j

\* Within one downloader a chunk is in one place: in the queue, once, or in
\* the hand of one process.
OnePlace ==
    /\ \A d \in Downloaders : NoRepeat(queue[d]) /\ Range(queue[d]) \subseteq avail[d]
    /\ \A p \in Procs : hand[p] \in Chunks => hand[p] \in avail[Home(p)] \ Range(queue[Home(p)])
    /\ \A p, q \in Procs :
          Home(p) = Home(q) /\ hand[p] \in Chunks /\ hand[p] = hand[q] => p = q

\* CompleteOne is called for transferred chunks only, and its last steps are
\* taken only when there is nothing left to transfer.
CompleteOneOK ==
    \A p \in Procs :
        /\ pc[p] = "add" => status[hand[p]] = "Done"
        /\ pc[p] \in {"cancel", "complete"} => AllDone

IInv ==
    /\ TypeOK /\ HandOK
    /\ ExclusiveClaim /\ OnePlace /\ CountSound
    /\ CompleteOneOK /\ CompletedSound

\* A transferred chunk stays transferred, and a chunk becomes transferred or
\* pending again only from Downloading.
StatusSteps ==
    [][\A c \in Chunks :
        /\ status[c] = "Done" => status'[c] = "Done"
        /\ status[c] = "Pending" => status'[c] # "Done"]_status

\* The shared chunk table and MainContext.Completed implement ChunkBoard.
Board == INSTANCE ChunkBoard WITH
    claimed <- {c \in Chunks : status[c] = "Downloading"},
    done    <- {c \in Chunks : status[c] = "Done"}
BoardSpec == Board!Spec

(***************************************************************************)
(* Liveness.  Every goroutine keeps running: weak fairness of each of its  *)
(* steps.  The selects on a context and a ticker choose at random between  *)
(* ready branches, so the branch of a finished context is taken in the     *)
(* end.  The requests to peers have timeouts: a transfer ends, one way or  *)
(* the other.                                                              *)
(***************************************************************************)
Goroutines ==
    /\ \A d \in Downloaders : WF_vars(Dispatcher(d))
    /\ \A w \in Workers : WF_vars(Worker(w))
    /\ \A d \in Peers : WF_vars(UpdateEnd(d)) /\ WF_vars(FinDone(d))
    /\ WF_vars(StopAll) /\ WF_vars(CtlEnd)
    /\ WF_vars(IdleEnd)
    /\ WF_vars(Main)

FairSpec == Spec /\ Goroutines

\* The local source, asked for chunks again and again, delivers in the end.
\* Nothing of the kind is assumed of a peer: it may fail for ever and stay listed.
Delivery == \A w \in Workers : Owner[w] \in Local => SF_vars(Succeed(w))

\* A chunk that is free again and again while the local downloader has it queued
\* or in hand is claimed for the local source at some time.  A peer's worker that
\* failed releases the chunk and sleeps for 200 ms (downloader.go:268-273); the
\* local dispatcher looks at its queue every millisecond, and a chunk it cannot
\* have goes behind the others.
Chance ==
    \A d \in Local, c \in Chunks :
        []<>(/\ status[c] = "Pending" /\ ~cancelled
             /\ c \in Range(queue[d]) \/ hand[d] = c)
            => []<><<Claim(d) /\ hand[d] = c>>_vars

\* Something other than a full count has cancelled the download: a signal, the
\* idle timeout or a peer with another manifest.
GivenUp == cancelled /\ ~completed /\ \A p \in Procs : pc[p] # "complete"

\* Once the download is cancelled, for whatever reason and wherever every
\* goroutine is at that moment, DownloadFiles returns: nobody waits for ever
\* on the channel, on updateDone or on a wait group.
CancelReturns == cancelled ~> (main = "returned")

\* With a local source that delivers, the transfer completes and DownloadFiles
\* returns unless it is cancelled from outside, whatever the peers do: they come,
\* go, turn out to be this process, take chunks away from the local downloader
\* and fail, once or for ever.
EventuallyCompleted ==
    Delivery /\ Chance => <>((completed /\ main = "returned") \/ GivenUp)

(***************************************************************************)
(* What the documentation says, and the code does not do.                  *)
(***************************************************************************)

\* README.md:92: the process exits after all transfers complete.
AllDoneReturns == AllDone ~> (main = "returned")
================================================================================
