# A TLA+ model of p2pcp

p2pcp copies a directory tree to many hosts. Every host runs one process, which
is a client of every other one and a server for them: the files are cut into
chunks, a process fetches chunks from its local source and from whichever peers
have them, and serves the chunks it has. This directory models how a process
starts, gets its manifest, prepares its destination, decides what is fetched from
where and when it is complete, what is told to peers and to the user's commands,
and how it ends; TLC checks the models on small instances, and TLAPS proves every
safety property the runs check, and the refinement, for every size.

Paths below are relative to `src/src/` of the repository.

## Inventory

| Component | State | Operations | What it interacts with | What makes it correct |
|---|---|---|---|---|
| Download engine (`downloader.go`) | `numCompleted`, ready count, request channel, queue of each downloader; `DownloadCtx`, `Completed`, `ExitCode` | `DownloadFiles`, `execDownloader` (dispatcher, workers, `CompleteOne`), idle watchdog | chunk table, controller, statistics, commands | every chunk transferred once, completion declared only and always when it is true, nothing left running afterwards |
| Chunk table (`transfer/chunk_manager.go`, `types/chunk.go`) | status and `updatedAt` of each chunk, cached checksums | compare-and-swap, set Done / Pending, list Done chunks since | all downloaders, the HTTP server | one writer per chunk, Done is final |
| Chunk queue (`transfer/chunk_queue.go`) | a FIFO per downloader | push back, push shuffled, pop | dispatcher, workers, updater | no chunk lost or doubled |
| Peer downloader (`peer_downloader.go`) | `IsSelf`, available list, `LastUpdatedAt`, update context | updater goroutine, `Fin` | peer's HTTP server, engine | stops whenever it is told to |
| Controller (`peers/controller.go`) | known peers | `Run`, `reconcile`, `stopAll` | providers, `PeerDownloaders` | starts and stops each peer once |
| Chunk writer (`ChunkManager.WriteChunk`) | `remainingChunkCount` of each file | write ranges, count, report, check | storage, commands | Done chunks hold the source's bytes; each file reported once, when written |
| Chunk layout (`types.BuildChunks`) | local | cut files into ranges | manifest | an exact partition within the limits |
| Manifest (`transfer/manifest.go`) | files, directories, checksum | from storage, from peers | providers, HTTP | peers agree on the chunks |
| Storage (`storage/local_storage.go`), commit and verification (`transfer/transfer.go`) | the file tree | prepare, write, commit, verify, walk | engine | the tree equals the source's |
| HTTP server (`http_server.go`) | `LastSentAt` | `/chunk`, `/chunk/{i}`, `/completed`, `/manifest` ... | chunk table | serves only what is written |
| Lifecycle (`main.go`) | contexts, exit code | wait for a host, start, signals, idle timeouts, `Fin` | everything | exit code tells the outcome |
| Commands (`utils/command.go`), registry (`peers/registry.go`), statistics | channels, counters | run, stop, heartbeat | lifecycle | no command lost, clean stop |
| Providers, HTTP client, encoders, logger, atomics | none or trivial | look-ups, requests | | |

The hard behaviour is concurrent: many downloaders claim chunks from one table;
a worker fails while another downloader waits for its chunk; peers leave while
their workers write; a poll meets a chunk that is being marked; the idle timeout
meets the last chunk; a failed attempt has done part of its work. Around the
engine it is a matter of order and of time: contexts are cancelled before exit
codes are stored, commands are sent while everything winds down, a run dies in
the middle of a tree and is repeated, a peer comes back as another process.
`PROJECT.json` lists these hazards with their lines.

## Modules

| Module | Models |
|---|---|
| `ChunkBoard` | what the chunk table promises (abstract) |
| `ChunkTransfer` | the transfer inside `DownloadFiles`, all its goroutines |
| `ChunkTransferTypes`, `ChunkTransferProofs` | proofs about it |
| `AvailableSync`, `AvailableSyncProofs` | how a caller learns what a peer has |
| `WriteChunk`, `WriteChunkProofs` | writing chunks, counting and reporting files |
| `BuildChunks`, `BuildChunksProofs` | the layout algorithm |
| `Commands` | the channel, the runner and the processes of the user's commands |
| `Process`, `ProcessProofs` | a whole process, composed with `Commands` (EXTENDS) |
| `Storage`, `StorageProofs` | set-up, commit and verification of the destination |
| `Exchange`, `ExchangeProofs` | several processes: manifests, comparison, chunks, restarts |
| `MCChunkTransfer`, `MCWriteChunk`, `MCBuildChunks`, `MCProcess`, `MCStorage`, `MCExchange` | instances for TLC |

The modules meet where one takes as a step what another shows in detail.
`Process` sees `DownloadFiles` from outside: that it returns once it is cancelled,
with no worker left that could report a file, is `CancelReturns` and
`NothingOutlivesJoin` of `ChunkTransfer`. `ChunkTransfer` takes set-up, commit and
verification as steps, which are `Storage`. `Exchange` takes a chunk as written or
not, which is `WriteChunk`, and the layout of one-byte files, which is
`BuildChunks` for them.

Operators called "Variant of X" are X with a plausible mistake in it. No
specification uses them; they are there to show that the properties notice.

### ChunkTransfer

One process. A state has the shared table (`status`), a queue, an available
list and a count per downloader, and a program counter `pc` and a chunk in hand
for every dispatcher and worker. One action is one step between two accesses to
shared state: `CompleteOne` is four (`AddOne`, `LoadNum`, `DownloadCancel`,
`StoreCompleted`), a claim is a pop with a look at the status, then the
compare-and-swap, then the rendezvous on the channel. Where two reads are taken
as one, a comment says why. A downloader is an instance of `PeerDownloader` or
the `LocalDownloader`: a host that leaves and comes back is another instance.
The result of a request or of a peer-list poll is any result; a request that
fails in the updater changes nothing. `Faults` selects which outside events
happen: an interrupt (signal, seed idle timeout, server failure), a peer that is
this process, a peer with another manifest, peers that leave, a failing commit,
a failing verification. Chunks have no content here; that is `WriteChunk`.
The model starts after `SetupTransfer` has succeeded (see `Storage`).

### AvailableSync

The peer's workers finish chunks (read the clock, mark Done, stamp) while
its `/chunk` handler reads the clock, looks at `Completed`, and scans. The
caller has one request at a time, so a time matters only by its rank relative to
the caller's `LastUpdatedAt` and the request's `Timestamp`: three ranks represent
all clocks, and the model is finite without a bound on time. Equal clock
readings are not distinguished from earlier ones. The clock is that of one host:
both times are read by the peer.

### WriteChunk

The chunks of a layout are written at the same time, each by one worker (this is
`ExclusiveClaim`). Bytes are the source's ("good") or not ("bad"); a write that
fails may leave the range torn. The hash tells whether any byte of the attempt
was bad. `MaxAttempts` bounds the retries.

### BuildChunks

One action per turn of the loops. Files are their places in the sorted order and
have a positive size: empty files are `EmptyFileEntry`s. `-chunk-size` is
positive, as `MainContext.Init` checks (main.go:162). A byte is a pair of a file
and an offset, so that what the chunks must be is said with sets and an order,
and not with another algorithm.

### Commands and Process

`g` says where each goroutine is: main, the server, the download, the signal
loop, the controller of the peers, the idle watchdog and the registry's loop. `ctxDone` holds the cancelled
contexts (`DownloadCtx` is a child of ctx). The failures of every part (wait-host,
`Init`, the first heartbeat, listening, serving, set-up or commit, verification,
a peer with another manifest, the idle timeout) are actions, and where the code
cancels before it stores the exit code these are two steps. `Commands` keeps the
channel of capacity 1 with the callers blocked on it, the receiver, and the
goroutines of the commands; its wait group is a number, not the size of a set.
A panic of any goroutine ends the process ("crashed"): a ticker without a
positive interval in the registry, the controller or an updater, an index from a
peer that was replaced (`swapped`), or a command sent after `Stop`. A signal
before `signal.Notify` or after `signal.Stop` kills the process ("killed"). `stopped`, `failures`, `issued` and `ended` are history. Time is
abstract: `quiet` says that nobody was answered for `-seed-idle-timeout`, and a
watchdog or command timeout may fire at any moment.

### Storage

A state is a tree of nodes with a type (directory, file, special file, dangling
link, nothing), owner permissions (all, without writing, none), a size, whether
it is reached through a symbolic link, and whether `open(O_CREATE)` succeeds
where the rest does not settle it (`opens`): a dangling link's target may be in a
directory that is not there, or the link may loop; a device can be opened, a
socket cannot. A FIFO, on which the open blocks, counts as failing. The system calls are
operators that give the tree after the call or `Failed`; `PrepareEntry` and
`CommitEntry` are built from them as in the code, errors that are ignored
included. The tree of names is a constant: `Parent` is the directory of an entry,
`Above` all directories on the way to it, `Place` its number in the order of the
walk, a directory after its contents. `rest` is what the loops under way have
before them; the entry they take is the one that precedes the others, list by
list (`SetupRank`, `CommitRank`) and in the order of the walk within a list. So
no definition is recursive, and TLC evaluates the assumptions that tie `Above`
and `Place` to `Parent`. `Rerun` is possible in every state: it stands for a run that ended as well
as for one that was killed there. `Transferred(W)` is the end of a download that
has written the files in W, all of them or fewer; `written` adds these up over the
runs (history). Contents are not part of a node: no system call of these
functions reads them. The process owns the tree and is not root.

### Exchange

Each address has at most one process, with a command line, a manifest, chunks
and the chunks it has. `Listing` gives every source tree its list of files (name,
size, permissions); two trees may have the same list and other bytes. A hash is
what it is a hash of: the manifest's of the file list and the chunks, not of the
bytes. The content of a chunk is the tree it came from and an interval of its
sorted files, so that bytes of another tree, and of the right tree at the wrong
place, can be told from the right ones. A look-up of peers gives any set of
addresses, the process's own included; a failing one, or one the timeout falls
into, gives none. A downloader is kept while its peer is down, as the code does
for a host that stays on the list. `crossed` marks (history) a process that
fetched from one it never compared, or from one that had.

## Runs

| Run | Shows |
|---|---|
| `transfer_safety` | two chunks, a local source with one worker, a peer with two: `ExclusiveClaim`, `CountSound`, `TransferredOnce`, `CompletedSound`, `StatusSteps`, and that the table implements `ChunkBoard`, with failures, interrupts and the peer leaving |
| `transfer_stop` | one chunk, a local source and a peer, every fault and the watchdog: from every state a cancelled download returns (`CancelReturns`), and no goroutine of `DownloadFiles` survives the join (`NothingOutlivesJoin`); unless it is cancelled from outside, a transfer with a local source completes and returns whatever the peer does, also if it stays listed, takes the chunk and fails for ever (`EventuallyCompleted`) |
| `sync` | three chunks: what is reported exists; a chunk is missed in one race only; after completion everything becomes known |
| `write_safety` | three chunks, two files, two attempts: verified content, one report per file, no early report without a retry |
| `build_chunks` | all lists of up to three files of up to five bytes, chunk sizes 1 to 4, file limits 0 (none) to 3: an exact partition into full chunks with right counts, and termination |
| `process` | a downloader and a seeder: exit code 1 exactly if something failed; code 0 without a request to stop means a complete transfer; every command given has run to its end; a panic has one of four causes (`CrashHasCause`), and none is a command sent after `Stop`; the process ends when ctx is cancelled and, with `-exit-complete`, after completion |
| `storage` | set-up fails exactly for what `InTheWay` lists, and otherwise every file can be written; commit never locks itself out; a destination survives runs that die anywhere; which trees `VerifyTransfer` accepts |
| `exchange` | compared processes have the same chunks; a Done chunk holds what some source with the listed files has at that place, unless bytes came by a process that was started after the comparison; nobody gives up past a peer of its look-up that had a manifest all through the round; nobody waits for ever |

Bounds. Two chunks are needed for a count to be wrong in part, for a queue to
have an order and for two transfers to be under way; three processes of two downloaders are needed for
claims to race within and across downloaders. `transfer_stop` gives up the
second chunk and a worker for all the faults and liveness. In `write_safety` chunk 2
shares each of its files with another chunk, which is what it takes for one
attempt to affect two counts. In `build_chunks` five bytes and chunk sizes up to
four give files below, at, above and several times the limit, and chunks that
begin in the middle of one. `process` has one file and its command next to the
completion command, the two it takes for a caller to be blocked on the channel;
the transfer idle timeout meets a process that ends on completion and one that
stays, the seed idle timeout the one that stays, the registry and wait-host a
seeder and downloaders, and every interval is once too short. In `storage` a directory
with a directory in it, files and a link meet every type of node in their
places, those that can and cannot be opened; `MaxRuns` is three: a run that dies, one that finds its remains, and one
after that. In `exchange` `MaxStarts` lets the seeder be started twice, with
either source, and the two others once; two files per source and chunks of one or two
files make layouts agree and differ. Of the three sources two have the same file
list: a relay with one of them and a seeder with the other compare equal, and the
peer gets chunks of both.

Fairness. Each goroutine that can take a step eventually takes one (weak
fairness of each dispatcher, worker, updater exit, `Fin`, controller stop and of
`DownloadFiles`): the Go scheduler is preemptive, and `select` chooses at random
among ready branches, so the branch of a finished context is taken after
finitely many ticks. Transfers end because requests have timeouts. Only
`EventuallyCompleted` assumes more, and of the local source alone: that reading
and writing a chunk again and again succeeds in the end (`Delivery`, strong fairness of
`Succeed` of its workers), and that a chunk which is free again and again
while its downloader has it queued or in hand is claimed for it at some time
(`Chance`). Both are premises of the property and not of the run's specification. The second is a matter of timing and not
of the scheduler: a peer's worker that failed sleeps for 200 ms with the chunk
free, and the local dispatcher looks every millisecond. Without it a peer that
fails for ever could take every chunk again at once. Only the
liveness of `AvailableSync` assumes that a repeated poll is answered in the end.
Peers are never assumed to appear, to report or to deliver anything.

In `Process` each goroutine that can go on does (weak fairness), the registry's
select takes the finished context in the end although ticks may be ready every
time (strong fairness: Go's select is random), and the same holds for a caller
that competes with others for room in the channel (Go queues them). Requests,
Shutdown and commands have timeouts. That files arrive, that anything completes,
that signals come or commands exit by themselves is not assumed. In `Exchange`
requests return, and a timeout that has passed is taken at the end of some round
although the pause may be over as well (strong fairness of `GiveUp`).

### Where the code and its documentation differ

| Run | What happens |
|---|---|
| `transfer_split` | Completion is decided by one downloader's own count. Two peers that have a part each can deliver every chunk without any count reaching the total: the process neither completes nor returns until the idle timeout. |
| `process_idle` | The idle timeout stores exit code 1 and cancels the download only. `DownloadFiles` returns without an error, and without `-exit-complete` the process goes on serving for ever. |
| `write_report` | A retried chunk counts its ranges again: the per-file command runs with a range of the file unwritten. |
| `storage_verify` | `VerifyTransfer` compares sizes and permissions, no hashes, although README.md:100 says "Verify hashes after all transfers" and main.go:49 "comparing hash values". Files have their sizes from `SetupTransfer` on and `CompleteTransfer` sets the permissions after a cancelled download too, so a tree whose files were never written is accepted. |

Seen in the code, without a run:

- the completion command also runs after a cancelled, incomplete download
  (downloader.go:184; main.go:50 says "after all files complete");
- the watchdog may take a tick with the context done, so that a complete transfer
  ends with exit code 1 (downloader.go:151); `Process` allows it;
- a chunk that is being marked while a poll reads the clock is not reported by any
  later poll before completion (chunk_manager.go:168): `raced` of `AvailableSync`;
- the manifest's checksum covers files and chunks, not directories, links and
  empty files, and not the contents (manifest.go:190): sources with equal lists
  and other bytes compare equal and mix, which `DoneIsRight` allows;
- an error of `Walk` is lost (manifest.go:128, 143), so a source that could not be
  read to the end gives a shorter manifest without an error; `StartSource` allows it;
- a peer is compared once (peer_downloader.go:99). What is fetched from one that was
  started again later is not checked against anything, and its chunk indexes are
  used unchecked (peer_downloader.go:238): `crossed` and `swapped`;
- `-sync-interval` and `-peer-list-poll-interval` are not validated, and 0 panics
  (peer_downloader.go:64, controller.go:40); a heartbeat interval below a second is
  truncated to 0 and panics as well (registry.go:66, 92);
- a look-up that fails asks nobody in its round (manifest.go:161), so a process may
  give up while a peer serves the manifest;
- the seed idle timeout also ends a process that is still downloading, with exit
  code 0 (main.go:373);
- the comment at local_storage.go:141 speaks of reverse order; the code goes in walk
  order, which already has a directory after its contents, and reversing it would
  break `CommitReachesAll` (this is a variant the run rejects). The same order
  makes `SetupTransfer` fail on a closed directory with a directory in it
  (`InTheWay`);
- a signal after `signal.Stop` kills the process while its commands, which have a
  process group of their own, run on;
- the per-file command never runs for empty files, which have no chunk; and the
  totals given to the completion command are added up when a dispatcher leaves,
  before its workers are joined, so the last chunk may be missing in them.

## Proofs

All theorems are for any constants that satisfy the assumptions of the modules,
which TLC evaluates on the instances of the runs. Every invariant and action
property of a passing run is a theorem; `theorems` of `PROJECT.json` lists them.
The inductive invariants were checked with TLC before they were proved.

`ChunkTransfer`. Assumptions: finitely many chunks; every worker has an owner.
There may be any number of downloaders and workers. `TypeCorrect` is inductive by
itself. The others rest on `IInv`. `ExclusiveClaim`
needs to know which program points hold a chunk (`HandOK`), or a step could
release a chunk nobody holds. `CountSound` says that `numCompleted` is the number
of the chunks a downloader knows that are neither queued nor in hand; it is
inductive only with `OnePlace`: in one downloader a chunk is in the queue once or
in one hand, never both. `CompletedSound` then follows from `CompleteOneOK`: when the count is the
number of chunks, every chunk is counted, and a counted chunk is Done. The
refinement of `ChunkBoard` follows step by step from `IInv`. `TransferredOnce`
balances two sets, the chunks counted so far (a place in the total of a downloader
for each) and the workers about to count one, against the Done chunks: `Succeed` adds to the
last two, and the chunk was not Done, because a claimed chunk is Downloading;
`Tally` moves one from a set to the other; no other step touches them. `NothingOutlivesJoin` rests on `JoinInv`: the
controller ends only when every peer downloader it ever started has been joined
(`StopReachesAll`), and an updater outlives neither a finished `Fin` nor a
downloader that was never started.

`AvailableSync`. Assumption: N is a natural number. `IInv` says of every chunk that
never met a handler in the race: it has the highest rank until it is stamped,
and then, unless it is known, the request under way or the next one reports it.

`WriteChunk`. Assumptions: finitely many files and chunks, every chunk has a
range and every file too. `AttemptOK` describes the attempt under way: what it
passed is on disk and good unless the hash tells. `CountOK` compares the count
with the ranges ahead of the last attempts: a retry only adds ranges ahead and
never raises the count, so the count is at most their number, and it is equal to it
without a retry. From this follow `ReportedOnce` and `EarlyOnlyAfterRetry`.

`BuildChunks`. Assumptions: positive file sizes and chunk sizes; any integer as
`-files-per-chunk`. The properties speak of the returned list, the invariant of
every turn of the loops: the closed chunks and the open one together (`Whole`)
hold exactly the bytes before the present offset of the present file, in order,
and `remainingChunkCount` counts their ranges (`Layout`); `currentChunkSize` is
the number of bytes of the open chunk, which has room (`Room`); the closed ones
are full (`Closed`). `CutStep` is the step that `addToChunk` and `newChunk` make
for both branches: a chunk is closed exactly when the range fills it. No byte is
in two ranges, so sizes add up, which is where the order is needed.

`Process`. Assumptions: the completion command is not a file's; flags have their
types; any number of files. The exit code needs to know where
a failure is that is not in it yet: `CodeFollows` says that the goroutine that
failed is about to store it and has not been joined. `ExitZeroIsComplete` needs
the reason of every cancelled context (`Reasons`) and what the download has
reached at every place (`Download`). `NoCommandLost` needs that the wait group is
the number of commands in all places together, blocked callers, channel, spawned
and running (`Counted`), and that the places are disjoint and lose none
(`Commanded`). That nothing is sent after `Stop` has closed the channel is
`Callers`: a blocked sender keeps the download goroutine from ending, and main
closes the channel after it has joined that goroutine. `CrashHasCause`
is inductive with this and with `Ticking`: the heartbeat loop exists with a
registry only, and the controller with peers only.

`Storage`. Assumptions: the entries are a tree with `Above` (`PathsAssumption`)
and a walk that comes to a directory after its contents (`WalkAssumption`); what
a manifest lists lies in directories it lists (`ManifestsAssumption`), as every
manifest does that was made by a walk; at first the destination
is a tree (`BeforeAssumption`). Trees may be of any depth and width, and runs any
number. `Progress` says of every entry where it is between `before` and its final
form: found as it was or made as the directory of another entry (`Found`), made
(`Formed`), with the permissions of its list's turn (`PermOf`), or not in the
manifest and untouched (`Kept`); `InOrder` that the loops have dealt with what
comes first. `CommitReachesAll` follows: when a directory's permissions are set,
everything in it is done. `RerunWorks` needs `Clean`, what only runs with this
manifest can leave wherever they die: a directory with fewer permissions has all
its directories. For `SetupFailsIffInTheWay` each entry that fails is traced back
to `before`, through what earlier entries have changed on its way; `FileFree` is
what a node must be for a file to be opened in its place. The attempt to
prove `VerifyAccepts` showed that it had been too strong: an unreadable directory that is
not in the manifest does no harm if the walk does not come to it, below a
symbolic link. The instance of the run has no such directory; the property now says so.

`Exchange`. Assumptions: every host has at least one command line, every source a
finite file list, and limits are natural numbers; any number of hosts, sources and
starts.
`PeersAgree` needs that the checksum is a function of the files and the chunks and
that every manifest is the one its own process would compute (`ServeIsFormed`),
that equal checksums stay equal until one of the two is started again (`SameSum`), and that
`met` is no later than the present start (`MetEarlier`). `DoneIsRight` is inductive
with these and with `WithoutSource`: a process that asks for a manifest does not
read chunks from a source of its own. The source that the bytes of a chunk are of is
one with the sender's file list, which is the receiver's. `GivesUpAlone` needs that a peer that
had a manifest all through the round is still to be asked (`SteadyIsAhead`).

Only model-checked: the liveness properties (`CancelReturns`,
`EventuallyCompleted`, `CompletedIsSynced`, `Returns`, `CancelEnds`,
`CompleteEnds`, `Settles`), since fairness is out of the prover's reach, and the
violations.

## Plan

1. Done: the engine with its abstract table, the synchronisation, the writer and
   the layout.
2. Done: the process with its commands and the registry; the destination; the
   exchange between processes.
3. Done: proofs of all safety properties of the runs.
4. Next: what the liveness properties rest on and can be proved without fairness:
   that every turn of the loops of `BuildChunks` brings them closer to the end,
   that nothing makes a cancelled download start anything new, that a round of
   requests in `Exchange` only shrinks.
5. The single flight of the checksum cache.

## Not modelled

The peer-list providers, the HTTP client's headers and connections, the encoders,
the logger and the version are input and output without state that a property
could be about; a request's outcome and a look-up's result are any outcome and
any result where they are used. `ComputeChunkChecksum` is what it returns, the
hash of the bytes; that concurrent callers share one computation is not modelled.
Byte counts, durations and printing of the statistics are left out. `testutil`
serves the unit tests.
