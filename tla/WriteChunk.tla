------------------------------ MODULE WriteChunk -------------------------------
(***************************************************************************)
(* Writing chunks to the destination: ChunkManager.WriteChunk, called by   *)
(* the workers of execDownloader.  A chunk is a list of file ranges; the   *)
(* ranges of one file are spread over several chunks, which workers write  *)
(* at the same time.  Every range that is written lowers the file's        *)
(* remainingChunkCount, and the worker that brings it to 0 reports the     *)
(* file complete.  An attempt ends early when a write fails, and fails at  *)
(* the end when the checksum of what was read is not the expected one; the *)
(* whole chunk is then written again.                                      *)
(*                                                                         *)
(* One chunk has one writer at a time (ExclusiveClaim of ChunkTransfer).   *)
(***************************************************************************)
EXTENDS Integers, Sequences, FiniteSets

CONSTANTS
    Files,        \* Manifest.Files
    Chunks,       \* the chunks BuildChunks made of them
    Ranges,       \* the file of each FileRange of each chunk
    Verify,       \* -verify-on-complete: expectedChecksum # 0
    MaxAttempts   \* bound: how often one chunk is tried

ASSUME LayoutAssumption ==
    /\ IsFiniteSet(Files) /\ IsFiniteSet(Chunks)
    /\ Ranges \in [Chunks -> Seq(Files) \ {<< >>}]
    /\ \A f \in Files : \E c \in Chunks : \E i \in DOMAIN Ranges[c] : Ranges[c][i] = f
ASSUME WriteAssumption == Verify \in BOOLEAN /\ MaxAttempts \in Nat

VARIABLES
    stage,      \* where the chunk's writer is; "pending" and "done": no writer
    at,         \* the position of fileChunk in FileRanges
    damaged,    \* the attempt has read bytes other than the source's
    content,    \* what each range holds on disk
    remaining,  \* FileEntry.remainingChunkCount
    reported,   \* how often onFileComplete was called for each file
    attempts    \* how often each chunk was tried

vars == <<stage, at, damaged, content, remaining, reported, attempts>>

\* The ranges of file f, each by its chunk and its place in it.
RangesOf(f) == UNION {{c} \X {i \in DOMAIN Ranges[c] : Ranges[c][i] = f} : c \in Chunks}

\* BuildChunks counts the ranges of each file (CountsRanges of BuildChunks);
\* a file of Manifest.Files is not empty, and has at least one.
Init ==
    /\ stage = [c \in Chunks |-> "pending"]
    /\ at = [c \in Chunks |-> 1]
    /\ damaged = [c \in Chunks |-> FALSE]
    /\ content = [c \in Chunks |-> [i \in DOMAIN Ranges[c] |-> "none"]]
    /\ remaining = [f \in Files |-> Cardinality(RangesOf(f))]
    /\ reported = [f \in Files |-> 0]
    /\ attempts = [c \in Chunks |-> 0]

\* Variant of Begin: a retry goes on where the last attempt stopped.
BeginResumes(c) ==
    /\ stage[c] = "pending"
    /\ attempts[c] < MaxAttempts
    /\ attempts' = [attempts EXCEPT ![c] = @ + 1]
    /\ damaged' = [damaged EXCEPT ![c] = FALSE]
    /\ stage' = [stage EXCEPT ![c] = "write"]
    /\ UNCHANGED <<at, content, remaining, reported>>

\* A worker that was handed the chunk calls WriteChunk.
Begin(c) ==
    /\ stage[c] = "pending"
    /\ attempts[c] < MaxAttempts
    /\ attempts' = [attempts EXCEPT ![c] = @ + 1]
    /\ at' = [at EXCEPT ![c] = 1]
    /\ damaged' = [damaged EXCEPT ![c] = FALSE]
    /\ stage' = [stage EXCEPT ![c] = "write"]
    /\ UNCHANGED <<content, remaining, reported>>

\* Variant of WriteRange: only the last range is hashed.
WriteRangeLast(c, bytes) ==
    /\ stage[c] = "write"
    /\ content' = [content EXCEPT ![c][at[c]] = bytes]
    /\ damaged' = [damaged EXCEPT ![c] = (bytes = "bad")]
    /\ stage' = [stage EXCEPT ![c] = "count"]
    /\ UNCHANGED <<at, remaining, reported, attempts>>

\* storage.Write of one range succeeds.  The bytes the reader delivers are the
\* source's or not; they go to the file and, with Verify, into the hash.
WriteRange(c, bytes) ==
    /\ stage[c] = "write"
    /\ content' = [content EXCEPT ![c][at[c]] = bytes]
    /\ damaged' = [damaged EXCEPT ![c] = @ \/ bytes = "bad"]
    /\ stage' = [stage EXCEPT ![c] = "count"]
    /\ UNCHANGED <<at, remaining, reported, attempts>>

\* storage.Write fails, maybe after it wrote some bytes: the worker makes the
\* chunk pending again.
WriteFails(c, torn) ==
    /\ stage[c] = "write"
    /\ content' = [content EXCEPT ![c][at[c]] = IF torn THEN "bad" ELSE @]
    /\ stage' = [stage EXCEPT ![c] = "pending"]
    /\ UNCHANGED <<at, damaged, remaining, reported, attempts>>

\* Variant of Count: a count below 0 reports the file as well.
CountBelow(c) ==
    LET f == Ranges[c][at[c]]
    IN  /\ stage[c] = "count"
        /\ remaining' = [remaining EXCEPT ![f] = @ - 1]
        /\ reported' = [reported EXCEPT ![f] = @ + IF remaining[f] - 1 <= 0 THEN 1 ELSE 0]
        /\ at' = [at EXCEPT ![c] = @ + 1]
        /\ stage' = [stage EXCEPT ![c] = IF at[c] < Len(Ranges[c]) THEN "write" ELSE "check"]
        /\ UNCHANGED <<damaged, content, attempts>>

\* Variant of Count: one off, the file is reported with its last range missing.
CountEarly(c) ==
    LET f == Ranges[c][at[c]]
    IN  /\ stage[c] = "count"
        /\ remaining' = [remaining EXCEPT ![f] = @ - 1]
        /\ reported' = [reported EXCEPT ![f] = @ + IF remaining[f] = 2 THEN 1 ELSE 0]
        /\ at' = [at EXCEPT ![c] = @ + 1]
        /\ stage' = [stage EXCEPT ![c] = IF at[c] < Len(Ranges[c]) THEN "write" ELSE "check"]
        /\ UNCHANGED <<damaged, content, attempts>>

\* DecrementRemainingChunkCount, and onFileComplete when it returns 0.
Count(c) ==
    LET f == Ranges[c][at[c]]
    IN  /\ stage[c] = "count"
        /\ remaining' = [remaining EXCEPT ![f] = @ - 1]
        /\ reported' = [reported EXCEPT ![f] = @ + IF remaining[f] - 1 = 0 THEN 1 ELSE 0]
        /\ at' = [at EXCEPT ![c] = @ + 1]
        /\ stage' = [stage EXCEPT ![c] = IF at[c] < Len(Ranges[c]) THEN "write" ELSE "check"]
        /\ UNCHANGED <<damaged, content, attempts>>

\* hash.Sum64() # expectedChecksum, if there is a hash; the worker makes the
\* chunk Done or pending again.
Check(c) ==
    /\ stage[c] = "check"
    /\ stage' = [stage EXCEPT ![c] = IF Verify /\ damaged[c] THEN "pending" ELSE "done"]
    /\ UNCHANGED <<at, damaged, content, remaining, reported, attempts>>

\* Every chunk is written, or was tried MaxAttempts times.
Terminated ==
    /\ \A c \in Chunks :
          \/ stage[c] = "done"
          \/ stage[c] = "pending" /\ attempts[c] = MaxAttempts
    /\ UNCHANGED vars

Next ==
    \/ \E c \in Chunks :
          \/ Begin(c) \/ Count(c) \/ Check(c)
          \/ \E bytes \in {"good", "bad"} : WriteRange(c, bytes)
          \/ \E torn \in BOOLEAN : WriteFails(c, torn)
    \/ Terminated

Spec == Init /\ [][Next]_vars

(***************************************************************************)
(* Properties.                                                             *)
(***************************************************************************)

TypeOK ==
    /\ stage \in [Chunks -> {"pending", "write", "count", "check", "done"}]
    /\ at \in [Chunks -> Nat \ {0}]
    /\ \A c \in Chunks : stage[c] \in {"write", "count"} => at[c] \in DOMAIN Ranges[c]
    /\ damaged \in [Chunks -> BOOLEAN]
    /\ content = [c \in Chunks |-> content[c]]
    /\ \A c \in Chunks : content[c] \in [DOMAIN Ranges[c] -> {"none", "good", "bad"}]
    /\ remaining \in [Files -> Int]
    /\ reported \in [Files -> Nat]
    /\ attempts \in [Chunks -> 0..MaxAttempts]

\* With -verify-on-complete a chunk is Done (and is served to the peers) only
\* if every byte of it is the source's, whatever the attempts before left in
\* the file.
DoneIsVerified ==
    Verify => \A c \in Chunks : stage[c] = "done" =>
                  \A i \in DOMAIN Ranges[c] : content[c][i] = "good"

\* A file is reported complete at most once, however often its chunks are
\* tried, and it has been reported when the last of its chunks is Done.
ReportedOnce ==
    \A f \in Files :
        /\ reported[f] <= 1
        /\ (\A r \in RangesOf(f) : stage[r[1]] = "done") => reported[f] = 1

\* The writes of the file's ranges have returned.
Written(f) == \A r \in RangesOf(f) : content[r[1]][r[2]] # "none"

\* A file is reported with a range of it still unwritten only if a chunk of
\* that file had to be tried again: concurrent writers alone never do it.
EarlyOnlyAfterRetry ==
    [][\A f \in Files : reported'[f] > reported[f] =>
          Written(f) \/ \E r \in RangesOf(f) : attempts[r[1]] > 1]_vars

(***************************************************************************)
(* What makes them inductive.                                              *)
(***************************************************************************)

\* The attempt has written range i, or is about to count it.
Passed(c, i) == i < at[c] \/ (stage[c] = "count" /\ i = at[c])

\* What the attempt under way has written is on disk, and is the source's
\* unless the hash tells.
AttemptOK(c) ==
    /\ stage[c] \in {"check", "done"} => at[c] = Len(Ranges[c]) + 1
    /\ stage[c] = "done" => ~(Verify /\ damaged[c])
    /\ attempts[c] = 0 => stage[c] = "pending" /\ at[c] = 1
    /\ \A i \in DOMAIN Ranges[c] : Passed(c, i) =>
          /\ content[c][i] # "none"
          /\ stage[c] # "pending" /\ ~damaged[c] => content[c][i] = "good"

\* The ranges of f that the last attempt at their chunk has not counted.
Ahead(f) == {r \in RangesOf(f) : r[2] >= at[r[1]]}

\* Only a retry counts a range again, so the count is never more than the
\* ranges ahead, and without a retry it is their number.
CountOK(f) ==
    /\ reported[f] = IF remaining[f] <= 0 THEN 1 ELSE 0
    /\ remaining[f] <= Cardinality(Ahead(f))
    /\ (\A r \in RangesOf(f) : attempts[r[1]] <= 1) => remaining[f] = Cardinality(Ahead(f))

IInv ==
    /\ TypeOK
    /\ \A c \in Chunks : AttemptOK(c)
    /\ \A f \in Files : CountOK(f)

(***************************************************************************)
(* What the documentation says, and the code does not do.                  *)
(***************************************************************************)

\* main.go:51: the command runs after the file completes.
ReportedWhenWritten ==
    [][\A f \in Files : reported'[f] > reported[f] => Written(f)]_vars
================================================================================
