----------------------------- MODULE AvailableSync -----------------------------
(***************************************************************************)
(* How a process learns which chunks a peer has.  The peer marks a chunk   *)
(* Done and then stamps it with the time its transfer ended, a time read   *)
(* BEFORE it was marked; its /chunk handler reads the clock, and returns   *)
(* the Done chunks with a stamp after the caller's only_updated_since.     *)
(* The caller's next only_updated_since is the time the handler read.      *)
(*                                                                         *)
(* Time is kept by rank only.  The caller has one request at a time, so a  *)
(* stamp is compared with two times, since (the caller's LastUpdatedAt)    *)
(* and ts (the Timestamp of the request under way, if any):                *)
(*     0: not after since;  1: after since, not after ts;  2: after ts.    *)
(***************************************************************************)
EXTENDS Integers

CONSTANT N     \* the number of chunks
ASSUME NAssumption == N \in Nat

Chunks == 1..N

VARIABLES
    stage,      \* the peer's worker for each chunk, see Finish and the rest
    rank,       \* the rank of each chunk's t1, once it is read
    completed,  \* the peer's MainContext.Completed
    req,        \* the request under way
    next,       \* the chunk GetStatusDoneChunks looks at next
    list,       \* TransferChunkIndexList of the answer
    avail,      \* the caller's AvailableChunkList
    raced       \* (history) chunks whose worker was between reading t1 and
                \* SetUpdatedAt when a handler read the clock

worker == <<stage, rank>>
answer == <<next, list>>
vars == <<worker, completed, req, answer, avail, raced>>

Init ==
    /\ stage = [c \in Chunks |-> "pending"]
    /\ rank = [c \in Chunks |-> 0]
    /\ completed = FALSE
    /\ req = "none"
    /\ next = 1
    /\ list = {}
    /\ avail = {}
    /\ raced = {}

(***************************************************************************)
(* The peer's worker that has just written chunk c.                        *)
(***************************************************************************)

\* t1 := time.Now().
ReadClock(c) ==
    /\ stage[c] = "pending"
    /\ stage' = [stage EXCEPT ![c] = "timed"]
    /\ rank' = [rank EXCEPT ![c] = IF req = "none" THEN 1 ELSE 2]
    /\ UNCHANGED <<completed, req, answer, avail, raced>>

\* SetChunkStatusDone: SetStatus ...
SetStatus(c) ==
    /\ stage[c] = "timed"
    /\ stage' = [stage EXCEPT ![c] = "done"]
    /\ UNCHANGED <<rank, completed, req, answer, avail, raced>>

\* ... and then SetUpdatedAt(t1).
SetUpdatedAt(c) ==
    /\ stage[c] = "done"
    /\ stage' = [stage EXCEPT ![c] = "stamped"]
    /\ UNCHANGED <<rank, completed, req, answer, avail, raced>>

\* A downloader of the peer has seen every chunk Done: CompleteOne.
Complete ==
    /\ ~completed
    /\ \A c \in Chunks : stage[c] \in {"done", "stamped"}
    /\ completed' = TRUE
    /\ UNCHANGED <<worker, req, answer, avail, raced>>

(***************************************************************************)
(* A poll: UpdatePeerAvailableList, and the /chunk handler.                *)
(***************************************************************************)

\* The request reaches the handler, which reads the clock (NewAvailableList).
Stamp ==
    /\ req = "none"
    /\ avail # Chunks
    /\ req' = "check"
    /\ raced' = raced \cup {c \in Chunks : stage[c] \in {"timed", "done"}}
    /\ UNCHANGED <<worker, completed, answer, avail>>

\* Variant of CheckCompleted: the handler always makes a list.
CheckCompletedNever ==
    /\ req = "check"
    /\ req' = "scan"
    /\ next' = 1
    /\ list' = {}
    /\ UNCHANGED <<worker, completed, avail, raced>>

\* With Completed the answer stands for every chunk.
CheckCompleted ==
    /\ req = "check"
    /\ req' = IF completed THEN "answer" ELSE "scan"
    /\ next' = 1
    /\ list' = IF completed THEN Chunks ELSE {}
    /\ UNCHANGED <<worker, completed, avail, raced>>

\* Variant of Scan: the status is not looked at, and the stamp is t1.
ScanBlind ==
    /\ req = "scan"
    /\ next \in Chunks
    /\ list' = IF rank[next] > 0 THEN list \cup {next} ELSE list
    /\ next' = next + 1
    /\ UNCHANGED <<worker, completed, req, avail, raced>>

\* GetStatusDoneChunks looks at one chunk.  Its two reads may be taken as one.
Scan ==
    /\ req = "scan"
    /\ next \in Chunks
    /\ list' = IF stage[next] = "stamped" /\ rank[next] > 0 THEN list \cup {next} ELSE list
    /\ next' = next + 1
    /\ UNCHANGED <<worker, completed, req, avail, raced>>

Answer ==
    /\ req = "scan"
    /\ next = N + 1
    /\ req' = "answer"
    /\ UNCHANGED <<worker, completed, answer, avail, raced>>

\* Variant of Lower: no lowest rank.
LowerUnchecked(r) == r - 1

\* The ranks once since is ts, and once there is no ts.
Lower(r) == IF r > 0 THEN r - 1 ELSE 0

Forget(r) == IF r > 1 THEN 1 ELSE r

\* Variant of Receive: LastUpdatedAt is the time the answer arrives.
ReceiveLate ==
    /\ req = "answer"
    /\ req' = "none"
    /\ avail' = avail \cup list
    /\ rank' = [c \in Chunks |-> 0]
    /\ UNCHANGED <<stage, completed, answer, raced>>

\* The answer arrives: LastUpdatedAt = Timestamp, the chunks are queued.
Receive ==
    /\ req = "answer"
    /\ req' = "none"
    /\ avail' = avail \cup list
    /\ rank' = [c \in Chunks |-> Lower(rank[c])]
    /\ UNCHANGED <<stage, completed, answer, raced>>

\* The request fails or times out: the next one repeats it.  The handler only
\* reads, so a request that fails earlier is one whose answer is lost.
Lose ==
    /\ req = "answer"
    /\ req' = "none"
    /\ rank' = [c \in Chunks |-> Forget(rank[c])]
    /\ UNCHANGED <<stage, completed, answer, avail, raced>>

\* The caller knows every chunk and stops polling; the peer has nothing left.
Terminated ==
    /\ avail = Chunks /\ req = "none" /\ completed
    /\ \A c \in Chunks : stage[c] = "stamped"
    /\ UNCHANGED vars

Next ==
    \/ \E c \in Chunks : ReadClock(c) \/ SetStatus(c) \/ SetUpdatedAt(c)
    \/ Complete
    \/ Stamp \/ CheckCompleted \/ Scan \/ Answer \/ Receive \/ Lose
    \/ Terminated

Spec == Init /\ [][Next]_vars

(***************************************************************************)
(* Properties.                                                             *)
(***************************************************************************)

TypeOK ==
    /\ stage \in [Chunks -> {"pending", "timed", "done", "stamped"}]
    /\ rank \in [Chunks -> 0..2]
    /\ completed \in BOOLEAN
    /\ req \in {"none", "check", "scan", "answer"}
    /\ next \in 1..(N + 1)
    /\ list \subseteq Chunks
    /\ avail \subseteq Chunks
    /\ raced \subseteq Chunks

\* A chunk the caller queues for this peer is one the peer has: /chunk/{i}
\* does not answer "chunk not ready", whatever was lost or happened meanwhile.
AvailSound == \A c \in avail : stage[c] \in {"done", "stamped"}

\* The peer has the chunk, no poll reports it any more, and the caller does
\* not know it.
Missed(c) ==
    /\ stage[c] = "stamped" /\ rank[c] = 0
    /\ c \notin avail
    /\ ~completed

\* A chunk is lost to the polls in one way only: a handler read the clock
\* while the chunk's worker was between time.Now() and SetUpdatedAt.  Lost
\* answers, repeated requests and chunks finished during the scan are harmless.
MissedOnlyInRace == \A c \in Chunks : Missed(c) => c \in raced

\* The inductive invariant.  Of a chunk that never met a handler in the race:
\* until it is stamped its rank is the highest there is, and then, unless the
\* caller knows it, the request under way or the next one reports it.
IInv ==
    /\ TypeOK /\ AvailSound
    /\ \A c \in list : stage[c] \in {"done", "stamped"}
    /\ completed => \A c \in Chunks : stage[c] \in {"done", "stamped"}
    /\ \A c \in Chunks \ raced :
          /\ stage[c] \in {"timed", "done"} => rank[c] = IF req = "none" THEN 1 ELSE 2
          /\ stage[c] = "stamped" /\ c \notin avail /\ ~completed =>
                /\ rank[c] > 0
                /\ rank[c] = 1 => \/ req \in {"none", "check"}
                                  \/ req = "scan" /\ next <= c
                                  \/ c \in list

\* The peer's workers run on, the caller polls on every tick, and a poll that
\* is repeated for ever is answered in the end.
Polling ==
    /\ \A c \in Chunks : WF_vars(SetStatus(c)) /\ WF_vars(SetUpdatedAt(c))
    /\ WF_vars(Stamp) /\ WF_vars(CheckCompleted) /\ WF_vars(Scan) /\ WF_vars(Answer)
    /\ SF_vars(Receive)

FairSpec == Spec /\ Polling

\* Once the peer has completed, the caller learns of every chunk, the missed
\* ones included.
CompletedIsSynced == completed ~> (avail = Chunks)
================================================================================
