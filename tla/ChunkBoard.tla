------------------------------ MODULE ChunkBoard ------------------------------
(***************************************************************************)
(* What the chunk table promises to the rest of the program, whatever the  *)
(* number of downloaders, workers and peers: a chunk is claimed by at most *)
(* one transfer at a time, a transferred chunk is never taken back, and    *)
(* the transfer is declared complete only when every chunk is transferred. *)
(* ChunkTransfer implements this specification.                            *)
(***************************************************************************)
CONSTANT Chunks

VARIABLES
    claimed,    \* the chunks being transferred (ChunkStatusDownloading)
    done,       \* the chunks transferred (ChunkStatusDone)
    completed   \* MainContext.Completed

vars == <<claimed, done, completed>>

Init ==
    /\ claimed = {}
    /\ done = {}
    /\ completed = FALSE

\* A downloader takes a pending chunk.
Claim(c) ==
    /\ c \notin claimed \cup done
    /\ claimed' = claimed \cup {c}
    /\ UNCHANGED <<done, completed>>

\* The transfer of a claimed chunk succeeds.
Finish(c) ==
    /\ c \in claimed
    /\ claimed' = claimed \ {c}
    /\ done' = done \cup {c}
    /\ UNCHANGED completed

\* The transfer of a claimed chunk fails: anybody may claim it again.
Release(c) ==
    /\ c \in claimed
    /\ claimed' = claimed \ {c}
    /\ UNCHANGED <<done, completed>>

\* The transfer is declared complete.
Complete ==
    /\ done = Chunks
    /\ completed' = TRUE
    /\ UNCHANGED <<claimed, done>>

Next ==
    \/ \E c \in Chunks : Claim(c) \/ Finish(c) \/ Release(c)
    \/ Complete

Spec == Init /\ [][Next]_vars
===============================================================================
