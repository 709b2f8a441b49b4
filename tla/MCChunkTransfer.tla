---------------------------- MODULE MCChunkTransfer ----------------------------
(* Small instances of ChunkTransfer: a local downloader and peers.         *)
EXTENDS ChunkTransfer, TLC

CONSTANTS
    l, p, q,              \* the local downloader and two peers
    l1, p1, p2, q1        \* their workers

OwnerTable == [w \in {l1, p1, p2, q1} |-> IF w = l1 THEN l ELSE IF w = q1 THEN q ELSE p]
\* The chunks are interchangeable: no action or invariant tells them apart.
ChunkSymmetry == Permutations(Chunks)

MCOwner == [w \in Workers |-> OwnerTable[w]]
================================================================================
