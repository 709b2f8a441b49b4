----------------------------- MODULE MCBuildChunks -----------------------------
(* Up to three files of up to five bytes: smaller than a chunk, as large,    *)
(* larger, and several times as large.                                       *)
EXTENDS BuildChunks, SequencesExt

MCSizeLists == BoundedSeq(1..5, 3)
MCChunkSizes == 1..4
MCFileCounts == 0..3
================================================================================
