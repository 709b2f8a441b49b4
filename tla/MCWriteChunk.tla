----------------------------- MODULE MCWriteChunk -----------------------------
(* File fa starts in chunk 1 and ends in chunk 2, which file fb follows; fb  *)
(* ends in chunk 3.                                                          *)
EXTENDS WriteChunk

CONSTANTS fa, fb

MCChunks == 1..3
MCRanges == << <<fa>>, <<fa, fb>>, <<fb>> >>
================================================================================
