------------------------------ MODULE BuildChunks ------------------------------
(***************************************************************************)
(* BuildChunks: how the files of the manifest are cut into chunks.  Every  *)
(* process runs it on its own copy of the file list, and what is proved of *)
(* the transfer of chunks is about the files only if the chunks cover them *)
(* exactly.  One step is one turn of one of the two loops.                 *)
(*                                                                         *)
(* sort.Slice puts the files in the order of their names, which are        *)
(* distinct; a file is its place in that order, and only its size is kept. *)
(* Empty files are entries of another kind and are not in the list.        *)
(***************************************************************************)
EXTENDS Integers, Sequences, FiniteSets

CONSTANTS
    SizeLists,   \* bound: the lists of file sizes
    ChunkSizes,  \* the values of -chunk-size
    FileCounts   \* the values of -files-per-chunk

ASSUME SizesAssumption ==
    /\ SizeLists \subseteq Seq(Nat \ {0})
    /\ ChunkSizes \subseteq Nat \ {0}
    /\ FileCounts \subseteq Int

VARIABLES
    sizes, chunkSize, maxFiles,   \* the parameters
    index,      \* the file the outer loop is at
    start,      \* startOffset
    chunk,      \* chunk.FileRanges
    size,       \* currentChunkSize
    list,       \* chunkList
    remaining,  \* remainingChunkCount of each file
    done        \* BuildChunks has returned

params == <<sizes, chunkSize, maxFiles>>
vars == <<params, index, start, chunk, size, list, remaining, done>>

Init ==
    /\ sizes \in SizeLists
    /\ chunkSize \in ChunkSizes
    /\ maxFiles \in FileCounts
    /\ index = 1
    /\ start = 0
    /\ chunk = << >>
    /\ size = 0
    /\ list = << >>
    /\ remaining = [i \in DOMAIN sizes |-> 0]
    /\ done = FALSE

\* remainFilesize
Left == sizes[index] - start

FileRange(i, from, to) == [file |-> i, from |-> from, to |-> to]

\* addToChunk, then newChunk if the chunk is full.
Cut(from, to, full) ==
    LET ranges == Append(chunk, FileRange(index, from, to))
    IN  IF full
        THEN /\ list' = Append(list, ranges)
             /\ chunk' = << >>
             /\ size' = 0
        ELSE /\ chunk' = ranges
             /\ size' = size + (to - from)
             /\ UNCHANGED list

\* Variant of CountRange: once per file.
CountFile == remaining' = [remaining EXCEPT ![index] = 1]

CountRange == remaining' = [remaining EXCEPT ![index] = @ + 1]

\* Variant of Fit: a -files-per-chunk of 0 is a limit, not the lack of one.
FitAtLeast ==
    /\ index <= Len(sizes)
    /\ Left > 0
    /\ size + Left < chunkSize
    /\ CountRange
    /\ Cut(start, sizes[index], Len(chunk) + 1 >= maxFiles)
    /\ index' = index + 1
    /\ start' = 0
    /\ UNCHANGED <<params, done>>

\* The rest of the file fits, with room to spare.
Fit ==
    /\ index <= Len(sizes)
    /\ Left > 0
    /\ size + Left < chunkSize
    /\ CountRange
    /\ Cut(start, sizes[index], Len(chunk) + 1 = maxFiles)
    /\ index' = index + 1
    /\ start' = 0
    /\ UNCHANGED <<params, done>>

\* Variant of Split: the offset moves on by a whole chunk.
SplitWhole ==
    /\ index <= Len(sizes)
    /\ Left > 0
    /\ size + Left >= chunkSize
    /\ CountRange
    /\ Cut(start, start + (chunkSize - size), TRUE)
    /\ start' = start + chunkSize
    /\ UNCHANGED <<params, index, done>>

\* It does not: the chunk is filled up, and the file goes on in the next one.
Split ==
    /\ index <= Len(sizes)
    /\ Left > 0
    /\ size + Left >= chunkSize
    /\ CountRange
    /\ Cut(start, start + (chunkSize - size), TRUE)
    /\ start' = start + (chunkSize - size)
    /\ UNCHANGED <<params, index, done>>

\* Variant of NextFile: the loop stays at the file.
NextFileStays ==
    /\ index <= Len(sizes)
    /\ Left <= 0
    /\ UNCHANGED vars

\* remainFilesize is 0: the next file.
NextFile ==
    /\ index <= Len(sizes)
    /\ Left <= 0
    /\ index' = index + 1
    /\ start' = 0
    /\ UNCHANGED <<params, chunk, size, list, remaining, done>>

\* The last chunk, if there is something in it.
Return ==
    /\ ~done
    /\ index > Len(sizes)
    /\ list' = IF chunk # << >> THEN Append(list, chunk) ELSE list
    /\ done' = TRUE
    /\ UNCHANGED <<params, index, start, chunk, size, remaining>>

Terminated == done /\ UNCHANGED vars

Next == Fit \/ Split \/ NextFile \/ Return \/ Terminated

Spec == Init /\ [][Next]_vars

FairSpec == Spec /\ WF_vars(Next)

(***************************************************************************)
(* Properties.                                                             *)
(***************************************************************************)

\* A byte is a file and an offset.
RangeBytes(r) == {r.file} \X (r.from .. (r.to - 1))
Bytes(ranges) == UNION {RangeBytes(ranges[j]) : j \in DOMAIN ranges}
AllBytes == UNION {{i} \X (0 .. (sizes[i] - 1)) : i \in DOMAIN sizes}

\* r ends before s begins.
LiesBefore(r, s) == r.file < s.file \/ (r.file = s.file /\ r.to <= s.from)

\* The ranges of the chunks, one after the other, in the order of the files.
Ordered(chunks) ==
    \A k, l \in DOMAIN chunks : \A i \in DOMAIN chunks[k], j \in DOMAIN chunks[l] :
        k < l \/ (k = l /\ i < j) => LiesBefore(chunks[k][i], chunks[l][j])

\* The chunks are the files: every byte is in a chunk, none is beyond the end of
\* its file, and the ranges of all chunks follow one another in the order of the
\* files, so that no byte is in two of them.
ChunksAreTheFiles ==
    done => Ordered(list) /\ UNION {Bytes(list[k]) : k \in DOMAIN list} = AllBytes

\* No chunk is empty, larger than -chunk-size or, with a positive
\* -files-per-chunk, has more ranges than that, and none has an empty range; and
\* every chunk but the last is full: -chunk-size bytes or -files-per-chunk ranges.
ChunksAreFull ==
    \A k \in DOMAIN list :
        /\ Cardinality(Bytes(list[k])) \in 1..chunkSize
        /\ \A j \in DOMAIN list[k] : list[k][j].from < list[k][j].to
        /\ maxFiles > 0 => Len(list[k]) <= maxFiles
        /\ k < Len(list) => Cardinality(Bytes(list[k])) = chunkSize \/ Len(list[k]) = maxFiles

\* remainingChunkCount is the number of ranges of the file, each of which
\* WriteChunk will count down.
RangesOf(chunks, i) ==
    UNION {{k} \X {j \in DOMAIN chunks[k] : chunks[k][j].file = i} : k \in DOMAIN chunks}
CountsRanges == done => \A i \in DOMAIN sizes : remaining[i] = Cardinality(RangesOf(list, i))

\* BuildChunks returns, whatever the files and for every positive -chunk-size.
Returns == <>done
================================================================================
