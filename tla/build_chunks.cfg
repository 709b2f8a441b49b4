SPECIFICATION FairSpec
CONSTANTS
    SizeLists <- MCSizeLists
    ChunkSizes <- MCChunkSizes
    FileCounts <- MCFileCounts
INVARIANTS
    ChunksAreTheFiles
    ChunksAreFull
    CountsRanges
PROPERTY Returns
