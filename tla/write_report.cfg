SPECIFICATION Spec
CONSTANTS
    fa = fa
    fb = fb
    Files = {fa, fb}
    Chunks <- MCChunks
    Ranges <- MCRanges
    Verify = FALSE
    MaxAttempts = 2
PROPERTY ReportedWhenWritten
