SPECIFICATION Spec
CONSTANTS
    fa = fa
    fb = fb
    Files = {fa, fb}
    Chunks <- MCChunks
    Ranges <- MCRanges
    Verify = TRUE
    MaxAttempts = 2
INVARIANTS TypeOK DoneIsVerified ReportedOnce
PROPERTY EarlyOnlyAfterRetry
