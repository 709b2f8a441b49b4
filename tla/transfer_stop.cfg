SPECIFICATION FairSpec
CONSTANTS
    l = l  p = p  q = q  l1 = l1  p1 = p1  p2 = p2  q1 = q1
    NoChunk = NoChunk
    Chunks = {c1}
    Downloaders = {l, p}
    Local = {l}
    Workers = {l1, p1}
    Owner <- MCOwner
    UseIdle = TRUE
    Faults = {"interrupt", "self", "mismatch", "leave", "commit", "verify"}
INVARIANT
    NothingOutlivesJoin
PROPERTIES
    CancelReturns
    EventuallyCompleted
