SPECIFICATION FairSpec
CONSTANTS
    l = l  p = p  q = q  l1 = l1  p1 = p1  p2 = p2  q1 = q1
    NoChunk = NoChunk
    Chunks = {c1, c2}
    Downloaders = {p, q}
    Local = {}
    Workers = {p1, q1}
    Owner <- MCOwner
    UseIdle = FALSE
    Faults = {}
PROPERTY AllDoneReturns
