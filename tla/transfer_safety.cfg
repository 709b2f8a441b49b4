SPECIFICATION Spec
CONSTANTS
    l = l  p = p  q = q  l1 = l1  p1 = p1  p2 = p2  q1 = q1
    NoChunk = NoChunk
    Chunks = {c1, c2}
    Downloaders = {l, p}
    Local = {l}
    Workers = {l1, p1, p2}
    Owner <- MCOwner
    UseIdle = FALSE
    Faults = {"interrupt", "leave"}
SYMMETRY ChunkSymmetry
INVARIANTS
    TypeOK
    ExclusiveClaim
    CountSound
    TransferredOnce
    CompletedSound
PROPERTIES
    StatusSteps
    BoardSpec
