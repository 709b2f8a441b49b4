SPECIFICATION Spec
CONSTANTS
    Base = "/"
    Parent <- MCParent
    Above <- MCAbove
    Place <- MCPlace
    Manifests <- MCManifests
    Before <- MCBefore
    MaxRuns = 3
INVARIANTS
    TypeOK
    SetupFailsIffInTheWay
    CommitReachesAll
    RerunWorks
    VerifyAccepts
CHECK_DEADLOCK FALSE
