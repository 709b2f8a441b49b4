SPECIFICATION Spec
CONSTANTS
    Base = "/"
    Parent <- MCParent
    Above <- MCAbove
    Place <- MCPlace
    Manifests <- MCManifests
    Before <- MCBefore
    MaxRuns = 3
INVARIANT VerifiedIsTransferred
CHECK_DEADLOCK FALSE
