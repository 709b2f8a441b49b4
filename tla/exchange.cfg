SPECIFICATION FairSpec
CONSTANTS
    s = s  r = r  p = p  A = A  B = B  C = C  x = x  y = y  z = z
    NoTree = NoTree
    Hosts <- MCHosts
    Trees = {A, B, C}
    FileEntry = {x, y, z}
    Listing <- MCListing
    Configs <- MCConfigs
    MaxStarts <- MCMaxStarts
INVARIANTS
    TypeOK
    PeersAgree
    DoneIsRight
    GivesUpAlone
PROPERTY Settles
CHECK_DEADLOCK FALSE
