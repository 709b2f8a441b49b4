SPECIFICATION FairSpec
CONSTANT N = 3
INVARIANTS
    TypeOK
    AvailSound
    MissedOnlyInRace
PROPERTY CompletedIsSynced
