SPECIFICATION FairSpec
CONSTANTS
    f1 = f1  done = done
    Files <- MCFiles
    Cmds <- MCCmds
    OnComplete = done
    Flags <- MCFlags
INVARIANTS
    TypeOK
    
    ExitCodeTells
    ExitZeroIsComplete
    NoCommandLost
PROPERTIES
    CancelEnds
    CompleteEnds
CHECK_DEADLOCK FALSE
