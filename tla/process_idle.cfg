SPECIFICATION FairSpec
CONSTANTS
    f1 = f1  done = done
    Files <- MCFiles
    Cmds <- MCCmds
    OnComplete = done
    Flags <- MCIdleFlags
PROPERTY IdleTimeoutEnds
CHECK_DEADLOCK FALSE
