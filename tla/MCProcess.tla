------------------------------ MODULE MCProcess -------------------------------
(* Command lines of Process for TLC. *)
EXTENDS Process

CONSTANTS f1, done

MCFiles == {f1}
MCCmds == {f1, done}

\* A downloader with commands.  One that stays to serve leaves when it is idle.
Downloader(peers, exitComplete) ==
    [serveOnly |-> FALSE, waitHost |-> FALSE, exitComplete |-> exitComplete, transferIdle |-> TRUE,
     seedIdle |-> ~exitComplete, verify |-> TRUE, commands |-> TRUE,
     peers |-> peers, polls |-> TRUE, syncs |-> TRUE, heartbeat |-> 0]
\* A process of a registry, with intervals of any length.
Registered(serveOnly, polls, syncs, heartbeat) ==
    [serveOnly |-> serveOnly, waitHost |-> TRUE, exitComplete |-> TRUE, transferIdle |-> FALSE,
     seedIdle |-> FALSE, verify |-> FALSE, commands |-> FALSE,
     peers |-> TRUE, polls |-> polls, syncs |-> syncs, heartbeat |-> heartbeat]

MCFlags ==
    {Downloader(FALSE, FALSE), Downloader(TRUE, TRUE), Registered(TRUE, FALSE, FALSE, 5000)} \cup
    {Registered(FALSE, iv[1], iv[2], iv[3]) :
        iv \in {<<TRUE, TRUE, 500>>, <<TRUE, TRUE, 5000>>, <<FALSE, TRUE, 5000>>, <<TRUE, FALSE, 5000>>}}

\* A downloader that stays to serve its peers, without -seed-idle-timeout.
MCIdleFlags == {[Downloader(TRUE, FALSE) EXCEPT !.seedIdle = FALSE]}
===============================================================================
