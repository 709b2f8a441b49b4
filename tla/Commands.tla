------------------------------- MODULE Commands --------------------------------
(***************************************************************************)
(* utils/command.go: the user's commands.  A caller of RunOnComplete or    *)
(* RunOnEachFileComplete raises the wait group and sends the command on a  *)
(* channel of capacity 1; the goroutine started by Run receives commands   *)
(* and gives each a goroutine of its own; Stop closes the channel, waits   *)
(* for the receiver and then for the wait group.  The actions leave the    *)
(* rest of the process alone: Process says what it does meanwhile.         *)
(***************************************************************************)
EXTENDS Integers, Sequences

CONSTANT Cmds    \* the commands of one process

VARIABLES
    channel,     \* commandChannel's buffer
    senders,     \* the commands a caller is sending
    closed,      \* commandChannel is closed
    receiver,    \* the goroutine of Run; "end": waitStopChannel is closed
    spawned,     \* the run goroutines that have not called cmd.Start
    running,     \* the run goroutines with a process
    waitGroup,   \* commandResultWaitGroup
    issued,      \* every command ever given to a caller (history)
    ended        \* every command whose process ended or did not start (history)

cmdVars == <<channel, senders, closed, receiver, spawned, running, waitGroup, issued, ended>>

Capacity == 1

CmdInit ==
    /\ channel = << >> /\ closed = FALSE /\ receiver = "off"
    /\ senders = {} /\ spawned = {} /\ running = {}
    /\ waitGroup = 0
    /\ issued = {} /\ ended = {}

\* The caller's side, up to the send.
Issue(c) ==
    /\ senders' = senders \cup {c}
    /\ waitGroup' = waitGroup + 1
    /\ issued' = issued \cup {c}
    /\ UNCHANGED <<channel, closed, receiver, spawned, running, ended>>

Send(c) ==
    /\ c \in senders /\ ~closed /\ Len(channel) < Capacity
    /\ channel' = Append(channel, c)
    /\ senders' = senders \ {c}
    /\ UNCHANGED <<closed, receiver, spawned, running, waitGroup, issued, ended>>

\* A send on a closed channel panics, a send that was waiting when the channel
\* was closed too.
SendPanics == senders # {} /\ closed

Run ==
    /\ receiver' = "range"
    /\ UNCHANGED <<channel, senders, closed, spawned, running, waitGroup, issued, ended>>

Receive ==
    /\ receiver = "range" /\ channel # << >>
    /\ channel' = Tail(channel)
    /\ spawned' = spawned \cup {Head(channel)}
    /\ UNCHANGED <<senders, closed, receiver, running, waitGroup, issued, ended>>

\* Variant of RangeEnds: the receiver leaves when it sees the channel closed.
RangeEndsAtClose ==
    /\ receiver = "range" /\ closed
    /\ receiver' = "end"
    /\ UNCHANGED <<channel, senders, closed, spawned, running, waitGroup, issued, ended>>

\* range ends when the channel is closed and drained.
RangeEnds ==
    /\ receiver = "range" /\ closed /\ channel = << >>
    /\ receiver' = "end"
    /\ UNCHANGED <<channel, senders, closed, spawned, running, waitGroup, issued, ended>>

\* Variant of StartFails: Done is called here and deferred as well.
StartFailsTwice(c) ==
    /\ c \in spawned
    /\ spawned' = spawned \ {c}
    /\ ended' = ended \cup {c}
    /\ waitGroup' = waitGroup - 2
    /\ UNCHANGED <<channel, senders, closed, receiver, running, issued>>

\* run: cmd.Start fails, or there is a process, which exits by itself or is
\* killed with its group when time.After fires.  Every return is a Done.
StartFails(c) ==
    /\ c \in spawned
    /\ spawned' = spawned \ {c}
    /\ ended' = ended \cup {c}
    /\ waitGroup' = waitGroup - 1
    /\ UNCHANGED <<channel, senders, closed, receiver, running, issued>>

Starts(c) ==
    /\ c \in spawned
    /\ spawned' = spawned \ {c}
    /\ running' = running \cup {c}
    /\ UNCHANGED <<channel, senders, closed, receiver, waitGroup, issued, ended>>

Exits(c) ==
    /\ c \in running
    /\ running' = running \ {c}
    /\ ended' = ended \cup {c}
    /\ waitGroup' = waitGroup - 1
    /\ UNCHANGED <<channel, senders, closed, receiver, spawned, issued>>

\* Variant of TimesOut: the process is killed and Done is not called.
TimesOutNoDone(c) ==
    /\ c \in running
    /\ running' = running \ {c}
    /\ ended' = ended \cup {c}
    /\ UNCHANGED <<channel, senders, closed, receiver, spawned, waitGroup, issued>>

TimesOut(c) == Exits(c)

\* The steps of Stop.
Close ==
    /\ closed' = TRUE
    /\ UNCHANGED <<channel, senders, receiver, spawned, running, waitGroup, issued, ended>>

Drained == receiver = "end"
AllEnded == waitGroup = 0

CmdTypeOK ==
    /\ channel \in Seq(Cmds) /\ Len(channel) <= Capacity
    /\ {senders, spawned, running, issued, ended} \subseteq SUBSET Cmds
    /\ closed \in BOOLEAN
    /\ receiver \in {"off", "range", "end"}
    /\ waitGroup \in Nat

\* The goroutines of this part keep running; time.After fires.  That a command
\* exits by itself is not assumed.
CmdStep ==
    \/ \E c \in Cmds : Send(c) \/ StartFails(c) \/ Starts(c) \/ Exits(c) \/ TimesOut(c)
    \/ Receive \/ RangeEnds
================================================================================
