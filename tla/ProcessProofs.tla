----------------------------- MODULE ProcessProofs -----------------------------
(***************************************************************************)
(* The safety properties of Process, for any number of files and any       *)
(* command line: what the exit code says, that no command is lost, and     *)
(* that the channel of the commands is closed late enough.                 *)
(***************************************************************************)
EXTENDS Process, FiniteSetTheorems, TLAPS

(***************************************************************************)
(* The inductive invariant.                                                *)
(***************************************************************************)
MainPlaces == {"wait", "init", "registry", "listen", "join", "fin", "heartbeat",
               "drain", "results", "exited", "crashed", "killed"}
ServePlaces == {"off", "serve", "store", "done"}
DlPlaces == {"off", "setup", "transfer", "complete", "joining", "commit", "command", "send", "store", "done"}
SigPlaces == {"off", "new", "select", "close", "shutdown", "done"}
IdlePlaces == {"off", "run", "fired", "end"}
CtlPlaces == {"off", "new", "run", "end"}
RegPlaces == {"off", "new", "select", "beat", "end"}
Places == [main : MainPlaces, serve : ServePlaces, dl : DlPlaces,
           sig : SigPlaces, idle : IdlePlaces, ctl : CtlPlaces, reg : RegPlaces]
Causes == {"wait", "init", "registry", "listen", "serve", "idle", "manifest", "verify", "download"}

\* The types of what is not about commands.
Typed ==
    /\ flag \in Flags /\ g \in Places
    /\ ctxDone \subseteq {"ctx", "download", "registry"}
    /\ todo \subseteq Files /\ exitCode \in {0, 1} /\ failures \subseteq Causes
BooleansTyped ==
    /\ shut \in BOOLEAN /\ quiet \in BOOLEAN /\ signal \in BOOLEAN /\ swapped \in BOOLEAN
    /\ completed \in BOOLEAN /\ stopped \in BOOLEAN

\* How far main's three goroutines are, wherever main is.  Before Listen none
\* was started and no context is cancelled; after MainJoin all are done, or
\* Listen failed and none was started.
NoneStarted == g.serve = "off" /\ g.dl = "off" /\ g.sig = "off"
AllDone == g.serve = "done" /\ g.dl = "done" /\ g.sig = "done"
Phases ==
    /\ g.main \in {"wait", "init", "registry", "listen"} => NoneStarted /\ ctxDone = {} /\ failures = {}
    /\ g.main = "join" => g.serve # "off" /\ g.dl # "off" /\ g.sig # "off"
    /\ g.main \in {"fin", "heartbeat", "drain", "results", "exited"} =>
          AllDone \/ (NoneStarted /\ failures # {})

\* Why the contexts are cancelled.
Finished == completed = TRUE /\ todo = {}
Excused == stopped = TRUE \/ failures # {}
Reasons ==
    /\ "ctx" \in ctxDone => Excused \/ (Finished /\ flag.exitComplete /\ ~flag.serveOnly)
    /\ "download" \in ctxDone => failures # {} \/ (todo = {} /\ g.dl \notin {"off", "setup", "transfer"})
    /\ g.sig \in {"close", "shutdown", "done"} => "ctx" \in ctxDone

\* What the download goroutine has achieved, wherever it is.
Download ==
    /\ g.dl \notin {"off", "setup", "done"} => ~flag.serveOnly
    /\ g.dl \in {"complete", "joining"} => todo = {}
    /\ g.dl = "joining" => completed = TRUE
    /\ g.dl \in {"commit", "command", "send"} => Excused \/ Finished
    /\ g.idle = "run" => g.dl \in {"transfer", "complete", "joining"}
    /\ g.ctl \in {"new", "run"} => g.dl \in {"transfer", "complete", "joining"}

\* A failure is in the exit code, or will be before its goroutine is joined.
CodeFollows ==
    /\ exitCode = 1 => failures # {}
    /\ failures # {} => exitCode = 1 \/ g.serve = "store" \/ g.dl = "store"
    /\ g.serve = "store" \/ g.dl = "store" => failures # {}

\* The heartbeat loop exists with a registry only, the controller with peers.
Ticking ==
    /\ g.reg # "off" => flag.heartbeat > 0
    /\ g.ctl # "off" => flag.peers /\ ~flag.serveOnly
    /\ CrashHasCause

\* Where the commands are.
InChannel == {channel[k] : k \in 1..Len(channel)}
Commanded ==
    /\ issued \subseteq Cmds /\ closed \in BOOLEAN /\ receiver \in {"off", "range", "end"}
    /\ channel \in Seq(Cmds) /\ Len(channel) <= Capacity
    /\ issued = senders \cup InChannel \cup spawned \cup running \cup ended
    /\ senders \cap InChannel = {} /\ senders \cap spawned = {} /\ senders \cap running = {}
    /\ InChannel \cap spawned = {} /\ InChannel \cap running = {} /\ spawned \cap running = {}

\* The wait group counts every command that has not ended, in whatever place.
Counted ==
    /\ IsFiniteSet(senders) /\ IsFiniteSet(spawned) /\ IsFiniteSet(running)
    /\ waitGroup = Cardinality(senders) + Len(channel) + Cardinality(spawned) + Cardinality(running)

\* Every command is issued once, and a sender keeps its goroutine from ending;
\* so nobody sends when the channel is closed.
Callers ==
    /\ todo \cap issued = {}
    /\ OnComplete \in issued => g.dl \in {"send", "done"}
    /\ senders # {} => g.dl = "transfer" \/ (g.dl = "send" /\ senders = {OnComplete})
    /\ closed => g.main \in {"drain", "results", "exited", "crashed", "killed"}
    /\ closed => g.dl \in {"off", "done"}
    /\ g.dl = "off" => issued = {}

CmdInv == Commanded /\ Counted
ProcInv == Typed /\ Phases /\ Reasons /\ Download /\ CodeFollows /\ Ticking
IInv == ProcInv /\ BooleansTyped /\ CmdInv /\ Callers /\ NoCommandLost

(***************************************************************************)
(* The channel has room for one command.                                   *)
(***************************************************************************)
LEMMA EmptyByLen ==
    ASSUME NEW S, NEW s \in Seq(S), Len(s) = 0
    PROVE  s = << >>
  OBVIOUS

\* The channel has room for one command.
LEMMA ChannelHolds ==
    ASSUME channel \in Seq(Cmds), Len(channel) <= Capacity
    PROVE  /\ channel = << >> => InChannel = {} /\ Len(channel) = 0
           /\ channel # << >> => InChannel = {Head(channel)} /\ Len(channel) = 1
                                 /\ Tail(channel) = << >> /\ Head(channel) \in Cmds
  <1>1. Len(channel) = 0 \/ Len(channel) = 1
    <2>1. Len(channel) \in Nat /\ Len(channel) <= 1
      BY DEF Capacity
    <2> QED
      BY <2>1
  <1>2. CASE Len(channel) = 0
    <2>1. channel = << >> /\ 1..Len(channel) = {}
      BY <1>2
    <2> QED
      BY <1>2, <2>1 DEF InChannel
  <1>3. CASE Len(channel) = 1
    <2>1. channel # << >> /\ 1..Len(channel) = {1} /\ Head(channel) = channel[1] /\ channel[1] \in Cmds
      BY <1>3
    <2>2. Tail(channel) = << >>
      <3>1. Tail(channel) \in Seq(Cmds) /\ Len(Tail(channel)) = 0
        BY <1>3, <2>1
      <3> QED
        BY <3>1, EmptyByLen
    <2> QED
      BY <1>3, <2>1, <2>2 DEF InChannel
  <1> QED
    BY <1>1, <1>2, <1>3

\* An empty channel holds no command.
LEMMA EmptyInChannel == channel' = << >> => InChannel' = {} /\ Len(channel') = 0
  <1> SUFFICES ASSUME channel' = << >> PROVE InChannel' = {} /\ Len(channel') = 0
    OBVIOUS
  <1>1. Len(channel') = 0 /\ 1..Len(channel') = {}
    OBVIOUS
  <1> QED
    BY <1>1 DEF InChannel

\* A channel with one command.
LEMMA OneInChannel ==
    ASSUME NEW c \in Cmds, channel' = <<c>>
    PROVE  channel' \in Seq(Cmds) /\ InChannel' = {c} /\ Len(channel') = 1
  <1>1. channel' \in Seq(Cmds) /\ Len(channel') = 1 /\ channel'[1] = c /\ 1..Len(channel') = {1}
    OBVIOUS
  <1> QED
    BY <1>1 DEF InChannel

(***************************************************************************)
(* The steps of Commands keep its two invariants.                          *)
(***************************************************************************)
LEMMA CmdUnchanged == CmdInv /\ UNCHANGED cmdVars => CmdInv'
  <1> SUFFICES ASSUME CmdInv, UNCHANGED cmdVars PROVE CmdInv'
    OBVIOUS
  <1>1. /\ channel' = channel /\ senders' = senders /\ closed' = closed /\ receiver' = receiver
        /\ spawned' = spawned /\ running' = running /\ waitGroup' = waitGroup
        /\ issued' = issued /\ ended' = ended
    BY DEF cmdVars
  <1>2. InChannel' = InChannel
    BY <1>1 DEF InChannel
  <1> QED
    BY <1>1, <1>2 DEF CmdInv, Commanded, Counted

\* A command is issued: the wait group is raised.
LEMMA IssueCmdInv ==
    ASSUME CmdInv, NEW c \in Cmds \ issued, Issue(c)
    PROVE  CmdInv'
  <1>1. /\ senders' = senders \cup {c} /\ waitGroup' = waitGroup + 1 /\ issued' = issued \cup {c}
        /\ channel' = channel /\ closed' = closed /\ receiver' = receiver
        /\ spawned' = spawned /\ running' = running /\ ended' = ended
    BY DEF Issue
  <1>2. InChannel' = InChannel
    BY <1>1 DEF InChannel
  <1>3. Commanded'
    BY <1>1, <1>2 DEF CmdInv, Commanded
  <1>4. c \notin senders
    BY DEF CmdInv, Commanded
  <1>5. IsFiniteSet(senders') /\ Cardinality(senders') = Cardinality(senders) + 1
    BY <1>1, <1>4, FS_AddElement DEF CmdInv, Counted
  <1>6. Cardinality(senders) \in Nat /\ Cardinality(spawned) \in Nat /\ Cardinality(running) \in Nat
    BY FS_CardinalityType DEF CmdInv, Counted
  <1>7. Len(channel) \in Nat
    BY DEF CmdInv, Commanded
  <1>8. Counted'
    BY <1>1, <1>5, <1>6, <1>7 DEF CmdInv, Counted
  <1> QED
    BY <1>3, <1>8 DEF CmdInv

\* A command is put into the channel.
LEMMA SendCmdInv ==
    ASSUME CmdInv, NEW c \in Cmds, Send(c)
    PROVE  CmdInv'
  <1>1. /\ c \in senders /\ Len(channel) < 1 /\ channel' = Append(channel, c)
        /\ senders' = senders \ {c} /\ closed' = closed /\ receiver' = receiver
        /\ spawned' = spawned /\ running' = running /\ waitGroup' = waitGroup
        /\ issued' = issued /\ ended' = ended
    BY DEF Send, Capacity
  <1>2. channel = << >>
    BY <1>1 DEF CmdInv, Commanded
  <1>3. InChannel = {} /\ Len(channel) = 0
    BY <1>2, ChannelHolds DEF CmdInv, Commanded
  <1>4. channel' = <<c>>
    BY <1>1, <1>2
  <1>5. channel' \in Seq(Cmds) /\ InChannel' = {c} /\ Len(channel') = 1
    BY <1>4, OneInChannel
  <1>6. Commanded'
    BY <1>1, <1>3, <1>5 DEF CmdInv, Commanded, Capacity
  <1>7. IsFiniteSet(senders') /\ Cardinality(senders') = Cardinality(senders) - 1
    BY <1>1, FS_RemoveElement DEF CmdInv, Counted
  <1>8. Cardinality(senders) \in Nat /\ Cardinality(spawned) \in Nat /\ Cardinality(running) \in Nat
    BY FS_CardinalityType DEF CmdInv, Counted
  <1>9. Counted'
    BY <1>1, <1>3, <1>5, <1>7, <1>8 DEF CmdInv, Counted
  <1> QED
    BY <1>6, <1>9 DEF CmdInv

\* A command is taken from the channel.
LEMMA ReceiveCmdInv ==
    ASSUME CmdInv, Receive
    PROVE  CmdInv'
  <1> DEFINE c == Head(channel)
  <1>1. /\ channel # << >> /\ channel' = Tail(channel) /\ spawned' = spawned \cup {c}
        /\ senders' = senders /\ closed' = closed /\ receiver' = receiver /\ running' = running
        /\ waitGroup' = waitGroup /\ issued' = issued /\ ended' = ended
    BY DEF Receive
  <1>2. InChannel = {c} /\ Len(channel) = 1 /\ channel' = << >> /\ c \in Cmds
    BY <1>1, ChannelHolds DEF CmdInv, Commanded
  <1>3. InChannel' = {} /\ Len(channel') = 0 /\ channel' \in Seq(Cmds)
    BY <1>2, EmptyInChannel
  <1> HIDE DEF c
  <1>4. Commanded'
    BY <1>1, <1>2, <1>3 DEF CmdInv, Commanded, Capacity
  <1>5. c \notin spawned
    BY <1>2 DEF CmdInv, Commanded
  <1>6. IsFiniteSet(spawned') /\ Cardinality(spawned') = Cardinality(spawned) + 1
    BY <1>1, <1>5, FS_AddElement DEF CmdInv, Counted
  <1>7. Cardinality(senders) \in Nat /\ Cardinality(spawned) \in Nat /\ Cardinality(running) \in Nat
    BY FS_CardinalityType DEF CmdInv, Counted
  <1>8. Counted'
    <2>1. waitGroup = Cardinality(senders) + 1 + Cardinality(spawned) + Cardinality(running)
      BY <1>2 DEF CmdInv, Counted
    <2>2. waitGroup' = waitGroup /\ senders' = senders /\ running' = running
      BY <1>1
    <2>3. waitGroup' = Cardinality(senders') + Len(channel') + Cardinality(spawned') + Cardinality(running')
      BY <1>3, <1>6, <1>7, <2>1, <2>2
    <2> QED
      BY <1>6, <2>2, <2>3 DEF CmdInv, Counted
  <1> QED
    BY <1>4, <1>8 DEF CmdInv

\* A run goroutine goes from place to place, or ends.
LEMMA RunCmdInv ==
    ASSUME CmdInv, NEW c \in Cmds, StartFails(c) \/ Starts(c) \/ Exits(c)
    PROVE  CmdInv'
  <1>1. channel' = channel /\ senders' = senders /\ closed' = closed /\ receiver' = receiver /\ issued' = issued
    BY DEF StartFails, Starts, Exits
  <1>2. InChannel' = InChannel
    BY <1>1 DEF InChannel
  <1>3. Cardinality(senders) \in Nat /\ Cardinality(spawned) \in Nat /\ Cardinality(running) \in Nat
    BY FS_CardinalityType DEF CmdInv, Counted
  <1>4. Len(channel) \in Nat
    BY DEF CmdInv, Commanded
  <1>5. c \in spawned => IsFiniteSet(spawned \ {c}) /\ Cardinality(spawned \ {c}) = Cardinality(spawned) - 1
    BY FS_RemoveElement DEF CmdInv, Counted
  <1>6. c \in running => IsFiniteSet(running \ {c}) /\ Cardinality(running \ {c}) = Cardinality(running) - 1
    BY FS_RemoveElement DEF CmdInv, Counted
  <1>7. c \notin running => IsFiniteSet(running \cup {c}) /\ Cardinality(running \cup {c}) = Cardinality(running) + 1
    BY FS_AddElement DEF CmdInv, Counted
  <1>8. CASE StartFails(c)
    <2>1. Commanded'
      BY <1>1, <1>2, <1>8 DEF CmdInv, Commanded, StartFails
    <2>2. Counted'
      BY <1>1, <1>3, <1>4, <1>5, <1>8 DEF CmdInv, Counted, StartFails
    <2> QED
      BY <2>1, <2>2 DEF CmdInv
  <1>9. CASE Starts(c)
    <2>1. c \notin running
      BY <1>9 DEF CmdInv, Commanded, Starts
    <2>2. Commanded'
      BY <1>1, <1>2, <1>9, <2>1 DEF CmdInv, Commanded, Starts
    <2>3. Counted'
      BY <1>1, <1>3, <1>4, <1>5, <1>7, <1>9, <2>1 DEF CmdInv, Counted, Starts
    <2> QED
      BY <2>2, <2>3 DEF CmdInv
  <1>10. CASE Exits(c)
    <2>1. Commanded'
      BY <1>1, <1>2, <1>10 DEF CmdInv, Commanded, Exits
    <2>2. Counted'
      BY <1>1, <1>3, <1>4, <1>6, <1>10 DEF CmdInv, Counted, Exits
    <2> QED
      BY <2>1, <2>2 DEF CmdInv
  <1> QED
    BY <1>8, <1>9, <1>10

\* Run, the end of the receiver and Close change nothing that is counted.
LEMMA ReceiverCmdInv ==
    ASSUME CmdInv, Run \/ RangeEnds \/ Close
    PROVE  CmdInv'
  <1>1. /\ channel' = channel /\ senders' = senders /\ spawned' = spawned /\ running' = running
        /\ waitGroup' = waitGroup /\ issued' = issued /\ ended' = ended
    BY DEF Run, RangeEnds, Close
  <1>2. closed' \in BOOLEAN /\ receiver' \in {"off", "range", "end"}
    BY DEF CmdInv, Commanded, Run, RangeEnds, Close
  <1>3. InChannel' = InChannel
    BY <1>1 DEF InChannel
  <1> QED
    BY <1>1, <1>2, <1>3 DEF CmdInv, Commanded, Counted

\* Every step of the command queue keeps its invariant.
LEMMA CmdStepCmdInv == CmdInv /\ CmdStep => CmdInv'
  BY SendCmdInv, RunCmdInv, ReceiveCmdInv, ReceiverCmdInv DEF CmdStep, TimesOut

(***************************************************************************)
(* The steps of the process keep the rest of the invariant.                *)
(***************************************************************************)
LEMMA ThreePlaces ==
    ASSUME g \in Places, NEW d \in DlPlaces, NEW w \in IdlePlaces, NEW k \in CtlPlaces,
           g' = [g EXCEPT !.dl = d, !.ctl = k, !.idle = w]
    PROVE  /\ g' \in Places /\ g'.main = g.main /\ g'.serve = g.serve /\ g'.dl = d
           /\ g'.sig = g.sig /\ g'.idle = w /\ g'.ctl = k /\ g'.reg = g.reg
  BY DEF Places

\* The main goroutine.
LEMMA MainProcInv ==
    ASSUME ProcInv, ~Ended, HostCompleted \/ WaitTimeout \/ InitFails \/ InitRuns \/ RegistryStarts \/ RegistryFails \/ ListenFails \/ Listen \/ MainJoin \/ RegistryStop \/ CommandStop \/ CommandDrained \/ Exit
    PROVE  ProcInv'
  <1> USE DEF ProcInv, Typed, Places, MainPlaces, ServePlaces, DlPlaces, SigPlaces, IdlePlaces, CtlPlaces, RegPlaces, Causes
  <1> USE DEF Phases, NoneStarted, AllDone, Reasons, Finished, Excused, Download, CodeFollows, Ticking, CrashHasCause
  <1> USE DEF Goto, Failed, server, outcome, quietMain, quietDl, quietSig, quietReg, quietFin
  <1>1. CASE HostCompleted
    BY <1>1, FlagsAssumption DEF HostCompleted
  <1>2. CASE WaitTimeout
    BY <1>2, FlagsAssumption DEF WaitTimeout
  <1>3. CASE InitFails
    BY <1>3, FlagsAssumption DEF InitFails
  <1>4. CASE InitRuns
    BY <1>4, FlagsAssumption DEF InitRuns
  <1>5. CASE RegistryStarts
    <2>1. /\ g' \in Places /\ g'.main = "listen" /\ g'.serve = g.serve
          /\ g'.dl = g.dl /\ g'.sig = g.sig
          /\ g'.idle = g.idle /\ g'.ctl = g.ctl /\ g'.reg = IF flag.heartbeat > 0 THEN "new" ELSE "off"
      BY <1>5 DEF RegistryStarts
    <2>2. Typed'
      BY <1>5, <2>1, FlagsAssumption DEF RegistryStarts
    <2>3. Phases'
      BY <1>5, <2>1, FlagsAssumption DEF RegistryStarts
    <2>4. Reasons'
      BY <1>5, <2>1, FlagsAssumption DEF RegistryStarts
    <2>5. Download'
      BY <1>5, <2>1, FlagsAssumption DEF RegistryStarts
    <2>6. CodeFollows'
      BY <1>5, <2>1, FlagsAssumption DEF RegistryStarts
    <2>7. Ticking'
      BY <1>5, <2>1, FlagsAssumption DEF RegistryStarts
    <2> QED
      BY <2>2, <2>3, <2>4, <2>5, <2>6, <2>7
  <1>6. CASE RegistryFails
    BY <1>6, FlagsAssumption DEF RegistryFails
  <1>7. CASE ListenFails
    BY <1>7, FlagsAssumption DEF ListenFails
  <1>8. CASE Listen
    <2>1. /\ g' \in Places /\ g'.main = "join" /\ g'.serve = "serve"
          /\ g'.dl = "setup" /\ g'.sig = "new"
          /\ g'.idle = g.idle /\ g'.ctl = g.ctl /\ g'.reg = g.reg
      BY <1>8 DEF Listen
    <2>2. Typed'
      BY <1>8, <2>1, FlagsAssumption DEF Listen
    <2>3. Phases'
      BY <1>8, <2>1, FlagsAssumption DEF Listen
    <2>4. Reasons'
      BY <1>8, <2>1, FlagsAssumption DEF Listen
    <2>5. Download'
      BY <1>8, <2>1, FlagsAssumption DEF Listen
    <2>6. CodeFollows'
      BY <1>8, <2>1, FlagsAssumption DEF Listen
    <2>7. Ticking'
      BY <1>8, <2>1, FlagsAssumption DEF Listen
    <2> QED
      BY <2>2, <2>3, <2>4, <2>5, <2>6, <2>7
  <1>9. CASE MainJoin
    BY <1>9, FlagsAssumption DEF MainJoin
  <1>10. CASE RegistryStop
    BY <1>10, FlagsAssumption DEF RegistryStop
  <1>11. CASE CommandStop
    BY <1>11, FlagsAssumption DEF CommandStop
  <1>12. CASE CommandDrained
    BY <1>12, FlagsAssumption DEF CommandDrained
  <1>13. CASE Exit
    BY <1>13, FlagsAssumption DEF Exit
  <1> QED
    BY <1>1, <1>2, <1>3, <1>4, <1>5, <1>6, <1>7, <1>8, <1>9, <1>10, <1>11, <1>12, <1>13

\* The download goroutine.
LEMMA DownloadProcInv ==
    ASSUME ProcInv, ~Ended, Setup \/ CompleteOne \/ StoreCompleted \/ IdleTimeout \/ IdleEnds \/ PeerDiffers \/ DownloadJoin \/ Commit \/ RunOnComplete \/ DownloadReturns \/ DownloadFails \/ DownloadStores
    PROVE  ProcInv'
  <1> USE DEF ProcInv, Typed, Places, MainPlaces, ServePlaces, DlPlaces, SigPlaces, IdlePlaces, CtlPlaces, RegPlaces, Causes
  <1> USE DEF Phases, NoneStarted, AllDone, Reasons, Finished, Excused, Download, CodeFollows, Ticking, CrashHasCause
  <1> USE DEF Goto, Failed, server, outcome, quietMain, quietDl, quietSig, quietReg, quietFin
  <1>1. CASE Setup
    <2> DEFINE d == IF flag.serveOnly THEN "done" ELSE "transfer"
               w == IF flag.transferIdle /\ ~flag.serveOnly THEN "run" ELSE "off"
               k == IF flag.peers /\ ~flag.serveOnly THEN "new" ELSE "off"
    <2>a. /\ d \in {"done", "transfer"} /\ w \in {"run", "off"} /\ k \in {"new", "off"}
          /\ d = "done" => w = "off" /\ k = "off"
          /\ d = "transfer" => ~flag.serveOnly
          /\ k = "new" => flag.peers
      OBVIOUS
    <2>b. g.dl = "setup" /\ g' = [g EXCEPT !.dl = d, !.ctl = k, !.idle = w]
      BY <1>1 DEF Setup
    <2>c. UNCHANGED <<flag, ctxDone, todo, completed, exitCode, failures, stopped, swapped>>
      BY <1>1 DEF Setup
    <2> HIDE DEF d, w, k
    <2>1. /\ g' \in Places /\ g'.main = g.main /\ g'.serve = g.serve /\ g'.dl = d
          /\ g'.sig = g.sig /\ g'.idle = w /\ g'.ctl = k /\ g'.reg = g.reg
      <3>1. d \in DlPlaces /\ w \in IdlePlaces /\ k \in CtlPlaces
        BY <2>a
      <3> HIDE DEF Places, DlPlaces, IdlePlaces, CtlPlaces
      <3>2. g \in Places
        OBVIOUS
      <3> QED
        BY ONLY <2>b, <3>1, <3>2, ThreePlaces
    <2>2. Typed'
      BY <2>a, <2>b, <2>c, <2>1
    <2>3. Phases'
      BY <2>a, <2>b, <2>c, <2>1
    <2>4. Reasons'
      BY <2>a, <2>b, <2>c, <2>1
    <2>5. Download'
      BY <2>a, <2>b, <2>c, <2>1
    <2>6. CodeFollows'
      BY <2>a, <2>b, <2>c, <2>1
    <2>7. Ticking'
      BY <2>a, <2>b, <2>c, <2>1
    <2> QED
      BY <2>2, <2>3, <2>4, <2>5, <2>6, <2>7
  <1>2. CASE CompleteOne
    BY <1>2, FlagsAssumption DEF CompleteOne
  <1>3. CASE StoreCompleted
    BY <1>3, FlagsAssumption DEF StoreCompleted
  <1>4. CASE IdleTimeout
    <2>1. /\ g' \in Places /\ g'.main = g.main /\ g'.serve = g.serve
          /\ g'.dl = g.dl /\ g'.sig = g.sig
          /\ g'.idle = "fired" /\ g'.ctl = g.ctl /\ g'.reg = g.reg
      BY <1>4 DEF IdleTimeout
    <2>2. Typed'
      BY <1>4, <2>1, FlagsAssumption DEF IdleTimeout
    <2>3. Phases'
      BY <1>4, <2>1, FlagsAssumption DEF IdleTimeout
    <2>4. Reasons'
      BY <1>4, <2>1, FlagsAssumption DEF IdleTimeout
    <2>5. Download'
      BY <1>4, <2>1, FlagsAssumption DEF IdleTimeout
    <2>6. CodeFollows'
      BY <1>4, <2>1, FlagsAssumption DEF IdleTimeout
    <2>7. Ticking'
      BY <1>4, <2>1, FlagsAssumption DEF IdleTimeout
    <2> QED
      BY <2>2, <2>3, <2>4, <2>5, <2>6, <2>7
  <1>5. CASE IdleEnds
    BY <1>5, FlagsAssumption DEF IdleEnds
  <1>6. CASE PeerDiffers
    BY <1>6, FlagsAssumption DEF PeerDiffers
  <1>7. CASE DownloadJoin
    <2>1. /\ g' \in Places /\ g'.main = g.main /\ g'.serve = g.serve
          /\ g'.dl = "commit" /\ g'.sig = g.sig
          /\ g'.idle = g.idle /\ g'.ctl = g.ctl /\ g'.reg = g.reg
      BY <1>7 DEF DownloadJoin
    <2>2. Typed'
      BY <1>7, <2>1, FlagsAssumption DEF DownloadJoin
    <2>3. Phases'
      BY <1>7, <2>1, FlagsAssumption DEF DownloadJoin
    <2>4. Reasons'
      BY <1>7, <2>1, FlagsAssumption DEF DownloadJoin
    <2>5. Download'
      <3>1. Excused \/ Finished
        <4>1. CASE g.dl = "joining"
          BY <4>1
        <4>2. CASE g.dl = "transfer" /\ "download" \in ctxDone
          BY <4>2
        <4>3. CASE g.dl = "transfer" /\ "ctx" \in ctxDone
          BY <4>3
        <4> QED
          BY <1>7, <4>1, <4>2, <4>3 DEF DownloadJoin, DownloadCtxDone
      <3>2. UNCHANGED <<flag, stopped, failures, completed, todo>> /\ g.idle # "run" /\ g.ctl \notin {"new", "run"} /\ g.dl \in {"transfer", "joining"}
        BY <1>7 DEF DownloadJoin
      <3> QED
        BY <2>1, <3>1, <3>2
    <2>6. CodeFollows'
      BY <1>7, <2>1, FlagsAssumption DEF DownloadJoin
    <2>7. Ticking'
      BY <1>7, <2>1, FlagsAssumption DEF DownloadJoin
    <2> QED
      BY <2>2, <2>3, <2>4, <2>5, <2>6, <2>7
  <1>8. CASE Commit
    <2>1. /\ g' \in Places /\ g'.main = g.main /\ g'.serve = g.serve
          /\ g'.dl = "command" /\ g'.sig = g.sig
          /\ g'.idle = g.idle /\ g'.ctl = g.ctl /\ g'.reg = g.reg
      BY <1>8 DEF Commit
    <2>2. Typed'
      <3>1. exitCode' \in {0, 1} /\ failures' \subseteq Causes
        BY <1>8 DEF Commit
      <3>2. UNCHANGED <<flag, ctxDone, todo>>
        BY <1>8 DEF Commit
      <3> QED
        BY <2>1, <3>1, <3>2
    <2>3. Phases'
      BY <1>8, <2>1, FlagsAssumption DEF Commit
    <2>4. Reasons'
      BY <1>8, <2>1, FlagsAssumption DEF Commit
    <2>5. Download'
      BY <1>8, <2>1, FlagsAssumption DEF Commit
    <2>6. CodeFollows'
      BY <1>8, <2>1, FlagsAssumption DEF Commit
    <2>7. Ticking'
      BY <1>8, <2>1, FlagsAssumption DEF Commit
    <2> QED
      BY <2>2, <2>3, <2>4, <2>5, <2>6, <2>7
  <1>9. CASE RunOnComplete
    BY <1>9, FlagsAssumption DEF RunOnComplete
  <1>10. CASE DownloadReturns
    BY <1>10, FlagsAssumption DEF DownloadReturns
  <1>11. CASE DownloadFails
    BY <1>11, FlagsAssumption DEF DownloadFails
  <1>12. CASE DownloadStores
    BY <1>12, FlagsAssumption DEF DownloadStores
  <1> QED
    BY <1>1, <1>2, <1>3, <1>4, <1>5, <1>6, <1>7, <1>8, <1>9, <1>10, <1>11, <1>12

\* The controller of the peers.
LEMMA ControllerProcInv ==
    ASSUME ProcInv, ~Ended, ControllerStarts \/ ControllerEnds \/ UpdaterPanics \/ PeerSwaps \/ IndexPanics
    PROVE  ProcInv'
  <1> USE DEF ProcInv, Typed, Places, MainPlaces, ServePlaces, DlPlaces, SigPlaces, IdlePlaces, CtlPlaces, RegPlaces, Causes
  <1> USE DEF Phases, NoneStarted, AllDone, Reasons, Finished, Excused, Download, CodeFollows, Ticking, CrashHasCause
  <1> USE DEF Goto, server, outcome, quietDl
  <1>1. CASE ControllerStarts
    BY <1>1, FlagsAssumption DEF ControllerStarts
  <1>2. CASE ControllerEnds
    BY <1>2, FlagsAssumption DEF ControllerEnds, Ended
  <1>3. CASE UpdaterPanics
    BY <1>3, FlagsAssumption DEF UpdaterPanics
  <1>4. CASE PeerSwaps
    BY <1>4, FlagsAssumption DEF PeerSwaps, Ended
  <1>5. CASE IndexPanics
    BY <1>5, FlagsAssumption DEF IndexPanics
  <1> QED
    BY <1>1, <1>2, <1>3, <1>4, <1>5

\* The HTTP server.
LEMMA ServerProcInv ==
    ASSUME ProcInv, ~Ended, ServeFails \/ ServeStores \/ ServeCloses \/ Respond \/ Notify \/ Signal \/ TimePasses \/ StopAsked \/ CtxDone \/ Shutdown \/ ShutdownReturns
    PROVE  ProcInv'
  <1> USE DEF ProcInv, Typed, Places, MainPlaces, ServePlaces, DlPlaces, SigPlaces, IdlePlaces, CtlPlaces, RegPlaces, Causes
  <1> USE DEF Phases, NoneStarted, AllDone, Reasons, Finished, Excused, Download, CodeFollows, Ticking, CrashHasCause
  <1> USE DEF Goto, Failed, server, outcome, quietMain, quietDl, quietSig, quietReg, quietFin
  <1>1. CASE ServeFails
    BY <1>1, FlagsAssumption DEF ServeFails
  <1>2. CASE ServeStores
    BY <1>2, FlagsAssumption DEF ServeStores
  <1>3. CASE ServeCloses
    BY <1>3, FlagsAssumption DEF ServeCloses
  <1>4. CASE Respond
    BY <1>4, FlagsAssumption DEF Respond
  <1>5. CASE Notify
    BY <1>5, FlagsAssumption DEF Notify
  <1>6. CASE Signal
    BY <1>6, FlagsAssumption DEF Signal
  <1>7. CASE TimePasses
    BY <1>7, FlagsAssumption DEF TimePasses
  <1>8. CASE StopAsked
    BY <1>8, FlagsAssumption DEF StopAsked
  <1>9. CASE CtxDone
    BY <1>9, FlagsAssumption DEF CtxDone
  <1>10. CASE Shutdown
    BY <1>10, FlagsAssumption DEF Shutdown
  <1>11. CASE ShutdownReturns
    BY <1>11, FlagsAssumption DEF ShutdownReturns
  <1> QED
    BY <1>1, <1>2, <1>3, <1>4, <1>5, <1>6, <1>7, <1>8, <1>9, <1>10, <1>11

\* The registry heartbeat.
LEMMA RegistryProcInv ==
    ASSUME ProcInv, ~Ended, NewTicker \/ Heartbeat \/ HeartbeatEnds \/ RegistryEnds
    PROVE  ProcInv'
  <1> USE DEF ProcInv, Typed, Places, MainPlaces, ServePlaces, DlPlaces, SigPlaces, IdlePlaces, CtlPlaces, RegPlaces, Causes
  <1> USE DEF Phases, NoneStarted, AllDone, Reasons, Finished, Excused, Download, CodeFollows, Ticking, CrashHasCause
  <1> USE DEF Goto, Failed, server, outcome, quietMain, quietDl, quietSig, quietReg, quietFin
  <1>1. CASE NewTicker
    BY <1>1, FlagsAssumption DEF NewTicker
  <1>2. CASE Heartbeat
    BY <1>2, FlagsAssumption DEF Heartbeat
  <1>3. CASE HeartbeatEnds
    BY <1>3, FlagsAssumption DEF HeartbeatEnds
  <1>4. CASE RegistryEnds
    BY <1>4, FlagsAssumption DEF RegistryEnds
  <1> QED
    BY <1>1, <1>2, <1>3, <1>4

\* A file is complete.
LEMMA FileDoneProcInv ==
    ASSUME ProcInv, NEW f \in Files, FileDone(f)
    PROVE  ProcInv'
  <1>1. /\ g.dl = "transfer" /\ todo' \subseteq todo
        /\ UNCHANGED <<flag, g, ctxDone, completed, exitCode, failures, stopped, swapped>>
    BY DEF FileDone, quietDl, server
  <1>2. Typed'
    BY <1>1 DEF ProcInv, Typed
  <1>3. Phases' /\ CodeFollows' /\ Ticking'
    BY <1>1 DEF ProcInv, Phases, NoneStarted, AllDone, CodeFollows, Ticking, CrashHasCause
  <1>4. Reasons' /\ Download'
    BY <1>1 DEF ProcInv, Reasons, Download, Finished, Excused
  <1> QED
    BY <1>2, <1>3, <1>4 DEF ProcInv

\* Whatever is not about the process itself.
LEMMA RestProcInv ==
    ASSUME ProcInv, UNCHANGED <<flag, g, ctxDone, todo, completed, exitCode, failures, stopped, swapped>>
    PROVE  ProcInv'
  <1>1. Typed' /\ Phases'
    BY DEF ProcInv, Typed, Phases, NoneStarted, AllDone
  <1>2. Reasons' /\ Download' /\ CodeFollows' /\ Ticking'
    BY DEF ProcInv, Reasons, Download, Finished, Excused, CodeFollows, Ticking, CrashHasCause
  <1> QED
    BY <1>1, <1>2 DEF ProcInv

\* Nobody sends on a closed channel.
LEMMA NoSendOnClosed == IInv => ~SendPanics
  BY DEF IInv, Callers, SendPanics

\* Every step keeps ProcInv.
LEMMA NextProcInv ==
    ASSUME IInv, Next
    PROVE  ProcInv'
  <1>1. CASE MainStep
    BY <1>1, MainProcInv DEF IInv, MainStep, Next
  <1>2. CASE DownloadStep \/ CompleteOne \/ IdleTimeout \/ IdleEnds \/ PeerDiffers
    BY <1>2, DownloadProcInv DEF IInv, DownloadStep, Next
  <1>3. CASE Notify \/ SigStep \/ ServeFails \/ ServeStores \/ ServeCloses \/ Respond \/ Signal \/ TimePasses
    BY <1>3, ServerProcInv DEF IInv, SigStep, Next
  <1>4. CASE RegStep
    BY <1>4, RegistryProcInv DEF IInv, RegStep, Next
  <1>5. ASSUME NEW f \in Files, FileDone(f) PROVE ProcInv'
    BY <1>5, FileDoneProcInv DEF IInv
  <1>6. CASE CommandStep
    BY <1>6, RestProcInv DEF IInv, CommandStep, outcome, server
  <1>7. CASE SendOnClosed
    BY <1>7, NoSendOnClosed DEF SendOnClosed
  <1>8. CASE CtlStep
    BY <1>8, ControllerProcInv DEF IInv, CtlStep, Next
  <1> QED
    BY <1>1, <1>2, <1>3, <1>4, <1>5, <1>6, <1>7, <1>8 DEF Next

\* The flags stay Boolean.
LEMMA NextBooleans ==
    ASSUME IInv, Next
    PROVE  BooleansTyped'
  <1> USE DEF server, outcome, Failed, quietMain, quietDl, quietSig, quietReg, quietFin
  <1>1. shut' \in {shut, TRUE} /\ quiet' \in {quiet, TRUE, FALSE} /\ signal' \in {signal, TRUE}
        /\ swapped' \in {swapped, TRUE, FALSE} /\ stopped' \in {stopped, TRUE}
    <2>1. CASE MainStep
      BY <2>1 DEF MainStep, HostCompleted, WaitTimeout, InitFails, InitRuns, RegistryStarts, RegistryFails,
                  ListenFails, Listen, MainJoin, RegistryStop, CommandStop, CommandDrained, Exit
    <2>2. CASE DownloadStep \/ CompleteOne \/ IdleTimeout \/ IdleEnds \/ PeerDiffers \/ \E f \in Files : FileDone(f)
      BY <2>2 DEF DownloadStep, Setup, StoreCompleted, DownloadJoin, Commit, RunOnComplete, DownloadReturns,
                  DownloadFails, DownloadStores, CompleteOne, IdleTimeout, IdleEnds, PeerDiffers, FileDone
    <2>3. CASE Notify \/ SigStep \/ ServeFails \/ ServeStores \/ ServeCloses \/ Respond \/ Signal \/ TimePasses
      BY <2>3 DEF Notify, SigStep, StopAsked, CtxDone, Shutdown, ShutdownReturns, ServeFails, ServeStores,
                  ServeCloses, Respond, Signal, TimePasses
    <2>4. CASE RegStep \/ CtlStep \/ CommandStep \/ SendOnClosed
      BY <2>4 DEF RegStep, NewTicker, Heartbeat, HeartbeatEnds, RegistryEnds, CommandStep, SendOnClosed,
                  CtlStep, ControllerStarts, ControllerEnds, UpdaterPanics, PeerSwaps, IndexPanics
    <2> QED
      BY <2>1, <2>2, <2>3, <2>4 DEF Next
  <1>2. completed' \in {completed, TRUE, flag.serveOnly}
    <2>1. CASE MainStep
      BY <2>1 DEF MainStep, HostCompleted, WaitTimeout, InitFails, InitRuns, RegistryStarts, RegistryFails,
                  ListenFails, Listen, MainJoin, RegistryStop, CommandStop, CommandDrained, Exit
    <2>2. CASE DownloadStep \/ CompleteOne \/ IdleTimeout \/ IdleEnds \/ PeerDiffers \/ \E f \in Files : FileDone(f)
      BY <2>2 DEF DownloadStep, Setup, StoreCompleted, DownloadJoin, Commit, RunOnComplete, DownloadReturns,
                  DownloadFails, DownloadStores, CompleteOne, IdleTimeout, IdleEnds, PeerDiffers, FileDone
    <2>3. CASE Notify \/ SigStep \/ ServeFails \/ ServeStores \/ ServeCloses \/ Respond \/ Signal \/ TimePasses
      BY <2>3 DEF Notify, SigStep, StopAsked, CtxDone, Shutdown, ShutdownReturns, ServeFails, ServeStores,
                  ServeCloses, Respond, Signal, TimePasses
    <2>4. CASE RegStep \/ CtlStep \/ CommandStep \/ SendOnClosed
      BY <2>4 DEF RegStep, NewTicker, Heartbeat, HeartbeatEnds, RegistryEnds, CommandStep, SendOnClosed,
                  CtlStep, ControllerStarts, ControllerEnds, UpdaterPanics, PeerSwaps, IndexPanics
    <2> QED
      BY <2>1, <2>2, <2>3, <2>4 DEF Next
  <1>3. flag.serveOnly \in BOOLEAN
    BY FlagsAssumption DEF IInv, ProcInv, Typed
  <1> QED
    BY <1>1, <1>2, <1>3 DEF IInv, BooleansTyped

(***************************************************************************)
(* The commands and their callers.                                         *)
(***************************************************************************)

\* A caller gives away a command that was not issued before.
LEMMA NextCmdInv ==
    ASSUME IInv, Next
    PROVE  CmdInv'
  <1>1. CASE UNCHANGED cmdVars
    BY <1>1, CmdUnchanged DEF IInv
  <1>2. CASE InitRuns \/ CommandStop
    BY <1>2, ReceiverCmdInv DEF IInv, InitRuns, CommandStop
  <1>3. CASE RunOnComplete
    <2>1. OnComplete \in Cmds \ issued
      BY <1>3, CmdsAssumption DEF RunOnComplete, IInv, Callers
    <2> QED
      BY <1>1, <1>3, <2>1, IssueCmdInv DEF RunOnComplete, IInv
  <1>4. ASSUME NEW f \in Files, FileDone(f) PROVE CmdInv'
    <2>1. f \in Cmds \ issued
      BY <1>4, CmdsAssumption DEF FileDone, IInv, Callers
    <2> QED
      BY <1>1, <1>4, <2>1, IssueCmdInv DEF FileDone, IInv
  <1>5. CASE CommandStep
    BY <1>5, CmdStepCmdInv DEF CommandStep, IInv
  <1>6. CASE MainStep /\ ~InitRuns /\ ~CommandStop
    BY <1>1, <1>6 DEF MainStep, HostCompleted, WaitTimeout, InitFails, RegistryStarts, RegistryFails,
                      ListenFails, Listen, MainJoin, RegistryStop, CommandDrained, Exit
  <1>7. CASE (DownloadStep /\ ~RunOnComplete) \/ CompleteOne \/ IdleTimeout \/ IdleEnds \/ PeerDiffers
    BY <1>1, <1>7 DEF DownloadStep, Setup, StoreCompleted, DownloadJoin, Commit, DownloadReturns,
                DownloadFails, DownloadStores, CompleteOne, IdleTimeout, IdleEnds, PeerDiffers
  <1>8. CASE Notify \/ SigStep \/ ServeFails \/ ServeStores \/ ServeCloses \/ Respond \/ Signal \/ TimePasses
    BY <1>1, <1>8 DEF Notify, SigStep, StopAsked, CtxDone, Shutdown, ShutdownReturns, ServeFails, ServeStores,
                ServeCloses, Respond, Signal, TimePasses, quietSig
  <1>9. CASE RegStep \/ CtlStep \/ SendOnClosed
    BY <1>1, <1>9 DEF RegStep, NewTicker, Heartbeat, HeartbeatEnds, RegistryEnds, SendOnClosed, quietReg,
                CtlStep, ControllerStarts, ControllerEnds, UpdaterPanics, PeerSwaps, IndexPanics
  <1> QED
    BY <1>2, <1>3, <1>4, <1>5, <1>6, <1>7, <1>8, <1>9 DEF Next

\* main closes the channel when the download goroutine is done or was not
\* started.
LEMMA MainCallers ==
    ASSUME IInv, ~Ended,
           HostCompleted \/ WaitTimeout \/ InitFails \/ InitRuns \/ RegistryStarts \/ RegistryFails \/ ListenFails \/ Listen \/ MainJoin \/ RegistryStop \/ CommandStop \/ CommandDrained \/ Exit
    PROVE  Callers'
  <1> USE DEF IInv, ProcInv, Typed, Phases, NoneStarted, AllDone, Callers, Ended
  <1> USE DEF Places, MainPlaces, ServePlaces, DlPlaces, SigPlaces, IdlePlaces, CtlPlaces, RegPlaces
  <1> USE DEF Goto, cmdVars, quietMain, quietDl, quietSig, quietReg, quietFin
  <1>1. CASE HostCompleted
    BY <1>1 DEF HostCompleted
  <1>2. CASE WaitTimeout
    BY <1>2 DEF WaitTimeout
  <1>3. CASE InitFails
    BY <1>3 DEF InitFails
  <1>4. CASE InitRuns
    BY <1>4 DEF InitRuns, Run
  <1>5. CASE RegistryStarts
    BY <1>5 DEF RegistryStarts
  <1>6. CASE RegistryFails
    BY <1>6 DEF RegistryFails
  <1>7. CASE ListenFails
    BY <1>7 DEF ListenFails
  <1>8. CASE Listen
    BY <1>8 DEF Listen
  <1>9. CASE MainJoin
    BY <1>9 DEF MainJoin
  <1>10. CASE RegistryStop
    BY <1>10 DEF RegistryStop
  <1>11. CASE CommandStop
    BY <1>11 DEF CommandStop, Close
  <1>12. CASE CommandDrained
    BY <1>12 DEF CommandDrained
  <1>13. CASE Exit
    BY <1>13 DEF Exit
  <1> QED
    BY <1>1, <1>2, <1>3, <1>4, <1>5, <1>6, <1>7, <1>8, <1>9, <1>10, <1>11, <1>12, <1>13

\* The download goroutine passes a place where somebody may send only when
\* nobody does.
LEMMA DownloadCallers ==
    ASSUME IInv, ~Ended,
           Setup \/ CompleteOne \/ StoreCompleted \/ IdleTimeout \/ IdleEnds \/ PeerDiffers \/ DownloadJoin \/ Commit \/ RunOnComplete \/ DownloadReturns \/ DownloadFails \/ DownloadStores
    PROVE  Callers'
  <1> USE DEF IInv, ProcInv, Typed, Phases, NoneStarted, AllDone, Callers, Ended
  <1> USE DEF Places, MainPlaces, ServePlaces, DlPlaces, SigPlaces, IdlePlaces, CtlPlaces, RegPlaces
  <1> USE DEF Goto, cmdVars, quietMain, quietDl, quietSig, quietReg, quietFin
  <1>1. CASE Setup
    BY <1>1 DEF Setup
  <1>2. CASE CompleteOne
    BY <1>2 DEF CompleteOne
  <1>3. CASE StoreCompleted
    BY <1>3 DEF StoreCompleted
  <1>4. CASE IdleTimeout
    BY <1>4 DEF IdleTimeout
  <1>5. CASE IdleEnds
    BY <1>5 DEF IdleEnds
  <1>6. CASE PeerDiffers
    BY <1>6 DEF PeerDiffers
  <1>7. CASE DownloadJoin
    BY <1>7 DEF DownloadJoin
  <1>8. CASE Commit
    BY <1>8 DEF Commit
  <1>9. CASE RunOnComplete
    <2>1. /\ g.dl = "command" /\ senders = {} /\ OnComplete \notin todo /\ todo' = todo /\ g.main = g'.main
          /\ g'.dl = "send"
      BY <1>9, CmdsAssumption DEF RunOnComplete
    <2>2. \/ UNCHANGED cmdVars
          \/ senders' = {OnComplete} /\ issued' = issued \cup {OnComplete} /\ closed' = closed
      BY <1>9, <2>1 DEF RunOnComplete, Issue
    <2> QED
      BY <2>1, <2>2
  <1>10. CASE DownloadReturns
    BY <1>10 DEF DownloadReturns
  <1>11. CASE DownloadFails
    BY <1>11 DEF DownloadFails
  <1>12. CASE DownloadStores
    BY <1>12 DEF DownloadStores
  <1> QED
    BY <1>1, <1>2, <1>3, <1>4, <1>5, <1>6, <1>7, <1>8, <1>9, <1>10, <1>11, <1>12

\* The other goroutines have nothing to do with commands.
LEMMA ServerCallers ==
    ASSUME IInv, ~Ended,
           ServeFails \/ ServeStores \/ ServeCloses \/ Respond \/ Notify \/ Signal \/ TimePasses \/ StopAsked \/ CtxDone \/ Shutdown \/ ShutdownReturns \/ NewTicker \/ Heartbeat \/ HeartbeatEnds \/ RegistryEnds \/ CtlStep
    PROVE  Callers'
  <1> USE DEF IInv, ProcInv, Typed, Phases, NoneStarted, AllDone, Callers, Ended
  <1> USE DEF Places, MainPlaces, ServePlaces, DlPlaces, SigPlaces, IdlePlaces, CtlPlaces, RegPlaces
  <1> USE DEF Goto, cmdVars, quietMain, quietDl, quietSig, quietReg, quietFin
  <1>1. CASE ServeFails
    BY <1>1 DEF ServeFails
  <1>2. CASE ServeStores
    BY <1>2 DEF ServeStores
  <1>3. CASE ServeCloses
    BY <1>3 DEF ServeCloses
  <1>4. CASE Respond
    BY <1>4 DEF Respond
  <1>5. CASE Notify
    BY <1>5 DEF Notify
  <1>6. CASE Signal
    BY <1>6 DEF Signal
  <1>7. CASE TimePasses
    BY <1>7 DEF TimePasses
  <1>8. CASE StopAsked
    BY <1>8 DEF StopAsked
  <1>9. CASE CtxDone
    BY <1>9 DEF CtxDone
  <1>10. CASE Shutdown
    BY <1>10 DEF Shutdown
  <1>11. CASE ShutdownReturns
    BY <1>11 DEF ShutdownReturns
  <1>12. CASE NewTicker
    BY <1>12 DEF NewTicker
  <1>13. CASE Heartbeat
    BY <1>13 DEF Heartbeat
  <1>14. CASE HeartbeatEnds
    BY <1>14 DEF HeartbeatEnds
  <1>15. CASE RegistryEnds
    BY <1>15 DEF RegistryEnds
  <1>16. CASE CtlStep
    BY <1>16 DEF CtlStep, ControllerStarts, ControllerEnds, UpdaterPanics, PeerSwaps, IndexPanics
  <1> QED
    BY <1>1, <1>2, <1>3, <1>4, <1>5, <1>6, <1>7, <1>8, <1>9, <1>10, <1>11, <1>12, <1>13, <1>14, <1>15, <1>16

\* The download goroutine issues a file command.
LEMMA FileDoneCallers ==
    ASSUME IInv, NEW f \in Files, FileDone(f)
    PROVE  Callers'
  <1>1. g.dl = "transfer" /\ f \in todo /\ todo' = todo \ {f} /\ g' = g /\ f # OnComplete
    BY CmdsAssumption DEF FileDone
  <1>2. UNCHANGED cmdVars \/ Issue(f)
    BY DEF FileDone
  <1>3. /\ closed' = closed /\ issued' \subseteq issued \cup {f}
        /\ OnComplete \in issued' => OnComplete \in issued
    BY <1>1, <1>2 DEF cmdVars, Issue
  <1> QED
    BY <1>1, <1>3 DEF IInv, Callers

\* The command queue runs on its own.
LEMMA CommandStepCallers ==
    ASSUME IInv, CommandStep
    PROVE  Callers'
  <1>1. g' = g /\ todo' = todo
    BY DEF CommandStep
  <1>2. issued' = issued /\ closed' = closed /\ senders' \subseteq senders
    BY DEF CommandStep, CmdStep, Send, StartFails, Starts, Exits, TimesOut, Receive, RangeEnds
  <1>3. senders' # {} => senders # {} /\ (senders = {OnComplete} => senders' = {OnComplete})
    BY <1>2
  <1> QED
    BY <1>1, <1>2, <1>3 DEF IInv, Callers

\* Every step keeps Callers.
LEMMA NextCallers ==
    ASSUME IInv, Next
    PROVE  Callers'
  <1>1. CASE MainStep
    BY <1>1, MainCallers DEF MainStep, Next
  <1>2. CASE DownloadStep \/ CompleteOne \/ IdleTimeout \/ IdleEnds \/ PeerDiffers
    BY <1>2, DownloadCallers DEF DownloadStep, Next
  <1>3. CASE Notify \/ SigStep \/ ServeFails \/ ServeStores \/ ServeCloses \/ Respond \/ Signal \/ TimePasses \/ RegStep \/ CtlStep
    BY <1>3, ServerCallers DEF SigStep, RegStep, Next
  <1>4. ASSUME NEW f \in Files, FileDone(f) PROVE Callers'
    BY <1>4, FileDoneCallers
  <1>5. CASE CommandStep
    BY <1>5, CommandStepCallers
  <1>6. CASE SendOnClosed
    BY <1>6, NoSendOnClosed DEF SendOnClosed
  <1> QED
    BY <1>1, <1>2, <1>3, <1>4, <1>5, <1>6 DEF Next

\* The wait group is 0 only if no command is anywhere.
LEMMA NothingLeft ==
    ASSUME CmdInv, waitGroup = 0
    PROVE  issued = ended /\ senders \cup spawned \cup running = {}
  <1>1. Cardinality(senders) \in Nat /\ Cardinality(spawned) \in Nat /\ Cardinality(running) \in Nat
    BY FS_CardinalityType DEF CmdInv, Counted
  <1>2. Len(channel) \in Nat
    BY DEF CmdInv, Commanded
  <1>3. Cardinality(senders) = 0 /\ Cardinality(spawned) = 0 /\ Cardinality(running) = 0 /\ Len(channel) = 0
    BY <1>1, <1>2 DEF CmdInv, Counted
  <1>4. senders = {} /\ spawned = {} /\ running = {}
    BY <1>3, FS_EmptySet DEF CmdInv, Counted
  <1>5. InChannel = {}
    BY <1>3, EmptyByLen, ChannelHolds DEF CmdInv, Commanded
  <1> QED
    BY <1>4, <1>5 DEF CmdInv, Commanded

\* The process exits only when the command queue is empty.
LEMMA NextNoCommandLost ==
    ASSUME IInv, Next
    PROVE  NoCommandLost'
  <1> DEFINE Empty == issued = ended /\ senders \cup spawned \cup running = {}
  <1>1. SUFFICES ASSUME g'.main = "exited" PROVE Empty'
    BY DEF NoCommandLost
  <1>2. g.main # "exited"
    BY DEF Next, Ended
  <1>3. CASE WaitTimeout \/ InitFails \/ RegistryFails \/ Exit
    <2>1. Empty
      <3>1. CASE WaitTimeout \/ InitFails \/ RegistryFails
        <4>1. g.dl = "off"
          BY <3>1 DEF WaitTimeout, InitFails, RegistryFails, IInv, ProcInv, Phases, NoneStarted
        <4>2. issued = {}
          BY <4>1 DEF IInv, Callers
        <4> QED
          BY <4>2 DEF IInv, CmdInv, Commanded
      <3>2. CASE Exit
        BY <3>2, NothingLeft DEF Exit, AllEnded, IInv
      <3> QED
        BY <1>3, <3>1, <3>2
    <2>2. UNCHANGED cmdVars
      BY <1>3 DEF WaitTimeout, InitFails, RegistryFails, Exit
    <2> QED
      BY <2>1, <2>2 DEF cmdVars
  <1>4. ASSUME ~(WaitTimeout \/ InitFails \/ RegistryFails \/ Exit) PROVE g'.main # "exited"
    <2> USE DEF Goto, IInv, ProcInv, Typed, Places
    <2>1. CASE MainStep
      BY <1>2, <1>4, <2>1 DEF MainStep, HostCompleted, InitRuns, RegistryStarts, ListenFails, Listen,
                              MainJoin, RegistryStop, CommandStop, CommandDrained
    <2>2. CASE DownloadStep \/ CompleteOne \/ IdleTimeout \/ IdleEnds \/ PeerDiffers \/ \E f \in Files : FileDone(f)
      BY <1>2, <2>2 DEF DownloadStep, Setup, StoreCompleted, DownloadJoin, Commit, RunOnComplete, DownloadReturns,
                  DownloadFails, DownloadStores, CompleteOne, IdleTimeout, IdleEnds, PeerDiffers, FileDone
    <2>3. CASE Notify \/ SigStep \/ ServeFails \/ ServeStores \/ ServeCloses \/ Respond \/ Signal \/ TimePasses
      BY <1>2, <2>3 DEF Notify, SigStep, StopAsked, CtxDone, Shutdown, ShutdownReturns, ServeFails, ServeStores,
                  ServeCloses, Respond, Signal, TimePasses
    <2>4. CASE RegStep \/ CtlStep \/ CommandStep \/ SendOnClosed
      BY <1>2, <2>4 DEF RegStep, NewTicker, Heartbeat, HeartbeatEnds, RegistryEnds, CommandStep, SendOnClosed,
                  CtlStep, ControllerStarts, ControllerEnds, UpdaterPanics, PeerSwaps, IndexPanics
    <2> QED
      BY <2>1, <2>2, <2>3, <2>4 DEF Next
  <1> QED
    BY <1>1, <1>3, <1>4

(***************************************************************************)
(* The invariant and the theorems.                                         *)
(***************************************************************************)
LEMMA InitIInv == Init => IInv
  <1> SUFFICES ASSUME Init PROVE IInv
    OBVIOUS
  <1>1. Typed
    BY DEF Init, Typed, Places, MainPlaces, ServePlaces, DlPlaces, SigPlaces, IdlePlaces, CtlPlaces, RegPlaces, Causes
  <1>2. BooleansTyped
    BY DEF Init, BooleansTyped
  <1>3. Phases /\ Reasons /\ Download /\ CodeFollows /\ Ticking
    BY DEF Init, Phases, NoneStarted, AllDone, Reasons, Finished, Excused, Download, CodeFollows, Ticking,
           CrashHasCause
  <1>4. InChannel = {} /\ Len(channel) = 0 /\ channel \in Seq(Cmds)
    <2>1. channel = << >>
      BY DEF Init, CmdInit
    <2>2. Len(channel) = 0 /\ channel \in Seq(Cmds) /\ 1..Len(channel) = {}
      BY <2>1
    <2> QED
      BY <2>2 DEF InChannel
  <1>5. Commanded
    <2>1. /\ senders = {} /\ spawned = {} /\ running = {} /\ issued = {} /\ ended = {}
          /\ receiver = "off"
      BY DEF Init, CmdInit
    <2>2. closed \in BOOLEAN
      BY DEF Init, CmdInit
    <2>3. Len(channel) <= Capacity
      BY <1>4 DEF Capacity
    <2> QED
      BY <1>4, <2>1, <2>2, <2>3 DEF Commanded
  <1>6. Counted
    BY <1>4, FS_EmptySet DEF Init, CmdInit, Counted
  <1>7. Callers /\ NoCommandLost
    BY DEF Init, CmdInit, Callers, NoCommandLost
  <1> QED
    BY <1>1, <1>2, <1>3, <1>5, <1>6, <1>7 DEF IInv, ProcInv, CmdInv

\* Every step keeps the invariant.
LEMMA NextIInv == IInv /\ [Next]_vars => IInv'
  <1> SUFFICES ASSUME IInv, [Next]_vars PROVE IInv'
    OBVIOUS
  <1>1. CASE Next
    BY <1>1, NextProcInv, NextBooleans, NextCmdInv, NextCallers, NextNoCommandLost DEF IInv
  <1>2. CASE UNCHANGED vars
    <2>1. /\ UNCHANGED cmdVars /\ g' = g /\ todo' = todo
          /\ UNCHANGED <<flag, g, ctxDone, todo, completed, exitCode, failures, stopped, swapped>>
          /\ UNCHANGED <<shut, quiet, signal, swapped, completed, stopped>>
      BY <1>2 DEF vars, server, outcome
    <2>2. ProcInv'
      BY <2>1, RestProcInv DEF IInv
    <2>3. BooleansTyped'
      BY <2>1 DEF IInv, BooleansTyped
    <2>4. CmdInv'
      BY <2>1, CmdUnchanged DEF IInv
    <2>5. Callers' /\ NoCommandLost'
      BY <2>1 DEF IInv, Callers, NoCommandLost, cmdVars
    <2> QED
      BY <2>2, <2>3, <2>4, <2>5 DEF IInv
  <1> QED
    BY <1>1, <1>2

\* The invariant holds.
LEMMA Invariance == Spec => []IInv
  BY InitIInv, NextIInv, PTL DEF Spec

\* Type correctness; the wait group never goes below zero, which would panic.
THEOREM ProcessTyped == Spec => []TypeOK
  <1>1. IInv => TypeOK
    <2> SUFFICES ASSUME IInv PROVE TypeOK
      OBVIOUS
    <2>1. CmdTypeOK
      <3>1. Cardinality(senders) \in Nat /\ Cardinality(spawned) \in Nat /\ Cardinality(running) \in Nat
        BY FS_CardinalityType DEF IInv, CmdInv, Counted
      <3>2. Len(channel) \in Nat
        BY DEF IInv, CmdInv, Commanded
      <3>3. waitGroup \in Nat
        BY <3>1, <3>2 DEF IInv, CmdInv, Counted
      <3>4. {senders, spawned, running, issued, ended} \subseteq SUBSET Cmds
        BY DEF IInv, CmdInv, Commanded
      <3> QED
        BY <3>3, <3>4 DEF CmdTypeOK, IInv, CmdInv, Commanded
    <2>2. {shut, quiet, signal, swapped, completed, stopped} \subseteq BOOLEAN
      BY DEF IInv, BooleansTyped
    <2> QED
      BY <2>1, <2>2 DEF TypeOK, IInv, ProcInv, Typed, Places, MainPlaces, ServePlaces, DlPlaces,
                        SigPlaces, IdlePlaces, CtlPlaces, RegPlaces, Causes
  <1> QED
    BY <1>1, Invariance, PTL

\* Every panic has one of the four known causes: an interval that Init does not
\* check, or a peer replaced by one with more chunks.  Nobody sends on the closed
\* command channel, at whatever time Command.Stop closes it.
THEOREM CrashCauses == Spec => []CrashHasCause
  <1>1. IInv => CrashHasCause
    BY DEF IInv, ProcInv, Ticking
  <1> QED
    BY <1>1, Invariance, PTL

\* The exit code that main reads last is 1 exactly if something failed.
THEOREM ExitCodeRight == Spec => []ExitCodeTells
  <1>1. IInv => ExitCodeTells
    BY DEF IInv, ProcInv, Phases, NoneStarted, AllDone, CodeFollows, ExitCodeTells
  <1> QED
    BY <1>1, Invariance, PTL

\* Exit code 0 that nobody asked for is a complete transfer.
THEOREM ExitZeroRight == Spec => []ExitZeroIsComplete
  <1>1. ASSUME IInv, g.main = "exited", exitCode = 0, stopped = FALSE
        PROVE  completed = TRUE /\ todo = {} /\ flag.exitComplete /\ ~flag.serveOnly
    <2>1. failures = {} /\ AllDone
      BY <1>1 DEF IInv, ProcInv, Phases, NoneStarted, AllDone, CodeFollows
    <2>2. "ctx" \in ctxDone
      BY <1>1, <2>1 DEF IInv, ProcInv, Reasons, AllDone
    <2> QED
      BY <1>1, <2>1, <2>2 DEF IInv, ProcInv, Reasons, Finished, Excused
  <1>2. IInv => ExitZeroIsComplete
    BY <1>1 DEF ExitZeroIsComplete, IInv, BooleansTyped
  <1> QED
    BY <1>2, Invariance, PTL

\* Command.Stop waits for every command that was ever given to it.
THEOREM CommandsKept == Spec => []NoCommandLost
  <1>1. IInv => NoCommandLost
    BY DEF IInv
  <1> QED
    BY <1>1, Invariance, PTL
================================================================================
