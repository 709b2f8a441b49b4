-------------------------------- MODULE Process --------------------------------
(***************************************************************************)
(* One p2pcp process from start to exit: main, MainContext.Init and Fin,   *)
(* the three goroutines main starts (HTTP server, download, signals), the  *)
(* peer controller with the updaters of its peers, the transfer's idle     *)
(* watchdog, the registry's heartbeat loop and, composed from Commands,    *)
(* the user's commands.                                                    *)
(*                                                                         *)
(* DownloadFiles is seen from outside: its workers finish files, it is     *)
(* cancelled or complete, its goroutines are joined, it commits and        *)
(* verifies.  That it returns once it is cancelled, with no worker left,   *)
(* is CancelReturns and NothingOutlivesJoin of ChunkTransfer.              *)
(***************************************************************************)
EXTENDS Commands, FiniteSets

CONSTANTS
    Files,       \* the files of the manifest, one chunk each
    OnComplete,  \* the command of -execute-on-complete
    Flags        \* the command lines; see FlagsAssumption

ASSUME CmdsAssumption == OnComplete \notin Files /\ Cmds = Files \cup {OnComplete}
ASSUME FlagsAssumption ==
    Flags \subseteq [serveOnly : BOOLEAN,     \* -src without -dst
                     waitHost : BOOLEAN,      \* -wait-host
                     exitComplete : BOOLEAN,  \* -exit-complete
                     transferIdle : BOOLEAN,  \* -transfer-idle-timeout > 0
                     seedIdle : BOOLEAN,      \* -seed-idle-timeout > 0
                     verify : BOOLEAN,        \* -verify-on-complete
                     commands : BOOLEAN,      \* both -execute-on flags
                     peers : BOOLEAN,         \* a -peer-list flag
                     polls : BOOLEAN,         \* -peer-list-poll-interval > 0
                     syncs : BOOLEAN,         \* -sync-interval > 0
                     heartbeat : Nat]         \* its interval in ms, 0: no registry

VARIABLES
    flag,        \* the command line
    g,           \* where every goroutine is
    ctxDone,     \* the contexts that were cancelled
    shut,        \* server.Shutdown was called
    quiet,       \* LastSentAt is at least -seed-idle-timeout ago
    signal,      \* a signal is in signalChan
    swapped,     \* a peer of the controller is another process than the one it was
                 \* when it was compared, and has more chunks
    todo,        \* the files whose chunk is not transferred
    completed,   \* MainContext.Completed
    exitCode,    \* MainContext.ExitCode
    failures,    \* what went wrong (history)
    stopped      \* somebody asked the process to stop (history)

server  == <<shut, quiet, signal, swapped>>
outcome == <<exitCode, failures, stopped>>
vars    == <<flag, g, ctxDone, server, todo, completed, outcome, cmdVars>>

Init ==
    /\ flag \in Flags
    /\ g = [main |-> IF flag.waitHost THEN "wait" ELSE "init",
            serve |-> "off", dl |-> "off", sig |-> "off", idle |-> "off", ctl |-> "off", reg |-> "off"]
    /\ ctxDone = {}
    /\ shut = FALSE /\ quiet = FALSE /\ signal = FALSE /\ swapped = FALSE
    /\ todo \in SUBSET Files
    /\ completed = FALSE
    /\ exitCode = 0 /\ failures = {} /\ stopped = FALSE
    /\ CmdInit

\* DownloadCtx is a child of ctx.
DownloadCtxDone == ctxDone \cap {"ctx", "download"} # {}

\* Goroutine r goes on at place p.
Goto(r, p) == g' = [g EXCEPT ![r] = p]

\* ExitCode.Store(1), because of f.
Failed(f) ==
    /\ exitCode' = 1
    /\ failures' = failures \cup {f}
    /\ UNCHANGED stopped

(***************************************************************************)
(* main, before its goroutines.  The first failures return before Fin is   *)
(* deferred.                                                               *)
(***************************************************************************)
quietMain == <<flag, ctxDone, server, todo>>

HostCompleted ==
    /\ g.main = "wait"
    /\ Goto("main", "init")
    /\ UNCHANGED <<quietMain, completed, outcome, cmdVars>>

WaitTimeout ==
    /\ g.main = "wait"
    /\ Goto("main", "exited") /\ Failed("wait")
    /\ UNCHANGED <<quietMain, completed, cmdVars>>

\* A flag, the storages, the provider or the manifest is in error.
InitFails ==
    /\ g.main = "init"
    /\ Goto("main", "exited") /\ Failed("init")
    /\ UNCHANGED <<quietMain, completed, cmdVars>>

\* Init up to Command.Run.
InitRuns ==
    /\ g.main = "init"
    /\ Goto("main", "registry")
    /\ completed' = flag.serveOnly
    /\ Run
    /\ UNCHANGED <<quietMain, outcome>>

RegistryStarts ==
    /\ g.main = "registry"
    /\ g' = [g EXCEPT !.main = "listen", !.reg = IF flag.heartbeat > 0 THEN "new" ELSE "off"]
    /\ UNCHANGED <<quietMain, completed, outcome, cmdVars>>

\* The first heartbeat is not answered.
RegistryFails ==
    /\ g.main = "registry" /\ flag.heartbeat > 0
    /\ Goto("main", "exited") /\ Failed("registry")
    /\ UNCHANGED <<quietMain, completed, cmdVars>>

ListenFails ==
    /\ g.main = "listen"
    /\ Goto("main", "fin") /\ Failed("listen")
    /\ UNCHANGED <<quietMain, completed, cmdVars>>

Listen ==
    /\ g.main = "listen"
    /\ g' = [g EXCEPT !.main = "join", !.serve = "serve", !.dl = "setup", !.sig = "new"]
    /\ UNCHANGED <<quietMain, completed, outcome, cmdVars>>

(***************************************************************************)
(* The server goroutine and the handlers.                                  *)
(***************************************************************************)

\* Serve fails; ctxCancel comes before the exit code.
ServeFails ==
    /\ g.serve = "serve" /\ ~shut
    /\ Goto("serve", "store")
    /\ ctxDone' = ctxDone \cup {"ctx"}
    /\ failures' = failures \cup {"serve"}
    /\ UNCHANGED <<flag, server, todo, completed, exitCode, stopped, cmdVars>>

ServeStores ==
    /\ g.serve = "store"
    /\ Goto("serve", "done")
    /\ exitCode' = 1
    /\ UNCHANGED <<flag, ctxDone, server, todo, completed, failures, stopped, cmdVars>>

\* ErrServerClosed, at once after Shutdown, whatever the handlers do.
ServeCloses ==
    /\ g.serve = "serve" /\ shut
    /\ Goto("serve", "done")
    /\ UNCHANGED <<flag, ctxDone, server, todo, completed, outcome, cmdVars>>

\* A handler has returned and muxWrapping stores LastSentAt.  Handlers may
\* still run after Shutdown.
Respond ==
    /\ g.serve # "off" /\ quiet
    /\ quiet' = FALSE
    /\ UNCHANGED <<flag, g, ctxDone, shut, signal, swapped, todo, completed, outcome, cmdVars>>

(***************************************************************************)
(* The download goroutine.                                                 *)
(***************************************************************************)
quietDl == <<flag, server, stopped>>

\* A seeder's goroutine returns at once; otherwise SetupTransfer, and then the
\* controller, the local downloader and the watchdog start.
Setup ==
    /\ g.dl = "setup"
    /\ g' = [g EXCEPT !.dl = IF flag.serveOnly THEN "done" ELSE "transfer",
                      !.ctl = IF flag.peers /\ ~flag.serveOnly THEN "new" ELSE "off",
                      !.idle = IF flag.transferIdle /\ ~flag.serveOnly THEN "run" ELSE "off"]
    /\ UNCHANGED <<quietDl, ctxDone, todo, completed, exitCode, failures, cmdVars>>

\* A worker writes the last range of file f, also when the download was
\* cancelled meanwhile, and reports it before the chunk is Done.
FileDone(f) ==
    /\ g.dl = "transfer" /\ f \in todo
    /\ todo' = todo \ {f}
    /\ IF flag.commands THEN Issue(f) ELSE UNCHANGED cmdVars
    /\ UNCHANGED <<quietDl, g, ctxDone, completed, exitCode, failures>>

\* Every chunk is Done, or there is none: DownloadCancel, then Completed.
CompleteOne ==
    /\ g.dl = "transfer" /\ todo = {} /\ senders = {}
    /\ Goto("dl", "complete")
    /\ ctxDone' = ctxDone \cup {"download"}
    /\ UNCHANGED <<quietDl, todo, completed, exitCode, failures, cmdVars>>

StoreCompleted ==
    /\ g.dl = "complete"
    /\ Goto("dl", "joining")
    /\ completed' = TRUE
    /\ UNCHANGED <<quietDl, ctxDone, todo, exitCode, failures, cmdVars>>

\* Variant of IdleTimeout: the exit code is left to the caller.
IdleTimeoutSilent ==
    /\ g.idle = "run"
    /\ Goto("idle", "fired")
    /\ ctxDone' = ctxDone \cup {"download"}
    /\ failures' = failures \cup {"idle"}
    /\ UNCHANGED <<quietDl, todo, completed, exitCode, cmdVars>>

\* The watchdog's tick.  Its select may prefer the tick to a done context.  It
\* stores the exit code and then cancels; nobody reads the code before this
\* goroutine is joined, so the two are one step.
IdleTimeout ==
    /\ g.idle = "run"
    /\ Goto("idle", "fired")
    /\ ctxDone' = ctxDone \cup {"download"}
    /\ Failed("idle")
    /\ UNCHANGED <<flag, server, todo, completed, cmdVars>>

\* Controller.Run: NewTicker panics unless the interval is positive, which
\* nothing checks.
ControllerStarts ==
    /\ g.ctl = "new"
    /\ IF flag.polls THEN Goto("ctl", "run") ELSE Goto("main", "crashed")
    /\ UNCHANGED <<quietDl, ctxDone, todo, completed, exitCode, failures, cmdVars>>

\* A peer is added, and its updater's NewTicker panics in the same way.
UpdaterPanics ==
    /\ g.ctl = "run" /\ ~flag.syncs
    /\ Goto("main", "crashed")
    /\ UNCHANGED <<quietDl, ctxDone, todo, completed, exitCode, failures, cmdVars>>

\* At the address of a peer that was compared another process is started, with
\* a manifest of more chunks.
PeerSwaps ==
    /\ g.ctl = "run" /\ ~swapped
    /\ swapped' = TRUE
    /\ UNCHANGED <<flag, g, ctxDone, shut, quiet, signal, todo, completed, outcome, cmdVars>>

\* Its answer names a chunk there is none of: markChunkAsReady has no check.
IndexPanics ==
    /\ g.ctl = "run" /\ swapped
    /\ Goto("main", "crashed")
    /\ UNCHANGED <<quietDl, ctxDone, todo, completed, exitCode, failures, cmdVars>>

\* The context is done: stopAll joins the updaters, Fin the workers of the peers.
ControllerEnds ==
    /\ g.ctl = "run" /\ DownloadCtxDone
    /\ Goto("ctl", "end")
    /\ swapped' = FALSE
    /\ UNCHANGED <<flag, ctxDone, shut, quiet, signal, todo, completed, outcome, cmdVars>>

\* A peer has another manifest: its updater stores the exit code and cancels
\* the download.
PeerDiffers ==
    /\ g.ctl = "run" /\ "manifest" \notin failures
    /\ ctxDone' = ctxDone \cup {"download"}
    /\ Failed("manifest")
    /\ UNCHANGED <<flag, g, server, todo, completed, cmdVars>>

IdleEnds ==
    /\ g.idle = "run" /\ DownloadCtxDone
    /\ Goto("idle", "end")
    /\ UNCHANGED <<quietDl, ctxDone, todo, completed, exitCode, failures, cmdVars>>

\* Variant of DownloadJoin: workers that report a file are not waited for.
DownloadJoinEarly ==
    /\ g.dl \in {"transfer", "joining"} /\ DownloadCtxDone
    /\ g.idle # "run" /\ g.ctl \notin {"new", "run"}
    /\ Goto("dl", "commit")
    /\ UNCHANGED <<quietDl, ctxDone, todo, completed, exitCode, failures, cmdVars>>

\* wg.Wait of DownloadFiles: workers that report a file are still running.
DownloadJoin ==
    /\ g.dl \in {"transfer", "joining"} /\ DownloadCtxDone
    /\ g.idle # "run" /\ g.ctl \notin {"new", "run"} /\ senders = {}
    /\ Goto("dl", "commit")
    /\ UNCHANGED <<quietDl, ctxDone, todo, completed, exitCode, failures, cmdVars>>

\* CompleteTransfer and, if asked for, VerifyTransfer, whose result does not
\* stop DownloadFiles.
Commit ==
    /\ g.dl = "commit"
    /\ Goto("dl", "command")
    /\ \/ UNCHANGED <<exitCode, failures, stopped>>
       \/ flag.verify /\ Failed("verify")
    /\ UNCHANGED <<flag, server, ctxDone, todo, completed, cmdVars>>

RunOnComplete ==
    /\ g.dl = "command"
    /\ Goto("dl", "send")
    /\ IF flag.commands THEN Issue(OnComplete) ELSE UNCHANGED cmdVars
    /\ UNCHANGED <<quietDl, ctxDone, todo, completed, exitCode, failures>>

\* DownloadFiles returns nil: ctx is cancelled with -exit-complete only.
DownloadReturns ==
    /\ g.dl = "send" /\ OnComplete \notin senders
    /\ Goto("dl", "done")
    /\ ctxDone' = ctxDone \cup (IF flag.exitComplete THEN {"ctx"} ELSE {})
    /\ UNCHANGED <<quietDl, todo, completed, exitCode, failures, cmdVars>>

\* SetupTransfer or CompleteTransfer fails: ctxCancel, then the exit code.
DownloadFails ==
    /\ g.dl \in {"setup", "commit"} /\ ~flag.serveOnly
    /\ Goto("dl", "store")
    /\ ctxDone' = ctxDone \cup {"ctx"}
    /\ failures' = failures \cup {"download"}
    /\ UNCHANGED <<quietDl, todo, completed, exitCode, cmdVars>>

DownloadStores ==
    /\ g.dl = "store"
    /\ Goto("dl", "done")
    /\ exitCode' = 1
    /\ UNCHANGED <<quietDl, ctxDone, todo, completed, failures, cmdVars>>

(***************************************************************************)
(* The signal goroutine.  A signal before Notify or after Stop takes the   *)
(* default action: the process is killed.                                  *)
(***************************************************************************)
quietSig == <<flag, todo, completed, exitCode, failures, cmdVars>>

Notify ==
    /\ g.sig = "new"
    /\ Goto("sig", "select")
    /\ quiet' = FALSE
    /\ UNCHANGED <<quietSig, ctxDone, shut, signal, swapped, stopped>>

Signal ==
    /\ IF g.sig \in {"select", "close", "shutdown"}
       THEN signal' = TRUE /\ UNCHANGED g
       ELSE Goto("main", "killed") /\ UNCHANGED signal
    /\ UNCHANGED <<quietSig, ctxDone, shut, quiet, swapped, stopped>>

TimePasses ==
    /\ flag.seedIdle /\ quiet' = TRUE
    /\ UNCHANGED <<quietSig, g, ctxDone, shut, signal, swapped, stopped>>

\* The two branches of the select that cancel ctx.
StopAsked ==
    /\ g.sig = "select" /\ (signal \/ (flag.seedIdle /\ quiet))
    /\ Goto("sig", "close")
    /\ ctxDone' = ctxDone \cup {"ctx"}
    /\ stopped' = TRUE
    /\ UNCHANGED <<quietSig, server>>

CtxDone ==
    /\ g.sig = "select" /\ "ctx" \in ctxDone
    /\ Goto("sig", "close")
    /\ UNCHANGED <<quietSig, ctxDone, server, stopped>>

Shutdown ==
    /\ g.sig = "close"
    /\ Goto("sig", "shutdown")
    /\ shut' = TRUE
    /\ UNCHANGED <<quietSig, ctxDone, quiet, signal, swapped, stopped>>

\* Shutdown waits for the handlers, for ShutdownTimeout at most.
ShutdownReturns ==
    /\ g.sig = "shutdown"
    /\ Goto("sig", "done")
    /\ UNCHANGED <<quietSig, ctxDone, server, stopped>>

(***************************************************************************)
(* The registry's heartbeat loop.                                          *)
(***************************************************************************)
quietReg == <<flag, ctxDone, server, todo, completed, outcome, cmdVars>>

\* NewTicker is given the interval in whole seconds and panics on 0.
NewTicker ==
    /\ g.reg = "new"
    /\ IF flag.heartbeat \div 1000 > 0 THEN Goto("reg", "select") ELSE Goto("main", "crashed")
    /\ UNCHANGED quietReg

Heartbeat ==
    /\ g.reg = "select"
    /\ Goto("reg", "beat")
    /\ UNCHANGED quietReg

\* Answered, failed, timed out or cancelled: the loop goes on.
HeartbeatEnds ==
    /\ g.reg = "beat"
    /\ Goto("reg", "select")
    /\ UNCHANGED quietReg

RegistryEnds ==
    /\ g.reg = "select" /\ "registry" \in ctxDone
    /\ Goto("reg", "end")
    /\ UNCHANGED quietReg

(***************************************************************************)
(* main, after its goroutines: wg.Wait, Fin and os.Exit.                   *)
(***************************************************************************)
quietFin == <<flag, server, todo, completed, outcome>>

\* Variant of MainJoin: the server goroutine is not in the wait group.
MainJoinNoServe ==
    /\ g.main = "join" /\ {g.dl, g.sig} = {"done"}
    /\ Goto("main", "fin")
    /\ UNCHANGED <<quietFin, ctxDone, cmdVars>>

MainJoin ==
    /\ g.main = "join" /\ {g.serve, g.dl, g.sig} = {"done"}
    /\ Goto("main", "fin")
    /\ UNCHANGED <<quietFin, ctxDone, cmdVars>>

RegistryStop ==
    /\ g.main = "fin"
    /\ Goto("main", "heartbeat")
    /\ ctxDone' = ctxDone \cup (IF g.reg # "off" THEN {"registry"} ELSE {})
    /\ UNCHANGED <<quietFin, cmdVars>>

\* The registry is joined; Command.Stop closes the channel.
CommandStop ==
    /\ g.main = "heartbeat" /\ g.reg \in {"off", "end"}
    /\ Goto("main", "drain")
    /\ Close
    /\ UNCHANGED <<quietFin, ctxDone>>

CommandDrained ==
    /\ g.main = "drain" /\ Drained
    /\ Goto("main", "results")
    /\ UNCHANGED <<quietFin, ctxDone, cmdVars>>

\* Variant of Exit: Stop does not wait for the commands that run.
ExitAtOnce ==
    /\ g.main = "results"
    /\ Goto("main", "exited")
    /\ UNCHANGED <<quietFin, ctxDone, cmdVars>>

Exit ==
    /\ g.main = "results" /\ AllEnded
    /\ Goto("main", "exited")
    /\ UNCHANGED <<quietFin, ctxDone, cmdVars>>

SendOnClosed ==
    /\ SendPanics
    /\ Goto("main", "crashed")
    /\ UNCHANGED <<quietFin, ctxDone, cmdVars>>

(***************************************************************************)
(* The specification.                                                      *)
(***************************************************************************)
Ended == g.main \in {"exited", "crashed", "killed"}

MainStep ==
    \/ HostCompleted \/ WaitTimeout \/ InitFails \/ InitRuns
    \/ RegistryStarts \/ RegistryFails \/ ListenFails \/ Listen
    \/ MainJoin \/ RegistryStop \/ CommandStop \/ CommandDrained \/ Exit
DownloadStep ==
    \/ Setup \/ StoreCompleted \/ DownloadJoin \/ Commit \/ RunOnComplete
    \/ DownloadReturns \/ DownloadFails \/ DownloadStores
CtlStep == ControllerStarts \/ ControllerEnds \/ UpdaterPanics \/ PeerSwaps \/ IndexPanics
SigStep == StopAsked \/ CtxDone \/ Shutdown \/ ShutdownReturns
RegStep == NewTicker \/ Heartbeat \/ HeartbeatEnds \/ RegistryEnds
CommandStep == CmdStep /\ UNCHANGED <<flag, g, ctxDone, server, todo, completed, outcome>>

Next ==
    /\ ~Ended
    /\ \/ MainStep \/ DownloadStep \/ Notify \/ SigStep \/ RegStep
       \/ ServeFails \/ ServeStores \/ ServeCloses \/ Respond
       \/ (\E f \in Files : FileDone(f)) \/ CompleteOne
       \/ IdleTimeout \/ IdleEnds \/ CtlStep \/ PeerDiffers
       \/ Signal \/ TimePasses
       \/ CommandStep \/ SendOnClosed

Spec == Init /\ [][Next]_vars

(***************************************************************************)
(* Fairness.  Every goroutine that can go on does, and a select takes a    *)
(* ready context in the end.  Not assumed: that files arrive, that the     *)
(* transfer completes, that anybody fetches, signals or times out, or that *)
(* a command exits by itself.                                              *)
(***************************************************************************)
Fairness ==
    /\ WF_vars(~Ended /\ MainStep)
    /\ WF_vars(~Ended /\ DownloadStep)
    /\ WF_vars(~Ended /\ (Notify \/ SigStep))
    /\ WF_vars(~Ended /\ (ServeStores \/ ServeCloses))
    /\ WF_vars(~Ended /\ IdleEnds) /\ WF_vars(~Ended /\ (ControllerStarts \/ ControllerEnds))
    /\ WF_vars(~Ended /\ (NewTicker \/ HeartbeatEnds)) /\ SF_vars(~Ended /\ RegistryEnds)
    /\ WF_vars(~Ended /\ CommandStep /\ (Receive \/ RangeEnds))
    /\ \A c \in Cmds :
          /\ SF_vars(~Ended /\ CommandStep /\ Send(c))
          /\ WF_vars(~Ended /\ CommandStep /\ (Starts(c) \/ TimesOut(c)))

FairSpec == Spec /\ Fairness

TypeOK ==
    /\ flag \in Flags
    /\ g \in [main : {"wait", "init", "registry", "listen", "join", "fin", "heartbeat",
                      "drain", "results", "exited", "crashed", "killed"},
              serve : {"off", "serve", "store", "done"},
              dl : {"off", "setup", "transfer", "complete", "joining", "commit",
                    "command", "send", "store", "done"},
              sig : {"off", "new", "select", "close", "shutdown", "done"},
              idle : {"off", "run", "fired", "end"},
              ctl : {"off", "new", "run", "end"},
              reg : {"off", "new", "select", "beat", "end"}]
    /\ ctxDone \subseteq {"ctx", "download", "registry"}
    /\ {shut, quiet, signal, swapped, completed, stopped} \subseteq BOOLEAN
    /\ todo \subseteq Files
    /\ exitCode \in {0, 1}
    /\ failures \subseteq {"wait", "init", "registry", "listen", "serve", "idle", "manifest", "verify", "download"}
    /\ CmdTypeOK

\* A process that starts up properly panics only on an interval that Init lets
\* pass (a heartbeat below a second, registry.go:66; none between polls,
\* controller.go:40, or synchronisations, peer_downloader.go:64) or when a peer
\* it compared was replaced by one with more chunks (peer_downloader.go:238).
\* In particular no worker and no DownloadFiles sends a command after Stop
\* closed the channel, and with none of the four the process never panics.
CrashHasCause ==
    g.main = "crashed" =>
        \/ flag.heartbeat \in 1..999
        \/ flag.peers /\ ~flag.serveOnly /\ (~flag.polls \/ ~flag.syncs \/ swapped)

\* The exit code is 1 exactly if something failed, although both goroutines
\* cancel ctx, which makes main's other goroutines return, before they store it.
ExitCodeTells == g.main = "exited" => (exitCode = 1 <=> failures # {})

\* Exit code 0 without anybody asking for the stop means a complete transfer
\* that was to end the process.
ExitZeroIsComplete ==
    g.main = "exited" /\ exitCode = 0 /\ ~stopped =>
        completed /\ todo = {} /\ flag.exitComplete /\ ~flag.serveOnly

\* Every command that was ever given to RunOnEachFileComplete or RunOnComplete
\* was started or failed to start, and has ended, when the process exits.
NoCommandLost ==
    g.main = "exited" => issued = ended /\ senders \cup spawned \cup running = {}

\* Whatever cancels ctx, wherever the goroutines are: the process ends.
CancelEnds == "ctx" \in ctxDone ~> Ended

\* With -exit-complete a completed transfer ends the process.
CompleteEnds == (flag.exitComplete /\ ~flag.serveOnly /\ completed) ~> Ended

(***************************************************************************)
(* What a comment says, and the code does not do.                          *)
(***************************************************************************)

\* downloader.go:135: after an idle timeout the program terminates.
IdleTimeoutEnds == "idle" \in failures ~> Ended
================================================================================
