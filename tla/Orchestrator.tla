---------------------------- MODULE Orchestrator ----------------------------
(***************************************************************************)
(* The life of an agent process: runStart (internal/cli/start.go), the     *)
(* Orchestrator's Run with the agents in an errgroup and the managers      *)
(* around them, the ShutdownManager and the timer that forces the end.     *)
(* They are goroutines of one process; when one of them ends it, all do.   *)
(*                                                                         *)
(* An agent is what the interface says: its Run may return at any time,    *)
(* with an error or without, or never.  The developer agent's returns      *)
(* after the context is done, when the work on its issue is over.          *)
(***************************************************************************)
EXTENDS Sequences, SequencesExt

CONSTANT Agents

VARIABLES
    signalled,  \* the context of signal.NotifyContext is done
    agent,      \* per agent: "new", "running" or "ended"
    groupErr,   \* an agent's error is what g.Wait() will return
    orch,       \* the step of Run; "done" when its result is in errCh
    active,     \* the managers that are started, in their order
    main,       \* the step of runStart
    gaveUp,     \* runStart did not wait for Run any longer
    shut,       \* what is closed: the log handler, the reporter
    timer,      \* of the forced end: "off", "armed", or "forcing" when it has fired
    exit        \* how the process ended: "no", "ok", "error" or "forced"

processVars == <<signalled, agent, groupErr, orch, active, main, gaveUp, shut, timer, exit>>

\* The process when its agents are about to be started.
ProcessInit ==
    /\ signalled = FALSE
    /\ agent = [a \in Agents |-> "new"]
    /\ groupErr = FALSE
    /\ orch = "config" /\ active = << >>
    /\ main = "select" /\ gaveUp = FALSE /\ shut = {}
    /\ timer = "off" /\ exit = "no"

\* SIGINT or SIGTERM.  Until runStart returns, a second one has no effect.
Signal ==
    /\ exit = "no" /\ ~signalled
    /\ signalled' = TRUE
    /\ UNCHANGED <<agent, groupErr, orch, active, main, gaveUp, shut, timer, exit>>

-----------------------------------------------------------------------------
(* Orchestrator.Run and the goroutines of its errgroup.                    *)

\* The errgroup's context: it ends with the process' and with the first error.
Cancelled == signalled \/ groupErr

\* The managers are started one after the other, before the agents.
After == [config |-> "scheduler", scheduler |-> "rotation", rotation |-> "cleanup",
          cleanup |-> "agents"]

\* One that is not configured or cannot start is not stopped either.
StartManager ==
    /\ exit = "no" /\ orch \in DOMAIN After
    /\ active' \in {active, Append(active, orch)}
    /\ orch' = After[orch]
    /\ UNCHANGED <<signalled, agent, groupErr, main, gaveUp, shut, timer, exit>>

StartAgents ==
    /\ exit = "no" /\ orch = "agents"
    /\ agent' = [a \in Agents |-> "running"]
    /\ orch' = "wait"
    /\ UNCHANGED <<signalled, groupErr, active, main, gaveUp, shut, timer, exit>>

\* An error after the context is done counts as a graceful shutdown.
AgentReturns(a) ==
    /\ exit = "no" /\ agent[a] = "running"
    /\ agent' = [agent EXCEPT ![a] = "ended"]
    /\ groupErr' \in (IF Cancelled THEN {groupErr} ELSE BOOLEAN)
    /\ UNCHANGED <<signalled, orch, active, main, gaveUp, shut, timer, exit>>

AllReturned ==
    /\ exit = "no" /\ orch = "wait" /\ \A a \in Agents : agent[a] = "ended"
    /\ orch' = "stop"
    /\ UNCHANGED <<signalled, agent, groupErr, active, main, gaveUp, shut, timer, exit>>

\* The deferred calls: the manager that was started last stops first.
StopManagers ==
    /\ exit = "no" /\ orch = "stop"
    /\ \/ /\ active # << >>
          /\ active' = Front(active)
          /\ UNCHANGED orch
       \/ /\ active = << >>
          /\ orch' = "done"
          /\ UNCHANGED active
    /\ UNCHANGED <<signalled, agent, groupErr, main, gaveUp, shut, timer, exit>>

Run == StartManager \/ StartAgents \/ AllReturned \/ StopManagers

-----------------------------------------------------------------------------
(* runStart from its select on.                                            *)

\* An error of Run without a signal ends runStart at once: neither the log
\* handler nor the reporter is closed.
OrchestratorEnds ==
    /\ exit = "no" /\ main = "select" /\ orch = "done"
    /\ IF groupErr /\ ~signalled
       THEN exit' = "error" /\ UNCHANGED main
       ELSE main' = "closeLogs" /\ UNCHANGED exit
    /\ UNCHANGED <<signalled, agent, groupErr, orch, active, gaveUp, shut, timer>>

\* The timer is started before Shutdown is called.
SignalReceived ==
    /\ exit = "no" /\ main = "select" /\ signalled
    /\ main' = "checkpoints" /\ timer' = "armed"
    /\ UNCHANGED <<signalled, agent, groupErr, orch, active, gaveUp, shut, exit>>

\* Shutdown saves the agents' checkpoints, failed or not, and removes the
\* workspaces: this may take any time, its context is asked between two only.
SaveCheckpoints ==
    /\ exit = "no" /\ main = "checkpoints"
    /\ main' = "workspaces"
    /\ UNCHANGED <<signalled, agent, groupErr, orch, active, gaveUp, shut, timer, exit>>

CleanupWorkspaces ==
    /\ exit = "no" /\ main = "workspaces"
    /\ main' = "await"
    /\ UNCHANGED <<signalled, agent, groupErr, orch, active, gaveUp, shut, timer, exit>>

\* Variant: nobody waits for Run.
Unawaited(step) == TRUE

\* The orchestrator's result is in errCh.
Finished(step) == step = "done"

\* The result of Run, or five seconds.
Await ==
    /\ exit = "no" /\ main = "await"
    /\ \/ Finished(orch) /\ UNCHANGED gaveUp
       \/ gaveUp' = TRUE
    /\ main' = "closeLogs"
    /\ UNCHANGED <<signalled, agent, groupErr, orch, active, shut, timer, exit>>

CloseLogHandler ==
    /\ exit = "no" /\ main = "closeLogs"
    /\ shut' = shut \cup {"logs"}
    /\ main' = "closeReporter"
    /\ UNCHANGED <<signalled, agent, groupErr, orch, active, gaveUp, timer, exit>>

CloseReporter ==
    /\ exit = "no" /\ main = "closeReporter"
    /\ shut' = shut \cup {"reporter"}
    /\ main' = "return"
    /\ UNCHANGED <<signalled, agent, groupErr, orch, active, gaveUp, timer, exit>>

Return ==
    /\ exit = "no" /\ main = "return"
    /\ exit' = "ok"
    /\ UNCHANGED <<signalled, agent, groupErr, orch, active, main, gaveUp, shut, timer>>

\* The deadline passes: emergency checkpoints, then os.Exit(1), while the
\* other goroutines still go on.
ForceShutdown ==
    /\ exit = "no" /\ timer = "armed"
    /\ timer' = "forcing"
    /\ UNCHANGED <<signalled, agent, groupErr, orch, active, main, gaveUp, shut, exit>>

ForcedExit ==
    /\ exit = "no" /\ timer = "forcing"
    /\ exit' = "forced"
    /\ UNCHANGED <<signalled, agent, groupErr, orch, active, main, gaveUp, shut, timer>>

RunStart == OrchestratorEnds \/ SignalReceived \/ SaveCheckpoints \/ Await \/ CloseLogHandler
            \/ CloseReporter \/ Return

ProcessNext ==
    \/ Signal \/ Run \/ RunStart \/ CleanupWorkspaces \/ ForceShutdown \/ ForcedExit
    \/ \E a \in Agents : AgentReturns(a)

\* The main goroutine runs, timers fire and the store answers.  Agents may work
\* for ever, a manager may never stop and the removal of workspaces never end.
ProcessFairness ==
    WF_processVars(RunStart) /\ WF_processVars(ForceShutdown) /\ WF_processVars(ForcedExit)

ProcessSpec == ProcessInit /\ [][ProcessNext]_processVars /\ ProcessFairness

-----------------------------------------------------------------------------
\* When the process ends with success, the log handler and the reporter were
\* closed, and all agents had returned and the managers were stopped before,
\* unless the five seconds were over.
CleanEnd ==
    exit = "ok" => /\ shut = {"logs", "reporter"}
                   /\ gaveUp \/ (active = << >> /\ \A a \in Agents : agent[a] = "ended")

\* A signal ends the process, cleanly if with success, even if agents, managers or
\* the removal of workspaces hang (start.go:222-268).
ShutdownCompletes == signalled ~> exit # "no" /\ CleanEnd
=============================================================================
