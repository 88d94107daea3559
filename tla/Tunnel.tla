-------------------------------- MODULE Tunnel --------------------------------
(***************************************************************************)
(* Manager of web/tunnel and its handlers: the ngrok process that exposes  *)
(* the control plane.  Every method holds m.mu, but the goroutine that     *)
(* waits for a process and the one that asks for its URL take the lock     *)
(* only at the end, and read m.cmd and m.enabled of whatever process is    *)
(* the current one by then.  Processes are numbered as they are started.   *)
(***************************************************************************)
EXTENDS Integers, FiniteSets

CONSTANTS
    MaxProcesses,   \* bound: processes started
    Savers          \* requests of HandleSaveToken

VARIABLES
    setting,    \* the authtoken is in the database
    token,      \* m.authToken is set
    enabled, url, cmd, cancel,  \* fields of the manager; 0 is no process
    process,    \* per process, what became of it
    waiter,     \* per process, the goroutine in cmd.Wait()
    awaited,    \* per process, the process its waiter waits for
    poller,     \* per process, pollURL
    saver,      \* per request, the next step of HandleSaveToken and its token
    booted,     \* LoadAndStart ran
    panicked,   \* a goroutine dereferenced a nil m.cmd
    overtaken   \* a late waiter waited for, or reset, a process that is not its own

manager == <<token, enabled, url, cmd, cancel>>
goroutines == <<waiter, awaited, poller>>
tunnelVars == <<setting, manager, process, goroutines, saver, booted, panicked, overtaken>>

Processes == 1..MaxProcesses
Started == {p \in Processes : process[p] # "none"}

TunnelInit ==
    /\ setting \in BOOLEAN /\ token = FALSE
    /\ enabled = FALSE /\ url = 0 /\ cmd = 0 /\ cancel = 0
    /\ process = [p \in Processes |-> "none"]
    /\ waiter = [p \in Processes |-> "none"]
    /\ awaited = [p \in Processes |-> 0]
    /\ poller = [p \in Processes |-> "none"]
    /\ saver = [s \in Savers |-> [at |-> "idle", token |-> FALSE]]
    /\ booted = FALSE /\ panicked = FALSE /\ overtaken = FALSE

-----------------------------------------------------------------------------
(* Start and Stop.                                                         *)

\* Start returns at once: the tunnel runs.  Variant: it does not look.
NeverRunning == FALSE
AlreadyRunning == enabled /\ cmd # 0 /\ process[cmd] # "failed"

NothingStarted == UNCHANGED <<enabled, url, cmd, cancel, process, goroutines, overtaken>>

Launch(p) ==
    /\ cmd' = p /\ cancel' = p /\ UNCHANGED overtaken
    /\ \/ /\ process' = [process EXCEPT ![p] = "failed"]
          /\ UNCHANGED <<enabled, url, goroutines>>
       \/ /\ process' = [process EXCEPT ![p] = "running"]
          /\ enabled' = TRUE
          /\ waiter' = [waiter EXCEPT ![p] = "spawned"]
          /\ poller' = [poller EXCEPT ![p] = "sleep"]
          /\ UNCHANGED <<url, awaited>>

\* Start with the token t: it may also find that ngrok is not installed.
StartTunnel(t) ==
    LET p == Cardinality(Started) + 1 IN
    \/ NothingStarted
    \/ ~AlreadyRunning /\ t /\ p \in Processes /\ Launch(p)

\* Variant: the manager forgets the process without ending it.
OnlyForget == process
Cancelled == IF cancel # 0 /\ process[cancel] = "running"
             THEN [process EXCEPT ![cancel] = "killed"] ELSE process

Stop ==
    /\ process' = Cancelled
    /\ cancel' = 0 /\ enabled' = FALSE /\ url' = 0 /\ cmd' = 0
    /\ UNCHANGED <<goroutines, overtaken>>

-----------------------------------------------------------------------------
(* The handlers; they run while no goroutine has panicked.                 *)

\* Without a token, or when the settings cannot be read, nothing is started.
LoadAndStart ==
    /\ ~booted /\ ~panicked /\ booted' = TRUE
    /\ \/ setting /\ token' = TRUE /\ StartTunnel(TRUE)
       \/ UNCHANGED token /\ NothingStarted
    /\ UNCHANGED <<setting, saver, panicked>>

HandleToggle ==
    /\ booted /\ ~panicked
    /\ StartTunnel(token) \/ Stop
    /\ UNCHANGED <<setting, token, saver, booted, panicked>>

To(s, step) == saver' = [saver EXCEPT ![s].at = step]

\* HandleSaveToken, one step per access to the database or locked section.
SaveSetting(s) ==
    /\ booted /\ ~panicked /\ saver[s].at = "idle"
    /\ \E t \in BOOLEAN :
          \/ setting' = t /\ saver' = [saver EXCEPT ![s] = [at |-> "stop", token |-> t]]
          \/ UNCHANGED <<setting, saver>>      \* the database answers with an error
    /\ UNCHANGED <<manager, process, goroutines, booted, panicked, overtaken>>

SaveStops(s) ==
    /\ ~panicked /\ saver[s].at = "stop" /\ To(s, "set")
    /\ Stop
    /\ UNCHANGED <<setting, token, booted, panicked>>

SetAuthToken(s) ==
    /\ ~panicked /\ saver[s].at = "set"
    /\ token' = saver[s].token
    /\ To(s, IF saver[s].token THEN "start" ELSE "idle")
    /\ UNCHANGED <<setting, enabled, url, cmd, cancel, process, goroutines,
                   booted, panicked, overtaken>>

SaveStarts(s) ==
    /\ ~panicked /\ saver[s].at = "start" /\ To(s, "idle")
    /\ StartTunnel(token)
    /\ UNCHANGED <<setting, token, booted, panicked>>

HandleSaveToken == \E s \in Savers :
    SaveSetting(s) \/ SaveStops(s) \/ SetAuthToken(s) \/ SaveStarts(s)

-----------------------------------------------------------------------------
(* The processes and the goroutines of Start.                              *)

ProcessExits(p) ==
    /\ process[p] = "running"
    /\ \E how \in {"exited", "broke"} : process' = [process EXCEPT ![p] = how]
    /\ UNCHANGED <<setting, manager, goroutines, saver, booted, panicked, overtaken>>

\* The goroutine evaluates m.cmd when it first runs.
WaitBegins(p) ==
    /\ ~panicked /\ waiter[p] = "spawned"
    /\ IF cmd = 0
       THEN panicked' = TRUE /\ UNCHANGED <<waiter, awaited>>
       ELSE /\ waiter' = [waiter EXCEPT ![p] = "wait"]
            /\ awaited' = [awaited EXCEPT ![p] = cmd]
            /\ UNCHANGED panicked
    /\ overtaken' = (overtaken \/ cmd \notin {0, p})
    /\ UNCHANGED <<setting, manager, process, poller, saver, booted>>

\* Wait fails at once for a process that never started or has another waiter.
WaitFails(p) ==
    LET q == awaited[p] IN
    \/ process[q] \in {"killed", "broke", "failed"}
    \/ \E r \in Processes \ {p} : awaited[r] = q

\* Wait returned an error: the fields are reset, whatever process they describe.
WaitReportsError(p) ==
    /\ ~panicked /\ waiter[p] = "wait" /\ WaitFails(p)
    /\ waiter' = [waiter EXCEPT ![p] = "done"]
    /\ enabled' = FALSE /\ url' = 0
    /\ overtaken' = (overtaken \/ cmd \notin {0, p})
    /\ UNCHANGED <<setting, token, cmd, cancel, process, awaited, poller, saver,
                   booted, panicked>>

WaitReturns(p) ==
    /\ ~panicked /\ waiter[p] = "wait" /\ process[awaited[p]] = "exited"
    /\ waiter' = [waiter EXCEPT ![p] = "done"]
    /\ UNCHANGED <<setting, manager, process, awaited, poller, saver, booted, panicked, overtaken>>

Poller(p, from, to) ==
    /\ ~panicked /\ poller[p] = from
    /\ poller' = [poller EXCEPT ![p] = to]
    /\ UNCHANGED <<setting, token, enabled, cmd, cancel, process, waiter, awaited, saver,
                   booted, panicked, overtaken>>

\* pollURL: the answer to its request is that of any process that runs.
PollChecks(p) == Poller(p, "sleep", IF enabled THEN "get" ELSE "done") /\ UNCHANGED url
PollFails(p) == \E to \in {"sleep", "done"} : Poller(p, "get", to) /\ UNCHANGED url
PollAnswers(p) ==
    /\ Poller(p, "get", "done")
    /\ \E q \in Processes : process[q] = "running" /\ url' = q

Goroutine(p) ==
    \/ WaitBegins(p) \/ WaitReportsError(p) \/ WaitReturns(p)
    \/ PollChecks(p) \/ PollFails(p) \/ PollAnswers(p)

TunnelNext ==
    \/ LoadAndStart \/ HandleToggle \/ HandleSaveToken
    \/ \E p \in Processes : ProcessExits(p) \/ Goroutine(p)

TunnelSpec == TunnelInit /\ [][TunnelNext]_tunnelVars

-----------------------------------------------------------------------------
(* Properties.                                                             *)

RunningProcesses == {p \in Processes : process[p] = "running"}

\* "Start launches the ngrok tunnel.  It is safe to call multiple times."
\* (tunnel/manager.go:55): one process runs at most.  The late waiter of a
\* stopped process resets the fields of its successor, and the next Start
\* leaves a process behind that no Stop ends.
OneTunnel == Cardinality(RunningProcesses) <= 1

\* Until such a late waiter takes its step Start and Stop, however their
\* callers, exits and waiters interleave, lose no process: what runs is what the
\* next Stop ends, and is never called disabled, also while the waiters of the
\* processes before it are pending.
StopEndsAll == ~overtaken => \A p \in RunningProcesses : cancel = p /\ cmd = p /\ enabled
=============================================================================
