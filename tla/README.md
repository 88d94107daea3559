# Verification of OpenAgentFramework

TLA+ models of the parts of OpenAgentFramework whose correctness depends on the
order of things: the developer agent with the recovery, resumption, workspaces
and snapshots around it; the guarded calls to GitHub and Claude; the
conversation with the model; the reporter, the log handler and remote
configuration that connect an agent with the control plane; and the control
plane's own registrations, accounts, websocket hub and tunnel. TLC checks the
models on small instances; TLAPS proves the safety properties that matter most
for every value of the constants.

Paths below are relative to `src/`.

## 1. The system

| Component | State it keeps | Operations | Interacts with |
|---|---|---|---|
| Developer workflow (`internal/developer`) | the issue at work, one activation of `processIssue` per nested issue, `DeveloperAgent.status` | poll, claim, analyse, decompose, implement, commit, open / validate / merge the pull request, fail, graceful shutdown | GitHub, Claude, git, workspaces, state store; its status is read by the shutdown manager |
| State store (`internal/state/filestore.go`) | one JSON file per agent type | `Save`, `Load`, `List`, `Delete` | written by the agent and, on a signal, by the shutdown manager |
| Validation and recovery (`internal/state`, `internal/developer/recovery.go`) | nothing of its own | report drift, reconcile, clean up, recover a workflow | reads the record, GitHub and the workspaces at start-up |
| Resumption (`internal/developer/resume.go`) | the resume points | analyse snapshots, choose a strategy, execute its actions | snapshots, record |
| Workspaces (`internal/workspace`) | a cache of workspace objects without a lock, the directories | create under a limit, release, clean up by age and size | the workflow, the shutdown manager, a cleanup scheduler |
| Snapshots (`internal/workspace/persistence.go`) | snapshot files per issue | create, find, validate, expire, remove | workflow, resumption |
| Retry and circuit breaker (`internal/errors`) | a breaker per service: a state and four atomic counters | `Execute`, retry with backoff, decorators | shared by all goroutines that call GitHub or Claude |
| Orchestrator (`internal/orchestrator`) | the running agents | run until the first error, shut down on a signal, health | agents, scheduler, log rotation and cleanup, config manager |
| Reporter (`pkg/reporter/reporter.go`) | a bounded channel, the loop's buffer | `Report`, flush loop, heartbeat, `Flush`, `Close` | agent goroutines, control plane |
| Log forwarding (`pkg/reporter/log_handler.go`) | a slice per handler; backing arrays are shared | `Handle`, `WithAttrs`, `WithGroup`, flush loop, `Close` | every logger of the agent, control plane |
| Remote configuration (`web/store/config_store.go`, `web/handler/config_handler.go`, `pkg/reporter/config_fetcher.go`, `internal/config/remote.go`) | a versioned document per agent type, an override per agent, the audit log; in the agent the last ETag and the running configuration | upsert, delete, merged read, conditional poll, apply | administrators, agents |
| Local configuration (`internal/config`) | the running configuration, the watcher's last modification time, subscribers | load, validate, watch, reload, apply | everything |
| GitHub client (`internal/ghub`) | none | issues, labels, comments, pull requests, polling of issues and checks | GitHub |
| Claude client (`internal/claude`) | the message history of a conversation | tool loop with an iteration limit | Claude, the workspace |
| Creativity (`internal/creativity`) | a cache of rejected titles | propose suggestions while there is no work | the poller calls it and waits for it |
| Memory (`internal/memory`) | entries with a limit, in a file | add, evict | the prompts |
| Observability (`internal/observability`) | log files, counters | log, rotate, clean up, measure | the orchestrator starts and stops it |
| Agents, API keys, ingestion (`web/handler/event_handler.go`, `agent_handler.go`, `apikey_handler.go`, their stores) | rows of agents and keys | register, heartbeat, ingest events, provision, revoke | agents' reporters, the console |
| Accounts (`web/handler/auth_handler.go`, `org_handler.go`, `invitation_handler.go`, their stores, `web/auth`) | users, organizations, memberships, invitations; tokens carry a copy of the memberships | sign in, refresh, create, invite, accept, remove | browsers |
| Websocket hub (`web/ws`) | the map of clients, a bounded channel per client | register, unregister, broadcast, two pumps | ingestion broadcasts to browsers |
| Tunnel (`web/tunnel`) | the ngrok process, its URL | start, stop, wait, poll for the URL | administrators, start-up |
| Rest of the control plane (`web/router`, `web/server`) | PostgreSQL | routing, listing, release | browsers |
| Frontend (`frontend`) | view state | pages | control plane API |

How they meet. `internal/cli/start.go` loads the configuration, fetches the
remote one, starts the reporter and the log handler, the heartbeat and the
configuration poll loop, and runs the agent under the orchestrator. The agent is
one goroutine; GitHub's labels are its work queue and the state file its only
memory over restarts. A signal cancels the agent's context, and the
`ShutdownManager` writes a checkpoint and removes workspaces *while the agent is
still running*; after at most five seconds the log handler and the reporter are
closed and the process ends.

What is hard:

* **Partial failure.** Claiming, releasing, failing and finishing an issue are
  several GitHub requests each; most errors are ignored, some are returned.
* **Two writers of the state file** after a signal, one of them acting on a
  status it read earlier; writes are not atomic, so a crash leaves a torn file.
* **Nesting.** A decomposed issue processes its children inside its own call,
  with the same record, status and workspace limit; any return path may leak.
* **Lock-free counters** of the breaker, read one after the other.
* **Two consumers of one channel** (the flush loop's drain and `Close`), a
  context that is cancelled under requests in flight, slices that share arrays
  across locks.
* **Conditional reads** under an ETag made of two independent counters, with
  answers that are lost, delayed or computed while a transaction commits.
* **Check, then act on a name.** The cleanup scheduler decides on the objects it
  listed and removes by issue number; the rotation and the cleanup of logs rename
  and remove the same names; a key's name is a count read in an earlier statement;
  the tunnel's late goroutines read the fields of whatever process is the current
  one.
* **Several statements without a transaction**, each of which may fail, in
  recovery, in the handlers of accounts and in provisioning.
* **Copies that live on**: claims in tokens, the status in an agent's row that a
  request of the last run overwrites, a configuration that was loaded before
  another one was applied.

What makes each part correct is stated with its module in section 3, and the
hazards, each at its line, are listed in `PROJECT.json` with the properties that
would catch them.

## 2. Modules

| Module | What it is |
|---|---|
| `DeveloperWorkflow` | the developer agent, the state file, workspaces, the shutdown manager, crash and restart, composed |
| `CircuitBreaker` | the breaker at the level of atomic instructions |
| `EventDelivery` | abstract: what a fire-and-forget client promises about an event |
| `Reporter` | the reporter, shown to implement `EventDelivery` |
| `LogForwarding` | the log handlers, with Go's slices and their backing arrays |
| `ConfigSync`, `MCConfigSync` | remote configuration, its instances |
| `ProtectedCalls` | extends `CircuitBreaker`: the retry loop and the decorators around and inside the breaker |
| `Conversation` | the conversation with the model |
| `Recovery` | validation, reconciliation, cleanup and recovery of an interrupted issue |
| `Resume` | the choice and the execution of a resumption |
| `Workspaces`, `Snapshots` | the workspace manager with its scheduler; the snapshot files |
| `HotReload` | the local configuration manager |
| `Checks` | the polling of a pull request's checks |
| `Orchestrator` | the life of an agent process: `runStart`, the errgroup of agents, the managers, the shutdown, the forced end |
| `Suggestions` | the poller with the creativity engine |
| `LogFiles` | rotation and cleanup of log files |
| `Fleet`, `Tenancy`, `Hub`, `Tunnel` | the control plane: agents and keys; accounts; websockets; the tunnel |
| `MCParts`, `MCLiveParts` | components that share no state, in one run each |

The theorems and their proofs are in modules of their own, each about one group of
components:

| Module | About | Theorems |
|---|---|---|
| `DeveloperWorkflowProofs` | `DeveloperWorkflow` | type correctness, pull requests, workspaces, call stack, limit, merges, progress of the record, claims |
| `CallProofs` | `CircuitBreaker`, `ProtectedCalls`, `Conversation`, `Checks` | type correctness and transitions of the breaker, the sole caller, the breaker inside the retries, duplicates, answered tool calls, verdicts on checks |
| `ReporterProofs` | `Reporter`, `EventDelivery` | type correctness, one place for each event, order, memory, the refinement |
| `LogProofs` | `LogForwarding`, `LogFiles` | entries are sent once, the last log is kept |
| `ConfigurationProofs` | `ConfigSync`, `HotReload` | type correctness, audit log, versions, conditional reads, reloads |
| `RecoveryProofs` | `Recovery`, `Resume`, `Orchestrator` | issues are not lost, workspaces are cleaned for risk only, the end with success |
| `WorkspaceProofs` | `Workspaces`, `Snapshots` | working directories, what the manager knows, the last snapshot |
| `ControlPlaneProofs` | `Hub`, `Tunnel`, `Fleet`, `Tenancy` | streams, processes, names of keys, invitations |

Composition: `DeveloperWorkflow` composes workflow, store, workspaces and shutdown
manager; `ProtectedCalls` composes the breaker with the retry loop; `ConfigSync`
and `Fleet` compose the control plane with agent processes; `Suggestions` composes
poller, engine and reviewer; `LogFiles` composes logger, rotation and cleanup;
`Workspaces` composes manager, scheduler, workflow and shutdown; `Orchestrator`
composes the main goroutine, `Run`, the agents and the timer of a process. `MCParts` and
`MCLiveParts` compose nothing: they put independent components side by side.

Definitions whose comment says *Variant* are a wrong
form of the same code (a dropped guard, a swapped order, ...). No behaviour uses
them; `PROJECT.json` lists which property each of them breaks when it takes the
place of the right one, which shows that the property depends on that code.

## 3. Models and properties

### 3.1 DeveloperWorkflow

*State.* GitHub (`labels`, `created`, `pr`, `green`), the disk (`store` is
`developer.json`, `disk` the directory of each issue), and the process: `batch`
(the issues `Poll` returned), `cur` and `frame` (the call stack: an activation
record of `processIssue` per issue with its program counter, its in-memory
`AgentWorkState`, the children it still has to process and the round of the
validation loop), `wsp` (the workspace manager's cache), `status`, and `sm` (the
shutdown manager with the status it read).

*Actions.* One per call that can fail or can be interleaved, in the order of
`workflow.go`: `Poll` and `PromoteOneSuggestion`, `HandleIssue`, `Claim`,
`Unready`, `ClaimComment`, `RecordClaim`, `SetupWorkspace`, `Clone`, `Analyze`,
`CreateChild`, `LabelEpic`, `RecordSplit`, `NextChild`, `ChildrenDone`,
`StartImplement`, `Implement`, `CommitAndPush`, `CreatePR`, `RecordPR`,
`StartValidation`, `ValidatePR`, `MergePR`, `FinishLabels`, `Complete`,
`FailIssue`, `FailLabel`, `GracefulShutdown`. Around them `Signal`, the three
steps of the `ShutdownManager`, `Exit`, `Crash`, `Restart`, and the maintainer
who labels an issue (`HumanReady`).

*The outside world.* A call has a reply: applied, refused, or applied with its
answer lost; under a cancelled context it is refused without being sent. Label
calls whose errors are ignored one after the other are one action with a reply
each. A write of the state file may fail or leave a torn file, and the workflow
ignores its error (`Written`, where `SaveFaults` allows it). Claude, git and the size check are outcomes. GitHub closes an issue when
its pull request is merged, refuses a second open pull request for a branch, and
numbers issues in the order of creation.

*Properties.* All but `ReadyIsSettled` are proved. `RecordedPRExists`: no record claims
a pull request that is not there, whoever wrote it, whichever writes failed and however
old the status was that the shutdown manager saw. `MergedOnlyWhenGreen`: a merge never follows a push that was
not validated. `NoLeakedWorkspace`, `ConcurrencyLimit`: an active workspace belongs to
an activation that will release it, so `max_concurrent` is never used up by leaks and
never exceeded. `CallStack`: nested activations are one stack of distinct issues.
`ReadyIsSettled` (liveness): without faults, every issue released for the agent ends in
review, failed, or split. `RecordAdvances`, `NoReprocessing`: while no signal brings a
second writer and no write fails, the record of an issue only advances until the issue
is claimed anew;
without refused calls, crashes and signals, a claimed issue is not claimed again.

### 3.2 CircuitBreaker

Every atomic load, add and compare-and-swap of `circuit_breaker.go` on the
shared state is an action of the goroutine that executes it; `call` holds the
goroutine's program counter and the values it has loaded, `now` the clock in
seconds. The two loads of `shouldOpen` are separate; the failure ratio is
compared as a fraction. A goroutine that loses the race for half-open is
admitted as in the code.

`OpenIsStamped` (proved): whichever goroutines count failures and open the circuit on
each other's counts, a circuit that is not closed carries the time of a failure. `LegalTransitions` (proved): whichever stale state a
goroutine acts on, the circuit moves only along the edges of the pattern.
`HalfOpenIsLeft` (liveness): with one probe required, a half-open circuit is decided.
`OpenedForFailures` (proved): for a single caller the circuit opens only for enough
failures; checked with the retry loop around it (3.6). Nothing is stated about the
timeout: for one goroutine it would only repeat the test of the code, and for two it
does not hold (section 4).

### 3.3 Reporter and EventDelivery

`queue` is the channel, `buffer` the flush loop's slice, `batch` what `Flush`
took in `Close`; `fate` follows every event from report to its end. The loop's
`select`, its sends (refused at once when `Close` has cancelled the context), the
drain, the heartbeat goroutine and the six steps of `Close` interleave. Events
may be reported at any time, before, during and after `Close`.

`DeliveredOnce` (proved) is the refinement: under `fate` the reporter behaves as
`EventDelivery`, in which an event is dropped at once or held, and what is held leaves
once, stored or lost. `HeldOnce` (proved): an event that is held is in exactly one
place. `InOrder` (proved): until `Close` events are stored in the order of their
reports, whatever batches fail in between. `MemoryBound` (proved): at most two buffers. `HeldIsSettled`, `CloseEnds`
(liveness).

### 3.4 LogForwarding

`heap` holds the backing arrays, `buf` each handler's slice (array and length),
so `append` writes in place while there is room, also over an element that
another handler's slice covers. `WithAttrs` and `WithGroup` copy the slice
header. A flush takes the slice under the lock and encodes it without: `batches`
are slices, and their content is read when they are sent.

`SentOncePerHandler` (proved): a handler sends an entry once, although the ticker, full
buffers and `Close` flush it and others write into its array meanwhile.
`Streamed` (liveness): what a handler without children logs before `Close` is
sent.

### 3.5 ConfigSync

An upsert is a transaction of three steps under read committed isolation: the
read of the previous document, the `INSERT ... ON CONFLICT` that waits for and
locks the row, and the audit entry with the commit. The handler answers a poll
in one step and the agent receives, or loses, the answer in another; in between
anything may be committed. `Merged` replaces whole sections as jsonb `||` does,
`Completed` is `ApplyServerDefaults`, `MergeRemoteConfig` keeps the running value
of an absent field, as documented. The handler may fail to find the agent's id.

`AgentCurrent` (proved): an agent that never had an override is answered 304 only if it
runs the current document. `AgentConverges` (liveness): it ends up with what a
restarted agent runs. `AuditComplete` (proved): the last audit entry of a target is about
what is stored. `VersionsAdvance` (proved): concurrent saves get consecutive versions.

### 3.6 ProtectedCalls

One goroutine's calls to GitHub and Claude under the retry loop of
`internal/errors`, some inside the circuit breaker (it extends `CircuitBreaker` and
shares its variables). `pc` and `frame` are where the goroutine is and its locals;
`applied`, `lost` and `wasted` record what reached the service. Classification
works on what is left of an error: the client cores wrap errors with `fmt.Errorf`
before `ClassifyError` sees them, so an HTTP status is never recognised and a
refused request is sent again. Delays are computed with factor, cap and jitter in
units of five seconds.

`DuplicatesAreLostAnswers` (proved): a retried `CreateIssue` makes at most one issue for
every answer that was lost, and never more than the attempts. `OpenedForFailures` (proved): with its retries, too, a sole caller opens the circuit only
for enough failures. `CancelEnds` (liveness): a
cancelled call returns without waiting for the delay.

### 3.7 Conversation

`Send` with its requests, tool calls and iteration budget; the history outlives an
error and `Restore`. A message is its role, the calls it makes and the calls it
answers. `ToolCallsAnswered` (proved): every history sent to the API answers each tool call
in the very next message and nothing else, whether a tool or a request failed, the
answer was cut at `max_tokens` or an earlier `Send` ran out of its budget; the API
refuses any other history.

### 3.8 Recovery and Resume

`Recovery` is what four operations may do with the record of an agent that
stopped (`CleanupOrphanedWork`, `RecoverWorkflow`, `ValidateAndRecoverStartup`,
`ReconcileState`): each request is a step, may fail, and the process may die
between two; people close issues, merge, change labels; another agent may take the
issue. Records of every state and of ages on both sides of each limit are found.
`IssueNotLost` (proved): an open issue without a pull request whose record is gone or marked
recovered is ready for an agent, unless the label could not be added: the record of
such an issue is deleted all the same, and the property excuses what the code does there.

`Resume` computes score, risk (stage, modified files, git state), actions and strategy
for every snapshot. Two functions judge a snapshot by different rules, and the code has
the contradiction that one would exclude: a snapshot to resume from may have its
workspace cleaned first (section 4). `OnlyRiskCleans` (proved, `CleanedForRiskOnly`) says
that this happens exactly when the risk is high, never for age, size or confidence. No run
checks it: it is a statement about one analysis, proved for all numbers.

### 3.9 Workspaces and Snapshots

`Workspaces` numbers the `Workspace` objects, since the scheduler decides on the
objects it listed and the manager removes by issue number. The workflow, the
scheduler's goroutine (list, decide, remove, one step each), `Status()`, the
shutdown and restarts interleave on the unlocked cache. `WorkKeepsDirectory` (proved): the
directory of a working workflow goes only because it is too big or because the
scheduler held the issue's last workspace when the workflow took it (`overlap`; the
code has no protection there). `DirectoriesAreKnown` (proved): with the same exception no
directory is left that the manager does not know of.

`Snapshots` has creation, write, compression, retention and crashes that leave torn
files. A write fails with an error or, if compressed, without one: the compressor's and
the file's `Close` are deferred and their errors dropped (`persistence.go:400`).
`LastIsRestored` (proved): the last snapshot that was reported and written whole, or a
later one, is found again, and a torn one that was reported takes no place from it.

### 3.10 HotReload

The configuration manager: edits of the file, the watcher's look at the
modification time, loads outside the lock, applying under it, subscribers that
fail. A configuration is a function from kinds of fields to the number of the edit.
`OneVersion` (proved): what the program runs with, and what a subscriber was told, never
mixes two versions of the file.

### 3.11 Checks, Suggestions, LogFiles

`Checks` polls a pull request's checks in three requests while they change and
are run again; the verdict comes of two loops over runs and statuses, which are
recursive functions of the turns. `VerdictIsSound` (proved): whatever their order, no
failing or pending check that was seen is passed over.
`Suggestions` is the poller with the creativity engine in its goroutine.
`WorkEndsCreativity` (liveness): an issue to be worked on is taken up although
the poller stands still while the engine runs. `LogFiles` has the files by name,
and rotation and cleanup one system call at a time. `LastLogKept` (proved for
`MaxFiles` above 1): no failed or interrupted rotation loses the log that was rotated
last, unless the cleanup removed it, or since then failed half-way and left an archive
beside a file (`archived`; section 4 says how such an archive may go over
the log). A compression that fails or dies half-way leaves a partial archive
(`PartOf`), which does not count as the log.

### 3.12 Control plane: Fleet, Tenancy, Hub, Tunnel

`Fleet`: rows, keys and processes; each handler's statements are steps, requests of
a process and of its last run overtake each other. `RunningIsOnline` (liveness): an
agent that runs is shown online sooner or later, whatever stale event said that it
stopped and whichever requests the database failed. `NamesDiffer` (proved): live keys have different names unless one was revoked,
chosen by hand or created meanwhile.

`Tenancy`: registration, sign-in, OAuth, refresh, organizations, invitations and
memberships, one statement a step, each may fail. `AcceptedHasJoined` (proved): an
invitation is used up only by a request that made its user a member.
`RemovedIsForgotten` (liveness): who was removed ends without a token that claims
the organization.

`Hub`: the map of clients, a bounded channel and two pumps per client, broadcasts
that iterate without the lock, removers of slow clients, the panics of the runtime.
`StreamComplete` (proved): a connected client that was never too slow has every message of
its time once, except those whose broadcast panicked at the closed channel of a client
that was too slow; that is what the code does (section 4), and the property excludes
every other cause.

`Tunnel`: the ngrok process, the goroutines that wait for it and ask for its URL, the
handlers. `StopEndsAll` (proved): what runs is what the next `Stop` ends, also after
stops, restarts and token saves whose waiters are still pending, until such a waiter
acts on the fields of a successor (`overtaken`).

### 3.13 Orchestrator

The goroutines of an agent process: `Run` starts the managers and the agents, waits
for all agents and stops the managers in reverse; an agent's error cancels the
others. `runStart` selects between the result and the signal, shuts down, waits five
seconds, closes the log handler and the reporter; the timer forces the end.
`ShutdownCompletes` (liveness): a signal ends the process even if agents, managers or
the removal of workspaces hang. Part of it is `CleanEnd` (proved): when the process ends
with success everything was returned, stopped and closed, unless the five seconds were
over.

## 4. Runs

| Run | Question | Bounds |
|---|---|---|
| `workflow_faults` | do labels, record, pull request, workspaces and stack agree whatever fails or crashes? | 2 issues (one may be a child), every call may fail or lose its answer, 1 crash, 2 releases, limit of one workspace |
| `workflow_shutdown` | do two writers of the record, writes that fail and a restart contradict each other? | 3 issues (2 by humans, 1 child), 2 signals, 2 crashes, any write of the record may fail or tear, no release |
| `workflow_live` | is every released issue settled, and processed once? | 4 issues, 2 subtasks, nested twice, no faults |
| `breaker_concurrent` | do stale loads ever move the circuit wrongly, leave it open without a time or half-open for ever? | 2 goroutines, 3 requests before a call may start, 3 seconds |
| `reporter` | is every event held once, sent once, in order, and settled? | buffer of 2, 6 events: both buffers fill up and an event is dropped |
| `config` | do store, audit log and agent agree? | 2 administrators, 3 edits, 3 settings in 2 sections |
| `parts` | do thirteen components that share no state keep their safety properties? | see below |
| `live_parts` | do six components do what must happen in the end? | see below |

The components of `parts` and `live_parts` do not interact, so exploring their
product would show nothing more than exploring each: the first state chooses a part,
only its variables change, and each property is about one part. Their bounds:

| Part | Bounds | Cases they reach |
|---|---|---|
| calls | 1 goroutine, 3 requests before a call may start, attempts 2 and 3, 20 seconds; 15 in `live_parts` | lost answers, opening, half-open, a retry that is cancelled |
| tunnel | 2 processes, 1 request to save a token | a late waiter meets its successor |
| hub | 2 clients and 1 message; 1 client and 3 messages; a channel of 1 | a slow client is removed during a broadcast |
| keys | 2 keys, 2 creators, 1 agent row | two creators count at the same time |
| tenancy | 1 user, 2 requests, 1 organization, 1 invitation | acceptance, cancellation and deletion meet |
| workspace | 2 issues, limit 1, 2 objects | removal by number meets a newer object |
| snapshot | keep 2 of 4 | retention removes, torn files count, a torn file is reported |
| recovery | 6 states, ages 0, 1, 12 and 24 hours | each branch of type, drift and cleanup |
| resume | all stages, ages and numbers of files and of modified files on both sides of each limit, with and without changes | each strategy, risk and action; no property of the run is about it |
| log files | keep 2, 3 logs, numbers up to 1 before a rotation | shift over an existing name, partial archives |
| conversation | 2 iterations, 2 tools, 2 sends | budget used up, cut answers, errors |
| checks | 2 runs, 1 status, 2 polls | a later run contradicts an earlier one |
| reload | 3 kinds of fields, watcher and a caller, 2 subscribers, 2 edits | an older load applied after a newer one, a subscriber that fails |
| live: logs | 2 handlers, 4 entries, flush at 3 | a shared array with room left, flush by size and by ticker |
| live: tenancy | 1 user, 2 requests, 1 organization, no invitation | two tokens of one user, removal between them |
| live: fleet | 1 process, 1 key, 2 rows | requests of the last run arrive late |
| live: suggestions | 2 titles, 1 pending, 1 rejected, 2 issues, 1 fault | work arrives while the engine waits or meets duplicates |
| live: process | 2 agents | one fails while the other runs, a signal at any point |

Why the bounds are enough: two actors of each kind exhibit every race in the
code (none needs a third, since every shared object is taken by one step), and
each limit is reached: the workspace limit by a parent and its child, the retry
limit of the validation, the buffers, the array's capacity. Two edits of one
target and one of the other order every pair of versions. The proofs of section
5 remove the bounds for the properties they cover. Runs allow deadlock only
where the system may stop: the breaker when its bounded clock and requests are
used up, the reporter once closed, the parts when their bounded inputs are.

Four more runs show where the code does not do what a comment or document says;
TLC must find them violated:

| Run | Property | What happens |
|---|---|---|
| `shutdown_release` | `ShutdownReleasesClaim` | `handleGracefulShutdown` resets labels with the context the signal cancelled, so the issue stays claimed (`workflow.go:536`) |
| `breaker_stuck` | `HalfOpenIsLeft` | with `MaxRequests` above 1, as in the default configuration, `requests` still counts calls of the closed circuit, so the half-open circuit rejects every probe for ever (`circuit_breaker.go:163`) |
| `config_etag` | `NotModifiedIsCurrent` | the ETag is the greater of two versions: editing the one behind leaves it unchanged and agents never see the edit (`config_store.go:210`) |
| `log_stream` | `AllStreamed` | a handler made by `WithAttrs` has no flush loop and is never closed: what it logs waits for 50 entries (`log_handler.go:96`) |

Other divergences met while modelling, behaviours of the same modules that no
run is about:

* `claimIssue` returns the comment's error after the labels were changed: the
  issue is claimed, neither ready nor failed, and no record names it
  (`workflow.go:71,758`; `docs/guides/developer-workflow.md:212`: "When any step
  fails: ... Adds `agent:failed` label"). If removing `agent:ready` fails, the
  next poll claims the issue again (`workflow.go:756`).
* After a crash nothing takes the recorded issue up again:
  `findInterruptedWorkflows` is a placeholder (`internal/state/recovery.go:115`).
* The shutdown checkpoint replaces the record by one without pull request number,
  branch and workspace (`shutdown.go:149`).
* The workflow ignores the error of every save of the record (`filestore.go:31`): after
  one that failed, the file names an earlier stage, or still the record of the release
  before.
* A second attempt clones into the first clone and fails (`workflow.go:157`).
* Two goroutines: a failure time that was loaded before a cycle of the circuit
  half-opens it again at once, before its timeout, and
  more than `MaxRequests` goroutines run while it is half-open
  (`circuit_breaker.go:151,153,157`).
* `Reporter.Close` loses a batch that was being sent under the context it
  cancels (`reporter.go:229`); `LogHandler.Close` does not wait for a flush under
  way (`log_handler.go:131`).
* An override of one setting drops the type's other settings of that section
  (`config_store.go:209`); two concurrent saves record the same previous document
  (`config_store.go:85`); deleting an override leaves no audit entry
  (`config_store.go:195`).

* The client cores wrap errors with `fmt.Errorf` before `ClassifyError` sees them, so no
  HTTP status is recognised and a refused request is sent again; a disabled breaker
  opens at the first failure (`internal/errors/manager.go:133`: "always closed").
* Rotation shifts the lowest number first and so overwrites the next older file
  (`internal/observability/rotation.go:261`: "Shift files in reverse order to avoid
  conflicts"); the logger never opens the new file, so a process rotates once. The
  cleanup's pass on disk usage takes rotated files that are not compressed for the
  active one, and an archived file overwrites one of the same name.
* A cleanup whose removal fails leaves a file and its archive. With `max_files` above 3
  (10 by default), two rotations that fail while they shift bring that file before the
  last log, and the next shift puts the archive over the log. `max_files` of 1 removes
  the last log before the next one is in its place; nothing checks it, and 0 indexes an
  empty list (`internal/observability/rotation.go:156`, `:258`).
* The workspace scheduler, the health checker, the watching of the configuration,
  `RestoreSnapshot`, `ResumeManager`, `CleanupOrphanedWork` and the periodic validation
  are started by no program; they are modelled as their packages offer them. The
  scheduler's size limit removes workspaces in use; files of torn snapshots stay for
  ever, and a compressed snapshot whose flush failed is reported as saved
  (`internal/workspace/persistence.go:400`).
* A snapshot with many modified files or uncommitted changes has a high risk
  (`internal/developer/resume_test.go:323`, `:748`), so the recommended actions clean the
  workspace and start afresh although the strategy is to resume from the snapshot
  (`internal/developer/resume.go:150`, `:338`). Snapshots made by this code record
  neither yet (`internal/workspace/persistence.go:308`, `:333`).
* `performFullCleanup` deletes the record even when adding `agent:ready` failed, and
  releases an issue that is closed or has an open pull request; a report with drift
  counts as valid; `recovered` is not a terminal state, so such a record blocks the
  promotion of suggestions; executing a resumption whose point is the fallback
  dereferences nil; checkpoint fields are wiped by the next `Save`.
* `ValidatePR` takes a pull request without checks for one whose checks passed, and
  statuses and conclusions it does not know for successes, and looks at the first 100
  runs only (`internal/ghub/pr_validation.go:145`).
* Four fields that `docs/configuration/configuration.md:98` lists as reloadable are
  never compared; a subscriber that fails leaves those before it with the new document;
  an older load may be applied after a newer one.
* Rejected suggestions are known only from issues still open; the poller stands still
  while the engine runs, and the engine looks only for `agent:ready`.
* After an error the next `Send` puts two user messages in a row into the conversation.
* A late goroutine of the tunnel clears the fields of its successor, so that two ngrok
  processes may run (`web/tunnel/manager.go:55`). `Broadcast` iterates the map of
  clients without the lock, and panics at the channel of a slow client that its remover
  has closed: clients it had not come to miss the message (`web/ws/hub.go:57`).
* Names of keys collide after a revocation; a late event of an earlier run overwrites an
  agent's status; an agent whose row is deleted while it runs is refused until it
  restarts. A registration that fails half-way leaves a user without organization, and
  the errors of `AddMember` and `MarkAccepted` are ignored, so an invitation may stay
  pending after its user joined.
* When the orchestrator ends with an error and without a signal, `runStart` returns
  without closing log handler and reporter (`internal/cli/start.go:225`): what they hold
  is lost. The forced end saves checkpoints first, so a disk that hangs delays it too.

Some modules therefore keep a definition of a property that one would expect and that
TLC finds violated: `SuccessIsGreen` (Checks), `RolesAlternate` (Conversation),
`AllHotReloadable` (HotReload), `RejectedStaysRejected` (Suggestions),
`PointIsExecutable` (Resume), `RefusedIsFinal` (ProtectedCalls), `ReportedIsRestored`
(Snapshots), `OneTunnel` (Tunnel, with three processes). They have no run of their own; the properties that are checked
say what the code keeps instead, and their comments say why. `OpensLate`
(ProtectedCalls) and `OnlyRiskCleans` (Resume) hold and have no run either; `ReviewHasPR` is proved as part of `PRInv`.

Several properties excuse an outcome because the code has no protection against it:
`overlap` (Workspaces), `reused` (Fleet), `overtaken` (Tunnel), `unlabelled` (Recovery),
`archived` (LogFiles), a panicked broadcast (Hub). They say that nothing *else* leads
there, and would not notice if the code began to lose more in exactly that case. The
notes of the hazards in `PROJECT.json` say, hazard by hazard, what is caught and what is
not. Likewise `ReadyIsSettled`, `RecordAdvances` and `NoReprocessing` are checked on a
run without refused calls: after a refused label call the first and the last do not hold
(see `claimIssue` above).

### Fairness

Weak fairness of the agent goroutine, of the shutdown goroutine, of the breaker's
callers, of the reporter's and the log handler's goroutines: the Go scheduler
runs every goroutine that can run, every HTTP request ends by its client's
timeout, tickers fire again. Strong fairness in three places: the `select` of
`Heartbeat`, which finds its context done again and again and picks among ready
cases at random, and the arrival of an answer to a poll, which is sent again on
every tick (a network that loses every answer delivers no configuration). A third is in
`live_parts`: heartbeats of an agent come on every tick, and the database does not fail
every one of them. An
operator restarts a process that is down. In `live_parts`: the goroutine of a guarded
call runs on; the heartbeat of an agent ticks and the handlers of its requests end; a
request to the console is handled and a token expires; the agent's goroutine runs
through the engine, whose cooldown ends; the main goroutine, the timers and the store
of a process answer, while agents, managers and the removal of workspaces may hang.
Nobody has to log, report, edit,
signal or release anything, and transactions may fail.

## 5. Proofs

Every safety property that a passing run checks, invariant or action property, is
also a theorem: TLAPS proves it for every value of the constants that the named
assumptions permit (`WorkflowConstants`, `BreakerConstants`, `ReporterConstants`,
`LogConstants`, `LogFilesConstants`, `ConfigConstants`, `HotReloadConstants`,
`ConversationConstants`, `ResumeConstants`, `WorkspaceAssumption`,
`SnapshotsAssumption`, `HubConstants`), which TLC evaluates in the runs. They say that
bounds are numbers, buffers are not empty and the sets are what they stand for. TLC
checked each inductive invariant on a small instance before it was proved. The
invariants of `workflow_shutdown` are proved with failed and torn writes.

Some theorems need more, which they state as their hypothesis:

| Theorem | Hypothesis | Why |
|---|---|---|
| `SoleCallerIsServed`, `CallsKeepTheBreaker` (the part on counters) | one goroutine | a second one acts on loads that are no longer true (section 4) |
| `DuplicatesNeedLostAnswers` | `AttemptsAllowed`: every policy allows an attempt | so do all that the code constructs; nothing checks `MaxAttempts` (`internal/errors/retry.go:141`), and the control plane may send 0 |
| `RecordsAdvance` | `MaxSignals = 0`, `~SaveFaults` | after a signal the shutdown manager writes a status that it read earlier; when the write of a new claim fails, the next one takes a failed record back to an earlier stage |
| `ClaimedOnce` | `FaultFree`: no refused calls, crashes, signals | if the removal of `agent:ready` fails, the next poll claims again (`workflow.go:756`) |
| `LastLogIsKept` | `MaxFiles > 1` | see the divergences in section 4 |

The arguments, by component:

* **Workflow.** `TypeCorrect`, then six inductive invariants. `PRInv` follows the
  evidence for a pull request through everything that can carry it to the file: the
  step, the in-memory state, the published status and the status the shutdown manager
  read; `RecordedPRExists` alone is not inductive because the shutdown manager writes
  what it saw earlier. `StackInv`, `KidsInv` and `FreshInv` say the activations form a
  chain in which every parent is older than its child and pending children are distinct
  and untouched; without them a return could pop an activation that another one waits
  for, and its workspace would leak (`WorkspacesNeverLeak`, `CallStackCorrect`,
  `ConcurrencyLimited`). `MergeInv` says an issue at work is not merged and the merge
  step holds a validated head (`MergesAreGreen`). `RecordInv`: between its first write
  of the record and its return the running activation finds in the file what it holds in
  memory, and its step says which stage that is, so each write advances it
  (`RecordsAdvance`); this rests on the stack, since a parent waits while its child
  overwrites the record. `ClaimInv`: a label `agent:ready` and a label `agent:claimed`
  meet only between the two calls of `claimIssue`, and what the batch holds is not
  claimed (`ClaimedOnce`).
* **Breaker.** `OpenCircuitsAreStamped`: `StampInv` says every goroutine past the store
  of the failure time, and every circuit that is not closed, has a time.
  `TransitionsAreLegal` needs only the swaps. `SoleCallerIsServed` is for one caller:
  `SoleInv` says what it loaded is still true when it acts on it.
* **Guarded calls.** `CallsUseTheBreaker`: each step of the retry loop and of the
  decorators is a step of the breaker or leaves it alone, so the breaker's theorems
  carry over (`CallsKeepTheBreaker`). `CallInv` counts: what took effect is at most the
  answers that were lost and the one that ends the call, and at each step at most the
  attempts so far, which the policy bounds (`DuplicatesNeedLostAnswers`).
* **Conversation.** `ConversationInv`: every message before the last is answered by its
  successor, and the calls that are still open are those of the last message, for which
  `Send` builds results in order (`ToolCallsAreAnswered`).
* **Checks.** `VerdictsAreSound`: the two loops of `analyzeCheckResults` keep that what
  is counted as pending or failed is so and that nothing of it was passed over
  (`StaysSound`, for one turn). The loops are recursive functions over the turns
  (`LoopRuns`); that what each turn keeps holds at the end is `TurnByTurn`, which says
  of a *set* of numbers that contains 0 and with each number the next one that it
  contains all up to the last, from the least number outside (`LeastExists`): this takes
  the place of the library's induction, whose operator parameter cannot be instantiated.
  The verdict of the loops is the one `ValidatePR` returns.
* **Reporter.** `DeliveryInv` says the three places hold held events in order, the
  loop's and `Close`'s older than the channel's, and apart; from it `EventsAreHeldOnce`
  and, step by step, the refinement `ReporterImplementsDelivery`. `OrderInv` adds that
  stored events are older than those still held (`EventsAreStoredInOrder`); `MemInv`
  that the loop selects with room in its buffer (`MemoryIsBounded`).
* **Log forwarding.** `LogInv`: of one handler, the slices under way are in different
  arrays from each other and from its own, an entry is in one of them at most, and in
  none once it was sent; what another handler appends lies beyond them or is newer than
  all they hold. That slices of *different* handlers share arrays is allowed, and is why
  the property is about a handler (`EntriesAreSentOnce`).
* **Log files.** `LogFilesInv`: while the last log is to be kept, some name holds it
  that has no lower number of its suffix, so that no shift goes over it; it comes last
  in the list, or fewer than `MaxFiles` names are left, so that the retention spares it;
  and a shift begins only with fewer than `MaxFiles`. That `Surplus` leaves so few is an
  injection of what is left into `MaxFiles - 1` ranks (`SurplusLeavesFew`). The attempt
  to prove `LastLogKept` without `archived` is what showed the divergence named in
  section 4: beyond the instance of the run the property did not hold.
* **Remote configuration.** `StoreInv` (`LockInv` and `AuditComplete`): a transaction
  that holds a row knows its next version and is alone; from it `AuditFollowsStore` and
  `VersionsAreConsecutive`. `SyncInv`: while no override was ever saved, neither an
  answer on its way nor the agent is newer than the store, and equal versions mean equal
  documents (`NotModifiedMeansCurrent`, for types whose documents set every field; an
  incomplete document keeps running values, as documented).
* **Local configuration.** `HotInv`: the file, every load on its way and the running
  configuration are each of one edit up to the fields that are never reloaded; applying
  one to another keeps that (`AppliedIsOfOneVersion`, then `NeverMixed`).
* **Recovery and resumption.** `RecoveryInv`: the pull request the program holds on to
  exists, an issue whose `agent:ready` could not be added is remembered as such, and at
  each step between the request that adds the label and the deletion of the record the
  issue is ready or excused (`IssuesAreNotLost`). `CleanedForRiskOnly`: a snapshot of a
  state the agent may have reached keeps a score of 70 whatever its age and size, which
  is above the limit below which the actions clean the workspace, so only a high risk is
  left to clean it.
* **The end of a process.** `ProcessInv`: the managers stop after all agents returned,
  `Run` is done when they are, and `runStart` closes the log handler before the reporter,
  with the result of `Run` or after giving up (`SuccessIsClean`; that a signal ends
  the process at all is liveness).
* **Workspaces and snapshots.** `WorkspaceInv`: what cache and scheduler refer to was
  made and is of their issue (`Numbered`, `OfIssue`); whoever forgets an issue has
  removed its directory (`Removed`), and the workflow does so only when told to stop
  (`Ending`); a directory just made is none of the scheduler's (`Fresh`), so unless it
  held the issue's last workspace at that moment, the working workflow's object is the
  cached, active one, alone with the scheduler (`OneActive`, `Kept`); from it
  `WorkflowsKeepTheirDirectory` and `ManagerKnowsDirectories`. `SnapshotInv`: the last
  snapshot is whole on the disk until it expires, and retention sees the one just
  written as the newest (`LastSnapshotIsRestored`).
* **Control plane.** `HubInv`: only clients that were too slow are closed or removed,
  and a stream holds exactly what the broadcasts have sent to its client; one that ended
  early stands at a closed channel (`ServedClientsMissNothing`). `TunnelInv`: until
  `overtaken`, no waiter has begun to wait for a process other than its own (`Alone`), so the fields that `Stop` reads are those of the process that runs
  (`ProcessesAreNotLost`). `FleetInv`: as long as nobody interferes each key's name is
  its number and one request at a time holds the next (`NamesAreDistinct`).
  `TenancyInv`: a request reaches the statement that marks an invitation only after the
  one that makes the member (`AcceptedMeansJoined`).

Only model-checked: liveness, which TLAPS cannot prove under fairness
(`ReadyIsSettled`, `HalfOpenIsLeft`, `HeldIsSettled`, `CloseEnds`, `AgentConverges`,
`Streamed`, `CancelEnds`, `RunningIsOnline`, `RemovedIsForgotten`,
`WorkEndsCreativity`, `ShutdownCompletes`), and with it all that is said of
`Suggestions`.

## 6. Abstractions

Prompts, texts of comments, commits and diffs, correlation ids, timestamps of
records and metrics are left out. The state file has one record since one agent
type is implemented. Workspace cleanup is not part of `DeveloperWorkflow`, since
no program starts the scheduler; `Workspaces` has it with a workflow reduced to
taking and releasing a workspace. Statements of the control plane's handlers are
steps; what one statement does is atomic. The parts of `parts` meet in the
program through values that are inputs here: the verdict of `Checks` is an
outcome in `DeveloperWorkflow`, a record left behind by it is one of the records
`Recovery` finds. Copying a handler's slice header in `WithAttrs`, which the
code does without the lock, and applying a polled document to the configuration
agents read, are taken as one step each: torn reads are not modelled. Two calls
of `flush` for one handler are separate batches, and a batch is sent once (the
client does not retry). `jsonb` documents are functions from settings to values,
grouped in sections.

## 7. Not modelled, and what is left

Not modelled, because there is no order of things to get wrong or no program that runs
it:

* the memory store (`internal/memory`): one mutex around a list in a file;
* `internal/agent`: a registry filled at start-up, and a validator with a mock
  recovery manager that no program makes (its copy in `internal/developer` is in
  `Recovery`);
* loading, defaults, environment and validation of the configuration: functions of one
  document, whose outcome is a choice in `HotReload`;
* the disk monitor of `internal/workspace`, metrics and correlation, which measure;
  the checkpoint manager, which nothing uses;
* the rest of the control plane: routing, listing, the mapping of rows, each request
  answered from one statement; the frontend; prompts and the parsing of model output;
* helpers of tests and demos (`internal/integration`, `cmd` examples).

Left for later, in this order: safety properties of `Suggestions`, with proofs; the torn
reads of the shared configuration and of `DeveloperAgent.status`, which are data races
and taken as one step; larger instances of `live_parts`, where three components need
most of the time.
