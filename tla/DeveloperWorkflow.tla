-------------------------- MODULE DeveloperWorkflow --------------------------
(***************************************************************************)
(* The developer agent of internal/developer: the poll loop, processIssue  *)
(* from the claim to the review label, decomposition into child issues,    *)
(* failIssue, the graceful-shutdown path, and the process around it (the   *)
(* SIGTERM handling of cli/start.go, the ShutdownManager, crash, restart). *)
(*                                                                         *)
(* One goroutine works on issues; the ShutdownManager runs beside it after *)
(* a signal, and the process may die between any two steps.  Every GitHub  *)
(* call and every write of the state file is a step of its own, except     *)
(* consecutive label calls whose errors the code ignores: they are one     *)
(* action with one reply each.                                             *)
(***************************************************************************)
EXTENDS Integers, Sequences, FiniteSets

CONSTANTS
    MaxIssues,            \* bound: issues GitHub ever holds (1..MaxIssues)
    Roots,                \* issues opened by humans, 1..Roots
    MaxSubtasks,          \* decomposition.max_subtasks
    MaxConcurrent,        \* workspace.cleanup.max_concurrent
    MaxRetries,           \* PRValidationOptions.MaxRetries
    MaxCrashes,           \* bound: crashes of the process
    MaxSignals,           \* bound: SIGTERMs sent to it
    MaxReleases,          \* bound: times a human labels an issue agent:ready
    ApiFaults,            \* may a GitHub, Claude, git or workspace operation fail?
    SaveFaults,           \* may writing the state file fail?
    DecompositionEnabled, \* decomposition.enabled
    AllowPRMerging        \* agents.developer.allow_pr_merging

ASSUME WorkflowConstants ==
    /\ MaxIssues \in Nat /\ Roots \in 1..MaxIssues
    /\ MaxSubtasks \in Nat \ {0}
    /\ MaxConcurrent \in Nat /\ MaxRetries \in Nat
    /\ MaxCrashes \in Nat /\ MaxSignals \in Nat /\ MaxReleases \in Nat
    /\ {ApiFaults, SaveFaults, DecompositionEnabled, AllowPRMerging} \subseteq BOOLEAN

VARIABLES
    labels,    \* GitHub: the agent:* labels of every issue
    created,   \* GitHub: issues 1..created exist
    pr,        \* GitHub: the pull request of branch agent/issue-N
    green,     \* GitHub: did the checks of the branch's head pass?
    store,     \* disk: developer.json, the agent's one state record
    disk,      \* disk: the directory workspaces/issue-N
    proc,      \* the process: up, stopping (context cancelled) or down
    batch,     \* issues of the last poll not yet handled
    cur,       \* the issue processIssue is working on
    frame,     \* per issue: the activation record of its processIssue
    wsp,       \* the workspace manager's cache
    status,    \* DeveloperAgent.status
    sm,        \* the ShutdownManager: its step and the status it read
    crashes, signals, releases  \* how often each bounded event happened

github  == <<labels, created, pr, green>>
count   == <<crashes, signals, releases>>
memory  == <<batch, cur, frame, wsp, status>>
vars    == <<labels, created, pr, green, store, disk, proc, batch, cur, frame,
             wsp, status, sm, crashes, signals, releases>>

Issues == 1..MaxIssues
NoIssue == 0

Labels == {"ready", "claimed", "in-progress", "in-review", "failed", "epic",
           "subtask", "suggestion", "suggestion-rejected"}
\* state.WorkflowState; processIssue itself stores all but idle and analyze.
WorkflowStates == {"idle", "claim", "workspace", "analyze", "implement", "commit",
                   "pr", "review", "validation", "complete", "failed", "decompose"}
Record == [issue : Issues \cup {NoIssue}, state : WorkflowStates \cup {"corrupt"},
           pr : BOOLEAN]
NoRecord == [issue |-> NoIssue, state |-> "idle", pr |-> FALSE]
\* A file that os.WriteFile truncated and did not finish: Load fails on it.
Corrupt == [issue |-> NoIssue, state |-> "corrupt", pr |-> FALSE]

\* workspace.WorkspaceState, "none" for an issue the cache does not hold.
WorkspaceStates == {"none", "active", "stale", "failed"}
\* What DeveloperAgent.Status reports.
AgentStatus == [state : WorkflowStates, issue : Issues \cup {NoIssue}]

Steps == {"idle", "claim", "unready", "claimComment", "record", "setup", "clone",
          "analyze", "split", "resplit", "recordSplit", "children", "startImplement",
          "implement", "commit", "createPR", "recordPR", "startValidation",
          "validate", "merge", "finish", "complete", "fail", "failLabel"}
\* The steps that write the state file.
SavingSteps == {"record", "setup", "clone", "recordSplit", "startImplement", "implement",
                "commit", "recordPR", "startValidation", "complete", "fail"}

Frame == [pc : Steps, ws : WorkflowStates, pr : BOOLEAN, parent : Issues \cup {NoIssue},
          kids : Seq(Issues), made : BOOLEAN, attempt : Nat]
IdleFrame == [pc |-> "idle", ws |-> "idle", pr |-> FALSE, parent |-> NoIssue,
              kids |-> <<>>, made |-> FALSE, attempt |-> 0]
Entered(p) == [IdleFrame EXCEPT !.pc = "claim", !.parent = p]

TypeOK ==
    /\ labels \in [Issues -> SUBSET Labels]
    /\ created \in 0..MaxIssues
    /\ pr \in [Issues -> {"none", "open", "merged"}]
    /\ green \in [Issues -> BOOLEAN]
    /\ store \in Record
    /\ disk \in [Issues -> {"none", "empty", "repo"}]
    /\ proc \in {"up", "stopping", "down"}
    /\ batch \in SUBSET Issues
    /\ cur \in Issues \cup {NoIssue}
    /\ frame \in [Issues -> Frame]
    /\ wsp \in [Issues -> WorkspaceStates]
    /\ status \in AgentStatus
    /\ sm \in [step : {"off", "read", "write", "clean", "done"}, seen : AgentStatus]
    /\ crashes \in 0..MaxCrashes
    /\ signals \in 0..MaxSignals
    /\ releases \in 0..MaxReleases

Idle == [state |-> "idle", issue |-> NoIssue]
SMOff == [step |-> "off", seen |-> Idle]

Init ==
    /\ labels \in [Issues -> {{}, {"suggestion"}, {"suggestion", "suggestion-rejected"}}]
    /\ \A i \in Issues : i > Roots => labels[i] = {}
    /\ created = Roots
    /\ pr = [i \in Issues |-> "none"]
    /\ green = [i \in Issues |-> FALSE]
    /\ store = NoRecord
    /\ disk = [i \in Issues |-> "none"]
    /\ proc = "up" /\ batch = {} /\ cur = NoIssue
    /\ frame = [i \in Issues |-> IdleFrame]
    /\ wsp = [i \in Issues |-> "none"]
    /\ status = Idle /\ sm = SMOff
    /\ crashes = 0 /\ signals = 0 /\ releases = 0

-----------------------------------------------------------------------------
(* Replies of the outside world.  A call made with a cancelled context is  *)
(* refused without being sent; otherwise it may be applied, refused, or    *)
(* applied with its response lost.                                         *)

Cancelled == proc = "stopping"
Alive == proc \in {"up", "stopping"}

Replies ==
    IF Cancelled THEN {[applied |-> FALSE, ok |-> FALSE]}
    ELSE {[applied |-> TRUE, ok |-> TRUE]}
         \cup IF ApiFaults THEN {[applied |-> FALSE, ok |-> FALSE],
                                 [applied |-> TRUE, ok |-> FALSE]}
                           ELSE {}

\* The labels after AddLabels/RemoveLabel calls with reply r.
Relabel(old, r, add, remove) == IF r.applied THEN (old \ remove) \cup add ELSE old

-----------------------------------------------------------------------------
(* Building blocks of processIssue.                                        *)

At(i, step) == Alive /\ cur = i /\ frame[i].pc = step

Goto(i, step) == frame' = [frame EXCEPT ![i].pc = step]
\* ws.State = s, then on to the next step ...
Advance(i, s, step) == frame' = [frame EXCEPT ![i].pc = step, ![i].ws = s]
\* ... and Store.Save(ws), whose error every caller drops: the file may keep the
\* record it held, or be left unreadable.
Written(r) == store' \in {r} \cup IF SaveFaults THEN {store, Corrupt} ELSE {}
\* Variant: the record is written before the assignment.
SaveBeforeAssign(i, s) == Written([issue |-> i, state |-> frame[i].ws, pr |-> frame[i].pr])
Save(i, s) == Written([issue |-> i, state |-> s, pr |-> frame[i].pr])
UpdateStatus(s, i) == status' = [state |-> s, issue |-> i]

\* The deferred function of processIssue gives the workspace up.  Variants:
\* it is forgotten; it leaves a cleaned workspace in the cache.
NotGivenUp(i, finalState) == wsp
CleanedButCached(i, finalState) == [wsp EXCEPT ![i] = "cleaned"]
GivenUp(i, finalState) ==
    IF frame[i].made
    THEN [wsp EXCEPT ![i] = IF finalState = "failed" THEN "failed" ELSE "stale"]
    ELSE wsp

Return(i, finalState) ==
    /\ cur' = frame[i].parent
    /\ frame' = [frame EXCEPT ![i] = IdleFrame]
    /\ wsp' = GivenUp(i, finalState)

ActiveWorkspaces == {i \in Issues : wsp[i] = "active"}

\* checkConcurrentLimit.  Variant: off by one.
AtMostLimit == Cardinality(ActiveWorkspaces) <= MaxConcurrent
BelowLimit == Cardinality(ActiveWorkspaces) < MaxConcurrent

-----------------------------------------------------------------------------
(* Poller.poll and handleIssues.                                           *)

\* store.List: an unreadable file is skipped, so it is not a busy agent.
Busy == store.state \notin {"idle", "complete", "failed", "corrupt"}
\* Variant: a claimed suggestion may be promoted again.
DisqualifyingUnclaimed == {"failed", "suggestion-rejected", "ready", "in-progress", "in-review"}
Disqualifying == {"failed", "suggestion-rejected", "ready", "claimed", "in-progress", "in-review"}

\* promoteOneSuggestion, the poller's idle handler.
PromoteOneSuggestion ==
    IF ~Busy /\ \A i \in Issues : pr[i] # "open"
    THEN LET clean == {i \in Issues : "suggestion" \in labels[i]
                                      /\ labels[i] \cap Disqualifying = {}
                                      /\ pr[i] # "merged"}
         IN IF clean = {} THEN labels' = labels
            ELSE \E i \in clean, r \in Replies :
                   labels' = [labels EXCEPT ![i] = Relabel(@, r, {"ready"}, {})]
    ELSE labels' = labels

\* ListIssues returns open issues only; a merged "Closes #N" closes its issue.
Poll ==
    /\ proc = "up" /\ cur = NoIssue /\ batch = {}
    /\ LET ready == {i \in Issues : "ready" \in labels[i] /\ pr[i] # "merged"}
       IN IF ready = {} THEN PromoteOneSuggestion /\ UNCHANGED batch
                        ELSE batch' = ready /\ UNCHANGED labels
    /\ UNCHANGED <<created, pr, green, store, disk, proc, cur, frame, wsp, status,
                   sm, count>>

\* The next issue of the batch, in the order GitHub listed them.
HandleIssue(i) ==
    /\ Alive /\ cur = NoIssue /\ i \in batch
    /\ batch' = batch \ {i}
    /\ cur' = i
    /\ frame' = [frame EXCEPT ![i] = Entered(NoIssue)]
    /\ UpdateStatus("claim", i)
    /\ UNCHANGED <<github, store, disk, proc, wsp, sm, count>>

-----------------------------------------------------------------------------
(* processIssue, step by step.                                             *)

\* An error return before anything was claimed; a cancelled context always
\* ends here.
Claim(i) ==
    /\ At(i, "claim")
    /\ \E r \in Replies :
         /\ labels' = [labels EXCEPT ![i] = Relabel(@, r, {"claimed"}, {})]
         /\ IF r.ok THEN Goto(i, "unready") /\ UNCHANGED <<cur, wsp>>
                    ELSE Return(i, "idle")
    /\ UNCHANGED <<created, pr, green, store, disk, proc, batch, status, sm, count>>


Unready(i) ==
    /\ At(i, "unready")
    /\ \E r \in Replies : labels' = [labels EXCEPT ![i] = Relabel(@, r, {}, {"ready"})]
    /\ Goto(i, "claimComment")
    /\ UNCHANGED <<created, pr, green, store, disk, proc, batch, cur, wsp, status, sm,
                   count>>

\* The comment is the last call of claimIssue whose error is returned: the
\* labels are already changed and nothing is stored yet.
ClaimComment(i) ==
    /\ At(i, "claimComment")
    /\ \E r \in Replies : IF r.ok THEN Goto(i, "record") /\ UNCHANGED <<cur, wsp>>
                                  ELSE Return(i, "idle")
    /\ UNCHANGED <<github, store, disk, proc, batch, status, sm, count>>

RecordClaim(i) ==
    /\ At(i, "record")
    /\ Advance(i, "claim", "setup")
    /\ Save(i, "claim")
    /\ UpdateStatus("workspace", i)
    /\ UNCHANGED <<github, disk, proc, batch, cur, wsp, sm, count>>

\* shouldCleanupWorkspaceOnShutdown / shouldResetOnShutdown.
ShouldCleanupWorkspace(s) == s \in {"claim", "workspace"}
ShouldReset(s) == s \in {"claim", "workspace", "analyze", "implement"}

\* handleGracefulShutdown, reached from the check before workspace setup.
GracefulShutdown(i) ==
    /\ At(i, "setup") /\ Cancelled
    /\ Save(i, frame[i].ws)
    /\ IF ShouldCleanupWorkspace(frame[i].ws)
       THEN disk' = [disk EXCEPT ![i] = "none"] /\ wsp' = [wsp EXCEPT ![i] = "none"]
       ELSE UNCHANGED disk /\ wsp' = [wsp EXCEPT ![i] = IF @ = "none" THEN @ ELSE "stale"]
    /\ IF ShouldReset(frame[i].ws)
       THEN \E r, q \in Replies :
              labels' = [labels EXCEPT ![i] =
                  Relabel(Relabel(@, r, {}, {"claimed", "in-progress"}), q, {"ready"}, {})]
       ELSE UNCHANGED labels
    /\ cur' = frame[i].parent
    /\ frame' = [frame EXCEPT ![i] = IdleFrame]
    /\ UNCHANGED <<created, pr, green, proc, batch, status, sm, count>>


\* CreateWorkspace: an active workspace is handed out again; otherwise the
\* disk and the concurrency limit are checked.
SetupWorkspace(i) ==
    /\ At(i, "setup") /\ ~Cancelled
    /\ \/ /\ wsp[i] = "active" \/ BelowLimit
          /\ wsp' = [wsp EXCEPT ![i] = "active"]
          /\ disk' = [disk EXCEPT ![i] = IF @ = "none" THEN "empty" ELSE @]
          /\ frame' = [frame EXCEPT ![i].pc = "clone", ![i].ws = "workspace", ![i].made = TRUE]
          /\ Save(i, "workspace")
       \/ /\ ApiFaults \/ ~BelowLimit
          /\ wsp[i] # "active"
          /\ Goto(i, "fail")
          /\ UNCHANGED <<wsp, disk, store>>
    /\ UNCHANGED <<github, proc, batch, cur, status, sm, count>>

\* Clone, CheckoutBranch, validateWorkspaceSize, checkpoint.  go-git refuses
\* to clone into a directory that already holds a repository.
Clone(i) ==
    /\ At(i, "clone")
    /\ \/ /\ disk[i] # "repo"
          /\ disk' = [disk EXCEPT ![i] = "repo"]
          /\ Goto(i, "analyze")
          /\ Save(i, "workspace")
          /\ UpdateStatus("analyze", i)
       \/ /\ ApiFaults \/ disk[i] = "repo"
          /\ disk' \in {disk, [disk EXCEPT ![i] = "repo"]}
          /\ Goto(i, "fail")
          /\ UNCHANGED <<store, status>>
    /\ UNCHANGED <<github, proc, batch, cur, wsp, sm, count>>

\* Claude's verdict; a plan that does not fit the budget is split when
\* decomposition is on (bound: while GitHub has room for another issue).
Analyze(i) ==
    /\ At(i, "analyze")
    /\ \E r \in Replies :
         IF ~r.ok THEN Goto(i, "fail") /\ UNCHANGED status
         ELSE \/ Goto(i, "startImplement") /\ UpdateStatus("implement", i)
              \/ /\ DecompositionEnabled /\ created < MaxIssues
                 /\ Goto(i, "split") /\ UpdateStatus("decompose", i)
    /\ UNCHANGED <<github, store, disk, proc, batch, cur, wsp, sm, count>>


\* createChildIssues, one CreateIssue at a time.  GitHub numbers the issues;
\* a child whose creation was not acknowledged stays behind with its labels.
CreateChild(i) ==
    /\ frame[i].pc \in {"split", "resplit"} /\ At(i, frame[i].pc)
    /\ Len(frame[i].kids) < MaxSubtasks /\ created < MaxIssues
    /\ \E r \in Replies :
         /\ created' = IF r.applied THEN created + 1 ELSE created
         /\ labels' = IF r.applied
                      THEN [labels EXCEPT ![created + 1] = {"subtask", "ready"}]
                      ELSE labels
         /\ frame' = IF r.ok THEN [frame EXCEPT ![i].kids = Append(@, created + 1)]
                     ELSE [frame EXCEPT ![i].pc = "fail"]
    /\ UNCHANGED <<pr, green, store, disk, proc, batch, cur, wsp, status, sm, count>>

\* The parent becomes an epic (and failed, when split after the iteration
\* limit); both label calls ignore their errors.
LabelEpic(i) ==
    /\ frame[i].pc \in {"split", "resplit"} /\ At(i, frame[i].pc)
    /\ frame[i].kids # <<>>
    /\ \E r, q \in Replies :
         labels' = [labels EXCEPT ![i] = Relabel(
             Relabel(@, r, IF frame[i].pc = "split" THEN {"epic"} ELSE {"epic", "failed"}, {}),
             q, {}, {"ready"})]
    /\ Goto(i, "recordSplit")
    /\ UNCHANGED <<created, pr, green, store, disk, proc, batch, cur, wsp, status, sm,
                   count>>

RecordSplit(i) ==
    /\ At(i, "recordSplit")
    /\ Advance(i, "decompose", "children")
    /\ Save(i, "decompose")
    /\ UNCHANGED <<github, disk, proc, batch, cur, wsp, status, sm, count>>


\* The loop of processChildIssues moves on to the next child.  Variant: not yet.
NotPopped(i) == frame
Popped(i) == [frame EXCEPT ![i].kids = Tail(@)]

\* processChildIssues: a child that cannot be fetched or is no longer ready is
\* skipped; any other is processed by a nested processIssue.
NextChild(i) ==
    /\ At(i, "children") /\ frame[i].kids # <<>>
    /\ LET c == Head(frame[i].kids)
       IN \E r \in Replies :
            IF r.ok /\ "ready" \in labels[c]
            THEN /\ cur' = c
                 /\ frame' = [Popped(i) EXCEPT ![c] = Entered(i)]
                 /\ UpdateStatus("claim", c)
            ELSE frame' = Popped(i) /\ UNCHANGED <<cur, status>>
    /\ UNCHANGED <<github, store, disk, proc, batch, wsp, sm, count>>

ChildrenDone(i) ==
    /\ At(i, "children") /\ frame[i].kids = <<>>
    /\ UpdateStatus("idle", NoIssue)
    /\ Return(i, "decompose")
    /\ UNCHANGED <<github, store, disk, proc, batch, sm, count>>

StartImplement(i) ==
    /\ At(i, "startImplement")
    /\ \E r \in Replies : labels' = [labels EXCEPT ![i] = Relabel(@, r, {"in-progress"}, {})]
    /\ Advance(i, "implement", "implement")
    /\ Save(i, "implement")
    /\ UNCHANGED <<created, pr, green, disk, proc, batch, cur, wsp, status, sm, count>>

\* Claude's tool loop: done, out of iterations, or an error.
Implement(i) ==
    /\ At(i, "implement")
    /\ \E r \in Replies :
         \/ /\ r.ok
            /\ Advance(i, "commit", "commit")
            /\ Save(i, "commit")
            /\ UpdateStatus("commit", i)
         \/ /\ r.ok /\ DecompositionEnabled /\ created < MaxIssues
            /\ Goto(i, "resplit")
            /\ UpdateStatus("decompose", i)
            /\ UNCHANGED store
         \/ /\ ~r.ok
            /\ Goto(i, "fail")
            /\ UNCHANGED <<store, status>>
    /\ UNCHANGED <<github, disk, proc, batch, cur, wsp, sm, count>>


\* StageAll, HasChanges, Commit, Push.  None of them looks at the context; a
\* push replaces the head, so earlier check results no longer count.
CommitAndPush(i) ==
    /\ At(i, "commit")
    /\ \/ /\ disk[i] = "repo"
          /\ green' = [green EXCEPT ![i] = FALSE]
          /\ Advance(i, "pr", "createPR")
          /\ Save(i, "pr")
          /\ UpdateStatus("pr", i)
       \/ /\ ApiFaults \/ disk[i] # "repo"
          /\ Goto(i, "fail")
          /\ UNCHANGED <<green, store, status>>
    /\ UNCHANGED <<labels, created, pr, disk, proc, batch, cur, wsp, sm, count>>


\* The error check after CreatePR.  Variant: the error is only logged.
AfterCreatePRUnchecked(ok) == "recordPR"
AfterCreatePR(ok) == IF ok THEN "recordPR" ELSE "fail"

\* GitHub refuses a second open pull request for the same branch.
CreatePR(i) ==
    /\ At(i, "createPR")
    /\ \E r \in Replies :
         IF pr[i] = "open" THEN Goto(i, AfterCreatePR(FALSE)) /\ UNCHANGED pr
         ELSE /\ pr' = IF r.applied THEN [pr EXCEPT ![i] = "open"] ELSE pr
              /\ Goto(i, AfterCreatePR(r.ok))
    /\ UNCHANGED <<labels, created, green, store, disk, proc, batch, cur, wsp, status, sm,
                   count>>

RecordPR(i) ==
    /\ At(i, "recordPR")
    /\ frame' = [frame EXCEPT ![i].pc = "startValidation", ![i].ws = "review", ![i].pr = TRUE]
    /\ Written([issue |-> i, state |-> "review", pr |-> TRUE])
    /\ UpdateStatus("validation", i)
    /\ UNCHANGED <<github, disk, proc, batch, cur, wsp, sm, count>>

StartValidation(i) ==
    /\ At(i, "startValidation")
    /\ frame' = [frame EXCEPT ![i].pc = "validate", ![i].ws = "validation", ![i].attempt = 1]
    /\ Save(i, "validation")
    /\ UNCHANGED <<github, disk, proc, batch, cur, wsp, status, sm, count>>


\* What follows the last round of the validation loop.  Variant: the loop falls
\* through to success.
AfterLastRoundMerge == "merge"
AfterLastRound == "fail"

\* One round of validatePRChecks: ValidatePR answers success, failed or an
\* error (timeout included).  A failed round is followed by a fix, which may
\* fail, change nothing, or be pushed; the last round is not.
ValidatePR(i) ==
    /\ At(i, "validate")
    /\ IF frame[i].attempt > MaxRetries THEN Goto(i, AfterLastRound) /\ UNCHANGED green
       ELSE \E r \in Replies :
              \/ ~r.ok /\ Goto(i, "fail") /\ UNCHANGED green
              \/ /\ r.ok
                 /\ green' = [green EXCEPT ![i] = TRUE]
                 /\ Goto(i, "merge")
              \/ /\ r.ok /\ frame[i].attempt >= MaxRetries
                 /\ Goto(i, AfterLastRound) /\ UNCHANGED green
              \/ /\ r.ok /\ frame[i].attempt < MaxRetries
                 /\ frame' = [frame EXCEPT ![i].attempt = @ + 1]
                 /\ green' = [green EXCEPT ![i] = FALSE]
    /\ UNCHANGED <<labels, created, pr, store, disk, proc, batch, cur, wsp, status, sm,
                   count>>

MergePR(i) ==
    /\ At(i, "merge")
    /\ IF AllowPRMerging /\ pr[i] = "open"
       THEN \E r \in Replies : pr' = IF r.applied THEN [pr EXCEPT ![i] = "merged"] ELSE pr
       ELSE UNCHANGED pr
    /\ Goto(i, "finish")
    /\ UpdateStatus("review", i)
    /\ UNCHANGED <<labels, created, green, store, disk, proc, batch, cur, wsp, sm,
                   count>>


FinishLabels(i) ==
    /\ At(i, "finish")
    /\ \E r, q \in Replies :
         labels' = [labels EXCEPT ![i] =
             Relabel(Relabel(@, r, {}, {"in-progress"}), q, {"in-review"}, {})]
    /\ Goto(i, "complete")
    /\ UNCHANGED <<created, pr, green, store, disk, proc, batch, cur, wsp, status, sm,
                   count>>


Complete(i) ==
    /\ At(i, "complete")
    /\ Save(i, "complete")
    /\ UpdateStatus("idle", NoIssue)
    /\ Return(i, "complete")
    /\ UNCHANGED <<github, disk, proc, batch, sm, count>>

\* failIssue: the record first, then the label; the claim labels stay.
FailIssue(i) ==
    /\ At(i, "fail")
    /\ Advance(i, "failed", "failLabel")
    /\ Save(i, "failed")
    /\ UNCHANGED <<github, disk, proc, batch, cur, wsp, status, sm, count>>

FailLabel(i) ==
    /\ At(i, "failLabel")
    /\ \E r \in Replies : labels' = [labels EXCEPT ![i] = Relabel(@, r, {"failed"}, {})]
    /\ UpdateStatus("idle", NoIssue)
    /\ Return(i, "failed")
    /\ UNCHANGED <<created, pr, green, store, disk, proc, batch, sm, count>>

Process(i) ==
    \/ HandleIssue(i) \/ Claim(i) \/ Unready(i) \/ ClaimComment(i) \/ RecordClaim(i)
    \/ GracefulShutdown(i) \/ SetupWorkspace(i) \/ Clone(i) \/ Analyze(i)
    \/ CreateChild(i) \/ LabelEpic(i) \/ RecordSplit(i) \/ NextChild(i) \/ ChildrenDone(i)
    \/ StartImplement(i) \/ Implement(i) \/ CommitAndPush(i) \/ CreatePR(i) \/ RecordPR(i)
    \/ StartValidation(i) \/ ValidatePR(i) \/ MergePR(i) \/ FinishLabels(i) \/ Complete(i)
    \/ FailIssue(i) \/ FailLabel(i)

Agent == Poll \/ \E i \in Issues : Process(i)

-----------------------------------------------------------------------------
(* The process around the agent.                                           *)

\* SIGINT or SIGTERM cancels the context and starts ShutdownManager.Shutdown.
Signal ==
    /\ proc = "up" /\ signals < MaxSignals
    /\ signals' = signals + 1
    /\ proc' = "stopping"
    /\ sm' = [sm EXCEPT !.step = "read"]
    /\ UNCHANGED <<github, store, disk, memory, crashes, releases>>

\* saveCheckpoints reads the agent's status ...
ReadStatus ==
    /\ Alive /\ sm.step = "read"
    /\ sm' = [step |-> IF status.state = "idle" THEN "clean" ELSE "write", seen |-> status]
    /\ UNCHANGED <<github, store, disk, proc, memory, count>>

\* ... and writes a fresh record made of it, without the PR number.
SaveCheckpoint ==
    /\ Alive /\ sm.step = "write"
    /\ Written([issue |-> sm.seen.issue, state |-> sm.seen.state, pr |-> FALSE])
    /\ sm' = [sm EXCEPT !.step = "clean"]
    /\ UNCHANGED <<github, disk, proc, memory, count>>

\* cleanupWorkspaces removes every issue directory, the agent's own included.
CleanupWorkspaces ==
    /\ Alive /\ sm.step = "clean"
    /\ disk' = [i \in Issues |-> "none"]
    /\ sm' = [sm EXCEPT !.step = "done"]
    /\ UNCHANGED <<github, store, proc, memory, count>>

ShutdownManager == ReadStatus \/ SaveCheckpoint \/ CleanupWorkspaces

\* What the process loses when it ends.
MemoryLost ==
    /\ proc' = "down" /\ batch' = {} /\ cur' = NoIssue
    /\ frame' = [i \in Issues |-> IdleFrame]
    /\ wsp' = [i \in Issues |-> "none"]
    /\ status' = Idle /\ sm' = SMOff

\* runStart returns: the agent finished, or five seconds passed.
Exit ==
    /\ proc = "stopping" /\ sm.step = "done"
    /\ MemoryLost
    /\ UNCHANGED <<github, store, disk, count>>

\* A crash inside FileStore.Save leaves a truncated file.
Crash ==
    /\ Alive /\ crashes < MaxCrashes
    /\ crashes' = crashes + 1
    /\ MemoryLost
    /\ \/ UNCHANGED store
       \/ /\ \/ sm.step = "write"
             \/ cur # NoIssue /\ frame[cur].pc \in SavingSteps
          /\ store' = Corrupt
    /\ UNCHANGED <<github, disk, signals, releases>>


\* loadExistingWorkspaces takes every directory for stale work.  Variant: for
\* active work.
LoadedActive(i) == IF disk[i] = "none" THEN "none" ELSE "active"
LoadedWorkspace(i) == IF disk[i] = "none" THEN "none" ELSE "stale"

\* Start-up.  RecoverInterruptedWorkflows finds no workflow to recover and the
\* startup validator only reports: neither changes the record or the labels.
Restart ==
    /\ proc = "down"
    /\ proc' = "up"
    /\ wsp' = [i \in Issues |-> LoadedWorkspace(i)]
    /\ UNCHANGED <<github, store, disk, batch, cur, frame, status, sm, count>>

\* A human releases an issue for the agent, for the first time or again
\* after a failure (then clearing what the agent left on it).
HumanReady(i) ==
    /\ i <= created /\ pr[i] # "merged" /\ releases < MaxReleases
    /\ releases' = releases + 1
    /\ \/ labels[i] \subseteq {"suggestion", "subtask"}
       \/ "failed" \in labels[i]
    /\ labels' = [labels EXCEPT ![i] =
                    (@ \ {"failed", "claimed", "in-progress", "in-review", "epic"}) \cup {"ready"}]
    /\ UNCHANGED <<created, pr, green, store, disk, proc, memory, sm, crashes, signals>>

Next ==
    \/ Agent
    \/ Signal \/ ShutdownManager \/ Exit \/ Crash \/ Restart
    \/ \E i \in Issues : HumanReady(i)

\* The agent goroutine and the shutdown goroutine keep running while the
\* process is alive, and an operator restarts a process that is down.
Fairness == WF_vars(Agent) /\ WF_vars(ShutdownManager) /\ WF_vars(Exit) /\ WF_vars(Restart)

Spec == Init /\ [][Next]_vars /\ Fairness

-----------------------------------------------------------------------------
(* Properties.                                                             *)

Working(i) == frame[i].pc # "idle"

\* An issue is marked in-review only once its pull request exists: README.md
\* and docs/guides/github-integration.md give the label that meaning, and the
\* steps between CreatePR and the label may fail, be cancelled or crash.
ReviewHasPR == \A i \in Issues : "in-review" \in labels[i] => pr[i] # "none"

\* A record that says the work reached review, validation or completion is
\* never about an issue without a pull request, whoever wrote it (the agent,
\* or the ShutdownManager from a status it read earlier).
RecordedPRExists ==
    store.state \in {"review", "validation", "complete"} => pr[store.issue] # "none"

\* A pull request is merged only while the checks of its head pass: no push
\* comes between the successful validation and the merge.
MergedOnlyWhenGreen == \A i \in Issues : pr[i] = "merged" => green[i]

\* Every return path of processIssue gives its workspace up, so an active
\* workspace always belongs to an activation that is still on the call stack;
\* a leak would eat into max_concurrent until every issue fails.
NoLeakedWorkspace ==
    \A i \in Issues : wsp[i] = "active" => Working(i) /\ frame[i].made

\* CreateWorkspace keeps the number of active workspaces within the limit,
\* nested activations for child issues included.
ConcurrencyLimit == Cardinality(ActiveWorkspaces) <= MaxConcurrent

\* The activations form one call stack: the running issue and every issue
\* waiting for a child are distinct, a waiting parent is at processChildIssues,
\* and no pending child is already being processed.
CallStack ==
    /\ cur = NoIssue => \A i \in Issues : ~Working(i)
    /\ \A i \in Issues : Working(i) =>
         /\ i = cur \/ frame[i].pc = "children"
         /\ frame[i].parent # NoIssue =>
              Working(frame[i].parent) /\ frame[i].parent < i
         /\ \A k \in 1..Len(frame[i].kids) : ~Working(frame[i].kids[k])

Rank == [idle |-> 0, claim |-> 1, workspace |-> 2, analyze |-> 3, implement |-> 4, commit |-> 5,
         pr |-> 6, review |-> 7, validation |-> 8, complete |-> 9, decompose |-> 9, failed |-> 9]

\* The record of an issue never falls back to an earlier stage except by
\* claiming the issue anew: without a shutdown the agent is its only writer, and
\* its writes must succeed, or a record of before the claim is still there.
RecordAdvances ==
    [][(/\ "corrupt" \notin {store.state, store'.state}
        /\ store'.issue = store.issue /\ store'.state # "claim")
       => Rank[store'.state] >= Rank[store.state]]_vars

\* With nothing failing, every issue released for the agent ends in review,
\* failed, or split into subtasks (docs/guides/github-integration.md, label
\* transitions), children included.
ReadyIsSettled ==
    \A i \in Issues :
        ("ready" \in labels[i] /\ i <= created) ~>
        (labels[i] \cap {"in-review", "failed", "epic"} # {} \/ pr[i] = "merged")

\* "Removes agent:ready label (prevents re-processing on restart)",
\* docs/guides/developer-workflow.md: an issue that already carries the claim
\* is not claimed a second time unless a human releases it again.
NoReprocessing ==
    [][\A i \in Issues :
         (frame[i].pc = "claim" /\ frame'[i].pc = "unready") => "claimed" \notin labels[i]]_vars

\* "Reset issue to ready state if we haven't made significant progress",
\* workflow.go: an issue whose activation is ended by handleGracefulShutdown
\* is ready again.
ShutdownReleasesClaim ==
    [][\A i \in Issues :
         (frame[i].pc = "setup" /\ frame'[i].pc = "idle" /\ proc' = "stopping")
         => "ready" \in labels'[i]]_vars
=============================================================================
