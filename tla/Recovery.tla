------------------------------- MODULE Recovery -------------------------------
(***************************************************************************)
(* What may be done with the record of an agent that stopped in its work   *)
(* on an issue: StateValidator and RecoveryManager of internal/state, and  *)
(* RecoveryManager and StartupValidator of internal/developer.  Each call  *)
(* to GitHub and to the store is a step that may fail; the process may die *)
(* between two of them, and whoever calls may call again.                  *)
(***************************************************************************)
EXTENDS Integers, FiniteSets

CONSTANTS
    ResetClaims, \* config.Shutdown.ResetClaims
    Reached,  \* the states of the records that are found
    Ages      \* bound: their ages, some of the limits the code has: half an hour,
              \* one, six, twelve and 24 hours, in minutes

Early == {"claim", "analyze", "workspace"}
Late == {"commit", "pr", "validation"}
Terminal == {"complete", "failed", "idle"}

VARIABLES
    record,         \* the agent's record in the store, or none
    labels,         \* labels of the issue
    issue, pr,      \* the issue and its pull request on GitHub
    dir,            \* the workspace directory exists
    repair,         \* the operation under way: its name and next step
    read,           \* what it has read of GitHub
    unlabelled      \* adding the label agent:ready has failed

recoveryVars == <<record, labels, issue, pr, dir, repair, read, unlabelled>>

NoRecord == [state |-> "none", age |-> 0, checkpoint |-> "none", error |-> FALSE, pr |-> FALSE]
Unread == [issue |-> "unread", claimed |-> FALSE, pr |-> "unread"]
NoOperation == [op |-> "none", at |-> "idle"]

\* The records an agent leaves: it writes the number of a pull request once it
\* has one, and a checkpoint is younger than two hours ("recent") or not.
Left == {r \in [state : Reached, age : Ages, checkpoint : {"none", "recent", "old"},
                error : BOOLEAN, pr : BOOLEAN] :
            /\ r.state \notin {"none", "recovered"}
            /\ r.pr => r.state \in {"pr", "validation", "review", "complete", "failed"}
            /\ r.state \in {"validation", "review", "complete"} => r.pr
            /\ r.error => r.state = "failed"
            /\ r.checkpoint = "recent" => r.age <= 60}

RecoveryInit ==
    /\ record \in Left
    /\ labels \in {{"claimed"}, {"claimed", "in-progress"}}
    /\ issue = "open" /\ pr = IF record.pr THEN "open" ELSE "none"
    /\ dir = (record.state \notin {"claim", "idle"})
    /\ repair = NoOperation /\ read = Unread /\ unlabelled = FALSE

-----------------------------------------------------------------------------
(* ValidateWorkState, over what was read.                                  *)

Working == record.state \notin Terminal

Critical == Cardinality({x \in {"issue", "pr"} : read[x] = "error"})
Drifts == {d \in {"closed", "unclaimed", "pr"} :
              CASE d = "closed" -> read.issue = "closed" /\ record.state \notin {"complete", "failed"}
                [] d = "unclaimed" -> read.issue \in {"open", "closed"} /\ Working /\ ~read.claimed
                [] d = "pr" -> read.pr = "closed" /\ record.state \notin {"complete", "failed"}}
Valid == Critical = 0

\* The recommended action that changes something: only for an invalid report,
\* and a drift alone does not make it invalid.
Reconciles == ~Valid /\ Drifts # {} /\ Working

isOrphanedWork ==
    /\ Working
    /\ \/ record.age > 60
       \/ record.age > 30 /\ (record.error \/ record.state \in {"claim", "analyze"})

determineRecoveryType ==
    IF record.checkpoint = "recent" THEN "resume"
    ELSE IF record.pr THEN "manual"
    ELSE IF record.state \in Early THEN "cleanup" ELSE "resume"

-----------------------------------------------------------------------------
(* AttemptResume, over the same report.                                    *)

canResumeWork ==
    /\ record.state \notin {"complete", "failed"}
    /\ record.age <= 1440
    /\ Critical = 0 /\ "closed" \notin Drifts
    /\ \/ record.checkpoint # "none"
       \/ record.state \in {"claim", "analyze"}
       \/ record.state = "workspace" /\ dir

Score(condition, n) == IF condition THEN n ELSE 0

\* assessResumptionRisk: the sum that is low, medium (2), high (5) or critical (8).
assessResumptionRisk ==
    Score(record.age > 720, 2) + Score(record.age > 360 /\ record.age <= 720, 1)
    + 4 * Critical + Cardinality(Drifts) + Score(record.error, 1)
    + Score(record.state \in {"pr", "validation", "review"}, 2)

\* To resume, and neither to restart nor to clean up; no report asks for a
\* required cleanup.
makeResumptionRecommendation == assessResumptionRisk < 5 /\ record.age <= 720
AttemptResume == canResumeWork /\ makeResumptionRecommendation

-----------------------------------------------------------------------------
(* Steps of the operations.                                                *)

Continue(step) == repair' = [repair EXCEPT !.at = step]
Done == repair' = NoOperation /\ read' = Unread
NoLabels == UNCHANGED <<labels, unlabelled>>

Begins(op, step) ==
    /\ repair = NoOperation /\ record # NoRecord
    /\ repair' = [op |-> op, at |-> step] /\ read' = Unread
    /\ UNCHANGED <<record, labels, issue, pr, dir, unlabelled>>

\* GetIssue and GetPR of the validator; a failure is part of the report.
ReadIssue ==
    /\ repair.at = "issue"
    /\ \/ read' = [read EXCEPT !.issue = issue, !.claimed = "claimed" \in labels]
       \/ read' = [read EXCEPT !.issue = "error"]
    /\ Continue(IF record.pr THEN "pr" ELSE "report")
    /\ UNCHANGED <<record, labels, issue, pr, dir, unlabelled>>

ReadPR ==
    /\ repair.at = "pr"
    /\ read' \in {[read EXCEPT !.pr = p] : p \in {pr, "error"}}
    /\ Continue("report")
    /\ UNCHANGED <<record, labels, issue, pr, dir, unlabelled>>

\* performFullCleanup begins with the labels.  Variant: it leaves them.
LeavesLabels == "rmdir"
FullCleanup == "unclaim"

\* What follows the report: a start only logs it; ReconcileState looks at drifts
\* only if the report is not valid; CleanupOrphanedWork cleans unless the plan
\* is to resume.
Report ==
    /\ repair.at = "report"
    /\ \/ repair.op = "startup" /\ Done
       \/ /\ repair.op = "reconcile"
          /\ IF Reconciles
             THEN Continue("claim") /\ UNCHANGED read ELSE Done
       \/ /\ repair.op = "orphan"
          /\ IF AttemptResume THEN Done ELSE Continue(FullCleanup) /\ UNCHANGED read
       \/ /\ repair.op = "recover"
          /\ IF read.pr = "open" THEN Continue("mark") ELSE Continue(IF ResetClaims THEN "unclaim" ELSE "mark")
          /\ UNCHANGED read
    /\ UNCHANGED <<record, labels, issue, pr, dir, unlabelled>>

\* executeReconcileAction.
Reclaims ==
    /\ repair.at = "claim"
    /\ \/ labels' = labels \cup {"claimed"} /\ Continue("unready") /\ UNCHANGED read
       \/ UNCHANGED labels /\ Done
    /\ UNCHANGED <<record, issue, pr, dir, unlabelled>>

Unreadies ==
    /\ repair.at = "unready" /\ labels' \in {labels, labels \ {"ready"}} /\ Done
    /\ UNCHANGED <<record, issue, pr, dir, unlabelled>>

\* CleanupOrphanedWork of an item found orphaned: by its recovery type.
CleanupOrphanedWork ==
    /\ isOrphanedWork
    /\ Begins("orphan", CASE determineRecoveryType = "cleanup" -> FullCleanup
                          [] determineRecoveryType = "resume" -> "issue"
                          [] determineRecoveryType = "manual" -> "flag")

\* flagForManualIntervention; the comment comes first, and may fail.
FlagForManual ==
    /\ repair.at = "flag" /\ labels' \in {labels, labels \cup {"manual-review"}} /\ Done
    /\ UNCHANGED <<record, issue, pr, dir, unlabelled>>

\* recoverWorkflow of internal/state: by the state of the record.
RecoverWorkflow ==
    Begins("recover", CASE record.state \in Late -> IF record.pr THEN "pr" ELSE "report"
                        [] record.state \in {"review", "complete"} -> "mark"
                        [] OTHER -> IF ResetClaims THEN "unclaim" ELSE "mark")

\* resetIssueToReady and cleanupGitHubLabels: a label that cannot be removed
\* is only logged.
Unclaims ==
    /\ repair.at = "unclaim"
    /\ \E gone \in SUBSET {"claimed", "in-progress"} :
          /\ repair.op = "orphan" => gone \subseteq {"claimed"}
          /\ labels' = labels \ gone
    /\ Continue("ready")
    /\ UNCHANGED <<record, issue, pr, dir, read, unlabelled>>

\* If agent:ready cannot be added, the recovery ends with an error and the full
\* cleanup goes on.
Readies ==
    /\ repair.at = "ready"
    /\ \/ /\ labels' = labels \cup {"ready"} /\ UNCHANGED <<read, unlabelled>>
          /\ Continue(IF repair.op = "recover" THEN "mark" ELSE "rmdir")
       \/ /\ UNCHANGED labels /\ unlabelled' = TRUE
          /\ IF repair.op = "recover" THEN Done ELSE Continue("rmdir") /\ UNCHANGED read
    /\ UNCHANGED <<record, issue, pr, dir>>

\* cleanupCheckpoint of internal/state: the record is saved as recovered.
MarkRecovered ==
    /\ repair.at = "mark" /\ Done
    /\ record' \in {record, [record EXCEPT !.state = "recovered", !.age = 0]}
    /\ UNCHANGED <<labels, issue, pr, dir, unlabelled>>

\* performFullCleanup, after the labels: workspace, checkpoint and record, each
\* whatever became of the others.
RemoveWorkspace ==
    /\ repair.at = "rmdir" /\ dir' \in {dir, FALSE} /\ Continue("checkpoint")
    /\ UNCHANGED <<record, labels, issue, pr, read, unlabelled>>

CleanupCheckpoint ==
    /\ repair.at = "checkpoint" /\ Continue("delete")
    /\ record' \in {record, [record EXCEPT !.checkpoint = "none"]}
    /\ UNCHANGED <<labels, issue, pr, dir, read, unlabelled>>

DeleteState ==
    /\ repair.at = "delete" /\ Done /\ record' \in {record, NoRecord}
    /\ UNCHANGED <<labels, issue, pr, dir, unlabelled>>

ValidateAndRecoverStartup == Begins("startup", "issue")
ReconcileState == Begins("reconcile", "issue")

Operation ==
    \/ ValidateAndRecoverStartup \/ ReconcileState
    \/ CleanupOrphanedWork \/ RecoverWorkflow
    \/ ReadIssue \/ ReadPR \/ Report \/ Reclaims \/ Unreadies \/ FlagForManual
    \/ Unclaims \/ Readies \/ MarkRecovered \/ RemoveWorkspace \/ CleanupCheckpoint \/ DeleteState

-----------------------------------------------------------------------------

\* The record grows older, to the next limit; an operation takes seconds.
GrowsOlder ==
    /\ repair = NoOperation /\ record # NoRecord
    /\ \E a \in Ages :
          /\ a > record.age /\ \A b \in Ages : b > record.age => a <= b
          /\ record' = [record EXCEPT !.age = a]
    /\ UNCHANGED <<labels, issue, pr, dir, repair, read, unlabelled>>

People ==
    /\ \/ issue' = "closed" /\ UNCHANGED pr
       \/ pr = "open" /\ pr' = "closed" /\ UNCHANGED issue
    /\ UNCHANGED <<record, labels, dir, repair, read, unlabelled>>

ProcessDies ==
    /\ repair # NoOperation /\ Done
    /\ UNCHANGED <<record, labels, issue, pr, dir, unlabelled>>

\* An agent takes the ready issue again; its work is DeveloperWorkflow.
Taken ==
    /\ repair = NoOperation /\ "ready" \in labels /\ issue = "open"
    /\ labels' = {"claimed"}
    /\ record' = [NoRecord EXCEPT !.state = "claim"]
    /\ UNCHANGED <<issue, pr, dir, repair, read, unlabelled>>

RecoveryNext == Operation \/ GrowsOlder \/ People \/ ProcessDies \/ Taken

RecoverySpec == RecoveryInit /\ [][RecoveryNext]_recoveryVars

-----------------------------------------------------------------------------
\* However recoveries, cleanups, reconciliations and deaths follow each other,
\* an open issue without a pull request whose record is gone or marked recovered
\* is ready for an agent, as long as resetting is enabled and the label could be
\* added: when it could not, the full cleanup deletes the record all the same
\* and nobody comes back to the issue.
IssueNotLost ==
    /\ repair = NoOperation /\ record.state \in {"none", "recovered"}
    /\ issue = "open" /\ pr = "none" /\ ResetClaims /\ ~unlabelled
    => "ready" \in labels
=============================================================================
