-------------------------------- MODULE Resume --------------------------------
(***************************************************************************)
(* ResumeManager of internal/developer: what it makes of the latest        *)
(* snapshot of an issue when the agent starts again, and the execution of  *)
(* the actions it recommends.  Snapshot ages are minutes.                  *)
(***************************************************************************)
EXTENDS Integers, Sequences

Stages == {"claim", "analyze", "workspace", "implement", "decompose", "commit", "pr",
           "validation", "review", "complete", "failed"}

CONSTANTS
    SnapshotAges,   \* ages of snapshots, in minutes
    FileCounts,     \* numbers of files in a snapshot
    ModifiedCounts  \* numbers of files recorded as modified

ASSUME ResumeConstants ==
    SnapshotAges \subseteq Nat /\ FileCounts \subseteq Nat /\ ModifiedCounts \subseteq Nat

VARIABLES
    reached,    \* the state the agent had reached
    snapshot,   \* what RestoreSnapshot returned, or none
    point,      \* the ResumePoint: its actions, and whether it holds a snapshot
    strategy,   \* DetermineOptimalResumeStrategy
    executed,   \* number of actions executed
    aborted     \* ExecuteResume dereferenced a snapshot that is nil

resumeVars == <<reached, snapshot, point, strategy, executed, aborted>>

\* dirty: its git state has changes.  The tests read such snapshots, and files
\* that are modified; captureFileStates and captureGitState record neither yet.
NoSnapshot == [state |-> "none", age |-> 0, files |-> 0, modified |-> 0, dirty |-> FALSE]
Snapshots == [state : Stages, age : SnapshotAges, files : FileCounts,
              modified : ModifiedCounts, dirty : BOOLEAN]

ResumeInit ==
    /\ reached \in Stages /\ snapshot \in Snapshots \cup {NoSnapshot}
    /\ point = [actions |-> <<>>, holds |-> FALSE]
    /\ strategy = "none" /\ executed = 0 /\ aborted = FALSE

-----------------------------------------------------------------------------
(* Decisions.                                                              *)

\* The states an agent may have reached from a snapshot's.
Successor == [analyze |-> "workspace", workspace |-> "implement", implement |-> "commit",
              commit |-> "pr", pr |-> "validation"]
isStateCompatible ==
    \/ reached = snapshot.state
    \/ snapshot.state \in DOMAIN Successor /\ reached = Successor[snapshot.state]

\* assessResumeConfidence starts from 100; hasSignificantChanges is a stub.
AgePenalty == IF snapshot.age > 120 THEN 20 ELSE IF snapshot.age > 30 THEN 10 ELSE 0
FilePenalty == IF snapshot.files > 100 THEN 10 ELSE IF snapshot.files > 50 THEN 5 ELSE 0
ConfidenceScore == 100 - AgePenalty - (IF isStateCompatible THEN 0 ELSE 30) - FilePenalty
assessResumeConfidence == IF ConfidenceScore >= 80 THEN "high" ELSE IF ConfidenceScore >= 60 THEN "medium" ELSE "low"

\* assessResumeRisk, in tenths: the stage, the modified files, the git state.
StageRisk == CASE snapshot.state = "implement" -> 3 [] snapshot.state = "commit" -> 4
               [] snapshot.state = "pr" -> 2 [] OTHER -> 1
ChangeRisk == (IF snapshot.modified > 10 THEN 3 ELSE IF snapshot.modified > 5 THEN 2 ELSE 0)
              + (IF snapshot.dirty THEN 2 ELSE 0)
assessResumeRisk ==
    LET risk == StageRisk + ChangeRisk
    IN IF risk < 3 THEN "low" ELSE IF risk < 6 THEN "medium" ELSE "high"

generateResumeActions ==
    IF assessResumeConfidence = "low" \/ assessResumeRisk = "high"
    THEN <<"validate_files", "clean_workspace", "start_fresh">>
    ELSE <<"validate_files">>
         \o (IF assessResumeConfidence = "medium" \/ assessResumeRisk = "medium"
             THEN <<"verify_build">> ELSE <<>>)
         \o (IF snapshot.dirty THEN <<"restore_git_state">> ELSE <<>>)
         \o (IF snapshot.state \in {"implement", "commit"} THEN <<"restore_context">> ELSE <<>>)

DetermineOptimalResumeStrategy ==
    IF snapshot = NoSnapshot \/ snapshot.age > 1440 THEN "clean_restart"
    ELSE IF isStateCompatible THEN "from_snapshot" ELSE "from_checkpoint"

-----------------------------------------------------------------------------
\* AnalyzeResumeOptions: the fallback point has no snapshot and starts afresh.
AnalyzeResumeOptions ==
    /\ strategy = "none"
    /\ strategy' = DetermineOptimalResumeStrategy
    /\ point' = IF snapshot = NoSnapshot
                THEN [actions |-> <<"start_fresh">>, holds |-> FALSE]
                ELSE [actions |-> generateResumeActions, holds |-> TRUE]
    /\ UNCHANGED <<reached, snapshot, executed, aborted>>

\* ExecuteResume: startFresh is given the issue number of the point's snapshot.
ExecuteResume ==
    /\ strategy # "none" /\ ~aborted /\ executed < Len(point.actions)
    /\ executed' = executed + 1
    /\ aborted' = (point.actions[executed + 1] = "start_fresh" /\ ~point.holds)
    /\ UNCHANGED <<reached, snapshot, point, strategy>>

ResumeNext == AnalyzeResumeOptions \/ ExecuteResume

ResumeSpec == ResumeInit /\ [][ResumeNext]_resumeVars

-----------------------------------------------------------------------------
\* The rules that choose the strategy and the scores that choose the actions
\* contradict each other in one case only: a snapshot to be resumed from has its
\* workspace cleaned when its changes, or what is uncommitted, are too risky,
\* never for its age, its size or its distance from the state reached.
OnlyRiskCleans ==
    strategy = "from_snapshot" =>
        ((\E i \in DOMAIN point.actions : point.actions[i] = "clean_workspace")
            <=> assessResumeRisk = "high")

\* What the analysis recommends can be executed (it cannot without a snapshot).
PointIsExecutable == ~aborted
=============================================================================
