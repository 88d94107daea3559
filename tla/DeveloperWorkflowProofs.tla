---------------------- MODULE DeveloperWorkflowProofs -----------------------
(***************************************************************************)
(* Type correctness of DeveloperWorkflow and its safety invariants, for    *)
(* every number of issues, subtasks, retries, crashes and signals, with and*)
(* without faults, decomposition and merging.                              *)
(***************************************************************************)
EXTENDS DeveloperWorkflow, SequenceTheorems, FiniteSetTheorems, TLAPS

-----------------------------------------------------------------------------
(* Types, and what the building blocks of the actions do.                  *)

\* NoIssue, the zero value of IssueNumber, is no issue number.
LEMMA IssueRange == NoIssue \notin Issues /\ Issues \subseteq Nat
BY WorkflowConstants DEF Issues, NoIssue

-----------------------------------------------------------------------------
(* The building blocks of the actions.                                     *)
LEMMA RelabelType ==
    ASSUME NEW old \in SUBSET Labels, NEW r \in Replies,
           NEW add \in SUBSET Labels, NEW remove
    PROVE  Relabel(old, r, add, remove) \in SUBSET Labels
BY DEF Relabel

LEMMA FramePc ==
    ASSUME NEW f \in Frame, NEW s \in Steps
    PROVE  [f EXCEPT !.pc = s] \in Frame
BY DEF Frame

LEMMA FramePcWs ==
    ASSUME NEW f \in Frame, NEW s \in Steps, NEW w \in WorkflowStates
    PROVE  [f EXCEPT !.pc = s, !.ws = w] \in Frame
BY DEF Frame

LEMMA GotoType ==
    ASSUME TypeOK, NEW i \in Issues, NEW s \in Steps, Goto(i, s)
    PROVE  frame' \in [Issues -> Frame]
<1>1. frame[i] \in Frame BY DEF TypeOK
<1>2. [frame[i] EXCEPT !.pc = s] \in Frame BY <1>1, FramePc
<1> QED BY <1>2 DEF Goto, TypeOK

LEMMA AdvanceType ==
    ASSUME TypeOK, NEW i \in Issues, NEW s \in WorkflowStates, NEW t \in Steps, Advance(i, s, t)
    PROVE  frame' \in [Issues -> Frame]
<1>1. frame[i] \in Frame BY DEF TypeOK
<1>2. [frame[i] EXCEPT !.pc = t, !.ws = s] \in Frame BY <1>1, FramePcWs
<1>3. frame' = [frame EXCEPT ![i] = [frame[i] EXCEPT !.pc = t, !.ws = s]] BY
  DEF Advance, TypeOK
<1> QED BY <1>2, <1>3 DEF TypeOK

LEMMA IdleFrameType == IdleFrame \in Frame
BY DEF IdleFrame, Frame, Steps, WorkflowStates

LEMMA EnteredType ==
    ASSUME NEW p \in Issues \cup {NoIssue}
    PROVE  Entered(p) \in Frame
<1> DEFINE f == [IdleFrame EXCEPT !.pc = "claim"]
<1>1. f \in Frame BY IdleFrameType, FramePc DEF Steps
<1>2. [f EXCEPT !.parent = p] \in Frame BY <1>1 DEF Frame
<1> QED BY <1>2 DEF Entered

\* A write leaves a record, whether it succeeds or not.
LEMMA WrittenType == ASSUME TypeOK, NEW r \in Record, Written(r) PROVE store' \in Record
<1>1. Corrupt \in Record BY DEF Corrupt, Record
<1> QED BY <1>1 DEF Written, TypeOK

LEMMA SaveType ==
    ASSUME TypeOK, NEW i \in Issues, NEW s \in WorkflowStates, Save(i, s)
    PROVE  store' \in Record
<1>1. frame[i].pr \in BOOLEAN BY DEF TypeOK, Frame
<1>2. [issue |-> i, state |-> s, pr |-> frame[i].pr] \in Record BY <1>1 DEF Record
<1> QED BY <1>2, WrittenType DEF Save

LEMMA ReturnType ==
    ASSUME TypeOK, NEW i \in Issues, NEW s, Return(i, s)
    PROVE  /\ cur' \in Issues \cup {NoIssue}
           /\ frame' \in [Issues -> Frame]
           /\ wsp' \in [Issues -> WorkspaceStates]
<1>1. frame[i] \in Frame BY DEF TypeOK
<1>2. cur' \in Issues \cup {NoIssue} BY <1>1 DEF Return, Frame
<1>3. frame' \in [Issues -> Frame] BY IdleFrameType DEF Return, TypeOK
<1>4. wsp' \in [Issues -> WorkspaceStates] BY DEF Return, TypeOK, GivenUp, WorkspaceStates
<1> QED BY <1>2, <1>3, <1>4

LEMMA UpdateStatusType ==
    ASSUME NEW s \in WorkflowStates, NEW i \in Issues \cup {NoIssue}, UpdateStatus(s, i)
    PROVE  status' \in AgentStatus
BY DEF UpdateStatus, AgentStatus

-----------------------------------------------------------------------------
(* One lemma per action.                                                   *)
LEMMA TypePoll == ASSUME TypeOK, Poll PROVE TypeOK'
<1>1. labels' \in [Issues -> SUBSET Labels]
  <2>1. CASE PromoteOneSuggestion
    <3>1. CASE labels' = labels BY <3>1 DEF TypeOK
    <3>2. CASE \E i \in Issues, r \in Replies :
                   labels' = [labels EXCEPT ![i] = Relabel(@, r, {"ready"}, {})]
      BY <3>2, RelabelType DEF TypeOK, Labels
    <3> QED BY <2>1, <3>1, <3>2 DEF PromoteOneSuggestion
  <2>2. CASE labels' = labels BY <2>2 DEF TypeOK
  <2> QED BY <2>1, <2>2 DEF Poll
<1>2. batch' \in SUBSET Issues BY DEF Poll, TypeOK
<1> QED BY <1>1, <1>2 DEF TypeOK, Poll, count

LEMMA TypeHandleIssue == ASSUME TypeOK, NEW i \in Issues, HandleIssue(i) PROVE TypeOK'
<1>1. frame' \in [Issues -> Frame]
  BY EnteredType DEF HandleIssue, TypeOK
<1>2. status' \in AgentStatus
  BY UpdateStatusType DEF HandleIssue, WorkflowStates
<1> QED BY <1>1, <1>2 DEF TypeOK, HandleIssue, github, count, memory

\* A sub-task is created only while an issue number is left for it.
LEMMA RoomForChild ==
    ASSUME TypeOK, NEW i \in Issues, CreateChild(i)
    PROVE  created + 1 \in Issues /\ created \in Nat
<1>1. created \in 0..MaxIssues BY DEF TypeOK
<1>2. created < MaxIssues BY DEF CreateChild
<1>3. MaxIssues \in Nat BY WorkflowConstants
<1> QED BY ONLY <1>1, <1>2, <1>3 DEF Issues

LEMMA TypeCreateChild == ASSUME TypeOK, NEW i \in Issues, CreateChild(i) PROVE TypeOK'
<1> PICK r \in Replies :
         /\ created' = IF r.applied THEN created + 1 ELSE created
         /\ labels' = IF r.applied
                      THEN [labels EXCEPT ![created + 1] = {"subtask", "ready"}]
                      ELSE labels
         /\ frame' = IF r.ok THEN [frame EXCEPT ![i].kids = Append(@, created + 1)]
                     ELSE [frame EXCEPT ![i].pc = "fail"]
  BY DEF CreateChild
<1>1. created + 1 \in Issues /\ created' \in 0..MaxIssues
  BY SMTT(30), WorkflowConstants DEF CreateChild, TypeOK, Issues
<1>2. labels' \in [Issues -> SUBSET Labels] BY <1>1 DEF TypeOK, Labels
<1>3. frame' \in [Issues -> Frame]
  <2>1. frame[i] \in Frame BY DEF TypeOK
  <2>2. frame[i].kids \in Seq(Issues) BY <2>1 DEF Frame
  <2>3. Append(frame[i].kids, created + 1) \in Seq(Issues) BY <1>1, <2>2
  <2>4. [frame[i] EXCEPT !.kids = Append(@, created + 1)] \in Frame BY <2>1, <2>3 DEF Frame
  <2>5. [frame[i] EXCEPT !.pc = "fail"] \in Frame BY <2>1, FramePc DEF Steps
  <2> QED BY <2>4, <2>5 DEF TypeOK
<1> QED BY <1>1, <1>2, <1>3 DEF TypeOK, CreateChild, count

LEMMA TypeClaim == ASSUME TypeOK, NEW i \in Issues, Claim(i) PROVE TypeOK'
<1>1. labels' \in [Issues -> SUBSET Labels]
  BY RelabelType DEF Claim, TypeOK, Labels
<1>2. /\ cur' \in Issues \cup {NoIssue}
      /\ frame' \in [Issues -> Frame]
      /\ wsp' \in [Issues -> WorkspaceStates]
  BY GotoType, ReturnType DEF Claim, TypeOK, Steps
<1> QED BY <1>1, <1>2 DEF TypeOK, Claim, github, count, memory

LEMMA TypeUnready == ASSUME TypeOK, NEW i \in Issues, Unready(i) PROVE TypeOK'
<1>1. labels' \in [Issues -> SUBSET Labels]
  BY RelabelType DEF Unready, TypeOK, Labels
<1>2. frame' \in [Issues -> Frame]
  BY GotoType DEF Unready, Steps
<1> QED BY <1>1, <1>2 DEF TypeOK, Unready, github, count, memory

LEMMA TypeClaimComment == ASSUME TypeOK, NEW i \in Issues, ClaimComment(i) PROVE TypeOK'
<1>1. /\ cur' \in Issues \cup {NoIssue}
      /\ frame' \in [Issues -> Frame]
      /\ wsp' \in [Issues -> WorkspaceStates]
  BY GotoType, ReturnType DEF ClaimComment, TypeOK, Steps
<1> QED BY <1>1 DEF TypeOK, ClaimComment, github, count, memory

LEMMA TypeRecordClaim == ASSUME TypeOK, NEW i \in Issues, RecordClaim(i) PROVE TypeOK'
<1>1. frame' \in [Issues -> Frame]
  BY AdvanceType DEF RecordClaim, Steps, WorkflowStates
<1>2. store' \in Record
  BY SaveType DEF RecordClaim, WorkflowStates
<1>3. status' \in AgentStatus
  BY UpdateStatusType DEF RecordClaim, WorkflowStates
<1> QED BY <1>1, <1>2, <1>3 DEF TypeOK, RecordClaim, github, count, memory

LEMMA TypeGracefulShutdown == ASSUME TypeOK, NEW i \in Issues, GracefulShutdown(i) PROVE TypeOK'
<1>1. labels' \in [Issues -> SUBSET Labels]
  BY RelabelType DEF GracefulShutdown, TypeOK, Labels
<1>2. store' \in Record
  BY SaveType DEF GracefulShutdown, TypeOK, Frame
<1>3. cur' \in Issues \cup {NoIssue}
  BY DEF GracefulShutdown, TypeOK, Frame
<1>4. frame' \in [Issues -> Frame]
  BY IdleFrameType DEF GracefulShutdown, TypeOK
<1>5. wsp' \in [Issues -> WorkspaceStates]
  BY DEF GracefulShutdown, TypeOK, WorkspaceStates
<1>6. disk' \in [Issues -> {"none", "empty", "repo"}]
  BY DEF GracefulShutdown, TypeOK
<1> QED BY <1>1, <1>2, <1>3, <1>4, <1>5, <1>6
  DEF TypeOK, GracefulShutdown, github, count, memory

LEMMA TypeSetupWorkspace == ASSUME TypeOK, NEW i \in Issues, SetupWorkspace(i) PROVE TypeOK'
<1>1. frame' \in [Issues -> Frame]
  <2>1. frame[i] \in Frame BY DEF TypeOK
  <2>2. [frame[i] EXCEPT !.pc = "clone", !.ws = "workspace"] \in Frame
    BY <2>1, FramePcWs DEF Steps, WorkflowStates
  <2>3. [frame[i] EXCEPT !.pc = "clone", !.ws = "workspace", !.made = TRUE] \in Frame
    BY <2>2 DEF Frame
  <2>4. CASE frame' = [frame EXCEPT ![i] =
                [frame[i] EXCEPT !.pc = "clone", !.ws = "workspace", !.made = TRUE]]
    BY <2>3, <2>4 DEF TypeOK
  <2>5. CASE Goto(i, "fail") BY <2>5, GotoType DEF Steps
  <2> QED BY <2>4, <2>5 DEF SetupWorkspace, TypeOK
<1>2. store' \in Record
  BY SaveType DEF SetupWorkspace, WorkflowStates, TypeOK
<1>3. wsp' \in [Issues -> WorkspaceStates]
  BY DEF SetupWorkspace, TypeOK, WorkspaceStates
<1>4. disk' \in [Issues -> {"none", "empty", "repo"}]
  BY DEF SetupWorkspace, TypeOK
<1> QED BY <1>1, <1>2, <1>3, <1>4 DEF TypeOK, SetupWorkspace, github, count

LEMMA TypeClone == ASSUME TypeOK, NEW i \in Issues, Clone(i) PROVE TypeOK'
<1>1. frame' \in [Issues -> Frame]
  BY GotoType DEF Clone, Steps
<1>2. store' \in Record
  BY SaveType DEF Clone, WorkflowStates, TypeOK
<1>3. status' \in AgentStatus
  BY UpdateStatusType DEF Clone, WorkflowStates, TypeOK
<1>4. disk' \in [Issues -> {"none", "empty", "repo"}]
  BY DEF Clone, TypeOK
<1> QED BY <1>1, <1>2, <1>3, <1>4 DEF TypeOK, Clone, github, count, memory

LEMMA TypeAnalyze == ASSUME TypeOK, NEW i \in Issues, Analyze(i) PROVE TypeOK'
<1>1. frame' \in [Issues -> Frame]
  BY GotoType DEF Analyze, Steps
<1>2. status' \in AgentStatus
  BY UpdateStatusType DEF Analyze, WorkflowStates, TypeOK
<1> QED BY <1>1, <1>2 DEF TypeOK, Analyze, github, count, memory

LEMMA TypeLabelEpic == ASSUME TypeOK, NEW i \in Issues, LabelEpic(i) PROVE TypeOK'
<1>1. labels' \in [Issues -> SUBSET Labels]
  BY RelabelType DEF LabelEpic, TypeOK, Labels
<1>2. frame' \in [Issues -> Frame]
  BY GotoType DEF LabelEpic, Steps
<1> QED BY <1>1, <1>2 DEF TypeOK, LabelEpic, github, count, memory

LEMMA TypeRecordSplit == ASSUME TypeOK, NEW i \in Issues, RecordSplit(i) PROVE TypeOK'
<1>1. frame' \in [Issues -> Frame]
  BY AdvanceType DEF RecordSplit, Steps, WorkflowStates
<1>2. store' \in Record
  BY SaveType DEF RecordSplit, WorkflowStates
<1> QED BY <1>1, <1>2 DEF TypeOK, RecordSplit, github, count, memory

LEMMA PoppedType ==
    ASSUME TypeOK, NEW i \in Issues, frame[i].kids # <<>>
    PROVE  Popped(i) \in [Issues -> Frame] /\ Head(frame[i].kids) \in Issues
<1>1. frame[i] \in Frame BY DEF TypeOK
<1>2. frame[i].kids \in Seq(Issues) BY <1>1 DEF Frame
<1>3. Tail(frame[i].kids) \in Seq(Issues) /\ Head(frame[i].kids) \in Issues BY <1>2
<1>4. [frame[i] EXCEPT !.kids = Tail(@)] \in Frame BY <1>1, <1>3 DEF Frame
<1> QED BY <1>3, <1>4 DEF Popped, TypeOK

LEMMA TypeNextChild == ASSUME TypeOK, NEW i \in Issues, NextChild(i) PROVE TypeOK'
<1> DEFINE c == Head(frame[i].kids)
<1>1. c \in Issues /\ Popped(i) \in [Issues -> Frame] BY PoppedType DEF NextChild
<1>2. /\ frame' \in {Popped(i), [Popped(i) EXCEPT ![c] = Entered(i)]}
      /\ cur' \in {cur, c}
      /\ UNCHANGED status \/ UpdateStatus("claim", c)
  BY DEF NextChild
<1>3. frame' \in [Issues -> Frame] BY <1>1, <1>2, EnteredType
<1>4. status' \in AgentStatus BY <1>1, <1>2, UpdateStatusType DEF TypeOK, WorkflowStates
<1> QED BY <1>1, <1>2, <1>3, <1>4 DEF TypeOK, NextChild, github, count

LEMMA TypeChildrenDone == ASSUME TypeOK, NEW i \in Issues, ChildrenDone(i) PROVE TypeOK'
<1>1. /\ cur' \in Issues \cup {NoIssue}
      /\ frame' \in [Issues -> Frame]
      /\ wsp' \in [Issues -> WorkspaceStates]
  BY ReturnType DEF ChildrenDone
<1>2. status' \in AgentStatus
  BY UpdateStatusType DEF ChildrenDone, WorkflowStates
<1> QED BY <1>1, <1>2 DEF TypeOK, ChildrenDone, github, count, memory

LEMMA TypeStartImplement == ASSUME TypeOK, NEW i \in Issues, StartImplement(i) PROVE TypeOK'
<1>1. labels' \in [Issues -> SUBSET Labels]
  BY RelabelType DEF StartImplement, TypeOK, Labels
<1>2. frame' \in [Issues -> Frame]
  BY AdvanceType DEF StartImplement, Steps, WorkflowStates
<1>3. store' \in Record
  BY SaveType DEF StartImplement, WorkflowStates
<1> QED BY <1>1, <1>2, <1>3 DEF TypeOK, StartImplement, github, count, memory

LEMMA TypeImplement == ASSUME TypeOK, NEW i \in Issues, Implement(i) PROVE TypeOK'
<1>1. frame' \in [Issues -> Frame]
  BY GotoType, AdvanceType DEF Implement, Steps, WorkflowStates
<1>2. store' \in Record
  BY SaveType DEF Implement, WorkflowStates, TypeOK
<1>3. status' \in AgentStatus
  BY UpdateStatusType DEF Implement, WorkflowStates, TypeOK
<1> QED BY <1>1, <1>2, <1>3 DEF TypeOK, Implement, github, count, memory

LEMMA TypeCommitAndPush == ASSUME TypeOK, NEW i \in Issues, CommitAndPush(i) PROVE TypeOK'
<1>1. frame' \in [Issues -> Frame]
  BY GotoType, AdvanceType DEF CommitAndPush, Steps, WorkflowStates
<1>2. store' \in Record
  BY SaveType DEF CommitAndPush, WorkflowStates, TypeOK
<1>3. status' \in AgentStatus
  BY UpdateStatusType DEF CommitAndPush, WorkflowStates, TypeOK
<1> QED BY <1>1, <1>2, <1>3 DEF TypeOK, CommitAndPush, github, count, memory

LEMMA TypeCreatePR == ASSUME TypeOK, NEW i \in Issues, CreatePR(i) PROVE TypeOK'
<1>1. frame' \in [Issues -> Frame]
  BY GotoType DEF CreatePR, AfterCreatePR, Steps
<1>2. pr' \in [Issues -> {"none", "open", "merged"}]
  BY DEF CreatePR, TypeOK
<1> QED BY <1>1, <1>2 DEF TypeOK, CreatePR, github, count, memory

LEMMA TypeRecordPR == ASSUME TypeOK, NEW i \in Issues, RecordPR(i) PROVE TypeOK'
<1>1. frame' \in [Issues -> Frame]
  <2>1. frame[i] \in Frame BY DEF TypeOK
  <2>2. [frame[i] EXCEPT !.pc = "startValidation", !.ws = "review"] \in Frame
    BY <2>1, FramePcWs DEF Steps, WorkflowStates
  <2>3. [frame[i] EXCEPT !.pc = "startValidation", !.ws = "review", !.pr = TRUE] \in Frame
    BY <2>2 DEF Frame
  <2>4. frame' = [frame EXCEPT ![i] = [frame[i] EXCEPT !.pc = "startValidation",
                                                       !.ws = "review", !.pr = TRUE]]
    BY DEF RecordPR, TypeOK
  <2> QED BY <2>3, <2>4 DEF TypeOK
<1>2. store' \in Record
  <2>1. [issue |-> i, state |-> "review", pr |-> TRUE] \in Record BY DEF Record, WorkflowStates
  <2> QED BY <2>1, WrittenType DEF RecordPR
<1>3. status' \in AgentStatus BY UpdateStatusType DEF RecordPR, WorkflowStates
<1> QED BY <1>1, <1>2, <1>3 DEF TypeOK, RecordPR, github, count

LEMMA TypeStartValidation == ASSUME TypeOK, NEW i \in Issues, StartValidation(i) PROVE TypeOK'
<1>1. frame' \in [Issues -> Frame]
  <2>1. frame[i] \in Frame BY DEF TypeOK
  <2>2. [frame[i] EXCEPT !.pc = "validate", !.ws = "validation"] \in Frame
    BY <2>1, FramePcWs DEF Steps, WorkflowStates
  <2>3. [frame[i] EXCEPT !.pc = "validate", !.ws = "validation", !.attempt = 1] \in Frame
    BY <2>2 DEF Frame
  <2>4. frame' = [frame EXCEPT ![i] = [frame[i] EXCEPT !.pc = "validate",
                                            !.ws = "validation", !.attempt = 1]]
    BY DEF StartValidation, TypeOK
  <2> QED BY <2>3, <2>4 DEF TypeOK
<1>2. store' \in Record BY SaveType DEF StartValidation, WorkflowStates
<1> QED BY <1>1, <1>2 DEF TypeOK, StartValidation, github, count

LEMMA TypeValidatePR == ASSUME TypeOK, NEW i \in Issues, ValidatePR(i) PROVE TypeOK'
<1>1. frame' \in [Issues -> Frame]
  <2>1. frame[i] \in Frame /\ frame[i].attempt \in Nat BY DEF TypeOK, Frame
  <2>2. [frame[i] EXCEPT !.attempt = @ + 1] \in Frame BY <2>1
    DEF Frame
  <2>3. \/ \E s \in {"fail", "merge"} : Goto(i, s)
        \/ frame' = [frame EXCEPT ![i].attempt = @ + 1]
    BY DEF ValidatePR, AfterLastRound
  <2> QED BY <2>2, <2>3, GotoType DEF TypeOK, Steps
<1>2. green' \in [Issues -> BOOLEAN] BY DEF ValidatePR, TypeOK
<1> QED BY <1>1, <1>2 DEF TypeOK, ValidatePR, count

LEMMA TypeMergePR == ASSUME TypeOK, NEW i \in Issues, MergePR(i) PROVE TypeOK'
<1>1. frame' \in [Issues -> Frame]
  BY GotoType DEF MergePR, Steps
<1>2. status' \in AgentStatus
  BY UpdateStatusType DEF MergePR, WorkflowStates
<1> QED BY <1>1, <1>2 DEF TypeOK, MergePR, github, count, memory

LEMMA TypeFinishLabels == ASSUME TypeOK, NEW i \in Issues, FinishLabels(i) PROVE TypeOK'
<1>1. labels' \in [Issues -> SUBSET Labels]
  BY RelabelType DEF FinishLabels, TypeOK, Labels
<1>2. frame' \in [Issues -> Frame]
  BY GotoType DEF FinishLabels, Steps
<1> QED BY <1>1, <1>2 DEF TypeOK, FinishLabels, github, count, memory

LEMMA TypeComplete == ASSUME TypeOK, NEW i \in Issues, Complete(i) PROVE TypeOK'
<1>1. store' \in Record
  BY SaveType DEF Complete, WorkflowStates
<1>2. status' \in AgentStatus
  BY UpdateStatusType DEF Complete, WorkflowStates
<1>3. /\ cur' \in Issues \cup {NoIssue}
      /\ frame' \in [Issues -> Frame]
      /\ wsp' \in [Issues -> WorkspaceStates]
  BY ReturnType DEF Complete
<1> QED BY <1>1, <1>2, <1>3 DEF TypeOK, Complete, github, count, memory

LEMMA TypeFailIssue == ASSUME TypeOK, NEW i \in Issues, FailIssue(i) PROVE TypeOK'
<1>1. frame' \in [Issues -> Frame]
  BY AdvanceType DEF FailIssue, Steps, WorkflowStates
<1>2. store' \in Record
  BY SaveType DEF FailIssue, WorkflowStates
<1> QED BY <1>1, <1>2 DEF TypeOK, FailIssue, github, count, memory

LEMMA TypeFailLabel == ASSUME TypeOK, NEW i \in Issues, FailLabel(i) PROVE TypeOK'
<1>1. labels' \in [Issues -> SUBSET Labels]
  BY RelabelType DEF FailLabel, TypeOK, Labels
<1>2. status' \in AgentStatus
  BY UpdateStatusType DEF FailLabel, WorkflowStates
<1>3. /\ cur' \in Issues \cup {NoIssue}
      /\ frame' \in [Issues -> Frame]
      /\ wsp' \in [Issues -> WorkspaceStates]
  BY ReturnType DEF FailLabel
<1> QED BY <1>1, <1>2, <1>3 DEF TypeOK, FailLabel, github, count, memory

LEMMA TypeHumanReady == ASSUME TypeOK, NEW i \in Issues, HumanReady(i) PROVE TypeOK'
<1>1. labels' \in [Issues -> SUBSET Labels] BY DEF HumanReady, TypeOK, Labels
<1>2. releases' \in 0..MaxReleases BY WorkflowConstants DEF HumanReady, TypeOK
<1> QED BY <1>1, <1>2 DEF TypeOK, HumanReady, memory

LEMMA TypeMemoryLost ==
    ASSUME TypeOK, MemoryLost
    PROVE  /\ proc' \in {"up", "stopping", "down"} /\ batch' \in SUBSET Issues
           /\ cur' \in Issues \cup {NoIssue} /\ frame' \in [Issues -> Frame]
           /\ wsp' \in [Issues -> WorkspaceStates] /\ status' \in AgentStatus
           /\ sm' \in [step : {"off", "read", "write", "clean", "done"}, seen : AgentStatus]
BY IdleFrameType DEF MemoryLost, SMOff, Idle, AgentStatus, WorkflowStates, WorkspaceStates

LEMMA TypeSignal == ASSUME TypeOK, Signal PROVE TypeOK'
<1>1. signals' \in 0..MaxSignals BY WorkflowConstants DEF Signal, TypeOK
<1> QED BY <1>1 DEF TypeOK, Signal, github, memory

LEMMA TypeReadStatus == ASSUME TypeOK, ReadStatus PROVE TypeOK'
BY DEF TypeOK, ReadStatus, github, memory, count

LEMMA TypeSaveCheckpoint == ASSUME TypeOK, SaveCheckpoint PROVE TypeOK'
<1>1. [issue |-> sm.seen.issue, state |-> sm.seen.state, pr |-> FALSE] \in Record
  BY DEF TypeOK, AgentStatus, Record
<1>2. store' \in Record BY <1>1, WrittenType DEF SaveCheckpoint
<1> QED BY <1>2 DEF TypeOK, SaveCheckpoint, github, memory, count

LEMMA TypeCleanupWorkspaces == ASSUME TypeOK, CleanupWorkspaces PROVE TypeOK'
BY DEF TypeOK, CleanupWorkspaces, github, memory, count

LEMMA TypeExit == ASSUME TypeOK, Exit PROVE TypeOK'
BY TypeMemoryLost DEF TypeOK, Exit, github, count

LEMMA TypeCrash == ASSUME TypeOK, Crash PROVE TypeOK'
<1>1. crashes' \in 0..MaxCrashes BY WorkflowConstants DEF Crash, TypeOK
<1>2. Corrupt \in Record BY DEF Corrupt, Record
<1>3. store' \in Record BY <1>2 DEF Crash, TypeOK
<1> QED BY <1>1, <1>3, TypeMemoryLost DEF TypeOK, Crash, github

LEMMA TypeRestart == ASSUME TypeOK, Restart PROVE TypeOK'
BY DEF TypeOK, Restart, github, count, LoadedWorkspace, WorkspaceStates

-----------------------------------------------------------------------------
(* Initial states, every step, and the theorem.                            *)
LEMMA TypeInit == Init => TypeOK
<1> SUFFICES ASSUME Init PROVE TypeOK
  OBVIOUS
<1>1. frame \in [Issues -> Frame] BY IdleFrameType DEF Init
<1>2. labels \in [Issues -> SUBSET Labels] BY DEF Init, Labels
<1>3. created \in 0..MaxIssues BY WorkflowConstants DEF Init
<1>4. store \in Record BY DEF Init, NoRecord, Record, WorkflowStates
<1>5. status \in AgentStatus /\ sm \in [step : {"off", "read", "write", "clean", "done"},
                                        seen : AgentStatus]
  BY DEF Init, Idle, SMOff, AgentStatus, WorkflowStates
<1>6. crashes \in 0..MaxCrashes /\ signals \in 0..MaxSignals /\ releases \in 0..MaxReleases
  BY WorkflowConstants DEF Init
<1> QED BY <1>1, <1>2, <1>3, <1>4, <1>5, <1>6 DEF Init, TypeOK, WorkspaceStates

LEMMA TypeNext == TypeOK /\ [Next]_vars => TypeOK'
<1> SUFFICES ASSUME TypeOK, [Next]_vars PROVE TypeOK'
  OBVIOUS
<1>1. CASE Poll BY <1>1, TypePoll
<1>2. ASSUME NEW i \in Issues, Process(i) PROVE TypeOK'
  BY <1>2, TypeHandleIssue, TypeClaim, TypeUnready, TypeClaimComment, TypeRecordClaim,
     TypeGracefulShutdown, TypeSetupWorkspace, TypeClone, TypeAnalyze, TypeCreateChild,
     TypeLabelEpic, TypeRecordSplit, TypeNextChild, TypeChildrenDone, TypeStartImplement,
     TypeImplement, TypeCommitAndPush, TypeCreatePR, TypeRecordPR, TypeStartValidation,
     TypeValidatePR, TypeMergePR, TypeFinishLabels, TypeComplete, TypeFailIssue,
     TypeFailLabel
  DEF Process
<1>3. CASE Signal \/ ShutdownManager \/ Exit \/ Crash \/ Restart
  BY <1>3, TypeSignal, TypeReadStatus, TypeSaveCheckpoint, TypeCleanupWorkspaces, TypeExit,
     TypeCrash, TypeRestart
  DEF ShutdownManager
<1>4. ASSUME NEW i \in Issues, HumanReady(i) PROVE TypeOK' BY <1>4, TypeHumanReady
<1>5. CASE UNCHANGED vars BY <1>5 DEF vars, TypeOK
<1> QED BY <1>1, <1>2, <1>3, <1>4, <1>5 DEF Next, Agent

\* Type correctness: whatever fails, crashes or is signalled, the state file,
\* the labels, the workspace cache, the status and every activation record of
\* processIssue only ever hold values the Go types and constants allow.
THEOREM TypeCorrect == Spec => []TypeOK
<1> QED BY TypeInit, TypeNext, PTL DEF Spec

-----------------------------------------------------------------------------
(* The fields of the activation records.                                   *)

LEMMA FrameDomain ==
    ASSUME TypeOK
    PROVE  \A j \in Issues : frame[j] \in Frame
           /\ DOMAIN frame[j] = {"pc", "ws", "pr", "parent", "kids", "made", "attempt"}
BY DEF TypeOK, Frame

LEMMA GotoFields ==
    ASSUME TypeOK, NEW i \in Issues, NEW s, Goto(i, s)
    PROVE  \A j \in Issues :
             /\ frame'[j].pc = IF j = i THEN s ELSE frame[j].pc
             /\ frame'[j].ws = frame[j].ws /\ frame'[j].parent = frame[j].parent
             /\ frame'[j].kids = frame[j].kids /\ frame'[j].made = frame[j].made
<1>1. \A j \in Issues : frame[j] \in Frame BY DEF TypeOK
<1>2. \A j \in Issues : frame'[j] = IF j = i THEN [frame[i] EXCEPT !.pc = s] ELSE frame[j]
  BY DEF Goto, TypeOK
<1>3. LET f == [frame[i] EXCEPT !.pc = s]
      IN /\ f.pc = s /\ f.ws = frame[i].ws /\ f.parent = frame[i].parent
         /\ f.kids = frame[i].kids /\ f.made = frame[i].made
  BY <1>1 DEF Frame
<1> QED BY <1>2, <1>3

LEMMA AdvanceFields ==
    ASSUME TypeOK, NEW i \in Issues, NEW w, NEW s, Advance(i, w, s)
    PROVE  \A j \in Issues :
             /\ frame'[j].pc = IF j = i THEN s ELSE frame[j].pc
             /\ frame'[j].ws = IF j = i THEN w ELSE frame[j].ws
             /\ frame'[j].parent = frame[j].parent
             /\ frame'[j].kids = frame[j].kids /\ frame'[j].made = frame[j].made
<1>1. \A j \in Issues : frame[j] \in Frame BY DEF TypeOK
<1>2. \A j \in Issues :
        frame'[j] = IF j = i THEN [frame[i] EXCEPT !.pc = s, !.ws = w] ELSE frame[j]
  BY DEF Advance, TypeOK
<1>3. LET f == [frame[i] EXCEPT !.pc = s, !.ws = w]
      IN /\ f.pc = s /\ f.ws = w /\ f.parent = frame[i].parent
         /\ f.kids = frame[i].kids /\ f.made = frame[i].made
  BY <1>1 DEF Frame
<1> QED BY <1>2, <1>3

LEMMA IdleFields ==
    /\ IdleFrame.pc = "idle" /\ IdleFrame.ws = "idle" /\ IdleFrame.parent = NoIssue
    /\ IdleFrame.kids = <<>> /\ IdleFrame.made = FALSE
BY DEF IdleFrame

LEMMA EnteredFields ==
    ASSUME NEW p
    PROVE  /\ Entered(p).pc = "claim" /\ Entered(p).ws = "idle" /\ Entered(p).parent = p
           /\ Entered(p).kids = <<>> /\ Entered(p).made = FALSE
<1> DEFINE f == [IdleFrame EXCEPT !.pc = "claim"]
<1>1. /\ f.pc = "claim" /\ f.ws = "idle" /\ f.kids = <<>> /\ f.made = FALSE
      /\ DOMAIN f = DOMAIN IdleFrame
  BY DEF IdleFrame
<1>2. Entered(p) = [f EXCEPT !.parent = p] BY DEF Entered
<1> HIDE DEF f
<1>3. DOMAIN IdleFrame = {"pc", "ws", "pr", "parent", "kids", "made", "attempt"}
  BY DEF IdleFrame
<1> QED BY <1>1, <1>2, <1>3

LEMMA KidsType ==
    ASSUME TypeOK
    PROVE  \A j \in Issues : frame[j].kids \in Seq(Issues) /\ Len(frame[j].kids) \in Nat
<1>1. \A j \in Issues : frame[j].kids \in Seq(Issues) BY FrameDomain DEF Frame
<1> QED BY <1>1

-----------------------------------------------------------------------------
(* Labels, records and pull requests.  The inductive invariant follows the *)
(* evidence for a pull request through everything that can carry it to the *)
(* state file: the step processIssue is at, the state it last assigned,    *)
(* the status it last published, and the status the ShutdownManager read.  *)

\* The states, and the steps of processIssue, reached only with a pull request.
Reviewed == {"review", "validation", "complete"}
PRSteps == {"recordPR", "startValidation", "validate", "merge", "finish", "complete"}
HasPR(i) == i \in Issues /\ pr[i] # "none"

InPRStage(i) == frame[i].pc \in PRSteps \/ frame[i].ws \in Reviewed

\* The inductive invariant.
PRInv ==
    /\ \A i \in Issues : InPRStage(i) => HasPR(i)
    /\ status.state \in Reviewed => HasPR(status.issue)
    /\ sm.seen.state \in Reviewed => HasPR(sm.seen.issue)
    /\ store.state \in Reviewed => HasPR(store.issue)
    /\ ReviewHasPR

LEMMA PRPoll == ASSUME TypeOK, PRInv, Poll PROVE PRInv'
<1>1. ReviewHasPR' BY DEF PRInv, Poll, PromoteOneSuggestion, ReviewHasPR, Relabel, TypeOK
<1> QED BY <1>1 DEF PRInv, InPRStage, HasPR, Poll, count

LEMMA PRHandleIssue == ASSUME TypeOK, PRInv, NEW i \in Issues, HandleIssue(i) PROVE PRInv'
<1>1. (\A j \in Issues : InPRStage(j) => HasPR(j))'
  <2>1. \A j \in Issues : frame'[j] = IF j = i THEN Entered(NoIssue) ELSE frame[j]
    BY DEF HandleIssue, TypeOK
  <2>2. Entered(NoIssue).pc = "claim" /\ Entered(NoIssue).ws = "idle" BY EnteredFields
  <2> QED BY <2>1, <2>2 DEF PRInv, InPRStage, HasPR, PRSteps, Reviewed, HandleIssue, github
<1>2. (status.state \in Reviewed => HasPR(status.issue))'
  BY DEF PRInv, HandleIssue, HasPR, Reviewed, UpdateStatus, PRSteps, InPRStage, At, github
<1> QED BY <1>1, <1>2 DEF PRInv, HandleIssue, HasPR, github, count, memory, ReviewHasPR

LEMMA PRClaim == ASSUME TypeOK, PRInv, NEW i \in Issues, Claim(i) PROVE PRInv'
<1>1. (\A j \in Issues : InPRStage(j) => HasPR(j))'
  BY GotoFields, IdleFields
  DEF PRInv, InPRStage, HasPR, PRSteps, Reviewed, Claim, Return, TypeOK, At
<1>2. ReviewHasPR'
  BY DEF PRInv, Claim, ReviewHasPR, Relabel, TypeOK
<1> QED BY <1>1, <1>2 DEF PRInv, Claim, HasPR, github, count, memory

LEMMA PRUnready == ASSUME TypeOK, PRInv, NEW i \in Issues, Unready(i) PROVE PRInv'
<1>1. (\A j \in Issues : InPRStage(j) => HasPR(j))'
  BY GotoFields DEF PRInv, InPRStage, HasPR, PRSteps, Reviewed, Unready, At
<1>2. ReviewHasPR'
  BY DEF PRInv, Unready, ReviewHasPR, Relabel, TypeOK
<1> QED BY <1>1, <1>2 DEF PRInv, Unready, HasPR, github, count, memory

LEMMA PRClaimComment == ASSUME TypeOK, PRInv, NEW i \in Issues, ClaimComment(i) PROVE PRInv'
<1>1. (\A j \in Issues : InPRStage(j) => HasPR(j))'
  BY GotoFields, IdleFields
  DEF PRInv, InPRStage, HasPR, PRSteps, Reviewed, ClaimComment, Return, TypeOK, At, github
<1> QED BY <1>1 DEF PRInv, ClaimComment, HasPR, github, count, memory, ReviewHasPR

LEMMA PRRecordClaim == ASSUME TypeOK, PRInv, NEW i \in Issues, RecordClaim(i) PROVE PRInv'
<1>1. (\A j \in Issues : InPRStage(j) => HasPR(j))'
  BY AdvanceFields DEF PRInv, InPRStage, HasPR, PRSteps, Reviewed, RecordClaim, At, github
<1>2. (status.state \in Reviewed => HasPR(status.issue))'
  BY DEF PRInv, RecordClaim, HasPR, Reviewed, UpdateStatus, PRSteps, InPRStage, At, github
<1>3. (store.state \in Reviewed => HasPR(store.issue))'
  BY DEF PRInv, RecordClaim, HasPR, Reviewed, Save, Written, Corrupt, PRSteps, InPRStage, At, github
<1> QED BY <1>1, <1>2, <1>3
  DEF PRInv, RecordClaim, HasPR, github, count, memory, ReviewHasPR

LEMMA PRGracefulShutdown == ASSUME TypeOK, PRInv, NEW i \in Issues, GracefulShutdown(i) PROVE PRInv'
<1>1. (\A j \in Issues : InPRStage(j) => HasPR(j))'
  BY IdleFields DEF PRInv, InPRStage, HasPR, PRSteps, Reviewed, GracefulShutdown, TypeOK
<1>2. (store.state \in Reviewed => HasPR(store.issue))'
  BY DEF PRInv, GracefulShutdown, HasPR, InPRStage, Save, Written, Corrupt, Reviewed
<1>3. ReviewHasPR'
  BY DEF PRInv, GracefulShutdown, ReviewHasPR, Relabel, TypeOK
<1> QED BY <1>1, <1>2, <1>3 DEF PRInv, GracefulShutdown, HasPR, github, count, memory

LEMMA PRSetupWorkspace == ASSUME TypeOK, PRInv, NEW i \in Issues, SetupWorkspace(i) PROVE PRInv'
<1>1. (\A j \in Issues : InPRStage(j) => HasPR(j))'
  <2>1. CASE Goto(i, "fail")
    BY <2>1, GotoFields
    DEF PRInv, InPRStage, HasPR, PRSteps, Reviewed, SetupWorkspace, github
  <2>2. CASE frame' = [frame EXCEPT ![i].pc = "clone", ![i].ws = "workspace", ![i].made = TRUE]
    <3>1. \A j \in Issues : j # i => frame'[j] = frame[j] BY <2>2 DEF TypeOK
    <3>2. frame'[i].pc = "clone" /\ frame'[i].ws = "workspace" BY <2>2, FrameDomain
      DEF TypeOK
    <3> QED BY <3>1, <3>2
      DEF PRInv, InPRStage, HasPR, PRSteps, Reviewed, SetupWorkspace, github
  <2> QED BY <2>1, <2>2 DEF SetupWorkspace
<1>2. (store.state \in Reviewed => HasPR(store.issue))'
  BY DEF PRInv, SetupWorkspace, HasPR, Reviewed, Save, Written, Corrupt, PRSteps, InPRStage, At, github
<1> QED BY <1>1, <1>2 DEF PRInv, SetupWorkspace, HasPR, github, count, memory, ReviewHasPR

LEMMA PRClone == ASSUME TypeOK, PRInv, NEW i \in Issues, Clone(i) PROVE PRInv'
<1>1. (\A j \in Issues : InPRStage(j) => HasPR(j))'
  BY GotoFields DEF PRInv, InPRStage, HasPR, PRSteps, Reviewed, Clone, At, github
<1>2. (status.state \in Reviewed => HasPR(status.issue))'
  BY DEF PRInv, Clone, HasPR, Reviewed, UpdateStatus, PRSteps, InPRStage, At, github
<1>3. (store.state \in Reviewed => HasPR(store.issue))'
  BY DEF PRInv, Clone, HasPR, Reviewed, Save, Written, Corrupt, PRSteps, InPRStage, At, github
<1> QED BY <1>1, <1>2, <1>3 DEF PRInv, Clone, HasPR, github, count, memory, ReviewHasPR

LEMMA PRAnalyze == ASSUME TypeOK, PRInv, NEW i \in Issues, Analyze(i) PROVE PRInv'
<1>1. (\A j \in Issues : InPRStage(j) => HasPR(j))'
  BY GotoFields DEF PRInv, InPRStage, HasPR, PRSteps, Reviewed, Analyze, At, github
<1>2. (status.state \in Reviewed => HasPR(status.issue))'
  BY DEF PRInv, Analyze, HasPR, Reviewed, UpdateStatus, PRSteps, InPRStage, At, github
<1> QED BY <1>1, <1>2 DEF PRInv, Analyze, HasPR, github, count, memory, ReviewHasPR

LEMMA PRCreateChild == ASSUME TypeOK, PRInv, NEW i \in Issues, CreateChild(i) PROVE PRInv'
<1>1. (\A j \in Issues : InPRStage(j) => HasPR(j))'
  <2>1. CASE Goto(i, "fail") BY <2>1, GotoFields
    DEF PRInv, InPRStage, HasPR, PRSteps, Reviewed, CreateChild
  <2>2. CASE frame' = [frame EXCEPT ![i].kids = Append(@, created + 1)]
    BY <2>2 DEF PRInv, InPRStage, HasPR, PRSteps, Reviewed, CreateChild, TypeOK, Frame
  <2> QED BY <2>1, <2>2 DEF CreateChild, Goto
<1>2. ReviewHasPR'
  BY DEF PRInv, CreateChild, ReviewHasPR, TypeOK
<1> QED BY <1>1, <1>2 DEF PRInv, CreateChild, HasPR, github, count, memory

LEMMA PRLabelEpic == ASSUME TypeOK, PRInv, NEW i \in Issues, LabelEpic(i) PROVE PRInv'
<1>1. (\A j \in Issues : InPRStage(j) => HasPR(j))'
  BY GotoFields DEF PRInv, InPRStage, HasPR, PRSteps, Reviewed, LabelEpic, At
<1>2. ReviewHasPR'
  BY DEF PRInv, LabelEpic, ReviewHasPR, Relabel, TypeOK
<1> QED BY <1>1, <1>2 DEF PRInv, LabelEpic, HasPR, github, count, memory

LEMMA PRRecordSplit == ASSUME TypeOK, PRInv, NEW i \in Issues, RecordSplit(i) PROVE PRInv'
<1>1. (\A j \in Issues : InPRStage(j) => HasPR(j))'
  BY AdvanceFields DEF PRInv, InPRStage, HasPR, PRSteps, Reviewed, RecordSplit, At, github
<1>2. (store.state \in Reviewed => HasPR(store.issue))'
  BY DEF PRInv, RecordSplit, HasPR, Reviewed, Save, Written, Corrupt, PRSteps, InPRStage, At, github
<1> QED BY <1>1, <1>2 DEF PRInv, RecordSplit, HasPR, github, count, memory, ReviewHasPR

LEMMA PRNextChild == ASSUME TypeOK, PRInv, NEW i \in Issues, NextChild(i) PROVE PRInv'
<1>1. (\A j \in Issues : InPRStage(j) => HasPR(j))'
  <2> DEFINE c == Head(frame[i].kids)
  <2>1. c \in Issues BY PoppedType DEF NextChild
  <2>2. \A j \in Issues : Popped(i)[j].pc = frame[j].pc /\ Popped(i)[j].ws = frame[j].ws
    BY FrameDomain DEF Popped, TypeOK
  <2>3. CASE frame' = Popped(i) BY <2>2, <2>3
    DEF PRInv, InPRStage, HasPR, PRSteps, Reviewed, NextChild, github
  <2>4. CASE frame' = [Popped(i) EXCEPT ![c] = Entered(i)]
    <3>1. \A j \in Issues : frame'[j] = IF j = c THEN Entered(i) ELSE Popped(i)[j]
      BY <2>1, <2>4, PoppedType DEF NextChild
    <3>2. Entered(i).pc = "claim" /\ Entered(i).ws = "idle" BY EnteredFields
    <3> QED BY <2>2, <3>1, <3>2
      DEF PRInv, InPRStage, HasPR, PRSteps, Reviewed, NextChild, github
  <2> QED BY <2>3, <2>4 DEF NextChild
<1>2. (status.state \in Reviewed => HasPR(status.issue))'
  BY DEF PRInv, NextChild, HasPR, Reviewed, UpdateStatus, PRSteps, InPRStage, At, github
<1> QED BY <1>1, <1>2 DEF PRInv, NextChild, HasPR, github, count, memory, ReviewHasPR

LEMMA PRChildrenDone == ASSUME TypeOK, PRInv, NEW i \in Issues, ChildrenDone(i) PROVE PRInv'
<1>1. (\A j \in Issues : InPRStage(j) => HasPR(j))'
  BY IdleFields
  DEF PRInv, InPRStage, HasPR, PRSteps, Reviewed, ChildrenDone, Return, TypeOK, github
<1>2. (status.state \in Reviewed => HasPR(status.issue))'
  BY DEF PRInv, ChildrenDone, HasPR, Reviewed, UpdateStatus, PRSteps, InPRStage, At, github
<1> QED BY <1>1, <1>2 DEF PRInv, ChildrenDone, HasPR, github, count, memory, ReviewHasPR

LEMMA PRStartImplement == ASSUME TypeOK, PRInv, NEW i \in Issues, StartImplement(i) PROVE PRInv'
<1>1. (\A j \in Issues : InPRStage(j) => HasPR(j))'
  BY AdvanceFields DEF PRInv, InPRStage, HasPR, PRSteps, Reviewed, StartImplement, At
<1>2. (store.state \in Reviewed => HasPR(store.issue))'
  BY DEF PRInv, StartImplement, HasPR, Reviewed, Save, Written, Corrupt, PRSteps, InPRStage, At
<1>3. ReviewHasPR'
  BY DEF PRInv, StartImplement, ReviewHasPR, Relabel, TypeOK
<1> QED BY <1>1, <1>2, <1>3 DEF PRInv, StartImplement, HasPR, github, count, memory

LEMMA PRImplement == ASSUME TypeOK, PRInv, NEW i \in Issues, Implement(i) PROVE PRInv'
<1>1. (\A j \in Issues : InPRStage(j) => HasPR(j))'
  BY GotoFields, AdvanceFields
  DEF PRInv, InPRStage, HasPR, PRSteps, Reviewed, Implement, At, github
<1>2. (status.state \in Reviewed => HasPR(status.issue))'
  BY DEF PRInv, Implement, HasPR, Reviewed, UpdateStatus, PRSteps, InPRStage, At, github
<1>3. (store.state \in Reviewed => HasPR(store.issue))'
  BY DEF PRInv, Implement, HasPR, Reviewed, Save, Written, Corrupt, PRSteps, InPRStage, At, github
<1> QED BY <1>1, <1>2, <1>3 DEF PRInv, Implement, HasPR, github, count, memory, ReviewHasPR

LEMMA PRCommitAndPush == ASSUME TypeOK, PRInv, NEW i \in Issues, CommitAndPush(i) PROVE PRInv'
<1>1. (\A j \in Issues : InPRStage(j) => HasPR(j))'
  BY GotoFields, AdvanceFields
  DEF PRInv, InPRStage, HasPR, PRSteps, Reviewed, CommitAndPush, At
<1>2. (status.state \in Reviewed => HasPR(status.issue))'
  BY DEF PRInv, CommitAndPush, HasPR, Reviewed, UpdateStatus, PRSteps, InPRStage, At
<1>3. (store.state \in Reviewed => HasPR(store.issue))'
  BY DEF PRInv, CommitAndPush, HasPR, Reviewed, Save, Written, Corrupt, PRSteps, InPRStage, At
<1> QED BY <1>1, <1>2, <1>3
  DEF PRInv, CommitAndPush, HasPR, github, count, memory, ReviewHasPR

LEMMA ReplyApplied ==
    ASSUME NEW r \in Replies
    PROVE  r.ok \in BOOLEAN /\ (r.ok => r.applied)
<1>1. r \in {[applied |-> FALSE, ok |-> FALSE], [applied |-> TRUE, ok |-> TRUE],
             [applied |-> TRUE, ok |-> FALSE]}
  BY DEF Replies
<1>2. CASE r = [applied |-> FALSE, ok |-> FALSE] BY <1>2
<1>3. CASE r = [applied |-> TRUE, ok |-> TRUE] BY <1>3
<1>4. CASE r = [applied |-> TRUE, ok |-> FALSE] BY <1>4
<1> QED BY <1>1, <1>2, <1>3, <1>4

LEMMA CreatePRReply ==
    ASSUME TypeOK, NEW i \in Issues, CreatePR(i)
    PROVE  \E ok \in BOOLEAN : Goto(i, AfterCreatePR(ok)) /\ (ok => HasPR(i)')
<1> PICK r \in Replies :
      IF pr[i] = "open" THEN Goto(i, AfterCreatePR(FALSE)) /\ UNCHANGED pr
      ELSE /\ pr' = IF r.applied THEN [pr EXCEPT ![i] = "open"] ELSE pr
           /\ Goto(i, AfterCreatePR(r.ok))
  BY DEF CreatePR
<1>1. r.ok \in BOOLEAN /\ (r.ok => r.applied) BY ReplyApplied
<1>2. CASE pr[i] = "open" BY <1>2
<1>3. CASE pr[i] # "open" BY <1>1, <1>3 DEF HasPR, TypeOK
<1> QED BY <1>2, <1>3

LEMMA PRCreatePR == ASSUME TypeOK, PRInv, NEW i \in Issues, CreatePR(i) PROVE PRInv'
<1>1. (\A j \in Issues : InPRStage(j) => HasPR(j))'
  <2>1. \A j \in Issues : HasPR(j) => HasPR(j)' BY DEF CreatePR, HasPR, TypeOK
  <2>2. PICK ok \in BOOLEAN : Goto(i, AfterCreatePR(ok)) /\ (ok => HasPR(i)')
    BY CreatePRReply
  <2>3. AfterCreatePR(ok) \in PRSteps => ok BY DEF AfterCreatePR, PRSteps
  <2> QED BY <2>1, <2>2, <2>3, GotoFields
    DEF PRInv, InPRStage, HasPR, PRSteps, Reviewed, CreatePR, At
<1>2. (status.state \in Reviewed => HasPR(status.issue))'
  BY DEF PRInv, CreatePR, HasPR, TypeOK
<1>3. (sm.seen.state \in Reviewed => HasPR(sm.seen.issue))'
  BY DEF PRInv, CreatePR, HasPR, TypeOK
<1>4. (store.state \in Reviewed => HasPR(store.issue))'
  BY DEF PRInv, CreatePR, HasPR, TypeOK
<1>5. ReviewHasPR'
  BY DEF PRInv, CreatePR, ReviewHasPR, TypeOK
<1> QED BY <1>1, <1>2, <1>3, <1>4, <1>5 DEF PRInv, CreatePR

LEMMA PRRecordPR == ASSUME TypeOK, PRInv, NEW i \in Issues, RecordPR(i) PROVE PRInv'
<1>1. (\A j \in Issues : InPRStage(j) => HasPR(j))'
  <2>1. \A j \in Issues : j # i => frame'[j] = frame[j] BY DEF RecordPR, TypeOK
  <2>2. HasPR(i) BY DEF RecordPR, At, PRInv, InPRStage, HasPR, PRSteps, Reviewed
  <2> QED BY <2>1, <2>2 DEF PRInv, InPRStage, HasPR, RecordPR, github
<1>2. (status.state \in Reviewed => HasPR(status.issue))'
  BY DEF PRInv, RecordPR, HasPR, Reviewed, UpdateStatus, PRSteps, InPRStage, At, github
<1>3. (store.state \in Reviewed => HasPR(store.issue))'
  BY DEF PRInv, InPRStage, HasPR, PRSteps, Reviewed, RecordPR, Written, Corrupt, At, github
<1> QED BY <1>1, <1>2, <1>3 DEF PRInv, RecordPR, HasPR, github, count, memory, ReviewHasPR

LEMMA PRStartValidation == ASSUME TypeOK, PRInv, NEW i \in Issues, StartValidation(i) PROVE PRInv'
<1>1. (\A j \in Issues : InPRStage(j) => HasPR(j))'
  <2>1. \A j \in Issues : j # i => frame'[j] = frame[j] BY DEF StartValidation, TypeOK
  <2>2. HasPR(i) BY DEF StartValidation, At, PRInv, InPRStage, HasPR, PRSteps, Reviewed
  <2> QED BY <2>1, <2>2 DEF PRInv, InPRStage, HasPR, StartValidation, github
<1>2. (store.state \in Reviewed => HasPR(store.issue))'
  BY DEF PRInv, StartValidation, HasPR, Reviewed, Save, Written, Corrupt, PRSteps, InPRStage, At, github
<1> QED BY <1>1, <1>2 DEF PRInv, StartValidation, HasPR, github, count, memory, ReviewHasPR

LEMMA PRValidatePR == ASSUME TypeOK, PRInv, NEW i \in Issues, ValidatePR(i) PROVE PRInv'
<1>1. (\A j \in Issues : InPRStage(j) => HasPR(j))'
  <2>1. \A j \in Issues : j # i => frame'[j] = frame[j] BY DEF ValidatePR, Goto, TypeOK
  <2>2. HasPR(i) BY DEF ValidatePR, At, PRInv, InPRStage, HasPR, PRSteps, Reviewed
  <2> QED BY <2>1, <2>2 DEF PRInv, InPRStage, HasPR, ValidatePR
<1> QED BY <1>1 DEF PRInv, ValidatePR, HasPR, github, count, memory, ReviewHasPR

LEMMA PRMergePR == ASSUME TypeOK, PRInv, NEW i \in Issues, MergePR(i) PROVE PRInv'
<1>1. (\A j \in Issues : InPRStage(j) => HasPR(j))'
  <2>1. \A j \in Issues : HasPR(j) => HasPR(j)' BY DEF MergePR, HasPR, TypeOK
  <2>2. HasPR(i) BY DEF MergePR, At, PRInv, InPRStage, HasPR, PRSteps, Reviewed
  <2> QED BY <2>1, <2>2, GotoFields DEF PRInv, InPRStage, HasPR, PRSteps, Reviewed, MergePR
<1>2. (status.state \in Reviewed => HasPR(status.issue))'
  BY DEF PRInv, InPRStage, HasPR, PRSteps, Reviewed, MergePR, UpdateStatus, At, TypeOK
<1>3. (sm.seen.state \in Reviewed => HasPR(sm.seen.issue))'
  BY DEF PRInv, MergePR, HasPR, TypeOK
<1>4. (store.state \in Reviewed => HasPR(store.issue))'
  BY DEF PRInv, MergePR, HasPR, TypeOK
<1>5. ReviewHasPR'
  BY DEF PRInv, MergePR, ReviewHasPR, TypeOK
<1> QED BY <1>1, <1>2, <1>3, <1>4, <1>5 DEF PRInv, MergePR

LEMMA PRFinishLabels == ASSUME TypeOK, PRInv, NEW i \in Issues, FinishLabels(i) PROVE PRInv'
<1>1. (\A j \in Issues : InPRStage(j) => HasPR(j))'
  <2>1. HasPR(i) BY DEF FinishLabels, At, PRInv, InPRStage, HasPR, PRSteps, Reviewed
  <2> QED BY <2>1, GotoFields DEF PRInv, InPRStage, HasPR, PRSteps, Reviewed, FinishLabels
<1>2. ReviewHasPR'
  <2>1. pr[i] # "none" BY DEF FinishLabels, At, PRInv, InPRStage, HasPR, PRSteps, Reviewed
  <2> QED BY <2>1 DEF PRInv, FinishLabels, ReviewHasPR, Relabel, TypeOK
<1> QED BY <1>1, <1>2 DEF PRInv, FinishLabels, HasPR, github, count, memory

LEMMA PRComplete == ASSUME TypeOK, PRInv, NEW i \in Issues, Complete(i) PROVE PRInv'
<1>1. (\A j \in Issues : InPRStage(j) => HasPR(j))'
  BY IdleFields
  DEF PRInv, InPRStage, HasPR, PRSteps, Reviewed, Complete, Return, TypeOK, github
<1>2. (status.state \in Reviewed => HasPR(status.issue))'
  BY DEF PRInv, Complete, HasPR, Reviewed, UpdateStatus, PRSteps, InPRStage, At, github
<1>3. (store.state \in Reviewed => HasPR(store.issue))'
  <2>1. HasPR(i) BY DEF Complete, At, PRInv, InPRStage, HasPR, PRSteps, Reviewed
  <2> QED BY <2>1 DEF PRInv, Complete, HasPR, Save, Written, Corrupt, Reviewed, github
<1> QED BY <1>1, <1>2, <1>3 DEF PRInv, Complete, HasPR, github, count, memory, ReviewHasPR

LEMMA PRFailIssue == ASSUME TypeOK, PRInv, NEW i \in Issues, FailIssue(i) PROVE PRInv'
<1>1. (\A j \in Issues : InPRStage(j) => HasPR(j))'
  BY AdvanceFields DEF PRInv, InPRStage, HasPR, PRSteps, Reviewed, FailIssue, At, github
<1>2. (store.state \in Reviewed => HasPR(store.issue))'
  BY DEF PRInv, FailIssue, HasPR, Reviewed, Save, Written, Corrupt, PRSteps, InPRStage, At, github
<1> QED BY <1>1, <1>2 DEF PRInv, FailIssue, HasPR, github, count, memory, ReviewHasPR

LEMMA PRFailLabel == ASSUME TypeOK, PRInv, NEW i \in Issues, FailLabel(i) PROVE PRInv'
<1>1. (\A j \in Issues : InPRStage(j) => HasPR(j))'
  BY IdleFields DEF PRInv, InPRStage, HasPR, PRSteps, Reviewed, FailLabel, Return, TypeOK
<1>2. (status.state \in Reviewed => HasPR(status.issue))'
  BY DEF PRInv, FailLabel, HasPR, Reviewed, UpdateStatus, PRSteps, InPRStage, At
<1>3. ReviewHasPR'
  BY DEF PRInv, FailLabel, ReviewHasPR, Relabel, TypeOK
<1> QED BY <1>1, <1>2, <1>3 DEF PRInv, FailLabel, HasPR, github, count, memory

LEMMA PRHumanReady == ASSUME TypeOK, PRInv, NEW i \in Issues, HumanReady(i) PROVE PRInv'
<1>1. ReviewHasPR'
  BY DEF PRInv, HumanReady, ReviewHasPR, TypeOK
<1> QED BY <1>1 DEF PRInv, HumanReady, HasPR, github, count, memory, InPRStage, ReviewHasPR

LEMMA PRSystem ==
    ASSUME TypeOK, PRInv, Signal \/ ShutdownManager \/ Exit \/ Crash \/ Restart
    PROVE  PRInv'
<1> USE DEF PRInv, InPRStage, HasPR, ReviewHasPR, github
<1>1. CASE Signal BY <1>1 DEF Signal, memory
<1>2. CASE ReadStatus BY <1>2 DEF ReadStatus, memory
<1>3. CASE SaveCheckpoint BY <1>3 DEF SaveCheckpoint, Written, Corrupt, Reviewed, memory
<1>4. CASE CleanupWorkspaces BY <1>4 DEF CleanupWorkspaces, memory
<1>5. ASSUME MemoryLost, UNCHANGED github, store' \in {store, Corrupt} PROVE PRInv'
  BY <1>5, IdleFields DEF MemoryLost, Idle, SMOff, Corrupt, Reviewed, PRSteps
<1>6. CASE Exit BY <1>5, <1>6 DEF Exit
<1>7. CASE Crash BY <1>5, <1>7 DEF Crash
<1>8. CASE Restart BY <1>8 DEF Restart
<1> QED BY <1>1, <1>2, <1>3, <1>4, <1>6, <1>7, <1>8 DEF ShutdownManager

LEMMA PRInit == Init => PRInv
BY IdleFields
DEF Init, PRInv, InPRStage, PRSteps, Reviewed, Idle, SMOff, NoRecord, ReviewHasPR

LEMMA PRNext == TypeOK /\ PRInv /\ [Next]_vars => PRInv'
<1> SUFFICES ASSUME TypeOK, PRInv, [Next]_vars PROVE PRInv'
  OBVIOUS
<1>1. CASE Poll BY <1>1, PRPoll
<1>2. ASSUME NEW i \in Issues, Process(i) PROVE PRInv'
  BY <1>2, PRHandleIssue, PRClaim, PRUnready, PRClaimComment, PRRecordClaim,
     PRGracefulShutdown, PRSetupWorkspace, PRClone, PRAnalyze, PRCreateChild,
     PRLabelEpic, PRRecordSplit, PRNextChild, PRChildrenDone, PRStartImplement,
     PRImplement, PRCommitAndPush, PRCreatePR, PRRecordPR, PRStartValidation,
     PRValidatePR, PRMergePR, PRFinishLabels, PRComplete, PRFailIssue, PRFailLabel
  DEF Process
<1>3. CASE Signal \/ ShutdownManager \/ Exit \/ Crash \/ Restart BY <1>3, PRSystem
<1>4. ASSUME NEW i \in Issues, HumanReady(i) PROVE PRInv' BY <1>4, PRHumanReady
<1>5. CASE UNCHANGED vars
  BY <1>5 DEF vars, PRInv, InPRStage, HasPR, ReviewHasPR
<1> QED BY <1>1, <1>2, <1>3, <1>4, <1>5 DEF Next, Agent

\* No issue is labelled in-review and no record claims review, validation or
\* completion without a pull request: CreatePR's error return, a cancelled
\* context, a crash, and a ShutdownManager that writes a status it read
\* earlier all leave both facts true.
THEOREM PullRequestsCorrect == Spec => [](ReviewHasPR /\ RecordedPRExists)
<1>1. PRInv => ReviewHasPR /\ RecordedPRExists
  BY DEF PRInv, RecordedPRExists, HasPR, Reviewed
<1> QED BY <1>1, PRInit, PRNext, TypeCorrect, PTL DEF Spec

-----------------------------------------------------------------------------
(* The call stack of processIssue and the workspaces.  Activations are     *)
(* ordered by issue number because children are created after their parent *)
(* is entered; the invariant says that the parent of an activation is the  *)
(* next lower one, so a return hands control to the right activation.      *)

\* k is a child of i that processChildIssues has not reached.
Kid(i, k) == \E n \in 1..Len(frame[i].kids) : frame[i].kids[n] = k

\* The activations form a stack whose top is cur.
StackInv ==
    /\ \A i \in Issues : ~Working(i) => frame[i] = IdleFrame
    /\ cur # NoIssue => Working(cur)
    /\ \A i \in Issues : Working(i) => i <= cur
    /\ \A i \in Issues : Working(i) /\ i # cur => frame[i].pc = "children"
    /\ \A i \in Issues : Working(i) /\ frame[i].parent # NoIssue =>
                           Working(frame[i].parent) /\ frame[i].parent < i
    /\ \A i, j \in Issues : Working(i) /\ Working(j) /\ j < i => j <= frame[i].parent

\* No issue is pending twice.
KidsDistinct ==
    \A i, j \in Issues : \A n \in 1..Len(frame[i].kids), m \in 1..Len(frame[j].kids) :
        frame[i].kids[n] = frame[j].kids[m] => i = j /\ n = m

\* Pending children are newer than their parent, exist, and are not running.
KidsInv ==
    /\ \A i \in Issues : Working(i) => i <= created
    /\ \A i, k \in Issues : Kid(i, k) => i < k /\ k <= created /\ ~Working(k)
    /\ KidsDistinct

\* What a step inside processIssue(i) leaves alone.
SameRest(i) == \A j \in Issues : j # i => frame'[j] = frame[j]

Stays(i) ==
    /\ cur = i /\ cur' = i
    /\ frame[i].pc # "idle" /\ frame'[i].pc # "idle"
    /\ frame'[i].parent = frame[i].parent
    /\ SameRest(i)

LEMMA StackStays ==
    ASSUME TypeOK, StackInv, NEW i \in Issues, Stays(i)
    PROVE  StackInv'
<1>1. \A j \in Issues : Working(j)' <=> Working(j)
  BY DEF Stays, SameRest, Working
<1>2. \A j \in Issues : frame'[j].parent = frame[j].parent
  BY DEF Stays, SameRest
<1>3. (\A j \in Issues : ~Working(j) => frame[j] = IdleFrame)'
  BY <1>1 DEF StackInv, Stays, SameRest, Working
<1>4. (cur # NoIssue => Working(cur))' BY DEF Stays, Working
<1>5. (\A j \in Issues : Working(j) => j <= cur)' BY <1>1 DEF StackInv, Stays
<1>6. (\A j \in Issues : Working(j) /\ j # cur => frame[j].pc = "children")'
  BY <1>1 DEF StackInv, Stays, SameRest
<1>7. \A j \in Issues : frame[j].parent \in Issues \cup {NoIssue} BY FrameDomain DEF Frame
<1>8. (\A j \in Issues : Working(j) /\ frame[j].parent # NoIssue =>
                           Working(frame[j].parent) /\ frame[j].parent < j)'
  BY <1>1, <1>2, <1>7 DEF StackInv
<1>9. (\A j, k \in Issues : Working(j) /\ Working(k) /\ k < j => k <= frame[j].parent)'
  BY <1>1, <1>2 DEF StackInv
<1> QED BY <1>3, <1>4, <1>5, <1>6, <1>8, <1>9 DEF StackInv

\* processIssue(i) returns to the activation that called it.
Returns(i) ==
    /\ cur = i /\ frame[i].pc # "idle" /\ cur' = frame[i].parent
    /\ frame' = [frame EXCEPT ![i] = IdleFrame]

LEMMA StackReturns ==
    ASSUME TypeOK, StackInv, NEW i \in Issues, Returns(i)
    PROVE  StackInv'
<1>1. frame'[i] = IdleFrame /\ SameRest(i) BY DEF Returns, SameRest, TypeOK
<1>2. \A j \in Issues : Working(j)' <=> Working(j) /\ j # i
  BY <1>1, IdleFields DEF SameRest, Working
<1>3. \A j \in Issues : frame[j].parent \in Issues \cup {NoIssue} BY FrameDomain DEF Frame
<1>4. Working(i) BY DEF Returns, Working
<1>5. \A j \in Issues : Working(j) /\ j # i => j <= frame[i].parent
  <2> TAKE j \in Issues
  <2> HAVE Working(j) /\ j # i
  <2>1. j < i BY IssueRange DEF StackInv, Returns
  <2> QED BY <1>4, <2>1 DEF StackInv
<1>6. (\A j \in Issues : ~Working(j) => frame[j] = IdleFrame)'
  BY <1>1, <1>2 DEF StackInv, SameRest
<1>7. (cur # NoIssue => Working(cur))'
  BY <1>2, <1>3, <1>4, IssueRange DEF StackInv, Returns
<1>8. (\A j \in Issues : Working(j) => j <= cur)' BY <1>2, <1>5 DEF Returns
<1>9. (\A j \in Issues : Working(j) /\ j # cur => frame[j].pc = "children")'
  BY <1>1, <1>2 DEF StackInv, Returns, SameRest
<1>10. (\A j \in Issues : Working(j) /\ frame[j].parent # NoIssue =>
                            Working(frame[j].parent) /\ frame[j].parent < j)'
  <2> SUFFICES ASSUME NEW j \in Issues, Working(j)', frame'[j].parent # NoIssue
               PROVE  Working(frame[j].parent)' /\ frame'[j].parent < j
    OBVIOUS
  <2>1. j # i /\ frame'[j].parent = frame[j].parent /\ Working(j)
    BY <1>1, <1>2 DEF SameRest
  <2>2. Working(frame[j].parent) /\ frame[j].parent < j BY <2>1 DEF StackInv
  <2>3. frame[j].parent # i
    BY <2>1, <2>2, IssueRange DEF StackInv, Returns
  <2>4. Working(frame[j].parent)' <=> frame'[frame[j].parent].pc # "idle"
    BY <2>1 DEF Working
  <2>5. frame'[frame[j].parent].pc # "idle" BY <1>2, <1>3, <2>1, <2>2, <2>3 DEF Working
  <2> QED BY <2>1, <2>2, <2>4, <2>5
<1>11. (\A j, k \in Issues : Working(j) /\ Working(k) /\ k < j => k <= frame[j].parent)'
  BY <1>1, <1>2 DEF StackInv, SameRest
<1> QED BY <1>6, <1>7, <1>8, <1>9, <1>10, <1>11 DEF StackInv

\* processIssue(i) is called by p, or by handleIssues when p is NoIssue.
Enters(i, p) ==
    /\ cur' = i /\ i \in Issues
    /\ frame'[i].pc = "claim" /\ frame'[i].parent = p
    /\ \A j \in Issues : j # i => /\ frame'[j].pc = frame[j].pc
                                  /\ frame'[j].parent = frame[j].parent
                                  /\ frame[j].pc = "idle" => frame'[j] = frame[j]

LEMMA StackEnters ==
    ASSUME TypeOK, StackInv, NEW i \in Issues, NEW p \in Issues \cup {NoIssue},
           Enters(i, p), cur = p, ~Working(i),
           p # NoIssue => p < i /\ frame[p].pc = "children"
    PROVE  StackInv'
<1>1. \A j \in Issues : Working(j)' <=> Working(j) \/ j = i
  BY DEF Enters, Working
<1>2. \A j \in Issues : frame[j].parent \in Issues \cup {NoIssue} BY FrameDomain DEF Frame
<1>3. \A j \in Issues : Working(j) => j <= p BY DEF StackInv
<1>4. \A j \in Issues : Working(j) => j < i BY <1>3, IssueRange DEF NoIssue
<1>5. (\A j \in Issues : ~Working(j) => frame[j] = IdleFrame)'
  BY <1>1 DEF StackInv, Enters, Working
<1>6. (cur # NoIssue => Working(cur))' BY <1>1 DEF Enters
<1>7. (\A j \in Issues : Working(j) => j <= cur)' BY <1>1, <1>4, IssueRange DEF Enters
<1>8. (\A j \in Issues : Working(j) /\ j # cur => frame[j].pc = "children")'
  BY <1>1, IssueRange DEF StackInv, Enters
<1>9. (\A j \in Issues : Working(j) /\ frame[j].parent # NoIssue =>
                           Working(frame[j].parent) /\ frame[j].parent < j)'
  <2> SUFFICES ASSUME NEW j \in Issues, Working(j)', frame'[j].parent # NoIssue
               PROVE  frame'[frame'[j].parent].pc # "idle" /\ frame'[j].parent < j
    BY DEF Working
  <2>1. CASE j = i
    <3>1. frame'[j].parent = p /\ p \in Issues BY <2>1 DEF Enters
    <3> QED BY <1>4, <2>1, <3>1 DEF Enters
  <2>2. CASE j # i
    <3>1. frame'[j].parent = frame[j].parent /\ Working(j) BY <1>1, <2>2 DEF Enters
    <3>2. Working(frame[j].parent) /\ frame[j].parent < j /\ frame[j].parent \in Issues
      BY <1>2, <3>1 DEF StackInv
    <3> QED BY <3>1, <3>2 DEF Enters, Working
  <2> QED BY <2>1, <2>2
<1>10. (\A j, k \in Issues : Working(j) /\ Working(k) /\ k < j => k <= frame[j].parent)'
  <2> SUFFICES ASSUME NEW j \in Issues, NEW k \in Issues, Working(j)', Working(k)', k < j
               PROVE  k <= frame'[j].parent
    OBVIOUS
  <2>1. CASE j = i
    <3>1. Working(k) BY <1>1, <2>1, IssueRange
    <3> QED BY <1>3, <2>1, <3>1 DEF Enters
  <2>2. CASE j # i
    <3>1. Working(j) BY <1>1, <2>2
    <3>2. k # i BY <1>4, <3>1, IssueRange
    <3>3. Working(k) BY <1>1, <3>2
    <3> QED BY <2>2, <3>1, <3>3 DEF StackInv, Enters
  <2> QED BY <2>1, <2>2
<1> QED BY <1>5, <1>6, <1>7, <1>8, <1>9, <1>10 DEF StackInv

LEMMA KidsStays ==
    ASSUME TypeOK, KidsInv, NEW i \in Issues, Stays(i), frame'[i].kids = frame[i].kids,
           UNCHANGED created
    PROVE  KidsInv'
<1>1. \A j \in Issues : Working(j)' <=> Working(j)
  BY DEF Stays, SameRest, Working
<1>2. \A j \in Issues : frame'[j].kids = frame[j].kids BY DEF Stays, SameRest
<1>3. \A j, k \in Issues : Kid(j, k)' <=> Kid(j, k) BY <1>2 DEF Kid
<1>4. KidsDistinct'
  <2>1. KidsDistinct BY DEF KidsInv
  <2> QED BY ONLY SMTT(30), <1>2, <2>1 DEF KidsDistinct
<1> QED BY <1>1, <1>3, <1>4 DEF KidsInv

LEMMA KidsReturns ==
    ASSUME TypeOK, KidsInv, NEW i \in Issues, Returns(i), UNCHANGED created
    PROVE  KidsInv'
<1>1. frame'[i] = IdleFrame /\ SameRest(i) BY DEF Returns, SameRest, TypeOK
<1>2. \A j \in Issues : Working(j)' => Working(j)
  BY <1>1, IdleFields DEF SameRest, Working
<1>3. Len(frame'[i].kids) = 0 BY <1>1, IdleFields
<1>4. \A j \in Issues : frame'[j].kids = frame[j].kids \/ Len(frame'[j].kids) = 0
  BY <1>1, <1>3 DEF SameRest
<1>5. \A j, k \in Issues : Kid(j, k)' => Kid(j, k) BY <1>4 DEF Kid
<1>6. KidsDistinct'
  <2>1. KidsDistinct BY DEF KidsInv
  <2>2. \A j \in Issues : \A n \in 1..Len(frame'[j].kids) :
          n \in 1..Len(frame[j].kids) /\ frame'[j].kids[n] = frame[j].kids[n]
    BY ONLY <1>4
  <2>3. ASSUME NEW j \in Issues, NEW k \in Issues, NEW n \in 1..Len(frame'[j].kids),
               NEW m \in 1..Len(frame'[k].kids), frame'[j].kids[n] = frame'[k].kids[m]
        PROVE  j = k /\ n = m
    <3>1. /\ n \in 1..Len(frame[j].kids) /\ m \in 1..Len(frame[k].kids)
          /\ frame[j].kids[n] = frame[k].kids[m]
      BY ONLY <2>2, <2>3
    <3> QED BY ONLY <2>1, <3>1 DEF KidsDistinct
  <2> QED BY ONLY <2>3 DEF KidsDistinct
<1> QED BY <1>2, <1>5, <1>6 DEF KidsInv

\* Appending a fresh issue to the children of the running one.
LEMMA KidsCreated ==
    ASSUME TypeOK, KidsInv, NEW i \in Issues, Stays(i), created' = created + 1,
           created + 1 \in Issues, frame'[i].kids \in {frame[i].kids, Append(frame[i].kids, created + 1)}
    PROVE  KidsInv'
<1>1. \A j \in Issues : Working(j)' <=> Working(j)
  BY DEF Stays, SameRest, Working
<1>2. created \in Nat /\ i <= created /\ i \in Nat
  BY IssueRange DEF KidsInv, Stays, Working, TypeOK
<1>5. (\A j \in Issues : Working(j) => j <= created)'
  BY <1>1, <1>2, IssueRange DEF KidsInv
<1>6. \A j, k \in Issues : Kid(j, k) => j < k /\ k <= created + 1 /\ ~Working(k)
  <2> TAKE j, k \in Issues
  <2> HAVE Kid(j, k)
  <2>1. j < k /\ k <= created /\ ~Working(k) BY DEF KidsInv
  <2>2. k \in Nat BY IssueRange
  <2> QED BY <1>2, <2>1, <2>2
<1>3. CASE frame'[i].kids = frame[i].kids
  <2>1. \A j \in Issues : frame'[j].kids = frame[j].kids BY <1>3 DEF Stays, SameRest
  <2>2. \A j, k \in Issues : Kid(j, k)' <=> Kid(j, k) BY <2>1 DEF Kid
  <2>3. KidsDistinct'
    <3>1. KidsDistinct BY DEF KidsInv
    <3> QED BY ONLY SMTT(30), <2>1, <3>1 DEF KidsDistinct
  <2> QED BY <1>1, <1>5, <1>6, <2>2, <2>3 DEF KidsInv
<1>4. CASE frame'[i].kids = Append(frame[i].kids, created + 1)
  <2>1. /\ Len(frame'[i].kids) = Len(frame[i].kids) + 1
        /\ \A n \in 1..Len(frame[i].kids) : frame'[i].kids[n] = frame[i].kids[n]
        /\ frame'[i].kids[Len(frame[i].kids) + 1] = created + 1
    BY <1>4, KidsType
  <2>2. \A j \in Issues : \A n \in 1..Len(frame[j].kids) :
          frame[j].kids[n] <= created /\ frame[j].kids[n] \in Issues
    BY KidsType DEF KidsInv, Kid
  <2>4. ~Working(created + 1) BY <1>2 DEF KidsInv
  <2>5. \A j \in Issues : \A n \in 1..Len(frame'[j].kids) :
          \/ n \in 1..Len(frame[j].kids) /\ frame'[j].kids[n] = frame[j].kids[n]
          \/ j = i /\ n = Len(frame[i].kids) + 1 /\ frame'[j].kids[n] = created + 1
    <3> TAKE j \in Issues
    <3> TAKE n \in 1..Len(frame'[j].kids)
    <3>1. CASE j = i BY SMTT(30), <2>1, <3>1, KidsType
    <3>2. CASE j # i BY <3>2 DEF Stays, SameRest
    <3> QED BY <3>1, <3>2
  <2>3. \A j, k \in Issues : Kid(j, k)' => Kid(j, k) \/ (j = i /\ k = created + 1)
    BY <2>5 DEF Kid
  <2>6. KidsDistinct'
    <3> SUFFICES ASSUME NEW j \in Issues, NEW l \in Issues, NEW n \in 1..Len(frame'[j].kids),
                        NEW m \in 1..Len(frame'[l].kids),
                        frame'[j].kids[n] = frame'[l].kids[m]
                 PROVE  j = l /\ n = m
      BY DEF KidsDistinct
    <3>1. CASE frame'[j].kids[n] = created + 1
      <4>1. created + 1 > created BY <1>2
      <4>2. ~(n \in 1..Len(frame[j].kids) /\ frame[j].kids[n] = created + 1)
        BY <1>2, <2>2
      <4>3. ~(m \in 1..Len(frame[l].kids) /\ frame[l].kids[m] = created + 1)
        BY <1>2, <2>2
      <4>4. j = i /\ n = Len(frame[i].kids) + 1 BY <2>5, <3>1, <4>2
      <4>5. l = i /\ m = Len(frame[i].kids) + 1 BY <2>5, <3>1, <4>3
      <4> QED BY <4>4, <4>5
    <3>2. CASE frame'[j].kids[n] # created + 1
      BY <2>5, <3>2 DEF KidsInv, KidsDistinct
    <3> QED BY <3>1, <3>2
  <2>7. i < created + 1 /\ created + 1 <= created + 1 BY <1>2
  <2>8. \A j, k \in Issues : Kid(j, k)' => j < k /\ k <= created + 1 /\ ~Working(k)
    BY <1>6, <2>3, <2>4, <2>7
  <2> QED BY <1>1, <1>5, <2>6, <2>8 DEF KidsInv
<1> QED BY <1>3, <1>4

\* Popping the next child, which may be entered.
LEMMA KidsPopped ==
    ASSUME TypeOK, KidsInv, NEW i \in Issues, frame[i].kids # <<>>,
           UNCHANGED created,
           \/ frame' = Popped(i)
           \/ frame' = [Popped(i) EXCEPT ![Head(frame[i].kids)] = Entered(i)]
    PROVE  KidsInv'
<1> DEFINE c == Head(frame[i].kids)
<1>1. frame[i].kids \in Seq(Issues) /\ Len(frame[i].kids) \in Nat \ {0} /\ c = frame[i].kids[1]
      /\ c \in Issues
  BY KidsType
<1>2. Kid(i, c) BY <1>1 DEF Kid
<1>3. i < c /\ c <= created /\ ~Working(c) BY <1>1, <1>2 DEF KidsInv
<1>4. /\ Len(Tail(frame[i].kids)) = Len(frame[i].kids) - 1
      /\ \A n \in 1..(Len(frame[i].kids) - 1) : Tail(frame[i].kids)[n] = frame[i].kids[n + 1]
  BY <1>1
<1>5. /\ \A j \in Issues : j # i => Popped(i)[j] = frame[j]
      /\ Popped(i)[i].kids = Tail(frame[i].kids)
      /\ Popped(i)[i].pc = frame[i].pc
  BY FrameDomain DEF Popped, TypeOK
<1>6. Popped(i) \in [Issues -> Frame] BY PoppedType
<1>7. /\ frame'[i].pc = frame[i].pc /\ frame'[i].kids = Tail(frame[i].kids)
      /\ \A j \in Issues : j # i /\ j # c => frame'[j] = frame[j]
      /\ frame'[c] = frame[c] \/ frame'[c].kids = <<>>
  <2>1. i # c BY <1>1, <1>3, IssueRange
  <2>4. Entered(i).kids = <<>> BY EnteredFields
  <2>2. CASE frame' = Popped(i) BY <1>5, <2>1, <2>2, <1>1
  <2>3. CASE frame' = [Popped(i) EXCEPT ![c] = Entered(i)]
    <3>1. \A j \in Issues : frame'[j] = IF j = c THEN Entered(i) ELSE Popped(i)[j]
      BY <1>1, <1>6, <2>3
    <3> QED BY <1>1, <1>5, <2>1, <2>4, <3>1
  <2> QED BY <2>2, <2>3
<1>8. \A j \in Issues : Working(j)' => Working(j) \/ j = c
  BY <1>7 DEF Working
<1>9. \A j \in Issues : \A n \in 1..Len(frame'[j].kids) :
        \/ j # i /\ n \in 1..Len(frame[j].kids) /\ frame'[j].kids[n] = frame[j].kids[n]
        \/ j = i /\ n + 1 \in 2..Len(frame[j].kids) /\ frame'[j].kids[n] = frame[j].kids[n + 1]
  <2> TAKE j \in Issues
  <2> TAKE n \in 1..Len(frame'[j].kids)
  <2>1. CASE j = i
    <3>1. n \in 1..(Len(frame[i].kids) - 1) BY <1>1, <1>4, <1>7, <2>1
    <3>2. frame'[i].kids[n] = frame[i].kids[n + 1] BY <1>4, <1>7, <3>1
    <3> QED BY <1>1, <2>1, <3>1, <3>2
  <2>2. CASE j # i /\ j # c BY <1>7, <2>2
  <2>3. CASE j # i /\ j = c
    <3>1. frame'[c].kids # <<>>
      BY <2>3
    <3> QED BY <1>7, <2>3, <3>1
  <2> QED BY <2>1, <2>2, <2>3
<1>10. \A j, k \in Issues : Kid(j, k)' => Kid(j, k) /\ k # c
  <2> SUFFICES ASSUME NEW j \in Issues, NEW n \in 1..Len(frame'[j].kids)
               PROVE  LET k == frame'[j].kids[n] IN Kid(j, k) /\ k # c
    BY SMTT(30) DEF Kid
  <2>1. CASE j # i /\ n \in 1..Len(frame[j].kids) /\ frame'[j].kids[n] = frame[j].kids[n]
    BY <1>1, <2>1 DEF Kid, KidsInv, KidsDistinct
  <2>2. CASE j = i /\ n + 1 \in 2..Len(frame[j].kids) /\ frame'[j].kids[n] = frame[j].kids[n + 1]
    BY <1>1, <2>2, KidsType DEF Kid, KidsInv, KidsDistinct
  <2> QED BY <1>9, <2>1, <2>2
<1>11. KidsDistinct'
  BY SMTT(30), <1>1, <1>9, KidsType DEF KidsInv, KidsDistinct
<1>12. (\A j \in Issues : Working(j) => j <= created)' BY <1>3, <1>8 DEF KidsInv
<1> QED BY <1>8, <1>10, <1>11, <1>12 DEF KidsInv

\* Issues GitHub has not numbered yet carry no label and are in no batch.
FreshInv ==
    /\ \A i \in Issues : i > created => labels[i] = {}
    /\ batch \subseteq 1..created

\* The inductive invariant.
StackAndWorkspaces == StackInv /\ KidsInv /\ FreshInv /\ NoLeakedWorkspace

\* Only the labels of i change.
OnlyLabels(i) == \A j \in Issues : j # i => labels'[j] = labels[j]

\* A step inside processIssue(i), and one that returns from it.
Works(i) ==
    /\ Stays(i) /\ frame'[i].kids = frame[i].kids
    /\ UNCHANGED <<created, batch>> /\ OnlyLabels(i)
    /\ frame[i].made => frame'[i].made
    /\ \A j \in Issues : wsp'[j] = "active" => wsp[j] = "active" \/ (j = i /\ frame'[i].made)

Ends(i) ==
    /\ Returns(i)
    /\ UNCHANGED <<created, batch>> /\ OnlyLabels(i)
    /\ \A j \in Issues : wsp'[j] = "active" => wsp[j] = "active" /\ ~(j = i /\ frame[i].made)

LEMMA WorksKeeps ==
    ASSUME TypeOK, StackAndWorkspaces, NEW i \in Issues, Works(i)
    PROVE  StackAndWorkspaces'
<1>1. StackInv' BY StackStays DEF StackAndWorkspaces, Works
<1>2. KidsInv' BY KidsStays DEF StackAndWorkspaces, Works
<1>3. i <= created BY DEF StackAndWorkspaces, KidsInv, Works, Stays, Working
<1>4. FreshInv'
  <2>1. created' = created /\ batch' = batch BY DEF Works
  <2>2. \A j \in Issues : j # i => labels'[j] = labels[j] BY DEF Works, OnlyLabels
  <2>3. created \in Nat /\ i \in Nat BY IssueRange DEF TypeOK
  <2>4. ~(i > created) BY <1>3, <2>3
  <2>5. ASSUME NEW j \in Issues, j > created PROVE labels'[j] = {}
    <3>1. labels[j] = {} BY <2>5 DEF StackAndWorkspaces, FreshInv
    <3>2. j # i BY <2>4, <2>5
    <3> QED BY <2>2, <3>1, <3>2
  <2>6. batch \subseteq 1..created BY DEF StackAndWorkspaces, FreshInv
  <2> QED BY <2>1, <2>5, <2>6 DEF FreshInv
<1>5. NoLeakedWorkspace'
  BY DEF StackAndWorkspaces, NoLeakedWorkspace, Works, Stays, SameRest, Working
<1> QED BY <1>1, <1>2, <1>4, <1>5 DEF StackAndWorkspaces

LEMMA EndsKeeps ==
    ASSUME TypeOK, StackAndWorkspaces, NEW i \in Issues, Ends(i)
    PROVE  StackAndWorkspaces'
<1>1. StackInv' BY StackReturns DEF StackAndWorkspaces, Ends
<1>2. KidsInv' BY KidsReturns DEF StackAndWorkspaces, Ends
<1>3. i <= created BY DEF StackAndWorkspaces, KidsInv, Ends, Returns, Working
<1>4. FreshInv'
  <2>1. created' = created /\ batch' = batch BY DEF Ends
  <2>2. \A j \in Issues : j # i => labels'[j] = labels[j] BY DEF Ends, OnlyLabels
  <2>3. created \in Nat /\ i \in Nat BY IssueRange DEF TypeOK
  <2>4. ~(i > created) BY <1>3, <2>3
  <2>5. ASSUME NEW j \in Issues, j > created PROVE labels'[j] = {}
    <3>1. labels[j] = {} BY <2>5 DEF StackAndWorkspaces, FreshInv
    <3>2. j # i BY <2>4, <2>5
    <3> QED BY <2>2, <3>1, <3>2
  <2>6. batch \subseteq 1..created BY DEF StackAndWorkspaces, FreshInv
  <2> QED BY <2>1, <2>5, <2>6 DEF FreshInv
<1>5. \A j \in Issues : j # i => frame'[j] = frame[j] BY DEF Ends, Returns, TypeOK
<1>6. NoLeakedWorkspace'
  BY <1>5 DEF StackAndWorkspaces, NoLeakedWorkspace, Ends, Working
<1> QED BY <1>1, <1>2, <1>4, <1>6 DEF StackAndWorkspaces

LEMMA GotoWorks ==
    ASSUME TypeOK, NEW i \in Issues, cur = i, frame[i].pc # "idle", NEW s, s # "idle",
           Goto(i, s) \/ \E w : Advance(i, w, s),
           UNCHANGED <<created, batch, cur, wsp>>, OnlyLabels(i)
    PROVE  Works(i)
<1>1. CASE Goto(i, s)
  <2>1. SameRest(i) BY <1>1 DEF Goto, SameRest, TypeOK
  <2> QED BY <1>1, <2>1, GotoFields DEF Works, Stays
<1>2. ASSUME NEW w, Advance(i, w, s) PROVE Works(i)
  <2>1. SameRest(i) BY <1>2 DEF Advance, SameRest, TypeOK
  <2> QED BY <1>2, <2>1, AdvanceFields DEF Works, Stays
<1> QED BY <1>1, <1>2

LEMMA ReturnEnds ==
    ASSUME TypeOK, NEW i \in Issues, cur = i, frame[i].pc # "idle", NEW f, Return(i, f),
           UNCHANGED <<created, batch>>, OnlyLabels(i)
    PROVE  Ends(i)
BY DEF Ends, Returns, Return, GivenUp, TypeOK

LEMMA WorksUnready == ASSUME TypeOK, NEW i \in Issues, Unready(i) PROVE Works(i)
BY GotoWorks DEF Unready, At, OnlyLabels, TypeOK, github

LEMMA WorksRecordClaim == ASSUME TypeOK, NEW i \in Issues, RecordClaim(i) PROVE Works(i)
BY GotoWorks DEF RecordClaim, At, OnlyLabels, TypeOK, github

LEMMA WorksClone == ASSUME TypeOK, NEW i \in Issues, Clone(i) PROVE Works(i)
BY GotoWorks DEF Clone, At, OnlyLabels, TypeOK, github

LEMMA WorksAnalyze == ASSUME TypeOK, NEW i \in Issues, Analyze(i) PROVE Works(i)
BY GotoWorks DEF Analyze, At, OnlyLabels, TypeOK, github

LEMMA WorksLabelEpic == ASSUME TypeOK, NEW i \in Issues, LabelEpic(i) PROVE Works(i)
BY GotoWorks DEF LabelEpic, At, OnlyLabels, TypeOK, github

LEMMA WorksRecordSplit == ASSUME TypeOK, NEW i \in Issues, RecordSplit(i) PROVE Works(i)
BY GotoWorks DEF RecordSplit, At, OnlyLabels, TypeOK, github

LEMMA WorksStartImplement == ASSUME TypeOK, NEW i \in Issues, StartImplement(i) PROVE Works(i)
BY GotoWorks DEF StartImplement, At, OnlyLabels, TypeOK, github

LEMMA WorksImplement == ASSUME TypeOK, NEW i \in Issues, Implement(i) PROVE Works(i)
BY GotoWorks DEF Implement, At, OnlyLabels, TypeOK, github

LEMMA WorksCommitAndPush == ASSUME TypeOK, NEW i \in Issues, CommitAndPush(i) PROVE Works(i)
BY GotoWorks DEF CommitAndPush, At, OnlyLabels, TypeOK, github

LEMMA WorksCreatePR == ASSUME TypeOK, NEW i \in Issues, CreatePR(i) PROVE Works(i)
BY GotoWorks DEF CreatePR, At, OnlyLabels, TypeOK, github, AfterCreatePR

LEMMA WorksMergePR == ASSUME TypeOK, NEW i \in Issues, MergePR(i) PROVE Works(i)
BY GotoWorks DEF MergePR, At, OnlyLabels, TypeOK, github

LEMMA WorksFinishLabels == ASSUME TypeOK, NEW i \in Issues, FinishLabels(i) PROVE Works(i)
BY GotoWorks DEF FinishLabels, At, OnlyLabels, TypeOK, github

LEMMA WorksFailIssue == ASSUME TypeOK, NEW i \in Issues, FailIssue(i) PROVE Works(i)
BY GotoWorks DEF FailIssue, At, OnlyLabels, TypeOK, github

LEMMA EndsChildrenDone == ASSUME TypeOK, NEW i \in Issues, ChildrenDone(i) PROVE Ends(i)
BY ReturnEnds DEF ChildrenDone, At, OnlyLabels, TypeOK, github

LEMMA EndsComplete == ASSUME TypeOK, NEW i \in Issues, Complete(i) PROVE Ends(i)
BY ReturnEnds DEF Complete, At, OnlyLabels, TypeOK, github

LEMMA EndsFailLabel == ASSUME TypeOK, NEW i \in Issues, FailLabel(i) PROVE Ends(i)
BY ReturnEnds DEF FailLabel, At, OnlyLabels, TypeOK, github

LEMMA ClaimShape == ASSUME TypeOK, NEW i \in Issues, Claim(i) PROVE Works(i) \/ Ends(i)
BY GotoWorks, ReturnEnds DEF Claim, At, OnlyLabels, TypeOK, github

LEMMA ClaimCommentShape == ASSUME TypeOK, NEW i \in Issues, ClaimComment(i) PROVE Works(i) \/ Ends(i)
BY GotoWorks, ReturnEnds DEF ClaimComment, At, OnlyLabels, TypeOK, github

LEMMA EndsGracefulShutdown ==
    ASSUME TypeOK, NEW i \in Issues, GracefulShutdown(i)
    PROVE  Ends(i)
<1>1. Returns(i) BY DEF Returns, GracefulShutdown, At
<1>2. OnlyLabels(i) BY DEF OnlyLabels, GracefulShutdown, TypeOK
<1>3. \A j \in Issues : wsp'[j] = "active" => wsp[j] = "active" /\ j # i
  BY DEF GracefulShutdown, TypeOK
<1> QED BY <1>1, <1>2, <1>3 DEF Ends, GracefulShutdown

LEMMA WorksSetupWorkspace ==
    ASSUME TypeOK, NEW i \in Issues, SetupWorkspace(i)
    PROVE  Works(i)
<1>1. CASE Goto(i, "fail") /\ UNCHANGED wsp
  BY <1>1, GotoWorks DEF SetupWorkspace, At, OnlyLabels, github
<1>2. CASE /\ frame' = [frame EXCEPT ![i].pc = "clone", ![i].ws = "workspace",
                                      ![i].made = TRUE]
           /\ wsp' = [wsp EXCEPT ![i] = "active"]
  <2>1. SameRest(i) BY <1>2 DEF SameRest, TypeOK
  <2>2. /\ frame'[i].pc = "clone" /\ frame'[i].parent = frame[i].parent
        /\ frame'[i].kids = frame[i].kids /\ frame'[i].made
    BY <1>2, FrameDomain DEF TypeOK
  <2> QED BY <1>2, <2>1, <2>2
    DEF Works, Stays, SetupWorkspace, At, OnlyLabels, github, TypeOK
<1> QED BY <1>1, <1>2 DEF SetupWorkspace

LEMMA WorksRecordPR == ASSUME TypeOK, NEW i \in Issues, RecordPR(i) PROVE Works(i)
<1>1. SameRest(i) BY DEF RecordPR, SameRest, TypeOK
<1>2. /\ frame'[i].pc = "startValidation" /\ frame'[i].parent = frame[i].parent
      /\ frame'[i].kids = frame[i].kids /\ frame'[i].made = frame[i].made
  BY FrameDomain DEF RecordPR, TypeOK
<1> QED BY <1>1, <1>2 DEF Works, Stays, RecordPR, At, OnlyLabels, github

LEMMA WorksStartValidation ==
    ASSUME TypeOK, NEW i \in Issues, StartValidation(i)
    PROVE  Works(i)
<1>1. SameRest(i) BY DEF StartValidation, SameRest, TypeOK
<1>2. /\ frame'[i].pc = "validate" /\ frame'[i].parent = frame[i].parent
      /\ frame'[i].kids = frame[i].kids /\ frame'[i].made = frame[i].made
  BY FrameDomain DEF StartValidation, TypeOK
<1> QED BY <1>1, <1>2 DEF Works, Stays, StartValidation, At, OnlyLabels, github

LEMMA WorksValidatePR == ASSUME TypeOK, NEW i \in Issues, ValidatePR(i) PROVE Works(i)
<1>1. CASE \E s \in {"fail", "merge"} : Goto(i, s)
  BY <1>1, GotoWorks DEF ValidatePR, At, OnlyLabels
<1>2. CASE frame' = [frame EXCEPT ![i].attempt = @ + 1]
  <2>1. SameRest(i) BY <1>2 DEF SameRest, TypeOK
  <2>2. /\ frame'[i].pc = frame[i].pc /\ frame'[i].parent = frame[i].parent
        /\ frame'[i].kids = frame[i].kids /\ frame'[i].made = frame[i].made
    BY <1>2, FrameDomain DEF TypeOK
  <2> QED BY <2>1, <2>2 DEF Works, Stays, ValidatePR, At, OnlyLabels
<1> QED BY <1>1, <1>2 DEF ValidatePR, AfterLastRound

LEMMA StackPoll ==
    ASSUME TypeOK, StackAndWorkspaces, Poll
    PROVE  StackAndWorkspaces'
<1>1. \A i \in Issues : labels[i] # {} => i \in 1..created
  <2>1. created \in Nat /\ Issues \subseteq Nat \ {0} BY WorkflowConstants DEF TypeOK, Issues
  <2>2. \A i \in Issues : labels[i] # {} => ~(i > created) BY DEF StackAndWorkspaces, FreshInv
  <2> QED BY <2>1, <2>2
<1>2. batch' \subseteq 1..created BY <1>1 DEF Poll, StackAndWorkspaces, FreshInv
<1>3. \A i \in Issues : labels[i] = {} => labels'[i] = {}
  BY DEF Poll, PromoteOneSuggestion, TypeOK
<1>4. FreshInv' BY <1>2, <1>3 DEF StackAndWorkspaces, FreshInv, Poll
<1>5. StackInv' BY DEF StackAndWorkspaces, StackInv, Working, Poll
<1>6. KidsInv' BY DEF StackAndWorkspaces, KidsInv, Kid, KidsDistinct, Working, Poll
<1> QED BY <1>4, <1>5, <1>6 DEF StackAndWorkspaces, NoLeakedWorkspace, Working, Poll

LEMMA StackHandleIssue ==
    ASSUME TypeOK, StackAndWorkspaces, NEW i \in Issues, HandleIssue(i)
    PROVE  StackAndWorkspaces'
<1>1. \A j \in Issues : ~Working(j) /\ frame[j] = IdleFrame
  BY IssueRange DEF StackAndWorkspaces, StackInv, HandleIssue, NoIssue
<1>2. \A j \in Issues : frame'[j] = IF j = i THEN Entered(NoIssue) ELSE IdleFrame
  BY <1>1 DEF HandleIssue, TypeOK
<1>11. /\ Entered(NoIssue).pc = "claim" /\ Entered(NoIssue).parent = NoIssue
       /\ Entered(NoIssue).kids = <<>>
  BY EnteredFields
<1>3. Enters(i, NoIssue)
  BY <1>1, <1>2, <1>11 DEF Enters, HandleIssue
<1>4. StackInv' BY <1>1, <1>3, StackEnters DEF StackAndWorkspaces, HandleIssue
<1>5. i <= created BY DEF StackAndWorkspaces, FreshInv, HandleIssue
<1>6. \A j \in Issues : Len(frame'[j].kids) = 0
  BY <1>2, <1>11, IdleFields
<1>7. \A j \in Issues : Working(j)' => j = i BY <1>2, IdleFields DEF Working
<1>8. KidsInv' BY <1>5, <1>6, <1>7 DEF KidsInv, KidsDistinct, Kid, HandleIssue, github
<1>9. FreshInv' BY DEF StackAndWorkspaces, FreshInv, HandleIssue, github
<1>10. NoLeakedWorkspace'
  BY <1>1 DEF StackAndWorkspaces, NoLeakedWorkspace, HandleIssue
<1> QED BY <1>4, <1>8, <1>9, <1>10 DEF StackAndWorkspaces

LEMMA StackCreateChild ==
    ASSUME TypeOK, StackAndWorkspaces, NEW i \in Issues, CreateChild(i)
    PROVE  StackAndWorkspaces'
<1>1. created + 1 \in Issues /\ created \in Nat BY RoomForChild
<1>2. PICK r \in Replies :
        /\ created' = IF r.applied THEN created + 1 ELSE created
        /\ labels' = IF r.applied
                     THEN [labels EXCEPT ![created + 1] = {"subtask", "ready"}]
                     ELSE labels
        /\ frame' = IF r.ok THEN [frame EXCEPT ![i].kids = Append(@, created + 1)]
                    ELSE [frame EXCEPT ![i].pc = "fail"]
  BY DEF CreateChild
<1>3. r.ok => r.applied BY ReplyApplied
<1>4. /\ SameRest(i) /\ frame'[i].pc # "idle"
      /\ frame'[i].parent = frame[i].parent /\ frame'[i].made = frame[i].made
      /\ frame'[i].kids = IF r.ok THEN Append(frame[i].kids, created + 1) ELSE frame[i].kids
  BY <1>2, FrameDomain DEF SameRest, CreateChild, TypeOK
<1>5. Stays(i) BY <1>4 DEF Stays, CreateChild, At
<1>6. StackInv' BY <1>5, StackStays DEF StackAndWorkspaces
<1>7. KidsInv'
  <2>1. CASE r.applied BY <1>1, <1>2, <1>4, <1>5, <2>1, KidsCreated DEF StackAndWorkspaces
  <2>2. CASE ~r.applied BY <1>2, <1>3, <1>4, <1>5, <2>2, KidsStays DEF StackAndWorkspaces
  <2> QED BY <2>1, <2>2
<1>8. FreshInv'
  <2>1. created' \in {created, created + 1} BY <1>2
  <2>2. batch' \subseteq 1..created'
    BY <1>1, <2>1 DEF StackAndWorkspaces, FreshInv, CreateChild
  <2>3. ASSUME NEW j \in Issues, j > created' PROVE labels'[j] = {}
    BY <1>1, <1>2, <2>3, IssueRange DEF StackAndWorkspaces, FreshInv, TypeOK
  <2> QED BY <2>2, <2>3 DEF FreshInv
<1>9. NoLeakedWorkspace'
  BY <1>4, <1>5
  DEF StackAndWorkspaces, NoLeakedWorkspace, Stays, SameRest, Working, CreateChild
<1> QED BY <1>6, <1>7, <1>8, <1>9 DEF StackAndWorkspaces

LEMMA StackNextChild ==
    ASSUME TypeOK, StackAndWorkspaces, NEW i \in Issues, NextChild(i)
    PROVE  StackAndWorkspaces'
<1> DEFINE c == Head(frame[i].kids)
<1>1. Popped(i) \in [Issues -> Frame] /\ c \in Issues BY PoppedType DEF NextChild
<1>2. /\ \A j \in Issues : j # i => Popped(i)[j] = frame[j]
      /\ Popped(i)[i].pc = frame[i].pc /\ Popped(i)[i].parent = frame[i].parent
      /\ Popped(i)[i].made = frame[i].made
  BY FrameDomain DEF Popped, TypeOK
<1>3. Kid(i, c)
  BY KidsType DEF Kid, NextChild
<1>4. i < c /\ ~Working(c) BY <1>1, <1>3 DEF StackAndWorkspaces, KidsInv
<1>5. i # c BY <1>1, <1>4, IssueRange
<1>6. cur = i /\ frame[i].pc = "children" BY DEF NextChild, At
<1>7. KidsInv'
  BY KidsPopped DEF StackAndWorkspaces, NextChild, github
<1>8. FreshInv' BY DEF StackAndWorkspaces, FreshInv, NextChild, github
<1>9. CASE frame' = Popped(i) /\ UNCHANGED cur
  <2>1. Stays(i) BY <1>2, <1>6, <1>9 DEF Stays, SameRest
  <2>2. StackInv' BY <2>1, StackStays DEF StackAndWorkspaces
  <2>3. NoLeakedWorkspace'
    BY <1>2, <1>9 DEF StackAndWorkspaces, NoLeakedWorkspace, Working, NextChild
  <2> QED BY <1>7, <1>8, <2>2, <2>3 DEF StackAndWorkspaces
<1>10. CASE frame' = [Popped(i) EXCEPT ![c] = Entered(i)] /\ cur' = c
  <2>1. \A j \in Issues : frame'[j] = IF j = c THEN Entered(i) ELSE Popped(i)[j]
    BY <1>1, <1>10
  <2>2. Entered(i).pc = "claim" /\ Entered(i).parent = i BY EnteredFields
  <2>3. Enters(c, i) BY <1>1, <1>2, <1>5, <1>6, <1>10, <2>1, <2>2 DEF Enters
  <2>4. StackInv' BY <1>1, <1>4, <1>6, <2>3, StackEnters DEF StackAndWorkspaces
  <2>5. NoLeakedWorkspace'
    BY <1>2, <1>4, <2>1, <2>2 DEF StackAndWorkspaces, NoLeakedWorkspace, Working, NextChild
  <2> QED BY <1>7, <1>8, <2>4, <2>5 DEF StackAndWorkspaces
<1> QED BY <1>9, <1>10 DEF NextChild

LEMMA StackMemoryLost ==
    ASSUME TypeOK, StackAndWorkspaces, MemoryLost, UNCHANGED github
    PROVE  StackAndWorkspaces'
<1>1. \A j \in Issues : frame'[j] = IdleFrame BY DEF MemoryLost
<1>2. \A j \in Issues : ~Working(j)' /\ Len(frame'[j].kids) = 0
  BY <1>1, IdleFields DEF Working
<1>3. StackInv' BY <1>1, <1>2 DEF StackInv, MemoryLost
<1>4. KidsInv' BY <1>2 DEF KidsInv, KidsDistinct, Kid
<1>5. FreshInv' BY DEF StackAndWorkspaces, FreshInv, MemoryLost, github
<1>6. NoLeakedWorkspace' BY DEF NoLeakedWorkspace, MemoryLost
<1> QED BY <1>3, <1>4, <1>5, <1>6 DEF StackAndWorkspaces

LEMMA StackSystem ==
    ASSUME TypeOK, StackAndWorkspaces, Signal \/ ShutdownManager \/ Exit \/ Crash \/ Restart
    PROVE  StackAndWorkspaces'
<1>1. CASE Exit \/ Crash BY <1>1, StackMemoryLost DEF Exit, Crash
<1>2. CASE Signal \/ ShutdownManager
  BY <1>2 DEF Signal, ShutdownManager, ReadStatus, SaveCheckpoint, CleanupWorkspaces,
     StackAndWorkspaces, StackInv, KidsInv, Kid, KidsDistinct, FreshInv, NoLeakedWorkspace,
     Working, github, memory
<1>3. CASE Restart
  <2>1. NoLeakedWorkspace' BY <1>3 DEF Restart, NoLeakedWorkspace, LoadedWorkspace
  <2> QED BY <1>3, <2>1
    DEF Restart, StackAndWorkspaces, StackInv, KidsInv, Kid, KidsDistinct,
     FreshInv, Working, github
<1> QED BY <1>1, <1>2, <1>3

LEMMA StackHumanReady ==
    ASSUME TypeOK, StackAndWorkspaces, NEW i \in Issues, HumanReady(i)
    PROVE  StackAndWorkspaces'
<1>1. FreshInv'
  <2>1. \A j \in Issues : j > created => j # i
    BY IssueRange DEF HumanReady, TypeOK
  <2> QED BY <2>1 DEF StackAndWorkspaces, FreshInv, HumanReady, TypeOK, memory
<1> QED BY <1>1 DEF HumanReady, StackAndWorkspaces, StackInv, KidsInv, Kid, KidsDistinct,
     NoLeakedWorkspace, Working, memory

LEMMA StackInit == Init => StackAndWorkspaces
<1> SUFFICES ASSUME Init PROVE StackAndWorkspaces
  OBVIOUS
<1>1. \A j \in Issues : ~Working(j) /\ frame[j] = IdleFrame /\ Len(frame[j].kids) = 0
  BY IdleFields DEF Init, Working
<1>2. StackInv /\ KidsInv BY <1>1 DEF Init, StackInv, KidsInv, KidsDistinct, Kid
<1> QED BY <1>2 DEF Init, StackAndWorkspaces, FreshInv, NoLeakedWorkspace

LEMMA StackNext == TypeOK /\ StackAndWorkspaces /\ [Next]_vars => StackAndWorkspaces'
<1> SUFFICES ASSUME TypeOK, StackAndWorkspaces, [Next]_vars PROVE StackAndWorkspaces'
  OBVIOUS
<1>1. CASE Poll BY <1>1, StackPoll
<1>2. ASSUME NEW i \in Issues, Process(i) PROVE StackAndWorkspaces'
  <2>1. CASE HandleIssue(i) \/ CreateChild(i) \/ NextChild(i)
    BY <2>1, StackHandleIssue, StackCreateChild, StackNextChild
  <2>2. CASE Works(i) BY <2>2, WorksKeeps
  <2>3. CASE Ends(i) BY <2>3, EndsKeeps
  <2>4. HandleIssue(i) \/ CreateChild(i) \/ NextChild(i) \/ Works(i) \/ Ends(i)
    BY <1>2, ClaimShape, WorksUnready, ClaimCommentShape, WorksRecordClaim,
       EndsGracefulShutdown, WorksSetupWorkspace, WorksClone, WorksAnalyze, WorksLabelEpic,
       WorksRecordSplit, EndsChildrenDone, WorksStartImplement, WorksImplement,
       WorksCommitAndPush, WorksCreatePR, WorksRecordPR, WorksStartValidation,
       WorksValidatePR, WorksMergePR, WorksFinishLabels, EndsComplete, WorksFailIssue,
       EndsFailLabel
    DEF Process
  <2> QED BY <2>1, <2>2, <2>3, <2>4
<1>3. CASE Signal \/ ShutdownManager \/ Exit \/ Crash \/ Restart BY <1>3, StackSystem
<1>4. ASSUME NEW i \in Issues, HumanReady(i) PROVE StackAndWorkspaces'
  BY <1>4, StackHumanReady
<1>5. CASE UNCHANGED vars
  BY <1>5 DEF vars, StackAndWorkspaces, StackInv, KidsInv, Kid, KidsDistinct, FreshInv,
     NoLeakedWorkspace, Working
<1> QED BY <1>1, <1>2, <1>3, <1>4, <1>5 DEF Next, Agent

\* No workspace stays active in the manager's cache without a running
\* activation: the deferred UpdateWorkspaceState of processIssue covers every
\* return path, the error returns of nested child issues included.
THEOREM WorkspacesNeverLeak == Spec => []NoLeakedWorkspace
<1>1. StackAndWorkspaces => NoLeakedWorkspace BY DEF StackAndWorkspaces
<1> QED BY <1>1, StackInit, StackNext, TypeCorrect, PTL DEF Spec

\* The recursion processIssue -> processChildIssues -> processIssue never
\* processes an issue twice at once and always returns to its caller.
THEOREM CallStackCorrect == Spec => []CallStack
<1>1. TypeOK /\ StackAndWorkspaces => CallStack
  <2> SUFFICES ASSUME TypeOK, StackAndWorkspaces PROVE CallStack
    OBVIOUS
  <2>1. cur = NoIssue => \A i \in Issues : ~Working(i)
    BY IssueRange DEF StackAndWorkspaces, StackInv, NoIssue
  <2>2. ASSUME NEW i \in Issues, Working(i), NEW k \in 1..Len(frame[i].kids)
        PROVE  ~Working(frame[i].kids[k])
    BY <2>2, KidsType DEF StackAndWorkspaces, KidsInv, Kid
  <2> QED BY <2>1, <2>2 DEF CallStack, StackAndWorkspaces, StackInv
<1> QED BY <1>1, StackInit, StackNext, TypeCorrect, PTL DEF Spec

-----------------------------------------------------------------------------
(* The concurrency limit.                                                  *)
LEMMA IssuesFinite == IsFiniteSet(Issues)
BY WorkflowConstants, FS_Interval DEF Issues

LEMMA ActiveFinite ==
    ASSUME TypeOK
    PROVE  IsFiniteSet(ActiveWorkspaces) /\ Cardinality(ActiveWorkspaces) \in Nat
BY IssuesFinite, FS_Subset, FS_CardinalityType DEF ActiveWorkspaces

\* Only SetupWorkspace adds to the active workspaces.
LEMMA ActiveShrinks ==
    ASSUME TypeOK, [Next]_vars, \A i \in Issues : ~SetupWorkspace(i)
    PROVE  ActiveWorkspaces' \subseteq ActiveWorkspaces
<1> SUFFICES ASSUME NEW j \in Issues, wsp'[j] = "active" PROVE wsp[j] = "active"
  BY DEF ActiveWorkspaces
<1>1. CASE UNCHANGED wsp BY <1>1
<1>2. CASE Exit \/ Crash \/ Restart
  BY <1>2 DEF Exit, Crash, Restart, MemoryLost, LoadedWorkspace
<1>3. ASSUME NEW i \in Issues, Ends(i) PROVE wsp[j] = "active" BY <1>3 DEF Ends
<1>4. CASE Poll \/ Signal \/ ShutdownManager \/ UNCHANGED vars
  BY <1>1, <1>4 DEF Poll, Signal, ShutdownManager, ReadStatus, SaveCheckpoint,
     CleanupWorkspaces, memory, vars
<1>5. ASSUME NEW i \in Issues, HumanReady(i) PROVE UNCHANGED wsp
  BY <1>5 DEF HumanReady, memory
<1>6. ASSUME NEW i \in Issues, Process(i) PROVE UNCHANGED wsp \/ Ends(i)
  <2>1. CASE HandleIssue(i) \/ CreateChild(i) \/ NextChild(i)
    BY <2>1 DEF HandleIssue, CreateChild, NextChild
  <2>2. CASE Claim(i) \/ ClaimComment(i)
    <3>1. UNCHANGED wsp \/ \E f : Return(i, f) BY <2>2 DEF Claim, ClaimComment
    <3> QED BY <2>2, <3>1, ReturnEnds
      DEF Claim, ClaimComment, At, OnlyLabels, TypeOK, github
  <2>3. CASE GracefulShutdown(i) \/ ChildrenDone(i) \/ Complete(i) \/ FailLabel(i)
    BY <2>3, EndsGracefulShutdown, EndsChildrenDone, EndsComplete, EndsFailLabel
  <2>4. CASE Unready(i) \/ RecordClaim(i) \/ Clone(i) \/ Analyze(i) \/ LabelEpic(i) \/ RecordSplit(i)
    BY <2>4 DEF Unready, RecordClaim, Clone, Analyze, LabelEpic, RecordSplit
  <2>5. CASE StartImplement(i) \/ Implement(i) \/ CommitAndPush(i) \/ CreatePR(i) \/ RecordPR(i)
    BY <2>5 DEF StartImplement, Implement, CommitAndPush, CreatePR, RecordPR
  <2>6. CASE StartValidation(i) \/ ValidatePR(i) \/ MergePR(i) \/ FinishLabels(i) \/ FailIssue(i)
    BY <2>6 DEF StartValidation, ValidatePR, MergePR, FinishLabels, FailIssue
  <2> QED BY <1>6, <2>1, <2>2, <2>3, <2>4, <2>5, <2>6 DEF Process
<1> QED BY <1>1, <1>2, <1>3, <1>4, <1>5, <1>6 DEF Next, Agent

LEMMA ConcurrencyNext == TypeOK /\ ConcurrencyLimit /\ [Next]_vars => ConcurrencyLimit'
<1> SUFFICES ASSUME TypeOK, ConcurrencyLimit, [Next]_vars PROVE ConcurrencyLimit'
  OBVIOUS
<1>1. CASE ActiveWorkspaces' \subseteq ActiveWorkspaces
  <2>1. Cardinality(ActiveWorkspaces') <= Cardinality(ActiveWorkspaces)
    BY <1>1, ActiveFinite, FS_Subset
  <2>2. Cardinality(ActiveWorkspaces') \in Nat
    BY <1>1, ActiveFinite, FS_Subset, FS_CardinalityType
  <2> QED BY <2>1, <2>2, ActiveFinite, WorkflowConstants DEF ConcurrencyLimit
<1>2. ASSUME NEW i \in Issues, SetupWorkspace(i) PROVE ConcurrencyLimit'
  <2>1. CASE wsp' = wsp \/ wsp[i] = "active"
    <3>1. ActiveWorkspaces' \subseteq ActiveWorkspaces
      BY <1>2, <2>1 DEF SetupWorkspace, ActiveWorkspaces, TypeOK
    <3> QED BY <1>1, <3>1
  <2>2. CASE BelowLimit /\ wsp' = [wsp EXCEPT ![i] = "active"] /\ wsp[i] # "active"
    <3>1. ActiveWorkspaces' = ActiveWorkspaces \cup {i} /\ i \notin ActiveWorkspaces
      BY <2>2 DEF ActiveWorkspaces, TypeOK
    <3>2. Cardinality(ActiveWorkspaces') = Cardinality(ActiveWorkspaces) + 1
      BY <3>1, ActiveFinite, FS_AddElement
    <3> QED BY <2>2, <3>2, ActiveFinite, WorkflowConstants DEF ConcurrencyLimit, BelowLimit
  <2> QED BY <1>2, <2>1, <2>2 DEF SetupWorkspace
<1> QED BY <1>1, <1>2, ActiveShrinks

\* checkConcurrentLimit, evaluated by CreateWorkspace before it adds an
\* entry, bounds the active workspaces by max_concurrent for every nesting
\* of child issues.
THEOREM ConcurrencyLimited == Spec => []ConcurrencyLimit
<1>1. Init => ConcurrencyLimit
  <2> SUFFICES ASSUME Init PROVE ConcurrencyLimit
    OBVIOUS
  <2>1. ActiveWorkspaces = {} BY DEF Init, ActiveWorkspaces
  <2>2. Cardinality(ActiveWorkspaces) = 0 BY <2>1, FS_EmptySet
  <2> QED BY <2>2, WorkflowConstants DEF ConcurrencyLimit
<1> QED BY <1>1, ConcurrencyNext, TypeCorrect, PTL DEF Spec

-----------------------------------------------------------------------------
(* Merging.                                                                *)

\* The steps of processIssue before its merge.
PreMerge == Steps \ {"idle", "finish", "complete", "fail", "failLabel"}

NotMerged(i) == pr[i] # "merged"

\* The inductive invariant: an issue on its way to its merge, about to be
\* taken from the batch or from the pending children, is not merged yet.
MergeInv ==
    /\ \A i \in batch : NotMerged(i) /\ ~Working(i) /\ \A j \in Issues : ~Kid(j, i)
    /\ \A i, k \in Issues : Kid(i, k) => NotMerged(k)
    /\ \A i \in Issues : i > created => NotMerged(i)
    /\ \A i \in Issues : frame[i].pc \in PreMerge => NotMerged(i)
    /\ \A i \in Issues : frame[i].pc = "merge" => green[i]
    /\ MergedOnlyWhenGreen

\* The control part of a step that Works keeps: kids, working issues, others.
LEMMA WorksControl ==
    ASSUME TypeOK, NEW i \in Issues, Works(i)
    PROVE  /\ \A j \in Issues : Working(j)' <=> Working(j)
           /\ \A j, k \in Issues : Kid(j, k)' <=> Kid(j, k)
           /\ \A j \in Issues : j # i => frame'[j].pc = frame[j].pc
           /\ batch' = batch /\ created' = created
<1>1. \A j \in Issues : frame'[j].kids = frame[j].kids BY DEF Works, Stays, SameRest
<1> QED BY <1>1 DEF Works, Stays, SameRest, Kid, Working

LEMMA MergeWorks ==
    ASSUME TypeOK, MergeInv, NEW i \in Issues, Works(i), UNCHANGED <<pr, green>>,
           frame'[i].pc # "merge", frame'[i].pc \in PreMerge => frame[i].pc \in PreMerge
    PROVE  MergeInv'
<1>1. batch \subseteq Issues BY DEF TypeOK
<1> QED BY <1>1, WorksControl DEF MergeInv, NotMerged, MergedOnlyWhenGreen

LEMMA MergeEnds ==
    ASSUME TypeOK, MergeInv, NEW i \in Issues, Ends(i), UNCHANGED <<pr, green>>
    PROVE  MergeInv'
<1>1. batch \subseteq Issues BY DEF TypeOK
<1>2. frame'[i] = IdleFrame /\ SameRest(i) BY DEF Ends, Returns, SameRest, TypeOK
<1>3. /\ \A j \in Issues : Working(j)' => Working(j)
      /\ \A j, k \in Issues : Kid(j, k)' => Kid(j, k)
      /\ frame'[i].pc = "idle"
  BY <1>2, IdleFields DEF SameRest, Kid, Working
<1>4. \A j \in Issues : frame'[j].pc \in PreMerge \/ frame'[j].pc = "merge" => frame'[j] = frame[j]
  BY <1>2, <1>3 DEF SameRest, PreMerge
<1> QED BY <1>1, <1>3, <1>4 DEF MergeInv, NotMerged, MergedOnlyWhenGreen, Ends

\* The steps that change neither the pull requests nor the checks.
LEMMA MergeQuiet ==
    ASSUME TypeOK, MergeInv, NEW i \in Issues,
           \/ Claim(i) \/ Unready(i) \/ ClaimComment(i) \/ RecordClaim(i)
           \/ GracefulShutdown(i) \/ SetupWorkspace(i) \/ Clone(i) \/ Analyze(i)
           \/ LabelEpic(i) \/ RecordSplit(i) \/ ChildrenDone(i) \/ StartImplement(i)
           \/ Implement(i) \/ RecordPR(i) \/ StartValidation(i) \/ FinishLabels(i)
           \/ Complete(i) \/ FailIssue(i) \/ FailLabel(i)
    PROVE  MergeInv'
<1> USE DEF At, PreMerge, Steps
<1>1. ASSUME Works(i), UNCHANGED <<pr, green>>, frame[i].pc \in PreMerge, frame'[i].pc # "merge"
      PROVE  MergeInv'
  BY <1>1, MergeWorks
<1>2. CASE Claim(i) \/ ClaimComment(i)
  <2>1. UNCHANGED <<pr, green>> BY <1>2 DEF Claim, ClaimComment, github
  <2>2. Ends(i) \/ frame'[i].pc \in {"unready", "record"}
    BY <1>2, ClaimShape, ClaimCommentShape, ReturnEnds, GotoFields
    DEF Claim, ClaimComment, OnlyLabels, TypeOK, github
  <2> QED BY <1>1, <1>2, <2>1, <2>2, ClaimShape, ClaimCommentShape, MergeEnds
    DEF Claim, ClaimComment
<1>3. CASE GracefulShutdown(i) \/ ChildrenDone(i) \/ Complete(i) \/ FailLabel(i)
  BY <1>3, MergeEnds, EndsGracefulShutdown, EndsChildrenDone, EndsComplete, EndsFailLabel
  DEF GracefulShutdown, ChildrenDone, Complete, FailLabel, github
<1>4. CASE Unready(i)
  <2>1. frame'[i].pc = "claimComment" BY <1>4, GotoFields DEF Unready
  <2>2. UNCHANGED <<pr, green>> /\ frame[i].pc \in PreMerge BY <1>4 DEF Unready
  <2> QED BY <1>1, <1>4, <2>1, <2>2, WorksUnready
<1>5. CASE RecordClaim(i)
  BY <1>1, <1>5, WorksRecordClaim, AdvanceFields DEF RecordClaim, github
<1>6. CASE SetupWorkspace(i)
  <2>1. frame'[i].pc \in {"clone", "fail"}
    BY <1>6, GotoFields, FrameDomain DEF SetupWorkspace, TypeOK
  <2> QED BY <1>1, <1>6, <2>1, WorksSetupWorkspace DEF SetupWorkspace, github
<1>7. CASE Clone(i)
  BY <1>1, <1>7, WorksClone, GotoFields DEF Clone, github
<1>8. CASE Analyze(i)
  BY <1>1, <1>8, WorksAnalyze, GotoFields DEF Analyze, github
<1>9. CASE LabelEpic(i)
  <2>1. frame'[i].pc = "recordSplit" BY <1>9, GotoFields DEF LabelEpic
  <2>2. UNCHANGED <<pr, green>> /\ frame[i].pc \in PreMerge BY <1>9 DEF LabelEpic
  <2> QED BY <1>1, <1>9, <2>1, <2>2, WorksLabelEpic
<1>10. CASE RecordSplit(i)
  BY <1>1, <1>10, WorksRecordSplit, AdvanceFields DEF RecordSplit, github
<1>11. CASE StartImplement(i)
  <2>1. frame'[i].pc = "implement" BY <1>11, AdvanceFields DEF StartImplement
  <2>2. UNCHANGED <<pr, green>> /\ frame[i].pc \in PreMerge BY <1>11 DEF StartImplement
  <2> QED BY <1>1, <1>11, <2>1, <2>2, WorksStartImplement
<1>12. CASE Implement(i)
  BY <1>1, <1>12, WorksImplement, AdvanceFields, GotoFields DEF Implement, github
<1>13. CASE RecordPR(i)
  <2>1. frame'[i].pc = "startValidation" BY <1>13, FrameDomain DEF RecordPR, TypeOK
  <2> QED BY <1>1, <1>13, <2>1, WorksRecordPR DEF RecordPR, github
<1>14. CASE StartValidation(i)
  <2>1. frame'[i].pc = "validate" BY <1>14, FrameDomain DEF StartValidation, TypeOK
  <2> QED BY <1>1, <1>14, <2>1, WorksStartValidation DEF StartValidation, github
<1>15. CASE FinishLabels(i)
  <2>1. frame'[i].pc = "complete" BY <1>15, GotoFields DEF FinishLabels
  <2>2. UNCHANGED <<pr, green>> BY <1>15 DEF FinishLabels
  <2> QED BY <1>15, <2>1, <2>2, MergeWorks, WorksFinishLabels
<1>16. CASE FailIssue(i)
  BY <1>16, MergeWorks, WorksFailIssue, AdvanceFields DEF FailIssue, github
<1> QED BY <1>2, <1>3, <1>4, <1>5, <1>6, <1>7, <1>8, <1>9, <1>10, <1>11, <1>12, <1>13,
           <1>14, <1>15, <1>16

\* Steps inside processIssue(i) that change pr[i] or green[i].
LEMMA MergeChanges ==
    ASSUME TypeOK, StackAndWorkspaces, MergeInv, NEW i \in Issues, Works(i),
           \A j \in Issues : j # i => pr'[j] = pr[j] /\ green'[j] = green[j],
           \/ NotMerged(i)' /\ frame'[i].pc # "merge"
           \/ NotMerged(i)' /\ green'[i]
           \/ green'[i] /\ frame'[i].pc = "finish"
    PROVE  MergeInv'
<1> USE DEF NotMerged
<1>1. batch \subseteq Issues BY DEF TypeOK
<1>2. Working(i) /\ i <= created /\ \A j \in Issues : ~Kid(j, i)
  BY DEF StackAndWorkspaces, KidsInv, Works, Stays, Working
<1>3. (\A j \in batch : NotMerged(j) /\ ~Working(j) /\ \A k \in Issues : ~Kid(k, j))'
  BY <1>1, <1>2, WorksControl DEF MergeInv
<1>4. (\A j, k \in Issues : Kid(j, k) => NotMerged(k))'
  BY <1>2, WorksControl DEF MergeInv
<1>5. (\A j \in Issues : j > created => NotMerged(j))'
  BY <1>2, WorksControl, IssueRange DEF MergeInv, TypeOK
<1>6. (\A j \in Issues : frame[j].pc \in PreMerge => NotMerged(j))'
  BY WorksControl DEF MergeInv, PreMerge
<1>7. (\A j \in Issues : frame[j].pc = "merge" => green[j])'
  BY WorksControl DEF MergeInv
<1>8. MergedOnlyWhenGreen' BY DEF MergeInv, MergedOnlyWhenGreen
<1> QED BY <1>3, <1>4, <1>5, <1>6, <1>7, <1>8 DEF MergeInv

LEMMA MergeProcess ==
    ASSUME TypeOK, StackAndWorkspaces, MergeInv, NEW i \in Issues,
           CommitAndPush(i) \/ CreatePR(i) \/ ValidatePR(i) \/ MergePR(i)
    PROVE  MergeInv'
<1>1. CASE CommitAndPush(i)
  <2>1. frame'[i].pc \in {"createPR", "fail"}
    BY <1>1, GotoFields, AdvanceFields DEF CommitAndPush
  <2>2. NotMerged(i)' BY <1>1 DEF CommitAndPush, At, MergeInv, PreMerge, Steps, NotMerged
  <2>3. \A j \in Issues : j # i => pr'[j] = pr[j] /\ green'[j] = green[j]
    BY <1>1 DEF CommitAndPush, TypeOK
  <2> QED BY <1>1, <2>1, <2>2, <2>3, WorksCommitAndPush, MergeChanges
<1>2. CASE CreatePR(i)
  <2>1. frame'[i].pc \in {"recordPR", "fail"}
    BY <1>2, CreatePRReply, GotoFields DEF AfterCreatePR
  <2>2. NotMerged(i)'
    BY <1>2 DEF CreatePR, At, MergeInv, PreMerge, Steps, NotMerged, TypeOK
  <2>3. \A j \in Issues : j # i => pr'[j] = pr[j] /\ green'[j] = green[j]
    BY <1>2 DEF CreatePR, TypeOK
  <2> QED BY <1>2, <2>1, <2>2, <2>3, WorksCreatePR, MergeChanges
<1>3. CASE ValidatePR(i)
  <2>1. NotMerged(i)'
    BY <1>3 DEF ValidatePR, At, MergeInv, PreMerge, Steps, NotMerged
  <2>2. \A j \in Issues : j # i => pr'[j] = pr[j] /\ green'[j] = green[j]
    BY <1>3 DEF ValidatePR, TypeOK
  <2>3. \/ Goto(i, "fail")
        \/ Goto(i, "merge") /\ green' = [green EXCEPT ![i] = TRUE]
        \/ frame' = [frame EXCEPT ![i].attempt = @ + 1]
    BY <1>3 DEF ValidatePR, AfterLastRound
  <2>4. CASE frame' = [frame EXCEPT ![i].attempt = @ + 1]
    <3>1. frame'[i].pc = "validate" BY <1>3, <2>4, FrameDomain DEF ValidatePR, At, TypeOK
    <3> QED BY <1>3, <2>1, <2>2, <3>1, WorksValidatePR, MergeChanges
  <2>5. CASE Goto(i, "fail")
    BY <1>3, <2>1, <2>2, <2>5, GotoFields, WorksValidatePR, MergeChanges
  <2>6. CASE Goto(i, "merge") /\ green' = [green EXCEPT ![i] = TRUE]
    <3>1. green'[i] BY <2>6 DEF TypeOK
    <3> QED BY <1>3, <2>1, <2>2, <3>1, WorksValidatePR, MergeChanges
  <2> QED BY <2>3, <2>4, <2>5, <2>6
<1>4. CASE MergePR(i)
  <2>1. frame'[i].pc = "finish" BY <1>4, GotoFields DEF MergePR
  <2>2. green'[i] BY <1>4 DEF MergePR, At, MergeInv
  <2>3. \A j \in Issues : j # i => pr'[j] = pr[j] /\ green'[j] = green[j]
    BY <1>4 DEF MergePR, TypeOK
  <2> QED BY <1>4, <2>1, <2>2, <2>3, WorksMergePR, MergeChanges
<1> QED BY <1>1, <1>2, <1>3, <1>4

\* Nothing runs between two issues of a batch: no activation, no pending child.
LEMMA QuietBetweenIssues ==
    ASSUME TypeOK, StackAndWorkspaces, cur = NoIssue
    PROVE  \A j \in Issues : /\ ~Working(j) /\ frame[j] = IdleFrame
                             /\ \A k \in Issues : ~Kid(j, k)
<1>1. \A j \in Issues : ~(j <= NoIssue) BY IssueRange DEF NoIssue
<1>2. \A j \in Issues : ~Working(j) /\ frame[j] = IdleFrame
  BY <1>1 DEF StackAndWorkspaces, StackInv
<1> QED BY <1>2, IdleFields DEF Kid

LEMMA MergePoll == ASSUME TypeOK, StackAndWorkspaces, MergeInv, Poll PROVE MergeInv'
<1>1. \A j \in Issues : /\ ~Working(j) /\ \A k \in Issues : ~Kid(j, k)
  BY QuietBetweenIssues DEF Poll
<1>2. \A j \in batch' : j \in Issues /\ NotMerged(j) BY DEF Poll, NotMerged
<1> QED BY <1>1, <1>2 DEF MergeInv, NotMerged, MergedOnlyWhenGreen, Poll, Kid, Working

LEMMA MergeHandleIssue ==
    ASSUME TypeOK, StackAndWorkspaces, MergeInv, NEW i \in Issues, HandleIssue(i)
    PROVE  MergeInv'
<1>1. \A j \in Issues : frame[j] = IdleFrame BY QuietBetweenIssues DEF HandleIssue
<1>2. \A j \in Issues : frame'[j] = IF j = i THEN Entered(NoIssue) ELSE IdleFrame
  BY <1>1 DEF HandleIssue, TypeOK
<1>3. Entered(NoIssue).pc = "claim" /\ Entered(NoIssue).kids = <<>> BY EnteredFields
<1>4. /\ \A j, k \in Issues : ~Kid(j, k)'
      /\ \A j \in Issues : Working(j)' => j = i
  BY <1>2, <1>3, IdleFields DEF Kid, Working
<1>5. NotMerged(i) BY DEF MergeInv, HandleIssue
<1>6. \A j \in Issues : /\ frame'[j].pc \in PreMerge => j = i
                        /\ frame'[j].pc # "merge"
  BY <1>2, <1>3, IdleFields DEF PreMerge
<1>7. batch' \subseteq batch /\ i \notin batch' /\ batch \subseteq Issues
  BY DEF HandleIssue, TypeOK
<1> QED BY <1>4, <1>5, <1>6, <1>7
  DEF MergeInv, NotMerged, MergedOnlyWhenGreen, HandleIssue, github

LEMMA MergeCreateChild ==
    ASSUME TypeOK, StackAndWorkspaces, MergeInv, NEW i \in Issues, CreateChild(i)
    PROVE  MergeInv'
<1> USE DEF NotMerged
<1>13. created + 1 \in Issues /\ created \in Nat BY RoomForChild
<1>14. created' \in {created, created + 1} BY DEF CreateChild
<1>1. created + 1 \in Issues /\ created \in Nat /\ created' \in {created, created + 1}
  BY <1>13, <1>14
<1>2. NotMerged(created + 1) BY <1>1 DEF MergeInv
<1>3. created + 1 \notin batch BY <1>1 DEF StackAndWorkspaces, FreshInv
<1>4. frame' = [frame EXCEPT ![i].kids = Append(@, created + 1)] \/ Goto(i, "fail")
  BY DEF CreateChild, Goto
<1>5. SameRest(i) /\ frame'[i].pc \in {frame[i].pc, "fail"}
      /\ frame'[i].kids \in {frame[i].kids, Append(frame[i].kids, created + 1)}
  BY <1>4, FrameDomain DEF Goto, SameRest, TypeOK
<1>6. \A j \in Issues : Working(j)' <=> Working(j)
  BY <1>5 DEF SameRest, Working, CreateChild, At
<1>7. \A j, k \in Issues : Kid(j, k)' => Kid(j, k) \/ k = created + 1
  <2> TAKE j, k \in Issues
  <2>1. CASE frame'[j].kids = frame[j].kids BY <2>1 DEF Kid
  <2>2. CASE frame'[j].kids = Append(frame[j].kids, created + 1)
    BY <2>2, KidsType DEF Kid
  <2> QED BY <1>5, <2>1, <2>2 DEF SameRest
<1>8. \A j \in Issues : /\ frame'[j].pc \in PreMerge => frame[j].pc \in PreMerge
                        /\ frame'[j].pc = "merge" => frame[j].pc = "merge"
  BY <1>5 DEF SameRest, PreMerge
<1>9. batch \subseteq Issues /\ UNCHANGED <<pr, green, batch>> BY DEF TypeOK, CreateChild
<1>10. (\A j \in batch : NotMerged(j) /\ ~Working(j) /\ \A k \in Issues : ~Kid(k, j))'
  BY <1>3, <1>6, <1>7, <1>9 DEF MergeInv
<1>11. (\A j, k \in Issues : Kid(j, k) => NotMerged(k))'
  BY <1>2, <1>7, <1>9 DEF MergeInv
<1>12. (\A j \in Issues : j > created => NotMerged(j))'
  BY <1>1, <1>9, IssueRange DEF MergeInv
<1> QED BY <1>8, <1>9, <1>10, <1>11, <1>12 DEF MergeInv, MergedOnlyWhenGreen

LEMMA MergeNextChild ==
    ASSUME TypeOK, StackAndWorkspaces, MergeInv, NEW i \in Issues, NextChild(i)
    PROVE  MergeInv'
<1> USE DEF NotMerged
<1> DEFINE c == Head(frame[i].kids)
<1>1. Popped(i) \in [Issues -> Frame] /\ c \in Issues BY PoppedType DEF NextChild
<1>2. /\ \A j \in Issues : j # i => Popped(i)[j] = frame[j]
      /\ Popped(i)[i].pc = frame[i].pc /\ Popped(i)[i].kids = Tail(frame[i].kids)
  BY FrameDomain DEF Popped, TypeOK
<1>3. Kid(i, c) BY KidsType DEF Kid, NextChild
<1>4. \A j, k \in Issues :
        (\E n \in 1..Len(Popped(i)[j].kids) : Popped(i)[j].kids[n] = k) => Kid(j, k)
  <2> TAKE j, k \in Issues
  <2>1. CASE j # i BY <1>2, <2>1 DEF Kid
  <2>2. CASE j = i
    <3>1. frame[i].kids \in Seq(Issues) /\ frame[i].kids # <<>> BY KidsType DEF NextChild
    <3>2. /\ Len(Tail(frame[i].kids)) = Len(frame[i].kids) - 1 /\ Len(frame[i].kids) \in Nat
          /\ \A n \in 1..(Len(frame[i].kids) - 1) : Tail(frame[i].kids)[n] = frame[i].kids[n + 1]
      BY <3>1
    <3>3. ASSUME NEW n \in 1..(Len(frame[i].kids) - 1), Tail(frame[i].kids)[n] = k
          PROVE  Kid(i, k)
      <4>1. n + 1 \in 1..Len(frame[i].kids) BY <3>2
      <4> QED BY <3>2, <3>3, <4>1 DEF Kid
    <3> QED BY <1>2, <2>2, <3>2, <3>3
  <2> QED BY <2>1, <2>2
<1>5. \A j \in Issues : frame'[j] = Popped(i)[j] \/ (j = c /\ frame'[j] = Entered(i))
  BY <1>1 DEF NextChild
<1>6. Entered(i).pc = "claim" /\ Entered(i).kids = <<>> BY EnteredFields
<1>7. \A j, k \in Issues : Kid(j, k)' => Kid(j, k)
  BY <1>4, <1>5, <1>6 DEF Kid
<1>8. \A j \in Issues : frame'[j].pc = frame[j].pc \/ (j = c /\ frame'[j].pc = "claim")
  BY <1>2, <1>5, <1>6
<1>9. NotMerged(c) /\ c \notin batch BY <1>1, <1>3 DEF MergeInv
<1>10. batch \subseteq Issues /\ UNCHANGED <<pr, green, batch, created>>
  BY DEF TypeOK, NextChild, github
<1>11. (\A j \in batch : NotMerged(j) /\ ~Working(j) /\ \A k \in Issues : ~Kid(k, j))'
  BY <1>7, <1>8, <1>9, <1>10 DEF MergeInv, Working
<1> QED BY <1>7, <1>8, <1>9, <1>10, <1>11 DEF MergeInv, MergedOnlyWhenGreen

LEMMA MergeSystem ==
    ASSUME TypeOK, StackAndWorkspaces, MergeInv,
           \/ Signal \/ ShutdownManager \/ Exit \/ Crash \/ Restart
           \/ \E i \in Issues : HumanReady(i)
           \/ UNCHANGED vars
    PROVE  MergeInv'
<1> USE DEF MergeInv, NotMerged, MergedOnlyWhenGreen, Kid, Working
<1>1. CASE Signal \/ ShutdownManager
  BY <1>1 DEF Signal, ShutdownManager, ReadStatus, SaveCheckpoint, CleanupWorkspaces,
              github, memory
<1>2. CASE Exit \/ Crash
  <2>1. \A j \in Issues : frame'[j] = IdleFrame BY <1>2 DEF Exit, Crash, MemoryLost
  <2>2. \A j \in Issues : frame'[j].pc = "idle" /\ Len(frame'[j].kids) = 0
    BY <2>1, IdleFields
  <2>3. batch' = {} /\ UNCHANGED github BY <1>2 DEF Exit, Crash, MemoryLost
  <2> QED BY <2>2, <2>3 DEF PreMerge, github
<1>3. CASE Restart BY <1>3 DEF Restart, github
<1>4. ASSUME NEW i \in Issues, HumanReady(i) PROVE MergeInv'
  BY <1>4 DEF HumanReady, memory
<1>5. CASE UNCHANGED vars BY <1>5 DEF vars
<1> QED BY <1>1, <1>2, <1>3, <1>4, <1>5

LEMMA MergeNext == TypeOK /\ StackAndWorkspaces /\ MergeInv /\ [Next]_vars => MergeInv'
<1> SUFFICES ASSUME TypeOK, StackAndWorkspaces, MergeInv, [Next]_vars PROVE MergeInv'
  OBVIOUS
<1>1. ASSUME NEW i \in Issues, Process(i) PROVE MergeInv'
  BY <1>1, MergeHandleIssue, MergeCreateChild, MergeNextChild, MergeProcess, MergeQuiet
  DEF Process
<1> QED BY <1>1, MergePoll, MergeSystem DEF Next, Agent

LEMMA MergeInit == Init => MergeInv
<1> SUFFICES ASSUME Init PROVE MergeInv
  OBVIOUS
<1>1. \A j \in Issues : frame[j].pc = "idle" /\ Len(frame[j].kids) = 0
  BY IdleFields DEF Init
<1> QED BY <1>1 DEF Init, MergeInv, NotMerged, MergedOnlyWhenGreen, Kid, PreMerge

\* Whatever fails or crashes, a pull request is merged only after a
\* validation of its last push succeeded.
THEOREM MergesAreGreen == Spec => []MergedOnlyWhenGreen
<1>1. MergeInv => MergedOnlyWhenGreen BY DEF MergeInv
<1> QED BY <1>1, MergeInit, MergeNext, StackInit, StackNext, TypeCorrect, PTL DEF Spec

-----------------------------------------------------------------------------
(* The record.  Without a signal the agent is its only writer; its writes  *)
(* are taken to succeed here, the other calls are not.                     *)

\* The process is not being shut down.
Undisturbed == proc # "stopping" /\ sm.step = "off"

LEMMA UndisturbedStep ==
    ASSUME MaxSignals = 0, TypeOK, Undisturbed, [Next]_vars
    PROVE  Undisturbed'
<1> USE DEF Undisturbed
<1>1. signals = 0 BY WorkflowConstants DEF TypeOK
<1>2. CASE Agent
  <2>1. CASE Poll BY <2>1 DEF Poll
  <2>2. ASSUME NEW i \in Issues, Process(i) PROVE UNCHANGED <<proc, sm>>
    <3>1. CASE HandleIssue(i) BY <3>1 DEF HandleIssue
    <3>2. CASE Claim(i) \/ Unready(i) \/ ClaimComment(i) \/ RecordClaim(i)
        BY <3>2 DEF Claim, Unready, ClaimComment, RecordClaim
    <3>3. CASE GracefulShutdown(i) BY <3>3 DEF GracefulShutdown
    <3>4. CASE SetupWorkspace(i) \/ Clone(i) \/ Analyze(i)
        BY <3>4 DEF SetupWorkspace, Clone, Analyze
    <3>5. CASE CreateChild(i) \/ LabelEpic(i) \/ RecordSplit(i)
        BY <3>5 DEF CreateChild, LabelEpic, RecordSplit
    <3>6. CASE NextChild(i) \/ ChildrenDone(i) BY <3>6 DEF NextChild, ChildrenDone
    <3>7. CASE StartImplement(i) \/ Implement(i) \/ CommitAndPush(i)
        BY <3>7 DEF StartImplement, Implement, CommitAndPush
    <3>8. CASE CreatePR(i) \/ RecordPR(i) \/ StartValidation(i)
        BY <3>8 DEF CreatePR, RecordPR, StartValidation
    <3>9. CASE ValidatePR(i) \/ MergePR(i) \/ FinishLabels(i) \/ Complete(i)
        BY <3>9 DEF ValidatePR, MergePR, FinishLabels, Complete
    <3>10. CASE FailIssue(i) \/ FailLabel(i) BY <3>10 DEF FailIssue, FailLabel
    <3> QED BY <2>2, <3>1, <3>2, <3>3, <3>4, <3>5, <3>6, <3>7, <3>8, <3>9, <3>10 DEF Process
  <2> QED BY <1>2, <2>1, <2>2 DEF Agent
<1>3. CASE Signal BY <1>1, <1>3 DEF Signal
<1>4. CASE ShutdownManager
  BY <1>4 DEF ShutdownManager, ReadStatus, SaveCheckpoint, CleanupWorkspaces
<1>5. CASE Exit \/ Crash BY <1>5 DEF Exit, Crash, MemoryLost, SMOff
<1>6. CASE Restart BY <1>6 DEF Restart
<1>7. ASSUME NEW i \in Issues, HumanReady(i) PROVE Undisturbed' BY <1>7 DEF HumanReady
<1>8. CASE UNCHANGED vars BY <1>8 DEF vars
<1> QED BY <1>2, <1>3, <1>4, <1>5, <1>6, <1>7, <1>8 DEF Next

\* The steps of processIssue between its first write of the record and its return.
Recording == {"setup", "clone", "analyze", "split", "startImplement", "implement", "resplit",
              "recordSplit", "commit", "createPR", "recordPR", "startValidation", "validate",
              "merge", "finish", "complete", "fail", "failLabel"}

\* What ws.State is at each of these steps.
AtStage(step, s) ==
    /\ step = "setup" => s = "claim"
    /\ step \in {"clone", "analyze", "split", "startImplement"} => s = "workspace"
    /\ step \in {"implement", "resplit"} => s = "implement"
    /\ step = "recordSplit" => s \in {"workspace", "implement"}
    /\ step = "commit" => s = "commit"
    /\ step \in {"createPR", "recordPR"} => s = "pr"
    /\ step = "startValidation" => s = "review"
    /\ step \in {"validate", "merge", "finish", "complete"} => s = "validation"
    /\ step = "fail" => s \notin {"complete", "failed", "decompose"}
    /\ step = "failLabel" => s = "failed"

\* The record is the running issue's and holds ws.State.
Recorded(i) ==
    frame[i].pc \in Recording =>
        store.issue = i /\ store.state = frame[i].ws /\ AtStage(frame[i].pc, frame[i].ws)

\* The inductive invariant.
RecordInv == \A i \in Issues : Recorded(i)

\* What RecordAdvances says of a step.
RecordMoves ==
    (/\ "corrupt" \notin {store.state, store'.state}
     /\ store'.issue = store.issue /\ store'.state # "claim")
    => Rank[store'.state] >= Rank[store.state]

LEMMA Ranks ==
    /\ Rank["idle"] = 0 /\ Rank["claim"] = 1 /\ Rank["workspace"] = 2 /\ Rank["analyze"] = 3
    /\ Rank["implement"] = 4 /\ Rank["commit"] = 5 /\ Rank["pr"] = 6 /\ Rank["review"] = 7
    /\ Rank["validation"] = 8 /\ Rank["complete"] = 9 /\ Rank["decompose"] = 9
    /\ Rank["failed"] = 9
BY DEF Rank

LEMMA RecordSame == ASSUME TypeOK, store' = store PROVE RecordMoves
<1>1. store.state \in WorkflowStates \cup {"corrupt"} BY DEF TypeOK, Record
<1>2. \A s \in WorkflowStates : Rank[s] \in Int BY Ranks DEF WorkflowStates
<1>3. store.state # "corrupt" => Rank[store.state] >= Rank[store.state] BY <1>1, <1>2
<1> QED BY <1>3 DEF RecordMoves

\* A write that succeeds.
LEMMA SavedFields ==
    ASSUME ~SaveFaults, NEW i, NEW s, Save(i, s) PROVE store'.issue = i /\ store'.state = s
BY DEF Save, Written

\* Only the activation on top of the stack is past its first write.
LEMMA RecordRest ==
    ASSUME TypeOK, StackInv, NEW i \in Issues, cur = i, Recorded(i)',
           \A j \in Issues : j # i => frame'[j].pc = frame[j].pc \/ frame'[j].pc = "claim"
    PROVE  RecordInv'
<1>1. ASSUME NEW j \in Issues, j # i PROVE frame'[j].pc \notin Recording
  <2>1. frame[j].pc \in {"idle", "children"} BY <1>1 DEF StackInv, Working
  <2> QED BY <1>1, <2>1 DEF Recording
<1> QED BY <1>1 DEF RecordInv, Recorded

\* Steps that do not write the record.
LEMMA RecordGoto ==
    ASSUME TypeOK, StackInv, RecordInv, NEW i \in Issues, cur = i, NEW s, Goto(i, s),
           store' = store, s \in Recording => frame[i].pc \in Recording /\ AtStage(s, frame[i].ws)
    PROVE  RecordInv' /\ RecordMoves
<1>1. /\ frame'[i].pc = s /\ frame'[i].ws = frame[i].ws
      /\ \A j \in Issues : j # i => frame'[j].pc = frame[j].pc
  BY GotoFields
<1>2. Recorded(i)' BY <1>1 DEF Recorded, RecordInv
<1> QED BY <1>1, <1>2, RecordRest, RecordSame

\* Steps that advance ws.State and write it.
LEMMA RecordWritten ==
    ASSUME ~SaveFaults, TypeOK, StackInv, RecordInv, NEW i \in Issues, cur = i, NEW w, Save(i, w),
           frame'[i].ws = w, SameRest(i), AtStage(frame'[i].pc, w),
           w = "claim" \/ (frame[i].pc \in Recording /\ Rank[w] >= Rank[frame[i].ws])
    PROVE  RecordInv' /\ RecordMoves
<1>1. store'.issue = i /\ store'.state = w BY SavedFields
<1>2. Recorded(i)' BY <1>1 DEF Recorded
<1>3. RecordInv' BY <1>2, RecordRest DEF SameRest
<1>4. RecordMoves BY <1>1 DEF RecordMoves, RecordInv, Recorded
<1> QED BY <1>3, <1>4

LEMMA RecordReturns ==
    ASSUME TypeOK, StackInv, NEW i \in Issues, Ends(i)
    PROVE  RecordInv'
<1>1. cur = i /\ frame' = [frame EXCEPT ![i] = IdleFrame] BY DEF Ends, Returns
<1>2. frame'[i].pc = "idle" /\ \A j \in Issues : j # i => frame'[j].pc = frame[j].pc
  BY <1>1, IdleFields DEF TypeOK
<1>3. Recorded(i)' BY <1>2 DEF Recorded, Recording
<1> QED BY <1>1, <1>2, <1>3, RecordRest

\* One step of processIssue that stays inside it.
LEMMA RecordWorks ==
    ASSUME ~SaveFaults, TypeOK, StackInv, RecordInv, Undisturbed, NEW i \in Issues, cur = i,
           \/ RecordClaim(i) \/ SetupWorkspace(i) \/ Clone(i) \/ Analyze(i)
           \/ LabelEpic(i) \/ RecordSplit(i) \/ StartImplement(i) \/ Implement(i)
           \/ CommitAndPush(i) \/ CreatePR(i) \/ RecordPR(i) \/ StartValidation(i)
           \/ ValidatePR(i) \/ MergePR(i) \/ FinishLabels(i) \/ FailIssue(i)
    PROVE  RecordInv' /\ RecordMoves
<1> USE DEF At
<1>1. frame[i].pc \in Recording =>
        /\ AtStage(frame[i].pc, frame[i].ws) /\ frame[i].ws \in WorkflowStates
        /\ frame[i].pc # "failLabel" => AtStage("fail", frame[i].ws)
  <2>1. frame[i].pc \in Recording => AtStage(frame[i].pc, frame[i].ws)
    BY DEF RecordInv, Recorded
  <2>2. frame[i].ws \in WorkflowStates BY FrameDomain DEF Frame
  <2> QED BY <2>1, <2>2 DEF AtStage, Recording
<1>2. ASSUME NEW s, Goto(i, s), store' = store, frame[i].pc \in Recording,
             AtStage(s, frame[i].ws)
      PROVE  RecordInv' /\ RecordMoves
  BY <1>2, RecordGoto
<1>3. ASSUME NEW w, NEW s, Advance(i, w, s), Save(i, w), AtStage(s, w),
             w = "claim" \/ (frame[i].pc \in Recording /\ Rank[w] >= Rank[frame[i].ws])
      PROVE  RecordInv' /\ RecordMoves
  <2>1. /\ frame'[i].pc = s /\ frame'[i].ws = w /\ SameRest(i)
    <3>1. SameRest(i) BY <1>3 DEF Advance, SameRest, TypeOK
    <3> QED BY <1>3, <3>1, AdvanceFields
  <2> QED BY <1>3, <2>1, RecordWritten
<1>4. CASE RecordClaim(i)
  BY <1>3, <1>4 DEF RecordClaim, AtStage
<1>5. CASE SetupWorkspace(i)
  <2>1. frame[i].pc = "setup" /\ frame[i].ws = "claim"
    BY <1>1, <1>5 DEF SetupWorkspace, Recording, AtStage
  <2>2. CASE Goto(i, "fail") /\ store' = store
    BY <1>1, <1>2, <2>1, <2>2 DEF Recording
  <2>3. CASE /\ frame' = [frame EXCEPT ![i].pc = "clone", ![i].ws = "workspace", ![i].made = TRUE]
             /\ Save(i, "workspace")
    <3>1. frame'[i].pc = "clone" /\ frame'[i].ws = "workspace" /\ SameRest(i)
      BY <2>3, FrameDomain DEF TypeOK, SameRest
    <3>2. AtStage("clone", "workspace") BY DEF AtStage
    <3>3. frame[i].pc \in Recording /\ Rank["workspace"] >= Rank[frame[i].ws]
      BY <2>1, Ranks DEF Recording
    <3> QED BY <2>3, <3>1, <3>2, <3>3, RecordWritten
  <2> QED BY <1>5, <2>2, <2>3 DEF SetupWorkspace
<1>6. CASE Clone(i)
  <2>1. frame[i].pc = "clone" /\ frame[i].ws = "workspace"
    BY <1>1, <1>6 DEF Clone, Recording, AtStage
  <2>2. CASE Goto(i, "fail") /\ store' = store
    BY <1>1, <1>2, <2>1, <2>2 DEF Recording
  <2>3. CASE Goto(i, "analyze") /\ Save(i, "workspace")
    <3>1. frame'[i].pc = "analyze" /\ frame'[i].ws = "workspace" BY <2>1, <2>3, GotoFields
    <3>2. SameRest(i) BY <2>3 DEF Goto, SameRest, TypeOK
    <3> QED BY <2>1, <2>3, <3>1, <3>2, Ranks, RecordWritten DEF Recording, AtStage
  <2> QED BY <1>6, <2>2, <2>3 DEF Clone
<1>7. CASE Analyze(i)
  BY <1>1, <1>2, <1>7 DEF Analyze, Recording, AtStage
<1>8. CASE LabelEpic(i)
  BY <1>1, <1>2, <1>8 DEF LabelEpic, Recording, AtStage
<1>9. CASE RecordSplit(i)
  <2>1. frame[i].pc = "recordSplit" /\ frame[i].ws \in {"workspace", "implement"}
    BY <1>1, <1>9 DEF RecordSplit, Recording, AtStage
  <2>2. Save(i, "decompose") /\ frame'[i].pc = "children" /\ frame'[i].ws = "decompose"
    BY <1>9, AdvanceFields DEF RecordSplit
  <2>3. AtStage("children", "decompose") BY DEF AtStage
  <2>4. SameRest(i) BY <1>9 DEF RecordSplit, Advance, SameRest, TypeOK
  <2>5. Rank["decompose"] >= Rank[frame[i].ws] BY <2>1, Ranks
  <2> QED BY <2>1, <2>2, <2>3, <2>4, <2>5, RecordWritten DEF Recording
<1>10. CASE StartImplement(i)
  <2>1. frame[i].pc = "startImplement" /\ frame[i].ws = "workspace"
    BY <1>1, <1>10 DEF StartImplement, Recording, AtStage
  <2>2. Advance(i, "implement", "implement") /\ Save(i, "implement") BY <1>10 DEF StartImplement
  <2> QED BY <1>3, <2>1, <2>2, Ranks DEF Recording, AtStage
<1>11. CASE Implement(i)
  <2>1. frame[i].pc = "implement" /\ frame[i].ws = "implement"
    BY <1>1, <1>11 DEF Implement, Recording, AtStage
  <2>2. CASE Advance(i, "commit", "commit") /\ Save(i, "commit")
    BY <1>3, <2>1, <2>2, Ranks DEF Recording, AtStage
  <2>3. CASE (Goto(i, "resplit") \/ Goto(i, "fail")) /\ store' = store
    BY <1>1, <1>2, <2>1, <2>3 DEF Recording, AtStage
  <2> QED BY <1>11, <2>2, <2>3 DEF Implement
<1>12. CASE CommitAndPush(i)
  <2>1. frame[i].pc = "commit" /\ frame[i].ws = "commit"
    BY <1>1, <1>12 DEF CommitAndPush, Recording, AtStage
  <2>2. CASE Advance(i, "pr", "createPR") /\ Save(i, "pr")
    BY <1>3, <2>1, <2>2, Ranks DEF Recording, AtStage
  <2>3. CASE Goto(i, "fail") /\ store' = store
    BY <1>1, <1>2, <2>1, <2>3 DEF Recording
  <2> QED BY <1>12, <2>2, <2>3 DEF CommitAndPush
<1>13. CASE CreatePR(i)
  <2>1. frame[i].pc = "createPR" /\ frame[i].ws = "pr" /\ store' = store
    BY <1>1, <1>13 DEF CreatePR, Recording, AtStage
  <2>2. Goto(i, "recordPR") \/ Goto(i, "fail") BY <1>13, CreatePRReply DEF AfterCreatePR
  <2> QED BY <1>1, <1>2, <2>1, <2>2 DEF Recording, AtStage
<1>14. CASE RecordPR(i)
  <2>1. frame[i].pc = "recordPR" /\ frame[i].ws = "pr"
    BY <1>1, <1>14 DEF RecordPR, Recording, AtStage
  <2>2. /\ frame'[i].pc = "startValidation" /\ frame'[i].ws = "review" /\ SameRest(i)
    BY <1>14, FrameDomain DEF RecordPR, TypeOK, SameRest
  <2>3. store'.issue = i /\ store'.state = "review" BY <1>14 DEF RecordPR, Written
  <2>4. Recorded(i)' BY <2>2, <2>3 DEF Recorded, AtStage
  <2>5. store.state = "pr" BY <2>1 DEF RecordInv, Recorded, Recording
  <2> QED BY <2>2, <2>3, <2>4, <2>5, Ranks, RecordRest DEF RecordMoves, SameRest
<1>15. CASE StartValidation(i)
  <2>1. frame[i].pc = "startValidation" /\ frame[i].ws = "review"
    BY <1>1, <1>15 DEF StartValidation, Recording, AtStage
  <2>2. /\ frame'[i].pc = "validate" /\ frame'[i].ws = "validation" /\ SameRest(i)
    BY <1>15, FrameDomain DEF StartValidation, TypeOK, SameRest
  <2>3. Save(i, "validation") BY <1>15 DEF StartValidation
  <2> QED BY <2>1, <2>2, <2>3, Ranks, RecordWritten DEF Recording, AtStage
<1>16. CASE ValidatePR(i)
  <2>1. frame[i].pc = "validate" /\ frame[i].ws = "validation" /\ store' = store
    BY <1>1, <1>16 DEF ValidatePR, Recording, AtStage
  <2>2. \/ Goto(i, "fail") \/ Goto(i, "merge")
        \/ frame' = [frame EXCEPT ![i].attempt = @ + 1]
    BY <1>16 DEF ValidatePR, AfterLastRound
  <2>3. CASE frame' = [frame EXCEPT ![i].attempt = @ + 1]
    <3>1. frame'[i].pc = "validate" /\ frame'[i].ws = "validation" /\ SameRest(i)
      BY <2>1, <2>3, FrameDomain DEF TypeOK, SameRest
    <3>2. Recorded(i)' BY <2>1, <3>1 DEF RecordInv, Recorded, Recording
    <3> QED BY <2>1, <3>1, <3>2, RecordRest, RecordSame DEF SameRest
  <2> QED BY <1>1, <1>2, <2>1, <2>2, <2>3 DEF Recording, AtStage
<1>17. CASE MergePR(i) \/ FinishLabels(i)
  BY <1>1, <1>2, <1>17 DEF MergePR, FinishLabels, Recording, AtStage
<1>18. CASE FailIssue(i)
  <2>1. frame[i].pc = "fail" /\ frame[i].ws \in WorkflowStates BY <1>1, <1>18 DEF FailIssue, Recording
  <2>2. Advance(i, "failed", "failLabel") /\ Save(i, "failed") BY <1>18 DEF FailIssue
  <2>3. Rank["failed"] >= Rank[frame[i].ws] BY <2>1, Ranks DEF WorkflowStates
  <2>4. AtStage("failLabel", "failed") BY DEF AtStage
  <2> QED BY <1>3, <2>1, <2>2, <2>3, <2>4 DEF Recording
<1> QED BY <1>4, <1>5, <1>6, <1>7, <1>8, <1>9, <1>10, <1>11, <1>12, <1>13, <1>14, <1>15,
           <1>16, <1>17, <1>18

\* The claim, the sub-tasks and the return.
LEMMA RecordProcess ==
    ASSUME ~SaveFaults, TypeOK, StackAndWorkspaces, RecordInv, Undisturbed,
           NEW i \in Issues, Process(i)
    PROVE  RecordInv' /\ RecordMoves
<1> USE DEF At
<1>1. StackInv BY DEF StackAndWorkspaces
<1>2. CASE HandleIssue(i)
  <2>1. \A j \in Issues : frame[j] = IdleFrame BY <1>2, QuietBetweenIssues DEF HandleIssue
  <2>2. \A j \in Issues : frame'[j] = IF j = i THEN Entered(NoIssue) ELSE IdleFrame
    BY <1>2, <2>1 DEF HandleIssue, TypeOK
  <2>6. Entered(NoIssue).pc = "claim" BY EnteredFields
  <2>3. \A j \in Issues : frame'[j].pc \in {"claim", "idle"} BY <2>2, <2>6, IdleFields
  <2>4. store' = store BY <1>2 DEF HandleIssue
  <2>5. RecordInv' BY <2>3 DEF RecordInv, Recorded, Recording
  <2> QED BY <2>4, <2>5, RecordSame
<1>3. CASE Claim(i) \/ Unready(i) \/ ClaimComment(i)
  <2>1. cur = i /\ store' = store BY <1>3 DEF Claim, Unready, ClaimComment
  <2>2. CASE \E s \in {"unready", "claimComment", "record"} : Goto(i, s)
    BY <1>1, <2>1, <2>2, RecordGoto DEF Recording
  <2>3. CASE Return(i, "idle")
    <3>1. Returns(i) BY <1>3, <2>3 DEF Claim, Unready, ClaimComment, Returns, Return
    <3>2. frame'[i].pc = "idle" /\ \A j \in Issues : j # i => frame'[j].pc = frame[j].pc
      BY <3>1, IdleFields DEF Returns, TypeOK
    <3>3. Recorded(i)' BY <3>2 DEF Recorded, Recording
    <3> QED BY <1>1, <2>1, <3>2, <3>3, RecordRest, RecordSame
  <2> QED BY <1>3, <2>2, <2>3 DEF Claim, Unready, ClaimComment
<1>4. CASE GracefulShutdown(i) BY <1>4 DEF GracefulShutdown, Cancelled, Undisturbed
<1>5. CASE CreateChild(i)
  <2>1. cur = i /\ frame[i].pc \in {"split", "resplit"} /\ store' = store
    BY <1>5 DEF CreateChild
  <2>2. AtStage(frame[i].pc, frame[i].ws) BY <2>1 DEF RecordInv, Recorded, Recording
  <2>3. CASE Goto(i, "fail")
    <3>1. AtStage("fail", frame[i].ws) /\ frame[i].pc \in Recording
      BY <2>1, <2>2 DEF AtStage, Recording
    <3> QED BY <1>1, <2>1, <2>3, <3>1, RecordGoto
  <2>4. CASE frame' = [frame EXCEPT ![i].kids = Append(@, created + 1)]
    <3>1. frame'[i].pc = frame[i].pc /\ frame'[i].ws = frame[i].ws /\ SameRest(i)
      BY <2>4, FrameDomain DEF TypeOK, SameRest
    <3>2. Recorded(i)' BY <2>1, <3>1 DEF RecordInv, Recorded
    <3> QED BY <1>1, <2>1, <3>1, <3>2, RecordRest, RecordSame DEF SameRest
  <2> QED BY <1>5, <2>3, <2>4 DEF CreateChild, Goto
<1>6. CASE NextChild(i)
  <2>1. cur = i /\ frame[i].pc = "children" /\ store' = store /\ frame[i].kids # <<>>
    BY <1>6 DEF NextChild
  <2> DEFINE c == Head(frame[i].kids)
  <2>2. Popped(i) \in [Issues -> Frame] /\ c \in Issues BY <2>1, PoppedType
  <2>3. \A j \in Issues : Popped(i)[j].pc = frame[j].pc BY FrameDomain DEF Popped, TypeOK
  <2>4. \A j \in Issues : frame'[j] = Popped(i)[j] \/ frame'[j] = Entered(i)
    BY <1>6, <2>2 DEF NextChild
  <2>7. Entered(i).pc = "claim" BY EnteredFields
  <2>5. \A j \in Issues : frame'[j].pc = frame[j].pc \/ frame'[j].pc = "claim"
    BY <2>3, <2>4, <2>7
  <2>6. Recorded(i)' BY <2>1, <2>5 DEF Recorded, Recording
  <2> QED BY <1>1, <2>1, <2>5, <2>6, RecordRest, RecordSame
<1>7. CASE ChildrenDone(i) \/ FailLabel(i)
  <2>1. store' = store BY <1>7 DEF ChildrenDone, FailLabel
  <2> QED BY <1>1, <1>7, <2>1, RecordSame, RecordReturns, EndsChildrenDone, EndsFailLabel
<1>8. CASE Complete(i)
  <2>1. store.state = "validation"
    <3>1. frame[i].pc = "complete" /\ frame[i].pc \in Recording BY <1>8 DEF Complete, Recording
    <3>2. store.state = frame[i].ws /\ AtStage("complete", frame[i].ws)
      BY <3>1 DEF RecordInv, Recorded
    <3> QED BY <3>2 DEF AtStage
  <2>2. store'.state = "complete" BY <1>8, SavedFields DEF Complete
  <2>3. RecordMoves BY <2>1, <2>2, Ranks DEF RecordMoves
  <2> QED BY <1>1, <1>8, <2>3, RecordReturns, EndsComplete
<1>9. Process(i) /\ ~HandleIssue(i) => cur = i
  BY DEF Process, Claim, Unready, ClaimComment, RecordClaim,
     GracefulShutdown, SetupWorkspace, Clone, Analyze, CreateChild, LabelEpic, RecordSplit,
     NextChild, ChildrenDone, StartImplement, Implement, CommitAndPush, CreatePR, RecordPR,
     StartValidation, ValidatePR, MergePR, FinishLabels, Complete, FailIssue, FailLabel
<1> QED BY <1>1, <1>2, <1>3, <1>4, <1>5, <1>6, <1>7, <1>8, <1>9, RecordWorks DEF Process

LEMMA RecordStep ==
    ASSUME MaxSignals = 0, ~SaveFaults, TypeOK, StackAndWorkspaces, RecordInv, Undisturbed,
           [Next]_vars
    PROVE  RecordInv' /\ RecordMoves
<1>1. CASE UNCHANGED <<frame, store>>
  BY <1>1, RecordSame DEF RecordInv, Recorded
<1>2. CASE Crash
  <2>1. \A j \in Issues : frame'[j].pc = "idle" BY <1>2, IdleFields DEF Crash, MemoryLost
  <2>2. RecordInv' BY <2>1 DEF RecordInv, Recorded, Recording
  <2>3. store' = store \/ store'.state = "corrupt" BY <1>2 DEF Crash, Corrupt
  <2> QED BY <2>2, <2>3, RecordSame DEF RecordMoves
<1>3. ~Signal /\ ~ShutdownManager /\ ~Exit
  <2>1. signals = 0 BY WorkflowConstants DEF TypeOK
  <2> QED BY <2>1 DEF Undisturbed, Signal, ShutdownManager, ReadStatus, SaveCheckpoint,
                      CleanupWorkspaces, Exit
<1>4. Poll \/ Restart \/ (\E i \in Issues : HumanReady(i)) \/ UNCHANGED vars
      => UNCHANGED <<frame, store>>
  BY DEF Poll, Restart, HumanReady, memory, vars
<1> QED BY <1>1, <1>2, <1>3, <1>4, RecordProcess DEF Next, Agent

\* Without a signal, and while no write of the state file fails, the record of an
\* issue only advances, until the issue is claimed anew, whatever calls to
\* GitHub, Claude and git fail and wherever the process crashes, also inside a
\* write.  Processing goes on after a write that failed: if it is the one of a new
\* claim, the next write takes a failed record back to an earlier stage.
THEOREM RecordsAdvance == ASSUME MaxSignals = 0, ~SaveFaults PROVE Spec => RecordAdvances
<1>1. Init => Undisturbed /\ RecordInv
  <2> SUFFICES ASSUME Init PROVE Undisturbed /\ RecordInv OBVIOUS
  <2>1. \A j \in Issues : frame[j].pc = "idle" BY IdleFields DEF Init
  <2> QED BY <2>1 DEF Init, Undisturbed, SMOff, RecordInv, Recorded, Recording
<1>2. TypeOK /\ StackAndWorkspaces /\ Undisturbed /\ RecordInv /\ [Next]_vars
        => /\ Undisturbed' /\ RecordInv'
           /\ [(/\ "corrupt" \notin {store.state, store'.state}
                /\ store'.issue = store.issue /\ store'.state # "claim")
               => Rank[store'.state] >= Rank[store.state]]_vars
  BY UndisturbedStep, RecordStep DEF RecordMoves
<1> QED BY <1>1, <1>2, StackInit, StackNext, TypeCorrect, PTL DEF Spec, RecordAdvances

-----------------------------------------------------------------------------
(* The claim.  While no call fails and the process is not stopped, an      *)
(* issue that carries agent:claimed is not ready.                          *)

FaultFree == ~ApiFaults /\ MaxCrashes = 0 /\ MaxSignals = 0

\* The inductive invariant: the claim and the release meet only between the two
\* label calls of claimIssue, and what is about to be claimed is not.
ClaimInv ==
    /\ \A i \in Issues : {"ready", "claimed"} \subseteq labels[i] => frame[i].pc = "unready"
    /\ \A i \in batch : "claimed" \notin labels[i]
    /\ \A i \in Issues : frame[i].pc = "claim" => "claimed" \notin labels[i]

LEMMA RepliesApplied ==
    ASSUME FaultFree, Undisturbed PROVE \A r \in Replies : r.applied /\ r.ok
BY DEF FaultFree, Undisturbed, Replies, Cancelled

\* Steps that neither claim nor release an issue.
LEMMA ClaimKept ==
    ASSUME TypeOK, ClaimInv, batch' \subseteq batch,
           \A j \in Issues : /\ labels'[j] \cap {"ready", "claimed"} \subseteq labels[j]
                             /\ frame'[j].pc = "claim" => frame[j].pc = "claim"
                             /\ frame[j].pc = "unready" => frame'[j].pc = "unready"
    PROVE  ClaimInv'
<1>1. batch \subseteq Issues BY DEF TypeOK
<1> QED BY <1>1 DEF ClaimInv

LEMMA ClaimWorks ==
    ASSUME TypeOK, ClaimInv, Undisturbed, NEW i \in Issues,
           \/ ClaimComment(i) \/ RecordClaim(i) \/ GracefulShutdown(i)
           \/ SetupWorkspace(i) \/ Clone(i) \/ Analyze(i) \/ LabelEpic(i) \/ RecordSplit(i)
           \/ ChildrenDone(i) \/ StartImplement(i) \/ Implement(i) \/ CommitAndPush(i)
           \/ CreatePR(i) \/ RecordPR(i) \/ StartValidation(i) \/ ValidatePR(i) \/ MergePR(i)
           \/ FinishLabels(i) \/ Complete(i) \/ FailIssue(i) \/ FailLabel(i)
    PROVE  ClaimInv'
<1>1. ~GracefulShutdown(i) BY DEF GracefulShutdown, Cancelled, Undisturbed
<1>2. frame[i].pc \notin {"claim", "unready"}
  BY DEF At, ClaimComment, RecordClaim, GracefulShutdown, SetupWorkspace, Clone, Analyze,
     LabelEpic, RecordSplit, ChildrenDone, StartImplement, Implement, CommitAndPush,
     CreatePR, RecordPR, StartValidation, ValidatePR, MergePR, FinishLabels, Complete,
     FailIssue, FailLabel
<1>3. Works(i) \/ Ends(i)
  BY <1>1, ClaimCommentShape, WorksRecordClaim, WorksSetupWorkspace, WorksClone, WorksAnalyze,
     WorksLabelEpic, WorksRecordSplit, EndsChildrenDone, WorksStartImplement, WorksImplement,
     WorksCommitAndPush, WorksCreatePR, WorksRecordPR, WorksStartValidation, WorksValidatePR,
     WorksMergePR, WorksFinishLabels, EndsComplete, WorksFailIssue, EndsFailLabel
<1>4. batch' = batch /\ \A j \in Issues : j # i => labels'[j] = labels[j]
  BY <1>3 DEF Works, Ends, OnlyLabels
<1>5. \A j \in Issues : j # i => frame'[j] = frame[j]
  BY <1>3 DEF Works, Stays, SameRest, Ends, Returns, TypeOK
<1>6. labels'[i] \cap {"ready", "claimed"} \subseteq labels[i]
  <2>1. CASE LabelEpic(i)
    <3>1. PICK r \in Replies, q \in Replies :
            labels' = [labels EXCEPT ![i] = Relabel(
               Relabel(@, r, IF frame[i].pc = "split" THEN {"epic"} ELSE {"epic", "failed"}, {}),
               q, {}, {"ready"})]
      BY <2>1 DEF LabelEpic
    <3> QED BY <3>1 DEF Relabel, TypeOK
  <2>2. CASE StartImplement(i) BY <2>2 DEF StartImplement, Relabel, TypeOK
  <2>3. CASE FinishLabels(i)
    <3>1. PICK r \in Replies, q \in Replies :
            labels' = [labels EXCEPT ![i] =
               Relabel(Relabel(@, r, {}, {"in-progress"}), q, {"in-review"}, {})]
      BY <2>3 DEF FinishLabels
    <3> QED BY <3>1 DEF Relabel, TypeOK
  <2>4. CASE FailLabel(i) BY <2>4 DEF FailLabel, Relabel, TypeOK
  <2>5. CASE labels' = labels BY <2>5
  <2> QED BY <1>1, <2>1, <2>2, <2>3, <2>4, <2>5
    DEF github, ClaimComment, RecordClaim, SetupWorkspace, Clone, Analyze, RecordSplit,
        ChildrenDone, Implement, CommitAndPush, CreatePR, RecordPR, StartValidation,
        ValidatePR, MergePR, Complete, FailIssue
<1>7. frame'[i].pc # "claim"
  <2>1. CASE Ends(i) BY <2>1, IdleFields DEF Ends, Returns, TypeOK
  <2>2. CASE SetupWorkspace(i)
    BY <2>2, GotoFields, FrameDomain DEF SetupWorkspace, TypeOK
  <2>3. CASE RecordPR(i) \/ StartValidation(i)
    BY <2>3, FrameDomain DEF RecordPR, StartValidation, TypeOK
  <2>4. CASE ValidatePR(i)
    <3>1. \/ Goto(i, "fail") \/ Goto(i, "merge")
          \/ frame' = [frame EXCEPT ![i].attempt = @ + 1]
      BY <2>4 DEF ValidatePR, AfterLastRound
    <3>2. CASE frame' = [frame EXCEPT ![i].attempt = @ + 1]
      BY <1>2, <3>2, FrameDomain DEF TypeOK
    <3> QED BY <3>1, <3>2, GotoFields
  <2>5. CASE ClaimComment(i) \/ Analyze(i) \/ LabelEpic(i) \/ MergePR(i) \/ FinishLabels(i)
    BY <2>1, <2>5, ClaimCommentShape, GotoFields, ReturnEnds
    DEF ClaimComment, Analyze, LabelEpic, MergePR, FinishLabels, At, OnlyLabels, github
  <2>6. CASE CreatePR(i) BY <2>6, CreatePRReply, GotoFields DEF AfterCreatePR
  <2>7. CASE RecordClaim(i) \/ RecordSplit(i) \/ StartImplement(i) \/ FailIssue(i)
    BY <2>7, AdvanceFields DEF RecordClaim, RecordSplit, StartImplement, FailIssue
  <2>8. CASE Clone(i) \/ Implement(i) \/ CommitAndPush(i)
    BY <2>8, GotoFields, AdvanceFields DEF Clone, Implement, CommitAndPush
  <2> QED BY <1>1, <2>1, <2>2, <2>3, <2>4, <2>5, <2>6, <2>7, <2>8,
             EndsChildrenDone, EndsComplete, EndsFailLabel
<1>8. \A j \in Issues : /\ labels'[j] \cap {"ready", "claimed"} \subseteq labels[j]
                        /\ frame'[j].pc = "claim" => frame[j].pc = "claim"
                        /\ frame[j].pc = "unready" => frame'[j].pc = "unready"
  <2> TAKE j \in Issues
  <2>1. CASE j = i BY <1>2, <1>6, <1>7, <2>1
  <2>2. CASE j # i BY <1>4, <1>5, <2>2
  <2> QED BY <2>1, <2>2
<1> QED BY <1>4, <1>8, ClaimKept

LEMMA ClaimProcess ==
    ASSUME FaultFree, TypeOK, StackAndWorkspaces, MergeInv, ClaimInv, Undisturbed,
           NEW i \in Issues, Process(i)
    PROVE  ClaimInv'
<1> USE DEF At
<1>0. batch \subseteq Issues BY DEF TypeOK
<1>1. CASE HandleIssue(i)
  <2>1. \A j \in Issues : frame[j] = IdleFrame BY <1>1, QuietBetweenIssues DEF HandleIssue
  <2>2. \A j \in Issues : frame'[j] = IF j = i THEN Entered(NoIssue) ELSE IdleFrame
    BY <1>1, <2>1 DEF HandleIssue, TypeOK
  <2>3. \A j \in Issues : frame[j].pc = "idle" /\ (j # i => frame'[j].pc = "idle")
    BY <2>1, <2>2, IdleFields
  <2>4. labels' = labels /\ i \in batch /\ batch' \subseteq batch
    BY <1>1 DEF HandleIssue, github
  <2> QED BY <2>3, <2>4 DEF ClaimInv
<1>2. CASE Claim(i)
  <2>1. PICK r \in Replies :
          /\ labels' = [labels EXCEPT ![i] = Relabel(@, r, {"claimed"}, {})]
          /\ r.ok => Goto(i, "unready")
    BY <1>2 DEF Claim
  <2>2. Goto(i, "unready") BY <2>1, RepliesApplied
  <2>3. \A j \in Issues : frame'[j].pc = IF j = i THEN "unready" ELSE frame[j].pc
    BY <2>2, GotoFields
  <2>4. \A j \in Issues : j # i => labels'[j] = labels[j] BY <2>1 DEF TypeOK
  <2>5. i \notin batch BY <1>2 DEF MergeInv, Working, Claim
  <2>6. batch' = batch BY <1>2 DEF Claim
  <2> QED BY <1>0, <2>3, <2>4, <2>5, <2>6 DEF ClaimInv
<1>3. CASE Unready(i)
  <2>1. PICK r \in Replies : labels' = [labels EXCEPT ![i] = Relabel(@, r, {}, {"ready"})]
    BY <1>3 DEF Unready
  <2>2. r.applied BY RepliesApplied
  <2>3. /\ "ready" \notin labels'[i] /\ labels'[i] \subseteq labels[i]
        /\ \A j \in Issues : j # i => labels'[j] = labels[j]
    BY <2>1, <2>2 DEF Relabel, TypeOK
  <2>4. \A j \in Issues : frame'[j].pc = IF j = i THEN "claimComment" ELSE frame[j].pc
    BY <1>3, GotoFields DEF Unready
  <2>5. batch' = batch BY <1>3 DEF Unready
  <2> QED BY <1>0, <2>3, <2>4, <2>5 DEF ClaimInv
<1>4. CASE CreateChild(i)
  <2>1. \A j \in Issues : labels'[j] = labels[j] \/ labels'[j] = {"subtask", "ready"}
    BY <1>4 DEF CreateChild, TypeOK
  <2>2. frame' = [frame EXCEPT ![i].kids = Append(@, created + 1)] \/ Goto(i, "fail")
    BY <1>4 DEF CreateChild, Goto
  <2>3. /\ \A j \in Issues : j # i => frame'[j] = frame[j]
        /\ frame'[i].pc \in {frame[i].pc, "fail"}
    BY <2>2, FrameDomain DEF Goto, TypeOK
  <2>4. batch' = batch /\ frame[i].pc \in {"split", "resplit"} BY <1>4 DEF CreateChild
  <2>5. \A j \in Issues : /\ frame'[j].pc = "claim" => frame[j].pc = "claim"
                          /\ frame[j].pc = "unready" => frame'[j].pc = "unready"
    BY <2>3, <2>4
  <2> QED BY <1>0, <2>1, <2>4, <2>5 DEF ClaimInv
<1>5. CASE NextChild(i)
  <2> DEFINE c == Head(frame[i].kids)
  <2>1. Popped(i) \in [Issues -> Frame] /\ c \in Issues BY <1>5, PoppedType DEF NextChild
  <2>2. \A j \in Issues : Popped(i)[j].pc = frame[j].pc BY FrameDomain DEF Popped, TypeOK
  <2>3. Kid(i, c) BY <1>5, KidsType DEF Kid, NextChild
  <2>4. frame[c].pc = "idle" BY <2>1, <2>3 DEF StackAndWorkspaces, KidsInv, Working
  <2>5. Entered(i).pc = "claim" BY EnteredFields
  <2>6. \A j \in Issues : \/ frame'[j].pc = frame[j].pc
                          \/ j = c /\ frame'[j].pc = "claim" /\ "ready" \in labels[c]
    BY <1>5, <2>1, <2>2, <2>5 DEF NextChild
  <2>7. labels' = labels /\ batch' = batch BY <1>5 DEF NextChild, github
  <2> QED BY <1>0, <2>1, <2>4, <2>6, <2>7 DEF ClaimInv
<1> QED BY <1>1, <1>2, <1>3, <1>4, <1>5, ClaimWorks DEF Process

LEMMA ClaimPoll ==
    ASSUME TypeOK, StackAndWorkspaces, ClaimInv, Poll
    PROVE  ClaimInv'
<1>1. \A j \in Issues : frame[j].pc = "idle" BY QuietBetweenIssues, IdleFields DEF Poll
<1>2. \A j \in Issues : ~({"ready", "claimed"} \subseteq labels[j]) BY <1>1 DEF ClaimInv
<1>3. frame' = frame /\ batch = {} BY DEF Poll
<1>4. CASE batch' = {j \in Issues : "ready" \in labels[j] /\ pr[j] # "merged"} /\ labels' = labels
  BY <1>1, <1>2, <1>3, <1>4 DEF ClaimInv
<1>5. CASE PromoteOneSuggestion /\ batch' = batch
  <2>1. CASE labels' = labels BY <1>3, <1>5, <2>1 DEF ClaimInv
  <2>2. CASE \E i \in {k \in Issues : "suggestion" \in labels[k]
                                      /\ labels[k] \cap Disqualifying = {}
                                      /\ pr[k] # "merged"}, r \in Replies :
               labels' = [labels EXCEPT ![i] = Relabel(@, r, {"ready"}, {})]
    <3>1. PICK i \in Issues, r \in Replies :
            /\ "claimed" \notin labels[i]
            /\ labels' = [labels EXCEPT ![i] = Relabel(@, r, {"ready"}, {})]
      BY <2>2 DEF Disqualifying
    <3>2. /\ "claimed" \notin labels'[i]
          /\ \A j \in Issues : j # i => labels'[j] = labels[j]
      BY <3>1 DEF Relabel, TypeOK
    <3> QED BY <1>1, <1>2, <1>3, <1>5, <3>2 DEF ClaimInv
  <2> QED BY <1>5, <2>1, <2>2 DEF PromoteOneSuggestion
<1> QED BY <1>4, <1>5 DEF Poll

LEMMA ClaimStep ==
    ASSUME FaultFree, TypeOK, StackAndWorkspaces, MergeInv, ClaimInv, Undisturbed, [Next]_vars
    PROVE  ClaimInv'
<1>1. ~Signal /\ ~ShutdownManager /\ ~Exit /\ ~Crash
  <2>1. signals = 0 /\ crashes = 0 BY WorkflowConstants DEF TypeOK, FaultFree
  <2> QED BY <2>1 DEF FaultFree, Undisturbed, Signal, ShutdownManager, ReadStatus,
                      SaveCheckpoint, CleanupWorkspaces, Exit, Crash
<1>2. CASE Restart \/ UNCHANGED vars
  BY <1>2 DEF Restart, github, vars, ClaimInv
<1>3. ASSUME NEW i \in Issues, HumanReady(i) PROVE ClaimInv'
  <2>1. /\ "claimed" \notin labels'[i]
        /\ \A j \in Issues : j # i => labels'[j] = labels[j]
    BY <1>3 DEF HumanReady, TypeOK
  <2>2. frame' = frame /\ batch' = batch /\ batch \subseteq Issues
    BY <1>3 DEF HumanReady, memory, TypeOK
  <2> QED BY <2>1, <2>2 DEF ClaimInv
<1> QED BY <1>1, <1>2, <1>3, ClaimProcess, ClaimPoll DEF Next, Agent

\* Without faults an issue that carries the claim is not claimed again unless a
\* human released it, for every number of issues and nested sub-tasks.
THEOREM ClaimedOnce == ASSUME FaultFree PROVE Spec => NoReprocessing
<1>1. Init => Undisturbed /\ ClaimInv
  <2> SUFFICES ASSUME Init PROVE Undisturbed /\ ClaimInv OBVIOUS
  <2>1. \A j \in Issues : frame[j].pc = "idle" BY IdleFields DEF Init
  <2>2. \A j \in Issues : "claimed" \notin labels[j] BY DEF Init
  <2> QED BY <2>1, <2>2 DEF Init, Undisturbed, SMOff, ClaimInv
<1>2. TypeOK /\ StackAndWorkspaces /\ MergeInv /\ Undisturbed /\ ClaimInv /\ [Next]_vars
        => Undisturbed' /\ ClaimInv'
  BY UndisturbedStep, ClaimStep DEF FaultFree
<1>3. ClaimInv => [\A i \in Issues :
         (frame[i].pc = "claim" /\ frame'[i].pc = "unready") => "claimed" \notin labels[i]]_vars
  BY DEF ClaimInv
<1> QED BY <1>1, <1>2, <1>3, StackInit, StackNext, MergeInit, MergeNext, TypeCorrect, PTL
        DEF Spec, NoReprocessing

=============================================================================
