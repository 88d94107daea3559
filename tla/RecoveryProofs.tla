---------------------------- MODULE RecoveryProofs ----------------------------
(***************************************************************************)
(* What no sequence of recoveries, cleanups, reconciliations and deaths    *)
(* does to an issue, whatever states and ages of records are found; what a *)
(* resumption makes of a snapshot; and how a process ends.                 *)
(***************************************************************************)
EXTENDS Recovery, Resume, Orchestrator, FiniteSetTheorems, SequenceTheorems, TLAPS

-----------------------------------------------------------------------------
(* Types.                                                                  *)

Steps == {"idle", "issue", "pr", "report", "claim", "unready", "flag",
          "unclaim", "ready", "mark", "rmdir", "checkpoint", "delete"}

RecoveryTypeOK ==
    /\ record \in [state : Reached \cup {"none", "claim", "recovered"},
                   age : Ages \cup {0}, checkpoint : {"none", "recent", "old"},
                   error : BOOLEAN, pr : BOOLEAN]
    /\ repair \in [op : {"none", "startup", "reconcile", "orphan", "recover"}, at : Steps]
    /\ read \in [issue : {"unread", "open", "closed", "error"}, claimed : BOOLEAN,
                 pr : {"unread", "none", "open", "closed", "error"}]
    /\ issue \in {"open", "closed"} /\ pr \in {"none", "open", "closed"}
    /\ unlabelled \in BOOLEAN

\* A record has a pull request only if there is one, and only then is it read;
\* an operation that ended forgets what it read.
PullRequestKnown ==
    /\ record.pr => pr # "none"
    /\ record.state \in {"review", "complete"} => record.pr
    /\ ~record.pr => read.pr = "unread" /\ repair.at # "pr"
    /\ repair.at = "idle" => read.pr = "unread"

\* After the step that readies the issue the full cleanup, and the recovery of
\* an issue without pull request, have the label or have noted that it failed.
Readied ==
    repair.at \in {"rmdir", "checkpoint", "delete", "mark"}
        /\ issue = "open" /\ pr = "none" /\ ResetClaims /\ ~unlabelled
        => "ready" \in labels

\* Nothing takes the label from an issue without pull request.
NotUnreadied == pr = "none" => repair.at \notin {"claim", "unready"}

\* IssueNotLost, also while an operation is under way.
NotLost ==
    record.state \in {"none", "recovered"}
        /\ issue = "open" /\ pr = "none" /\ ResetClaims /\ ~unlabelled
        => "ready" \in labels

RecoveryInv == RecoveryTypeOK /\ PullRequestKnown /\ NotUnreadied /\ Readied /\ NotLost
-----------------------------------------------------------------------------
\* Without a pull request no drift makes ReconcileState change the labels.
LEMMA NoDriftWithoutPR ==
    ASSUME RecoveryTypeOK, read.pr = "unread"
    PROVE  ~Reconciles
<1> SUFFICES ASSUME Drifts # {}, ~Valid PROVE FALSE BY DEF Reconciles
<1>1. read.issue # "error" BY DEF Drifts, RecoveryTypeOK
<1>2. {x \in {"issue", "pr"} : read[x] = "error"} = {} BY <1>1 DEF RecoveryTypeOK
<1> QED BY <1>2, FS_EmptySet DEF Valid, Critical

LEMMA InitRecovery == RecoveryInit => RecoveryInv
<1> SUFFICES ASSUME RecoveryInit PROVE RecoveryInv OBVIOUS
<1>1. record \in [state : Reached, age : Ages, checkpoint : {"none", "recent", "old"},
                  error : BOOLEAN, pr : BOOLEAN]
    BY DEF RecoveryInit, Left
<1>2. /\ record.state \notin {"none", "recovered"}
      /\ record.state \in {"validation", "review", "complete"} => record.pr
    BY DEF RecoveryInit, Left
<1>3. repair = [op |-> "none", at |-> "idle"]
      /\ read = [issue |-> "unread", claimed |-> FALSE, pr |-> "unread"]
    BY DEF RecoveryInit, NoOperation, Unread
<1>4. RecoveryTypeOK
  <2>1. record \in [state : Reached \cup {"none", "claim", "recovered"},
                    age : Ages \cup {0}, checkpoint : {"none", "recent", "old"},
                    error : BOOLEAN, pr : BOOLEAN]
      BY <1>1
  <2>2. repair \in [op : {"none", "startup", "reconcile", "orphan", "recover"}, at : Steps]
      BY <1>3 DEF Steps
  <2>3. read \in [issue : {"unread", "open", "closed", "error"}, claimed : BOOLEAN,
                  pr : {"unread", "none", "open", "closed", "error"}]
      BY <1>3
  <2>4. /\ issue \in {"open", "closed"} /\ pr \in {"none", "open", "closed"}
        /\ unlabelled \in BOOLEAN
      BY DEF RecoveryInit
  <2> QED BY <2>1, <2>2, <2>3, <2>4 DEF RecoveryTypeOK
<1>5. PullRequestKnown BY <1>1, <1>2, <1>3 DEF RecoveryInit, PullRequestKnown
<1> QED BY <1>2, <1>3, <1>4, <1>5 DEF RecoveryInv, Readied, NotUnreadied, NotLost

\* A step that leaves the record, the labels and the two on GitHub alone, and
\* goes to none of the steps with a condition.
LEMMA ReadingPreserves ==
    ASSUME RecoveryInv, UNCHANGED <<record, labels, issue, pr, unlabelled>>,
           RecoveryTypeOK', PullRequestKnown',
           repair'.at \in {"claim", "unready"} => pr # "none",
           repair'.at = "mark" => pr # "none" \/ ~ResetClaims,
           repair'.at \in {"rmdir", "checkpoint", "delete"} => repair.at \in {"rmdir", "checkpoint"}
    PROVE  RecoveryInv'
BY DEF RecoveryInv, Readied, NotUnreadied, NotLost

LEMMA BeginsPreserves ==
    ASSUME RecoveryInv, NEW op \in {"startup", "reconcile", "orphan", "recover"},
           NEW step \in Steps, Begins(op, step),
           step \in {"issue", "report", "flag", "unclaim", "mark"} \/ (step = "pr" /\ record.pr),
           step = "mark" => pr # "none" \/ ~ResetClaims
    PROVE  RecoveryInv'
<1>1. RecoveryTypeOK' BY DEF RecoveryInv, RecoveryTypeOK, Begins, Unread, Steps
<1>2. PullRequestKnown' BY DEF RecoveryInv, PullRequestKnown, RecoveryTypeOK, Begins, Unread
<1>3. repair'.at = step BY DEF Begins
<1> QED BY <1>1, <1>2, <1>3, ReadingPreserves DEF Begins

-----------------------------------------------------------------------------
(* The operations: their beginnings, and one lemma for each later step.    *)

LEMMA CleanupBegins == ASSUME RecoveryInv, CleanupOrphanedWork PROVE RecoveryInv'
<1>1. PICK step \in {"unclaim", "issue", "flag"} : Begins("orphan", step)
    BY DEF CleanupOrphanedWork, FullCleanup, determineRecoveryType
<1> QED BY <1>1, BeginsPreserves DEF Steps

LEMMA RecoverBegins == ASSUME RecoveryInv, RecoverWorkflow PROVE RecoveryInv'
<1>1. PICK step \in {"pr", "report", "mark", "unclaim"} :
         /\ Begins("recover", step)
         /\ step = "pr" => record.pr
         /\ step = "mark" => record.state \in {"review", "complete"} \/ ~ResetClaims
    BY DEF RecoverWorkflow, Late
<1>2. step = "mark" => pr # "none" \/ ~ResetClaims
    BY <1>1 DEF RecoveryInv, PullRequestKnown
<1> QED BY <1>1, <1>2, BeginsPreserves DEF Steps

LEMMA OthersBegin ==
    ASSUME RecoveryInv, ValidateAndRecoverStartup \/ ReconcileState PROVE RecoveryInv'
BY BeginsPreserves DEF ValidateAndRecoverStartup, ReconcileState, Steps

LEMMA ReadIssuePreserves == ASSUME RecoveryInv, ReadIssue PROVE RecoveryInv'
<1>1. RecoveryTypeOK'
  <2>1. PICK i \in {"open", "closed", "error"}, c \in BOOLEAN :
           read' = [read EXCEPT !.issue = i, !.claimed = c]
    <3>1. ("claimed" \in labels) \in BOOLEAN OBVIOUS
    <3>2. CASE read' = [read EXCEPT !.issue = issue, !.claimed = "claimed" \in labels]
        BY <3>1, <3>2 DEF RecoveryInv, RecoveryTypeOK
    <3>3. CASE read' = [read EXCEPT !.issue = "error"]
      <4>1. read' = [read EXCEPT !.issue = "error", !.claimed = read.claimed]
          BY <3>3 DEF RecoveryInv, RecoveryTypeOK
      <4> QED BY <4>1 DEF RecoveryInv, RecoveryTypeOK
    <3> QED BY <3>2, <3>3 DEF ReadIssue
  <2>2. read' \in [issue : {"unread", "open", "closed", "error"}, claimed : BOOLEAN,
                   pr : {"unread", "none", "open", "closed", "error"}]
      BY <2>1 DEF RecoveryInv, RecoveryTypeOK
  <2> QED BY <2>2 DEF RecoveryInv, RecoveryTypeOK, ReadIssue, Continue, Steps
<1>2. PullRequestKnown'
    BY DEF RecoveryInv, RecoveryTypeOK, PullRequestKnown, ReadIssue, Continue
<1>3. repair'.at \in {"pr", "report"} BY DEF RecoveryInv, RecoveryTypeOK, ReadIssue, Continue
<1> QED BY <1>1, <1>2, <1>3, ReadingPreserves DEF ReadIssue

LEMMA ReadPRPreserves == ASSUME RecoveryInv, ReadPR PROVE RecoveryInv'
<1>0. record.pr BY DEF RecoveryInv, RecoveryTypeOK, PullRequestKnown, ReadPR
<1>1. RecoveryTypeOK'
    BY DEF RecoveryInv, RecoveryTypeOK, ReadPR, Continue, Steps
<1>3. repair'.at = "report" BY DEF RecoveryInv, RecoveryTypeOK, ReadPR, Continue
<1>2. PullRequestKnown' BY <1>0, <1>3 DEF RecoveryInv, PullRequestKnown, ReadPR
<1> QED BY <1>1, <1>2, <1>3, ReadingPreserves DEF ReadPR

\* A reconciliation comes here with a pull request only, a recovery marks the
\* record at once only if it saw an open one.
LEMMA ReportPreserves == ASSUME RecoveryInv, Report PROVE RecoveryInv'
<1>0. RecoveryTypeOK BY DEF RecoveryInv
<1>1. UNCHANGED <<record, labels, issue, pr, unlabelled>> BY DEF Report
<1>2. CASE Done
  <2>1. repair' = NoOperation /\ read' = Unread BY <1>2 DEF Done
  <2>2. RecoveryTypeOK'
      BY <2>1, <1>0, <1>1 DEF RecoveryTypeOK, NoOperation, Unread, Steps
  <2>3. PullRequestKnown'
      BY <2>1, <1>1 DEF RecoveryInv, PullRequestKnown, NoOperation, Unread
  <2> QED BY <2>1, <2>2, <2>3, <1>1, ReadingPreserves DEF NoOperation
<1>3. CASE /\ UNCHANGED read
           /\ \/ Continue("claim") /\ Reconciles
              \/ Continue("unclaim")
              \/ Continue("mark") /\ (read.pr = "open" \/ ~ResetClaims)
  <2>1. /\ repair'.at \in {"claim", "unclaim", "mark"}
        /\ repair'.at = "claim" => Reconciles
        /\ repair'.at = "mark" => read.pr = "open" \/ ~ResetClaims
      BY <1>3, <1>0 DEF Continue, RecoveryTypeOK
  <2>2. RecoveryTypeOK' BY <1>0, <1>1, <1>3 DEF RecoveryTypeOK, Continue, Steps
  <2>3. PullRequestKnown' BY <2>1, <1>1, <1>3 DEF RecoveryInv, PullRequestKnown
  <2>4. read.pr # "unread" => pr # "none" BY <1>0 DEF RecoveryInv, PullRequestKnown, RecoveryTypeOK
  <2>5. repair'.at = "claim" => pr # "none" BY <2>1, <2>4, <1>0, NoDriftWithoutPR
  <2>6. repair'.at = "mark" => pr # "none" \/ ~ResetClaims BY <2>1, <2>4
  <2> QED BY <2>1, <2>2, <2>3, <2>5, <2>6, <1>1, ReadingPreserves
<1> QED BY <1>2, <1>3 DEF Report, FullCleanup

-----------------------------------------------------------------------------
(* The steps that change labels or the record.                             *)

LEMMA DoneForgets ==
    ASSUME Done
    PROVE  /\ repair'.at = "idle" /\ read'.pr = "unread"
           /\ repair' \in [op : {"none", "startup", "reconcile", "orphan", "recover"}, at : Steps]
           /\ read' \in [issue : {"unread", "open", "closed", "error"}, claimed : BOOLEAN,
                         pr : {"unread", "none", "open", "closed", "error"}]
BY DEF Done, NoOperation, Unread, Steps

LEMMA ContinueGoes ==
    ASSUME RecoveryTypeOK, NEW step \in Steps, Continue(step)
    PROVE  /\ repair'.at = step /\ repair'.op = repair.op
           /\ repair' \in [op : {"none", "startup", "reconcile", "orphan", "recover"}, at : Steps]
BY DEF RecoveryTypeOK, Continue

\* Labels are taken away only where a pull request is known.
LEMMA ReconcilePreserves == ASSUME RecoveryInv, Reclaims \/ Unreadies PROVE RecoveryInv'
<1>1. pr # "none" BY DEF RecoveryInv, NotUnreadied, Reclaims, Unreadies
<1>2. \/ Done
      \/ Continue("unready") /\ UNCHANGED read
    BY DEF Reclaims, Unreadies
<1>3. UNCHANGED <<record, issue, pr, unlabelled>> BY DEF Reclaims, Unreadies
<1>4. RecoveryTypeOK' /\ PullRequestKnown'
    BY <1>2, <1>3, DoneForgets, ContinueGoes
       DEF RecoveryInv, RecoveryTypeOK, PullRequestKnown, Steps
<1> QED BY <1>1, <1>3, <1>4 DEF RecoveryInv, NotUnreadied, Readied, NotLost

LEMMA FlagPreserves == ASSUME RecoveryInv, FlagForManual PROVE RecoveryInv'
<1>1. UNCHANGED <<record, issue, pr, unlabelled>> /\ Done BY DEF FlagForManual
<1>2. "ready" \in labels => "ready" \in labels' BY DEF FlagForManual
<1>3. RecoveryTypeOK' /\ PullRequestKnown'
    BY <1>1, DoneForgets DEF RecoveryInv, RecoveryTypeOK, PullRequestKnown
<1> QED BY <1>1, <1>2, <1>3, DoneForgets DEF RecoveryInv, NotUnreadied, Readied, NotLost

LEMMA UnclaimsPreserves == ASSUME RecoveryInv, Unclaims PROVE RecoveryInv'
<1>1. UNCHANGED <<record, issue, pr, read, unlabelled>> /\ Continue("ready") BY DEF Unclaims
<1>2. "ready" \in labels => "ready" \in labels' BY DEF Unclaims
<1>3. repair'.at = "ready" /\ RecoveryTypeOK' /\ PullRequestKnown'
    BY <1>1, ContinueGoes DEF RecoveryInv, RecoveryTypeOK, PullRequestKnown, Steps
<1> QED BY <1>1, <1>2, <1>3 DEF RecoveryInv, NotUnreadied, Readied, NotLost

\* The issue has the label, or that it could not be added is noted.
LEMMA ReadiesPreserves == ASSUME RecoveryInv, Readies PROVE RecoveryInv'
<1>1. UNCHANGED <<record, issue, pr>> BY DEF Readies
<1>2. "ready" \in labels' \/ unlabelled' BY DEF Readies
<1>3. unlabelled' \in BOOLEAN BY DEF RecoveryInv, RecoveryTypeOK, Readies
<1>4. \/ Done
      \/ UNCHANGED read /\ \E step \in {"mark", "rmdir"} : Continue(step)
    BY DEF Readies
<1>5. RecoveryTypeOK' /\ PullRequestKnown' /\ repair'.at \in {"idle", "mark", "rmdir"}
  <2>1. CASE Done
      BY <2>1, <1>1, <1>3, DoneForgets DEF RecoveryInv, RecoveryTypeOK, PullRequestKnown
  <2>2. CASE UNCHANGED read /\ \E step \in {"mark", "rmdir"} : Continue(step)
      BY <2>2, <1>1, <1>3, ContinueGoes
         DEF RecoveryInv, RecoveryTypeOK, PullRequestKnown, Steps
  <2> QED BY <1>4, <2>1, <2>2
<1> QED BY <1>1, <1>2, <1>5 DEF RecoveryInv, NotUnreadied, Readied, NotLost

LEMMA MarkPreserves == ASSUME RecoveryInv, MarkRecovered PROVE RecoveryInv'
<1>1. UNCHANGED <<labels, issue, pr, unlabelled>> /\ Done /\ repair.at = "mark"
    BY DEF MarkRecovered
<1>2. record' \in [state : Reached \cup {"none", "claim", "recovered"},
                   age : Ages \cup {0}, checkpoint : {"none", "recent", "old"},
                   error : BOOLEAN, pr : BOOLEAN]
    BY DEF RecoveryInv, RecoveryTypeOK, MarkRecovered
<1>3. /\ record'.pr = record.pr
      /\ record'.state = record.state \/ record'.state = "recovered"
    BY DEF RecoveryInv, RecoveryTypeOK, MarkRecovered
<1>4. RecoveryTypeOK' /\ PullRequestKnown'
    BY <1>1, <1>2, <1>3, DoneForgets DEF RecoveryInv, RecoveryTypeOK, PullRequestKnown
<1> QED BY <1>1, <1>4, DoneForgets DEF RecoveryInv, NotUnreadied, Readied, NotLost

LEMMA CleanupPreserves ==
    ASSUME RecoveryInv, RemoveWorkspace \/ CleanupCheckpoint PROVE RecoveryInv'
<1>1. /\ UNCHANGED <<labels, issue, pr, read, unlabelled>>
      /\ repair.at \in {"rmdir", "checkpoint"}
      /\ \E step \in {"checkpoint", "delete"} : Continue(step)
    BY DEF RemoveWorkspace, CleanupCheckpoint
<1>2. record' \in [state : Reached \cup {"none", "claim", "recovered"},
                   age : Ages \cup {0}, checkpoint : {"none", "recent", "old"},
                   error : BOOLEAN, pr : BOOLEAN]
    BY DEF RecoveryInv, RecoveryTypeOK, RemoveWorkspace, CleanupCheckpoint
<1>3. record'.pr = record.pr /\ record'.state = record.state
    BY DEF RecoveryInv, RecoveryTypeOK, RemoveWorkspace, CleanupCheckpoint
<1>4. RecoveryTypeOK' /\ PullRequestKnown' /\ repair'.at \in {"checkpoint", "delete"}
    BY <1>1, <1>2, <1>3, ContinueGoes DEF RecoveryInv, RecoveryTypeOK, PullRequestKnown, Steps
<1> QED BY <1>1, <1>3, <1>4 DEF RecoveryInv, NotUnreadied, Readied, NotLost

LEMMA DeletePreserves == ASSUME RecoveryInv, DeleteState PROVE RecoveryInv'
<1>1. UNCHANGED <<labels, issue, pr, unlabelled>> /\ Done /\ repair.at = "delete"
    BY DEF DeleteState
<1>2. CASE record' = record
    BY <1>1, <1>2, DoneForgets DEF RecoveryInv, RecoveryTypeOK, PullRequestKnown, NotUnreadied,
                                   Readied, NotLost
<1>3. CASE record' = NoRecord
  <2>1. /\ record' \in [state : Reached \cup {"none", "claim", "recovered"},
                        age : Ages \cup {0}, checkpoint : {"none", "recent", "old"},
                        error : BOOLEAN, pr : BOOLEAN]
        /\ record'.state = "none" /\ record'.pr = FALSE
      BY <1>3 DEF NoRecord
  <2> QED BY <1>1, <2>1, DoneForgets DEF RecoveryInv, RecoveryTypeOK, PullRequestKnown,
                                         NotUnreadied, Readied, NotLost
<1> QED BY <1>2, <1>3 DEF DeleteState

-----------------------------------------------------------------------------
(* Time, people, deaths and the next agent.                                *)

LEMMA OlderPreserves == ASSUME RecoveryInv, GrowsOlder PROVE RecoveryInv'
<1>1. PICK a \in Ages : record' = [record EXCEPT !.age = a] BY DEF GrowsOlder
<1>2. /\ record' \in [state : Reached \cup {"none", "claim", "recovered"},
                      age : Ages \cup {0}, checkpoint : {"none", "recent", "old"},
                      error : BOOLEAN, pr : BOOLEAN]
      /\ record'.pr = record.pr /\ record'.state = record.state
    BY <1>1 DEF RecoveryInv, RecoveryTypeOK
<1> QED BY <1>2 DEF GrowsOlder, RecoveryInv, RecoveryTypeOK, PullRequestKnown, NotUnreadied,
                    Readied, NotLost

LEMMA PeoplePreserve == ASSUME RecoveryInv, People PROVE RecoveryInv'
BY DEF People, RecoveryInv, RecoveryTypeOK, PullRequestKnown, NotUnreadied, Readied, NotLost

LEMMA DeathPreserves == ASSUME RecoveryInv, ProcessDies PROVE RecoveryInv'
BY DoneForgets DEF ProcessDies, RecoveryInv, RecoveryTypeOK, PullRequestKnown, NotUnreadied,
                   Readied, NotLost

LEMMA TakenPreserves == ASSUME RecoveryInv, Taken PROVE RecoveryInv'
<1>1. /\ record' = [NoRecord EXCEPT !.state = "claim"]
      /\ UNCHANGED <<issue, pr, repair, read, unlabelled>> /\ repair = NoOperation
    BY DEF Taken
<1>2. /\ record' \in [state : Reached \cup {"none", "claim", "recovered"},
                      age : Ages \cup {0}, checkpoint : {"none", "recent", "old"},
                      error : BOOLEAN, pr : BOOLEAN]
      /\ record'.state = "claim" /\ record'.pr = FALSE
    BY <1>1 DEF NoRecord
<1> QED BY <1>1, <1>2 DEF RecoveryInv, RecoveryTypeOK, PullRequestKnown, NotUnreadied,
                          Readied, NotLost, NoOperation

LEMMA NextRecovery == RecoveryInv /\ [RecoveryNext]_recoveryVars => RecoveryInv'
<1> SUFFICES ASSUME RecoveryInv, [RecoveryNext]_recoveryVars PROVE RecoveryInv' OBVIOUS
<1>1. CASE Operation
    BY <1>1, OthersBegin, CleanupBegins, RecoverBegins, ReadIssuePreserves, ReadPRPreserves,
       ReportPreserves, ReconcilePreserves, FlagPreserves, UnclaimsPreserves, ReadiesPreserves,
       MarkPreserves, CleanupPreserves, DeletePreserves DEF Operation
<1>2. CASE UNCHANGED recoveryVars
    BY <1>2 DEF recoveryVars, RecoveryInv, RecoveryTypeOK, PullRequestKnown, NotUnreadied,
                Readied, NotLost
<1> QED BY <1>1, <1>2, OlderPreserves, PeoplePreserve, DeathPreserves, TakenPreserves
        DEF RecoveryNext

\* However recoveries, cleanups, reconciliations, deaths and new claims follow
\* each other, an open issue without a pull request whose record is gone or
\* marked recovered is ready for an agent, unless claims are not reset or a
\* request to add the label agent:ready failed, whose issue nothing takes up again
\* (state/recovery.go:134, developer/recovery.go:460, state/validator.go:264).
THEOREM IssuesAreNotLost == RecoverySpec => []IssueNotLost
<1>1. RecoveryInv => IssueNotLost BY DEF RecoveryInv, NotLost, IssueNotLost
<1> QED BY <1>1, InitRecovery, NextRecovery, PTL DEF RecoverySpec

-----------------------------------------------------------------------------
(* Resumption.                                                             *)

\* A snapshot whose state the agent may have reached keeps a score of 70: age
\* and number of files alone never make the confidence low.
LEMMA CompatibleIsTrusted ==
    isStateCompatible => assessResumeConfidence \in {"high", "medium"}
<1> SUFFICES ASSUME isStateCompatible
             PROVE  assessResumeConfidence \in {"high", "medium"}
    OBVIOUS
<1>1. AgePenalty \in {0, 10, 20} BY DEF AgePenalty
<1>2. FilePenalty \in {0, 5, 10} BY DEF FilePenalty
<1>3. ConfidenceScore = 100 - AgePenalty - FilePenalty BY <1>1, <1>2 DEF ConfidenceScore
<1>4. ConfidenceScore \in Nat /\ ConfidenceScore >= 70 BY <1>1, <1>2, <1>3
<1> QED BY <1>4 DEF assessResumeConfidence

\* Without a high risk the actions of a trusted snapshot check and restore.
LEMMA TrustedIsNotCleaned ==
    ASSUME assessResumeConfidence # "low", assessResumeRisk # "high"
    PROVE  \A i \in DOMAIN generateResumeActions :
               generateResumeActions[i] # "clean_workspace"
<1> DEFINE checked == IF assessResumeConfidence = "medium" \/ assessResumeRisk = "medium"
                      THEN <<"verify_build">> ELSE <<>>
           git == IF snapshot.dirty THEN <<"restore_git_state">> ELSE <<>>
           restored == IF snapshot.state \in {"implement", "commit"}
                       THEN <<"restore_context">> ELSE <<>>
           Mild == {"validate_files", "verify_build", "restore_git_state", "restore_context"}
<1>1. generateResumeActions = <<"validate_files">> \o checked \o git \o restored
    BY DEF generateResumeActions
<1> HIDE DEF Mild
<1>a. <<>> \in Seq(Mild) BY EmptySeq
<1>b. \A x \in Mild : <<x>> \in Seq(Mild) OBVIOUS
<1>c. /\ "validate_files" \in Mild /\ "verify_build" \in Mild
      /\ "restore_git_state" \in Mild /\ "restore_context" \in Mild
    BY DEF Mild
<1>2. /\ <<"validate_files">> \in Seq(Mild) /\ checked \in Seq(Mild)
      /\ git \in Seq(Mild) /\ restored \in Seq(Mild)
    BY <1>a, <1>b, <1>c
<1> HIDE DEF checked, git, restored
<1>3. <<"validate_files">> \o checked \in Seq(Mild) BY <1>2, ConcatProperties
<1>4. <<"validate_files">> \o checked \o git \in Seq(Mild) BY <1>2, <1>3, ConcatProperties
<1>5. <<"validate_files">> \o checked \o git \o restored \in Seq(Mild)
    BY <1>2, <1>4, ConcatProperties
<1>6. \A i \in DOMAIN generateResumeActions : generateResumeActions[i] \in Mild
    BY <1>1, <1>5, ElementOfSeq, LenProperties
<1> QED BY <1>6 DEF Mild

LEMMA RiskIsCleaned ==
    ASSUME assessResumeRisk = "high"
    PROVE  \E i \in DOMAIN generateResumeActions :
               generateResumeActions[i] = "clean_workspace"
<1>1. generateResumeActions = <<"validate_files", "clean_workspace", "start_fresh">>
    BY DEF generateResumeActions
<1>2. 2 \in DOMAIN generateResumeActions /\ generateResumeActions[2] = "clean_workspace"
    BY <1>1
<1> QED BY <1>2

\* Whatever its age, size and changes, a snapshot that the strategy says to
\* resume from has its workspace cleaned by the recommended actions exactly when
\* its risk is high: the confidence never has it cleaned (resume.go:150, :254,
\* :294, :338).
THEOREM CleanedForRiskOnly == ResumeSpec => []OnlyRiskCleans
<1>1. ResumeInit => OnlyRiskCleans BY DEF ResumeInit, OnlyRiskCleans
<1>2. OnlyRiskCleans /\ [ResumeNext]_resumeVars => OnlyRiskCleans'
  <2> SUFFICES ASSUME OnlyRiskCleans, [ResumeNext]_resumeVars
               PROVE  OnlyRiskCleans'
      OBVIOUS
  <2>1. CASE AnalyzeResumeOptions
    <3>0. assessResumeRisk' = assessResumeRisk
        BY <2>1 DEF AnalyzeResumeOptions, assessResumeRisk, StageRisk, ChangeRisk
    <3> SUFFICES ASSUME DetermineOptimalResumeStrategy = "from_snapshot"
                 PROVE  (\E i \in DOMAIN point'.actions : point'.actions[i] = "clean_workspace")
                            <=> assessResumeRisk = "high"
        BY <2>1, <3>0 DEF AnalyzeResumeOptions, OnlyRiskCleans
    <3>1. isStateCompatible /\ snapshot # NoSnapshot BY DEF DetermineOptimalResumeStrategy
    <3>2. point'.actions = generateResumeActions BY <2>1, <3>1 DEF AnalyzeResumeOptions
    <3>3. assessResumeConfidence # "low" BY <3>1, CompatibleIsTrusted
    <3> QED BY <3>2, <3>3, TrustedIsNotCleaned, RiskIsCleaned
  <2>2. CASE ExecuteResume
      BY <2>2 DEF ExecuteResume, OnlyRiskCleans, assessResumeRisk, StageRisk, ChangeRisk
  <2>3. CASE UNCHANGED resumeVars
      BY <2>3 DEF resumeVars, OnlyRiskCleans, assessResumeRisk, StageRisk, ChangeRisk
  <2> QED BY <2>1, <2>2, <2>3 DEF ResumeNext
<1> QED BY <1>1, <1>2, PTL DEF ResumeSpec

-----------------------------------------------------------------------------
(* The end of a process.                                                   *)

\* The steps without the fairness, which safety does not need.
ProcessSteps == ProcessInit /\ [][ProcessNext]_processVars

\* When Run stops the managers every agent has returned, and when its result is
\* there every manager is stopped.
RunInOrder ==
    /\ DOMAIN agent = Agents
    /\ orch \in {"stop", "done"} => \A a \in Agents : agent[a] = "ended"
    /\ orch = "done" => active = << >>

\* runStart closes the log handler and then the reporter, with the result of Run
\* or when it has waited long enough.
ClosedInOrder ==
    /\ main \in {"closeLogs", "closeReporter", "return"} => gaveUp \/ orch = "done"
    /\ shut \subseteq {"logs", "reporter"}
    /\ main \in {"closeReporter", "return"} => "logs" \in shut
    /\ main = "return" => "reporter" \in shut
    /\ exit = "ok" => main = "return"

ProcessInv == RunInOrder /\ ClosedInOrder

\* What each of the goroutines does keeps both orders.
LEMMA ProcessKeepsInv == ProcessInv /\ [ProcessNext]_processVars => ProcessInv'
<1> SUFFICES ASSUME ProcessInv, [ProcessNext]_processVars PROVE ProcessInv'
    OBVIOUS
<1> USE DEF ProcessInv, RunInOrder, ClosedInOrder
<1>1. CASE Signal BY <1>1 DEF Signal
<1>2. CASE StartManager
  <2>1. orch \in {"config", "scheduler", "rotation", "cleanup"} BY <1>2 DEF StartManager, After
  <2>2. orch' \in {"scheduler", "rotation", "cleanup", "agents"}
      BY <1>2, <2>1 DEF StartManager, After
  <2> QED BY <1>2, <2>1, <2>2 DEF StartManager
<1>3. CASE StartAgents BY <1>3 DEF StartAgents
<1>4. CASE AllReturned BY <1>4 DEF AllReturned
<1>5. CASE StopManagers BY <1>5 DEF StopManagers
<1>6. CASE OrchestratorEnds BY <1>6 DEF OrchestratorEnds
<1>7. CASE SignalReceived BY <1>7 DEF SignalReceived
<1>8. CASE SaveCheckpoints \/ CleanupWorkspaces
    BY <1>8 DEF SaveCheckpoints, CleanupWorkspaces
<1>9. CASE Await BY <1>9 DEF Await, Finished
<1>10. CASE CloseLogHandler BY <1>10 DEF CloseLogHandler
<1>11. CASE CloseReporter BY <1>11 DEF CloseReporter
<1>12. CASE Return BY <1>12 DEF Return
<1>13. CASE ForceShutdown \/ ForcedExit BY <1>13 DEF ForceShutdown, ForcedExit
<1>14. ASSUME NEW a \in Agents, AgentReturns(a) PROVE ProcessInv'
    BY <1>14 DEF AgentReturns
<1>15. CASE UNCHANGED processVars BY <1>15 DEF processVars
<1> QED BY <1>1, <1>2, <1>3, <1>4, <1>5, <1>6, <1>7, <1>8, <1>9, <1>10, <1>11, <1>12, <1>13,
           <1>14, <1>15 DEF ProcessNext, Run, RunStart

\* Whatever hangs, fails or is signalled in between, a process that ends with
\* success has closed the log handler and the reporter, after all its agents
\* returned and the managers were stopped unless it gave up waiting for them
\* (start.go:217-268, orchestrator.go:90-218), for any number of agents.
THEOREM SuccessIsClean == ProcessSpec => []CleanEnd
<1>1. ProcessInit => ProcessInv
    BY DEF ProcessInit, ProcessInv, RunInOrder, ClosedInOrder
<1>2. ProcessInv => CleanEnd
    BY DEF ProcessInv, RunInOrder, ClosedInOrder, CleanEnd
<1>3. ProcessSteps => []CleanEnd BY <1>1, <1>2, ProcessKeepsInv, PTL DEF ProcessSteps
<1> QED BY <1>3, PTL DEF ProcessSpec, ProcessSteps

=============================================================================
