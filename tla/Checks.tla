------------------------------- MODULE Checks -------------------------------
(***************************************************************************)
(* ValidatePR (internal/ghub/pr_validation.go): the state of a pull        *)
(* request's checks is polled until it is decided, the time is up or the   *)
(* context is cancelled.  A poll is three requests: the head commit, its   *)
(* check runs and its combined status, while the checks go on and are run  *)
(* again.  The branch may get a new head between two polls; the rest of a  *)
(* poll is about the commit it has read.                                   *)
(***************************************************************************)
EXTENDS Integers, Sequences, SequencesExt

CONSTANTS
    MaxRuns,      \* bound: check runs of a commit
    MaxStatuses,  \* bound: legacy statuses of a commit
    MaxPolls      \* bound: polls

VARIABLES
    checkRuns,  \* the commit's check runs, in the order they are listed
    statuses,   \* its legacy statuses, likewise
    gone,       \* the context is cancelled
    poll,       \* the poll's step, what it has read, the number of polls
    verdict     \* what ValidatePR returned

checksVars == <<checkRuns, statuses, gone, poll, verdict>>

\* A check run as analyzeCheckResults tells them apart.  "unknown" are the
\* statuses and conclusions the switch has no case for (waiting, stale,
\* startup_failure).  The runs that happen here are one of each group.
Pending   == {"queued", "in_progress", "action_required"}
Passing   == {"success", "neutral", "skipped"}
Failing   == {"failure", "cancelled", "timed_out"}
RunKinds  == {"in_progress", "success", "failure", "unknown"}
\* The combined status: its own names for the same three groups.
StatusKinds == {"pending", "success", "failure"}

ChecksInit ==
    /\ checkRuns = << >> /\ statuses = << >>
    /\ gone = FALSE
    /\ poll = [at |-> "loop", count |-> 0, runs |-> << >>, statuses |-> << >>]
    /\ verdict = "none"

-----------------------------------------------------------------------------
(* The checks, and the people.                                             *)

\* A check is created, or changes its state (a re-run makes it pending again).
CheckRunChanges ==
    /\ \E kind \in RunKinds :
          \/ /\ Len(checkRuns) < MaxRuns
             /\ checkRuns' = Append(checkRuns, kind)
          \/ \E i \in DOMAIN checkRuns : checkRuns' = [checkRuns EXCEPT ![i] = kind]
    /\ UNCHANGED <<statuses, gone, poll, verdict>>

StatusChanges ==
    /\ \E kind \in StatusKinds :
          \/ /\ Len(statuses) < MaxStatuses
             /\ statuses' = Append(statuses, kind)
          \/ \E i \in DOMAIN statuses : statuses' = [statuses EXCEPT ![i] = kind]
    /\ UNCHANGED <<checkRuns, gone, poll, verdict>>

CancelValidation ==
    /\ ~gone
    /\ gone' = TRUE
    /\ UNCHANGED <<checkRuns, statuses, poll, verdict>>

-----------------------------------------------------------------------------
(* The poll.                                                               *)

Decide(result) ==
    /\ verdict' = result
    /\ poll' = [poll EXCEPT !.at = "returned"]

\* The context and the timeout, which may be up by now, are looked at before a
\* poll only: the sleep between two polls is not interrupted.  The head may be
\* another commit than the last time, whose checks are not created yet.
StartPoll ==
    /\ poll.at = "loop"
    /\ \/ /\ Decide("error")
          /\ UNCHANGED <<checkRuns, statuses>>
       \/ /\ ~gone /\ poll.count < MaxPolls
          /\ poll' = [poll EXCEPT !.at = "runs", !.count = @ + 1]
          /\ \/ UNCHANGED <<checkRuns, statuses>>
             \/ checkRuns' = << >> /\ statuses' = << >>
          /\ UNCHANGED verdict
    /\ UNCHANGED gone

ListCheckRuns ==
    /\ poll.at = "runs"
    /\ poll' = [poll EXCEPT !.at = "statuses", !.runs = checkRuns]
    /\ UNCHANGED <<checkRuns, statuses, gone, verdict>>

GetCombinedStatus ==
    /\ poll.at = "statuses"
    /\ poll' = [poll EXCEPT !.at = "analyze", !.statuses = statuses]
    /\ UNCHANGED <<checkRuns, statuses, gone, verdict>>

CheckRequestFails ==
    /\ poll.at \in {"runs", "statuses"}
    /\ Decide("error")
    /\ UNCHANGED <<checkRuns, statuses, gone>>

NoResult == [status |-> "pending", passing |-> TRUE, failed |-> 0, pending |-> 0]
IsPending(result) == [result EXCEPT !.status = "running", !.passing = FALSE, !.pending = @ + 1]
IsFailed(result)  == [result EXCEPT !.status = "failed", !.passing = FALSE, !.failed = @ + 1]

\* The loop over the check runs: the last one that is not passing sets Status.
AddCheckRun(result, kind) ==
    CASE kind \in Pending -> IsPending(result)
      [] kind \in Failing -> IsFailed(result)
      [] OTHER            -> result

\* Variant: a failed status is listed and passing is not taken back.
AddStatusLeniently(result, kind) ==
    CASE kind = "pending" -> IsPending(result)
      [] kind = "failure" -> [result EXCEPT !.failed = @ + 1]
      [] OTHER            -> result

\* The loop over the legacy statuses.
AddStatus(result, kind) ==
    CASE kind = "pending"            -> IsPending(result)
      [] kind \in {"failure", "error"} -> IsFailed(result)
      [] OTHER                       -> result

\* The final status.
Final(result) ==
    IF result.passing /\ result.pending = 0 THEN "success"
    ELSE IF result.failed > 0 THEN "failed"
    ELSE IF result.pending > 0 /\ result.status # "running" THEN "pending"
    ELSE result.status

\* The two loops: what they hold after the first n runs, then after n statuses.
AfterRuns(runs) ==
    LET result[n \in 0..Len(runs)] ==
            IF n = 0 THEN NoResult ELSE AddCheckRun(result[n - 1], runs[n])
    IN result

AfterStatuses(before, legacy) ==
    LET result[n \in 0..Len(legacy)] ==
            IF n = 0 THEN before ELSE AddStatus(result[n - 1], legacy[n])
    IN result

AnalyzeCheckResults(runs, legacy) ==
    Final(AfterStatuses(AfterRuns(runs)[Len(runs)], legacy)[Len(legacy)])

\* Success and failure are returned, anything else is polled again.
Analyze ==
    /\ poll.at = "analyze"
    /\ LET status == AnalyzeCheckResults(poll.runs, poll.statuses)
       IN \/ /\ status \in {"success", "failed"}
             /\ Decide(status)
          \/ /\ status \notin {"success", "failed"}
             /\ poll' = [poll EXCEPT !.at = "loop", !.runs = << >>, !.statuses = << >>]
             /\ UNCHANGED verdict
    /\ UNCHANGED <<checkRuns, statuses, gone>>

ChecksNext ==
    \/ CheckRunChanges \/ StatusChanges \/ CancelValidation
    \/ StartPoll \/ ListCheckRuns \/ GetCombinedStatus \/ CheckRequestFails \/ Analyze

ChecksSpec == ChecksInit /\ [][ChecksNext]_checksVars

-----------------------------------------------------------------------------
\* A verdict does not depend on the order in which the checks are listed:
\* success when none of those that were read is pending or failed, failure when
\* one has failed, even with others still running (pr_validation.go:145-229).
VerdictIsSound ==
    LET seen == ToSet(poll.runs) \cup ToSet(poll.statuses)
    IN /\ verdict = "success" => seen \cap (Pending \cup Failing \cup {"pending"}) = {}
       /\ verdict = "failed"  => seen \cap Failing # {}

\* Known not to hold: a check that was not created yet is not waited for.
SuccessIsGreen ==
    verdict = "success" => ToSet(checkRuns) \subseteq Passing
=============================================================================
