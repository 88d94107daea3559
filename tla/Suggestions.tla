---------------------------- MODULE Suggestions ----------------------------
(***************************************************************************)
(* The creativity engine (internal/creativity) in the poller's idle        *)
(* handler (internal/ghub/poller.go, internal/developer/developer.go): a   *)
(* poll that finds no work promotes a suggestion and then runs the engine, *)
(* and while the engine runs the poller does not poll.  The engine makes   *)
(* suggestions until it sees work itself.                                  *)
(***************************************************************************)
EXTENDS Integers, Sequences, FiniteSets

CONSTANTS
    Titles,      \* the ideas the model can have
    WatchLabel,  \* the label the poller watches (github.watch_labels)
    MaxPending,  \* creativity.max_pending_suggestions
    MaxRejected, \* creativity.max_rejection_history, at least 1
    MaxIssues,   \* bound: issues
    MaxFaults    \* bound: failed requests

VARIABLES
    issues,      \* the repository's issues: title, labels, open or closed
    engine,      \* the poller's and the engine's step, what it has read
    rejections,  \* RejectionCache.titles, oldest first
    faults       \* number of requests that failed

suggestionVars == <<issues, engine, rejections, faults>>

LabelReady    == "ready"
LabelRejected == "rejected"

Open(label) == {i \in DOMAIN issues : issues[i].open /\ label \in issues[i].labels}
TitlesOf(numbers) == {issues[i].title : i \in numbers}

Goto(step) == engine' = [engine EXCEPT !.at = step]

SuggestionsInit ==
    /\ issues = << >>
    /\ engine = [at |-> "poll", known |-> {}, idea |-> CHOOSE t \in Titles : TRUE]
    /\ rejections = << >>
    /\ faults = 0

-----------------------------------------------------------------------------
(* People.                                                                 *)

NewIssue(title, labels) ==
    /\ Len(issues) < MaxIssues
    /\ issues' = Append(issues, [title |-> title, labels |-> labels, open |-> TRUE])

FileIssue ==
    /\ \E title \in Titles : NewIssue(title, {WatchLabel})
    /\ UNCHANGED <<engine, rejections, faults>>

\* A suggestion is approved, rejected (and left open or closed) or closed.
Review ==
    /\ \E i \in Open("suggestion") :
          \/ issues' = [issues EXCEPT ![i].labels = @ \cup {WatchLabel}]
          \/ \E open \in BOOLEAN :
                issues' = [issues EXCEPT ![i].labels = {LabelRejected}, ![i].open = open]
          \/ issues' = [issues EXCEPT ![i].open = FALSE]
    /\ UNCHANGED <<engine, rejections, faults>>

-----------------------------------------------------------------------------
(* The poller and its idle handler.                                        *)

\* Found issues go to the workflow, which leaves none of them with the label.
Poll ==
    /\ engine.at = "poll"
    /\ \/ /\ Open(WatchLabel) # {}
          /\ issues' = [i \in DOMAIN issues |->
                          [issues[i] EXCEPT !.labels = IF i \in Open(WatchLabel) THEN {} ELSE @]]
          /\ UNCHANGED engine
       \/ /\ Open(WatchLabel) = {}
          /\ Goto("promote")
          /\ UNCHANGED issues
    /\ UNCHANGED <<rejections, faults>>

\* promoteOneSuggestion: one issue with no other label, unless an agent is
\* busy, a pull request is open or a request fails.
PromoteOneSuggestion ==
    /\ engine.at = "promote"
    /\ Goto("load")
    /\ \/ UNCHANGED issues
       \/ \E i \in Open("suggestion") :
             /\ issues[i].labels = {"suggestion"}
             /\ issues' = [issues EXCEPT ![i].labels = @ \cup {LabelReady}]
    /\ UNCHANGED <<rejections, faults>>

-----------------------------------------------------------------------------
(* The engine.                                                             *)

\* RejectionCache.Add: no duplicates, the oldest is dropped at the limit.
AddRejection(cache, title) ==
    IF \E k \in DOMAIN cache : cache[k] = title THEN cache
    ELSE Append(IF Len(cache) >= MaxRejected THEN Tail(cache) ELSE cache, title)

\* loadRejectionHistory lists by the rejected label, which gives open issues
\* only; an error is logged.
LoadRejectionHistory ==
    /\ engine.at = "load"
    /\ Goto("check")
    /\ \/ UNCHANGED rejections
       \/ LET rejected == Open(LabelRejected)
              add[S \in SUBSET rejected] ==
                 IF S = {} THEN rejections
                 ELSE LET i == CHOOSE i \in S : \A j \in S : i >= j
                      IN AddRejection(add[S \ {i}], issues[i].title)
          IN rejections' = add[rejected]
    /\ UNCHANGED <<issues, faults>>

\* checkForAvailableWork looks for its own label, whatever the poller watches.
CheckForAvailableWork ==
    /\ engine.at = "check"
    /\ Goto(IF Open(LabelReady) # {} THEN "poll" ELSE "pending")
    /\ UNCHANGED <<issues, rejections, faults>>

HasPendingSuggestion ==
    /\ engine.at = "pending"
    /\ Goto(IF Cardinality(Open("suggestion")) >= MaxPending THEN "sleep" ELSE "gather")
    /\ UNCHANGED <<issues, rejections, faults>>

\* gatherContext: the titles of the open and the pending issues.  The closed
\* ones go into the prompt only.
GatherContext ==
    /\ engine.at = "gather"
    /\ engine' = [engine EXCEPT !.at = "generate",
                    !.known = TitlesOf(Open(LabelReady) \cup Open("suggestion"))]
    /\ UNCHANGED <<issues, rejections, faults>>

\* The model's answer: an idea, or none that can be parsed.
GenerateSuggestion ==
    /\ engine.at = "generate"
    /\ \/ Goto("sleep")
       \/ \E title \in Titles :
             engine' = [engine EXCEPT !.at = "decide", !.idea = title]
    /\ UNCHANGED <<issues, rejections, faults>>

\* isDuplicate: against what was gathered and the rejections it knows.
IsDuplicate(title) ==
    \/ title \in engine.known
    \/ \E k \in DOMAIN rejections : rejections[k] = title

SkipDuplicate ==
    /\ engine.at = "decide" /\ IsDuplicate(engine.idea)
    /\ Goto("check")
    /\ UNCHANGED <<issues, rejections, faults>>

CreateSuggestionIssue ==
    /\ engine.at = "decide" /\ ~IsDuplicate(engine.idea)
    /\ NewIssue(engine.idea, {"suggestion"})
    /\ Goto("sleep")
    /\ UNCHANGED <<rejections, faults>>

\* Bound: no room for another issue.
NoMoreIssues ==
    /\ engine.at = "decide" /\ Len(issues) = MaxIssues
    /\ Goto("sleep")
    /\ UNCHANGED <<issues, rejections, faults>>

\* Variant: after the cooldown only the pending suggestions are counted again.
AfterSleep == "pending"

\* The cooldown is over: the loop begins again with the check for work.
NextRound == "check"

Sleep ==
    /\ engine.at = "sleep"
    /\ Goto(NextRound)
    /\ UNCHANGED <<issues, rejections, faults>>

\* An error of any request but the tolerated ones ends the engine, or the poll;
\* the poller goes on at its next tick.
RequestFails ==
    /\ engine.at \in {"poll", "check", "pending", "gather", "decide"}
    /\ faults < MaxFaults
    /\ faults' = faults + 1
    /\ Goto("poll")
    /\ UNCHANGED <<issues, rejections>>

AgentStep ==
    \/ Poll \/ PromoteOneSuggestion
    \/ LoadRejectionHistory \/ CheckForAvailableWork \/ HasPendingSuggestion
    \/ GatherContext \/ GenerateSuggestion \/ SkipDuplicate \/ CreateSuggestionIssue
    \/ NoMoreIssues \/ Sleep \/ RequestFails

SuggestionsNext == FileIssue \/ Review \/ AgentStep

\* The agent runs on: its one goroutine is never stopped here, the cooldown
\* ends and every request gets an answer or a timeout.
SuggestionsFairness == WF_suggestionVars(AgentStep)

SuggestionsSpec ==
    SuggestionsInit /\ [][SuggestionsNext]_suggestionVars /\ SuggestionsFairness

-----------------------------------------------------------------------------
\* An issue the poller is to work on is taken up in the end, although the
\* poller stands still while the engine thinks, sleeps or meets duplicates:
\* the engine sees the issue and makes way (creativity.go:107-173,
\* work_check.go:15).  It needs the poller to watch the engine's own label.
WorkEndsCreativity ==
    \A i \in 1..MaxIssues :
        (i \in DOMAIN issues /\ i \in Open(WatchLabel))
            ~> (i \in DOMAIN issues /\ i \notin Open(WatchLabel))

\* Known not to hold: the rejected ideas that are loaded are those of open
\* issues, the engine does not look at them again while it runs, and closed
\* issues are not compared.
RejectedStaysRejected ==
    \A i, j \in DOMAIN issues :
        i < j /\ LabelRejected \in issues[i].labels /\ "suggestion" \in issues[j].labels
            => issues[i].title # issues[j].title
=============================================================================
