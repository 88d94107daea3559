------------------------------ MODULE MCLiveParts ------------------------------
(***************************************************************************)
(* Components that share no state, in one run under the fairness of each:  *)
(* a behaviour is one of a single part, chosen in its first state, and the *)
(* variables of the others keep their first values.  LogForwarding is      *)
(* extended, the others are instances; the requests of Fleet are its inbox.*)
(***************************************************************************)
EXTENDS LogForwarding, FiniteSets

CONSTANTS
    Callers, MaxFailures, Timeout, MaxRequests, MinRequests, RatioNum, RatioDen,
    Created, MaxTime, MaxCount, RetryEnabled, Policies, Operations,
    MaxKeys, Procs, Creators, MaxRows,
    Users, Requests, MaxOrgs, MaxInvitations,
    Titles, WatchLabel, MaxPending, MaxRejected, MaxIssues, MaxFaults

VARIABLES
    part,
    state, failures, requests, successes, lastFailure, now, call,
    pc, frame, cancelled, applied, lost, wasted,
    row, rows, key, creator, proc, inbox, reused,
    users, linked, orgs, founded, role, invitation, tokens, work, joined,
    issues, engine, rejections, faults,
    signalled, agent, groupErr, orch, active, main, gaveUp, shut, timer, exit

Calls    == INSTANCE ProtectedCalls
Plane    == INSTANCE Fleet
Accounts == INSTANCE Tenancy
Ideas    == INSTANCE Suggestions
Process  == INSTANCE Orchestrator WITH Agents <- {"a1", "a2"}

\* In units of five seconds: the default policy with two attempts, and one for
\* GitHub that also retries a rate limit and names an error nobody knows.
MCPolicies ==
    [default |-> [attempts |-> 2, base |-> 1, cap |-> 6, factor |-> 2, jitter |-> 10,
                  retryable |-> {"network", "timeout", "api", "temporary"}],
     github_api |-> [attempts |-> 3, base |-> 1, cap |-> 1, factor |-> 2, jitter |-> 10,
                     retryable |-> {"network", "timeout", "rate_limit", "temporary", "dns"}]]

callVs    == <<state, failures, requests, successes, lastFailure, now, call,
               pc, frame, cancelled, applied, lost, wasted>>
fleetVs   == <<row, rows, key, creator, proc, inbox, reused>>
tenancyVs == <<users, linked, orgs, founded, role, invitation, tokens, work, joined>>
ideaVs    == <<issues, engine, rejections, faults>>
processVs == <<signalled, agent, groupErr, orch, active, main, gaveUp, shut, timer, exit>>
liveVars  == <<part, vars, callVs, fleetVs, tenancyVs, ideaVs, processVs>>

LiveInit ==
    /\ part \in {"log", "call", "fleet", "tenancy", "idea", "process"}
    /\ Init /\ Calls!CallInit /\ Plane!FleetInit /\ Accounts!TenancyInit
    /\ Ideas!SuggestionsInit /\ Process!ProcessInit

\* A step of the chosen part.
Log(A)     == /\ part = "log" /\ A
              /\ UNCHANGED <<part, callVs, fleetVs, tenancyVs, ideaVs, processVs>>
Call(A)    == /\ part = "call" /\ A
              /\ UNCHANGED <<part, vars, fleetVs, tenancyVs, ideaVs, processVs>>
OfFleet(A) == /\ part = "fleet" /\ A
              /\ UNCHANGED <<part, vars, callVs, tenancyVs, ideaVs, processVs>>
Account(A) == /\ part = "tenancy" /\ A
              /\ UNCHANGED <<part, vars, callVs, fleetVs, ideaVs, processVs>>
Idea(A)    == /\ part = "idea" /\ A
              /\ UNCHANGED <<part, vars, callVs, fleetVs, tenancyVs, processVs>>
Life(A)    == /\ part = "process" /\ A
              /\ UNCHANGED <<part, vars, callVs, fleetVs, tenancyVs, ideaVs>>

LiveNext ==
    \/ Log(Next)
    \/ Call(Calls!CallNext)
    \/ OfFleet(Plane!FleetNext)
    \/ Account(Accounts!TenancyNext)
    \/ Idea(Ideas!SuggestionsNext)
    \/ Life(Process!ProcessNext)

\* The fairness of each part, as its module states it.
LiveFairness ==
    /\ WF_vars(part = "log" /\ LoopFlush) /\ WF_vars(part = "log" /\ LoopPost)
    /\ WF_vars(part = "log" /\ SpawnedPost)
    /\ WF_vars(part = "log" /\ CloseFlush) /\ WF_vars(part = "log" /\ ClosePost)
    /\ \A h \in Handlers : WF_vars(part = "log" /\ SpawnedFlush(h))
    /\ \A c \in Callers : WF_callVs(part = "call" /\ Calls!Step(c))
    /\ \A p \in Procs : /\ WF_fleetVs(part = "fleet" /\ Plane!HeartbeatTicks(p))
                        /\ WF_fleetVs(part = "fleet" /\ Plane!IngestsFor(p))
                        /\ SF_fleetVs(part = "fleet" /\ Plane!FindsBeating(p))
                        /\ SF_fleetVs(part = "fleet" /\ Plane!Beats(p))
    /\ \A r \in Requests : WF_tenancyVs(part = "tenancy" /\ Accounts!Handles(r))
    /\ \A u \in Users : WF_tenancyVs(part = "tenancy" /\ Accounts!TokenEnds(u))
    /\ WF_ideaVs(part = "idea" /\ Ideas!AgentStep)
    /\ WF_processVs(part = "process" /\ Process!RunStart)
    /\ WF_processVs(part = "process" /\ Process!ForceShutdown)
    /\ WF_processVs(part = "process" /\ Process!ForcedExit)

LiveSpec == LiveInit /\ [][LiveNext]_liveVars /\ LiveFairness

-----------------------------------------------------------------------------
\* The properties of the parts, stated and explained in their modules.

\* ProtectedCalls: a cancelled call returns.
CancelEnds == Calls!CancelEnds

\* Fleet: an agent that runs is shown online sooner or later.
RunningIsOnline == Plane!RunningIsOnline

\* Tenancy: who was removed ends without a token for the organization.
RemovedIsForgotten == Accounts!RemovedIsForgotten

\* Suggestions: an issue to work on is taken up although the engine runs.
WorkEndsCreativity == Ideas!WorkEndsCreativity

\* Orchestrator: a signal ends the process, in order if it ends with success.
ShutdownCompletes == Process!ShutdownCompletes
=============================================================================
