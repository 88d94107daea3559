------------------------------- MODULE MCParts -------------------------------
(***************************************************************************)
(* Instances of the components that share no state with each other, in one *)
(* run: each behaviour is one of a single part, chosen in its first state, *)
(* while the variables of the others keep their first values.              *)
(* Their properties are stated and explained in their modules.             *)
(***************************************************************************)
EXTENDS ProtectedCalls, Conversation, HotReload, Recovery, Workspaces, Snapshots,
        Tunnel, Hub, Fleet, Tenancy, Resume, Checks, LogFiles

VARIABLE part

\* In units of five seconds: the default policy with two attempts, and one for
\* GitHub that also retries a rate limit and names an error nobody knows.
MCPolicies ==
    [default |-> [attempts |-> 2, base |-> 1, cap |-> 6, factor |-> 2, jitter |-> 10,
                  retryable |-> {"network", "timeout", "api", "temporary"}],
     github_api |-> [attempts |-> 3, base |-> 1, cap |-> 1, factor |-> 2, jitter |-> 10,
                     retryable |-> {"network", "timeout", "rate_limit", "temporary", "dns"}]]

\* The hub has two parts: a broadcast to two clients, and several to one.
Parts == {"calls", "tunnel", "hub", "stream", "keys", "tenancy", "workspace", "snapshot",
          "recovery", "resume", "log", "talk", "check", "reload"}

\* One first state of each part that is not chosen.
Rest ==
    /\ part = "tunnel"             \/ setting = FALSE
    /\ part = "hub"                \/ hub = {}
    /\ part = "snapshot"           \/ compress = FALSE
    /\ part = "recovery"           \/ /\ labels = {"claimed"}
                                      /\ record = CHOOSE r \in Left : TRUE
    /\ part = "resume"             \/ (reached = "claim" /\ snapshot = NoSnapshot)

PartsInit ==
    /\ part \in Parts /\ Rest
    /\ CallInit /\ TunnelInit /\ HubInit /\ FleetInit /\ TenancyInit
    /\ WorkspaceInit /\ SnapshotInit
    /\ RecoveryInit /\ ResumeInit
    /\ LogFilesInit /\ ConversationInit /\ ChecksInit /\ HotInit

callsVs == <<state, failures, requests, successes, lastFailure, now, call,
             pc, frame, cancelled, applied, lost, wasted>>
recoveryVs == <<record, labels, issue, pr, dir, repair, read, unlabelled>>
talkVs == <<messages, phase, iteration, todo, results, calls, sends>>
reloadVs == <<file, versions, current, told, watching, lastMod, loader>>

firstVs  == <<callsVs, tunnelVars, hubVars, fleetVars, tenancyVars>>
secondVs == <<workspaceVars, snapshotVars, recoveryVs, resumeVars>>
thirdVs  == <<logVars, talkVs, checksVars, reloadVs>>

\* Bound: the first part of the hub has one message, the second one client.
HubBound == IF part = "hub" THEN request'[2] = "none" ELSE conn'["k2"] = "none"

ControlPlane ==
    \/ /\ part = "calls" /\ CallNext
       /\ UNCHANGED <<tunnelVars, hubVars, fleetVars, tenancyVars>>
    \/ /\ part = "tunnel" /\ TunnelNext
       /\ UNCHANGED <<callsVs, hubVars, fleetVars, tenancyVars>>
    \/ /\ part \in {"hub", "stream"} /\ HubNext /\ HubBound
       /\ UNCHANGED <<callsVs, tunnelVars, fleetVars, tenancyVars>>
    \/ /\ part = "keys" /\ Console
       /\ UNCHANGED <<callsVs, tunnelVars, hubVars, tenancyVars>>
    \/ /\ part = "tenancy" /\ TenancyNext
       /\ UNCHANGED <<callsVs, tunnelVars, hubVars, fleetVars>>

Work ==
    \/ /\ part = "workspace" /\ WorkspaceNext
       /\ UNCHANGED <<snapshotVars, recoveryVs, resumeVars>>
    \/ /\ part = "snapshot" /\ SnapshotNext
       /\ UNCHANGED <<workspaceVars, recoveryVs, resumeVars>>
    \/ /\ part = "recovery" /\ RecoveryNext
       /\ UNCHANGED <<workspaceVars, snapshotVars, resumeVars>>
    \/ /\ part = "resume" /\ ResumeNext
       /\ UNCHANGED <<workspaceVars, snapshotVars, recoveryVs>>

AgentProcess ==
    \/ /\ part = "log" /\ LogFilesNext
       /\ UNCHANGED <<talkVs, checksVars, reloadVs>>
    \/ /\ part = "talk" /\ ConversationNext
       /\ UNCHANGED <<logVars, checksVars, reloadVs>>
    \/ /\ part = "check" /\ ChecksNext
       /\ UNCHANGED <<logVars, talkVs, reloadVs>>
    \/ /\ part = "reload" /\ HotNext
       /\ UNCHANGED <<logVars, talkVs, checksVars>>

PartsNext ==
    /\ UNCHANGED part
    /\ \/ ControlPlane /\ UNCHANGED <<secondVs, thirdVs>>
       \/ Work /\ UNCHANGED <<firstVs, thirdVs>>
       \/ AgentProcess /\ UNCHANGED <<firstVs, secondVs>>

PartsSpec == PartsInit /\ [][PartsNext]_<<part, firstVs, secondVs, thirdVs>>
=============================================================================
