--------------------------------- MODULE Fleet ---------------------------------
(***************************************************************************)
(* The agents of one organization as the control plane knows them: rows of *)
(* the table agents, made by the ingestion of registrations and by the     *)
(* console, the API keys that carry an agent's name, and the requests of   *)
(* running agent processes, each handled in several statements.  Names are *)
(* numbers: "developer-01" is 1.                                           *)
(***************************************************************************)
EXTENDS Integers, FiniteSets

CONSTANTS
    MaxKeys,        \* bound: API keys issued
    Procs,          \* agent processes
    Creators,       \* requests of the console that create keys
    MaxRows         \* bound: rows inserted into agents

Keys == 1..MaxKeys
Names == 1..MaxKeys

VARIABLES
    row,        \* per name, the agent's row: its id and status, or NoRow
    rows,       \* number of rows inserted
    key,        \* per key, its name and state
    creator,    \* per request that creates a key: its next statement and name
    proc,       \* per process: state, key, and the events it still has to send
    inbox,      \* requests of agents the control plane has not answered
    reused      \* a key was revoked, named by hand, or created beside another

fleetVars == <<row, rows, key, creator, proc, inbox, reused>>

NoRow == [id |-> 0, status |-> "none"]
NoKey == [name |-> 0, state |-> "none"]
IdleCreator == [at |-> "idle", name |-> 0]

FleetInit ==
    /\ row = [n \in Names |-> NoRow] /\ rows = 0
    /\ key = [k \in Keys |-> NoKey]
    /\ creator = [c \in Creators |-> IdleCreator]
    /\ proc = [p \in Procs |-> [at |-> "down", name |-> 0, key |-> 0, events |-> {}]]
    /\ inbox = {} /\ reused = FALSE

Issued == {k \in Keys : key[k] # NoKey}
Live == {k \in Keys : key[k].state = "live"}

-----------------------------------------------------------------------------
(* The console.                                                            *)

\* Register of the store: INSERT, or ON CONFLICT an agent that is online.
Register(n, status) ==
    IF row[n] = NoRow
    THEN /\ rows < MaxRows /\ rows' = rows + 1
         /\ row' = [row EXCEPT ![n] = [id |-> rows + 1, status |-> status]]
    ELSE /\ row' = [row EXCEPT ![n].status = "online"] /\ UNCHANGED rows

\* CountByAgentType.  Variant: the agents are counted instead of the keys.
CountAgents == Cardinality({n \in Names : row[n] # NoRow})
CountByAgentType == Cardinality(Live)

Creating(c, step) == creator' = [creator EXCEPT ![c] = step]

\* HandleCreate of API keys and HandleProvision choose a name: the number of
\* live keys and one, or the name the request asks for.
ChooseName(c) ==
    /\ creator[c].at = "idle"
    /\ \E n \in Names, next \in {"register", "insert"} :
          /\ Creating(c, [at |-> next, name |-> n])
          /\ reused' = (reused \/ n # CountByAgentType + 1
                        \/ \E d \in Creators \ {c} : creator[d].at # "idle")
    /\ UNCHANGED <<row, rows, key, proc, inbox>>

ProvisionRegisters(c) ==
    /\ creator[c].at = "register"
    /\ \/ Register(creator[c].name, "offline") /\ Creating(c, [creator[c] EXCEPT !.at = "insert"])
       \/ UNCHANGED <<row, rows>> /\ Creating(c, IdleCreator)
    /\ UNCHANGED <<key, proc, inbox, reused>>

InsertKey(c) ==
    /\ creator[c].at = "insert"
    /\ Creating(c, IdleCreator)
    /\ LET k == Cardinality(Issued) + 1 IN
       \/ k \in Keys /\ key' = [key EXCEPT ![k] = [name |-> creator[c].name, state |-> "live"]]
       \/ UNCHANGED key
    /\ UNCHANGED <<row, rows, proc, inbox, reused>>

HandleRevoke(k) ==
    /\ key[k].state = "live" /\ key' = [key EXCEPT ![k].state = "revoked"]
    /\ reused' = TRUE
    /\ UNCHANGED <<row, rows, creator, proc, inbox>>

\* HandleRegister of the console; the status "registered" is one that is not online.
HandleRegister(n) ==
    /\ Register(n, "offline")
    /\ UNCHANGED <<key, creator, proc, inbox, reused>>

HandleDelete(n) ==
    /\ row[n] # NoRow /\ row' = [row EXCEPT ![n] = NoRow]
    /\ UNCHANGED <<rows, key, creator, proc, inbox, reused>>

Console ==
    \/ \E c \in Creators : ChooseName(c) \/ ProvisionRegisters(c) \/ InsertKey(c)
    \/ \E k \in Keys : HandleRevoke(k)
    \/ \E n \in Names : HandleRegister(n) \/ HandleDelete(n)

-----------------------------------------------------------------------------
(* Agent processes, as pkg/reporter has them talk to the control plane.    *)

Sends(p, what, sent) ==
    inbox' = inbox \cup {[from |-> p, what |-> what, events |-> sent, at |-> "sent", id |-> 0]}
InFlight(p, what) == \E r \in inbox : r.from = p /\ r.what = what

\* A process may start again while requests of its last run are on their way.
ProcessStarts(p) ==
    /\ proc[p].at = "down" /\ ~InFlight(p, "register")
    /\ \E k \in Live :
       /\ k = proc[p].key \/ ~\E r \in inbox : r.from = p
       /\ proc' = [proc EXCEPT ![p] = [at |-> "up", name |-> key[k].name, key |-> k, events |-> {}]]
    /\ Sends(p, "register", {})
    /\ UNCHANGED <<row, rows, key, creator, reused>>

HeartbeatTicks(p) ==
    /\ proc[p].at = "up" /\ ~InFlight(p, "heartbeat")
    /\ Sends(p, "heartbeat", {})
    /\ UNCHANGED <<row, rows, key, creator, proc, reused>>

\* flushLoop sends what the process reported.
FlushLoopSends(p) ==
    /\ proc[p].at # "down" /\ proc[p].events # {} /\ ~InFlight(p, "batch")
    /\ Sends(p, "batch", proc[p].events)
    /\ proc' = [proc EXCEPT ![p].events = {}]
    /\ UNCHANGED <<row, rows, key, creator, reused>>

\* Close reports agent.stopped and flushes, beside flushLoop's batch.
CloseFlushes(p) ==
    /\ proc[p].at = "up" /\ ~InFlight(p, "last")
    /\ proc' = [proc EXCEPT ![p].at = "down", ![p].events = {}]
    /\ Sends(p, "last", proc[p].events \cup {"stopped"})
    /\ UNCHANGED <<row, rows, key, creator, reused>>

AgentDies(p) ==
    /\ proc[p].at = "up" /\ proc' = [proc EXCEPT ![p].at = "down", ![p].events = {}]
    /\ UNCHANGED <<row, rows, key, creator, inbox, reused>>

Process(p) ==
    ProcessStarts(p) \/ HeartbeatTicks(p) \/ FlushLoopSends(p) \/ CloseFlushes(p) \/ AgentDies(p)

-----------------------------------------------------------------------------
(* The ingestion handlers.                                                 *)

Answers(r) == inbox' = inbox \ {r}
Continues(r, s) == inbox' = (inbox \ {r}) \cup {s}

\* RequireAPIKey: a revoked key is refused.
Authentic(r) == proc[r.from].key \in Live
NameOf(r) == proc[r.from].name

\* The key or the agent is unknown, or cannot be read.
Refused(r) ==
    /\ r.at = "sent" /\ Answers(r)
    /\ UNCHANGED <<row, rows, key, creator, proc, reused>>

\* HandleIngestRegister: the agent reports agent.started once it is answered.
IngestRegister(r) ==
    /\ r.at = "sent" /\ r.what = "register" /\ Authentic(r)
    /\ Answers(r)
    /\ \/ /\ Register(NameOf(r), "online")
          /\ proc' = IF proc[r.from].at = "up"
                     THEN [proc EXCEPT ![r.from].events = @ \cup {"started"}] ELSE proc
       \/ UNCHANGED <<row, rows, proc>>
    /\ UNCHANGED <<key, creator, reused>>

\* GetByOrgAndName: the handler goes on with the id of the row.
FindsAgent(r) ==
    /\ r.at = "sent" /\ r.what # "register" /\ Authentic(r) /\ row[NameOf(r)] # NoRow
    /\ Continues(r, [r EXCEPT !.at = "found", !.id = row[NameOf(r)].id])
    /\ UNCHANGED <<row, rows, key, creator, proc, reused>>

SameRow(r) == row[NameOf(r)].id = r.id

\* UpdateHeartbeat, which may fail.  Variant: only the time of the heartbeat is stored.
KeepStatus(r) == row[NameOf(r)].status
Beating(r) == "online"

IngestHeartbeat(r) ==
    /\ r.at = "found" /\ r.what = "heartbeat"
    /\ Answers(r)
    /\ row' = IF SameRow(r) THEN [row EXCEPT ![NameOf(r)].status = Beating(r)] ELSE row
    /\ UNCHANGED <<rows, key, creator, proc, reused>>

HeartbeatFails(r) ==
    /\ r.at = "found" /\ r.what = "heartbeat" /\ Answers(r)
    /\ UNCHANGED <<row, rows, key, creator, proc, reused>>

\* HandleIngestBatch: the events are stored in one transaction, which fails
\* when the agent is gone; updateAgentStatusFromEvent then goes through them,
\* and agent.stopped is the last a process reports.
StatusAfter(events, status) ==
    IF "stopped" \in events THEN "offline" ELSE IF "started" \in events THEN "online" ELSE status

IngestBatch(r) ==
    /\ r.at = "found" /\ r.what \in {"batch", "last"}
    /\ Answers(r)
    /\ \/ UNCHANGED row
       \/ SameRow(r) /\ row' = [row EXCEPT ![NameOf(r)].status = StatusAfter(r.events, @)]
    /\ UNCHANGED <<rows, key, creator, proc, reused>>

Ingest(r) ==
    \/ Refused(r) \/ FindsAgent(r)
    \/ IngestRegister(r) \/ IngestHeartbeat(r) \/ HeartbeatFails(r) \/ IngestBatch(r)

IngestsFor(p) == \E r \in inbox : r.from = p /\ Ingest(r)
FindsBeating(p) == \E r \in inbox : r.from = p /\ r.what = "heartbeat" /\ FindsAgent(r)
Beats(p) == \E r \in inbox : r.from = p /\ IngestHeartbeat(r)

FleetNext ==
    \/ Console
    \/ \E p \in Procs : Process(p)
    \/ \E r \in inbox : Ingest(r)

\* The ticker of Heartbeat fires, the handlers of the control plane end, and the
\* database does not fail every heartbeat that keeps coming.  Nobody has to start
\* or to stop a process, to report or to use the console.
FleetFairness == \A p \in Procs :
    /\ WF_fleetVars(HeartbeatTicks(p)) /\ WF_fleetVars(IngestsFor(p))
    /\ SF_fleetVars(FindsBeating(p)) /\ SF_fleetVars(Beats(p))

FleetSpec == FleetInit /\ [][FleetNext]_fleetVars /\ FleetFairness

-----------------------------------------------------------------------------
(* Properties.                                                             *)

\* An agent that runs with a valid key is shown online sooner or later,
\* whatever stopped, renamed or reordered process overwrites its status.
Reachable(p) ==
    proc[p].at = "up" /\ proc[p].key \in Live /\ row[proc[p].name] # NoRow
RunningIsOnline ==
    \A p \in Procs : Reachable(p) ~> (~Reachable(p) \/ row[proc[p].name].status = "online")

\* Two live keys share an agent's identity only if some key was revoked, got
\* its name by hand, or was created while another request counted.
NamesDiffer == ~reused => \A k, l \in Live : key[k].name = key[l].name => k = l
=============================================================================
