------------------------------ MODULE Workspaces ------------------------------
(***************************************************************************)
(* Manager and cleanup Scheduler of internal/workspace.  The cache of the  *)
(* manager has no lock: the workflow, the scheduler's goroutine and the    *)
(* agent's Status() read and write it, and the scheduler decides on the    *)
(* objects it listed but removes by issue number.  Objects are numbered,   *)
(* 0 is none.                                                              *)
(***************************************************************************)
EXTENDS Integers, FiniteSets

CONSTANTS
    Issues,
    MaxConcurrent,  \* active workspaces at a time
    MaxObjects      \* bound: Workspace objects made by one process

ASSUME WorkspaceAssumption ==
    /\ IsFiniteSet(Issues) /\ Issues # {}
    /\ MaxObjects \in Nat /\ Cardinality(Issues) <= MaxObjects

Objects == 1..MaxObjects

VARIABLES
    dirs,       \* the issues whose directory exists
    made,       \* number of objects
    object,     \* per object: issue, state, whether SizeMB exceeds MaxSizeMB, and
                \* whether its retention is over
    cache,      \* m.workspaces: the object of each issue
    workflow,   \* processIssue: its step, issue and object
    scheduler,  \* its goroutine: step, listed objects and the issue being removed
    stopper,    \* the caller of Stop
    ended,      \* the context is cancelled
    overlap     \* a workflow took an issue while the scheduler held its last workspace

workspaceVars == <<dirs, made, object, cache, workflow, scheduler, stopper, ended, overlap>>

NoObject == [issue |-> CHOOSE i \in Issues : TRUE, state |-> "none", big |-> FALSE, old |-> FALSE]
Resting == [at |-> "idle", issue |-> NoObject.issue, object |-> 0]
NotRunning == [at |-> "off", list |-> {}, issue |-> NoObject.issue, object |-> 0]

Cached(i) == cache[i] # 0
Active == {i \in Issues : Cached(i) /\ object[cache[i]].state = "active"}

\* loadExistingWorkspaces: every directory becomes a stale workspace.  Those that
\* are too big or too old by now become so in the next steps (GetWorkspaceStats, GrowsOld).
Loaded(found) ==
    LET issueOf == CHOOSE f \in [1..Cardinality(found) -> found] :
                      \A a, b \in DOMAIN f : f[a] = f[b] => a = b
        numberOf == [i \in found |-> CHOOSE n \in DOMAIN issueOf : issueOf[n] = i]
    IN  /\ made' = Cardinality(found)
        /\ cache' = [i \in Issues |-> IF i \in found THEN numberOf[i] ELSE 0]
        /\ object' = [o \in Objects |->
              IF o <= Cardinality(found)
              THEN [issue |-> issueOf[o], state |-> "stale", big |-> FALSE, old |-> FALSE]
              ELSE NoObject]

WorkspaceInit ==
    /\ dirs = {} /\ made = 0 /\ ended = FALSE /\ overlap = FALSE
    /\ object = [o \in Objects |-> NoObject]
    /\ cache = [i \in Issues |-> 0]
    /\ workflow = Resting /\ scheduler = NotRunning /\ stopper = "none"

-----------------------------------------------------------------------------
(* The manager's methods.                                                  *)

Stamped(o, state) == object' = [object EXCEPT ![o].state = state, ![o].old = FALSE]

\* UpdateWorkspaceState: an error without an object.
UpdateWorkspaceState(i, state) ==
    IF Cached(i) THEN Stamped(cache[i], state) ELSE UNCHANGED object

checkConcurrentLimit == Cardinality(Active) < MaxConcurrent

\* The scheduler is about to remove issue i, or has still to decide on it.
Listed(i) ==
    \/ scheduler.at \in {"remove", "forget"} /\ scheduler.issue = i
    \/ \E o \in scheduler.list : object[o].issue = i

\* CreateWorkspace up to the directory: an active workspace is returned as it
\* is, and there may be too little disk space or too many workspaces.
CreateWorkspace(i) ==
    /\ workflow.at = "idle" /\ ~ended
    /\ \/ /\ i \in Active
          /\ workflow' = [at |-> "working", issue |-> i, object |-> cache[i]]
          /\ UNCHANGED <<dirs, overlap>>
       \/ /\ i \notin Active /\ checkConcurrentLimit
          /\ dirs' = dirs \cup {i}
          /\ workflow' = [at |-> "cache", issue |-> i, object |-> 0]
          /\ overlap' = (overlap \/ Listed(i))
    /\ UNCHANGED <<made, object, cache, scheduler, stopper, ended>>

CacheWorkspace ==
    /\ workflow.at = "cache" /\ made < MaxObjects
    /\ LET i == workflow.issue IN
       /\ made' = made + 1
       /\ object' = [object EXCEPT ![made + 1] =
                       [issue |-> i, state |-> "active", big |-> FALSE, old |-> FALSE]]
       /\ cache' = [cache EXCEPT ![i] = made + 1]
       /\ workflow' = [workflow EXCEPT !.at = "working", !.object = made + 1]
       /\ overlap' = (overlap \/ Listed(i))
    /\ UNCHANGED <<dirs, scheduler, stopper, ended>>

\* GetWorkspaceStats and GetWorkspace, called by Status(), calculate the sizes
\* that are still 0.
GetWorkspaceStats ==
    /\ \E i \in dirs : Cached(i) /\ object' = [object EXCEPT ![cache[i]].big = TRUE]
    /\ UNCHANGED <<dirs, made, cache, workflow, scheduler, stopper, ended, overlap>>

\* After an error the entry stays.  Variant: the error is only logged.
OnlyLogged == "forget"
AfterError == "done"

\* CleanupWorkspace of whoever is at "remove": the object is looked up and the
\* directory removed, if there is one or the other.
RemoveAll(i, Next(_, _)) ==
    \/ /\ Cached(i) \/ i \in dirs
       /\ dirs' = dirs \ {i}
       /\ Next("forget", cache[i])
    \/ UNCHANGED dirs /\ Next(AfterError, 0)    \* not found, or RemoveAll fails

\* Then the entry of the map goes, whatever object it holds by now.
Forget(o, i) ==
    /\ cache' = [cache EXCEPT ![i] = 0]
    /\ IF o = 0 THEN UNCHANGED object ELSE Stamped(o, "cleaned")

-----------------------------------------------------------------------------
(* The workflow.                                                           *)

WorkflowStep(next, o) ==
    workflow' = [workflow EXCEPT !.at = next, !.object = IF next = "forget" THEN o ELSE @]

\* The deferred function of processIssue: the workspace is stale, or failed.
WorkflowReturns ==
    /\ workflow.at = "working"
    /\ \E s \in {"stale", "failed"} : UpdateWorkspaceState(workflow.issue, s)
    /\ workflow' = Resting
    /\ UNCHANGED <<dirs, made, cache, scheduler, stopper, ended, overlap>>

\* handleGracefulShutdown in an early stage removes the workspace.
ShutdownCleans ==
    /\ workflow.at = "working" /\ ended
    /\ WorkflowStep("remove", 0)
    /\ UNCHANGED <<dirs, made, object, cache, scheduler, stopper, ended, overlap>>

WorkflowRemoves ==
    /\ workflow.at = "remove"
    /\ RemoveAll(workflow.issue, LAMBDA next, o :
          WorkflowStep(IF next = "done" THEN "working" ELSE next, o))
    /\ UNCHANGED <<made, object, cache, scheduler, stopper, ended, overlap>>

WorkflowForgets ==
    /\ workflow.at = "forget"
    /\ Forget(workflow.object, workflow.issue)
    /\ workflow' = Resting
    /\ UNCHANGED <<dirs, made, scheduler, stopper, ended, overlap>>

Workflow ==
    \/ \E i \in Issues : CreateWorkspace(i)
    \/ CacheWorkspace \/ WorkflowReturns \/ ShutdownCleans \/ WorkflowRemoves \/ WorkflowForgets

-----------------------------------------------------------------------------
(* The scheduler.                                                          *)

SchedulerStep(next, o) ==
    scheduler' = [at |-> IF next # "done" THEN next ELSE IF ended THEN "select" ELSE "decide",
                  list |-> IF next = "done" /\ ended THEN {} ELSE scheduler.list,
                  issue |-> scheduler.issue, object |-> o]

\* ShouldCleanup of the strategies: age and state, and size whatever the state.
\* Variant: the age whatever the state, too.
AgeBased(o) ==
    \/ object[o].state = "cleaned"
    \/ object[o].state \in {"failed", "stale"} /\ object[o].old
SizeBased(o) == object[o].big
AnyState(o) == object[o].old \/ object[o].big
ShouldCleanup(o) == AgeBased(o) \/ SizeBased(o)

\* Start: the goroutine begins with a cycle, unless cleanup is disabled.
Start ==
    /\ scheduler.at = "off" /\ stopper = "none"
    /\ \E next \in {"list", "ended"} : scheduler' = [scheduler EXCEPT !.at = next]
    /\ UNCHANGED <<dirs, made, object, cache, workflow, stopper, ended, overlap>>

ListWorkspaces ==
    /\ scheduler.at = "list"
    /\ scheduler' = [scheduler EXCEPT !.at = "decide", !.list = {cache[i] : i \in Issues} \ {0}]
    /\ overlap' = (overlap \/ workflow.at = "cache")
    /\ UNCHANGED <<dirs, made, object, cache, workflow, stopper, ended>>

Decides ==
    /\ scheduler.at = "decide"
    /\ \/ \E o \in scheduler.list :
            scheduler' = [scheduler EXCEPT !.list = @ \ {o}, !.issue = object[o].issue,
                                           !.at = IF ShouldCleanup(o) THEN "remove" ELSE "decide"]
       \/ scheduler.list = {} /\ scheduler' = [scheduler EXCEPT !.at = "select"]
    /\ UNCHANGED <<dirs, made, object, cache, workflow, stopper, ended, overlap>>

SchedulerRemoves ==
    /\ scheduler.at = "remove"
    /\ RemoveAll(scheduler.issue, SchedulerStep)
    /\ UNCHANGED <<made, object, cache, workflow, stopper, ended, overlap>>

SchedulerForgets ==
    /\ scheduler.at = "forget"
    /\ Forget(scheduler.object, scheduler.issue) /\ SchedulerStep("done", 0)
    /\ UNCHANGED <<dirs, made, workflow, stopper, ended, overlap>>

Selects ==
    /\ scheduler.at = "select"
    /\ \/ scheduler' = [scheduler EXCEPT !.at = "list"]
       \/ (ended \/ stopper = "waits") /\ scheduler' = [scheduler EXCEPT !.at = "ended"]
    /\ UNCHANGED <<dirs, made, object, cache, workflow, stopper, ended, overlap>>

\* Stop closes stopCh and waits until the goroutine has ended.
StopBegins ==
    /\ stopper = "none" /\ scheduler.at # "off" /\ stopper' = "waits"
    /\ UNCHANGED <<dirs, made, object, cache, workflow, scheduler, ended, overlap>>

StopReturns ==
    /\ stopper = "waits" /\ scheduler.at = "ended" /\ stopper' = "returned"
    /\ UNCHANGED <<dirs, made, object, cache, workflow, scheduler, ended, overlap>>

Scheduler ==
    \/ Start \/ ListWorkspaces \/ Decides \/ SchedulerRemoves \/ SchedulerForgets
    \/ Selects \/ StopBegins \/ StopReturns

-----------------------------------------------------------------------------

\* A retention ends.
GrowsOld ==
    /\ \E o \in 1..made : ~object[o].old /\ object' = [object EXCEPT ![o].old = TRUE]
    /\ UNCHANGED <<dirs, made, cache, workflow, scheduler, stopper, ended, overlap>>

CancelContext ==
    /\ ~ended /\ ended' = TRUE
    /\ UNCHANGED <<dirs, made, object, cache, workflow, scheduler, stopper, overlap>>

\* The process dies or ends, and the next one scans the directory.
Restarts ==
    /\ Loaded(dirs)
    /\ workflow' = Resting /\ scheduler' = NotRunning /\ stopper' = "none"
    /\ ended' = FALSE /\ overlap' = FALSE
    /\ UNCHANGED dirs

WorkspaceNext == Workflow \/ GetWorkspaceStats \/ Scheduler \/ GrowsOld \/ CancelContext \/ Restarts

WorkspaceSpec == WorkspaceInit /\ [][WorkspaceNext]_workspaceVars

-----------------------------------------------------------------------------
\* The directory of a working workflow goes only because its size exceeds the
\* limit, or because the scheduler held the issue's last workspace when the
\* workflow took it: in no other interleaving do listing, deciding and removing by
\* number meet the wrong workspace.
WorkKeepsDirectory ==
    workflow.at = "working" /\ workflow.issue \notin dirs
        => overlap \/ ended \/ object[workflow.object].big

\* With the same exception, no directory is left that the manager does not
\* know of: it would count for no limit and no cleanup would find it.
DirectoriesAreKnown ==
    ~overlap => \A i \in dirs : Cached(i) \/ (workflow.at = "cache" /\ workflow.issue = i)
=============================================================================
