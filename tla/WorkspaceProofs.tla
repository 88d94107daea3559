-------------------------- MODULE WorkspaceProofs ---------------------------
(***************************************************************************)
(* The directories of the workspace manager, for any number of issues and  *)
(* workflows; and the snapshots kept beside them, for any number of them.  *)
(***************************************************************************)
EXTENDS Workspaces, Snapshots, FiniteSetTheorems, WellFoundedInduction, TLAPS

-----------------------------------------------------------------------------
(* Workspaces.                                                             *)

States == {"none", "active", "stale", "failed", "cleaned"}
Rows == [issue : Issues, state : States, big : BOOLEAN, old : BOOLEAN]
Workflows == [at : {"idle", "cache", "working", "remove", "forget"},
              issue : Issues, object : 0..MaxObjects]
Schedulers == [at : {"off", "list", "decide", "remove", "forget", "select", "ended"},
               list : SUBSET Objects, issue : Issues, object : 0..MaxObjects]

WorkspaceTypeOK ==
    /\ dirs \subseteq Issues /\ made \in 0..MaxObjects
    /\ object \in [Objects -> Rows] /\ cache \in [Issues -> 0..MaxObjects]
    /\ workflow \in Workflows /\ scheduler \in Schedulers
    /\ stopper \in {"none", "waits", "returned"}
    /\ ended \in BOOLEAN /\ overlap \in BOOLEAN

-----------------------------------------------------------------------------
(* What the actions do, in the fields of the records.                      *)

\* A workspace is stamped with its state and nothing else of it.
LEMMA StampedRow ==
    ASSUME object \in [Objects -> Rows], NEW o \in Objects, NEW s \in States, Stamped(o, s)
    PROVE  /\ object' \in [Objects -> Rows]
           /\ object'[o].state = s /\ object'[o].issue = object[o].issue
           /\ object'[o].big = object[o].big
           /\ \A p \in Objects \ {o} : object'[p] = object[p]
BY DEF Stamped, Rows

\* The scheduler removes a directory.
LEMMA SchedulerRemoval ==
    ASSUME WorkspaceTypeOK, SchedulerRemoves
    PROVE  /\ scheduler.at = "remove" /\ scheduler' \in Schedulers
           /\ scheduler'.issue = scheduler.issue /\ scheduler'.list \subseteq scheduler.list
           /\ \/ /\ scheduler'.at = "forget" /\ dirs' = dirs \ {scheduler.issue}
                 /\ scheduler'.object = cache[scheduler.issue]
              \/ scheduler'.at \in {"select", "decide"} /\ dirs' = dirs /\ scheduler'.object = 0
           /\ UNCHANGED <<made, object, cache, workflow, stopper, ended, overlap>>
BY WorkspaceAssumption DEF WorkspaceTypeOK, SchedulerRemoves, RemoveAll, SchedulerStep, AfterError, Schedulers

\* The scheduler removes the entry of that directory from the cache.
LEMMA SchedulerForgetting ==
    ASSUME WorkspaceTypeOK, SchedulerForgets
    PROVE  /\ scheduler.at = "forget" /\ scheduler' \in Schedulers
           /\ scheduler'.at \in {"select", "decide"} /\ scheduler'.issue = scheduler.issue
           /\ scheduler'.list \subseteq scheduler.list /\ scheduler'.object = 0
           /\ cache' = [cache EXCEPT ![scheduler.issue] = 0]
           /\ \/ scheduler.object = 0 /\ UNCHANGED object
              \/ scheduler.object \in Objects /\ Stamped(scheduler.object, "cleaned")
           /\ UNCHANGED <<dirs, made, workflow, stopper, ended, overlap>>
<1>1. scheduler.object \in 0..MaxObjects BY DEF WorkspaceTypeOK, Schedulers
<1>2. scheduler.object # 0 => scheduler.object \in Objects BY <1>1, WorkspaceAssumption DEF Objects
<1> QED BY <1>2, WorkspaceAssumption
        DEF WorkspaceTypeOK, SchedulerForgets, Forget, SchedulerStep, Schedulers

\* A workflow removes its own directory.
LEMMA WorkflowRemoval ==
    ASSUME WorkspaceTypeOK, WorkflowRemoves
    PROVE  /\ workflow.at = "remove" /\ workflow' \in Workflows
           /\ workflow'.issue = workflow.issue
           /\ \/ /\ workflow'.at = "forget" /\ dirs' = dirs \ {workflow.issue}
                 /\ workflow'.object = cache[workflow.issue]
              \/ /\ workflow'.at = "working" /\ dirs' = dirs
                 /\ workflow'.object = workflow.object
           /\ UNCHANGED <<made, object, cache, scheduler, stopper, ended, overlap>>
BY DEF WorkspaceTypeOK, WorkflowRemoves, RemoveAll, WorkflowStep, AfterError, Workflows

\* A workflow removes the entry of its directory from the cache.
LEMMA WorkflowForgetting ==
    ASSUME WorkspaceTypeOK, WorkflowForgets
    PROVE  /\ workflow.at = "forget" /\ workflow' = Resting
           /\ cache' = [cache EXCEPT ![workflow.issue] = 0]
           /\ \/ workflow.object = 0 /\ UNCHANGED object
              \/ workflow.object \in Objects /\ Stamped(workflow.object, "cleaned")
           /\ UNCHANGED <<dirs, made, scheduler, stopper, ended, overlap>>
<1>1. workflow.object \in 0..MaxObjects BY DEF WorkspaceTypeOK, Workflows
<1>2. workflow.object # 0 => workflow.object \in Objects BY <1>1, WorkspaceAssumption DEF Objects
<1> QED BY <1>2 DEF WorkflowForgets, Forget

\* A workflow creates its directory, or takes over the one that exists.
LEMMA Creation ==
    ASSUME WorkspaceTypeOK, NEW i \in Issues, CreateWorkspace(i)
    PROVE  /\ workflow.at = "idle" /\ ~ended /\ workflow' \in Workflows
           /\ workflow'.issue = i
           /\ \/ /\ i \in Active /\ workflow'.at = "working" /\ workflow'.object = cache[i]
                 /\ UNCHANGED <<dirs, overlap>>
              \/ /\ workflow'.at = "cache" /\ dirs' = dirs \cup {i}
                 /\ overlap' = (overlap \/ Listed(i))
           /\ UNCHANGED <<made, object, cache, scheduler, stopper, ended>>
<1>1. 0 \in 0..MaxObjects BY WorkspaceAssumption
<1>2. cache[i] \in 0..MaxObjects BY DEF WorkspaceTypeOK
<1> QED BY <1>1, <1>2 DEF CreateWorkspace, Workflows

\* The workspace that was created is stamped and entered in the cache.
LEMMA Caching ==
    ASSUME WorkspaceTypeOK, CacheWorkspace
    PROVE  /\ workflow.at = "cache" /\ made + 1 \in Objects /\ made' = made + 1
           /\ object' \in [Objects -> Rows]
           /\ object'[made + 1] = [issue |-> workflow.issue, state |-> "active",
                                   big |-> FALSE, old |-> FALSE]
           /\ \A p \in Objects \ {made + 1} : object'[p] = object[p]
           /\ cache' \in [Issues -> 0..MaxObjects] /\ cache'[workflow.issue] = made + 1
           /\ \A i \in Issues \ {workflow.issue} : cache'[i] = cache[i]
           /\ workflow' \in Workflows /\ workflow'.at = "working"
           /\ workflow'.issue = workflow.issue /\ workflow'.object = made + 1
           /\ overlap' = (overlap \/ Listed(workflow.issue))
           /\ UNCHANGED <<dirs, scheduler, stopper, ended>>
<1> USE DEF WorkspaceTypeOK
<1>1. made + 1 \in Objects /\ made + 1 \in 0..MaxObjects /\ workflow.issue \in Issues
    BY WorkspaceAssumption DEF CacheWorkspace, Objects, Workflows
<1>2. [issue |-> workflow.issue, state |-> "active", big |-> FALSE, old |-> FALSE] \in Rows
    BY <1>1 DEF Rows, States
<1>3. /\ object' = [object EXCEPT ![made + 1] =
                [issue |-> workflow.issue, state |-> "active", big |-> FALSE, old |-> FALSE]]
      /\ cache' = [cache EXCEPT ![workflow.issue] = made + 1]
      /\ workflow' = [workflow EXCEPT !.at = "working", !.object = made + 1]
    BY DEF CacheWorkspace
<1>4. /\ workflow' \in Workflows /\ workflow'.at = "working"
      /\ workflow'.issue = workflow.issue /\ workflow'.object = made + 1
    BY <1>1, <1>3 DEF Workflows
<1> QED BY <1>1, <1>2, <1>3, <1>4 DEF CacheWorkspace

\* A workflow returns: its workspace is stale, or failed.
LEMMA Returning ==
    ASSUME WorkspaceTypeOK, WorkflowReturns
    PROVE  /\ workflow.at = "working" /\ workflow' = Resting
           /\ \/ cache[workflow.issue] = 0 /\ UNCHANGED object
              \/ /\ cache[workflow.issue] \in Objects
                 /\ \E s \in {"stale", "failed"} : Stamped(cache[workflow.issue], s)
           /\ UNCHANGED <<dirs, made, cache, scheduler, stopper, ended, overlap>>
<1>1. cache[workflow.issue] \in 0..MaxObjects BY DEF WorkspaceTypeOK, Workflows
<1>2. cache[workflow.issue] # 0 => cache[workflow.issue] \in Objects
    BY <1>1, WorkspaceAssumption DEF Objects
<1> QED BY <1>2 DEF WorkflowReturns, UpdateWorkspaceState, Cached

\* A workflow that was told to stop cleans up its workspace.
LEMMA Cleaning ==
    ASSUME WorkspaceTypeOK, ShutdownCleans
    PROVE  /\ workflow.at = "working" /\ ended /\ workflow' \in Workflows
           /\ workflow'.at = "remove" /\ workflow'.issue = workflow.issue
           /\ UNCHANGED <<dirs, made, object, cache, scheduler, stopper, ended, overlap>>
BY DEF WorkspaceTypeOK, ShutdownCleans, WorkflowStep, Workflows

\* The scheduler takes a copy of the cache.
LEMMA Listing ==
    ASSUME WorkspaceTypeOK, ListWorkspaces
    PROVE  /\ scheduler.at = "list" /\ scheduler' \in Schedulers
           /\ scheduler'.at = "decide" /\ scheduler'.list = {cache[i] : i \in Issues} \ {0}
           /\ overlap' = (overlap \/ workflow.at = "cache")
           /\ UNCHANGED <<dirs, made, object, cache, workflow, stopper, ended>>
<1>1. {cache[i] : i \in Issues} \ {0} \subseteq Objects
    BY WorkspaceAssumption DEF WorkspaceTypeOK, Objects
<1> QED BY <1>1 DEF WorkspaceTypeOK, ListWorkspaces, Schedulers

\* The scheduler applies its strategies to a workspace it listed.
LEMMA Deciding ==
    ASSUME WorkspaceTypeOK, Decides
    PROVE  /\ scheduler.at = "decide" /\ scheduler' \in Schedulers
           /\ scheduler'.list \subseteq scheduler.list /\ scheduler'.at \in {"remove", "decide", "select"}
           /\ scheduler'.at = "remove" =>
                 \E o \in scheduler.list : scheduler'.issue = object[o].issue /\ ShouldCleanup(o)
           /\ UNCHANGED <<dirs, made, object, cache, workflow, stopper, ended, overlap>>
<1>1. \A o \in scheduler.list : object[o].issue \in Issues
    BY DEF WorkspaceTypeOK, Schedulers, Rows
<1>2. ASSUME NEW o \in scheduler.list,
             scheduler' = [scheduler EXCEPT !.list = @ \ {o}, !.issue = object[o].issue,
                                            !.at = IF ShouldCleanup(o) THEN "remove" ELSE "decide"]
      PROVE  /\ scheduler' \in Schedulers /\ scheduler'.list \subseteq scheduler.list
             /\ scheduler'.at \in {"remove", "decide"} /\ scheduler'.issue = object[o].issue
             /\ scheduler'.at = "remove" => ShouldCleanup(o)
    BY <1>1, <1>2 DEF WorkspaceTypeOK, Schedulers
<1> QED BY <1>2 DEF WorkspaceTypeOK, Decides, Schedulers

\* Steps of the scheduler and of its callers that look at no workspace.
Quiet == Start \/ Selects \/ StopBegins \/ StopReturns \/ CancelContext

\* They leave the list and the object of the scheduler as they are.
LEMMA QuietSteps ==
    ASSUME WorkspaceTypeOK, Quiet
    PROVE  /\ scheduler' \in Schedulers /\ scheduler'.list = scheduler.list
           /\ \/ scheduler' = scheduler
              \/ scheduler'.at \in {"list", "ended"}
           /\ ended => ended'
           /\ stopper' \in {"none", "waits", "returned"} /\ ended' \in BOOLEAN
           /\ UNCHANGED <<dirs, made, object, cache, workflow, overlap>>
<1> USE DEF WorkspaceTypeOK, Schedulers
<1>1. CASE Start BY <1>1 DEF Start
<1>2. CASE Selects BY <1>2 DEF Selects
<1>3. CASE StopBegins \/ StopReturns \/ CancelContext BY <1>3 DEF StopBegins, StopReturns, CancelContext
<1> QED BY <1>1, <1>2, <1>3 DEF Quiet

\* The size of a workspace is calculated, or a retention ends.
Ages == GetWorkspaceStats \/ GrowsOld

\* They leave a workspace's issue and state as they are.
LEMMA AgingSteps ==
    ASSUME WorkspaceTypeOK, Ages
    PROVE  /\ object' \in [Objects -> Rows]
           /\ \A o \in Objects : /\ object'[o].issue = object[o].issue
                                 /\ object'[o].state = object[o].state
                                 /\ object[o].big => object'[o].big
           /\ UNCHANGED <<dirs, made, cache, workflow, scheduler, stopper, ended, overlap>>
<1> USE DEF WorkspaceTypeOK
<1>1. CASE GetWorkspaceStats
  <2>1. PICK i \in dirs : Cached(i) /\ object' = [object EXCEPT ![cache[i]].big = TRUE]
      BY <1>1 DEF GetWorkspaceStats
  <2>2. cache[i] \in Objects BY <2>1, WorkspaceAssumption DEF Cached, Objects
  <2> DEFINE row == [object[cache[i]] EXCEPT !.big = TRUE]
  <2>3. object[cache[i]] \in Rows BY <2>2
  <2>4. /\ row \in Rows /\ row.issue = object[cache[i]].issue /\ row.state = object[cache[i]].state
        /\ object[cache[i]].big => row.big
      BY <2>3 DEF Rows
  <2>5. object' = [object EXCEPT ![cache[i]] = row] BY <2>1, <2>2
  <2> HIDE DEF row
  <2>6. object' \in [Objects -> Rows] BY <2>2, <2>4, <2>5
  <2>7. object'[cache[i]] = row /\ \A o \in Objects \ {cache[i]} : object'[o] = object[o]
      BY <2>2, <2>5
  <2> QED BY <1>1, <2>4, <2>6, <2>7 DEF GetWorkspaceStats
<1>2. CASE GrowsOld
  <2>1. PICK o \in 1..made : object' = [object EXCEPT ![o].old = TRUE]
      BY <1>2 DEF GrowsOld
  <2>2. o \in Objects BY WorkspaceAssumption DEF Objects
  <2> DEFINE row == [object[o] EXCEPT !.old = TRUE]
  <2>3. object[o] \in Rows BY <2>2
  <2>4. /\ row \in Rows /\ row.issue = object[o].issue /\ row.state = object[o].state
        /\ object[o].big => row.big
      BY <2>3 DEF Rows
  <2>5. object' = [object EXCEPT ![o] = row] BY <2>1, <2>2
  <2> HIDE DEF row
  <2>6. object' \in [Objects -> Rows] BY <2>2, <2>4, <2>5
  <2>7. object'[o] = row /\ \A p \in Objects \ {o} : object'[p] = object[p]
      BY <2>2, <2>5
  <2> QED BY <1>2, <2>4, <2>6, <2>7 DEF GrowsOld
<1> QED BY <1>1, <1>2 DEF Ages

\* What is at the numbers nobody has used is of the type of an object.
LEMMA NoObjectIsARow == NoObject \in Rows
BY WorkspaceAssumption DEF NoObject, Rows, States

\* A manager that scans the directory knows each of the issues it finds.
LEMMA Scanning ==
    ASSUME WorkspaceTypeOK, Restarts
    PROVE  /\ made' \in 0..MaxObjects
           /\ object' \in [Objects -> Rows] /\ \A o \in Objects : object'[o].state # "active"
           /\ cache' \in [Issues -> 0..made']
           /\ \A i \in Issues : cache'[i] # 0 <=> i \in dirs
           /\ \A i \in dirs : object'[cache'[i]].issue = i
           /\ workflow' = Resting /\ scheduler' = NotRunning /\ stopper' = "none"
           /\ ended' = FALSE /\ overlap' = FALSE /\ dirs' = dirs
<1> DEFINE n == Cardinality(dirs)
           issueOf == CHOOSE f \in [1..n -> dirs] : \A a, b \in DOMAIN f : f[a] = f[b] => a = b
           numberOf == [i \in dirs |-> CHOOSE k \in DOMAIN issueOf : issueOf[k] = i]
<1>1. /\ made' = n
      /\ cache' = [i \in Issues |-> IF i \in dirs THEN numberOf[i] ELSE 0]
      /\ object' = [o \in Objects |->
            IF o <= n THEN [issue |-> issueOf[o], state |-> "stale", big |-> FALSE, old |-> FALSE]
            ELSE NoObject]
    BY DEF Restarts, Loaded
<1>2. IsFiniteSet(dirs) /\ n \in Nat /\ n <= MaxObjects
  <2>1. dirs \in SUBSET Issues BY DEF WorkspaceTypeOK
  <2>2. IsFiniteSet(dirs) /\ n <= Cardinality(Issues) BY <2>1, WorkspaceAssumption, FS_Subset
  <2>3. n \in Nat /\ Cardinality(Issues) \in Nat BY <2>2, WorkspaceAssumption, FS_CardinalityType
  <2> QED BY <2>2, <2>3, WorkspaceAssumption
<1>3. issueOf \in [1..n -> dirs] /\ \A a, b \in 1..n : issueOf[a] = issueOf[b] => a = b
  <2>1. ExistsBijection(1..n, dirs) BY <1>2, FS_CardinalityType
  <2>2. \E f \in [1..n -> dirs] : \A a, b \in DOMAIN f : f[a] = f[b] => a = b
      BY <2>1 DEF ExistsBijection, Bijection, Injection, IsInjective
  <2> QED BY <2>2
<1>4. \A i \in dirs : \E k \in 1..n : issueOf[k] = i
  <2>1. issueOf \in Injection(1..n, dirs) BY <1>3 DEF Injection, IsInjective
  <2>2. IsFiniteSet(1..n) /\ Cardinality(1..n) = n BY <1>2, FS_Interval
  <2>3. issueOf \in Surjection(1..n, dirs) BY <1>2, <2>1, <2>2, FS_Injection
  <2> QED BY <2>3 DEF Surjection
<1>5. \A i \in dirs : numberOf[i] \in 1..n /\ issueOf[numberOf[i]] = i BY <1>3, <1>4
<1> HIDE DEF issueOf, numberOf, n
<1>6. \A o \in Objects : o <= n => object'[o] = [issue |-> issueOf[o], state |-> "stale",
                                                 big |-> FALSE, old |-> FALSE]
    BY <1>1
<1>7. \A o \in Objects : ~(o <= n) => object'[o] = NoObject BY <1>1
<1>8. \A o \in Objects : object'[o] \in Rows /\ object'[o].state # "active"
  <2> SUFFICES ASSUME NEW o \in Objects PROVE object'[o] \in Rows /\ object'[o].state # "active"
      OBVIOUS
  <2>1. CASE o <= n
    <3>1. issueOf[o] \in Issues BY <1>2, <1>3, <2>1 DEF Objects, WorkspaceTypeOK
    <3>2. [issue |-> issueOf[o], state |-> "stale", big |-> FALSE, old |-> FALSE] \in Rows
        BY <3>1 DEF Rows, States
    <3>3. object'[o] = [issue |-> issueOf[o], state |-> "stale", big |-> FALSE, old |-> FALSE]
        BY <1>6, <2>1
    <3>4. object'[o].state = "stale" BY <3>3
    <3> QED BY <3>2, <3>3, <3>4
  <2>2. CASE ~(o <= n) BY <1>7, <2>2, NoObjectIsARow DEF NoObject
  <2> QED BY <2>1, <2>2
<1>9. object' \in [Objects -> Rows] BY <1>1, <1>8
<1>10. \A i \in dirs : numberOf[i] \in Objects /\ numberOf[i] <= n /\ numberOf[i] # 0 /\ numberOf[i] \in 0..n
    BY <1>2, <1>5, WorkspaceAssumption DEF Objects
<1>11. \A i \in dirs : object'[numberOf[i]].issue = i
  <2> SUFFICES ASSUME NEW i \in dirs PROVE object'[numberOf[i]].issue = i OBVIOUS
  <2>1. object'[numberOf[i]] = [issue |-> issueOf[numberOf[i]], state |-> "stale",
                                big |-> FALSE, old |-> FALSE]
      BY <1>6, <1>10
  <2> QED BY <1>5, <2>1
<1>12. 0 \in 0..n /\ dirs \subseteq Issues BY <1>2 DEF WorkspaceTypeOK
<1>13. cache' \in [Issues -> 0..n] BY <1>1, <1>10, <1>12
<1>14. \A i \in Issues : cache'[i] # 0 <=> i \in dirs BY <1>1, <1>10
<1>15. \A i \in dirs : cache'[i] = numberOf[i] BY <1>1, <1>12
<1>16. n \in 0..MaxObjects BY <1>2, WorkspaceAssumption
<1> QED BY <1>1, <1>8, <1>9, <1>11, <1>13, <1>14, <1>15, <1>16 DEF Restarts

-----------------------------------------------------------------------------
(* Types.                                                                  *)

\* What a workflow and a scheduler are when they do not run.
LEMMA RestingIsTyped == Resting \in Workflows /\ NotRunning \in Schedulers
BY WorkspaceAssumption DEF Resting, NotRunning, NoObject, Workflows, Schedulers

\* The actions, grouped by what they touch.
LEMMA WorkspaceActions ==
    ASSUME [WorkspaceNext]_workspaceVars
    PROVE  \/ UNCHANGED workspaceVars
           \/ \E i \in Issues : CreateWorkspace(i)
           \/ CacheWorkspace \/ WorkflowReturns \/ ShutdownCleans
           \/ WorkflowRemoves \/ WorkflowForgets
           \/ ListWorkspaces \/ Decides \/ SchedulerRemoves \/ SchedulerForgets
           \/ Quiet \/ Ages \/ Restarts
BY DEF WorkspaceNext, Workflow, Scheduler, Quiet, Ages

\* Every step keeps the variables within their types.
LEMMA WorkspaceTypes == WorkspaceTypeOK /\ [WorkspaceNext]_workspaceVars => WorkspaceTypeOK'
<1> SUFFICES ASSUME WorkspaceTypeOK, [WorkspaceNext]_workspaceVars PROVE WorkspaceTypeOK' OBVIOUS
<1> USE RestingIsTyped
<1>0. 0 \in 0..MaxObjects /\ workflow.issue \in Issues /\ scheduler.issue \in Issues
    BY WorkspaceAssumption DEF WorkspaceTypeOK, Workflows, Schedulers
<1>1. CASE UNCHANGED workspaceVars BY <1>1 DEF workspaceVars, WorkspaceTypeOK
<1>2. ASSUME NEW i \in Issues, CreateWorkspace(i) PROVE WorkspaceTypeOK'
  <2>1. dirs' \subseteq Issues /\ overlap' \in BOOLEAN
      BY <1>2 DEF CreateWorkspace, WorkspaceTypeOK, Listed
  <2> QED BY <1>2, <2>1, Creation DEF WorkspaceTypeOK
<1>3. CASE CacheWorkspace
  <2>1. overlap' \in BOOLEAN BY <1>3 DEF CacheWorkspace, WorkspaceTypeOK, Listed
  <2>2. made' \in 0..MaxObjects BY <1>3, Caching, WorkspaceAssumption DEF Objects
  <2> QED BY <1>3, <2>1, <2>2, Caching DEF WorkspaceTypeOK
<1>4. CASE WorkflowReturns
  <2>1. object' \in [Objects -> Rows]
      BY <1>4, Returning, StampedRow DEF WorkspaceTypeOK, States
  <2> QED BY <1>4, <2>1, Returning DEF WorkspaceTypeOK
<1>5. CASE ShutdownCleans BY <1>5, Cleaning DEF WorkspaceTypeOK
<1>6. CASE WorkflowRemoves BY <1>6, WorkflowRemoval DEF WorkspaceTypeOK
<1>7. CASE WorkflowForgets
  <2>1. object' \in [Objects -> Rows]
      BY <1>7, WorkflowForgetting, StampedRow DEF WorkspaceTypeOK, States
  <2> QED BY <1>0, <1>7, <2>1, WorkflowForgetting DEF WorkspaceTypeOK
<1>8. CASE ListWorkspaces BY <1>8, Listing DEF WorkspaceTypeOK
<1>9. CASE Decides BY <1>9, Deciding DEF WorkspaceTypeOK
<1>10. CASE SchedulerRemoves BY <1>10, SchedulerRemoval DEF WorkspaceTypeOK
<1>11. CASE SchedulerForgets
  <2>1. object' \in [Objects -> Rows]
      BY <1>11, SchedulerForgetting, StampedRow DEF WorkspaceTypeOK, States
  <2> QED BY <1>0, <1>11, <2>1, SchedulerForgetting DEF WorkspaceTypeOK
<1>12. CASE Quiet BY <1>12, QuietSteps DEF WorkspaceTypeOK
<1>13. CASE Ages BY <1>13, AgingSteps DEF WorkspaceTypeOK
<1>14. CASE Restarts
  <2>1. 0..made' \subseteq 0..MaxObjects BY <1>14, Scanning, WorkspaceAssumption
  <2>2. cache' \in [Issues -> 0..MaxObjects] BY <1>14, <2>1, Scanning
  <2> QED BY <1>14, <2>2, Scanning DEF WorkspaceTypeOK
<1> QED BY <1>1, <1>2, <1>3, <1>4, <1>5, <1>6, <1>7, <1>8, <1>9, <1>10, <1>11, <1>12, <1>13, <1>14,
           WorkspaceActions

-----------------------------------------------------------------------------
(* What the cache and the scheduler hold.                                  *)

\* The objects that are referred to have been made.
Numbered ==
    /\ \A i \in Issues : cache[i] <= made
    /\ \A o \in scheduler.list : o <= made
    /\ scheduler.at = "forget" => scheduler.object <= made

\* A new object takes the next number.
LEMMA NumberedStep ==
    WorkspaceTypeOK /\ Numbered /\ [WorkspaceNext]_workspaceVars => Numbered'
<1> SUFFICES ASSUME WorkspaceTypeOK, Numbered, [WorkspaceNext]_workspaceVars PROVE Numbered'
    OBVIOUS
<1> USE DEF Numbered
<1>0. /\ made \in Nat /\ \A i \in Issues : cache[i] \in Nat
      /\ scheduler.object \in Nat /\ \A o \in scheduler.list : o \in Nat
      /\ workflow.issue \in Issues /\ scheduler.issue \in Issues
    BY WorkspaceAssumption DEF WorkspaceTypeOK, Workflows, Schedulers, Objects
<1>1. CASE UNCHANGED workspaceVars BY <1>1 DEF workspaceVars
<1>2. ASSUME NEW i \in Issues, CreateWorkspace(i) PROVE Numbered' BY <1>2, Creation
<1>3. CASE CacheWorkspace BY <1>0, <1>3, Caching
<1>4. CASE WorkflowReturns BY <1>4, Returning
<1>5. CASE ShutdownCleans BY <1>5, Cleaning
<1>6. CASE WorkflowRemoves BY <1>6, WorkflowRemoval
<1>7. CASE WorkflowForgets
  <2>1. \A i \in Issues : cache'[i] \in {cache[i], 0}
      BY <1>7, WorkflowForgetting DEF WorkspaceTypeOK
  <2> QED BY <1>0, <1>7, <2>1, WorkflowForgetting
<1>8. CASE ListWorkspaces
  <2>1. scheduler'.list = {cache[i] : i \in Issues} \ {0} /\ scheduler'.at = "decide"
        /\ UNCHANGED <<made, cache>>
      BY <1>8, Listing
  <2> QED BY <2>1
<1>9. CASE Decides BY <1>9, Deciding
<1>10. CASE SchedulerRemoves
  <2>1. /\ scheduler'.list \subseteq scheduler.list
        /\ scheduler'.at = "forget" => scheduler'.object = cache[scheduler.issue]
        /\ UNCHANGED <<made, cache>>
      BY <1>10, SchedulerRemoval
  <2> QED BY <1>0, <2>1
<1>11. CASE SchedulerForgets
  <2>1. \A i \in Issues : cache'[i] \in {cache[i], 0}
      BY <1>11, SchedulerForgetting DEF WorkspaceTypeOK
  <2> QED BY <1>0, <1>11, <2>1, SchedulerForgetting
<1>12. CASE Quiet BY <1>12, QuietSteps
<1>13. CASE Ages BY <1>13, AgingSteps
<1>14. CASE Restarts
  <2>1. \A i \in Issues : cache'[i] \in 0..made' BY <1>14, Scanning
  <2>2. made' \in Nat BY <1>14, Scanning
  <2>3. scheduler' = NotRunning BY <1>14, Scanning
  <2> QED BY <2>1, <2>2, <2>3 DEF NotRunning
<1> QED BY <1>1, <1>2, <1>3, <1>4, <1>5, <1>6, <1>7, <1>8, <1>9, <1>10, <1>11, <1>12, <1>13, <1>14,
           WorkspaceActions

\* An object that is cached, or is being cleaned up, is one of that issue.
OfIssue ==
    /\ \A i \in Issues : Cached(i) => object[cache[i]].issue = i
    /\ scheduler.at = "forget" /\ scheduler.object # 0
          => object[scheduler.object].issue = scheduler.issue

\* Made objects keep their issue until the process ends.
LEMMA IssuesStay ==
    ASSUME WorkspaceTypeOK, [WorkspaceNext]_workspaceVars, ~Restarts,
           NEW o \in Objects, o <= made
    PROVE  object'[o].issue = object[o].issue
<1>1. CASE UNCHANGED object BY <1>1
<1>2. ASSUME NEW p \in Objects, NEW s \in States, Stamped(p, s)
      PROVE  object'[o].issue = object[o].issue
  <2>1. object \in [Objects -> Rows] BY DEF WorkspaceTypeOK
  <2>2. object'[p].issue = object[p].issue /\ \A q \in Objects \ {p} : object'[q] = object[q]
      BY <1>2, <2>1, StampedRow
  <2> QED BY <2>2
<1>3. CASE CacheWorkspace
  <2>1. o # made + 1 BY WorkspaceAssumption DEF WorkspaceTypeOK, Objects
  <2> QED BY <1>3, <2>1, Caching
<1>4. CASE WorkflowReturns BY <1>1, <1>2, <1>4, Returning DEF States
<1>5. CASE WorkflowForgets BY <1>1, <1>2, <1>5, WorkflowForgetting DEF States
<1>6. CASE SchedulerForgets BY <1>1, <1>2, <1>6, SchedulerForgetting DEF States
<1>7. CASE Ages BY <1>7, AgingSteps
<1>8. ASSUME \/ UNCHANGED workspaceVars \/ \E i \in Issues : CreateWorkspace(i)
             \/ ShutdownCleans \/ WorkflowRemoves \/ ListWorkspaces \/ Decides
             \/ SchedulerRemoves \/ Quiet
      PROVE  UNCHANGED object
    BY <1>8, Creation, Cleaning, WorkflowRemoval, Listing, Deciding, SchedulerRemoval, QuietSteps
    DEF workspaceVars
<1> QED BY <1>1, <1>3, <1>4, <1>5, <1>6, <1>7, <1>8, WorkspaceActions

\* The cache holds what it held, less what was removed, or a new object.
LEMMA CacheSteps ==
    ASSUME WorkspaceTypeOK, [WorkspaceNext]_workspaceVars, ~Restarts, NEW i \in Issues
    PROVE  \/ cache'[i] = cache[i]
           \/ cache'[i] = 0 /\ WorkflowForgets /\ i = workflow.issue
           \/ cache'[i] = 0 /\ SchedulerForgets /\ i = scheduler.issue
           \/ CacheWorkspace /\ i = workflow.issue
<1> USE DEF WorkspaceTypeOK
<1>1. CASE CacheWorkspace BY <1>1, Caching
<1>2. CASE WorkflowForgets
  <2>1. cache' = [cache EXCEPT ![workflow.issue] = 0] BY <1>2, WorkflowForgetting
  <2> QED BY <1>2, <2>1
<1>3. CASE SchedulerForgets
  <2>1. cache' = [cache EXCEPT ![scheduler.issue] = 0] BY <1>3, SchedulerForgetting
  <2> QED BY <1>3, <2>1
<1>4. ASSUME \/ UNCHANGED workspaceVars \/ \E j \in Issues : CreateWorkspace(j)
             \/ WorkflowReturns \/ ShutdownCleans \/ WorkflowRemoves \/ ListWorkspaces \/ Decides
             \/ SchedulerRemoves \/ Quiet \/ Ages
      PROVE  UNCHANGED cache
    BY <1>4, Creation, Returning, Cleaning, WorkflowRemoval, Listing, Deciding, SchedulerRemoval,
       QuietSteps, AgingSteps
    DEF workspaceVars
<1> QED BY <1>1, <1>2, <1>3, <1>4, WorkspaceActions

\* The scheduler forgets an issue after it removed its directory.
LEMMA ForgetSteps ==
    ASSUME WorkspaceTypeOK, [WorkspaceNext]_workspaceVars, scheduler'.at = "forget"
    PROVE  \/ scheduler' = scheduler
           \/ /\ SchedulerRemoves /\ scheduler'.issue = scheduler.issue
              /\ scheduler'.object = cache[scheduler.issue] /\ dirs' = dirs \ {scheduler.issue}
<1>1. ASSUME \/ UNCHANGED workspaceVars \/ \E j \in Issues : CreateWorkspace(j)
             \/ CacheWorkspace \/ WorkflowReturns \/ ShutdownCleans \/ WorkflowRemoves
             \/ WorkflowForgets \/ Ages
      PROVE  scheduler' = scheduler
    BY <1>1, Creation, Caching, Returning, Cleaning, WorkflowRemoval, WorkflowForgetting, AgingSteps
    DEF workspaceVars
<1>2. ~ListWorkspaces BY Listing
<1>3. ~Decides BY Deciding
<1>4. ~SchedulerForgets BY SchedulerForgetting
<1>5. Quiet => scheduler' = scheduler BY QuietSteps
<1>6. ~Restarts
  <2> SUFFICES ASSUME Restarts PROVE FALSE OBVIOUS
  <2>1. scheduler' = NotRunning BY Scanning
  <2> QED BY <2>1 DEF NotRunning
<1>7. CASE SchedulerRemoves BY <1>7, SchedulerRemoval
<1> QED BY <1>1, <1>2, <1>3, <1>4, <1>5, <1>6, <1>7, WorkspaceActions

\* What is cached for an issue, or cleaned up for it, stays one of its own.
LEMMA OfIssueStep ==
    WorkspaceTypeOK /\ Numbered /\ OfIssue /\ [WorkspaceNext]_workspaceVars => OfIssue'
<1> SUFFICES ASSUME WorkspaceTypeOK, Numbered, OfIssue, [WorkspaceNext]_workspaceVars PROVE OfIssue'
    OBVIOUS
<1>1. CASE Restarts
  <2>1. \A i \in Issues : cache'[i] # 0 => object'[cache'[i]].issue = i BY <1>1, Scanning
  <2>2. scheduler' = NotRunning BY <1>1, Scanning
  <2> QED BY <2>1, <2>2 DEF OfIssue, Cached, NotRunning
<1>2. CASE ~Restarts
  <2>1. ASSUME NEW i \in Issues, cache'[i] # 0 PROVE object'[cache'[i]].issue = i
    <3>1. CASE cache'[i] = cache[i]
      <4>1. cache[i] \in Objects /\ cache[i] <= made
          BY <2>1, <3>1, WorkspaceAssumption DEF WorkspaceTypeOK, Numbered, Objects
      <4>2. object'[cache[i]].issue = object[cache[i]].issue BY <1>2, <4>1, IssuesStay
      <4> QED BY <2>1, <3>1, <4>2 DEF OfIssue, Cached
    <3>2. CASE CacheWorkspace /\ i = workflow.issue BY <3>2, Caching
    <3> QED BY <1>2, <2>1, <3>1, <3>2, CacheSteps
  <2>2. ASSUME scheduler'.at = "forget", scheduler'.object # 0
        PROVE  object'[scheduler'.object].issue = scheduler'.issue
    <3>1. CASE scheduler' = scheduler
      <4>1. scheduler.object \in Objects /\ scheduler.object <= made
          BY <2>2, <3>1, WorkspaceAssumption DEF WorkspaceTypeOK, Schedulers, Numbered, Objects
      <4>2. object'[scheduler.object].issue = object[scheduler.object].issue
          BY <1>2, <4>1, IssuesStay
      <4> QED BY <2>2, <3>1, <4>2 DEF OfIssue
    <3>2. CASE SchedulerRemoves
      <4> DEFINE i == scheduler.issue
      <4>0. i \in Issues BY DEF WorkspaceTypeOK, Schedulers
      <4>1. scheduler'.issue = i /\ scheduler'.object = cache[i] /\ object' = object
          BY <2>2, <3>2, SchedulerRemoval
      <4> QED BY <2>2, <4>0, <4>1 DEF OfIssue, Cached
    <3> QED BY <2>2, <3>1, <3>2, ForgetSteps
  <2> QED BY <2>1, <2>2 DEF OfIssue, Cached
<1> QED BY <1>1, <1>2

-----------------------------------------------------------------------------
(* Directories.                                                            *)

\* Directories are made for a workflow only, which is noted as an overlap when
\* the scheduler has still something to do for the issue.
LEMMA DirectorySteps ==
    ASSUME WorkspaceTypeOK, [WorkspaceNext]_workspaceVars, NEW i \in dirs', i \notin dirs
    PROVE  CreateWorkspace(i) /\ overlap' = (overlap \/ Listed(i)) /\ workflow'.at = "cache"
<1>0. i \in Issues BY WorkspaceTypes DEF WorkspaceTypeOK
<1>1. ASSUME \/ UNCHANGED workspaceVars
             \/ CacheWorkspace \/ WorkflowReturns \/ ShutdownCleans
             \/ WorkflowForgets \/ Ages \/ ListWorkspaces \/ Decides \/ SchedulerForgets \/ Quiet
             \/ Restarts
      PROVE  dirs' = dirs
    BY <1>1, Caching, Returning, Cleaning, WorkflowForgetting, AgingSteps, Listing, Deciding,
       SchedulerForgetting, QuietSteps, Scanning
    DEF workspaceVars
<1>2. WorkflowRemoves \/ SchedulerRemoves => dirs' \subseteq dirs
    BY WorkflowRemoval, SchedulerRemoval
<1>3. ASSUME NEW j \in Issues, CreateWorkspace(j)
      PROVE  \/ dirs' = dirs
             \/ dirs' = dirs \cup {j} /\ overlap' = (overlap \/ Listed(j)) /\ workflow'.at = "cache"
    BY <1>3, Creation
<1>4. PICK j \in Issues : CreateWorkspace(j) BY <1>1, <1>2, WorkspaceActions
<1>5. i = j BY <1>3, <1>4
<1> QED BY <1>3, <1>4, <1>5

\* What the model notes of an interleaving stays until the process ends.
LEMMA OverlapStays ==
    ASSUME WorkspaceTypeOK, [WorkspaceNext]_workspaceVars
    PROVE  Restarts \/ ((overlap => overlap') /\ (ended => ended'))
<1>1. ASSUME \/ UNCHANGED workspaceVars \/ WorkflowReturns \/ ShutdownCleans \/ WorkflowRemoves
             \/ WorkflowForgets \/ Ages \/ Decides \/ SchedulerRemoves \/ SchedulerForgets
      PROVE  UNCHANGED <<overlap, ended>>
    BY <1>1, Returning, Cleaning, WorkflowRemoval, WorkflowForgetting, AgingSteps, Deciding,
       SchedulerRemoval, SchedulerForgetting
    DEF workspaceVars
<1>2. CASE Quiet
  <2>1. overlap' = overlap /\ (ended => ended') BY <1>2, QuietSteps
  <2> QED BY <2>1
<1>3. ASSUME NEW i \in Issues, CreateWorkspace(i) PROVE ended' = ended /\ (overlap => overlap')
  <2>1. ended' = ended BY <1>3, Creation
  <2>2. overlap' = overlap \/ overlap' = (overlap \/ Listed(i)) BY <1>3, Creation
  <2>3. overlap' = overlap => (overlap => overlap') OBVIOUS
  <2>4. overlap' = (overlap \/ Listed(i)) => (overlap => overlap') OBVIOUS
  <2> QED BY <2>1, <2>2, <2>3, <2>4
<1>4. CacheWorkspace => ended' = ended /\ overlap' = (overlap \/ Listed(workflow.issue))
    BY Caching
<1>5. ListWorkspaces => ended' = ended /\ overlap' = (overlap \/ workflow.at = "cache")
    BY Listing
<1>6. UNCHANGED <<overlap, ended>> => (overlap => overlap') /\ (ended => ended') OBVIOUS
<1>7. CacheWorkspace \/ ListWorkspaces => (overlap => overlap') /\ (ended => ended')
    BY <1>4, <1>5
<1> QED BY <1>1, <1>2, <1>3, <1>6, <1>7, WorkspaceActions

\* Whoever forgets an issue has removed its directory.
Removed ==
    /\ workflow.at = "forget" => workflow.issue \notin dirs
    /\ ~overlap /\ scheduler.at = "forget" => scheduler.issue \notin dirs

\* The directory is removed before it is forgotten.
LEMMA RemovedStep ==
    WorkspaceTypeOK /\ Removed /\ [WorkspaceNext]_workspaceVars => Removed'
<1> SUFFICES ASSUME WorkspaceTypeOK, Removed, [WorkspaceNext]_workspaceVars PROVE Removed'
    OBVIOUS
<1>1. ASSUME workflow'.at = "forget" PROVE workflow'.issue \notin dirs'
  <2>1. workflow' = workflow \/ WorkflowRemoves
    <3>1. ASSUME \/ UNCHANGED workspaceVars \/ ListWorkspaces \/ Decides \/ SchedulerRemoves
                 \/ SchedulerForgets \/ Quiet \/ Ages
          PROVE  workflow' = workflow
        BY <3>1, Listing, Deciding, SchedulerRemoval, SchedulerForgetting, QuietSteps, AgingSteps
        DEF workspaceVars
    <3>2. \A i \in Issues : ~CreateWorkspace(i) BY <1>1, Creation
    <3>3. ~CacheWorkspace BY <1>1, Caching
    <3>4. ~ShutdownCleans BY <1>1, Cleaning
    <3>5. Resting.at # "forget" BY DEF Resting
    <3>6. ~(WorkflowReturns \/ WorkflowForgets \/ Restarts)
        BY <1>1, <3>5, Returning, WorkflowForgetting, Scanning
    <3> QED BY <3>1, <3>2, <3>3, <3>4, <3>6, WorkspaceActions
  <2>2. CASE WorkflowRemoves BY <1>1, <2>2, WorkflowRemoval
  <2>3. CASE workflow' = workflow /\ ~WorkflowRemoves
    <3>1. workflow.issue \notin dirs BY <1>1, <2>3 DEF Removed
    <3>2. workflow'.at # "cache" BY <1>1
    <3> QED BY <2>3, <3>1, <3>2, DirectorySteps
  <2> QED BY <2>1, <2>2, <2>3
<1>2. ASSUME ~overlap', scheduler'.at = "forget" PROVE scheduler'.issue \notin dirs'
  <2>1. CASE SchedulerRemoves BY <1>2, <2>1, SchedulerRemoval
  <2>2. CASE scheduler' = scheduler
    <3>1. overlap => overlap' \/ Restarts BY OverlapStays
    <3>2. ~Restarts
      <4>1. Restarts => scheduler' = NotRunning BY Scanning
      <4> QED BY <1>2, <4>1 DEF NotRunning
    <3>3. scheduler.issue \notin dirs BY <1>2, <2>2, <3>1, <3>2 DEF Removed
    <3>4. scheduler.at = "forget" BY <1>2, <2>2
    <3>5. Listed(scheduler.issue) BY <3>4 DEF Listed
    <3> QED BY <1>2, <2>2, <3>3, <3>5, DirectorySteps
  <2> QED BY <1>2, <2>1, <2>2, ForgetSteps
<1> QED BY <1>1, <1>2 DEF Removed

\* The workflow is moved by its own steps, and ends with the process.
LEMMA WorkflowSteps ==
    ASSUME WorkspaceTypeOK, [WorkspaceNext]_workspaceVars
    PROVE  \/ workflow' = workflow
           \/ workflow'.at = "idle"
           \/ \E i \in Issues : CreateWorkspace(i)
           \/ CacheWorkspace \/ ShutdownCleans \/ WorkflowRemoves
<1>1. ASSUME \/ UNCHANGED workspaceVars \/ ListWorkspaces \/ Decides \/ SchedulerRemoves
             \/ SchedulerForgets \/ Quiet \/ Ages
      PROVE  workflow' = workflow
    BY <1>1, Listing, Deciding, SchedulerRemoval, SchedulerForgetting, QuietSteps, AgingSteps
    DEF workspaceVars
<1>2. WorkflowReturns \/ WorkflowForgets \/ Restarts => workflow' = Resting
    BY Returning, WorkflowForgetting, Scanning
<1>3. Resting.at = "idle" BY DEF Resting
<1> QED BY <1>1, <1>2, <1>3, WorkspaceActions

\* A directory whose entry goes is gone, unless an overlap is noted.
LEMMA KnownStep ==
    WorkspaceTypeOK /\ Removed /\ DirectoriesAreKnown /\ [WorkspaceNext]_workspaceVars
        => DirectoriesAreKnown'
<1> SUFFICES ASSUME WorkspaceTypeOK, Removed, DirectoriesAreKnown, [WorkspaceNext]_workspaceVars,
                    ~overlap', NEW i \in dirs'
             PROVE  cache'[i] # 0 \/ (workflow'.at = "cache" /\ workflow'.issue = i)
    BY DEF DirectoriesAreKnown, Cached
<1>0. i \in Issues BY WorkspaceTypes DEF WorkspaceTypeOK
<1>1. CASE Restarts
  <2>1. i \in dirs BY <1>1, Scanning
  <2> QED BY <1>0, <1>1, <2>1, Scanning
<1>2. CASE ~Restarts /\ i \notin dirs
  <2>1. CreateWorkspace(i) /\ workflow'.at = "cache" BY <1>2, DirectorySteps
  <2> QED BY <1>0, <2>1, Creation
<1>3. CASE ~Restarts /\ i \in dirs
  <2>1. ~overlap BY <1>3, OverlapStays
  <2>2. cache[i] # 0 \/ (workflow.at = "cache" /\ workflow.issue = i)
      BY <1>3, <2>1 DEF DirectoriesAreKnown, Cached
  <2>3. CacheWorkspace /\ i = workflow.issue => cache'[i] # 0
      BY Caching, WorkspaceAssumption DEF Objects
  <2>4. CASE cache[i] # 0
    <3>1. ~(WorkflowForgets /\ i = workflow.issue) BY <1>3, WorkflowForgetting DEF Removed
    <3>2. ~(SchedulerForgets /\ i = scheduler.issue) BY <1>3, <2>1, SchedulerForgetting DEF Removed
    <3> QED BY <1>0, <1>3, <2>3, <2>4, <3>1, <3>2, CacheSteps
  <2>5. CASE workflow.at = "cache" /\ workflow.issue = i
    <3>1. ~ShutdownCleans /\ ~WorkflowRemoves /\ \A j \in Issues : ~CreateWorkspace(j)
        BY <2>5, Cleaning, WorkflowRemoval, Creation
    <3>2. workflow' = workflow \/ CacheWorkspace
      <4>1. ~WorkflowReturns /\ ~WorkflowForgets BY <2>5, Returning, WorkflowForgetting
      <4>2. ASSUME \/ UNCHANGED workspaceVars \/ ListWorkspaces \/ Decides \/ SchedulerRemoves
                   \/ SchedulerForgets \/ Quiet \/ Ages
            PROVE  workflow' = workflow
          BY <4>2, Listing, Deciding, SchedulerRemoval, SchedulerForgetting, QuietSteps, AgingSteps
          DEF workspaceVars
      <4> QED BY <1>3, <3>1, <4>1, <4>2, WorkspaceActions
    <3> QED BY <2>3, <2>5, <3>2
  <2> QED BY <2>2, <2>4, <2>5
<1> QED BY <1>1, <1>2, <1>3

-----------------------------------------------------------------------------
(* The directory of a running workflow.                                    *)

\* The scheduler cleans up what it listed, and what its strategies choose.
LEMMA CleanupSteps ==
    ASSUME WorkspaceTypeOK, [WorkspaceNext]_workspaceVars, scheduler'.at \in {"remove", "forget"}
    PROVE  /\ ~Restarts /\ ~ListWorkspaces
           /\ \/ scheduler' = scheduler
              \/ SchedulerRemoves /\ scheduler'.issue = scheduler.issue
              \/ Decides /\ \E o \in scheduler.list : /\ scheduler'.issue = object[o].issue
                                                      /\ ShouldCleanup(o)
<1>1. ASSUME \/ UNCHANGED workspaceVars \/ \E j \in Issues : CreateWorkspace(j)
             \/ CacheWorkspace \/ WorkflowReturns \/ ShutdownCleans \/ WorkflowRemoves
             \/ WorkflowForgets \/ Ages
      PROVE  scheduler' = scheduler
    BY <1>1, Creation, Caching, Returning, Cleaning, WorkflowRemoval, WorkflowForgetting, AgingSteps
    DEF workspaceVars
<1>2. ~ListWorkspaces BY Listing
<1>4. ~SchedulerForgets BY SchedulerForgetting
<1>5. Quiet => scheduler' = scheduler BY QuietSteps
<1>6. ~Restarts
  <2> SUFFICES ASSUME Restarts PROVE FALSE OBVIOUS
  <2>1. scheduler' = NotRunning BY Scanning
  <2> QED BY <2>1 DEF NotRunning
<1>7. SchedulerRemoves => scheduler'.issue = scheduler.issue BY SchedulerRemoval
<1>8. Decides => \E o \in scheduler.list : scheduler'.issue = object[o].issue /\ ShouldCleanup(o)
    BY Deciding
<1> QED BY <1>1, <1>2, <1>4, <1>5, <1>6, <1>7, <1>8, WorkspaceActions

\* Only listing adds to the objects the scheduler has still to decide on.
LEMMA ListSteps ==
    ASSUME WorkspaceTypeOK, [WorkspaceNext]_workspaceVars
    PROVE  ListWorkspaces \/ scheduler'.list \subseteq scheduler.list
<1>1. ASSUME \/ UNCHANGED workspaceVars \/ \E j \in Issues : CreateWorkspace(j)
             \/ CacheWorkspace \/ WorkflowReturns \/ ShutdownCleans \/ WorkflowRemoves
             \/ WorkflowForgets \/ Ages
      PROVE  scheduler' = scheduler
    BY <1>1, Creation, Caching, Returning, Cleaning, WorkflowRemoval, WorkflowForgetting, AgingSteps
    DEF workspaceVars
<1>2. Decides \/ SchedulerRemoves \/ SchedulerForgets \/ Quiet
        => scheduler'.list \subseteq scheduler.list
    BY Deciding, SchedulerRemoval, SchedulerForgetting, QuietSteps
<1>3. Restarts => scheduler'.list = {}
  <2>1. NotRunning.list = {} BY DEF NotRunning
  <2> QED BY <2>1, Scanning
<1> QED BY <1>1, <1>2, <1>3, WorkspaceActions

\* The objects the scheduler lists have been made.
LEMMA ListedMade ==
    ASSUME WorkspaceTypeOK, Numbered, NEW o \in scheduler.list
    PROVE  o \in Objects /\ o <= made
BY DEF WorkspaceTypeOK, Numbered, Schedulers

\* The scheduler holds a workspace of an issue from when it lists it.
LEMMA ListedSteps ==
    ASSUME WorkspaceTypeOK, Numbered, [WorkspaceNext]_workspaceVars, ~Restarts, ~ListWorkspaces,
           NEW i \in Issues, Listed(i)'
    PROVE  Listed(i)
<1>1. ASSUME NEW o \in scheduler'.list, object'[o].issue = i PROVE Listed(i)
  <2>1. o \in scheduler.list BY ListSteps
  <2>2. object[o].issue = i BY <1>1, <2>1, ListedMade, IssuesStay
  <2> QED BY <2>1, <2>2 DEF Listed
<1>2. ASSUME scheduler'.at \in {"remove", "forget"}, scheduler'.issue = i PROVE Listed(i)
  <2>1. CASE scheduler' = scheduler BY <1>2, <2>1 DEF Listed
  <2>2. CASE SchedulerRemoves /\ scheduler'.issue = scheduler.issue
      BY <1>2, <2>2, SchedulerRemoval DEF Listed
  <2>3. CASE \E o \in scheduler.list : scheduler'.issue = object[o].issue
      BY <1>2, <2>3 DEF Listed
  <2> QED BY <1>2, <2>1, <2>2, <2>3, CleanupSteps
<1> QED BY <1>1, <1>2 DEF Listed

\* A directory is removed by its workflow or by the scheduler.
LEMMA RemovalSteps ==
    ASSUME WorkspaceTypeOK, [WorkspaceNext]_workspaceVars, NEW i \in dirs, i \notin dirs'
    PROVE  \/ WorkflowRemoves /\ i = workflow.issue
           \/ SchedulerRemoves /\ i = scheduler.issue
<1>1. ASSUME \/ UNCHANGED workspaceVars
             \/ CacheWorkspace \/ WorkflowReturns \/ ShutdownCleans
             \/ WorkflowForgets \/ Ages \/ ListWorkspaces \/ Decides \/ SchedulerForgets \/ Quiet
             \/ Restarts
      PROVE  dirs' = dirs
    BY <1>1, Caching, Returning, Cleaning, WorkflowForgetting, AgingSteps, Listing, Deciding,
       SchedulerForgetting, QuietSteps, Scanning
    DEF workspaceVars
<1>2. ASSUME NEW j \in Issues, CreateWorkspace(j) PROVE dirs \subseteq dirs' BY <1>2, Creation
<1>3. WorkflowRemoves => dirs' = dirs \/ dirs' = dirs \ {workflow.issue} BY WorkflowRemoval
<1>4. SchedulerRemoves => dirs' = dirs \/ dirs' = dirs \ {scheduler.issue} BY SchedulerRemoval
<1> QED BY <1>1, <1>2, <1>3, <1>4, WorkspaceActions

\* A directory the workflow has just made is none of the scheduler's.
Fresh ==
    workflow.at = "cache" /\ ~overlap => ~Listed(workflow.issue) /\ workflow.issue \in dirs

\* Between making the directory and caching it nobody lists it.
LEMMA FreshStep ==
    WorkspaceTypeOK /\ Numbered /\ Fresh /\ [WorkspaceNext]_workspaceVars => Fresh'
<1> SUFFICES ASSUME WorkspaceTypeOK, Numbered, Fresh, [WorkspaceNext]_workspaceVars,
                    workflow'.at = "cache", ~overlap'
             PROVE  ~Listed(workflow.issue)' /\ workflow'.issue \in dirs'
    BY DEF Fresh
<1>1. ~CacheWorkspace /\ ~ShutdownCleans /\ ~WorkflowRemoves
    BY Caching, Cleaning, WorkflowRemoval
<1>2. ~Restarts
  <2>1. Resting.at # "cache" BY DEF Resting
  <2> QED BY <2>1, Scanning
<1>3. ~overlap BY <1>2, OverlapStays
<1>4. ASSUME NEW i \in Issues, CreateWorkspace(i)
      PROVE  ~Listed(workflow.issue)' /\ workflow'.issue \in dirs'
  <2>1. workflow'.issue = i /\ dirs' = dirs \cup {i} /\ ~Listed(i) /\ UNCHANGED <<scheduler, object>>
      BY <1>4, Creation
  <2> QED BY <2>1 DEF Listed
<1>5. CASE workflow' = workflow
  <2>0. workflow.issue \in Issues BY DEF WorkspaceTypeOK, Workflows
  <2>1. ~Listed(workflow.issue) /\ workflow.issue \in dirs BY <1>3, <1>5 DEF Fresh
  <2>2. ~ListWorkspaces BY <1>5, Listing
  <2>3. ~Listed(workflow.issue)'
    <3>1. PICK i \in Issues : i = workflow.issue BY <2>0
    <3>2. ~Listed(i)' BY <1>2, <2>1, <2>2, <3>1, ListedSteps
    <3> QED BY <1>5, <3>1, <3>2 DEF Listed
  <2>4. ~(SchedulerRemoves /\ workflow.issue = scheduler.issue)
      BY <2>1, SchedulerRemoval DEF Listed
  <2>5. workflow.issue \in dirs' BY <1>1, <2>1, <2>4, RemovalSteps
  <2> QED BY <1>5, <2>3, <2>5
<1> QED BY <1>1, <1>4, <1>5, WorkflowSteps

\* The workflow has an object while it works, and removes its workspace only
\* when it was told to stop.
Ending ==
    /\ workflow.at \in {"working", "remove"} => workflow.object # 0
    /\ workflow.at \in {"remove", "forget"} => ended

\* Only the workflow that runs has an active workspace.
OneActive ==
    \A i \in Issues : cache[i] # 0 /\ object[cache[i]].state = "active" =>
        workflow.issue = i /\ workflow.at \in {"working", "remove", "forget"}

\* A workflow removes its workspace only after it was told to stop.
LEMMA EndingStep ==
    WorkspaceTypeOK /\ Ending /\ [WorkspaceNext]_workspaceVars => Ending'
<1> SUFFICES ASSUME WorkspaceTypeOK, Ending, [WorkspaceNext]_workspaceVars PROVE Ending'
    OBVIOUS
<1>1. CASE workflow' = workflow
  <2>1. CASE Restarts
    <3>1. workflow'.at = "idle" BY <2>1, Scanning DEF Resting
    <3> QED BY <3>1 DEF Ending
  <2>2. CASE ended => ended' BY <1>1, <2>2 DEF Ending
  <2> QED BY <2>1, <2>2, OverlapStays
<1>2. CASE workflow'.at = "idle" BY <1>2 DEF Ending
<1>3. ASSUME NEW i \in Issues, CreateWorkspace(i) PROVE Ending'
  <2>1. CASE i \in Active /\ workflow'.at = "working" /\ workflow'.object = cache[i]
      BY <2>1 DEF Active, Cached, Ending
  <2>2. CASE workflow'.at = "cache" BY <2>2 DEF Ending
  <2> QED BY <1>3, <2>1, <2>2, Creation
<1>4. CASE CacheWorkspace
  <2>1. workflow'.at = "working" /\ workflow'.object = made + 1 /\ made + 1 # 0
      BY <1>4, Caching, WorkspaceAssumption DEF Objects
  <2> QED BY <2>1 DEF Ending
<1>5. CASE ShutdownCleans
  <2>1. workflow.at = "working" /\ workflow.object # 0 BY <1>5, Cleaning DEF Ending
  <2>2. workflow'.object = workflow.object BY <1>5 DEF ShutdownCleans, WorkflowStep, WorkspaceTypeOK, Workflows
  <2> QED BY <1>5, <2>1, <2>2, Cleaning DEF Ending
<1>6. CASE WorkflowRemoves
  <2>1. workflow.at = "remove" /\ workflow.object # 0 /\ ended' BY <1>6, WorkflowRemoval DEF Ending
  <2> QED BY <1>6, <2>1, WorkflowRemoval DEF Ending
<1> QED BY <1>1, <1>2, <1>3, <1>4, <1>5, <1>6, WorkflowSteps

\* What the steps make of the state and the size of an object.
LEMMA ObjectSteps ==
    ASSUME WorkspaceTypeOK, [WorkspaceNext]_workspaceVars, ~Restarts, ~CacheWorkspace,
           NEW o \in Objects
    PROVE  /\ object[o].big => object'[o].big
           /\ \/ object'[o].state = object[o].state
              \/ /\ object'[o].state # "active"
                 /\ \/ WorkflowReturns /\ o = cache[workflow.issue]
                    \/ WorkflowForgets /\ o = workflow.object
                    \/ SchedulerForgets /\ o = scheduler.object
<1>1. CASE UNCHANGED object BY <1>1
<1>2. ASSUME NEW p \in Objects, NEW s \in States, Stamped(p, s)
      PROVE  /\ object[o].big => object'[o].big
             /\ o = p => object'[o].state = s
             /\ o # p => object'[o].state = object[o].state
  <2>1. object \in [Objects -> Rows] BY DEF WorkspaceTypeOK
  <2>2. /\ object'[p].state = s /\ object'[p].big = object[p].big
        /\ \A q \in Objects \ {p} : object'[q] = object[q]
      BY <1>2, <2>1, StampedRow
  <2> QED BY <2>2
<1>3. CASE WorkflowReturns
  <2>1. CASE \E s \in {"stale", "failed"} : Stamped(cache[workflow.issue], s)
    <3>1. PICK s \in {"stale", "failed"} : Stamped(cache[workflow.issue], s) BY <2>1
    <3>2. cache[workflow.issue] \in Objects \/ UNCHANGED object BY <1>3, Returning
    <3>3. s \in States /\ s # "active" BY DEF States
    <3> QED BY <1>1, <1>2, <1>3, <3>1, <3>2, <3>3
  <2> QED BY <1>1, <1>3, <2>1, Returning
<1>4. CASE WorkflowForgets
  <2>1. "cleaned" \in States BY DEF States
  <2> QED BY <1>1, <1>2, <1>4, <2>1, WorkflowForgetting
<1>5. CASE SchedulerForgets
  <2>1. "cleaned" \in States BY DEF States
  <2> QED BY <1>1, <1>2, <1>5, <2>1, SchedulerForgetting
<1>6. CASE Ages BY <1>6, AgingSteps
<1>7. ASSUME \/ UNCHANGED workspaceVars \/ \E i \in Issues : CreateWorkspace(i)
             \/ ShutdownCleans \/ WorkflowRemoves \/ ListWorkspaces \/ Decides
             \/ SchedulerRemoves \/ Quiet
      PROVE  UNCHANGED object
    BY <1>7, Creation, Cleaning, WorkflowRemoval, Listing, Deciding, SchedulerRemoval, QuietSteps
    DEF workspaceVars
<1> QED BY <1>1, <1>3, <1>4, <1>5, <1>6, <1>7, WorkspaceActions

\* A workspace becomes active in the hands of its workflow.
LEMMA OneActiveStep ==
    WorkspaceTypeOK /\ Numbered /\ OneActive /\ [WorkspaceNext]_workspaceVars => OneActive'
<1> SUFFICES ASSUME WorkspaceTypeOK, Numbered, OneActive, [WorkspaceNext]_workspaceVars,
                    NEW i \in Issues, cache'[i] # 0, object'[cache'[i]].state = "active"
             PROVE  workflow'.issue = i /\ workflow'.at \in {"working", "remove", "forget"}
    BY DEF OneActive
<1>1. ~Restarts
  <2> SUFFICES ASSUME Restarts PROVE FALSE OBVIOUS
  <2>1. cache'[i] \in Objects BY Scanning, WorkspaceAssumption DEF Objects
  <2> QED BY <2>1, Scanning
<1>2. CASE CacheWorkspace /\ i = workflow.issue BY <1>2, Caching
<1>3. CASE cache'[i] = cache[i]
  <2>1. cache[i] \in Objects /\ cache[i] <= made
      BY <1>3, WorkspaceAssumption DEF WorkspaceTypeOK, Numbered, Objects
  <2>2. object[cache[i]].state = "active"
    <3>1. CASE CacheWorkspace
      <4>1. cache[i] # made + 1 BY <2>1, WorkspaceAssumption DEF WorkspaceTypeOK, Objects
      <4> QED BY <1>3, <2>1, <3>1, <4>1, Caching
    <3>2. CASE ~CacheWorkspace BY <1>1, <1>3, <2>1, <3>2, ObjectSteps
    <3> QED BY <3>1, <3>2
  <2>3. workflow.issue = i /\ workflow.at \in {"working", "remove", "forget"}
      BY <1>3, <2>2 DEF OneActive
  <2>4. ~CacheWorkspace /\ \A j \in Issues : ~CreateWorkspace(j) BY <2>3, Caching, Creation
  <2>5. ~WorkflowReturns
    <3> SUFFICES ASSUME WorkflowReturns PROVE FALSE OBVIOUS
    <3>1. PICK s \in {"stale", "failed"} : Stamped(cache[i], s)
        BY <1>3, <2>3, Returning
    <3>2. s \in States /\ object \in [Objects -> Rows] BY DEF States, WorkspaceTypeOK
    <3>3. object'[cache[i]].state = s BY <2>1, <3>1, <3>2, StampedRow
    <3> QED BY <1>3, <3>3
  <2>6. ~WorkflowForgets
    <3> SUFFICES ASSUME WorkflowForgets PROVE FALSE OBVIOUS
    <3>1. cache' = [cache EXCEPT ![i] = 0] BY <2>3, WorkflowForgetting
    <3>2. cache'[i] = 0 BY <3>1 DEF WorkspaceTypeOK
    <3> QED BY <3>2
  <2>7. workflow' = workflow \/ ShutdownCleans \/ WorkflowRemoves
    <3>1. ASSUME \/ UNCHANGED workspaceVars \/ ListWorkspaces \/ Decides \/ SchedulerRemoves
                 \/ SchedulerForgets \/ Quiet \/ Ages
          PROVE  workflow' = workflow
        BY <3>1, Listing, Deciding, SchedulerRemoval, SchedulerForgetting, QuietSteps, AgingSteps
        DEF workspaceVars
    <3> QED BY <1>1, <2>4, <2>5, <2>6, <3>1, WorkspaceActions
  <2> QED BY <2>3, <2>7, Cleaning, WorkflowRemoval
<1> QED BY <1>1, <1>2, <1>3, CacheSteps

\* What a workflow relies on, unless the exceptions of the property hold: its
\* workspace is the one that is cached, active and alone with the scheduler.
Mine(i, o) ==
    /\ i \in dirs /\ cache[i] = o
    /\ object[o].state = "active" /\ object[o].issue = i
    /\ \A p \in scheduler.list : object[p].issue = i => p = o
    /\ ~(scheduler.at \in {"remove", "forget"} /\ scheduler.issue = i)
Kept ==
    workflow.at = "working" /\ ~overlap /\ ~ended /\ ~object[workflow.object].big
        => Mine(workflow.issue, workflow.object)

\* A workflow that works keeps what it relies on.
LEMMA MineStep ==
    ASSUME WorkspaceTypeOK, Numbered, OfIssue, [WorkspaceNext]_workspaceVars,
           workflow' = workflow, workflow.at = "working",
           NEW i \in Issues, i = workflow.issue, NEW o \in Objects, Mine(i, o), ~object[o].big
    PROVE  Mine(i, o)'
<1>1. ~Restarts
  <2>1. Resting.at = "idle" BY DEF Resting
  <2> QED BY <2>1, Scanning
<1>2. ~CacheWorkspace /\ ~WorkflowRemoves /\ ~WorkflowForgets
    BY Caching, WorkflowRemoval, WorkflowForgetting
<1>3. ~WorkflowReturns
  <2>1. Resting.at = "idle" BY DEF Resting
  <2> QED BY <2>1, Returning
<1>4. o <= made /\ cache[i] = o BY DEF Mine, Numbered
<1>5. i \in dirs'
  <2>1. ~(SchedulerRemoves /\ i = scheduler.issue) BY SchedulerRemoval DEF Mine
  <2> QED BY <1>2, <2>1, RemovalSteps DEF Mine
<1>6. ~(SchedulerForgets /\ i = scheduler.issue) BY SchedulerForgetting DEF Mine
<1>7. cache'[i] = o BY <1>1, <1>2, <1>4, <1>6, CacheSteps
<1>8. object'[o].issue = i BY <1>1, <1>4, IssuesStay DEF Mine
<1>9. object'[o].state = "active"
  <2>1. ~(SchedulerForgets /\ o = scheduler.object)
    <3> SUFFICES ASSUME SchedulerForgets, o = scheduler.object PROVE FALSE OBVIOUS
    <3>1. scheduler.at = "forget" /\ scheduler.object # 0
        BY SchedulerForgetting, WorkspaceAssumption DEF Objects
    <3>2. object[o].issue = scheduler.issue BY <3>1 DEF OfIssue
    <3> QED BY <1>6, <3>2 DEF Mine
  <2> QED BY <1>1, <1>2, <1>3, <2>1, ObjectSteps DEF Mine
<1>10. ASSUME NEW p \in scheduler'.list, object'[p].issue = i PROVE p = o
  <2>1. CASE ListWorkspaces
    <3>1. scheduler'.list = {cache[j] : j \in Issues} \ {0} /\ object' = object
        BY <2>1, Listing
    <3>2. PICK j \in Issues : p = cache[j] /\ cache[j] # 0 BY <3>1
    <3>3. object[p].issue = j BY <3>2 DEF OfIssue, Cached
    <3> QED BY <1>4, <1>10, <3>1, <3>2, <3>3
  <2>2. CASE p \in scheduler.list
    <3>1. object[p].issue = i BY <1>1, <1>10, <2>2, ListedMade, IssuesStay
    <3> QED BY <2>2, <3>1 DEF Mine
  <2> QED BY <2>1, <2>2, ListSteps
<1>11. ASSUME scheduler'.at \in {"remove", "forget"}, scheduler'.issue = i PROVE FALSE
  <2>1. CASE scheduler' = scheduler BY <1>11, <2>1 DEF Mine
  <2>2. CASE SchedulerRemoves /\ scheduler'.issue = scheduler.issue
      BY <1>11, <2>2, SchedulerRemoval DEF Mine
  <2>3. CASE \E p \in scheduler.list : scheduler'.issue = object[p].issue /\ ShouldCleanup(p)
    <3>1. ShouldCleanup(o) BY <1>11, <2>3 DEF Mine
    <3> QED BY <3>1 DEF ShouldCleanup, AgeBased, SizeBased, Mine
  <2> QED BY <1>11, <2>1, <2>2, <2>3, CleanupSteps
<1> QED BY <1>5, <1>7, <1>8, <1>9, <1>10, <1>11 DEF Mine

\* Every step keeps what a running workflow relies on.
LEMMA KeptStep ==
    /\ WorkspaceTypeOK /\ Numbered /\ OfIssue /\ Fresh /\ Ending /\ OneActive /\ Kept
    /\ [WorkspaceNext]_workspaceVars
    => Kept'
<1> SUFFICES ASSUME WorkspaceTypeOK, Numbered, OfIssue, Fresh, Ending, OneActive, Kept,
                    [WorkspaceNext]_workspaceVars,
                    workflow'.at = "working", ~overlap', ~ended', ~object'[workflow'.object].big
             PROVE  Mine(workflow.issue, workflow.object)'
    BY DEF Kept
<1>1. ~Restarts
  <2>1. Resting.at = "idle" BY DEF Resting
  <2> QED BY <2>1, Scanning
<1>2. ~overlap /\ ~ended BY <1>1, OverlapStays
<1>3. ~WorkflowRemoves BY <1>2, WorkflowRemoval DEF Ending
<1>4. ~ShutdownCleans BY Cleaning
<1>5. ASSUME NEW i \in Issues, CreateWorkspace(i) PROVE FALSE
  <2>1. workflow.at = "idle" /\ i \in Active BY <1>5, Creation
  <2> QED BY <2>1 DEF Active, Cached, OneActive
<1>6. CASE CacheWorkspace
  <2> DEFINE i == workflow.issue
             o == made + 1
  <2>1. /\ workflow'.issue = i /\ workflow'.object = o /\ cache'[i] = o /\ o \in Objects
        /\ object'[o].state = "active" /\ object'[o].issue = i
        /\ UNCHANGED <<dirs, scheduler>> /\ workflow.at = "cache"
      BY <1>6, Caching
  <2>2. ~Listed(i) /\ i \in dirs BY <1>2, <2>1 DEF Fresh
  <2>3. ASSUME NEW p \in scheduler.list PROVE object'[p].issue # i
    <3>1. p \in Objects /\ p <= made BY ListedMade
    <3>2. object'[p].issue = object[p].issue BY <1>1, <3>1, IssuesStay
    <3> QED BY <2>2, <3>2 DEF Listed
  <2>4. ~(scheduler.at \in {"remove", "forget"} /\ scheduler.issue = i) BY <2>2 DEF Listed
  <2> QED BY <2>1, <2>2, <2>3, <2>4 DEF Mine
<1>7. CASE workflow' = workflow /\ ~CacheWorkspace
  <2>1. PICK i \in Issues, o \in Objects : i = workflow.issue /\ o = workflow.object
    <3>1. workflow.issue \in Issues /\ workflow.object \in 0..MaxObjects
        BY DEF WorkspaceTypeOK, Workflows
    <3>2. workflow.object # 0 BY <1>7 DEF Ending
    <3>3. workflow.object \in Objects BY <3>1, <3>2, WorkspaceAssumption DEF Objects
    <3> QED BY <3>1, <3>3
  <2>2. ~object[o].big BY <1>1, <1>7, <2>1, ObjectSteps
  <2>3. Mine(i, o) BY <1>2, <1>7, <2>1, <2>2 DEF Kept
  <2>4. Mine(i, o)' BY <1>7, <2>1, <2>2, <2>3, MineStep
  <2> QED BY <1>7, <2>1, <2>4 DEF Mine
<1> QED BY <1>3, <1>4, <1>5, <1>6, <1>7, WorkflowSteps

-----------------------------------------------------------------------------
WorkspaceInv ==
    /\ WorkspaceTypeOK /\ Numbered /\ OfIssue /\ Removed /\ DirectoriesAreKnown
    /\ Fresh /\ Ending /\ OneActive /\ Kept

\* The inductive invariant of the workspaces.
LEMMA WorkspaceInvariant == WorkspaceSpec => []WorkspaceInv
<1>1. WorkspaceInit => WorkspaceInv
  <2> SUFFICES ASSUME WorkspaceInit PROVE WorkspaceInv OBVIOUS
  <2> USE DEF WorkspaceInit
  <2>1. WorkspaceTypeOK
    <3>1. 0 \in 0..MaxObjects BY WorkspaceAssumption
    <3>2. object \in [Objects -> Rows] BY NoObjectIsARow
    <3>3. cache \in [Issues -> 0..MaxObjects] BY <3>1
    <3> QED BY RestingIsTyped, <3>1, <3>2, <3>3 DEF WorkspaceTypeOK
  <2>2. workflow.at = "idle" /\ scheduler.at = "off" /\ scheduler.list = {}
      BY DEF Resting, NotRunning
  <2>3. Numbered /\ OfIssue /\ OneActive BY <2>2 DEF Numbered, OfIssue, OneActive, Cached
  <2>4. Removed /\ DirectoriesAreKnown /\ Fresh /\ Ending /\ Kept
      BY <2>2 DEF Removed, DirectoriesAreKnown, Fresh, Ending, Kept
  <2> QED BY <2>1, <2>3, <2>4 DEF WorkspaceInv
<1>2. WorkspaceInv /\ [WorkspaceNext]_workspaceVars => WorkspaceInv'
    BY WorkspaceTypes, NumberedStep, OfIssueStep, RemovedStep, KnownStep, FreshStep, EndingStep,
       OneActiveStep, KeptStep
    DEF WorkspaceInv
<1> QED BY <1>1, <1>2, PTL DEF WorkspaceSpec

\* No interleaving of listing, deciding, removing and a workflow takes the
\* directory from a workflow that runs, but for the exceptions it names.
THEOREM WorkflowsKeepTheirDirectory == WorkspaceSpec => []WorkKeepsDirectory
<1>1. WorkspaceInv => WorkKeepsDirectory
    BY DEF WorkspaceInv, WorkKeepsDirectory, Kept, Mine
<1> QED BY <1>1, WorkspaceInvariant, PTL

\* Every directory is one the manager knows of, also after a restart, as long
\* as no workflow took an issue the scheduler was about to remove.
THEOREM ManagerKnowsDirectories == WorkspaceSpec => []DirectoriesAreKnown
<1>1. WorkspaceInv => DirectoriesAreKnown BY DEF WorkspaceInv
<1> QED BY <1>1, WorkspaceInvariant, PTL

-----------------------------------------------------------------------------
(* Snapshots.                                                              *)

SnapshotTypeOK ==
    /\ compress \in BOOLEAN /\ taken \in Nat /\ expired \in Nat
    /\ files \subseteq [n : 0..taken, gz : BOOLEAN, whole : BOOLEAN]
    /\ last \in [n : Nat, gz : BOOLEAN]

\* Until the last snapshot reported and whole expires, its file or that of a
\* later one of its setting is there; the cleanup stands beside a whole file
\* unless a compressor's flush failed; and only a compressed one is reported torn.
Keeps(f) == f.whole /\ f.gz = last.gz /\ f.n >= last.n
LastKept == last.n > expired => \E f \in files : Keeps(f)
CleansBeside == creating = "cleanup" => NewFile(TRUE) \in files \/ compress
OnlyCompressedTorn == reported = last \/ reported.gz

SnapshotInv == SnapshotTypeOK /\ LastKept /\ CleansBeside /\ OnlyCompressedTorn

\* There is no snapshot.
LEMMA InitSnapshot == SnapshotInit => SnapshotInv
BY DEF SnapshotInit, SnapshotInv, SnapshotTypeOK, LastKept, CleansBeside, OnlyCompressedTorn

LessThan == OpToRel(<, Nat)

\* A nonempty set of natural numbers has a least element: the well-foundedness
\* of < without an operator for the set.
LEMMA LeastExists ==
    ASSUME NEW S, S \subseteq Nat, S # {}
    PROVE  \E x \in S : \A y \in S : x <= y
<1>1. IsWellFoundedOn(LessThan, Nat) BY NatLessThanWellFounded DEF LessThan
<1>2. LessThan = {p \in Nat \X Nat : p[1] < p[2]} BY DEF LessThan, OpToRel
<1>3. PICK x \in S : \A y \in S : <<y, x>> \notin LessThan BY <1>1, WFMin
<1>4. \A y \in S : <<y, x>> \notin {p \in Nat \X Nat : p[1] < p[2]} BY <1>2, <1>3
<1>5. \A y \in S : y \in Nat /\ x \in Nat /\ ~(y < x) BY <1>4
<1> QED BY <1>5

\* Of the snapshots from a given one on there is a newest, and no other is newer.
LEMMA NewestExists ==
    ASSUME SnapshotTypeOK, NEW f \in GetSnapshots
    PROVE  \E g \in FindLatest : g.n >= f.n
<1> DEFINE Behind == {taken - g.n : g \in {h \in GetSnapshots : h.n >= f.n}}
<1>1. \A g \in GetSnapshots : g.n \in Nat /\ taken - g.n \in Nat
    BY DEF GetSnapshots, SnapshotTypeOK
<1>2. Behind \subseteq Nat /\ Behind # {} BY <1>1
<1>3. PICK x \in Behind : \A y \in Behind : x <= y BY <1>2, LeastExists
<1>4. PICK g \in GetSnapshots : g.n >= f.n /\ x = taken - g.n OBVIOUS
<1>5. ASSUME NEW h \in Newer(g) PROVE FALSE
  <2>1. h \in GetSnapshots /\ h.n > g.n BY <1>5 DEF Newer
  <2>2. h.n \in Nat /\ g.n \in Nat /\ f.n \in Nat /\ taken \in Nat
      BY <1>1, <2>1 DEF SnapshotTypeOK
  <2>3. taken - h.n \in Behind BY <1>4, <2>1, <2>2
  <2>4. taken - g.n <= taken - h.n BY <1>3, <1>4, <2>3
  <2> QED BY <2>1, <2>2, <2>4
<1> QED BY <1>4, <1>5 DEF FindLatest

\* The newest snapshot is not among those beyond the limit.
LEMMA NewestIsNoExcess == ASSUME NEW f \in FindLatest PROVE f \notin Excess
<1>1. Newer(f) = {} BY DEF FindLatest
<1>2. f \in Excess => Cardinality(Newer(f)) >= MaxSnapshots BY DEF Excess
<1> QED BY <1>1, <1>2, FS_EmptySet, SnapshotsAssumption

\* A cleanup that finds the last snapshot or a later one leaves one of them.
LEMMA CleanupLeavesOne ==
    ASSUME SnapshotTypeOK, last.n > expired, NEW f \in files, Keeps(f),
           NEW gone \in SUBSET (Excess \cup {g \in GetSnapshots : Expired(g)})
    PROVE  \E g \in files \ gone : Keeps(g)
<1>1. CASE f.gz # compress
  <2>1. f \notin Excess /\ f \notin GetSnapshots BY <1>1 DEF Excess, GetSnapshots
  <2> QED BY <2>1
<1>2. CASE f.gz = compress
  <2>1. f \in GetSnapshots BY <1>2 DEF GetSnapshots, Keeps
  <2>2. PICK g \in FindLatest : g.n >= f.n BY <2>1, NewestExists
  <2>3. g \in GetSnapshots /\ g \notin Excess BY NewestIsNoExcess DEF FindLatest
  <2>4. g \in files /\ g.whole /\ g.gz = last.gz BY <1>2, <2>3 DEF GetSnapshots, Keeps
  <2>5. g.n \in Nat /\ f.n \in Nat /\ last.n \in Nat /\ expired \in Nat
      BY <2>4 DEF SnapshotTypeOK
  <2>6. g.n >= last.n /\ g.n > expired BY <2>2, <2>5 DEF Keeps
  <2>7. g \notin gone BY <2>3, <2>5, <2>6 DEF Expired
  <2> QED BY <2>4, <2>6, <2>7 DEF Keeps
<1> QED BY <1>1, <1>2

\* The cleanup ends CreateSnapshot: what it reports is whole, or compressed.
LEMMA CleanupStep ==
    ASSUME SnapshotInv, CleanupOldSnapshots PROVE SnapshotInv'
<1> USE DEF SnapshotInv
<1>1. PICK gone \in SUBSET (Excess \cup {f \in GetSnapshots : Expired(f)}) :
         files' = files \ gone
    BY DEF CleanupOldSnapshots
<1>2. /\ UNCHANGED <<compress, taken, expired>> /\ creating' = "idle"
      /\ reported' = [n |-> taken, gz |-> compress]
      /\ last' = IF NewFile(TRUE) \in files THEN reported' ELSE last
    BY DEF CleanupOldSnapshots, Running
<1>3. SnapshotTypeOK' BY <1>1, <1>2 DEF SnapshotTypeOK
<1>4. CleansBeside' BY <1>2 DEF CleansBeside
<1>5. CASE NewFile(TRUE) \in files
  <2>1. /\ last' = [n |-> taken, gz |-> compress] /\ reported' = last'
        /\ last'.n = taken /\ last'.gz = compress
      BY <1>2, <1>5
  <2>2. OnlyCompressedTorn' BY <2>1 DEF OnlyCompressedTorn
  <2>3. ASSUME taken > expired PROVE NewFile(TRUE) \in files'
    <3>1. NewFile(TRUE) \in GetSnapshots BY <1>5 DEF GetSnapshots, NewFile
    <3>2. Newer(NewFile(TRUE)) = {}
      <4> SUFFICES ASSUME NEW f \in Newer(NewFile(TRUE)) PROVE FALSE OBVIOUS
      <4>1. f \in files /\ f.n > taken BY DEF Newer, GetSnapshots, NewFile
      <4>2. f.n \in 0..taken /\ taken \in Nat BY <4>1 DEF SnapshotTypeOK
      <4> QED BY <4>1, <4>2
    <3>3. NewFile(TRUE) \notin Excess BY <3>1, <3>2, NewestIsNoExcess DEF FindLatest
    <3>4. ~Expired(NewFile(TRUE)) BY <2>3 DEF Expired, NewFile, SnapshotTypeOK
    <3> QED BY <1>1, <1>5, <3>3, <3>4
  <2>4. LastKept'
    <3> SUFFICES ASSUME last'.n > expired' PROVE \E f \in files' : Keeps(f)' BY DEF LastKept
    <3>1. taken > expired BY <1>2, <2>1
    <3>2. NewFile(TRUE) \in files' BY <2>3, <3>1
    <3>3. NewFile(TRUE).whole /\ NewFile(TRUE).gz = compress /\ NewFile(TRUE).n = taken
        BY DEF NewFile
    <3>4. taken >= taken BY DEF SnapshotTypeOK
    <3> QED BY <2>1, <3>2, <3>3, <3>4 DEF Keeps
  <2> QED BY <1>3, <1>4, <2>2, <2>4
<1>6. CASE NewFile(TRUE) \notin files
  <2>1. compress BY <1>6 DEF CleansBeside, CleanupOldSnapshots
  <2>5. reported'.gz = compress /\ last' = last BY <1>2, <1>6
  <2>2. OnlyCompressedTorn' BY <2>1, <2>5 DEF OnlyCompressedTorn
  <2>3. ASSUME last.n > expired PROVE \E f \in files' : Keeps(f)
    <3>1. PICK f \in files : Keeps(f) BY <2>3 DEF LastKept
    <3> QED BY <1>1, <2>3, <3>1, CleanupLeavesOne
  <2>4. \A f : Keeps(f)' <=> Keeps(f) BY <2>5 DEF Keeps
  <2> QED BY <1>2, <1>3, <1>4, <2>2, <2>3, <2>4, <2>5 DEF LastKept
<1> QED BY <1>5, <1>6

\* Writing adds files and takes only what is not whole; expiry and death take none.
LEMMA SnapshotStep == SnapshotInv /\ [SnapshotNext]_snapshotVars => SnapshotInv'
<1> SUFFICES ASSUME SnapshotInv, [SnapshotNext]_snapshotVars PROVE SnapshotInv' OBVIOUS
<1> USE DEF SnapshotInv, SnapshotTypeOK, LastKept, Keeps, CleansBeside, OnlyCompressedTorn, Running
<1>1. CASE Capture BY <1>1 DEF Capture
<1>2. \A w \in BOOLEAN : NewFile(w) \in [n : 0..taken, gz : BOOLEAN, whole : BOOLEAN]
    BY DEF NewFile
<1>3. CASE CreateFile
  <2>1. UNCHANGED <<compress, taken, expired, reported, last>> /\ creating' # "cleanup"
      BY <1>3 DEF CreateFile
  <2>2. files' \in {files, files \cup {NewFile(FALSE)}} BY <1>3 DEF CreateFile
  <2> QED BY <1>2, <2>1, <2>2
<1>8. CASE WriteFile
  <2>1. UNCHANGED <<compress, taken, expired, reported, last>> BY <1>8 DEF WriteFile
  <2>2. \/ files' = files /\ (creating' = "idle" \/ compress)
        \/ files' = (files \ {NewFile(FALSE)}) \cup {NewFile(TRUE)}
      BY <1>8 DEF WriteFile
  <2>3. NewFile(TRUE)' = NewFile(TRUE) BY <2>1 DEF NewFile
  <2>4. \A f : f.whole = TRUE => f # NewFile(FALSE) BY DEF NewFile
  <2> QED BY <1>2, <2>1, <2>2, <2>3, <2>4
<1>5. CASE Expires BY <1>5 DEF Expires, NewFile
<1>6. CASE Dies BY <1>6 DEF Dies
<1>7. CASE UNCHANGED snapshotVars BY <1>7 DEF snapshotVars, NewFile
<1> QED BY <1>1, <1>3, <1>5, <1>6, <1>7, <1>8, CleanupStep DEF SnapshotNext

\* What was reported and is whole is found again, it or a later one, whatever
\* cleanup, failed write or restart follows; a torn file that was reported as
\* saved (a compressed one, when its flush failed) takes no place from it.
THEOREM LastSnapshotIsRestored == SnapshotSpec => []LastIsRestored
<1>1. SnapshotInv => LastIsRestored
  <2> SUFFICES ASSUME SnapshotInv, last.n > expired, last.gz = compress
               PROVE  \E f \in RestoreSnapshot : f.n >= last.n
      BY DEF LastIsRestored, SnapshotInv, OnlyCompressedTorn
  <2>1. PICK f \in files : Keeps(f) BY DEF SnapshotInv, LastKept
  <2>2. f \in GetSnapshots BY <2>1 DEF Keeps, GetSnapshots
  <2>3. PICK g \in FindLatest : g.n >= f.n BY <2>2, NewestExists DEF SnapshotInv
  <2>4. g.n \in Nat /\ f.n \in Nat /\ last.n \in Nat /\ expired \in Nat
      BY <2>3 DEF SnapshotInv, SnapshotTypeOK, FindLatest, GetSnapshots
  <2>5. g.n >= last.n /\ ~Expired(g) BY <2>1, <2>3, <2>4 DEF Keeps, Expired
  <2> QED BY <2>3, <2>5 DEF RestoreSnapshot
<1> QED BY <1>1, InitSnapshot, SnapshotStep, PTL DEF SnapshotSpec

=============================================================================
