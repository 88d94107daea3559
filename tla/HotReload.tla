----------------------------- MODULE HotReload -----------------------------
(***************************************************************************)
(* The configuration manager (internal/config/manager.go): it polls the    *)
(* configuration file's modification time, loads the file again when it is *)
(* newer and applies what may change at run time; ReloadConfig does the    *)
(* same on request.  Loading is not under the manager's lock, applying is. *)
(*                                                                         *)
(* A configuration is a function of fields that stand for the kinds of     *)
(* fields there are; its values are the numbers of the edits.              *)
(***************************************************************************)
EXTENDS Integers, FiniteSets

CONSTANTS
    FieldKinds,  \* the kinds of fields that are told apart
    Loaders,     \* the goroutines that reload: the watcher and the callers
    Watcher,     \* the one of them that watches the file
    Subscribers, \* the callbacks, told in their order
    MaxSaves     \* bound: edits of the file

ASSUME HotReloadConstants ==
    Watcher \in Loaders /\ Subscribers \subseteq Nat /\ MaxSaves \in Nat

VARIABLES
    file,      \* the file: its content, whether it loads, the edits so far
    versions,  \* history: every content the file had
    current,   \* currentConfig
    told,      \* what each subscriber was told last
    watching,  \* watchCancel is set
    lastMod,   \* the watcher's lastModTime, -1 when it has not looked yet
    loader     \* each loader's step and the configuration it has loaded

hotVars == <<file, versions, current, told, watching, lastMod, loader>>

\* level and labels may be changed at run time, model needs a restart.
\* interval is listed in HotReloadableFields as well, but detectChanges does
\* not compare it (the workspace.monitoring and observability fields).
HotReloadable  == FieldKinds \cap {"level", "labels", "interval"}
WithoutLabels  == {"level", "model"}      \* variant: the slice is not compared
Compared       == FieldKinds \cap {"level", "labels", "model"}

NotLoading == [at |-> "idle", loaded |-> [f \in FieldKinds |-> 0]]

HotInit ==
    /\ file = [content |-> [f \in FieldKinds |-> 0], loads |-> TRUE, edits |-> 0]
    /\ versions = {file.content}
    /\ current = file.content
    /\ told = [s \in Subscribers |-> file.content]
    /\ watching = FALSE
    /\ lastMod = -1
    /\ loader = [l \in Loaders |-> NotLoading]

\* Somebody saves the file, with any of its fields changed, valid or not.
SaveFile ==
    /\ file.edits < MaxSaves
    /\ \E changed \in SUBSET FieldKinds \ {{}}, loads \in BOOLEAN :
          LET content == [f \in FieldKinds |-> IF f \in changed THEN file.edits + 1
                                           ELSE file.content[f]]
          IN /\ file' = [content |-> content, loads |-> loads, edits |-> file.edits + 1]
             /\ versions' = versions \cup {content}
    /\ UNCHANGED <<current, told, watching, lastMod, loader>>

StartWatching ==
    /\ ~watching
    /\ watching' = TRUE
    /\ UNCHANGED <<file, versions, current, told, lastMod, loader>>

StopWatching ==
    /\ watching
    /\ watching' = FALSE
    /\ lastMod' = -1
    /\ UNCHANGED <<file, versions, current, told, loader>>

\* The watcher's goroutine looks at the file when it starts: an edit between
\* the initial load and this is not noticed.
FirstStat ==
    /\ watching /\ lastMod = -1
    /\ lastMod' = file.edits
    /\ UNCHANGED <<file, versions, current, told, watching, loader>>

\* The time is noted before the reload, and whatever becomes of it.
NoticeEdit ==
    /\ watching /\ lastMod >= 0 /\ file.edits > lastMod
    /\ loader[Watcher].at = "idle"
    /\ lastMod' = file.edits
    /\ loader' = [loader EXCEPT ![Watcher].at = "load"]
    /\ UNCHANGED <<file, versions, current, told, watching>>

ReloadConfig(l) ==
    /\ l # Watcher /\ loader[l].at = "idle"
    /\ loader' = [loader EXCEPT ![l].at = "load"]
    /\ UNCHANGED <<file, versions, current, told, watching, lastMod>>

\* reloadFromFile: a file that does not load changes nothing.
LoadFile(l) ==
    /\ loader[l].at = "load"
    /\ loader' = [loader EXCEPT ![l] =
                    IF file.loads THEN [at |-> "apply", loaded |-> file.content] ELSE NotLoading]
    /\ UNCHANGED <<file, versions, current, told, watching, lastMod>>

DetectChanges(old, new) == {f \in Compared : old[f] # new[f]}

ApplyChanges(old, new, changed) ==
    [f \in FieldKinds |-> IF f \in changed THEN new[f] ELSE old[f]]

\* ApplyHotReloadableChanges: the changes that may be applied are put into a
\* copy, which is validated; the subscribers are told of it one by one, and
\* the first that fails ends it: the ones before it were told of a
\* configuration that never becomes the current one.
Apply(l) ==
    /\ loader[l].at = "apply"
    /\ LET hot     == DetectChanges(current, loader[l].loaded) \cap HotReloadable
           updated == ApplyChanges(current, loader[l].loaded, hot)
       IN \/ UNCHANGED <<current, told>>       \* no change, or not valid
          \/ /\ hot # {}
             /\ current' = updated
             /\ told' = [s \in Subscribers |-> updated]
          \/ /\ hot # {}
             /\ \E before \in Subscribers :
                   told' = [s \in Subscribers |-> IF s < before THEN updated ELSE told[s]]
             /\ UNCHANGED current
    /\ loader' = [loader EXCEPT ![l] = NotLoading]
    /\ UNCHANGED <<file, versions, watching, lastMod>>

HotNext ==
    \/ SaveFile \/ StartWatching \/ StopWatching \/ FirstStat \/ NoticeEdit
    \/ \E l \in Loaders : ReloadConfig(l) \/ LoadFile(l) \/ Apply(l)

HotSpec == HotInit /\ [][HotNext]_hotVars

-----------------------------------------------------------------------------
\* What the program runs with, and what a subscriber was told, never mixes two
\* versions of the file: the fields that are reloaded are all of one version
\* that was written, the others those of the start - whichever loaders
\* overlap, files do not load or subscribers fail (manager.go:186-263).
OneVersion ==
    \A config \in {current} \cup {told[s] : s \in Subscribers} :
        \E version \in versions :
            \A f \in FieldKinds :
                config[f] = IF f \in HotReloadable \ {"interval"} THEN version[f] ELSE 0

\* Known not to hold: the documented field interval is never reloaded, an old
\* load applied late wins over a newer one, a failed reload is not repeated.
AllHotReloadable ==
    \E version \in versions : \A f \in HotReloadable : current[f] = version[f]
=============================================================================
