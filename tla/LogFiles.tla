------------------------------ MODULE LogFiles ------------------------------
(***************************************************************************)
(* The log files of one agent process and the two loops that work on their *)
(* directory: the rotation manager (internal/observability/rotation.go)    *)
(* and the cleanup manager (cleanup.go), each a goroutine of its own with  *)
(* no lock between them, and the logger (logger.go) that opens the file    *)
(* once and keeps its descriptor.                                          *)
(*                                                                         *)
(* A file's content is the number of the log that was started with it; a   *)
(* rename keeps it, and a greater number is a newer log; the negative of   *)
(* it is what a compression that failed left of that log.  One step is one *)
(* call of the operating system; the process may die between any two.      *)
(***************************************************************************)
EXTENDS Integers, FiniteSets, Functions

CONSTANTS
    MaxFiles,             \* LogRotationConfig.MaxFiles
    CompressOld,          \* LogRotationConfig.CompressOld
    ArchiveBeforeDelete,  \* LogCleanupConfig.ArchiveBeforeDelete
    MaxLogs,              \* bound: logs ever started
    MaxNumber             \* bound: the greatest number before a rotation

\* With MaxFiles = 0, which nothing checks, the first rotation indexes an empty list.
ASSUME LogFilesConstants == MaxFiles \in Nat \ {0}

VARIABLES
    disk,     \* name -> content
    started,  \* number of logs started so far
    running,  \* whether the process runs
    rotator,  \* the rotation loop: step, files left to remove, files left to shift
    cleaner,  \* the cleanup loop: step, what each pass has left to remove
    latest,   \* history: the log that was rotated last, 0 for none
    cleaned,  \* history: the logs, from that one on, of which the cleanup removed a file
    archived  \* history: since then a cleanup that failed left an archive behind

logVars == <<disk, started, running, rotator, cleaner, latest, cleaned, archived>>

\* agent.log is number 0, agent.N.log is number N; gz is the suffix .gz.
Name(n, gz) == [number |-> n, gz |-> gz]
LiveLog        == Name(0, FALSE)
First       == Name(1, FALSE)
Gzip(name)  == [name EXCEPT !.gz = TRUE]

WithoutFile(name) == Restrict(disk, DOMAIN disk \ {name})
Write(name, c)    == [n \in DOMAIN disk \cup {name} |-> IF n = name THEN c ELSE disk[n]]
Rename(from, to)  == [n \in (DOMAIN disk \ {from}) \cup {to} |->
                          IF n = to THEN disk[from] ELSE disk[n]]

\* What is at a name after the compression to it failed: what had been written,
\* or nothing when the partial file was removed.
PartOf(c) == -c
Partial(name, c) == {Write(name, PartOf(c)), WithoutFile(name)}
LogAge(c) == IF c < 0 THEN -c ELSE c

\* getRotatedFiles: highest number first, compressed before plain.
RotatedFiles == {n \in DOMAIN disk : n.number > 0}
Precedes(a, b) == \/ a.number > b.number
                  \/ a.number = b.number /\ a.gz /\ ~b.gz
Foremost(S) == {a \in S : \A b \in S \ {a} : Precedes(a, b)}
Hindmost(S) == {a \in S : \A b \in S \ {a} : Precedes(b, a)}

\* A variant, not used: the lowest numbers are taken for the oldest files.
SurplusAscending(S) == {a \in S : Cardinality({b \in S : Precedes(a, b)}) + MaxFiles
                                    < Cardinality(S) + 1}

\* performRotation removes so many of them that MaxFiles - 1 are left.
Surplus(S) == {a \in S : Cardinality({b \in S : Precedes(b, a)}) + MaxFiles
                            < Cardinality(S) + 1}

NotRotating == [at |-> "idle", remove |-> {}, shift |-> {}]
Asleep  == [at |-> "idle", large |-> {}, old |-> {}]

LogFilesInit ==
    /\ disk = << >>
    /\ started = 0
    /\ running = FALSE
    /\ rotator = NotRotating
    /\ cleaner = Asleep
    /\ latest = 0
    /\ cleaned = {}
    /\ archived = FALSE

\* The logger opens agent.log for appending, or creates it; both loops start.
StartProcess ==
    /\ ~running
    /\ running' = TRUE
    /\ \/ /\ LiveLog \in DOMAIN disk
          /\ UNCHANGED <<disk, started>>
       \/ /\ LiveLog \notin DOMAIN disk
          /\ started < MaxLogs
          /\ started' = started + 1
          /\ disk' = Write(LiveLog, started + 1)
    /\ UNCHANGED <<rotator, cleaner, latest, cleaned, archived>>

\* The orchestrator stops both loops, or the process is killed; what a loop
\* had begun stays as it is.
EndProcess ==
    /\ running
    /\ running' = FALSE
    /\ rotator' = NotRotating
    /\ cleaner' = Asleep
    /\ UNCHANGED <<disk, started, latest, cleaned, archived>>

-----------------------------------------------------------------------------
(* Rotation.  After the first one nobody creates agent.log again before the
   next start, so checkAndRotate finds nothing to do.                      *)

\* shouldRotateFile says yes (size or age, not told apart) and the directory
\* is listed.
CheckAndRotate ==
    /\ running /\ rotator.at = "idle"
    /\ LiveLog \in DOMAIN disk
    /\ \A file \in RotatedFiles : file.number <= MaxNumber
    /\ LET surplus == Surplus(RotatedFiles)
       IN rotator' = [at |-> "remove", remove |-> surplus,
                      shift |-> RotatedFiles \ surplus]
    /\ UNCHANGED <<disk, started, running, cleaner, latest, cleaned, archived>>

\* An error of any call ends the rotation; the loop goes on at the next tick.
RotationFails ==
    /\ running /\ rotator.at \in {"remove", "shift", "move", "compress", "unlink"}
    /\ rotator' = NotRotating
    /\ UNCHANGED <<disk, started, running, cleaner, latest, cleaned, archived>>

RemoveSurplus ==
    /\ running /\ rotator.at = "remove"
    /\ \/ /\ rotator.remove = {}
          /\ rotator' = [rotator EXCEPT !.at = "shift"]
          /\ UNCHANGED disk
       \/ \E file \in Foremost(rotator.remove) :
             /\ file \in DOMAIN disk
             /\ disk' = WithoutFile(file)
             /\ rotator' = [rotator EXCEPT !.remove = @ \ {file}]
    /\ UNCHANGED <<started, running, cleaner, latest, cleaned, archived>>

\* shiftRotatedFiles runs from the end of the list, the lowest number first,
\* and os.Rename replaces what has the new name: agent.1.log goes over
\* agent.2.log, which is then moved on as agent.3.log.
ShiftRotatedFile ==
    /\ running /\ rotator.at = "shift"
    /\ \/ /\ rotator.shift = {}
          /\ rotator' = [rotator EXCEPT !.at = "move"]
          /\ UNCHANGED disk
       \/ \E file \in Hindmost(rotator.shift) :
             /\ file \in DOMAIN disk
             /\ disk' = Rename(file, [file EXCEPT !.number = @ + 1])
             /\ rotator' = [rotator EXCEPT !.shift = @ \ {file}]
    /\ UNCHANGED <<started, running, cleaner, latest, cleaned, archived>>

\* moveFile: a rename, or the copy of copyAndRemoveFile, whose last step may
\* fail and leave both files.
MoveLive ==
    /\ running /\ rotator.at = "move"
    /\ LiveLog \in DOMAIN disk
    /\ latest' = disk[LiveLog]
    /\ cleaned' = {log \in cleaned : log >= disk[LiveLog]}
    /\ archived' = FALSE
    /\ \/ /\ disk' = Rename(LiveLog, First)
          /\ rotator' = IF CompressOld THEN [rotator EXCEPT !.at = "compress"] ELSE NotRotating
       \/ /\ disk' = Write(First, disk[LiveLog])
          /\ rotator' = NotRotating
    /\ UNCHANGED <<started, running, cleaner>>

\* compressFile writes agent.1.log.gz and then removes agent.1.log.  It removes
\* what a failed copy left, not what a failed Close or Sync left.
Compress ==
    /\ running /\ rotator.at = "compress"
    /\ First \in DOMAIN disk
    /\ \/ /\ disk' = Write(Gzip(First), disk[First])
          /\ rotator' = [rotator EXCEPT !.at = "unlink"]
       \/ /\ disk' \in Partial(Gzip(First), disk[First])
          /\ rotator' = NotRotating
    /\ UNCHANGED <<started, running, cleaner, latest, cleaned, archived>>

RemoveOriginal ==
    /\ running /\ rotator.at = "unlink"
    /\ First \in DOMAIN disk
    /\ disk' = WithoutFile(First)
    /\ rotator' = NotRotating
    /\ UNCHANGED <<started, running, cleaner, latest, cleaned, archived>>

-----------------------------------------------------------------------------
(* Cleanup.  The directory is listed once, for both passes.                *)

\* cleanupByDiskSpace passes over every name without ".log." and ".gz": of the
\* names the rotation makes, the compressed ones are left.  It takes the oldest
\* ones until enough is freed; cleanupByAge takes those before the cutoff.
ForSpace(listing) == {file \in listing : file.name.gz}

ListLogFiles ==
    /\ running /\ cleaner.at = "idle"
    /\ LET listing == {[name |-> n, log |-> LogAge(disk[n])] : n \in DOMAIN disk}
           upTo(files, cutoff) == {file \in files : file.log <= cutoff}
       IN \E enough, cutoff \in 0..started :
             cleaner' = [at |-> "disk", large |-> upTo(ForSpace(listing), enough),
                         old |-> upTo(listing, cutoff)]
    /\ UNCHANGED <<disk, started, running, rotator, latest, cleaned, archived>>

Oldest(files) == {file \in files : \A other \in files : file.log <= other.log}

\* removeLogFile: a plain file is first archived under its name with .gz when
\* so configured, over what has that name, and the archive is removed as well.
Removed(name) == IF ArchiveBeforeDelete /\ ~name.gz THEN {name, Gzip(name)} ELSE {name}

Lose(names) ==
    cleaned' = cleaned \cup {log \in {disk[n] : n \in names \cap DOMAIN disk} : log >= latest}

RemoveLogFile(name) ==
    /\ name \in DOMAIN disk
    /\ disk' = Restrict(disk, DOMAIN disk \ Removed(name))
    /\ Lose(Removed(name))

CleanupByDiskSpace ==
    /\ running /\ cleaner.at = "disk"
    /\ \/ /\ cleaner.large = {}
          /\ cleaner' = [cleaner EXCEPT !.at = "age"]
          /\ UNCHANGED <<disk, cleaned>>
       \/ \E file \in Oldest(cleaner.large) :
             /\ RemoveLogFile(file.name)
             /\ cleaner' = [cleaner EXCEPT !.large = @ \ {file}]
    /\ UNCHANGED <<started, running, rotator, latest, archived>>

CleanupByAge ==
    /\ running /\ cleaner.at = "age"
    /\ \/ /\ cleaner.old = {}
          /\ cleaner' = Asleep
          /\ UNCHANGED <<disk, cleaned>>
       \/ \E file \in Oldest(cleaner.old) :
             /\ RemoveLogFile(file.name)
             /\ cleaner' = [cleaner EXCEPT !.old = @ \ {file}]
    /\ UNCHANGED <<started, running, rotator, latest, archived>>

\* A file that cannot be removed, or was removed or renamed since the listing,
\* ends both passes.  So does an archive: it is written over what has its name,
\* whole or in part, and stays beside the file or without it, or is removed.
LeavesArchive(name) ==
    /\ \/ disk' \in {Write(Gzip(name), disk[name]), Write(Gzip(name), PartOf(disk[name])),
                     Rename(name, Gzip(name))}
          /\ archived' = TRUE
       \/ disk' = WithoutFile(Gzip(name)) /\ UNCHANGED archived
    /\ Lose({Gzip(name)})

CleanupFails ==
    /\ running /\ cleaner.at \in {"disk", "age"}
    /\ cleaner' = Asleep
    /\ \/ UNCHANGED <<disk, cleaned, archived>>
       \/ /\ ArchiveBeforeDelete /\ cleaner.at = "age"
          /\ \E file \in Oldest(cleaner.old) :
                ~file.name.gz /\ file.name \in DOMAIN disk /\ LeavesArchive(file.name)
    /\ UNCHANGED <<started, running, rotator, latest>>

LogFilesNext ==
    \/ StartProcess \/ EndProcess
    \/ CheckAndRotate \/ RotationFails \/ RemoveSurplus \/ ShiftRotatedFile
    \/ MoveLive \/ Compress \/ RemoveOriginal
    \/ ListLogFiles \/ CleanupByDiskSpace \/ CleanupByAge \/ CleanupFails

LogFilesSpec == LogFilesInit /\ [][LogFilesNext]_logVars

-----------------------------------------------------------------------------
\* The log that was rotated last is on the disk under some name, whichever
\* call of the renaming, compressing or removing fails and wherever the
\* process dies, unless the cleanup removed it (rotation.go:156, :258, :324).
\* Not so after a cleanup left the archive of an older file: two rotations
\* that fail while they shift put that file before the last log, and the next
\* one shifts the archive over the log, which takes MaxFiles > 3.
LastLogKept ==
    latest > 0 /\ ~archived => latest \in Range(disk) \cup cleaned
=============================================================================
