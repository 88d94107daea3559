------------------------------- MODULE Snapshots -------------------------------
(***************************************************************************)
(* WorkspacePersistence of internal/workspace: the snapshot files of an    *)
(* issue's workspace.  Snapshots are numbered in the order of their        *)
(* timestamps; a file holds a whole snapshot, or what a crash or a failed  *)
(* write left of one.                                                      *)
(***************************************************************************)
EXTENDS Integers, FiniteSets

CONSTANTS
    MaxSnapshots,   \* config.MaxSnapshots, at least 1
    MaxTaken        \* bound: snapshots taken

ASSUME SnapshotsAssumption == MaxSnapshots \in Nat \ {0}

VARIABLES
    compress,   \* config.CompressSnapshots, read when the process starts
    files,      \* of one issue: number, compression and whether it is whole
    taken,      \* number of snapshots
    expired,    \* the snapshots up to this one are past their retention
    creating,   \* CreateSnapshot: its next step
    reported,   \* the last snapshot that CreateSnapshot returned, and its compression
    last        \* the last one it returned whose file was whole

snapshotVars == <<compress, files, taken, expired, creating, reported, last>>

SnapshotInit ==
    /\ compress \in BOOLEAN /\ files = {} /\ taken = 0 /\ expired = 0
    /\ creating = "idle"
    /\ reported = [n |-> 0, gz |-> FALSE] /\ last = reported

-----------------------------------------------------------------------------
\* GetSnapshots: the files of the present setting; one it cannot read is skipped.
GetSnapshots == {f \in files : f.gz = compress /\ f.whole}

\* The snapshots beyond the limit, by timestamp, the oldest first.
\* Variant: sorted the other way.
Older(f) == {g \in GetSnapshots : g.n < f.n}
Newer(f) == {g \in GetSnapshots : g.n > f.n}
NewestFirst == {f \in GetSnapshots : Cardinality(Older(f)) >= MaxSnapshots}
Excess == {f \in GetSnapshots : Cardinality(Newer(f)) >= MaxSnapshots}

Expired(f) == f.n <= expired

\* findLatestSnapshot, and ValidateSnapshot refuses one that is too old.
FindLatest == {f \in GetSnapshots : Newer(f) = {}}
RestoreSnapshot == {f \in FindLatest : ~Expired(f)}

-----------------------------------------------------------------------------
Running(step) == creating' = step

\* The directories and the files' states are read, or an error ends it.
Capture ==
    /\ creating = "idle" /\ taken < MaxTaken
    /\ Running("write") /\ taken' = taken + 1
    /\ UNCHANGED <<compress, files, expired, reported, last>>

NewFile(whole) == [n |-> taken, gz |-> compress, whole |-> whole]

\* saveSnapshot creates the file and then writes it; the errors end CreateSnapshot.
CreateFile ==
    /\ creating = "write"
    /\ \/ files' = files \cup {NewFile(FALSE)} /\ Running("data")
       \/ UNCHANGED files /\ Running("idle")
    /\ UNCHANGED <<compress, taken, expired, reported, last>>

\* The data is written whole, or not and the error is reported; saveCompressed
\* drops the error of the flush, and CreateSnapshot goes on with a torn file.
WriteFile ==
    /\ creating = "data"
    /\ \/ files' = (files \ {NewFile(FALSE)}) \cup {NewFile(TRUE)} /\ Running("cleanup")
       \/ UNCHANGED files /\ Running("idle")
       \/ UNCHANGED files /\ compress /\ Running("cleanup")
    /\ UNCHANGED <<compress, taken, expired, reported, last>>

\* cleanupOldSnapshots: DeleteSnapshot of each, and what cannot be removed stays.
CleanupOldSnapshots ==
    /\ creating = "cleanup"
    /\ \E gone \in SUBSET (Excess \cup {f \in GetSnapshots : Expired(f)}) :
          files' = files \ gone
    /\ Running("idle") /\ reported' = [n |-> taken, gz |-> compress]
    /\ last' = IF NewFile(TRUE) \in files THEN reported' ELSE last
    /\ UNCHANGED <<compress, taken, expired>>

Expires ==
    /\ expired < taken /\ expired' = expired + 1
    /\ UNCHANGED <<compress, files, taken, creating, reported, last>>

\* The process dies in any step, and starts again with the same setting or another.
Dies ==
    /\ compress' \in BOOLEAN /\ Running("idle")
    /\ UNCHANGED <<files, taken, expired, reported, last>>

SnapshotNext == Capture \/ CreateFile \/ WriteFile \/ CleanupOldSnapshots \/ Expires \/ Dies

SnapshotSpec == SnapshotInit /\ [][SnapshotNext]_snapshotVars

-----------------------------------------------------------------------------
\* A snapshot that CreateSnapshot reported and wrote whole is what a resumption
\* finds, or a later one, until it expires or the setting changes: no cleanup,
\* failed write or restart loses it, and a torn file that was reported as saved
\* takes no place from it.  Only a compressed snapshot is ever reported torn.
LastIsRestored ==
    /\ last.n > expired /\ last.gz = compress => \E f \in RestoreSnapshot : f.n >= last.n
    /\ reported = last \/ reported.gz

\* What CreateSnapshot's success says to its callers.  It does not hold: the
\* errors of the compressor's and the file's Close are dropped.
ReportedIsRestored ==
    reported.n > expired /\ reported.gz = compress =>
        \E f \in RestoreSnapshot : f.n >= reported.n
=============================================================================
