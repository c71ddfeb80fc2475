--------------------------- MODULE SessionBackup ---------------------------
(***************************************************************************)
(* SessionBackupManager of wazeko-auth/src/session-backup.ts on a           *)
(* FileAuthStore that the application loads, saves and clears meanwhile.    *)
(*                                                                         *)
(* A backup awaits the load of the store and then the upload, a restore the *)
(* download and then the save.  The interval of startAutoBackup does not    *)
(* wait for the backup before, and stopAutoBackup lets one that has begun   *)
(* go on, so backups begin at any time and overlap.  A version stands for   *)
(* its own encrypted snapshot, with a key that never changes; a snapshot    *)
(* that does not decrypt, or an id without one, makes the restore throw     *)
(* before it touches the store.  The archive is outside the process.        *)
(*                                                                         *)
(* A definition marked "slip" is a mistake that no specification uses: see  *)
(* MessageQueue.                                                            *)
(***************************************************************************)
EXTENDS FileAuthStore

CONSTANT BackupIds

VARIABLES
  archive,   \* the snapshot the provider has for an id
  task,      \* what a call of the store is part of
  target,    \* the id of its snapshot
  snapshot,  \* what a backup uploads, what a restore has downloaded
  since      \* history: what the store held since a backup began

tasks == <<archive, task, target, snapshot>>
backupVars == <<fileVars, tasks, since>>

BackupTypeOK ==
  /\ FileTypeOK
  /\ archive \in [BackupIds -> Versions \cup {None}]
  /\ task \in [Calls -> {"none", "loading", "loaded", "uploading", "saving"}]
  /\ target \in [Calls -> BackupIds]
  /\ snapshot \in [Calls -> Versions \cup {None}]
  /\ since \in [Calls -> SUBSET (Versions \cup {None, Empty, Torn})]

BackupInit ==
  /\ FileInit
  /\ archive = [i \in BackupIds |-> None]
  /\ task = [c \in Calls |-> "none"]
  /\ target \in [Calls -> BackupIds]
  /\ snapshot = [c \in Calls |-> None]
  /\ since = [c \in Calls |-> {}]

Becomes(c, t) == task' = [task EXCEPT ![c] = t]
Finishes(c) == Becomes(c, "none") /\ snapshot' = [snapshot EXCEPT ![c] = None]

\* The file changes under the backups that are under way.
Watched ==
  since' = [c \in Calls |-> IF task'[c] \in {"loading", "loaded", "uploading"}
                            THEN since[c] \cup {file'} ELSE {}]

----------------------------------------------------------------------------
\* createBackup(store, id)

BeginBackup(c, id) ==
  /\ task[c] = "none" /\ step[c] = "idle"
  /\ Becomes(c, "loading")
  /\ target' = [target EXCEPT ![c] = id]
  /\ UNCHANGED <<fileVars, archive, snapshot>>

LoadForBackup(c) ==
  /\ task[c] = "loading"
  /\ LoadPlain(c)
  /\ Becomes(c, "loaded")
  /\ UNCHANGED <<archive, target, snapshot>>

\* It throws without credentials, as load does when it refuses.
EncryptSnapshot(c, snapshots) ==
  /\ task[c] = "loaded"
  /\ IF result[c] \in Versions
     THEN Becomes(c, "uploading") /\ snapshot' = snapshots
     ELSE Becomes(c, "none") /\ UNCHANGED snapshot
  /\ UNCHANGED <<fileVars, archive, target>>

\* slip: the manager has one field for the snapshot that it uploads.
EncryptInField(c) == EncryptSnapshot(c, [d \in Calls |-> result[c]])

EncryptBackup(c) == EncryptSnapshot(c, [snapshot EXCEPT ![c] = result[c]])

Upload(c) ==
  /\ task[c] = "uploading"
  /\ archive' = [archive EXCEPT ![target[c]] = snapshot[c]]
  /\ Finishes(c)
  /\ UNCHANGED <<fileVars, target>>

----------------------------------------------------------------------------
\* restoreBackup(store, id)

Download(c, id) ==
  /\ task[c] = "none" /\ step[c] = "idle"
  /\ archive[id] # None
  /\ snapshot' = [snapshot EXCEPT ![c] = archive[id]]
  /\ Becomes(c, "saving")
  /\ UNCHANGED <<fileVars, archive, target>>

Restore(c) ==
  /\ task[c] = "saving"
  /\ SavePlain(c, snapshot[c])
  /\ Finishes(c)
  /\ UNCHANGED <<archive, target>>

----------------------------------------------------------------------------

\* External: the provider rejects an upload.
UploadFails(c) ==
  /\ task[c] = "uploading"
  /\ Finishes(c)
  /\ UNCHANGED <<fileVars, archive, target>>

\* The process ends, and with it what was under way.
ProcessEnds ==
  /\ FileCrash
  /\ task' = [c \in Calls |-> "none"]
  /\ snapshot' = [c \in Calls |-> None]
  /\ UNCHANGED <<archive, target>>

\* What the application does with the store itself.
Application(c) ==
  /\ task[c] = "none"
  /\ (\E v \in Versions : SavePlain(c, v)) \/ LoadPlain(c) \/ ClearPlain(c)
  /\ UNCHANGED tasks

Saves(c) == (Write(c) \/ SaveFails(c)) /\ UNCHANGED tasks

BackupNext ==
  /\ \/ \E c \in Calls :
          \/ \E id \in BackupIds : BeginBackup(c, id) \/ Download(c, id)
          \/ LoadForBackup(c) \/ EncryptBackup(c) \/ Upload(c) \/ UploadFails(c)
          \/ Restore(c)
          \/ Application(c) \/ Saves(c)
     \/ ProcessEnds
  /\ Watched

BackupSpec == BackupInit /\ [][BackupNext]_backupVars

----------------------------------------------------------------------------

\* What a backup uploads are credentials that were in the store, whole, at some moment
\* since that backup began, however backups, restores and saves overlap.
SnapshotsCurrent ==
  \A c \in Calls : task[c] = "uploading" => snapshot[c] \in since[c] \ {None, Empty, Torn}
=============================================================================
