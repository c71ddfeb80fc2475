------------------------------ MODULE FilesProofs ------------------------------
(***************************************************************************)
(* Proofs about what the program keeps on disk, for any number of calls:    *)
(*  - FileAuthStore and SessionBackup.  A save that ran alone so far has a  *)
(*    handle on an empty file (Alone): that is why its write leaves what it *)
(*    wrote.  What a backup has loaded or uploads was in the file since it  *)
(*    began (Seen);                                                        *)
(*  - TempMedia.  A file that a decryption verified is as it was or gone    *)
(*    (SourcesFinal), and what a sweep takes for too old is, since the time *)
(*    it takes only makes files look younger (OldOnesExpired);             *)
(*  - AtomicFileAuthStore: its types, that a save which ran alone leaves a  *)
(*    store that loads, and that it implements CredentialRegister.         *)
(***************************************************************************)
EXTENDS AtomicFileAuthStore, SessionBackup, TempMedia, TLAPS

\* The plain store and its backups.

Steps ==
  /\ file \in Versions \cup {None, Empty, Torn}
  /\ step \in [Calls -> {"idle", "write"}]
  /\ solitary \in [Calls -> BOOLEAN] /\ attached \in [Calls -> BOOLEAN]
  /\ text \in [Calls -> Versions \cup {None}]

Alone ==
  \A c \in Calls : solitary[c] =>
    /\ step[c] = "write" /\ attached[c] /\ file = Empty
    /\ \A d \in Savers : d = c

FileInv == Steps /\ Alone /\ LastWriterLasts

Tasks ==
  /\ task \in [Calls -> {"none", "loading", "loaded", "uploading", "saving"}]
  /\ result \in [Calls -> Versions \cup {None, Refused}]
  /\ snapshot \in [Calls -> Versions \cup {None}]
  /\ archive \in [BackupIds -> Versions \cup {None}]

InBackup(c) == task[c] \in {"loading", "loaded", "uploading"}

Seen ==
  \A c \in Calls :
    /\ InBackup(c) => file \in since[c]
    /\ task[c] = "loaded" /\ result[c] \in Versions => result[c] \in since[c]
    /\ task[c] = "uploading" => snapshot[c] \in Versions \cap since[c]
    /\ task[c] = "saving" => snapshot[c] \in Versions

BackupInv == FileInv /\ Tasks /\ Seen

----------------------------------------------------------------------------
\* The store.

LEMMA SaveInv == ASSUME FileInv, NEW c \in Calls, NEW v \in Versions, SavePlain(c, v) PROVE FileInv'
<1> USE DEF FileInv, Steps, SavePlain, OpenToSave
<1>1. Steps'
  OBVIOUS
<1>2. c \in Savers' /\ (Savers = {} => \A d \in Savers' : d = c)
  BY DEF Savers
<1>3. Alone'
  BY <1>2 DEF Alone
<1>4. LastWriterLasts'
  BY <1>2 DEF LastWriterLasts
<1> QED BY <1>1, <1>3, <1>4

\* A writer that is not alone leaves no other one that is.
LEMMA EndsAlone ==
  ASSUME FileInv, NEW c \in Calls, step[c] = "write", CallEnds(c),
         file' \in Versions \cup {None, Empty, Torn}
  PROVE  Steps' /\ \A d \in Calls : ~solitary'[d]
<1> USE DEF FileInv, Steps, CallEnds
<1>1. Steps'
  OBVIOUS
<1>2. \A d \in Calls : d # c => ~solitary[d]
  BY DEF Alone, Savers
<1> QED BY <1>1, <1>2

LEMMA WriteInv == ASSUME FileInv, NEW c \in Calls, Write(c) PROVE FileInv'
<1> USE DEF FileInv, Write
<1>1. Steps' /\ \A d \in Calls : ~solitary'[d]
  <2>1. file' \in Versions \cup {None, Empty, Torn}
    BY DEF Steps, Over
  <2> QED BY <2>1, EndsAlone
<1>2. solitary[c] => file' = text[c] /\ known' = text[c]
  BY DEF Alone, Over
<1> QED BY <1>1, <1>2 DEF Alone, LastWriterLasts

LEMMA SaveFailsInv == ASSUME FileInv, NEW c \in Calls, SaveFails(c) PROVE FileInv'
<1>1. Steps' /\ \A d \in Calls : ~solitary'[d]
  BY EndsAlone DEF SaveFails, FileInv, Steps
<1> QED BY <1>1 DEF FileInv, SaveFails, Alone, LastWriterLasts

LEMMA LoadInv == ASSUME FileInv, NEW c \in Calls, LoadPlain(c) PROVE FileInv'
BY DEF FileInv, Steps, Alone, LastWriterLasts, Savers, LoadPlain

LEMMA ClearInv == ASSUME FileInv, NEW c \in Calls, ClearPlain(c) PROVE FileInv'
<1> USE DEF FileInv, ClearPlain
<1>1. Steps' /\ Savers' = Savers /\ \A d \in Calls : ~solitary'[d]
  BY DEF Steps, Savers
<1> QED BY <1>1 DEF Alone, LastWriterLasts

LEMMA FileCrashInv == ASSUME FileInv, FileCrash PROVE FileInv'
<1> USE DEF FileInv, FileCrash
<1>1. Steps' /\ \A d \in Calls : ~solitary'[d]
  BY DEF Steps
<1>2. LastWriterLasts'
  BY DEF LastWriterLasts
<1> QED BY <1>1, <1>2 DEF Alone

\* What does not touch the store.
LEMMA FileUnchanged == ASSUME FileInv, UNCHANGED fileVars PROVE FileInv'
BY DEF FileInv, fileVars, Steps, Alone, LastWriterLasts, Savers

----------------------------------------------------------------------------
\* The backups.

LEMMA BackupInitInv == BackupInit => BackupInv
<1> SUFFICES ASSUME BackupInit PROVE BackupInv
  OBVIOUS
<1> USE DEF BackupInit, FileInit
<1>1. FileInv
  BY DEF FileInv, Steps, Alone, LastWriterLasts
<1>2. Tasks /\ Seen
  BY DEF Tasks, Seen, InBackup
<1> QED BY <1>1, <1>2 DEF BackupInv

\* What has been in the file since a backup began is not forgotten while it lasts.
LEMMA WatchedSees ==
  ASSUME Seen, Watched, NEW c \in Calls, InBackup(c)'
  PROVE  file' \in since'[c] /\ since[c] \subseteq since'[c]
BY DEF Watched, InBackup

\* A step that changes nothing a backup holds.
LEMMA TasksUnchanged ==
  ASSUME BackupInv, Watched, task' = task, snapshot' = snapshot, Tasks',
         \A c \in Calls : task[c] = "loaded" => result'[c] = result[c]
  PROVE  Seen'
<1> USE DEF BackupInv, Tasks
<1>1. \A c \in Calls : InBackup(c)' => file' \in since'[c] /\ since[c] \subseteq since'[c]
  BY WatchedSees
<1> QED BY <1>1 DEF Seen, InBackup

LEMMA BeginBackupInv ==
  ASSUME BackupInv, Watched, NEW c \in Calls, NEW id \in BackupIds, BeginBackup(c, id)
  PROVE  BackupInv'
<1> USE DEF BackupInv, BeginBackup, Becomes, Tasks
<1>1. FileInv' /\ Tasks' /\ result' = result
  BY FileUnchanged DEF fileVars
<1>2. task'[c] = "loading" /\ \A d \in Calls : d # c => task'[d] = task[d]
  OBVIOUS
<1>3. \A d \in Calls : InBackup(d)' => file' \in since'[d] /\ since[d] \subseteq since'[d]
  BY WatchedSees
<1>4. Seen'
  BY <1>1, <1>2, <1>3 DEF Seen, InBackup
<1> QED BY <1>1, <1>4

\* What load returns is what the file holds, and that has been seen.
LEMMA LoadForBackupInv ==
  ASSUME BackupInv, Watched, NEW c \in Calls, LoadForBackup(c)
  PROVE  BackupInv'
<1> USE DEF BackupInv, LoadForBackup, LoadPlain, Becomes, Tasks
<1>1. FileInv'
  BY LoadInv
<1>2. Tasks' /\ file' = file /\ result'[c] = Parsed(file) /\ task'[c] = "loaded"
  BY DEF Parsed, FileInv, Steps
<1>3. \A d \in Calls : d # c => task'[d] = task[d] /\ result'[d] = result[d]
  OBVIOUS
<1>4. \A d \in Calls : InBackup(d)' => file' \in since'[d] /\ since[d] \subseteq since'[d]
  BY WatchedSees
<1>5. Parsed(file) \in Versions => Parsed(file) = file
  BY VersionsAssumption DEF Parsed
<1>6. Seen'
  BY <1>2, <1>3, <1>4, <1>5 DEF Seen, InBackup
<1> QED BY <1>1, <1>2, <1>6

LEMMA EncryptInv ==
  ASSUME BackupInv, Watched, NEW c \in Calls, EncryptBackup(c)
  PROVE  BackupInv'
<1> USE DEF BackupInv, EncryptBackup, EncryptSnapshot, Becomes, Tasks
<1>1. FileInv' /\ Tasks' /\ result' = result
  BY FileUnchanged DEF fileVars
<1>2. \/ task'[c] = "none"
      \/ task'[c] = "uploading" /\ result[c] \in Versions /\ snapshot'[c] = result[c]
  OBVIOUS
<1>3. \A d \in Calls : d # c => task'[d] = task[d] /\ snapshot'[d] = snapshot[d]
  OBVIOUS
<1>4. \A d \in Calls : InBackup(d)' => file' \in since'[d] /\ since[d] \subseteq since'[d]
  BY WatchedSees
<1>5. task[c] = "loaded"
  OBVIOUS
<1>6. Seen'
  BY <1>1, <1>2, <1>3, <1>4, <1>5 DEF Seen, InBackup
<1> QED BY <1>1, <1>6

\* A task that ends holds nothing.
LEMMA FinishedSeen ==
  ASSUME BackupInv, Watched, NEW c \in Calls, Finishes(c), result' = result
  PROVE  Seen' /\ task' \in [Calls -> {"none", "loading", "loaded", "uploading", "saving"}]
         /\ snapshot' \in [Calls -> Versions \cup {None}]
<1> USE DEF BackupInv, Finishes, Becomes, Tasks
<1>1. task'[c] = "none" /\ \A d \in Calls : d # c => task'[d] = task[d] /\ snapshot'[d] = snapshot[d]
  OBVIOUS
<1>2. \A d \in Calls : InBackup(d)' => file' \in since'[d] /\ since[d] \subseteq since'[d]
  BY WatchedSees
<1> QED BY <1>1, <1>2 DEF Seen, InBackup

LEMMA UploadInv ==
  ASSUME BackupInv, Watched, NEW c \in Calls, Upload(c) \/ UploadFails(c)
  PROVE  BackupInv'
<1>1. FileInv' /\ result' = result /\ Finishes(c)
  BY FileUnchanged DEF BackupInv, Upload, UploadFails, fileVars
<1>2. archive' \in [BackupIds -> Versions \cup {None}]
  BY DEF BackupInv, Tasks, Upload, UploadFails
<1> QED BY <1>1, <1>2, FinishedSeen DEF BackupInv, Tasks

LEMMA DownloadInv ==
  ASSUME BackupInv, Watched, NEW c \in Calls, NEW id \in BackupIds, Download(c, id)
  PROVE  BackupInv'
<1> USE DEF BackupInv, Download, Becomes, Tasks
<1>1. FileInv' /\ Tasks' /\ result' = result
  BY FileUnchanged DEF fileVars
<1>2. /\ task'[c] = "saving" /\ snapshot'[c] \in Versions
      /\ \A d \in Calls : d # c => task'[d] = task[d] /\ snapshot'[d] = snapshot[d]
  OBVIOUS
<1>3. \A d \in Calls : InBackup(d)' => file' \in since'[d] /\ since[d] \subseteq since'[d]
  BY WatchedSees
<1>4. Seen'
  BY <1>1, <1>2, <1>3 DEF Seen, InBackup
<1> QED BY <1>1, <1>4

LEMMA RestoreInv ==
  ASSUME BackupInv, Watched, NEW c \in Calls, Restore(c)
  PROVE  BackupInv'
<1>1. snapshot[c] \in Versions
  BY DEF BackupInv, Seen, Restore
<1>2. FileInv'
  BY <1>1, SaveInv DEF BackupInv, Restore
<1>3. result' = result /\ archive' = archive /\ Finishes(c)
  BY DEF Restore, SavePlain, OpenToSave
<1> QED BY <1>2, <1>3, FinishedSeen DEF BackupInv, Tasks

\* The application uses the store beside the backups.
LEMMA ApplicationInv ==
  ASSUME BackupInv, Watched, NEW c \in Calls, Application(c) \/ Saves(c)
  PROVE  BackupInv'
<1> USE DEF BackupInv
<1>1. FileInv'
  BY SaveInv, LoadInv, ClearInv, WriteInv, SaveFailsInv DEF Application, Saves
<1>2. UNCHANGED tasks
  BY DEF Application, Saves
<1>3. result' \in [Calls -> Versions \cup {None, Refused}]
      /\ \A d \in Calls : task[d] = "loaded" => result'[d] = result[d]
  <2>1. CASE UNCHANGED result
    BY <2>1 DEF Tasks
  <2>2. CASE task[c] = "none" /\ LoadPlain(c)
    <3>1. Parsed(file) \in Versions \cup {None, Refused}
      BY DEF FileInv, Steps, Parsed
    <3> QED BY <2>2, <3>1 DEF LoadPlain, Tasks
  <2> QED BY <2>1, <2>2 DEF Application, Saves, SavePlain, OpenToSave, ClearPlain, Write, SaveFails
<1>4. Tasks'
  BY <1>2, <1>3 DEF Tasks, tasks
<1> QED BY <1>1, <1>2, <1>3, <1>4, TasksUnchanged DEF tasks

LEMMA ProcessEndsInv == ASSUME BackupInv, Watched, ProcessEnds PROVE BackupInv'
<1>1. FileInv'
  BY FileCrashInv DEF BackupInv, ProcessEnds
<1>2. Tasks' /\ Seen'
  BY DEF BackupInv, Tasks, Seen, InBackup, ProcessEnds, FileCrash
<1> QED BY <1>1, <1>2 DEF BackupInv

LEMMA BackupStepInv ==
  ASSUME BackupInv, [BackupNext]_backupVars
  PROVE  BackupInv'
<1>1. CASE UNCHANGED backupVars
  BY <1>1, FileUnchanged DEF backupVars, fileVars, tasks, BackupInv, Tasks, Seen, InBackup
<1>2. CASE BackupNext
  BY <1>2, BeginBackupInv, LoadForBackupInv, EncryptInv, UploadInv, DownloadInv, RestoreInv,
     ApplicationInv, ProcessEndsInv DEF BackupNext
<1> QED BY <1>1, <1>2

\* The invariant of the plain store and of the backups that read it.
THEOREM BackupInvariant == BackupSpec => []BackupInv
BY BackupInitInv, BackupStepInv, PTL DEF BackupSpec

----------------------------------------------------------------------------

\* A save or a clear that ran alone and to its end leaves in credentials.json what it
\* wrote, whatever tore the file before: writeFile truncates it.
THEOREM LastWriterStays == BackupSpec => []LastWriterLasts
BY BackupInvariant, PTL DEF BackupInv, FileInv

\* createBackup uploads credentials that were in the store since it began, also when the
\* interval starts the next backup before this one has ended.
THEOREM SnapshotsStayCurrent == BackupSpec => []SnapshotsCurrent
<1>1. BackupInv => SnapshotsCurrent
  BY VersionsAssumption DEF BackupInv, Seen, SnapshotsCurrent
<1> QED BY <1>1, BackupInvariant, PTL

----------------------------------------------------------------------------
\* The temporary media.

\* A decryption past its stat reads a file whose encryption has returned, which nobody
\* writes to any more: it is as it was verified, or gone.
SourcesFinal ==
  \A r \in Readers :
    /\ reader[r] \in {"sized", "verified"} => writer[source[r]] = "returned"
    /\ reader[r] = "verified" /\ source[r] \in present => chunks[source[r]] = Chunks
    /\ reader[r] = "writing" => input[r] = Chunks

\* What a decryption writes to is at its path, or will never be there again.
OutputsLinked ==
  \A r \in Readers : reader[r] = "writing" =>
    /\ r \in present <=> r \in linked
    /\ r \notin expired => r \in present

\* The files a sweep takes for too old are.
OldOnesExpired ==
  /\ \A e \in present : age[e] > Ttl => e \in expired
  /\ \A s \in Sweeps : condemned[s] \subseteq expired

\* The encryption of a file that is not too old has written to the file in the directory.
WholeBeforeMac ==
  \A f \in Files \ expired : writer[f] = "finalizing" => chunks[f] = Chunks

MediaInv ==
  /\ MediaTypeOK /\ OldOnesExpired
  /\ SourcesFinal /\ OutputsLinked /\ DecryptsWhole
  /\ FilesKeptForTtl /\ WholeBeforeMac

\* A file is that of an encryption or that of a decryption, and an age may start over.
LEMMA MediaFacts ==
  /\ \A f \in Files, r \in Readers : f # r
  /\ Files \subseteq Entries /\ Readers \subseteq Entries
  /\ Chunks \in 0..Chunks /\ 0 \in 0..Chunks /\ 0 \in 0..OldestAge /\ 0 \in 0..MaxLag
  /\ 0 <= Ttl /\ ~(0 > Ttl)
BY MediaAssumption DEF Entries, OldestAge

LEMMA MediaInitInv == MediaInit => MediaInv
<1> SUFFICES ASSUME MediaInit PROVE MediaInv
  OBVIOUS
<1>1. MediaTypeOK
  BY MediaFacts DEF MediaInit, MediaTypeOK
<1> QED
  BY <1>1 DEF MediaInit, MediaInv, SourcesFinal, OutputsLinked, OldOnesExpired, DecryptsWhole,
              FilesKeptForTtl, WholeBeforeMac

----------------------------------------------------------------------------
\* The encryptions.

\* What an encryption does to its own file leaves the decryptions as they are, when it is
\* not a file that some of them may read.
LEMMA EncryptionOnly ==
  ASSUME MediaInv, NEW f \in Files, writer[f] # "returned",
         Encrypting, writer' = [writer EXCEPT ![f] = writer'[f]],
         \A e \in Entries \ {f} :
           /\ e \in present' <=> e \in present
           /\ e \in linked' <=> e \in linked
           /\ chunks'[e] = chunks[e]
  PROVE  SourcesFinal' /\ OutputsLinked' /\ DecryptsWhole'
<1> USE MediaFacts DEF MediaInv, Encrypting, readers, sweeps
<1>1. \A r \in Readers : r \in Entries \ {f}
  OBVIOUS
<1>2. \A g \in Files \ {f} : writer'[g] = writer[g] /\ g \in Entries \ {f}
  BY DEF MediaTypeOK
<1>3. \A r \in Readers : source[r] \in Files
  BY DEF MediaTypeOK
<1>4. \A r \in Readers : reader[r] \in {"sized", "verified"} => source[r] # f
  BY DEF SourcesFinal
<1>5. SourcesFinal'
  BY <1>2, <1>3, <1>4 DEF SourcesFinal
<1>6. OutputsLinked' /\ DecryptsWhole'
  BY <1>1 DEF OutputsLinked, DecryptsWhole
<1> QED
  BY <1>5, <1>6

LEMMA OpenFileInv == ASSUME MediaInv, NEW f \in Files, OpenFile(f) PROVE MediaInv'
<1> USE MediaFacts DEF MediaInv, OpenFile, WriterAt, CreateFile, Encrypting, readers, sweeps
<1>1. writer'[f] = "writing" /\ \A g \in Files \ {f} : writer'[g] = writer[g]
  BY DEF MediaTypeOK
<1>2. MediaTypeOK'
  BY DEF MediaTypeOK
<1>3. OldOnesExpired'
  BY DEF MediaTypeOK, OldOnesExpired
<1>4. SourcesFinal' /\ OutputsLinked' /\ DecryptsWhole'
  BY <1>1, EncryptionOnly
<1>5. FilesKeptForTtl' /\ WholeBeforeMac'
  BY <1>1 DEF FilesKeptForTtl, WholeBeforeMac
<1> QED
  BY <1>2, <1>3, <1>4, <1>5

LEMMA WriteChunkInv ==
  ASSUME MediaInv, NEW f \in Files, NEW n \in 1..Chunks, WriteChunk(f, n)
  PROVE  MediaInv'
<1> USE MediaFacts DEF MediaInv, WriteChunk, WriterAt, Stream, Encrypting, readers, sweeps
<1>1. n \in 0..Chunks
  BY MediaAssumption
<1>2. /\ writer[f] = "writing" /\ writer'[f] = IF n = Chunks THEN "finalizing" ELSE "writing"
      /\ \A g \in Files \ {f} : writer'[g] = writer[g]
      /\ f \in linked => chunks'[f] = n
      /\ \A e \in Entries \ {f} : chunks'[e] = chunks[e]
  BY DEF MediaTypeOK
<1>3. MediaTypeOK'
  BY <1>1 DEF MediaTypeOK
<1>4. OldOnesExpired'
  BY DEF MediaTypeOK, OldOnesExpired
<1>5. SourcesFinal' /\ OutputsLinked' /\ DecryptsWhole'
  BY <1>2, EncryptionOnly
<1>6. FilesKeptForTtl' /\ WholeBeforeMac'
  BY <1>2 DEF FilesKeptForTtl, WholeBeforeMac
<1> QED
  BY <1>3, <1>4, <1>5, <1>6

LEMMA AppendMacInv == ASSUME MediaInv, NEW f \in Files, AppendMac(f) PROVE MediaInv'
<1> USE MediaFacts DEF MediaInv, AppendMac, WriterAt, Encrypting, readers, sweeps
<1>1. /\ writer[f] = "finalizing" /\ writer'[f] = "returned"
      /\ \A g \in Files \ {f} : writer'[g] = writer[g]
      /\ f \in linked => chunks'[f] = chunks[f]
      /\ \A e \in Entries \ {f} : chunks'[e] = chunks[e]
  BY DEF MediaTypeOK
<1>2. MediaTypeOK'
  BY DEF MediaTypeOK
<1>3. OldOnesExpired'
  BY DEF MediaTypeOK, OldOnesExpired
<1>4. SourcesFinal' /\ OutputsLinked' /\ DecryptsWhole'
  BY <1>1, EncryptionOnly
<1>5. FilesKeptForTtl' /\ WholeBeforeMac'
  BY <1>1 DEF FilesKeptForTtl, WholeBeforeMac
<1> QED
  BY <1>2, <1>3, <1>4, <1>5

LEMMA EncryptFailsInv == ASSUME MediaInv, NEW f \in Files, EncryptFails(f) PROVE MediaInv'
<1> USE MediaFacts DEF MediaInv, EncryptFails, WriterAt, Encrypting, onDisk, readers, sweeps
<1>1. MediaTypeOK'
  BY DEF MediaTypeOK
<1>2. /\ writer[f] # "returned" /\ writer'[f] = "failed"
      /\ \A g \in Files \ {f} : writer'[g] = writer[g]
  BY DEF MediaTypeOK
<1>3. SourcesFinal' /\ OutputsLinked' /\ DecryptsWhole'
  BY <1>2, EncryptionOnly
<1>4. OldOnesExpired' /\ FilesKeptForTtl' /\ WholeBeforeMac'
  BY <1>2 DEF OldOnesExpired, FilesKeptForTtl, WholeBeforeMac
<1> QED
  BY <1>1, <1>3, <1>4

----------------------------------------------------------------------------
\* The decryptions.

\* What a decryption does to its own output leaves the encryptions and their files.
LEMMA DecryptionOnly ==
  ASSUME MediaInv, NEW r \in Readers, Decrypting, UNCHANGED sealed,
         \A e \in Entries \ {r} :
           /\ e \in present' <=> e \in present
           /\ e \in linked' <=> e \in linked
           /\ chunks'[e] = chunks[e]
  PROVE  FilesKeptForTtl' /\ WholeBeforeMac'
<1>1. \A f \in Files : f \in Entries \ {r}
  BY MediaFacts
<1> QED
  BY <1>1 DEF MediaInv, Decrypting, FilesKeptForTtl, WholeBeforeMac

\* A decryption that leaves the files alone keeps what is known of them.
LEMMA ReadersOnly ==
  ASSUME MediaInv, Decrypting, UNCHANGED onDisk,
         MediaTypeOK', SourcesFinal', OutputsLinked', DecryptsWhole'
  PROVE  MediaInv'
BY DEF MediaInv, Decrypting, onDisk, sweeps, OldOnesExpired, FilesKeptForTtl, WholeBeforeMac

LEMMA StatSourceInv ==
  ASSUME MediaInv, NEW r \in Readers, NEW f \in Files, StatSource(r, f)
  PROVE  MediaInv'
<1> USE DEF MediaInv, StatSource, ReaderAt, Decrypting, onDisk, sweeps
<1>1. MediaTypeOK'
  BY DEF MediaTypeOK
<1>2. SourcesFinal' /\ OutputsLinked' /\ DecryptsWhole'
  BY DEF MediaTypeOK, SourcesFinal, OutputsLinked, DecryptsWhole
<1> QED
  BY <1>1, <1>2, ReadersOnly

LEMMA VerifySourceInv == ASSUME MediaInv, NEW r \in Readers, VerifySource(r) PROVE MediaInv'
<1> USE DEF MediaInv, VerifySource, ReaderAt, Decrypting, onDisk, sweeps
<1>1. MediaTypeOK'
  BY DEF MediaTypeOK
<1>2. SourcesFinal' /\ OutputsLinked' /\ DecryptsWhole'
  BY DEF MediaTypeOK, SourcesFinal, OutputsLinked, DecryptsWhole, Verify
<1> QED
  BY <1>1, <1>2, ReadersOnly

LEMMA OpenStreamsInv == ASSUME MediaInv, NEW r \in Readers, OpenStreams(r) PROVE MediaInv'
<1> USE MediaFacts DEF MediaInv, OpenStreams, ReaderAt, CreateFile, Decrypting, sweeps
<1>1. /\ reader[r] = "verified" /\ reader'[r] = "writing" /\ input'[r] = Chunks
      /\ \A q \in Readers \ {r} : reader'[q] = reader[q] /\ input'[q] = input[q]
      /\ source[r] \in Files
  BY DEF MediaTypeOK, SourcesFinal
<1>2. MediaTypeOK'
  BY <1>1 DEF MediaTypeOK
<1>3. OldOnesExpired'
  BY DEF MediaTypeOK, OldOnesExpired
<1>4. SourcesFinal'
  <2>1. \A q \in Readers : source[q] \in Files /\ source[q] # r
    BY DEF MediaTypeOK
  <2> QED
    BY <1>1, <2>1 DEF SourcesFinal
<1>5. OutputsLinked' /\ DecryptsWhole'
  BY <1>1 DEF OutputsLinked, DecryptsWhole
<1>6. FilesKeptForTtl' /\ WholeBeforeMac'
  BY DecryptionOnly
<1> QED
  BY <1>2, <1>3, <1>4, <1>5, <1>6

LEMMA DecryptChunkInv == ASSUME MediaInv, NEW r \in Readers, DecryptChunk(r) PROVE MediaInv'
<1> USE MediaFacts DEF MediaInv, DecryptChunk, Stream, Decrypting, readers, sweeps
<1>1. chunks[r] + 1 \in 0..Chunks
  BY MediaAssumption DEF MediaTypeOK
<1>2. reader[r] = "writing" /\ \A e \in Entries \ {r} : chunks'[e] = chunks[e]
  BY DEF MediaTypeOK
<1>3. MediaTypeOK'
  BY <1>1 DEF MediaTypeOK
<1>4. OldOnesExpired'
  BY DEF MediaTypeOK, OldOnesExpired
<1>5. SourcesFinal'
  <2>1. \A q \in Readers : source[q] \in Entries \ {r}
    BY DEF MediaTypeOK
  <2> QED
    BY <1>2, <2>1 DEF SourcesFinal
<1>6. OutputsLinked' /\ DecryptsWhole'
  BY <1>2 DEF OutputsLinked, DecryptsWhole
<1>7. FilesKeptForTtl' /\ WholeBeforeMac'
  BY <1>2, DecryptionOnly
<1> QED
  BY <1>3, <1>4, <1>5, <1>6, <1>7

\* The output is linked, and whole, or gone for ever.
LEMMA DecryptReturnsInv == ASSUME MediaInv, NEW r \in Readers, DecryptReturns(r) PROVE MediaInv'
<1> USE DEF MediaInv, DecryptReturns, ReaderAt, Decrypting, onDisk, sweeps
<1>1. /\ reader[r] = "writing" /\ reader'[r] = "returned"
      /\ \A q \in Readers \ {r} : reader'[q] = reader[q]
  BY DEF MediaTypeOK
<1>2. MediaTypeOK'
  BY DEF MediaTypeOK
<1>3. SourcesFinal' /\ OutputsLinked'
  BY <1>1 DEF SourcesFinal, OutputsLinked
<1>4. DecryptsWhole'
  BY <1>1 DEF DecryptsWhole, OutputsLinked, SourcesFinal
<1> QED
  BY <1>2, <1>3, <1>4, ReadersOnly

LEMMA DecryptionFailsInv == ASSUME MediaInv, NEW r \in Readers, DecryptionFails(r) PROVE MediaInv'
<1> USE MediaFacts DEF MediaInv, DecryptionFails, ReaderAt, Decrypting, sweeps
<1>1. /\ reader[r] \in {"sized", "verified", "writing"} /\ reader' = [reader EXCEPT ![r] = "failed"]
      /\ UNCHANGED onDisk \/ CreateFile(r)
  OBVIOUS
<1>2. reader'[r] = "failed" /\ \A q \in Readers \ {r} : reader'[q] = reader[q]
  BY <1>1 DEF MediaTypeOK
<1>3. CASE UNCHANGED onDisk
  <2>1. MediaTypeOK'
    BY <1>1, <1>3 DEF MediaTypeOK, onDisk
  <2>2. SourcesFinal' /\ OutputsLinked' /\ DecryptsWhole'
    BY <1>2, <1>3 DEF onDisk, SourcesFinal, OutputsLinked, DecryptsWhole
  <2> QED
    BY <1>3, <2>1, <2>2, ReadersOnly
<1>4. CASE CreateFile(r)
  <2>1. MediaTypeOK'
    BY <1>1, <1>4 DEF MediaTypeOK, CreateFile
  <2>2. OldOnesExpired'
    BY <1>4 DEF MediaTypeOK, OldOnesExpired, CreateFile
  <2>3. SourcesFinal'
    <3>1. \A q \in Readers : source[q] \in Files /\ source[q] # r
      BY DEF MediaTypeOK
    <3> QED
      BY <1>2, <1>4, <3>1 DEF SourcesFinal, CreateFile
  <2>4. OutputsLinked' /\ DecryptsWhole'
    BY <1>2, <1>4 DEF OutputsLinked, DecryptsWhole, CreateFile
  <2>5. FilesKeptForTtl' /\ WholeBeforeMac'
    BY <1>4, DecryptionOnly DEF CreateFile
  <2> QED
    BY <2>1, <2>2, <2>3, <2>4, <2>5
<1> QED
  BY <1>1, <1>3, <1>4

----------------------------------------------------------------------------
\* The cleaner.

\* The steps of a sweep that remove nothing.  What stat finds too old is: a sweep never
\* adds to the age of a file.
LEMMA LookInv ==
  ASSUME MediaInv, NEW s \in Sweeps,
         BeginSweep(s) \/ EndSweep(s) \/ \E e \in Entries : Condemn(s, e) \/ Spare(s, e)
  PROVE  MediaInv'
<1> USE DEF MediaInv, Looking, onDisk, readers
<1>1. UNCHANGED <<writer, onDisk, readers, expired>>
  BY DEF BeginSweep, EndSweep, Condemn, Spare, Looked
<1>2. SourcesFinal' /\ OutputsLinked' /\ DecryptsWhole' /\ FilesKeptForTtl' /\ WholeBeforeMac'
  BY <1>1 DEF SourcesFinal, OutputsLinked, DecryptsWhole, FilesKeptForTtl, WholeBeforeMac
<1>3. CASE BeginSweep(s)
  BY <1>1, <1>2, <1>3, MediaFacts DEF BeginSweep, MediaTypeOK, OldOnesExpired
<1>4. CASE EndSweep(s)
  BY <1>1, <1>2, <1>4 DEF EndSweep, MediaTypeOK, OldOnesExpired
<1>5. ASSUME NEW e \in Entries, Spare(s, e) PROVE MediaInv'
  BY <1>1, <1>2, <1>5 DEF Spare, Looked, MediaTypeOK, OldOnesExpired
<1>6. ASSUME NEW e \in Entries, Condemn(s, e) PROVE MediaInv'
  <2>1. e \in present /\ age[e] - lag[s] > Ttl
    BY <1>6 DEF Condemn, IsOld
  <2>2. age[e] \in Nat /\ lag[s] \in Nat
    BY DEF MediaTypeOK
  <2>3. e \in expired
    BY <2>1, <2>2, MediaAssumption DEF OldOnesExpired
  <2> QED
    BY <1>1, <1>2, <1>6, <2>3 DEF Condemn, Looked, MediaTypeOK, OldOnesExpired
<1> QED
  BY <1>3, <1>4, <1>5, <1>6

LEMMA UnlinkInv == ASSUME MediaInv, NEW s \in Sweeps, NEW e \in Entries, Unlink(s, e) PROVE MediaInv'
<1> USE DEF MediaInv, Unlink, readers
<1>1. e \in expired
  BY DEF OldOnesExpired
<1>2. MediaTypeOK'
  BY MediaFacts DEF MediaTypeOK
<1>3. /\ e \notin present' /\ e \notin linked'
      /\ \A g \in Entries \ {e} : /\ chunks'[g] = chunks[g]
                                  /\ g \in present' <=> g \in present
                                  /\ g \in linked' <=> g \in linked
                                  /\ g \in sealed' <=> g \in sealed
  BY DEF MediaTypeOK
<1>4. SourcesFinal'
  <2>1. \A r \in Readers : source[r] \in Entries
    BY MediaFacts DEF MediaTypeOK
  <2> QED
    BY <1>3, <2>1 DEF SourcesFinal
<1>5. OutputsLinked' /\ DecryptsWhole'
  BY <1>1, <1>3, MediaFacts DEF OutputsLinked, DecryptsWhole
<1>6. OldOnesExpired'
  BY DEF MediaTypeOK, OldOnesExpired
<1>7. FilesKeptForTtl' /\ WholeBeforeMac'
  BY <1>1, <1>3, MediaFacts DEF FilesKeptForTtl, WholeBeforeMac
<1> QED
  BY <1>2, <1>4, <1>5, <1>6, <1>7

LEMMA MediaTickInv == ASSUME MediaInv, MediaTick PROVE MediaInv'
<1> USE DEF MediaInv, MediaTick, readers
<1>1. age' \in [Entries -> 0..OldestAge]
  <2>1. \A e \in Entries : age[e] \in 0..OldestAge /\ Older(e) \in 0..OldestAge /\ 0 \in 0..OldestAge
    BY MediaAssumption DEF MediaTypeOK, Older, OldestAge
  <2> QED
    BY <2>1
<1>2. lag' \in [Sweeps -> 0..MaxLag]
  BY MediaAssumption DEF MediaTypeOK
<1>3. expired \subseteq expired' /\ expired' \subseteq Entries
  BY DEF MediaTypeOK
<1>4. MediaTypeOK'
  BY <1>1, <1>2, <1>3 DEF MediaTypeOK
<1>5. SourcesFinal' /\ OutputsLinked' /\ DecryptsWhole'
  BY <1>3 DEF SourcesFinal, OutputsLinked, DecryptsWhole
<1>6. OldOnesExpired'
  <2>1. ASSUME NEW e \in present, age'[e] > Ttl PROVE e \in expired'
    <3>1. e \in Entries
      BY DEF MediaTypeOK
    <3>2. e \in Temporary
      BY <2>1, <3>1, MediaFacts
    <3> QED
      BY <2>1, <3>2
  <2> QED
    BY <1>3, <2>1 DEF OldOnesExpired
<1>7. FilesKeptForTtl' /\ WholeBeforeMac'
  BY <1>3 DEF FilesKeptForTtl, WholeBeforeMac
<1> QED
  BY <1>4, <1>5, <1>6, <1>7

----------------------------------------------------------------------------

\* Every step keeps the invariant.
LEMMA MediaStepInv == ASSUME MediaInv, [MediaNext]_mediaVars PROVE MediaInv'
<1>1. CASE UNCHANGED mediaVars
  BY <1>1 DEF mediaVars, onDisk, readers, sweeps, MediaInv, MediaTypeOK, SourcesFinal, OutputsLinked,
              OldOnesExpired, DecryptsWhole, FilesKeptForTtl, WholeBeforeMac
<1>2. ASSUME NEW f \in Files, NEW n \in {chunks[f] + 1, Chunks} \cap 1..Chunks, WriteChunk(f, n)
      PROVE  MediaInv'
  BY <1>2, WriteChunkInv
<1>3. CASE MediaNext
  BY <1>2, <1>3, OpenFileInv, AppendMacInv, EncryptFailsInv, StatSourceInv, VerifySourceInv,
     OpenStreamsInv, DecryptChunkInv, DecryptReturnsInv, DecryptionFailsInv, LookInv, UnlinkInv,
     MediaTickInv DEF MediaNext, SweepStep
<1> QED
  BY <1>1, <1>3

\* The invariant of encryptions, decryptions and sweeps on one directory.
THEOREM MediaInvariant == MediaSpec => []MediaInv
<1>1. MediaSpec => MediaInit /\ [][MediaNext]_mediaVars
  BY PTL DEF MediaSpec
<1>2. MediaInv /\ [MediaNext]_mediaVars => MediaInv'
  BY MediaStepInv
<1> QED
  BY <1>1, <1>2, MediaInitInv, PTL

\* At the path a decryption returns is the whole plaintext, or, if it was a temporary file
\* that went unwritten for more than the TTL, nothing: for any number of encryptions,
\* decryptions and sweeps, in the same directory or not, whatever was removed meanwhile.
THEOREM DecryptionsAreWhole == MediaSpec => []DecryptsWhole
<1>1. MediaInv => DecryptsWhole
  BY DEF MediaInv
<1> QED
  BY <1>1, MediaInvariant, PTL

\* The cleaner leaves a file alone until it went unwritten for more than the TTL, however
\* long its sweeps take and however they overlap.
THEOREM CleanerKeepsFiles == MediaSpec => []FilesKeptForTtl
BY MediaInvariant, PTL DEF MediaInv

----------------------------------------------------------------------------
\* The atomic store.

\* A writer that is alone is the only one.
AloneIsOnly ==
  \A c, d \in Calls : alone[c] /\ c \in Writers /\ d \in Writers => c = d

\* Without validation no checksum is written or read.
NoChecksumUnlessValidating ==
  ~checksumValidation =>
    /\ checksumFile = None
    /\ \A c \in Calls : pc[c] \notin {"writeChecksum", "renameChecksum", "readChecksum"}

\* What a writer that is alone has done to the files so far is still there.
AloneIsUndisturbed ==
  \A c \in Calls : alone[c] =>
    /\ pc[c] = "renameChecksum" => tempChecksum[stamp[c]] = content[c]
    /\ pc[c] = "renameCreds" /\ checksumValidation => checksumFile = content[c]
    /\ pc[c] = "unlinkChecksum" => credsFile = None

StoreInv ==
  /\ StoreTypeOK
  /\ AloneIsOnly
  /\ NoChecksumUnlessValidating
  /\ AloneIsUndisturbed
  /\ LoadableWhenClean

\* The initial files are absent and nobody writes.
LEMMA StoreInitInv == StoreInit => StoreInv
  BY StoreAssumption DEF StoreInit, StoreInv, StoreTypeOK, AloneIsOnly, NoChecksumUnlessValidating,
     AloneIsUndisturbed, LoadableWhenClean, Writers, WriteSteps, HasContent

USE DEF Goto, files, locals, history, storeVars

\* Every step keeps the types.
LEMMA StoreTypeStep == StoreTypeOK /\ [StoreNext]_storeVars => StoreTypeOK'
<1> SUFFICES ASSUME StoreTypeOK, [StoreNext]_storeVars PROVE StoreTypeOK'
  OBVIOUS
<1> USE DEF StoreTypeOK, WriteSteps, HasContent
<1>1. ASSUME NEW c \in Calls, NEW v \in Versions, Save(c, v) PROVE StoreTypeOK'
  BY <1>1 DEF Save, BeginsWriting, Writers
<1>2. ASSUME NEW c \in Calls, WriteChecksum(c) PROVE StoreTypeOK'
  BY <1>2 DEF WriteChecksum
<1>3. ASSUME NEW c \in Calls, RenameChecksum(c) PROVE StoreTypeOK'
  BY <1>3 DEF RenameChecksum
<1>4. ASSUME NEW c \in Calls, RenameCreds(c) PROVE StoreTypeOK'
  BY <1>4 DEF RenameCreds, EndsWriting
<1>5. ASSUME NEW c \in Calls, Load(c) PROVE StoreTypeOK'
  BY <1>5 DEF Load, Result
<1>6. ASSUME NEW c \in Calls, ReadChecksum(c) PROVE StoreTypeOK'
  BY <1>6 DEF ReadChecksum, Result
<1>7. ASSUME NEW c \in Calls, Clear(c) PROVE StoreTypeOK'
  BY <1>7 DEF Clear, BeginsWriting, Writers
<1>8. ASSUME NEW c \in Calls, UnlinkChecksum(c) PROVE StoreTypeOK'
  BY <1>8 DEF UnlinkChecksum, EndsWriting
<1>9. ASSUME NEW c \in Calls, OperationFails(c) PROVE StoreTypeOK'
  BY <1>9 DEF OperationFails
<1>10. CASE Crash
  BY <1>10 DEF Crash, Writers
<1>11. CASE UNCHANGED storeVars
  BY <1>11
<1> QED
  BY <1>1, <1>2, <1>3, <1>4, <1>5, <1>6, <1>7, <1>8, <1>9, <1>10, <1>11 DEF StoreNext

\* Every step keeps StoreInv: a writer that begins is alone only if nobody writes, and
\* then no other step touches the files it writes.
LEMMA StoreStepInv == StoreInv /\ [StoreNext]_storeVars => StoreInv'
<1> SUFFICES ASSUME StoreInv, [StoreNext]_storeVars PROVE StoreInv'
  OBVIOUS
<1> DEFINE Rest == AloneIsOnly /\ NoChecksumUnlessValidating /\ AloneIsUndisturbed
                    /\ LoadableWhenClean
<1>0. StoreTypeOK'
  BY StoreTypeStep DEF StoreInv
<1> SUFFICES Rest'
  BY <1>0 DEF StoreInv
<1> USE DEF StoreInv, StoreTypeOK, WriteSteps, HasContent, Writers, AloneIsOnly,
        NoChecksumUnlessValidating, AloneIsUndisturbed, LoadableWhenClean
<1>1. ASSUME NEW c \in Calls, NEW v \in Versions, Save(c, v) PROVE Rest'
  BY <1>1 DEF Save, BeginsWriting
<1>2. ASSUME NEW c \in Calls, WriteChecksum(c) PROVE Rest'
  BY <1>2 DEF WriteChecksum
<1>3. ASSUME NEW c \in Calls, RenameChecksum(c) PROVE Rest'
  BY <1>3 DEF RenameChecksum
<1>4. ASSUME NEW c \in Calls, RenameCreds(c) PROVE Rest'
  BY <1>4 DEF RenameCreds, EndsWriting
<1>5. ASSUME NEW c \in Calls, Load(c) PROVE Rest'
  BY <1>5 DEF Load, Result
<1>6. ASSUME NEW c \in Calls, ReadChecksum(c) PROVE Rest'
  BY <1>6 DEF ReadChecksum, Result
<1>7. ASSUME NEW c \in Calls, Clear(c) PROVE Rest'
  BY <1>7 DEF Clear, BeginsWriting
<1>8. ASSUME NEW c \in Calls, UnlinkChecksum(c) PROVE Rest'
  BY <1>8 DEF UnlinkChecksum, EndsWriting
<1>9. ASSUME NEW c \in Calls, OperationFails(c) PROVE Rest'
  BY <1>9 DEF OperationFails
<1>10. CASE Crash
  BY <1>10 DEF Crash
<1>11. CASE UNCHANGED storeVars
  BY <1>11
<1> QED
  BY <1>1, <1>2, <1>3, <1>4, <1>5, <1>6, <1>7, <1>8, <1>9, <1>10, <1>11 DEF StoreNext

\* The types of the store's state (all of atomic-file-store.ts).
THEOREM StoreTypeCorrect == StoreSpec => []StoreTypeOK
<1>1. StoreInv => StoreTypeOK
  BY DEF StoreInv
<1> QED
  BY <1>1, StoreInitInv, StoreStepInv, PTL DEF StoreSpec

\* A save or a clear that ran alone and to its end leaves a store that loads,
\* whatever crashes, failures and overlapping calls came before it.
THEOREM CleanStoreLoads == StoreSpec => []LoadableWhenClean
<1>1. StoreInv => LoadableWhenClean
  BY DEF StoreInv
<1> QED
  BY <1>1, StoreInitInv, StoreStepInv, PTL DEF StoreSpec

----------------------------------------------------------------------------

\* The initial state of the store is that of the register.
LEMMA StoreInitRefines == StoreInit => Register!RegisterInit
  BY DEF StoreInit, Register!RegisterInit

\* Every step of the store is a step of the register or leaves the register as it is.
LEMMA StoreStepRefines ==
  StoreInv /\ [StoreNext]_storeVars => [Register!RegisterNext]_Register!registerVars
<1> SUFFICES ASSUME StoreInv, [StoreNext]_storeVars
             PROVE  [Register!RegisterNext]_Register!registerVars
  OBVIOUS
<1> DEFINE reading == [c \in Calls |-> IF pc[c] = "readChecksum" THEN content[c] ELSE Idle]
<1> USE StoreAssumption DEF StoreInv, StoreTypeOK, WriteSteps, HasContent
<1>1. ASSUME NEW c \in Calls, NEW v \in Versions, Save(c, v)
      PROVE  UNCHANGED Register!registerVars
  BY <1>1 DEF Save, Register!registerVars
<1>2. ASSUME NEW c \in Calls, WriteChecksum(c) PROVE UNCHANGED Register!registerVars
  BY <1>2 DEF WriteChecksum, Register!registerVars
<1>3. ASSUME NEW c \in Calls, RenameChecksum(c) PROVE UNCHANGED Register!registerVars
  BY <1>3 DEF RenameChecksum, Register!registerVars
<1>4. ASSUME NEW c \in Calls, RenameCreds(c) PROVE Register!Write
  BY <1>4 DEF RenameCreds, Register!Write
<1>5. ASSUME NEW c \in Calls, Load(c) PROVE Register!Read(c) \/ Register!ReadAndReturn(c)
  BY <1>5 DEF Load, Result, Register!Read, Register!ReadAndReturn
<1>6. ASSUME NEW c \in Calls, ReadChecksum(c) PROVE Register!Return(c) \/ Register!Refuse(c)
  <2>1. reading[c] = content[c] /\ reading[c] # Idle
    BY <1>6 DEF ReadChecksum
  <2>2. reading' = [reading EXCEPT ![c] = Idle]
    BY <1>6 DEF ReadChecksum
  <2>3. checksumValidation
    BY <1>6 DEF ReadChecksum, NoChecksumUnlessValidating
  <2>4. CASE checksumFile \in {None, content[c]}
    BY <1>6, <2>1, <2>2, <2>4 DEF ReadChecksum, Result, Register!Return
  <2>5. CASE checksumFile \notin {None, content[c]}
    BY <1>6, <2>1, <2>2, <2>3, <2>5 DEF ReadChecksum, Result, Register!Refuse
  <2> QED
    BY <2>4, <2>5
<1>7. ASSUME NEW c \in Calls, Clear(c) PROVE Register!Write
  BY <1>7 DEF Clear, Register!Write
<1>8. ASSUME NEW c \in Calls, UnlinkChecksum(c) PROVE UNCHANGED Register!registerVars
  BY <1>8 DEF UnlinkChecksum, Register!registerVars
<1>9. ASSUME NEW c \in Calls, OperationFails(c) PROVE UNCHANGED Register!registerVars
  BY <1>9 DEF OperationFails, Register!registerVars
<1>10. CASE Crash
  BY <1>10 DEF Crash, Register!RegisterNext, Register!Restart
<1>11. CASE UNCHANGED storeVars
  BY <1>11 DEF Register!registerVars
<1> QED
  BY <1>1, <1>2, <1>3, <1>4, <1>5, <1>6, <1>7, <1>8, <1>9, <1>10, <1>11
     DEF StoreNext, Register!RegisterNext

\* The store implements an AuthStore whose load may refuse: a save takes effect when
\* the credentials are renamed, and a crash changes nothing that is stored.
THEOREM StoreImplementsRegister == StoreSpec => ImplementsRegister
<1>1. StoreSpec => Register!RegisterSpec
  BY StoreInitRefines, StoreStepRefines, StoreInitInv, StoreStepInv, PTL DEF StoreSpec, Register!RegisterSpec
<1> QED
  BY <1>1 DEF ImplementsRegister
=============================================================================
