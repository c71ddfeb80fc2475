------------------------ MODULE AtomicFileAuthStore ------------------------
(***************************************************************************)
(* AtomicFileAuthStore of wazeko-auth/src/atomic-file-store.ts.            *)
(*                                                                         *)
(* Every call of fs/promises is an await, so an action is one file          *)
(* operation.  Nothing serialises the calls of save, load and clear on a    *)
(* store, in one process or in several.  Operations on files are atomic and *)
(* durable in the order in which they complete (rename is, on POSIX; the    *)
(* code never calls fsync, so a power failure can do worse than this model  *)
(* says).  A crash is the end of the process between two operations: the    *)
(* files stay.                                                              *)
(*                                                                         *)
(* A version stands for the JSON text that save writes, and load returns    *)
(* what that text parses to: a Uint8Array of the object saved comes back as *)
(* a plain object, so nothing is said here of the object's equality.        *)
(*                                                                         *)
(* A file holds a version of the credentials or is absent (None), and a     *)
(* checksum file the version its checksum was computed from: sha256 of two  *)
(* versions differs.  The temporary file of the credentials has a random    *)
(* name that nobody else uses, so only its content matters; that of the     *)
(* checksum is named by Date.now() alone, and two saves may share it.       *)
(*                                                                         *)
(* A definition marked "slip" is a mistake that no specification uses: see  *)
(* MessageQueue.                                                            *)
(***************************************************************************)
EXTENDS AuthStore, Naturals, FiniteSets

CONSTANTS
  Stamps,     \* bound: the values Date.now() takes in the names of temporary checksums
  Idle        \* no call in progress

ASSUME StoreAssumption ==
  /\ None \notin Versions /\ Idle \notin Versions /\ Refused \notin Versions
  /\ None # Idle /\ None # Refused /\ Idle # Refused

VARIABLES
  checksumValidation,  \* options.checksumValidation, which does not change
  credsFile,           \* credentials.json
  checksumFile,        \* credentials.checksum
  tempChecksum,        \* credentials.checksum.tmp.<stamp>
  pc,                  \* the operation a call performs next
  content,             \* what a save writes, what a load has read
  stamp,               \* the name of a save's temporary checksum
  loaded,              \* what the last load of a call returned
  alone,               \* history: no other writer ran since this writer began
  clean                \* history: the last writer to end ran alone and to its end

files == <<credsFile, checksumFile, tempChecksum>>
locals == <<pc, content, stamp>>
history == <<alone, clean>>
storeVars == <<checksumValidation, files, locals, loaded, history>>

WriteSteps == {"writeChecksum", "renameChecksum", "renameCreds", "unlinkChecksum"}
HasContent == (WriteSteps \ {"unlinkChecksum"}) \cup {"readChecksum"}
Writers == {c \in Calls : pc[c] \in WriteSteps}

StoreTypeOK ==
  /\ checksumValidation \in BOOLEAN
  /\ credsFile \in Versions \cup {None}
  /\ checksumFile \in Versions \cup {None}
  /\ tempChecksum \in [Stamps -> Versions \cup {None}]
  /\ pc \in [Calls -> WriteSteps \cup {"idle", "readChecksum"}]
  /\ content \in [Calls -> Versions \cup {None}]
  /\ \A c \in Calls : pc[c] \in HasContent => content[c] \in Versions
  /\ stamp \in [Calls -> Stamps]
  /\ loaded \in [Calls -> Versions \cup {None, Refused}]
  /\ alone \in [Calls -> BOOLEAN]
  /\ clean \in BOOLEAN

StoreInit ==
  /\ checksumValidation \in BOOLEAN
  /\ credsFile = None /\ checksumFile = None
  /\ tempChecksum = [t \in Stamps |-> None]
  /\ pc = [c \in Calls |-> "idle"]
  /\ content = [c \in Calls |-> None]
  /\ stamp \in [Calls -> Stamps]
  /\ loaded = [c \in Calls |-> None]
  /\ alone = [c \in Calls |-> FALSE]
  /\ clean = TRUE

Goto(c, step) == pc' = [pc EXCEPT ![c] = step]

\* History: writer c begins, and ends having run to its end.
BeginsWriting(c) ==
  /\ alone' = [d \in Calls |-> d = c /\ Writers = {}]
  /\ UNCHANGED clean
EndsWriting(c) == clean' = alone[c] /\ UNCHANGED alone

----------------------------------------------------------------------------
\* save(credentials)

\* slip: the checksum is only written when there is none yet.
SaveChecksumOnce(c, v) ==
  /\ pc[c] = "idle"
  /\ content' = [content EXCEPT ![c] = v]
  /\ Goto(c, IF checksumValidation /\ checksumFile = None THEN "writeChecksum" ELSE "renameCreds")
  /\ BeginsWriting(c)
  /\ UNCHANGED <<checksumValidation, files, stamp, loaded>>

\* mkdir and writeFile of the temporary credentials.
Save(c, v) ==
  /\ pc[c] = "idle"
  /\ content' = [content EXCEPT ![c] = v]
  /\ Goto(c, IF checksumValidation THEN "writeChecksum" ELSE "renameCreds")
  /\ BeginsWriting(c)
  /\ UNCHANGED <<checksumValidation, files, stamp, loaded>>

WriteChecksum(c) ==
  /\ pc[c] = "writeChecksum"
  /\ \E t \in Stamps :
       /\ tempChecksum' = [tempChecksum EXCEPT ![t] = content[c]]
       /\ stamp' = [stamp EXCEPT ![c] = t]
  /\ Goto(c, "renameChecksum")
  /\ UNCHANGED <<checksumValidation, credsFile, checksumFile, content, loaded, history>>

RenameChecksum(c) ==
  /\ pc[c] = "renameChecksum"
  /\ tempChecksum[stamp[c]] # None
  /\ checksumFile' = tempChecksum[stamp[c]]
  /\ tempChecksum' = [tempChecksum EXCEPT ![stamp[c]] = None]
  /\ Goto(c, "renameCreds")
  /\ UNCHANGED <<checksumValidation, credsFile, content, stamp, loaded, history>>

RenameCreds(c) ==
  /\ pc[c] = "renameCreds"
  /\ credsFile' = content[c]
  /\ Goto(c, "idle")
  /\ EndsWriting(c)
  /\ UNCHANGED <<checksumValidation, checksumFile, tempChecksum, content, stamp, loaded>>

----------------------------------------------------------------------------
\* load()

Result(c, r) == loaded' = [loaded EXCEPT ![c] = r]

\* readFile of the credentials, and the end of load when there is no more to read.
Load(c) ==
  /\ pc[c] = "idle"
  /\ \/ /\ credsFile = None \/ ~checksumValidation
        /\ Result(c, credsFile)
        /\ UNCHANGED <<pc, content>>
     \/ /\ credsFile # None /\ checksumValidation
        /\ content' = [content EXCEPT ![c] = credsFile]
        /\ Goto(c, "readChecksum")
        /\ UNCHANGED loaded
  /\ UNCHANGED <<checksumValidation, files, stamp, history>>

\* slip: the credentials are read again after the check.
ReadChecksumReread(c) ==
  /\ pc[c] = "readChecksum"
  /\ Result(c, IF checksumFile \in {None, content[c]} THEN credsFile ELSE Refused)
  /\ Goto(c, "idle")
  /\ UNCHANGED <<checksumValidation, files, content, stamp, history>>

\* readFile of the checksum: an absent one is not checked.
ReadChecksum(c) ==
  /\ pc[c] = "readChecksum"
  /\ Result(c, IF checksumFile \in {None, content[c]} THEN content[c] ELSE Refused)
  /\ Goto(c, "idle")
  /\ UNCHANGED <<checksumValidation, files, content, stamp, history>>

----------------------------------------------------------------------------
\* clear()

Clear(c) ==
  /\ pc[c] = "idle"
  /\ credsFile' = None
  /\ Goto(c, "unlinkChecksum")
  /\ BeginsWriting(c)
  /\ UNCHANGED <<checksumValidation, checksumFile, tempChecksum, content, stamp, loaded>>

UnlinkChecksum(c) ==
  /\ pc[c] = "unlinkChecksum"
  /\ checksumFile' = None
  /\ Goto(c, "idle")
  /\ EndsWriting(c)
  /\ UNCHANGED <<checksumValidation, credsFile, tempChecksum, content, stamp, loaded>>

----------------------------------------------------------------------------

\* An operation of a writer fails and its promise is rejected: the rename of a
\* temporary checksum that another save has renamed away (ENOENT), or an I/O error.
OperationFails(c) ==
  /\ pc[c] \in WriteSteps
  /\ Goto(c, "idle")
  /\ clean' = FALSE
  /\ UNCHANGED <<checksumValidation, files, content, stamp, loaded, alone>>

\* External: the process ends and another one starts.
Crash ==
  /\ pc' = [c \in Calls |-> "idle"]
  /\ clean' = (clean /\ Writers = {})
  /\ UNCHANGED <<checksumValidation, files, content, stamp, loaded, alone>>

StoreNext ==
  \/ Crash
  \/ \E c \in Calls :
       \/ \E v \in Versions : Save(c, v)
       \/ WriteChecksum(c) \/ RenameChecksum(c) \/ RenameCreds(c)
       \/ Load(c) \/ ReadChecksum(c)
       \/ Clear(c) \/ UnlinkChecksum(c)
       \/ OperationFails(c)

StoreSpec == StoreInit /\ [][StoreNext]_storeVars

----------------------------------------------------------------------------
\* Properties.

\* The store implements an AuthStore that may refuse to load.  The moment of a save
\* is the rename of the credentials, that of a load the read of the credentials, and
\* a load in progress is one that has still to read the checksum.
Register ==
  INSTANCE CredentialRegister WITH
    mayRefuse <- checksumValidation,
    value <- credsFile,
    reading <- [c \in Calls |-> IF pc[c] = "readChecksum" THEN content[c] ELSE Idle]

ImplementsRegister == Register!RegisterSpec

\* A save or a clear that ran alone and to its end leaves a store that loads, whatever
\* crashes, failures and overlapping saves there were before it.
LoadableWhenClean == clean /\ Writers = {} => credsFile = None \/ checksumFile \in {None, credsFile}

\* "Prevents JSON file corruption on sudden OS crashes": load is never refused.
LoadNeverRefused == \A c \in Calls : loaded[c] # Refused
=============================================================================
