------------------------------ MODULE TempMedia ------------------------------
(***************************************************************************)
(* The temporary media files: StreamMediaHandler (wazeko/src/media/         *)
(* stream-handler.ts), which writes and reads them, and TempCleanupManager  *)
(* (ttl-cleanup.ts), which removes the old ones of the same directory.      *)
(*                                                                         *)
(* An action is one operation on the file system; encryptions, decryptions  *)
(* and sweeps of the cleaner run at the same time, sweeps also with each    *)
(* other since setInterval does not wait for them.  A file is named by the  *)
(* call that writes it: the name of a temporary file is random, and a       *)
(* decryption writes to a temporary file of its own unless its caller gave  *)
(* it a path outside the directory.  A file holds so many chunks of the     *)
(* ciphertext or of the plaintext, a ciphertext also a MAC or none; its age *)
(* is the time since it was last written.  An unlink takes the name away: a *)
(* stream that is open goes on with a file nobody can find.                 *)
(*                                                                         *)
(* A definition marked "slip" is a mistake that no specification uses: see  *)
(* MessageQueue.                                                            *)
(***************************************************************************)
EXTENDS Integers

CONSTANTS
  Files,    \* the encryptions, and the files they write
  Readers,  \* the decryptions, and the files they write
  Sweeps,   \* calls of runCleanup that may be in progress at a time
  Chunks,   \* the chunks of a ciphertext, and of its plaintext
  Ttl,      \* ttlMs
  MaxLag    \* bound: how long a sweep takes

Entries == Files \cup Readers

ASSUME MediaAssumption ==
  /\ Chunks \in Nat \ {0} /\ Ttl \in Nat /\ MaxLag \in Nat
  /\ Files \cap Readers = {}

VARIABLES
  writer,     \* where an encryption is
  linked,     \* the files that are those their streams have open
  present,    \* the files that are found at their paths
  chunks, sealed, age,  \* what they hold, those that end with a MAC, and their age
  reader,     \* where a decryption is
  source,     \* the file it reads
  input,      \* the chunks of the file its stream has open
  outside,    \* the decryptions that write outside the temporary directory
  sweeping,   \* the sweeps in progress
  list,       \* the files a sweep has still to look at
  condemned,  \* the file it is about to unlink, if any
  lag,        \* the time since its Date.now()
  expired     \* history: temporary files that went unwritten for more than the TTL

onDisk == <<linked, present, chunks, sealed, age>>
readers == <<reader, source, input, outside>>
sweeps == <<sweeping, list, condemned, lag>>
mediaVars == <<writer, onDisk, readers, sweeps, expired>>

OldestAge == Ttl + MaxLag + 1   \* older ages are not told apart
Temporary == Entries \ outside

MediaTypeOK ==
  /\ writer \in [Files -> {"idle", "writing", "finalizing", "returned", "failed"}]
  /\ linked \subseteq Entries /\ present \subseteq Entries /\ sealed \subseteq Files
  /\ chunks \in [Entries -> 0..Chunks] /\ age \in [Entries -> 0..OldestAge]
  /\ reader \in [Readers -> {"idle", "sized", "verified", "writing", "returned", "failed"}]
  /\ source \in [Readers -> Files]
  /\ input \in [Readers -> 0..Chunks]
  /\ outside \subseteq Readers
  /\ sweeping \subseteq Sweeps
  /\ list \in [Sweeps -> SUBSET Entries] /\ condemned \in [Sweeps -> SUBSET Entries]
  /\ lag \in [Sweeps -> 0..MaxLag]
  /\ expired \subseteq Entries

MediaInit ==
  /\ writer = [f \in Files |-> "idle"]
  /\ linked = {} /\ present = {} /\ sealed = {}
  /\ chunks = [e \in Entries |-> 0] /\ age = [e \in Entries |-> 0]
  /\ reader = [r \in Readers |-> "idle"]
  /\ source \in [Readers -> Files]
  /\ input = [r \in Readers |-> 0]
  /\ outside = {}
  /\ sweeping = {}
  /\ list = [s \in Sweeps |-> {}] /\ condemned = [s \in Sweeps |-> {}]
  /\ lag = [s \in Sweeps |-> 0]
  /\ expired = {}

----------------------------------------------------------------------------
\* What the file system does for both.

\* createWriteStream makes a file.
CreateFile(e) ==
  /\ linked' = linked \cup {e}
  /\ present' = present \cup {e}
  /\ age' = [age EXCEPT ![e] = 0]
  /\ UNCHANGED <<chunks, sealed>>

\* A stream comes to its n-th chunk.  What it writes to a file that was unlinked is lost.
Stream(e, n) ==
  /\ IF e \in linked
     THEN chunks' = [chunks EXCEPT ![e] = n] /\ age' = [age EXCEPT ![e] = 0]
     ELSE UNCHANGED <<chunks, age>>
  /\ UNCHANGED <<linked, present, sealed>>

----------------------------------------------------------------------------
\* encryptMediaStream

WriterAt(f, from, to) == writer[f] = from /\ writer' = [writer EXCEPT ![f] = to]
Encrypting == UNCHANGED <<readers, sweeps, expired>>

OpenFile(f) == WriterAt(f, "idle", "writing") /\ CreateFile(f) /\ Encrypting

\* A chunk of the source comes through the pipeline, and the last one ends it.
WriteChunk(f, n) ==
  /\ WriterAt(f, "writing", IF n = Chunks THEN "finalizing" ELSE "writing")
  /\ Stream(f, n)
  /\ Encrypting

\* appendFile of the MAC, which makes the file if there is none.
AppendMac(f) ==
  /\ WriterAt(f, "finalizing", "returned")
  /\ present' = present \cup {f}
  /\ sealed' = sealed \cup {f}
  /\ chunks' = IF f \in linked THEN chunks ELSE [chunks EXCEPT ![f] = 0]
  /\ age' = [age EXCEPT ![f] = 0]
  /\ UNCHANGED linked
  /\ Encrypting

\* The source or the disk fails: the file stays as it is.
EncryptFails(f) ==
  /\ \E from \in {"writing", "finalizing"} : WriterAt(f, from, "failed")
  /\ UNCHANGED onDisk
  /\ Encrypting

----------------------------------------------------------------------------
\* decryptMediaFileStream.  Each step opens the source by its name.

ReaderAt(r, from, to) == reader[r] = from /\ reader' = [reader EXCEPT ![r] = to]
Decrypting == UNCHANGED <<writer, sweeps, expired>>

\* stat: a file that holds at least a MAC.
StatSource(r, f) ==
  /\ writer[f] = "returned" /\ f \in present
  /\ ReaderAt(r, "idle", "sized")
  /\ source' = [source EXCEPT ![r] = f]
  /\ outside' \in {outside, outside \cup {r}}
  /\ Decrypting /\ UNCHANGED <<onDisk, input>>

\* The MAC at the end of the file is that of the ciphertext before it.
Verify(f) == f \in sealed /\ chunks[f] = Chunks

VerifySource(r) ==
  /\ source[r] \in present /\ Verify(source[r])
  /\ ReaderAt(r, "sized", "verified")
  /\ Decrypting /\ UNCHANGED <<onDisk, source, input, outside>>

OpenStreams(r) ==
  /\ source[r] \in present
  /\ ReaderAt(r, "verified", "writing")
  /\ input' = [input EXCEPT ![r] = chunks[source[r]]]
  /\ CreateFile(r)
  /\ Decrypting /\ UNCHANGED <<source, outside>>

\* The stream that was opened goes on, also when the source is unlinked meanwhile.
DecryptChunk(r) ==
  /\ reader[r] = "writing" /\ chunks[r] < input[r]
  /\ Stream(r, chunks[r] + 1)
  /\ Decrypting /\ UNCHANGED readers

\* slip: the pipeline is not awaited.
DecryptReturnsEarly(r) ==
  /\ ReaderAt(r, "writing", "returned")
  /\ Decrypting /\ UNCHANGED <<onDisk, source, input, outside>>

\* The pipeline has ended; nobody looks whether the output is still there.
DecryptReturns(r) ==
  /\ ReaderAt(r, "writing", "returned")
  /\ r \in linked => chunks[r] = input[r]
  /\ Decrypting /\ UNCHANGED <<onDisk, source, input, outside>>

\* The source is gone, the MAC is wrong, or the disk fails: the output stays as it is, and
\* it may have been made although the source could not be opened.
DecryptionFails(r) ==
  /\ \/ \E from \in {"sized", "verified", "writing"} : ReaderAt(r, from, "failed") /\ UNCHANGED onDisk
     \/ ReaderAt(r, "verified", "failed") /\ CreateFile(r)
  /\ Decrypting /\ UNCHANGED <<source, input, outside>>

----------------------------------------------------------------------------
\* runCleanup

Looking == UNCHANGED <<writer, onDisk, readers, expired>>

\* Date.now() and readdir, which returns later; files are taken in any order.
BeginSweep(s) ==
  /\ s \notin sweeping
  /\ sweeping' = sweeping \cup {s}
  /\ list' = [list EXCEPT ![s] = present \cap Temporary]
  /\ lag' = [lag EXCEPT ![s] = 0]
  /\ Looking /\ UNCHANGED condemned

\* slip: not older than the TTL is old enough.
IsOldEarly(s, e) == age[e] - lag[s] >= Ttl
\* slip: the difference is taken the other way round.
IsOldReversed(s, e) == lag[s] - age[e] > Ttl
\* The age is taken from the time at which the sweep began.
IsOld(s, e) == age[e] - lag[s] > Ttl

Looked(s, e) ==
  /\ s \in sweeping /\ condemned[s] = {}
  /\ e \in list[s] /\ list' = [list EXCEPT ![s] = @ \ {e}]
  /\ Looking /\ UNCHANGED <<sweeping, lag>>

\* stat finds that the file is too old ...
Condemn(s, e) ==
  /\ e \in present /\ IsOld(s, e)
  /\ Looked(s, e)
  /\ condemned' = [condemned EXCEPT ![s] = {e}]

\* ... that it is not, or that it is gone.
Spare(s, e) ==
  /\ e \in present => ~IsOld(s, e)
  /\ Looked(s, e)
  /\ UNCHANGED condemned

\* If another sweep was faster it throws, and changes nothing.
Unlink(s, e) ==
  /\ e \in condemned[s]
  /\ condemned' = [condemned EXCEPT ![s] = {}]
  /\ present' = present \ {e} /\ linked' = linked \ {e} /\ sealed' = sealed \ {e}
  /\ chunks' = [chunks EXCEPT ![e] = 0]
  /\ UNCHANGED <<writer, age, readers, sweeping, list, lag, expired>>

EndSweep(s) ==
  /\ s \in sweeping /\ list[s] = {} /\ condemned[s] = {}
  /\ sweeping' = sweeping \ {s}
  /\ Looking /\ UNCHANGED <<list, condemned, lag>>

----------------------------------------------------------------------------

\* External: a unit of time passes.
Older(e) == IF age[e] < OldestAge THEN age[e] + 1 ELSE age[e]

MediaTick ==
  /\ \A s \in sweeping : lag[s] < MaxLag
  /\ age' = [e \in Entries |-> IF e \in present \cap Temporary THEN Older(e) ELSE 0]
  /\ lag' = [s \in Sweeps |-> IF s \in sweeping THEN lag[s] + 1 ELSE 0]
  /\ expired' = expired \cup {e \in present \cap Temporary : age'[e] > Ttl}
  /\ UNCHANGED <<writer, linked, present, chunks, sealed, readers, sweeping, list, condemned>>

SweepStep(s) ==
  \/ \E e \in Entries : Condemn(s, e) \/ Spare(s, e) \/ Unlink(s, e)
  \/ EndSweep(s)

MediaNext ==
  \/ \E f \in Files :
       \/ OpenFile(f) \/ AppendMac(f) \/ EncryptFails(f)
       \/ \E n \in {chunks[f] + 1, Chunks} \cap 1..Chunks : WriteChunk(f, n)
  \/ \E r \in Readers :
       \/ \E f \in Files : StatSource(r, f)
       \/ VerifySource(r) \/ OpenStreams(r) \/ DecryptChunk(r) \/ DecryptReturns(r) \/ DecryptionFails(r)
  \/ \E s \in Sweeps : BeginSweep(s) \/ SweepStep(s)
  \/ MediaTick

\* start(): the interval fires again and again, and a sweep goes on to its end.
MediaSpec ==
  /\ MediaInit /\ [][MediaNext]_mediaVars
  /\ WF_mediaVars(MediaTick)
  /\ \A s \in Sweeps : WF_mediaVars(BeginSweep(s)) /\ WF_mediaVars(SweepStep(s))

----------------------------------------------------------------------------
\* Properties.

\* At the path a decryption returns is the whole plaintext, whatever the cleaner removed
\* before or meanwhile, also when what it left of a source is only the MAC.  It may be
\* nothing, if the file is a temporary one and went unwritten for more than the TTL (the
\* cleaner takes the output of a decryption that hangs, too), but it is never a part.
DecryptsWhole ==
  \A r \in Readers : reader[r] = "returned" =>
    /\ r \in present => chunks[r] = Chunks
    /\ r \notin expired => r \in present

\* An encryption that returned left its file complete, and an encryption under way its
\* file in place, unless the file had gone unwritten for more than the TTL at some time:
\* the cleaner never takes a file for older than it is.
FilesKeptForTtl ==
  \A f \in Files \ expired :
    /\ writer[f] \in {"writing", "finalizing"} => f \in present /\ f \in linked
    /\ writer[f] = "returned" => f \in present /\ f \in sealed /\ chunks[f] = Chunks

\* Every temporary file goes in the end, ciphertext or plaintext, whole or left behind by
\* a call that failed: the directory does not grow for ever.
FilesExpire == \A e \in Entries : e \in present \cap Temporary ~> e \notin present
=============================================================================
