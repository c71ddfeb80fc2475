-------------------------------- MODULE MCData --------------------------------
(***************************************************************************)
(* The data of a client at rest and on its way, for one run: the atomic     *)
(* credential store, the plain one with the backups made of it and the      *)
(* temporary media; the pre-keys, the Signal sessions, the Noise frames and *)
(* the nodes.  No two of them share a file, a key or a buffer, so a         *)
(* behaviour runs one of them and the others stay as they are: their states *)
(* are added, not multiplied.                                               *)
(***************************************************************************)
EXTENDS AtomicFileAuthStore, SessionBackup, TempMedia, PreKeyManager, SignalSession, NoiseSession, MCWire

VARIABLE part  \* which of them runs

diskVars == <<storeVars, backupVars, mediaVars>>
cipherVars == <<preKeyVars, signalVars, noiseVars>>
dataVars == <<part, diskVars, cipherVars, wireVars>>

\* Only the part that runs begins in each of its initial states.
DataInit ==
  /\ part \in {"atomic", "plain", "media", "preKeys", "signal", "noise", "wire"}
  /\ StoreInit /\ BackupInit /\ MediaInit
  /\ PreKeyInit /\ SignalInit /\ NoiseInit
  /\ WireInit
  /\ part # "atomic" => ~checksumValidation
  /\ part # "wire" => request = CHOOSE r \in Requests : TRUE

Disk(Step) == Step /\ UNCHANGED <<part, cipherVars, wireVars>>
Atomic == part = "atomic" /\ Disk(StoreNext /\ UNCHANGED <<backupVars, mediaVars>>)
Plain == part = "plain" /\ Disk(BackupNext /\ UNCHANGED <<storeVars, mediaVars>>)
Media(Step) == part = "media" /\ Disk(Step /\ UNCHANGED <<storeVars, backupVars>>)

Cipher(Step) == Step /\ UNCHANGED <<part, diskVars, wireVars>>
PreKeys == part = "preKeys" /\ Cipher(PreKeyNext /\ UNCHANGED <<signalVars, noiseVars>>)
Signal == part = "signal" /\ Cipher(SignalNext /\ UNCHANGED <<preKeyVars, noiseVars>>)
Noise == part = "noise" /\ Cipher(NoiseNext /\ UNCHANGED <<preKeyVars, signalVars>>)

OnWire == part = "wire" /\ WireNext /\ UNCHANGED <<part, diskVars, cipherVars>>

DataNext == Atomic \/ Plain \/ Media(MediaNext) \/ PreKeys \/ Signal \/ Noise \/ OnWire

\* The fairness of MediaSpec.
DataSpec ==
  /\ DataInit
  /\ [][DataNext]_dataVars
  /\ WF_dataVars(Media(MediaTick))
  /\ \A s \in Sweeps : WF_dataVars(Media(BeginSweep(s))) /\ WF_dataVars(Media(SweepStep(s)))
=============================================================================
