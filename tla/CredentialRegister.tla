------------------------- MODULE CredentialRegister -------------------------
(***************************************************************************)
(* What an AuthStore (wazeko-auth/src/store.ts) promises: one place that    *)
(* holds the credentials last saved, or none.  A save or a clear takes      *)
(* effect at one moment, a load returns what the place held at one moment   *)
(* of the call, and a crash of the process changes nothing that is stored.  *)
(* A store that validates what it reads may refuse to load.                 *)
(***************************************************************************)
CONSTANTS
  Calls,     \* the concurrent calls of load
  Versions,  \* the credentials that are saved
  None,      \* no credentials, the null of load
  Idle,      \* no load in progress
  Refused    \* load throws

VARIABLES
  mayRefuse,  \* whether the store validates: fixed when it is made
  value,      \* the credentials the place holds
  reading,    \* what a load in progress has read
  loaded      \* the result of the last load

registerVars == <<mayRefuse, value, reading, loaded>>

RegisterInit ==
  /\ mayRefuse \in BOOLEAN
  /\ value = None
  /\ reading = [c \in Calls |-> Idle]
  /\ loaded = [c \in Calls |-> None]

Write == value' \in Versions \cup {None} /\ UNCHANGED <<mayRefuse, reading, loaded>>

Read(c) ==
  /\ reading[c] = Idle
  /\ reading' = [reading EXCEPT ![c] = value]
  /\ UNCHANGED <<mayRefuse, value, loaded>>

Return(c) ==
  /\ reading[c] # Idle
  /\ loaded' = [loaded EXCEPT ![c] = reading[c]]
  /\ reading' = [reading EXCEPT ![c] = Idle]
  /\ UNCHANGED <<mayRefuse, value>>

ReadAndReturn(c) ==
  /\ reading[c] = Idle
  /\ loaded' = [loaded EXCEPT ![c] = value]
  /\ UNCHANGED <<mayRefuse, value, reading>>

Refuse(c) ==
  /\ mayRefuse
  /\ reading[c] # Idle
  /\ loaded' = [loaded EXCEPT ![c] = Refused]
  /\ reading' = [reading EXCEPT ![c] = Idle]
  /\ UNCHANGED <<mayRefuse, value>>

Restart == reading' = [c \in Calls |-> Idle] /\ UNCHANGED <<mayRefuse, value, loaded>>

RegisterNext ==
  \/ Write \/ Restart
  \/ \E c \in Calls : Read(c) \/ Return(c) \/ ReadAndReturn(c) \/ Refuse(c)

RegisterSpec == RegisterInit /\ [][RegisterNext]_registerVars
=============================================================================
