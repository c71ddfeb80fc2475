------------------------------- MODULE Client -------------------------------
(***************************************************************************)
(* The connection life cycle of Wazeko (wazeko/src/client.ts) and the       *)
(* events it puts into the AsyncEventQueue.                                 *)
(*                                                                         *)
(* connect() awaits the load of the AuthStore and goes on in whatever state *)
(* the client is by then; nothing keeps calls of connect and disconnect     *)
(* apart.  The store is the application's: a load may find nothing,         *)
(* credentials that are registered or that are not, or fail.                *)
(***************************************************************************)
EXTENDS AsyncEventQueue

CONSTANTS
  MaxConnects,  \* bound: calls of connect
  MaxSends      \* bound: calls of sendMessage

ASSUME ClientBounds == MaxConnects \in Nat /\ MaxSends \in Nat

VARIABLES
  state,
  registered,  \* this.credentials.registered
  loading,     \* calls of connect that await authStore.load()
  connects,    \* calls of connect so far
  sends,       \* calls of sendMessage so far
  rejected     \* history: calls of connect that were rejected

clientVars == <<state, registered, loading, connects, sends, rejected>>
allVars == <<queueVars, clientVars>>

ClientTypeOK ==
  /\ QueueTypeOK
  /\ state \in {"disconnected", "connecting", "authenticating", "connected"}
  /\ registered \in BOOLEAN
  /\ connects \in 0..MaxConnects
  /\ sends \in 0..MaxSends
  /\ loading \in 0..connects
  /\ rejected \in 0..connects

ClientInit ==
  /\ QueueInit
  /\ state = "disconnected"
  /\ registered = FALSE     \* initCredentials()
  /\ loading = 0 /\ connects = 0 /\ sends = 0 /\ rejected = 0

----------------------------------------------------------------------------

\* connect() up to its await.  Every setState is an event.
Connect ==
  /\ connects < MaxConnects
  /\ connects' = connects + 1
  /\ loading' = loading + 1
  /\ state' = "connecting"
  /\ Push(1)
  /\ UNCHANGED <<registered, sends, rejected>>

\* slip: without credentials there is nothing to do.
RunConnectionLifecycleSilent ==
  \/ registered' /\ state' = "connected" /\ Push(1)
  \/ ~registered' /\ UNCHANGED <<queueVars, state>>

\* slip: decides from the credentials of before the load.
RunConnectionLifecycleStale ==
  \/ registered  /\ state' = "connected" /\ Push(1)
  \/ ~registered /\ state' = "authenticating" /\ Push(2)

\* runConnectionLifecycle(): "connected", and "authenticated" if credentials.me is
\* known; or "authenticating" and the QR or pairing code.
RunConnectionLifecycle ==
  \/ registered'  /\ state' = "connected" /\ (Push(1) \/ Push(2))
  \/ ~registered' /\ state' = "authenticating" /\ Push(2)

\* The load resolves, with null or with credentials that replace the client's.
LoadResolves ==
  /\ loading > 0
  /\ loading' = loading - 1
  /\ registered' \in BOOLEAN
  /\ RunConnectionLifecycle
  /\ UNCHANGED <<connects, sends, rejected>>

\* The load rejects, and connect with it: the state is left as it is.
LoadRejects ==
  /\ loading > 0
  /\ loading' = loading - 1
  /\ rejected' = rejected + 1
  /\ UNCHANGED <<queueVars, state, registered, connects, sends>>

Disconnect ==
  /\ state' = "disconnected"
  /\ PushAndClose(2)
  /\ UNCHANGED <<registered, loading, connects, sends, rejected>>

\* sendMessage, through dispatchNode, in whatever state the client is.
SendMessage ==
  /\ sends < MaxSends
  /\ sends' = sends + 1
  /\ Push(1)
  /\ UNCHANGED <<state, registered, loading, connects, rejected>>

ClientNext ==
  \/ Connect \/ LoadResolves \/ LoadRejects \/ Disconnect \/ SendMessage
  \/ \E c \in Consumers : Consume(c) /\ UNCHANGED clientVars

\* Consumers go on reading, and the store answers every load.
ClientSpec ==
  /\ ClientInit /\ [][ClientNext]_allVars
  /\ WF_allVars(LoadResolves \/ LoadRejects)
  /\ \A c \in Consumers : WF_allVars(Consume(c) /\ UNCHANGED clientVars)

----------------------------------------------------------------------------
\* Properties.

\* However calls of connect overlap and whatever each load brings, the state tells
\* which credentials the client has.
StateMatchesCredentials ==
  /\ state = "connected" => registered
  /\ state = "authenticating" => ~registered

\* A client is left in "connecting" only by a load that rejected: otherwise it
\* leaves it, however many calls of connect overlap.
ConnectingEnds == state = "connecting" ~> state # "connecting" \/ rejected > 0

\* "disconnected -> connecting -> authenticating -> connected": a client that is
\* disconnected goes on to connecting first.
LifecycleOrder ==
  [][state = "disconnected" => state' \in {"disconnected", "connecting"}]_allVars
=============================================================================
