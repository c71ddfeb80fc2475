------------------------------- MODULE MCClient -------------------------------
(***************************************************************************)
(* The client and the transport with its reconnect manager, for one run.    *)
(* Neither reads or changes anything of the other (client.ts makes no       *)
(* transport), so a behaviour runs one of them and the other stays as it    *)
(* is: their states are added, not multiplied.                              *)
(***************************************************************************)
EXTENDS Client, ReconnectingTransport

VARIABLE part  \* which of them runs

connectionVars == <<part, allVars, networkVars>>

\* Only the part that runs begins in each of its initial states.
ConnectionInit ==
  /\ part \in {"client", "network"}
  /\ ClientInit /\ NetworkInit
  /\ part = "client" =>
       ~listens /\ config.maxRetries = Unlimited /\ \A n \in Intervals : config.initial <= n /\ config.max <= n

InClient(Step) == part = "client" /\ Step /\ UNCHANGED <<part, networkVars>>
InNetwork(Step) == part = "network" /\ Step /\ UNCHANGED <<part, allVars>>

ConnectionNext == InClient(ClientNext) \/ InNetwork(NetworkNext)

\* The fairness of ClientSpec and of NetworkSpec.
ConnectionSpec ==
  /\ ConnectionInit
  /\ [][ConnectionNext]_connectionVars
  /\ WF_connectionVars(InClient(LoadResolves \/ LoadRejects))
  /\ \A c \in Consumers : WF_connectionVars(InClient(Consume(c) /\ UNCHANGED clientVars))
  /\ \A s \in Sockets :
       /\ WF_connectionVars(InNetwork((Opens(s) \/ Fails(s)) /\ UNCHANGED reconnectVars))
       /\ WF_connectionVars(InNetwork(Closes(s) /\ UNCHANGED reconnectVars))
=============================================================================
