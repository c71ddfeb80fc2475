------------------------ MODULE ReconnectingTransport ------------------------
(***************************************************************************)
(* What an application has of @wazeko/transport: a transport and a manager  *)
(* that says how long to wait before the next connect.  Nothing in the      *)
(* repository connects the two, so the application may call either at any   *)
(* time: what this specification adds to its two parts is that neither      *)
(* relies on the other.                                                     *)
(***************************************************************************)
EXTENDS WebSocketTransport, ReconnectManager

networkVars == <<transportVars, reconnectVars>>

NetworkInit == TransportInit /\ ReconnectInit

Transport == TransportNext /\ UNCHANGED reconnectVars
Reconnect == ReconnectNext /\ UNCHANGED transportVars
NetworkNext == Transport \/ Reconnect

NetworkSpec ==
  /\ NetworkInit
  /\ [][NetworkNext]_networkVars
  /\ \A s \in Sockets : TransportFairness(s)
=============================================================================
