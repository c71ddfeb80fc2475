-------------------------- MODULE WebSocketTransport --------------------------
(***************************************************************************)
(* WebSocketTransport of wazeko-transport/src/websocket.ts over the sockets *)
(* of the ws package.                                                      *)
(*                                                                         *)
(* Every connect() makes a socket and gives it handlers that live as long   *)
(* as the socket, whatever this.ws refers to by then: close() and a second  *)
(* connect() only drop the reference.  The handlers share _isConnected;     *)
(* each call of connect has a `settled' of its own.                         *)
(*                                                                         *)
(* A socket is the number of the call of connect that made it.  What is     *)
(* said of a socket (which events it emits, and when) is ws, which is       *)
(* external; the messages it carries, and send(), which changes nothing in  *)
(* the transport, are left out.  A definition marked "slip" is a mistake    *)
(* that no specification uses: see MessageQueue.                            *)
(***************************************************************************)
EXTENDS Naturals

CONSTANT MaxSockets  \* bound: how many times connect is called

ASSUME SocketsAssumption == MaxSockets \in Nat

Sockets == 1..MaxSockets
NoSocket == 0        \* the null of this.ws

VARIABLES
  ws,           \* this.ws
  isConnected,  \* _isConnected
  readyState,   \* of each socket
  promise,      \* what connect returned with each socket
  listens,      \* the application listens to "error", which does not change
  crashed,      \* an "error" event nobody listens to has ended the process
  made,         \* number of sockets so far
  opened,       \* history: sockets whose "open" event was emitted
  beside        \* history: the sockets not yet closed when the newest one was made

transportVars ==
  <<ws, isConnected, readyState, promise, listens, crashed, made, opened, beside>>

TransportTypeOK ==
  /\ ws \in Sockets \cup {NoSocket}
  /\ isConnected \in BOOLEAN
  /\ readyState \in [Sockets -> {"none", "connecting", "open", "closing", "closed"}]
  /\ promise \in [Sockets -> {"none", "pending", "resolved", "rejected"}]
  /\ listens \in BOOLEAN /\ crashed \in BOOLEAN
  /\ made \in 0..MaxSockets
  /\ opened \subseteq Sockets /\ beside \subseteq Sockets

TransportInit ==
  /\ ws = NoSocket
  /\ isConnected = FALSE
  /\ readyState = [s \in Sockets |-> "none"]
  /\ promise = [s \in Sockets |-> "none"]
  /\ listens \in BOOLEAN
  /\ crashed = FALSE
  /\ made = 0
  /\ opened = {}
  /\ beside = {}

Becomes(s, state) == readyState' = [readyState EXCEPT ![s] = state]

----------------------------------------------------------------------------
\* The methods of the transport

\* connect(): new WebSocket(...) and its handlers.
ConnectSocket ==
  LET s == made + 1 IN
  /\ s \in Sockets /\ ~crashed
  /\ made' = s
  /\ ws' = s
  /\ Becomes(s, "connecting")
  /\ promise' = [promise EXCEPT ![s] = "pending"]
  /\ beside' = {t \in Sockets : readyState[t] \notin {"none", "closed"}}
  /\ UNCHANGED <<isConnected, listens, crashed, opened>>

\* close().  ws aborts a handshake and emits "error" and "close" for it later.  Without a
\* socket the flag is cleared all the same: an old one may have set it meanwhile.
CloseTransport ==
  /\ ~crashed
  /\ readyState' = [s \in Sockets |-> IF s = ws /\ readyState[s] # "closed" THEN "closing" ELSE readyState[s]]
  /\ ws' = NoSocket
  /\ isConnected' = FALSE
  /\ UNCHANGED <<promise, listens, crashed, made, opened, beside>>

----------------------------------------------------------------------------
\* The handlers

\* slip: one `settled' for all calls of connect.
SettleShared(s, how) ==
  promise' = [promise EXCEPT ![s] = IF \A t \in Sockets : promise[t] \in {"none", "pending"} THEN how ELSE @]

\* if (!settled) ...
Settle(s, how) == promise' = [promise EXCEPT ![s] = IF @ = "pending" THEN how ELSE @]

\* The handshake is done and "open" emitted.
Opens(s) ==
  /\ ~crashed /\ readyState[s] = "connecting"
  /\ Becomes(s, "open")
  /\ isConnected' = TRUE
  /\ opened' = opened \cup {s}
  /\ Settle(s, "resolved")
  /\ UNCHANGED <<ws, listens, crashed, made, beside>>

\* emit("error") throws when nobody listens, and what throws in an event handler
\* ends the process.
Crash(s) ==
  /\ ~listens
  /\ crashed' = TRUE
  /\ UNCHANGED <<ws, isConnected, readyState, promise, listens, made, opened, beside>>

Unopened(s) == s \notin opened /\ readyState[s] \in {"connecting", "closing"}

\* slip: the connect is only rejected when its socket is still the transport's.
FailsIfCurrent(s) ==
  /\ ~crashed /\ Unopened(s)
  /\ listens
  /\ Becomes(s, "closed")
  /\ isConnected' = FALSE
  /\ IF ws = s THEN Settle(s, "rejected") ELSE UNCHANGED promise
  /\ UNCHANGED <<ws, listens, crashed, made, opened, beside>>

\* A handshake fails, times out or was aborted: "error" and "close" in one turn.
Fails(s) ==
  /\ ~crashed /\ Unopened(s)
  /\ \/ Crash(s)
     \/ /\ listens
        /\ Becomes(s, "closed")
        /\ isConnected' = FALSE
        /\ Settle(s, "rejected")
        /\ UNCHANGED <<ws, listens, crashed, made, opened, beside>>

\* External: the peer closes an open socket, or its connection ends.
Drops(s) ==
  /\ ~crashed /\ readyState[s] = "open"
  /\ Becomes(s, "closing")
  /\ UNCHANGED <<ws, isConnected, promise, listens, crashed, made, opened, beside>>

\* An open socket has an error: "error" now and "close" later.
Errs(s) ==
  /\ ~crashed /\ readyState[s] = "open"
  /\ Crash(s) \/ (listens /\ Drops(s))

\* slip: the "close" event only tells the application.
ClosesSilent(s) ==
  /\ ~crashed /\ readyState[s] = "closing" /\ s \in opened
  /\ Becomes(s, "closed")
  /\ UNCHANGED <<ws, isConnected, promise, listens, crashed, made, opened, beside>>

\* The "close" event of a socket that was open.
Closes(s) ==
  /\ ~crashed /\ readyState[s] = "closing" /\ s \in opened
  /\ Becomes(s, "closed")
  /\ isConnected' = FALSE
  /\ Settle(s, "rejected")
  /\ UNCHANGED <<ws, listens, crashed, made, opened, beside>>

----------------------------------------------------------------------------

TransportNext ==
  \/ ConnectSocket \/ CloseTransport
  \/ \E s \in Sockets : Opens(s) \/ Fails(s) \/ Drops(s) \/ Errs(s) \/ Closes(s)

\* A handshake ends (handshakeTimeout), and ws ends a closing socket after a timeout.
TransportFairness(s) == WF_transportVars(Opens(s) \/ Fails(s)) /\ WF_transportVars(Closes(s))

TransportSpec ==
  TransportInit /\ [][TransportNext]_transportVars /\ \A s \in Sockets : TransportFairness(s)

----------------------------------------------------------------------------
\* Properties.

\* Every call of connect has the outcome of its own socket, however many sockets
\* are alive at once: it is resolved when that one opened and rejected when it
\* never will, and not settled before.
OutcomeOfOwnSocket ==
  \A s \in Sockets :
    /\ promise[s] = "resolved" <=> s \in opened
    /\ promise[s] = "rejected" <=> (readyState[s] = "closed" /\ s \notin opened)

\* isConnected(), which send() asks, needs the flag and an open current socket, and the
\* handlers of all sockets share the flag.  It is never left over from sockets that are
\* gone.  Under an open current socket it is missing only when a socket that was not yet
\* closed when this one was made has closed since; so it never is when each connect
\* waits for the end of the socket before.
FlagTellsTruth ==
  /\ isConnected => \E s \in opened : readyState[s] # "closed"
  /\ ws # NoSocket /\ readyState[ws] = "open" /\ ~isConnected =>
       \E t \in beside : readyState[t] = "closed"

\* send() refuses because "WebSocket is not connected" only when it is not.  This fails:
\* close() and connect() do not wait for the "close" event of the socket before, which
\* clears the flag under the new socket, and nothing sets it again.
OpenIsConnected == ws # NoSocket /\ readyState[ws] = "open" => isConnected

\* Every call of connect is settled, also when close() or another connect()
\* overtakes it, unless an "error" event nobody listened to ended the process.
ConnectsSettle == \A s \in Sockets : promise[s] = "pending" ~> promise[s] # "pending" \/ crashed
=============================================================================
