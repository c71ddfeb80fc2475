---------------------------- MODULE SignalSession ----------------------------
(***************************************************************************)
(* Two ends that hold SignalSessions with each other, each in its           *)
(* SignalSessionStore (wazeko-core/src/signal.ts), and the messages between *)
(* them.                                                                    *)
(*                                                                         *)
(* A session has one chain for both directions: encrypt and decrypt derive  *)
(* the message key from the chain key and the sequence number and then      *)
(* advance both.  Since the chain key is the hash, sequence times over, of  *)
(* one derived from the secret, a message key is here the pair of the two.  *)
(* Nothing in a message says which key it needs.                            *)
(*                                                                         *)
(* AES-CBC has no tag: under a wrong key the padding is nearly always wrong *)
(* and decrypt throws before it advances, and once in a while it is not and *)
(* decrypt returns garbage and advances.  The channel, and how an end comes *)
(* by the shared secret, are external: messages are lost, garbled,          *)
(* delivered twice and overtaken.  A definition marked "slip" is a mistake  *)
(* that no specification uses: see MessageQueue.                            *)
(***************************************************************************)
EXTENDS Naturals, Sequences

CONSTANTS
  Alice, Bob,   \* the two ends
  MaxMessages,  \* bound: messages an end encrypts
  MaxSequence,  \* bound: how far an end goes on the chain
  NoSession,    \* no session with the other end yet
  Shared,       \* the secret both ends were given
  Garbled       \* the key of a message that no key reads

Ends == {Alice, Bob}
Other(e) == IF e = Alice THEN Bob ELSE Alice

ASSUME EndsAssumption ==
  /\ Alice # Bob /\ {NoSession, Shared, Garbled} \cap Ends = {}
  /\ NoSession # Shared /\ MaxMessages \in Nat /\ MaxSequence \in Nat

Secrets == {Shared} \cup Ends   \* an end stands for the random secret it made up

ASSUME GarbledAssumption == Garbled \notin (Secrets \cup {NoSession}) \X Nat

VARIABLES
  secret,    \* of the session an end has in its store
  sequence,  \* how far that session is on its chain
  transit,   \* the messages on their way to an end
  sent,      \* the number of messages an end has encrypted
  read,      \* history: the numbers of the other end's messages an end has read
  orderly    \* history: no message was lost, garbled, repeated, overtaken or crossed

signalVars == <<secret, sequence, transit, sent, read, orderly>>

Keys == (Secrets \X Nat) \cup {Garbled}
Messages == [number : Nat, key : Keys]

SignalTypeOK ==
  /\ secret \in [Ends -> Secrets \cup {NoSession}]
  /\ sequence \in [Ends -> Nat]
  /\ transit \in [Ends -> SUBSET Messages]
  /\ sent \in [Ends -> Nat]
  /\ read \in [Ends -> Seq(Nat)]
  /\ orderly \in BOOLEAN

SignalInit ==
  /\ secret = [e \in Ends |-> NoSession]
  /\ sequence = [e \in Ends |-> 0]
  /\ transit = [e \in Ends |-> {}]
  /\ sent = [e \in Ends |-> 0]
  /\ read = [e \in Ends |-> <<>>]
  /\ orderly = TRUE

----------------------------------------------------------------------------
\* SignalSessionStore

\* slip: a secret that is given replaces the session.
GetOrCreateSessionAnew(e, given) ==
  /\ secret' = [secret EXCEPT ![e] = given]
  /\ sequence' = [sequence EXCEPT ![e] = 0]
  /\ UNCHANGED <<transit, sent, read, orderly>>

\* getOrCreateSession with the shared secret or, given e itself, without one.  Where
\* there is a session already it is returned, whatever secret is given.
GetOrCreateSession(e, given) ==
  /\ secret[e] = NoSession
  /\ secret' = [secret EXCEPT ![e] = given]
  /\ UNCHANGED <<sequence, transit, sent, read, orderly>>

----------------------------------------------------------------------------
\* SignalSession

MessageKey(e) == <<secret[e], sequence[e]>>
Advance(e) == sequence' = [sequence EXCEPT ![e] = @ + 1]

Encrypt(e) ==
  /\ secret[e] # NoSession
  /\ sent[e] < MaxMessages /\ sequence[e] < MaxSequence
  /\ sent' = [sent EXCEPT ![e] = @ + 1]
  /\ transit' = [transit EXCEPT ![Other(e)] = @ \cup {[number |-> sent[e] + 1, key |-> MessageKey(e)]}]
  /\ orderly' = (orderly /\ transit[e] = {})
  /\ Advance(e)
  /\ UNCHANGED <<secret, read>>

\* Message m is taken from the channel, or stays to be delivered again.
Arrives(e, m) ==
  \E again \in BOOLEAN :
    /\ transit' = IF again THEN transit ELSE [transit EXCEPT ![e] = @ \ {m}]
    /\ orderly' = (orderly /\ ~again /\ \A other \in transit[e] : m.number <= other.number)

\* slip: the chain is advanced by encrypt only.
DecryptInPlace(e, m) ==
  /\ m.key = MessageKey(e)
  /\ Arrives(e, m)
  /\ read' = [read EXCEPT ![e] = Append(@, m.number)]
  /\ UNCHANGED <<secret, sequence, sent>>

\* decrypt, when m was encrypted with the key this end is at.
DecryptReads(e, m) ==
  /\ m.key = MessageKey(e) /\ sequence[e] < MaxSequence
  /\ Arrives(e, m)
  /\ read' = [read EXCEPT ![e] = Append(@, m.number)]
  /\ Advance(e)
  /\ UNCHANGED <<secret, sent>>

\* decrypt, when it was not: it throws, or returns garbage.
DecryptFails(e, m) ==
  /\ secret[e] # NoSession /\ m.key # MessageKey(e)
  /\ Arrives(e, m)
  /\ \/ UNCHANGED sequence
     \/ sequence[e] < MaxSequence /\ Advance(e)
  /\ UNCHANGED <<secret, sent, read>>

----------------------------------------------------------------------------
\* The channel

Lose(e, m) ==
  /\ transit' = [transit EXCEPT ![e] = @ \ {m}]
  /\ orderly' = FALSE
  /\ UNCHANGED <<secret, sequence, sent, read>>

Garble(e, m) ==
  /\ transit' = [transit EXCEPT ![e] = (@ \ {m}) \cup {[m EXCEPT !.key = Garbled]}]
  /\ orderly' = FALSE
  /\ UNCHANGED <<secret, sequence, sent, read>>

SignalNext ==
  \E e \in Ends :
    \/ \E given \in {Shared, e} : GetOrCreateSession(e, given)
    \/ Encrypt(e)
    \/ \E m \in transit[e] :
         DecryptReads(e, m) \/ DecryptFails(e, m) \/ Lose(e, m) \/ Garble(e, m)

SignalSpec == SignalInit /\ [][SignalNext]_signalVars

----------------------------------------------------------------------------
\* Properties.

\* Whatever the channel does with them, an end reads the other's messages in the
\* order in which they were encrypted and none of them twice.
ReadInOrder ==
  \A e \in Ends : \A i, j \in DOMAIN read[e] : i < j => read[e][i] < read[e][j]

\* Only ends that were both given the secret in the first place read each other: a
\* session that getOrCreateSession made up never does, nor becomes one that does.
ReadsShareSecret == \A e \in Ends : read[e] # <<>> => secret[e] = Shared /\ secret[Other(e)] = Shared

\* Reading is true in both respects.
ReadsTrue == ReadInOrder /\ ReadsShareSecret

\* The oldest message on its way to an end.
Oldest(e, m) == m \in transit[e] /\ \A other \in transit[e] : m.number <= other.number

\* Two ends with one chain stay together as long as the channel keeps the order and
\* neither sends while a message is on its way to it: the next message can be read.
InStep ==
  orderly /\ secret[Alice] = Shared /\ secret[Bob] = Shared =>
    \A e \in Ends : \A m \in transit[e] : Oldest(e, m) => m.key = MessageKey(e)
=============================================================================
