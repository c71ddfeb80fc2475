------------------------------ MODULE SessionProofs ------------------------------
(***************************************************************************)
(* Proofs about the sessions of wazeko-core: SignalSession and              *)
(* PreKeyManager (signal.ts), then NoiseSession (noise.ts), for any number  *)
(* of messages, keys, bundles, servers, directions, hellos and frames.      *)
(*                                                                         *)
(* For Signal: what is on its way to an end was encrypted with the          *)
(* secret of the other one, at a place of its chain that the other has left *)
(* (MessagesMade), later messages at later places (MessagesOrdered); so     *)
(* what an end can still read is newer than all it has read (ReadsOld).     *)
(* While the channel is orderly the messages on their way fill the gap      *)
(* between the places of the two ends (GapFilled).                          *)
(*                                                                         *)
(* For Noise: KeysAgree is inductive with the types.  That frames are read  *)
(* in order needs that every number read is below the counter of the frame  *)
(* expected next, and that an orderly channel keeps the two ends in step    *)
(* needs that the counter then equals the number of frames delivered.       *)
(***************************************************************************)
EXTENDS PreKeyManager, SignalSession, NoiseSession, TLAPS

SecretsOwn == \A e \in Ends : secret[e] \in {NoSession, Shared, e}

MessagesMade ==
  \A e \in Ends : \A m \in transit[e] :
    /\ m.number <= sent[Other(e)]
    /\ m.key # Garbled => m.key[1] = secret[Other(e)] /\ m.key[2] < sequence[Other(e)]

MessagesOrdered ==
  \A e \in Ends : \A m, n \in transit[e] :
    /\ m.number = n.number => m = n
    /\ m.number < n.number /\ m.key # Garbled /\ n.key # Garbled => m.key[2] < n.key[2]

ReadsOld ==
  \A e \in Ends : \A k \in DOMAIN read[e] :
    /\ read[e][k] <= sent[Other(e)]
    /\ \A m \in transit[e] : m.key # Garbled /\ sequence[e] <= m.key[2] => read[e][k] < m.number

\* No end has made up a secret of its own.
NoneOwn == \A e \in Ends : secret[e] \in {NoSession, Shared}

GapFilled ==
  orderly /\ NoneOwn =>
    /\ transit[Alice] = {} \/ transit[Bob] = {}
    /\ \A e \in Ends :
         /\ \A m \in transit[e] : m.key # Garbled /\ sequence[e] <= m.key[2]
         /\ \A q \in sequence[e]..sequence[Other(e)] - 1 : \E m \in transit[e] : m.key[2] = q

SignalInv ==
  /\ SignalTypeOK /\ SecretsOwn /\ MessagesMade /\ MessagesOrdered /\ ReadsOld /\ GapFilled
  /\ ReadInOrder /\ ReadsShareSecret

----------------------------------------------------------------------------
\* Facts about the data.

\* Two ends face each other.
LEMMA OtherEnd ==
  ASSUME NEW e \in Ends
  PROVE  /\ Other(e) \in Ends /\ Other(e) # e /\ Other(Other(e)) = e
         /\ \A d \in Ends : d = e \/ d = Other(e)
         /\ Alice \in Ends /\ Bob \in Ends /\ Other(Alice) = Bob /\ Other(Bob) = Alice
BY EndsAssumption DEF Ends, Other

\* A key that a message was encrypted with is a secret and a place, and not Garbled.
LEMMA KeyParts ==
  ASSUME NEW key \in Keys
  PROVE  key # Garbled => key[1] \in Secrets /\ key[2] \in Nat /\ key = <<key[1], key[2]>>
BY DEF Keys

\* The key an end is at is a key if the end has a session.
LEMMA MessageKeyIsKey ==
  ASSUME SignalTypeOK, NEW e \in Ends, secret[e] # NoSession
  PROVE  /\ MessageKey(e) \in Secrets \X Nat /\ MessageKey(e) # Garbled
         /\ MessageKey(e)[1] = secret[e] /\ MessageKey(e)[2] = sequence[e]
BY GarbledAssumption DEF MessageKey, SignalTypeOK

\* A message on its way has a number and a key.
LEMMA MessageParts ==
  ASSUME SignalTypeOK, NEW e \in Ends, NEW m \in transit[e]
  PROVE  m \in Messages /\ m.number \in Nat /\ m.key \in Keys
<1>1. transit[e] \in SUBSET Messages
  BY DEF SignalTypeOK
<1>2. m \in Messages
  BY <1>1
<1> QED BY <1>2 DEF Messages

\* No secret is the mark of having none.
LEMMA SecretIsSession == NoSession \notin Secrets
BY EndsAssumption DEF Secrets

\* A number larger than those of an increasing sequence keeps it increasing at its end.
LEMMA AppendIncreasing ==
  ASSUME NEW s \in Seq(Nat), NEW n \in Nat, \A k \in DOMAIN s : s[k] < n,
         \A i, j \in DOMAIN s : i < j => s[i] < s[j]
  PROVE  LET t == Append(s, n)
         IN  /\ t \in Seq(Nat)
             /\ \A i, j \in DOMAIN t : i < j => t[i] < t[j]
             /\ \A k \in DOMAIN t : t[k] < n + 1
             /\ \A k \in DOMAIN t : t[k] = n \/ \E j \in DOMAIN s : t[k] = s[j]
<1> DEFINE t == Append(s, n)
<1>1. DOMAIN s = 1..Len(s) /\ DOMAIN t = 1..Len(s) + 1 /\ t[Len(s) + 1] = n /\ t \in Seq(Nat)
  OBVIOUS
<1>2. \A k \in DOMAIN s : t[k] = s[k] /\ s[k] \in Nat
  OBVIOUS
<1>3. \A k \in DOMAIN t : k \in DOMAIN s \/ k = Len(s) + 1
  BY <1>1
<1> HIDE DEF t
<1>4. \A k \in DOMAIN t : t[k] = n \/ \E j \in DOMAIN s : t[k] = s[j]
  BY <1>1, <1>2, <1>3
<1>5. ASSUME NEW i \in DOMAIN t, NEW j \in DOMAIN t, i < j PROVE t[i] < t[j]
  <2>1. i \in DOMAIN s
    BY <1>1, <1>3, <1>5
  <2> QED BY <1>1, <1>2, <1>3, <1>5, <2>1
<1>6. \A k \in DOMAIN t : t[k] < n + 1
  BY <1>1, <1>2, <1>3
<1> QED BY <1>1, <1>4, <1>5, <1>6 DEF t

----------------------------------------------------------------------------
\* What several steps have in common.

\* Messages that are taken away, while the ends go on along the chain, leave the rest in order.
LEMMA FewerMessages ==
  ASSUME SignalInv, sent' = sent, secret' = secret,
         \A e \in Ends : transit'[e] \subseteq transit[e],
         \A e \in Ends : sequence'[e] \in Nat /\ sequence[e] <= sequence'[e]
  PROVE  MessagesMade' /\ MessagesOrdered' /\ (read' = read => ReadsOld')
<1> USE DEF SignalInv
<1>1. \A e \in Ends : \A m \in transit[e] : m.key # Garbled => m.key[2] \in Nat
  BY KeyParts DEF SignalTypeOK, Messages
<1>2. \A e \in Ends : sequence[e] \in Nat
  BY DEF SignalTypeOK
<1>3. MessagesMade'
  BY <1>1, <1>2, OtherEnd DEF MessagesMade
<1>4. MessagesOrdered'
  BY DEF MessagesOrdered
<1>5. read' = read => ReadsOld'
  BY <1>1, <1>2, OtherEnd DEF ReadsOld
<1> QED BY <1>3, <1>4, <1>5

\* What has been read, and by whom, stays as it is.
LEMMA SameReads ==
  ASSUME SignalInv, read' = read, \A e \in Ends : read[e] # <<>> => secret'[e] = secret[e] /\ secret'[Other(e)] = secret[Other(e)]
  PROVE  ReadInOrder' /\ ReadsShareSecret'
BY DEF SignalInv, ReadInOrder, ReadsShareSecret

\* The oldest message on its way to an end fills the place the end is at.
LEMMA OldestReadable ==
  ASSUME SignalInv, orderly, NoneOwn, NEW e \in Ends, NEW m \in transit[e], secret[e] # NoSession,
         \A other \in transit[e] : m.number <= other.number
  PROVE  m.key = MessageKey(e)
<1> USE DEF SignalInv
<1>1. m.key # Garbled /\ m.key \in Keys /\ sequence[e] <= m.key[2]
  BY DEF GapFilled, SignalTypeOK, Messages
<1>2. /\ m.key[1] = secret[Other(e)] /\ m.key[2] < sequence[Other(e)]
      /\ m.key = <<m.key[1], m.key[2]>> /\ m.key[1] \in Secrets /\ m.key[2] \in Nat
  BY <1>1, KeyParts DEF MessagesMade
<1>3. sequence[e] \in Nat /\ sequence[Other(e)] \in Nat
  BY OtherEnd DEF SignalTypeOK
<1>4. PICK n \in transit[e] : n.key[2] = sequence[e]
  BY <1>1, <1>2, <1>3 DEF GapFilled
<1>5. n.number \in Nat /\ m.number \in Nat /\ m.number <= n.number
  BY DEF SignalTypeOK, Messages
<1>6. n.key # Garbled
  BY DEF GapFilled
<1>7. m = n
  BY <1>1, <1>2, <1>3, <1>4, <1>5, <1>6 DEF MessagesOrdered
<1>8. secret[e] = Shared /\ secret[Other(e)] = Shared
  BY <1>2, OtherEnd, SecretIsSession DEF NoneOwn
<1> QED BY <1>2, <1>4, <1>7, <1>8 DEF MessageKey

----------------------------------------------------------------------------
\* One lemma for each step.

LEMMA SignalInitInv == SignalInit => SignalInv
<1> SUFFICES ASSUME SignalInit PROVE SignalInv
  OBVIOUS
<1>1. SignalTypeOK /\ SecretsOwn
  BY DEF SignalInit, SignalTypeOK, SecretsOwn
<1>2. MessagesMade /\ MessagesOrdered /\ ReadsOld /\ ReadInOrder /\ ReadsShareSecret
  BY DEF SignalInit, MessagesMade, MessagesOrdered, ReadsOld, ReadInOrder, ReadsShareSecret
<1>3. \A e \in Ends : transit[e] = {} /\ sequence[e] = 0 /\ sequence[Other(e)] = 0
  BY OtherEnd DEF SignalInit
<1>4. \A e \in Ends : \A q \in sequence[e]..sequence[Other(e)] - 1 : FALSE
  <2>1. \A q \in 0..0 - 1 : FALSE
    OBVIOUS
  <2> QED BY <1>3, <2>1
<1>5. transit[Alice] = {}
  BY <1>3 DEF Ends
<1>6. GapFilled
  BY <1>3, <1>4, <1>5 DEF GapFilled
<1> QED BY <1>1, <1>2, <1>6 DEF SignalInv

\* A session is made once, so no message was encrypted in it yet.
LEMMA GetOrCreateSessionInv ==
  ASSUME SignalInv, NEW e \in Ends, NEW given \in {Shared, e}, GetOrCreateSession(e, given)
  PROVE  SignalInv'
<1> USE DEF SignalInv, GetOrCreateSession
<1>1. SignalTypeOK' /\ SecretsOwn'
  BY DEF SignalTypeOK, SecretsOwn, Secrets
<1>2. \A d \in Ends : secret[d] # NoSession => secret'[d] = secret[d]
  BY DEF SignalTypeOK
<1>3. \A d \in Ends : \A m \in transit[d] : m.key # Garbled => m.key[1] # NoSession
  BY KeyParts, SecretIsSession DEF SignalTypeOK, Messages
<1>4. MessagesMade' /\ MessagesOrdered' /\ ReadsOld'
  BY <1>2, <1>3, OtherEnd DEF MessagesMade, MessagesOrdered, ReadsOld
<1>5. ReadInOrder' /\ ReadsShareSecret'
  BY <1>2, OtherEnd, EndsAssumption DEF ReadInOrder, ReadsShareSecret
<1>6. NoneOwn' => NoneOwn
  BY <1>2 DEF NoneOwn, SignalTypeOK
<1>7. GapFilled'
  BY <1>6 DEF GapFilled
<1> QED BY <1>1, <1>4, <1>5, <1>7

\* The new message is the newest, at a place its sender leaves.
LEMMA EncryptInv == ASSUME SignalInv, NEW e \in Ends, Encrypt(e) PROVE SignalInv'
<1> USE DEF SignalInv, Encrypt, Advance
<1> DEFINE o == Other(e)
           new == [number |-> sent[e] + 1, key |-> MessageKey(e)]
<1>1. o \in Ends /\ o # e /\ Other(o) = e /\ \A d \in Ends : d = e \/ d = o
  BY OtherEnd
<1>2. /\ new.key # Garbled /\ new.key[1] = secret[e] /\ new.key[2] = sequence[e]
      /\ new \in Messages /\ new.number = sent[e] + 1 /\ sent[e] \in Nat /\ sequence[e] \in Nat
  BY MessageKeyIsKey DEF SignalTypeOK, Messages, Keys
<1> HIDE DEF new
<1>3. /\ transit'[o] = transit[o] \cup {new} /\ transit'[e] = transit[e]
      /\ sent'[e] = sent[e] + 1 /\ sent'[o] = sent[o]
      /\ sequence'[e] = sequence[e] + 1 /\ sequence'[o] = sequence[o] /\ sequence[o] \in Nat /\ sent[o] \in Nat
  BY <1>1 DEF SignalTypeOK, new
<1>4. SignalTypeOK' /\ SecretsOwn'
  BY <1>1, <1>2 DEF SignalTypeOK, SecretsOwn, new
<1>5. \A d \in Ends : \A m \in transit[d] : /\ m.number \in Nat
                                            /\ m.key # Garbled => m.key[2] \in Nat
  BY KeyParts DEF SignalTypeOK, Messages
<1>6. MessagesMade'
  BY <1>1, <1>2, <1>3, <1>5 DEF MessagesMade
<1>7. \A m \in transit[o] : m.number < new.number /\ (m.key # Garbled => m.key[2] < new.key[2])
  BY <1>1, <1>2, <1>5 DEF MessagesMade
<1>8. MessagesOrdered'
  <2>1. \A m, n \in transit'[o] : m.number = n.number => m = n
    BY <1>2, <1>3, <1>5, <1>7, <1>1 DEF MessagesOrdered
  <2>2. \A m, n \in transit'[o] :
          m.number < n.number /\ m.key # Garbled /\ n.key # Garbled => m.key[2] < n.key[2]
    BY <1>2, <1>3, <1>5, <1>7, <1>1 DEF MessagesOrdered
  <2> QED BY <2>1, <2>2, <1>1, <1>3 DEF MessagesOrdered
<1>9. ReadsOld'
  <2>1. \A d \in Ends : \A k \in DOMAIN read[d] : read[d][k] \in Nat
    BY DEF SignalTypeOK
  <2> QED BY <2>1, <1>1, <1>2, <1>3, <1>5 DEF ReadsOld
<1>10. ReadInOrder' /\ ReadsShareSecret'
  BY SameReads
<1>11. GapFilled'
  <2> SUFFICES ASSUME orderly', NoneOwn'
               PROVE  /\ transit'[Alice] = {} \/ transit'[Bob] = {}
                      /\ \A d \in Ends :
                           /\ \A m \in transit'[d] : m.key # Garbled /\ sequence'[d] <= m.key[2]
                           /\ \A q \in sequence'[d]..sequence'[Other(d)] - 1 :
                                \E m \in transit'[d] : m.key[2] = q
    BY DEF GapFilled
  <2>1. orderly /\ transit[e] = {} /\ NoneOwn
    BY DEF NoneOwn
  <2>2. transit'[Alice] = {} \/ transit'[Bob] = {}
    BY <2>1, <1>1, <1>3, OtherEnd
  <2>3. \A q \in sequence[e]..sequence[o] - 1 : FALSE
    BY <2>1 DEF GapFilled
  <2>4. sequence[o] <= sequence[e]
    BY <2>3, <1>2, <1>3
  <2>5. /\ \A m \in transit'[o] : m.key # Garbled /\ sequence'[o] <= m.key[2]
        /\ \A q \in sequence'[o]..sequence'[e] - 1 : \E m \in transit'[o] : m.key[2] = q
    <3>1. \A q \in sequence'[o]..sequence'[e] - 1 : q \in sequence[o]..sequence[e] - 1 \/ q = sequence[e]
      BY <1>2, <1>3
    <3>2. \A q \in sequence[o]..sequence[e] - 1 : \E m \in transit[o] : m.key[2] = q
      BY <2>1, <1>1 DEF GapFilled
    <3>3. \A m \in transit[o] : m.key # Garbled /\ sequence[o] <= m.key[2]
      BY <2>1, <1>1 DEF GapFilled
    <3> QED BY <3>1, <3>2, <3>3, <2>4, <1>2, <1>3
  <2>6. /\ \A m \in transit'[e] : m.key # Garbled /\ sequence'[e] <= m.key[2]
        /\ \A q \in sequence'[e]..sequence'[o] - 1 : \E m \in transit'[e] : m.key[2] = q
    BY <2>1, <2>4, <1>2, <1>3
  <2> QED BY <2>2, <2>5, <2>6, <1>1
<1> QED BY <1>4, <1>6, <1>8, <1>9, <1>10, <1>11

\* The message read is in the place the end is at: what can be read later is newer.
LEMMA DecryptReadsInv ==
  ASSUME SignalInv, NEW e \in Ends, NEW m \in transit[e], DecryptReads(e, m)
  PROVE  SignalInv'
<1> USE DEF SignalInv, DecryptReads, Arrives, Advance
<1> DEFINE o == Other(e)
<1>1. o \in Ends /\ o # e /\ Other(o) = e /\ \A d \in Ends : d = e \/ d = o
  BY OtherEnd
<1>2. \A d \in Ends : transit'[d] \subseteq transit[d]
  BY DEF SignalTypeOK
<1>3. /\ sequence'[e] = sequence[e] + 1 /\ sequence'[o] = sequence[o]
      /\ sequence[e] \in Nat /\ sequence[o] \in Nat
  BY <1>1 DEF SignalTypeOK
<1>4. \A d \in Ends : \A n \in transit[d] : /\ n.number \in Nat
                                            /\ n.key # Garbled => n.key[2] \in Nat
  BY KeyParts DEF SignalTypeOK, Messages
<1>5. secret[e] # NoSession /\ secret[e] = secret[o] /\ m.key # Garbled /\ m.key[2] = sequence[e]
  <2>1. m.key \in Keys /\ m.key = <<secret[e], sequence[e]>>
    <3>1. m.key \in Keys
      BY MessageParts
    <3>2. m.key = <<secret[e], sequence[e]>>
      BY DEF MessageKey
    <3> QED BY <3>1, <3>2
  <2>2. m.key # Garbled
    <3> QED BY <1>3, <2>1, GarbledAssumption DEF SignalTypeOK
  <2>3. m.key[1] \in Secrets /\ m.key[1] = secret[o]
    BY <2>1, <2>2, KeyParts, <1>1 DEF MessagesMade
  <2> QED BY <2>1, <2>2, <2>3, SecretIsSession
<1>6. secret[e] = Shared /\ secret[o] = Shared
  BY <1>1, <1>5 DEF SecretsOwn
<1>7. MessagesMade' /\ MessagesOrdered'
  BY <1>1, <1>2, <1>3, FewerMessages
<1>8. /\ \A i, j \in DOMAIN read'[e] : i < j => read'[e][i] < read'[e][j]
      /\ \A k \in DOMAIN read'[e] : read'[e][k] = m.number \/ \E j \in DOMAIN read[e] : read'[e][k] = read[e][j]
      /\ read'[e] \in Seq(Nat) /\ read'[o] = read[o]
  <2>1. \A k \in DOMAIN read[e] : read[e][k] < m.number
    BY <1>3, <1>5 DEF ReadsOld
  <2>2. read'[e] = Append(read[e], m.number) /\ read'[o] = read[o] /\ read[e] \in Seq(Nat) /\ m.number \in Nat
    BY <1>1, <1>4 DEF SignalTypeOK
  <2> QED BY <2>1, <2>2, AppendIncreasing DEF ReadInOrder
<1>9. SignalTypeOK' /\ SecretsOwn'
  BY <1>1, <1>8 DEF SignalTypeOK, SecretsOwn
<1>10. ReadInOrder' /\ ReadsShareSecret'
  BY <1>1, <1>6, <1>8 DEF ReadInOrder, ReadsShareSecret
<1>11. ReadsOld'
  <2>1. \A k \in DOMAIN read[e] : read[e][k] \in Nat /\ read[e][k] <= sent[o]
    BY DEF ReadsOld, SignalTypeOK
  <2>2. m.number <= sent[o]
    BY DEF MessagesMade
  <2>3. \A n \in transit'[e] : n.key # Garbled /\ sequence[e] + 1 <= n.key[2] => m.number < n.number
    BY <1>2, <1>3, <1>4, <1>5 DEF MessagesOrdered
  <2>4. \A k \in DOMAIN read[e] : \A n \in transit'[e] :
          n.key # Garbled /\ sequence[e] + 1 <= n.key[2] => read[e][k] < n.number
    BY <1>2, <1>3, <1>4 DEF ReadsOld
  <2>5. \A k \in DOMAIN read'[e] :
          /\ read'[e][k] <= sent[o]
          /\ \A n \in transit'[e] : n.key # Garbled /\ sequence'[e] <= n.key[2] => read'[e][k] < n.number
    BY <1>3, <1>8, <2>1, <2>2, <2>3, <2>4
  <2>6. \A k \in DOMAIN read'[o] :
          /\ read'[o][k] <= sent[e]
          /\ \A n \in transit'[o] : n.key # Garbled /\ sequence'[o] <= n.key[2] => read'[o][k] < n.number
    BY <1>1, <1>2, <1>3, <1>8 DEF ReadsOld
  <2> QED BY <1>1, <2>5, <2>6 DEF ReadsOld
<1>12. GapFilled'
  <2> SUFFICES ASSUME orderly', NoneOwn'
               PROVE  /\ transit'[Alice] = {} \/ transit'[Bob] = {}
                      /\ \A d \in Ends :
                           /\ \A n \in transit'[d] : n.key # Garbled /\ sequence'[d] <= n.key[2]
                           /\ \A q \in sequence'[d]..sequence'[Other(d)] - 1 :
                                \E n \in transit'[d] : n.key[2] = q
    BY DEF GapFilled
  <2>1. orderly /\ NoneOwn /\ transit'[e] = transit[e] \ {m} /\ transit'[o] = transit[o]
    BY <1>1 DEF NoneOwn, SignalTypeOK
  <2>2. transit[o] = {}
    BY <2>1, <1>1, OtherEnd DEF GapFilled, Ends
  <2>3. transit'[Alice] = {} \/ transit'[Bob] = {}
    BY <2>1, <2>2, <1>1, OtherEnd
  <2>4. \A n \in transit[e] : n.key # Garbled /\ sequence[e] <= n.key[2]
    BY <2>1 DEF GapFilled
  <2>5. \A n \in transit'[e] : n.key[2] # sequence[e]
    BY <2>1, <2>4, <1>4, <1>5 DEF MessagesOrdered
  <2>6. \A n \in transit'[e] : n.key # Garbled /\ sequence'[e] <= n.key[2]
    BY <2>1, <2>4, <2>5, <1>3, <1>4
  <2>7. \A q \in sequence'[e]..sequence'[o] - 1 : \E n \in transit'[e] : n.key[2] = q
    <3> SUFFICES ASSUME NEW q \in sequence[e] + 1..sequence[o] - 1 PROVE \E n \in transit'[e] : n.key[2] = q
      BY <1>3
    <3>1. q \in sequence[e]..sequence[o] - 1 /\ q # sequence[e]
      BY <1>3
    <3>2. PICK n \in transit[e] : n.key[2] = q
      BY <2>1, <3>1 DEF GapFilled
    <3> QED BY <3>1, <3>2, <1>5, <2>1
  <2>8. m.key[2] < sequence[o]
    BY <1>5 DEF MessagesMade
  <2>9. \A q \in sequence'[o]..sequence'[e] - 1 : FALSE
    BY <1>3, <1>5, <2>8
  <2> QED BY <1>1, <2>1, <2>2, <2>3, <2>6, <2>7, <2>9
<1> QED BY <1>7, <1>9, <1>10, <1>11, <1>12

\* A message that is not read: on an orderly channel that does not happen.
LEMMA DecryptFailsInv ==
  ASSUME SignalInv, NEW e \in Ends, NEW m \in transit[e], DecryptFails(e, m)
  PROVE  SignalInv'
<1> USE DEF SignalInv, DecryptFails, Arrives, Advance
<1>1. \A d \in Ends : transit'[d] \subseteq transit[d]
  BY DEF SignalTypeOK
<1>2. /\ \A d \in Ends : sequence'[d] \in Nat /\ sequence[d] <= sequence'[d]
      /\ sequence' \in [Ends -> Nat]
  <2>1. CASE UNCHANGED sequence
    BY <2>1 DEF SignalTypeOK
  <2>2. CASE Advance(e)
    BY <2>2 DEF SignalTypeOK
  <2> QED BY <2>1, <2>2
<1>3. MessagesMade' /\ MessagesOrdered' /\ ReadsOld'
  BY <1>1, <1>2, FewerMessages
<1>4. SignalTypeOK' /\ SecretsOwn'
  BY <1>1, <1>2 DEF SignalTypeOK, SecretsOwn
<1>5. ReadInOrder' /\ ReadsShareSecret'
  BY SameReads
<1>6. orderly' /\ NoneOwn' => FALSE
  BY OldestReadable DEF NoneOwn
<1> QED BY <1>3, <1>4, <1>5, <1>6 DEF GapFilled

\* What the channel does to the messages.
LEMMA LoseInv ==
  ASSUME SignalInv, NEW e \in Ends, NEW m \in transit[e], Lose(e, m)
  PROVE  SignalInv'
<1> USE DEF SignalInv, Lose
<1>1. \A d \in Ends : transit'[d] \subseteq transit[d]
  BY DEF SignalTypeOK
<1>2. \A d \in Ends : sequence'[d] \in Nat /\ sequence[d] <= sequence'[d]
  BY DEF SignalTypeOK
<1>3. MessagesMade' /\ MessagesOrdered' /\ ReadsOld'
  BY <1>1, <1>2, FewerMessages
<1>4. SignalTypeOK' /\ SecretsOwn'
  BY <1>1, <1>2 DEF SignalTypeOK, SecretsOwn
<1> QED BY <1>3, <1>4, SameReads DEF GapFilled

LEMMA GarbleInv ==
  ASSUME SignalInv, NEW e \in Ends, NEW m \in transit[e], Garble(e, m)
  PROVE  SignalInv'
<1> USE DEF SignalInv, Garble
<1> DEFINE garbled == [m EXCEPT !.key = Garbled]
<1>1. m \in Messages /\ garbled \in Messages /\ garbled.key = Garbled /\ garbled.number = m.number
  <2>1. m \in Messages /\ Garbled \in Keys
    BY DEF SignalTypeOK, Keys
  <2> QED BY <2>1 DEF Messages
<1> HIDE DEF garbled
<1>2. \A d \in Ends : transit'[d] = IF d = e THEN (transit[e] \ {m}) \cup {garbled} ELSE transit[d]
  BY DEF SignalTypeOK, garbled
<1>3. SignalTypeOK' /\ SecretsOwn'
  BY <1>1, <1>2 DEF SignalTypeOK, SecretsOwn, garbled
<1>4. MessagesMade' /\ ReadsOld'
  BY <1>1, <1>2 DEF MessagesMade, ReadsOld
<1>5. MessagesOrdered'
  BY <1>1, <1>2 DEF MessagesOrdered
<1> QED BY <1>3, <1>4, <1>5, SameReads DEF GapFilled

LEMMA SignalStepInv == SignalInv /\ [SignalNext]_signalVars => SignalInv'
<1> SUFFICES ASSUME SignalInv, [SignalNext]_signalVars PROVE SignalInv'
  OBVIOUS
<1>1. CASE UNCHANGED signalVars
  BY <1>1 DEF signalVars, SignalInv, SignalTypeOK, SecretsOwn, MessagesMade, MessagesOrdered, ReadsOld,
              GapFilled, NoneOwn, ReadInOrder, ReadsShareSecret
<1>2. CASE SignalNext
  BY <1>2, GetOrCreateSessionInv, EncryptInv, DecryptReadsInv, DecryptFailsInv, LoseInv, GarbleInv DEF SignalNext
<1> QED BY <1>1, <1>2

\* The invariant of the two ends, their chain and the messages under way.
THEOREM SignalInvariant == SignalSpec => []SignalInv
BY SignalInitInv, SignalStepInv, PTL DEF SignalSpec

----------------------------------------------------------------------------

\* Whatever the channel loses, garbles, repeats or reorders, decrypt reads the other end's
\* messages in the order of their encryption, none twice, and only if both ends were given
\* the secret when getOrCreateSession made their sessions.
THEOREM SignalReadsTrue == SignalSpec => []ReadsTrue
BY SignalInvariant, PTL DEF SignalInv, ReadsTrue

\* On a channel that keeps the order, and never has messages under way in both directions,
\* the two ends stay on the same place of the chain: the next message can be read.
THEOREM SignalEndsInStep == SignalSpec => []InStep
<1>1. SignalInv => InStep
  <2> SUFFICES ASSUME SignalInv, orderly, secret[Alice] = Shared, secret[Bob] = Shared,
                      NEW e \in Ends, NEW m \in transit[e], Oldest(e, m)
               PROVE  m.key = MessageKey(e)
    BY DEF InStep
  <2>1. NoneOwn /\ secret[e] # NoSession
    BY EndsAssumption DEF NoneOwn, Ends
  <2> QED BY <2>1, OldestReadable DEF Oldest
<1> QED BY <1>1, SignalInvariant, PTL

----------------------------------------------------------------------------
\* PreKeyManager

\* A published bundle names keys that were there: signed ones below the next id.
PublishedKeys ==
  \A b \in published :
    /\ b.signedId \in SignedIds /\ b.signedId < currentSignedPreKeyId
    /\ b.preKeyId \in Ids /\ b.preKey # NoKey

PreKeyTypeOK ==
  /\ preKeys \in [Ids -> Nat \cup {NoKey}]
  /\ signedPreKeys \in [SignedIds -> Nat \cup {NoKey}]
  /\ currentSignedPreKeyId \in Nat /\ generated \in Nat
  /\ \A s \in SignedIds : signedPreKeys[s] # NoKey => s < currentSignedPreKeyId

PreKeyInv == PreKeyTypeOK /\ PublishedKeys /\ BundlesAnswered

\* Every step of the manager and of the application keeps what was published.
LEMMA PreKeyStepInv == PreKeyInv /\ [PreKeyNext]_preKeyVars => PreKeyInv'
<1> SUFFICES ASSUME PreKeyInv, [PreKeyNext]_preKeyVars PROVE PreKeyInv'
  OBVIOUS
<1> USE DEF PreKeyInv, PreKeyTypeOK, PublishedKeys, BundlesAnswered
<1>1. CASE UNCHANGED preKeyVars
  BY <1>1 DEF preKeyVars
<1>2. ASSUME NEW count \in Ids, GenerateInitialPreKeys(count) PROVE PreKeyInv'
  BY <1>2, PreKeyAssumption DEF GenerateInitialPreKeys, Ids
<1>3. CASE GenerateSignedPreKey
  <2> USE <1>3, PreKeyAssumption DEF GenerateSignedPreKey
  <2>1. generated + 1 \in Nat \ {NoKey} /\ currentSignedPreKeyId' \in Nat /\ generated' \in Nat
    OBVIOUS
  <2>2. signedPreKeys' \in [SignedIds -> Nat \cup {NoKey}]
    BY <2>1
  <2>3. \A s \in SignedIds : s # currentSignedPreKeyId => signedPreKeys'[s] = signedPreKeys[s]
    OBVIOUS
  <2>4. \A s \in SignedIds : signedPreKeys'[s] # NoKey => s < currentSignedPreKeyId'
    BY <2>3 DEF SignedIds
  <2>5. \A b \in published : b.signedId # currentSignedPreKeyId /\ b.signedId < currentSignedPreKeyId'
    BY DEF SignedIds
  <2> QED BY <2>1, <2>2, <2>3, <2>4, <2>5
<1>4. ASSUME NEW i \in Ids, NEW s \in SignedIds, Publish(i, s) PROVE PreKeyInv'
  BY <1>4 DEF Publish
<1> QED BY <1>1, <1>2, <1>3, <1>4 DEF PreKeyNext

\* However often pre-keys are rotated and renewed, a bundle finds its signed pre-key under
\* its id, and its pre-key unless generateInitialPreKeys was called again.
THEOREM BundlesStayAnswered == PreKeySpec => []BundlesAnswered
<1>1. PreKeyInit => PreKeyInv
  BY DEF PreKeyInit, PreKeyInv, PreKeyTypeOK, PublishedKeys, BundlesAnswered
<1> QED BY <1>1, PreKeyStepInv, PTL DEF PreKeySpec, PreKeyInv

----------------------------------------------------------------------------
\* The handshake and the frames of NoiseSession.

\* What decryptFrame has read lies behind its counter.
ReadBehindCounter ==
  \A d \in Directions : \A k \in DOMAIN accepted[d] : accepted[d][k] < decCounter[d]

\* As long as the frames arrive in their places decCounter counts them.
CounterInPlace == \A d \in Directions : inPlace[d] => decCounter[d] = delivered[d]

NoiseInv == NoiseTypeOK /\ KeysAgree /\ ReadBehindCounter /\ FramesInOrder /\ CounterInPlace

\* The key of a hello is a sequence, so it is not the constant for no key.
LEMMA HelloKeyIsKey ==
  ASSUME NEW s \in Servers, NEW n \in Nat
  PROVE  HelloKey(s, n) \in Seq(Servers) /\ HelloKey(s, n) # Nothing
BY NoiseAssumption DEF HelloKey

\* No frame has been read and no key made.
LEMMA NoiseInitInv == NoiseInit => NoiseInv
BY DEF NoiseInit, NoiseInv, NoiseTypeOK, KeysAgree, ReadBehindCounter, FramesInOrder, CounterInPlace

\* A step of the handshake leaves the frames alone, and the keys agree after it.
LEMMA HandshakeKeepsInv ==
  ASSUME NoiseInv,
         \/ \E s \in Servers : CraftServerHello(s)
         \/ \E s \in Servers, n \in Nat, intact \in BOOLEAN : ProcessServerHello(s, n, intact)
         \/ FinalizeHandshake
  PROVE  NoiseInv'
<1>1. ASSUME NEW s \in Servers, CraftServerHello(s) PROVE NoiseInv'
  BY <1>1 DEF NoiseInv, CraftServerHello, frameVars, NoiseTypeOK, KeysAgree, ReadBehindCounter,
              FramesInOrder, CounterInPlace
<1>2. ASSUME NEW s \in Servers, NEW n \in Nat, NEW intact \in BOOLEAN, ProcessServerHello(s, n, intact)
      PROVE  NoiseInv'
  <2>1. chainingKey' \in Seq(Servers)
    BY <1>2 DEF ProcessServerHello, NoiseInv, NoiseTypeOK
  <2>2. helloKey' \in Seq(Servers) \cup {Nothing} /\ (helloKey' # Nothing => chainingKey' = helloKey')
    BY <1>2, HelloKeyIsKey DEF ProcessServerHello
  <2>3. NoiseTypeOK' /\ KeysAgree'
    BY <1>2, <2>1, <2>2 DEF ProcessServerHello, frameVars, NoiseInv, NoiseTypeOK, KeysAgree
  <2> QED
    BY <1>2, <2>3 DEF ProcessServerHello, frameVars, NoiseInv, ReadBehindCounter,
                      FramesInOrder, CounterInPlace
<1>3. ASSUME FinalizeHandshake PROVE NoiseInv'
  BY <1>3 DEF NoiseInv, FinalizeHandshake, frameVars, NoiseTypeOK, KeysAgree, ReadBehindCounter,
              FramesInOrder, CounterInPlace
<1> QED BY <1>1, <1>2, <1>3

\* encryptFrame only counts.
LEMMA EncryptKeepsInv == ASSUME NoiseInv, NEW d \in Directions, EncryptFrame(d) PROVE NoiseInv'
BY DEF NoiseInv, EncryptFrame, handshakeVars, NoiseTypeOK, KeysAgree, ReadBehindCounter, FramesInOrder,
       CounterInPlace

\* decryptFrame moves the counter past the number it reads.
LEMMA DecryptKeepsInv ==
  ASSUME NoiseInv, NEW d \in Directions, NEW n \in Nat, NEW condition \in Conditions,
         DecryptFrame(d, n, condition)
  PROVE  NoiseInv'
<1>1. Counts(d, n, condition) \in {0, 1} /\ (condition # "short" => Counts(d, n, condition) = 1)
  BY DEF Counts
<1>2. NoiseTypeOK' /\ KeysAgree'
  BY <1>1 DEF NoiseInv, DecryptFrame, NoiseTypeOK, KeysAgree, handshakeVars
<1>3. ASSUME NEW e \in Directions
      PROVE  /\ \A k \in DOMAIN accepted'[e] : accepted'[e][k] < decCounter'[e]
             /\ \A i, j \in DOMAIN accepted'[e] : i < j => accepted'[e][i] < accepted'[e][j]
             /\ inPlace'[e] => decCounter'[e] = delivered'[e]
  <2>1. /\ decCounter[e] \in Nat /\ delivered[e] \in Nat /\ accepted[e] \in Seq(Nat)
        /\ \A k \in DOMAIN accepted[e] : accepted[e][k] \in Nat /\ accepted[e][k] < decCounter[e]
        /\ \A i, j \in DOMAIN accepted[e] : i < j => accepted[e][i] < accepted[e][j]
        /\ inPlace[e] => decCounter[e] = delivered[e]
    BY DEF NoiseInv, NoiseTypeOK, ReadBehindCounter, FramesInOrder, CounterInPlace
  <2>2. CASE e = d /\ Verifies(d, n, condition)
    <3>1. n = decCounter[e] /\ condition = "intact" BY <2>2 DEF Verifies
    <3>2. accepted'[e] = Append(accepted[e], n) /\ decCounter'[e] = decCounter[e] + 1
      BY <2>2, <3>1, <1>1 DEF NoiseInv, DecryptFrame, NoiseTypeOK
    <3>3. \A k \in DOMAIN accepted[e] : accepted[e][k] < n
      BY <2>1, <3>1
    <3>4. /\ \A k \in DOMAIN accepted'[e] : accepted'[e][k] < n + 1
          /\ \A i, j \in DOMAIN accepted'[e] : i < j => accepted'[e][i] < accepted'[e][j]
      BY <2>1, <3>2, <3>3, AppendIncreasing
    <3>5. inPlace'[e] => inPlace[e] /\ delivered'[e] = delivered[e] + 1
      BY <2>2 DEF NoiseInv, DecryptFrame, NoiseTypeOK
    <3> QED BY <2>1, <3>1, <3>2, <3>4, <3>5
  <2>3. CASE ~(e = d /\ Verifies(d, n, condition))
    <3>1. accepted'[e] = accepted[e]
      BY <2>3 DEF NoiseInv, DecryptFrame, NoiseTypeOK
    <3>2. /\ decCounter'[e] = decCounter[e] + (IF e = d THEN Counts(d, n, condition) ELSE 0)
          /\ delivered'[e] = delivered[e] + (IF e = d THEN 1 ELSE 0)
          /\ inPlace'[e] => inPlace[e] /\ (e = d => condition # "short")
      <4> DEFINE add == Counts(d, n, condition)
      <4>1. add \in {0, 1} BY <1>1
      <4> HIDE DEF add
      <4>2. decCounter' = [decCounter EXCEPT ![d] = @ + add] /\ decCounter \in [Directions -> Nat]
        BY DEF NoiseInv, DecryptFrame, NoiseTypeOK, add
      <4>3. decCounter'[e] = decCounter[e] + (IF e = d THEN add ELSE 0)
        BY <4>1, <4>2
      <4>4. delivered'[e] = delivered[e] + (IF e = d THEN 1 ELSE 0)
        <5>1. delivered' = [delivered EXCEPT ![d] = @ + 1] /\ delivered \in [Directions -> Nat]
          BY DEF NoiseInv, DecryptFrame, NoiseTypeOK
        <5> QED BY <5>1
      <4>5. inPlace'[e] => inPlace[e] /\ (e = d => condition # "short")
        BY DEF NoiseInv, DecryptFrame, NoiseTypeOK
      <4> QED BY <4>3, <4>4, <4>5 DEF add
    <3>3. \A k \in DOMAIN accepted[e] : accepted[e][k] < decCounter'[e]
      <4>1. decCounter'[e] \in Nat /\ decCounter[e] <= decCounter'[e]
        BY <1>1, <2>1, <3>2
      <4> QED BY <2>1, <4>1
    <3> QED BY <1>1, <2>1, <3>1, <3>2, <3>3
  <2> QED BY <2>2, <2>3
<1> QED BY <1>2, <1>3 DEF NoiseInv, ReadBehindCounter, FramesInOrder, CounterInPlace

\* Every step keeps the invariant.
LEMMA NoiseStepInv == NoiseInv /\ [NoiseNext]_noiseVars => NoiseInv'
<1> SUFFICES ASSUME NoiseInv, [NoiseNext]_noiseVars PROVE NoiseInv'
  OBVIOUS
<1>1. CASE UNCHANGED noiseVars
  BY <1>1 DEF NoiseInv, noiseVars, handshakeVars, frameVars, NoiseTypeOK, KeysAgree, ReadBehindCounter,
              FramesInOrder, CounterInPlace
<1>2. CASE NoiseNext
  <2>1. \A s \in Servers : 1..crafted[s] \subseteq Nat
    BY DEF NoiseInv, NoiseTypeOK
  <2>2. \A d \in Directions : 0..encCounter[d] - 1 \subseteq Nat
    BY DEF NoiseInv, NoiseTypeOK
  <2> QED BY <1>2, <2>1, <2>2, HandshakeKeepsInv, EncryptKeepsInv, DecryptKeepsInv DEF NoiseNext
<1> QED BY <1>1, <1>2

\* The variables keep their types, and what the theorems below rest on holds.
THEOREM NoiseInvariant == NoiseSpec => []NoiseInv
BY NoiseInitInv, NoiseStepInv, PTL DEF NoiseSpec

\* A client that read the last hello has the chaining key of its server, and derived its
\* cipher keys from it (processServerHello, finalizeHandshake).
THEOREM HandshakeKeysAgree == NoiseSpec => []KeysAgree
BY NoiseInvariant, PTL DEF NoiseInv

\* Whatever the channel does, decryptFrame reads the frames in the order in which they
\* were encrypted and none of them twice.
THEOREM FramesReadInOrder == NoiseSpec => []FramesInOrder
BY NoiseInvariant, PTL DEF NoiseInv

\* While the frames arrive in their places the next one can be read if it is intact,
\* whatever was damaged before it: decCounter is advanced by a damaged one too.
THEOREM FramesStayInStep == NoiseSpec => FramesInStep
<1> DEFINE InStepStep ==
      \A d \in Directions : \A n \in 0..encCounter[d] - 1 :
        DecryptFrame(d, n, "intact") /\ inPlace'[d] => accepted'[d] = Append(accepted[d], n)
<1>1. NoiseInv => [InStepStep]_noiseVars
  <2> SUFFICES ASSUME NoiseInv, NEW d \in Directions, NEW n \in 0..encCounter[d] - 1,
                      DecryptFrame(d, n, "intact"), inPlace'[d]
               PROVE  accepted'[d] = Append(accepted[d], n)
    OBVIOUS
  <2>1. inPlace[d] /\ n = delivered[d]
    BY DEF DecryptFrame, NoiseInv, NoiseTypeOK
  <2>2. Verifies(d, n, "intact")
    BY <2>1 DEF Verifies, NoiseInv, CounterInPlace
  <2> QED BY <2>2 DEF DecryptFrame, NoiseInv, NoiseTypeOK
<1> QED BY <1>1, NoiseInvariant, PTL DEF FramesInStep
=============================================================================
