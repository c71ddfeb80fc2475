----------------------------- MODULE NoiseSession -----------------------------
(***************************************************************************)
(* The Noise handshake of a client and the frames that follow it:           *)
(* NoiseHandshake and FrameCipher of wazeko-core/src/noise.ts.              *)
(*                                                                         *)
(* The keys of a handshake come from its chainingKey, into which every      *)
(* hello mixes the server's ephemeral key: here it is the sequence of those *)
(* keys.  The transcript hash, which nothing reads, and with it             *)
(* initiateHandshake, is left out.  A server is a NoiseHandshake that only  *)
(* crafts hellos; its frame cipher has the client's two keys swapped, so    *)
(* the frames of each direction have a key and two counters of their own.   *)
(*                                                                         *)
(* A frame carries no number: decryptFrame takes the counter of the frame   *)
(* it expects, and advances it before it knows that the frame is right.     *)
(* The channel is external: any hello and any frame made so far may arrive, *)
(* now or never, again, early, or damaged.  A definition marked "slip" is a *)
(* mistake that no specification uses: see MessageQueue.                    *)
(***************************************************************************)
EXTENDS Naturals, Sequences

CONSTANTS
  Servers,     \* the servers, each with an ephemeral key of its own
  MaxHellos,   \* bound: hellos a server crafts, and hellos the client processes
  Directions,  \* client to server and server to client
  MaxFrames,   \* bound: frames encrypted, and frames delivered, in a direction
  Nothing      \* no hello read, no keys

ASSUME NoiseAssumption == MaxHellos \in Nat /\ MaxFrames \in Nat /\ Nothing \notin Seq(Servers)

\* short: a frame of fewer than 19 bytes.
Conditions == {"intact", "damaged", "short"}

VARIABLES
  crafted,      \* how many hellos each server has crafted
  chainingKey,  \* of the client
  helloKey,     \* history: the key of the last hello, if the client could read it
  cipherKeys,   \* the chaining key from which cipherState was derived
  encCounter,   \* of the end that encrypts in a direction
  decCounter,   \* of the end that decrypts
  delivered,    \* history: calls of decryptFrame in a direction
  accepted,     \* history: the numbers of the frames they returned
  inPlace       \* history: the frames arrived once each, in order and long enough

handshakeVars == <<crafted, chainingKey, helloKey, cipherKeys>>
frameVars == <<encCounter, decCounter, delivered, accepted, inPlace>>
noiseVars == <<handshakeVars, frameVars>>

NoiseTypeOK ==
  /\ crafted \in [Servers -> Nat]
  /\ chainingKey \in Seq(Servers)
  /\ helloKey \in Seq(Servers) \cup {Nothing}
  /\ cipherKeys \in Seq(Servers) \cup {Nothing}
  /\ encCounter \in [Directions -> Nat]
  /\ decCounter \in [Directions -> Nat]
  /\ delivered \in [Directions -> Nat]
  /\ accepted \in [Directions -> Seq(Nat)]
  /\ inPlace \in [Directions -> BOOLEAN]

NoiseInit ==
  /\ crafted = [s \in Servers |-> 0]
  /\ chainingKey = <<>>
  /\ cipherKeys = Nothing /\ helloKey = Nothing
  /\ encCounter = [d \in Directions |-> 0] /\ decCounter = [d \in Directions |-> 0]
  /\ delivered = [d \in Directions |-> 0]
  /\ accepted = [d \in Directions |-> <<>>]
  /\ inPlace = [d \in Directions |-> TRUE]

----------------------------------------------------------------------------
\* NoiseHandshake

\* craftServerHello.  The key of a server's n-th hello has its ephemeral n times.
CraftServerHello(s) ==
  /\ cipherKeys = Nothing /\ crafted[s] < MaxHellos
  /\ crafted' = [crafted EXCEPT ![s] = @ + 1]
  /\ UNCHANGED <<chainingKey, helloKey, cipherKeys, frameVars>>

HelloKey(s, n) == [k \in 1..n |-> s]

\* slip: the new chaining key decrypts the payload and is forgotten.
ProcessServerHelloForgets(s, n, intact) ==
  /\ cipherKeys = Nothing /\ Len(chainingKey) < MaxHellos
  /\ helloKey' = IF intact /\ Append(chainingKey, s) = HelloKey(s, n) THEN HelloKey(s, n) ELSE Nothing
  /\ UNCHANGED <<crafted, chainingKey, cipherKeys, frameVars>>

\* processServerHello of the n-th hello of server s.  When the payload is short or
\* cannot be decrypted it throws, with the chaining key already changed.  (An ephemeral
\* key of the wrong length is refused before that.)
ProcessServerHello(s, n, intact) ==
  /\ cipherKeys = Nothing /\ Len(chainingKey) < MaxHellos
  /\ chainingKey' = Append(chainingKey, s)
  /\ helloKey' = IF intact /\ chainingKey' = HelloKey(s, n) THEN HelloKey(s, n) ELSE Nothing
  /\ UNCHANGED <<crafted, cipherKeys, frameVars>>

\* finalizeHandshake, which does not ask for a hello.  The application calls it once.
FinalizeHandshake ==
  /\ cipherKeys = Nothing
  /\ cipherKeys' = chainingKey
  /\ UNCHANGED <<crafted, chainingKey, helloKey, frameVars>>

----------------------------------------------------------------------------
\* FrameCipher

EncryptFrame(d) ==
  /\ cipherKeys # Nothing /\ encCounter[d] < MaxFrames
  /\ encCounter' = [encCounter EXCEPT ![d] = @ + 1]
  /\ UNCHANGED <<handshakeVars, decCounter, delivered, accepted, inPlace>>

\* The frame was encrypted with the counter that decryptFrame takes.
Verifies(d, n, condition) == condition = "intact" /\ n = decCounter[d]

\* slip: only a frame that is right advances the counter.
CountsVerified(d, n, condition) == IF Verifies(d, n, condition) THEN 1 ELSE 0

\* What decryptFrame adds to decCounter: a frame that is too short is refused before.
Counts(d, n, condition) == IF condition = "short" THEN 0 ELSE 1

\* Frame number n arrives and decryptFrame returns its text or throws.
DecryptFrame(d, n, condition) ==
  /\ delivered[d] < MaxFrames
  /\ delivered' = [delivered EXCEPT ![d] = @ + 1]
  /\ inPlace' = [inPlace EXCEPT ![d] = @ /\ n = delivered[d] /\ condition # "short"]
  /\ decCounter' = [decCounter EXCEPT ![d] = @ + Counts(d, n, condition)]
  /\ accepted' = IF Verifies(d, n, condition) THEN [accepted EXCEPT ![d] = Append(@, n)] ELSE accepted
  /\ UNCHANGED <<handshakeVars, encCounter>>

NoiseNext ==
  \/ \E s \in Servers :
       \/ CraftServerHello(s)
       \/ \E n \in 1..crafted[s], intact \in BOOLEAN : ProcessServerHello(s, n, intact)
  \/ FinalizeHandshake
  \/ \E d \in Directions :
       \/ EncryptFrame(d)
       \/ \E n \in 0..encCounter[d] - 1, condition \in Conditions : DecryptFrame(d, n, condition)

NoiseSpec == NoiseInit /\ [][NoiseNext]_noiseVars

----------------------------------------------------------------------------
\* Properties.

\* A client that could read the last hello it was given has the chaining key of the
\* server that crafted it, whatever hellos there were before, and its keys come from it.
KeysAgree ==
  helloKey # Nothing => chainingKey = helloKey /\ cipherKeys \in {Nothing, helloKey}

\* Whatever the channel does, an end reads the frames in the order in which they were
\* encrypted and none of them twice.
FramesInOrder ==
  \A d \in Directions : \A i, j \in DOMAIN accepted[d] : i < j => accepted[d][i] < accepted[d][j]

\* As long as every frame arrives once, in its place and long enough, the two ends are in
\* step: the next frame can be read if it is intact, whatever was damaged before it.
FramesInStep ==
  [][\A d \in Directions : \A n \in 0..encCounter[d] - 1 :
       DecryptFrame(d, n, "intact") /\ inPlace'[d] => accepted'[d] = Append(accepted[d], n)]_noiseVars
=============================================================================
