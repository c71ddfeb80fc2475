---------------------------- MODULE PreKeyManager ----------------------------
(***************************************************************************)
(* PreKeyManager of wazeko-core/src/signal.ts, and the bundles that an      *)
(* application publishes from what it returns.  A bundle is used by         *)
(* somebody else at any later time, who then names its keys by their ids.   *)
(*                                                                         *)
(* A key pair is the number of the call of generateKeyPair that made it.    *)
(* A definition marked "slip" is a mistake that no specification uses: see  *)
(* MessageQueue.                                                            *)
(***************************************************************************)
EXTENDS Naturals

CONSTANTS
  MaxCount,  \* bound: the largest count generateInitialPreKeys is given
  MaxPairs,  \* bound: key pairs that are generated
  NoKey      \* no key pair has this id

ASSUME PreKeyAssumption == MaxCount \in Nat /\ MaxPairs \in Nat /\ NoKey \notin Nat

Ids == 1..MaxCount
SignedIds == 1..MaxPairs

VARIABLES
  preKeys,                \* the pair of each id
  signedPreKeys,
  currentSignedPreKeyId,  \* the id the next signed key gets
  generated,              \* the number of pairs generated so far
  published,              \* history: the bundles, the keys by id and pair
  renewed                 \* history: the ids whose pair was replaced

preKeyVars ==
  <<preKeys, signedPreKeys, currentSignedPreKeyId, generated, published, renewed>>

PreKeyInit ==
  /\ preKeys = [i \in Ids |-> NoKey]
  /\ signedPreKeys = [i \in SignedIds |-> NoKey]
  /\ currentSignedPreKeyId = 1
  /\ generated = 0
  /\ published = {} /\ renewed = {}

\* generateInitialPreKeys(count) numbers its keys from 1, also when it is called again.
GenerateInitialPreKeys(count) ==
  /\ generated + count <= MaxPairs
  /\ preKeys' = [i \in Ids |-> IF i <= count THEN generated + i ELSE preKeys[i]]
  /\ renewed' = renewed \cup {i \in 1..count : preKeys[i] # NoKey}
  /\ generated' = generated + count
  /\ UNCHANGED <<signedPreKeys, currentSignedPreKeyId, published>>

\* slip: a rotation replaces the key under its id.
GenerateSignedPreKeyInPlace ==
  /\ generated < MaxPairs
  /\ signedPreKeys' = [signedPreKeys EXCEPT ![currentSignedPreKeyId] = generated + 1]
  /\ generated' = generated + 1
  /\ UNCHANGED <<preKeys, currentSignedPreKeyId, published, renewed>>

\* generateSignedPreKey, which rotateSignedPreKey calls.
GenerateSignedPreKey ==
  /\ generated < MaxPairs
  /\ signedPreKeys' = [signedPreKeys EXCEPT ![currentSignedPreKeyId] = generated + 1]
  /\ currentSignedPreKeyId' = currentSignedPreKeyId + 1
  /\ generated' = generated + 1
  /\ UNCHANGED <<preKeys, published, renewed>>

\* External: the application publishes a bundle of keys that are there now.
Publish(i, s) ==
  /\ preKeys[i] # NoKey /\ signedPreKeys[s] # NoKey
  /\ published' = published \cup
       {[preKeyId |-> i, preKey |-> preKeys[i], signedId |-> s, signed |-> signedPreKeys[s]]}
  /\ UNCHANGED <<preKeys, signedPreKeys, currentSignedPreKeyId, generated, renewed>>

PreKeyNext ==
  \/ \E count \in Ids : GenerateInitialPreKeys(count)
  \/ GenerateSignedPreKey
  \/ \E i \in Ids, s \in SignedIds : Publish(i, s)

PreKeySpec == PreKeyInit /\ [][PreKeyNext]_preKeyVars

----------------------------------------------------------------------------
\* Properties.

\* Whoever uses a bundle, however late, finds its signed pre-key under its id, however
\* often it was rotated, and its pre-key unless generateInitialPreKeys renewed the id.
BundlesAnswered ==
  \A b \in published :
    /\ signedPreKeys[b.signedId] = b.signed
    /\ preKeys[b.preKeyId] = b.preKey \/ b.preKeyId \in renewed
=============================================================================
