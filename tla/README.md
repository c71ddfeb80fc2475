# A verification of wazeko in TLA+

wazeko is a TypeScript monorepo: a client for a WhatsApp-like multi-device
protocol (`src/packages/wazeko`), its credential stores (`wazeko-auth`), its
cryptography (`wazeko-core`), its binary codec and types (`wazeko-protocol`)
and its sockets (`wazeko-transport`).  This directory holds TLA+ modules
translated from that code, TLC configurations that check them on small
instances, and proofs, checked by TLAPS, that hold for every value of the
constants.  `PROJECT.json` says for each definition which lines it stands for.

To check a run: `tlc -config Client.cfg MCClient`.
To check the proofs: `tlapm MessageQueueProofs.tla`.

## 1. The system

Everything runs on one JavaScript event loop: a turn runs to its end, and other
calls come in between only at an `await`, a timer, a later microtask or after a
method has returned.  Nearly all the hard behaviour of this code is there: state
read before an `await` and used after it, and methods without any lock that an
application is free to call again.  The second source is what outlives a call or the
process: files, sockets whose reference was dropped, and the network, over which two
ends must keep counters and chains equal that no message carries.

| part | state | operations | interacts with | what makes it correct |
|---|---|---|---|---|
| Priority message queue, `wazeko/src/queue/message-queue.ts` | three arrays, `runningWorkers`, `isProcessing`, counters, the jobs' `status`, `retryCount`, promise | `enqueue`, `start`, `pause`, `clear`, `getStats`; inside: `triggerProcessing`, `processJob`, the backoff timer, `.finally` | awaits the limiter, then the client's `sendMessage`; emits events to listeners | no slot lost or overfilled, no job lost or run twice, bounded retries, a truthful promise, order, progress |
| Anti-ban rate limiter, `queue/rate-limiter.ts` | `timestamps` | `acquire`, `reset` | awaited by each worker | quota per window, spacing, every call returns |
| Client, `wazeko/src/client.ts` | `state`, `credentials`, the components it owns | `connect`, `disconnect`, `sendMessage`, `enqueueMessage`, `events`, ... | loads from and saves to the store, pushes events, dispatches to the commands | the state announced fits the credentials; the documented order of states |
| Event queue, `wazeko/src/events.ts` | `queue`, `waiters`, `closed` | `push`, `close`, `next`, the iterator | client to consumers | each event once and in order, no lost wake-up, consumers end |
| Atomic file store, `wazeko-auth/src/atomic-file-store.ts` | three kinds of files | `save`, `load`, `clear` | file system | a save is all or nothing, also across a crash; `load` accepts what a complete save left |
| Plain stores, `wazeko-auth/src/store.ts` and beside it | one file, one object, or a key-value service | `save`, `load`, `clear` | file system, service | as above, without the claim to be atomic |
| Session backup, `session-backup.ts` | `timer`, key, provider | `createBackup`, `restoreBackup`, `startAutoBackup`, `stopAutoBackup` | loads from or saves to a store, uploads and downloads | what is uploaded was in the store, whole, since the backup began |
| QR and pairing codes, `qr.ts`, `pairing.ts` | the last code made | generate, format | client | format |
| WebSocket transport, `wazeko-transport/src/websocket.ts` | the socket, `_isConnected`, a `settled` per connect | `connect`, `send`, `close`, the socket's handlers | the `ws` package; nothing in the repository connects it to the reconnect manager | each `connect` has the outcome of its own socket and is settled; `isConnected()` tells the truth |
| Reconnect manager, `reconnect.ts` | `currentAttempt`, `currentIntervalMs` | `nextDelayMs`, `shouldRetry`, `reset` | the client owns one and reads its attempt counter | bounded, growing delays with jitter; no delay after the last retry |
| Command registry and middleware, `wazeko/src/plugins/` | `commands`, `aliases`, `fileMap`; `middlewares`, `userCooldowns`; `index` in a message's pipeline | `register`, `unregister`, `loadModule`, `getCommand`; `use`, `execute`, `handleMessage` | the application calls `handleMessage` and, when a file changed, `loadModule`, which awaits an import | a reload replaces a file's commands and no others; a message runs at most one command, the one its guards saw |
| Streamed media, `wazeko/src/media/` | temporary files, a timer | `encryptMediaStream`, `decryptMediaFileStream`, the periodic `runCleanup` | file system | a path that is returned never leads to a part of the plaintext; no file is taken for older than it is; every file goes |
| Noise, `wazeko-core/src/noise.ts` | chaining key, two counters | `craftServerHello`, `processServerHello`, `finalizeHandshake`, `encryptFrame`, `decryptFrame` | the other end | keys that fit; frames in order, once; the ends stay in step |
| Signal, `wazeko-core/src/signal.ts` | a chain key and a sequence per session, pre-keys | `getOrCreateSession`, `encrypt`, `decrypt`, `generateInitialPreKeys`, `generateSignedPreKey`, `rotateSignedPreKey` | the other end | messages in order, once, under a shared secret; the ends stay in step; a published bundle is answered |
| Primitive cryptography, media keys | none | pure functions | everywhere | algebra of the primitives |
| Binary codec, `wazeko-protocol/src/encoder.ts`, `decoder.ts` | a buffer position | `encode`, `decode` | groups, messaging | decode inverts encode; a truncated buffer is refused |
| JIDs, `wazeko-types/src/jid.ts` | none | `jidUser`, `jidGroup`, `jidToString`, `parseJid` | groups, messaging | parse inverts format |
| Messaging and groups, `wazeko/src/messaging.ts`, `groups.ts` | none | build a node, hand it to `dispatchNode` | client, codec | the node names the chat that was meant |
| Monitoring server, logger | http server | `start`, `stop` | client, queue | start and stop are idempotent |

`PROJECT.json` lists each under "components" with its status, and the hazards of
each at the line where they bite.

## 2. The modules

| module | models | extends / instances |
|---|---|---|
| `MessageQueue` | the priority queue and its workers | |
| `RateLimiter` | `AntiBanRateLimiter`, with time | |
| `AntiBanQueue` | the two as the client composes them | extends `MessageQueue`, instance of `RateLimiter` |
| `CredentialRegister` | the abstract specification of an `AuthStore` | |
| `AtomicFileAuthStore` | the store, one file operation per step | refines `CredentialRegister` |
| `AsyncEventQueue` | the queue behind `events()` | |
| `Client` | connect, disconnect, sendMessage | extends `AsyncEventQueue` |
| `CommandRegistry` | the commands, their aliases, loads in progress | |
| `MiddlewarePipeline` | a message through guards and middlewares to a command | |
| `MCPlugins` | the two for TLC | extends both |
| `WebSocketTransport` | one transport and all sockets it ever made | |
| `ReconnectManager` | the delays between attempts | |
| `ReconnectingTransport` | the two side by side | extends both |
| `MCClient` | the client, and the transport, for TLC | extends `Client`, `ReconnectingTransport` |
| `NoiseSession` | a handshake and the frames of two directions | |
| `SignalSession` | two ends on one chain, and a channel | |
| `PreKeyManager` | pre-keys, their rotation, published bundles | |
| `AuthStore` | the constants that stores have in common | |
| `FileAuthStore` | the plain store, one file operation per step | extends `AuthStore` |
| `SessionBackup` | backups and restores of a store in use | extends `FileAuthStore` |
| `TempMedia` | encryptions, decryptions and sweeps on one directory | |
| `Jid`, `BinaryCodec` | pure functions as operators | |
| `Groups` | the nodes the methods of groups and messaging build | extends `Jid`, `BinaryCodec` |
| `Wire` | build, encode, cut or extend, decode | extends `Groups` |
| `MCWire` | the requests, words and tokens for TLC | extends `Wire` |
| `MCData` | what is on disk, the keys and ciphers, and the wire, for TLC | extends the stores, `SessionBackup`, `TempMedia`, `PreKeyManager`, `SignalSession`, `NoiseSession`, `MCWire` |
| `MessageQueueProofs`, `PluginsProofs`, `SessionProofs`, `ClientProofs`, `WireProofs` | theorems | each extends its components |
| `AntiBanProofs` | theorems | extends `MessageQueueProofs`, `AntiBanQueue` |
| `FilesProofs` | theorems | extends the stores, `SessionBackup`, `TempMedia` |
| `NetworkProofs` | theorems | extends `ReconnectingTransport` |

`MCPlugins`, `MCClient` and `MCData` each check several components in one run.  The
components share no state, so a variable `part`, which does not change, says which of them
runs: the state space is the sum of theirs, and every property, being about one component,
is checked on all behaviours of it.  `ReconnectingTransport` interleaves its two instead.
Only `MCPlugins` uses symmetry: no definition tells two names, two files or two loads
apart, and its run checks safety only, so it is sound.

**How state and actions correspond.**  A variable keeps the name of the field it
models; a variable called a *history* variable in its comment is not in the code and
no guard reads it, except that clear and reset act on it.  An action is the
code between two points where control is given up.  In `MessageQueue`,
`triggerProcessing` is therefore part of `Enqueue`, `Start` and `Finally`, in closed
form (`Taken`, `Picked`) rather than as a loop: which jobs it shifts depends only on the
lengths of the three queues and the free slots.  `processJob` is cut at its
three awaits (`acquiring`, `sending`, `backoff`), and `.finally` is an action of its
own because it runs in a later microtask than the end of `processJob`.  That it may
run arbitrarily late is an over-approximation: microtasks run before timers.
In `AtomicFileAuthStore` each step is one `fs/promises` call.  In `AsyncEventQueue`,
`Push(n)` stands for the n pushes of one turn.  In `CommandRegistry` a `loadModule` is cut at
its one await, the import.  In `MiddlewarePipeline` the arrival of a message and the three
built-in middlewares are one step, since each calls `next` in the turn it is called in; the
middlewares of the application may call `next` at any later time.  In `FileAuthStore` a
`writeFile` is two steps, the open that truncates and the write: it is what the name
"atomic" of the other store is opposed to.  In `TempMedia` an action is one call on the file
system; the chunks of a stream are steps of their own.  `Create` and `Stream` are what both kinds of
calls do to their files.  In `WebSocketTransport` a socket is
the number of the `connect` that made it and every handler an action: the handlers of old
sockets stay, as in the code.  In `NoiseSession` and `SignalSession` an action is one call of
a method at one end, and the channel is a set of whatever was sent.  `Wire` has a behaviour
for each request: the pure functions are operators, and TLC evaluates them.  Where the code of the
codec calls itself, or loops, a recursive function goes by the depth of a node (`WriteNode`,
`Decode`) or by the count (`ReadMany`, `Split`); what `encode` does not refuse is a set of nodes for
each depth (`EncodableNodes`).

**Slips.**  A definition whose comment begins with "slip" is a plausible mistake (a `<` for
`<=`, a missing trigger, a swapped order) in the definition after it.  No
specification uses it.  Put in the place of that definition it makes a property
fail, which is how each property is known to be able to fail.  "mutants" in
`PROJECT.json` lists the pairs.

### Modelling decisions

* Timers may fire late and never early; `Date.now()` does not go backwards.
* A file operation is atomic and durable when it completes.  `rename` is atomic on
  POSIX; the code never calls `fsync`, so a power failure can do worse than the model.
* Listeners that throw are modelled for `job:enqueued` and `job:completed`
  (`FaultyEvents`).  A throw from `job:processing`, `job:retry` or `job:failed` rejects
  `processJob`, whose `.finally` result nobody catches: an unhandled rejection ends a
  Node process, so there is no later state to model.  A listener that calls the queue
  back synchronously is left out.  Listeners of the client's, the transport's and the registry's
  events that throw are left out, too.
* `processingCount` changes on the lines beside `runningWorkers` and by the same
  amount: the model reads one variable for both.
* `timeoutMs` is stored on a job and read by nothing, so the model has no timeout.
* `sendMessage` is an external call that succeeds or fails.  In the shipped client it
  only fails if the application's override does; the queue does not know that.
* `fileMap` is a set of names per file: the array may hold a name twice, but `unregister`
  removes every occurrence.  A command has at most one alias and a module exports at most
  two commands.  Every import makes its own objects, as the `?update=` time in its specifier intends.
* The admin guard and the owner guard refuse the same messages, because `handleMessage`
  always sets `isAdmin` to false: one flag, `restricted`.  All commands with a cooldown have
  the same one.  A refused message gets a reply, which is not state.  The cooldown is charged
  when the guard passes, so it spaces admissions and not runs; the property says so.
* Fields nothing reads (`id`, `to`, `content`) and logging are left out.
* Sockets: which events `ws` emits, and when, is external.  An `error` event without a
  listener ends the process, as `EventEmitter` does.  `send` and the message handler change
  nothing in the transport.  A `connect` whose `new WebSocket` throws (a URL that is none) is left
  out: it rejects in the same turn, makes no socket and assigns nothing.
* Reconnect: the multiplier is a whole number; the default, 1.5, gives fractions.
* Plain store: opening, writing, reading and unlinking are atomic.  A write over what another
  call wrote leaves either text or a torn one.  The memory and key-value stores change one
  value in one step.  A handle goes on writing to a file that was unlinked.
* Backup: a version stands for its own encrypted snapshot.  A restore that cannot decrypt
  throws before it touches the store.  `startAutoBackup` does not wait for the backup before,
  so a backup may begin at any time.
* Media: a sweep takes at most `MaxLag` (timers and the file system may be slow, but not for
  ever), and the count it returns is left out.  A file is as old as its last write.  A decryption
  writes to a temporary file of its own, in the directory that is swept, which is the default of
  `outputFilePath`, or to a path outside it (`outside`), which no other call uses.  What the sweeps
  unlink is not made again, since only `appendFile` opens a file twice; the stream of a decryption
  goes on without it, and the path is returned.
* Noise: keys are symbolic.  A hello that cannot be read has already changed the chaining key,
  and a handshake does not recover; a frame of fewer than 19 bytes throws before `decCounter`
  is advanced, any other wrong one after.  `finalizeHandshake` is called once.  The transcript
  hash is read by nobody and left out.
* Signal: a message key is the pair of a secret and a place on the chain.  A message under
  another key makes `decrypt` throw, or, since AES-CBC has no tag, return garbage and advance.
  How the ends come by the secret is external: the repository has no key agreement here.
* Codec: `Base` is 40 instead of 256 so that lengths of one, two and four bytes are all
  reached; a text has one byte per word, dates and random ids are words.  Texts are therefore those
  that UTF-8 gives back as they were: a lone surrogate, which `TextEncoder` replaces by U+FFFD, and a
  byte order mark at the beginning, which `TextDecoder` drops, are outside the model.  Lengths from 2^31,
  where the decoder's signed shift would matter, are out of reach: the array the encoder extends
  has no room for them.  Nodes nest up to `MaxDepth`, which stands for the stack both recurse on.
* `sendMessage` takes every text for a number and drops what is not a digit, where groups
  parse a text with an `@`: the model does the same, and nothing is claimed of it.

## 3. The runs

| run | instance | shows |
|---|---|---|
| `queue_pool` | 3 jobs, 2 workers, up to 1 retry | each job is in one place and none is lost, promises are truthful, `getStats` conserves jobs (up to a due `.finally`), a started queue leaves no slot idle |
| `queue_faulty` | 2 jobs, 2 workers, 2 retries, listeners that throw | slots and retry budget survive throws, even where a job is delivered twice |
| `antiban` | 2 jobs, 1 worker, quota 2 in 4 units, fair | the client's own queue keeps the quota and the spacing, retries included; jobs of one priority are tried in order, also past a retry; every promise of a job that was not cleared is settled unless the queue stays paused |
| `limiter_concurrent` | 2 callers, quota 2 | **violation**: overlapping calls exceed the quota |
| `client` | 2 connects, 1 send, 3 consumers (2 iterators, 1 `next()`) | each event to one consumer and in order, no lost wake-up, consumers end, the state fits the credentials, `connecting` ends unless the load failed |
| | 3 sockets, with and without an `error` listener; 2 intervals, limits 0, 2 and none, 3 delays | each `connect` is settled, and as its own socket turned out, however sockets overlap; the flag is never left over, and missing only after the end of a socket that was there when the current one was made; the delays are the configured ones |
| `client_lifecycle` | 1 connect | **violation**: `disconnect` during the load is overwritten |
| `flag_overlap` | 2 sockets | **violation**: the end of an old socket makes `isConnected()` false, and `send` refuse, under a new one that is open |
| `backoff_jitter` | the intervals, limits and delays of `client` | **violation**: the next delay is determined by the attempt |
| `data` | 2 concurrent calls, 2 versions, 1 backup id; 1 encryption of 2 chunks, 1 decryption to a temporary file or elsewhere, 2 sweeps; crashes and I/O errors | the atomic store implements a register that may refuse, and a save that ran alone and to its end makes it load again; in the plain store that save is what stays; a backup uploads what was in the store since it began; a path that a decryption returned leads to the whole text, or, after the TTL, to nothing; the cleaner takes no file for older than it is, and every one in the end |
| | 2 pre-key ids and 5 pairs; 2 ends, 2 messages each; 2 servers, 2 hellos, 3 frames in 2 directions | a bundle is answered after rotations; messages are read in order, once, under the shared secret, whatever the channel does; an orderly channel keeps the ends in step; handshake keys fit; frames in their places are read whatever was damaged before |
| | every method of groups and messaging, lengths 0, 1, 39, 40, 41 and 1600 at base 40 | a whole buffer gives back the node and the JID that was meant; a cut one gives nothing, or the node without its last content |
| `store_crash` | 1 call, crashes | **violation**: a crash between the two renames makes every later `load` throw |
| `wire_truncated` | the requests of `data` | **violation**: a buffer that ends just before a content is not refused |
| `plugins` | 2 names and 1 more word, 2 files, 2 loads at a time; 2 messages, 2 users, 2 middlewares of the application | a reload that overlaps no other of its file leaves nothing of what the file had; while no name is registered over another, a reload removes no command of another file and every alias leads to a command that declares it (an alias that two commands share may go with either); at most one run per message whatever calls `next`; a restricted command runs for owners only, also across a reload; one admission per cooldown under all names of a command |

**Why the bounds are enough.**  Three jobs and two workers are the least with a full
pool, a job that waits, and a choice of which waits; a second retry adds no new state
of a worker, only a longer history, and `queue_faulty` has it.  The quota and the
window are such that the window can be full, partly aged, and refilled.  Two calls
of the store are the least that overlap, and `Stamps` has one value so that they share
the temporary checksum, the worst case (the proofs are for any number of all three).
For the order of jobs two of one priority are enough, one that retries and one behind it.
Two overlapping `connect` calls with two outcomes of the load each give every order of
completion; three consumers of both kinds let a waiter be served while another one
waits and a third is busy.  Two files that claim the same two names, and a word that can
only be an alias, give every way in which one load can take what another one listed.  Two
middlewares are the least in which one can call `next` again after the other one has.
With three sockets there is an old one that is closing, one that is opening, and one that is
open.  Two messages each and four places on the chain let messages cross, repeat and be
overtaken, and an end fall behind by more than one; with two servers a chaining key can be a
mixture, and with two hellos a second one can come too early.  Five pairs leave room
for pre-keys that are renewed and signed ones that are rotated, in any order.  One
encryption and one decryption are enough, since no action relates two of either (the proofs are
for any number), but two sweeps are needed for the second to unlink what the first did.  A `Ttl` of 2 with a lag of 2
lets a sweep outlast the age it has read.  Lengths one below, at and above `Base` are where
the code changes the width of a length.  The methods nest nodes two levels below the outermost one, which is `MaxDepth` (the
proofs are for any depth).

**Fairness.**  `FairSpec` of the queue: `.finally` callbacks and the steps of a suspended
`processJob` happen, because the event loop runs every microtask and timer that is
due, and because `sendMessage` is assumed to settle (no timeout would help if it did not).
Application calls are never fair: `EventuallySettled` is conditional on the queue being
started again and again.  It needs no fairness between priorities because `MaxJobs`
bounds the HIGH jobs; with an endless supply of them LOW jobs do starve, by design.
It is checked with the real limiter, whose
timers are fair too.  `LimiterSpec` and `AntiBanSpec`: time passes and due timers fire.
`ClientSpec`: the store answers each load and consumers go on reading.  `NetworkSpec`: a
handshake ends, because `ws` is given a `handshakeTimeout`, and a closing socket is closed,
because `ws` destroys it after a timeout.  `MediaSpec`: time passes, the interval of the
cleaner fires, and a sweep goes on.  `MCClient` and `MCData` state
the same for the part that runs.  No property uses strong fairness.
Deadlock is checked but where the system may stop: `data` disables the check because a request
that was decoded, and a channel whose messages are used up, have no next step, and
`flag_overlap` and `wire_truncated` for the same reason (a crashed process, a decoded request).

### What the violations say

1. `rate-limiter.ts:54`: the quota is checked before and charged after the jitter.
2. `atomic-file-store.ts:70`: the checksum is renamed before the credentials, so the
   crash the store is for makes it unreadable until the next `save` or `clear`.
3. `client.ts:110`: `connect` goes on after its `await` in whatever state the client is.
4. `websocket.ts:59`: the `close` event of a socket that `close()` or a second `connect()` left
   behind clears the flag for a new one that is open.  Nothing sets it again: from then on `send`
   throws "WebSocket is not connected", over a socket that works, until the next `connect`.
5. `reconnect.ts:42`: `nextDelayMs` returns the interval as it is, without the jitter the package
   promises: clients that lost their connections together come back together.
6. `decoder.ts:53`: a node whose list says that it has a content is accepted without one where the
   data end there, so not every truncated buffer is refused.

"findings" in `PROJECT.json` quotes the documents these contradict.  Conditions of the
properties that hold are worth knowing as well:

* a worker keeps its slot through the backoff (`message-queue.ts:120`), so with one worker a
  HIGH job waits while a lower one sleeps before its retry;
* a decryption that hangs for more than the TTL loses its temporary output to the cleaner and
  still returns the path (`stream-handler.ts:113`, 144), and so does an encryption, whose file then
  holds the MAC alone, which no decryption accepts;
* a sweep that has found a file too old unlinks it also if it was written since
  (`ttl-cleanup.ts:40`);
* `for await` over `events()` stops at the close and leaves what is buffered, the `disconnect` event
  among it, to `next()` (`events.ts:47`);
* a load that rejects leaves the client in `connecting`;
* when reloads of one file overlap, commands of an earlier version can stay; when a name was
  registered while it was registered, a reload of the first file removes a command that is no
  longer its own;
* one lost frame or message ends a Noise or Signal session for good: nothing in the code
  resynchronises, and a Signal session made without the secret never becomes one with it;
* `generateInitialPreKeys` numbers from 1 again, so a second call replaces published keys.

## 4. The proofs

**`MessageQueueProofs`** proves, for any number of jobs, any concurrency of at least
one, any retry limit and any set of faulty listeners (`BoundsAssumption`,
`ConcurrencyAssumption`, `ListenersAssumption`):
`QueueTypeCorrect`, `SlotsAccounted`, `JobsInOnePlace`, `RetriesBounded`, `JobsKept` and,
from two of them, `JobsStayPlaced`.

None of these invariants but the first is inductive alone.  The inductive invariant is
`IInv == TypeOK /\ Accounting /\ Placed /\ Budget /\ Kept`:

* `Accounting` adds to `WorkerAccounting` that the active jobs are a finite set, without
  which the cardinality of a changed set says nothing;
* `Placed` adds to `OnePlace` that a number above `created` is in no queue and no worker,
  so that the next job is new wherever it is put, and that a worker's job has been created;
* `Budget` ties `attempts` to `retryCount`: one attempt more than failures while a worker
  has the job, as many while it is queued.  The loop adds an attempt and `HandleError` a
  failure, and only the two together bound both;
* `Kept` says which status goes with which place.

The loop of `triggerProcessing` is the hard step, since three actions share it: the
lemmas `HeadPlace`, `TailPlace`, `LoopPlaced`, `HeadCount`, `DisjointCount` and
`LoopAccounting` say what taking the heads of three disjoint injective sequences does
to places and counts, and `LoopInv` that the loop preserves `IInv` from any state in
which it holds for the arguments.  Each action then has a lemma of its own, and
`NextIInv` collects them.

Four theorems have a condition, and an invariant of their own that is inductive together
with `IInv`:

* `NoIdleSlot` (`WorkConserving`, if no listener of `job:enqueued` throws): `LoopFills` says
  that the loop of a started queue ends with a full pool or empty queues, and every other
  step that could idle a slot leaves a `.finally` due;
* `StatsAddUp` (`StatsConserve`, if no listener of `job:completed` throws): the loop moves jobs
  from queues to slots (`LoopTotal`), the queues hold as many jobs as they are long
  (`QueueCount`), and a job that `clear` dropped never comes back (`Counted`);
* `PromisesTellTheTruth` (`OutcomeTruthful`, if no listener throws): the promise of a job that
  is queued, in a worker or not created is open (`Truth`);
* `OneSlotIsFifo` (`SerialFifo`, with one slot, whatever listeners do): each queue is in the
  order of creation and the job in the worker is older than the queued ones of its priority
  (`Ordered`), which a retry at the front keeps.

The first three conditions are needed: with listeners of both events that throw, TLC finds each of
the three properties violated.  The fourth is the property's own: it speaks of one slot only.

**`AntiBanProofs`** proves `QuotaHolds` (`SendsWithinQuota`), `JitterHolds` (`SendsSpaced`),
`ClientQueueIsFifo` and `LimiterTypeCorrect` for any number of jobs, quota, window and positive
jitters (`SerialAssumption`, `LimiterAssumption`).  `AntiBanIsQueue` shows that the queue with
its timers is a behaviour of `MessageQueue`, so `IInv` and every theorem about the queue hold of it; that
is where the sole worker comes from (`SoleWorker`), without which both properties are false (run
`limiter_concurrent`).  The invariant of the limiter: the array ends with the grants of the last
window and holds only expired entries before them (`EndsWith`), so the filter of `getQuotaWaitTime`
returns exactly the grants (`PruneIsGrants`); no two grants are of one instant (`Descending`), so in
an instant at most one leaves the window (`GrantsAge`); and the timer a call awaits carries a promise
(`Promised`): when the quota timer fires there is room, when the jitter timer fires the last grant is
old enough.  `QuotaHolds` has the hypothesis `MaxPerWindow # 0`: with a quota of 0 the code
computes `NaN`, waits for nothing and sends.

**`FilesProofs`** is about the three users of the disk.  Of the atomic store it proves
`StoreTypeCorrect`, `CleanStoreLoads` and
`StoreImplementsRegister` for any calls, versions and time stamps (`StoreAssumption`:
the three model values are no versions and differ).  The refinement maps the moment of a
save to the rename of the credentials and that of a load to the read of the credentials:
all other steps stutter.  `CleanStoreLoads` needs that a writer that is alone has only
its own checksum in the temporary file it is about to rename.

Of the plain store and its backups it proves `LastWriterStays` and `SnapshotsStayCurrent` for any calls,
credentials and ids (`VersionsAssumption`: credentials are none of the marks).  A writer that
is alone so far holds an empty file (`Alone`), and what a backup has loaded was in the file
since it began (`Seen`).

Of the temporary media files it proves `DecryptionsAreWhole` and `CleanerKeepsFiles` for any
number of encryptions, decryptions, sweeps and chunks, any TTL and any lag of a sweep
(`MediaAssumption`: no file has two writers).  A file that a decryption
verified is as it was or gone (`SourcesFinal`), since what is whole has no writer; its output is the
file its stream has open, or was too old and is gone for ever (`OutputsLinked`); what a sweep
has found too old stays so (`OldOnesExpired`), since the time it compares with is of its start;
and the encryption of a file that is not too old has written the whole text before it adds the MAC
(`WholeBeforeMac`).  `EncryptionOnly` and `DecryptionOnly` say once for all their steps that the
two kinds of calls leave each other's files alone.

**`PluginsProofs`** is about the registry and the pipeline.  Of the registry it proves
`RegistryTypeCorrect`, `LoadsReplace`, `AliasesLeadHome` and `ReloadsAreLocal` for any words, names, files and loads (`WordsAssumption`: names are
words; `NoneAssumption`: `None` is none of them).  The inductive invariant joins to the types:

* `Known`: a command of a file is in the file's list, or else `loadModule` would miss it;
* `Tidy`, unless a name was registered twice: an alias leads to a command that declares it,
  and a listed name has a command of that file.  It is what makes the reload local;
* `SoleLoadIsNewest`: where no loads of a file overlap, the one in progress is the newest, so
  what it registers is not stale;
* `LoadReplaces` itself.

Of the pipeline it proves `PipelineTypeCorrect`, `RunsOnce`, `GuardedRuns` and
`CooldownHolds` for any messages, users, aliases and number of middlewares
(`OwnersAssumption`, `CustomAssumption`).  The inductive invariant joins to the types:
`RunsWhatWasFound` (what ran is nothing or the one definition found, and while nothing ran
the runner is not past the end), `FoundIsAllowed` (what was found passed the admin guard) and `PassedIsCooling` (a user with an admission has the key of the command
in `userCooldowns`, and has one admission only).

**`NetworkProofs`** proves `ConnectHasOwnOutcome` and `FlagStaysTrue` for any number
of sockets (`SocketsAssumption`).  `StatesOfSockets` says what the `readyState` of a socket
tells of its past, without which a handler could settle a promise twice; `OnlyNewest` says
that `this.ws` is the newest socket, and that of the older ones only those that were not yet closed
when it was made have an end to come: one of them it is that cleared the flag where it is missing.
The lemma `EndInv` serves both ends of a socket, `Fails` and `Closes`.

It also proves `BackoffIsAsConfigured` for any intervals, retry limits, whole multipliers and
numbers of delays (`ReconnectAssumption`).  The closed form of a delay has a power in it, a recursive
function: `PowerLaw` proves that its equation has a solution and what it gives.  The induction this
takes is `SetInduction`, which speaks of the set of numbers with a property and so needs no
operator as a parameter; it rests on the well-foundedness of `<` and the library's `WFMin`.
`CapGrows` is why capping each delay is capping the closed form.  `PartsStayIndependent` states
the three properties of an application that calls the two parts in any order.

**`SessionProofs`** is about Noise and Signal.  For the Noise session it proves `HandshakeKeysAgree`,
`FramesReadInOrder` and `FramesStayInStep`, an action property, for any servers, directions,
hellos and frames (`NoiseAssumption`).  What was read lies behind `decCounter`
(`ReadBehindCounter`), and as long as frames arrive in their places `decCounter` is their number
(`CounterInPlace`).

For the Signal sessions and pre-keys it proves `SignalReadsTrue`, `SignalEndsInStep` and
`BundlesStayAnswered` for any number of messages, places and keys (`EndsAssumption`,
`GarbledAssumption`, `PreKeyAssumption`).  The invariant of the sessions: a message under way was
encrypted with its sender's secret at a place the sender has left (`MessagesMade`), later ones at
later places (`MessagesOrdered`), so what can still be read is newer than what was (`ReadsOld`);
and while the channel is orderly the messages under way are exactly those between the places of
the two ends (`GapFilled`), so the oldest is at the place of the end that waits for it
(`OldestReadable`).  For the bundles: a signed key that exists has an id below the next one.

**`ClientProofs`** proves `WakeUpsKept`, `StateTellsCredentials` and `EventsSharedInOrder`, an action
property, for any consumers and numbers of calls (`IteratorsAssumption`, `ClientBounds`).  `push` and
`close` both deliver a batch, the new events and behind them the synthetic ones that `close` makes
for the waiters left over; `DeliverStep` is the one lemma about both.  It needs that a waiter is in
the list once and only while the queue is empty and open (`WaitersInv`), or a wake-up would leave it
there, and that the queue holds the last events pushed, all newer than what was given
(`EventsInv`).

**`WireProofs`** proves, for any base, words and tokens and nodes of any depth (`CodecAssumption`),
with lists, texts and bytes of any length that the encoder takes:

* `DecodeInvertsEncode`: `decode` gives back any node that `encode` took and stops behind its bytes;
* `CutsRefusedAlways` (`CutsRefused`): of a buffer cut anywhere it gives nothing, or the node with
  the content at its end gone;
* `JidBack`: `parseJid` gives back what `jidToString` wrote, of a JID whose parts hold no separator
  (`JidAssumption`: no number is one).  The hypothesis is needed: of a user `12_5` the text is
  that of the user `12` and the agent 5;
* `DeliveredAlways` (`Delivered`): from these, that a request of a method arrives as it was built and
  names the chat that was meant.  `RequestsAssumption` says what the run enumerates: a request with
  a chat is `sendMessage` or a method of a group of some argument, and the chat is such a plain JID.

The invariant of the channel, `InTransit`, is inductive and simple: the buffer holds the bytes of the
node, or ends within them when some were lost.  The work is in what `decode` makes of such a buffer.
`Reads` says it of one reader and one code, in both cases at once: data that hold the code give
its value and the next offset, and data that end within it make the reader throw or return a
*clip*, the value without its last content.  Every part of the format has a lemma of this form, from
`ByteRead` to `NodeRead`.  `ReadsThen` puts two of them in a row and `ManyRead` any number; only the
last part of a code may have clips, which is why a content is lost as a whole or not at all.
`DepthRead` goes by the depth of the node.  The encoder and the decoder are recursive
functions of a depth, so each has a law that its equation has a solution (`WriteLaw`, `ReadLaw`,
`EncodableLaw`, `ClippedLaw`, and for the lists `FlattenLaw`, `ManyLaw`), and induction is
`SetInduction` again.  `SplitOnce` says that a text with one separator is split in two.

**Only model-checked.**  Liveness (`EventuallySettled`, `ConsumersEnd`, `DrainedAfterClose`,
`ConnectingEnds`, `ConnectsSettle`, `FilesExpire`), out of the prover's reach.  Every invariant and
action property of the runs that must hold has its theorem.

## 5. Plan

All components with a state or a protocol of their own are modelled.  What a next step could
add, in this order: an abstract pair of counters that `NoiseSession` and `SignalSession` implement
on an orderly channel; a client whose transport is the modelled one, should the code ever connect
the two.

## 6. Not modelled, and why

* **QR and pairing codes**: the last code made and a validity date; random strings and
  terminal output.
* **Primitive cryptography, media keys** (`crypto.ts`, `media.ts` of `wazeko-core`): calls of
  `node:crypto` on buffers, without state.  Their users model them by keys that fit or do not.
* **Monitoring server and logger**: HTTP handlers that format statistics, and log lines.  Two
  hazards are listed and have no property: an error of `listen` is unhandled, and a second
  `stop` rejects.
* Of the client: the wiring of plugins, logger and monitor in the constructor, the contents of
  events, the configuration and its builder, which are data.
* `timeoutMs`, a client that connects again after `disconnect` (its event queue stays closed),
  and what a text with an `@` should mean to `sendMessage`: listed as hazards, with the reason
  why no property covers them.
