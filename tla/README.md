# A verification of the contract conformance suite

This directory holds TLA+ models of the programs kept in this repository, TLC
configurations that model-check them, and proofs that TLAPS checks. It is read
beside the source: every definition of a model stands for lines that
`PROJECT.json` ("map") names.

Run anything from this directory: `tlc -config X.cfg M` checks a model,
`tlapm M.tla` checks the proofs of a module.

## 1. What is in the repository

The repository collects oracles, evidence and test drivers. Five parts hold logic
with state; the others are pure checks or data.

| Component | State | Operations | What makes it hard |
|---|---|---|---|
| **Shared socket worker** `evidence/ores-sw-20/source/src/workers/socket.shared-worker.ts` | pools by identity, stream bindings in three maps, a queue with two counters, three timers for each pool | five page requests, idle, reconnect and flush timers, lease sweep, port cleanup, four socket callbacks | callbacks of replaced sockets, timers that outlive decisions, three copies of the registry, loops that detach while they iterate, limits |
| **Shared socket client** `…/src/shared-socket.ts` | logical state, current stream, four flags, heartbeat timer, pending requests | open, send, close, pagehide and pageshow, events of the worker | requests and events cross on the port; suspension while requests are under way |
| **Socket wire protocol** `…/src/socket-protocol.ts`, `protocol.ts` | none | validation and encoding of envelopes, endpoints, close codes | boundaries of sizes and codes |
| **Generation recovery** `evidence/common-desktop-platform-v2/delta-workspace/infra-recovery/src/generation.rs` | desired, staged, active and previous identity; a durable journal entry | `stage`, `activate_staged`, `commit`, `roll_back`, `validate`, `recovery_action` | crashes between two durable writes, recoveries that crash, stale or damaged journals |
| **Reference store** `src/deep_tests/contract_model.py` | values, tombstones, revision, memory of idempotency keys, history | `apply`, `snapshot`, `generate_valid_trace`, `replay` | duplicates, late duplicates, keys that are used for another intent |
| **Binary payload codec checker** `proofs/ores-stack-57/tools/binary_payload_codec_check.rs` | lines parsed, rows, names seen, rows validated, the verdict and the line blamed | `parse_matrix`, `validate`, `require_case_shape` | stops at the first error, looks only at the first row of a name, leaves what is missing to the end |
| **zpkg manifest audit**, **async client certification**, **external validation and admission drivers**, **verification scripts** | none kept | read files, call packages outside the repository, compare | not models of their own: input and output |
| **Evidence, contracts, fixtures, workflows, docs** | data | | |

How they interact. A page's client talks to the worker over a `MessagePort` with
requests and events; the worker multiplexes the logical streams of all pages over a
few WebSockets to a server. The server appears in the repository only as the harness
`tools/verify_ores_sw_20_browser.mjs`, whose frame handler (147-164) is the source of
the model's server. The recovery table is called by a deployer that is not in the
repository; it keeps a journal entry and an active identity as two durable records.
The reference store is driven by generated traces and by tests; it is the oracle that
adapters are compared with. The codec checker reads one table,
`conformance/binary-payload-codecs.v1.tsv`. The five parts do not call each other.

What makes each part correct:

* Worker: the registries agree; every pool with streams has someone who will act for
  it; empty pools retire; closing is final and completes; the backlog is accounted
  for, scheduled, and only of streams that are there; a page hears `close` exactly
  when the worker forgets it. Its browser test adds: data follows `stream_open`, one
  physical socket for a pool, one pool for an identity.
* Client: one live stream for a page; nothing is delivered to a suspended or closed
  client; waiting for an open always ends; a lost lease is repaired; closing ends.
* Recovery: any crash of the deployer is answered; a target is activated at most
  once; a deployment the journal does not know is never overwritten; operations end.
* Store: each key has one effect and one answer; state, tombstones and history agree;
  a replay depends on the trace and not on duplicates, and never raises.
* Codec checker: it accepts exactly the hardened tables; its error is about the first
  line at fault; a change of the table in this repository does not pass unnoticed.

## 2. Modules

| Module | Role |
|---|---|
| `SocketWorker` | the worker, its sockets and the server's reading of frames |
| `StreamOwnership` | abstract specification: which port owns a stream, and what its page is told |
| `SocketWorkerProperties` | invariants, action and liveness properties of the worker |
| `MCSocketWorker` | symmetry, view and a restricted behaviour for TLC |
| `SocketWorkerTypeProofs`, `SocketWorkerProofs` | proofs about the worker: types, registry, life cycle, what each step does to one stream, that the worker implements `StreamOwnership`, and that pools go on and end |
| `SocketWorkerBacklogProofs` | proofs about its queues, and the induction they need |
| `SharedSocketClient` | the pages' clients and the two directions of their ports |
| `SharedSocket` | clients, ports and the whole `SocketWorker` together |
| `SharedSocketProperties`, `MCSharedSocket`, `SharedSocketProofs` | what page and worker keep true together |
| `Generation` | identities, their validation and equality |
| `GenerationState`, `GenerationStateProofs` | the four calls and their lineage |
| `GenerationRecovery`, `GenerationRecoveryProofs` | the recovery table under a crashing deployer |
| `CommandLog` | abstract specification: a log in which each key occurs once |
| `ReferenceStore` | the store; it implements `CommandLog` |
| `TraceReplay` | generated traces replayed with duplicates into the store, and its direct use |
| `ReferenceStoreProofs` | proofs about the store, the log and replays |
| `CodecMatrix`, `CodecMatrixProofs` | the codec checker, and what a hardened table is |
| `MCCodecMatrix` | the table of this repository (`CheckedIn`) and small changes of it |

A definition marked `\* mutant` is not part of a model: it is a plausible wrong
version of the definition after it, and stands for the question whether a
property would notice (`PROJECT.json`, "mutants").

### The worker

JavaScript runs a handler, timer callback or socket callback to its end, so each is
one action: `OpenStream` is the request `open_stream` with `parseOpenPayload` passed,
`attach`, `acquirePool`, `createPool`, `connectPool` and `sendFrame` as far as its
branches go; `Heartbeat`, `Send`, `CloseStream`, `CloseThrows` (a close whose reason is
not accepted) and `NotOwned` are the other requests; `IdleTimeout`, `ReconnectTimeout`, `FlushTimeout` the pool's timers;
`SocketOpens`, `OrphanOpens`, `NegotiationFails` are `onopen`, `ServerMessage`,
`ServerClosesStream`, `ServerBreaksProtocol` are `onmessage`, and `SocketCloses` is
`onclose` with an `onerror` before it. The one handler that is cut into steps is
the loop that detaches many streams (`LeaseSweep` and `CleanupPort` start it, each
`Evict` is one turn), so that the invariants are also checked between the turns;
`AtRest` keeps everything else out meanwhile.

State: `boundTo` and `portOf` are the map `streams`, `members` each pool's own set,
`streamsByPort` the index; `pools` is the map of pools, `identity`, `closing`,
`socket`, the timers, `queue` and `queuedBytes` are fields of `SocketPool`;
`readyState`, `creator`, `congested` belong to the browser's WebSocket objects,
`creator` being the pool their callbacks close over. `announced` and `misled` are the
server's memory of `stream_open` frames. `out` is what the last step posted to pages.

Abstractions, and why they lose nothing the properties see:

* `ping` and `stats` read only, and a request that `parseOpenPayload` refuses changes
  no state: left out. `enqueueFrame` is never called.
* The delay and the attempt count of a reconnect are left out; the timer may fire at
  any time after it was armed.
* `bufferedAmount` is whether it exceeds the high water mark (`congested`). Any frame
  may congest a socket, where the code needs more than 1 MiB: this adds behaviours.
  The announcements made when a socket opens are too small to congest it.
* Pool and socket objects come from finite sets and are used again once nothing in
  the worker can reach them. When all sockets are in use no new one is made; this is
  the exception in `LostSocketReplaced`.
* Iteration order of a Map is free in the detach loops. `readyState` CLOSED is not
  kept apart from an object that is gone. `new WebSocket` does not throw.
* The `catch` of `onopen` is unreachable: the socket is not congested, and only queued
  frames can be refused.

### Client, ports and worker

`SharedSocketClient` has one action for each method (`PageSends`, `PageCloses`), each
window event (`PageHide`, `PageShow`), the heartbeat interval, `sharedWorker.onerror`
(`WorkerError`) and each branch of `handleWorkerMessage`; the constructor is
`ClientInit`. `logical` is `readyState`, the other variables have the names of the
fields. Options, close codes and reasons are left out: they change no state.
`pendingActions` is not a variable: a message of `toPage` that answers a request
repeats its action and stream, which is what the map is looked up for.

A listener runs inside the handler that calls it. Of what it may do only `close()`
makes a difference before the handler has ended, so `HandleLogicalClose`, `OpenFails`
and `WorkerError` choose whether it does. That shows one oddity: a close listener that
calls `close()` again leaves a finalized client showing CLOSING.

`SharedSocket` puts `SocketWorker` behind the ports: `HandleRequest` takes the head of
`toWorker` and does the worker's action for it; what a worker step leaves in `out` is
appended to `toPage` of the streams' ports, events before the response, as the
promise in `port.onmessage` posts it. No request ends in `CloseThrows`: `close()` checks
its reason before it posts anything, and `pagehide` has a fixed one. A finalized client has closed its port:
nothing arrives any more, what it had posted still does. An identifier
is fresh when nobody has or hears of it, and may then be given again.

The branch of `handleWorkerMessage` for a `close_stream` that fails when the client
is neither closing nor suspended is not modelled: `CloseIsMeant` shows that
no answer to the current stream's close arrives then.

### Generation recovery

`GenerationState` has one action for each of the four calls; a call that returns an
error changes nothing. The caller is free.

`GenerationRecovery` models `validate` (`Sound`, `Valid`), and `recovery_action` as the
conditions under which it gives each of its answers (`Noop`, `ResumeActivation`,
`RollBackTo`) and fails with each of its errors (`Malformed`,
`MissingPreviousGeneration`, `RecoveryStateMismatch`). The code is one `match` whose arms
compare the two identities in different orders; which of the six applies never depends
on that order, because the two identities of a well-formed entry differ (194). `Generation` has `New` and
`IsCanonicalSha256`, the constructor of an identity and its rule for digests. The
string `operation_id` is reduced to whether it is well formed.

The deployer is an assumption, drawn from what the table accepts at each stage:
before activation it expects the previous identity; at `HealthChecked` it accepts
both, so the active identity changes while the entry says so; at `Committed` and
`RolledBack` it accepts one, so these are written afterwards; at `RollingBack` it
accepts both, so the stage is written before the identity changes back. Entry and
active identity are separate durable writes with a possible crash before, between
and after; restarting calls `recovery_action`, and acting on its answer is again one
durable write at a time. While the deployer is down anyone may change the active
identity (`Deploy`) and a field of the entry may be damaged (`Damage`); `owned`
remembers whether that happened.

One thing the model shows about the interface: `ActivatedOnce` needs the caller to
record `RollingBack` before it acts on `RollBackTo`. A caller that changes the
identity first and crashes would be told to resume the activation it has just undone,
because `HealthChecked` with the previous identity active looks like an activation
that was never made. The source does not say so.

A fact about `GenerationState` worth knowing: `commit` does not clear a staged
identity, and a later `activate_staged` does not touch the desired one, so after
stage, commit, activate the desired identity is the previous one. `DesiredIsHeld`
states what remains true, and its proof needs exactly this case.

### Reference store

`ApplyNew` is `apply` under a new key, with one action for each kind of command;
`ApplyAgain` is `apply` under a used key. A command that raises changes nothing, and
nothing remembers it: sent again under its key it may succeed. `answers` collects
what callers were told; it is not part of the store. SHA-256 is taken to be injective, so the
fingerprint is the intent. `TraceReplay` has the generator's own set of live
entities, its random choices free, and applies a command a second time after any
step of the replay, which covers every value of `duplicate_every`. The same module
has the store's direct use (`UsedDirectly`), with any command under any key and no
trace, so that one run checks both.

### Codec checker

One action for each step of the program: `ParseHeader`, `ParseEmptyLine`, `ParseRow`
and `EndOfTable` are the loop of `parse_matrix`, `ValidateRow` is a turn of the loop of
`validate`, `RequireCases`, `RequireShapes` and `RequireCoverage` are the checks after
it. A line is the sequence of its fields, an empty line the one with one empty field.
An expectation is one of the words the checker looks for, both, or neither; an error is
the line that it is about, or 0 when it is about the table; the program prints that line
when it cannot parse it, and the name of its case when a rule fails.

`Hardened` says what the checker is for without any order: of its lines, their
soundness, and that nothing is missing. `VerdictIsRight` compares it with the verdict,
`BlameIsJust` with the line blamed. `DriftNoticed` is about the table of this repository,
the constant `MATRIX`:
the tests (504-557) change one cell each; here every cell is changed. What may still be
changed without notice is the set `Loose`, found this way and worth knowing:

* transport and framing of the rows that have no required shape, and nearly every
  expectation;
* the mark `valid` of rows without a required shape whose name does not begin with
  `negative_` (`ws_text_binary`, which the matrix marks false, may become true);
* the codec of such a negative row, if the new one is unknown as well, and the
  identifiers of rows whose codec is not canonical;
* `raw_non_utf8` has transport `all` and is not held to the rule about control and
  correlation, which asks for `tcp` or `websocket`.

## 3. Runs

| Run | Bounds | Shows | Distinct states |
|---|---|---|---|
| `worker_backlog` | 1 port, 2 streams, 2 identities taking turns on 1 pool, 2 sockets, queue of 2 frames and 3 bytes, frames of 1 to 3 bytes | `TypeOK`, `BacklogScheduled`, `BacklogAccounted`, `BacklogOfMembers`, `NoPoolStranded`, `EmptyPoolRetires` | 351,820 |
| `worker_registry` | 2 ports, 2 streams, 2 identities, 2 pools, 2 sockets, 1 stream per pool, no backlog | `RegistryAgrees`, `ClosingPoolAwaitsClose`, `KeepsOwnership` (refinement of `StreamOwnership`), `ClosingIsFinal` | 278,719 |
| `worker_liveness` | 1 port, 2 streams, 1 pool, 2 sockets, with fairness | `IdlePoolCloses`, `ClosingPoolEmpties`, `LostSocketReplaced` | 35,416 |
| `worker_data_follows_open` | pages that never close, queue of 2 | violates `DataFollowsOpen` | |
| `worker_single_socket` | 2 ports, 1 pool, 3 sockets | violates `SinglePhysicalSocket` | |
| `worker_one_pool` | 2 ports, 3 streams, 2 pools, 3 sockets | violates `OnePoolPerIdentity` | |
| `shared_socket` | 1 page, 2 streams taken in turn, 1 pool object, 1 socket object, 2 unanswered requests before the page waits, 2 events before the outside world waits | `TypeOK`, `OneLiveStream`, `OpenIsWanted`, `AwaitedComes`, `CloseIsMeant`, `CloseHeardIsTrue` | 180,834 |
| `shared_socket_liveness` | the same with a send_only pool and 1 event, with fairness | `LeaseRepaired`, `ManualCloseFinalizes`, `FinalizedForgotten` | 41,768 |
| `generation_state` | 4 numbers, 2 canonical digests and 1 that is not | `TypeOK`, `LineageOrdered`, `DesiredIsHeld` | 136 |
| `generation_recovery` | 3 numbers, 3 digests, any number of crashes | `TypeOK`, `OwnCrashRecovers`, `ActivatedOnce`, `RecoveryFenced`, `Settles` | 101,694 |
| `reference_store` | 3 entities, 2 values, 4 keys, 4 effects, traces of 3 commands, any number of duplicates | `StateFollowsHistory`, `AnswersAgree`, `CarriesOutLog` (refinement of `CommandLog`), `ReplayFollowsTrace`, `ReplayNeverRaises` | 136,557 |
| `codec_matrix` | the table of this repository (46 lines), every change of one cell to one of 2 to 4 other values of its column, every line removed, repeated, cut or swapped with the next, an empty line anywhere, each codec silenced, no table at all | `VerdictIsRight`, `BlameIsJust`, `DriftNoticed` | 100,184 |

Why the bounds are enough. *Worker:* the hazards need at most a pool and its
successor, the current socket and the one it replaced, and two streams that differ
in port or in pool; queues need to be empty, partly filled, full by count and full
by bytes, which two frames and three bytes give, a frame that exceeds
`MaxFrameBytes` included. Backlog and many-pool configurations are checked
apart because the queue belongs to one pool and no registry decision reads it.
Ports, streams, pools and sockets are symmetric; identities are not (one multiplexes,
one does not). The view drops `out` and `misled`, which no guard reads and no
property of these runs but the action properties does; those look at the step and not
at the state. *Client:* clients meet only in the worker's pools, which the worker's own runs check
with two ports, so one page is enough for what page and worker agree on; it needs the
stream it uses and the one it left, and so many requests under way that an open, a
close and an answer pass one another. `MaxRequests` holds back what the page starts,
never its reactions, and `MaxEvents` the outside world, never the answer to a request.
The liveness run has a pool that only sends, so the server closes no stream on its
own: the safety run has that. No open is refused there for want of room, since one page
reaches no limit of the worker: `LeaseRepaired` is about lost leases only. The view of the
liveness run drops what no fair action reads or
leaves as the only change. It has one socket object: with two, the double connection
that `worker_single_socket` shows can leave a socket that no pool holds but whose close
event is still to come, and the only pool object would stay in use for it. That is an
artefact of the bound; the program makes another pool. These two runs do not check for deadlock: when the page
is finalized and its streams are forgotten, nothing has to happen any more. *Recovery:* a previous, a target and a foreign generation, with equal and different
digests, and the same number with another digest. Crashes are unbounded;
`activations` stops at 2, "twice or more". *Store:* four effects give create,
update, delete and create again, or two entities at once, with a refused or repeated
command between any two; traces of three are enough for a delete and what follows it.
The proofs below cover any length. *Codec checker:* the errors the program knows are
each one line's or one table's, and every one is met; two faults at once are left to
the proofs. The run does not check for deadlock because the program ends.

Findings. Three statements of the worker's browser test do not hold of the code in
every schedule; the three violation runs give traces, and `PROJECT.json`
("findings") names the lines. In short: a frame sent on a socket that has just drained overtakes a
`stream_open` still queued; a page that opens a stream while the reconnect timer
is armed makes the pool connect twice; and the close event of a pool that was
replaced deletes its successor from the map, so a third pool is made beside it.

### Fairness

*Worker:* a browser's event loop fires an armed timer, finishes a running loop, and
delivers the close event of a socket on which `close` was called or the server began
to close. The model cuts a loop that detaches streams into turns and holds everything
else back meanwhile, so a loop of another pool may disable an armed timer again and
again, which no loop of the program does to a callback that is due: the three timeouts
and `CloseCompletes` get `SF`, the turns of a loop (`Evict`) `WF`. With two pools, `WF`
of the timers is too weak and TLC shows it; the run has one pool. Nothing is
assumed of pages, of connections being established, of the server, of leases or of
sockets draining. *Client and ports:* messages are handled on both sides (`WF` of `Handles` and
`HandleRequest`), the sweep interval and its loop run, the lease of a page that is
silent for good runs out. What a loop in the worker or a bound of the model may hold
back now and then, which neither does in the program, gets `SF`: `HandleRequest`,
`Heartbeats`, `SilenceExpires`, the sweep and close events.
A page that never hides or closes is not assumed. *Recovery:* a deployer that is up goes on (`WF` of its steps, without
a preference for commit or rollback) and one that is down is restarted; `Settles`
holds of behaviours in which crashes eventually cease.

## 4. Proofs

All theorems hold for every value of the constants under the named assumptions of
the modules; TLC evaluates the same assumptions in the runs.

**Worker** (`SocketWorkerAssumption`: limits are numbers, `None` is no object).
`SocketWorkerProofs!Invariance` proves the inductive invariant

    TypeOK /\ RegistryAgrees /\ NoPoolStranded /\ EmptyPoolRetires
           /\ ClosingPoolAwaitsClose /\ SocketsOwned

None of the parts is inductive alone. A detach removes a stream from the maps of the
pool that the registry names, so the life cycle needs `RegistryAgrees`; a close event
acts on the pool of its callback, so a pool that waits for its socket needs
`ClosingPoolAwaitsClose`; and both need `SocketsOwned`, that a socket is free
exactly when no pool created it.
`SocketWorkerTypeProofs` proves types and what the helpers do to the maps, one lemma
for each; the steps are split by action and, within an action, by whether a stream or
pool is the one the action is about. `ClosingFinal` is an action property from the
same invariant. So is `CloseTold`: a page hears `close` exactly when the worker forgets
its stream. `Tells` says of a sequence of messages which streams it closes, the lemmas
after it what each helper's messages tell, and each step is compared with the streams it
forgets.

Four more theorems say what a step of the worker does to one stream and what it posts
(`OpenEffects`, `RequestEffects`, `OwnEffects`, `CloseEffects`): they are the interface
through which the ports use the worker. A page is told `open` only of a new binding and
`close` only in the step that forgets the stream, and of the requests of the owning
port the worker refuses none but a send, and a close whose reason does not fit, which
leaves the stream as it was.

`OwnershipKept` puts them together: the worker implements `StreamOwnership`, a table of
one owner for each stream, under `owner <- portOf`, `leaving <- evicting`,
`told <- out`. In the table a request is answered at once and truly (`ok` only to the
owner), `fail` of an open may leave a binding behind (the queue had no room for the
announcement), `close` reaches exactly the streams that are lost, and once leases or a
port ended nothing else happens until the last of their streams is forgotten, in
silence. `LoopIsAtomic` is the part about the detach loop, `RequestIsAbstract` and
`OwnIsAbstract` map the other steps by their effects. That attach compares sizes of its
maps where the table counts owners needs `RegistryAgrees` (`TableIsRegistry`), and that
these are numbers at all needs finiteness, which the table itself keeps: `LimitsHold`,
its limits, is proved along with it (`LimitsStep` uses the table alone).
`KeepsOwnership` implies `CloseToldWhenForgotten`, so the run checks the former.

The three promises that take time follow from the same invariant, with one hypothesis
each in place of fairness: that an armed timer fires (`IdleTimerFires`,
`ReconnectTimerFires`) or that a closing socket gets its close event (`CloseArrives`).
Each reads "again and again there is nothing to do, or again and again it is done", which
says nothing of ENABLED; `FairTimersFire` and `FairClosesArrive` show that `SF` of the
action means this much wherever it is enabled outside a detach loop and loops end.
`IdlePoolsClose` needs `EmptyPoolRetires` (the timer is armed) and that a pool keeps its
identity; `LostSocketsReplaced` needs `NoPoolStranded` (the timer is armed and will
connect); `ClosingPoolsEmpty` needs `ClosingPoolAwaitsClose` and that a closing pool
gets no other socket, so that the event of the one it has is the event it waits for.

**Backlog** (`SocketWorkerBacklogProofs`). The three functions over a queue, its size,
the queue without a stream's data and the size of what is left out, are recursive, so
facts about them need induction. The library's induction theorems take an operator, which
no prover here can instantiate; `Induction` is the same fact for a set of numbers,
proved from the well-foundedness of `<`, and `RecursionExists` and `RecursionUnique`
say for any step function that there is a function of partial results, and one only.
Each queue function is thereby the last of its partial results, on which `SumOfAppend`,
`SumOfParts` and `RemovedFrames` rest: appending adds the bytes of the frame, cutting
off a front or filtering a stream takes away exactly the bytes that go. The invariant is

    Accounts  == each pool's queue is Sound: of frames, its size kept in queuedBytes, within
                 both limits, and of streams the pool has or frames that outlive them
    Scheduled == BacklogScheduled /\ no socket of a closing pool may still open

The second part of `Scheduled` (`ClosingSocketsClose`) is needed because `onopen` returns
without a flush when its pool is closing: were that possible, frames would wait without
a timer. `BacklogScheduled` needs `Accounts` for the types of what is filtered and flushed.

**Client and ports.** `SharedSocketProofs!NeverRevived` proves `OpenIsWanted` for any
number of pages: with the types of the client's flags it is inductive, since only an
`open` event that is still wanted makes a client show OPEN, and every step that hides,
closes or finalizes a client takes OPEN away. The worker needs no invariant here:
whatever it posts, in whichever order, is harmless. `WorkerBehindPorts` proves that
the composition implements `SocketWorker`: every step of clients and ports is a step of
the worker or leaves it alone (`RequestsTyped`: a request that waits in a port names a
stream and a limit that exist, under `WorkerAssumption`). Every theorem about the
worker therefore holds of the composition: `WorkerInvariance`, and what the worker
promises, `OwnershipBehindPorts`, `BacklogBehindPorts` and `PoolsLiveBehindPorts`.

The other properties depend on the order of messages, in both directions of a port at
once. `IInv` is the invariant that settles them (`PortInvariance`), for any number of
pages and of messages under way: types; `Disjoint`, that no stream is the current one,
bound or asked for by two pages; and for each port `PortInv`, whose parts are

| Part | What it says | What needs it |
|---|---|---|
| `Leaving` | a stream that the page has left, or hidden, and that is bound or still to be opened has a request to close it under way, after every request to open it | `OneLiveStream` |
| `Meant` | a request to close the current stream, or an answer to one, is under way only for a page that does not use it | `CloseIsMeant` |
| `OpenIsNew`, `CloseIsLast` | the current stream is asked for once and while it is not bound, and never after it is closed | the parts below |
| `Waiting` | a page that uses its socket waits while its request is under way, and no message that would end the wait is before the answer | `Forgotten` |
| `Forgotten` | after a failed heartbeat nothing comes that is about a binding of that stream, unless the page waits already | `Waiting`: asking again is right |
| `ClosedIsTrue` | a message that the stream is closed, or unknown, is still true when it is read | `CloseHeardIsTrue` |
| `AnswerComes` | a page that waits has its request or its answer under way | `AwaitedComes`, the open |
| `EndComes`, beside `IInv` | a page that called `close()` has its request to close under way, or the message that finalizes it | `AwaitedComes`, the close |

None is inductive alone. The hardest step is a failed heartbeat, which makes the page
ask again for the same stream: that this request is the only one needs `Forgotten`,
and `Forgotten` survives the worker's answer because of `Waiting`. `EndComes` is kept
for a reason of its own: the worker may forget the stream before it reads the close, and
then refuses it, which must be the message that ends the client (`CloseServed`), and a
listener that closes inside a handler posts its request in the same step
(`ListenerEnds`).

The proof does not meet the two programs action by action. Five effects describe what a
step may do to one port: the worker or another page takes a step of its own
(`Unserved`), the worker handles the port's next request (`Served`), the page posts or
takes a message (`Posts`), asks again (`Reopens`), or comes back (`Shows`). One group of
lemmas shows that each action has one of the effects on its port and `Unserved` on the
others (from the four theorems about the worker's steps, and branch by branch for
`handleWorkerMessage`); the other that each effect keeps `PortInv`. `PostedType` proves of
`FlattenSeq` and `SetToSeq` that a port is delivered what was posted for its streams and
nothing else; it needs the set of stream identifiers to be finite
(`SharedSocketClientAssumption`), as identifiers of at most 256 bytes are.

**Recovery** (`GenerationAssumption`, `NoneAssumption`, `EntryAssumption`).
`GenerationStateProofs` needs one strengthening of `DesiredIsHeld`, described above.
`GenerationRecoveryProofs` proves `TypeOK`, `ActivatedOnce`, `OwnCrashRecovers` and
`RecoveryFenced` from `EntryConsistent`: while the deployer is up, or down with
nobody interfering, the entry is well formed and its stage says which identity is
active. `NotYetActivated` ties the count of activations to the stage. `TableComplete`
is the fact about the table itself: it has an answer for every consistent entry.
`OperationsSettle` proves `Settles` from what `DeployerGoesOn` and `DeployerRestarts` say of
the deployer, the runs' fairness without ENABLED: a deployer with something to do does it,
or is done again and again. `Rank` says how far an operation has come, from 0 to 9, by its
stage and by whether the active identity has been changed; work always raises it
(`WorkAdvances`), nothing but a crash takes it out of the deployer's hands
(`UnderWayLasts`), a restart puts it back there (`RestartContinues`), and at the last rank
stage and active identity agree (`LastRankSettles`).

**Store** (`ReferenceStoreAssumption`). `ReferenceStoreProofs` proves types, that
revisions are consecutive, `StateFollowsHistory` and `AnswersAgree`, for histories of any
length: `MaxRevision` occurs in no proof. The strengthening is that answers are what is
remembered (`AnswersRemembered`) and that keys have effects of their own
(`KeysHaveOwnEffect`); `LastAfterAppend` says how the last outcome about an entity
changes.

**Log and replay** (`TraceReplayAssumption`). `ReferenceStoreProofs!LogCarriedOut` proves
that the store implements `CommandLog`. `EffectsAnswered` says that every effect has its
answer, so an entry of the log is the command of that answer; `LiveIsExisting` that an
entity lives in the log exactly when it exists in the store, which is why a command the
store does not refuse is possible in the log; `NewIsLogged` that it is then the next
entry; `DuplicateChangesNothing` that a used key is a stuttering step. `ReplayUsesStore`
proves that a replay is a use of the store, so all of this holds of it, and
`ReplayInOrder` and `ReplaysAreValid` prove `ReplayFollowsTrace` and `ReplayNeverRaises`.
They need one fact about the generator (`Generated`): each command of the trace is
possible after those before it, its key is its position, and the generator's `live` is
what lives after the whole trace.

**Codec checker** (`CodecMatrixAssumption`: a table is a sequence of lines of strings;
`MatrixAssumption`: the table of the repository passes the rules of a row, as its test
`checked_in_matrix_is_hardened` asserts, and TLC evaluates it of the table itself).
`VerdictRight` and `BlameJust` hold of every table. `PassesIsSound` turns the nested
conditions of the loop into the rules of `Sound`. The invariant `Scan` says how far the
program came: the rows are the non-empty lines read, in their order; the validated ones
are sound and their names are the names seen, each once; and each stage means that the
checks before it passed. `Scan` says nothing of a refusal; `BlameIsJust` does, and is
inductive with it. A refusal then excludes `Hardened` by the line it blames, and the
first row of a name is the only one because names are seen once. `DriftIsNoticed` proves
`DriftNoticed` of every table that passes, and of any text in the changed cell where the run
tries a few. It rests on `VerdictRight` alone: two sound rows that differ in one column
differ in a loose one (`SoundRowsDiffer`, because no two codecs share an identifier), and
a required name that is changed is missing.

Only model-checked:

* `LeaseRepaired`, `ManualCloseFinalizes` and `FinalizedForgotten`: that a message at the end of a
  queue of any length is read needs an induction under a temporal operator, which the
  prover cannot do. What it can do is proved: `AwaitedComes` says that the message is
  there, `CloseHeardIsTrue` that it is true when it is read;
* that the fair actions are enabled when they should be: every liveness theorem has its
  fairness as a hypothesis without ENABLED, and the runs, which state `WF` and `SF`,
  check the same properties.

## 5. Not modelled

* The wire protocol keeps no state: its rules about sizes and codes are planned, below.
  What the worker and the client make of its verdicts is modelled there.
* The manifest audit is a single pass over files that adds up findings about text; no
  step depends on an earlier one.
* The certification of external clients, the validation drivers
  and the repository scripts read files or call packages that are not here; they keep
  no state whose order could go wrong.
* Locks, contracts, fixtures, workflow files and documents hold no logic.
* In `generation.rs`, the conversions to and from `ActiveGenerationIdentity` copy two fields.

## 6. Plan

1. **Abstract client.** `LogicalStream`: what a page may rely on (a stream is connecting,
   open or closed; messages arrive only while it is open; after the last close nothing
   is heard), implemented by `SharedSocket`; and a run with two pages of one pool.
   It should also settle what a refused open leads to, for a while and for good, and what
   the two oddities of the client mean for a page: a refused open whose binding stays, and
   `close()` in a close listener (`PROJECT.json`, "hazards").
2. **Wire protocol.** The rules of `socket-protocol.ts` as operators checked against
   a reference definition over bounded inputs.
3. **Recovery composed.** `GenerationState` as the memory of the deployer of
   `GenerationRecovery`: `activate_staged`, `commit` and `roll_back` agree with the durable records.
4. **Proofs.** Every safety property of the runs and four of the seven liveness properties are
   proved. Next: that a page hears `open`, `message` and `close` in an order that the
   abstract client of (1) allows.
