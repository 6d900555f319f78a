# Verification of zEngine

TLA+ models of zEngine, a Go engine for game servers, the TLC configurations
that check them, and proofs that TLAPS checks. Source paths are relative to
`src/`. `PROJECT.json` maps every definition to the lines it models, and lists
the parts, runs, mutants, findings, hazards and theorems.

## The system and its parts

| part | source | modules |
|---|---|---|
| transaction coordinator: in-process two-phase commit over callbacks | `zConsistency/transaction.go` | TransactionCoordinator, AtomicCommit, TransactionProofs |
| outbox and inbox: at-least-once delivery with deduplication | `zConsistency/*store*.go` | MemoryOutbox, SQLOutbox, MemoryInbox, SQLInbox, Delivery, StoreProofs, DeliveryProofs |
| Runner: closures on one goroutine | `zActor/runner.go` | Runner, ActorProofs |
| Actor: mailbox with priority lanes, supervised restart | `zActor/actor.go` | Actor, ActorScheduler, ActorProofs |
| Pool: instances on demand, reservations, reaping | `zInstance/pool.go` | Pool, PoolInvariant, PoolProofs |
| ownership: leases with epochs over etcd, and their watch | `zDistributed/ownership.go`, `etcd_ownership.go` | Ownership, OwnershipWatch, OwnershipProofs |
| locks: etcd lock, lock manager, watchdog | `zDistributed/lock.go`, `etcd_lock.go`, `lock_manager.go`, `watchdog.go` | EtcdLock, EtcdLockProofs |
| outbound delivery: the bounded send queue | `zNet/delivery.go` | OutboundQueue, NetworkProofs |
| TCP server, session and reconnecting client | `zNet/Tcp*.go` | TcpServer, TcpSession, TcpClient, NetworkProofs |
| UDP server | `zNet/UdpServer*.go` | UdpServer |
| protocol negotiation | `zNet/protocol_*.go` | ProtocolNegotiation, NetworkProofs |
| request correlator | `zNet/request_correlator.go` | RequestRouter, NetworkProofs |
| server lifecycle | `zServer/*.go` | BaseServer |
| service manager | `zService/service_manager.go` | ServiceManager |
| event bus | `zEvent/event_bus.go` | EventBus |
| health manager | `zHealth/manager.go` | HealthManager |
| area of interest | `zAoi/grid_aoi.go` | GridManager |
| log writer | `zLog/async_writer.go` | AsyncWriter, StoreProofs |

The packages are libraries: a server composes them, and they share no state with
each other. Compositions that matter are inside a package and are modelled as
such: outbox and inbox over a transport (`Delivery`), lock object, manager and
watchdog (`EtcdLock`), a session with its send queue (`TcpSession`), the two ends
of a connection (`ProtocolNegotiation`), handles, delayed requests and etcd
(`Ownership`). The modules `MC*` put several components into one TLC run: the
variable `under` says which of them a behaviour is about, and the others do not
move. This is sound because they share nothing; it only saves runs.

## How state and actions correspond to the code

In every module an action is one critical section of the lock the code holds,
one channel operation or atomic access, one request to etcd or SQL statement, or
the return of an application callback: these are the points where other
goroutines can run. Variables are the fields of the struct, under their names,
and the locals a goroutine keeps across such a point (`pc` and the like).
Time is not modelled: a timer or a deadline may fire whenever it is set. A
context is a set of expired contexts or, where every look at it ends the call, a
choice at that look. History variables are marked as such where they are declared.

**TransactionCoordinator.** One transaction with participants `1..N`, taken to
be distinct (`Transaction` values share only the map). `PrepareClaim`, `VoteLoop`, `VoteReturn`,
`PrepareLoop`, `PrepareReturn`, `PrepareRecord` are the stages of `Prepare`;
`CommitClaim`, `CommitAttempt`, `CommitFinish` those of `Commit`; `RollbackStep`
is one turn of `rollbackParticipants`, run by whoever made the transition to
Aborted; `Execute` is `Begin`, `Prepare` and `Commit` by one caller. `fns` is the
set of callbacks that are not nil. `AtomicCommit` is the abstract specification.

**Outbox, inbox, Delivery.** The V2 operations of the memory stores are one step
each, because the store's lock covers them, and they are the contract: in
`SQLOutbox` an action is one statement with its WHERE clause, and the table must
move as the memory store does. A statement may fail before or after it took
effect. `Delivery` puts an outbox and an inbox at the ends of a transport that
loses, duplicates and reorders, and lets either end crash. The loops of sender
and receiver belong to the application; they are external and follow the
comments of `store_v2.go`. `useTx` says whether the receiver binds the inbox to
the transaction of its effect.

**Runner, Actor, ActorScheduler.** `Admit` is the critical section of `admit`,
`Wait` its blocking select; `RunTop`, `Select`, `DrainAndStop`, `SignalQueueSpace`, `Execute`
and `FnReturn` are `run` and `drainAndStop`. In `Actor` each successful `Start` is
a generation with its own goroutine; panics and failing hooks are choices.
`ActorScheduler` is how `tryReceiveFair` picks a lane, one channel at a time.

**Pool.** Revisions and key versions are only compared with a copy taken
earlier, so the model keeps whether the copy is current (`fresh`, `same`).

**Ownership, OwnershipWatch, EtcdLock.** etcd is external: a key with its
revision and lease, transactions, leases that expire at any time, and requests
whose caller got an error and which were executed, are executed later (`late`), or
never. A handle has a lifecycle (active, lost, released), a monitor, and a Release
whose `releaseIntent` and `lossObserved` flags race with it. In `EtcdLock` the
manager (`GetLock`, `ReleaseLock`) and the watchdog (`CheckLocks`) act on the lock
object of their process. `OwnershipWatch` replays the events of `watchLoop`
in a consumer, against every history of the key.

**Network.** `OutboundQueue`: the four delivery classes reduce to commands that
wait or are refused, and frames that coalesce by key. A send may fail: `process` logs
it and goes on, but the drain after the end of the session breaks off at the first
error (`SendOutbound`), and what is behind that packet stays in the queue for ever.
`PacketsResolved` excepts exactly these packets; since `Session.Close` closes the
connection first, they are what a closed session usually leaves. `TcpSession`: `receive`,
`process`, `heartbeatCheck`, callers of `Close` and `Send`, a dispatcher that may
send on its own session. `TcpServer` uses of a session only what `TcpSession`
shows. `TcpClient` has no lock in the code, so every atomic access is a step; the
application and the monitor may be inside `connect` at once. `UdpServer`: the
one read goroutine, the goroutines of the sessions, heartbeats and `Close`.
`ProtocolNegotiation`: two ends with every pair of policies over two FIFO
directions; the client's timer races with `receive`. `RequestRouter`: results are
taken out of the map under the lock and sent after it. The ids are arbitrary, because
`SendRequest` takes any: two calls may use one at the same time, or one after the
other. A call that is completed before `SendRequest` reads its registration back
can find that of a later call with the same id, and takes it out when it fails or
gives up; the later call then waits for its timeout. `WaiterServed` names this
as its one exception (`Withdrawn`); with ids from `NextRequestID` alone it cannot occur.

**BaseServer, ServiceManager, EventBus, HealthManager.** `BaseServer`: `Start` and
the one stop transaction, from any number of callers, against registrations of
cleanups and tasks. `ServiceManager` has `topologicalSort` as an operator that
follows the code's depth-first search, checked against the definition of a
topological order for every graph. `EventBus` makes the waiters of the condition
variable explicit, since two kinds share it. A probe call of `HealthManager` is
two goroutines: the one in `Check`, which may return late or never, and the
executor that waits for it or for the timeout.

**GridManager, AsyncWriter.** `GridManager` has the cells, the surrounding cells
and `BuildMoveEvents` as operators over integer coordinates; `view` is what a
watcher believes who applies the events it got. `AsyncWriter` has the three
consumers of the buffer: `run`, a concurrent `Sync`, and the `Close` that wins the
compare-and-swap. Another call of `Close` returns nil at once, even before the
winner has flushed; `ClosePersists` promises nothing about it.

## Runs

| run | instance | shows |
|---|---|---|
| `transaction` | 3 participants, 3 callers, a stranger, every set of callbacks; or 1 message, 2 handlers, 2 retries, 1 loss, 2 crashes | `OutcomeTruthful`, `NoOrphanPrepared`, `PreparedResolved`, refinement of `AtomicCommit`; `EffectOnce`, `EveryMessageResolved` |
| `actors` | Runner: 3 clients, 2 stoppers, queue of 1; Actor: 4 messages, 2 generations, 2 restarts; lanes of 2 | `FifoConservation`, `ResultTruthful`, `AdmittedRuns`; `Conservation`, `GenerationsApart`, `StopCompletes`, `AcceptedResolved`; `WaitBounded` |
| `pool` | 2 callers, 2 keys, 2 instances | `WithinCapacity`, `AdmittedInstanceLives`, `OneBuildPerKey` |
| `stores` | outbox: 2 clients, 1 message, 2 attempts; inbox: 3 handlers, 2 requests | `NilMeansDone`, refinement of `MemoryOutbox`; `OneOwner`, `ProcessedMeansDone` |
| `ownership` | 2 handles with one token and 1 caller, all operations; or the operations that write, with 1 delayed request; watch: histories of 5 revisions | `WritesInEpochOrder`, `LossNoticed`; `ViewExact` |
| `network` | queue of 2 with 5 packets; session with 3 packets, 2 sends, 1 closer; server with 2 connections, limit 1, 2 shutdowns; client with 3 sessions, 2 reconnects, 2 calls of Connect | `QueueExact`, `PacketsResolved`; `RemovedOnce`, `SessionEnds`; `ShutdownReturns`; `LossRecovered` |
| `lifecycle` | server: 2 cleanups, 1 task, 2 stoppers; bus: 2 publishers, 2 closers, 2 subscriptions, queue of 1; health: 2 names, 2 refreshers, 3 calls | `StopCallsReturn`; `BusCloseReturns`; `RoundEnds` |
| `shared` | lock: 2 objects acquired once, or 1 managed object acquired twice; 4 policies; router: 2 callers, 2 completers, 2 ids; 3 services; 3 entities on 3x2 cells; 3 writers, buffer of 2 | `WritesInTokenOrder`, `LockLossNotMissed`; `SessionAgreed`; `WaiterServed`; `ClosedInOrder`; `ViewsExact`; `ClosePersists` |
| `runner_wait` | 3 callers, queue of 1 | **violated**: `WaitersProceed` |
| `delivery_restart` | no losses, 1 crash | **violated**: `RestartLosesNothing` |
| `client_reconnect` | 3 sessions, 2 calls of Connect | **violated**: `AutoReconnects` |
| `udp_close` | 1 address, channel of 1, 3 datagrams | **violated**: `UdpCloseReturns` |

The comment above each property says what it claims of which code. In the passing
runs every property is also violated by a plausible bug (the operators named
`...Mutant`; `PROJECT.json` says which definition each one replaces).

### Findings

`runner_wait`: two callers wait for capacity. The goroutine takes a command and
puts the one token into `spaceCh`. The caller that receives it finds its own
context expired and returns; nobody passes the token on. The other caller stays
blocked although the queue is empty and its context is live.

`delivery_restart`: the receiver acquires the message and restarts before its
effect. The entry stays InProgress: nothing takes it over and `CleanupContext`
deletes only processed ones. Every redelivery is refused until the retries are
used up, and the message becomes a dead letter. The header of `sql_store.go`
says that a restart loses no message in flight; that holds when the inbox is in the
transaction of the effect (second half of `EveryMessageResolved`).

`client_reconnect`: a second call of `Connect` fails and sets the state to
Disconnected, while the client has a session of another call, the first one or the
monitor's. The monitor looks at the session only when the state is Connected, so a
loss of that session is never repaired, whether it comes after the failed call or
comes before it and the monitor has not yet looked. `LossRecovered` shows that a client whose application calls `Connect`
once does recover or give up.

`udp_close`: the heartbeat check ends a session; its process goroutine has left
the drain loop and has not yet removed the session. The read goroutine still
finds it, fills its channel, and blocks there for ever; `Close` waits for it.

### Bounds

Three callers are the smallest number with one call in progress, one that
interferes and one that waits; a queue of one is full after one command. In
`pool`, two callers make every check of a revision or key version fail. Reaping
an occupied instance would take two reapers with stale measurements and one
admission, three callers in all; the proofs cover any number. Two generations of an actor
are enough for one to leave something to the next. The burst limits of the
scheduler are 3 and 6 instead of the code's, in a similar ratio; the bounds on
the wait are stated in terms of the limits. Messages of an outbox do not interact
(every statement names one request), so one is enough; the loss can hit the message or
its acknowledgement, and the crashes both ends. There is one retry more
than losses, the condition under which `EveryMessageResolved` demands the effect.

Two handles suffice for a stale owner and its successor, and both use the one token, which
is the hard case; a single caller can interleave with the monitors, leases and
the delayed request, and the proofs cover any number of callers. The lock is
checked with two objects of two processes, and with one object that is acquired
again under the manager and watchdog, because both at once are too large. The
server limit of one with two connections makes the server full. Four policies
have overlapping, touching and disjoint ranges, with legacy on and off. The map
of the grid is 5x3 with cells of 2x2: the last column and row of cells are partial,
and coordinates lie outside, on the edge and inside; cells two columns apart do
not see each other. Three services have all graphs on three nodes, cycles included.

Counters bounded in a guard are named constants: `MaxID`, `MaxGen`, `MaxAttempts`,
`MaxLosses`, `MaxCrashes`, `MaxLate`, `MaxRev`, `MaxAcquire`, `MaxPackets`,
`MaxSends`, `MaxSessions`, `MaxDatagrams`, `MaxEntries`, `MaxCalls`, `MaxApp`, `AppConnects`. Symmetry
is used in `pool` and `stores`, which check no liveness. Deadlock is
checked in `transaction` and `stores`; elsewhere the system may stop, when every
caller has made its call or every id, message or packet is used.

### Fairness

Weak fairness of each goroutine that is inside a call or loop (the Go scheduler
runs what can run, callbacks and commands return), and none for making calls, for
expiry of contexts and leases, for failures, or for what peers send. In `Delivery`
time passes, both ends run again after a crash, and a message that is not lost
arrives. In `Ownership` the watch of the owner key delivers the deletion. In
`HealthManager` `Check` itself has no fairness: it may hang. In `UdpServer` the
heartbeat of a session fails once nobody reads the socket. The one strong
fairness is `MonitorDone` of `TcpClient`: the select between the ticker and
`ctx.Done` chooses at random among the ready cases, so it takes the second at
some time.

## Proofs

**Transaction coordinator** (`TransactionProofs`), for every number of
participants and every set of callers; `TxAssumption` only says that `N` is a
natural number:

- `TypeCorrect`: types, and that callbacks in progress are about participants;
- `Invariance`: the inductive invariant `IInv`;
- `Exclusion`, `Unanimity`, `Truthfulness`, `Compensation`: no commit and rollback of
  one transaction, commit only when all are prepared, and the safety invariants of
  the run `transaction`;
- `Refinement`: `Spec => ImplementsAtomicCommit`.

`IInv` adds to these: locals of idle callers are reset (`LocalInv`); at most one
call of `Prepare` is past its claim, and its index says exactly which
participants are prepared (`PrepareOne`, `PrepareInv`); `tx.Prepared` lags behind
by at most the participant that call is about to record (`PreparedInv`);
rollback lists are disjoint, unfinished and only exist after the abort
(`OnlyAborted`, `TodoInv`); at most one call of `Commit` is past its claim, and its
index and error list say who committed (`CommitInv`). None of the safety
invariants is inductive alone: `NoOrphanPrepared`, for instance, needs to know
that in Voting only the caller in `prepareDone` can hold an unrecorded participant.

**Ownership** (`OwnershipProofs`), for any handles, callers, tokens and number of delayed
requests (`OwnershipAssumption` says that `MaxLate` is natural and that 0 and "absent" name no handle and no token):

- `EpochOrder`: `Spec => WritesInEpochOrder`;
- `OneHandlePerEpoch`: no two handles ever have the same epoch.

The invariant says that no epoch is ahead of etcd's revision and the last write
is not newer than the record in etcd (`EtcdInv`), that what a handle holds was in
etcd under its own lease (`RecordInv`), and that every call and every delayed
request is about a handle that exists (`CallInv`). The lease in `RecordInv` is
why an acquisition with the same token cannot adopt the record of another one.

For the watch, and every history of the key (`OwnersAssumption`: no owner has the blank
token, which `validateAcquire` refuses):

- `ConsumerIsExact`: `WatchSpec => []ViewExact`.

`WatchInv` says that the consumer has the record of the revision the watch has reached, and that
`lastRecord` and `present` agree with it, also while a broken watch is set up again. To see that
reconciling skips only what the consumer has, it needs `Lasts`: a record is in etcd at
every revision from the one that wrote it to its next change.

**Lock** (`EtcdLockProofs`), for any lock objects, managed or not, and any natural `MaxAcquire`:

- `TokenOrder`: `LockSpec => WritesInTokenOrder`;
- `MutualExclusion`: at most one handle at a time passes the comparisons of `GuardedTxn`;
- `NoLossMissed`: `LockSpec => []LockLossNotMissed`.

For the first two the invariant counts as `Owner` also a handle whose `TryLock` has just
succeeded and which has still to read its token: there is at most one `Owner`,
and its key is newer than any write so far (`TokenInv`). For the third, `LossInv`
says that a monitor that left the verdict to a Release did so while that Release had
still to withdraw its intent or to look at `lossObserved`.

**Pool** (`PoolInvariant` has the definitions, `PoolProofs` the proofs), for any set of keys, any finite set of callers, any
number of instances and any capacities; `PoolAssumption` says that there is a key and
that `1 <= SoftCap <= HardCap`, which `AcquireChecked` tests first:

- `PoolTyped`: types;
- `NeverOverbooked`, `AdmittedSafe`, `BuildsOnce`: the three invariants of the run `pool`
  (callers of `ReserveChecked`, which applies no capacity itself, are taken to keep to `HardCap`);
- `ReservationsExact`: `reserved` of an instance is the number of callers that build it
  with a reservation or were admitted and have not released.

`WithinCapacity` is not inductive: a caller admits itself on an occupancy that it
measured before it took the lock. `StaleInv` says what such a number is still worth: while
the revision is the same, it falls short of the load of now by no more than the
reservations of now, which the check under the lock adds. `VersionInv` is the same for builds:
a caller that saw no build in progress and whose key version is current is right.
`OwnInv` ties what a caller is about to do to the state of the entry it does it to, and says that
every placeholder has a builder; `SweepInv` that what Reap took out was empty. The count of
callers enters through `Counting`, the facts about cardinalities the steps need, which `CallersCounted`
proves once for every finite set of callers.

**Actor** (`ActorProofs`), for any messages, generations (`ActorAssumption`: `MaxGen` is
natural), lane capacity and number of restarts:

- `OneGeneration`: `Spec => []GenerationsApart`;
- `CountersAddUp`: `Spec => []Conservation`;
- `StopIsFinal`: `Spec => StoppingIsFinal`, the safety half of `StopCompletes`.

The invariant ties the state of the actor to the place its current run is at, all others
having ended or not begun (`PcInv`): each critical section of `a.mu` rests on that. `StopInv`
says that a closed `stopCh` belongs to a run that is stopping, `MailInv` that a run past its drain leaves
nothing in the lanes, which needs that senders are refused then, and `FlowInv` that the places of
a message are disjoint, from which the cardinalities follow.

**Scheduler and Runner** (also `ActorProofs`). The scheduler for any capacities and any
bursts with `1 <= MaxHigh < MaxNonLow` (`BurstsAssumption`; 8 and 16 in the code), the runner for
any clients and stoppers and any queue size:

- `LanesDoNotStarve`: `LaneSpec => []WaitBounded`;
- `CommandsInOrder`: `RunnerSpec => []FifoConservation`;
- `ResultsAreTrue`: `RunnerSpec => []ResultTruthful`.

`BurstsBound` bounds the wait of a lane by the burst counters of now: the head of the normal lane
has waited for the current burst of high messages, or for one burst before it and the one message that
followed. It is kept because a lane that the turn has looked at was empty (`NoneWaits`), so
what arrives meanwhile has not waited. For the runner, `Stages` ties the place of the goroutine to
the state, `Once` says that a command is in one place only and started only where it is or was
executed, and `Told` what a client was told of it; `complete` is the one step where all three meet.

**Stores** (`StoreProofs`), for any messages, requests, clients and handlers, without an
assumption on the constants:

- `NilIsTrue`: `SQLSpec => []NilMeansDone`;
- `OutboxRefinement`: `SQLSpec => ImplementsMemoryOutbox`: each statement on the table is
  a step of the memory store or changes no row;
- `SingleOwner`: `SQLInboxSpec => []OneOwner`;
- `DedupHolds`: `SQLInboxSpec => ProcessedMeansDone`.

For the outbox the invariant only has to say which call a statement belongs to, because
every `UPDATE` repeats in its `WHERE` what the state machine demands. For the inbox,
`OneOwner` alone is not inductive: `InInv` adds that an owner's row is still there, which
is why the `INSERT IGNORE` of another handler fails, and that `done` is the set of processed rows.

**Log writer** (also `StoreProofs`), for any writers and buffer:

- `CloseFlushes`: `LogSpec => []ClosePersists`.

`LogInv` follows a message whose Write has returned: it is counted as dropped, written, in the buffer
or in the hand of a consumer, and the hands of `run` and `Close` are empty once they have ended.

**Network** (`NetworkProofs`):

- `QueueIsExact`: `QueueSpec => []QueueExact`, for any packets, streams and capacity
  (`ClassesAssumption`: a packet is a command or a frame, not both);
- `CallbackOnce`: `SessionSpec => []RemovedOnce`, for any closers and packets;
- `ResponsesServed`: `RouterSpec => []WaiterServed`, for any callers and completers
  (`CompletersAssumption`: they are not called "cleanup" or "close") and any ids, used once or again;
- `SessionsAgree`: `NegotiationSpec => SessionAgreed`, for all policies
  (`PoliciesAssumption`: their bounds are natural numbers, their flags Booleans).

Of the queue, the invariant adds that a frame is in it once and as the `latest` of its
stream (`FrameSlots`): so replacing in place disturbs no command. `CallbackInv` says that a goroutine
that is done has seen the callback return. `RouterInv` says that what a call
reads back is a registration of its own id (`SameId`), and that the result of a waiting caller is in
exactly one place, the map, the hands of a sender, or its channel, unless another call has taken it
out (`OnePlace`). The negotiation needs most: `NegotiationInv` says that what is on the wire
was sent under the sender's compatibility of now (`NegotiationTypes`), and that between two enabled
ends a frame is the first packet to be read as long as it matters (`FramesLead`): a client that fell back to legacy
still has the server's frame before any other packet, and so ends rather than working with another version.

**Delivery** (`DeliveryProofs`), for any messages and handlers, any number of retries,
losses, duplicates and crashes, with and without a transaction around the effect:

- `EffectsOnce`: `DeliverySpec => []EffectOnce`.

The entry of a message does not determine its effect: after a crash an entry in progress
says nothing, and after `Cleanup` the entry is gone although the effect was applied. `EntryInv` says
that in the second case the message is `Over`: resolved in the outbox, with no copy on its way or in the
hands of the sender, and each step of the sender keeps that. `OwnerInv` says that a
request has one owner, who knows whether the effect was applied; `AckInv` and `LeftInv` follow the
effect from the reply to the acknowledgement and from there to Applied.
The stores are those of memory; `OutboxRefinement` is what makes the outbox of SQL one of them.

**Only model-checked**: liveness (`PreparedResolved`, `LossNoticed`, the properties
named `...Returns`, `...Ends`, `...Resolved` and the like), which is out of the prover's
reach; `ClosedInOrder`, because it rests on what the recursive `TopologicalSort` computes; and
`ViewsExact`, because the events are flattened sequences over sorted sets: what they hold takes an induction.
Every other invariant and every action property that a run checks is proved.

## Not modelled, and why

- WebSocket and HTTP: the session structure of TCP over goroutines of `net/http`
  and `gorilla/websocket`, whose scheduling is the library's.
- The worker-pool dispatch of a TCP session (the model is of a session that
  dispatches in `process`), its encryption, the heartbeat of the client session and
  the UDP client.
- Packets, key exchange and rotation, rate limits, options: bytes and
  statistics, which the models abstract. Frames of the negotiation are well formed.
- Message router, `zObject`, `zInject`: tables under one lock, without a protocol.
- `zConfig`: file parsing, and a watcher without a promise about gaps; what it can
  miss is listed as a hazard.
- `zMetrics`, `zProfiling`, `zScript`, `zSignal`, the rest of `zLog`: wrappers of
  libraries and I/O. `zNavMap`: a sequential search without shared state.
- Of modelled parts: `MaxReconnectTimes = 0` of `TcpClient`, reconnecting without a
  limit (the model's limit is positive), nested calls across Runners, the deprecated store
  operations and the length of the retry delay, the component registry and the
  report of `zServer`, the process-wide event bus, the aggregation of health
  reports. `GridManager` has one writer per map, as
  `docs/引擎强化路线图.md` requires of the layer above.
