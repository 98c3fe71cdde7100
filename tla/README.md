# Formal models of inferbus

TLA+ specifications of inferbus, the TLC configurations that check them and
TLAPS proofs of their main safety properties. Everything is written from the Go
code under `src/`; the docs are only consulted where a property states what
they promise.

## 1. The system and its parts

inferbus is an inference gateway on NATS JetStream. One binary runs in one of
four roles.

| Part (source) | State it keeps | Operations | Talks to |
|---|---|---|---|
| gateway handlers (`gateway/gateway.go`) | per request: phase, deadline, bytes written | dispatch, streamOut, resultOut, cleanupDisconnected | relay, gateway tables, admission |
| relay (`relay/relay.go`) | per listener: a channel of 256 frames, the next sequence number | Publish, Listen, Next, Cancel, DeleteQueued | INFERENCE stream, core NATS |
| worker (`worker/worker.go`) | one goroutine per delivered message; a process context | RunReady, handle, meter | consumer, engines, METERING stream |
| INFERENCE, METERING (`wire/streams.go`) | stored messages, deliveries, ack timers | JetStream's own | everyone |
| admission (`gateway/admission.go`) | per model: a backlog reading (1 s), a consumer handle | allow | consumer info |
| gateway tables (`gateway/kviam.go`) | snapshots of KEYS, ALIASES, BUDGETS | watchKV, consumeKV, probeBucketIdentity, lookups | KV buckets |
| harvester (`harvester/harvester.go`) | held batch, in-flight batch, flushing flag | handleMsg, triggerFlush, doFlush, heartbeat, shutdown | METERING, ClickHouse, ledger |
| budget ledger (`harvester/budget.go`) | a row per budgeted key, dirty set, month | AddUsage, reconcileKeys, loadBaseline, flushOne, checkMonthRollover | KEYS, BUDGETS, ClickHouse |
| aggregates (`controlplane/{org,apikey,alias}`) | event streams | decide, evolve | event store |
| CONTROL_EVENTS relay (`controlplane/relay.go`) | outbox position | RunRelay | event store, JetStream |
| KV projections (`controlplane/kvproj.go`) | position, marker, sticky failure, hash by key id | warmup, replay, apply, ResyncKV | CONTROL_EVENTS, KV buckets |
| SQL read model (`controlplane/readmodel.go`) | position, marker, tables | apply | CONTROL_EVENTS, Postgres |
| runner (`controlplane/runner.go`) | projector generation, health | start, resync, shutdown | all of the control plane |
| admin API (`controlplane/admin.go`, `auth.go`) | none of its own | commands with one retry, authorisation from the read model | aggregates, read model |

How they interact: a gateway publishes a request to INFERENCE and listens on a
per-request core-NATS subject; a worker pulls the message, answers with frames on
that subject, acks, and publishes a usage event to METERING; the harvester
inserts usage rows and feeds the ledger, which publishes BUDGETS; the control
plane turns admin commands into events, the events into KEYS and ALIASES; the
gateways watch the three buckets and decide on them who may send what.

What is hard in it: at-least-once delivery with the ack at the very end;
cancellation in two best-effort calls; frames that are dropped silently when a
client is slow; state that is read, used without its lock, and stored again
(budget rows); crash and replay of projections whose steps are not atomic;
caches that are allowed to be stale. `PROJECT.json` lists these hazards with the
lines where they bite and the properties that cover them.

What makes each part correct, in a sentence:

- *request path*: a client sees consecutive frames of a single attempt and a
  complete answer or an error; once an ack has arrived the request never runs
  again; every handler returns and abandoned work stops; what was acked is
  billed, and a second bill means that an ack was lost.
- *admission, gateway tables*: readings are never used beyond their stated age;
  a table is only replaced by a complete snapshot, and a recreated bucket is
  noticed.
- *harvester*: no usage event is acked before its request has a row; what
  `handleMsg` took is answered before `Run` returns, and the rest is redelivered.
- *ledger*: BUDGETS is, up to entries still marked dirty, what the rows say; the
  rows converge to the stored usage of the current month; removed budgets
  disappear.
- *projections*: a bucket is a prefix of the event history; no event is skipped;
  replay after a crash is harmless.
- *control plane*: no invariant of an aggregate is broken by concurrent commands.

## 2. Modules

| Module | What it is |
|---|---|
| `RequestPath` | gateway handler, listener, work queue and worker handlers of one model |
| `MCRequestPath` | instances of it for TLC (symmetry sets); one `.cfg` per run |
| `RequestPath_proofs` | its theorems about queue, workers and bills |
| `RequestStream_proofs` | its theorems about what a client receives |
| `BudgetLedger` | the harvester's budget ledger against KEYS, BUDGETS and the sink |
| `MCBudgetLedger` | instances of it for TLC; one `.cfg` per run |
| `BudgetLedger_proofs` | its theorems |
| `ControlEvents` | the three aggregates as operators: decide, evolve, load from the log |
| `ControlEvents_proofs` | lemmas about loading and versions, for every log |
| `ProjectedView` | abstract specification: a view that follows an event log one event at a time |
| `KVProjection` | event log, relay, KV projectors and resync; each bucket implements `ProjectedView` |
| `MCKVProjection` | its instance for TLC; one `.cfg` per run |
| `KVProjection_proofs` | its theorems, and that it implements `ProjectedView` |
| `ControlPlane` | admin requests, the SQL read model they are authorised by, the runner's projector generations |
| `MCControlPlane` | its instance for TLC: requests and histories |
| `ControlPlane_proofs` | its theorems |
| `Harvester` | the METERING batcher against its consumer and ClickHouse |
| `MCHarvester` | its instance for TLC |
| `Harvester_proofs` | its theorems |
| `Gateway` | the tables of KEYS, ALIASES and BUDGETS, the gates of `dispatch`, admission control |
| `MCGateway` | its instance for TLC |
| `Gateway_proofs` | its theorems |

`KVProjection` and `ControlPlane` both extend `ControlEvents`. The modules meet at
these places, each modelled on both sides by what the other relies on:
`Gateway`'s last gate publishes where `RequestPath` begins; `RequestPath`'s
`Meter` publishes what `Harvester` consumes; `Harvester`'s reports are
`BudgetLedger`'s `AddUsage`, its rows that module's `stored`; `ControlPlane`'s log
is the one `KVProjection` relays; `KVProjection` and `BudgetLedger` write the
buckets `Gateway` watches.

### 2.1 RequestPath

One model is enough: requests for different models share neither queue nor
consumer. A request is delivered at most `MaxDeliver` times; the pair `<<r, d>>`
is the handler goroutine of its `d`-th delivery.

| State | Code |
|---|---|
| `gw`, `cut`, `end` | where `dispatch`/`streamOut`/`resultOut` is, why it left its loop, what the client got |
| `client`, `expired` | `r.Context()`; the absolute deadline that travels in the `Ib-Deadline` header |
| `out` | chunks written to the client, each with its attempt and sequence number |
| `chan`, `next`, `dropped` | the listener's channel and expected sequence number; a ghost for a full channel |
| `msg`, `deliveries` | the message in the stream and the consumer's delivery count |
| `stalled` | ghost: the queue redelivered over a live attempt |
| `lost` | the attempts whose ack did not reach the queue |
| `pc`, `on`, `seq`, `cause` | an attempt's program counter, process, frame counter and `context.Cause` |
| `outcome`, `bill` | status it ends with and the status of the usage event it published |
| `wk` | worker process: up, draining (signal received), stopped (consumer closed) |

The actions are those of the code, one for each atomic step that another process
can observe: `Listen`, `Publish`/`PublishFails`, the outcomes of `Listener.Next`
(`ReadChunk`, `ReadTerminal`, `ReadGap`, `ReadTimesOut`, `ReadCanceled`), the two
calls of `cleanupDisconnected` (`Cancel`, `DeleteQueued`); in a worker
`DiscardExpired`, `Start`, `EmitChunk`, `EngineSucceeds`, `EngineCanceled`,
`EngineFails`, `DeadlineFires`, `Ack`, `Meter`; `Crash`, `Shutdown`,
`StopConsumer`, `Restart` of a process; and JetStream's `Deliver`, `AckTimeout`,
`AgeOut`, modelled from the configuration the code gives it.

Abstractions, and why they lose nothing the properties ask about:

- A chunk is its attempt and sequence number. Streaming and non-streaming
  requests differ in the frames they get; the gateway and the worker read the
  same body, so a frame of the other kind is not possible.
- `Cancel` reaches in one step every attempt that has subscribed, or, under the
  fault `"transport"`, any of them: the gateway drops the error of its publish
  (`gateway.go:425`) and the worker goes on when it could not subscribe
  (`worker.go:187`). A core-NATS message that is still under way is covered by
  the attempt not yet having subscribed.
- Every ack of the worker is `_ = msg.Ack()`: handed to the connection, awaited by
  nobody, its error dropped. Under the fault `"ack"` the queue never sees it; the
  handler goes on the same, its heartbeats are over, and `AckTimeout` redelivers.
- Gateway and worker clocks agree; `RequestTimeout` is below the stream's
  MaxAge of 30 minutes, so a message is reaped only after its deadline.
- A panic of an engine is one of the ways it fails.
- Heartbeats appear as their effect: `AckTimeout` needs a dead attempt, or one
  whose ack was lost, unless the instance has the fault `"stall"`.
- When an attempt ends its `on` and `cause` are reset: nothing reads them again,
  and the state space stays small.
- What precedes `Listen` in `dispatch` (readiness, authentication, alias,
  allowlist, budget, admission) only refuses requests.

### 2.2 Runs

All instances have one or two requests and one or two workers: the hazards are
races within a request (two attempts need two workers; three never coexist
because `MaxDeliver` is 2 in production) or of two requests for one slot. Two
chunks per attempt are the fewest for which splicing, gaps and a lost tail
differ; the liveness run needs none, since a chunk only takes the read loop once
more round, and has room for the faults instead. A channel of one frame overflows
at once, and holds the only frame when it does not. Deadlock is not checked since
a finished instance stops.

| Run | Instance | Shows |
|---|---|---|
| `request_safety` | a stream of two chunks, two workers that crash, lose their heartbeats or lose their acks, channel of one | `TypeOK`; `StreamFromOneAttempt`: what a client sees is never spliced of two attempts, nor with a hole; `CompleteWhenDone`: [DONE] means nothing is missing; `RedeliveryNeedsALoss`: a request is redelivered over an attempt that died, was dropped or lost its ack, unless heartbeats were lost; `RebilledOnlyAfterLostAck`; `SettledIsBilled`: no path that acks loses the usage event by itself; `SettledNeverRedelivered`: an ack that arrived is final |
| `request_pair` | two requests, one slot per worker, crashes | `EngineConcurrency` |
| `request_live` | a request answered in one frame, one worker that crashes or is shut down, a client that hangs up, publishes, deletes, cancels, acks and usage events that fail, channel of one | `EveryHandlerReturns`: the gateway's read loop ends whatever is lost; `AbandonedWorkStops`: once the gateway is done, so are the queue and the workers, eventually; `StartedIsMetered`: an attempt that runs reaches its end or dies with its process |
| `request_cancel_race` (violation) | a hangup and no other fault | `CancelCoversPickup`, the comment at `relay.go:126` |

The last one states what a comment says and the code does not do (`findings` in
`PROJECT.json` quotes the line): the cancel misses a message that is being picked
up. The module shows six more differences from the comments and docs, which have
no run of their own:

- `docs/design.md:130`, "redelivery occurs only on worker death (no ack). Canceled
  requests must never redeliver", forgets the ack that does not arrive
  (`worker.go:264`), after which a finished attempt's request runs and is billed a
  second time with nobody dead. `RedeliveryNeedsALoss` and
  `RebilledOnlyAfterLostAck` say what holds instead.
- A stream that is cut after its header (deadline, gap in the frames) ends
  without a word (`gateway.go:482`: only `!wroteHeader` is answered), although
  the comment at `gateway.go:458` emits an error event for a worker's error "so
  the client can tell a genuine failure apart from a clean, silent end of
  stream".
- A request that is deleted from the queue before a worker saw it is not metered
  (`gateway.go:426`), where `README.md:36` says "every request (success, error, or
  cancel) emits a usage event".
- A client that hangs up during the publish makes `relay.Publish` return an error
  although the message may be stored. `dispatch` closes the listener and answers
  503 (`gateway.go:349`); nobody knows the sequence number, so nothing is
  deleted. `docs/design.md:126` says "On cancel it deletes the queued message
  (`DeleteMsg(seq)`) so it never reaches a worker."
- A worker that dies between its terminal frame and the ack is followed by an
  attempt that sends another terminal frame, where `docs/architecture.md:105`
  speaks of exactly one.
- A frame that is dropped because the client is slow is noticed as a gap only by
  a later frame (`relay/relay.go:69`): if the last one is dropped the client
  waits for its deadline.

Fairness (`FairSpec`): gateway handlers, worker handlers and a stopping process
are running goroutines (weak fairness of each); time passes; JetStream
redelivers and reaps. `Deliver` needs strong fairness because a worker that
restarts for ever disables it again and again, yet keeps coming back to pull. A
client, a crash, a signal and an engine that has not been canceled owe nothing:
`EngineStep` has no fairness, so the liveness properties hold although an engine
may hang until its context is canceled. Under `"stall"` liveness is not claimed.
The liveness run has one worker since a second one adds no new reason to wait.

### 2.3 Proofs

`RequestPath_proofs` and `RequestStream_proofs` prove, for any sets of requests
and workers, any `MaxDeliver`, `MaxInflight` and `ChanCap` of at least one, and any
combination of faults:

| Theorem | Property |
|---|---|
| `TypeCorrect` | `[]TypeOK` |
| `RedeliveryMeansLoss` | `[]RedeliveryNeedsALoss` |
| `RebillMeansLostAck` | `[]RebilledOnlyAfterLostAck` |
| `SettledGetsBilled` | `[]SettledIsBilled` |
| `SettledStaysSettled` | `SettledNeverRedelivered` |
| `EnginesWithinSlots` | `[]EngineConcurrency` |
| `StreamNeverSpliced` | `[]StreamFromOneAttempt` |
| `DoneMeansComplete` | `[]CompleteWhenDone` |
| `StoppedForGood` | a request that is stopped stays stopped |
| `AbandonedWorkNeedsOneStop` | what fairness has to provide for `AbandonedWorkStops` |

None of these is inductive. `IInv` adds what the queue knows of a message
(`QueueInv`: an unpublished request has no message, a queued one has deliveries
left, a pending one has an attempt), how far an attempt can be (`AttemptInv`:
nothing beyond the delivery count has started, only a finished attempt has
billed, an attempt whose ack arrived has taken the message out of the queue, an
attempt that is on a worker is live, one that lost its ack has replied) and who
is left on redelivery (`RedeliveryInv`: without lost heartbeats only attempts that
are dead, dropped or without their ack precede the current one). Type
correctness is part of the same induction, since `deliveries + 1 <= MaxDeliver`
needs `QueueInv`. There is one lemma per conjunct; in each, one step per action
that touches its variables and one for all the others. `HandlerEffect` and
`LossEffect` state once what a handler's steps and the loss of handlers do to
`pc`. The only assumption is `RequestPathAssumption`, which TLC evaluates on
every run. Bills: the attempt that billed is finished, so if another delivery
followed it, it is one that lost its ack. That there is a bill at all rests on
`BilledInv`: an attempt that has replied knows its outcome, one that has finished
has billed that outcome unless the publish failed, and an acked message has an
attempt that took it (`Took`).

Engines: a live attempt's message is pending unless it was redelivered over it or
removed (`HeldInv`), and no more than `MaxInflight` are pending (`SlotInv`), so
running attempts map into the slots.

Streams are harder, because frames of several attempts meet in one channel and
the reader knows them only by their sequence numbers, which every attempt counts
from 0. `ReaderInv` follows them there. `FrameInv`: a frame has been sent by a
delivered attempt, and a done frame by one that succeeded and sends no more.
`OutInv`: what the client has got is what the listener has read, one chunk per
number. `StreamInv`: while no frame was dropped, the frames of an attempt are in
the channel without gap or repetition, each preceded there by the one before it
or being the one the reader expects of that attempt; so of two attempts only the
one whose chunk was read first can have the next number, and the other's 0 shows
as a gap. `AnswerInv` remembers after [DONE] which attempt it came from. After a
drop only a single delivery is claimed for: then the sequence numbers of one
attempt alone suffice.

Abandoned work: `Stopped` says that the handler has returned, the deadline has
passed, the message cannot be delivered and no engine runs. `StoppedForGood`
proves that no step leaves it, although a worker's library may still hold the
message: `handle` compares the deadline before it calls the engine, so without
the deadline in `Stopped` it would be false. `AbandonedWorkNeedsOneStop` concludes
that `AbandonedWorkStops` follows, for any constants, once each closed request is
stopped one time. Only that last step rests on fairness and on TLC's run.

Only model-checked: the liveness properties, which are out of the prover's reach.

### 2.4 BudgetLedger

The ledger lives in the harvester process. Four goroutines share its rows under
one mutex and release it around every call to BUDGETS and to ClickHouse; the
model has one action per critical section and per such call.

| State | Code |
|---|---|
| `tracked`, `row`, `dirty`, `month` | `l.entries`, `l.dirty`, `l.month`; `row.base` is a ghost, the month whose baseline the row rests on |
| `applied` | ghost: the snapshot `reconcileKeys` saw last |
| `runpc`, `ids`, `pending`, `force` | the loop of `Run`: in `flushTick` (its `dirtyIDs` and `pending`) or in a baseline pass |
| `flight` | what `flushOne` snapshotted in its first critical section, and whether its `version` has moved since |
| `todo`, `reading` | baseline passes: keys to ask the sink about, answers not stored yet, for `Run` and for the rollover ticker |
| `kv`, `bucket` | BUDGETS: its entries, whether it exists |
| `keys` | KEYS: budget by hash; a rotated key has two hashes |
| `stored`, `unreported` | the sink's usage rows by month; rows whose `AddUsage` has not run |
| `clock` | the month |

| Actions | Code |
|---|---|
| `Reconcile` | `applyKeysSnapshot` and `reconcileKeys`: largest budget per id, new rows, marks for deletion, resurrection |
| `AddUsage` | `AddUsage`, called by the harvester's flush |
| `CheckMonthRollover` | `checkMonthRollover` up to its baseline pass |
| `BaselineSkipped`, `BaselineRead`, `BaselineFails`, `BaselineStore` | `loadBaseline`: first critical section with the query; second critical section |
| `FlushTick`, `FlushDone`, `RebaselineAll`, `LoadDone` | `flushTick`, `rebaselineAll` |
| `FlushSkips`, `FlushStart`, `WriteOk`, `WriteFails`, `WriteNoBucket`, `FlushFinish` | `flushOne`: its first critical section, the call with its outcomes, its last critical section |
| `Tick`, `Insert`, `EditKeys`, `BucketLost`, `Restart` | time, the harvester's inserts, the control plane, operators, the process |

Abstractions:

- A usage row is one token. Budgets are one or two tokens, so exceeding one,
  reaching it and staying below it all occur.
- The version counter of a row is only read by `flushOne`, to learn whether it
  has moved; `flight.touched` is exactly that.
- `loadBaseline` reads the row's month and then asks the sink. One step does
  both: if the row moves to another month in between, the answer is discarded.
- The baseline pool answers in any order; how many queries run at a time does
  not matter.
- The KEYS watcher applies the current snapshot some time later. A snapshot it
  skips has no lasting effect: what reconciling twice does, reconciling with the
  second snapshot does, up to a dirty mark.
- `now()` is read with the lock held; the ledger compares months only.
- A write that fails may have happened, also after the process died.

Runs:

| Run | Instance | Shows |
|---|---|---|
| `ledger_rotation` | one key under two hashes, three edits, BUDGETS failing and destroyed | `TrackedAsApplied`: rows follow the fold of KEYS, a resurrected key stays tracked; `EntriesAreTracked`: every entry has a row that can delete it; `BudgetedStaysLive` through a rotation |
| `ledger_live` | one key, two months, one usage row, two edits, a restart, calls fail | `TypeOK`; `CleanIsPublished`: flushing forgets nothing; `EntriesAreSound`: no total counted up from another month's baseline, no verdict beside other numbers; `Converges`: BUDGETS comes to rest at the sink's total of the current month |

The invariants of both runs hold for every value of the constants (section 2.5).

Three differences from the docs have no run:

- `AddUsage` adds to a row whatever month the usage is of (`budget.go:282`): usage
  of last month that is stored after the rollover is counted, and published,
  under the new label until the next baseline, where `docs/design-usage.md:39`
  says "Entries reset at month rollover." `EntriesAreSound` is about baselines
  only: it claims that a published total was counted up from a baseline of the
  month it is labelled with, not that all of it is that month's usage.
- A baseline that was read before an insert and is stored after `AddUsage` has
  counted it takes the count back (`budget.go:796`: `used` is overwritten) until
  the next baseline, where `docs/architecture.md:366` says "the ledger never
  *under*-counts".
- When a budget is removed and given back around a month rollover, the row is
  resurrected with the old month's usage (`budget.go:701`, while
  `checkMonthRollover` passes over rows marked for deletion,
  `budget.go:917`): it is live with last month's label, where
  `docs/design-usage.md:39` says "Entries reset at month rollover." The next
  rollover moves it on.

One key is enough for safety: rows of different keys share only `flight`, which
is busy with one key at a time, and the month. Two months are one rollover; the
second would find what the first left. Two edits remove and restore a budget;
three also walk a rotation. `Converges` is claimed modulo `Stranded`, the two
states known not to heal by themselves: the stale row just described, and the
entry of a key whose budget was removed while no ledger ran (a new process
starts without rows and never lists BUDGETS, `budget.go:184`, so nobody deletes
it). A further difference has no run: when the bucket is destroyed, the key
being flushed recreates it (`budget.go:413`, `:1013`), but rows that are not
dirty are not published again until they change, although
`design-usage.md:43-45` calls the bucket rebuildable. That is why
`CleanIsPublished` is claimed without the fault `"bucket"`.

Fairness: the goroutines run and their tickers tick (weak). Writes and queries
that are retried for ever succeed now and then, and `Run`'s `select` does not
starve one of its two tickers (strong): Go chooses among ready cases at random.
Restarts and faults owe nothing.

### 2.5 Proofs about the ledger

`BudgetLedger_proofs` proves, for any keys, hashes, budgets, bounds and faults:

| Theorem | Property |
|---|---|
| `LedgerTypeCorrect` | `[]TypeOK` |
| `NothingForgotten` | `[]CleanIsPublished`, if `"bucket" \notin Faults` |
| `RowsFollowKeys` | `[]TrackedAsApplied` |
| `PublishedEntries` | `[]EntriesAreSound` |
| `NoOrphans` | `[]EntriesAreTracked` |

The induction needs what `flushOne` may rely on while it holds no lock.
`FlightInv`: the key in flight stays tracked and dirty, an untouched snapshot
is still what the row says, and after a successful write BUDGETS holds it;
`RowInv`: the verdict of every row fits its numbers and a complete row rests on
its own month; `RunInv`: only `flushTick` writes, and it has no key in hand that
is not dirty; `KvInv`: a destroyed bucket is empty. `RowStep` says once why a
critical section on some rows disturbs none of this, provided it bumps their
versions and leaves them dirty or incomplete; `AddUsage`, `CheckMonthRollover`,
`Reconcile` and `BaselineStore` are instances of it. The interesting case is a
baseline that finds no difference and so bumps nothing: by `RowInv` it leaves the
row as it was. `QuietStep` covers the actions that touch neither rows nor
BUDGETS. The only assumption is `BudgetLedgerAssumption`.

Only model-checked: `BudgetedStaysLive` and `Converges`, which are liveness.

### 2.6 ControlEvents and KVProjection

`ControlEvents` has the deciders of the three aggregates, one operator each for
decide and evolve, `Load`, the fold of a stream (`History` has the states on the
way, after each prefix of the log), and `Version`, the length of a stream, which
is what an append compares. Names, roles of no
consequence, timestamps and the two limits of a key are abstracted; the last
owner, a disabled key, an archived project and reserved params are not. A
key's hash, random in the code, is the position of the event that introduces it
in `KVProjection`, and an unused number in `ControlPlane`.

| State of `KVProjection` | Code |
|---|---|
| `log`, `relayed`, `stream`, `next` | the event store, the relay's checkpoint, CONTROL_EVENTS, the position of each durable consumer |
| `mark`, `pos`, `latch` | CP_MARKERS; a projector's `pos` and sticky `failed` |
| `hashById` | the keys projector's `hashByID` |
| `stage` | between the KV calls of one event: nothing done, new entry put, all written |
| `aliasKV`, `keysKV`, `torn` | the buckets; a ghost: reset, and the marker not yet |
| `phase`, `job` | `RunKVProjectors` (replay of ALIASES, of KEYS, live) or `ResyncKV` |

| Actions | Code |
|---|---|
| `AppendKey`, `AppendAlias`, `RelayPublish`, `RelayRepeat`, `Expire` | the event store and the relay, at least once; the stream's age limit |
| `Start`, `AliasesReplayed`, `KeysReplayed` | `warmup` and the two `Replay` calls, then the consumers |
| `ApplyAlias`, `ApplyKeyPut`, `ApplyKeyDelete` | `applyOne` of each projector, one action per KV call |
| `Save`, `Skip`, `Redeliver` | the end of `apply`; an event filtered or seen before; a lost ack |
| `FailMissing`, `FailError`, `Halt` | `apply`'s latch; `RunKVProjectors` returning |
| `Resync`, `ResetAliases`, `ResetKeys`, `ZeroAliases`, `ZeroKeys`, `ResyncFails` | `ResyncKV` with the projectors stopped |
| `Crash`, `Restart` | the process |

`ProjectedView` is the abstract specification of a projection: the event log
grows, single slots take the value they have after the next event that changes
anything, the mark passes an event once it shows in whole. `BucketsFollowLog`
states that ALIASES and KEYS implement it (`INSTANCE ... WITH`; `Truth` is told by
the aggregates, not by the projector). The promise is void from the reset of a
bucket until its marker is reset: `ResyncKV` resets both buckets before either
marker (`kvproj.go:714`), so a resync that fails in between leaves a bucket that
is empty behind a marker that is not, until the next resync. `NoHole` and
`Converges` except exactly that and a fail-stopped projector.

| Run | Instance | Shows |
|---|---|---|
| `projection_safety` | a key, an alias, three events, any two faults (crash, failing KV call, resync, repeated publish or delivery) | `TypeOK`; `BucketsFollowLog`; `NoHole`: a projector with nothing left to consume has skipped nothing; `RotationLeavesNoGap`: a live key is accepted under some hash at every moment; `MissesAreSelfMade` |
| `projection_live` | the same with two events | `Converges` |
| `projection_missing` (violation) | one crash, three events of one key | `RememberedHashHasEntry`, the comment at `kvproj.go:448` |

`MissesAreSelfMade` says when a projector finds an entry missing, which is a
fail-stop. There are two ways. A rotation that is applied again after a crash
between the delete of the previous entry and the marker (`kvproj.go:427`)
misses the entry it deleted; every restart does the same until an operator
resyncs. And `warmup` reads hashes from the whole log (`kvproj.go:301`): a change
that is still to be projected is written to the hash of a later rotation, where
nothing is yet. That is the run `projection_missing`, and the finding of
`PROJECT.json`. The replay of a resync misses nothing, so a resync heals both.

Three events are the shortest log with a change before a rotation, and hold a
key's whole life (created, changed, rotated or disabled); two faults let a resync
meet the crash it is asked for, or a second crash interrupt the recovery of the
first. The two projectors share only the latch, so one key and one alias are
enough. Liveness is checked on two events to stay within minutes; it adds to
`NoHole` only that the projectors do not stop on their own.

Fairness: the relay, each projector's goroutine, the start and the resync
proceed and a process that ended is started again (weak); appends and faults owe
nothing.

The relay publishes the log densely and in commit order: `stream` takes the next
position each time. The store assigns the positions and hands them out by its
claim-and-drain, which `relay.go:45-63` only calls; that it skips none and
reorders none is assumed here and cannot be checked against this code. What the
relay itself adds, publishing again after a failure, is `RelayRepeat`.

Not in the model: which of two errors `RunKVProjectors` reports. When one
projector fails and its cancellation makes the other latch `context.Canceled`,
the alias error is returned first and `runProjectors` ignores a cancellation;
whether a cancelled apply latches is the event library's doing.

### 2.7 Harvester

| State | Code |
|---|---|
| `buffer` | what nats.go's `Consume` has fetched and `handleMsg` has not been called with |
| `held`, `inFlight` | `h.held`, `h.inFlight` |
| `flush`, `acks` | the goroutine of `triggerFlush` (or `finalFlush`): inserting, or how many items it has answered |
| `phase` | `Run`: consuming, waiting for `flushWG`, in `finalFlush`, returned; or the process gone |
| `status`, `age` | the consumer's view of a message, and ticks since it was last in progress |
| `beat`, `busy` | time since the last heartbeat; since the insert began |
| `rows`, `inserts`, `reports` | `usage_events` after merging; `usage_hourly`, which adds up; calls of `onRow` |
| `unanswered` | ghost: messages `handleMsg` was called with and the process has not answered |

| Actions | Code |
|---|---|
| `Deliver` | a fetch of `Consume`, within the consumer's MaxAckPending |
| `Handle`, `TermInvalid` | `handleMsg`, called with the messages in their order (`Take`) |
| `TriggerFlush`, `InsertOk`, `InsertFails`, `AckNext`, `FlushDone` | `triggerFlush`, `doFlush`: deduplication by request, insert, acks with `onRow`, naks |
| `HeartbeatHeld` | `heartbeatHeld` |
| `Stop`, `FinalFlush`, `Exit` | `Run` after its context was cancelled; `cc.Stop()` discards what is in `buffer` |
| `Crash`, `Restart` | the process; also an unexpected end of the consumer, after which `Run` returns without a final flush |
| `Redeliver`, `Tick` | the consumer's AckWait; time |

A tick is ten seconds, so AckWait is six, the heartbeat two, the timeout of an
insert three and of the final one one; what is shorter (the flush ticker, the
redelivery of a nak) always comes within a tick. `Quiet` lets time pass only when
nothing is due; `handleMsg`, which waits for a mutex that is never held for long,
has then been called with all that was fetched. The batch limit has no guard: a
flush may start at any time something is held, full or not.

| Run | Instance | Shows |
|---|---|---|
| `harvester` | two attempts at one request and one event to be terminated, two of them unanswered at most, any three faults (insert, answer, crash, stop) | `TypeOK`; `StoredBeforeSettled`: an acked message's request is in `usage_events`, and the ledger never hears of more than was inserted; `InsertsBoundedByFaults`: rows are inserted again only after a fault; `ShutdownAnswersHandled`: when `Run` returns, what `handleMsg` was called with is answered; `EveryRequestStored`: every event with a request ends acked and its request with a row |

The comment at `harvester.go:214-218` says that when `Run` returns "every message the
consumer ever delivered" has been answered, "never left dangling". The code does
less, a difference that has no run of its own: messages that `Consume` has fetched
and `handleMsg` has not been called with are delivered as far as the server knows;
`cc.Stop()` (`harvester.go:219`) discards them, and they wait for their AckWait.
Nothing is lost by it, which `EveryRequestStored` shows, so the shutdown property
claims only what `handleMsg` was called with.

`EveryRequestStored` does not say that every event is stored. `doFlush` folds the
events of a batch by request (`harvester.go:360`): the first is inserted, the
others are acked with it and leave no row, which in the instance happens to the
second attempt whenever both are in one batch.

Two messages make a batch, two batches, and a pair to deduplicate; the third stays
out of batches. With a limit of two the third message is only delivered when
another one is answered or nak'd. A failed insert may have
been stored; `InsertsBoundedByFaults` shows how far `usage_hourly`, which unlike
`usage_events` does not merge, can be off. Three faults let an insert fail while
another batch is held and the process then stop. `docs/architecture.md:264`
says `usage_events` is "keyed on req_id"; the table is ordered by org, project,
key, time and request (`chsink.go:123`), so two attempts at one request in
different batches are two rows, as in the model.

Fairness: messages are delivered and redelivered, goroutines run, inserts end,
time passes, a process that ended is started again (weak).

`Harvester_proofs` proves, for any set of messages, any assignment of requests to
them and any faults, from `HarvesterAssumption`:

| Theorem | Property |
|---|---|
| `HarvesterTypeCorrect` | `[]TypeOK` |
| `StoredFirst` | `[]StoredBeforeSettled` |
| `ShutdownAnswersTaken` | `[]ShutdownAnswersHandled` |
| `InsertsPaidFor` | `[]InsertsBoundedByFaults` |

A message that is being acked could be one that was never inserted, and a process
could return with messages in a batch, as far as the properties themselves tell.
`IInv` says why not: what is being acked has been inserted (`InsertedInv`); a
message `handleMsg` has taken and not answered is held, or in flight and not yet
come to (`AnswerInv`);
`finalFlush` leaves nothing held and `Exit` nothing in flight (`PhaseInv`); and each
row of the batch still to be reported was inserted once more than it has been
reported (`ReportInv`). A batch inserts one row per request, that of the first
message about it. That there is a first one (`FirstExists`) is the least element
of a set of indices, by well-founded induction.

`InsertsBoundedByFaults` bounds a count and says nothing of the messages that are
about to raise it. `CountInv` keeps the balance that does: for each event, its
inserts, its items still to be answered in the batch, those held behind it, those
fetched and not seen yet and the faults still to come (`Claims`, `Budget`) are at
most its messages accounted for, one for a batch being acked, and all the faults there may be (`Cover`,
`MaxFaults`). A message is `Accounted` for when it will not come again: it is
acked, or it is in the process and, while that runs, pending with an age no
greater than the time since the last heartbeat, so that the heartbeat always
beats its AckWait; a process asked to end takes none. Fetched messages are kept
alive by nobody, but `handleMsg` sees them before time passes and a stop discards
them (`BufferInv`). A delivery raises a claim
and the cover together; an ack lowers a claim and keeps its message accounted
for; a failed insert, a stop or a crash gives up as many messages as it drops
items; and
what is lost beyond that (an insert stored all the same, an answer, a heartbeat)
is a fault spent. The insert that a stop cancels fails without one: the stop has
paid for it, which `Stopping` remembers. `CountStep` shows it action by action.

Only model-checked: `EveryRequestStored`, which is liveness.

### 2.8 Gateway

| State | Code |
|---|---|
| `kv`, `made` | the buckets, and which incarnation exists (the stream's `Created`) |
| `link`, `base`, `on` | where `watchKV`'s loop is; the `Created` its probe compares with; the incarnation its watcher reads |
| `due`, `scan`, `working`, `snap` | what the watcher will deliver, the part that belongs to its initial replay, `consumeKV`'s `working`, the snapshot served |
| `scanned` | the `ready` channels that are closed |
| `stage`, `may`, `route`, `resp` | a request's gate, what it has read so far, its answer |
| `cache`, `reading`, `wait` | `admissionChecker`'s entry and its age; a fetch under way and how long it has taken |
| `clear`, `full`, `steady` | histories the properties speak of |

| Actions | Code |
|---|---|
| `ResolveBucket`, `WatchBucket`, `WatchFails`, `Deliver`, `Sync`, `Probe`, `WatchEnds` | `watchKV`, `consumeKV`, `probeBucketIdentity` |
| `Authenticate`, `Resolve`, `CheckBudget` | `checkReady`, `authenticate`, body, alias, allowlist, budget |
| `Admit`, `BeginFetch`, `Fetch`, `StoreReading` | `allow` with its cached and its fetched verdict |
| `Publish`, `Served` | the end of `dispatch`; the queue |
| `Edit`, `Destroy`, `Create`, `Tick` | the writers of the buckets, an operator, time |

One key, one alias with an org and a global definition, one model: entries share
nothing but the snapshot they are in, and a bucket of two entries is enough for a
partial one. A budget "within" is the same to the gate as none. A tick is half a
second. The instance has both deployments: a static gateway with admission
(limit one, two handlers) and one in kv mode without it; tables and admission
share no state.

| Run | Instance | Shows |
|---|---|---|
| `gateway` | two faults or changes: an edit, a destroyed bucket, a failing watch, a failing reading | `TypeOK`; `BlindWatcherIsNoticed`: the probe sees any bucket its watcher is blind for, because `Created` is read before `WatchAll`; `SteadyEntriesDecide`: a scan under way refuses no one; `AdmissionFollowsBacklog`; `TablesFollowBuckets` |

`AdmissionFollowsBacklog` is claimed for the cache's second and a fetch's half
second together: the entry's age starts when a fetch has ended, and the comment
about one second of staleness leaves the fetch out. Within that time a burst is
admitted on one reading, so the backlog overshoots the limit by the burst. An
error, a timeout, or the hangup of the client who happens to ask, all cache an
empty queue for everyone.

A publish that fails is answered with 503 and its message is not in the backlog.
In the code it may be stored all the same; such a message counts like a request
that was published, whose handler has nothing to do any more.

Fairness: each watch loop runs and each probe comes around (weak). Two faults
let a bucket be destroyed and its successor be edited or lost.

`Gateway_proofs` proves, for any deployments, limits, targets of the alias, numbers
of handlers and faults, from `GatewayAssumption` and `NoBucketAssumption` (a bucket
that does not exist is told apart from every content):

| Theorem | Property | Invariant |
|---|---|---|
| `BlindnessIsNoticed` | `[]BlindWatcherIsNoticed` | `SeenInv`: `base` and `on` are not ahead of `made`, and while a watcher reads, `base <= on` |
| `AdmissionIsTimely` | `AdmissionFollowsBacklog` | `AdmissionInv`: what a reading or the cached entry says was true no longer ago than the fetch has taken, or than the entry's age and a fetch together |
| `SteadyDecides` | `[]SteadyEntriesDecide` | `SteadyInv`: a steady entry is in the snapshot once there is one, in a synced loop's `working`, and in a scanning loop's once the replay has come to it; `GatesInv`: a request in a handler has found the tables filled |
| `GatewayTyped` | `[]TypeOK` | the three above with `TablesInv`, `WatchInv`: the scan is among the entries due and both tables hold values of their bucket, `RequestsInv`: a request holds what a table held |

`AdmissionFollowsBacklog` is an action property: every step that decides is
`Admit` or `StoreReading` of the request decided on (`VerdictsAreOwn`), and for
those the invariant bounds the age of what is read. `SteadyInv` is where the
order of `consumeKV` matters: a scan builds on an empty `working`, so a snapshot
may only be replaced when no replay is left (`Sync`); that a replay lists every
entry is `ListingIsComplete`.

What is not a plain type in `TypeOK` is that everything left of a scan is still
due: a change moves its entry to the end of what the watcher delivers, and must
lose no other. `AllButOne` shows it of `RemoveFirst`, and `LoopHears` that it is
enough.

Only model-checked: `TablesFollowBuckets`, which is liveness.

### 2.9 ControlPlane

| State | Code |
|---|---|
| `log`, `room` | the event store; a bound on what is appended |
| `req` | a request being handled: authorised and checking, to be loaded, decided with a version, and its tries |
| `rows`, `mark`, `written` | the tables of the read model, the projector's marker, the writes done for the next event |
| `phase` | the SQL projector: live, failed (latched), stopped for a resync |
| `projFailed`, `relayFailed` | the two channels of `health` |

| Actions | Code |
|---|---|
| `Accept` | `authorizeOrg` and `Authorize` on the read model with `health.ok`, for each of the thirteen commands (`createOrg` ... `deleteAlias`); a key's existence |
| `CheckProject` | `createKey`'s lookup of its project |
| `LoadDecide`, `AppendEvents`, `Conflict` | `Runtime.Handle` and `handleWithRetry`: one retry |
| `Hangup` | the request's context |
| `ApplyRow`, `SaveMarker` | the projector's `apply`; two writes for an org's creation |
| `SQLFails`, `NoticeFailure`, `KVFails`, `RelayFails` | sticky errors and the closing of the failure channels |
| `StopProjectors`, `StartProjectors`, `Reboot` | `resyncFn`; the end of the process |

There is one org; orgs share no aggregate. `ApplyRow` reloads a key or project and
writes its row in one step, where the code loads first (`readmodel.go:742`, `:770`)
and writes a little later. The code's row may therefore lack events appended in
between, which the model's has; it never lacks the event being applied, and that
is all `RowsCoverMarker` asks. The projector reads the log in order:
that it gets every event is the subject of `KVProjection`, whose relay, durable
consumer and replay are the same. Response codes are left out, so a refused
request leaves no trace.

| Run | Instance | Shows |
|---|---|---|
| `control` | two requests at a time, thirteen possible ones, two new events on top of four histories, two faults | `TypeOK`; `OrgKeepsAnOwner`: two owners cannot remove each other; `EventsFitTheLog`: a key is created once and in a project that had been, a rotation names the hash that was current, nothing follows a disabling, a project is created and archived once; `AuthorizedByARoleOnceHeld`: no one is let in on a role that was gone before the marker; `RowsCoverMarker`: no row is older than the marker; `RowsConverge` |

The histories are an empty log, an org with two owners, one with a project and
an alias, and one with a key, so that two events and two callers suffice for
every race: each pair of commands meets on an aggregate that can refuse one of
them. `renameOrg` and `setAllowlist` are not sent: to what is checked they are
`upsertMember` without the member and `setLimits`. Two faults let a projector fail
and be resynced, a resync be interrupted, or a process restart twice.

What the model shows besides: `createKey` may create a key in a project that is
archived meanwhile (only its existence is checked); and `health.ok` stays true
while a resync has the projectors stopped, although its comment (`runner.go:140`)
speaks of a generation that is "still running", so roles are frozen and honoured
for as long as a resync may take (ten minutes).

Fairness: the projector runs, a resync ends, a process whose relay failed ends
and is started again (weak).

### 2.10 Proofs about the control plane

`ControlPlane_proofs` proves, for any number of requests at a time, members,
projects, keys, aliases, any commands, any history and any faults:

| Theorem | Property |
|---|---|
| `ControlPlaneTyped` | `[]TypeOK` |
| `OwnerStaysForever` | `[]OrgKeepsAnOwner` |
| `HistoriesFit` | `[]EventsFitTheLog` |
| `NobodyWithoutARole` | `[]AuthorizedByARoleOnceHeld` |
| `RowsNeverOlder` | `[]RowsCoverMarker` |

The assumptions, each evaluated by TLC on the run: `NoneAssumption` (the empty
string is no role, no state of a project and no hash), `ControlPlaneAssumption`
(finitely many subjects and callers; the bootstrap identity is not a member),
`CommandsAssumption` (each command is one of the messages of `*.proto` and is for
an aggregate of its type) and `HistoriesAssumption`. The last says that a log
the process finds consists of the events of `*.proto` and satisfies what
`OrgKeepsAnOwner` and `EventsFitTheLog` say of it, because earlier runs of the same
program have written it; the theorems are the step from one run to the next,
and the empty log, with which every installation begins, satisfies it.

The invariant `IInv`, checked by TLC in every state of the run before it was
proved, has four parts beside the types.

- `DecidedInv`: the version a request has loaded is not ahead of its stream, and
  while it is still the stream's, the events the request carries are what it
  would decide on the log of now. Another request's append either lengthens the
  stream, and then the append is a conflict, or is for another aggregate, and
  then the state decided on is the same. This is what `Conflicts` is for: with it
  every append is a decision on the present state.
- `HomeInv`: `createKey` has looked up a project of another aggregate than the one
  it writes, with no version to protect it; it remains true because no event
  takes a project out of an org (`EvolveOrgType`).
- `FitInv`: the log fits. Given the two above it follows from the deciders alone
  (`OrgDecision`, `KeyDecision`, `AliasDecision`): an owner who is not the only one
  leaves another (`OtherOwner`), and so on.
- `RowInv`: each row of the read model shows the state after a prefix of the log
  that ends between the marker and the event after it, for a key (which is
  reloaded) anywhere from the marker on, and once all writes for that event are
  done, not before that event. So the marker may move only then, and a failure
  between two writes, a resync or a restart, which begins the event again, finds
  nothing that is ahead of what will be written. An archived project, which is
  reloaded too, shows the same as a step of the fold would: nothing revives it
  (`EventsFitTheLog` again).

What `Load` does to a longer log is induction over the log, and the library's
induction theorems take an operator as parameter. `ControlEvents_proofs` goes
around them: that `History` satisfies its recursive equation, and that two logs
with a common prefix have a common history, are shown by a least counterexample
in the set of positions where they would fail (`LeastNatural`, from the
well-foundedness of `<`). From these follow `LoadAppend` (one more event is one
more `Evolve`, of the aggregate it is about only) and `VersionAppend`, which is
all the control plane needs.

Only model-checked: `RowsConverge`, which is liveness.

### 2.11 Proofs about the KV projections

`KVProjection_proofs` proves, for any keys, aliases, targets and values, any
bound on the log and any faults:

| Theorem | Property |
|---|---|
| `ProjectionTyped` | `[]TypeOK` |
| `NothingMissed` | `[]NoHole` |
| `NoKeyWithoutEntry` | `[]RotationLeavesNoGap` |
| `MissesExplained` | `[]MissesAreSelfMade` |
| `BucketsAreViews` | `BucketsFollowLog`, the refinement of `ProjectedView` by both buckets |

The assumptions are `NoneAssumption`, `KVProjectionAssumption` (the bounds are
numbers, the faults are among those listed) and `EntryAssumption` (no entry of
KEYS is the absence of one); TLC evaluates them on each run.

None of the five is inductive. That a write shows the next event needs to know
that the event applied *is* the next, that the bucket holds what the write
expects to find, and that the remembered hash is the right one. The invariant
`IInv`, checked by TLC in every state of the safety run and, with two keys and
four events, in eleven million states of a larger one before it was proved, says
so in these parts:

- `LogInv`: each event of a key is one its state allows, a rotation and a
  disabling name the hash then current, and a new hash is new. From it follow
  the life of a key (`KeyLater`: never enabled again, never without a hash
  again), that no two keys share a hash (`HashOfOne`), and what each kind of event
  does to what KEYS should hold (`CreatedStep`, `RotatedStep`, `DisabledStep`,
  `ChangedStep`: one slot, or two for a rotation).
- `StreamInv`: a position is published after all that come before it in the log,
  although some are published again. With `ConsumerInv` (whatever the durable
  consumer has left behind is applied) a live projector that takes up an event
  has had all before it; with `ProjectorInv` (a running projector's `pos` is the
  marker) so has one that replays. Both together are `AtIsNext`: the event
  applied is the first after the marker that is for the projector. That the
  consumer's position may be anywhere when the projectors go live, behind the
  replay or, after `Expire`, ahead of what the marker says, is why `ConsumerInv`
  holds only in the live phase (and, for ALIASES, while KEYS is replayed): it is
  the end of the replay that establishes it.
- `AliasBucketInv`, `KeyBucketInv`: a bucket shows the log at its marker or after
  the next event for it; KEYS may also show the middle of a rotation (`Half`),
  whether the projector is in it or a crash has left it there. `stage` says which
  of them while an event is being applied.
- `HashInv`: a remembered hash is the key's current one or, from warmup, that of
  an event still to come, which has no entry yet (`FutureHash`); so a change
  either finds the current entry or none, and never writes to a wrong one.
- `ResyncInv`: what holds at each step of a rebuild, and that the replay of a
  resync into the empty bucket meets no half-done event and, for a key that
  exists, no hash from the future, which is why it misses nothing.

`BucketsAreViews` then names the step of the view that each action is: recording
a command is `Extend`; each KV call `Show`; saving the marker `Commit`; resetting a
bucket `Discard`; resetting its marker `StartOver`; while the promise is void any
write is another `Discard`; all else stutters.

Only model-checked: `Converges`, which is liveness.

## 3. What is only model-checked

Proved for all constants: every safety property, invariant or action property,
that a passing run checks. Only model-checked is liveness, which the prover
cannot do.

## 4. Not modelled

- Parameter merging, event codecs, SSE and JSON of the engines: pure functions
  without state. What another part relies on is modelled there (reserved
  params, unique hashes).
- Read-only routes (lists, usage, workers, models, readyz), metrics, command
  line, configuration, generated protobuf, test utilities: no protocol state.
- Worker advertising and discovery: a best-effort heartbeat into a bucket with an
  expiry that only a listing reads, and a query at start-up.
- The SQL of `ClickHouse sink` and of the read model's queries; pool and HTTP
  set-up; the event library's own loops, which are modelled from their use.
