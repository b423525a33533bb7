# TLA+ models of goplatform

goplatform is a Go library for services: an orchestrator (`pkg/platform`) starts
and stops components, and the other packages provide components (brokers,
databases, caches, HTTP server, workflows, discovery, observability) and the
logic around them. The modules here model the parts in which order, concurrency
and failure decide about correctness. TLC checks them on small instances, and
TLAPS proves every safety property that the runs check, the refinements of abstract
specifications included, for every value of the constants.

## 1. The system

| Part | State | Operations | Interacts with | What is hard |
|---|---|---|---|---|
| App (`pkg/platform/app.go`) | components, plugins, four hook lists, under a mutex; locals of `Run` | `Register`, `Use`, `On*`, `Run` | calls `Init`/`Close` of plugins, hooks, `Start`/`Stop` of components; those may call back | registration during `Run`, two snapshots, failure at any callee, shutdown timeout |
| Kafka consumer (`pkg/broker/kafka/consumer.go`) | readers, cancel functions, wait group; per loop the message and its attempt | `Subscribe`, consume loop, `Stop` | handler, DLQ publisher, kafka-go reader | cumulative offsets, retries against cancellation, `Subscribe` against `Stop`, crashes |
| NATS subscriber (`pkg/broker/nats/subscriber.go`) | connection, JetStream context, subscriptions, wait group | `Start`, `Subscribe`, message callback, `Stop` | handler, DLQ publisher, nats.go | callbacks after `Drain`, unlocked reads of `js`, redelivery, restart |
| Saga (`pkg/workflow/saga`) | steps, options; locals of `Execute` | `Step`, `Execute` | Temporal activities | partial rollback, cancellation |
| Idempotency (`pkg/server/idempotency.go`) | the store's entry per key | the middleware, per request | `SetNX`/`Get`/`Set` of `pkg/redis` | concurrent duplicates, store errors, expiry, panics |
| Kafka producer, NATS publisher, Redis, PostgreSQL, S3 | a handle under a mutex | `Start`, `Stop`, commands | client libraries | a handle copied before `Stop` and used after it |
| PostgreSQL `WithTx` | a transaction | begin, fn, commit, rollback, panic | pgx | failure of commit and of rollback |
| Resolver, Consul registry (`pkg/discovery`) | a cache per service, watchers | `Pick`, `Start`, `Stop`, watch loop | registry | a slow `Discover` overwriting a newer watch update |
| HTTP server | routes, listener | `Mount`, `Route`, `Use`, `Start`, `Stop`, readiness | health checkers of App | routes added late, shutdown window |
| Workflow client and worker | SDK handles | `Start`, `Stop` | Temporal | `Stop` giving up at its deadline |
| Observer | providers, swapped log handler | `Start`, `Stop` | OpenTelemetry | several shutdowns, one failing |
| Config loader | merged configuration | `Load`, `Watch` | file system | reload with rollback against readers |
| Development runner (`cmd/goplatform/run.go`) | child process, debounce timer | `restart`, `stop` | file watcher, signals | the timer racing `stop` |
| In-memory broker (`pkg/broker/membroker`) | handlers per topic | `Publish`, `Subscribe` | handlers | nothing: a synchronous test double |

What makes each correct:

- App: components come up in registration order and go down in reverse;
  whichever way `Run` ends nothing it started is left running; plugins are open
  as long as a component runs; hooks run in their phase; all errors are
  reported; `Run` ends.
- Kafka consumer: a committed offset passes only messages that were dealt with;
  the retry budget is exact; `Stop` leaves no loop behind and returns.
- NATS subscriber: only handled or dead-lettered messages are acknowledged; an
  unacknowledged one comes again; `Stop` returns.
- Saga: exactly the completed steps are undone, in reverse order, or the result
  says so.
- Idempotency: the handler runs once per lifetime of the entry and duplicates
  get one answer.
- Clients: no handle leaks and none is kept closed; `Stop` of the producer leaves
  nothing unsent; what a batch returns says what it did; a stopped worker runs on
  only if its `Stop` said so; no call, `Start` or `Stop` hangs.
- PostgreSQL, HTTP server and observer, as a service: what `WithTx` returns agrees
  with what the server did; the database and the telemetry outlive the requests;
  the shutdown ends.
- Discovery: lists reach the cache in the order of the registry, and the cache
  comes to hold the registry's state; `Stop` leaves no goroutine.
- Development: one child at most and none left behind; a service never uses a
  configuration that was read in part; reported changes are followed.

The list of what can go wrong, line by line, is `hazards` in `PROJECT.json`.

## 2. Modules

| Module | Models | Notes |
|---|---|---|
| `AppLifecycle` | `App` and one call of `App.Run` | one action per call that `Run` makes or per phase it leaves |
| `LifecycleContract` | what `Run` promises about components | abstract specification; `AppLifecycle` implements it |
| `MCAppLifecycle` | constants of the App run | `OwnName`: which component implements `Named` |
| `KafkaConsumer` | `Consumer.Subscribe`, `consumeLoop`, `processMessage`, `Stop` | reader and committed offsets are the environment |
| `DeliveryContract` | what a subscription promises about its topic | abstract specification; `KafkaConsumer` implements it |
| `NatsSubscriber` | `Subscriber.Start`, `Subscribe`, callback, `processMessage`, `Stop` | server and client library are the environment |
| `Saga` | `Saga.Step`, `Execute`, `compensate*` | activities are the environment |
| `SagaContract` | what a saga promises about its steps | abstract specification; `Saga` implements it |
| `Idempotency` | the middleware and the store behind it | one key |
| `Clients` | Redis, S3, Temporal client and worker, Kafka producer, NATS publisher | one behaviour is about one of them |
| `PostgresDB` | `DB.Start`, `Stop`, `Ping`, `WithTx` | pgx is the environment |
| `Server` | `Server.Start`, the serving goroutine, `Stop` | net/http is the environment |
| `Observer` | `Observer.Start`, `Stop`, the handlers a log record goes through | OpenTelemetry is the environment |
| `Service` | `PostgresDB`, `Server` and `Observer` under an App | composition |
| `Discovery` | resolver, Consul registry, watch goroutines | Consul is the environment |
| `DevRunner` | `runDev` and `runner` | the developer and the child are the environment |
| `ConfigLoader` | `NewLoader`, `Load`, `Watch` | the files are the environment |
| `DevSession` | `DevRunner` with a child that uses `ConfigLoader` | composition |
| `AppLifecycleProofs` | proofs about `AppLifecycle`, and that it implements the safety part of `LifecycleContract` | |
| `KafkaConsumerProofs`, `NatsSubscriberProofs`, `SagaProofs`, `IdempotencyProofs` | proofs about the module in the name | |
| `ClientsProofs` | proofs about `Clients`, and about `Discovery`, the client of the registry | `Discovery` names its specification `ResolverSpec`, so that both can be extended |
| `ServiceProofs` | proofs about `Service`, and with it about `PostgresDB`, `Server` and `Observer`; and about `PostgresDB` by itself | `Alone` is the database by itself, with any number of Starts |
| `DevSessionProofs` | proofs about `DevSession`, and with it about `DevRunner` and `ConfigLoader` | |

### AppLifecycle

`components`, `plugins` and `hooks` are the fields of `App`; the other
variables are the locals of `Run` and a history of what was called. `pc` is the
phase. `Register`, `Use` and `AddHook` (the four `On*` methods) are enabled at
all times, which covers other goroutines, hook bodies and `Plugin.Init` bodies
alike: all of them take the mutex for the whole method. `Run` is split
wherever it calls out or takes a snapshot. `CallStop` and `StopReturns` serve
both the regular stop loop and `stopStarted`. The call of a `Stop` and its
return are two steps, because the shutdown timeout may elapse in between.

Hook lists are their lengths, `started` is a prefix of the second snapshot and
therefore its length, an error is the operation that failed and for whom.
`Run` is called once; calling it again is not modelled. A panic of a callee is
not modelled: `Run` has no recovery and the process ends.

`LifecycleContract` says that components form a stack: started on top while the
application is not draining, taken off the top afterwards, nothing twice. The
refinement mapping reads the stack off `snap` and the loop indices, so that the
index arithmetic of the code is what the run checks.

### KafkaConsumer

`Subscribe` is two steps, because the reader and the cancel function are
recorded under the lock and `wg.Add` happens after it. A loop is a state
machine over `loop[s]`; `Stop` is one step per copy, cancel, close and wait.
Whether a DLQ publisher is configured is chosen in the initial state (`hasDLQ`).
`FetchMessage` may return a message although the context is cancelled (the
client chooses between the two), and may fail for reasons of its own
(`FetchErrors`). A commit may fail, in particular after the reader was closed.
`Crash` forgets everything but the committed offset, and the process subscribes
again. `settled` and `abandoned` are history: messages handled, dead-lettered or
given up without a DLQ; and messages `processMessage` returned from otherwise.

`DeliveryContract` sees of this only the group's offset, the two histories and
`dealt`, how often each message was settled or left behind: this happens in the order
of the topic, and to no message that the offset is past (`dealt` counts, so dealing
with such a message again would be a step the contract does not have). The offset
moves only forward, to just past a settled message; messages left behind before that
one are passed over, which is what `kafka_no_message_lost` is about. The mapping is
the identity on these variables. Retries, shutdowns and crashes are stutters of it.

`MaxRetries` is a natural number. `WithRetry` also takes negative values; the retry
loop of `processMessage` then has no iteration, and messages are committed without a
call of the handler.

Assumed of the environment: one partition per subscription, no rebalancing,
synchronous commits (`WithCommitInterval` is not used) and a group ID, so that
the reader resumes at the committed offset.

### NatsSubscriber

The callback takes the lock for its guard, so the guard is one step. Every
`s.js != nil` in `processMessage` reads a field without the lock, so the read and
the acknowledgement that follows it are two steps. nats.go runs one callback per
subscription at a time; `Drain` only asks for draining; buffered messages still
reach the callback. JetStream redelivers after a Nak or when the acknowledgement
wait is over, possibly while the first delivery is still being handled.

`Stop` calls `wg.Wait` (`StopDrained`), the callback whose `Done` brings the counter
to zero wakes it (`Finish`), and `Stop` then runs on at some later time (`StopWoken`).
If a callback of a buffered message has added itself in between, Go's `WaitGroup`
panics with "WaitGroup is reused before previous Wait has returned", and the process
ends: `stopPc` is then `"panicked"` and nothing happens any more.

### Saga

A step is whether it has a compensation. An activity succeeds, fails, or, on a
cancelled context, is refused without running; the latter is how Temporal treats
activities of a cancelled workflow. The workflow may be cancelled at any time.

`SagaContract` knows nothing of the two ways of compensating, of loops and of options
beyond whether compensations follow each other: steps are taken in order until one
fails, and each completed step is compensated at most once, in the ordered case the
last one first. The mapping reads undone and lost steps off the results.

### Idempotency

Requests with the same key go through `SetNX`, then either the handler, `Set` and the
response, or `Get` and the decoding of what is stored. Each store call is atomic
at the server and may fail; the reply of a `SetNX` that took effect may be lost.
The entry may expire at any time, since nothing relates the TTL to the time a
handler takes. Requests without a key, or with another one, do not interact.

### Clients

Five packages share one pattern: `Start` opens a handle of a library and `Stop`
closes it, both under the component's mutex; a call copies the handle under the
mutex and uses the copy after unlocking. The module states the pattern once
(`EndStart`, `EndStop`, `CopyHandle`, `Use`) and gives each component its
instance: which ways out of a failed `Start` close what was opened, what `Stop`
waits for, what a copy still does after it. A handle is the number of the `Start`
that opened it, so a copy that outlives a restart is told from the new handle.

The producer runs all hooks and then writes the batch in one call; the writer's
`Close`, called under the mutex, waits for writes under way and for its queue. The
publisher sends a batch message by message and copies its handle for each; its
`Stop` only begins to drain. `sent` is what a library has written to the connection of
its server. For the producer that is all a nil of `WriteMessages` stands for: `Start`
leaves `RequiredAcks` of the writer at its default, `RequireNone`, so the broker is not
asked for an acknowledgement. In JetStream mode `sent` is what the stream holds, and the
server may drop a message whose `MsgId` (the key) it has stored; it need not, since the
key may be empty and the dedupe window may have passed. Messages carry their caller,
their number in the batch and the attempt. The worker takes the client's handle at its `Start`; its
`Stop` waits for the SDK worker until the context's deadline. That the client is
stopped after its worker is what the App promises for this registration order.

### PostgresDB, Server, Observer and Service

`PostgresDB` follows a call of `WithTx` or `Ping` from the copy of the pool to
the return of the deferred function. An error is the set of errors it wraps.
`server` is what PostgreSQL has made of the transaction; a `COMMIT` whose answer is
lost has two outcomes. pgx gives the connection back when `Commit` or `Rollback`
returns, and `Close` of a pool waits for all of them, here while `DB.Stop` holds the
mutex. A function given to `WithTx` may use the DB itself (`FnCallsDB`), and waits for
that mutex. In `Service` the database is started once; the specification of the module
itself also stops it and starts it again while calls hold the pool of an earlier `Start`.

`Server` is a listener, the goroutine that enters `Serve` possibly after `Stop`,
and requests that are handled and then logged by `RequestLogging` or `Recovery`.
`Observer` is the swap handler that every logger holds, the two handlers behind it
and the three providers that `Stop` shuts down one after the other. The batch processor
exports what is queued from time to time, and drops a batch that the collector does not
take. `begun` and `refused` are history: whether `Start` ran, and which records were
offered to the collector in vain.

`Service` registers the three in any order (`order`), starts and stops them like
`App.Run` (the contract that `AppLifecycle` is shown to implement), and serves
requests whose handlers call `WithTx` or `Ping`. Its properties say which
registration order gives which guarantee.

### Discovery

`Register` is two calls to Consul, between which the entry is critical. The watch
goroutine of the registry and the watcher of the resolver meet at an unbuffered
channel (`WatchSend`). A list carries the index it was read at, so that an old
answer can be told from a new one. `Pick` is split at the call of `Discover`: its
answer is stored whatever the watcher has stored meanwhile. Every `Start` of the resolver has its
own pair of goroutines; a `Start` that fails cancels its pair and does not wait. The
context given to `Start` may end before `Stop` is called (`StartContextEnds`). The
registry begins in any state, also one that another run of a service has left.

### DevRunner, ConfigLoader and DevSession

`runDev`, the functions of fired debounce timers, and `restart` and `stop` under
the runner's mutex. Sources are the number of edits made, so that what a build
read can be compared with what there is. `ConfigLoader` reads its files one after
the other, each into the new configuration; a configuration is, per file, the
write it was read from. A file may be written in place, written so that it does
not parse, or replaced by a rename. In `DevSession` the loader lives and dies
with the child that the runner starts and kills.

## 3. What the runs show

Passing runs:

| Run | Shows | Bounds |
|---|---|---|
| `app_lifecycle` | start and stop order, nothing left running, plugins outlive components, early registrations are started, hooks run in phase, all errors are reported, `Run` returns, refinement of `LifecycleContract` | two names, two components of which one names itself, one plugin, one hook per list, one component whose `Stop` may never return |
| `kafka` | what a committed offset stands for, the retry budget, the loops `Stop` knew of have ended when it returns, refinement of `DeliveryContract`, `Stop` and the loop make progress | one subscription, three messages, one retry, with and without DLQ, two crashes, fetch errors |
| `nats` | only settled messages are acknowledged, redelivery, `Stop` ends | one subscription, two messages, one retry, two starts, every combination of the options |
| `saga` | undone or reported, refinement of `SagaContract` (only completed steps are undone, each once, in reverse order) | four steps |
| `idempotency` | one handler run per lifetime of the entry, one response within the TTL, only finished responses are replayed, what may replace a stored response | four requests, two expiries |
| `clients` | handles are accounted for, `Stop` flushes the producer, batch outcome, workers outlive their `Stop` only when that was reported, everything returns | two callers, two starts, batches of two, two calls per caller where earlier calls matter |
| `service` | no dangling transaction, `WithTx` against the server's decision, requests drained before the pool closes, telemetry complete, the shutdown ends | two requests, one connection, all six registration orders |
| `discovery` | pushes in order, the cache converges, `Stop` ends the watch, a watch loses no change | one instance, one picker, any first state of the registry and one change after it, two starts |
| `dev_session` | no stray child, whole configurations, reported changes are followed | two edits, two files, two writes |

Runs in which the code does not do what its comments say (each is a finding in
`PROJECT.json` with the line it quotes):

| Run | What happens |
|---|---|
| `kafka_no_message_lost` | after a failed DLQ publish the next commit passes the message |
| `nats_stop_waits` | a buffered message passes the guard between `wg.Wait` and the clearing of the connection |
| `saga_cancelled` | a step fails, and once the workflow is cancelled, be it before or after that, the compensations are refused |

### Exceptions the properties make

Some properties are stated with a way out on purpose, because the code has one:

- `RunReturns` (App): a `Stop` that ignores its context (`Consumer.Stop` and
  `Subscriber.Stop` do). The shutdown timeout is handed to `Stop`, and `Run` does not
  enforce it.
- `LoopProgress` (Kafka): a loop that ended, which one failing fetch is enough for.
- `StopTerminates` (Kafka): a `Subscribe` that runs past `Stop`'s copies; its loop is
  cancelled by nobody and `wg.Wait` may wait for it.
- `StopTerminates` (NATS): the panic of `wg.Wait` counts as an end of `Stop`, and two
  subscriptions that were made past `Stop`'s copy may keep the counter above zero for
  ever by taking turns. `Redelivered` speaks of a process that has not panicked.
- `AckedOnlySettled` (NATS): no DLQ after a restart. A handler left behind by `Stop`
  can read `js` as nil where it decides about the Nak and, after the next `Start`, as
  set where it decides about the Ack, and then acknowledges a message whose
  handler failed.
- `SameResponseWithinTTL` (Idempotency) speaks of the time before the first expiry: a
  request that outlives its entry overwrites the response of the one that took
  the key over.
- `StoredResponseKept` (Idempotency): one response may replace another if the entry
  expired while one of the two was being computed, for the same reason. The marker
  replaces none.
- `BatchOutcome` (Clients): an error of the producer's `WriteMessages` says nothing about
  how much of the batch was written.
- `WorkerOutlived` (Clients): a worker whose `Stop` reported that it timed out.
- `ShutdownEnds` (Service): a function given to `WithTx` that calls a method of the DB
  waits for the mutex, which `DB.Stop` holds (`postgres.go:199`) while the pool waits
  for that transaction's connection. Both wait for ever.
- `DrainedBeforeClose` and `TelemetryComplete` (Service): the server is registered
  after the database or the observer, and its `Stop` did not run into its deadline. An
  observer whose turn never came, because a component before it failed to start, shuts
  down no provider; and a record counts as delivered when the collector refused it.
- `PushesInOrder` (Discovery): the goroutines of a failed `Start`.
- `NoStrayChild` (development): a restart that was due when `runDev` stopped the
  child (`run.go:129`).
- `ReportedChangesFollowed`: files that do not parse, and watches that are lost.

### Code and comments

Met while modelling, and not the subject of a run:

- `plugin.go:3` and `app.go:93` say that plugins are closed on shutdown; a failing
  startup (`app.go:214`, `256`, `266`) returns before the loop that closes them.
- `idempotency.go:40` promises 409 for a request in progress; after a failing `Set`,
  a panic or a crash the marker stays, and duplicates get 409 until it expires.
- `tx.go:36` says that an error of the rollback is joined with the original error;
  line 65 wraps the rollback's error and `ErrTxRollback` only. After every failing `Commit`
  the rollback answers `ErrTxClosed`, so the error of `Commit` is never
  returned, and `ErrTxRollback` is returned even where the commit took effect.
- `publisher.go:152` (NATS) says that `Stop` drains pending messages; `Drain` of
  the connection returns at once.
- `publisher.go:245` (NATS) builds the message without the headers of the broker message.
- With the key as `MsgId` (`publisher.go:258`), JetStream drops a different message with
  the same key that comes within the deduplication window, and stores a retried one
  twice if the window has passed or there is no key.
- `producer.go:216` (Kafka) calls a batch atomic, "either all messages are written or
  none are"; kafka-go may write part of it, and tells the caller which with an error.
- `producer.go:111` builds the writer without `RequiredAcks`, whose default is
  `RequireNone`: `Publish` returns nil for messages that no broker has acknowledged.
- `subscriber.go:223` and `290`: a callback let in between the `Done` that wakes `wg.Wait`
  and the moment `Stop` runs on makes `wg.Wait` panic; the comment at 282 is about
  this race, and the guard, which looks at the connection, does not exclude it.
- `observer.go:164-214` makes the providers in `New`; `Stop` returns at once if `Start` has
  not run (263), so when a component registered before the observer fails to start, their
  goroutines and exporters are left as they are.
- `WithRetry` of the Kafka consumer takes a negative number, with which no handler is called.
- `migrate.go:86` compares the first 14 bytes of the DSN with a prefix of 13.
- `server.go:172`: a second `Start` after `Stop` adds middleware to a router that has
  routes, which chi answers with a panic; `server.go:246`: `Mount` after
  `Start` changes a router that serves.
- `observer.go:244`: a `Start` after `Stop` logs to providers that are shut down.
- `loader.go`: a rename over a watched file ends its watch, and what is written
  between `NewLoader` and the start of `Watch` is not noticed.

### Why the bounds are enough

Two components are the least with an order between them and with one up while
the other fails; one hook per list because hooks of a list are interchangeable;
one plugin because plugins are a sequence without branching, and the proofs cover
any number of them. Three messages let a commit pass a message left behind and
leave one to resume with after a crash; two crashes let a reader resume twice.
Loops of two subscriptions share nothing but the wait group; the proofs cover any
number of them. A second start is the least that brings a stale copy, callback or
goroutine together with a new connection. Four saga steps leave room for a step
without compensation between two with one. Four requests with one key are two
duplicates for each of two lifetimes of the entry. A batch of two is the least
that can be sent in part. Two requests on one connection let one wait for the
other's connection. One change of the registry, from any first state, is enough for an
answer to be old: the code hands the index it got back to Consul and looks only at whether it has
changed. The proof of `PushesInOrder` is for any number of changes. Two files let a reload fail with the first one read.

Deadlock is not checked: all of these systems come to rest when `Run`, `Stop` or
`Execute` has returned, or a bound is reached.

### Fairness

- App: `Run`'s goroutine is scheduled and what it calls returns, timers fire, and
  a `Stop` that watches its context returns once the shutdown context has
  expired. Nothing is assumed about cancellation, registrations or a `Stop` in
  `Deaf`.
- Kafka: loops and `Stop` are scheduled, timers fire, client calls return. That
  the user's handler returns is an assumption of its own (`HandlerFairness`):
  `Stop` waits for it without a deadline. Messages, fetch errors and cancellations are not
  promised.
- NATS: callbacks and `Stop` are scheduled and handlers return. That the `Done` which
  reaches zero wakes `wg.Wait` is part of the action; how soon the woken `Stop` runs is left
  open. Strong fairness of the start of a callback stands for the client draining its
  buffer. The server delivers and redelivers.
- Clients: calls and the library's goroutines run on, dials, pings and writes have
  timeouts. Strong fairness of `CopyHandle` stands for a Go mutex, which does not starve
  a waiter.
- Service: `Run`, the serving goroutine and the handlers get on; nobody has to
  cancel or to send a request.
- Discovery: goroutines run on, the cache's TTL passes, `Pick` goes on being
  called, and Consul does not fail every `Discover` (strong fairness of its answer).
  Nothing is assumed of the queries of the watch, which may fail for ever; that they do
  not is the premise of `WatchFollows`, and of nothing else.
- Development: the tool, its timer and the loader run until they block; nobody has
  to edit or interrupt, and no child has to exit.
- Saga and Idempotency have safety properties only.

## 4. What is proved

Every safety invariant and action property of a passing run is a theorem, for every
value of the constants, and so are the refinements: of `DeliveryContract` and
`SagaContract` in full, of `LifecycleContract` its safety part (`Safety`, the contract
without its fairness). The proofs use the named assumptions
of the modules and nothing else. These say that bounds are naturals, or positive
where the code cannot do with none, that options are Booleans, and that markers
(`NoName`, `NoMsg`, `Absent`, `InProgress`) are not names, messages or requests.

Each proof has the same form: an inductive invariant `IndInv`, a lemma that `Init`
implies it, lemmas that each action preserves each conjunct it can disturb, and
one theorem per property, which follows from `IndInv` in a state. The invariants were
checked by TLC, on the instances of the runs, before they were proved (that of the
database by itself with three callers, two connections and three starts). What the
properties lack by themselves, and the invariants add:

- App (`TypeCorrect`, `RegisteredNamesUnique`, `StartStopOrder`, `CleanReturn`,
  `PluginsBracketComponents`, `AllErrorsReported`, `EarlyStarted`,
  `HooksBracketPhases`). That a stop loop leaves nothing running depends on where its
  index stands. `IndInv` adds `Cursors` (the indices in each phase), `SnapUnique` (the
  names in the snapshot are distinct, inherited from `NamesUnique` at the second
  snapshot) and `LifeFollowsStack`: exactly the first `UpCount` components of the
  snapshot are alive and only the topmost can be stopping. `PluginsFollowIndex` is
  the same for plugins. On top of it, `ErrorsTracked` says which local holds each
  error in each phase, `EarlyFollows` that what was registered early is in
  the snapshot, `HookedFollows` and `RanFollows` how many hooks have run.
- The contract (`RunImplementsContract`). Every step of `AppLifecycle` is a step of
  the contract or a stutter under the mapping `Running`, `Finished`, `Draining`. It
  needs `DrainPhases`: the shutdown context exists in the phases that stop components,
  and before them no component is down.
- Kafka (`CommitsAccounted`, `RetriesBounded`, `StopWaitsForLoops`). A commit is safe
  because of what happened before it, so `CoreInv` adds `LoopShape` (the message in
  hand is the last one delivered, the committed offset is not ahead of the reader)
  and `DeliveredAccounted` (what the reader has delivered is accounted for or is the
  message in hand). `StopQuiesces` needs `WaitGroupCounts`: the
  wait group is the number of loops that have begun and not ended.
- The delivery contract (`ConsumerImplementsDelivery`). That a message is dealt with in its
  turn follows from `CoreInv` once `LoopShape` also says that the offset is not ahead of
  the message in hand (`ProcessedInTurn`). Steps of `processMessage` then settle,
  leave or commit that message (`ProcessingRefines`), count what they do in `dealt`, and all
  others leave the contract's state alone (`OthersInvisible`).
- NATS (`TypeCorrect`, `OnlySettledAcked`). `WaitGroupCounts` equates the wait group
  with the number of callbacks past the guard, which is why it never becomes
  negative. `AckJustified` says why a callback that has come to the acknowledgement may make
  it; its exception, a nil `js` that stays nil, is where a restart breaks it.
- Saga (`UndoesCompletedOnly`, `UndoesBackwards`, `NothingSilentlyKept`).
  `BackwardPrefix`: the sequential loop has dealt with exactly the completed steps
  above its index; `AllAsked`, `ErrorsKept` and `EarlyEnd` for parallel
  compensation, its errors and an early end.
- The saga's contract (`SagaImplementsContract`). The same conjuncts say that a
  compensation that ends is one that is due (`EndsWhenDue`): not ended
  before, and, in the sequential loop, with all later ones ended. What its result
  changes is then one step of the contract (`EndRefines`).
- Idempotency (`HandlerRunsOnce`, `OneResponse`, `FinishedReplays`, `ResponseKept`). `RunsPaidFor`:
  every run of the handler but one is paid for by an expiry, and all of them are while
  no entry is stored. `EntryFinished`: what the store holds comes from a
  finished handler. `ResponseKept` is an action property and needs `OneCurrent`: at most
  one handler is within the lifetime of its entry, and while it is, the store holds its
  marker or what a handler that outlived its own entry has written over it.
- Clients (`NoHandleLeaks`, `ProducerFlushed`, `BatchResultTrue`,
  `NoWorkerForgotten`). `FieldIsOpen` also covers the states in which the mutex is
  held; `OldWritersIdle` says that only the writer in the field has work;
  `Batches` follows a batch through each mode at every point of a call;
  `WorkersPlaced` ties a worker to the client it runs on.
- Discovery (`OnePusher`). `WatchesFollowRun`: the goroutines are those of the Starts made
  so far, and while the resolver is stopped those of a Start that succeeded have ended.
- Service (`TxNeverDangles`, `ResultTrue`, `PoolOutlivesRequests`,
  `TelemetryFlushed`). `StackOK`: what is up is a prefix of the registration order.
  `PoolFollowsApp`, `ServerFollowsApp` and `ObserverFollowsApp` tie each component to
  its place in it, so that a component registered before another is up, and not being
  stopped, while the other is (`BelowIsUp`). `DBInv` relates each call, its connection and
  its transaction at the server; `RecordsKept` follows a log record to the collector.
  The size of the pool is arbitrary, and so are the number of requests and the order.
- The database by itself (`RestartsKeepLimit`, `RestartsLeaveNothing`,
  `RestartsKeepResults`). `DBInv` and the lemmas about calls are stated for any set of
  pools, and the steps of a call do not depend on it (`SameCalls`).
  `PoolFollowsLock`: every pool but `db.pool` is closed or not made, because `Stop` holds
  the mutex until the connections are back. So all connections in use are of `db.pool`
  (`AllOfPool`), and the limit of one pool is the limit of all calls (`WithinLimit`).
- Development (`OneChildAtMost`, `ConfigWhole`). `OneChild`: the child that lives is
  the one `r.cmd` holds, and there is none while a successor is built. `NothingDue`:
  after `stop`, unless a timer was due, nothing will start a child. `LoaderOK`: in a reload
  the configuration in use is no newer than the one it falls back on, and that no newer
  than the part read anew, which is why neither outcome takes a write back.

Only model-checked:

- the liveness properties (`RunReturns`, `StopTerminates` of both brokers,
  `LoopProgress`, `Redelivered`, `CallsReturn`, `ShutdownEnds`, `Converges`,
  `StopEndsWatch`, `WatchFollows`, `ReportedChangesFollowed`) and the liveness part of
  the App's `ImplementsContract`: they rest on fairness, and so on ENABLED, which the
  prover does not handle.

Only proved, with no run that lists them:

- `TypeOK` and `NamesUnique` of `AppLifecycle`, `TypeOK` of `NatsSubscriber`, parts of the invariants;
- `OnlyCompletedUndone` and `ReverseOrder` of `Saga`, which the refinement checked by the run
  implies;
- `OnePoolAtATime` of `PostgresDB`, and its other two properties through restarts: the App
  starts a database once, so the run of the service makes no restart.

## 5. Plan

All components with state of their own are modelled, and every safety property of a
run is proved. What is left:

1. Starts after a failed or an earlier `Start` of the HTTP server (`server.go:172`), which
   `Service` does not make.
2. A refinement between `Service` and `LifecycleContract`: `Service` follows the contract
   by its definition of `StartTurn` and `StopTurn`, and keeps no record of the components
   that have been stopped, which the contract's `finished` needs.
3. Several partitions per Kafka subscription, with rebalancing.

## 6. Not modelled

- The in-memory broker: a test double that calls its handlers synchronously.
- Kafka rebalancing, several partitions per reader and asynchronous commits: they
  live in kafka-go.
- Registration of routes and middleware before the server starts, the mapping of errors to
  responses, health endpoints beyond their call of `Ping`: lists and
  pure functions without an order that could go wrong.
- Tracing, metrics, headers, the merging of configuration keys, which instance
  round-robin takes, error wording: they do not change the state the properties are about.
- Migrations and command-line scaffolding (sequential input and output), error
  types and the logger facade, test helpers, mocks and generated code.

## 7. Running

In this directory, `tlc -config <file>.cfg <module>` checks a run (`PROJECT.json`
names the module of each configuration), and `tlapm <module>.tla`, for each of the
eight modules whose name ends in `Proofs`, checks the proofs.
