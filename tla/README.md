# Formal model of the Flexobo microservices

TLA+ modules, TLC runs and TLAPS proofs about the services of this repository: the event store and
the command side of the order service, the transactional outbox, the fulfilment of an order across
services, the read models and the stock of the admin panel, RabbitMQ publishing and consuming, the
resilience, caching, snapshot and versioning parts of `libs/core`, the API gateway, and two-phase
commit.

Paths below are relative to the repository root; `PROJECT.json` maps each definition to the lines
it models, lists every hazard with the properties that watch it, and gives each property a mutant
(a slip the code could have had) that makes it fail.

## 1. The system

NestJS services in one Nx monorepo. `libs/core` is the framework; `apps/order-service` keeps
orders, payments and products; `apps/admin-panel` keeps the stock; `apps/api-gateway` forwards
HTTP. Each service has its own PostgreSQL database; they talk only through RabbitMQ.

    HTTP -> controller -> CommandBus -> command handler
                                           | AggregateStore.load / save
                                           v
                              events table (unique (aggregate_id, version))
                              outbox_messages table
                                           | OutboxWorker polls
                                           v
                              RabbitMQ exchange flexobo.events
                                           | RabbitMQConsumer
                                           v
                    event handlers of the services  -> CommandBus -> ...
                    projections -> read models (SQL tables) -> query handlers

### Inventory of components

| Component | State | Operations | What makes it correct | Module |
|---|---|---|---|---|
| Event store, aggregate store (`libs/core .../event-store`, `aggregate-store`, `domain/aggregate-root.ts`) | table `events`; in memory: aggregate, version, uncommitted events | `load`, `save` (= `append` + `saveEvents`) | commands on an aggregate are serialised; streams only grow; no decision on a stale history is stored | `EventLog`, `AggregateStore`, proofs |
| Order aggregate and its ten command handlers | status, items, payment, failure count | create, addItem, confirm, markInventoryReserved/Failed, markPaid, recordPaymentFailed, cancel, ship | life cycle under racing commands | `OrderAggregate`, `OrderStore` |
| Transactional outbox (`libs/core .../outbox`) | table `outbox_messages`; worker flags, timers, batch | save, poll, process, retry, cleanup, start, stop | nothing lost, duplicates and retries bounded, orderly stop | `Outbox` |
| RabbitMQ publisher and consumer (`libs/core .../messaging`) | connections, channels, subscriptions, retry timers; the broker's queue | publish, deliver, acknowledge, retry, dead-letter, reconnect, shut down | at-least-once delivery, answers to what was delivered | `Messaging`; the publisher's connection in `Outbox` |
| Fulfilment (`on-*-events.handler.ts`, `order-event.handler.ts`) | messages in flight, run of `handleOrderConfirmed` | reserve, compensate, mark, refund, release | an order taken for reserved holds its stock, no overselling, paid means paid, a cancelled order's payment ends REFUNDED | `Fulfilment` |
| Checkout use case | what one call has read and done | fetch order, create payment, process it, confirm | a success is paid for, a failure asked for no money | `Checkout` |
| Inventory aggregate, its handlers and read models | stock and reservations; tables `inventory_read_model`, `stock_reservations` | create, addStock, reserve, confirm, release, find by product, project | stock is promised and handed out once; rows follow the aggregates | `InventoryStock`, `Fulfilment` |
| Payment and product aggregates | status, amount; stock, activity | create, process, complete, fail, refund; create, update, delete, updateStock | through their read models | `PaymentAggregate`, `ProductAggregate` |
| Projections and read models of the order service | rows with versions, item rows, history entries | one handler per event | a row is a state of its aggregate, at last the last one | `ReadModels` |
| Two-phase commit (`libs/core .../two-phase-commit`) | transaction in memory, timer, log row | begin, prepare, commit, abort, timeout, recover | agreement, release of participants | `TwoPhaseCommit` |
| Circuit breaker, bulkhead, rate limiter, retry (`libs/core .../resilience`) | counters, queues, timers | execute, checkLimit, cleanup, reset, open, destroy | counters are right, limits hold, callers settle | `CircuitBreaker`, `Bulkhead`, `RateLimiter`, `Retry` |
| API gateway | requests, aggregations, one breaker per service | route, forward, abort, aggregate | every client is answered | `Gateway` |
| Snapshots | table `snapshots` | load, save, expire, delete | a restored aggregate is the replay of its stream | `Snapshots` |
| Cache | Redis keys | read through, warm, evict by key or pattern | nothing outdated stays that the eviction reaches, unless it was raced | `Cache` |
| Event upcasters, message schemas, API versions | registries | register, upcast, resolve, deprecate, sunset | a version leads to one that is served | `EventVersions`, `ApiVersions` |
| Health indicators and probes | checks in flight, a test key | live, ready, full | a probe says what it saw | `Health` |
| Users of the admin panel and audit log | two in-memory maps | create, update, updateRoles, delete | no two users alike; the log accounts for them | `UserAdmin` |
| Dead letters, graceful shutdown, CQRS buses, controllers | | | | inside the modules above |
| Logging, metrics, tracing, authentication, value objects, deployment | none shared by steps | | | not modelled, see section 7 |

### What is hard about it

* *Interleaving.* Node.js runs one handler at a time, but every `await` lets another one in, and
  each service may have replicas. A handler loads an aggregate, decides, and saves awaits later.
* *Atomicity.* Events and their outbox rows are written in different transactions; reading and
  writing the votes column of a 2PC transaction are two statements; projections read, compute and
  write back.
* *Crashes.* Every process may die between two awaits; what only lived in memory is gone, what is
  in a table or an unacknowledged message is not.
* *Delivery.* Messages are redelivered when the consumer loses its connection before the ack, and
  overtake each other (separate queues, retries, parallel chunks of the outbox worker).
* *Two connections.* Every service connects its consumer twice, and acknowledges on the channel
  that was set last.
* *Timeouts.* The 2PC timer fires in the middle of prepare or commit; outbox retries wait for
  their backoff; `stop()` races the poll timer; a health check, a
  forwarded request or a queued call is answered by its timer while the work goes on.

## 2. Modules

| Module | Code it models | Extends / uses |
|---|---|---|
| `EventLog` | what `AggregateStore` promises: serial execution of commands | |
| `AggregateStore` | `aggregate-store.ts`, `prisma-event-store.ts`, `outbox.service.ts`, `aggregate-root.ts` | implements `EventLog` |
| `OrderAggregate`, `PaymentAggregate`, `ProductAggregate` | the aggregates and the events their commands raise | pure operators |
| `OrderStore` | the order service's write side | `AggregateStore` + `OrderAggregate` |
| `Outbox` | `outbox.worker.ts`, `prisma-outbox.repository.ts`, `rabbitmq-publisher.ts` | |
| `Messaging` | `rabbitmq-consumer.ts`, `messaging.module.ts`, `graceful-shutdown.ts` | |
| `Fulfilment` | the event handlers of both services | `OrderAggregate` |
| `Checkout` | `checkout.use-case.ts` | instances of `OrderAggregate`, `PaymentAggregate` |
| `ReadModels` | the four projections and their repositories | the three aggregates |
| `InventoryStock` | `inventory.aggregate.ts`, its handlers, repositories and projection | |
| `TwoPhaseCommit` | `two-phase-coordinator.ts`, `prisma-two-phase.repository.ts` | |
| `CircuitBreaker`, `Gateway` | `circuit-breaker.ts`; `proxy.service.ts`, `aggregation.service.ts` and routing on top of it | `Gateway` extends `CircuitBreaker` |
| `Bulkhead`, `RateLimiter`, `Retry` | the other files of `resilience/` | |
| `Snapshots`, `Cache` | `snapshot/`, `cache/` | |
| `EventVersions`, `ApiVersions` | `event-upcaster.registry.ts`, `versioning/` | |
| `Health`, `UserAdmin` | `health/`; `user-management.service.ts` with its controller | |
| `MCCoreLibrary`, `MCServices` | one run each for the parts that share no state: `part` picks one | the modules above |
| `MCOrderStore`, `MCFulfilment` | constants and symmetry for TLC | the module checked |
| `OrderAggregateProofs` | lemmas: what replaying events returns, what each method's events do | `OrderAggregate` |
| `OrderStoreProofs` | theorems about the store for any domain (its histories, its outbox rows) and about the lives of orders in it | `OrderStore`, `OrderAggregateProofs` |
| `OutboxProofs`, `TwoPhaseCommitProofs` | theorems about the module of that name | that module |
| `FulfilmentProofs` | theorems about `Fulfilment` | `Fulfilment`, `OrderAggregateProofs` |
| `CoreLibraryProofs` | theorems about breaker, gateway, bulkhead, rate limiter, retry, snapshots, versions, cache and messaging | `MCCoreLibrary` |
| `ServicesProofs` | theorems about checkout, stock, users and health checks | `MCServices`, `OrderAggregateProofs` |
| `ReadModelsProofs` | theorems about the read models and the types of all parts of the services | `ServicesProofs`, `OutboxProofs` |

How they fit together: `AggregateStore` shows that command handlers, which interleave at every
await, implement the atomic commands of `EventLog` (proved, and checked for orders). That is what
allows `Fulfilment`, `Checkout`, `InventoryStock` and `ReadModels` to take a command as one step
and to spend their states on messages instead. The remaining ways in which a command is *not*
atomic are kept there: it may fail with a concurrency conflict, and it may store events whose
outbox rows are refused. `Outbox` and `Messaging` justify how `Fulfilment` and `ReadModels` treat
messages: handed over at least once while retries last, in no strict order. What a publisher loses
together with its connection (see `Outbox`) is not a trouble of `Fulfilment`: a message that is never
delivered cannot break its safety properties, and `CancelledOrderIsRefunded` is about orders whose
messages the broker did receive.

Definitions named `Faulty...` are the mutants; no specification uses them.

### AggregateStore and OrderStore

`events[a]` is the rows of one aggregate in the `events` table, `outbox` the rows of
`outbox_messages`; `pc`, `task` and `queued` are the stack of a handler: where it is, the aggregate
in memory (the version it was loaded at and its uncommitted events), and how many events it has
queued. One action per await:

* `Load`: `AggregateStore.load` and the domain method, which runs without awaits after it. A
  method that throws leaves nothing behind and is no step; an empty batch is not saved.
* `CheckVersion`, `Insert`: the two statements of the transaction in `append`. It runs under READ
  COMMITTED, so the check may be outdated at the insert; only the unique index decides then.
* `SaveToOutbox`: one row per event, after the commit.
* `DatabaseError`, `Crash`: at each of these awaits.
* `Answer`: the handler returns.

The domain is the constant operator `Raises(history, command)`. `OrderStore` gives it
`OrderRaises`, which rebuilds the order with `Apply` and asks the method. Item details and amounts
are left out; items are counted since `confirm` looks at their number.

### Outbox

`row[m]` is the outbox row of message *m* (numbered by `created_at`), with the three things the
queries look at: status, retry count and whether `processed_at` is NULL, recent, or older than the
backoff. `phase`, `pass`, `batch`, `closing` are the polling loop of a worker; `batch` is the set of
messages that the SELECT returned and no chunk has taken, which start in the order of their numbers
as the rows come in the order of `created_at`. `task` holds the `processMessage` calls in flight,
each at the statement it awaits, in numbered slots that bound how many there are. Row locks of `FOR
UPDATE SKIP LOCKED` end with the SELECT, which runs outside a transaction, so `Select` takes none. A
rejected `markAsFailed` rejects the `Promise.all` of its chunk: the loop goes on to its next poll
while the other calls run on, unawaited (`MarkFailedFails`). `Worlds` is the set of fault mixes a
run explores; `happens`, constant in a behaviour, is one of them.

The publisher has a plain channel, without confirms: `channel.publish` returns as soon as the message
is in a write buffer, and `false` ("buffer full") although the message will be sent. `handed` counts
what channels took, `received` is what reaches the broker. `link` is the connection of each worker's
publisher: what is written while it is up is received sooner or later, what is written once it is
`broken` never is, although the process goes on until it notices (`LinkCloses`) or dies; a message
that was in the write buffer when the connection failed is one written after it broke. `unsent` are
the messages to which only that has happened. They end PUBLISHED like the others. After the close
event every publish throws: the publisher does not reconnect.

### Fulfilment

Both services: `order` and `pay` (order service), `inv`, `rows`, `jobs` and `run` (admin panel),
and `msgs`, messages in an outbox or a queue. A message is taken in any order and may be handled
again (`Settle`, "redelivery"). `run[r]` is an execution of `handleOrderConfirmed` on its way
through the products; reserving, compensating and publishing are separate steps since each awaits
a command. `rows` is the table `stock_reservations`, filled by an in-process event handler after
the command (`Project`), which is why a release may miss a reservation. `ReleaseByOrder` releases
the one row the query returns, as the code does. `Troubles` and `MaxTroubles` bound what goes
wrong.

`pay[y].refunded` is `refundedAmount`: undefined, 0 or more. A client refunds something; the handler
of OrderCancelled asks for 0 (`on-order-events.handler.ts:91`), which `Payment.refund` accepts.
`forgone` is a history: the payments whose refund was never announced, the outbox row of the
cancellation being refused, or ended in a conflict, which the handler logs before the message is
acknowledged (lines 94-98).

No event handler confirms a reservation, so in this module it is PENDING or RELEASED; confirming
and the other commands are in `InventoryStock`.

### TwoPhaseCommit

One transaction; `Worlds` as in `Outbox`. `pc` holds the await at which the caller (`begin`,
`prepare`, `commit`/`abort`) and the timer (`handleTimeout`, then `abort`) are; both work on the
same object in memory (`state`, `active`). `stored` and `votes` are the log row, `recovering` what
`recoverTransactions` of any instance has read from it. Recording a vote is a read and a write of
the whole participants column, concurrently for all participants. Participants are outside the
repository; they are taken to be well behaved (the first decision they receive is final), and they
may refuse, throw or stay silent.

### Messaging

`broker` is one queue: what waits, what is delivered and not answered, and the dead letters. The
module is the consumer and the broker; `Receive` is the broker getting what an outbox worker
published. Channels are numbered, one per connection; `channel` is `this.channel`, `open` what the
process takes for open, `broken` those of them whose connection is gone, `consumers` what the broker
delivers to. `Deliver` starts a handler, `HandlerReturns`, `HandlerThrows`, `GivesUp` and `RetryTimer`
answer on the channel the code takes, which need not be the one of the delivery: a tag that means
another message there acknowledges that one, an unknown tag makes the broker close the channel.

Nothing the consumer writes is waited for. What is written on a broken connection the broker never
gets. The retry timer writes twice, `sendToQueue` on `this.channel` and `ack` on the channel the
handler began with: on one channel the broker gets both, neither, or the message alone
(`RetryCutShort`); on two, it may get the acknowledgement alone. After `disconnect`
(`ShutDown`, `ChannelCloses`) there is no `this.channel`, nothing is republished and the timer
acknowledges all the same. `crossed` records that a delivery was given another channel to answer on,
`parted` that a retry was not republished on the channel that acknowledges the original, `orphaned`
that `resubscribeAll` failed.

### ReadModels, InventoryStock and Checkout

`ReadModels` follows one aggregate: `stream` its events, `queue` and `working` the deliveries of the
projection's queue (up to `Prefetch` at a time, in any order), `shown`, `items` and `entries` the
rows. A handler reads the row and writes it in different steps; the trigger of migration
`enforce_version_increment` refuses a write that does not raise the version.

`InventoryStock` has one log of the events of all inventories, since `findByProductId` reads the
newest `limit` of them, and the projection's handlers, which run in the process of the command and
may overlap (`overlapped`) or be lost with it (`lost`).

`Checkout` runs the four steps of `execute` against an order whose clients and projection go on.
`orderRow` is the row in the read model; an item has its row before the order has its new total, so
`seen` may show items that the total does not count.

### The parts of libs/core

`CircuitBreaker` keeps the calls that were let in and have not come back; they may come back to
another state of the breaker. `Gateway` adds the requests and the timer that aborts a `fetch`.
`Bulkhead` is a counter, a queue and a cleanup timer; a queued function that throws when it is
started, before there is a promise, is `stranded`: its place is never given back. `RateLimiter` is
one key under a discrete clock, with the admissions as history. `Snapshots` treats an aggregate's
state as the sequence of events applied to it, so that "restored" can be compared with "replayed".
`Cache` keeps of a value only whether it is what the source holds now; a key has a family, the type
in its name and the type of the aggregates it is taken from, which for a query need not be the same:
`invalidateRelated` evicts `query:<aggregate type>:*` while `forQuery` names queries by their own
type. `EventVersions` and `ApiVersions` are registries with pure operators for what they answer,
which the properties compare with reference definitions (a closure for upcasting paths, the standing
of a version for what is served). A migration path compares majors and minors only, so it may go
past its target's patch (`EndOfPath`). `Health` has one indicator of each shape: done at once, one
query, one query whose answer may be that space runs out, the connection and then the queues, three
operations on a key. What can be wrong (`FaultsOf`) is more than the names of the indicators: a
queue without consumer leaves the connection check passing, a full disk answers.

### UserAdmin

The repositories are maps in memory whose awaits resolve at once; only hashing a password lets
another request in. A request is one step, or two when it hashes. `user[u]` is the object, `users`
whether the Map has it: an update changes the object before it has checked everything.

## 3. Runs

All finish within the five-minute budget on two workers.

| Run | Instance | States | What it shows |
|---|---|---|---|
| `order_store` | 1 order, 2 handlers, all commands, streams of at most 7 events, 2 items, 2 payment failures | 765,183 | `DecidedOnAPrefix`: a decision is never stored on another history than it was taken on; `OutboxMirrorsStore`, `SuccessIsDurable`: the outbox never runs ahead of the store, and Success means stored and queued; `Serial`: the store implements `EventLog`; `ConfirmedItemsAreTheItemsAdded`, `OrderLifeCycle`: shipped orders were paid, cancellation is final and refundable, payment failures are counted |
| `store_outbox_gap` | the same, 2 events | violated | `StoredIsQueued` fails: a stored event may have no outbox row and nobody left to write it |
| `outbox_one_worker` | 1 worker, 3 messages, chunks of 2, 2 retries; one world with crashes and every refusal but that of `markAsFailed`, one where publishing fails at will and the connection breaks, one where `markAsPublished` and `markAsFailed` are refused | 220,178 | unless `markAsFailed` is refused, duplicates never exceed the retries counted, retries are limited and published messages stay published; messages are tried in order, `stop()` waits for the calls in flight; where only publishing fails every message is handed over or runs out of retries |
| `outbox_stop_hangs` | 1 worker, 1 message | violated | `StopReturns` fails: `stop()` between two polls waits for ever |
| `two_phase` | 2 participants; one world with every fault, one with refusals, silence and the timeout | 330,441 | nobody commits unless all voted to; until the timeout passes all decide alike and the log does not contradict them; in the second world every transaction ends and every prepared participant is released |
| `two_phase_timeout_race` | 2 participants, the timeout | violated | the timeout during commit splits the participants |
| `fulfilment` | 2 orders, 2 products with one piece each, 1 payment, 2 concurrent runs, 1 trouble of any kind | 920,199 | `PromisedStockIsHeld`, `PaidOrderHasCompletedPayment` |
| `fulfilment_refund` | 1 order, 2 products, 2 troubles of any kind | 96,299 | the payment of a cancelled order becomes REFUNDED in the end, unless its refund is `forgone` (see Fulfilment); for how much is not claimed |
| `fulfilment_stock_leak` | 1 order, 2 products, nothing goes wrong | violated | cancelling releases one of the two reservations |
| `core_library` | ten parts of `libs/core`, one at a time | 111,932 | `CountersAreRight` (breaker, bulkhead), `AdmittedWithinLimit` (limiter), `RestoredIsReplayed` (snapshots), `OutdatedEntryIsOwedOrRaced` (cache), `VersionsHold` (upcasters, schemas, API), `NoMessageIsLost` (messaging); in the end `CircuitCloses`, `EveryClientIsAnswered`, `QueuedCallsSettle`, `QueueIsWorkedOff` |
| `consumer_acks` | 2 messages, 2 connections, 1 of them lost | violated | `AckedWasProcessed` fails: an answer on the other channel acknowledges a message nobody handled |
| `services` | six parts of the services, one at a time | 1,442,529 | `PublishedWasReceived` (two outbox workers, every fault, in three worlds), `ReadModelFollows`, `StockIsNeverOversold`, `StockRowFollows`, `UsersAreAccountedFor`, `CheckoutIsPaidFor`, `ProbesTellTheTruth` |

`core_library` and `services` put modules that share no variable side by side: `part` is chosen at
the start and only that part moves. A property of a part is thus checked in the states that part
reaches, and holds in the initial state of the others.

### Bounds, and why they are enough

* `order_store`: version conflicts, unique violations and interleaved outbox inserts are all
  between two handlers of one aggregate; aggregates share nothing but the outbox, whose rows are
  keyed by aggregate. Seven events let an order reach every status, with two payment failures
  (one batch of two events) and a cancellation. The proofs have no such bounds.
* `outbox_one_worker`: three messages with a batch size and concurrency of two make a pass that
  leaves a message for the next one and chunks with one and with two calls; two retries give a
  message that comes back once and one that is given up.
* `fulfilment`: the orders want two pieces of the contested product, of which there is one; an
  order of two products is what partial reservation needs. One trouble at any point; two troubles
  and a single permitted payment failure were explored once as well (4,972,104 states, no error)
  and take too long for a regular run.
* `two_phase`: two participants are the least that can disagree; with three (3.5 million states)
  nothing changes.
* `core_library`. Breaker: two calls and thresholds of two, so that a late answer meets an open, a
  half-open and a closed circuit. Bulkhead: four callers for two places and a queue of two.
  Limiter: two admissions per window of 3, eight ticks, which is a window, its boundary and a
  cleanup after it. Snapshots: two handlers, a snapshot every two events, five events. Cache: two
  users and three keys: an aggregate, a query that has the name of the aggregate's type, which
  `invalidateRelated` reaches, and one that has its own, which it does not, with a ttl and evicted
  before the method. Lists are treated as the first query is and companies' keys as the second; they
  are in no instance (four keys take too long) but in the theorem, which is about any keys.
  Versions: three releases, of which one is asked for beyond what exists; three event versions,
  where chains, gaps and circles are possible; five schemas of three majors, two of which differ in
  the patch only, so that a path may end past its target.
  Messaging: one message, one retry, one or two connections, two mishaps: one to lose a connection
  and one while it is being restored, or a shutdown while a retry waits. `consumer_acks` needs a
  second message, to be taken for the first.
* `services`. Outbox: two workers, chunks of two and two calls in flight
  between them, so that a call abandoned by a rejected `Promise.all` can overlap the next poll of
  the same worker or of the other; the faults are split into three worlds (broken connections; a
  crash, `markAsPublished` and `markAsFailed` refused; publishing, `stop()`, `markAsProcessing`
  refused), as all of them at once have too many states. Read models: up to six events, two
  deliveries in hand, one that is overtaken, one retry, one fault, one failed payment. Stock: two
  inventories of one product, five events and a lookup of the newest three, so that the beginning
  of an inventory falls out of it. Users: two of everything and one request that hashes. Checkout:
  two calls, two items, one fault. Health: two probes, two keys, one turn for the worse or the
  better; what services register is what the gateway does (nothing), the order service does (one
  database) and three that cover the other indicators.

Deadlock is not checked: handlers stop when the stream bound is reached, clients need not act,
workers stop and transactions end.

Symmetry is used where the code cannot tell the elements apart and no liveness is checked:
handlers, workers, runs.

### Fairness

* `Outbox!FairSpec`: weak fairness of the worker's loop, of the awaits of each call, of the start
  of a process, and of the passing of the backoff. The event loop runs what is ready, timers fire,
  Kubernetes restarts a dead pod. New messages, faults, `stop()` and cleanup may never come.
* `TwoPhaseCommit!FairSpec`: the coordinator's event loop runs, `setTimeout` fires, the database
  answers, participants answer commit and abort. Nothing makes a participant answer prepare.
* `Fulfilment!FairSpec`: consumers keep consuming each message that stays in a queue, a handler
  that has begun goes on. Clients need not do anything. Weak fairness per message suffices: a
  message that waits is enabled until it is taken.
* `CircuitBreaker`: calls settle, the reset timer runs, and callers keep coming; strong fairness of
  the latter, since the circuit lets them in only now and then.
* `Gateway`: promises that can settle do and timers fire; a `fetch` need never resolve.
* `Bulkhead`: time passes and the cleanup timer fires; the functions it runs may never return.
* `Messaging`: the broker delivers, handlers return or throw, retry and reconnect timers fire, the
  process notices a broken connection and ends a shutdown it has begun (the forced exit sees to
  that) and is started again. Mishaps are limited by `MaxMishaps` and need not happen.

## 4. Where code and documentation disagree

1. **Stored but never published** (`store_outbox_gap`). `AggregateStore.save` commits the events
   and writes the outbox afterwards, row by row; `outbox-message.interface.ts:17` promises the same
   transaction. After an outbox error or a crash in between, nobody writes the missing rows.
2. **`stop()` between two polls hangs** (`outbox_stop_hangs`). It clears the timer whose callback
   would have set `isRunning` to false, then waits for that. The process ends by the forced exit
   of `graceful-shutdown.ts` after five seconds.
3. **Cancelling releases one product** (`fulfilment_stock_leak`). `getReservationByOrderId`
   returns the first row; an order with several products keeps the stock of the others reserved
   for ever. Compensation after a partial failure calls the same command once per product and so
   releases the same reservation again and again.
4. **Timeout during commit** (`two_phase_timeout_race`). `handleTimeout` aborts a transaction that
   is COMMITTING: participants end up with different decisions.
5. **Answers on the wrong channel** (`consumer_acks`). The consumer is connected by its factory and
   again by `onModuleInit`; after one connection is lost and restored, messages of the other are
   acknowledged on the new channel, where the same tag means another message.

The following is also true of the code and reached by the models, but is not a run of its own.

*Outbox, fulfilment, two-phase commit.* Two outbox workers may both publish the same message (the
locks of the SELECT do not last); a crash leaves rows PROCESSING that nothing selects again; a
message whose `markAsProcessing` was refused is FAILED with a NULL `processed_at` and never
retried; when `markAsFailed` is refused, `stop()` may return while calls of the abandoned chunk
still run, and the next poll selects messages such a call is about to publish, so that one worker
publishes them twice; 2PC recovery changes the log and contacts no participant; concurrent vote writes
overwrite each other; a payment that completes before the reservation is known is logged,
acknowledged and never marked; CANCELLED overtaking CONFIRMED leaves stock reserved; a redelivered
CONFIRMED publishes a failure for an order that is reserved (the order ignores it once
INVENTORY_RESERVED). The publisher's channel has no confirms (`rabbitmq-publisher.ts:51`), so a row
may be PUBLISHED, and be cleaned up, although its message was lost with the connection. A cancelled
order's payment is refunded by 0 (`on-order-events.handler.ts:91`) and no later refund is possible,
the payment being REFUNDED; a refund that fails is logged and never tried again.

*Messaging.* The publisher never reconnects; a subscription that fails in `resubscribeAll` is
dropped. With two connections a retry may acknowledge a message and lose its copy: the two are
written on different channels and neither is waited for; during a shutdown `republishForRetry` does
nothing once the channel is null, and the other connection still takes the acknowledgement. A retry
timer that meets a closed channel throws outside of any handler and ends the process.
`DeadLetterHandler` listens on `order-service.dead-letter` while the exchange for dead letters is
bound to `flexobo.dead-letter`, and acknowledges what it failed to save.

*Checkout.* Its header promises "Handles failures with compensation" (`checkout.use-case.ts:13`);
a payment in process stays when the order cannot be confirmed. A row read between an item's row
and the order's total makes a payment of too little.

*Read models and stock.* An event that overtakes its predecessors is dropped or hides them, and a
redelivered ITEM_ADDED adds the item again although `schema.prisma:88` speaks of idempotency; the
history has no entry for PAID; product events bypass the outbox, so the product read model is never
filled and the check for a SKU in use always passes. Two projections of one inventory that overlap
leave the wrong figures; an inventory is found by its product only while an event of it is among
the newest 1000; a second inventory of a product gets no row.

*libs/core.* A second snapshot of an aggregate is rejected (`aggregate_id` is unique) although
`keepLatest` is 2; `delPattern` and `clear` miss every key when Redis has a key prefix;
`invalidateRelated` leaves queries whose type is not the aggregate's, and companies' keys, as they
were; a bulkhead loses a place for good when a queued function throws at once, and its caller is
never answered; `getMigrationPath` ignores patches, so that a path from 1.0.0 to 2.0.0 may end at
2.0.1; `warmBatch`
never sees a failure; `hasUpcastPath` is true of downcasts that `upcast` refuses; an unknown
version is answered 410 like a sunset one. The gateway's `retry` setting is unused, and a 5xx
answer is a success for its circuit breaker.

*Users and health.* A refused username leaves the new email in place, unlogged; a user deleted
while an update hashes comes back; two users created at once may share an email. The gateway
registers no indicator, so its `/health` and `/health/ready` always answer 503; memory pressure
makes `/health/live` answer 503 while the full answer is 200 ("Still operational"), as do a queue
without consumer and a full disk for as long as they last; overlapping
checks of a cache can turn each other down.

## 5. Proofs

Eight modules prove theorems; tlapm checks every leaf. A dash means that the property is proved and
in no run.

| Module | Theorem | Property a run checks on a small instance |
|---|---|---|
| `OrderStoreProofs` | `TypeCorrect` | `TypeOK` |
| | `DecisionsRestOnHistory` | `DecidedOnAPrefix` |
| | `HistoryIsNeverRewritten` | - (`StreamsAppendOnly`) |
| | `SerialExecution` | `Serial`: `AggregateStore` implements `EventLog`, log <- events |
| | `OutboxNeverRunsAhead` | `OutboxMirrorsStore` |
| | `OutboxRowsAreUnique` | - (`OutboxHasNoDuplicate`) |
| | `SuccessMeansQueued` | `SuccessIsDurable` |
| | `StreamsTellLives` | - (the inductive invariant) |
| | `ConfirmationCountsTheItems` | `ConfirmedItemsAreTheItemsAdded` |
| | `OrdersLiveOnce` | `OrderLifeCycle` |
| `OutboxProofs` | `TypeCorrect` | - (`TypeOK`, a part of `ServicesTypeOK`) |
| | `PublishedReachedTheBroker` | `PublishedWasReceived` |
| | `DeliveredInOrder` | `HandedInOrder` |
| | `RedeliveriesAreCounted` | `RedeliveryIsCounted` (one worker) |
| | `StopIsOrderly` | `StopWaitsForBatch` (one worker) |
| | `PublishedMeansDone` | `PublishedOnce` (one worker) |
| `TwoPhaseCommitProofs` | `TypeCorrect` | `TypeOK` |
| | `CommitIsUnanimous` | `CommitNeedsEveryVote` |
| | `ParticipantsAgreeInTime` | `AgreementInTime` |
| `FulfilmentProofs` | `FulfilmentInvariant` | - (the inductive invariant) |
| | `TypeCorrect` | `TypeOK` |
| | `StockIsHeld` | `PromisedStockIsHeld` |
| | `PaidByItsPayment` | `PaidOrderHasCompletedPayment` |
| `CoreLibraryProofs` | `CountersAreCorrect` | `CountersAreRight` |
| | `RestoringIsReplaying` | `RestoredIsReplayed` |
| | `EvictionFollows` | `OutdatedEntryIsOwedOrRaced` |
| | `RequestsAreLimited` | `AdmittedWithinLimit` |
| | `MessagesSurvive` | `NoMessageIsLost` |
| | `VersionsAreFollowed` | `VersionsHold` |
| | `TypeCorrect` | `CoreTypeOK` |
| `ServicesProofs` | `UsersAreAccounted` | `UsersAreAccountedFor` |
| | `ProbesAreHonest` | `ProbesTellTheTruth` |
| | `CheckoutsArePaidFor` | `CheckoutIsPaidFor` |
| | `StockIsSafe` | `StockIsNeverOversold` |
| | `StockRowsFollow` | `StockRowFollows` |
| `ReadModelsProofs` | `ReadModelsFollow` | `ReadModelFollows` |
| | `ServicesAreTyped` | `ServicesTypeOK` |

`OrderAggregateProofs` holds lemmas only.

### Assumptions

The bounds that keep a run finite are natural numbers and arbitrary in the proofs. Besides that:

* `AggregateStore`: none; nothing is assumed about `Raises`.
* `OrderStore`: the hypothesis `OrderDomain` of the theorems about orders says that the store's
  domain is the order's (`OrderCommands`, `OrderRaises`), which is how `order_store` instantiates it.
* `OrderAggregate`: `MaxPaymentFailures` is at least 1 (the code has 3). With 0 the first failure
  would already count beyond the limit.
* `Outbox`: batch size, chunk size and retry limit are positive, as their defaults are; the value
  `NoTask` is no task. Three theorems carry the hypothesis `OneWorker`: with two replicas two
  SELECTs may return the same row (the lock ends with the statement) and one replica's cleanup may
  delete a row that the other is at work on, and the properties are false. `FailuresAreRecorded`
  is a condition inside the properties: a refused `markAsFailed` leaves calls nobody awaits.
* `Fulfilment`: an order has at least one product and finitely many of them; quantities and stock
  are natural numbers.
* `CircuitBreaker`, `Bulkhead`: thresholds and the number of places are positive.
* `Messaging`: channels are numbered from 1 without gaps, the connections among them.
* `Cache`: the entries of one decorator agree on `beforeInvocation`; the option belongs to the
  decorator, not to the entry.
* `RateLimiter`: the window and the limit are positive; the code divides by the window.
* `InventoryStock`, `Checkout`, `ReadModels`: quantities and bounds are natural numbers.
* `EventVersions`: there are finitely many versions; the registry is a Map filled at startup.
* `Gateway`: paths and prefixes have a length, as strings do.
* `UserAdmin`, `Health`: the constants have the types of the code's declarations.

### The inductive invariants

*Histories* (`HistoryInv == TypeOK /\ TaskInMemory /\ DecidedOnAPrefix`). `TypeOK` alone is not
inductive: that the stream stays a sequence when a batch is inserted at the versions the handler
computed needs to know where those versions lie. `DecidedOnAPrefix` gives `base <= Len(events)`,
and the unique index lets the batch in only if its first version is free, hence
`base = Len(events)` at the moment of the commit although the check before it may be outdated
(`CommitAppends`). With that, storing the batch is appending it (`FillIsConcat`), every other step
leaves the streams alone (`StreamsGrow`), and the commit is `EL!Execute` on the whole current
history: the batch was raised on the first `base` events, and these are all of them.

*Outbox rows* (`QueueInv`). Uniqueness and durability need to know who owns a version: the batch
of a handler that has committed is in the stream (`BatchIsStored`), two such handlers own disjoint
versions (`VersionsAreOwned`), nothing is queued before the commit (`NothingQueuedYet`), and of a
handler's versions exactly the first `queued[h]` are in the outbox (`QueueProgress`). A commit
takes versions behind all earlier ones, so no row exists for them yet; a row added by one handler
is at a version of its own, so it disturbs nobody else's progress.

*Orders* (`OrderStoreProofs!IInv == HistoryInv /\ \A a : Life(events[a])`). `Life` relates a stream
to what replaying it gives: the draft's items are the items added (`ItemsAdded`), a payment is
named exactly when there is a PAID event and nothing was paid twice (`PaidOnce`), a cancellation is
last (`CancelledLast`), failures are numbered up to the aggregate's counter (`FailuresNumbered`). A
stream grows only by `Serial`'s step, so by a batch raised on the whole stream, and each method's
batch keeps `Life`. The replay is a fold; the library's induction theorems take an operator as
parameter and cannot be used here, so `OrderAggregateProofs` derives induction over a set of
natural numbers from well-foundedness (`NatSetInduction`) and with it `ReplayAppend`: replaying one
more event is applying it.

*Outbox worker.* `DeliveryInv` (a channel took the message of a call that is about to record it, and
of a published row) and `WireInv` (what a channel took was received unless a connection broke
before) hold for any number of workers and any faults; the channel's `true` is no more than that.
`OrderInv` says that the messages of a batch follow each other without gaps, and of every call in
flight and every message tried that fewer than `Concurrency` messages before it are still untried.
`SingleInv` adds for one worker `CountInv`, conditional on `FailuresAreRecorded`: the calls in
flight are those of the chunk the loop awaits, a message is in at most one place of batch and calls,
and what was handed over exceeds the retries counted in the row by at most the delivery in progress.

*Two-phase commit* (`CommitInv /\ InTimeInv`). Once commit is decided, by the coordinator or
for some participant, every vote is in and nothing takes them back; a vote to commit is that of a
participant which has prepared; the timer can only abort (`VotesAreIn`, `VotersPrepared`,
`TimerAborts`). Before the timeout neither timer nor recovery has made a call
(`CallerIsAlone`), and commit and abort are not both decided, by the caller, a participant or the
log (`DecidedOnce`).

*Fulfilment* (`OrdersInv /\ PaidOrderHasCompletedPayment /\ StockInv`). What a message says was true
when it was sent and stays true in the respect that matters (`MessagesTellTheTruth`); a created
payment belongs to an order, and an order that reached the limit of failures is cancelled
(`PaymentsHaveOrders`, `FailuresCancel`). For stock: a run of `handleOrderConfirmed` that may still
succeed holds every product it has reserved (`HopefulRunsHold`), runs for one order never reserve
the same product (`RunsKeepCount`), success stays true as long as the order is not cancelled
(`SuccessIsKept`), and each inventory's `reserved` is the number of pieces pending in it
(`PromisesAddUp`), which is a fact about cardinalities of sets of numbered pieces.

*Parts of `libs/core`.* `BreakerInv` relates counters to state; `BulkheadInv` says that a place
is idle only if nobody waits; `SnapshotInv` that a snapshot, wherever it is kept or held, is an
initial part of the stream's replay; `CacheInv` that whoever has
written still has the eviction of what it outdated ahead, as far as evictions reach; `MessagingInv`
that a tag means the same message to a handler and to the broker while its channel lives, so that an
answer on the right channel can only settle the right message, and that unanswered deliveries are on
channels whose connection is not broken. A retry that is not `parted` writes the message before the
acknowledgement on one channel: if the broker gets the second it has got the first.

*Versions* (`EventVersionTypeOK`, `ApiInv`). The upcasters' search goes on for as many rounds as there
are versions, while `LeadsTo` is the smallest set closed under the upcasters. A round that has not
closed the set yet adds a version, so after that many rounds it is closed (`RoundsEnd`), and
whatever the search visits stays inside every closed set. Registering an upcaster changes the
closures of those versions only that lead to where it starts. `ApiInv` keeps the stable versions of the
API finite, so that there is a newest one whenever there is one at all.

*Types of `libs/core`* (`CoreTypeOK`). Most bounds need more than the types: that the time a retry
has slept stays within its limit needs, while it sleeps, that what it slept came in `attempt - 1`
delays (`RetryInv`); that a snapshot in hand has the fields it should needs that only a handler
which has loaded or saved holds one (`HandsTidy`); that a call of the gateway is to a service needs
a longest matching prefix, which exists because no matching prefix is longer than the path.

*Users and health checks.* `UserInv` says, until a request is overtaken while it hashes, that the
checks a request made before hashing still hold, and that the log tells of everybody but the
request at work. `HealthInv` says of every running probe what it can have seen, and of every key
of the cache check, that a key nobody else uses is there as long as its check needs it.

*Rate limiter* (`LimiterInv`). The property counts the admissions in a window of past times; what
keeps their number down is a distance: an admission is at least a window after the one `Gap` places
before it (`Spaced`), where `Gap` is the limit for a sliding window and twice the limit for a fixed
window and a token bucket, which do let that many through around a boundary. To keep it, the bucket
must know enough of the past: the sliding window has every request that has not expired
(`Remembers`); a fixed window counts the requests since it began, and those before the last full
limit are a window older than it (`WindowsFollow`); from any admission on, the tokens spent and
those left are no more than a full bucket and the refill since (`TokensLast`).

*Checkout* (`CheckoutInv`). The order's items are counted as they are added and frozen by its
confirmation (`ItemsAreCounted`); a row is the order after its first events, but for one item's row
that may be there before its total (`RowsFollow`); a call's payment is as far as the call
(`PaymentKeepsUp`); and a call that has succeeded has confirmed the order, which happens once.
`OrderAggregateProofs` is instantiated for the order of the checkout.

*Stock* (`StockInv`). Replaying the events of an inventory keeps the books balanced (`Balanced`):
what is reserved is the sum of the pending reservations and no more than the total, and the total
and what was confirmed make up what has come in. A lookup by product sees an inventory's newest
events; that it sees all of them when it rebuilds one follows from `CreatedFirst`, since an
inventory whose creation has fallen out of the window is not found.

*Rows of the stock* (`ProjectionInv`). While nothing is lost and no two handlers of an inventory
overlap, an inventory has at most one handler, at its latest event and holding what the row said
before it; an inventory without one has its row settled, or has none because another inventory of
the product had one first (`RowIsSettled`).

*Read models* (`ReadModelInv`). The stream is lawful (`Lawful`): its first event is the creation,
no other is; nothing follows a shipment, items join drafts only, a draft has been one from the
start; a payment that goes on has no reason and no refund yet. Hence an order's row always tells
the status of its version, and so does what a handler has read, which is no later than the row
(`RowsTell`): a row written on top of any earlier one is right, the trigger having refused the
later ones. While the handlers run in order (`HandledInOrder`), the last event begun is `Done`, or
`Underway` with the read model still showing the one before, or an earlier event waits that will
end the order when it is begun (`Doomed`); whoever is in hand has read what is shown now. Once the
queue is drained only `Done` at the last event is left. A repeated handler finds the row of its own
event, and writing it again changes nothing (`PaymentRowsAgree`, `ProductRowsAgree`).

*Types of the services* (`ServicesTypeOK`). The types of users, health checks and checkout follow from
their invariants. A handler of the stock's projection is at an event of its inventory, no further
than that event lets it come (`JobIsTyped`), so a status it lists is that of a reservation. Handlers
stay within the prefetch and redeliveries within the retries (`QueueIsBounded`): a delivery waits
again only with a count below the limit, or unchanged when its handler was interrupted.

The folds that rebuild stock, orders, payments and products are recursive functions over sets; one
lemma for all of them says that a longer stream is one step more (`FoldStep`), by induction over a
set of numbers.

`CoreLibraryProofs`, `ServicesProofs` and `ReadModelsProofs` are about the composed specifications
that TLC runs. A step of the whole is a step of one part and leaves the others alone (`PartsStep`,
`UserPartStep`, `ReadModelPartStep` and so on), so each part's invariant is one of the whole.

### What proving showed

* Two models had a CASE whose guards overlap, where TLA+ does not say which arm is taken (TLC takes
  the first): `OverallStatus` and `ListReservation`. Both follow the `if`s of the code now.
* `StopWaitsForBatch`, `RedeliveryIsCounted` and `PublishedOnce` are only true when `markAsFailed`
  succeeds. The instance in `outbox_one_worker` keeps a world with such refusals, the properties
  name the condition.
* That the limit of payment failures is not 0, that channel numbers have no gaps and that the
  entries of a cache decorator share its option were unwritten assumptions of the models; they are
  ASSUMEs now, and TLC evaluates them.

## 6. What is only model-checked

* Liveness (`EveryMessageSettles`, `CancelledOrderIsRefunded`, `ParticipantsAreReleased`,
  `TransactionEnds`, `CircuitCloses`, `EveryClientIsAnswered`, `QueuedCallsSettle`,
  `QueueIsWorkedOff`): fairness and ENABLED are out of the prover's reach.

Every invariant and every safety action property that a passing run checks is stated by a theorem;
three of `outbox_one_worker` with the hypothesis `OneWorker` (see the assumptions).

## 7. Not modelled, and why

* Logging, metrics, tracing and authentication: output, or stateless calls of libraries.
* Value objects: floating-point arithmetic of single calls.
* Read-only queries (lists, searches, statistics), HTTP validation, OpenAPI annotations and module
  wiring: they change nothing.
* The wording of dead letters, the deletion of old 2PC rows, the topology RabbitMQ is given, Redis
  counters and hashes.
* The `*.example.ts` files, deployment, the example service and the end-to-end tests.

## 8. Plan

1. (done) Store, order, outbox, two-phase commit, fulfilment.
2. (done) Messaging, read models, stock, checkout, the parts of `libs/core`, the gateway, health
   and users.
3. (done) Proofs about store, order, outbox, two-phase commit, fulfilment, breaker, bulkhead,
   rate limiter, retry, gateway, snapshots, versions, cache, messaging, users, health checks,
   checkout, stock and read models (section 5).
4. Worth adding to `TwoPhaseCommit`: several transactions and the deletion of finished ones.
