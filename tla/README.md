# The Kafka trading system in TLA+

This directory is a verification development for the Kafka trading system: TLA+ models of the
code, TLC configurations that check them on small instances, and TLAPS proofs for all instances.
Line references are to `src/`.

Contents: [1 inventory](#1-inventory) · [2 modules](#2-modules-and-how-they-correspond-to-the-code) ·
[3 runs](#3-runs) · [4 bounds](#4-bounds) · [5 fairness](#5-fairness) · [6 proofs](#6-proofs) ·
[7 findings](#7-findings) · [8 not modelled](#8-what-is-not-modelled) · [9 plan](#9-plan) ·
[10 running](#10-running)

## 1 Inventory

The one program is the order service (`cmd/order-service`). The market data service is a schema,
generated statements and a row mapper that no program calls yet. The matching engine and the gateway
are empty directories.

| component | state | operations | talks to |
|---|---|---|---|
| order domain object (`domain/order.go`) | an `Order` in memory | `CanTransition`, `ApplyFill`, `Cancel` | called by the service |
| order service, gRPC handler (`service`, `handler`) | none | `CreateOrder`, `GetOrderByID`, `CancelOrder`, validation, error codes | repository, in the handler's goroutine |
| order repository (`repository/postgres.go`, `db/`) | tables `orders`, `order_outbox`; the connection pool | `CreateOrder`, `CancelOrder`, `UpdateOrderExecution`, two lookups; `ClaimUnpublished`, `MarkPublished`, `MarkFailed` | PostgreSQL |
| outbox publisher (`events/publisher.go`) | worker id; the claimed batch | `Run`, `PublishOnce` | repository, Kafka publisher |
| Kafka publisher (`events/kafka_publisher.go`) | the writer | `Publish`, `Close` | Kafka |
| outbox messages (`events/outbox_message.go`, `shared/events`) | none | two constructors | called by the repository |
| process (`cmd/order-service/main.go`) | config, two goroutines, `errCh`, the signal context, deferred closes | start, stop | all of the above |
| market data (`internal/market-data-service`, `db/queries/market_data.sql`) | tables `market_latest_prices`, `market_trades`, `market_order_book_levels` | two upserts, an insert, a delete, four queries | PostgreSQL; by ROADMAP.md, Kafka consumers |

Requests meet only in the database: each handler reads with one statement, validates in memory, and
writes in a transaction of its own. The publisher meets the requests in `order_outbox`, where a
committed event waits until some publisher has leased it, written it to Kafka and marked it. `main`
starts the server and the publisher side by side and, on the way out, waits for the former only.

What is hard here:

* **interleaving** – a cancel or execution decides on a row it read before its transaction began;
  creates with the same idempotency key race; publishers claim rows concurrently, and pass over what
  a claim that may yet be rolled back has locked; an order book is read in two queries;
* **failure between two steps** – order row and event, commit and its acknowledgement, Kafka's
  acknowledgement and `MarkPublished`, an ignored `MarkFailed` error, a stop in the middle of a batch;
* **time** – a lease of 30 seconds for a whole batch of synchronous writes, measured with two clocks;
* **order** – a failed publish is skipped over; messages are spread over partitions; closes are
  deferred in an order that must suit the goroutines still running; a consumer that starts over
  replays older prices and levels;
* **limits** – the connection pool; a batch full of events Kafka never accepts; settings from the
  environment that are zero, negative or no numbers.

What makes each part correct: rows that satisfy the schema and the lifecycle whatever races; one
order per idempotency key; an event for each change and none for what did not happen; truthful
answers; every request answered; events marked only if in Kafka; no duplicate without a cause; every
event published in the end; a stop that cuts no request off, ends, and says truthfully why; market
data tables that say what the logs say. `PROJECT.json` lists the hazards one by one with their lines.

## 2 Modules and how they correspond to the code

| module | models |
|---|---|
| `OrderDomain` | the pure code: validation in the order of its early returns, `ApplyFill`, `Cancel`, what each statement does to a row, CHECK constraints, outbox messages, gRPC codes |
| `OrderStore` | concurrent requests against PostgreSQL, one statement a step; EXTENDS `OrderDomain` |
| `OrderLedger` | abstract: opening and closing an order, each atomic with its announcement |
| `OutboxRelay` | publishers, leases, the topic |
| `AtLeastOnce` | abstract: at-least-once delivery |
| `OrderPipeline` | `OrderStore` and `OutboxRelay` composed: what requests commit is what publishers claim |
| `ServiceLifecycle` | the process from the environment to the exit status, with its two goroutines |
| `MarketDataStore` | the market data tables under messages replayed after restarts |
| `MC*` | instances for TLC |
| `OrderStoreProofs`, `OrderAnswersProofs`, `OrderFillsProofs`, `OrderPipelineProofs`, `OutboxRelayProofs`, `RelayDeliveryProofs`, `LifecycleProofs`, `MarketDataProofs` | TLAPS proofs |

### OrderStore

`orders` and `outbox` are the committed tables (the outbox without its delivery columns, which belong
to `OutboxRelay`), `tx` holds what each open transaction has written, `pool` the connections in use,
`pc` the next statement of each request, `local` the `domain.Order` the handler has in memory,
`reply` what the caller was told. `taken` is the quantity an execution applied, `committed` a history
variable.

| request | steps | code |
|---|---|---|
| create | `StartCreate` → `BeginTx` → `InsertOrder` → `InsertEvent`/`RefuseEvent` → `Commit`; or `DuplicateKey` → `GetExisting` | `service.go:23-34`, `postgres.go:32-99` |
| cancel | `StartCancel` (the read) → `BeginTx` → `CancelUpdate` → `InsertEvent`/`RefuseEvent` → `Commit`; or `Diagnose` | `service.go:48-67`, `postgres.go:180-233` |
| execution | `StartFill` (read, `ApplyFill`) → `BeginTx` → `FillUpdate` → [`InsertEvent`] → `Commit`; or `Diagnose` | `domain/order.go:65-82`, `postgres.go:121-178` |

* READ COMMITTED is in the guards: an UPDATE waits while another transaction has written its row
  (`RowLocked`) and then evaluates its WHERE on the committed row (`WhereMatches`); an INSERT waits
  for any transaction that has written the same key (`KeyContended`).
* `Fail` may hit any call; the rollback it causes is immediate. `CommitUnacknowledged` is the
  commit whose answer is lost.
* A cancel announces the order it read before its transaction (`Announced`), as the code does.
* `UpdateOrderExecution` has no caller in `src/`; the caller modelled by `StartFill` reads the order,
  calls `ApplyFill` and passes the result on. Nothing keeps two executions from overlapping.
* An execution that leaves the order PENDING has no event: the code announces only FILLED.
* Random ids are the identity of the request: they never collide. Timestamps are left out, but for
  whether `canceled_at` is NULL.
* The `GetOrderByID` call changes nothing; it is the read inside `StartCancel` and `StartFill`.
* `repository.CancelOrder` checks the status after opening its transaction. `service.CancelOrder`
  always passes CANCELED, so the check never fails, and it is part of `CancelOrderError`.

### OutboxRelay

Events are numbered by `created_at`. `visible`, `published`, `lockedBy`, `expired` are the row's
columns (`expired`: `locked_at` older than `lockTimeout`), `batch` and `pc` the worker's place in
`PublishOnce`, `topic` the messages with their partitions, `turn` the writer's round-robin position.
`locked` is the rows that a worker's claim has locked while its statement is under way. `suspect` and
`stalled` are history: events whose lease lapsed or whose write was repeated or reported lost; and
events whose publish failed or was reported lost, or that were leased, or locked by another claim, at
the moment a claim took a later event of their order.

A worker goes `BeginClaim` → `Claim` → for each event `PublishAck` → `MarkPublished`, or
`PublishError` → `MarkFailed`. `Current(w)` is the event the loop is at. The failures are actions of
their own: `ClaimError` (the claim is rolled back, or has committed unknown to the worker),
`PublishUnacknowledged`, `PublishRepeated` (the client library's retry), `MarkPublishedError` (which
ends `PublishOnce`), `MarkFailedError` (which does not), `Crash`. `Lapse` is time passing; it is free
on a lease nobody works on and a fault on one in use.

A claim is two steps, as its locks are seen by others before its leases are. `BeginClaim` is the
`SELECT ... FOR UPDATE SKIP LOCKED`, its snapshot and its locks together: it passes over every row
another claim has locked (`BeingClaimed`) and, if the UPDATE has come that far, a row another worker is
marking (`BeingMarked`). `Claim` is the `UPDATE` and its commit. A mark's UPDATE waits for a row that
a claim has locked (`Waits`). Three abstractions: a statement whose connection a worker has given
up is over before that worker polls again; a lease that has lapsed has lapsed for every worker; and a
run of the process is a worker of its own, since its id is random.

### OrderPipeline

EXTENDS `OrderStore` and instantiates `OutboxRelay` with `visible` defined as the rows of the
store's `outbox`: a request's commit is the relay's `Insert`. The relay numbers rows by `created_at`,
which is when their transaction began; the constant `ByAge` says which row of which order will have
which number, an order's creation before its end. The transactions may still begin in any order, so for
each `ByAge` the model does more than the database can. `RefinesRelay` states that what requests do
meets the relay's `Insert`; so what is proved of the relay is true of the relay that is fed by requests.

### ServiceLifecycle

| code | model |
|---|---|
| `loadConfig` and helpers, `main.go:127-186` | `LoadConfig`, `Config`, `PositiveOr`, `Brokers` |
| `pgxpool.New`, `Ping`, `net.Listen` with their early returns, `main.go:51-86` | `Connect`, `Ping`, `Listen`, `Return` to the calls deferred so far |
| the select, `main.go:113-124` | `Receive`, `SignalReceived` |
| `GracefulStop`, `writer.Close`, `pool.Close`, `stop`, in the order they run | two steps each: from when the resource refuses, then until it has drained (`StopAccepting`/`Stopped`, ...) |
| the serving goroutine, `main.go:90-97` | `Serve`, `ServeReturns`, `ServeFails`, `ServerSends`; requests by `Accept`, `Answer` |
| `Run` and `PublishOnce` under a canceled context, `publisher.go:59-109` | `BeginClaim` … `Wait`, `PublisherSends` |
| kafka-go's own goroutine | `Write` |

A call is two steps where a stop between them matters: begun on a live context or pool, ended after
it was canceled or closed. A call that returns an error may have had its effect or not, whether ctx
was canceled or the database or Kafka failed in a running process: `ClaimFails`, `Publish`,
`MarkPublishedFails` (which gives up the rest of the batch) and `MarkFailedFails` (which is ignored)
may happen at any time and as often as they like. The history variable `failed` has the rows such an
error was about when nothing was being stopped (`Blame`), so that what a stop leaves behind (`Dropped`)
can be told from what a failure does. Requests come until `GracefulStop` refuses them, also on
connections that were open when the listener broke (`Accept`). Lapsing leases and other publishers are
`OutboxRelay`'s and not repeated.

### MarketDataStore

The statements of `market_data.sql.go` against the tables' constraints: `UpsertLatestPrice`
(conflict target `symbol_id`, while `symbol` is UNIQUE too), `InsertTrade` (no ON CONFLICT),
`UpsertOrderBookLevel`, `DeleteOrderBookLevel`, and the queries `GetLatestPrice`, `GetOrderBookBids`
and `GetOrderBookAsks` with their filters, order and limit. Who calls them follows ROADMAP.md
(Phases 3 and 6: consumers that commit offsets after successful processing) and is external:
`Process` runs the statement of the next message, `ProcessUnacknowledged` loses its answer,
`CommitOffset` and `Restart` move the committed offset and go back to it. A statement that violates
a constraint has no effect and its consumer does not get past it. `reached` and `disturbed` are
history.

## 3 Runs

| run | question | states (about) |
|---|---|---|
| `race` | do the row, its events and the answers stay right when two cancels and three overlapping executions race on one order? `StoredRowsConsistent`, `OutboxMatchesOrders`, `LoserLearnsWhy`, `FillsConserved`, `AnnouncedRemainingNotLow`, `LifecycleRespected`, `TypeOK` | 475,000 |
| `retry` | is a retried create safe? `OneOrderPerKey`, `RetryGetsSameOrder`, `CreateGetsOwnTerms` | 93,000 |
| `live` | with one connection, is every request answered? `RequestsAnswered` | 3,500 |
| `ledger` | with two creates, a cancel and two executions: is what callers are told stored (`AcknowledgedIsDurable`), and do the requests implement atomic ones (`RefinesLedger`)? `IInv` is the proofs' invariant | 140,000 |
| `lease` | are leases safe (`PublishedImpliesLogged`, `DuplicateOnlyIfSuspect`, `LeaseFencing`, `PublishedIsFinal`), when may an event overtake an earlier one of its order (`OvertakenOnlyIfStalled`), and is all of it at-least-once delivery (`RefinesAtLeastOnce`)? `IInv`, `TypeOK` | 719,000 |
| `relay_live` | is every event published in the end? `EventuallyPublished` | 49,000 |
| `pipeline` | does Kafka hear of what happened to an order, all of it and nothing else? `TopicTellsTruth`, `AnnouncedInTheEnd`, `RefinesRelay` | 126,000 |
| `stop` | are requests never cut off (`HandlersFinish`), is the exit status truthful (`ExitTruthful`), does only a stop end the publisher (`PublisherGoesOn`), what does a stop leave behind (`StopLeavesAtMostABatch`), and does it end (`Terminates`)? `IInv`, `TypeOK` | 194,000 |
| `market_book` | do levels follow the log (`BookFromLog`), when may a book that comes from one partition look crossed (`CrossedOnlyIfDisturbed`), does each consumer end up to date or at one of the two kinds of message that are refused for ever (`ViewConverges`)? | 102,000 |
| `market_tables` | one price per symbol (`LatestPriceFromLog`), one row per trade (`TradesFromLog`); `IInv`, `TypeOK` | 63,000 |
| `partition`, `perorder` | expected violations, see [Findings](#7-findings) | |

The weak spots the passing runs show, rather than hide:

* `FillsConserved` and `AnnouncedRemainingNotLow` say "unless two executions read the same remaining
  quantity" (`NoLostUpdate`). `UpdateOrderExecution` writes an absolute remaining quantity and checks
  only the status, so partial fills that overlap in that way lose one; whoever writes the matching
  engine has to know. Everything else survives the overlap.
* `AnnouncedRemainingNotLow` is one-sided because a cancel may announce more than what remains.
* `CreateGetsOwnTerms` says "unless somebody uses the key for other terms": `GetOrderByIdempotencyKey`
  compares the key alone, and such a caller gets an order it did not ask for, with OK.
* `DuplicateOnlyIfSuspect` and `OvertakenOnlyIfStalled` name the circumstances of duplicates and of
  reordering within an order. For the latter they are: a publish of the earlier event failed or
  was reported lost; or the earlier event was leased when another claim took the later one (its worker
  is slow, or has abandoned it after an error of `MarkPublished` or a dropped one of `MarkFailed`, or
  has stopped); or another claim had it locked at that moment. In the last case nothing needs to have
  failed yet and no lease is ever taken: the claim that had the lock is rolled back, and `SKIP LOCKED`
  has passed over the row all the same. Events of different orders are in no order at all: `created_at`
  is when a transaction began, and rows become visible when it commits.
* `EventuallyPublished` assumes fewer poison events than a batch has room for. With as many, they
  are claimed first each time and nothing behind them is.
* `StopLeavesAtMostABatch` allows a batch: `main` does not wait for the publisher, so a stop may leave
  rows leased until their leases lapse, and messages in Kafka that will be published a second time.
  It speaks of what a stop adds. Failures of a running process leave rows in the same condition
  with no stop and with no limit on their number: an error of `MarkPublished` gives up the whole
  batch, one of `MarkFailed` a row, a claim or a write may have had its effect. Those rows are in `failed`,
  and the property says that without a stop there are no others.
* `ExitTruthful` is not an equivalence. Exit status 0 means a signal, but a signal during `Ping` ends
  with status 1, and when a signal and an error of the listener are there together either may win.
* `Terminates` needs every request to be answered: `GracefulStop` has no deadline.
* `KAFKA_BROKERS` of blanks and commas gives a writer without brokers, and a service that accepts
  orders and publishes none (`Brokers`, `BeginPublish`).
* `UpsertLatestPrice` does not compare `updated_at`, which ROADMAP.md:101 ("Prevent older price
  updates from overwriting newer prices.") asks for later. `LatestPriceFromLog` holds because the
  messages of an instrument are in one partition; during a replay an older price is back for a while.
* `InsertTrade` has no ON CONFLICT, unlike ROADMAP.md:100's plan, so a trade delivered twice, or
  read again after a restart, leaves no second row but stops a consumer that commits only what
  succeeded. So does a price read again whose symbol another instrument has taken since: `symbol` is
  UNIQUE, and no later message is reached that would free it. `ViewConverges` is therefore a
  disjunction: a consumer ends up to date, or stuck at one of these (`Stuck`), and at nothing else.

Every property of a passing run has a mutant: a definition with a plausible bug (kept beside the
original and marked "Mutant") under which TLC finds the property violated.

## 4 Bounds

* `OrderStore`: the requests are the bound, each is one call. A race on a row needs two writers, and a
  third to come upon what they left: `race` has two cancels and three executions. A race on a key
  needs two creates; `retry` has three, so that the winner may fail or refuse its event while two
  wait. `ledger` has two orders at once. The quantity is 2 or 3 and the fills give partial, exact,
  excessive and zero ones. Terms include an invalid value per validated field and a symbol of spaces.
  `PoolSize` is 2 or 3, below the number of requests, so that some wait for a connection, and 1 in
  `live`.
* `OutboxRelay`: `NumEvents` is 3, two of one order and one of another, created in between; two
  workers; `BatchSize` 2, so that batches are full or partial and an event remains outside;
  `MaxFaults` bounds crashes, lost answers and leases lapsing under work. Two are enough to lose a
  lease, have it taken over and fail the new holder. A claim that has locked rows, another that passes
  over them and the rollback of the first take one. `relay_live` has one, to which the liveness check
  adds all interleavings of the others' work.
* `OrderPipeline`: one order, two executions that fill it, two publishers, one fault. Its safety
  properties are proved for any number of orders; `AnnouncedInTheEnd` is checked of one.
* `ServiceLifecycle`: five environments (`Environments`): no database, batches of one and two, sizes
  and intervals that are zero, negative or do not parse, blank brokers; two rows, so that a batch of
  one leaves a row outside and a second batch is possible, and a batch of two can be given up after its
  first row; one request. Failures are not bounded.
* `MarketDataStore`: a book that falls by one price with an empty level, an upsert and a delete; two
  instruments, one of which takes over a symbol the other gave up; trades that come twice, in one
  partition and in two. `market_book` has the hand-over in three prices, and a trade after them,
  so that a consumer that starts over may be stopped by either. `MaxFaults` is 2: a lost answer and
  a restart, or two restarts.
* Symmetry is declared only over sets of model values and not in the liveness runs.
* Deadlock checking is off: each run is of finitely many requests, events, messages or one process,
  after which nothing is left to do. `RequestsAnswered`, `EventuallyPublished`, `AnnouncedInTheEnd`,
  `Terminates` and `ViewConverges` say more.

## 5 Fairness

* `OrderStore!FairSpec`: weak fairness of each request's own steps. A goroutine whose call can return
  is scheduled; pgxpool and PostgreSQL's lock queues serve waiters in order. Nothing is assumed of
  failures, nor that requests start.
* `OutboxRelay!FairSpec`: weak fairness of a worker's `Work` (the ticker brings `Run` back, and its
  loop does not block for good); weak fairness of `Lapse` for a lease nobody works on (time passes);
  strong fairness of `PublishAck` per event (asked again and again for a message it can take, Kafka
  takes it once). Events in `Poison` never have an acknowledgement. No fairness is given to failures.
* `FairPipelineSpec`: those two together.
* `ServiceLifecycle!FairSpec`: weak fairness of `main`, of the two goroutines, of kafka-go's writes
  (it gives up after its attempts) and of the answer to each request, which is what
  `RequestsAnswered` shows. None of `Signal`, `Accept` and `ServeFails`.
* `MarketDataStore!FairSpec`: weak fairness of each consumer's next statement and of its commit.

## 6 Proofs

All theorems are proved for every value of the constants that satisfies the named assumptions of the
module, with nothing taken on trust.

**The order store** assumes only that the three sets of requests are disjoint and do not contain "",
that terms are typed and that the pool is not empty. The proof is in three modules, each building on
the one before:

* `OrderStoreProofs`: the tables. The outbox property is not inductive, since a commit could add any
  event. `TxInv` adds what a transaction may hold: the row it has written is its statement applied to
  the committed row (`TxShape`), that row is still PENDING because nobody else can write it
  (`LocksExclusive`), and its event is the one that belongs to the row. Theorems: `TxInvariance`,
  `TypeCorrect`, `OutboxCorrect` (`OutboxMatchesOrders`), `LifecycleCorrect` (`LifecycleRespected`).
* `OrderAnswersProofs`: what callers are told. `IInv` is `TxInv` and: a create that has inserted its
  row has its key to itself (`KeysHeld`, what the unique index is for); the order in memory has
  passed its checks, and a request that looks for an existing order or for the cause of a conflict
  will find it (`LocalChecked`); an order has the terms of its create (`TermsKept`); some errors are
  never an answer (`RepliesInformed`). Theorems: `Invariance` (`IInv`), `RowsCorrect`, `KeysCorrect`,
  `AnswersDurable`, `RetriesAgree`, `TermsAnswered`, `LosersTold`, one for each safety property of the
  runs. `LedgerRefined`: every behaviour of the store is one of `OrderLedger`. The commit of a create
  opens, the commit of a cancel or closing execution closes, every other step stutters. The ledger
  wants fresh marks for its announcements: `MarksSpent` says that an event has the id of a request that
  is over.
* `OrderFillsProofs`: what remains of an order. `RemainingAnnounced` (`AnnouncedRemainingNotLow`):
  `FillsInv` says that, as long as no two committed executions of an order read the same remaining
  quantity, what they read is above what remains, and that whatever a request has read or an event
  reports is what remains or what some committed execution read (`Chained`). So an execution that
  commits without breaking the assumption has read what remains. `FillsAddUp` (`FillsConserved`): hence
  each commit takes from the row what it adds to the sum of the executions. The sum is a fold over a
  finite set; that a finite set has a sum, and what one more element adds to it, is proved by
  well-founded minimality (`LeastSubset`, `TotalExists`, `TotalUnfolds`, `TotalAdd`).

**The relay**, `OutboxRelayProofs` and `RelayDeliveryProofs`, assumes positive batch sizes and
partitions and that `None` is no worker. That an event is not written twice is not inductive. `IInv`
says who may still write an event under no suspicion (`Unsuspected`): it is in the batch of its
leaseholder only, and once it is in the topic it is published, or leased by someone who is about to
mark it or has dropped it. `LockShape` says what a claim may rely on between its two steps: the rows it
has locked are still rows anyone could claim, and no other claim has them. Theorems: `Invariance`, `TypeCorrect`, `PublishedCorrect`,
`DuplicatesCorrect`, and, about steps, `LeasesFenced` and `PublishedFinal`; `DeliveryRefined`: the relay
implements `AtLeastOnce`; `OrderKept` (`OvertakenOnlyIfStalled`), from an invariant that also says of
events that are claimed and not yet written that the earlier ones of their order are written, stalled, or in the same batch or claim (`OrderInv`), which each claim establishes for the rows it locks
from what it passed over.

**Requests and publishers together**, `OrderPipelineProofs`, assumes what both assume and that `ByAge` has
each row once, an order's creation before its end. `RelayRefined` (`RefinesRelay`): a commit of the store
offers the relay one row or none, never one that was offered, and the end of an order only when its
creation has been (`OutboxMatchesOrders` of the store). Through it the relay's theorems hold of the
composition: `GuaranteesKept` is `PublishedImpliesLogged`, `DuplicateOnlyIfSuspect` and
`OvertakenOnlyIfStalled` for events that requests commit. `TopicTruthful` (`TopicTellsTruth`) joins
the two sides: the topic has only what was offered (`OnlyOffered`, of the relay), and what was offered
is what the orders' statuses call for (`OutboxCorrect`, of the store).

**The process**, `LifecycleProofs`, assumes typed environments. `IInv` relates the place `run` is at to
what is closed, canceled and reported (`Phases`, `Requests`, `Closed`, `Reported`). `Batches` bounds by the
batch size what the publisher has dropped together with what it is working on, where dropped (`Dropped`) is
leased or written, in nobody's hands, and not accounted for by a failure; and says that nothing is dropped
before a stop and nothing claimed after something was, so that only one batch is ever in question, while
failures may be as many as they like. Theorems:
`Invariance`, `TypeCorrect`, `RequestsFinish`, `ExitCorrect`, `PublisherCorrect`, `StopCorrect`.

**Market data**, `MarketDataProofs`, assumes typed logs. `IInv` has the properties themselves and the
row of each instrument (`PriceFromLog`, `SymbolsUnique`), from which what `GetLatestPrice` answers
follows. Theorems: `Invariance`, `TypeCorrect`, `BookCorrect`, `LatestPriceCorrect`, `TradesCorrect`.
`CrossedExplained` (`CrossedOnlyIfDisturbed`) rests on `AnswersInv`: while nothing has changed, the
answers are what the table still says, and the table says what one partition said at one moment,
which holds when the bids are read because nobody was replaying. The property needs the symbol's levels
to be in one partition (`BookTogether`); without it, the attempt at the proof showed, two consumers
that have come unequally far leave a crossed book and nobody has replayed anything. That an answer
starts with the price of a row needs a best row in every finite set of rows (`BestExists`).

Every safety property and action property of the passing runs, and each refinement, is thus the
statement of a theorem. Only model-checked: the five liveness properties `RequestsAnswered`,
`EventuallyPublished`, `AnnouncedInTheEnd`, `Terminates` and `ViewConverges`; fairness and ENABLED are out
of the prover's reach.

## 7 Findings

* `partition` – `kafka_publisher.go:21` builds the writer without a `Balancer`, so kafka-go spreads
  messages round-robin and does not look at the key when it chooses a partition. `ROADMAP.md:174`
  asks for the key `symbol` "for market/order events that need per-symbol ordering". Two events of
  one order land on different partitions, two steps after the claim.
* `perorder` – `publisher.go:95` goes on with the batch after a failed publish. One failed write is
  enough for `orders.updated` to reach Kafka before the `orders.created` of the same order.

## 8 What is not modelled

* Generated code (`gen/`: protobuf messages and gRPC stubs, about two fifths of the lines):
  marshalling and dispatch with no behaviour of the project's own.
* The matching engine and the gateway: there is no code. Callers of `UpdateOrderExecution` and of the
  market data statements are modelled as external.
* Migrations (they lead to the schema that is modelled), build and deployment files.
* `GetRecentTrades`, which only reads, the decoding of rows, JSON, logging, and timestamps other than
  the ones named above.
* Serialisation failures and deadlocks inside PostgreSQL: each transaction writes one row of `orders`
  and one of `order_outbox`, so it never waits for a second lock while holding a first.
* Widths of integers: quantities are only subtracted within 0..quantity, so they do not overflow; the
  one conversion that can fail, a batch size that is not an int32, is in `ServiceLifecycle`.

## 9 Plan

What would come next:

1. A publisher's process in place of `OrderPipeline`'s workers: `ServiceLifecycle` composed with it, so
   that a stop and a restart are steps of the pipeline.
2. With the matching engine: its reads and executions in place of `StartFill`, and `NoLostUpdate` either
   shown of it or replaced by a condition in the UPDATE.
3. With the market data service: its consumers in place of the external ones, the comparison of
   `updated_at`, and what a consumer does with a trade it has stored already.

## 10 Running

    tlasany OrderStore.tla
    tlc -workers 2 -config MCOrderStore_race.cfg MCOrderStore
    tlc -workers 2 -config MCOutboxRelay_lease.cfg MCOutboxRelay
    tlc -workers 2 -config MCServiceLifecycle_stop.cfg MCServiceLifecycle
    tlapm OrderFillsProofs.tla
    tlapm OrderPipelineProofs.tla
    tlapm RelayDeliveryProofs.tla
