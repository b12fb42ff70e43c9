# A TLA+ verification of the shop's CDC project

The repository runs a synthetic shop on PostgreSQL and copies its tables to ClickHouse by change data
capture: Python threads write orders, payments, shipments, products and stock movements
(`scripts/`), Flink reads one logical replication slot per table
(`flink/jobs/postgres_to_clickhouse.sql`) and appends every row version to a
`ReplacingMergeTree(updated_at)` table (`clickhouse/init.sql`). PostgreSQL runs under Patroni behind
HAProxy; validation, recovery, failover and benchmark scripts observe the whole.

This directory holds TLA+ models of that system, the TLC configurations that check them on small
instances, and TLAPS proofs. Run inside this directory:

    tlc -config ShopOrders.cfg MCShopStreams.tla      # and likewise the other .cfg files
    tlapm ShopStreams_proofs.tla                      # and likewise FiniteSums and the other _proofs modules

## Inventory

| Component | State | Operations | What is hard |
|---|---|---|---|
| Order stream (`order_stream.py`, `order_service.py`) | orders, order_items, payments, products, inventory_movements | `insert_order`, `update_random_order`, `soft_delete_random_order` | one transaction over many rows; locks taken one after the other; rollback half-way |
| Payment stream (`payment_service.py`) | payments, orders | `update_random_payment` | reads without a lock, updates later |
| Shipment stream (`shipment_service.py`) | shipments, orders | `insert_shipment_for_paid_order`, `advance_random_shipment` | races with cancellations; deadlock with them |
| Product stream (`product_service.py`) | products, inventory_movements | `insert_product`, `update_random_product` | new stock computed in Python from an earlier read |
| Inventory stream (`inventory_service.py`) | products, inventory_movements | `import_random_stock` | the same |
| Customer stream (`customer_service.py`) | customers | `insert_customer` | savepoint and bounded retries |
| Supervision (`main_stream.py`) | six threads, their connections | start, report | a thread that dies stays dead; a transaction left open or failed by one call is the next one's |
| Row versions (`01-init-primary.sql`, `set_updated_at`) | `updated_at` of every row | BEFORE UPDATE trigger | clocks that stand still or step back |
| CDC pipeline (`flink/`, `docker-compose.yml`, `clickhouse/init.sql`) | WAL, slots, source positions, sink buffers, checkpoints, sink tables | snapshot, read, flush, checkpoint, confirm, restart, resubmit | loss, duplication, reordering, restart |
| PostgreSQL HA (`postgres-ha/`, `haproxy/`) | logs, roles, leader key, slots of each node, the node routed to | replicate, promote, rewind, stop, route | acknowledged commits and slots lost at a promotion |
| Comparison (`compare_postgres_clickhouse.py`) | check results, history tables | read both stores, retry, record | two stores read at different moments |
| Exporter (`cdc_validation_exporter.py`) | the dictionary `STATE` | scrape, refresh | concurrent scrapes of one dictionary |
| Stack checks and recovery tests (`verify_stack.py`, `fault_tolerance_test.py`, `flink_recovery_test.py`) | job ids, checkpoint counts, deadlines | poll, restart, resubmit, judge | a verdict from the wrong id or too early |
| Failover test (`postgres_failover_test.py`) | the node it stopped, probe ids, deadlines | ask, stop, wait, probe, compare, restore | nodes asked one by one during a promotion; a stop that turns into a kill |
| Benchmarks (`scripts/benchmark/`) | token bucket, sequence numbers, statistics | writer threads, probes | shared limiter, deadlocks, dropped batches |
| Seeders (`run_seed.py`, `seeders/`) | row counts | phases that top tables up | a run that breaks off between two committed rows and is repeated |

The components meet in the tables: the streams share products, orders, payments and shipments and
synchronise only by PostgreSQL's row locks; the pipeline sees what they commit, in commit order, and
tells versions of a row apart only by `updated_at`; validation and the exporter read both ends.

What makes them correct: stock equals the sum of its movements whoever writes it; an order's units
are taken once and returned once iff it is cancelled; nothing cancelled is shipped and nothing unpaid
is shipped; statuses never move back; every transaction ends; an error in one call of a stream neither
ends the stream nor reaches the next call. For the pipeline: nothing committed is
lost, nothing older replaces something newer, the slot never outruns what recovery needs, and the
copy catches up once the job stays up. For those who watch: a mismatch, a pass, a page of metrics and a
verdict of a test each say something true of the system at a time that can be named, and each is
reached.

## Modules

| Module | Role |
|---|---|
| `StockLedger` | abstract: stock changes only together with a movement written for that change |
| `ShopStreams` | the five writing streams, their transactions and row locks; implements `StockLedger` |
| `ShopStreams_proofs` | TLAPS proofs about `ShopStreams` |
| `FiniteSums` | lemmas about sums over finite sets, for the proofs about stock and about checks |
| `MCShopStreams` | values of the constants for TLC |
| `UpdatedAt` | the trigger `set_updated_at` in microseconds |
| `LatestState` | abstract: a reader sees committed rows and never goes back to an older one |
| `CdcPipeline` | one table from WAL to ClickHouse, with failures; uses `UpdatedAt`, implements `LatestState` |
| `CdcPipeline_proofs` | TLAPS proofs about `UpdatedAt` and `CdcPipeline` |
| `MCCdcPipeline` | values of the constants for TLC |
| `ValidationRun` | the PostgreSQL/ClickHouse comparison over two changing stores, and its history tables |
| `ValidationRun_proofs` | TLAPS proofs about `ValidationRun` |
| `ValidationExporter` | concurrent scrapes and refreshes of the exporter's `STATE` |
| `ValidationExporter_proofs` | TLAPS proofs about `ValidationExporter` |
| `StackChecks` | the scripts that judge the Flink job by polling it |
| `StackChecks_proofs` | TLAPS proofs about `StackChecks` |
| `PgFailover` | Patroni, HAProxy, the Flink job across a failover, and `postgres_failover_test.py` |
| `PgFailover_proofs` | TLAPS proofs about `PgFailover` |
| `StreamThreads` | the stream threads, their connections and transactions, from call to call |
| `Seeding` | `run_seed.py` and the seeders |
| `Workload` | `make seed`, then `make stream`: composes `Seeding` and `StreamThreads` |
| `Workload_proofs` | TLAPS proofs about `StreamThreads` and `Workload` |
| `MCValidationRun`, `MCValidationExporter`, `MCStackChecks`, `MCPgFailover`, `MCWorkload` | values of the constants for TLC |

### ShopStreams

The table variables hold committed rows. `stock`, `pstatus` and `audit` are `products` and
`inventory_movements`; `orders` carries the items with the order; `payment` and `shipment` are at most
one row per order (the streams insert one payment per order, `shipments.order_id` is UNIQUE). Each
thread has a session variable (`ord`, `pay`, `shp`, `cat`, `inv`): the point its open transaction has
reached, what it read, and the rows it therefore has locked.

A transaction is one action per statement that takes or waits for a lock. PostgreSQL runs READ
COMMITTED: other transactions' uncommitted rows are invisible, so the writes take effect in the action
that commits. `FreeProduct`, `FreeOrder`, `FreePayment` and `FreeShipment` derive who holds a row from
the sessions. `FOR UPDATE SKIP LOCKED` is a guard "free" on the selection (the row is passed over); a
plain `UPDATE` has the same guard, and there it means waiting. An `UPDATE` whose WHERE clause matches
no committed row does not wait (`RefundPayment`, `CommitCancel`).

`Abort*` is an exception in any statement, caught by the stream's loop and followed by
`conn.rollback()`. `BreakDeadlock` is PostgreSQL's deadlock detector choosing a victim.

Abstractions. Prices, names, addresses and amounts are left out, and so is the customer an order is
for. The PRICE branch of `update_random_product` and a correction that changes nothing are both
`CommitPrice`. The one-minute age test of `advance_random_shipment` is left open: any live shipment
may be old enough. `payment_probability` is 1.0 in the stream and 0.8 in the seeder: an order may be
created without a payment. No code writes `DISCONTINUED` or soft-deletes a product, so these are not
states. The foreign keys' KEY SHARE locks never conflict with the updates made here, which change no
key, and every `FOR UPDATE` row they could meet is locked by the same transaction.

### UpdatedAt, LatestState, CdcPipeline

`NextUpdatedAt` is the trigger: the fraction of the second is squeezed into 100 ms .. 999.9999 ms, and
if the result is not above the row's old version it is the old version plus one microsecond.

`CdcPipeline` follows one table, because the nine share nothing but the job: each has its own slot and
sink. A change is a key and a version. `Write` appends to the WAL; `Snapshot` is what a source without
state does; `Read`, `Flush`, `BeginCheckpoint`, `CompleteCheckpoint`, `ConfirmSlot` are the running
job; `Fail`, `Restart`, `IntervalPasses` are the failure-rate strategy; `LoseJobManager` and `Submit`
are the loss of the JobManager, which has no HA configured, and the one-shot submitter, which starts a
job that knows no earlier checkpoint. The source of Flink, its connectors and ClickHouse is not in the repository:
they are modelled from how the SQL, the compose file and the DDL configure them. The two connectors are
there as jars only (`flink/connectors/`). `SinkFlushed` says what the ClickHouse connector is assumed to do: it has
written out every row ahead of a barrier when the checkpoint completes. Nothing in the repository shows
this, and `CheckpointIsDurable`, `NothingLost` and the theorems `CheckpointsAreDurable`, `NoChangeLost` and
`DrainedShowsDatabase` rest on it. The sink may write
any part of its buffer first, so rows of one key may arrive in any order.

Abstractions. The initial snapshot is one step and consistent with a WAL position, as the connector
promises. A checkpoint that fails more often than `tolerable-failed-checkpoints` fails the job: that
is `Fail`, which may happen at any time. Savepoints are not taken by any service. A job that
has failed for good stays in the state `failed` until somebody submits it again: `CatchesUp` says nothing of that
time. PostgreSQL's failover is `PgFailover`'s matter.

### ValidationRun

A check is a sequence of committed changes, each with what it adds to the check's value; `ch` is the set
of them that ClickHouse has. `ReadPostgres` and `ReadClickHouse` are the two queries of one check, with
both stores going on in between. `Judge` is the loop of `run_checks`, which looks at the deadline only
between attempts; `Raise` is any exception, recorded as ERROR. The history is one transaction
(`InsertRun`, `InsertResults`, `CommitHistory`) that may fail at any point and is then rolled back
(`SkipHistory`).

Abstractions. "Counts" are the checks whose value never takes back a change: table and deleted-row
counts, updated-row counts, movement types, shipment statuses (a shipment only moves forward). "Sums"
are revenue, payments, stock and quantities; changes that cancel out in a sum can be missing from
ClickHouse while every check passes, so a pass proves less about sums than about counts. Checks over one table are independent here, which allows
more than the program does.

### ValidationExporter

`state` is `STATE`, assigned key by key (`Store`) and read key by key (`Render`), by the request threads
of a `ThreadingHTTPServer` and by `main` before it serves. The keys kept are those the verdicts rest on:
`up`, `failed_checks`, `checks`, `latency_up`; one key stands for everything loaded with the checks and
one for the latency figures, and their value is the number of the refresh that wrote them. `due` is the
test of `last_run` against the interval.

### StackChecks

`state`, `attempts`, `completed`, `alive` and `holder` are the job as REST API and
`pg_replication_slots` show it; the JobManager may go on saying RUNNING after the tasks are gone
(`NoticeLoss`). The slots become inactive with the tasks that read them: a container is restarted only
after its process has ended, and its connections with it. `ReadJobs` and `ReadSlots` are the two
queries of one round of `verify_jobs_and_slots`; `Verified` is what each caller does with the pair it
returns. `RestartContainer` is `docker restart` and the wait for health; `Raise` is every other
exception. Scenarios run in the order of `--scenario all`.

Abstractions. A restart of the JobManager ends the job's tasks at once; TaskManagers may really keep them a
little longer, until they miss it.

### PgFailover

A change is the index of its entry in `history`, the table it was written to; `wal` is what each node's
log has of it. `Replicate` is asynchronous (`patroni.yml.template` sets no synchronous mode), so
`Commit` acknowledges what no replica may have. `Expire`, `Promote` and `Healthiest` are the leader race:
the key's ttl, the comparison with the position last published (`maximum_lag_on_failover`) and with the
members that answer. `StopCleanly` is SIGTERM, where PostgreSQL waits until its walsenders have sent
everything; `Kill` is the SIGKILL that `docker stop` sends when its grace period is over. `Rewind` is
`use_pg_rewind`. Logical slots exist on the node where a source created them, because the template has
no `slots` section: `Attach` creates a missing one at the end of the log and reads from there, or from
the checkpoint if that is later. `Route` is HAProxy.

The Flink job (`Deploy` .. `Fail`) is what the failover test can see of it: read, delivered and
checkpointed log positions, over all its sources. What its sinks do between checkpoints, in detail, is
`CdcPipeline`'s matter. The script's state is the step of `run_test` (`Steps`, `at`) and its local
variables. `AskNode` is one request of `patroni_statuses`; `TimeOut` is any deadline, `Raise` any other
exception; `Abort` goes to the `finally`, where `Restore` starts the stopped node.

`tookOver` says how many changes had been acknowledged when a node was promoted, `killed` whether the
stopped node ended without handing over its log: both are history variables. `InsertProbe` returns an
id of the sequence behind `probe_id`; after a kill the sequence may have gone back with the log, and an
id already used by a lost probe, whose row ClickHouse may have, is given again (`LostProbes`).

Abstractions. Every change inserts a row, and the comparison counts rows of one compared table: an
update that ClickHouse lacks is seen by sums or not at all (`ValidationRun`). Log positions are counted
in changes, so `MaxLag` is in changes too. There are no network partitions: a leader loses its key only
when it is gone, so two nodes are never primaries at once (part of `TypeOK`). Positions of a promoted node's
log that the checkpoint knows from the old one are compared as numbers, as LSNs are.

### StreamThreads, Seeding, Workload

`StreamThreads` is the loop that all six `run_..._stream` functions have: a connection for the thread's
life, calls of services in a fixed cycle, `conn.rollback()` in the handler, `conn.close()` at the end.
`phase`, `at` and `txn` say where a thread is; `rows` that it has written and not committed. `Collide` is
the unique violation inside `insert_customer`, undone to its savepoint and tried `max_attempts` times;
`Fail` is any other exception, with PostgreSQL's failed transaction or without. `ReturnNone` is the
early return that leaves its transaction open. `LoseConnections` is HAProxy's
`on-marked-down shutdown-sessions`: the next statement raises, so does the rollback in the handler, and
the thread ends; `main` lists the threads that live and starts none again. `LeaveOut` is a call that
`order_stream.py` makes in some cycles only, as `random()` has it.

One shipment is tracked, with the age test of `advance_random_shipment`: `ripe` is the minute since its
`updated_at`, and `view` is what `CURRENT_TIMESTAMP` shows of it, which PostgreSQL fixes when the
transaction begins. A transaction that an early return left open therefore keeps the shipment young;
the next call that commits ends it. `CancelOrder` deletes it with its order.

`Seeding` counts rows: `main` reads the counts once, each phase inserts what was missing, one committed
row at a time, `seed_shipments` counts for itself and needs paid orders without a shipment, and
`verify_seeded_cdc_tables` raises if a table is empty (movements and items come with products and
orders). `Workload` runs `Next` of `StreamThreads` only after the seeding is done, as `README.md` of the
repository prescribes.

Abstractions. What calls do to orders and stock is `ShopStreams`' matter; "other" stands for every
service that commits or returns early. `insert_order` in the seeder imports stock and tries again when
there is none: a step that changes no count.

## Runs

| Run | Instance | Checks |
|---|---|---|
| `shop_orders` | 1 product, 2 orders, stock 1..2, 348 k states | `TypeOK`, `ReadsStayFresh`, `SoldOnceReturnedOnce`, `CancelledShipsNothing`, `DeliveredIffCompleted`, `ShipmentOnlyForPaid`, `OutOfStockIffZero`, `OrderNeverRegresses`, `ImplementsLedger` |
| `shop_items` | 2 products, 1 order of up to 2 items, stock 2, 586 k states | `ImplementsLedger` while a cancellation restores row by row and imports and corrections change the rows it has sold |
| `shop_live` | 1 product, 1 order, with fairness | `EveryTransactionEnds`, `PaidOrderShips` |
| `cdc` | 2 rows, 3 changes, 2 clock readings around a second, 1 tolerated failure, 1 JobManager loss, with fairness, 260 k states | `VersionsFollowCommits`, `CheckpointIsDurable`, `NothingLost`, `RestartPointRetained`, `ImplementsLatestState`, `CatchesUp` |
| `comparison` | 1 count, 1 sum, 2 changes of each, with fairness, 964 k states | `TypeOK`, `QuietPassHasCounts`, `NoFalseAlarm`, `HistoryIsWhole`, `RunEnds` |
| `exporter` | 2 request threads, 1 check, 2 refreshes and those that overlap them, with fairness, 356 k states | `PageTellsARecentRun`, `AloneIsConsistent`, `ScrapeAnswered` |
| `exporter_counts` | 2 request threads, 2 checks | `CountMatchesChecks`, violated |
| `exporter_latency` | 1 request thread | `LatencyUpIsHonest`, violated |
| `checks` | 2 jobs, 3 attempts and 3 checkpoints of each, with fairness, 195 k states | `RecoverySeen`, `NoSecondJob`, `PassNeedsNewCheckpoint`, `VerdictReached` |
| `checks_baseline` | the same | `HealthyBaselineAccepted`, violated |
| `failover` | 3 nodes, 1 failover, lag of 1 change allowed, 2 probes and 1 order, with fairness, 412 k states | `TypeOK`, `MissedOnlyBeforeSlot`, `CleanFailoverLosesNothing`, `PassProvesPropagation`, `PassWithComparisonMissesNothing`, `WriteEndpointReturns` |
| `workload` | seeding of 2 customers, products and orders, 1 category, 1 shipment; then 2 streams, 3 attempts, with fairness, 174 k states | `CallsStartClean`, `SeedTopsUp`, `EveryCallComesRound`, `ShipmentsAdvance` |

Bounds. `Orders` and `Products` are the keys the sequences may hand out. Two orders of one product are
the smallest shop in which sales compete for stock and one order is cancelled while the other ships;
two products are the smallest in which a cancellation waits between two rows it restores. There is one
thread of each kind, so no property needs a third order. `MaxMovements` stops imports and corrections
once a product has that many movements (sales and cancellations are bounded by the orders): 2 with two
orders, 3 in `shop_items`, so that an import or a correction can meet a product that is already sold and
about to be restored.
`MaxItems` bounds the items of an order. Stocks of 1 and 2 make sold-out products common; a correction
of -2 meets the clamp at zero. `MaxWal` = 3 lets a row change again after a checkpoint and a restart;
`MaxFailures` is 3 in the compose file and 1 here, which reaches both outcomes of the strategy;
`MaxLosses` = 1 gives a second job. The readings 1.999999 s and 2.000000 s make the squeezed times meet
at the second's edge and let the clock step back.

In `ValidationRun` two changes of a sum are the fewest that cancel out, and a count beside a sum the
fewest checks of which one can hide the other. In `ValidationExporter` two request threads overlap;
`MaxRuns` = 2 lets a page be compared with a run that a later one has made out of date (a second thread
that has found the interval over refreshes even so, and three runs occur). In `StackChecks` two jobs
allow the resubmission, three attempts a restart before and after it, and three checkpoints one beyond
the two that `verify_checkpoints` wants.

In `PgFailover` three nodes are those of the compose file: of two replicas one may lag behind the other.
An allowed lag of one change makes both outcomes of the race possible (after a kill a replica may lack
one change and be promoted, or two and not be), and with the two probes and one order a change can be
lost, missed before a new slot, or arrive after it. In `Workload` one stream inserts and one returns
early; threads share no state but the endpoint and the shipment, and the theorems hold for any number.
Targets of two let a seeding break off between two rows of a phase.

Deadlock is checked except in the runs of `StackChecks`, `PgFailover` and `Workload`, where scripts end
and every thread may die with its connection: the order stream can always
abort and start again, a job can always fail or be submitted, a validation can always be started and a
metrics page asked for. With symmetry only safety is checked.

Fairness. In `ShopStreams`, a running thread reaches its next statement (WF). A statement that waits
for a row lock is strongly fair: the lock queue wakes it when the holder ends, and every holder's
transaction is short and followed by a sleep. The detector is weakly fair. `SelectPaidOrder(o)` is
strongly fair for each order: `ORDER BY random()` does not pass over one eligible order for ever.
Starting a transaction, cancelling and failing are under no obligation. In `CdcPipeline`, only reading,
flushing and the automatic restart are fair; `CatchesUp` assumes that the job eventually stays up,
because the failure-rate strategy may give it up and nothing in the repository resubmits it. In the three
modules of validation and tests a started script or request goes on (every query has a timeout) and
deadlines pass; writers, deliveries, checkpoints and recoveries are under no obligation.

In `PgFailover` the script goes on (WF), keys expire, members run for a free key and HAProxy goes on
checking (WF of `Elect`), and a deadline passes: strongly fair, because a wait may look at the clock
only between two rounds of requests. Replication, the workload and the Flink job owe nothing:
`WriteEndpointReturns` holds even if no replica ever catches up, because the `finally` brings the old
primary back. In `StreamThreads` threads run and time passes (WF), and `AdvanceShipment` is strongly
fair: `ORDER BY random()` does not pass over one shipment for ever. Errors, lost connections and the
endpoint's return are free. `ShipmentsAdvance` assumes in its premise that shipments are created again and again:
without a call that commits, the transaction an early return has left open keeps its timestamp, and
no shipment is ever old enough, even with the endpoint up all the time. `EveryCallComesRound`
needs no more than that a thread runs: it promises each call of the cycle, except those that `random()` may
leave out, as long as the connection lasts. The premise of `ShipmentsAdvance` also says that the shipment
stream lives. After a failover its connection is cut and it does not: "Script này tạo workload liên tục"
(the script creates workload continuously, `README.md:288` of the repository) holds of a thread only as long as
its connection does. The same list names updates of customers, which no stream makes.

## Findings

| Run | The code | What is said of it |
|---|---|---|
| `checks_baseline` | `flink_recovery_test.py:193` uses the pair returned by `verify_jobs_and_slots` (`verify_stack.py:236`) as the job id, so its first checkpoint query names no job and the test fails on any stack | its docstring (line 5): it will "prove a completed checkpoint exists in MinIO before restart" |
| `exporter_counts` | refreshes that overlap interleave their assignments to `STATE`; when both are over, `failed_checks` may be the one's and `checks` the other's | help texts, `cdc_validation_exporter.py:78` and `:87` |
| `exporter_latency` | a refresh whose checks raise leaves `latency_up` at 1 with earlier figures (`:220`-`:228`, `:243`) | help text, `:181`: "Whether latency probe metrics refreshed successfully." |

## Proofs

TLAPS checks these for every value of the constants that satisfies the modules' assumptions
(named `...Assumption` in each: bounds are naturals, clock readings are positive, cycles are not empty); sets of keys,
products and orders may be infinite, and the bounds of the runs play no part.

`ShopStreams_proofs`:

| Theorem | Establishes | Argument |
|---|---|---|
| `TypeCorrect` | `Spec => []TypeOK` | one lemma per group of actions |
| `NoLostUpdate` | `Spec => []ReadsStayFresh` | with `TypeOK` it is inductive: a commit changes only products its own session holds, and no two sessions hold the same one |
| `StreamsImplementLedger` | `Spec => ImplementsLedger` | a committing step posts one movement per product, whose old value is the stock *because* the read is still fresh; every other step stutters |
| `AuditTrailIsAChain` | `Spec => []AuditChain` | from the ledger's step: each posting extends every product's chain from the stock it left |
| `StockIsSumOfMovements` | `Spec => []StockIsSum` | the same step: a posting adds to the sum what it adds to the stock |
| `CancelledOrdersShipNothing` | `Spec => []CancelledShipsNothing` | from `LifeInv` |
| `DeliveredMeansCompleted` | `Spec => []DeliveredIffCompleted` | from `LifeInv` |
| `OnlyPaidOrdersShip` | `Spec => []ShipmentOnlyForPaid` | from `LifeInv` |
| `OrdersMoveForward` | `Spec => OrderNeverRegresses` | each step of each stream under `LifeInv` |
| `StatusTellsStock` | `Spec => []OutOfStockIffZero` | inductive with the types |
| `UnitsSoldAndReturnedOnce` | `Spec => []SoldOnceReturnedOnce` | from `OncePerOrder` and `Complete` |
| `NoOtherDeadlock` | `Spec => []OneDeadlock` | `LifeInv` and an order of the sessions |

`LifeInv` is what three streams must keep up together. `Lawful` says which combinations of an order, its
payment and its shipment may stand; it is not inductive alone, because a stream acts on what it read
in earlier statements. Hence one part for each open transaction: the order stream's order is in the status
it was read with, and its flag for a refund tells the payment's status (`OrderHeld`); a payment selected
without a lock is still open, because only this stream settles payments (`PaymentOpen`); the order being
shipped is still paid, not cancelled and without a shipment, and the shipment being moved still
active (`ShipmentHeld`). The locks that make these hold are conjuncts of the actions' guards.

`SoldOnceReturnedOnce` compares an order's row with movements written statements apart: `OncePerOrder` says of
every product and order that the trail holds one SALE of the units ordered and one RETURN
exactly if it is cancelled, `Complete` that a cancellation past its stock has restored all of it.

`OneDeadlock` says that a statement waits only for another session, and that waits descend in `Level`
(payment, shipment, order, then the product writers), so that no cycle of any length closes, unless
`Deadlocked` holds, the one cycle of cancellation and delivery that the model gives to PostgreSQL's detector.
A cancellation never waits for the payment stream: it refunds a payment that succeeded, while that stream holds
one that is open. It needs that the refund is the last lock before the shipment's (`RefundLast`).

The invariants of this module were checked with TLC on the instances of `shop_orders` and `shop_items` before they
were proved.

`FiniteSums`: TLC sums by recursion, in an order that nobody knows. The lemmas give a sum a meaning without
recursion, the number of units it adds less the number it takes away (`Balance`). That function satisfies
the recursive equation, so the recursive one exists; on a smallest set where they differed, the
equation would make them agree. What follows is all that the proofs use: the sums of nothing, of one index more, of
equal values and of ones.

`CdcPipeline_proofs`, along the invariant `IInv`, which was checked with TLC on the instance of
`cdc` before it was proved:

| Conjunct of `IInv` | Why it is needed |
|---|---|
| `TypeOK`, `Quiet` | a barrier never lies past the position read, which holds across a restart only because no barrier survives a failure |
| `History` | the log's versions increase for each row and `db` holds the last one, so a snapshot covers everything before it |
| `OnlyCommitted` | rows on their way and stored rows come from the log, so the reader's maximum is a committed version and exists |
| `Delivery` | what is read is stored or buffered *at or before the position read*; the same of a barrier's position; without the positions a completed checkpoint would not follow from an empty buffer ahead of the barrier |
| `Ordered`, `RestartPointRetained` | slot, checkpoint, barrier and position keep their order through confirmation, abandonment and restart |

| Theorem | Establishes |
|---|---|
| `TriggerAdvances` | `NextUpdatedAt(old, raw) > old` for every old version and clock reading |
| `PipelineTypeCorrect` | `Spec => []TypeOK` |
| `VersionsIncrease` | `Spec => []VersionsFollowCommits` |
| `NoChangeLost` | `Spec => []NothingLost` |
| `CheckpointsAreDurable` | `Spec => []CheckpointIsDurable` |
| `SlotRetainsRestartPoint` | `Spec => []RestartPointRetained` |
| `PipelineImplementsLatestState` | `Spec => ImplementsLatestState`: a write is a commit of the abstract store, a flush shows newer rows or stutters, everything else stutters |
| `DrainedShowsDatabase` | `Spec => []DrainedIsEqual`: a running job that has read everything and flushed it leaves PostgreSQL's rows in ClickHouse; the safe half of `CatchesUp` |

`ValidationRun_proofs`, along the invariant `IInv`: as long as the stores have agreed since the attempt
began, so have the values read from them (`Agreement`), and what is recorded is the outcome of the
mismatches that were kept (`Outcome`, `WholeDraft`, `RowOfStatus`).

| Theorem | Establishes |
|---|---|
| `MismatchIsReal` | `Spec => []NoFalseAlarm`: a mismatch is never an artefact of reading the stores one after the other |
| `RecordedRunIsWhole` | `Spec => []HistoryIsWhole` |
| `RunTypeCorrect` | `Spec => []TypeOK`, with `Typed` |
| `PassCountsEverything` | `Spec => []QuietPassHasCounts`, with `CountInv` |

`CountInv`: checks that only count rows are sums of ones (`CountsGrow`), so equal sums over a smaller and a larger
set of changes make the sets equal; and while nobody writes, a check that was found equal stays so and the value
last read from PostgreSQL still holds (`QuietReads`), although each check reads at a time of its own. It was
checked with TLC first.

`ValidationExporter_proofs`, for any number of threads, checks and overlapping refreshes:

| Theorem | Establishes |
|---|---|
| `PageIsRecent` | `Spec => []PageTellsARecentRun` |
| `AloneAgrees` | `Spec => []AloneIsConsistent` |

A page reads keys that several runs may have assigned. For each key there is a run that assigned
it last, which is not old and was not over when any thread began that has assigned the key since
(`Sourced`). The second half is what keeps it so: a run becomes old when one that began after its end is over, and
that one has assigned every key by then. What a thread has read came from such a run at the time
(`Read`), what it has yet to assign is what its own run found (`Pending`), and pages are served
only once a run is over (`Served`).

`StackChecks_proofs`, along an invariant of which `TypeOK` is only a part: each script has program points of its own
(`Steps`), at most one job is active, and none until the submitter has run after the JobManager was restarted
(`OneJob`), what is alive after a restart was deployed since (`Redeployed`), and the checkpoints counted are
those of the job that was seen (`Counting`).

| Theorem | Establishes |
|---|---|
| `ChecksTypeCorrect` | `Spec => []TypeOK`, for any number of jobs, attempts and checkpoints |
| `RecoveryIsSeen` | `Spec => []RecoverySeen`: stale RUNNING states never pass for a recovery, because the slots went with the old tasks |
| `NeverASecondJob` | `Spec => []NoSecondJob` |
| `PassMeansNewCheckpoint` | `Spec => []PassNeedsNewCheckpoint` |

`PgFailover_proofs`, for any nodes, lag and number of changes. The first invariant, `IInv`, says nothing but types once
a node was killed; until then every log is a prefix of one history (`Logs`), whoever holds the key has
all of it and so has everybody while the key is free (`Leader`), which is what lets a promotion lose
nothing; the script's knowledge follows (`BeforeStop`, `AfterStop`, `Probed`, `Counted`).

| Theorem | Establishes |
|---|---|
| `CleanFailoverIsLossless` | `Spec => []CleanFailoverLosesNothing` |
| `PassMeansPropagation` | `Spec => []PassProvesPropagation`: the second probe is younger than the promotion |
| `ComparedPassMissesNothing` | `Spec => []PassWithComparisonMissesNothing`: equal counts are equal sets, since nothing in ClickHouse is unknown to PostgreSQL |
| `TypeCorrect` | `Spec => []TypeOK`, with `Bounded` and `InTurn` for the lengths of the logs |
| `NothingMissedAfterSlot` | `Spec => []MissedOnlyBeforeSlot` |

The last two hold of every run, killed nodes included, where logs part and are rewound; their invariant is
`GInv`. A primary holds the key (`OneKey`), and the sources are connected to one on which they have a slot
(`Attached`). As long as that slot is there, no position of the sources lies past the node's log, except
when the checkpoint they resumed from did (`resume`), and all that they passed since they began
there is stored or buffered (`Covered`): a rewind, which alone shortens a log, drops the node's slots
with it. A rewound log keeps the longest common prefix, for which there is a lemma.

`Workload_proofs`, about `StreamThreads` first. A call leaves no attempt used and no transaction failed
(`AttemptsLeft`, `Fresh`); a seeding's remaining work never exceeds what its tables lack.

| Theorem | Establishes |
|---|---|
| `ThreadsTypeCorrect` | `Spec => []TypeOK`, for any streams and cycles of calls |
| `EveryCallStartsClean` | `Spec => []CallsStartClean` |
| `SeedingTopsUp` | `WorkloadSpec => []SeedTopsUp`, for any targets |
| `WorkloadRunsStreams` | `WorkloadSpec => Spec`: the composition implements the streams' specification, so their theorems hold of it |

The types of `CdcPipeline`, `StackChecks` and `StreamThreads` and the chain of `AuditChain` are proved
and no run repeats them.

Only model-checked is liveness (`EveryTransactionEnds`, `PaidOrderShips`, `CatchesUp`, `RunEnds`, `ScrapeAnswered`,
`VerdictReached`, `WriteEndpointReturns`, `EveryCallComesRound`, `ShipmentsAdvance`), which is out of the prover's reach: it rests on
fairness and ENABLED. Of two of them the proofs hold the safe part: a statement blocked for good would need a
cycle that `NoOtherDeadlock` excludes, and `DrainedShowsDatabase` says what catching up ends in. Every safety
invariant and every action property of a passing run is stated by a theorem.

## Not modelled, and the plan

Left out: the legacy `generate_stream.py`, dashboards and report formatting, and the benchmarks. The
benchmarks generate load and print statistics. Their shared state is a sequence number and a token
bucket, each behind one lock; a batch is committed or dropped. What they write ignores the shop's rules by
intent (`stress_stream.py` sets statuses at random and changes stock without a movement), so no property
of the shop is asked of it.

Of the modules above: Patroni's roles and the percentiles in `ValidationExporter`; in `StackChecks` the
part of `flink_recovery_test.py` behind its baseline, which no run of it reaches, and
`verify_stack --readiness`, which ends where the checkpoint wait begins; in `PgFailover` network
partitions, the loss of etcd and switchovers; the end of the streams by Ctrl-C, which ends every
thread at once. `idempotency_order_test.py` is one sequential script whose promise is `LatestState`'s.

What would come next:

1. Proofs: how many rows a reader may lack while changes are on their way, and `PgFailover`'s test as an
   implementation of an abstract one that only says what a PASS asserts.
2. `PgFailover` with a partitioned leader, whose watchdog or ttl ends it.
3. In `CdcPipeline`: savepoints, and WAL that is recycled.
