# A TLA+ model of the IndexMaker Vendor and Keeper

The repository holds two long-running Rust programs and the libraries they
share. The **Keeper** (`src/bin/keeper`) watches the vaults of on-chain index
tokens, collects the orders it sees into batches, asks the Vendor for market
data and settles the orders on the chain. The **Vendor** (`src/bin/vendor`)
keeps market data, answers the Keeper, and trades on an exchange so that its
holdings follow the demand of the index tokens on the chain.

Everything here is translated from the source; where this text says "the
code", it means the file and lines that `PROJECT.json` gives in `map` for each
definition.

Contents: [inventory](#inventory), [modules](#modules), [runs](#runs),
[findings](#findings), [fairness](#fairness), [proofs](#proofs),
[what is left out](#what-is-left-out), [plan](#plan).

## Inventory

Each part with its state, its operations, its partners, what is hard about it
and what makes it correct. "Modelled in" names the module; a dash means that
the part is not modelled yet (see the plan).

### Keeper

| Part | State and operations | Talks to | What is hard, what must hold | Modelled in |
|---|---|---|---|---|
| Order accumulator `accumulator/` | The current batch behind a lock, the current block, a channel of submitted orders. `submit_order`, the receiver task, `should_flush`, `flush_batch`, `update_block` | Receives from the event processor; the KeeperLoop and the receiver flush | Two tasks look at the batch and flush it under *separate* locks. No order may be lost, duplicated or overtaken; the saturating net must stay meaningful | `OrderAccumulator` |
| Batch pipeline and settlement `keeper/keeper.rs`, `onchain/` | One spawned task per batch; transactions with retries. `process_batch_pipeline`, `settle_batch`, `submit_payload`, `send_transaction_with_retry` | Accumulator, Vendor over HTTP, chain | Concurrent batches, lost receipts, late transactions, partial failure. Settlement waits for the Vendor, follows a mandatory order and reports each order once | `KeeperPipeline`, abstract: `OrderLifecycle` |
| Legacy quote processor `processor/` | Stateless; turns a batch into buy orders | Called back by the receiver | A second, deprecated way to the chain | `KeeperPipeline` (which indices) |
| Vendor client | Retries of two HTTP calls | Vendor | Partial failures must not settle too much or too little | `KeeperPipeline` (outcomes) |
| Asset extractor `assets/`, Steward client `chain/steward_client.rs` | A cache of asset lists with a TTL, shared by the tasks of all batches; known vaults. `get_index_assets`, `extract_assets_for_batch`, `refresh_vault_list` | Chain; called by batch tasks, `main()` and the refresh task | The cache's lock is released before the chain is asked, so tasks overwrite each other's answers; calls fail per index. A list sent to the Vendor is complete and was cached no longer ago than the TTL; every vault is found in the end | `StewardClient`, in `VaultDirectory` |
| Event listener `chain/event_listener.rs` | Last processed block, WebSocket failures, watched vaults, a channel of events. Backtrack, subscription, polling, cancellation | Chain; sends to the event processor | The same chain is read three ways; RPC calls fail; vaults come late. No event twice or out of order; failed polls lose nothing | `EventListener` |
| Event processor, refresh task, shutdown `main.rs` | Position in the channel, the claim being handled | Listener, accumulator, claim handler | Claims block orders; the shutdown waits for a channel to close | `EventListener` |
| Claim handler `chain/claim_handler.rs` | Stateless; two calls per claim | Chain, Vendor | The orders behind a claim wait for it, and its receipt is awaited without a timeout | `EventListener` (`Claim*`) |
| Configuration, index mapper | Read once | — | Look-up tables | — |

### Vendor

| Part | State and operations | Talks to | What is hard, what must hold | Modelled in |
|---|---|---|---|---|
| Order buffer `buffer/queue.rs, processor.rs, min_size_handler.rs, persistence.rs` | A bounded queue, positions per symbol below the exchange's minimum, a checkpoint file. `push`, the processing loop, stale flush, checkpoint, restore | API handlers push; an executor channel receives | Concurrent pushes, a crash anywhere, torn files. No order vanishes silently; a checkpoint is worth its name | `OrderBuffer` |
| Delta rebalancer `delta_rebalancer/`, supply `supply/` | Long and short supply per asset with `changed` and `dirty` flags; the interval loop. `fetch_demand`, delta, orders, `submit_supply`, execution | Chain, order sender | Counts before it trades; a submission may fail, or lose its receipt and be mined cycles later; other tasks report supply too; prices move between two reads. What the chain does not show must stay marked; spending is bounded; the supply reaches the demand | `DeltaRebalancer`, `Supply` |
| Order sender `order_sender/` | Circuit breaker, rate limiter, fills of a refill loop. `place_order_with_retry`, limit and immediate-or-cancel orders | Exchange | Retries of what was already done; a breaker that counts at two places; statuses that lag behind; quantities rounded to eight decimals. Refills must not exceed the order, but for what a status did not show | `OrderSender`, `RateLimiter` |
| On-chain submitter `onchain/vendor_submitter.rs` | Registered assets, nonces read from the chain. Registration, supply, market data per ITP | Chain; called by three tasks | One account shared by three tasks | — (`submit_supply` in `DeltaRebalancer`, the other reports of supply as it meets them) |
| Staleness manager, market data cache, price tracker | Time and value of the last submission per asset | API, submitter | Marks what was submitted, before or after it was | — |
| API `api/` | Shared handles | Keeper, buffer, submitter | Handlers run concurrently; `/queue-orders` pushes into the buffer | — (`OrderBuffer!Push`) |
| Order books, PSL, market data subscriber | Books per symbol; subscriptions | Exchange WebSocket | Snapshots and deltas across reconnections | — |
| Inventory simulator, withdrawals, cost tracker | Positions, queue of withdrawals | Rebalancer (optional) | Check and use under separate locks. `main()` constructs none of them | — |
| Vault approver | Vaults approved | Chain | Approvals that fail half-way | — |

### Libraries

| Part | State and operations | Talks to | What is hard, what must hold | Modelled in |
|---|---|---|---|---|
| Event cache `libs/common/src/event_cache/` | Per kind of event a list and the last synced block; a file. Initial sync, polls, atomic save, readers | Chain; other services through the file | Polls fail between the kinds, nodes lag behind, processes end while they write. The cache is complete up to the block it names | `EventCache` |
| On-chain sync `libs/onchain-sync/` | Stateless; several calls per answer. Discovery, staleness of a quote, rebalance history | Chain; called by `main()` of both programs | The chain grows between the calls of one answer, each of which may fail. No index is lost or accepted wrongly; a verdict is right | `OnchainSync`, in `VaultDirectory` |
| Amounts `amount.rs` | Pure: fixed-point numbers of 128 bits, computed in 256 | Both programs | Rounding, overflow, zero. What wraps is never taken for an amount; an order is never worth more than its exposure | `Amounts` |
| Vectors, labels, interfaces | Pure | — | Encodings | — |

`proc-macros` and `bin/scripts` run at build time or by hand.

## Modules

```
OrderLifecycle                 what becomes of an order (abstract)
  ^ refined by
KeeperPipeline  -- EXTENDS --> OrderAccumulator
  ^ EXTENDS
KeeperPipeline_proofs          (of both)

Castle  <-- EXTENDS -- OnchainSync    <--+
        <-- EXTENDS -- StewardClient  <--+-- EXTENDS -- VaultDirectory
                                              <-- EXTENDS -- VaultDirectory_proofs
EventListener   <-- EXTENDS -- EventListener_proofs
EventCache      <-- EXTENDS -- EventCache_proofs
OrderBuffer     <-- EXTENDS -- OrderBuffer_proofs
DeltaRebalancer -- EXTENDS --> Supply -- EXTENDS --> Amounts
  ^ EXTENDS
DeltaRebalancer_proofs         (of all three)
OrderSender     -- EXTENDS --> RateLimiter
  ^ EXTENDS
OrderSender_proofs             (of both)

Foundations     what all of the proofs but those of OrderBuffer and KeeperPipeline rest on
```

The `MC*` modules only give names to the small sets that the `.cfg` files use.
Definitions whose comment starts with "Mutant:" are not part of the
specifications: each is a plausible bug in the definition below it, kept to
show that a property does depend on that line of the code.

### OrderAccumulator

Variables correspond to the code's shared state: `batch` is the
`OrderBatch` behind the `RwLock`, `block` the atomic `current_block`,
`submitted - received` the content of the unbounded channel. An order is its
number; `info` holds the index, direction and amount it was submitted with.
One action is what the code does under one lock:

| Action | Code |
|---|---|
| `SubmitOrder` | `submit_order()`, the send into the channel |
| `Receive`, `ReceiverCheck` | the task of `start_processing()`: add the order under the lock, then `should_flush()` under another |
| `KeeperTick` | one iteration of `KeeperLoop::run()` with its `should_flush()` |
| `LoadBlock(a)`, `FlushBatch(a)` | the two halves of `flush_batch()`: load `current_block`, later take the lock and swap the batch |
| `SwapBlock`, `UpdateBatchBlock` | the two halves of `update_block()` |
| `WindowElapses` | the batch window passes (time is only "over" or "not over") |

`flushed`, `submitted`, and `received` are history, for the properties.

### KeeperPipeline and OrderLifecycle

`task[n]` is the task spawned for the n-th flushed batch. A batch flushed by
the KeeperLoop goes `extract -> vendor -> quotes -> orders -> done`
(`process_batch_pipeline()` and `settle_batch()`); one flushed by the receiver
goes `vendor -> market -> buys -> done` (the callback of `main.rs`,
`QuoteProcessor::process_batch()` and `submit_payload()`). `dropped` is an
early return with an error. `SendTx`, `Receipt` and `AttemptFails` are
`send_transaction_with_retry()`; `Mine` is the chain, which may include a
transaction long after the attempt that sent it was given up, or never, and then
a task that awaits the receipt (`waiting`) stays where it is.

`OrderLifecycle` says what a reader of the Keeper may rely on: an order is
new, queued, batched, in flight, and then has one outcome for good; a batch is
taken as a whole. `KeeperPipeline!ImplementsLifecycle` is the refinement, with
`OrderStatus` as its mapping.

### EventListener

`pc` is where the listener's task stands, `chain` and `since` are the world
(the event of each block; the block from which a vault is watched), `sent` and
`taken` the channel, `main` the shutdown sequence. Actions follow the
functions: `Backtrack*` (`backtrack_events()`), `Ws*` and `GiveUpWebSocket`
(`run_websocket_loop()`, `connect_and_subscribe()`), `Poll*`
(`run_polling_loop()`, `poll_events()`), `ProcessEvent`, `AcquisitionClaim` and
`DisposalClaim` (the event processor of `main.rs`; `claim` says whether the Vendor
or a receipt is awaited), `CtrlC`, `ListenerJoined`, `ProcessorJoined` (the end of
`main()`). At most one event per block; a claim above the threshold, one
below it, and other events are distinguished only by kind.

### Castle, OnchainSync, StewardClient and VaultDirectory

`Castle` is the chain as these readers see it: a sequence of blocks, each with
at most one event (an index created, reweighted or quoted), and what the view
calls of the Steward answer at a block. The contracts are not in the
repository; the module says what the calls in `src/` ask of them.

`OnchainSync` has `discover_accepted_itps()` as the record `scan` (`ScanLogs`,
then per log `ScanVault`, `ScanAssets`, `ScanWeights` or a failure, then
`Classify`) and `is_quote_stale()` as `quote` (`QuoteHead`, `QuoteLogs`,
`Verdict`). One action is one call to the node, for the chain may grow, and the
call may fail, between any two. `read`, `version`, `from`, `dropped`, `logged`
and `at` are history: the blocks at which the answers were given.

`StewardClient` has the cache of asset lists as `assetCache` and each batch's
`extract_assets_for_batch()` as `task[t]`: `CacheHit`, or `CacheMiss`, `Answer`
and `Insert` (the lock of the cache is released before the chain is asked and
taken again to insert), or `CallFails`. `RefreshLogs`, `RefreshVault` and
`RefreshFails` are `refresh_vault_list()` with `query_vault_from_chain()`.
`asked`, `at` and `out` are the blocks at which an entry was requested, cached
and handed out; time is counted in blocks, the TTL too.

`VaultDirectory` is how `main.rs` uses both: `RegisterAccepted` (the vaults the
KeeperLoop's client gets), `FirstVaults` and `AddVaults` (the vaults the
listener watches). These readers share no state and none of them writes the
chain, so no step of one can disturb another: a behaviour follows one of them
(`reader`, chosen by `Init`) and leaves the others at rest. `Mined` gives each the
events that it can tell apart.

### EventCache

`log` is the chain, `cache` the `EventCache` of the watcher's process, `disk` and
`tmp` the file and the temporary file of `EventCacheManager::save()`, `reader` a
`SharedEventCache` loaded from the file by another service. `StartWatcher` is
`EventWatcher::new()` with the initial sync ahead of it, `Poll` the loop;
`SyncIndices` and `SyncPairs` ask for the events since the last synced block of
their kind, up to whatever block the node believes is the newest, and add those
that are not cached; `CreateTemp`, `WriteTemp` and `Rename` are the save. Each
of them may fail, and `Crash` may come between any two. An event is its place
in the chain; `NotCached` is how `add_index()` and `add_pair()` recognise one,
which is by its transaction.

### OrderBuffer

`queue` is the `VecDeque`, `pos` the positions of the `MinSizeHandler`, `pc`,
`batch` and `ready` the local state of `BufferProcessor`'s loop, `disk` and
`tmp` the checkpoint file and its temporary. Every lock release is a step
boundary, so API pushes fall between popping, accumulating, sending, and the
two reads of a snapshot. `ProcessEnds` may happen anywhere, a half-written file
included; `Restart` restores. `settled` and `durable` are history: what a
checkpoint knew to be sent, and the last checkpoint that completed.

A push is possible only after the restore, as the server starts after it. A
message sent into a channel whose executor ended is kept in `dropped`, for the
code only logs it.

### Amounts, Supply and DeltaRebalancer

`Amounts` has the operations of `amount.rs` over two constants, `Limit` (2^128)
and `Scale` (10^18): every operation computes in 256 bits, which wrap, and
converts back to 128 (`Fit`), where what does not fit is `None`. A quotient by
zero is `Panic`: `checked_div()` and `checked_idiv()` return an `Option` but do not
give `None` for it. The loop of `sqrt_u256()` is given by its step `SqrtNext` and
its end `SqrtDone`. `Supply` uses `SaturatingSub`; `DeltaRebalancer` counts in
whole units (a scale of 1), and what the rounding of a real scale does to the size
of an order is the theorem `OrderWithinExposure`.

`Supply` has the pure operators of `supply/types.rs`: adding to a side with
netting, as the code does it, and reporting. `DeltaRebalancer` is the interval
loop: `FetchDemand`, `CalculateMargins`, `NothingToDo` or `DecideFails` or `Decide`
(delta, order sizes, recording ahead, payload), `Mine`, `SubmitOk` or
`SubmitFails`, then `Fill`, `FillUnknown` or `OrderFails` for every order, and
`CycleEnds`. `price` is the price tracker, which is read twice in a cycle: `quoted`
is what `calculate_margins()` found there, and `Decide` reads `price` again. An
asset that was without a price the first time has no margin, and its order no cap.
The world moves with `DemandChanges`, `PriceArrives` and `PriceMoves`. The flags of
the configuration are a constant record of the behaviour (`config`, chosen from
`Configs`), so one run covers `main()`'s configuration and normal mode.

The chain has more writers than the rebalancer. It starts with any supply, as a
restarted Vendor counts from zero whatever the chain shows. `OthersReport` are the
mock positions that `main()` reports 15 seconds after the start, the zeros for
assets registered automatically, and what the API's handlers report; `foreign` are
the assets the chain shows as one of them left it. `pending` is a transaction of
the rebalancer that was given up without a receipt, which `LateTransaction` may
still apply, with the values of its time. At most one can be: all transactions come
from one account, and each takes the next nonce of the chain, so whatever is mined
afterwards has the nonce of the one given up.

### RateLimiter and OrderSender

A call holds the sender's lock until it returns, so `call` is the one in
progress: `"orders"` (`send_orders()`), `"ioc"` (the rate limited batches of
immediate-or-cancel orders) or `"refill"` (`execute_ioc_order_with_refill()`).
`pc` is where its current order stands, from `price` over `place`, `wait` and
`status` to `answered`. `NextOrder` is the loop over a batch with
`place_order_with_retry()`'s guards and `wait_for_slot()`; `Answer` is what
happens to the circuit breaker and the rate limiter when a result is known;
`Fails` and `Returns` are what an error and a result of one attempt lead to.
The exchange is external: `placed` is every order it accepted for the current
one, which `ExchangeTrades` goes on filling or cancelling; `ResponseLost` is an
order accepted whose answer is lost. `Reports` lets a status lag behind: whatever
the truth, the order may be reported as new, filled in part or in a state the code
does not know, with any part of its fill. `ResultStatus` is what the code makes of
it; for an immediate-or-cancel order of unknown status the filled share decides.
`failedRun`, `recent`, `earlier` and `unseen` (what the exchange had filled and a
status did not show when the rest was ordered again) are history. Only what an
order did while the call works on it is kept.

Quantities are not exact on their way. An `Amount` has eighteen decimals, the
exchange is sent eight (`Sent`: rounded to the nearest step of `Lot` units, up or
down), it fills in such steps, and what it reports is read through an `f64`
(`Read`: up to one unit more or less). The unit is therefore the error of one
reading, and `MaxRefills < Lot` says that the readings of all the refills of an
order err by less than one step of the exchange.

The limiter's timestamps are represented by their ages. A ticking clock is
enough, as the code compares them with the window only. Each batch makes a limiter
of its own (`NewLimiter`); `earlier` remembers, for the property of the finding
only, what the batches before have begun.

## Runs

Times are for two workers. Deadlock is not checked where the system may really
stop: all inputs are bounded, and a Keeper that was shut down does nothing.
The rebalancer never stops, and its run checks deadlock.

| Run | Bounds | What it shows |
|---|---|---|
| `keeper` (1.0M states) | The scope "batches": 2 interchangeable indices, 3 orders, blocks 0–2, tasks at rest. The scope "tasks": 2 orders of one index, 1 attempt per call | Every interleaving of receiver, KeeperLoop and block tracker: `OrdersAccounted`, `BatchesInArrivalOrder`, `NetChangeBounded`, `ReceiverFlushesOnlyDueBatches`. Two batches in flight through either path: `SettlementOrder`, `ResultsAccountForBatch`. In both, the refinement of `OrderLifecycle` |
| `keeper_retry` (12K states) | 1 order, 2 attempts per call, fairness | Retries with lost receipts and late transactions: `NoSendAfterResult`; `EveryOrderResolved` |
| `event_listener` (0.1M states) | 2 vaults, one found late; 2 blocks, 1 before the start; 2 failed connections before polling | `DeliveredInChainOrder`, `CoverageComplete`; `PolledOrdersReachAccumulator` |
| `vault_directory` (0.6M states) | 2 indices, 4 blocks, 3 baskets (none, one supported, one not), 2 batch tasks; TTL 2, look-back 2, age 1 | Answers made of several calls to a growing chain, and a cache shared by tasks: `DiscoveryConsistent`, `QuoteVerdictsRight`, `SentAssetsFresh`; `EveryVaultWatched` |
| `event_cache` (40K states) | 2 blocks with one pair or with an index and two pairs of one transaction, 1 crash | Lagging nodes, polls that fail half-way, crashes at any point of a save: `CachesComplete`; `EveryEventCached` |
| `order_buffer` (0.25M states) | 1 symbol, 2 orders below the minimum and together at it, queue of 2, 2 crashes | `EveryOrderSomewhere`, `SymbolOrderKept`, `CheckpointedNeverLost`, `SentBeforeCheckpointNotResent`; `EveryOrderLeaves` |
| `rebalancer` (0.7M states) | 2 assets with a price of 1 and of 2 or 3, demands 0, 1, 4, minimum order 2, exposure 6, 2 changes of demands or prices, mock supplies reported at any time; `main()`'s and the normal configuration, all assets initialised or one | `ChangedUntilSubmitted`, `SpendBounded`, `SubmitsCurrentSupply`; `DemandMet` |
| `order_sender` (0.5M states) | Batches of up to 3 orders of 2 or 10 units, with 3 units in a step of the exchange; 3 attempts and 5 failures as `main()` and the defaults configure them, 2 refills, a minimum fill of 60 %, an unknown status taken for filled from 55 %; 2 operations in a window of 3 ticks | `ReportedFillsExecuted`, `ExposureBounded`, `BreakerTracksFailures`, `RateRespectedInBatch`; `EveryCallReturns` |
| `reverted_counts`, `shutdown`, `submission_retry`, `rate_limit` | The smallest instance with the case | One finding each, see below |

Each passing run also checks its module's type invariant (`keeper` that of the
accumulator, `keeper_retry` that of the pipeline). `MCKeeper` puts two instances
into one run: the tasks of a batch do not touch what the flushers share, so one
scope has more orders and block updates and lets the tasks rest, and the other has
the tasks run with as many orders as two batches need.

Why the bounds are enough to meet the cases: three orders and two indices give
a batch that is flushed twice while a third order arrives, an index older than
another, and a withdrawal before, between and after deposits; two orders are
the least for two concurrent batches and for a buy and a sell order in one
batch; two attempts are the least for a retry after a lost receipt; two vaults
with one found late give a subscription that misses a vault and a poll during
which one is added; four blocks are a creation, a reweighting and two more blocks for an
entry to age past a TTL of 2 and a quote past an age of 1, and two tasks the
least that overwrite each other's entries; two blocks and one crash give a cache that
goes on from an old file; two crashes give a restart from a checkpoint made by a
restarted process. Demands 0, 1 and 4 against a minimum of 2 give an order that
is too small, one that is rounded up, one that the exposure cuts, and both
directions; two changes are the least for a demand that rises and falls again, or
moves after a price has, and first prices come at any time, between the two reads
included. An order of two units is rounded up to a step of three, one of ten down
to three steps. With a minimum fill of 60 % (90 % by default) the latter is refilled
after one step and accepted after two, and the steps that a lagging status leaves
out are bought again. As a fill is a third of the order here, two
thirds have to stand for "nearly full" (99 % in the code). Two refills are one fewer
than by default: the third adds no new kind of step, and the theorems are for any
number. Batches of three and a limit of two make
the limiter wait, and two batches are enough to open the breaker in the middle
of one. The empty basket is an index with an empty composition, which
`decode_labels()` accepts. The theorems below free every invariant and every action property of these
runs from these bounds; the bounds matter for the liveness properties and for the
findings.

What each property is about is said above its definition. The type invariants
carry the bounds on counters that the code promises (retries, failures before
polling, the queue's capacity).

## Findings

Each is a run that TLC ends with a counterexample, to a sentence of the
repository that the code does not keep.

| Run | The text | What the code does |
|---|---|---|
| `reverted_counts` | `onchain/types.rs:78` "Number of successfully processed orders" | `receipt.status()` is stored and never looked at: a reverted order counts as succeeded |
| `shutdown` | `event_listener.rs:223` "cancellation token for graceful shutdown" | `main()` awaits the event processor, whose channel stays open because the refresh task holds the listener in an endless loop |
| `submission_retry` | `rebalancer.rs:314` "we'll retry next cycle" | The next cycle finds the portfolio balanced, because the orders were counted already, and returns before it submits |
| `rate_limit` | `rate_limiter.rs:3` "ensures we don't exceed Bitget's API rate limits when sending multiple orders", `sender.rs:1114` "while respecting Bitget's 10 orders/second rate limit" | Each batch makes a new limiter (`sender.rs:1207`, `1448`), so two batches within a window may begin up to twice the limit |

Other behaviour met while modelling, which no run is spent on because reading
the two places side by side shows it, or because no text denies it:

- `accumulator.rs:174` flushes into the callback whenever an order arrives at a due
  batch, so production batches do go through the deprecated `submit_payload()`
  although `main.rs:270` says "This callback is only for legacy/manual batch
  processing." Both paths are in `KeeperPipeline`.
- `min_size_handler.rs:109` resets a position's age only when it is emptied, so a
  new amount can be flushed at once as one of the "buffered amounts that have
  been waiting too long" (line 144), below the exchange's minimum.
- `submitter.rs:437`: `settle_batch()` settles on old quotes when the quote update
  failed for good. `extractor.rs:231`: an index whose assets could not be read is
  missing from the Vendor's request, and its orders are settled all the same.
- `add_long()` takes the remainder against the short position that is left: a
  short of 10 closed with 15 bought becomes a long of 15 (`RecordMoves` says by how
  much the record can differ).
- In simulation mode (which `main()` sets) a demand that is no multiple of the
  minimum is bought and sold for ever (`rebalancer.rs:442`).
- The Vendor's `main()` constructs the order buffer and never a
  `BufferProcessor`; orders accepted by `/queue-orders` stay in the queue.
- `main.rs:399` says "Skipping ITP with unsupported assets", yet the listener
  watches every vault the refresh finds; `registered` and `watched` of
  `VaultDirectory` differ, and nothing reads the client's `vault_cache`. The
  Vendor's periodic refresh (`vendor/src/main.rs:1146`) likewise submits for
  every index.
- Once the circuit breaker is open, no order is executed, so none succeeds, and
  only a success closes it: it stays open while the process lives. No text says
  how it should close. `DemandMet` therefore assumes nothing of the orders.
- The rebalancer never reads the supply that the chain shows. What another task
  reports, or a run of the Vendor before a restart has, stays there until the asset
  is traded again (`foreign` in `ChangedUntilSubmitted`).
- `create_order()` falls back to `Amount::MAX` for an asset without a margin
  (`rebalancer.rs:627`): a first price that arrives between the two reads leaves the
  order uncapped (the exception in `SpendBounded`).
- An immediate-or-cancel order whose status lags behind as `partial_fill` is
  refilled for more than is missing (`unseen` in `ExposureBounded`).
- An order of quantity zero, which `/queue-orders` accepts (`routes.rs:522`), makes
  a position that is never stale (`min_size_handler.rs:150`) and stays in the buffer;
  `Quantities` excludes it, so `EveryOrderLeaves` is about the others.
- The listener's live subscription keeps the filter it was made with: a vault added
  later is seen at the next connection or poll. `EveryVaultWatched` is about the
  list.
- The event cache keeps one pair per transaction: `add_pair()` compares
  transaction hashes (`types.rs:84`), and `indexer.rs:202` counts on it to skip
  repeated events. `CachesComplete` is stated about the first.
- `discover_all_itps()` reads assets and weights by two calls, between which the
  index may be reweighted; the "weights corresponding to each asset" may belong
  to another composition (`DiscoveryConsistent` says that
  `get_rebalance_history()` shows whenever that happened).

## Fairness

- *Accumulator and pipeline*: weak fairness of each task's steps. tokio runs
  every ready task, the KeeperLoop's timer fires, requests to the Vendor have a
  timeout, and `send_transaction()` is answered one way or the other. A receipt is
  awaited without a timeout (`submitter.rs:263`): it comes once the transaction is
  mined, and nothing is assumed about whether it ever is, so `EveryOrderResolved`
  has the exception `AwaitsUnmined`. Nor is it assumed that blocks or orders arrive.
- *Listener*: weak fairness of its steps, and of a claim's request to the Vendor,
  but not of a claim's transaction, which the event processor awaits in its loop
  without a timeout (the exception of `PolledOrdersReachAccumulator`);
  strong fairness of `PollLogs` (an RPC
  endpoint that is asked again and again answers again and again; without it
  no order could be promised) and of `PollStops` (`tokio::select!` picks among
  ready branches at random, so a cancelled branch is taken in the end). Nothing
  is assumed about WebSocket connections.
- *Directory*: weak fairness of the refresh task; strong fairness of a successful
  `get_logs()` (a node asked again and again answers again and again). No
  `getVault()` needs to succeed, and nothing is assumed of the other readers.
- *Event cache*: weak fairness of the start, the polls, the two syncs and the
  save, each of which may end in an error; strong fairness of a sync answered
  with the chain's newest block. No save needs to succeed, and crashes are
  bounded (`MaxCrashes`).
- *Buffer*: weak fairness of the loop (an interval that never ends while the
  process lives) and of ageing (time passes). Neither crashes, nor pushes, nor
  the success of a checkpoint is assumed.
- *Rebalancer*: weak fairness of a cycle's steps, except while it waits for a
  receipt, and of the arrival of prices. Nothing is assumed about submissions (the
  supply settles even if every one of them fails), nor about orders, as an open
  circuit breaker makes them all fail. `DemandMet` has the exceptions: an asset whose
  orders fail or are filled in part for ever (`NotFilled`), and a receipt that never
  comes.
- *Order sender*: weak fairness of the call in progress (a request returns or
  times out, `wait_for_fill()` has a deadline) and of the clock (a sleep ends).
  Nothing is assumed about what the exchange answers or fills.

## Proofs

Every invariant, every action property and the refinement that a passing run
checks is also a theorem, for all values of the constants that the assumptions of
the modules allow; TLC evaluates these assumptions in the runs.

`Foundations` has what several of the proofs need and the library's theorems do
not give in a form that the provers can use: induction with a set in the place of
the predicate (`LeastNat` and `GreatestNat` from the well-founded order of the
numbers, `AllNat`, `AllSubsets` for finite sets), and what `SumFunction`, a fold, is: `SumEmpty`,
`SumSplit`, `SumOfNats`, `SumMonotone`. The fold chooses one order of
its domain; `TableAgree` shows that no other order gives another sum.

The first part of `KeeperPipeline_proofs` proves, for any sets of indices and
amounts, any number of orders and any number of blocks (from
`AccumulatorAssumption` only), what the run `keeper` checks of the accumulator.

| Theorem | States |
|---|---|
| `TypeCorrect` | `Spec => []TypeOK` |
| `NoOrderLost` | `Spec => []OrdersAccounted`: flushed batches and the current one partition the orders received |
| `ArrivalOrder` | `Spec => []BatchesInArrivalOrder` |
| `NetBounded` | `Spec => []NetChangeBounded` |
| `ReceiverFlushesDue` | `Spec => []ReceiverFlushesOnlyDueBatches` |
| `FlushedFinal` | `Spec => FlushedBatchesAreFinal`, an action property |

The argument is one inductive invariant, `Inv`, beside `TypeOK`. None of the
properties is inductive alone. That the receiver flushes only due batches needs
`ReceiverKnows`: between its check and its flush it remembers a batch that was
due, and `DueStaysDue` shows that no step but a flush makes a due batch not due
(time and blocks only grow, orders are only added), while after a flush by the
KeeperLoop the receiver may find a new batch, which is why the code's
`flush_batch()` must look again. Arrival order needs `FlushedBeforeBatch` (all
flushed orders are older than those of the batch) together with
`FlushedNotEmpty`; the due-ness argument needs `BlocksAgree`, which relates the
block of a batch to the shared block although both are updated in separate
steps. One lemma per operator (`NewBatchType`, `AddToType`, `AddOrderType`,
`TriggerType`) carries the types; one per action group (`ReceiveInv`,
`FlushInv`, `OrdersUnchanged`) the invariant.

`DeltaRebalancer_proofs` proves, from `RebalancerAssumption` only (any finite
set of assets, any demands, prices and configurations):

| Theorem | States |
|---|---|
| `TypeCorrect` | `Spec => []RebalancerTypeOK` |
| `ChangedMarked` | `Spec => []ChangedUntilSubmitted` |
| `CurrentSubmitted` | `Spec => SubmitsCurrentSupply`, an action property |
| `SpendingBounded` | `Spec => []SpendBounded` |
| `RecordMoves` | what `add_long()` and `add_short()` record of a trade is the trade if the other side is closed or at least twice the trade, otherwise more, and at most twice as much |

`ChangedUntilSubmitted` is not inductive. `PayloadCurrent` adds that what the
submission in progress reports is still what is recorded, though it was read before
the transaction was sent; `AppliedShown` that a transaction whose receipt is awaited
has left on the chain what it reported, unless others have reported since; and
`PendingMarked` that what a transaction given up may still bring to the chain is
marked as changed. The last holds because no submission is confirmed, and no mark
removed, before its transaction has taken the nonce of the one given up.
`NotZeroAgain` concerns the time before the first confirmed submission, when
`has_changed()` only compares with zero: an asset whose first submission reached the
chain while its receipt was lost, and whose supply then returned to zero, would be
forgotten. It is not, because of the lemmas `RecordNotZero` and `RecordNoticed`: with
the netting of `add_long()` and `add_short()` as it is, a supply never returns to
zero. Correcting the netting would therefore break the bookkeeping, unless
`has_changed()` is corrected as well. What other tasks report is the exception
`foreign`; that it ends with the rebalancer's next transaction for the asset is
part of the theorem.

`NewOrderType` shows that sizing an order never divides by zero. `SpendBounded` is
about the orders that have a margin (`Margined`), at the prices the margin was
calculated with. It holds although every order is rounded up to the minimum by
itself and the price it is converted with may be another: an order is worth at most
its share of the exposure (`NewOrdersPaid`), there are no more orders than shares,
and what is executed only takes orders away (`LessPaid`).

The first part of `DeltaRebalancer_proofs` proves of `Amounts`, from
`AmountAssumption` only (any scale below any limit), what each operation returns:

| Theorem | States |
|---|---|
| `AddExact`, `SubExact` | a sum or difference is exact, or `None`: what the subtraction wraps to in 256 bits no u128 holds |
| `MulRounds`, `DivRounds` | a product or quotient is the exact one rounded down, or `None`; 256 bits are enough |
| `BoughtCostsNoMore` | what an amount of money buys at a price is worth no more than it |
| `OrderWithinExposure` | through the three roundings of `calculate_margins()` and `create_order()` an order is worth, at the price of its margin, no more than the exposure, whatever the price is by then, and the last quotient fits |
| `SqrtStaysAbove`, `SqrtExact` | the loop of `sqrt_u256()` never goes below the root nor divides by zero, and stops at the root rounded down |

The arithmetic is in five lemmas about products and division
(`ProductMonotone`, `DivisionRounds`, ...); `ProductsFit` says that a product of
two numbers below the limit does not wrap. That the loop ends is not proved: its
value falls at each turn.

The rest of `KeeperPipeline_proofs` proves, from `AccumulatorAssumption` and
`PipelineAssumption` only (any indices, orders, amounts and numbers of retries),
what the runs `keeper` and `keeper_retry` check of the tasks:

| Theorem | States |
|---|---|
| `PipelineTypeCorrect` | `PipelineSpec => []PipelineTypeOK` |
| `SettlementInOrder` | `PipelineSpec => []SettlementOrder` |
| `ResultsAccount` | `PipelineSpec => []ResultsAccountForBatch` |
| `NothingAfterResult` | `PipelineSpec => NoSendAfterResult`, an action property |
| `KeeperImplementsLifecycle` | `PipelineSpec => ImplementsLifecycle`, the refinement |
| `OutcomesFinal` | `PipelineSpec => [][OutcomesKept]_vars`: an order keeps its outcome, from the refinement |

Every step of the pipeline is a step of the accumulator or leaves it alone
(`AccumulatorSteps`), so the accumulator's `Inv` carries over.
`AccInv` adds that a batch's number is no greater than any of its orders
(`OrdersReachNumber`; hence there are no more batches than orders, and every
transaction's batch number has its type) and that an index of a batch is named
by one of its orders (`FirstKnown`). The inductive invariant `PInv` then says of
each task what it may know: `TaskOK` (its program counter tells which flusher
spawned it), `Accounted` (of a settled batch every order is still to do or has
exactly one result), `CurOK` (what is being sent is still to do), and of each
transaction that it agrees with the task that sent it (`TxOK`) and stays
included (`Included`). Sell orders wait because `SellsUp` stays true once no buy is left to do.
For the refinement, `StatusTable` says where an order is by `OrdersAccounted`,
`FateTable` what its status is by the state of its task, and one lemma per
kind of step (`SubmitMoves`, `ReceiveMoves`, `SpawnMoves`, `TaskMoves`,
`StatusStays`) gives the step of `OrderLifecycle` or a stutter.

`VaultDirectory_proofs` proves, from the assumptions of its modules only (any
chain, indices, baskets and tasks, any TTL, look-back and age):

| Theorem | States |
|---|---|
| `SentFresh` | `Spec => []SentAssetsFresh` |
| `VerdictsRight` | `Spec => []QuoteVerdictsRight` |
| `Discovery` | `Spec => []DiscoveryConsistent` |
| `DirectoryTypeCorrect` | `Spec => []DirectoryTypeOK` |
| `WatchedForGood` | `Spec => [][watched \subseteq watched']_vars` |

The argument is that what the chain said at a block it says for ever
(`PastStays`): a block mined changes neither the logs up to an older block nor
the composition of an index at it, so an answer stays true of the block it was
given at, however late it is cached, overwritten or handed out. The invariant
says that of every entry (`EntryOK`), of every task between its calls
(`TaskOK`), of a verdict in progress (`QuoteOK`), and of a discovery (`ScanOK`).
A discovery reads the logs at one block and each composition at a later one:
`Partitioned` says that the indices found are those made, dropped, being asked for
and still to ask for, each once, and `ItpOK` that the assets belong to the block
they were read at. If the weights were then of another composition, the last
change lies after the first block (`VersionChanged`, which needs that an index is
created once), so the history that the code compares shows it.
`DirectoryTypeOK` holds the promise that the listener watches only what its client
knows, for which the invariant adds the vaults found by a refresh in progress.

`EventListener_proofs` proves, from `ListenerAssumption` only (any chain, vaults,
look-back, starting block and threshold):

| Theorem | States |
|---|---|
| `ListenerInvariant` | `Spec => []IInv`, the inductive invariant |
| `ListenerTypeCorrect` | `Spec => []ListenerTypeOK` |
| `ChainOrder` | `Spec => []DeliveredInChainOrder` |
| `Coverage` | `Spec => []CoverageComplete` |

Order and coverage rest on the same facts about the three ways of reading the
chain. `WireOK` says that what a subscription has pushed and nobody has read comes
after everything delivered, and that a subscription that ended leaves nothing;
`SentOK` that while polling nothing beyond `last_processed_block` has been
delivered, so the next poll cannot repeat it; `Covered` is
`CoverageComplete` in terms of the set of blocks delivered. A vault found
between two polls is watched from the next block on, which is beyond
`last_processed_block`, so it asks nothing of the blocks already polled.
`Logs` returns the blocks of a set in order: that there is such a sequence, and
that it has exactly these elements, is `OrderExists` and `Listed`.

`EventCache_proofs` proves, from `CacheAssumption` only (any chain, starting
block and number of crashes), `TypeCorrect`, `Spec => []CacheTypeOK`, and
`CachesAlwaysComplete`, `Spec => []CachesComplete`. `CachesComplete` is not
inductive: it says nothing of the temporary file, and not that a cache which
has synced a block has started at the first one of interest. `IInv` adds both,
for every cache there is, and that the temporary file is whole when it is
renamed. The argument is in three lemmas: the past does not change
(`PastStays`), a request adds exactly what the cache lacks (`NewEvents`), and
so an answer up to any block, however old, leaves a complete cache (`AddedOK`).
`GreatestBlock`, that a non-empty set of blocks has a greatest one, is what
`Max` rests on.

`OrderBuffer_proofs` proves, from `BufferAssumption` only (any symbols,
quantities, sizes and numbers of orders and crashes), every safety property of
the run `order_buffer`:

| Theorem | States |
|---|---|
| `BufferTypeCorrect` | `Spec => []BufferTypeOK` |
| `NoOrderVanishes` | `Spec => []EveryOrderSomewhere` |
| `SymbolsInOrder` | `Spec => []SymbolOrderKept` |
| `CheckpointsKeep` | `Spec => []CheckpointedNeverLost` |
| `NotSentAgain` | `Spec => []SentBeforeCheckpointNotResent` |

One relation carries the order: `Before(S, T)`, orders of one symbol in `S` are
older than those in `T`, from which it follows that `S` and `T` are disjoint.
`InOrder` says so of sent, ready, positions, batch and queue, in this order, and
`FileOK` of what a file holds, which is what a restart makes the memory of.
`CheckpointedNeverLost` is not inductive, for it lets the memory, which is lost,
hold an order alone. `Kept` says that what a checkpoint held is in the file or
gone (sent or dropped); while the process runs, that what the file holds is in
memory or gone; and while a checkpoint is written, that what the old file holds
is in the new one or gone. The last holds because the loop has nothing in its
hands when it takes the snapshot (`LoopOK`).

`OrderSender_proofs` proves, from `SenderAssumption` and `LimiterAssumption` only
(any quantities, steps of the exchange, batch sizes, thresholds, retries, rates and
windows, and any number of refills whose readings err by less than a step):

| Theorem | States |
|---|---|
| `SenderTypeCorrect` | `Spec => []SenderTypeOK` |
| `BreakerTracks` | `Spec => []BreakerTracksFailures` |
| `RateKept` | `Spec => []RateRespectedInBatch`, within one batch; across batches it is false (run `rate_limit`) |
| `ReportsExecuted` | `Spec => []ReportedFillsExecuted` |
| `ExposureKept` | `Spec => []ExposureBounded` |
| `CallsAdvance` | `Spec => [](Rank \in Nat) /\ [][CallAdvances]_vars`: each step of a call brings it nearer to its end |

The bound on failures in a row needs `BatchFits` (a batch of immediate-or-cancel
orders looks at the breaker once, when it begins, so all that is left of it may
still fail) and `ClosedWhileAttempting` (an order of the other kind looks at it
itself, and nothing else can fail while it is retried).

The limiter counts an operation when it ends, the property when it begins. `Recorded`
compares the two from the latest backwards: every operation begun within the
window, but the one in progress, has a timestamp that is no older than its
beginning. A timestamp leaves the window no earlier than the operation it stands
for, so where the limiter finds room there is room.

The order invariant `OrderInv` relates what the call knows of an order to what the
exchange holds: `OncePerAttempt` (an attempt places at most one order, and one that
is about to place has not), `LastIsCurrent` (the status that is asked for is that
of this attempt, whose quantity was rounded by less than a step), and
`RefillsAddUp`. The latter says that the fills counted and the quantity still to
order make up the order; that the fills counted are those made, but for an error of
one unit per reading on the one side and what was `unseen` on the other; and hence
that the exchange never holds more than the order, a step, and what was unseen. The
step is not spent twice: rounding happens in each refill, but a refill is rounded
from what is still missing, so only the last one counts. `EntriesFit` bounds each
order at the exchange by a step above the quantity. `NearEnough` is what an order
reported as filled may lack: a step, or the share that `NearlyFull` leaves.
`Exposed` and `Executed` are folds, bounded with the lemmas of `Foundations`.

`CallsAdvance` is what can be proved of `EveryCallReturns`: `Rank`, a natural
number made of the orders left, the attempts left and the stage of the attempt,
falls with every step of a call and is raised by nothing else, so only a scheduler
that stops the call (which the fairness excludes) could keep it from returning.

Model-checked only: the liveness properties `EveryOrderResolved`,
`PolledOrdersReachAccumulator`, `EveryVaultWatched`, `EveryEventCached`,
`EveryOrderLeaves`, `DemandMet` and `EveryCallReturns`. They rest on fairness, that
is on `ENABLED`, which the prover does not reason about; `WatchedForGood` and
`CallsAdvance` are the parts of two of them that can be proved. The properties of the
findings are violated and have no theorem.

## What is left out

- *Keeper*: dry runs (but for claims); restarts, after which the last 1000 blocks
  are delivered again (`main.rs:505`); chain reorganisations; logs that cannot be parsed; the
  arithmetic of allocations; argument handling; of the Steward client, the
  invalidation of entries, `get_vault()` and the periodic refresh of its own, which
  nobody calls; of the extractor, the event cache that only decides what is
  logged.
- *On-chain sync*: the vendor's registered assets and what is missing of them
  (`vendor/src/main.rs` uses them once, at its start; they wait for the
  submitter), and `enrich_*`, which has no caller.
- *Event cache*: two watchers on one file; logs that cannot be decoded; look-ups
  by id. No program of the repository starts a watcher yet: the module models
  the library as its tests and its documentation use it.
- *Buffer*: sides of orders, overflow of amounts, reconciliation and the
  recording of executions; `push_batch`, `pop`, `drain_all` and
  `delete_checkpoint`, which have no caller; messages lost inside the
  executor's channel. `main()` constructs the queue and never a
  `BufferProcessor`: the module models the component as its tests use it.
- *Rebalancer*: the branches for an order buffer, an inventory simulator and a
  USDC balance, which `main()` never connects; simulated positions, which nothing
  increases; what the other tasks report, beyond that they do, and the nonces of
  their transactions, beyond that one of theirs may take the rebalancer's.
  `DemandMet` is stated for normal mode with all assets initialised: in simulation
  mode a demand that is no multiple of the minimum is bought and sold for ever.
- *Order sender*: prices (they decide only how much the exchange fills, which
  is any amount here), fees, balances and their checks, sleeps between orders,
  parsing and signing of requests. An order is forgotten once it is answered,
  so what a limit order given up does later, during the next one, is not seen.
  `execute_ioc_order_with_refill()` has no caller but tests, and looks at
  neither `trading_enabled` nor the breaker.
- *Everything else* in the inventory marked with a dash, for now or, where
  `PROJECT.json` says so, for good (parsing, HTTP, signatures, wiring).

## Plan

In this order; each item is a module with its run, and then its proofs.

1. **On-chain submitter, staleness and API**: three tasks on one account with
   nonces read first, registration of assets, `process_assets`,
   `update_market_data` and `refresh_quote` with the staleness manager, composed
   in one specification. What is marked as submitted was submitted.
   (`process_assets_impl` does not compile as it stands: line 388 of
   `api/routes.rs` names a `state` that is not in its scope, where `vendor_id`
   is; the model would take the latter.)
2. **Market data and order books**: subscriptions, reconnections, snapshots and
   deltas.
3. **Inventory simulator, withdrawals, vault approver.**

Theorems worth proving next: measures like `Rank` for the other liveness
properties: the pipeline's task towards its outcome, the buffer's loop towards an
empty queue.
