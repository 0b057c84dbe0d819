# crypto-ai-bot: formal models

TLA+ models of the trading bot in `src/`, checked with TLC on small instances and, for the
parts that place, refuse and protect orders, run tasks, deliver events, hold the lock, keep records, bound requests and
migrate the schema, proved with TLAPS for every value of the constants.
Paths below are relative to `src/src/crypto_ai_bot/` unless they begin with `src/`.

## 1. The system

The bot trades one or more symbols on one exchange account. It is one asyncio process, so
"concurrency" means coroutines that interleave at their awaits, tasks that are cancelled at an
await, requests that outlive the coroutine that sent them, and several processes that share one
SQLite file.

| Part | State it keeps | Operations | Talks to | Correct when |
|---|---|---|---|---|
| ExecuteTrade (`core/application/use_cases/execute_trade.py`) | none; idempotency keys in the order storage | `execute` | storage, risk manager, broker, bus | one order per key; no order past a refused gate; a result tells the truth |
| Event bus (`core/infrastructure/events/bus.py`, `bus_adapter.py`) | subscriptions, deduplication cache (deque + set), semaphore | `on`, `subscribe_dlq`, `publish` | every component | no event lost silently, permits conserved, every `publish` returns |
| Paper broker (`core/infrastructure/brokers/paper.py`, `base.py`) | balances, orders, index of client order ids | market, limit, stop-loss orders, cancel, fetch | all who trade | balance = ledger of fills; one order per client id |
| Protective exits (`core/application/protective_exits.py`) | one task per symbol | `start`, `stop`, the loop | storage, broker, bus | a loop ends only when the position was sold |
| Dead man's switch (`core/infrastructure/safety/dead_mans_switch.py`) | last healthy price | `check` | storage, broker, bus | a fall is met by one sale |
| Orchestrator (`core/application/orchestrator.py`) | its state, five loops with state, error count, task | `start`, `stop`, `pause`, `resume`, `run_once`, `status` | all use cases | one task per loop, honest status, stop and pause mean what they say |
| Instance lock (`core/infrastructure/safety/instance_lock.py`) | a row of `app_locks` | `acquire`, `renew`, `release` | SQLite | two processes never trade together |
| Risk manager and rules (`core/domain/risk/`) | cooldown counts, figures of the day, peaks | `check_trade`, the rules' `check` | repositories | a limit bounds what it limits, however late trades are recorded |
| Regime detector, gated broker (`core/domain/macro/`, `core/application/regime/`) | cached regime | `get_snapshot`, orders with a filter | sources, broker, bus | orders are judged by a fresh regime; subscribers are told of it |
| Strategies, signals (`core/domain/strategies/`, `core/domain/signals/`, `core/application/policies/`) | none | evaluation, decision, fusion, intervals | market data | both sides are treated alike; worse times are stricter |
| Repositories (`core/infrastructure/storage/repositories/`, `utils/pnl.py`) | positions with versions, trades, orders, idempotency keys | `apply_trade`, `add_from_order`, `check_and_store`, queries | SQLite | position and profit are what the trades amount to; a key is granted once |
| Partial fills, reconciliation (`use_cases/partial_fills.py`, `core/application/reconciliation/`, `cli/reconcile.py`) | none | settle, reconcile, repair | broker, repositories | passes count a fill once; a clean report is true |
| Live broker (`brokers/base.py`, `brokers/ccxt_adapter.py`) | token bucket, breaker, markets, ticker cache | orders, queries | exchange | requests bounded, orders as asked |
| HTTP client, market data cache (`utils/http_client.py`, `core/infrastructure/market_data/`) | shared client, semaphore, caches | requests, `configure`, tickers | the network | requests end; quotes of a bounded age |
| Migrations, backup (`core/infrastructure/storage/`, `cli/maintenance.py`) | `schema_version`, backup files | `run_migrations`, backup, rotate, restore | SQLite, files | a recorded version is there; a restored database is whole |
| Redis bus | listener task | publish, subscribe | Redis | (not modelled, section 6) |
| Composition, HTTP API, Telegram, other command line tools, health checks, settings, utilities | wiring, formatting | | | |

How they interact. The orchestrator's evaluation loop runs the signal evaluation, which calls
ExecuteTrade; its other loops run protective exits, reconciliation, settlement and the watchdog.
ExecuteTrade asks the order storage for the idempotency key, the risk manager for a verdict and
the broker for the order, and publishes on the bus. Protective exits and the dead man's switch go
to the broker directly, with client order ids of their own. The storage's position is written by
reconciliation and by nothing on the trading path.

The composed application does not start at this commit: the code is between two layouts. For
example `core/infrastructure/brokers/factory.py:95` passes `PaperBroker` arguments it does not
take, `BaseBroker.create_market_order` (`base.py:196`) has no `trace_id`, which ExecuteTrade passes,
`OrdersRepository` lacks the idempotency methods of its port, and `app/compose.py:189` builds the
lock with arguments of another constructor. Each component is therefore modelled as it stands,
against the ports it is written to, with the in-repository implementation behind the port where
there is one (the paper broker, the bus adapter). No property and no finding below rests on a
signature mismatch.

What is hard here: awaits between a check and its effect; cancellation at any await; requests that
are executed after their caller gave up; process restarts; constant client order ids; a semaphore
held during backoff and one replaced while it is held; state read before an await and used after it; expiry computed before a wait;
limits that are checked before an order and counted after it; crashes between two statements or in the middle of a file.
`PROJECT.json` lists these hazards at their lines with the properties that cover them.

## 2. Modules

| Module | Models | Role |
|---|---|---|
| `TradeOnce` | what ExecuteTrade promises: an intent is placed at most once, a report is final and true | abstract specification |
| `ExecuteTrade` | the use case, the order storage's keys, the exchange's answer to a client id, restarts | detailed; `Once == INSTANCE TradeOnce WITH ...` |
| `ExecuteTradeProofs` | theorems about it | TLAPS |
| `EventBus` | `AsyncEventBus` with deduplication, as `compose.py` builds it | component of `MCInfrastructure` |
| `PaperBroker` | one symbol of the paper account | component of the next two |
| `ProtectiveExits` | the exit loops, EXTENDS `PaperBroker` | component of the next |
| `DeadMansSwitch` | the switch, and the composition of broker, exits, switch and other clients | `Init`, `Next`, `Spec` of the composition |
| `SafetyNetProofs` | theorems about these three | TLAPS |
| `Orchestrator` | life cycle of the loops | component of `MCTradingLoop` |
| `InstanceLock` | the lock row and its processes | component of `MCInfrastructure` |
| `Pnl` | FIFO profit and loss of `utils/pnl.py` and `trades.py`, with the reference it is held to | pure operators (folds) |
| `Ledger` | trades and the versioned row of a position under several writers, EXTENDS `Pnl` | component of `MCRecords` |
| `RiskManager`, `RiskRules` | the seven rules of the manager, the six rule objects with their memories | operators |
| `Risk` | traders behind one of these gates | `Init`, `Next`, `Spec` |
| `RiskProofs` | theorems about them | TLAPS |
| `Strategies`, `Signals` | strategies and their decision; regimes, fusion, timeframe weights, intervals | pure operators |
| `Gate` | an evaluation that becomes an order under a regime, EXTENDS the two | component of `MCTradingLoop` |
| `Prudence` | what holds of the formulas of `Signals` for whatever is configured and measured, EXTENDS `Gate` | properties, over constants of its own |
| `TradingLoopProofs` | theorems about `Orchestrator`, `Gate` and `Prudence` | TLAPS |
| `Exchange`, `Quotes`, `HttpClient` | two brokers, two ticker caches, the HTTP pool | components of `MCConnection` |
| `ExchangeProofs` | theorems about `Exchange` and `Quotes` | TLAPS |
| `Settlement`, `Idempotency`, `Reconcile` | settlement and the orders table, the key table, the reconciliation tool | components of `MCRecords` |
| `RecordsProofs` | theorems about `Ledger`, `Settlement`, `Idempotency` and `Reconcile` | TLAPS |
| `SchemaVersions` | the fourteen migrations | constants |
| `Migrations` | `run_migrations` for any plan | component of `MCInfrastructure` |
| `InfrastructureProofs` | theorems about `InstanceLock`, `Migrations`, `Backups` and `EventBus` | TLAPS |
| `Sums` | sums, folds and running totals over finite sets and sequences, greatest and least numbers, by induction | TLAPS; library of the proofs |
| `Backups` | backup, rotation and restoration | component of `MCInfrastructure` |
| `MCExecuteTrade`, `MCSafetyNet`, `MCRisk`, `MCGate` | constant definitions and symmetry sets; in `MCGate` the formulas about strategies | TLC |
| `MCTradingLoop`, `MCRecords`, `MCInfrastructure`, `MCConnection` | components that share nothing: a behaviour exercises one of them | TLC |

Definitions that begin with a comment `Slip:` are not part of any specification. Each is a variant
of the definition after it, with the kind of bug the property of the same name in `PROJECT.json`
must notice.

### ExecuteTrade
An action is the code between two awaits. `Begin` validates and draws the key (symbol, side,
amount, SESSION_ID and minute; SHA-256 is taken to be injective); `FoundDuplicate`/`FoundFresh` are
the answer of `is_idempotent_key_used`, `SaveKey` that of `save_idempotent_key`; `StorageRaises` is
the `except` that answers "not a duplicate", reached from either call, with or without the key
stored. `check_risk` follows without an await and reads only the flag `allowed`: REDUCE trades the
full amount. `Send`, `Reply`, `Raise`, `GiveUp` are the retry loop. `Serve` is the exchange taking a
request off the wire, which may come after `Raise` (a timeout) or never; a client order id it knows
is answered with the order it has, as `PaperBroker` does (`paper.py:163`, `:292`). `Cancel` ends a call at any
await, `Restart` ends them all and keeps storage and exchange; SESSION_ID is pinned in the
environment or drawn anew (`settings.py:305`). Publications are not steps of their own where their
failure is swallowed; where it is not (blocked and success events) the call may end as "raised".

### EventBus
`Publish` registers the key and gathers one task per matching subscription before anything is
delivered. `remember` is the cache: the deque's own `maxlen` drops a key without telling the set, and
the loop after it then drops the next one from both, so that the deque holds one key less than
`dedupe_size` and the set may keep a key the deque has lost. Tasks wait for a permit, hold it through
their attempts, the backoff sleeps and the dead letter subscribers, and give it back. `CancelPublish`
cancels the gathered tasks wherever they are. Not modelled: `start`/`close` (a flag nobody reads), a
handler that raises CancelledError of its own accord.

### PaperBroker, ProtectiveExits, DeadMansSwitch
An order call of the paper broker waits for the rate limiter and then runs to its end without an
await, so each is one action. Amounts are whole units. A market order fills in full or, with partial
fills, for half or more. Fees, slippage and the quote balance are left out: a BUY may be refused at any
time. `ProtectiveExits`: `ReadPosition` reads the size, `Evaluate` the price and the candles and decides
(`exit_at`), `Sell` reaches the broker, `Sold` is what follows; anything may happen between them. A turn keeps whether its order
was its own or, under a constant id, an earlier one (`own`), which the code never asks: `_sell` takes either for done. `start`,
`stop`, `Unwind` and `Close` are the handling of `_tasks`, including the `finally` that removes the symbol's
task whoever it belongs to. `DeadMansSwitch`: one recheck, as by default; the baseline moves whether or
not the sale succeeded. `SyncPosition` is reconciliation writing the storage's position.

### Orchestrator
`start`, `stop`, `pause`, `resume` are as the source: all their changes come before their first await,
except for `stop`, which then gathers (`stopped`) or is itself cancelled (`stop_cancelled`). A loop's task
is identified by the `start` that made it. `wake` is the head of `_loop_runner`, `runner_returns` and `runner_raises`
the end of an iteration, `unwind` the CancelledError. STARTING is never seen by another coroutine.
`stop` is refused in any state but running. `run_once` changes no state here. The use cases that runners call are handed in, so a runner that is being
cancelled may also return, or raise another error from what it cleans up: the cancellation is then used up, and the loop
sleeps once more, sees STOPPING and ends (`orchestrator.py:465`, `:527`). A `stop()` that is cancelled makes gather cancel once more what is alive.
Publishing of orchestrator events is guarded and ends no task.

### InstanceLock
`ask` computes the expiry, `acquire` is the transaction (upsert and select), which may come up to the busy
timeout later; `renew` and `release` touch the row only if it is the caller's. A process may die anywhere
and come back under the same owner. `time.time()` and SQLite's `strftime('%s')` are one clock in seconds.

### Pnl, Ledger
`Pnl` has `fifo_detail` (what `fifo_pnl` computes too) and `_pnl_today_fifo_quote`, each as one fold over the trades, oldest
first, with `sell_lots` for the loop they share. The two differ in what they count: `fifo_detail` takes the amount asked for
(`base_qty`), the day's figure what was filled. `MatchedUnits` is the reference: the k-th unit sold is the k-th bought. Amounts
are whole units, and a purchase's fee is a whole amount per unit, so that these figures stay integers; the average price of
`Ledger` does not, and is a fraction in lowest terms. `Decimal`'s and SQLite's rounding is not modelled.

`Ledger` is `apply_trade`, one action per statement on the database: `get_position`, the upsert (`upsert` when it writes, `conflict`
when its WHERE fails) and the second look (`reread`). `Values` uses what was read first, as the code does on its second attempt. The FIFO
branch that the docstring promises (`positions.py:181`) never comes to its end: none of the three module names it imports exists
(`:204`), the ImportError is swallowed, and the average formula runs (`average`); so `_upsert_position_fifo` is not modelled, nor
`set_base_qty`, which nothing calls. `add_from_order` stands for the caller, which records the trade first (`src/ARCHITECTURE.md:116`).
At this commit no caller passes `apply_trade` an amount: reconciliation passes 0 (`reconciliation/positions.py:293`), to which it returns
without effect. The module says what the repository does for callers that use it as documented. Unrealized profit is left out: it is
computed from the rest and read by nothing here.

### RiskManager, RiskRules, Risk
A repository is the set of the protocol's methods it has. The one in `storage/` has two of six (`Shipped`), `execute()` passes none at
all, and a rule whose method is missing raises and lets pass; `Risk` has managers with none, the shipped and all of them. `check_trade` is
the rules in their order: the first that blocks answers, of those that reduce the largest cut stands, and `execute()` stops for a block alone. The queries are worked out from
the trades, as their SQL would be. `RiskRules` gives for each check an answer and the memory it leaves: early checks per symbol (cooldown),
the figure last worked out for a period (daily loss), the peak of a symbol (drawdown). In `Risk` a trader asks (`AskManager`,
`AskCooldown`, ...) and holds its leave until the trade is recorded (`Recorded`) or dropped; others ask in between. The daily loss
rule looks for what it keeps, then awaits the trades (`Loading`), which are those of some moment since, or none when the repository fails
(`DailyLoaded`): checks overlap there, and the last to return is kept. `Reset` is the rules' own `reset`. The gate and its settings are drawn once, since the gates share no state.

### Strategies, Signals, Gate, Prudence
`Strategies` and `Signals` are exact: prices are integers, an average is kept as the sum it is a share of, a square root is compared by
squares, scores are in hundredths or ten thousandths. Floating-point rounding is left out. `Gate`: `Evaluate` is `eval_and_execute` up to the
order, `Attempt` one attempt of the retry loop, `AskCache` and `AskSources` the two ways of `get_snapshot`, `Fetched` the answer of one of
three sources (or its failure, which leaves its field out), `Deliver` the announcement, `Return` the snapshot that is kept, `TellReduced` the event of
a halved order, `Place` the order. Every await is a step; callers share one detector, whose refreshes may overlap. What was executed under a
client order id is kept, so that an order sent again is seen to be the same. `Prudence` models nothing of its own: it states of `Signals` that worse
times never make the program bolder, over constants that stand for configurations, scores, readings, conditions, weights and trends.

### Exchange, Quotes, HttpClient
`Exchange` has both brokers, one of which is drawn; callers call again and again. A token is earned in `Unit` ticks and the bucket is counted in
ticks' worth, so that it holds fractions of a token and a sleep is as long as the missing part of one (`base.py:76`, `ccxt_adapter.py:55`); the clock of the code is
finer still, which a larger `Unit` stands for. Waking writes down no refill: `BaseBroker` sets its bucket to nothing, whatever it holds by then (`base.py:80`), and what was slept through is earned once more.
`CcxtBroker`: every request takes a token or sleeps (and then takes none, as in `ccxt_adapter.py:56`), passes the breaker of its kind, is answered, refused, or runs into its timeout, executed or not; orders are
repeated after any error. The breaker is an assumption: `utils/circuit_breaker.py`, imported at `ccxt_adapter.py:9`, is not in the repository, and the model takes
from its use and its parameters that it counts failures of a kind, opens at a threshold, and is closed by a good answer. Amounts are rounded to the market's step and checked against its minima. `BaseBroker`: arguments and bucket.
`Quotes`: a quote is made, arrives later, is kept by `BaseBroker` and by one of three stores of market data from the time it arrives; the
ages add up. A store is a sequence in the order its quotes came in or were used, of which `Cleanup` drops the beginning. The market store tells the time
by the wall clock (`ccxt_market_data.py:50`) and the broker's cache by its own; both are one clock here that does not jump. `HttpClient`: permits are taken from the semaphore there was, kept through the pauses, and given back to the semaphore there
is; `Configure` replaces it at any time; another setting closes the client that others use.

### Settlement, Idempotency, Reconcile
`SyncPartialFills` is one await of a pass: the list of open orders, what was recorded of one, the record, the announcement, any of which
may fail; `tracks` says whether the storage has the methods (the shipped one has not: a pass then announces all that is filled,
each time). The rows of the orders table are written in any order, because nothing in the source calls these writes; `FetchLocalOpen` and
`FetchRemoteOpen` are the reconciler, between which an order may fill. `Idempotency`: the clock is read (`Stamp`), then the lock is awaited, then `check_and_store`
prunes and inserts in one transaction, or rolls back; `migrated` is the table of the migrations, whose extra column makes the insert do nothing.
`Reconcile` is one run of the tool, repairs included, on an exchange that moves on between its steps; `methods` says whether the repositories
have what it calls (the shipped have not).

### SchemaVersions, Migrations, Backups
`Migrations` runs any plan of migrations statement by statement, each of which commits by itself; `LookForColumn` and `AddColumn` are
`PRAGMA table_info` and the `ALTER TABLE` after it, which raises when another process was faster; `CrashStart` comes anywhere. The run takes the
fourteen versions of `runner.py` (`Plan <- pymigrations`); the theorem takes any plan with `PlanOrdered`. `Backups` has the library and the
command line tool, one of which is drawn: a file is whole, part or empty; `JobDies` leaves what the step had written. A restoration first copies the database in place
over the one `.current` file (`SafetyCopy` to `SafetyCopied`, `maintenance.py:487`), which is part from the beginning of the copy to its end, and then writes over the database. The application
runs, writes and is killed beside them (`Application`).

## 3. Runs

| Run | Expect | Instance | Shows |
|---|---|---|---|
| `ExecuteTrade` | pass | 2 calls, 5 requests (two spellings of a BUY, a SELL, one bad of each kind), 2 attempts, verdicts reduce/block, both faults, 1 minute tick, 1 new session | `OneOrderPerKey`, `OrdersPassedTheGates`, `ExecutedIsReal`, `DuplicateHasOriginal`, `ImplementsOnce` |
| `SafetyNet` | pass | account of 2 units, 2 prices (a stop, a take profit), ATR missing/2/4, 2 loops, 1 other client | `AccountTrue`, `ClosedIsBacked` |
| `SafetyNetClosed` | violation | the same parts without partial fills or bus errors | a second stop-loss closes its loop unsold |
| `SafetyNetBreakeven` | violation | the same, at prices of TP1 and just below the entry | after TP1 is sold the loop holds at a price below its entry |
| `TradingLoop` | pass | 2 loops, 2 errors, 3 starts; 2 callers, 2 attempts, interval 2, clock to 2, 3 policies, 3 readings; strategies over all histories of up to 4 bars and flat ones of 5; 2 fusion configurations (in one the thresholds do not rise with the regime), 12 scores, 6 changes, 96 conditions, 3 timeframes | `OneTaskPerLoop`, `StoppedIsQuiet`, `StatusTruthful`, `PauseHolds`, `StopEnds`, `LoopsGoOn`, `JudgedByARegime`, `TruthTold`, `SidesAreMeant`, `WorseIsStricter` |
| `Records` | pass | 2 writers, 4 trades of 6 kinds: both sides, filled whole or in part, with and without fees, 2 days; 2 orders of 2 units, 2 coroutines, 3 passes, 3 writes; 2 connections, 2 keys, ttl 0 and 2, 5 ms; 2 runs of the tool, 1 move of the exchange | `CashConserved`, `FifoMatchesUnits`, `SameVersionSameRow`, `SettledOnce`, `OrdersAgree`, `GrantedOnce`, `RunsSettle` |
| `Infrastructure` | pass | 4 publications, 2 subscriptions, 1 DLQ subscriber, 2 attempts, 1 permit, cache of 2, 3 keys; 3 processes at the lock, ttl 1, clock to 3; 2 processes that migrate, 4 starts, all 14 versions; 2 jobs, 2 seconds, 1 write, 3 commands | `NoEarlyRedelivery`, `Accounted`, `PublishEnds`, `MutualExclusion`, `StartsSafe`, `RestoredWhole` |
| `RestoreRetried` | violation | the same | a restoration that is run again after one that died writes half a database over the only sound copy |
| `Risk` | pass | 2 traders, 3 trades, clock to 5, days of 2; 17 gates: 3 managers, 3 cooldowns, 3 daily losses, 2 drawdowns, a streak, 2 correlations, 3 spread caps | `BudgetsBounded`, `StreakIsFinal`, `CooldownWindow`, `RefusalIsEarned`, `ExclusionBounded` |
| `RiskKept` | violation | one trader behind the daily loss rule, with all it asks for | an entry after the day's loss has come to the limit, by a figure kept since the first |
| `RiskUnwired` | violation | a manager without repositories, as `execute()` calls it | an entry after the day's loss has passed its limit |
| `Connection` | pass | 2 callers that call repeatedly, half units, 2 tokens, 3 attempts with pauses of 1 and 2 ticks, breaker after 2, 6 ticks (3 with `CcxtBroker`); 2 readers, 2 symbols, a store of 2; 2 clients, 2 retries, 2 swaps of a semaphore of 0 to 2 | `RequestsBounded`, `OrdersAsAsked`, `QuotesBounded`, `RequestsEnd` |

`AccountTrue`, `CashConserved`, `JudgedByARegime`, `SidesAreMeant` and `WorseIsStricter` are conjunctions of named parts (such as
`BalanceIsLedger`, `OneOrderPerClientId`, `FlatAgrees`, `FreshRegime`, `SizedByARegime`). `SidesAreMeant` and `WorseIsStricter` are about constants: they
are worked out over every listed history and setting, and stated of the states in which no caller has begun. For `WorseIsStricter` the lists are
constants of `Prudence`, and the theorem takes any.

Why the bounds are enough to be of interest. Two calls make the race between check and save, two
attempts the late request and the retry, one tick and one new session the two ways a repeated trade gets
another key; the theorems lift all of it to any number. Four publications over three keys fill a cache of two,
evict and repeat a key; one permit with two subscriptions makes deliveries wait for each other's backoff.
Two units let half be sold at TP1 and the rest later; two loops are a loop and its successor. Three starts are a
run, a restart and a restart after that; two errors are the last but one and the last. Four trades are two lots and two
sales, so that a sale can end inside a lot and the next begin there, on another day; two writers are the race.
Two traders are one that asks while the other's trade is not recorded; three trades reach a streak of two and one more; a clock of five
is two days and a half, so that a period ends with a figure kept. Two ticks with an interval of two let a snapshot go out of date while it is used
or fetched. Six ticks of half a unit are three units, in which callers that find half a token sleep half a unit and what they slept through is earned again; the larger `CcxtBroker` has three ticks, enough to sleep, wake and pause. Three attempts of two callers empty two tokens and open a breaker of two failures; a store of two holds both symbols, and that of market data
evicts with a symbol that is there already (what a store of any size does with a symbol too many is proved); three ticks are a quote's way and its life in a store; two swaps are a
semaphore, its successor and the next. Two passes overlap, three are one before and one after; two keys with a ttl of two over five
milliseconds expire and are granted again; the second run of the tool sees what the first repaired. Three processes and three ticks are a takeover of the lock
and another; four starts are two that overlap, both dead, and two after them; two jobs in two seconds meet in one name and follow each other. Counters that
grow are bounded by constants of their own: `MaxPubs`, `MaxMinute`, `MaxSession`, `MaxStarts`, `MaxTime`, `CcxtTime`, `MaxTrades`, `MaxClock`, `LastTime`, `Flight`,
`Swaps`, `Rounds`, `Changes`, `LastMs`, `Moves`, `Runs`, `LastSecond`, `Writes`, `Commands`. `CHECK_DEADLOCK FALSE` stands where
a finished set of calls, publications, trades, requests or jobs, or a clock at its bound, is a legal end. That the orchestrator
does not stop where it should go on is what `StopEnds` and `LoopsGoOn` say.

Symmetry is used for actors that no property tells apart. `Connection`, `TradingLoop` and `Infrastructure` check liveness properties, so their symmetric sets are those of
other parts only: neither the clients of the HTTP pool, nor the loops, nor anything of the bus is permuted.

Fairness (of `EventBus!BusFairSpec` and `Orchestrator!FairSpec`, stated again in `MCInfrastructure!InfrastructureSpec` and `MCTradingLoop!LoopSpec` for the part that runs). `BusFairSpec`: the event loop does not idle while a task or a gather can go on; nothing is
assumed of publishers, subscribers or cancellations, nor of any single task. `FairSpec`: asyncio runs
every task that can go on, sleeps end, a runner returns or raises (cancelled or not), a cancellation is delivered, and gather
returns once its tasks have ended; nobody is obliged to call an operation. `MCConnection!Spec`: every HTTP request that can go on does, since
asyncio runs its coroutine and a request that was sent ends by its timeout; nobody is obliged to begin one or to call `configure`. All else is
safety and needs none.

## 4. Findings

The violation runs, each with the sentence it contradicts, are in `PROJECT.json` under `findings`:
1. `SafetyNetClosed`: constant client order ids make the second stop-loss a no-op that is reported as a close.
2. `SafetyNetBreakeven`: break-even (`protective_exits.py:128`, `src/README.md:387`) lifts the stop only in a turn whose price is above TP1, where it cannot fire; below, the stop is the ATR one again.
3. `RiskUnwired`: `execute()` calls the risk manager without repositories, so that no critical rule can stop a trade.
4. `RiskKept`: the daily loss rule keeps what a period's trades came to at its first entry, and later losses of the day stop nothing (`daily_loss.py:4`).
5. `RestoreRetried`: the safety copy of a restoration is written in place under one name, so that the retry of one that died half way destroys the only sound copy before it has another (`maintenance.py:484`).

Met on the way and not given a run; the models do what the code does.

*Orders and tasks.* `check_duplicate` reads and saves the key in two awaits: with ids of the callers' choosing two orders for one key are
possible (`NoDoubleOrder` needs `CallerIds = {}`). Trace ids are passed where the bus expects a deduplication key, so the second event of a trace is dropped.
`stop` is refused while paused; a stop() that is cancelled leaves the orchestrator in STOPPING for good; `error_count` survives restarts. The
lock is never renewed: after 300 s a second process enters beside the first. The dead man's switch watches the price, not whether the bot hangs (`src/README.md:52`).

*Positions.* The second attempt after a version conflict writes what was computed from the first read, and two first trades are not
even seen to conflict, since a row is inserted with the version expected of a missing one. Positions are kept by average price, not by FIFO as `positions.py:182` says (the two
agree when flat). FIFO figures count a partly filled order in full (`pnl.py:68`).

*Risk.* Four of the protocol's six methods are missing from the shipped repository. A cooldown "reduces" by 100 per cent, and `execute()` trades the full amount;
`check_trade` ignores the side, so a closing sale is refused like an entry; a spread provider given once stays. The cooldown rule counts checks as trades, and a
`progressive_max` below the base shortens the cooldown; the daily loss is worked out for the symbol that asked first and answers for all; a peak of zero or
less switches the drawdown rule off; of several correlation groups only the first counts, and a reduction skips the exposure check; the
volatility adjustment of the spread cap is never applied. Nothing constructs `rules/*.py`; `max_drawdown.py` and `policies.py` cannot be imported.

*Regime and signals.* `gated_broker.py` imports a name that is not there, and `compose.py` does not use it; `RiskManager` has no `check()`, which
`eval_and_execute` calls, so that it skips every signal. With the changes markets really make, a score never leaves neutral; the ramps before
and after FOMC are unreachable. A source that fails can raise the score. Overlapping refreshes can leave subscribers told of another regime. The
supertrend strategy never sells, and the slope filter of `ema_atr` holds back buys alone; a missing AI is easier to pass than a low one; high volatility
lowers the threshold; a missing timeframe is not made up for by the others. A high error rate slows reconciliation down when nobody trades (`intervals.py:344`, `:355`).

*Connection.* A caller that slept takes no token, and in `base.py` the time it slept is earned again: the rate grows with the callers, by two requests each and unit of time. Any error is repeated, refusals for lack of funds included. Without a client order id a
buy may be executed once per attempt. An empty list of markets is loaded again at each request and checks nothing. `live.py` imports an
adapter of another name; the market data provider goes round the bucket. Of two overlapping requests for a ticker the older may be kept, and a full store evicts even for a
key it holds. `configure` in the middle of requests loses or adds permits and can strand those who wait; other settings close the client others use; a hard
timeout is not repeated; `retries or 2` turns 0 into 2.

*Records.* Without a storage that tracks fills each pass announces the whole filled amount (against the comment at `partial_fills.py:23`); an order that leaves the list before a
pass is never settled; a failed load counts a fill twice. A row with a client id alone never matches the exchange. A failed remote query
gives a clean report. The tool marks findings as fixed that it had no method for, and exits with 0; a canceled order is written back with nothing filled. Over the table of
the migrations `check_and_store` inserts nothing, and grants nothing.

*Storage.* Nothing calls `run_migrations` or `DatabaseBackup`, and nothing keeps two starts apart: one of them may fail at a column the
other has added. `keep_last=0` deletes the backup just made; a compressed and a plain backup share one checksum; decompressing overwrites the plain
backup of that name. The copy made before a restoration leaves out the WAL, the WAL of the old database stays beside the new one. An empty file passes the integrity check.

## 5. Proofs

All but the library `Sums` in `*Proofs` modules, by one argument: an invariant (`IInv`, or one named for its part) implied by
the initial states, kept by every action (one step each), and implying the property. The other properties that are invariants were checked
by the runs before they were proved.

`Sums`. The fold that `SumFunctionOnSet` is has no theorem in the library, and induction on a set takes an operator the provers cannot
instantiate. So a claim about all finite sets is proved by a smallest set that breaks it (`SmallestSet`, from the well-foundedness of the
naturals). Proved so: what a sum unfolds to, that its order does not matter (`SumWithout`), its type, what `Max` and `Min` of a finite set are, that sums are
ordered as their terms (`SumsOrdered`), and what becomes of a sum of sums (`SumOfMixed`). The folds over sequences are functions of the sets of indices still to
come: from that, what a fold makes of an appended element, and the running total that the folds of `Pnl` are compared with.

`ExecuteTradeProofs`. `IInv` adds to `TypeOK`: `CallInv` (where a call is determines what it has: a key past validation,
an id past the risk gate, a saved key or an exempted check, a served attempt when it reports success),
`OrderInv` (an order is a served attempt of a call that carries its key and id), `OneOrderPerClientId` and
`SavedInv` (a saved key belongs to a call past the check). `OneOrderPerKey` is not inductive: it follows because with
generated ids the id of an order is its key, and the exchange keeps one order per id. Proved: `TypeCorrect`,
`Gates` and `Originals` for any constants; `NoDoubleOrder`, `ExecutedOrders` and `Refinement` (every step of
`ExecuteTrade` is a step of `TradeOnce` or a stutter) under `CallerIds = {}`, without which two calls with ids of
their own can both order (section 4).

`SafetyNetProofs`. The account: the balance is the sum of its orders, an order is new when it is saved and fills for at most what the account
holds, an id has one order that counts. The loops, `Decided`: a turn has a reason and something to sell from the decision on, and past the order there
is one of that name; when that order was the turn's own it is for all the turn had read, half of it filled at least, and no other loop's. When it was not, an
order of the name was there before, which is all that can be said: `SafetyNetClosed` shows that the position may then be unsold. Proved: `AccountIsTrue` (`AccountTrue`), `ClosesAreBacked`
(`ClosedIsBacked`), for any clips, ticks, prices, loops and clients.

`TradingLoopProofs`. The orchestrator: only tasks of the last `start` are alive (`TasksInv`), a task is being cancelled
only when `stop` was called after its `start` (`StopInv`), a loop's errors are bounded (`ErrorsInv`). Proved: `TypeCorrect`, `NoTwins`
(`OneTaskPerLoop`), `Quiet` (`StoppedIsQuiet`), `Truthful` (`StatusTruthful`), `PauseKept` (`PauseHolds`).
The gate, `GateInv`: a caller that may order was told a regime at most an interval old when it asked, and buys what some regime it was told allows
(`CallersOK`); what is kept is the last state (`CacheOK`); while refreshes do not overlap and the bus delivers, subscribers were told that state or the one
refresh under way is about to keep what it told (`Truth`). Proved: `JudgedInTime` (`JudgedByARegime`) and `AnnouncedAsJudged` (`TruthTold`).
The formulas of `Signals`, one lemma to a conjunct of `WorseIsStricter`: adapting a threshold keeps the order of two thresholds and does not take one of half or more below
half; a regime is a sum of scores cut into four, and each score falls as its reading gets worse; an interval is cut to its bounds last; weights times ranges over their
sum are shares of a whole, and an average lies between the least and the greatest of what it averages. Proved: `StricterWhenWorse` (`WorseIsStricter`), for any
configurations that the filter's own check accepts, any readings, and any finite set of timeframes.

`RiskProofs`. A trader that was let through and has not traded yet is a debt to each limit, and the invariant pays it in advance: recorded orders
and orders on their way together stay below the budget plus the other traders (`OrdersInv`), the same with turnover, where each counts for the dearest
trade there is (`TurnoverInv`); symbols of a group that are held or about to be stay below its limit plus the others (`ExclusionInv`). None of
`BudgetsBounded` and `ExclusionBounded` is inductive without it. `LossInv`: the figure kept is that of some symbol's trades of the period it is
kept for, as they stood at some time, and the figure a check waits for will be; trades only grow, and a trade recorded later is not of an earlier period. It rests on lemmas about days and hours of reset, for any length of a day. The cooldown needs only that its memory is a
count and a time (`CoolInv`): whatever was counted, the wait asked for is the base or, when progressive, the base times a power of the factor that is at least one, cut by the
limit. That powers of a positive factor are positive is a lemma; the factor is a natural number here (1.5 in the code). Proved: `CooldownHolds` (`CooldownWindow`), `BudgetsHold`
(`BudgetsBounded`), `RefusalEarned` (`RefusalIsEarned`), `ExclusionHolds` (`ExclusionBounded`), `StreakEndsNever` (`StreakIsFinal`), for any
traders, repositories and settings that `SettingsOK` describes: counts and costs are numbers, what one may bring and the groups are finite.

`ExchangeProofs`. A request is paid for with a token or with a sleep. `IInv`: there is for each caller a number of sleeps such that the requests and the tokens
left are at most what the bucket held and earned and the sum of those numbers, and a caller that slept n times did not wake before the earliest time it can have woken for the n-th time. With `CcxtBroker` these
times are a unit apart, because somebody must have taken a token between two sleeps of one caller; with `BaseBroker` every other one is, because a wake leaves the bucket as empty as it was
before the sleep, and the time slept may make the next sleep as short as one likes. So callers sleep at most once, or twice, per unit of time begun. Proved: `RequestsAreBounded`, with no
assumption but a finite set of callers, a natural capacity and a grain of time of one tick or more: the bound does not depend on the grain.
The orders, `CallsOK`: what a call still has to do is the end of the plan of its operation, and its amount is on the step and within the minima from the
moment it may be sent. Proved: `OrdersHold` (`OrdersAsAsked`), for any markets and answers.
The quotes, `QuotesInv`: a request that is under way was asked at most `Flight` ago, what the broker keeps was no older when it came, and what a store holds was no
older than that and what the broker's cache adds; so ages only add up along the way. A store stays one entry of a symbol, within its size and, unless use moves them,
in the order they came in (`StoreOK`), which is why those that are too old are its beginning. Proved: `QuotesAreBounded` (`QuotesBounded`), for any readers, symbols, sizes and times to live of at least one unit.

`RecordsProofs`. The position, `LedgerInv`: versions are naturals that only grow, and whoever is about to update a row it has read holds either
an older version or the row itself. Proved: `VersionIdentifies` (`SameVersionSameRow`), for any writers and trades, without opening the
formula of the new position. It covers the first attempt after a row was there; outside it a trade can be lost (section 4).
The accounts, `AccountsInv`: until two writers have raced (`raced`), one at most is at work, the row accounts for every trade but the one that is being applied, and what that
writer has read is the row (`Unraced`). A row accounts for trades when its base is what was bought and not sold and, unless too much was sold, its realized profit and the cost of what
it holds are the cash that moved; averages are fractions, so the step compares them over one denominator. For profit by FIFO, `FifoInv`: the lots left cover, at their costs, the units bought and not
sold, so that selling from them takes the units `MatchedUnits` takes, over all days together as day by day. `CashMatches` joins the two: the cash that moved is the matched
profit less the cost of what is held, so that a flat position made what FIFO says. Proved, by what a fold makes of one more trade: `AccountsInductive`, `LedgerConserves` (`CashConserved`)
and `FifoAgrees` (`FifoMatchesUnits`), for any writers and any kinds and number of trades with amounts and fees as `ConstantsOK` has them: a purchase's fee is whole per unit, which money
counted in a small enough unit makes true.
The fills, `FillsInv`, for a storage that tracks fills and as long as nothing is excused: one pass at most is active, its list is not ahead of the
exchange, what it is to record fits below what is filled, and what it is to announce below what is recorded. Proved: `FillsSettledOnce`.
The rows, `RowsInv`: an id belongs to one row of an order, in the table and in what a reconciler read of it, however the table was written since. Proved: `RowsAgree`
(`OrdersAgree`), by counting: the rows that match are as many as the orders that were listed.
The keys, `KeysInv`: nobody has read a time to come, and until a grant is over the row it wrote is there. `GrantedOnce` follows because a caller
finds no row only if none was written or it expired before the time it read. Proved: `KeysGrantedOnce`.
The tool, `ToolInv`: while the exchange stands still and nothing excuses a run, whatever local record still differs from the exchange is among what the run has
left to compare. Proved: `ToolSettles` (`RunsSettle`), for any orders and moves.

`InfrastructureProofs`. The lock, `LockInv == TypeOK /\ HolderHasRow`: exclusion follows since the row has one owner. Proved:
`TypeCorrect`, `Backed`, `Exclusive`.
The schema, `SchemaInv`, adds to the types: `Recorded` (the versions recorded are 1..n, and what they make is there), `Position` (a process has
made what its version makes up to where it is, and the versions below are recorded), `Alone` (nobody works beside a process that found the
database to itself, so the column it found missing still is). `StartsSafe` alone is not inductive: that a recorded version is complete follows from where its
process was. Proved: `StartsAreSafe` (`StartsSafe`), for any processes and any plan in which a statement needs nothing made after it.
The bus: a permit is free or held by a task; a task that failed has used its attempts and told the dead letter queue; the queue of the cache is the
keys that came last, all of them until it is full and one less than its size after that. Proved: `BusTyped`, `NothingIsLost` (`Accounted`),
`RedeliveryTakesOthers` (`NoEarlyRedelivery`).
The backups, `BackupsInv`: until two jobs have met in a name, or a restoration an open database, each job has a name of its own, the file it looked at is
no part, and one restoration at most is at its copies (`Apart`); and, until a copy is begun of a database that is part (`retried`), the database is no part while its copy is being written, and
that copy is sound while a restoration is about to write over the database or the database is half written (`CopyKept`). `RestoredWhole` has only
the last of these, which the step from the look to the copy would break. What it says ends with `retried`, which `RestoreRetried` shows to happen.
Proved: `RestoredIsWhole` (`RestoredWhole`), for any jobs, seconds and bounds.

The theorems about types, `Backed` of the lock (`HolderHasRow`) and `AccountsInductive` are proved and not among the properties of the runs.

Assumptions used: the named ASSUMEs of the modules (`ConstantsOK`, `PlanOrdered`, `LastSecondOK`, `TtlsOK`, `TtlsPositive`, `BucketOK`, `SettingsOK`, `PrudenceOK` and their like), which every run evaluates.

Only model-checked, and why:
- liveness (`PublishEnds`, `StopEnds`, `LoopsGoOn`, `RequestsEnd`): fairness and ENABLED are out of the prover's reach;
- `SidesAreMeant`: worked out over the listed histories, and meant of those. The percentages of the stochastic are exact only for ranges up to six, and the
  exponential averages are recursive in the prices with powers of the period, of which the provers know nothing.
RECURSIVE operators there are none.

## 6. Not modelled, and the plan

What could follow, most important first.

1. An abstract ledger that `Ledger` implements step by step. That the row is what its trades make it, for one writer at a time, is proved (`LedgerConserves`).
2. `Risk` and `Gate` composed with `ExecuteTrade`, as the verdict and the amount it reads, under the orchestrator.
3. The redis bus, once something constructs it: reconnects of the listener, and the message that reaches an exact handler twice.

Not modelled, and why:
- the composition root, HTTP API, Telegram, health checks, performance and other command line output, settings, logging, metrics, formatting: I/O and wiring; what
  wiring decides (deduplication on, trace ids as keys, no repositories for the rules) is in the constants of the models;
- the Redis bus: nothing constructs it, and its delivery is that of a library outside the repository;
- the feature pipeline and the AI model: numerical functions of price series without control of their own;
- the reconcilers of `positions.py` and `balances.py`: they compare and report (the first reports an update of the price it does not make);
- the facade, audit and market data tables (append only), fees and slippage of the paper broker, and the backup the migration runner itself makes;
- `utils/retry.py`, `set_base_qty` and the FIFO upsert, which nothing reaches;
- the exchange itself and CCXT (external; its effects appear as answers, errors and delays).
