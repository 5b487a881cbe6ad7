# A verification of TradeProject in TLA+

TradeProject is an event-driven trading system for the NSE: feeds publish ticks
on an in-process event bus, strategies turn them into signals, signals pass a
pre-trade check, are cut into orders and sent to a broker, fills come back, a
risk monitor may pull a kill switch, and everything is written to ClickHouse.
This directory models the parts of it where order, failure and concurrency
decide whether the system is right. All of it is one asyncio process, with
Redis, ClickHouse and the broker behind awaits: **an action of a model is the
code between two awaits**, and whatever may run at an await runs there.

## 1. The system and what is modelled

| component (source) | state | operations | module |
|---|---|---|---|
| OrderManager (`execution/order_manager.py`) | `orders:open:<id>` documents in Redis | submit, cancel, update_status, get_open_orders | `OrderManager`, `OrderManagerProofs` |
| ZerodhaExecutionClient (`execution/brokers/zerodha.py`) | the exchange, paper orders | place, cancel, status | inside `OrderManager` |
| KillSwitch (`risk/kill_switch.py`) | flag in Redis | activate (sweep, flatten), deactivate | `KillSwitch`, `KillSwitchProofs` |
| PreTradeChecker (`risk/pre_trade.py`), SmartExecutor (`execution/smart_exec.py`) | – ; upgrade tasks | check; execute by slices, upgrade of passive orders | inside `KillSwitch` |
| EventBus (`core/events.py`) | queue, handler lists, dispatch task | subscribe, publish, start, stop | `EventBus`, `FifoBroadcast`, `EventBusProofs` |
| ClickHouseWriter (`data/storage/clickhouse_writer.py`) | three buffers, batches in flight, fallback files | writes, flush loop, insert with retries | `ClickHouseWriter`, `ClickHouseWriterProofs` |
| Feeds (`data/feeds/*.py`) | connection flag, socket, heartbeat task | connect, subscribe, disconnect, heartbeat, callbacks | `FeedConnection`, `FeedConnectionProofs` |
| SpreadTrader, BaseStrategy (`strategies/stat_arb/spread_trader.py`, `base.py`) under PortfolioManager's `on_tick`, `on_fill` | pairs believed open, prices, state; positions in Redis | on_tick (entry, exit, forced exit), on_fill, halt, resume | `SpreadTrader`, `SpreadTraderProofs` |
| RealTimeRiskMonitor (`risk/real_time.py`), PortfolioManager's drawdown (`strategies/portfolio.py`) | profits and the peak in Redis, loops, who is halted | start, stop, the rounds of a loop, check_daily_drawdown | `RiskMonitor`, `RiskProofs` |
| limits of the PreTradeChecker | positions and buying power in Redis | check, read by read; the booking of a fill | `Exposure`, `RiskProofs` |
| GreeksRiskManager (`risk/greeks_risk.py`) | `greeks:*` documents, four net greeks | update_greeks | `Greeks`, `RiskProofs` |
| TickValidator (`data/quality/validator.py`) | last price and volume of each symbol | validate; the bus and the tick buffer behind it | `TickFilter`, `ResearchProofs` |
| FeaturePipeline (`features/pipeline.py`) and MLDirectionalStrategy | features in Redis, the batch of rows, open positions | on_tick, flush loop, entries and exits | `FeaturePipeline`, `ResearchProofs` |
| VPIN, trade signs (`features/microstructure`) | – | compute, as functions | `Microstructure`, `ResearchProofs` |
| MarketClock (`core/clock.py`) | – | sessions, waits | `MarketClock`, `ResearchProofs` |
| BacktestEngine, FillModel, WalkForwardRunner (`research`) | cash, holdings, prices, rows to replay | run, fold by fold | `Backtester`, `RiskProofs` |
| backfill script (`scripts/backfill.py`, `data/backfill/nse_bhavcopy.py`) | loaded dates, the writer's buffer | check, download, load, again in a later run | `Backfill`, `ResearchProofs` |
| ModelTrainer (`strategies/ml_directional/trainer.py`) | the saved model | train's folds, run_walk_forward | `Training`, `ResearchProofs` |
| fill tracker, latency profiler, alerts, Kafka producer | counters, records, a queue | increment, record, send | not modelled |
| dashboard, model selection, metrics, configuration | – | numerical or read-only | not modelled |

How they interact: the bus calls handlers (pipeline, strategies, trackers) one
after the other in one task; the order manager publishes OrderEvent and
FillEvent on it; the risk monitor calls `KillSwitch.activate`; the kill switch
and the upgrade tasks of the executor both call `OrderManager.cancel` while
`submit` and `update_status` of the same order may be anywhere between two of
their awaits; Redis is the only memory they share. The feeds' sockets call back
from threads of the client library. Sums over keys (the profits, the exposure, the
net greeks, the features of a symbol) are read one key at a time, so that what is
added up need never have been there at one time. The research code is sequential,
but its objects are used again and again.

### What has to be right

* Order manager: a live order leaves Redis only to a cancel that said it failed; an order
  whose cancel returned True does not trade; a fill is recorded and announced
  once, and both or neither; a deleted document stays deleted.
* Kill switch: while it is on no signal is admitted; the sweep reaches every
  order that worked when it began; it gets to its end; the positions are
  flattened.
* Event bus: every subscription sees every event of its type once, in order; a
  handler that raises harms nobody else; loops end when the bus is stopped.
* Writer: no row is lost silently; copies only where the outcome of an insert
  was unknown; rows do not stay in memory.
* Strategies: the position kept in Redis is the one the strategy believes it has;
  the limit on open pairs holds; a halted strategy opens nothing.
* Feeds: a feed that says it is connected is watched by a heartbeat; silence
  leads to a new connection.
* Risk: the peak only rises and was reached once; a loss that lasts is acted on
  again and again; the gross exposure passes its limit by no more than the orders
  that overlapped; the net greeks settle on the sum of the documents.
* Ticks and features: neighbouring rows of a buffer are comparable; a signal rests
  on features of one tick; no row is lost or saved twice; entries and exits
  alternate.
* Research: waits end where the market opens, a walk-forward trades a tick once, a
  fill costs money, a date counts as loaded when its rows are, a model is judged on
  ticks it has not seen.

## 2. The modules

**`OrderManager`** Each order is driven by one `submit`; a fixed set of `Calls`
are coroutines that run `cancel` or `update_status` on any order at any time.
`doc[o]` is the document in Redis (absent or a record), `broker[o]` the order at
the exchange, `submit[o]` and `call[c]` where the coroutines stand, with the copy
of the document each has read. `row`, the published fills and what a cancel
returned are history. Every await may also raise (`SubmitAbort`, `CallAbort`,
the outcomes of `SubmitPlace` and `CancelBroker`), which stands for Redis or
ClickHouse failing and for a crash of the coroutine. `paperMode` is chosen in the
initial state: the paper client fills an order before submit has acknowledged it.
`Statuses` are the six the client's map gives; a report (`Reports`) may say PENDING of
an order in any state, as `get_order_status` does for a status it does not know, an
order it does not find and any exception, and `update_status` stores what it is told.
A Redis command that raises may or may not have been applied.

**`KillSwitch`** extends it with the pipeline in front (`flow[s]`: queued,
checking, executing, ...) and the actors that cancel. A slice of a signal is an
order `<<signal, number>>`; `StartSlice` starts one when the one before is done.
The SCAN of `get_open_orders` visits the keys one by one (`ScanOrder`), so that
a document written behind the cursor is missed. `upgrade[o]` is the task
`_upgrade_to_market` of a passive order; `submit` sends a limit order up to an urgency
of 0.7 (`Limit`) and `execute` starts the task below it (`Passive`). In this module Redis does not fail and
no coroutine is killed; the client is the real one.

**`EventBus`** numbers the events by publication; `head` says how many have left
the queue. A dispatch loop is `waiting`, `choosing` the next handler or `calling`
one. `subscribe` appends whatever is on the list, so that a handler may have several
places on it and is then called as often: what `got` records is the event and the
place. `start` may be called repeatedly and each call makes a loop; `stop` cancels
only the last one, at whatever await it is. An Exception of a handler changes nothing;
a CancelledError is none and ends the loop (`died`), while the bus still says it runs.
`FifoBroadcast` is the promise to the handlers in terms of what each subscription has
received; `ImplementsBroadcast` is the refinement, with `ordered` true until start is
called while a loop is alive.

**`ClickHouseWriter`** The lock guards no await, so that an append, the test of
the length and the taking of a batch are one step; that `_flush_all` goes on to
its next buffer is a step of its own, which commutes with what may run before it.
An insert returns, raises without effect or raises after it was applied. The end
of the process, by a crash or in order (there is no close), forgets the memory;
the threads of the executor may still apply their inserts. Lists are sets of
distinct rows: no property depends on their order. The names of fallback files
are taken to differ (they hold the time in microseconds).

**`FeedConnection`** `mode` chooses paper, Zerodha or Shoonya. `conn` is the socket
of the current connection, `old` the states of those it replaced, which the code
leaves open and whose callbacks still act. `lastTick` is none, fresh or stale (30
seconds). That Zerodha counts as connected three seconds after a thread was
started, whatever the socket did, is `Waited`. `TryFails` is an attempt that raises: before
there is a new connection object, with one that never gets a socket, or, at Shoonya,
after the login has set the flag although its websocket did not start; `halfway` is
the history of the last.

**`SpreadTrader`** `active[i]` is the side of the first leg of pair `i` in
`_active_positions`, the strategy's belief. The numbers behind a decision (z, the
variance, vpin, whether a price is stale) are free choices: `Pass`, `Exit`,
`Consider`, `Enter`, `Decline`. A leg is one unit and a signal is filled once or
never; a quantity or a partial fill would add nothing to what the properties tell
apart. `publish` does not suspend, because the queue has no limit, so `on_tick`
has one await: the reads of vpin in `_check_entry`, between `Consider` and `Enter`.
The loop over the pairs goes on without an await (`scan`; no other task moves while
one is there, `AtAwait`). What the code keeps apart, `BooksMatchBelief` adds up again:
what is booked of a symbol, what is on its way (`Coming`), and what the pairs believe of
it (`Legs`). Each of the `Handlers` is a task that calls `on_tick` and
`on_fill`: the repository subscribes neither to the bus, and a bus with one loop is
one task; two are what two calls of `EventBus.start` give. Signals, refusals and
fills are counted per symbol and side (`flight`) for the `Watched` symbols only; the
books of one symbol are independent of another's, so one that is in two pairs, as
a first leg in one and as a second in the other, shows all cases. `refused`,
`excused` and `finishing` are history.

**`RiskMonitor`** Each of the `Tasks` is a loop that some `start` made or a caller
of `check_daily_drawdown`; `round[t]` says at which await it stands, which keys it
has yet to read and the sum so far. The profits are read in any order, as a SCAN
returns them, which may return a key twice (`ReadProfitAgain`). `ReadPeak` is the read with the comparison and everything up to the
next await, `RaisePeak` the write. `stop` cancels the loop of the last start
(`latest`); an earlier one, left behind by a second start, ends when it next looks
at `_running`, unless somebody has started the monitor again. A failure at any await skips
the rest of the round, as the code does. `torn`, `overtaken`, `tainted` and
`equities` are history. What only emits events (the exposure check of the monitor,
`check_greeks_limits`) is left out.

**`Exposure`** is the part of `PreTradeChecker.check` that `KillSwitch` leaves to
chance: the size of the order, the buying power, the gross exposure added up
position by position, the average volume and the strategy's limit, each after the
await before it. A signal that passes is filled at some price or never, and
`on_fill` of the ML strategy books it: it reads the position (`Fill`) and, after the await,
writes what it read with the fill (`WriteFill`), over whatever another fill has written
meanwhile; or it raises and nothing is booked (`FillIsLost`). The price of the last fill is the
`avg_price` of the whole position. A key of the SCAN that comes twice only makes the sum
greater (`ReadPositionAgain`). `overlap[s]` is the history the bound needs.

**`Greeks`** tells a sum by the version of each document it added, so that one
record stands for the four numbers and two sums are equal when they are sums of the same
documents. `update_greeks` writes its document, reads all of them, one now and then twice
(`ReadGreeksAgain`), and writes the nets one by one.

**`TickFilter`** is the way of one symbol's ticks from the feeds through the validator
and the bus to the buffer of the pipeline; `validator[f]` says which feeds share one.
`EmitTick` validates and publishes; a dispatch loop takes the event (`TakeEvent`), other
handlers may await before the pipeline's, and `AppendTick` makes a row of it. On the way
an event is lost when it cannot be built, when a loop is cancelled or when the append
raises, and two loops may swap two. A row keeps its number among the ticks its validator
accepted (`nr`), by which the invariant tells neighbours from rows that a lost tick lay
between.
**`Microstructure`** has the two computations over that buffer that are loops: the
buckets of VPIN and the run of trade signs, each with a definition without a loop to
compare it to. The volumes are exact fractions, but the code's are floats: where the volume
at hand is exactly one bucket, the rounding of `current_vol` and `bucket_size` decides
whether the bucket is full. `short` is the set of buckets it leaves short, and the
property quantifies over all of them; elsewhere the two differ by a part of a bucket
that no rounding bridges.

**`FeaturePipeline`** follows the ticks of one symbol through the pipeline and then,
as the bus calls handlers one after the other, the ML strategy, for each of the
`Loops` of the bus. A value in Redis is told by the tick it was computed for:
`stored[f]`. A pass writes its features in the registry's order and reads them back
one at a time; `Signal` begins at the last await, the second read of the spread, and
looks up the position there, as the code does. `disturbed` is history: another loop wrote, a key
expired or a feature was not computed or written. The batch of rows and the flush loop are here as
well.

**`MarketClock`** is the functions of the clock over minutes, with the offset that a
pytz zone gives to `datetime(tzinfo=...)`; its one variable is the time. That the loop of
`_next_trading_day` ends is assumed, not shown: the holidays never close the market for a
week (`NeverClosedForAWeek`), which the calendar in config/instruments.yaml satisfies.

**`Backtester`** runs the history row by row as `run` does, for one engine that a
walk-forward uses for every fold. The strategy is any choice of signals, also for
another symbol than the one that ticked. `RunFold` resets what `run` resets; `replays` counts how often a row was traded. The
samples of the equity are left out. What the
query of a run returned is the set of the rows' numbers that are still to come
(`toReplay`, `RowsBetween`), of which the loop takes the least (`NextRow`).

**`Backfill`** is the script over the writer's tick buffer, with the flush loop of the
writer beside it, the end of the process at any step and further runs. The writer
is reduced to what the script sees, of an insert that fails with a fallback that
saves all rows, some or none (`InsertFails`); `ClickHouseWriter` has it in full.

**`Training`** numbers the ticks of a symbol; a row is a tick with features, and its
label looks `Ahead` ticks further. The folds of the cross-validation are sets of row
numbers, as in `train`; the trials of `run_walk_forward` choose windows of days.
Whether a query, the library, the ratio or the conversion succeeds is free.

The MC modules give the constants values; `MCRisk` and `MCResearch` put several
components into one run. These share no state, so that `part` chooses which
of them moves, once for a behaviour, and the run checks each over all its states; the
fairness is the monitor's. A definition that a comment calls a
*slip* is a plausible mistake in the definition that follows it, kept so that
each property can be seen to fail on it (`mutants` in PROJECT.json).

## 3. What is checked

| run | bounds | properties |
|---|---|---|
| `orders` (617 708 states) | one order, three concurrent calls | `TypeOK`, `UntrackedWasRefused`, `CancelledIsDead`, `UnracedFillOnce`, `FillRowsMatchEvents`, `DeletedStaysDeleted` |
| `kill_switch` (200 046) | one passive signal of one slice, one position, one report, one activation | `SweepReachesWorkingOrders`, `NoOrderAdmittedWhileKilled`, `KillCompletes`, `PassiveOrdersSettle` |
| `event_bus` (83 213) | two handlers, one type, two events, two places on its list, two loops | `NoHandlerSkipped`, `LoopsEnd`, `QueueDrains`, `ImplementsBroadcast` |
| `writer` (155 784) | three rows, two callers, batches of two, two attempts | `TypeOK`, `NoSilentLoss`, `CopiesAreUnsure`, `RowsLeaveMemory` |
| `feed` (150 704) | two attempts | `ConnectedIsWatched`, `HeartbeatSettles`, `SilenceIsRepaired` |
| `spread` (257 388) | two pairs that share a symbol, one open pair allowed, two handlers, three entries | `OpenPairsBounded`, `BooksMatchBelief`, `HaltedOnlyFinishes` |
| `risk` (438 589) | monitor: two strategies, two tasks, two profits booked, one failure or key twice; exposure: three signals over two positions; greeks: two documents, greeks and updaters, two versions | `PeakWasReached`, `PeakNeverFalls`, `LossesAreStopped`; `ExposureBounded`; `NetsAreTheSum` |
| `research` (638 362) | filter: eight ticks, two feeds, two loops, a queue of one, four accepted, a buffer of three; pipeline: two features, two loops, three ticks, one fault; clock: every minute of ten days, two holidays; backtest: seven rows of five days, two folds; backfill: two dates of three parts, two runs, two errors; training: ticks of eight days, four choices of rows, three trials | `RowsAreChains`, `BucketsAgree`, `RunAgrees`; `OneTickFeatures`, `RowsAccounted`, `EntriesAlternate`; `WaitIsRight`; `TicksCountOnce`, `FillsCostMoney`; `LoadedOnce`; `JudgedOnUnseen` |
| `kill_pending`, `kill_flatten`, `upgrade`, `feed_failover` | as above; two slices for `kill_pending` | one property each, which the code violates |

Why the bounds are enough. Documents of different orders are independent keys,
and every coroutine touches one: one order shows every interleaving, and three
calls allow a cancel between two reports and a report between two cancels; the
theorems of section 5 cover any number. For the kill switch, two slices are
needed only for the violation: the safety properties also hold with two slices
and no report (1.5 million states, not kept as a run). Two events, two
loops and a list of two places give the bus a reordering, a loop that stop has orphaned
beside a new one, a handler with two places and a loop that dies alone or beside
another. The writer's two callers and the loop can hold a batch each, or one
of them a full batch while another row waits in a buffer; the last of two
attempts differs from the first, as the last of three does. The feed's state is finite but for the number of
attempts. For the strategy, two pairs exceed the limit of one, and three entries let
a pair be entered again after an exit while signals of the first time are in flight.

For the risk monitor, two tasks are two that overlap, two updates of a profit give an
equity that rises and falls again between two reads, the one failure is a raise or a key
that comes twice, and the second loop may be one
that a second start made, or a caller of `check_daily_drawdown`. Three signals let
two be booked while a third is on its way, for the same position and for another,
buying and selling; two of them fill the same position at once. Two updates of the greeks overlap in every order; two versions let one run
alone after them; more documents are independent keys (and the theorem covers them).
The buffer of three ticks has two trades for three buckets, so that a trade ends in the middle of a
bucket, fills several, and ends exactly at the end of one; the eight ticks have every quote sign, a
jump, a crossed quote and an unsound tick; four are accepted, so that one falls out of the buffer
or is lost between its rows, and two loops hold two at once. In the pipeline, three ticks are one without history and two that two
loops can handle at once. The clock is exhaustive over a week with a holiday in it
and the begin of the next with another. The history of the backtester has two rows of
one day, quotes with and without a spread, and days that two test windows share and such
as only one has. Two runs, two errors and a batch that
ends inside a date give the backfill each way to leave a date half loaded. The
trainer's rows are enough for the gap at its limit, above and at twenty rows, which
is ten times the label. The dispatch loops are interchangeable in the filter and in the
pipeline, and `LoopSymmetry` says so. With part
fixed, the components have 332 465 (monitor), 39 876 (exposure), 66 248 (greeks),
279 216 (filter), 236 368 (pipeline), 12 964 (clock), 950 (backtest), 108 810
(backfill) and 54 (training) states, and each fires all of its actions.

### Fairness

Weak fairness of the steps of each coroutine: asyncio runs every task whose await
can return, and the awaits return (sleeps end; the clients of Redis, ClickHouse
and the broker have timeouts). Nothing is assumed of users, strategies, reports
or the exchange. For the feed, of the sockets it makes not every one
is replaced before it has opened or closed (`OpeningEnds`); nothing makes an open socket close. The
handlers of the bus are taken to return or raise. `MonitorFairness` is weak fairness
of each task's next step (`RoundStep`): asyncio runs a task whose await is over, the
sleep of a second ends, and Redis answers or raises. Starts, stops, failures and the
user have none.

### Deadlock

`CHECK_DEADLOCK FALSE` where the system may really be done: every order settled,
every event delivered; a stopped monitor with all profits booked; the end of the
history. The writer, the feed and the strategy can always take a step.

## 4. What the code does not do

Four runs show documented behaviour that the code does not have:

* `kill_pending`: README.md:41 says the switch "cancels all pending orders". A
  signal past the check of the flag is submitted after the sweep (its later
  slices by as much as 22 seconds), and SCAN may miss an order being submitted.
* `kill_flatten`: README.md:41 says it "flattens active positions across all
  legs". The pre-trade check rejects the signals it emits, because of the flag.
* `upgrade`: README.md:50 says a passive order "upgrades to market execution".
  It is cancelled and nothing replaces it.
* `feed_failover`: README.md:15 promises "automated failover". A closed socket
  clears the flag that keeps the heartbeat alive, and only the heartbeat connects
  again.

Some properties carry an exception because of what the code does; the exception
is in their statement: `UnracedFillOnce` (two reports of COMPLETE that overlap
record the fill twice), `UntrackedWasRefused` (a cancel that the broker refused,
or whose deletion raised after it was applied, deletes the document of a live order), `CancelledIsDead` (the paper client lets a
filled order be cancelled), `PassiveOrdersSettle` (a report of PENDING or TRIGGER
PENDING hides a live order from its upgrade), `NoHandlerSkipped` and `QueueDrains` (a
CancelledError that a handler raises ends the loop), `ConnectedIsWatched` (a Shoonya
login whose websocket did not start), `NoSilentLoss` (a cancelled caller and the end of the
process lose the rows held), `ImplementsBroadcast` (no order after a second
start), `OpenPairsBounded` (the limit is passed by one pair for each further task
past the check), `BooksMatchBelief` (two handlers that overlap on a pair or a
position, a booking that fails and the key's expiry after a day; what was refused
stays believed, and is part of the sum), `HaltedOnlyFinishes` (a task that was in
`on_tick` opens or closes what it was at), `PeakNeverFalls` (a task whose peak another
replaced before it wrote), `PeakWasReached` (a sum over profits of different times, or of a key that came twice),
`ExposureBounded` (what was booked between the check and the fill; a fill dearer than
expected; an expired key; a fill that was lost or overwrote another), `NetsAreTheSum` (two
updates that overlapped, or one that failed or was given a key twice, until the next runs
alone), `RowsAreChains` (feeds with a validator each; two loops beside each other; a tick
lost between two rows), `BucketsAgree` (the last bucket, when it is rounded short),
`OneTickFeatures` (another loop, an expiry, a failure), `EntriesAlternate` (a crash
forgets the position), `WaitIsRight` (23 minutes, and mornings without trading),
`FillsCostMoney` (a signal for another symbol), `TicksCountOnce` (the day two test windows share), `LoadedOnce` (an end of the
process in the middle, a fallback that failed, a failed query, an insert tried again), `JudgedOnUnseen` (fewer rows than
ten times the label, 600 in the code; the day that training and test share).

Two consequences of the code that no property here contradicts: a halted strategy
does not close its pairs, near the close either, since `on_tick` returns first; and
within half an hour of the close a tick that forces the exit of a pair may enter it
again (spread_trader.py:54, 73).

Others were met while modelling, at the lines they come from:

* `portfolio:peak_capital` is never reset (real_time.py:61), although the limit is
  called a daily one. `tripped` is set again at each round as long as the drawdown lasts.
* The stop loss of the ML strategy is looked at only on ticks whose prediction is
  confident and whose spread is narrow, in hours, and not while the strategy is
  halted (ml_directional/strategy.py:33).
* A failing query of the average volume makes it 0, which skips that limit
  (pre_trade.py:44). A position's key expires after a day and leaves the exposure.
* VPIN counts the first trade, and one at an unchanged price, as sold (vpin.py:60).
* A limit order of an urgency of exactly 0.7 gets no upgrade (order_manager.py:31,
  smart_exec.py:48).
* A strategy whose id holds no key of the limits is never checked for its losses
  (real_time.py:82).
* The validator's day never ends: the next day's volume begins below the last
  (validator.py:57), and a price that jumped past the limit is refused for good.
* The equity of a fold after the first begins again at the starting capital, and a
  walk-forward over dates an engine has already run leaves an empty curve, because
  the time of the last snapshot is kept (engine.py:51). The fills of a day that two
  test windows share count twice (runner.py:26).
* A date with an insert that failed for good counts as loaded when another of its
  batches arrived; its rows are in a file nobody reads. The flush loop of the writer
  may still hold a batch when `main` returns (backfill.py:82).
* The trials of a walk-forward that pass on one day write the same file, and the
  first always passes (trainer.py:151, 164).
* The rate limiter releases two permits per order and stops limiting
  (zerodha.py:106).

## 5. What is proved

Every invariant and every action property of the passing runs, and the refinement of
`FifoBroadcast`, are theorems: they hold for any sets of orders, coroutines, handlers,
rows, callers, strategies, pairs, signals, documents and features, any batch size,
number of attempts, history and buffer. TLAPS checks every leaf. The argument is the
same everywhere: a run's property is seldom inductive as it stands, so that a stronger
one is stated, shown of the initial states and of each action by itself (one lemma per
action, one step per conjunct that the action can disturb), and the property
follows. Bounds that only keep TLC's state space small (`MaxEvents`, `MaxEntries`,
`MaxRuns`, ...) are any numbers in a proof.

### What is assumed

The assumptions on constants are named in the modules and evaluated by TLC. Most only give
their types. The others, and why the code satisfies them:

* finitely many rows, handlers, strategies, signals, keys and symbols, and finitely many ticks that
  a model can learn from (`WriterAssumption`, `SpreadAssumption`, `RiskAssumption`,
  `ExposureAssumption`, `BacktesterAssumption`, `TrainingAssumption`): they are lists
  of the configuration, documents of Redis or rows of a table. A coroutine of the
  order manager is never counted beforehand: that those *begun* are finitely many is
  part of the invariant.
* `PassiveAreSignals`, `SlicesOfSignals`, `CallsOfActors`, `ReportersApart`: a call
  of cancel belongs to one actor; the coroutines that bring reports are not those of
  the kill switch.
* the flush loop is not a caller, the batch size and the number of attempts are at
  least one (`WriterAssumption`, `BackfillAssumption`, `RetriesAssumption`).
* the two symbols of a pair differ, the limit is positive (`SpreadAssumption`); there
  is a greek, a feature, a bucket (`GreeksAssumption`, `PipelineAssumption`,
  `MicrostructureAssumption`).
* `Commission <= 10000`: the commission is no more than the value of the fill; the code's
  default is 3 basis points. The impact has no bound: one above 10 000 would make the price
  of a sale negative, and its commission a gain that must not outweigh the price.
* `Ahead <= MaxGap`: the label looks no further than the gap of the folds may be.
* `NeverClosedForAWeek`: without it the loop of `_next_trading_day` need not end, and the
  function that models it would have no value.

### Orders

**`OrderManagerProofs`**: `Typing`, `LiveOrdersAccounted` (`UntrackedWasRefused`)
and `CancelIsFinal` (`CancelledIsDead`). Neither safety invariant is inductive: a
`cancel_write` whose order still works would break the second, a submit about to
place an order without a document the first. `IInv` adds what excludes them:

* `NotYetPlaced`: nobody knows an order, and the exchange has none, before submit
  has got as far as its document and as `place_order`;
* `AckedIsPlaced`: a broker id, in Redis or in a copy a coroutine read, means that
  the order was placed;
* `CancelHolds`: who is about to write a document back holds one, and a cancel the
  broker accepted, at any await after it, means that the exchange is done with the
  order;
* `FillIsFilled`: a fill on its way to be recorded is of an order the broker filled;
* `Accounted`: the first invariant, also of an order that is about to be placed.

`FillsMatch` (`FillRowsMatchEvents`) and `FilledOnce` (`UnracedFillOnce`) rest on
`FillInv`. `RowsCounted` counts: the rows of an order are its events and the
coroutines that stand between the two, as many at least, and no more than with those that
died there. `Unraced` says of an order whose coroutines never overlapped what a
reader would say of sequential code: it has a document until one of them removes it, at
most one is under way and that after submit, and after its event nothing is left to
happen. `FillShape` is a step as these counts see it; each action has that shape.
`RemovedForGood` (`DeletedStaysDeleted`) follows from `IInv` action by action.

**`KillSwitchProofs`**: `SweepIsThorough` (`SweepReachesWorkingOrders`) and
`NothingAdmitted` (`NoOrderAdmittedWhileKilled`), for any signals, slices and
activations. A step of `KillSwitch` is a step of `OrderManager` or leaves its
variables alone, so that `IInv` holds here too and is not proved again. `Pursued` is
the invariant of the sweep: an order that worked at the activation, still works and
had no cancel refused is ahead of the scan's cursor or found by it, and then ahead
of the loop of cancels or in the cancel that the loop awaits. `KillersCancel` says what
the coroutines of the switch run; `Admitted`, that whoever is past the check of the
flag was past it when the switch was thrown.

### The bus, the writer, the feeds

**`EventBusProofs`**: `NobodySkipped` (`NoHandlerSkipped`) and `BusIsBroadcast`
(`ImplementsBroadcast`): every step of the bus is a step of `FifoBroadcast` or a
stutter under the mapping of the module. `Awaited` says which entries of the list that
was due an event were called, or are still to be called by the loop that delivers it, or
were cut off by a stop or a CancelledError; `Fresh`, that the entries called come before
those still to be called, so that each receipt of the broadcast is new, also for a
handler that is subscribed twice; `Taken`, that no two loops have one event. The order of
receipts is `Single`: until start is called under a loop that is alive there is one
loop, and its event is the last taken.

**`ClickHouseWriterProofs`**: `TypeCorrect`, `NothingLostSilently` (`NoSilentLoss`)
and `CopiesHaveCause` (`CopiesAreUnsure`). `CopiesAreUnsure` alone is not
inductive: if a row lay in two batches, or in a buffer and in a batch, two good
inserts would copy it. `IInv` says that a row in memory lies in one place
(`InOnePlace`), that a task without a batch holds nothing (`Phases`) and that a row
kept although still in memory was in an uncertain insert (`KeptOnce`). Every
action is one of two kinds: it accepts rows or moves them within the memory and
keeps nothing (`Grows`), or it takes rows out of memory, having kept or given up
each of them (`Shrinks`). `GrowsKeeps` and `ShrinksKeeps` show once for each kind
that the invariant survives; the actions' lemmas only show their kind. That the
buffer of ticks stays below a full batch (`NextTicks`) is proved beside it with the
library's facts about cardinality.

**`FeedConnectionProofs`**: `AlwaysWatched` (`ConnectedIsWatched`), for any number
of retries, but for the flag that a login set before its websocket failed. What it needs
besides the types is that who tries to connect has a retry left.

### Strategies and risk

**`SpreadTraderProofs`**: `OpenPairsLimit` (`OpenPairsBounded`), `BooksBalance`
(`BooksMatchBelief`) and `HaltHolds` (`HaltedOnlyFinishes`). The open pairs alone have no
inductive bound: the check and the entry are separate steps. The bound counts
the handlers that wait with the pairs: every step but two opens nothing and lets
nobody wait (`QuietBound`); past the check the pairs are below the limit, so that
there is room even if all handlers wait (`ConsiderBound`); an entry turns one that
waits into one that is open (`EnterBound`). For the books, `LoneBooking` says that the position
a handler has read is there when it writes it, and `LoneEntry` that a pair about to be
entered is not open and is entered by nobody else, both for the symbols that are not
excused. An entry then moves one signal to each leg, a fill moves a signal to the position,
and the sum stays what the pairs say, by the library's facts about cardinality.

**`RiskProofs`** begins with sums over finite sets, for the operator of the
community modules that the models use (`SumFunctionOnSet`): the sum of none, of one
more, of equal functions. The operator is defined by recursion over sets; that the
function exists and that any two agree is shown by a least counterexample, since
the induction theorems of the library cannot be instantiated.

* `PeakOnlyRises` (`PeakNeverFalls`). That a write raises the peak is known only at the
  read before it. `Rises` carries the comparison over the await: a task about to write
  has read less than it writes, and if nobody has written since, what it compared
  with is the peak there still is.
* `PeakIsReal` (`PeakWasReached`). `AddsOneState`: a task whose scan no booking has
  torn, and no key came twice to, has added up the profits as they are, of the keys it has passed, and at its
  end the equity of some moment.
* `ExposureIsBounded` (`ExposureBounded`). `ReadSoFar`: a check has read no less than
  the positions it has passed are worth, but for what was booked since it began;
  `Fitted`: what passed it fits under the limit, but for that; `BookedOnce`: no
  signal is charged twice. A key read twice adds what is not negative; a fill that writes
  over what it did not read is `astray` from there on.
* `NetsSettle` (`NetsAreTheSum`). `Settling` says what holds while an update runs, if
  the sums are not unsettled: it is alone, every key came once, what it has added up is the documents as
  they are (nobody else writes one), and the nets it has written are their sum.
  `InProgress` excludes an update with nothing to write, which would never end, and a
  write before the last read.
* `TicksAreCountedOnce` (`TicksCountOnce`). `RowsInv` says how far the windows have
  been: no row after the end of the last is seen, and one that is seen twice is of a day
  that two windows share and lies before the next, so that there is no third time.
* `FillsNeverPay` (`FillsCostMoney`): a fill changes one
  summand of the mark to market; what the cash loses is no less than what the holding
  gains, buying at or above the ask and selling at or below the bid.

### Ticks, features and research

**`ResearchProofs`** has the rest, one component after the other.

* `SignalsRestOnOneTick` (`OneTickFeatures`), `RowsAreAccounted` (`RowsAccounted`),
  `EntriesAlwaysAlternate` (`EntriesAlternate`). `Clean` says of a pass nobody
  disturbed that Redis holds what it has written and that it has read nothing else;
  every step of another loop either leaves Redis alone (`OnePass`) or disturbs it. That
  a row is never made twice needs `TicksDiffer`: two passes that still write are of
  different ticks, none of which was made before. With `InOnePlace`, the counts add
  up by the library's facts about cardinality.
* `BufferIsChained` (`RowsAreChains`). The events are taken together wherever they are,
  in the queue, in a loop's hand or in the buffer. `Remembered` relates them to the
  memory of their validator: none has more volume than it remembers, and the last has
  its price; `Chained` says of any two what the filter made sure of. The next event that
  is let through continues the chain, a loss only shortens it. That the places in the
  buffer agree with the numbers is `InLine`, as long as no two loops ran beside each
  other; what falls out of the buffer is its beginning (`LastRowsShift`).
* `RunIsCounted` (`RunAgrees`) and `BucketsAreFilled` (`BucketsAgree`), on every such
  buffer. The loops are recursive functions; that each has a value, and which, is shown by a
  least counterexample (`LoopRuns` does it once for the loops of vpin.py). `Balanced` and `Taken` are
  the invariant of both loops of vpin.py: what is in hand is no more out of balance than
  there is volume, and the buckets with it hold what the trades so far have brought. The loop
  stops with less than a bucket left, or with one that rounding leaves short: the end has
  `bucket_count` of them and nothing in hand, or one less and exactly one in hand.
  That a fraction keeps its bound when it is reduced is `ReducedWithin`.
* `BackfillLoadsOnce` (`LoadedOnce`). `DatesComplete` and `WrittenSoFar` say which rows of
  a date that counts as loaded are known, unless a crash or a failed fallback cut it, `OnePlace` and `NotYetWritten` that a row is in one place
  and not written before its turn; `HandedOver`, that a date is left only with
  an empty buffer.
* `JudgementIsFair` (`JudgedOnUnseen`). What was learnt is what the window in hand
  gives, and the saved model keeps the day that divides what it learnt from what it
  was tested on; the folds of `train` are compared by the size of their sets.
* `WaitsAreRight` (`WaitIsRight`), for every minute and any holidays under the
  assumption. The loop over the days ends at the first trading day, which is the only one
  of its kind (`OneFirst`, `LoopEnds`); the rest is arithmetic of days and minutes.

### Model-checked only

Liveness under fairness (`KillCompletes`, `PassiveOrdersSettle`, `LoopsEnd`,
`QueueDrains`, `RowsLeaveMemory`, `HeartbeatSettles`, `SilenceIsRepaired`,
`LossesAreStopped`), which is out of the prover's reach, and the four violations of
section 4, which are counterexamples.

## 6. The plan, and what is left out

Left to do, in this order:

1. *Theorems.* The runs' safety properties are all proved. Worth having beside them:
   abstract specifications of the order manager (an order's life as its owner sees it)
   and of the writer (a table that gets each row once or tells of it), with the
   refinements, whose invariants `IInv` and `FillInv` already have.
2. *Models.* The slices of an order as arithmetic; the queue of the alerter, which
   drops the message in hand when it is stopped; the counters of the fill tracker.

Known and outside the present modules: the names of fallback files collide when
two batches of a table fail in the same microsecond (clickhouse_writer.py:155);
Redis may evict keys under memory pressure, order documents included
(redis.conf:7); a feature pipeline started twice handles each tick twice
(pipeline.py:48), of which `EventBus` has the two subscriptions; OFI counts a quantity that shrinks at
an unchanged quote as no flow (ofi.py:42).

### Not modelled

* The selection of features and pairs, the Kalman filter, the regimes, the ratios of
  the metrics, the greeks of an option and most features are floating point over data
  frames: TLC would check a different arithmetic.
* The fill tracker and the latency profiler add to counters and lists that nothing
  reads to decide anything; nothing calls the alerter or the Kafka producer in the
  repository.
* The dashboard only reads. Configuration, logging and the infrastructure files have
  no behaviour of their own.
