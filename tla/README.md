# A TLA+ model of alpha-runtime-v2

This directory holds TLA+ specifications of the trading runtime, TLC
configurations that check them on small instances, and TLAPS proofs for every
value of the constants. Paths below are relative to `src/src/alpha`, those that
start with `scripts/` or `config/` to `src/`.

## 1. Inventory

The runtime is one asyncio process. Engines (`core/engine.py`) are wired by
`engines/bootstrap` and talk over an event bus; a few helper threads (the
Databento record loop, the executor that writes Parquet) run beside the loop.
Coroutines interleave only at `await`, which is where most of the difficulty is.
Beside it, scripts run the same engines over stored bars (backtest, backfill,
research replay), partly on the files the runtime is writing.

| Component | State | Operations | Hard behaviour | What makes it correct |
|---|---|---|---|---|
| Event bus (`core/event_bus.py`) | subscriptions, one bounded queue and drain task each | publish, subscribe, unsubscribe, flush, stop | backpressure across handlers that publish, eviction, `flush()` against cascades | order per publisher, bounded queues, nothing skipped, publish returns |
| Execution coordinator (`engines/execution`) | pending intents, idempotency keys, working orders, positions, readiness | submit, confirm, cancel; router callbacks | confirmation window, revalidation on a changed market, callbacks of concurrent brackets | one bracket per key, exposure within the limit; of the kill switch see section 4 |
| Paper router (`engines/execution/paper_router.py`) | orders, two coroutines per bracket | submit_bracket, cancel, flatten | cancel against a sleeping fill coroutine | stop follows fill, an early cancel holds, every bracket settles |
| Risk engine (`engines/risk/engine.py`) | daily state and position book per account | setup, fill, broker sync, rollover, halt, flatten | three tasks update the same figures around awaits | counters match the book, a breach halts, one flatten per halt |
| Order engine, IBKR adapter and connection (`engines/order`, `engines/ibkr`) | orders, permId map, one lazily opened session | start, submit, cancel, status callbacks, lost session | callers share one connection attempt; callbacks before the id is known; tasks in creation order | one session, updates go to their order, reports lost only for a known cause |
| Live feed (`engines/live`) | ingress queue, instrument map, quality per symbol | record loop, reconnect, dispatch, health check | thread and event loop, dropped and skipped records, silence | signals only on an unbroken, timely run of bars |
| Storage (`engines/storage`) | write queue, buffers, Parquet files | put, flush loop, flush(), stop | read-modify-write on a thread pool, shutdown order | no accepted row is lost, stop is durable |
| Bar flow (`engines/flow`) | open window per symbol, tick window, intrabar state | trade, 1 s bar, minute bar, seal | trades and bars through separate queues | a bundle holds its minute's trades, once |
| Bar pipeline (`engines/feature`, `market_state`, `thesis`, `setup`, `scoring`, `engines/flow/pipeline.py`) | session memory of five engines, setups with a lifecycle | one bundle or trade at a time; session roll; warm-up histories | long legal sequences that reach an illegal state; state kept beyond its session | what is remembered agrees with the bars; setups keep to their lifecycle and are graded once |
| Backtester (`scripts/backtest.py`) | open positions, used setups, trades | one output and one bar at a time | trades setups collected on the bar before | enters only what the engine ends; trades add up |
| Position monitor (`engines/position`, `api/connection_manager.py`) | watch list, one shadow position per symbol, clients | pipeline output, thesis, quote, quality, 1 s bar, broadcast | an exit is published before it is recorded; a client may stall a send | signals form cycles, a thesis change is seen, positions close |
| Bootstrap, catch-up and lifecycle (`engines/bootstrap`, `core/engine.py`) | engine states, warm-up history | initialize, start, warm-up, live start, reconciliation, stop | stop during start, crash in the warm-up, history against live | history before live and without a seam, clean exit |
| Backfill (`engines/backfill`) | the Parquet store | M1, M5, H1/D1, trades, quotes; `--force` | gap arithmetic, clearing before rewriting | no captured row lost, holes only where the arithmetic explains them |
| Research (`research`) | open episodes, writers' buffers, two tables | output, gap, exception, session end, flush, launch, replay, query | failed writes, crashes, restarts in a session, overflow | episodes well formed, every row once, retained rows bounded |
| Date replay (`api/date_replay.py`, `api/routes/runtime.py`) | job table, partitions, context files | request, worker, gateway download, replay on its own bus | three subscriptions in lockstep by `sleep(0)` only; workers share dates | the context of that day, no bar twice, every job ends |

The rest keeps no concurrent state of its own: context descriptions, volume
profiles, ingress statistics, notifications, configuration, the web dashboard and
the reporting scripts. `PROJECT.json` lists every part with its status and the
reason, and section 6 says what is left out inside the modelled parts.

Interaction: BAR → aggregator → BAR_BUNDLE → pipeline → MARKET_STATE, THESIS,
SETUP, PIPELINE_OUTPUT → POSITION_SIGNAL is acyclic. SETUP reaches the risk
engine, which calls the order engine directly; ORDER_UPDATE comes back over the
bus, and a flatten publishes ORDER_UPDATE from inside an ORDER_UPDATE handler,
the one cycle in the topology. The execution coordinator is driven by HTTP
calls and by the paper router's callbacks, not by the bus. The scripts and the
date replay meet the runtime only on disk.

## 2. Modules

### Orders

**PaperRouter** — the paper broker. `orderStatus` is the order table, `task` the
progress of the two coroutines of each bracket (`_simulate_entry_fill`,
`_activate_bracket_child`); each action is what one coroutine does between two
sleeps. `cancel` and `flatten` may come at any moment.

**ExecutionCoordinator** — the coordinator over PaperRouter (which it extends).
One action per API call, with the whole handler: readiness, idempotency check,
risk evaluation on a fresh snapshot, storing as pending or sending the bracket,
answer. Router callbacks update working orders and positions. Market state,
account state and the end of the confirmation window are inputs that change at
any time. `account_snapshot` models the wiring's lookup: with
`DefaultAccount \notin Accounts`, as shipped, it returns a snapshot that is
never halted.

**OrderOnce** — the abstract promise, one idempotency key at a time: a command is
unseen, held, sent or closed; a held one is sent or closed, and neither a sent nor
a closed one is ever sent again. ExecutionCoordinator implements it
(`ImplementsOrderOnce`), with the state of a key computed from the sent brackets,
pending intents and their statuses.

**RiskEngine**, **MCRiskEngine** — the SETUP worker, the ORDER_UPDATE worker and
the broker sync loop, split at each `await`. Prices are small integers; position
sizing is reduced to whether a setup's levels are viable. `late` counts entries
placed after a halt.

**OrderPath** — the order engine over the broker adapter and the shared
connection. A call waits for the lock, connects with attempts and pauses, and
does the rest up to its next `await` in one step; a cancellation awaits the connection
like the others, and may reopen it. `stop` may come while calls wait or connect. `ready` is the event loop's list
of tasks: status callbacks, and the updates they hand to the engine, in the order
of their creation. The permId comes late and is polled for. `lost` records the
orders whose last report did not reach the engine.

### Events and data

**EventBus**, **MCEventBus** — subscriptions, queues and publish calls.
`asyncio.Queue.put` is modelled with its waiters: a put that finds the queue full
waits, a get wakes one waiter, the woken put looks again. Handlers publish at
most one event per handled event, as every shipped handler chain does.
Cancellation takes effect at once. MCEventBus holds the live and replay wirings.

**LiveFeed** — record thread (put, link loss, reconnect), ingress consumer with
one operator per kind of record, monitor and health loop. Silence is counted in
units against two thresholds; lateness of a bar is an input. `handled` and `late`
record which minutes reached the monitor.

**StorageEngine**, **MCStorageEngine** — write queue, writer loop, buffers, flush
loop, `flush()` and shutdown. A partition write is two steps on a thread: read
the existing file, replace it. A write can fail and a file can be discarded as
corrupt; both are recorded in `lost`. `overlapped` records the partitions two
threads were writing at once. Which of two versions of one row survives an
upsert is not told apart; stop does not overlap start-up.

**TickFlow**, **FlowAggregator**, **MCFlowAggregator** — the thesis engine's flow
metrics as operators on its rolling window; the aggregator's window, its seal by
the minute's bar, the bundle, and the tick window, each fed by queues with a task
of its own.

### From bars to signals

**FeatureEngine**, **MarketStateEngine**, **ThesisEngine**, **SetupEngine**,
**ScoringEngine** — the five engines of the pipeline as functions from their
memory and a bar to their next memory, in the order they call each other:
`SetupEngine` has one operator per detector (`reason_*`) and one per lifecycle
(`advance_*`), `ScoringEngine` the rubric. Prices are integers, ratios hundredths,
levels scaled so that the code's factors (0.9995, 2.5 R) are exact.

**BarPipeline**, **MCBarPipeline** — composes the five: one action per event, the
trades of a minute, its bar, a higher-timeframe bar of the warm-up and the session roll.
The higher timeframes have a queue of their own, so one-minute bars may overtake them;
`handled` counts those the feature engine has. `tape`
remembers the session's bars, so that properties can recompute from scratch what
the engines keep incrementally.

**Backtest** — the backtester's SignalTracker around BarPipeline: it looks at each
bar first, with the setups of the output before.

**IntrabarFlow**, **PositionMonitor**, **MCPositionMonitor** — the one-second
engine as operators; the shadow monitor with its two suspension points (publishing
a signal, broadcasting to clients) and everything that can run in between, and the
clients of the connection manager with the timeout of a send. A broadcast sends to one
client after another and then discards those whose send failed, waiting for the socket
of each to close.

### Start, history and replays

**Catchup**, **Startup** — the gap arithmetic, resampling and range requests as
operators; launches over one disk: start and stop interleave, each subscriber has
its queue, the process may crash and be launched again, the clock goes on. A minute
bar goes through two queues, the aggregator's (`qAgg`, `Seal`) and that of the bundles
(`qPipe`, `Pipeline`); a bar of a higher timeframe through the feature engine's own
(`qFeat`, `HandleBar`). The tasks take their turns in any order, so `WarmBeforeLive`
orders the minutes among themselves and the higher timeframes among themselves, and
says nothing between the two. The queues have no bound here: one publisher follows
another (the catch-up has returned when the live feed starts), and what a full queue
does to a publisher is EventBus's subject.

**Backfill** — extends Startup: backfills run over the store a runtime left, with
every option and a failing server.

**LevelEpisodes**, **Research**, **MCResearch** — geometry, thresholds and the
episode manager as operators; the two research engines, their writers and retries,
the launch that clears today's partitions, the script that replays a session, and
the chart's query.

**DateReplay**, **MCDateReplay** — requests, workers and their downloads, and the
private bus on which the three engines' tasks run in the order they were woken.

### Proofs

**ExecutionCoordinator_proofs**, **PositionMonitor_proofs** — the theorems about the
module they are named after. **EventBus_proofs** — those about EventBus and about
DateReplay, which runs on a bus of its own. **Orders_proofs** — those about RiskEngine
and OrderPath. **DataPath_proofs** — those about LiveFeed, FlowAggregator and
StorageEngine. **Pipeline_proofs** — those about BarPipeline, with SetupEngine and
ScoringEngine, and about Backtest. **Backfill_proofs** — those about Backfill and the
Startup it extends.

**FiniteInduction** — lemmas they share: induction over the naturals and over the
subsets of a finite set, stated about sets so that no operator is passed, the least
element of a set of naturals, sums over finite sets, quotients, and what append, tail
and concatenation make of a sequence over any elements. Section 5.

## 3. Runs

A run's properties are bundles: each stands at the end of its module under "The
properties together", is the conjunction of the parts named here, and each part is
stated with a comment of its own where it is defined.

| Run | Module, configuration | Properties and their parts |
|---|---|---|
| `execution` | ExecutionCoordinator, `ExecutionCoordinator.cfg` | `OneOrderPerKey`; `HeldIntentIsConsistent`; `BrokerStateIsCounted` (StopFollowsFill, ExposureCountsEveryBracket); `OpeningStaysWithinLimit`; `ImplementsOrderOnce`; `ProtectionArrives` (liveness) |
| `event_bus` | MCEventBus, `EventBus_live.cfg` | `QueueProtocolHolds` (BusTypeOK with the bounds, NoLostWakeup); `DeliveryIsFaithful` (PublisherOrder, LatestValueKept, RoutesToAll); `PublishReturns` (liveness) |
| `risk_engine` | MCRiskEngine, `RiskEngine.cfg` | `BookAddsUp` (RiskTypeOK, OpenCountMatchesBook, HighWaterCovers); `HaltIsActedOnOnce` (AtMostOneLateEntry, OneFlattenPerHalt); `BreachHalts` (liveness) |
| `live_feed` | LiveFeed, `LiveFeed.cfg` | `SignalsNeedSoundBars` (FeedTypeOK, SignalsNeedUnbrokenBars, SignalsNeedTimelyBars); `FailedIsSticky`; `SilenceBlocksSignals` (liveness) |
| `storage` | MCStorageEngine, `StorageEngine.cfg` | `RowsAreKept` (StorageTypeOK, RowsAccounted); `StopIsDurable`; `RowsMoveOn` (StopCompletes, RowsGetWritten: liveness) |
| `pipeline` | MCBarPipeline, `Backtest.cfg` | `FeaturesMatchTape` (PipelineTypeOK, HigherFramesCurrent, ExtremesMatchTape, RunsMatchTape, ThesisCoversTests); `SetupsAreConsistent` (HistoryTracksActive, CooldownSpacing, EveryTriggerIsGraded); `TradesAddUp` (LevelsOrdered, TradesFollow, ExitsAgree); `LifecycleForward`; `EntersWithTheEngine` |
| `bar_flow` | MCFlowAggregator, `FlowAggregator.cfg` | `FlowIsOfItsMinute` (FlowTypeOK, FlowIsNotAhead, TradesCountedOnce); `BarsArriveWithTheirTrades` (TickWindowExact, BarsReachPipeline: liveness) |
| `shadow` | MCPositionMonitor, `PositionMonitor.cfg` | `ShadowTradesAreOrderly` (MonitorTypeOK, SignalsCycle, ReentryNeedsOutput, ThesisChangeIsSeen); `PricesAreMeasured` (ExcursionsCoverPrices, SweepIsNewLow); `NoSilentGap`; `PositionCloses` (liveness) |
| `order_path` | OrderPath, `OrderPath.cfg` | `EngineFollowsBroker` (OrderPathTypeOK, OneSession, UpdatesMatchOrder, LossHasCause); `CallsEnd` (liveness) |
| `startup` | Backfill, `Backfill.cfg` | `WarmupJoinsLive` (StartupTypeOK, WarmBeforeLive, GapOnlyWhenLate, OverlapIsOneBar, WarmupIsDurable, SecondPlanIsReconciled, ExitIsClean); `BackfillHealsTheStore` (StoreTypeOK, HolesExplained, M5Rebuilt); `CapturedRowsSurvive` (LiveTradesKept, PlainBackfillOnlyAdds); `RunsComeToAnEnd` (StartEnds, StopEnds, BackfillEnds: liveness) |
| `research` | MCResearch, `Research.cfg` | `EpisodesAreSound` (ResearchTypeOK, ValidMeansUnbroken, EpisodesChain, SeparationHeld, SummaryMatchesBars); `RowsAreAccounted` (EpisodesAccounted, ChartShowsBarsOnce, TodayIsOneRun, ObservedOnce, RetainedRowsBounded, StopKeepsWhatItSaw) |
| `date_replay` | MCDateReplay, `DateReplay.cfg` | `ReplaysAreOrderly` (SetupsMeetTheirBar, AloneMeansNoDoubles, OneWorkerPerDate); `ReplayStoresItsDay` (RegimeIsWhole, ContextIsOfItsDay); `JobsEnd` (liveness) |

What each shows is in `PROJECT.json`. Every property of a run has a mutant there:
a variant operator in a module, commented "Variant" or "Mutant", that changes the
code the way a plausible bug would, and that TLC refutes under the same
configuration.

Two more configurations pass and ask something the runs do not: `PaperRouter.cfg`
(two brackets against any cancel and flatten; the router's own recovery is all that
calls them, so the runs leave them out) and `EventBus_replay.cfg` (in the replay
wiring `flush()` returns only when the cascade has been processed). Three others
(`ExecutionCoordinator_flatten.cfg`, `ExecutionCoordinator_killswitch.cfg`,
`StorageEngine_flush.cfg`) end in a violation and reproduce a disagreement of
section 4.

### Bounds

- `execution`: two intents over two keys, one contract each and a limit of one:
  that is what two brackets competing for the limit, or two posts of one key, need.
  Two regimes on either side of VWAP give green and amber longs and shorts. The
  accounts are those of `config/accounts.toml`, which the evaluator's lookup of
  "default" does not find: nothing is claimed of the kill switch.
- `event_bus`: queues of two and two events per source (live), five events from
  one source (replay): a queue is full, evicts and has two waiters.
- `risk_engine`: one account, two symbols, two setups, two fills, one rollover,
  and an account id the engine does not know; the broker reports an open gain that
  activates profit protection or a realized loss at the floor, so both triggers
  fire. Two fills open, add to, reduce, close and overshoot a position.
- `live_feed`: one symbol (the symbols share only the queue and the map), queue of
  two, five minutes: a gap, and the recovery after it. The theorems of section 5
  lift these bounds.
- `storage`: two rows of a bar partition, one trade, one quote, queue of one, one
  caller of `flush()`, which may call it again and again.
- `pipeline`: sessions of scaled length (opening range of two minutes, cash session
  of 22), four bar shapes, two openings that lead by different ways to confirmed
  setups, then up to six free bars; two sessions, so that every per-session memory
  is rolled once; with and without trades; with and without a warm-up history, of which up
  to three one-minute bars may overtake a part. `MinGrade` "B" and two bars of holding let trades begin, time out and reach
  stop, target and session end. The day type locks after two equal candidates
  instead of three, the cooldown is three bars instead of ten.
- `bar_flow`: three minutes of two seconds, one lost bar, queues of two: a trade is
  before, in and after its bar's window, and a window is skipped.
- `shadow`: four seconds of a symbol with a long, a short and a setup below the
  grade, and a second symbol with outputs only; a queue of one and one client: long
  enough to enter, hold, exit by stop, target, thesis or timeout, and enter again.
- `order_path`: two orders, one cancellation, the start and a stop; two connection
  attempts, two sessions, two reports per order, one poll: callbacks before and after
  the mapping, a session lost between any two steps.
- `startup`: two launches with a crash, or three backfills, over five minutes in
  sessions of three; a warm-up of two minutes and one bar each of H1 (for D1 and H1) and
  M5, and a history that trails the clock by at most one minute: gaps at the edge, inside
  a session and across it, and minutes that overtake the higher timeframes.
- `research`: a session of four minutes and the first of the next, three levels (one
  shared value, one VWAP), two bars of separation, four of timeout, queue of one,
  buffers of three and five rows (four retained rows are two files, of which the second
  may fail), two events in total of launches, replays, exceptions and write failures
  beyond the first launch.
- `date_replay`: Friday to Monday, two requests that share their warm-up day, one
  restart, a gateway for one client that may refuse.

Deadlock is checked in `execution`, where some caller or the market can always act.
The other models may stop: their inputs are bounded, the feed is closed, the bus or
the engine is stopped, the session or the clock is at its end.

### Fairness

Only what the event loop guarantees is assumed: a coroutine that is ready runs
(weak fairness of drain tasks, handlers, router coroutines, writer and flush loop,
the consumer and the health loop, the callers of the broker connection, the steps of
start, stop, a backfill and a date replay), a sleep ends, an executor thread ends, a
send is answered or times out. The closing of a failed client's socket
(`connection_manager.py:286`) has no timeout in this code; that it ends is what the
WebSocket library promises, and `PositionCloses` rests on it. API calls, market changes, feed records, crashes and
failures are never forced. `RiskEngine` additionally assumes strong fairness of a
successful sync: the broker, lost again and again, is also reached again and again;
without it `BreachHalts` cannot hold, since the loss is only seen through the sync.

## 4. Disagreements noted while modelling

### Shown by a property

Each of these contradicts a property that stands in its module, and TLC refutes it:
three under a configuration of their own, the other five under the configuration of
their module's run, with that property in place of the run's own. The models contain
the behaviour as it is.

- `ExecutionCoordinator_flatten.cfg`, `FlattenReducesExposure`: `v1_risk.py:276`
  returns SELL for every FLATTEN, so flattening a short sells again; line 274 says
  "Positive = long → sell to flatten; negative = short → buy to flatten".
- `ExecutionCoordinator.cfg`, `EveryCallIsAnswered`: `coordinator.py:478`
  computes `now.replace(second=now.second + 10)`, a ValueError from second 50 on: an
  amber POST fails after the intent was stored, a confirm that is amber again after
  the bracket was sent. `api/routes/trade_intents.py:94` says "Returns 202 Accepted
  immediately. Check `status` in the response".
- `ExecutionCoordinator_killswitch.cfg`, `KillSwitchBlocksOrders`:
  `bootstrap/wiring.py:391` asks for the account "default", `config/accounts.toml:5`
  configures others, the error is swallowed and a snapshot that is never halted is
  used. `execution/invariants.py:23` says "Hard risk cannot be bypassed by UI
  override."; `trade_intents.py:141` "Revalidates market state, kill switch, and
  exposure before submitting."
- `LiveFeed.cfg`, `DropsFailTheFeed`: `live/engine.py:114` wires the skipped
  records handler only, so drops at the ingress queue leave the quality CLEAN.
  `monitor.py:167` says "Call when the bounded ingress queue is full and records are
  being dropped.", `databento.py:208` "Typically wired to
  IngestionMonitor.on_ingress_overload()."
- `StorageEngine_flush.cfg`, `FlushIsDurable`: `storage/engine.py:249` writes while
  the flush loop may be writing the same partition on another thread; the second
  `os.replace` (`parquet.py:132`) drops the rows of the first. Lines 247 and 248
  promise callers "a correct guarantee".
- `OrderPath.cfg`, `OrdersAreTracked`: `order/adapters/ibkr.py:90` registers
  the status handlers once, on the session of that moment; after a lost session, or a
  failed start, orders go out on a session without them. The docstring (line 48) says
  the adapter "tracks their lifecycle".
- `DateReplay.cfg` (MCDateReplay), `PartitionsHaveNoDoubles`: two workers find the same prior
  date missing and both append its bars; `api/date_replay.py:94` says "Safe to run
  concurrently for different (symbol, date) pairs."
- `Research.cfg` (MCResearch), `ObservationsAreOnce`: `research/parquet_writer.py:249`
  writes a partition in files of `max_buffer_rows`; when a later file fails, line 191
  keeps all its rows, and the retry writes those of the earlier files again, under the
  next sequence number. Lines 10 to 12 say "flush() writes ONE part file per (symbol,
  session_date) batch and is idempotent on an empty buffer" and "On write failure:
  buffer is retained, error is logged, retry on next flush()". `ObservedOnce`, which the
  run checks, claims the rows once except those (`torn`).

### Read in the code

Part of the models as they are, unless marked (not modelled).

Orders:

- `paper_router.py:151`: a cancel after acceptance is overwritten by FILLED, which
  `state_machines.py` does not allow. `paper_router.py:165`: fills carry the
  placeholder symbol of the runtime order id; `flatten()` matches "PAPER" only.
- `coordinator.py:438`: `_update_status` ignores an illegal transition, so an intent
  can stay CONFIRMED. `readiness.py:78`: `market_data_fresh` is never withdrawn.
- `order/adapters/ibkr.py:249`: status callbacks before the permId is known are
  dropped, `_map_perm_id` gives up after 20 polls, a repeated Filled counts twice;
  updates are rebuilt with side BUY and the account "default", which no configured
  account has, so the risk engine ignores them. `IBKRConnection.disconnect()` does
  not take the lock.
- `risk/engine.py:193`: `_handle_setup` does not look at `is_replay`, so triggered
  setups of the warm-up are planned; the reconciliation may plan one again.

Events, data and storage:

- `event_bus.py:99`: `publish()` iterates the live subscription list; an
  `unsubscribe()` of an earlier entry while it is suspended skips a subscriber. No
  shipped caller does so while publishers run.
- `storage/engine.py:127`: events that arrive after the join in `_on_stop` stay in a
  queue nobody reads. `storage/engine.py:319` skips replayed bars only, so the setups
  of a warm-up are stored (the comment at `bootstrap/engine.py:350` says they are
  filtered), and the upsert does not remove doubles within one batch, so a setup and
  its reconciliation may both stay (`docs/bootstrap-catchup.md:78` says "the upsert
  overwrites rather than duplicates").
- `databento.py:498`: `disconnect()` during the pause leaves a thread that still
  reconnects. `live/engine.py:238`: a completed bar discards the next minute's
  forming bar (not modelled).
- `flow/aggregator.py:255`: after a skipped minute a stale window is sealed as the
  next one's; trades outside the window are discarded silently (docstring, line 21:
  "discarded with a warning"); a repeated M1 emits a second bundle. `flow/intrabar.py:160`: the first
  1 s bar after a reset updates the state that was replaced.

From bars to signals:

- `feature/engine.py:451`: the warm-up emits all H1, D1 and M5 bars before the first
  M1 bar, so the averages of the warm-up look ahead; that they are also *processed* first
  nothing guarantees but the order in which the event loop wakes two tasks (line 378 and
  `flow/pipeline.py:106`). Live, no M5 or H1 bars are
  emitted and those averages stay where they are. The ribbon is carried over when
  ATR is zero. `models/snapshot.py:170`: a trade at an extreme makes `is_new_hod` and
  `is_new_lod` of its own bar false.
- `market_state/engine.py:170` keys the session by UTC date (comment at :91: session).
- `thesis/engine.py:373`: the failed-reclaim short's plan can be inverted; READY never
  expires and there is no session reset; the "10 s" and "30 s" windows hold the whole
  minute (824).
- `setup/engine.py:334` never calls the overnight-low and double-bottom detectors
  (docstring 1037); `models/snapshot.py:181` never sets `or_cross_down`, so the opening-range
  breakdown cannot form; a setup opened in a scan is advanced on the same bar (235
  against the comment at 628); a TREND_PULLBACK stop may be above its entry.
  `risk/engine.py:579` maps tracked long types to SELL.
- `scripts/backtest.py`: a setup that triggers on the bar after its confirmation is
  never in `scored_setups` and never traded, although the docstring says it "fires on
  the bar where the trigger is first crossed"; entries fill at the trigger even
  outside the bar, the stop of the entry bar is not checked, and a setup the engine
  invalidates on the bar is still entered.
- `position/engine.py:137`: `_recently_exited` is one set for all symbols; an entry
  accepts a price beyond stop or target; a broadcast awaits every client inside the
  handler of one-second bars.

Start, history, research:

- `core/engine.py:91`: `stop()` in STARTING overlaps `start()`, which then sets RUNNING.
  `bootstrap/engine.py:67`: a slow catch-up leaves a gap; a failed live connect and
  failed fetches are swallowed.
- `bootstrap/catchup.py:387`: `_missing_ranges` is inclusive, the fetch half-open, so
  single-bar gaps are never filled; H1 holes across a session boundary are skipped.
  `clear_bars` wipes a whole M5 day; a tick day with any file is skipped; `--force`
  deletes before a fetch that may fail.
- `historical/sources/ibkr.py:192`: the fallback contract of a single-date fetch is the
  one just refused; chunks overlap at a roll.
- `research/level_observer.py:207`: PipelineOutputEvent has no `is_replay`, so replayed
  bars are written (comment 202); only today's partitions are cleared at launch
  (`wiring.py:252`); `research/interaction/writer.py:8` says "atomically as a pair",
  which two tables cannot be; `_on_stop` flushes before the engines stop; an overflow
  drops a whole partition.
- `api/routes/runtime.py:285` says "already running/done return its current state";
  line 287 restarts DONE jobs. On a day without trading the context of the previous session is stored;
  the warm-up misses the bars of a Sunday evening; a partition counts as complete as
  soon as it exists; the context file is not written atomically.

## 5. Proofs

The theorems hold for every value of the constants that the module's named assumption
admits; what a theorem assumes beyond it is a hypothesis in its statement and is named
below. Before they were proved, the inductive invariants were checked with TLC on the
configurations of the runs.

### ExecutionCoordinator_proofs

For any sets of intents, keys, instruments and accounts:

- `TypeCorrect`: `Spec => []TypeOK`;
- `OneOrder`: `Spec => []OneOrderPerKey`;
- `HeldConsistent`: `Spec => []HeldIntentIsConsistent`;
- `Refinement`: `Spec => OrderOnce!Spec` under the mapping of the module;
- `BrokerCounted`: `Spec => []BrokerStateIsCounted`;
- `WithinLimit`: `Spec => OpeningStaysWithinLimit`;
- `DefaultAccountBlocks`: while an account "default" is halted or past its limit,
  nothing is sent.

`OneOrderPerKey` and `HeldIntentIsConsistent` are not inductive alone. `Invariance`
proves `IInv`, the conjunction of `TypeOK` with three parts: `Registered` (an intent
with a request is the one its key is registered to, and has a status), `Bracketed` (what
has been sent belongs to a registered intent, at most one bracket each, and nothing else
runs in the router) and `Held` (a pending intent awaits confirmation and has nothing at
the broker). A confirm can then send only what was not sent, and a post only under a key
nobody owns. The proof has one lemma per API call, one for the sending of a plan that
two of them share, one for the router's coroutines and one for the environment. The
refinement uses `IInv` before each step: a send maps to a move to "sent", a rejection,
cancel or expiry to a move to "closed", parking to a move to "held", everything else to
stuttering.

The exposure is proved over `IInv`. `Counted` says that the working orders are the
entries of exactly the brackets sent, finitely many, and that the positions of the
instruments stay zero (fills are booked under another symbol, section 4); summed over
the intents, with the sums of FiniteInduction, the exposure the evaluator reads is the
total of what was sent (`ExposureOK`). `StopStaged` says at which stage of the router's
coroutine a stop may rest. A send is preceded by its check in one step, and
`WithinLimit` is an action property that follows from it. Of the
kill switch only `DefaultAccountBlocks` is true: the wiring looks up "default" whatever
account trades, and with the accounts the repository configures the kill switch is not
consulted (section 4).

### DataPath_proofs: live ingestion

For any symbols, queue size, silence thresholds, number of clean bars needed and number
of minutes (assumption `FeedConstants`):

- `FeedTypeCorrect`: `Spec => []FeedTypeOK`;
- `SoundSignals`: `Spec => []SignalsNeedSoundBars`;
- `FailedStays`: `Spec => FailedIsSticky`.

That signals need unbroken and timely bars is not inductive: it speaks of CLEAN symbols
only, while the bars that make a symbol CLEAN are counted before. `IInv` adds `Orderly`
(a symbol's bars are handled, then queued, then to come, in the order of their minutes:
so the next bar is beyond the last and none is handled twice), `Counted` (the clean bars
counted so far, `Span`, were handled after the last late one) and `Joined` (they are the
last ones, without a hole). A clean bar extends the handled run by one and the count by
at most one (`CleanBarSound`); a late bar or a hole sets the count to zero
(`DegradeSound`); a cleared map, a full queue or a lost session only takes bars away,
which the next bar's gap check sees.

### DataPath_proofs: the flow of a bar

For any bound on the minutes, any choice of the seconds of a minute that have trades,
and any length of the volume history, large-trade size and queue bound (assumption
`FlowAssumption`):

- `FlowOfItsMinute`: `FlowSpec => []FlowIsOfItsMinute`.

`TradesCountedOnce` compares the bundles emitted with the trades the aggregator saw in
their minute's window, and neither says what the window is. `BarsInv` places the bars:
each completed minute from the window's on is either lost or queued, in the order of the
minutes. `WindowInv` then says that the window is the minute after the last bar sealed
and that its trades are of that minute. `EmittedInv` orders the bundles by their bars
and has the trades of each come after the bar of the one before, and `InTimeInv` follows
a trade seen in its window to that window or to a bundle. Two bundles therefore share no
trade, from which single counting follows (`CountedOnce`).

### DataPath_proofs: the storage engine

For any rows, partitions, queue size and callers of `flush()` (assumption
`StorageConstants`):

- `RowsKept`: `StorageSpec => []RowsAreKept`;
- `StopDurable`: `StorageSpec => []StopIsDurable`.

That no accepted row disappears follows only if one knows where each task stands:
`TasksInPlace` (which step each writer is at, and that only a writing task has a batch),
`HeldOnce` (the queue holds a row once, and no row of it is in a buffer or a batch),
`ThreadsCover` (what a thread has read of its partition's file covers that file until it
replaces it, unless another thread wrote the partition meanwhile) and `HistoryOK` (the
types of what was accepted and stored). `StopStages` says what each stage of `_on_stop`
has emptied and that it stays empty, from which `StopIsDurable` follows. The overlap of
two writers is not assumed away: the properties excuse the rows of a partition that two
threads were writing at once (`overlapped`), and `FlushIsDurable` shows that they may be
lost.

### Pipeline_proofs

For sessions of any length, any bar shapes, prices, openings and higher-timeframe
histories, any forming limits, cooldown and phases of the day (the assumptions of the
five engines' modules, `PipelineAssumption` and `BacktestAssumption`):

- `LifecycleGoesForward`: `Spec => LifecycleForward`;
- `SetupsConsistent`: `Spec => []SetupsAreConsistent`;
- `BacktestRunsThePipeline`: `BacktestSpec => Spec`, so that both hold in the backtester;
- `EntersAtTheTrigger`: `BacktestSpec => EntersWithTheEngine`;
- `TradesFollowOneAnother`: `MaxHoldBars # 0` implies `BacktestSpec => []TradesFollow`.

The detectors and the features they read are never expanded: what a detector reports and
what a snapshot holds may be anything, only that the scan never opens a type whose
detector waits for a state nothing sets (`OnlyDetected`). Every `_advance_<type>` is
`Advance` with levels and conditions of its own, so that one lemma about its two halves
(`FormingMoves`, `ConfirmedMoves`) settles them all (`AdvanceMoves`).

`EngineInv`, the invariant of the setup engine's memory, adds to the three properties:
that an active setup is FORMING without levels or grade, or CONFIRMED (`ActiveOpen`);
and that a setup opened on an earlier bar than it is counted on, and its type's last
close is later than the bar it opened on (`Dated`), without which the cooldown, which
runs from the close, would say nothing of the distance between two openings (`Spaced`).
One lemma says what each operator of a bar makes of it: `CountedInv` (a new session
expires what is open), `ScanInv`, `UpdateInv` and `ScoreInv`. That nothing triggers
ungraded needs more than the invariant, since the setup engine confirms and the scoring
engine grades: between two bars all that is confirmed has a grade (`AllGraded`), while
between the two stages it need not. `ProcessStep` puts the stages together, and `PInv`
ties the session and bar count of the setup engine to those of the feature engine and of
the tape.

The tracker's pending setups are the engine's, confirmed and graded (`OffersInv`),
because the list is replaced by every output. The trades need the open position as well
(`PositionInv`): it was entered after everything that was closed, on a setup that has
ended in the engine, and what has ended is never offered again (`EndedStays`). The
hypothesis excludes `max_hold_bars` zero, with which a trade is held for one bar all the
same (`backtest.py:299` compares after counting the bar).

`LevelsOrdered` and `ExitsAgree` hold of the run's shapes and are not proved: the entry
of an undercut reclaim is the VWAP of the confirming bar, its stop lies under the low of
the bar of the detection (`engine.py:1576`), `_risk_width_rejection` measures the
distance without its sign, and nothing keeps VWAP from falling below
that stop in between.

### Orders_proofs: the risk engine

For any accounts, symbols (finitely many), setups, prices, quantities, broker figures
and limits, and any number of fills and days (assumption `RiskConstants`):

- `FiguresAddUp`: `RiskSpec => []BookAddsUp`;
- `HaltsOnce`: `RiskSpec => []HaltIsActedOnOnce`.

`OneFlattenPerHalt` speaks of two flattens in progress and says nothing of the moment at
which the second begins. `FlattenOfHalt` does: a flatten in progress belongs to a halt
that still stands or to an earlier day than the account's, so a task that finds the
account not halted starts a flatten of a new day (`HaltOnce`), and a rollover lifts a
halt only together with its day (`RoundStep`). `WaitingIsTheOne` carries the late entry:
while a plan waits for the broker on a halted account, none has been placed since the
halt. The count of open positions needs one fact about the book (`EntryCount`), the
positions one about a fill (`FillType`: what is closed never exceeds the position, an
average of prices is a price). The formula of the kill switch itself is never expanded:
the theorems hold for any rule that calls for a halt.

### EventBus_proofs: the bus

For any subscriptions, event types, sources, queue sizes from two up and numbers of
events (assumption `BusConstants`):

- `QueueProtocol`: `Spec => []QueueProtocolHolds`;
- `Delivery`: `RemovedLast` implies `Spec => []DeliveryIsFaithful`.

`NoLostWakeup` is not inductive. Its strengthening `WakeupsOut` counts: while a put
sleeps at a queue, the entries in that queue and the putters woken for it are together
at least `QueueSize`, so that every free slot has a woken put coming for it. `Suspended`
says that a sleeping put is in the list of its queue once, and not woken, `Wired` that
the lists hold the subscriptions made, each once. Order needs `Numbered` (an event in a
suspended `publish()` is newer than what its publisher has put at the subscription it
waits for and at those behind it) and `InOrder` (each publisher's events are in order,
and the newest one put is the last). `Delivery` adds `Owing`: what a publisher still
owes is in its suspended `publish()`, at a subscription not yet reached (`Ahead`).

`RemovedLast` is a hypothesis about the wiring: whoever unsubscribes is the last of its
type to have subscribed. It holds of the shipped callers
(`research/interaction/engine.py:80`, `scripts/backtest.py:385`) and of the runs, and is
needed: otherwise a suspended `publish()` skips a subscriber (section 4). What removing
an entry leaves of a subscription list (`without`) is proved by induction on the list.

### EventBus_proofs: the date replay

For any dates, trading days and import files among them, any bars of each date, any
warm-up and any number of requests and restarts (assumption `DateReplayAssumption`):

- `ReplaysInOrder`: `ReplaySpec => []ReplaysAreOrderly`.

`SetupsMeetTheirBar` speaks of what is stored; what makes it true is where the tasks of
a replay stand. `InStep` lists the stages of a bar: none under way (`Quietly`),
published (`Given`, or `Behind` when the collector still has the bar before), measured
by the feature engine, judged by the market state engine or skipped by it when there is
no snapshot yet, scanned for setups, and the worker in `bus.flush` with only the
collector to run (`Waiting`). Each stage names the tasks that are ready, in their order,
and what the four queues hold. One lemma says that these are all the stages and one that
a turn leads from one to the next; the snapshot and the state a detector reads are
therefore of the bar it was given. `WorkersInv` ties a job to its one worker.
`DiskInv` is about the workers at work: as long as they never overlapped there is at
most one, and the date it is about to download has no file, so that appending doubles
nothing.

### Orders_proofs: the way of an order to the broker

For any finite set of orders, any cancellations and any number of attempts, polls, sessions and reports
(assumption `OrderPathAssumption`):

- `EngineIsBehind`: `Spec => []EngineFollowsBroker`.

`LossHasCause` speaks of an empty task list only. `Reported` is its inductive form: the
last report of an order is still to be handled by a task of the list, or is what the
engine will show once the updates created so far have run. With it go `Broker` (the
broker's orders, their trades and reports), `TradesFit` (what the broker last told the
trade), `PermsMapped` (the map holds permIds only under their own order), `TasksFit` and
`EngineFits` (each task and the engine's view are about a placed order, carry its
identifier and a status it has reached), `Submitted` (the counter of submitted orders is
the number of placed ones) and `Connection` (lock, attempts and session). The list is a
sequence of any length; that removing its head and appending to it preserve these facts
is proved once, as lemmas.

### PositionMonitor_proofs

For any symbols, setups, bars, clients, grades and timeouts, and minutes of any length
(assumption `MonitorAssumption`):

- `OrderlyTrades`: `Spec => []ShadowTradesAreOrderly`;
- `PricesMeasured`: `Spec => []PricesAreMeasured`;
- `NoGap`: `Spec => []NoSilentGap`.

The monitor's invariant `MonitorInv` adds to the properties `OpenSinceEntry` (the
symbol's last signal is an exit when it has no position, and is of the position's setup
when it has one, an exit only while that exit is being published; until then it has been
held for fewer bars than the timeout) and `ExitsAreBlocked` (a setup whose exit was
published on the current output is blocked, or the handler that published it is
suspended and will block it). `ClientInv` (`Manners`: who is being sent to and whose send
failed, neither of which is left over when a broadcast ends) needs nothing of the monitor. `FeedInv` follows the one-second bars:
`Joined` says that the queued bars succeed each other and the last one handled, with
each minute's bar after its last second, and `Measured` that the running state counts
the bars of the minute so far and its low is theirs. Its arithmetic is a few lemmas on
quotient and remainder.

### Backfill_proofs

For any lookback, session, bucket, day and tick window, any stamps the clients ask for,
any number of launches, crashes and backfills, and a warm-up of at least one minute
(assumptions `CatchupAssumption`, `StartupAssumption`, `BackfillAssumption`):

- `WarmupJoins`: `BSpec => []WarmupJoinsLive`;
- `BackfillHeals`: `BSpec => []BackfillHealsTheStore`;
- `CapturedRows`: `BSpec => CapturedRowsSurvive`.

The invariant `BackfillInv` is that of a runtime, the types of the store and that of the
running backfill (`JobInv`). A runtime's properties speak of the bars a process has fed
to the engines. `TapeInv` speaks of all it has emitted: the minutes fed, then those of
the bundles that wait, then those that wait at the aggregator are one sequence, `Tape`,
which `Seal` and `Pipeline` leave as it is (`TapeTurns`) and a publish prolongs
(`TapeGrows`); place by place it is what `TapeAt` computes from what was fetched and the
live feed's first minute, and the stage of `start()` fixes how long it is. `HigherInv` is
the same for the feature engine's queue and what it has taken from it. That
the live feed goes on where the fetched bars end, with a gap only when the fetch was
slow and an overlap of at most one bar, is then arithmetic on one function.
`DurableInv` follows the fetched bars from the writer's buffer to the disk. `ExitInv`
says which engines a `stop()` at a given place has already left behind, as long as it
did not overlap a start; what an exit leaves follows. `PlansInv` counts: the orders
placed for a setup and the triggers still queued for it are together at most what the
triggers of the tape and the reconciliation allow.

`JobInv` carries what a backfill that has fetched everything has found. Its core is
`FillLeavesHoles`: whatever H1 bars the store had, fetching the ranges the code computes
leaves a hole only right before a bar or across a session boundary (section 4). Of M5,
`JobInv` says that the window's bars are either still to be written or all in the store.

### What stays with TLC

Liveness: fairness and ENABLED are beyond the prover. Research has no proofs. Of the
pipeline, `FeaturesMatchTape` and the two parts of `TradesAddUp` above; of the flow run,
`TickWindowExact`; of the date replay, `ReplayStoresItsDay`, which depends on what
sorting and folding a partition of any length yield (`SortSeq`, `FoldLeft`). The feature
engine, the thesis, the episode manager and the tick window compute with folds over
sequences of arbitrary length; their properties are inductions over that data, and the
induction theorems of the library cannot be instantiated. Where an induction was needed
(`without`, the sums of exposure) it was done on sets, with the lemmas of
FiniteInduction; for the folds, each a function of a whole history of bars, that is not
attempted.

## 6. Not modelled

- Arithmetic without control: daily averages, the acceleration of slopes and
  multi-timeframe persistence, value areas and volume profiles, position sizing,
  time-weighted quotes, the backtester's statistics. Where a decision depends on such a
  figure it is an input or a scaled integer.
- Parts nothing depends on: texts, logging, context descriptions for the dashboard,
  ingress statistics, notifications, forming bars shown to clients, the web dashboard
  and the reporting scripts.
- Setups that cannot occur: the opening-range breakdown, the overnight-low sweep and
  the double bottom (see section 4); their detectors are represented by their never
  firing.
- The IBKR market-data adapter, which is not the shipped primary source and feeds the
  handlers modelled in LiveFeed.
- PostgreSQL (a stub), Parquet schemas and range reads, record conversion and paging of
  the historical sources, contract qualification.
- Holidays, daylight saving and time zones: sessions, phases and the evening roll of the
  trading date are on scaled minutes.

## 7. Where to go on

1. More theorems: `RowsAreAccounted` of research, and `ExtremesMatchTape` of the pipeline,
   the one part of `FeaturesMatchTape` that needs no fold.
2. RiskEngine composed with OrderPath, to follow a flatten's close orders through lost
   and duplicate reports.
3. StorageEngine under Startup, in place of its abstract store, to meet shutdown with
   the catch-up's last writes.
