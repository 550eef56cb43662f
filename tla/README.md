# A TLA+ verification of mt5-automation

`mt5-automation` is a Python program that trades on MetaTrader 5 by itself. A worker process polls
the terminal for new bars, drives each bar through a pipeline of engines that may end in a broker
order, mirrors the broker's positions into PostgreSQL, and keeps heartbeats and audit rows. A second
process serves a REST API, through which an operator can stop trading with a kill switch. The older
`ai_trading_automation` package is a program of its own: an API that runs a dataset through a similar
pipeline and trades it on paper.

This directory holds TLA+ modules translated from that code, TLC configurations that check them on
small instances, and proofs, checked by TLAPS, of what should hold for every instance. All source
paths below are relative to `src/src/`.

## 1. Inventory

| Part | State it keeps | Operations | What makes it correct |
|---|---|---|---|
| Worker and listener (`bot_worker.py`, `engines/mt5_listener_engine.py`, `orchestrators/trading_orchestrator.py`, `services/engine_audit_service.py`) | the last candle seen and the cycle's `TradingContext`, both in memory; the trading session, shared by all cycles | start, poll, run a cycle step by step, stop | each bar is handed out once per process; a cycle that fails leaves nothing half done that a later cycle builds on |
| `KillSwitchMonitor`, `SafetyRepository`, kill-switch routes | `kill_switch_states` rows | check, activate on a violated limit, activate and deactivate by API | while active no order goes out; a limit is not overrun |
| Data collection and ingestion (`DataCollectorEngine`, `MarketDataIngestionEngine`, `CandleService`) | `candles`, ticks, account snapshots | collect, detect duplicates, store | the duplicate test and the commit order let a candle be traded at most once |
| `DataQualityGuard` | quality issues | accept or reject a candle | a duplicate goes no further |
| Signal and risk filters (`market_event_filter.py` … `broker_health_check.py`) and `strategies/` | one result each in the context, rows in their own tables; `strategies`, `strategy_configs` | regime, strategy, signal, size, stress, broker check: each may reject | what reaches the gate risks no more than one trade may, has real stops and a lot the broker takes, and fits its regime |
| `ExecutionGate`, `ApprovalEngine` | `execution_decisions`, `approval_requests` | decide, request approval | the decision follows the settings |
| `ExecutionEngine`, `MT5OrderExecutor` | `execution_orders`; orders at the broker | refuse, submit, send, record, handle errors | every order at the broker is explained by rows; none is sent twice |
| Position sync and lifecycle (`PositionOrchestrator`, `PositionSyncService`, `TradeLifecycleService`) | `positions`, snapshots, close events | mirror, close what the broker no longer reports | the table follows the broker |
| Runtime row, heartbeat, recovery (`BotRuntimeService`, `HeartbeatService`, `RuntimeStateService`, `RuntimeRecoveryService`) | `bot_instances`, `bot_runtime_states`, `engine_runs` | register, mark, beat, merge details, recover | three writers do not undo each other |
| Audit and journal (`EngineAuditService`, `RejectionJournalService`, `TradeJournalEngine`) | `engine_runs`, `trade_journals` | a row when a step begins and ends, an entry for each rejection, failure and order | the tables tell how each cycle and each order ended |
| Performance and feedback (`PerformanceOrchestrator`, `PerformanceAnalyzer`, `StrategyFeedbackLoop`) | `performance_daily`, `performance_by_strategy`, `strategy_feedback_events`; a session of its own | every 300 s: read the day's closed trades, aggregate, judge | the numbers are those of the trades, and advice rests on them |
| REST API | none of its own | reads; kill switch | answers say what was done |
| Paper pipeline (`ai_trading_automation/`) | paper orders (memory or database), journal (file or database), report file, the last run in memory | run a dataset through 14 stages for each request | an order obeys the limits of all stages; order, journal, report and status say the same |

Components talk by plain calls on the listener thread (bar callback, then tick callback), through
the database (API ↔ worker, heartbeat ↔ worker, performance ↔ worker), and by calls to the terminal.
There is no lock between them and no transaction wider than one step.

**What is hard.** The API, the clock, the market and the operator act between any two steps of a
cycle. The kill switch, the account and the limits are read at one point and relied on at a later
one. The process may die anywhere, `order_send` may lose its answer, and a database error leaves the
one session of the worker unusable until it restarts. `PROJECT.json` lists these hazards line by
line, with the properties that cover them or the reason none does.

## 2. Modules

| Module | Content | Used by |
|---|---|---|
| `CandleOrders` | abstract promise of the worker | `TradingCycle` (refinement) |
| `TradingCycle` | a bar from the listener to the broker's answer | `MCTradingCycle`, `Exposure` |
| `PositionSync` | positions table against the broker | `Exposure`, `AuditTrail`, `PositionSync_proofs` (itself used by the other two) |
| `Exposure` | `TradingCycle` composed with `PositionSync` | `MCExposure`, `TradingCycle_proofs` |
| `AuditTrail` | rows and journal entries of a trading cycle, in turn with `PositionSync` | `AuditTrail_proofs` |
| `SignalPath` | the ten steps between data and gate | `MCSignalPath`, `SignalPath_proofs` |
| `LiquiditySweep` | the strategy `LiquiditySweepReversal`, test by test | `MCLiquiditySweep`, `LiquiditySweep_proofs` |
| `WorkerRuntime` | start, heartbeat, markers, engine runs, shutdown | `MCWorkerRuntime`, `WorkerRuntime_proofs` |
| `TradeFeedback` | the performance thread: daily and strategy rows, feedback events | `MCTradeFeedback`, `TradeFeedback_proofs` |
| `PaperDecision` | the paper pipeline's pure stages: dataset and request to decision and fill | `PaperPipeline` |
| `PaperPipeline` | concurrent requests, stores, report and status of the paper pipeline | `MCPaperPipeline`, `PaperPipeline_proofs` |

### CandleOrders — the promise
An abstract machine with three variables: the newest candle *claimed*, whether that claim is *live*,
and the candles *ordered*. Claims grow; a live claim places at most one order, for its own candle,
or is dropped and never taken up again. This is what a trader relies on when the program restarts.

### TradingCycle — the worker from a bar to an order
`pc` is where the listener thread stands; its values are the pipeline's step names. One action is
what a step does between two points where another actor may interfere, which here are its database
reads, its commits and its calls to the terminal.

| Module | Code |
|---|---|
| `Start`, `Crash` | `main` up to `listener.start()`; any death of the process, and its return, which takes the daemon thread with it |
| `PollNewCandle` | `_poll_once`: the bar is marked as seen *before* the callback runs the cycle |
| `StepRaises`, `SessionPoisoned`, `At` | `run_cycle` swallows what a step raises; nobody rolls back, so every later step starts with an error at `create_engine_run` |
| `CheckKillSwitch`, `ViolatedLimit`, `LimitsRespected` | the two reads of `KillSwitchMonitor.run`, the insertion of a new active row |
| `CollectData` | fresh rates, which may be newer than the event's bar; the account that gate and execution judge |
| `IngestCandle`, `IngestRaises`, `IngestNothing` | duplicate test, then `save_candles` and its commit, then more writes |
| `GuardDataQuality`, `RunFilters` | rejections; only the two that matter to the properties are forced: a duplicate, and a cycle without candles |
| `RunExecutionGate`, `RunApprovalEngine` | decision and row; pending approval |
| `RefuseExecution`, `BeginExecution` | the returns of `ExecutionEngine.run` before its `try`, in the code's order |
| `SubmitOrder`, `OrderCheckFailed`, `SendRefused`, `SendOrder`, `RecordResult`, `ExecutionRaises`, `HandleExecutionError` | the `try` block split at each commit and terminal call, and its `except` branch |
| `ActivateKillSwitch`, `DeactivateKillSwitch` | the API routes, on another session |
| `NewBar`, `Midnight`, `SwitchAccount` | market, clock and operator (external) |

Each pipeline step commits its own work, and the session is created with `expire_on_commit=False`
and used by one thread, so a read sees the last commit of any process; this is why reads are atomic
in the model and a step's uncommitted writes are invisible.

`leaked` is a history variable: it counts the orders sent since the kill switch last became active.
No guard reads it.

What the module assumes of the world: the open time of the newest bar never goes back; one worker
runs at a time (the code takes no lock that would enforce it). What it leaves out: prices and lots;
signal, safety-event, journal and audit rows, which nothing here reads; the ten checks between
`DataQualityGuard` and `ExecutionGate`, which become one step that may reject; the limits on open
positions and losses, which may be violated at any time. "Demo account" is what `_is_demo_account`
says of the account's name, server or trade mode. The ten checks are in `SignalPath`, the limit on
open positions is in `Exposure`.

### PositionSync — the table and the broker
A cycle, started by the tick callback, asks the terminal for the open positions *twice*: once to
write rows (`UpsertRows`), and again to close the rows of positions not reported (`ReadForLifecycle`,
`CloseMissing`). `MT5PositionClient` answers a failed request with an empty list, which the model
keeps apart from an empty account in the history variable `lost`. Startup recovery writes rows but
closes none. Positions open and close at the broker between any two of these steps.

| Module | Code |
|---|---|
| `ReadPositions` | `positions_get`, `None` included |
| `StartRecovery`, `BeginCycle` | the first request, by `run_startup_recovery` or `on_tick` |
| `UpsertRows` | `sync_open_positions`; also re-opens a row closed by mistake |
| `ReadForLifecycle`, `CloseMissing` | `detect_order_position_lifecycle`; closes and journals in one commit |
| `CycleRaises`, `SessionPoisoned`, `Crash` | a database error ends the cycle and may leave the shared session unusable; the process dies |
| `OpenPosition`, `ClosePosition` | the broker (external) |

`unseen` is history: the positions opened since the last stored answer that could have named them,
and all open ones after a failed second request. Snapshots and profits are left out; the former
append rows nothing reads, the latter are never passed on by the code.

### Exposure — limits read from a table somebody else keeps
`Exposure` EXTENDS `TradingCycle` and takes `PositionSync` as an INSTANCE; the two share `session`.
They run on one thread: a bar's cycle ends before a position cycle begins and the other way round
(`PollBar`, `PositionStep`). `KillSwitchMonitor` (`RoomToOpen`) and `SignalValidator`
(`RoomInSymbol`) count OPEN rows; an order that the broker fills opens a position, whatever answer
reaches the worker (`OrderSent`). Positions of a hedging account are meant: a filled order opens a
new one.

### AuditTrail — what a cycle tells of itself
`AuditTrail` EXTENDS `PositionSync` and adds the trading cycle as the writer of `engine_runs` and
`trade_journals`. Both run on the listener thread, one after the other, on the same session: a
database error of either ends what the other can do. The steps up to `ApprovalEngine` are one step,
`Checks`; what they decide is in `TradingCycle` and `SignalPath`.

| Module | Code |
|---|---|
| `BeginTradingCycle`, `OpenStep` | `run_and_audit` up to the commit of the RUNNING row |
| `StepEnds`, `ExecuteOrder`, `JournalOrder` | what a step does: pass, reject, raise; an order sent, a dry run, a refusal; `TradeJournalEngine` |
| `CloseStep`, `CloseRejected`, `CloseFailed` | the three ends of `run_and_audit`; the last commits whatever the step had flushed |
| `JournalRejection`, `JournalFatal` | `RejectionJournalService`, after the audit row |
| `Commits`, `DatabaseError` | a commit that raises with its data written or not, an error before it; each leaves the session unusable and the cycle over |
| `PositionStep`, `LostBar`, `ProcessEnds`, `BrokerStep` | steps of `PositionSync` between cycles; bars on an unusable session; death; the broker |

With a DRY_RUN decision, which DRY_RUN's default gives, `ExecutionEngine` passes too: it writes a row
and an `order_result` of that status and sends nothing, and `TradeJournalEngine` journals an
ORDER_EXECUTION all the same. `orderResult` is what the context holds of it, and the entry's
`order_status` is what `OrdersTold` compares with the orders that were sent (`sent`): an entry alone
says nothing of whether there was one.

An error swallowed by `RejectionJournalService` is not harmless, since the session stays unusable:
that is what `OnlyLastUntold` turns to account. Texts and payloads are left out, and the entries
`TradeJournalEngine` never gets to write: SIGNAL_REJECTION, since a rejected cycle does not reach it,
and CLOSED_TRADE, since a cycle's context holds none.

### SignalPath — from candles to an order worth sending
One cycle from `MarketEventFilter` to the gate, with numbers, because the properties are about them.
Prices, lots and money are integers in the units the module's head names, chosen so that every
product of the code is exact; floating-point rounding is left out. A market is a close, an ATR, the
distance of the two averages, a spread, and what the strategies' conditions on candles come to
(`filters`, `hint`), which are inputs. A strategy row carries the names its code contains (`parts`),
since selector, registry and validator look for substrings, each in its own way.

| Module | Code |
|---|---|
| `RegimeOf`, `DetectRegime` | `MarketRegimeEngine.run`, first matching case |
| `PreferredTokens`, `Candidates`, `Precedes`, `SelectStrategy` | `StrategySelector`: ranking by token, then by code; the config may decline high volatility |
| `Resolves`, `SidesOf`, `Stops`, `RunStrategy` | `StrategyEngine._resolve_strategy` and the strategies |
| `BuildContract`, `Compatible`, `ValidateSignal` | contract, compatibility, candle spread |
| `DefaultStops`, `RawLot`, `Clamped`, `LotFor`, `AssessRisk` | `RiskEngine.run` |
| `SpreadStress`, `Slippage`, `StressedLoss`, `Simulate` | `PreTradeSimulation.run` |
| `CheckBroker` | `BrokerHealthCheck.run`; the other six conditions are a choice |

`LiquiditySweepReversal` never signals in the model (`SweepSides`): it needs support and resistance
levels or a current price among the regime's features, and `MarketRegimeEngine` stores neither. The
calendar, the edge of past trades and the limit on open positions may refuse any signal here. What a
raised error does to a cycle is in `TradingCycle`. The multiples of the ATR in a strategy's row and
the broker's `volume_step` are positive in the model and so in what is proved of it (`RowType`,
`SymbolType`). The seeds give no other multiples and the code checks none; without a positive step
`RiskEngine` does not round the lot, which is left out.

### LiquiditySweep — the one strategy that `SignalPath` leaves silent
`generate_signal` as its unit tests call it: a candle, features and a configuration go in, and
`stage` is the next of its tests. Prices and the ATR are integers; multiples of the ATR and midpoints
are counted in fortieths, so that every comparison of the code is exact, and confidences in
ten-thousandths.

| Module | Code |
|---|---|
| `Validate` | `_validate_inputs`, `_validate_market_regime` |
| `Supports`, `Resistances`, `Generated` | the levels given, or made up around the current price |
| `DetectSweep`, `Sweeps`, `SweepConfidence` | the nearest level on either side, the support first; the confidence of the sweep |
| `ConfirmReversal`, `Turns` | body and direction of the candle that turns back |
| `CalculateEntry`, `Planned`, `Encloses` | entry by mode, stop beyond the swept end, target |
| `Decide` | ratio, total confidence, safety checks |

The model is of the class, not of the worker: `MarketRegimeEngine` stores neither levels nor a
current price, and its volatility is ATR over close, far below the 0.5 that the seeded configuration
demands. `SweepSides` of `SignalPath` is therefore empty, and stays so.

### TradeFeedback — figures made of trades
A daemon thread with a session nobody rolls back (`Commits`, `DatabaseError`: after the first error it
waits for a restart). The rows are read in one SELECT and written in a later commit, while other
sessions close trades and days end.

| Module | Code |
|---|---|
| `ReadTrades`, `ClosedToday` | `PerformanceAnalyzer`'s query, whose inner joins drop a position without an order |
| `WriteRows`, `DailyRow`, `StrategyRow`, `MaxDrawdown` | totals, drawdown over the rows in the order the database gives them, the upsert of each account's day, the rows appended for each strategy |
| `Judge`, `Advice` | `StrategyFeedbackLoop`, over all rows ever appended |
| `CloseLinked`, `CloseSynced` | positions closed by others: with an order and a profit only the acceptance script writes them, the worker's own have neither |
| `ProcessEnds`, `Midnight` | the end of the process with its thread; the clock |

`counted` is history: the run, and the trades, last committed for each day. Averages, R multiples and
texts are left out.

### WorkerRuntime — what the worker writes about itself
Three threads and three tables. `main` is the call the main thread makes next; `loaded` is the row
as a thread has loaded it, and `Write` the columns its flush then changes: those whose value differs
from what it loaded, as the ORM does. The heartbeat has a session of its own and replaces the whole
`details`; the listener merges a marker into the `details` it loaded; the marks of `main` replace
them. The pipeline is cut down to one step and `RuntimeStateUpdater`, each with its engine run
(`OpenRun`, `EndRun`). `stop` of either thread waits three seconds and goes on without it
(`JoinListener`, `JoinHeart`; `late`). `Recover` marks unended runs older than 15 minutes, which is
any age here (`Age`).

Left out: a second Ctrl-C during the shutdown; `last_signal_id`, `last_order_id` and the recovery
keys, which are written the way the two markers modelled are; the session closed under a thread that
outlived its join. Every process registers an instance of its own, so rows of an earlier one are
never written again; the status marker is always SUCCESS, since a rejected cycle never gets to
`RuntimeStateUpdater`, so the model stores the cycle it is of.

### PaperDecision and PaperPipeline — the program that trades on paper
The stages from `market_data` to `execution_gate` share no state, so `PaperDecision` makes them
operators of one *case*: a dataset as the stages see it (which thresholds it crosses, the last
candle, the average range) and the figures of the request. Only the directions, prices and amounts
that some check compares are kept; the units make the code's divisions exact (`Exact`). What
follows shares stores, and is a state machine: `run[r].at` is the stage whose shared state request
`r` touches next, and `FastAPI` runs requests in threads, so any two interleave.

| Module | Code |
|---|---|
| `Regime`, `StrategyKey`, `Direction`, `Confidence` | `MarketRegimeService`, `StrategySelectorService`, the registered strategies |
| `Buffer`, `StopLoss`, `TakeProfit`, `Priced` | `_enrich_signal_price_fields`, `SignalContract` |
| `Errors`, `Score`, `Valid`, `RiskRefused`, `MaxLoss`, `SimulationPassed`, `Decision` | validator, risk engine with its fallback plan, simulation, gate |
| `Loaded`, `ValidOHLCV`, `Contracted`, `FailsAt` | loader, OHLCV validation, contract; the stage whose exception or early return ends the run |
| `StopHit`, `MonitoredStatus`, `ExitPrice`, `RealizedPnl` | `PositionMonitorService.update` |
| `Boot`, `ProcessEnds` | `ApiShellService.__post_init__` with its fallback to memory and file; the end of the process |
| `Receive`, `CreateOrder`, `MonitorPosition`, `WriteEntry`, `ReadEntries`, `PersistReport` | `PipelineOrchestratorService.run`, split where it reads or writes what runs share |
| `Entry` | what the journal tells; with orders in the database the order keeps its old state there |
| `StageFails` | the `except` branch, after a store has written or not |
| `RecordRunAt`, `RecordDecision`, `RecordResult` | the three assignments at the end of `run_pipeline` |

`overlapped` is history: whether a run has been together with another since one last started alone.
`failedAt = "persist_report"` is the code's stage `performance_analyzer`, split because it first
reads the journal and then writes a file. Left out: averages and R multiples of the report, a journal
line torn by a crash (which would make later reads fail), and the window in which two database
entries get their ids in one order and are committed in the other. A status request may read the
`last_*` fields half set; the model reaches such states, and no property excludes them.

## 3. Runs

| Run | Module | Instance | Shows |
|---|---|---|---|
| `tradingcycle` | `MCTradingCycle` | 2 bars, 2 days, 2 switch rows, 1 trade a day, 5 kinds of settings | one order per candle; one leak per activation; orders explained by rows; the day's limit; settings obeyed; refinement of `CandleOrders` |
| `steady` | `MCTradingCycle` | 3 bars, 2 days, 1 trade a day, no failures, fairness | `NewBarStored`, `SubmittedResolved` |
| `exposure` | `MCExposure` | 2 bars, 2 positions (1 of the symbol), limits 2 and 1 | `OrdersLeaveRoom`; each cycle keeps to its module (`CyclesKept`) |
| `audittrail` | `AuditTrail` | 2 cycles, 1 position, 1 failed request, fairness (736,992 states, about 150 s) | `OnlyLastUntold`, `OrdersTold`, `CyclesTold`; `Mirrored`, `JournalExplained` and, once failures stop, `TableSettles` |
| `signalpath` | `MCSignalPath` | 288 market situations, 3 accounts, 4 symbols, 4 strategy tables | `RiskWithinBudget`, `StopsGuard`, `LotTradable`, `StrategyFitsRegime` |
| `liquiditysweep` | `MCLiquiditySweep` | candles on either side of each threshold, 6 configurations (1,165,344 states) | `SilentAsSeeded`, `SignalsSound` |
| `tradefeedback` | `MCTradeFeedback` | 2 accounts, 2 strategies, 2 trades, 2 days (217,653 states) | `DailyRowsTrue`, `AdviceExplained`, `TradesCounted` |
| `paperpipeline` | `MCPaperPipeline` | 2 requests, 30 cases, 2 settings, 2 ledgers (1,040,160 states, about 90 s) | `OrdersSound`, `JournalTellsOrders`, `ReportCountsItsRun`, `DrawdownIsWorstFall`, `LossesAssumed`, `StatusOfOneRun` |
| `workerruntime` | `MCWorkerRuntime` | 2 processes, 2 cycles, 2 heartbeats | rows at the end, markers, engine runs, `ShutdownEnds` |
| `killswitchrace` | `MCTradingCycle` | 1 bar | finding 1 |
| `falseclose` | `PositionSync` | 2 positions, 1 failed request | finding 2 |
| `spreadlimit` | `MCSignalPath` | as `signalpath` | finding 3 |

**Bounds.**
- `MaxCandle`, `MaxDay`, `MaxSwitches` bound what the environment does. Two bars are enough for a
  candle to be repeated after a restart and for one cycle to find what another left; `steady` takes
  a third, and `TradesCapped` is proved for any number. Two active rows are the least for a
  deactivation to leave one. Restarts, failures, account and kill-switch changes are unbounded. With
  `MCSettings` each of the four settings takes both values around the live one.
- `Tickets`, `MaxLostReads`: the rows, openings and closings of a position do not depend on any
  other position, so `audittrail` follows one, which can open or close between the two requests and,
  with one failed request, be closed by mistake and re-opened; `exposure` and `falseclose` have two.
  The theorems hold for any number of either. Two trading cycles are the least of which an earlier
  one may lack its ending.
- `TradeFeedback`: two trades can share a day, an account or a strategy or none of them; `MinTrades`
  of 2 puts a strategy's row on either side of it, and the two profits on either side of the win
  rate. The rows of two runs are kept, so that one is judged again beside a later one; later runs
  still write daily rows. One end of the process frees a poisoned session.
- `LiquiditySweep`: an ATR given, zero or absent; volumes below, at and above the comparison; levels
  given on both sides, one side or none; each of the six configurations moves a limit that another
  leaves untouched.
- `exposure` stops at states where the account has changed or a switch is active (`Undisturbed`, a
  state constraint): those are the business of `tradingcycle`, and end cycles early. It has no
  failed requests either. The theorems about `Exposure` need neither.
- `MaxCycles`, `MaxBeats`, `MaxStarts`: two cycles are needed for a marker to be of an earlier one,
  two beats to fall on both sides of a mark, two processes for one to recover what the other left.
- `SignalPath`: ATRs of 0, 0.001, 0.002 and 0.003 of the price, one in every band of volatility and
  both on their thresholds; averages level, apart and far apart to either side; a table as seeded,
  one of codes that mix or shorten names, one whose preferred strategies decline or do not exist,
  and an empty one; accounts without money, with too little for the broker's minimum lot, and with
  more than `max_lot` can use.
- `PaperPipeline`: two requests are the least that interleave; a process may end as often as
  requests are left to come. The cases hold every regime, both directions, candles that reach the
  stop, the target, both or neither, and each limit of the risk engine met and overstepped by the
  least unit. The ledger of four earlier trades falls, rises and falls, so that the drawdown is not
  of the first trade nor of the last.

**Fairness.** `SteadySpec` of `TradingCycle` assumes that the listener thread and the start of the
process are not postponed for ever: the loop wakes up every `LISTENER_INTERVAL_SECONDS`, and no step
of it waits for another actor. Weak fairness is on the disjunction of its actions, since one thread
runs them; which outcome a check has stays free, so a filter may reject every cycle. It also
excludes failures. `AuditFairSpec` assumes that the listener thread goes on with the cycle it has
begun and comes to `on_tick` in every round of its loop, hence that ticks keep coming; `CyclesTold`
excepts cycles cut short by a database error or the end of the process, and `TableSettles` is about
behaviours in which failures stop at some time and leave the session usable: whatever they did to
the table before is then repaired. Nothing is assumed of the API, the market or the operator. With
failures that go on neither `NewBarStored`, `SubmittedResolved` nor the catching up of the table
holds. `Spec` of `TradeFeedback` assumes that the interval passes again and again and that a run,
which waits for nobody, goes on; it may fail at any point, which `TradesCounted` excepts. `FairSpec`
of `WorkerRuntime` asks for less: only `main`, and only once it shuts down, must go on; it never
waits longer than a join's three seconds, and the other threads may hang for ever.

**Deadlock** is checked except where the modelled system really stops: in `workerruntime` when the
bounded number of processes is used up, and in `SignalPath` when its one cycle has ended, as a call
has in `LiquiditySweep`, and in `tradefeedback` when the bounds are reached and the session is
poisoned. Elsewhere `Crash`, the broker and the API can nearly always act, and nothing in the design
waits.

## 4. What is proved

For all values of the constants that satisfy the modules' assumptions (bounds are natural numbers,
settings well typed, `Tickets` finite in `Exposure`, inputs of the right types in
`SignalPath` and `LiquiditySweep`):

| Module | Theorem | Statement |
|---|---|---|
| `TradingCycle_proofs` | `Invariance`, `TypeCorrect` | `Spec => []IInv`, `Spec => []TypeOK` |
| | `OneOrderPerCandle` | `Spec => []AtMostOneOrderPerCandle` |
| | `OneLeakPerActivation` | `Spec => []KillSwitchLeaksAtMostOne` |
| | `OrdersExplained` | `Spec => []BrokerOrdersExplained` |
| | `SettingsObeyed` | `Spec => OrdersObeySettings` |
| | `TradesCapped` | `Spec => []DailyTradeCap` |
| | `PromiseKept` | `Spec => KeepsPromise`, the refinement of `CandleOrders` |
| | `CyclesCompose` | `ExposureSpec => CyclesKept` |
| | `RoomRespected` | `ExposureSpec => OrdersLeaveRoom` |
| `PositionSync_proofs` | `PositionsMirrored` | `Spec => []Mirrored` |
| | `ClosingsExplained` | `Spec => []JournalExplained` |
| `AuditTrail_proofs` | `AuditInvariance` | `AuditSpec => []AuditIInv` |
| | `EndingsAreTold`, `OrdersAreTold` | `AuditSpec => []OnlyLastUntold`, `AuditSpec => []OrdersTold` |
| | `AuditImplementsSync` | `AuditSpec => Spec`, the `Spec` of `PositionSync` |
| | `PositionsSurviveTrading` | `AuditSpec => [](Mirrored /\ JournalExplained)` |
| `SignalPath_proofs` | `BudgetKept`, `StopsSane`, `LotsTradable`, `RegimeFitted` | `Spec => []` of the four properties of the run |
| `LiquiditySweep_proofs` | `SweepInvariance`, `SeededIsSilent`, `SignalsAreSound` | `Spec => []` of `IInv` and the two properties of the run |
| `WorkerRuntime_proofs` | `EndIsRecorded`, `NewestMarkers`, `MarkersBelongTogether`, `OnlyOrphansInterrupted`, `OrphansCounted` | `Spec => []` of the five invariants of the run |
| `PaperPipeline_proofs` | `OrdersAreSound`, `JournalsTellOrders`, `LossesAreAssumed`, `StatusIsOfOneRun` | `Spec => []` of `OrdersSound`, `JournalTellsOrders`, `LossesAssumed`, `StatusOfOneRun` |
| | `ReportInvariance` | `Spec => [](IInv /\ ReportInv)` |
| | `ReportsCountTheirRun`, `DrawdownIsTheWorstFall` | `Spec => []ReportCountsItsRun`, `Spec => []DrawdownIsWorstFall` |
| `TradeFeedback_proofs` | `Invariance` | `Spec => []IInv` |
| | `DailyRowsAreTrue`, `AdviceIsExplained` | `Spec => []DailyRowsTrue`, `Spec => []AdviceExplained` |

Hardly any of the properties is inductive by itself; each module with proofs has an `IInv`.

- **TradingCycle.** That no candle is ordered twice rests on `ClaimInv`: stored candles never run
  ahead of the market, every order belongs to a stored candle, and a cycle that is past ingestion
  and not a duplicate works on the newest stored candle, which has no order yet. `ContextInv` adds
  what the earlier steps established, `TrailInv` the rows already written for the order about to be
  sent, and `LeakInv` that an order still on its way under an active switch is the first to leak:
  the two checks before it saw no active row, so the switch became active after them, which reset
  `leaked`. For the day's limit, `CapInv` relates two growing tables: the orders sent on a day are
  at most its order rows, and one more on every day but the first, for the order whose row is of the
  evening before; from the check to the order there is room for one more row (`LimitedSteps`), and
  an order whose row is written either has its place among them or is the first of a new day.
  Counting uses the cardinality theorems of the library, one lemma for each kind of step.
- **PositionSync.** `Mirrored` needs to know what an answer still says when it is used
  (`AnswerInv`): by the time rows are closed, every open position is in the answer or unseen.
  Counting closings needs `ClosingInv`: a position whose row may become OPEN again has been closed
  only by failed requests, so one that has closed at the broker is journaled once more and never
  again.
- **Exposure.** `TurnInv` says whose turn it is, and that the limits still hold of the table from
  the check to the order, because no position cycle runs in between. With `Mirrored`, taken from
  `PositionSync_proofs` through `CyclesCompose`, the table's count bounds the broker's.
- **AuditTrail.** `OneAtATime`: while a cycle runs, the position cycle rests and the session can be
  used. `EndingInv`: no cycle is told before it ends, and all but the last of a process are; the
  only way to end untold is an unusable session, on which no further cycle leaves a row. `OrderInv`
  reads from the cycle's place whether its order was sent, whether `orderResult` tells so or tells
  of a dry run, and whether that is journaled; before `ExecutionEngine` has run there is no order
  entry of the cycle that its order could belie. `AuditImplementsSync` then
  lends the theorems of `PositionSync` to the whole listener thread.
- **SignalPath.** `PathInv` lists what each step has established: the signal is one of `Signals`,
  the plan what `RiskEngine` demands, the stressed loss within budget. The budget theorem is then
  arithmetic: spread and slippage move entry and stop apart, and products grow with their factors.
  `StrategyFitsRegime` comes from the strategies' own check of the regime and from `ResolvesOnce`, a
  code names one strategy at most; the theorem shows it needs neither selector nor validator.
- **LiquiditySweep.** What each test has established, and linear arithmetic: in multiples of the
  ATR, the seeded target is 2.5 from the entry and the stop 1.7, a ratio below 1.5. In the other
  configurations entry and stop are placed from the same swept end.
- **WorkerRuntime.** `ThreadInv` says which threads can still run at which call of `main`, `MarkInv`
  what a mark finds and leaves, `MarkerInv` that only the current cycle's markers are in the row or
  in what a thread has loaded, and `RunInv` that the unended runs are at most as many as processes,
  and fewer while no step is being run.
- **PaperPipeline.** `StageInv` says what a run has left in the stores at each stage, whichever
  stores the process was started with; `EntryInv` that an entry tells what became of its run's case,
  and `CaseInv` that an order's case was approved. Approval then is arithmetic: the fallback plan of
  an invalid signal never gets that far, and the stop lies on the losing side because the buffer is
  positive. `LastInv` follows one run alone through the three assignments. `ReportInv` follows the
  report: journals only grow, a run's entry stays where it was written (`WrittenInv`), what has been
  read is a beginning of its journal that covers the run's entry (`Covers`, `ReadInv`), and the
  report is computed from such a beginning. What it computes is the next paragraph's matter; that no
  closed entry has a profit of zero (`ClosedInv`) makes wins and losses add up to the closed.
- **TradeFeedback.** `CountedInv` says that a run counts all that was counted of its day before, since
  linked trades that are closed stay closed; `DailyInv` and `JudgedInv` that the daily rows and the
  strategies' rows of a committed run are made of the trades it counted, `EventsInv` that a run which
  advised on a row advised on all older ones in need. `DailyRowsTrue` then is about sums: won and lost
  make the sum (`WonAndLost`), the sums by strategy make the sum (`KeysAddUp`), and one row after the
  other the drawdown stays within the losses so far and above the fall from the peak (`BoundedStep`).

**Sums, folds and induction.** The library's induction theorems take an operator, which no installed
prover can instantiate. Well-foundedness (`WFMin`) gives induction in terms of sets instead: a set
that holds 0 and every successor holds the naturals (`NatInSets`), a set of subsets that holds `{}`
and whatever holds by taking away any one element holds all subsets of a finite set (`SubsetsIn`).
The folds of the community modules are recursive functions given by `CHOOSE`: the proofs construct a
solution of the recursion (`FoldExists`, `SumExists`), so that what is chosen is one, and read off
its steps (`FoldChain`, `Curve`, `TakesOne`). A set has no order in which it is summed; `SumUnique`
shows that none matters. The lemmas about folds over sequences speak of no variable; they are in
both modules that need them.

**Assumptions on data.** `Ledgers` holds sequences of profits other than zero, because a paper trade
closes at its stop or its target and neither is at the entry (`PnlOfHits` proves that of the runs
modelled); `Profits` of `TradeFeedback` may be any integers.

**Model-checked only.** The liveness properties `NewBarStored`, `SubmittedResolved`, `CyclesTold`,
`TableSettles`, `TradesCounted` and `ShutdownEnds` (outside this prover); the three findings.

## 5. Findings

1. `KillSwitchStopsOrders` fails. `GUIDE.md:246` promises that nothing is executed while the kill
   switch is active; `execution_engine.py:87` checks it for the last time before `order_check`, a
   commit and `order_send`. `OneLeakPerActivation` bounds the damage to one order.
2. `ClosedRowsAreClosed` fails. `TradeLifecycleService` says that it detects closed positions; one
   failed `positions_get`, answered with an empty list, closes and journals every open row.
   `JournalExplained` and `Mirrored` say what holds nevertheless.
3. `SpreadLimitHolds` fails. `BrokerHealthCheck` compares the spread as a price with
   `MAX_SPREAD_POINTS`, so that limit refuses nothing; `MAX_SPREAD`, applied to the candle's spread,
   remains.

Noticed while reading, without a run. In the worker: the account judged by the demo lock was read at
the start of the cycle, so that the promise of `GUIDE_SHORT.md:96` fails if it changes in between;
`bot_routes.py:51` answers "Kill switch deactivated" when another active row remains, since only the
latest is ended (`safety_repository.py:58`); a database error that ends the process also defeats
`mark_error`, which uses the same session, so the row goes on saying *running*; a heartbeat between
`mark_error` and its stop sets `is_running` again; the candle's spread, in points, is added to
prices by the simulation, so that hardly any real spread passes it; a flat account has margin level
0 and is never healthy; `order_check` answers 0 on success, which the engine and the executor both
refuse; the first sentence of `rejection_journal_service.py` has every rejection and fatal event
journaled, which a database error in the cycle prevents (`OnlyLastUntold` says what remains true).

In strategies: with the configuration that `seed_master_data.py` writes, `LiquiditySweepReversal`
refuses each of its own plans (`SeededIsSilent`); its wick quality always comes out low; a sweep's
confidence is never below the 0.55 at which a resistance would be looked at too, and nothing raises
the count of losses that its safety checks compare.

In the performance thread: every account of the day gets the totals of all accounts; the feedback
loop speaks of the latest rows and judges all rows ever; no strategy row has a `max_drawdown`, so
that no strategy is ever disabled or reviewed; positions synced by the worker have no order and are
never counted, which also leaves the edge check without a sample; trades closed after the last run
of a day are never counted.

In the paper pipeline: the monitor is given the entry candle itself, and an order that this candle
leaves untouched is never looked at again, so it stays OPEN for ever; open positions and the daily
loss come from the request, not from the stored orders; the decision WAIT cannot come out (an invalid
signal is REJECT, a range's confidence of 55 is below the validator's 60, and the strategy for
`HIGH_VOLATILITY` is not registered, so that regime always fails); the default simulation cannot fail;
with orders in the database the journal says `order_state` OPEN beside a `result` CLOSED; two
requests at a time can leave `/pipeline/status` with the time of one and the decision of the other.

## 6. Not modelled

- **The kill switch's limits on losses and margin.** `KillSwitchMonitor` reads equity and margin
  from a dictionary that is filled two steps later, and profits that nobody writes when a position
  is closed; a model of the rules would check rules that have no input. In `TradingCycle` they may
  trip at any time.
- **Rows of the filter steps**: market events, signals, validations, assessments, simulations. Each
  step commits its own, a crash leaves a prefix of them, and nothing in the cycle reads them again.
- **Snapshots, prices and profits of positions**: rows that are appended and read by the API only.
- **Market data itself**: candles are numbers with a time, ticks are left out, and the strategies'
  conditions on series of candles are inputs of `SignalPath`.
- **A second Ctrl-C during the shutdown**, and sessions closed under a thread that outlived its
  join.
- **Models, migrations and read-only API routes** have no behaviour of their own. The acceptance
  scripts, other seeds and tests are drivers of the code; what they say of it was read.
- **Not proved although provable in principle**: that `SignalPath` refines the one filter step of
  `TradingCycle`. The two share no variables but the verdict, so the proof would say little.
