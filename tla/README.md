# SmartTrading in TLA+

A verification project for the SmartTrading code base (`src/src/smarttrading`): TLA+ modules
translated from the Python source, TLC configurations that model-check them on small instances, and
proofs that TLAPS checks for every value of the constants. Paths below are relative to
`src/src/smarttrading` unless they start with `src/`; `docs/` and `README.md` are those of the repository.

## 1. The system

SmartTrading is a spot, long-only research and paper-trading platform. Its only continuous program
is the paper daemon: one asyncio task that reads closed candles from Binance, runs one synchronous
decision cycle per candle and records everything in SQLite. Around it are offline tools (dataset
download, training, freeze, backtest) and command-line readers of the daemon's database.

```
 Binance WebSocket --> ResilientCandleStream --> ClosedCandleBuffer --> PaperTradingEngine.process
 Binance REST ------> (reconcile, warmup) ---^                            |    |     |
                                                        IndependentRiskManager |  ExecutionSimulator
                                                              (evaluate)       |     (execute)
                                                                        PortfolioAccount (apply_fill)
                                                                               |
                         PaperStore: events (append, one commit each) + state (set_state snapshot)
                                                                               |
                                    mature_predictions, daily_snapshot, CLI readers and reports
```

| Component | Source | State it keeps | Operations | What makes it correct |
|---|---|---|---|---|
| Paper engine | `paper/engine.py` | account, waiting orders, histories, buffer, risk state, health, shadows | `process`, `warmup`, `_execute_pending`, `_execute_shadow_pending`, `_persist_state`, `_restore` | next-candle execution, one cycle per candle, account = journaled fills, recovery after a crash |
| Store | `paper/persistence.py` | `events` and `state` tables | `append` (INSERT OR IGNORE), `exists`, `events`, `set_state`, `get_state` | an event is written once; the snapshot is replaced whole |
| Candle buffer, time frames | `data/realtime.py` | latest candle per stream, seen ids, gaps; bars per time frame | `accept`, `MultiTimeframeStore.add/view`, `cross_asset_context` | strictly increasing candles, every gap recorded, nothing read before it closed |
| Candle stream | `exchanges/binance_stream.py`, `cli.py` | connection, backoff, reconnects | `events`, `connect`, `reconcile` | candles missed while disconnected come back before streaming resumes |
| Risk manager | `risk/manager.py` | kill switch, circuit, error count | `evaluate`, `activate_kill_switch`, `record_execution_error` | limits hold after every purchase; a block stops purchases and lets reductions pass |
| Execution, accounting, sizing | `execution/simulator.py`, `portfolio/*.py` | fill counter; cash, positions, realised result | `execute`, `apply_fill`, `mark`, `size` | no negative cash or position; money is conserved |
| Forward experiment | `paper/forward.py` | frozen configuration, predictions, outcomes | `start_or_resume`, `mature_predictions`, `daily_snapshot`, `export_experiment` | a started experiment never changes; a prediction matures once, on the right candle |
| Backtest | `backtest/engine.py` | account, waiting orders, peak | `run` | no look-ahead |
| Splitting, freeze, training | `models/splitting.py`, `models/freeze.py`, `models/training.py`, `models/experiment.py` | sealed holdout | `split`, `freeze_real_artifact` | purged folds, no row of the holdout is fitted or scored before the final evaluation |
| Artifacts, registry | `models/artifacts.py` | model rows | `register`, `promote_to_paper`, `status` | a promoted version stays promoted (that only promoted artifacts are used is enforced nowhere: section 4) |
| Public REST client | `exchanges/binance_public.py` | - | `fetch_bars` | every candle of the interval, once, in order |
| Ensemble, strategies, features, regime, drift, validation | `models/ensemble.py`, `strategies/*`, `features/*`, `monitoring/*`, `data/validation.py` | mostly pure | - | causal features, bounded scores |

The hard behaviours are crash recovery (each `append` commits alone and the snapshot comes last),
the order of steps in a cycle, candles that are late, doubled or missing, state that is a candle old
when it is used, and readers or second processes that work on the daemon's database. `PROJECT.json`
lists each hazard at its line with the properties that watch it.

## 2. The modules

| Module | Models | State against code | Actions against code |
|---|---|---|---|
| `PaperEngine` | `paper/engine.py` (main account), `paper/persistence.py` | `last`, `missing` = `ClosedCandleBuffer`; `position`, `applied` = `PortfolioAccount`; `pending`, `circuit`, `counter` = engine fields; `closed`, `orders`, `risks`, `fills`, `decisions` = the event types of the journal; `snap` = the "paper" row of the state table | one action per commit of `process()` (`AcceptBar`, `EvaluatePending`, `ExecuteFill`, `Decide`, `RecordDecision`, `PersistState`), `WarmupBar`/`WarmupDone` = `warmup()`, `Restart` = death anywhere followed by `__init__` and `_restore()`, `Block` = kill switch or opened circuit |
| `PaperLedger` | nothing in the code: the account the documentation promises | `open`, `held`, `ledger`, `placed` | an order is placed, refused or filled, each in one step |
| `CandleStream` | `exchanges/binance_stream.py`, `reconcile()` and the loop of `cli.py`, `ClosedCandleBuffer` | `phase` = where `events()` stands; `wire` = the socket; `queue`, `asked` = the reconciliation; `lost` is auxiliary | `Connect`, `Receive`, `SocketCloses`, `SocketBreaks`, `Fetch`, `FetchFails`, `Yield`, `Drained`, `Wake`, `Die`, `Start`, and the exchange's `CandleCloses` |
| `RiskManager` | `risk/manager.py`, prices and fees of `execution/simulator.py` | none (operators) | `evaluate()` as operators; used by the two modules below |
| `PaperPortfolio` | sizing, risk context and accounting of the paper engine | `cash`, `qty`, `cost`, `realized` = the account; `price` = the last prices | a candle is `Open` (waiting order executes) and `Close` (next order is decided); `KillSwitch` |
| `Backtest` | `backtest/engine.py` with `FixedFractionSizer` | `peak`, `side`, `lots`, account and risk gate as in `run()` | a bar is `Execute` and `Decide` |
| `ForwardExperiment` | lock, predictions and outcomes of `paper/forward.py` | `lock` = the state row; `predictions`, `outcomes`, `closed` = event types; `view`, `todo` = the local variables of a running `mature_predictions()`, per program | `Start` (`start_or_resume`), `Warmup`, `AcceptBar`, `Predict`, `Die`, `Report`, `ReadBars`, `ReadPredictions`, `Judge`, `Judged` |
| `PredictionLedger` | nothing in the code: the experiment the documentation promises | `experiment`, `past`, `made`, `judged` | an experiment begins, a candle closes, is predicted, a prediction is judged, each in one step |
| `PaperReport` | `daily_snapshot()`, `economic_metrics()`, `reconcile_accounting()` of `paper/forward.py`, equity points and snapshot of the engine | extends `PaperPortfolio` with `fills`, `point` = events of the journal, `state` = the saved account, `report` = what a report in progress has read | `OpenCandle`, `CloseCandle` add the fill, the equity point and the snapshot to a candle; `ReadState`, `WriteReport` are the two reads of a report, at any moment |
| `ShadowBook` | the shadow portfolios of `paper/engine.py`, signals of `strategies/baselines.py` | `slot` = `shadow_pending`; `holding` = the accounts of `ShadowPortfolio`; `fills` = `shadow_fill` events; `snap` = their part of the snapshot | `AcceptBar`, `Settle` (`_execute_shadow_pending`), `Decide`, `PersistState`, `Restart` = death anywhere and `_restore()` |
| `MarketData` | `exchanges/binance_public.py`, `prepare-data` of `cli.py`, `data/csv.py`, `data/manifest.py`, `data/validation.py` | `current`, `attempt`, `output` = local variables of `fetch_bars()`; `file`, `manifest` = the two files; `listed`, `latest` = the exchange | `Ask`, `ReadPage`, `FetchEnds`, `AttemptFails`, `WriteRows`, `WriteManifest`, deaths while writing, and the exchange's `CandleOpens` |
| `Research` | `models/splitting.py`, `experiment.py`, `training.py`, `freeze.py`, `artifacts.py`, `features/dataset.py` | `study` = the folds of the command that runs, as sets of candles; `artifact` = the file; `registry` = the table; `loaded` = the version between the two commits of `promote` | one action per command: `Experiment`, `FinalEvaluation`, `FreezeModel`, `Register`, `PromoteToPaper`, `PromoteDies` |
| `Offline` | the two above composed: a command loads the file that the fetch has left | - | `Command` |

`MC*` modules only add symmetry sets and constants. `*_proofs` modules hold the theorems. Two abstractions are
shared by all modules: a candle of an asset is its number in the timeframe, and text (identifiers,
payloads, reports) is reduced to what it identifies.

The paper engine is split in two on purpose. `PaperEngine` has crashes and no prices, so that every
commit point can be interrupted on an instance small enough to enumerate; `PaperPortfolio` has prices
and cash and no crashes. What the second assumes of the first, that a sale sells the whole holding, is
`SalesCovered` there. In the same way `CandleStream` assumes that a restart rebuilds the buffer, which
is `GapsKnown`. `ShadowBook` takes the order of the steps of a cycle from `PaperEngine`. It shares three things with the main
account: the candle, the snapshot, which is written by the same step, and the `ExecutionSimulator`, whose
counter makes the identifiers of fills. `PaperEngine` models the last: between two cycles the shadows may
have taken any number of identifiers up to `MaxShadowCount` (`ShadowsFill`).

## 3. Plan

Done, in this order: the daemon's cycle and its journal (`PaperEngine`, `PaperLedger`), its feed
(`CandleStream`), its limits and money (`RiskManager`, `PaperPortfolio`, `Backtest`), the forward
experiment, the shadow portfolios, the reports, and the offline pipeline (`MarketData`, `Research`,
`Offline`), then the abstract experiment (`PredictionLedger`). Every safety property of the passing runs
is a theorem now, the sums of the account and the pages of a fetch included. Left, most valuable first:

1. `PaperEngine` composed with `ShadowBook`, to show that the composition implements each, and that a
   waiting order of the main account and those of the shadows meet the same candle.
2. `ShadowBook` against `PaperLedger`: a book of one asset is an ideal account as long as its process lives.
3. The economic evaluation of an experiment in `Research`.

## 4. What the runs check

Runs that pass:

* **PaperEngineCrash**. Two assets, three candles each, two deaths at any point. However often the
  process dies: an order executes on a later candle than its decision (`NextBarExecution`), a sale never
  exceeds the holding it meets, in memory and in the snapshot (`SalesCovered`), no account holds a fill
  the journal lacks and every waiting order is journaled (`JournalBacksState`), gaps are known and degrade
  the cycle, a candle has one cycle, a saved block is for ever, and one death costs at most one fill, one
  repeated execution and one undecided candle (`CrashDamageBounded`). Before the first death, journal,
  account and snapshot agree between cycles (`CycleIsAtomic`).
* **PaperEngineNoCrash**. No death, fair delivery: the engine implements `PaperLedger`, and an order
  that waits is evaluated once a later candle of its asset closes (`PendingEventuallyEvaluated`).
* **CandleStreamFeed**. Two assets, four candles, two broken sockets and one death: every candle up to
  the latest is processed or recorded as missing (`FeedAccounted`), only closed candles pass, a gap is
  an outage (`GapsAreOutages`), a reconciliation reaches the present (`CaughtUp`) and leaves no hole in
  its window (`ReconcileFillsWindow`), and what a socket sent is settled even if it breaks before it is
  read (`HeardIsSettled`).
* **PaperPortfolioMoney**. Two assets, three prices, five candles, a report at any moment: cash and cost basis are the initial
  cash plus the realised result (`Conservation`), no approved order is refused by `apply_fill()`
  (`ApprovedIsPayable`), no purchase makes a holding larger than its share of the account as it was before
the costs of the purchase (`AllocationCapped`). The account a report prints is
  one that the journaled fills did add up to, with the cost basis that `economic_metrics()` works out for
  itself (`ReportIsPast`); the snapshot between candles is the account of all fills, and the equity point
  beside it is short of it by exactly the worth of the other assets (`PointIsPartial`).
* **ShadowBook**. A buy-and-hold, a baseline and a model that trades two assets, two deaths anywhere, one
  purchase that cannot be paid: a waiting sale has its holding and a waiting purchase meets none, in memory
  and in the snapshot (`OrdersFitHolding`); positions were opened by journaled fills, and the fills of a
  book of one asset add up to what it holds, though a restored book may fill an order again and `append()` drops the
  second event (`JournalMeetsBook`). They do so up to disputed purchases: a purchase can be journaled, the process
  die before the snapshot, and the restored account, at another price, be unable to pay it, so that the journal has
  a fill the book lacks. The property bounds the difference by these purchases on both sides, and says that
  a book has at most one of them per death; without one, the counts are equal. An order waits past a candle only if
  a dead process had begun it (`ExecutesAtNextCandle`; executions whose event `append()` drops show in the
  holding only).
* **Offline**. Seven candles with and without an outage, pages of two, three intervals, deaths at any row
  of the file: the result of a fetch and the file are the history, without holes or repetitions, and the
  candles that were closed when it was asked have their final prices (`FetchIsExact`; a row of the candle
  in progress keeps the prices of the moment, even if later ones follow it); a fetch ends
  (`FetchTerminates`). Any two
  candles may lack features: no label of a fit reads a candle that is scored or a later one (`Purged`). Before the final
  evaluation no row of the holdout is fitted or scored, and training labels of a fit that is scored end before it;
  but the last labels of the final fit of a freeze, and those an experiment scores against, are computed from its closes.
  `SealHolds` says all of it: such labels reach at most a horizon of rows of the holdout, whatever rows are missing,
  and the final evaluation scores the whole of it. A promotion stands (`RegistryStands`).
* **Backtest**. Six bars with any open and close of three prices and any signals: the same payability, a
  seen drawdown stops purchases for good (`TripIsFinal`), and only a bar that closes in drawdown refuses
  an exit (`ExitsOnlyWaitForDrawdown`).
* **ForwardExperiment**. Two assets, two configurations, two starts, a report with another horizon that
  runs at any time: predictions belong to the stored experiment (`OneExperiment`) and to the latest
  candle (part of `LedgerSpec`); each has one outcome (`OneOutcome`), right of the journal for good though
  judged from an earlier read (`OutcomesStand`), and after a complete cycle none is overdue, those of
  dead processes included (`NothingOverdue`). `OutcomesStand` also says that an outcome has the frozen horizon
  unless the report wrote it (`by` in an outcome is auxiliary: the code does not store it); such an outcome
  takes the place of the right one for good. Reads, deaths and two programs together implement
  `PredictionLedger`, in which judging is one step at the frozen horizon (`LedgerSpec`; the mapping takes the
  outcomes at the frozen horizon, `Frozen`).

Runs that must fail, because the documentation says more than the code does. `findings` in
`PROJECT.json` quotes the sentences.

| Run | Property | What happens |
|---|---|---|
| PaperEngineRecovery | `RecoveryReconciles` | a restart reads the snapshot only; a journaled order or fill after it is lost to the account |
| CandleStreamInference | `NoInferencePastGap` | a candle that closes between two sockets is skipped and the next one is traded |
| PaperPortfolioLimits | `FrozenLimits` | drawdown and exposure limits see one asset and no drawdown |
| BacktestLookAhead | `NoLookAhead` | the price map holds the close of the bar when the order fills at its open |

### Divergences without a run

Found while translating. The models follow the code; where a property meets one of them, it states the
exception and bounds it.

* `paper/engine.py:360`: health is consulted when a purchase is decided (`engine.py:439`) and not when a
  waiting one executes, so a purchase of a healthy cycle is filled in an UNSAFE one.
  `docs/PAPER_TRADING.md:34-35`: "An `UNSAFE` health state blocks new long exposure".
* `paper/forward.py:124`: only the frozen file is compared on a restart. Costs and limits come from
  `--config` and models from `--artifact`, which may differ. `docs/PAPER_TRADING.md:31-32`: "artifact,
  threshold, cost, risk or feature changes are rejected".
* `cli.py:408`: `experiment report` journals the outcomes that are due, at whatever `--horizon` it is given (6 unless
  told otherwise, `cli.py:567`), and the daemon keeps them. `docs/FORWARD_EXPERIMENT_V1.md:10`: "Prediction horizon: 6 closed
  bars", and line 4: "An experiment that has started is immutable"; `docs/PAPER_TRADING.md:34`: `report` and others
  "inspect the durable state". `OutcomesStand` allows these outcomes to the report and to nobody else.
* `models/freeze.py:53`: the final model is fitted on all development rows, the last labels of which are computed from
  closes of the holdout; `run_experiment()` scores against such labels. `docs/FORWARD_EXPERIMENT_V1.md:12-13`: the holdout
  "remains SEALED and is never passed to model fitting, validation, ...". `SealHolds` bounds what is read.
* `cli.py:239`: `paper run` loads any artifact file whose hash and features match; the registry is not consulted.
  `README.md:101`: "Paper mode loads an explicitly promoted, versioned artifact". Not modelled.
* `models/experiment.py:70`: the economic evaluation of `train` and `walk-forward` replays every candle
  from the first prediction on, the holdout included, baselines and all, and reports the holdout as
  SEALED. `README.md:84`: they "keep the final holdout sealed".
* `paper/engine.py:481`: every signal of a baseline that is not LONG is an exit, so the shadow of
  buy-and-hold, which answers HOLD after its purchase, sells at once. `ShadowBook` does the same.
* `paper/engine.py:252`: a waiting order of a shadow that is no longer configured is restored, its account
  is not, and the next candle of the asset ends the daemon.
* `data/validation.py:9`: the time frame 4h, which `prepare-data` and the settings accept, is not in the
  table; loading such a dataset raises `KeyError`.
* The manifest of a dataset is written and never compared, so a file cut off by a death at the end of a row
  is loaded as a shorter history; `MarketData` and `Offline` show such files.

### Bounds

Every bound is a named constant of its module and appears in a guard. The theorems of section 5 hold
for all of them, so the bounds matter for what is only model-checked:

* `PaperEngine`: `MaxBar = 3` is a decision, its execution and one candle more, with a gap possible
  (candles 1 and 3); two deaths let a restart be interrupted again; `MaxLot = 1` makes approvals all or
  nothing, which loses the resized purchases: they are covered by the proofs and by `PaperPortfolio`.
  `MaxShadowCount` is 1 where the process dies, since only there an order executes twice and its two fills could
  have one identifier; PaperEngineNoCrash has 0.
* `CandleStream`: a reconciliation reaches three candles back, so four candles have one outside its
  window; two breaks let the second reconciliation meet the leftovers of the first.
* `PaperPortfolio`, `Backtest`: prices 1, 2, 3 (or 4) double and halve the account, enough to cross
  every limit; costs of 10% make rounding and costs visible at this scale.
* `ForwardExperiment`: `Horizon = 1` and a report horizon of 2 with three candles: a prediction can be
  mature for one program and not for the other. Starts and reports are two and one.
* `PaperReport`: five candles are a purchase, another of the other asset, a sale and what follows; the
  report may read before and after any of them.
* `ShadowBook`: three candles are a decision, its execution and the decision that follows; a death is
  enough for an order to be filled twice or to be disputed, a second one for the restored order to be lost again.
* `Offline`: pages of two rows against seven candles give full, short and empty pages and intervals that
  end inside a page; one fetch, since a second one replaces the file; two incomplete candles separate rows
  from candles on both sides of a purge. Purge and seal are proved for all sizes.

### Fairness

* `PaperEngine`: weak fairness of the cycle (`process()` is synchronous code) and strong fairness of the
  delivery of each asset's candles (the combined socket yields what arrives in its order, so no asset
  is overtaken for ever). Without crashes only: a daemon that dies for ever evaluates nothing.
* `CandleStream`: weak fairness of each step of `events()` and of reading an open socket; nothing is
  assumed of the exchange or of the network, and breaks are bounded by `MaxBreaks`.
* `Offline`: weak fairness of `FetchStep`: `fetch_bars()` is one synchronous loop, and the HTTP client gives
  every request a timeout, so each is answered or fails. Nothing is assumed of the exchange.
* The other specifications have no liveness property and no fairness.

## 5. What is proved

All theorems are for arbitrary values of the constants under the named ASSUMEs: numbers are naturals,
model values like `None` are not elements of the sets they extend, assets are finitely many where
sums run over them, percentages are percentages.
`CostAssumption` is the one that says something of the program: `max_asset_allocation`, grown by
spread, slippage and fee, is at most the account. The code never checks it; the shipped configuration
satisfies it by a wide margin (25% against a fraction of a percent of costs).

* `PaperEngine_proofs`: all safety properties of PaperEngineCrash, for any number of deaths. The
  invariant `IInv` relates what the code keeps apart: the buffer's latest candle is the journal's; cycles
  have their candles; orders that wait, in memory and in the snapshot, are journaled and older than the
  candle they meet; each account together with the sale that waits for it, and the job in flight, stays
  between zero and the lots. The last part is needed because a restart replaces one account and its orders
  by another: `SalesCovered` alone is not inductive.
  `CrashDamageBounded` compares the sizes of sets with the number of deaths. Its invariant `Damage` says
  it of what the process would lose if it died now: the fills missing from the account, and from the
  snapshot, the executions of an order beyond the first and the undecided candles are at most the deaths, with one more
  only while a cycle is between the event and the snapshot. A death turns the one more into one of the deaths.
  `CycleIsAtomic` holds before the first death, where in addition (`Settlement`) an order is evaluated once
  and then executed at most once; with it `PaperEngine` without deaths implements `PaperLedger`, under a
  mapping that counts an order in execution as still outstanding until its fill.
* `CandleStream_proofs`: the safety properties of CandleStreamFeed. The invariant adds that a closed
  candle not yet seen is lost or on the open socket, and that while a reconciliation is yielded its
  window still waits in the queue.
* `RiskManager_proofs`: `evaluate()` has exactly one answer to every order in every context (`OneDecision`),
  so no action of the two modules below is blocked or ambiguous for want of a decision; and an order within
  the asset limit of an account costs at most its cash, by `CostAssumption`.
* `PaperPortfolio_proofs`, `Backtest_proofs`: `ApprovedIsPayable`, types, `AllocationCapped`, `TripIsFinal`,
  `ExitsOnlyWaitForDrawdown`, and the money. `Conservation` is inductive only beside `AccountOK`, which says that a sale that
  waits is of the whole holding: it takes the whole cost basis with it. `ReportIsPast` and `PointIsPartial` follow from
  `Journaled`, that the trades of the whole journal are the account, and `Current`, that between candles the
  saved state and the equity point are those of the account; a saved or printed state then keeps the prefix
  of the journal that it was made from, because fills are only appended. `ReportsChangeNothing` carries the
  theorems of `PaperPortfolio` over to the daemon with its reports.
  Sums over assets and trades over a journal are folds. The library defines a fold of a set by a table of all
  subsets, and an induction theorem is not available to the prover; what a fold does to a larger set
  is proved by contradiction from a smallest set for which it fails (`MinimalSubset`: the subsets of a
  finite set are well founded).
* `ShadowBook_proofs`: the four properties of its run, for any books, assets and number of deaths. The
  invariant says of memory and of the snapshot alike that orders fit the holdings beside them, and of the
  two together what the next candle can change, so that it survives a restart at any point of a cycle.
  `JournalMeetsBook` needs that the executions of one order, which a restored book repeats, share one
  journaled event: the fills of a book are counted without those of the order that still waits. Its bound on
  disputed purchases is a matter of deaths: an order is disputed only by being executed again, and it waits again only
  after a death. The invariant `Disputes` therefore counts the disputed orders of a book together with the one that waits
  again (`Retried`): a death adds at most that one, and executing it moves it from the second to the first.
* `ForwardExperiment_proofs`: every property of its run. What a program has read of an asset is an
  initial segment of the journal (`Prefix`), because candles are journaled in order; so the candles
  between a prediction and a maturity it has read are all there are, and an outcome stands. The daemon
  judges with the journal as it is (`Judging`), because only the daemon adds candles and predictions;
  so nothing stays overdue, and its outcomes have the frozen horizon. By `Prefix` again, an outcome that is written from an earlier read is the one
  `PredictionLedger` writes in one step: the mapping is the journal itself, every step that writes none
  of it stutters, and `Implements` is the refinement.
* `Offline_proofs`: `Purged`, `SealHolds` and `RegistryStands`, for any dataset and any missing features.
  The folds count rows and the labels count candles; `PositionGap` bridges the two: rows more than `h`
  positions apart are more than `h` candles apart, because distinct rows are distinct candles. With it each
  command leaves a study that is purged, and nothing else writes a study. The same positions bound the labels that
  read the holdout (`ReachBound`): a row of the holdout that a label reaches is at most a horizon of candles, hence
  at most a horizon of positions, behind the last row of the development part. The registry needs one
  fact more, that a version between the two commits of its promotion is known. `FetchIsExact` is proved of
  concatenated pages: a page is a run of the history without a hole, and the invariant (`Fetched`,
  `Progress`) says that the rows joined so far have no hole either, end where the next page begins, and
  include every candle before it; so a page that is short or empty ends the fetch with all there was.

The type invariants of all these modules are proved (`TypeCorrect`); those of `PaperEngine`,
`CandleStream`, `Backtest` and `ForwardExperiment` are therefore not among the properties of the runs.

Only model-checked: the liveness properties `PendingEventuallyEvaluated`, `HeardIsSettled` and
`FetchTerminates` (temporal reasoning under fairness is beyond the prover). The four runs that must fail have
counterexamples, which no proof is about.

## 6. What is not modelled

* Numeric code: feature values, regimes, estimators, calibration, metrics, drift, the ensemble. The modules
  that use it take an arbitrary choice in its place.
* The economic evaluation of an experiment, the metrics of a freeze and the files of `export_experiment()`:
  computation on what was read.
* `MultiTimeframeStore`, `cross_asset_context()` and the table of `data/storage.py`: no program of the
  repository calls them.
* Logging, explanations, argument parsing and the events that are written for audit only.
* Within the modelled components: two daemons on one database (the code neither requires nor prevents
  one); a restart with other shadow names; the length of the reconnect backoff; partial sales in the paper
  account (the engine sells whole holdings); limit orders (no program places one); fractional quantities,
  since quantities are lots and quotients round down.
