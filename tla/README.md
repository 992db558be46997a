# TLA+ for Automated-Stock-Trading

TLA+ models of the platform's stateful core, checked with TLC on small
instances, and machine-checked proofs about them (TLAPS). Paths below are
relative to the repository root.

| File | What it is |
|---|---|
| `PaperTrading.tla` | order placement, risk checks and paper fills, as concurrent processes on one database |
| `Positions.tla`, `Ledger.tla` | what the paper broker promises: of shares; of shares and cash |
| `WeeklySignals.tla` | the weekly signal feed: build, push, recap, with the predictions they write |
| `Evaluations.tla` | a worker carries out one evaluation job; it composes the next six and states their properties |
| `WalkForward.tla`, `Datasets.tla`, `TradeSimulation.tla` | fold generation; labelled rows of every target; forecasts turned into positions and trades |
| `ModelBacktest.tla`, `ModelSearch.tla`, `ForecastBacktest.tla`, `StrategyBacktest.tla` | the four evaluation jobs |
| `Lab.tla` | where models and data are made; it composes the next seven and states their properties |
| `ModelStudio.tla` | one model edited, trained, forecast with and scored by frozen backtests, by web threads and Celery processes |
| `WeekdaySuite.tla`, `DailyRefresh.tla`, `BeatSchedule.tla` | the weekday suite; the daily data chain with features and snapshots; seeding the beat schedule |
| `SearchDesk.tla`, `TrackRecord.tla`, `SymbolPage.tla` | a search as the site sees it; the live record, the gate and the size of a call; the page of a symbol |
| `PaperTradingProofs`, `FeedProofs`, `BacktestProofs`, `SearchProofs`, `RefreshProofs`, `StudioProofs`, `DeskProofs` | the theorems |
| `OrderLemmas.tla` | facts the proofs share: products and quotients, minima, maxima and ranks in finite sets, sums over sets and sequences, recursion along an interval |
| `MC*.tla`, `*.cfg` | constant values for TLC; the runs, one question each |

Check one run with `tlc -config <run>.cfg <MC module>`, the proofs with
`tlapm <module>.tla`. `PROJECT.json` maps each definition to the lines it
translates and lists the hazards, each with the properties that watch it.

## Inventory of the system

A Django site (gunicorn, several web workers), Celery workers, a Celery beat
with a fixed schedule, and PostgreSQL at READ COMMITTED. Requests are not
wrapped in transactions, Celery acknowledges a task before running it, and the
components share state only through the database, so the processes interleave
statement by statement.

| Component | State | Operations | What is hard | What makes it correct | Module |
|---|---|---|---|---|---|
| `execution.services`, `.views` | `Order`, `Trade` | `place_order`, order form | check-then-insert duplicate guard; several statements without a transaction | no live duplicates within the window; no order left PENDING; FILLED orders and trades are real fills | `PaperTrading` |
| `execution.brokers.paper` | `Account.cash_balance`, `Position` | submit, buy, sell, cancel | row locks, unlocked read-modify-write, rollback, crash after commit | each order filled at most once and by its quantity; no negative holding; cash moves with the shares | `PaperTrading`, `Positions`, `Ledger` |
| `execution.tasks`, `risk` | `Account` objects, `RiskDecision`, `DailyEquitySnapshot` | `run_trading_cycle`, `evaluate` | stale objects shared by strategies, boundary values | limits judged on the books as they are; a cycle ends | `PaperTrading` |
| `signalfeed` | `WeeklySignal`, `WatchItem` | generate, send, recap | overlapping manual and scheduled jobs, push before save, weekly calendar | the track record is that of the calls that were pushed | `WeeklySignals` |
| `signalfeed.gate`, `.sizing`, `modeling.leaderboard` | none of their own | score, judge, size | the record is scored with the model of now; board and item are read at different times | a call is sent on the score its forecasts earned, at a size within its limits | `TrackRecord` |
| `modeling` | `TradingModel`, `ModelTrainingRun`, artifact files, `ModelPrediction` | edit, train, predict, backfill | a training stores in three steps, rows are saved whole | a served artifact exists and its metrics are its own; forecasts look ahead | `ModelStudio`, `Datasets` |
| `modeling.weekday_suite`, `.symbol_selection` | models of one symbol | build, evaluate | one failing among several, stale metrics | every key is accounted for, the ranking is by skill | `WeekdaySuite` |
| `backtesting` | `Backtest`, `BacktestRun`, predictions | start, execute, store | fold boundaries, labels that mature late, redelivered tasks, pinned artifacts | no look-ahead; results are stored once and kept; a run ends | `WalkForward`, `ModelBacktest`, `ModelStudio` |
| `modelsearch` | `ModelSearch`, runs, results | edit, run, promote | three statements after a sweep; failing candidates; edits meanwhile | the best is a winner; a promoted model is what was measured | `ModelSearch`, `SearchDesk` |
| `forecasting` | `ForecastBacktestRun` | backtest, latest forecast | two guards for one boundary | they agree; the forecast is for a coming session | `ForecastBacktest` |
| `strategies` | `Strategy`, manual entries | signals, bar-by-bar backtest | all cash into shares after costs, the ends of history | never overdrawn; replay and live cycle agree | `StrategyBacktest` |
| `marketdata`, `research`, `modeling.features` | bars, news, reports, mentions, snapshots | sync, load, build features | late and corrected rows, failing symbols and providers | features of a decision are reproducible | `DailyRefresh` |
| `marketdata.views` | none of its own | symbol page | two reads of the history, warm-up of averages | the page shows what the history says | `SymbolPage` |
| schedule, `run_daily_pipeline`, `seed_periodic_tasks` | beat rows | eight jobs, seeding | order and failure of steps, admin meanwhile | exit status tells failures; hand-made tasks stay | `DailyRefresh`, `BeatSchedule`, `WeeklySignals` |
| `api`, `User`, notifications, templates | none of their own | reads, login, alerts | none of protocol kind | | not modelled |

## PaperTrading

One action per database statement, or per statement and the reads beside it no
other process can tell apart. A process (`Workers`: a Celery worker or a web
worker) walks `pc` through the code:

| pc | Action | Code |
|---|---|---|
| `idle` | `StartCycle`, `PlaceManually` | `run_trading_cycle` loads its strategies; the order form |
| `signal` | `Signal`, `Skip`, `Finish` | `_run_one`, its early returns and quantity |
| `dup`, `insert` | `CheckDuplicate`, `InsertOrder` | the duplicate guard; `Order.objects.create` |
| `opening`, `current`, `equity` | `ReadPositions` | `account.equity` begins: the query for the account's positions |
| `snapshot`, `stop`, `limit` | `MarkPosition` | a price query for each position; then the step of the next row |
| `snapshot`, `stop`, `limit` | `OpenDay`, `CheckDailyLoss`, `CheckPositionSize` | `get_or_create` of the day's snapshot; the two checks of `risk.engine.evaluate`; `RiskDecision` |
| `reject` | `Reject` | `services._reject`, `PaperBroker._reject` |
| `quote` | `Quote` | the latest close, entering `transaction.atomic()` |
| `buyRead`, `buyCash`, `buyPos` | `BuyRead`, `BuyCash`, `BuyPos` | `_fill_buy`: unlocked balance, account row, locked position |
| `sellPos`, `sellRead`, `sellCash` | `SellPos`, `SellRead`, `SellCash` | `_fill_sell`: locked position, unlocked balance, account row |
| `commit`, `saveFill`, `trade` | `Commit`, `SaveFill`, `CreateTrade` | commit, `order.save()`, the `Trade` row |

An evaluation computes the equity up to three times, each time from the balance
in hand, one read of the positions and one read of each close, kept in `check`;
a sync, another fill or midnight may come between any two of these, so the equity
may be that of no one moment. `opening` has a row of snapshots for every day so
far.

Committed rows are `cash`, `pos`, `price`, `opening`, `orders`, `decisions`
and `trades`. `obj` is the balance of each in-memory `Account` object: one per
strategy, because `select_related` gives each strategy its own, and one per
account for the form. What a transaction writes stays in `obj` and `wpos`
until `Commit`. `cashLock` and `posLock` are PostgreSQL's row locks;
`AbortDeadlock` is its deadlock detector, after which the order stays PENDING
and the in-memory balance keeps the undone fill. `Crash` loses a process
anywhere. The environment (`SyncPrice`, `WindowPasses`, `NewDay`,
`EditAccount`, `LoadOrder`, `CancelOrder`) acts at any moment; `EnvOps` says which
of it happens. A cancel is two steps: `LoadOrder` has an object of a PENDING order,
`CancelOrder` saves it as CANCELLED whatever the row says by then, so it may cancel
an order over its fill. `fills` is history: the fills whose transaction committed.

Abstractions: money is in whole units, so the rounding of columns (four
decimals for prices, two for balances) is out; `avg_entry_price`, alerts and
the strategy's computation are out (a signal is any of BUY, SELL, HOLD);
`RiskDecision` carries the number of the order it was made for, which the
code keeps only in local variables.

### What the broker promises

`Positions`: an order is booked once, filled at most once, by exactly its
quantity, in one step, never below zero shares. `Ledger` adds that the cash
moves by price times quantity in the same step. `PaperTrading` implements
`Positions` in every interleaving (`ImplementsPositions`, checked and proved)
and `Ledger` with a single process and no account edits (`ImplementsLedger`,
checked and proved); with two processes it does not, which is the run
`cash_lost_update`.

### Runs

| Run | Instance | Shows |
|---|---|---|
| `trading_concurrent` | 260,822 states: two processes, one account, one instrument, one account edit or cancel, a crash, two jobs | types, the inductive invariant, `BuyerOnlyWaitsInDeadlock`, `RecordsMatchFills`, `ImplementsPositions`, `WorkersFinish` |
| `trading_single` | 510,383 states: one process, two instruments, two prices, two environment steps (sync, window, new day), two jobs | `NoRecentDuplicates`, `ImplementsLedger`, `ApprovedExposureBounded`, `LossStopHolds`, `PendingResolves` |
| `exposure_shared_account` | one process, two strategies on one account | finding: the second is judged with the balance from before the first one's purchase, against `src/execution/tasks.py:24-25` |
| `cash_lost_update` | two processes, one account | finding: one fill's cash is overwritten, against `src/docs/PLAN.md:164-165` |

Two processes are enough for every pairwise race, and all locks here are held
by at most two parties in a cycle (one account row, one position row). Two
jobs with a cycle each give two orders per process at most, so a second order
meets what the first left behind; quantities and prices are chosen so that an
order may be unaffordable, oversized, undersupplied or fine. `MaxJobs`,
`MaxEnv` and `MaxCrashes` bound the histories. Deadlock checking is off
because a history ends when its jobs are used up.

`ApprovedExposureBounded` and `LossStopHolds` are about the closes the check read,
one by one; that these are the closes of one moment is not promised by the code and
not claimed. `RecordsMatchFills` lets a filled order say CANCELLED, which a stale
cancel leaves behind, and no other status.

The properties that need a single process are the ones two processes break:
the duplicate guard is check-then-insert, the balance is read without a lock,
and a fill aborted by the database leaves its order PENDING. They are stated
for one process because that is the scheduled case: beat starts one trading
cycle a day, and nothing else places orders unless an operator does. What more
processes do is shown by `trading_concurrent` and `cash_lost_update`.

Fairness: `WF_vars(Step(w))` for each process, that is, a process that can run
runs, and the database hands out free locks and detects deadlocks. Nothing is
assumed about the starting of jobs, the environment, or crashes.

### Proofs

`PaperTradingProofs` proves every safety property above, from `ConstantsOK` and
for any sets of accounts, (finitely many) instruments and strategies, any bounds
and any number of crashes. For any number of processes:

| Theorem | Property |
|---|---|
| `Invariant` | `IInv`, the inductive invariant |
| `StoreTypes`, `Types` | `StoreTypeOK`, `TypeOK`: no interleaving commits a negative balance or holding, no equity is negative |
| `BuyerWaitsInDeadlock` | `BuyerOnlyWaitsInDeadlock` |
| `SharesImplementPositions` | `ImplementsPositions` |
| `RecordsMatch` | `RecordsMatchFills` |

With a hypothesis that the code needs, each of them shown to be needed by a run or
by the argument above:

| Theorem | Property | Hypothesis |
|---|---|---|
| `NoDuplicatesInTheWindow` | `NoRecentDuplicates` | `OneProcess` |
| `BooksImplementLedger`, `FillsMoveCash` | `ImplementsLedger`, `FillMovesCash` | `Undisturbed`: `OneProcess` and nobody edits an account |
| `ExposureIsBounded`, `LossesStop` | `ApprovedExposureBounded`, `LossStopHolds` | `Undisturbed` and `AccountsApart`: no two strategies share an account |

The argument. That a fill moves its own quantity and no other is not inductive:
the quantity is read under a lock in one statement and published at commit. So
`IInv` says, besides types and requests (`RequestOK`), that a row lock is held
by exactly the process whose `pc` is in the part of the code that has taken it
(`LockDiscipline`), that what the holder has staged is the committed quantity
moved by its order (`StagedQuantity`; nobody else can commit that row
meanwhile), and that an unfilled order in hand belongs to one process and has
no fill yet (`OrderOwnership`; so a commit fills an order that was not filled).
Each conjunct has its own preservation lemma, with a case per action that can
disturb it. The refinement then needs one look at each action: only
`InsertOrder` and `CheckDuplicate` book, only `Commit` fills.

`RecordsInv` adds what each process knows of its order's records: between the
approval and the broker the `RiskDecision` exists, between the commit and the
`Trade` the fill exists, and the status moves from PENDING or CANCELLED to FILLED
in its own hand only, because orders are owned; a stale cancel makes CANCELLED of
any of them, and never PENDING or REJECTED.

`DuplicateInv` is about the orders that *count*: the live recent ones and those in
hand, even when cancelled (a fill revives them: `order.save()` writes FILLED over
CANCELLED). No step makes an existing order count that did not, and a new one
counts after the guard saw no live order of its kind and nobody had one in hand.
`LedgerInv` says that the balance a transaction is about to write is the committed
one moved by the fill, the cash analogue of `StagedQuantity` that no lock gives.
`FreshInv` says that outside its transaction every `Account` object a process may
still judge by shows the committed balance; after a deadlock abort it need not,
and one process alone never deadlocks. `Value` is a sum by a fold:
`OrderLemmas` proves that the recursion behind it has a solution and natural
values, by a least counterexample on the size of the set.

Only model-checked: liveness (`WorkersFinish`, `PendingResolves`).

## WeeklySignals

Days are counted from a Monday; a session's daily bar is in `bars` once a sync
has stored it. `sig` and `pred` hold the `WeeklySignal` and `ModelPrediction`
rows by item and target date, `pushed` the directions the channels accepted.
A job (`job`, `pc`) is the scheduled send, the scheduled recap, or one started
from `/signals/` or a management command on any day, with dry run and include
flat. Sending: `VisitItem` (reference close, gate, `predict` and its
update_or_create; a failed prediction is caught), `StoreSignal`, then per built
signal `Push` and `SaveSent`, or `PassOver`. Recap: `Fill` and `FillRow`
(`backfill_actuals`), `Filled` and `GradeRow`, `Recapped`. Both loops work on
rows as loaded, and save their own columns only. A prediction is scored by the
close of its session or, if the target is a return or a direction, by what that
close makes of the one it started from (`Outcome`), and is skipped while a bar is
missing (`ActualKnown`). `PredictByHand` is the predict button of a model: any
as-of date, any Friday, any moment; it writes the same rows as the feed
(`StorePrediction`). `overtaken` is history: rows rewritten while a backfill loop
held them. `Crash` kills a job anywhere;
the task is not delivered again.

The gate's verdict and the predicted move are free choices. An item's model
either has a usable artifact (`Trained`) or does not. A weekday-anchored model
predicts only if its last bar on or before the Monday is a Monday's. The
watchlist form, retraining and message texts are left out. How a verdict and a
size come about is `TrackRecord`; the daily prediction job is in `ModelStudio`.

| Run | Instance | Shows |
|---|---|---|
| `feed_concurrent` | 1,279,238 states: two jobs at once, two weeks, one item whose model forecasts a return, two closes, rises and falls, one manual job or forecast on any day, one crash | `GradeMatchesCall`, `ErrorsMatchPredictions`, `SentWasPushed`, `GradedCallsStand` |
| `feed_single` | 179,715 states: one job at a time, two weeks, a Monday-anchored model, flat and rising forecasts, two manual jobs or forecasts | `SentSaysWhatWasPushed`, `PushedInTime`, `GradedEventually` |
| `monday_calls` | the scheduled jobs alone | finding: the Monday 08:30 job stores an error for a trained Monday-anchored model, against `src/docs/DEPLOYMENT.md:116` |
| `friday_recap` | the scheduled jobs alone | finding: the Friday 17:00 recap does not grade that week, against `src/docs/DEPLOYMENT.md:117` |

Two weeks are the shortest history in which a call is made, closed and graded
by the recap of the following Friday while the next week's call is built. The
exchange trades on Mondays and Fridays only, the two days the feed
distinguishes (on Fridays only in `feed_concurrent`, whose model needs no
Monday bar). Workers are symmetric in `feed_concurrent`. `MaxManual` and
`MaxCrashes` bound the histories, and `LastDay` the calendar, so deadlock
checking is off.

Fairness in `feed_single`: beat starts its two jobs, a job that has started
takes its steps, a missing bar is fetched, time passes. Two assumptions are
guards of `Tomorrow`: a job ends on the day it began, and a bar is at most a
day late. `GradedEventually` excludes histories with a crash, after which
nothing repeats the job.

What does not hold, and is therefore not among the passing properties:

- with an earlier as-of date (`PastAsOf = TRUE`), a graded week can be rebuilt
  and its row keeps the old grade under the new call
  (`signalfeed/services.py:281-286` resets status and direction, not the
  grade); `GradedCallsStand` and `PushedInTime` say so in their formulas, and
  `GradeMatchesCall` is claimed for jobs run for the current week;
- `PushedInTime` is about days: on the Friday itself a call may be pushed after
  the close, because nothing looks at the time of day;
- a forecast stored by hand between the read and the save of a backfill loop keeps
  the actual and the error of the one it replaced; `ErrorsMatchPredictions` names
  these rows (`overtaken`) and holds for all others;
- with two jobs at once, a job can mark as SENT a row that another has rebuilt
  with another direction; `SentSaysWhatWasPushed` is stated for one job;
- a process killed between push and save leaves the signal PENDING, and the
  next run pushes it again: delivery is at least once.

### Proofs

`FeedProofs` (from `FeedConstants`), for any watchlist, calendar, prices, number of
jobs and crashes:

| Theorem | Property | Hypothesis |
|---|---|---|
| `FeedTypes` | `FeedInv`, the inductive invariant | |
| `SentMeansPushed` | `SentWasPushed` | |
| `GradesMatchCalls` | `GradeMatchesCall` | `PastAsOf = FALSE` |
| `ErrorsAreOfTheForecast` | `ErrorsMatchPredictions` | |
| `GradedCallsAreFinal`, `PushesAreTimely` | `GradedCallsStand`, `PushedInTime` | `PastAsOf = FALSE` |
| `SentSaysWhatWasPushedAlways` | `SentSaysWhatWasPushed` | one job at a time |

`FeedInv` types the rows and the memory of every job and says that the signal a
job will mark as sent has been pushed, and that a recap loads rows of sessions that
are over. `OnTimeInv`: a running job is of today, and what a recap loaded to grade is
still what the row says. A job of today builds and pushes for a session that is not
over and a recap takes those that are, so the two never meet in a row, and two recaps
write the same values. `ScoreInv` needs no such hypothesis: what a loop loaded to fill
is still what the row says or the row is `overtaken`, two loops that hold the same row
write the same values, and a bar once stored is not changed. `OneJobInv`: the outcomes in a job's memory
are the rows, and each item is visited once. Of the sorted query results the proofs
use only their elements.

Only model-checked: `GradedEventually` (liveness).

## Evaluations: what is measured

A Celery worker (or, with `CELERY_TASK_ALWAYS_EAGER`, a web thread) takes one
job and carries it out. The four kinds of job share `WalkForward`, `Datasets`
and `TradeSimulation` and no row, so a behaviour of `Evaluations` follows one
job; that they may fail or be killed between their statements is in the jobs.

- `WalkForward`: `GenerateFolds` is `generate_folds`, `Fold(c, k)` the windows of
  its `k`-th turn; sessions are numbered from 1, so Python's `lo:hi` is
  `lo + 1 .. hi`.
- `Datasets`: `HistoryLoads` says when a history is refused (no bars, a flawed
  one), `Dataset` is the labelled rows of `build_dataset` for the
  target types (`horizon`, `weekday_anchored`; a multistep label is represented
  by its last step), with `train_end`, `MinRows` and the masks of a fold
  (`TrainRows` has the purge of labels that mature inside the test block).
- `TradeSimulation`: `positions_from_forecast`, what is held over each
  interval, the trade log and the turnover.
- `ModelBacktest`: `BuildDataset` (too few rows, or no fold, fails the run), one
  `ScoreFold` per fold (which may pass a fold over), `Simulate`, `Persist` (one
  transaction, with the unique constraint on instrument and target date). Building
  the pipeline, fitting, predicting, simulating or storing may raise (`StepRaises`),
  also after folds were scored, and fails the run (`FailRun`).
- `ModelSearch`: `Expand`, `Sweep` (each candidate fits, fails, has no score or one
  that is not finite), `TryEnsemble`, then the statements `StoreRows`, `FinishRun`,
  `PointBest`, any of which may raise (`StatementFails`; a score that is not finite
  makes the insert of the rows raise) or be the last (`SearchCrash`).
- `ForecastBacktest`: the frame the harness cuts, the guards each kind of
  predictor (naive, drift, frame, statistical) applies on its own, folds,
  folds that are skipped (also because the fit raised), what raises outside the loop
  (`WalkRaises`); and `latest_forecast`, where a fit may raise too (`LiveResults`).
- `StrategyBacktest`: crossover, RSI and manual signals, and the replay with
  `BuyBar`, `SellBar`, `HoldBar`, slippage and commission. Cash is counted in
  units in which every fill and fee is whole. Bars have calendar days, with a gap
  for a weekend, and an entry may be of a day without a bar (`UtcDate`).

What a fit predicts or scores, and what it costs, is any choice. Reading day
`d`'s bar is possible from the following midnight.

| Run | Instance | Shows |
|---|---|---|
| `evaluations` | 467,432 states: 7 bar days of which an instrument may miss one, 2 instruments, both schemes, spans 1-3, steps 1-3, gaps 0-1, with and without an end, three targets; ten searches; forecast backtests over 8 days; strategies over all bars of up to 6 days | the ten properties below |
| `missing_score` | searches whose fits may have no value for the score key | finding: `SweepSurvivesCandidates` fails, against `src/modelsearch/search.py:16-17` |

`NothingLearnedFromTheFuture`: no pipeline of a fold was fitted on a label that
was not known at the first decision it is tested on.
`DisjointBlocksAreStored`: with a step of at least the test span, a run never
fails on the unique constraint. `LogIsWhatWasHeld`: the trade log accounts for
every interval of the equity curve and every unit of turnover.
`BestIsTheTopScore`, `OneRowPerCandidate`, `FrontierCovers`: the pointer of a
search, its rows, its Pareto flags. `GuardsAgreeWithTheHarness`,
`LiveForecastIsAhead`: the two guards of one boundary agree, the live panel looks
ahead. `EquityIsExplained`, `ReplayAgreesWithLive`: money is conserved and never
overdrawn; the signal replayed at a bar is what a live cycle would have seen.

The bounds are enough because folds are positions in a list and every relation
between spans, step, gap and number of sessions that the code distinguishes (a
fold that fits exactly, one short, overlapping, adjacent or with a hole between
test blocks, an embargo as long as the label) occurs within seven sessions.
Deadlock checking is off because a job ends.

### Proofs

`BacktestProofs` (from `DatasetConstants`, `BacktestConstants`):
`FoldsTrainOnThePast` and `DisjointBacktestsAreStored`, for any bars, targets,
schemes and spans. `BacktestInv` says that the rows a run scores are the dataset
of its inputs, that folds and predictions kept are of folds the loop has been at,
and that each prediction is the record of a row of its fold's test block. A
label is determined by its decision and blocks march on with the step, which
makes target dates distinct; the purge in `TrainRows` bounds every training label
by the start of the test block.

`TradesAreWhatWasHeld` rests on `BacktestInv` for the series being sequences of
sides. `TradeLog` reads a series interval by interval: after bar `k` the log
covers every interval so far, its last trade is the position still open, and the
turnover charged so far is two for each trade less the exit still due
(`ReadUpTo`); each case of `ReadInterval` keeps that, and the close-out on the
last bar pays the exit.

Also in `BacktestProofs` (`StrategyConstants`): `ReplaysSeeNoFuture`. Each indicator at
bar `k` is a function of a window that ends at `k`, so cutting the history there
does not change it; the crossover's first bar with both averages is the one
exception, and the theorem names it. `MoneyIsConserved`, for any bars, signals,
costs and initial cash: `MoneyInv` keeps the `Account` of a replay, that is, its
cash is the initial cash and the profits of the closed trips, less what the open
position cost; a buy is affordable because the number of shares is a whole
division by the cost of one, and the fold over the log is the sum of its trips.

`GuardsAgree` and `LiveForecastsAreAhead` (`ForecastConstants`), for any calendar,
folds and embargo: the last label a fold is fitted on is its first decision when
there is no embargo and lies before it when there is one (`SliceOfFold`), which is
all the predictors' guard looks at; the live panel fits through the last bar.

`SearchProofs` (`SearchConstants`): `BestIsNeverBeaten`, `FrontierIsEnough`,
`CandidatesAreStoredOnce`. The de-duplication keeps the first of equal candidates;
the rows and the candidates left stay pairwise different; the ensemble is tried
when no row is like it, and then one is.
`SearchInv`: rows are stored once, after the sweep, with finite scores; the
pointer is set last and to a row of rank 1. Rank 1 is a maximum; that every
scored row is on the frontier or dominated by it needs a minimal element of a
finite strict order, proved in `OrderLemmas` from cardinalities.

Every property of this part that holds is a theorem.

## Lab: where models and data are made

Seven components that meet only in rows each treats as given; a behaviour follows
one of them and leaves the others idle (`StudioIdle`, ...).

**`ModelStudio`**. One `TradingModel` row (`sdModel`), its training runs, the
artifact files by run id, stored forecasts, the frozen-artifact backtest's runs
and the queue. A web thread or Celery process holds the row it loaded
(`sdJob[w]`) until its operation ends: training is `BeginTraining`, `FitAndDump`
(file), `RecordTraining` (run row), `Serve` (three columns of the model), so a crash or
another operation may come between any two; `SaveEdit` writes every column of the
edit's row, artifact included, as it was loaded. `TakeTask`, `Score`, `Persist`,
`FailScore` are the Celery backtest. Starting one is `CreateRun`, which commits the
row, then `SendTask`, or `RefuseTask` when the broker is out, after which the row
stays RUNNING. `DeliverAgain` redelivers a task, `DeleteRun`
and `DeleteTraining` are the admin's, `StudioCrash` kills a process, and the day
goes on (`NextSession`).

**`WeekdaySuite`**. `PickInstrument` (the named instrument, or any that has the
history `score_instruments` asks for), `RefuseKey` or `TrainKey` per estimator,
`EvaluateSuite`. `Sorted` is Python's stable sort. A key that is listed twice gives
two model objects of one row, and the first keeps the metrics of its own training.

**`DailyRefresh`**. The pipeline command with `--only`, `--skip`, `--fail-fast`
runs its jobs one by one; each may raise (`JobRaises`) and each may pass over
failing symbols or providers (`Outages`: the columns of a provider that raises are
missing). A fact is a stored row with the instant it became public, and a feature is
abstracted to the facts it is computed from (`FeatureRow`). The operator enters rows
of any past date, and manual signals of later ones; `EditSignal` changes a manual
signal in place, its instrument and date included.

**`BeatSchedule`**. `seed_periodic_tasks` statement by statement (`UpsertJob`,
`PruneStale`, `LookForOrphans`, `DeleteOrphans`) beside an operator in the admin.

**`SearchDesk`**. Web threads edit a search (`OpenEdit`, `SaveColumns`,
`SaveSymbols`: the row is loaded first and saved whole, the instruments after
it), start runs (`CreateSearchRun`, then `SendSearch` or `SearchNotSent`) and promote
results (`Promote`, `CopySymbols`); the worker loads the search (`TakeSearch`), its
instruments (`ReadDataset`), and stores, or dies (`SweepDies`). A task may be
delivered again (`RedeliverSearch`) at any time: the second sweep of a run that has
rows is refused by the unique constraint (`StoredBefore`) and turns it FAILED. `skEdits`
counts the statements that changed what the search asks for.

**`TrackRecord`**. One model, one watch item, one instrument. Days pass, closes
are corrected, the model is edited, retrained, switched on and off, forecasts
are made and graded, while `generate_weekly_signals` builds the board
(`BuildBoard`), loads the item (`LoadItem`) and decides (`Decide`: gate, forecast,
direction, size). Numbers are whole multiples of `1/Unit`, rates are fractions.

**`SymbolPage`**. `DrawChart` (window, warm-up, simple and exponential averages
as exact fractions), `FillPanel` (the second read), `SyncSession`.

| Run | Instance | Shows |
|---|---|---|
| `lab` | 403,187 states. Studio: a web thread and a Celery process, five configurations, seven worlds of what may happen (trainings, edits, pins, backtests, redelivery, a refused task, deletion, sessions, crash). Suite: pairs of four instruments, three keys of which one may be unknown or listed twice. Refresh: three days, two lags, one late row and one edit of a signal, one provider that may be out. Beat: two jobs, one retired, one hand-made, two admin steps. Desk: two web threads, one sweep at a time, four posted forms of which one is not clean, a redelivered task. Record: two prices, up to four days and two forecasts, four worlds. Page: up to four bars, three periods, one sync | the twelve properties below |
| `frozen_leak` | one training, edit and backtest | finding: `FrozenScoresUnseen` fails, against `src/docs/BACKTESTING.md:114-117` |

`ServedArtifactIsWhole`, `FrozenIsOutOfSample`, `BatchForecastsAreAhead`,
`StoredResultsStay`, `RunsFinish` are about the studio; `SuiteReport`,
`PipelineTellsFailures`, `FeaturesReproduce`, `HandMadeTasksStay`,
`PromotedAsMeasured`, `CallsAreEarned`, `PageIsTrue` about one component each; each
is stated in words above its definition.

Bounds. `Budgets`, `DeskBudgets`, `TrackBudgets` say how often each kind of event
may happen in a behaviour, a set of worlds instead of one large one: each world
brings together the events one hazard needs (training with edit and backtest,
redelivery with deletion and crash, forecasts with sessions, ...). Weeks have
three days and day 5 is a holiday, so a weekly decision, a missed session and
three weeks fit into nine days. A behaviour of the record ends with its signal.
The record's prices are one doubling apart, so every move, forecast and stake is
exact. TLC runs one Celery process, so two deliveries of a task come one after the
other there; that they may run beside each other is in the proofs, which are for any
number of processes. Deadlock checking is off because budgets run out.

Fairness (`LabFairness`): a Celery process carries on with the task it took and,
when idle, takes one that waits. Celery's worker loop justifies that; nothing is
assumed of web threads, the operator, the days or the schedule. `RunsFinish`
(a run whose task was sent ends, unless a process died) needs it, nothing else does.

### Proofs

`StudioProofs` (`DatasetConstants`, `StudioConstants`), for any number of web
threads, Celery processes, days and events: `LabInvariant`, and from it
`ArtifactsAreWhole`, `FrozenScoresAreOutOfSample`, `BatchLooksAhead`,
`ResultsAreKept`. The invariant turns on *settled* artifacts: the file exists,
its run succeeded (or was deleted since), and no job is training it. Every row
that names an artifact, in the database or in the memory of some operation, names
a settled one, and no step unsettles one (`Growth`), so the stale row an edit or a
redelivered task writes or reads still serves a whole artifact. Training jobs
have distinct runs. A frozen run that is about to be stored is out of sample
already when it is scored.

`RefreshProofs` (`RefreshConstants`, `ScheduleConstants`):
`FeaturesAreReproducible` and `SeedingKeepsHandMade`. `RefreshInv`: a forecast
carries the features of the facts known at its moment, from the providers that
worked then; each column depends only on facts that date from the decision day or
before, so where these are equal the columns that both builds have are equal. A row
that was moved to another date or instrument is a fact lost and a fact gained.
`PipelineReportsItsFailures`: the outcomes so far and the jobs left make up the
jobs selected, and the list of failures holds those that raised.
`PagesAreTrue` (`PageConstants`), for any history, range and periods: a slice is
the end of what it is taken from, the bars an average is computed over reach back
by the longest period or to the first session, and the running sum of the last
`p` values is the sum of the `p` bars before the session shown (`RunningSum`, by
a least index at which it is not). A panel compares the history at the second
query with the last close shown.
`SuitesAreReported` (`SuiteConstants`), for any keys, repeated or unknown ones
included: a model object is trained exactly if the row was before the call or a
run of its key so far succeeded (`TrainedBy`), and the sort puts every row in one
place, in order, because the rows ahead of a row are fewer than those ahead of
the next (`EveryPlace`).

`DeskProofs` (`DeskConstants`): `PromotionsAreMeasured`, for any number of web
threads, saves, runs and promotions. The argument compares versions: every
statement that changes what a search asks for raises `skEdits`, so what carries
the present count agrees with the search as it is (`IsMeasured`, of results and
of the task in hand). A promotion reads the search twice; a model whose candidate
carries the present count at the second read carried it at the first, and finds
both times what was measured. For the pointer, `IsBest` says that a best result
won a run that succeeded and that no worker is on, or that was taken again, of the
row's value and of every value an open edit may write back. A run that was taken
once is not failed after its success, because only a worker on it could.

`DeskProofs` also proves `SentCallsAreEarned` (`TrackConstants`: a unit in which
every return between two closes is whole, so the truncating division of the model
is the exact one of the code), for any days, closes, forecasts, corrections,
edits and trainings, and any watch items and holdout metrics. `TrackStateInv`: a
grade is that of the target it was filled for and, while its two closes stand,
of those closes; a leaderboard row that a job carries was a score of the record
it was built from (`Scored`), and neither changes when the record does. What a
score says is arithmetic over sums: the base a price forecast is measured from is
the close it was made at (`BaseIsStored`), a return has the sign of its move
(`ReturnSign`), the errors of a classifier count its misses (`SummedCount`), and
a skill above zero is a sum of errors below that of no change. The whole division
that gives the shares only ever loses (`SizeIsWithin`).

Only model-checked: liveness (`RunsFinish`).

## Findings

Six runs expect a violation, each of something a document or comment says:
`monday_calls`, `friday_recap`, `exposure_shared_account`, `cash_lost_update`,
`frozen_leak`, `missing_score`. `PROJECT.json` quotes the lines.

What the modelling also showed, true of the code and part of the models where
they have the state for it:

- an edit of a model or a search loads the row, then saves every column: an edit
  that overlaps a training restores the artifact and metrics of before, one that
  overlaps a sweep restores the old `best_result` (`modeling/views.py:40`,
  `modelsearch/views.py:61`);
- `promote_result` copies the specification the search has now, which may not be
  the one the result was measured under (`modelsearch/services.py:49`);
- `predict` checks the feature names of an artifact, not its target: after a
  target is edited, forecasts come in the old units, and the leaderboard scores
  older price forecasts as returns (`modeling/prediction.py:52`,
  `modeling/leaderboard.py:136`); `CallsAreEarned` exempts such records and those
  whose closes were corrected. One graded forecast is a live record
  (`signalfeed/gate.py:36`);
- a stale `cancel_order` writes CANCELLED over a filled order: the status is tested
  on the object, then every column is saved (`execution/brokers/paper.py:59-63`);
- a Celery task delivered twice after success turns the run FAILED, its rows stay
  (`backtesting/engine.py`); a search does the same, with `best_result` still
  pointing into the failed run (`modelsearch/search.py:362,378-383`);
- the row of a run is committed before its task is sent; when the broker refuses the
  task or the web thread dies in between, the run stays RUNNING
  (`backtesting/services.py:32-33`, `modelsearch/services.py:32-33`);
- a forecast by hand that replaces a row while the backfill loop holds it keeps the
  old actual and error (`modeling/views.py:148`, `modeling/prediction.py:189-195`);
- with a step shorter than the test span the
  target dates repeat and the run fails although `Backtest.clean` accepts it;
- `evaluate_suite` says "trained", with older metrics, of a model whose last
  training failed (`modeling/weekday_suite.py:154`);
- a symbol or provider that fails is logged and passed over: the pipeline exits 0;
  `ResearchSnapshot.provider_keys` lists providers that failed, and training
  recomputes features although `research/models.py` says it reads the snapshots;
- seeding re-enables jobs an operator disabled, and a crontab that is an orphan
  when the command looks takes along a task that is put on it before the delete;
- the crossover buys at the first bar with both averages, in a replay only;
- a manual entry of a date acts on the bar of the next day, that bar's time stamp being
  local midnight, the day before in UTC; one of a Friday never acts
  (`strategies/manual.py:28`);
- SARIMA and ETS skip every fold when the embargo is one session or more;
- a multistep target with the default score has no score in holdout mode and
  fails every search (the finding `missing_score`).

## Plan

Done: `PaperTrading` with its abstractions and proofs; `WeeklySignals`;
`Evaluations` and its six modules; `Lab` and its seven; the theorems above.

Next, in this order:

1. Watchlist edits while a feed job runs; deletion of a model with its artifacts
   still pinned by a backtest; creation and deletion of searches.
2. The `ml_model` strategy, which joins `StrategyBacktest` with `ModelStudio`.

## Not modelled

- Numeric code: estimators, metrics, explanations, indicator values, sentiment,
  Kelly rounding for display, column rounding of prices and balances. Their
  results are free choices, or abstracted to what they were computed from.
- Read-only API and serializers, accounts and scoping, dashboards, the layout of
  charts, templates, admin display, migrations, message texts and order alerts:
  no protocol state of their own.
- Scraping of the exchange: a sync stores what a provider returns, any day, late
  or corrected.
- The score by which symbol selection ranks, the translation of forecast backtests
  into trades, deletions in the admin other than of trainings and backtest runs.
- The `ml_model` strategy, the calendar and strategy feature sources, the dry run
  of the seeding, the ranking of several models on the leaderboard.
- Cron arithmetic and Celery's own bookkeeping are external; tasks are
  acknowledged before they run and may be redelivered by hand or by the broker.
