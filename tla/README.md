# Verification of backtesting-agent

TLA+ models of the research agent and the backtesting pipeline of this repository, the TLC runs that
check them on small instances, and TLAPS proofs that hold for every instance. Paths are relative to
the repository; `backend/` stands for `src/backend/`, and `ai/`, `backtesting/`, `marketdata/` for
the packages below it.

Contents: [the system](#1-the-system) · [the modules](#2-the-modules) ·
[the runs](#3-the-runs) · [fairness](#4-fairness) · [the proofs](#5-the-proofs) ·
[where code and documentation disagree](#6-where-code-and-documentation-disagree) ·
[what is not modelled](#7-what-is-not-modelled) · [plan](#8-plan) · [usage](#9-usage)

## 1. The system

A user asks the server for a *research run*: a goal, a pool of assets, a budget of backtests. The
run is one coroutine on the server's event loop. It proposes strategies, backtests them, passes
them through statistical gates and an adversarial critic, validates the survivors on data nobody
has looked at, and after every trial decides whether to go on, to move to the next asset, or to
stop. What it finds is written to a database while it runs, and what it has searched is remembered
for later runs. The page of the run in the browser follows it through polls and an event stream.

The same backtest engine is used from the command line, for one backtest, an optimisation or a
walk-forward validation of many combinations. A script run by hand calibrates the grid of cells the
agent searches.

### Parts, state and operations

| Part | State it keeps | Operations | Talks to |
|---|---|---|---|
| Research loop and Director (`ai/research/loop.py`, `state.py`) | `ResearchState`: phase, asset queue, counters, candidates, failures, hold-out peeks, OOS results | one iteration: propose, guard, data, backtest, gates, critic, OOS, decide | every part below |
| Trial budgets (`ai/research/budgets.py`) | one `BudgetUsage` per agent | `check_and_consume`, daily reset | loop |
| Lineage (`backtesting/validation/lineage.py`) | the forest of strategy lineages | `create_root`, `create_child`, `get_root` | loop (key of the caps), lockbox (key of the allowance) |
| Run lifecycle (`ai/research/router.py`, `persistence.py`, `api/main.py`) | `RunRecord`s in memory, the `research_*` tables, a heartbeat task per run | start, pause, resume, stop, cancel, snapshot, start-up repair | loop (control flag, shared lists), database thread |
| OOS lockbox (`backtesting/lockbox/service.py`) | budget per lineage, ledger per campaign, one terminal verdict per strategy, in one SQLite file | `ensure_budget`, `get_result`, `evaluate` | loop, evaluator; other runs and processes on the same file |
| Coverage memory (`ai/research/coverage.py`, `strategist.py`) | per run: visited cells, tried hashes; stored: visit count per cell | load, pick, mark, flush, backfill | strategist, gates (search size), database |
| Gates, gatekeeper, critic (`backtesting/gates/`, `ai/research/gatekeeper.py`, `critic.py`) | what the run has searched: trials measured, variance, search size | `evaluate`, `update_registry_stats`, `review` | loop, token ledger |
| Token ledger (`ai/research/agent_llm.py`) | cost of the run's LLM calls, shared by three agents | `record`, `record_failure` | strategist, critic, reporter |
| Evaluator (`backtesting/validation/evaluator.py`) | none | verdict of one out-of-sample test | lockbox |
| Run assembly (`ai/research/run.py`, `StartRunRequest`) | none | what a request becomes: window, hold-out, lockbox, models | loop, gates, LLM registry |
| Read API and run page (`router.py`, `persistence.py`, `frontend/`) | the page: status, rows shown, a cursor, requests under way | `/state`, `/events`, the event stream, `/stats`, candidates, report, lineage | run records and the `research_*` tables |
| Data providers (`marketdata/provider.py`) | none | one request to one of eight services, chained or aggregated | price cache, loop's data step |
| Price cache (`marketdata/cache.py`, `yahoo.py`, `alphavantage.py`) | `price_cache` rows | `get_or_fetch`, replace, append, `invalidate`, `fetch_and_cache` | providers, database |
| Backtest engine and strategies (`backtesting/engine/runner.py`, `event_gate.py`, `strategies/`) | class attributes of a strategy, state of one walk over the bars | `run_backtest`, `next()` of eight templates | event gates, event registry |
| Optimizer, walk-forward, confidence (`engine/optimizer.py`, `walk_forward.py`, `confidence.py`, `marketdata/windows.py`) | one study | `optimize`, `walk_forward_validate` | engine, result store |
| Command line and result store (`backtesting/cli.py`, `results/store.py`) | trials and windows stored | `run_pipeline`, `save_*` | providers, optimizer |
| Calibration scripts (`scripts/`) | shards, a results file, a K-seed file | phase A, phase B, extension rounds, K-seed stage, panel draw | engine, files |
| Event registry (`backtesting/registry/`) | append-only events; status derived from them | register, transition, snapshot | engine, command line |
| LLM access (`ai/ai_service.py`, `ai/providers/`) | provider settings | completion calls | strategist, critic, planner |
| Accounts, costs, benchmarks, quality checks, deployment | user rows, settings | create, read, update, delete; arithmetic | everything |

### What makes it hard

* **Everything shares one event loop.** A run gives up control in an LLM call, while it is paused,
  in every database statement. At those points the user's requests, the heartbeat, midnight and
  other runs happen. In `rule_based` mode the loop never awaits and none of this exists.
* **Cancellation is asynchronous, and the database is on another thread.** `task.cancel()` reaches a
  coroutine at its next await. A COMMIT that was queued is executed all the same.
* **The server can die anywhere**; Docker restarts it. Memory is lost, rows stay.
* **One lockbox file, many users of it**: runs of one server, and other processes.
* **Many counters with different life times**: per trial, per asset, per lineage, per day, per run,
  per campaign. Most properties of the loop are about a counter that must, or must not, outlive
  something.
* **State on a class.** The engine hands event gates and the warm-up mask to a strategy by class
  attributes, so one backtest can see what another left behind.
* **A page is a second process.** Its requests overlap, their answers arrive in any order, React
  tears an effect down and starts it again while its poll is still under way, and the server it asks
  may have been restarted in between.
* **Long jobs are killed and run again**: the command line with Ctrl+C, the calibration at any
  write. What is left on the disk is taken up by the next invocation.

What each part must guarantee is listed with the properties in section 3; the line at which each
hazard bites is in `PROJECT.json` under `hazards`.

## 2. The modules

| Module | What it is |
|---|---|
| `AgentBudget` | the anti-brute-force caps as operators on a usage record |
| `ResearchSession` | abstract: what a run promises its user |
| `ResearchLoop` | the loop, the Director, the trial guard, hold-out and OOS step; extends `AgentBudget`, implements `ResearchSession` |
| `RunStatus` | abstract: how the status column of a run may move |
| `RunLifecycle` | record, task, heartbeat, snapshots, endpoints, crash and restart; implements `RunStatus` |
| `VerdictLedger` | abstract: each strategy is judged once, within its allowances |
| `OOSLockbox` | the lockbox and its callers, statement by statement; implements `VerdictLedger` |
| `CoverageMemory` | the coverage table, the runs that search with it, backfill |
| `GateRules` | when each gate lets a trial pass, in each tier of rigor and each mode; operators only |
| `TokenLedger` | what the LLM calls of a run cost; actions on three variables |
| `TrialReview` | how a run judges its trials: gate pipeline, critic, confidence, spending; extends the two |
| `RunAssembly` | what a request for a run turns into; extends `TrialReview`, operators only |
| `RunViews` | what the API answers about a run, from memory or from the tables, through crashes |
| `ConsolePage` | the run page and the dashboard in the browser; composed with `RunViews` |
| `ProviderChain` | what each market data provider may answer, and how they are chained; operators only |
| `PriceCache` | the `price_cache` table and its writers; extends `ProviderChain` |
| `StrategyRun` | one backtest after another on one strategy class: gates, mask, templates, broker |
| `Study` | an Optuna study with its workers, pruning and early stop |
| `WalkForward` | windows, confidence tiers and verdict of walk-forward validation; operators only |
| `Pipeline` | `run_pipeline` and the library callers; composes `Study` and `WalkForward` |
| `Sweep` | what one sweep of the calibration measures; operators only |
| `CalibrationStudy` | the calibration script, invoked again and again over its files; extends `Sweep` |
| `MC*` | instances for TLC: finite constants, no behaviour |
| `ResearchLoop_proofs`, `RunLifecycle_proofs`, `PriceCache_proofs`, `CalibrationStudy_proofs` | theorems and proofs about the module they are named after |
| `TrialReview_proofs` | the same about `TrialReview` and `RunAssembly` |
| `SharedStores_proofs` | about `CoverageMemory` and `OOSLockbox`, whose definitions have names that do not clash (`LockboxInit`, `LockboxSpec`, ...) |
| `ConsolePage_proofs` | about `RunViews` and `ConsolePage` |
| `Backtests_proofs` | about `StrategyRun`, and about `Pipeline` (`PipelineInit`, `PipelineSpec`, ...) with `Study` and `WalkForward` |

### ResearchLoop

`pc` is `state.phase`, with names for the points of `research_loop` that have none (`LOOP_HEAD`,
`DECIDING`). One action is what the coroutine does between two points where it can branch or
suspend: `BeginIteration`, `Propose`, `ProposeFails`, `Admit`/`Skip` (the trial guard), `DataFails`,
`Execute`, `ExecuteFails`, `PassGates`/`FailGates`, `CriticKills`, `CriticAccepts`, `TestHoldout`,
`HoldoutTooThin`, the four outcomes of the OOS step, the three decisions of the Director, `Report`.
The rules R1 to R6 of the Director are one operator, `Decision`, in the order of the code. The
environment (`SetControl`, `ExceedTimeOrCost`, `NewDay`, `OtherRunEvaluates`) is enabled only where
the coroutine awaits.

Prices, parameters and metrics are abstracted: a strategy is a model value with a template, a
backtest yields a Sharpe ratio out of a small set, and gates, critic and statistical tests yield
any of their outcomes. Hypothesis and lineage identifiers are kept up to renaming: three numbers
suffice, because at most one is current and one is remembered in `BudgetUsage`; a fresh identifier
is any other one. The history variables `admitted`, `admittedMutations`, `barren` and `fruitless`
count what the properties speak of independently of the code's own counters.

The lockbox inside `ResearchLoop` is what one run sees of it: `verdicts`, the allowance of its
current lineage, the campaign ledger, and other runs that write between its awaits. `OOSLockbox`
is the same file seen from the inside.

### RunLifecycle

A step is what a coroutine does between two awaits. `task` is where `_run_and_track` is suspended,
`beat` where the heartbeat of `_sync_loop` is, `flush` the `persist_snapshot` in progress (the write
lock admits one): `waiting` for the row, `saving` the copied rows, `committing` with the COMMIT on
the database thread, `landed` when that thread has executed it. `CommitLands` belongs to the thread
and is not stopped by a cancellation; `AdvanceCursors` belongs to the coroutine and is. Events,
candidates and failures have a cursor each, advanced together, so one sequence of numbered events
stands for the three; `row.copies[e]` counts how often event `e` was stored.

`Crash` loses everything but `row`. `Restart` includes `mark_orphaned_runs_interrupted`.

### OOSLockbox

`evaluate` computes the new counters from what it read before the backtest, so a call carries what
it has read (`used`, `spent`, `new`) to its `Commit`. `oneLoop` says whether all callers live on one
event loop (a call is then not interleaved, because `evaluate` never awaits) or are processes of
their own on the file; both are initial states, and it never changes. Primary keys are modelled by
what they do: a transaction that inserts a row somebody else has inserted fails as a whole
(`Collision`).

### CoverageMemory

For one user, one asset and the default window. The calibrated resolutions of the grid and the
distance are constants: `CellOf` maps a point to its cell, `Centre` a feasible cell to the point
the code proposes for it, `Distance` is any symmetric positive function. `FirstPick` and
`NextPick` are `pick_cell` (middle first, then any cell with the largest distance to its nearest
visited cell), `Fallback` what `propose` does when all templates are saturated, `ProposeLLM` a
proposal of the LLM strategist. `Mark` also stores the attempt or not: a trial can be dropped by
the trial budget or by its data, and then leaves no row. `BeginFlush` and `CommitFlush` are the
two ends of `persist_coverage` with the await in between. `backfill_coverage` has no caller in
`src/`; it is modelled as an operation an operator may run between any two steps of the runs.

### TrialReview

`ResearchLoop` takes the verdicts of gates and critic as any outcome; `TrialReview` computes them.
A trial is the record of numbers the executor reports, in whole percents, hundredths or basis
points, so that each gate of `GateRules` is the comparison the code makes, multiplied out. Two
gates are not functions of it: `deflated_sharpe` calls the statistic `Dsr`, and `leakage_canary`,
which reruns the trial on random walks, answers either way. `Dsr` is any function that is 0 without
a search or without a variance (`deflated_sharpe.py:55`) and, where both are positive, falls with
either.

`GatePasses`, `GateFails`, `GateRaises` and `SkipGate` are the body of the loop in
`GatePipeline.evaluate`, one gate a step; a gate that computes on the metrics may raise.
`PassGates` and `FailGates` are what `research_loop` makes of the report. `ReviewByRules`,
`ReviewByLLM`, `ReviewFallsBack` and `CriticRaises` are the paths through the critic; each ends in
`Critique`, which also grades the idea in regime mode. Strategist, critic and reporter share
`usedEur`; each compares it with the limit before its call and adds the cost after it.
`GatekeeperRaises` and `CriticRaises` exist because the loop takes both as parameters and guards
against them. `registry` is what the loop tells the gatekeeper before each evaluation.

Left out: the first gate always passes, since the strategists stamp every specification; the
critic's "no benchmark" is never found, since the loop always hands one over; the regime hold-out
after the critic is in `ResearchLoop`.

### RunAssembly

The options of a request are settled in the order of the code: enums, OOS switch and window,
provider and models, coverage memory, softened gate, lockbox. The result, `SettingsOf`, is a setting
of `TrialReview`, so that what the request loosens meets the gates that judge it. What the power
canary measures is external (`Power`). It is a function of its input and is proved about, not run:
`HoldoutIsFair` and `BackedByTheLockbox` hold for every request.

### RunViews and ConsolePage

`RunViews` is the server seen by a reader: the `RunRecord` (`live`), the committed rows (`db`) and
the snapshot between them. Each answer is an operator with the two sources the endpoint has: the
record if it is there and belongs to the user, otherwise the rows. Lists and counts are kept as the
code keeps them, in order and with repetitions: `Cap` cuts the ideas, `Graveyard` has the total and
the count per cause. A trial is what one attempt leaves behind, and a lineage tree is the number of
its nodes, published at the head of each iteration and at the end. The write protocol is the one of
`RunLifecycle`: `Pause` and `Resume` set the status that the next heartbeat stores, `HeartbeatCut`
is a cancel that a COMMIT already sent may outlive (`late` remembers that), and `Restart` marks a
row that says `running`, and no other.

`ConsolePage` adds the browser. A request for `/state` reads the record and counts the rows in two
steps, and its answer arrives in a third. `effect` is what the effect of `useRunEvents` closed over,
`since` the reference all effects share, `stream` the server's generator with its two quiet rounds;
a poll of an effect that was torn down stays under way. `dash` is `aggregate_stats` between its two
reads. A member of `Browsers` says what is open (the page alone, the page with the activity list, a
dashboard), whether the user pauses and resumes, and what run is looked at.

### ProviderChain and PriceCache

A provider is a function from a request and the state of the world to the answers it may give: an
error, nothing, or bars with their span, the hour of their stamps, their spacing and the basis of
their prices. The hour is what tells a service that names the date (midnight) from one that gives
the instant its exchange's day began (`zone`): Yahoo's bars of New York are kept at 04:00 or 05:00
UTC (`cache.py:248`), those of Frankfurt at 22:00 or 23:00 of the day before. The chain is what
`create_provider` builds for a setting.

`PriceCache` is one symbol with daily bars. A row is keyed by its stamp, in thirds of a day, and
every comparison of the code is one of stamps: the bounds of a window are midnights (`Covered`), so
of its last day it takes in only a bar stamped at midnight or before; the head check, the age of the
tail, the range of a delete (`Reach`) and the cutoff of `invalidate` all feel the hour. `Load`, `Ask`, `Clear`, `ReadExisting`, `Insert` and
`Reload` are the statements of `get_or_fetch` and `replace`; they are steps because the process may
die between them, and on the one event loop of the server no other call comes between (`MayRun`).
`fetch_and_cache`, the older writer, awaits at each statement and is interleaved. `Rebase` is a
split or dividend, after which the provider's whole history is on a new basis. The histories are
`stored`, the days ever stored and not invalidated, and `torn`, the days a crash took between the
two commits of a replace.

### StrategyRun

Time counts bars. `Begin` is `run_backtest` up to the walk: checks, `Preload` of the event gates,
`Attach` to the class, what stays from the run before. `Bar` is one bar: the broker of
backtesting.py (external: orders are carried out on the next bar, a margin refusal, a stop), then
`next()` of one of eight templates. Which way an indicator points on a bar is free, except that the
decision tree of the code decides what follows. `Binding` is a second definition of the gates in
force, from what the decision says, against which the entries are judged. `Finish` and `Raise` are
the ends with the events they leave in the registry.

### Study, WalkForward and Pipeline

`Study` is `optimize`: trials are asked for, run, told, and their callbacks run in the worker that
made them, while others go on. What a choice of parameters yields is a landscape: a value, invalid,
an error, not finite. `WalkForward` has the windows, the scaled trade floor with Python's rounding,
the tiers and the verdict as they are computed; the statistics are external (`TCritical`).

`Pipeline` takes combinations one by one, with the commits of a combination as steps of their own
(`unsaved`), a first Ctrl+C noticed between tasks and a second one that exits at once. The settings
the command line leaves at their defaults (workers, patience, determinism) are those of the
library's callers.

### Sweep and CalibrationStudy

`Sweep` gives the readings of one name for each window, dial and rung, the tensor of the usable
ones, and the search for the finest rung past the target; what a backtest yields is given by
constants. One base setting stands for those of a dial; bootstrap, pooling, saturation and
interpolation are left out, which move the value reported and not the rungs it is looked for on.
The code also extends a dial whose pooled selection is at the floor (`sel["at_floor"]`, line 798),
so it extends in some cases in which the model does not; the floors the property is about are those
of the windows, which both extend.

`CalibrationStudy` is the script as its owner runs it: `Start` with phase and flags, `Plan`, a
worker's `Scanned` or `ScanFails`, a broken pool, the writes of a shard, of the results and of the
K-seed file, each of which a kill may leave half written (`Torn`). One invocation runs at a time.

## 3. The runs

All bounds are constants of the modules, given in the `.cfg` files.

| Run | Question | Instance |
|---|---|---|
| `loop_oos` | Do the books balance, do verdicts stand and does a robustness run end, with the lockbox, the user, midnight and other runs interleaved? | one asset, two strategies of two templates, 3 backtests, 4 iterations, goal 2, an allowance of one verdict per lineage and campaign; about 790 000 states |
| `loop_regime` | Does the Director leave dead assets and share its time, is its watermark earned, and does the hold-out tighten, when an asset comes up twice? | one ticker twice in the pool, two Sharpe ratios, 3 backtests, all breakers at 2 |
| `run_safety` | Is what is stored of a run true under every endpoint, failing writes and two crashes, and does each run come to an end? | 4 events, every request; 85 000 states |
| `lockbox` | Are verdicts final, exact and within the allowances, on one loop and with several processes? | two callers, three strategies, two lineages and campaigns, allowances of 2; 216 000 states |
| `coverage` | Is no visit lost, do later runs search elsewhere, is the sampling evenly spread? | two runs, a template of three unevenly spaced cells and one of a single cell, symmetry over runs; 536 000 states |
| `review` | Is a killed trial put down to the right gate, and has a survivor been held to every demand? | 63 kinds of trial around the thresholds, five settings, three measured trials a run, a budget of two calls; about 880 000 states |
| `prices` | Does the cache keep its bars, and is what it serves sound? | two callers with symmetry, 4 days, 3 calls, one rebase, one crash, five settings of the providers, stamps at, before and after midnight; 1.43 million states |
| `strategy` | Do entries follow the gates of their own run, and does the result add up? | two runs of one class, 7 bars, eight templates, four gate decisions, windows cut down to two bars and less; 140 000 states |
| `pipeline` | Does a study return its best, is validation earned, is no combination lost? | seven callers, two symbols, two strategies, studies of up to 4 trials, three windows; 658 000 states |
| `console` | Do the answers of the API survive a restart, and does the page learn the truth? | two users, two trials, four browsers, one of them with a user who pauses and resumes; 428 000 states |
| `calibration` | What are the results made of, after any sequence of invocations and kills? | four names, two dials, two alternative panels, four invocations, one fault, one kill; 335 000 states |
| `calibration_failed` | Does a failed name block the results? (no) | the instance of `calibration` |

The last one ends with a counterexample; section 6 says what it shows.

### Properties, and what could go wrong

**Loop.** `RunAccounting`: each consumed backtest is in exactly one record or in flight, on every
error path, and neither budget nor iteration backstop is exceeded. `KeepsSessionPromise`:
`ResearchLoop` implements `ResearchSession`, in which a run that met its goal is completed and one
that spent its budget is stopped, a tie being a success (T10). `VerdictsStand`: each verdict
reported is the one in the lockbox, also after other runs used it (H16). `ChargesBuyVerdicts`: no
allowance is overdrawn and every charge bought a row (H17, FB4). `FamilyCaps`: the anti-brute-force
caps bind on the lineage root (H19). `DeadAssetIsLeft`: any mix of errors and skips, and any stream
of failures, is bounded by the breakers (M28, M48). `FairShare`: while others wait, no asset takes
more than its cap. `WatermarkEarned`: the plateau watermark is the best surviving candidate of this
visit (M49, F1). `PeeksTighten`: each test on a hold-out slice is a later peek than the one before,
across visits (H18). `Termination`: unless it is left paused, the run ends.

**Lifecycle.** `RecordIsTrue` has three parts. `HistoryHasNoHoles`: what is stored is a prefix of
the run and contains what the cursors claim, whatever commit fails and whenever the server dies
(H27). `LiveRunWritesOnce`: until the heartbeat is cancelled nothing is stored twice, retries
included. `NoZombieRunning`: after a restart no row of a lost task says `running`.
`RowKeepsStatusPromise`: a late heartbeat never puts `running` over a final status (refinement of
`RunStatus`). `RunComesToAnEnd`: whatever fails and whatever is asked for but a pause, the row says
in the end that the run is over, or the task has at least ended.

**Lockbox.** `LedgersHold`: on one loop the counters equal the verdicts bought, through crashes and
unevaluated tests; with several processes charges can be lost, never invented. `AnswersStand`:
whoever was told PASS or FAIL was told what is stored, for ever. `KeepsLedgerPromise`: `OOSLockbox`
implements `VerdictLedger`.

**Coverage.** `VisitsAreCounted`: concurrent flushes, crashes and backfills lose and invent no
visit. `RunsDigElsewhere`: a run never searches what a run flushed before its start has opened, and
counts it in its hurdle (AT-4). `EvenSpread`: with *d* the distance of the last pick, all that is
left lies within *d* of something visited and the picks are *d* apart, LLM proposals in between
included.

**Review.** `CauseIsTheFirstBlocker`: whatever mix of soft failures, hard failures and errors, one
gate is blamed, the first that blocked (M21). `PraiseIsEarned`: no path to a candidate of robustness
mode, with a gate that raised, an advisory deflated Sharpe gate or a critic without its LLM, goes
past the profit and cost demands, and the best tier of a regime idea survives no weakness.
`StricterRigorAdmitsLess`: the presets and the gates they feed are monotone.
`OvershootsByLessThanOneCall`: three agents on one ledger.

**Prices.** `ReplaceLosesNothing`: of the days stored and not invalidated only those a crash caught
between the two commits of a replace are missing.
`AnswersAreSound`: what a call has fetched comes back as far as its stamps lie in the window, on one
basis and with no bar of another fetch in between, whatever its stamp (H21); and an answer that
should reach the present does, unless the source was silent, began later or is the frozen snapshot.
It does not say that the last day of a window is handed out: see `EndIsIncluded` below.

**Strategies.** `GatesAreKept`: an entry is made only on a bar on which the gates of *this* run, and
its warm-up, allow it, at the size they prescribe, and the two logs name gates that were in force.
`ReboundKeepsItsWord`: the rebound template knows when its position was entered and holds it no
longer than it says, although gate, mask or broker may have swallowed the order it noted.
`ResultAddsUp`: an entry carried out is a trade of the result, also one still open on the last bar
(H7), and the benchmark covers the same bars (C1), except in a window of at most two bars, which
`run_backtest` does not cut out (section 6).

**Pipeline.** `StudyIsHonest`: what a study returns is the best of the choices that could be
backtested at all, and with one worker it stops early exactly when its patience is spent; with
several the count of the code means something else (section 6). `ValidatedByMajority`: *validated*
takes a convincing majority of all windows the data offers, crashed ones included (H6).
`EveryComboIsAccountedFor`: each combination begun is reported or in the error report, never both; a
reported one has all its trials stored, and what no result mentions belongs to a failed one. An error
names the combination, except that an unknown strategy is named without the symbol (`Context`,
`cli.py:349`), once for all its combinations.

**Console.** `AnswersSurviveRestart`: once a run has ended and is stored, hypothesis, lineage,
dossiers and report are answered from the tables as they were from memory; so are the lists and
counts of candidates and failures, unless a COMMIT of the heartbeat outlived its cancel, in which
case they repeat rows (section 6), but miss no trial and make none up. `NoRowIsSkipped`: however
polls, streams and restarts overlap, the list of events has no gap. `TheEndIsFinal`: what page or
statistics show as ended hides no candidate or failure and will not change. `PageLearnsTheEnd`: if
the run ends or is lost, the page comes to show an end and keeps doing so, with two exceptions in
which the server itself never says so: `MaskedByItsRow`, a record without a state behind a row still
alive, and `LeftPaused`, a row that a lost run has left `paused`. `RowsReachThePage`: while a run is
shown as live, its stored rows reach the page by the stream or by polls, if the user does not pause
and resume for ever.

**Calibration.** `ResultsAreOneSweep`: results of both phases hold every name of the panel or its
exclusion, all measured on the same windows, dials and rungs, however often the script was killed,
smoke-tested or extended before. `NoPartialShards`: no shard of a smoke run gets into them, in any
phase. `FloorsAreExtended`: no dial is reported at the floor of its sweep while finer rungs and
rounds are left. `SpreadIsLikeForLike`: each row of the K-seed file was measured on the rungs of the
results it is compared with.

Each property of a passing run has a mutant in `PROJECT.json`: a plausible bug in the code under
which that run finds the property violated.

### Why the bounds are enough

* *Loop.* Each counter crosses its limit and each rule of the Director fires: three backtests reach
  a goal of two by verdicts of this run, by recovered verdicts and not at all; the iteration cap is
  hit with runs left; allowances of one are exhausted by this run and by another. One strategy
  proposed twice gives the duplicates, two templates give a switch of lineage. The regime run
  visits one ticker twice, the least that shows what survives a visit. `MinPlateauWindow` is 2
  there instead of 4: it only shortens the run-up. There the mutation cap of 1 makes the guard skip
  a mutation that follows a failure and an error, so that errors and skips alternate (H3); in
  `loop_oos` the caps on trials bind before the one on mutations. The proofs (`FamiliesAreCapped`,
  `DeadAssetsAreLeft`) cover every cap and breaker, and any pool, budget and setting, the empty pool
  included.
* *Lifecycle.* Four events allow a heartbeat that stores some, one that finds more while it
  commits, and a final flush with the rest. A second crash hits a server that has already repaired
  its rows. The proofs cover any number of events and crashes.
* *Lockbox.* With two callers and an allowance of two, both can pass the check before either
  commits, in one lineage and campaign or in different ones; a third strategy finds the allowance
  exhausted. The proof covers any number of callers.
* *Coverage.* Cells at 1, 2 and 4 make the farthest cell, the nearest one and the middle one
  different; a template with a single cell saturates at once and forces the other and the fallback.
  Two runs interleave in all orders of load, flush, crash and backfill. `MaxIdeas` bounds what the
  LLM opens in a run, so that the space-filling rule stays in play. In this instance each cell has
  one point; several points per cell and any number of proposals are covered by the proofs.
* *Review.* The trials vary a strong one in each quantity a gate or the critic looks at, on both
  sides of each threshold and where two meet (a thin edge with few trades, a low Sharpe ratio with
  a low return). The settings hold every tier, both modes, soft and hard deflated Sharpe, canary
  on and off, all agent modes, calls with and without a price. `ProvisionalBelow` is 3 instead of
  20: it only shortens the run-up to the first firm verdict, which comes with the third trial.
  With two calls to spend the budget ends between any two agents. The proofs cover any trials,
  statistics, limits and costs.
* *Prices.* Four days and these windows give a request before, inside, across and after what is
  stored, one without bounds, and days that exist only later. One rebase makes two bases, one crash
  hits each pair of statements, two callers and three calls interleave an old writer with a refresh.
  Each setting is a different chain: Yahoo for an exchange west and east of Greenwich, the
  chain of the services that need no key and one that does (so that one day may carry two stamps),
  determinism mode, Alpha Vantage by name with `date` arguments. An answer has a bar for every day of its span.
  Weekends and holidays are left out: the head check and the age of the tail count calendar days, so
  after one the code asks again more often, through the same statements. Windows, callers and bounds
  are arbitrary in the proof.
* *Strategies.* Two runs are the least that show what the class keeps. Seven bars hold an entry, an
  exit by holding bound, and a gate before, on and after; the gate decisions include one known only
  later, one outside the queried range whose window reaches into it, and two that bind at once. Pad
  and holding bound are small to fit, in the proportions of the code (window ≤ pad).
* *Pipeline.* Two symbols and strategies give the combination before, in and after a failure; one
  strategy is unknown. Four trials and a patience of one and two let a study stop early, improve
  just in time, and have ties; two workers tell their trials out of order, without a patience, or
  with one and a determinism mode that reduces them to one. Eleven days with a gap make three
  windows of which one is short.
* *Console.* Two trials are a row that is shown and one that is not yet, and with a cap of one idea
  (`TopIdeas`, 10 in the code) one that is cut off. A cut COMMIT may store a run twice, which
  `MaxRows` allows for. Two requests for `/state`
  overtake each other; with the activity list one request of each kind is under way, which is what
  the interval and one torn-down effect leave. `MaxCopies` counts a row shown once or more often.
  Pauses are checked with the page alone, where every status the page can be left with occurs; with
  the activity list they make more than ten million states and are left out, so that in the run
  `UserLetsGo` always holds where it matters. The proofs cover every browser.
* *Calibration.* Of the three names on the panel one was split and one delisted before the second
  window; a fourth, on an alternative panel, has prices the pre-gates refuse. One dial is bounded on
  its finer rungs, the other bottoms out on all of them. Four invocations are smoke, kill, rerun and
  K-seed, or any other four.

Deadlock is checked in the loop and lockbox runs. In the others a run, a call or an invocation is
over at some point and nothing is left to do; `RunComesToAnEnd` and `PageLearnsTheEnd` say what must
have happened by then.

## 4. Fairness

* `ResearchLoop!FairSpec`: `WF_vars(Loop)`. The event loop resumes a coroutine that can run, and
  each LLM call returns or times out (the strategist and critic fall back to rules). Nothing is
  assumed of the user, the clock or other runs; a run that is left paused need not end.
* `RunLifecycle!FairSpec`: weak fairness of the run's task, of the flush, of the heartbeat and of
  the restart. The event loop schedules runnable coroutines, the database thread serves its queue,
  and `docker-compose.yml` says `restart: unless-stopped`. Fairness of `RunTask` includes that the
  loop ends by itself, which `Termination` shows for `ResearchLoop` and `MaxEvents` stands for here.
* `ConsolePage!Fairness`: weak fairness of the flush and the restart as above, of each timer of the
  page, of the generator of the stream, and of every request, which the browser answers or fails.
  The run is not assumed to go on (a model call may hang), so `PageLearnsTheEnd` speaks of runs that
  end; nor is a stream assumed to break, so rows must arrive over one that stays. It leaves out the
  states of `MaskedByItsRow` and `LeftPaused` (section 6), in which the server itself never says that
  the run has ended. Of the user only `RowsReachThePage` assumes anything (`UserLetsGo`): each pause
  the page sees tears the stream down, and a user who never stops may starve it.
* The other specifications are used for safety only and state none. The command line and the
  calibration may be killed and never started again.

## 5. The proofs

Every theorem holds for all values of the constants that satisfy the named `ASSUME`s; each of
these is evaluated by TLC in the runs of its module. `PROJECT.json` lists the theorems with the
property each one states.

* **ResearchLoop_proofs.** `TypeCorrect`, from types strengthened with what each phase relies on
  (`PhaseInv`: an asset chosen, a proposal in flight, a Sharpe ratio known, a candidate under test).
  `RunsAreAccounted` needs that from the decision to the next backtest the budget is open
  (`BudgetOpen`). `CompletionIsHonest` needs that the loop only reaches its head with the goal open
  (`GoalOpen`) and that the stop reason tells the goal (`ReasonTold`). `VerdictsAreFinal`.
  `LoopImplementsSession` uses all of them and `GoalByRecovery`: the goal can only be met before the
  OOS step by an earlier PASS of the same strategy, which is why a single verdict may certify
  several candidates at once.
* **ResearchLoop_proofs, limits.** What the Director and the caps promise of each asset, lineage and
  slice, for any pool, breaker and budget. Each invariant relates a history counter, which counts
  what the property speaks of, to the code's own counter, which is reset at other moments.
  `ShareIsFair`: room for one more at the head of the loop (it assumes `PerAssetCap > 0`; the
  default is 25, `loop.py:120`). `DeadAssetsAreLeft`: a round of skips fits between two errors, so
  fruitless iterations are at most errors times the skip breaker plus skips (`BreakerInv`).
  `FamiliesAreCapped`: the usage record counts the current family, or nothing of that family was
  admitted yet (`FamilyInv`). `AllowancesBuyVerdicts`, `WatermarkIsEarned`, `HoldoutPeeksTighten`.
* **RunLifecycle_proofs.** One inductive invariant in four parts: who owns the flush (`FlushOwned`),
  what the cursors know (`CursorsBehind`), which rows are stored in which phase (`RowsStored`), and
  which statuses can meet (`StatusesAgree`). `HistoryHasNoHoles` alone is not inductive: a flush in
  flight must start where the cursor is. `RecordsAreTrue` from its parts `HistoryIsKept`,
  `HeartbeatsWriteOnce` and `OrphansAreMarked`; `RowImplementsStatus`, the refinement of
  `RunStatus`; and `FinalFlushStoresAll`: if writes succeed and nobody cancels (`Undisturbed`), the
  last flush stores everything the run has made.
* **SharedStores_proofs, lockbox.** What a caller has read bounds what was bought, and on one loop
  is current (`ReadsHold`, `Alone`); a purchase adds one strategy to exactly one lineage and one
  campaign (`Purchase`, with the cardinality theorems). `LedgersAreHonest` from its parts
  `LedgersAreExact` and `NeverOvercharged`; `AnswersAreFinal`, and `LockboxImplementsLedger`, the
  refinement of `VerdictLedger`.
* **SharedStores_proofs, coverage.** `Order` relates lock, phases and histories: only the holder of
  the lock flushes and what it read is the table; a run adds once, at its end. `NoVisitIsLost`,
  `LaterRunsDigElsewhere`, `BackfillIsIdempotent`; `PicksAreSpread` is the classical argument for
  farthest-point sampling, for any symmetric distance, with `OnePick` for the start.
* **TrialReview_proofs.** `Invariance` has three parts. `PipelineInv`: up to the current gate each
  gate let the trial continue, or exactly one hard gate blocked, has its name in the report, and all
  later ones were skipped. `Honest`: each status is the gate's answer about the trial still in
  flight. `Reviewed` and `Unblemished`: what a verdict was derived from. All invariants of the run
  `review` are proved from it: `CauseTheorem`, `StricterTheorem` (with `CostStressGrows`, where a
  lower cost changes both sides of a product), `SpendTheorem`, and `PraiseTheorem` with its parts
  `RobustTheorem` and `UnblemishedTheorem`. So are four that no run repeats: `WideningTheorem`
  (B4, B5, PF4: the statistic used is no higher than with any positive size, the run's own or the
  campaign's, and any positive variance, measured or null; a run that has measured no variance is
  held to the null one), `DeflationTheorem` (M24: thin evidence about the search is no reason to
  kill, and a verdict counts only with a search and a variance for which the statistic is defined),
  `ThinSampleTheorem` (the critic's
  rules do not kill what the activity gate accepted: H26) and `ReviewedTheorem` (a critic that fails
  does not wave a trial through). Of the statistic the proofs assume that it is antitone where size
  and variance are positive, and 0 elsewhere (`DsrAssumption`), facts of arithmetic they do not show;
  and that the null variance is positive (`ReviewAssumption`; `null_variance_floor` divides 3 by a
  number of observations, `deflated_sharpe.py:109`).
* **TrialReview_proofs, assembly.** `HoldoutFact`: for any window and minimum the hold-out is at
  least the minimum and at most two fifths of the window. `LockboxFact`: no request ends in a run
  that is softened or strict without the lockbox that backs it.
* **PriceCache_proofs.** `TheTableLosesNothing`, by mutual exclusion: an open replace is alone
  (`Exclusive`), so what it read before its insert still holds when it inserts (`Fresh`), and a day
  that is missing is a day of the answer it is about to put back or was taken by a crash (`Kept`);
  the delete takes a range of stamps, the promise is about days, and the step between them is that a
  stamp of the symbol has one of two hours. This
  includes any interleaving of the older writer. `TheAnswersAreSound` follows a call from the
  question to its answer (`AllKnown`): what it knows of the table stays true while it is open,
  because on the one loop nobody else runs (`RunsAlone`), and no source but the frozen one answers
  from the future (`NoFuture`).
* **CalibrationStudy_proofs.** A readable shard of the full directory was measured on all windows
  and dials, whatever its rungs (`ShardsInv`); when the scan is through, every name of the panel
  carries the stamp of this invocation (`ScanInv`); hence so does the table (`TableInv`), the results
  (`ResultsInv`) and, over the rungs the results name, each K-seed row (`KSeedInv`). The four
  properties (`OneSweepTheorem`, `NoPartTheorem`, `FloorsTheorem`, `SpreadTheorem`) are read off.
  None alone is inductive: what is written was aggregated several steps and possibly kills before.
* **ConsolePage_proofs.** `AnswersTheorem` from `ViewsInv`: the rows hold trials, hypotheses and the tree of the
  record, at least up to its cursors (`Covers`); exactly the first ones, each once, as long as no
  COMMIT has outlived its cancel (`OnceInv`); and once a final status is stored they answer as the
  record does (`FinalInv`, `Agree`).
  `ListTheorem` from `ListInv`: whoever holds a position in the list, `sinceRef`, the stream or a
  poll of a torn-down effect, has all rows before it on the list. `EndTheorem` from `ClosedInv` (a
  row with a final status is touched no more) and `PageInv`: what was read of an ended run, or is
  still on its way to the page, stays true whatever order the answers take.
* **Backtests_proofs, strategies.** `TheGatesAreKept`: the pre-load loses no decision that binds on
  a bar of the run (`CandidatesBind`: the pad covers the windows), the decisions on the class are
  those of the run in progress, and the size applied is the one due (`SizeIsDue`). It needs that no
  window of a decision is wider than the pad (`PadAssumption`) and that the warm-up prefix does not
  swallow the data (`ConfigAssumption`, as `loop.py` sees to). `TheReboundKeepsItsWord`, from what
  the template's own note says in each state of order and position (`ReboundKnowsItsBar`).
  `TheResultAddsUp`.
* **Backtests_proofs, pipeline.** `PipelineInv` in seven parts: the symbols with data (`DataOK`), the
  study (`StudyOK`), the windows counted so far (`WindowsOK`), rows stored and still to store
  (`SavingOK`), results and errors (`LedgerOK`), what each result has in the tables (`RowsOK`), the
  votes for *validated* (`MajorityOK`). `TheCombosAreAccountedFor` needs all of them: reports and
  failures split the combinations begun, and a save in progress owns rows no result has
  (`WindowsAreSaved` counts two for each window). It rests on `ContextsDiffer`: combinations of known
  strategies never share a context of the error report, if each symbol and strategy was asked for
  once (`NamesAssumption`; the report tells them apart by name only), and on `LedgerOK`, by which the
  one context of an unknown strategy is there as soon as one of its combinations was begun, so that
  it can only stand for combinations that have failed. `TheStudyIsHonest`: the best told so far is the best of all completed
  (`BestIsSound`), and the stale counter is the number of trials since the last improvement, by
  induction over the trials as they end (`Counted`, `CountWorse`, `CountBetter`).
  `TheMajorityValidates` is about the verdict's counts of valid and crashed windows.

The `TypeCorrect` theorems state the type invariants. These, `CompletionIsHonest`,
`BackfillIsIdempotent` and the parts named above are in no run of their own, since the proofs cover
every instance.

Every invariant of the passing runs, and every action property and refinement they check, is stated
by a theorem. Only model-checked is liveness: `Termination`, `RunComesToAnEnd`, `PageLearnsTheEnd`
and `RowsReachThePage`. Liveness under fairness and ENABLED are outside what the prover supports,
and so are induction over data and RECURSIVE operators; the modules with proofs use none. Sums and
counts are therefore written as cardinalities, and a minimum is found by the well-foundedness of the
natural numbers.

## 6. Where code and documentation disagree

One finding has a run of its own (`findings` in `PROJECT.json`): `calibrate_coverage_grid_v3.py:27`
says a failure *is recorded and blocks the final results write*. The shard of the failed name is
stored with the stamp of its sweep (line 429). The run that met the failure refuses to write; the
next one finds the shard fresh, has no failure of its own, and writes the results without the name
(`calibration_failed`, `FailureBlocksTheWrite`).

The modules state more promises of comments and documents that the code does not keep. To see one
broken, name it in the `.cfg` given (as INVARIANT, or PROPERTY where it says so):

| Statement | In the `.cfg` of | What happens |
|---|---|---|
| `GoalCountsStrategies` | `loop_oos`, with `Strategies = {s1}` | `run.py:213` says a run stops when *target_candidates validated strategies* were found; candidates are counted (`state.py:302`), and one strategy proposed twice counts twice |
| `WrittenOnce` | `run_safety` | `persistence.py:97` calls `persist_snapshot` *idempotent on rows already written*; if the heartbeat is cancelled while its COMMIT is queued (`router.py:487`), the rows land, the cursors stay, and the final flush writes them again |
| `CountsSurviveRestart` | `console` | the same comment, seen by a reader: after a restart `/candidates` lists and `/graveyard` counts the rows twice (`router.py:1072` *Counts reconcile*, `persistence.py:355`, `:617`), and of the capped ideas a repeated one may push another off the list |
| `NoOrphanAlive` | `run_safety` | `docs/TESTING-CONCEPT.md:92` wants orphaned runs marked on boot; the row of a run that was paused when the server died, or when its last heartbeat was stored, says `paused` for ever (`persistence.py:293`), and its page polls for ever (`LeftPaused` of `console`) |
| `StopIsObeyed` (PROPERTY) | `run_safety` | `router.py:559` says a stop breaks the loop at the next iteration boundary; pause and resume after the stop overwrite the flag before the loop reads it (`router.py:537`) |
| `CriticOnlyLowers` | `review` | `loop.py:1208` says the critic only lowers the confidence of a regime idea; "investigate" sets it to `low`, which raises an idea with two weaknesses (also `docs/reviews/QUANT-REVIEW-2026-07-03.md:524`) |
| `AnswersAreWhole` | `prices` | `cache.py:77` says missing ranges are fetched; a hole between the first and last cached day is not noticed (`cache.py:88`, `cache.py:96`) |
| `EndIsIncluded` | `prices` | `provider.py:204` passes the day after the end *so the requested last bar is returned* and live and deterministic runs agree. The bar is fetched and stored at 04:00 or 05:00 UTC, but `cache.py:178` keeps `timestamp <= end`, and the end is a midnight (`run.py:129`): through the cache a bounded window ends one bar early, and in determinism mode, whose stamps are midnights, it does not |
| `OneBarADay` | `prices` | `cache.py:112` calls the cached series a single-basis snapshot; the delete spans the stamps of the new answer, so a bar that another source stored a few hours outside them stays, and a window has a day twice. It takes a chain or the older writer, which nothing in `src/` combines with the cache today |
| `NoGateBeforeTheNews` | `strategy`, with `BarsPerDay = 2` | `event_gate.py:217` says trades cannot be gated before the market knew; dates are compared as days (line 257), so on intraday bars a gate binds from midnight |
| `ImprovementIsNotStale` (PROPERTY) | `pipeline`, with `Callers <- JobsCallers` | `optimizer.py:310` counts a trial as stale if it was no improvement; with several workers it is compared with the best of the study by now (line 325), so a study may stop early after an improvement; `PatienceIsKept` therefore speaks of one worker |
| `NothingIsShownTwice` | `console` | `docs/TESTING-CONCEPT.md:202` promises *no lost/duplicated events on reconnect*; a poll of an effect that was torn down appends what the new stream shows as well (`hooks.ts:98`; `docs/reviews/QUANT-REVIEW-2026-07-03.md:529`) |
| `SummaryIsPrinted` | `pipeline` | the summary formats a number that walk-forward results leave at `None`: each `--walk-forward` run ends in a TypeError after its work is stored |

### Seen while modelling

Research runs

* A candidate gets no OOS outcome at all when an allowance is depleted (`loop.py:1283`), and going
  back to an earlier template opens a fresh lineage with a fresh allowance (`loop.py:908`).
* A cancel during the final flush kills it; the row keeps its last heartbeat and may say `running`
  until the next restart (`router.py:577`). `FinalFlushStoresAll` therefore assumes that nobody
  cancels, and `RunComesToAnEnd` counts a task that has ended so as an end.
* A per-asset cap of 0 would be overrun by the first attempt, which is made before the cap is read.
* A proposal that the trial budget or its data rejects is marked as visited though never tested, so
  the visited cells of a run may exceed its trials (against `effective_n.py:34`), and such a cell
  cannot be reconstructed by backfill (against `db_models.py:188`).
* `persist_coverage` stores an empty `exemplar_hash`: exact-hash deduplication across runs works
  only for rows that backfill created.
* A soft gate that raises passes like one that failed, but leaves no weakness on a regime idea
  (`pipeline.py:189`, `loop.py:1201`).
* A reply without usage data costs nothing in the ledger, and the total still counts as known
  (`agent_llm.py:140`).
* `run_research` does not look at `mode` itself; regime mode turns the lockbox off under strict
  rigor too; a request for a softened gate is refused only after `on_start`; and a model that is
  substituted for the one asked for may have another price and leakage class, which is only logged.

The API and the page

* The status of a run is set before its final flush, so the event stream may end before the last
  events are stored; it also ends after 6 000 rounds. The page then polls.
* A run that fails before `on_start`, and whose final flush fails too, has a record that says
  `failed`, but `/state` answers from the row, which says `running` (`router.py:630`,
  `MaskedByItsRow`).
* `useCandidates` and `useHypothesis` take answers in whatever order they arrive
  (`hooks.ts:169`); the loaders read by several SELECTs, between which a flush may land
  (`persistence.py:303`, `:503`).
* After a restart some fields are gone or differ that no property compares: the OOS dictionary of a
  candidate, `evaluated_at`, `cost_known`, and total iterations against runs used.

Prices

* `_CachedFetch` hands `date` objects to `get_or_fetch`, which asks them for `tzinfo` as soon as
  the cache is not empty (`run.py:129`, `cache.py:90`): the opt-in price cache raises on its second
  read.
* A window partly refreshed after a rebasing blends two bases. A window that lies in the past is
  downloaded again on each call. A crash between the delete's COMMIT (`cache.py:235`) and the insert
  leaves a hole.
* Tiingo and Alpaca answer a request for weekly bars with daily ones, CoinGecko ignores the
  interval; `create_provider("alphavantage")` and `fetch_and_cache` ignore determinism mode; the
  source of a cached row is always `yahoo`. Nothing calls the aggregated provider.

Backtests and the command line

* Without the `event_context` package the pre-load of event gates is empty, unless the caller hands
  the decisions over.
* Prices that cannot be repaired raise after RUN_STARTED and leave no end in the registry; "no
  trades" is raised after RUN_COMPLETED is committed; a run that was retried keeps RUN_FAILED_INFRA
  as its status.
* A window of at most two bars keeps the return of the full period, while its benchmark covers the
  window.
* Of two gates that reduce, the one of higher severity wins over the smaller multiplier.
* The strategy classes made at run time cannot be pickled for `run_parallel_backtests`.
* The progress callback reads `best_trial`, which raises when the first trial was pruned, and ends
  the study. It is not told of unknown strategies.
* The command line stores one verdict for all windows, `save_walk_forward` one for each.
* A combination that fails leaves the trials of its earlier windows stored. `ResultStore()` is built
  outside the guarded block.
* Workers, patience, `save_optimization`, `save_walk_forward` and `run_parallel_backtests` have no
  caller in `src/`.

Calibration and panel draw

* One dead worker fails all names still open. `--phase b` loads shards without looking at their
  stamp, skips those that are missing, and may describe extended shards as a sweep without extra
  rungs. A kill in an extension round makes the next invocation measure the base sweep again. A kill
  during the results write leaves a file that cannot be read and that the write-once rule protects.
* The K-seed stage has no ceiling on crashes and reads its frame unverified; a stamp holds neither
  the state of the warehouse nor the version of the panel.
* The header of `draw_calibration_panel.py` calls quotas asserted that the code only records. Each
  round of its re-top-up draws with the same seed, so that a name rejected by the adjustment guard
  may be drawn again (lines 1056 to 1062). A kill between its four writes leaves a panel without its
  companions, for which `--rebuild` reports no problem and which a plain rerun refuses to replace.

Provider registry

* `delete_ai_provider` calls `session.delete` of an asynchronous session without awaiting it
  (`ai_service.py:122`): the answer says deleted, the row stays. `create` commits before
  `create_provider` may raise, so a refused provider leaves its row. `purge_user` leaves the rows of
  `ai_models`.

## 7. What is not modelled

* Numerical code: indicators, cost models, performance metrics, the statistics (per-trade t,
  deflated Sharpe, hold-out, bootstrap), clustering, effective search size. Its outcomes enter the
  models as nondeterministic choices or as constants.
* Text: prompts, parsing of LLM answers, reports, tables, rendering.
* The HTTP adapters of the model providers, provider settings, accounts, the goal planner: requests
  with single-statement transactions or one call. What was noticed is in section 6.
* Events of the registry beyond those of a backtest: snapshots, capabilities, queries.
* `parallel.py` (no caller), the quality checks of prices, the downloads themselves.
* The panel draw, whose result is a committed file that the calibration reads, and the offline
  studies. `derive_family_effective_counts.py` reads shards without checking their stamp.
* Two users at once in coverage and lifecycle: rows of different users are disjoint. In `RunViews` a
  second user asks.
* The lockbox, the price cache and the calibration directory as seen by several processes: modelled
  for the lockbox; the server is one process for the cache, and the calibration is one invocation at
  a time, so two that race for the write-once file are left out.
* Weekly and minute rows in the price cache, which keys them the same way as daily ones.

`PROJECT.json` lists every part with its status and the reason.

## 8. Plan

Done, in order of importance: the loop with its abstract session, the lifecycle with its status,
the lockbox with its ledger, the coverage memory, the review of trials with gates and token ledger;
then the assembly of a run, the read API with the page, the price cache with its providers, the
backtest with strategies and gates, the pipeline with its studies, the calibration. All their safety
properties are proved.

Next:

1. **More theorems.** Facts about operators that no run states: that `Windows` never lets a training
   span overlap its test span, that the chain of providers asks each source at most once, that a
   page's counts never fall while a run is live.
2. **EventRegistry**: the status derived from any sequence of registered events, illegal
   transitions, snapshots; abstract specification: a status machine.
3. **Provider registry**: create, delete and purge with their commits.
4. The remaining endpoints of the lifecycle, delete and export, with a heartbeat in flight.
5. **Panel draw**: strata, quotas and the re-top-up, with the freeze of its four files.

## 9. Usage

    tlc -workers 2 -config MCResearchLoop_oos.cfg MCResearchLoop
    tlapm ResearchLoop_proofs.tla

Each row of `runs` in `PROJECT.json` names a module and its `.cfg`. `calibration_failed` ends with
its counterexample; all others finish within a few minutes.
