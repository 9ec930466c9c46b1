# Verification of nest-markets

nest-markets is a trading research platform: a FastAPI service (`src/apps/api`)
that turns market data and language-model output into candidate signals, lets an
operator or a scheduled worker trade them on a paper account at Interactive
Brokers, and keeps the books; a Next.js client (`src/apps/web`) and offline
learning jobs (`src/apps/learning`). This directory holds TLA+ models of the
parts where several actors change the same rows, the TLC runs that check them,
and TLAPS proofs of what holds for every size of them. Paths below are under
`src/apps/api/app/` unless they say otherwise.

Run `tlc -config X.cfg MCModule` for a configuration listed below, and
`tlapm ModuleProofs.tla` for the proofs.

## The system

Everything that matters is a row of one PostgreSQL database, written through
SQLAlchemy sessions that are created with `autoflush=False` and run at READ
COMMITTED. Three facts about those sessions shape every component:

- a handler loads a row, checks the value it *loaded*, and writes later; nothing
  re-reads the row, and no version column refuses a stale write;
- a flush writes only the attributes that differ from what was loaded, so whether
  a value is written depends on what the session saw;
- rows added to a session are invisible to its own queries until a flush.

Handlers are synchronous functions that FastAPI runs in threadpool threads, so
any two requests overlap; workers run on an APScheduler thread and in requests
that start them by hand.

| Component | State | Operations | What is hard | What makes it correct |
| --- | --- | --- | --- | --- |
| Auto paper trader (`workers/auto_paper_trader_worker.py`, `services/auto_paper_gate_service.py`) | signals, `PaperOrder`, `Position` and `RiskDecision` rows; counters of a run | run gate, rank, per-order gate, risk, submit, record, commit | overlapping runs, timeouts with a thread left behind, a session that holds rows for a whole run, rollback | nothing unapproved is sent; no position without an order; caps and watchdogs hold or are exceeded by a known amount; a signal is traded once; runs end |
| Broker service and adapters (`services/broker_service.py`, `clients/broker/tws_adapter.py`) | orders in flight, orders at the broker | kill-switch assertion, preflight, submit in an executor thread | answers after the caller gave up; outcomes reported as rejected after a placement | a stop takes effect within one order |
| Kill switch and trading halt (`services/trading_control_service.py`, `services/trading_halt_service.py`) | a flag of the active risk profile, halt rows | activate, deactivate, create, resolve | read at one moment, used at a later one | at most the order already past the check is sent |
| Close worker (`workers/auto_paper_close_worker.py`) | positions, signals | close the expired ones in one transaction | runs beside the trader | a closed signal is not traded again |
| Model governance (`services/governance/`, `api/routes/governance.py`, `api/routes/models.py`) | `ModelVersion.is_active`, audit log | promote, rollback, deactivate | no lock and no constraint; writes depend on what was loaded | at most one active version; a rollback undoes the last promotion |
| Approvals (`api/routes/approvals.py`, `services/approval_service.py`) | `ApprovalRequest` rows | create, approve, reject, expire, execute | two answers in progress; repeated execution | answered once; only approved requests are executed |
| Paper execution and positions (`api/routes/execution.py`, `services/position_service.py`, `services/persistence_paper_execution_service.py`) | `PaperOrder`, `Position` rows | fill, close, mark to market | stale status checks; check-then-insert of positions | an order only moves forward; one open position; a closed position is final |
| Workflow (`services/workflow_service.py`) | signal, decision, order or request in one transaction | run | fails in the middle | all of it or nothing |
| Manual orders (`services/broker_service.py`, `api/routes/broker.py`) | halt rows, the risk limit, decision rows, a file of audit lines | read the portfolio, preflight, hand over, record | coroutines that await between a check and its use; a database that refuses the record of what was placed | a halt stops the desk until every halt is lifted; what is placed is audited |
| Broker connection (`clients/broker/tws_adapter.py`) | a socket, the last error, a cooldown | connect, read, submit, disconnect | outages and a contended client id; refusals that could feed the cooldown | it connects again when it can |
| Books of the day (`services/broker_trade_event_service.py`, `services/pnl_service.py`) | staged trade events, snapshots | stage, capture, sum | a check for fingerprints and a later insert; cumulative figures | an acknowledged fill is on record; the sum is the day's P&L |
| Idempotency keys (`middleware/idempotency.py`) | a dictionary of the process | list, evict, check, reserve, release | threads without a lock; keys kept or released after a failure, lost at a restart | one request processed per key |
| Research jobs (`services/research_job_service.py`) | job rows | create, run, cancel, retry | commits in the middle of a run, crashes, cancels that loaded an older status | a finished job does not change; a running one is run |
| Paper validation (`services/paper_validation_service.py`) | plans, evidence | create, update, start, stop, add, exclude, reconcile, recalculate | evidence a session cannot see yet; plans that reopen | the stored verdict is that of the evidence |
| Candidate queue (`services/paper_candidate_refresh_service.py`, `services/paper_candidate_hygiene_service.py`) | signals of status candidate | refresh, expire, rank, submit | check-then-insert; an update of rows chosen earlier | one candidate per symbol; the newest survives |
| Learning trainer (`workers/learning_trainer_worker.py`) | score model registry | train | two runs follow the same latest version | versions keep their distance |
| Data sync and signal sweep (`workers/data_sync_worker.py`, `workers/signal_sweep_worker.py`) | a session for a whole pass | store, pass over, report | one asset that fails among many | the report is what was committed |
| Strategy lab (`services/historical_replay_service.py`, `services/mock_trade_simulator_service.py`, `services/walk_forward_validation_service.py`, `services/strategy_lab_service.py`) | runs, their outputs, one JSON summary | replay, clear, validate, label | replays that die half-way; one column with three writers; boundaries of candles and periods | a completed run is one replay; nothing favourable is assumed; each trade counts once |
| Alerts and notifications (`services/persistence_alert_service.py`) | audit events that fold into rules | create, acknowledge, snooze, mark read | events committed out of order | the last request wins |
| Journals and run log (`services/execution_journal_service.py`, `services/worker_run_log_service.py`) | two files | upsert, append | rewrites that are cut short or cross | what was acknowledged is kept |
| Operator's controls and arming (`services/trading_control_service.py`, `services/auto_paper_gate_service.py`, `services/cockpit_auto_paper_status_service.py`, `services/trading_control_arming_state_service.py`, `api/routes/market_data.py`, `api/routes/broker.py`) | settings, the cockpit mode and a paused job in memory, the arming row | select, pause, resume, kill switch, arm, disarm, read back | one set of conditions listed in six places; requests that await between reading a row and writing it | what shows green is open; what is armed was armed today; an answer is true |
| Risk rules (`services/risk_service.py`, `services/market_context_snapshot_service.py`) | risk decisions | sample, evaluate | a context older than the evaluation; amounts in two units | no approval in a cooldown; the older rules are no laxer |
| Pages of the day (`services/cockpit_eod_report_service.py`, `services/cockpit_daily_scoreboard_service.py`, `services/cockpit_trade_close_explanations_service.py`) | none | read | midnight, missing P&L, rows that two workers and two requests write | they agree with one another and add up over the days |
| Watch lists (`services/cockpit_in_flight_adjustments_service.py`, `services/cockpit_alerts_attention_service.py`) | none | read | eight loads of which one fails; labels of which the last wins | nothing is missing that is not said to be |
| Migrations (`alembic/versions/`, `alembic/env.py`) | the schema and `alembic_version` | upgrade, downgrade | branches, dropped columns that come back, rows in the way, commands that die | the schema is that of the revisions applied |
| Data centre (`services/historical_import_service.py`, `services/data_quality_engine.py`) | bars, reports, gaps, coverage rows, import runs, reviews | import, dry run, recalculate, review | five tables that each request touches some of; bars that change their provider | what is shown of the bars is so |
| Results and comparison (`services/execution_cost_model.py`, `services/strategy_comparison_service.py`, `services/strategy_result_quality_service.py`, `services/ai_backtest_report_service.py`) | results, curves, reports | simulate, compare, grade, report | no loss, no win, break-even; a report awaited while a replay replaces its results | figures and judgements follow the trades |
| Recommendations and baseline candidates (`services/paper_recommendation_service.py`, `services/baseline_candidate_service.py`) | drafts, dry-run decisions, candidates | review, route check, dry run; create, update | overlapping reviews; check-then-insert | a dry run is of what was approved; one active candidate |
| Readiness of plans (`services/paper_validation_service.py`) | none | review, dashboard | judged anew beside the stored verdict | they agree with one another and with the verdict |
| Prompts and signals on request (`services/prompt_version_service.py`, `services/signal_service.py`, `services/signal_geometry_validator.py`) | prompt and model rows, files on disk, signals | seed, edit, apply, ask, sweep | the row is looked up after an awaited answer, and the file is what was sent | a signal is recorded under what was sent, and can be traded wherever it is entered |
| Schedule (`main.py`, `schedules/`) | the jobs of a process | register, fire, finish | settings that name any interval; runs still in progress | jobs keep to their switches and least intervals |
| Model policy, news, indicators, the remaining views, web and learning applications | rows owned by one job, or none | - | see "What is not modelled" | - |

How they interact: a workflow run or the signal sweep inserts signals; the
trader and the approval routes turn signals into orders; the broker service
stands between the trader and the adapter, and reads the kill switch and the
halts that the operator sets; fills open positions and the close routes and the
close worker end them; the dashboards and the reconciliation only read.

## The modules

### `AutoPaperTrader`: the trader, the broker, the operator, the close worker

One action per stage of `AutoPaperTraderWorker.execute`: `RunGate`, `Rank`, the
loop (`StopLoop`, `SkipAtCap`, `GateOrder`, `EvaluateRisk`), one submission
(`AssertSubmissionAllowed`, `Preflight`, `SendOrder`, `AdapterAnswers`), its
outcome (`RecordAccepted`, `RecordRefused`, `RecordUnsupported`, `SubmitError`)
and the end (`Commit`, `Fatal`, `Crash`). `run[r]` is the local variables of the
loop and `session[r]` what its SQLAlchemy session holds: the rows it added,
which of them it has flushed, and the signals it modified. `ApplyWrites` is a
commit; the risk service commits in the middle of the loop, and with its
decision whatever the session holds. A submission is named by the run and the
signal, since a run ranks a signal at most once.

`SubmitError` is the timeout of `asyncio.wait_for` and every exception of a
submission: the run goes on while the adapter's thread (`inflight`) may still
place the order (`AdapterAnswers`). The `Environment` constant says which of the
operator's actions, the close worker, crashes and rollbacks an instance has. The
horizon is one UTC day. `sinceKill` and `sinceHalt` are history that no action
reads.

Ranking scores, prices, quantities and the rules of the risk service are
abstracted to the choices they lead to. The preflight may block for reasons of
its own at any time. `TradeLifecycle` is the promise to a signal: entered once,
left once, its status and its position changing together.

### `ModelGovernance`: promotion, rollback, deactivation

Each request is a transaction of four steps: `Begin` (the start, which is also
the `created_at` of its audit event), `ReadActive`, `ReadLog` for a rollback, and
`Commit`; `Abort` ends it before its commit. `Clears` and `Sets` are the
attributes that SQLAlchemy really writes: a version loaded as active is not
written as active again. `.scalars().first()` without an order is any active
version. `ActiveSlot` is the promise: one slot, and a rollback that puts back what
the present model displaced when it was last promoted.

### `PaperOrders`: approvals, orders, positions

Each request loads (`LoadRequest`, `LoadOrder`, `LoadPosition`) and writes later
(`Respond`, `Execute`, `CommitFill`, `CommitClose`, `Mark`). `fill` and `close`
flush their status before they look for the open position (`Flush`, `Look`); the
flush takes the row lock of the order until the commit, which is the only
ordering there is, and `Unlocked` is its guard. `CommitClose` writes a zero
`unrealized_pnl` only if the value loaded was not zero. A position is named by
the request that inserted it. `Direct` is a workflow run routed to paper and
`Ask` a new approval request; a signal of either is new. `PaperLifecycle` is the
promise, one step per accepted request.

### Around the trader: `BrokerDesk`, `BrokerConnection`, `BrokerBooks`

`BrokerDesk` is `POST /broker/orders`: `RequestOrder`, the awaited `ReadPortfolio`
(or `PortfolioUnavailable`), `DeskPreflight` in one synchronous stretch,
`HandOver`, and `AdapterResult` or `AdapterRaises`, which write the decision rows
(each of which the database may refuse, `Persist`) and the audit line (`Finish`).
Halts are rows that `RaiseHalt` and `LiftHalt` change meanwhile. `BrokerConnection`
is the socket and the cooldown of `TwsBroker`; its lock makes calls follow one
another, so an action is a call. `BrokerBooks` stages the fills that the broker
reports (`FetchFills`, `AddRows`, `CommitRows`) and sums the snapshots
(`CaptureSnapshot`, `DailyClosedPnl`).

### Requests and jobs: `Idempotency`, `ResearchJobs`, `PaperValidation`, `CandidateQueue`

`Idempotency` has one action per statement that touches the dictionary, since
its dependency runs in threads. `contended` is history: the keys for which two
requests really were in progress together. `ResearchJobs` commits where the import
and the quality service commit, so a job is seen running; a cancel loads
(`LoadForCancel`) and writes later, and what it writes depends on what it loaded
(`Cancels`). `PaperValidation` computes `Verdict` from the evidence that a session
*sees*, which for a handler that did not flush is not what it has added; the
amounts are units, and only the thresholds named in the module are set.
`CandidateQueue` orders signals by `scan_ts`; `stale` is how many have grown older
than the recency.

### Workers: `LearningTrainer`, `IngestWorkers`

`LearningTrainer` reads the latest version (`LoadLatest`), counts samples while
trades close, and inserts; `NumberFree` is the unique constraint with the wait that
PostgreSQL makes of it. `IngestWorkers` is the session of a whole pass: clean,
aborted by a statement, or invalid after a flush that failed.

### The strategy lab: `TradeSimulator`, `BacktestReplay`, `WalkForward`

`TradeSimulator` is the loop of `_run_ma_momentum`, one step per candle, with
averages compared by cross-multiplying. `BacktestReplay` is the run, its outputs
and the one JSON column that replays, validations and labels write; `Validated` is
what SQLAlchemy makes of a dict changed in place. `WalkForward` is the arithmetic
of folds, periods and scores as pure operators over a run whose trades are read
one at a time, so that every set of trades within the bounds is tried.

### `AlertRules`, `FileStores`

A rule is what its events add up to (`Latest`, `Alerting`, `ActiveAlerts`); each
change stamps its event and commits it later. `FileStores` reads, truncates and
writes each file in separate steps, with a lock for the journal (`Enters`) and
none for the log.

### What the operator sees and sets: `OperatorControls`, `Arming`

`OperatorControls` has the settings of the process (`env`, read at a `Restart`), the
cockpit mode and the scheduler's job, and as operators each piece of code that
judges them: the mode guard (`ConfiguredMode`, `Control`, `ModeMetadata`), the gate of
a submission (`ControlledAutoAllowed`), of a run (`RunGates`) and of an order, the
status card, the readiness and enablement pages and the broker's checklist. The gate of
a submission asks two things that no other code knows: that the symbol has one to five
letters (`EquitySymbols`) and the variable PAPER_TRADING_ENABLED (`env.paperTrading`). `failing`
is the statement of a page that the database refuses, and with it the later ones.
`RunOnce` is a whole run of the trader, whose steps are in `AutoPaperTrader`.
`Arming` adds the durable row: an arm request takes its time (`StartArm`), awaits
the broker, judges (`CheckArm`), loads the row again (`LoadRow`) and commits the
columns that it changed on what it loaded (`Updated`, `CommitRow`), with the table's
constraints as the last guard; a disarm does the same in a thread.

### The day and the risk rules: `DayReports`, `RiskContext`

`DayReports` has the order and position rows of each trade as the fill and close
requests, marks to market, the trader and the close worker write them, and the three
pages as operators over them; `TimePasses` files the figures of a day when it ends.
The page of the closes is cut at `MaxRows` with its counts; rows closed in one tick are
in any order, so `Explained` is the set of the cuts there may be. Outcomes are looked up
by the signal (`SignalOf`, `OutcomesOf`), and the fill of an order whose signal has an open
position opens none. The close price and the risk decision of the signal, which the page
asks when the reason of a close says nothing, are left out: every reason that the code
writes says something (`CloseLabel`). Amounts keep the two units of the code: money from
requests, a fraction of the entry price from the close worker. `RiskContext` extends it with evaluations: a context is
sampled (`SampleContext`) or left at zeros, as the trader does (`GiveZeros`), and
evaluated later (`Evaluate`). No code samples a context yet: `MarketContextSnapshotService`
says of itself that it is not wired to a caller, and the trader gives zeros. What
`CooldownHolds` says is what will hold once one is; the two sets of rules, one asked by
the trader and one by the risk and workflow routes, are both in use, and
`OlderRulesNoLaxer` compares them.

### `Watchlists`

The items in flight with their label and level, and the attention page over eight
sources in one session (`AttentionPage`). The actions are the writes of other
components, reduced to what the two pages read.

### The schema and the bars: `Migrations`, `DataQuality`

A revision in `Migrations` is the set of tables, columns, types, foreign keys and
rows that its upgrade makes (`Revision`), and whether its downgrade can run at all; a
command works on a copy of the database, one revision per step, and commits at its
end or loses it all. `StoreRow` is the program meanwhile. A table stands for the
columns that no other revision touches. `ColumnsOf`, `RefsOf` and `TablesOf` say what a set
of revisions makes, whatever the order. `RevisionsFit` says of the table of revisions
itself that they follow each other and that each adds what is not there and drops what
is: it has no constant, so TLC settles it for good when it evaluates it, and a revision
written wrongly (a column added twice, a table before the one it refers to) shows there. `DataQuality` has the bars of one asset as a
map from time to the provider that delivered them last, what each request writes of
report, open gaps and coverage row, and the engine (`Metrics`, the gaps, the verdict)
as operators that the pages use again.

### The lab's judgements: `StrategyResults`, `StrategyRanking`

`StrategyResults` computes costs, the curve, the drawdown and its periods and the
figures of a config from its trades, and the page of the run from all configs, each
the way its own code does. `StrategyRanking` takes results as they come (`Measures`)
and has scores, grades, ranking, pages, the points of a preview and the reports, which
are asked for and answered in separate steps while a replay may replace the rows.

### `Recommendations`, `BaselineCandidates`, `PaperValidation`

Reviews load a draft (`judging`) and write it later; a preview is checked, guarded and
answered in three steps with the halt, the limit, the reviews and a restart between
them. A create of a baseline candidate looks (`CheckDuplicate`) and inserts later.
What is shown of the plans of `PaperValidation`, the readiness review and the dashboard,
are operators on their rows at the end of that module.

### `SignalPrompts`, `JobSchedule`

`SignalPrompts` has the files on disk (`disk`), the rows of the signal engine's
prompt (`engine`), the model rows and the signals. `Start` seeds (`SeededRows`);
`Request` sends what the files say, `Told` looks up the newest row afterwards, and the
answer is kept or refused (`Sound`, the geometry validator). `JobSchedule` registers
the jobs as the settings of the process say; an interval's trigger fires when its time
has passed, and a run still in progress is not started again. Each job's time is in
its own unit.

### Instances

`MCAutoPaperTrader` and `MCPaperOrders` name the model values and the symmetry of
the runs. Symmetry is not used in the run that checks liveness. The run for the
position bound identifies states by `DecidesPositions`, which leaves out what no
action reads (approvals, orders the broker was given, threads given up on).

`MCServices` puts the fifteen components that share no rows side by side. An
interleaving of two of them shows nothing that each does not show alone, so a
behaviour takes the steps of one component, its `focus`, which is chosen with the
initial state: the states of the run are those of the components added up. Only in
`PlansStep` is something left out: evidence is added by hand to one of two plans. Where
components do share rows they are in one module: the trader with the close worker,
the operator and the broker; the queue with the trader's submissions; the
approvals with the orders; replays with reviews.

`MCRecords` does it for what is kept on record, with seven focuses. `QualityStep` has
no reviews beside dry runs, loads none during the second import, which begins after one
at most, and writes none during any; `RankingStep` compares
any two results and reports on one; in `PromptsStep` a sweep runs while no request
does, and the files are edited once after each start; in `ScheduleStep` the optional
jobs are on or off together and one job is watched after each start.

`MCPages` does the same for the pages, the risk rules and the controls, with five
focuses. What a focus leaves out is stated in its step: `DayStep` has no evaluations
and makes two of the three trades, which share a signal or do not; in `RiskStep` the two
that share one begin on the first day, gain or lose, and are not marked; in `WatchStep` one item may be anything beside one that is an order, and the halt is
tried without risk limits; in `ControlsStep` the modes are learning and auto_paper
and the settings, which may be any at the start, change only while the job is paused
and the kill switch off;
`ArmingStep` is in normal mode, with halts and broker findings changing under the
requests. `ControlsAgree` is asked where the controls are watched
(`WatchedControlsAgree`).

## The runs

| Run (configuration) | Bounds | Shows |
| --- | --- | --- |
| `trader_serial` (`TraderSerial`) | 2 runs one at a time, 3 signals, crash, rollback, close worker | `RiskBeforeBroker`, `PositionsBacked`, `WatchdogHolds`; refinement of `TradeLifecycle` |
| `trader_overlap` (`TraderOverlap`) | 3 fair runs, 2 at a time, 2 signals, caps of 1 | `RunCap`; `DailyOvershootBounded`: order rows pass the daily cap by at most the runs admitted together; `RunsTerminate` |
| `trader_position_bound` (`TraderPositionBound`) | 3 runs, 2 at a time, 4 signals | `PositionOvershootBounded`: open positions pass their cap by at most what each run cannot see |
| `trader_operators` (`TraderOperators`) | 2 overlapping runs, kill switch and halt | `OperatorStops`: after either, at most the order already past its check is sent |
| `paper_serial` (`PaperSerial`) | 2 signals, 3 orders, 6 requests one at a time | `OnePositionPerSignal` (with a filled order behind it), `ClosedIsFinal`; refinement of `PaperLifecycle` |
| `paper_overlap` (`PaperOverlap`) | 2 signals, 2 orders, 5 requests, 2 at a time | `OneOpenPerOrder` |
| `services` (`Services`) | the bounds below | the properties of the components of `MCServices`, below |
| `pages` (`Pages`) | the bounds below | the properties of the five components of `MCPages`, below |
| `records` (`Records`) | the bounds below | the properties of the eight modules of `MCRecords`, below |

Each type invariant is checked in the first run of its module. The bounds are
the smallest at which the cases that matter occur: three signals let a run hold
an unflushed row, a flushed row and a submission; three runs with two at a time
let one start after another has committed; four signals let three runs hold two
positions each, which a count that missed the other runs would allow; a kill-on-error count of two lets a
run survive one timeout; six requests let two orders of one signal be filled and one be closed.
Overlap of two is what every race in this code needs; three arming requests let an
arm and a disarm commit around what a third has loaded. In `pages` the trading
control allows auto-trading in paper mode (`AutoTradingAllowed`), as the tests of the
arming routes set it: in this build it never does, and every arm request is rejected.
The `Environment` and the
limits differ between the trader's runs because the full product is too large;
each run leaves out what its properties do not depend on. Deadlock is not
checked: the day ends, and a bounded number of requests does.

What `services` checks, and the bounds that let it happen:

| Component | Properties | Bounds |
| --- | --- | --- |
| Governance | `SingleActive`; refinement of `ActiveSlot` (`ImplementsSlot`) | 3 models and 4 requests one at a time: promote, displace, roll back, and roll back again |
| Manual orders | `DeskAnswersForOrders`: a halt stops the desk, what is placed is audited | 2 orders beside 2 halt rows: one lifted while the other is in force |
| Connection | `Recovers` | cooldowns of 3 and 1 ticks; no bound on outages |
| Books | `AcknowledgedIsStaged` | 2 batches beside each other over 2 fills of one order at 2 prices |
| Idempotency | `ProcessedOncePerKey` | 4 requests, 2 at a time, with 2 keys: an eviction by a request with the other key |
| Jobs | `JobsSettle`, `RunningIsAlive` | a job and its retry, with 2 combinations each |
| Validation | `PlansTellTruth`: the stored verdict is that of the evidence, and one plan of a candidate is open | 2 plans, one loss and one signal outcome each |
| Queue | `HygieneKeepsNewest` | an allowlist that names a symbol twice, 2 signals |
| Trainer | `VersionsSpaced` | 2 trainers, 2 samples, a cooldown of 2 of the 3 hours there are |
| Sync and sweep | `SweepTallyTrue` | 2 assets, of which one may be refused before the other |
| Simulator | `TargetsAreEarned` | 5 shapes of candle, windows of 2 and 3, 8 candles |
| Replays | `CompletedIsOneReplay` | 2 replays of 2 parts one after the other, 1 review |
| Walk-forward | `FoldsJudgeFairly`: a trade counts once in a fold, the folds cover the run, earning more is not worse | 2 splits, up to 3 folds, 3 trades of 3 amounts at every time of a run of 5 |
| Alert rules | `LastChangeRules` | 2 changes of a rule, an order |
| Files | `StoresKept` | 3 writers, 2 executions, a log of 2 entries |

`ServicesTypeOK` is the type invariant of them all.

Three of the run's properties name several of these: `SimulationsJudgeFairly` is
`TargetsAreEarned` and `FoldsJudgeFairly`; `EventsKept` is `LastChangeRules`,
`AcknowledgedIsStaged` and `StoresKept`; `PlansToldTruly` is `PlansTellTruth` with
what is shown of the plans: one shows as ready for review only until something
recalculates it, the dashboard counts what the pages tell, and the score is full just
where no warning is left.

What `pages` checks, and the bounds that let it happen:

| Component | Properties | Bounds |
| --- | --- | --- |
| Pages of the day | `DayPagesTrue`: two services show one day alike, each close is on one day's report and the reports add up, the page of the closes is that sum until it is cut and reaches back over today, a verdict matches the gain unless it may be another trade's of the signal | 2 trades of one signal or of two, that gain, lose or break even, over two days of 2 ticks; `MaxRows` 1 (the code's is 150), so that two closes are cut |
| Risk rules | `RulesHold`: no approval in a cooldown, and nothing approved that the older rules reject | an evaluation, 2 trades, a streak of 2 losses (the code's is 3), profiles with and without limits |
| Watch lists | `TroubleShown`: nothing hidden that is not said to be, stale orders on both pages, rejections first | 2 items of 3 kinds, every failing load, windows of 1 |
| Controls | `WatchedControlsAgree`: the gates of a submission and of a run agree but for the two conditions that only the first knows, the card suggests only runs that the gates of a run let through and does not contradict itself, green is open | normal mode and 21 variants of it, with symbols that are no equity's and PAPER_TRADING_ENABLED off among them, every failing statement |
| Arming | `AnswersTrue`; `ArmedTruly`: what is armed was armed for its day, and the readback agrees | 3 arm or disarm requests over 2 days of 2 ticks |

`PagesTypeOK` is their type invariant, and `PagesTellTruth` the conjunction of
`DayPagesTrue`, `TroubleShown` and `WatchedControlsAgree`.

What `records` checks, and the bounds that let it happen:

| Component | Properties | Bounds |
| --- | --- | --- |
| Migrations | `MigrationsFit`: the schema is that of the revisions applied, however the database got there; which commands fail is known; rows are kept | all 33 revisions, 8 targets on both branches, rows in 3 tables, a crash at every step |
| Data centre | `DataToldTruly`: report, gaps, coverage row, reviews and import pages agree | 2 providers, 6 times with a weekend, 2 batches, 2 reviews |
| Results | `ResultsToldTruly`: periods, curve, figures and the page tell the same; a harsher market costs no less | 2 configs of up to 3 trades of 5 gains, 2 markets, every class and profile for the costs |
| Ranking | `RankingToldTruly`: no worse figures are judged no worse; pages and reports agree | 2 of 222 results compared, a replay, 2 reports, previews of up to 200 points |
| Recommendations | `DryRunsOfApproved`, `DryRunsGuarded` | one order, 2 reviews, 2 previews, halts, limits and restarts |
| Candidates | `OneActiveUnlessRaced` | one pair, 2 creates, an update, 3 rows |
| Prompts | `PromptsKept`: a signal that names a prompt was asked with it, unless the file was edited or an adaptation applied; seedings are whole; what is kept is sound at every entry | 2 texts, 2 overlapping applies, a request, a sweep of 2 assets, 5 prices |
| Schedule | `SchedulesKept`: jobs keep to their switches and least intervals, and the background trader to paper | settings below, between and above every least interval |

`RecordsTypeOK` is their type invariant; `DeploymentsKeepRecords` is `MigrationsFit`,
`PromptsKept` and `SchedulesKept`, `LabTellsTruth` the two of the lab, and
`RecommendationsGuarded` those of recommendations and candidates. Every property of a passing run
has a mutant in `PROJECT.json`: a change of the code's definition that a plausible
bug would make and that the run finds.

Some runs find a statement of the code's own documentation false. Each checks one
property, and the shortest behaviour TLC reports is the explanation:

| Run | Statement | What happens |
| --- | --- | --- |
| `trader_position_cap` | the worker refuses to open beyond the cap | the position of the previous opportunity is added and not flushed when the next one counts; one run is enough |
| `paper_unapproved` | only approved requests are executed | a rejection that loaded the request pending overwrites the approval while its execution is in progress |
| `books_daily` | the day's closed P&L is the sum of its fills | each snapshot already holds the day so far, and the snapshots are added up |

The same models show further consequences of checks on loaded values, which no run
is spent on. Two promotions in progress at once leave two versions active, and the
next promotion clears one of them only; a promotion of a version loaded as active
writes nothing, so a deactivation in between stays. A fill that loaded an order as
submitted finishes after another fill and a close and reopens the order; a mark to
market that loaded a position open writes onto it after its close. A submission
that timed out is placed later and has no order row, so the daily cap counts rows
and not orders. Two replays that both loaded a queued run mix their outputs
(`MaxReplays = 2` breaks `CompletedIsOneReplay`). A mark, or a second close, in progress
beside a close changes a closed position, for both decide on the status that their session
loaded (`services/position_service.py:87`); `ClosedIsFinal` is checked for requests one
at a time. A replay that dies leaves the
run "running", which no request changes. An update or a recalculation reopens a
validation plan while another is open (`OneOpenPlan` excepts them). A sync reports
rows that its aborted transaction loses, which is why `SweepTallyTrue` speaks of
the sweep. A period whose last loss turns into a gain has no profit factor, counts
as zero and is judged worse (`BetterIsNotWorse` excepts it).

Further statements of the code's own names, docs and tests that the modelled code
does not keep, and that the properties above leave out:

- a walk-forward validation answers "completed" and, when the run has a summary,
  stores nothing: the dict is changed in place and assigned to the attribute it came
  from (`services/strategy_lab_service.py:793`; `Validated`);
- a reconciliation of a validation plan recalculates before its own evidence is
  flushed (`services/paper_validation_service.py:807`); the plan's verdict is that
  of the evidence before it (`PlansTellTruth` excepts it);
- no day is ever green: that there are no notes is listed as a limitation, and a
  limitation makes the day incomplete (`services/cockpit_daily_scoreboard_service.py:376`);
- the best trade ranks a P&L of zero below every loss, zero being falsy
  (`services/cockpit_eod_report_service.py:254`);
- the drawdown of a market context sums the close worker's fractions as money
  (`services/market_context_snapshot_service.py:226`);
- the attention page answers with an error once it meets an approved decision, since
  a Boolean has no `lower()` (`services/cockpit_alerts_attention_service.py:502`);
- the items in flight are sorted by the text of their level, which puts high last
  (`services/cockpit_in_flight_adjustments_service.py:497`);
- the status card shows the emergency stop as passed under a trading halt
  (`services/cockpit_auto_paper_status_service.py:596`);
- an approval long overdue is still approved unless something expired it
  (`services/approval_service.py:181`);
- an arm or disarm request that computes the values it loaded writes nothing, so
  one committed meanwhile stays (`services/trading_control_arming_state_service.py:351`);
- the status card calls the mode normal and suggests a run although the gate of a
  submission will refuse its orders: it knows neither the form that a symbol must have
  (`services/trading_control_service.py:335`; `BRK.B` on the allowlist has no chance) nor
  PAPER_TRADING_ENABLED (`:354`; `services/cockpit_auto_paper_status_service.py:689`).
  `GatesAgree` names the two as what the card does not know;
- the page of the closes calls "total closed trades" what its cut at 150 leaves
  (`services/cockpit_trade_close_explanations_service.py:258`, `:351`), which
  `ExplainedReachBack` allows; it looks the outcome up by the signal (`:244`), so of two
  trades of one signal one may be told the verdict of the other (`ToldAnothers`, excepted
  by `VerdictsMatchGains`);
- the daily sync writes bars of a day without a report on them; `DataToldTruly` is about
  the intraday timeframe that the reports are made of;
- the gate of a run takes a kill switch that it cannot read for one that is off
  (`services/auto_paper_gate_service.py:92`), though line 4 says that it fails closed;
- eleven tables of the models have no migration (`UnmigratedModels`), and
  `signal_outcomes` lacks the columns of `OutcomeMeasures`, so a migrated database
  cannot store outcomes;
- no database gets back to before `d058936fdd0d`: its own downgrade and that of
  `9c0191d5922a` cannot run (`one way`), and the upgrades of both fail on tables that
  hold rows; `src/apps/api/DATABASE.md:36-40` promises forward and backward compatibility;
- the page of the imports shows a batch with items passed over as completed, while the
  request answered that it was partial (`ImportsShown`);
- `execution_cost_model.py` lists gold as a commodity and classes it as a currency when
  no class is given (`CostsOrdered` excepts it); the level `loss_sensitive` never
  occurs, and a config that lost once is always highly sensitive (`FiguresAgree`);
- a result that never lost has no profit factor, scores 0 for it and gets at most a B;
- `StrategyResult.score` is never written, so what the history calls best and what a
  report puts first are rows in the order of their insertion, while the comparison's
  answer is ranked (`HistoryBest`); the top ten and the bottom five of a report repeat
  a config of fewer than fifteen (`ListsCover`);
- a market order without a price is never compared with the notional limit
  (`PreflightStatus`); stop orders are never eligible; "reviewed" is never set;
- the readiness review divides a float by a Decimal whenever a profit factor and its
  target are both known (`services/paper_validation_service.py:997`), so a plan that
  breaches has no review page (`ReviewAnswers`), and the 0 to 10 points of the
  evidence's confidence are never earned;
- on an empty table the seeding of prompts fails at each start, because two files
  are version v1 of one role (`services/prompt_version_service.py:78`; `SeededRows`), and
  with such a row each start rewrites it, though lines 3 to 5 call it idempotent;
- an applied adaptation is never sent: `services/signal_service.py` loads the files, and
  then names the adapted row as what it sent (`RecordedAsUsed` excepts it); the
  history shows under it the hash of the base file; its seventh name is too long for
  the column;
- swept signals name neither a prompt nor a model row, and the model row of a swept
  answer that is refused stays (`workers/signal_sweep_worker.py:125`); the approvals
  route stores signals without the geometry check;
- the trader's crontab says "30 min after each sweep"
  (`schedules/data_sync_scheduler.py:44`), while `main.py` runs sweeps every two minutes.

## Fairness

`RunsTerminate` needs weak fairness of the steps of a run that has started
(`FairSpec`). A run is straight-line code, its only wait is bounded by
`asyncio.wait_for`, and the timeout is one of its own steps. Nothing is assumed
of the adapter's threads, of the operator, of the scheduler or of the close
worker: a submission may stay in flight for ever and the run still ends.

`Recovers` needs that time passes (`ConnSpec`: weak fairness of `Tick`, the
monotonic clock of the cooldown). The rest of what it assumes is in the property:
TWS stays up, somebody keeps asking, and sockets stop failing. That reads are
asked for again and again is what the dashboards and the snapshot worker do.

## What is proved

For any finite sets of runs, signals, orders and requests and any limits, under
the assumptions named in the modules (`ParametersAssumption`,
`GovernanceAssumption`, `PaperAssumption` and those of the component modules: finite
sets, distinct null values, limits that are natural numbers):

- `AutoPaperTraderProofs`. `TraderTypeCorrect`; `RiskApprovalPrecedesBroker`;
  `KillSwitchStopsRuns`; `HaltStopsRuns`; `NoPhantomPosition`;
  `OperatorStopsRuns` (both switches); `WatchdogsStopRuns`; `PerRunCapHolds`. Each has an
  invariant of its own on top of the type invariant. The per-run cap needs that the
  submissions of a run and the one it is about to make are no more than `attempts`; the
  kill switch that a run which has sent one order under it is not again between the
  check and the send; the phantom positions that every accepted row a session holds
  stands for an order that the broker was given, since that is what a later commit
  turns into a position.
  The two bounds on what overlapping runs may do to a cap that each reads once:
  `DailyCapIsPassedByRunsInProgressOnly` counts the rows of the runs
  that ended and, for each run that is active, its whole cap (`DailyInv`), which no run
  exceeds (`RowInv`, summed over the runs by `BoundedShares`);
  `PositionCapIsPassedByTwoARun` counts the open positions together with the calls that
  may still open one without passing the gate again (`Potential`), at most an accepted
  and an answered one for each run.
  `OneRunTradesSignalsOnce` is the refinement of `TradeLifecycle` for `MaxOverlap = 1`,
  which APScheduler's `max_instances` is meant to ensure: by `SoloInv`, what the one run
  has ranked, is processing or is about to commit is still a candidate, and a submitted
  signal has exactly one open position.
- `ModelGovernanceProofs`, for one request at a time (`MaxOverlap = 1`).
  `SerialRequestsKeepOneActive`: at most one version is active. Clearing a single row is
  enough only because the request still sees the registry as it is (`Fresh`), which
  `OneOpen` keeps true. `SerialRequestsKeepSlot` is the refinement of `ActiveSlot`:
  a promotion is later than every one in the log (`Dated`), so it becomes the latest of
  its version, and the version it displaces is the one it saw (`Decided`).
- `PaperOrdersProofs`. `TypeCorrect` and `OrderHasOneOpenPosition`: however many
  handlers overlap, an order has at most one open position. A fill about to insert
  has seen none for its order (`Looked`), because a position carries the signal of
  the order that opened it (`Backed`), and no other fill of the order can be in
  between (`Locked`). Without the lock the invariant fails, as the run's mutant
  shows. For requests one at a time: `SerialRequestsHoldOnePosition`,
  `SerialRequestsKeepClosed` and `SerialRequestsKeepLifecycle`, the refinement of
  `PaperLifecycle`, from `SerialInv`: the one request in progress sees the rows as
  they are (`Fresh`), and a signal whose order is not filled has no position
  (`SignalsOfOrders`, `Unused`). `PaperOverlap` shows that the first of them needs the condition.
- `BrokerDeskProofs`. `DeskTypeCorrect`; `HaltStopsTheDesk`: an order requested
  under a halt (`shadowed`) cannot be past the preflight unless every halt was
  lifted, whichever the handlers beside it; `PlacedOrdersAreAudited`; `DeskAnswers`, both.
- `ServicesProofs`, a section for each component of `MCServices`.
  - `TrainedVersionsAreSpaced`: a trainer that computes has seen the
    version it follows (its `now` is MinHours later than that one's `trained`), and
    the unique number lets it insert only while that version is still the last.
  - `SweepReportsTruly`: while the session of a sweep is clean, what it counted is
    what it wrote.
  - `KeysAreProcessedOnce` (`IdemInv`): of the requests with an uncontended key one
    at most is running, a live key is on nobody's list of keys to evict (`LiveStays`), and a
    key that was processed is live.
  - `LastChangeAlwaysRules`: the log of a rule holds the events of the changes that
    were committed and no others (`LogIsOfChanges`), whose stamps differ
    (`StampsDiffer`), so the newest event is the change stamped last.
  - `AcknowledgedFillsAreStaged` (`BooksInv`): a fill that an ingestion has looked up is on
    record or among the rows it is about to insert (`LookedUp`).
  - `StoresAreKept` (`FileInv`): under its lock the journal is the store that was read and
    the upsert (`JournalHeld`); the log, which has none, needs that no append crossed
    another (`LogHeld`), and `NewestKept` that trimming after each append is trimming once.
  - `HygieneAlwaysKeepsNewest`: each young and allowed candidate that is to go has a
    younger one of its symbol that is not to go and does not expire (`NewestStays`), which
    is true of what hygiene computes (`NoiseSparesNewest`) and of what may happen before
    it commits.
  - `PlansAreToldTruly` (`PlansInv`): the stored verdict follows the stored evidence, one
    plan is open, and the review and dashboard, which judge the evidence anew, agree
    with it for every evidence and threshold.
  - `TargetsAreAlwaysEarned`: the target of an open trade is on the side of its entry
    that gains (`SimInv`), as the stop is a price there was, and an exit looks at the stop
    first.
  - `FoldsCountEveryTrade`: along a fold's cuts a time is ever further before the next
    (`PastFalls`), so it is in one period at most (`OnePeriod`); the first fold that ends
    after it begins before it, since a fold is at least one segment long (`Covered`).
  - `SimulationsAlwaysJudgeFairly`, for any two runs of one length that differ in what one
    trade gained: from that trade on the equity of the better run is higher by as much
    (`RaisedEquity`), so a peak of it is no lower and no fall deeper (`RaisedPeak`), nor a
    fall in parts of its peak (`RaisedDrawdown`); its profit is no lower and its loss
    no higher; so it has no penalty that the other has not (`PenaltiesFall`).
  - `EventsAreKept`: the same for `MCServices` as it is composed, of the alerts, the
    books and the files.
  - `RunningJobsAreRun` and `JobsSettleOnce`, from which requests may
    be on a job in which status; `CompletedRunIsOneReplay`, under
    `MaxReplays = 1`, which is the condition in the theorem: at the commit that
    completes a run every output is of the replay in progress, because it found the
    run queued and empty or has cleared it.
  - `ServicesKeepShapes`: the type invariant of `services`, for any number of requests and
    replays in progress. It is not inductive as it stands: a request of governance that is
    ready or was made with a version has one (`Targeted`); an append in progress holds no
    more entries than the log keeps (`LogBound`); what a refresh has flushed counts among
    the signals there may be (`QueueBound`); and an open trade was entered at a candle that
    was read (`SimBound`).
- `PagesProofs`. `RequestsAnswerTruly` and `ArmedOnItsDayOnly`, however many arm and
  disarm requests overlap. The invariant (`ArmInv`) says what each stage of a request
  has in hand - an arm request that goes on was vetted within the age of a snapshot,
  what it loaded satisfied the table's constraints - and that an armed row's expiry is
  the midnight of a day on which an arm request was answered (`ExpiryGranted`); the
  constraints refuse the columns of an arming on a row that a disarm has changed.
  `RulesAlwaysHold`: no step undoes a close or dates a new one back (`ClosesStay`), so a
  sampled context still counts every loss closed before it (`Truthful`), and what was
  approved had cooled down since the last one it counts (`Judged`).
  `PagesAlwaysTellTruth`: the figures filed so far are those of the trades closed before
  today (`FiledInv`), each day adding its own, so that all the reports add up to what was
  closed (`ReportsAddUp`); whichever rows the cut leaves are none older than those it drops
  (`CutIsNewest`), so they are all of them, or count less, and hold today's closes when
  these fit (`PageReachesBack`), for any `MaxRows` and any sharing of signals; the list that answers holds each source or
  names it as missing (`WatchInv` gives the rows their shapes); and for any environment and
  failing read, the first gate that blocks, the first advice that applies and the colours of
  the checklist follow from the same conditions (`ControlsInv`).
  `PagesKeepShapes`: the type invariant of the pages, with the rows that are stored by key
  (`PagesShapes`): each day filed once, outcomes of closed trades only, rules by their names.
- `SumTheorems`, for the two above and below: any finite set of integers can be added up,
  to an integer and in any order (`SumByAdding`, `SumTakesOut`), a sum over two parts is
  the sum of theirs (`SumOfParts`), and the parts of a set that do not meet add up to its
  size (`CardinalityOfParts`); a sum over a sequence is its last term and the rest
  (`SumsInOrder`), a finite set has a greatest element by any order that is total on it
  (`GreatestByOrder`), two functions add up term by term (`SumOfTwo`), and a function
  defined along 0..N step by step exists and stays where each step stays (`StepByStep`). The library's induction cannot be instantiated (below);
  `AllNaturals` stands in for it, by the least counterexample.
- `RecordsProofs`.
  - `RecommendationsAreGuarded`: a recommendation that was decided has a review that is done
    with it (`ReviewsBehind`), so an approval can only go by a second review that had
    loaded the same draft; what a preview allows was compared with a limit or lacks the
    price for it (`AllowedIsWithin`); and of the active candidates that a create looked
    past, an update made each active again and left its mark (`LookedAt`).
  - `JobsKeepTheirSchedule`: every interval is at least the shortest of its job
    (`EveryIsLong`) and whatever is in progress was registered by the settings of the
    process (`ScheduleInv`).
  - `DataIsToldTruly`: what is stored of a provider in three tables agrees and is as old
    as its last import (`QualityInv`), since an import of another provider can only take
    bars over; the statuses of a batch are those it has answered so far (`AnswersRecorded`).
    That gaps are holes which make up what is missing is a fact about any finite set of
    times (`GapsAreAlwaysHoles`): between the bars and between the runs of expected dates,
    intervals that do not meet add up to what they cover (`CardinalityOfParts`).
  - `PromptsAreKept`: the first row of a prompt is what the files said at the last start or
    what was edited since (`FirstIsSeeded`), and a request in progress was sent that or
    knows that it was edited (`AskedWithFirst`); an answer that passes the checks
    of its geometry can be traded (`SoundIsTradable`).
  - `RankingIsToldTruly`: a config ahead of another has fewer configs ahead of it, so each
    rank is taken by one config and the response is a falling list of scores
    (`RanksAreTaken`, `RankedInOrder`); a result no worse in its figures is no worse in each
    score, and rounding keeps their order (`NoWorseIsJudgedSo`); the reports of a replay
    hold a beginning of its rows (`Traceable`). `RankingAssumption` types the figures and says that
    a result with a factor, so with a lost trade, has the highest level; `FiguresAlwaysAgree`
    proves that of the results.
  - `ResultsAreToldTruly`: a curve is ever later and each point of it lies under a peak that
    an earlier point reached (`IsCurve`, kept by `CurveGoesOn`). One pass over it holds the
    top it has fallen from, the lowest since, and periods that name each deeper fall
    (`Scanned`, shown of every prefix point by point: `ScanUnchanged`, `ScanLower`,
    `ScanHigher`), so the deepest period is the deepest fall (`PeriodsSay`, `FallsAreTold`).
    Costs lower what is left and never raise a factor, and a result whose level is not the
    highest won every trade (`FiguresOfTrades`, `FactorsInOrder`); a class is reached
    and a harsher market costs no less (`ClassesAreReached`, `CostsAreOrdered`); the page of
    a run adds and orders what its results have (`PageAlwaysTells`). `ResultsInv`: what is
    stored was made from a ledger and its curve, and the config in progress has such a pair.
    `ResultsAssumption` has a start capital, gains that do not lose all of it and times that
    are natural numbers; `MarketsAssumption` the markets from the code's own tables.
  - `LabAlwaysTellsTruth`: the two of the lab for the composed specification of the run.
  - `MigrationsAlwaysFit` and `DeploymentsAlwaysKeepRecords`, for any targets and any tables
    with rows: the committed database and the copy of a command each have the schema that
    their revisions make (`SchemaFits`). A revision is applied after its ancestors and undone
    before its descendants, so no step meets a schema that it was not written for
    (`NextFits`, `LastGoes`, from what is true of columns and foreign keys that come and go:
    `HeldWithNext`, `HeldWithoutLast`). `UpgradeGoes` and `DowngradeGoes` say what a command
    has left to do; a database rests at the second revision only when a command named it
    (`LeftAtSecond`). They use `RevisionsFit`, which TLC has evaluated on the whole table,
    and `TargetsAssumption`, that a target is a revision or none.
  - `RecordsKeepShapes`: the type invariant of the records. On top of the invariants above
    it needs what a provider may return (`FeedsAssumption`) and is still to be asked for
    (`BatchBounds`), that a report counts bars of the times (`ReportsBounded`), that a create
    saw rows before its own (`SeenBefore`), and the prompt rows' columns (`PromptShapes`).

Only model-checked: the liveness properties (`RunsTerminate`, `Recovers`) and everything
that depends on ENABLED, which the prover does not reason about; the refinements without
the condition that requests or runs do not overlap, which the code does not keep. Every
invariant that a passing run checks is stated by a theorem, under the condition of the
run (`MaxOverlap = 1`, `MaxReplays = 1`) where it has one. The prover cannot instantiate
the library's induction theorems, so each induction has to be one over a set of numbers
(`AllNaturals`, `LeastNatural`); no model uses a recursive operator.

## What is not modelled

`PROJECT.json` gives the reason for each component without a module. The model policy
and position sizing are comparisons that nothing calls. The news worker is a
placeholder. The other cockpit, monitor and health views and the reconciliation only
read; indicators, features and scores are numerical; the providers' clients are calls
and their text; the web client and the offline jobs hold no state of the system. They
are most of the repository's lines.

Within the modelled parts: prices, quantities and P&L values beyond what a
property tells apart, the text of notes and audit
payloads, read-only routes and previews, halts of a scope other than the global
one, risk limits other than one exposure, handlers of one validation plan beside
each other, and PostgreSQL's refusal of a commit where a handler only passes it on.

## Plan

1. Two handlers of one validation plan beside each other; baseline candidates
   composed with the plans that are made of them.
2. The orders that an arming lets through, once one depends on it.
