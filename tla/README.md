# A verification project for PolySignal

PolySignal reads public prediction markets, imports and scores them, researches
them, analyses the wallets that trade on them, and copies the public trades of
followed wallets with demo money. This directory holds TLA+ modules for its API
back end, its watcher, worker and daily pipeline. TLC checks them on small instances;
TLAPS proves the invariants that matter most for every value of the constants.

To check: `tlc -config MCCopyEngine.cfg MCCopyEngine` (each `.cfg` names the
module it belongs to, see *Runs*), and `tlapm X_proofs.tla` for each module of that
kind. `PROJECT.json` lists components, runs, hazards, theorems, the mutant that
breaks each property, and the source lines of every definition.

## Inventory

Paths are below `src/apps/api/app/`. `services/copy_trading_` is shortened to `ct_`.

### Copy trading

| Component | State | Operations | What makes it hard | What makes it correct |
|---|---|---|---|---|
| Demo engine, `ct_demo_engine.py` | detected trades, orders, positions | scan one wallet, scan all | the same feed is read on every scan, newest first and cut off; wallets vanish under a scan | each trade is copied at most once, and once if it stays readable |
| Demo positions, `ct_demo_positions.py` | positions | open, match, close for a sale | a sale must find the position of its purchase | one position per copied purchase, one closing sale each |
| Settlement, `ct_demo_settlement.py` | positions | settle the oldest live ones | late or differing answers, one failure among many, statuses that go back and forth | final rows are final and complete; resolved markets finish their positions |
| Reconciliation, `ct_demo_reconciliation.py`, its command | positions, orders | close positions by sales stored later | sales are matched after the fact, with opening times from other clocks | what was sold since the opening is closed, nothing else |
| Wallets, `ct_service.py`, `models/copy_trading.py` | followed wallets | create, update, delete (with cascades) | users edit while a scan runs | rows belong to followed wallets |
| Risk rules, `ct_risk_rules.py` | none | verdict on one trade | settings change under a scan | nothing refused is copied |
| Watcher threads, `ct_watcher.py` 93-331 | `_enabled`, `_running`, `_thread`, `_stop_event` | start, stop, run once, loop | flags reset by threads that no longer own them | the flag never blocks cycles for good; enabled means cycles; paused means no loop |
| Watcher cycle, `ct_watcher.py` 333-725 | wallet health, last settlement | prioritise, scan, defer, cut, settle, commit | budget, time-outs, starvation | quiet wallets take turns |
| Database sessions, `db/session.py` | transactions, ORM identity maps | begin, flush, commit, roll back | stale rows, lock waits, duplicate keys, deadlocks | no trade is copied twice; sessions end |
| Worker, `commands/copy_trading_worker.py`, `copy_worker_state.py` | advisory lock, heartbeat row | start, run a cycle, beat, back off, close | a live worker that looks stale, a lock lost with its connection | one worker at a time, an honest row |

### Markets, research and signals

| Component | State | Operations | What makes it hard | What makes it correct |
|---|---|---|---|---|
| Live import, discovery, sync, backfill, metadata: `live_market_import.py`, `polymarket_sync.py`, `identifier_backfill.py`, `discovery_snapshots.py`, `controlled_*_refresh.py`, `market_snapshots.py` | markets, their identifiers, snapshots | import, sync, fill identifiers in, take prices | each matches a remote market to a local row by other fields | behind a row is one market |
| Readiness and the refresh queue: `research/upcoming_*.py`, `analysis_readiness.py`, `market_freshness.py`, `data_health.py`, `data_refresh_prioritization.py`, `polysignal_score.py`, the user's marks | none of their own | lists and ranks computed from stored rows | six services judge freshness by queries of their own | no market is refused by all; what lacks data comes first |
| Soccer refresh, `commands/refresh_soccer_markets.py` and the two reports | markets, snapshots, predictions | dry run, apply, plan, health | stages commit one by one, limits are cut at different points | the forecast is met; the reports agree |
| Evidence and scoring: `evidence_pipeline.py`, `scoring.py`, `evaluation.py`, `backtesting.py` | evidence, predictions, outcomes | capture, score, evaluate | evidence ages apart; two evaluations in two files | no opportunity on old odds; evaluations agree |
| Research: `research/pipeline.py`, `research/codex_agent_*.py` | runs, findings, predictions, files | run, prepare, validate, ingest | a file may change after it was validated | what is ingested was judged as it was read |
| External signals: `kalshi_market_signals.py`, `external_market_*.py` | rows of Kalshi's markets | fetch, match, link | many weights add up; matchers overlap | a sure link contradicts nothing |
| Market signals of analyses, `polysignal_market_signals.py` | signals | create, settle one or the pending ones | sessions settle from stale rows | what is counted says what happened |

### Wallets, records and reports

| Component | State | Operations | What makes it hard | What makes it correct |
|---|---|---|---|---|
| Wallet analysis jobs, `wallet_analysis_runner.py` | the job's row with list, cursor and lock in one JSON column; candidates | create, run a step, run by command | two runners, a slow owner, whole columns written from an old read, batches that fail half way | no wallet skipped, counts that are true |
| Profiles of analyses, `wallet_analysis.py` | profiles, copy wallets | save a candidate, edit, follow in demo | requests commit over what they have not seen | notes survive |
| Highlighted profiles, `highlighted_profiles.py` | the registry | upsert | columns of two upserts mix in a row | what fell below the rule is marked |
| Daily pipeline and status, `scripts/run_market_pipeline.ps1`, `operational_status.py` | summary files, history | run, record, read the status, compare windows | a dead step leaves the summary of the day before | a failed run publishes nothing; the status agrees with the history |
| Briefing and diffs, `briefing.py`, `market_overview.py`, `market_diff.py` | snapshot and diff files | rank, cut, compare | diff commands overlap and die | diffs compose; views agree |
| Linear sync, `linear_sync.py`, `linear_auth.py` | issues of the team, credentials | log in, refresh, plan, apply | answers get lost, people edit issues | one issue per id; one sync is enough |

Not modelled (reasons below): real executor, dashboard, wallet intelligence, API
clients, web client logic and pages, migrations and one-off scripts.

**How they interact.** Routes and the watcher's loop threads (in the API or in the
worker) call `run_once`, which runs a cycle: the engine over the wallets the scheduling
picks, then now and then settlement, in one database session that commits at its end.
Routes scan and settle in the session of the request, a command reconciles in its own.
All meet in the tables. Users create, edit and delete wallets at any moment. An analysis
job finds wallets, leaves candidates, profiles and a market signal; following a
profile creates a copy wallet. Import, sync and refresh fill the market tables that
evidence, scoring and research read; research and scoring write predictions, the
overview ranks those, and briefing, diffs and the daily run publish them. The public
APIs are read and may fail, lag or change.

## Modules

`X` is a component, `MCX` its instance for TLC, `X_proofs` its theorems. Operators
commented "Mutant" are plausible wrong versions of the definition that follows; no
specification uses them. `NoValue` declares the model value `None`.

### Copy trading

**`CopyLedger`** (abstract). What a book of copied trades promises: a source trade
of a followed wallet is decided once; if it is copied it is live and then done, and
only unfollowing its wallet forgets it. One step is one commit and may do many things.

**`CopyEngine`**. The tables and the operations of the engine. `db` holds committed
rows and `work` what the running operation sees; an operation is a sequence of steps
(fetch a wallet, handle one trade, settle one position, ...) between `Begin...` and
`Commit`, `Abort`, `RequestBreaksOff` or `Restart`. In between the clock moves, the
public feed grows, markets close and are resolved, and users edit wallets.

| Code | Definition |
|---|---|
| `_scan_wallet`, one trade | `HandleTrade`: `IgnoreTrade`, `RecordSideless`, `DetectOnly`, `RefuseTrade`, `CopyBuy`, `CopySell` |
| its loop, fetch, errors | `Fetch`, `FetchFails`, `EndWallet`, `ScanBreaksOff` |
| `_build_dedupe_key`, `find_matching_open_demo_position` | `KeyOf`, `MatchingOpen` |
| `classify_trade_freshness`, `evaluate_demo_trade` | `TooLate`, `Verdict` |
| `_run_cycle`, `_maybe_run_demo_settlement` | `BeginCycle`, `BeginRequestedCycle`, `DeferRest`, `EndScan`, `SettlementStops`, `EndSettlement` |
| `settle_open_demo_positions` | `SettlePosition`, `SettlePositionFails`, `SettleVanished`, `Settled` |
| `reconcile_open_demo_positions` | `ReconcilePosition`, `LeavePosition`, `LaterSales` |
| `started_at`, `current_time` of an operation | `at`, set by `Begin` |
| wallet routes | `CreateWallet`, `UpdateWallet`, `DeleteWallet` |
| `except` and the end of a session | `Abort`, `RequestBreaksOff`, `Commit`, `Restart` |

Abstractions: prices are small numbers, sizes and PnL are left out, and so are copy
events, reasons, texts, `last_scan_at` and `last_trade_at`. A position is named by
its opening order. `locked` stands for the row locks of the open transaction as far
as they make a user's edit or delete wait. The writes of two operations do not mix here, but
their times do: an operation may have read its clock (`at`, any time up to now) before others
opened positions and committed them, as a cycle does that a scan on request overtakes.

**`CopySessions`** lifts that: several sessions of one wallet's book interleaved
statement by statement, with what READ COMMITTED and the ORM add to it: a query sees
committed rows and its own; a loaded row stays as it was loaded; an UPDATE sets the
columns that differ; inserts of the same key, updates of the same row and of the
wallet's row wait; a deadlock fails one of its waiters. Of CopyEngine's rules it keeps
those that decide which rows are read and written. The database's rules are external:
no file in the repository implements them.

**`CopyWatcher`**: the threads of the watcher. Each lock-protected section is a step,
each read outside the lock a step of its own. Loops are started by `Start` with a fresh
event; `StopBegin`/`StopEnd` are the two halves of `stop` around its join.
`raised` is a history variable that remembers a factory's exception.

**`WatchCycle`**: which wallets a cycle scans. `Bucket`, `Boost` and `Before` are the
sort key of `_prioritize_wallets`, `Deferred` is `_should_defer_for_priority`,
`HealthAfter` is `_update_wallet_health`; `StartCycle` loads and sorts,
`ScanNext`, `DeferNext` and `CutCycle` walk the list. Times of last scans are ranks, for
only their order is compared.

**`CopyWorker`**: worker processes beside each other: `TryLock`, `MarkStarted`,
`StartLoop`, `EndCycle`, `FinishLoop`, `WakeUp`, `LeaveLoop`, `Close`, `Release`
follow the command's `run`; `Signal`, `Killed`, `ConnectionBreaks` and failing heartbeats
come at any point. A process does not notice that its connection, and the advisory lock with
it, is gone; `lost` remembers it. `DerivedStatus` is `_derive_worker_status`.

### Markets, research and signals

**`MarketCatalog`**: the local markets, each row named by the remote id it was created
with. Condition, tokens and price are the remote market they belong to, so that
`OneMarketBehindARow` can be said. `SyncActiveMarkets`, `ImportDiscovered`,
`BackfillIdentifiers`, `RefreshMetadata`, `CaptureSnapshots`, `RefreshSnapshots` and
`DiscoverySnapshots` are the commands, each one commit. Likeness of titles is a relation.

**`AnalysisQueue`**: pure functions of the stored rows (`Upcoming`, `Quality`, `Reasons`,
`Readiness`, `Gaps`, `Priority`, `Queue`, `Picked`) with the code's weights and thresholds,
over states that sync, refresh, ratings, the user's marks and the clock change. Titles are
sets of hints, which is what the classification looks for in them.

**`SoccerRefresh`**: `StartRefresh`, `Import`, `Snapshots`, `Score` and `BreaksOff` are the command's
stages; in a dry run each is rolled back, and `forecast` keeps what it reported until
something else changes. `Planned` and `Unwell` are the two read-only reports.

**`MarketScores`**: `CaptureEvidence` stores what the feeds say, `ScoreMarket` and
`ScoreMissing` turn it into predictions with the code's caps, windows and rounding in
ten-thousandths, `Accuracy` and `Backtest` are the two evaluations.

**`ResearchRuns`**: `RunResearch` is the local pipeline with its fallback,
`Prepare`, `AgentWrites`, `DryRun`, `Ingest` and `IngestUnread` the life of an agent's file;
`Verdict` is the quality gate.

**`ExternalSignals`**: `Fetched` stores a page of Kalshi or nothing, `BeginMatching`,
`CommitMatching` and `EndMatching` are a matcher that reads, links and commits while others do;
`MatchConfidence` adds the weights and applies the caps, in fiftieths of a thousandth.

**`MarketSignals`**: `CreateSignal` balances a list of candidates, settlers load signals,
ask (`Resolve`) and write the columns that differ at their commit. What a settler has still to do is a
set, taken from its lowest number, the oldest signal.

### Wallets, records and reports

**`AnalysisRunner`**: one wallet analysis job and the sessions that work on it.

| Code | Definition |
|---|---|
| `run_wallet_analysis_job_batch` | `Start` (read and judge), `Acquire` (write the lock, commit), `Refresh` |
| `_run_wallet_analysis_locked_batch` | `FailUnresolved`, `Discover` or `Reuse`, `NothingToExpand`, `NothingToAnalyze`, `AnalyzeBatch` |
| `_finalize_wallet_analysis_job` | `Finalize`, `FinalStatus` |
| `_handle_runner_failure` | `Failed`, in `FailDiscovery`, `FailAnalysis`, `FailFinalize` |
| the routes' and the command's `commit`, `rollback` | `Commit`, `Crash` |
| `_lock_is_active`, 90 seconds | `Expire` |

`row` is the committed row, `session` holds each runner's copy with the columns it has
written since its last commit (`dirty`) and the candidates it has added. An UPDATE writes only
changed columns and keeps the row locked until the commit, so from `Discover` or `Reuse` on
one runner at a time works. Left out: scores, warnings, texts and the payload; the market
signal that `Finalize` appends is MarketSignals' `CreateSignal`. `can_expand` of the code is
always false where it is asked, for the target it compares with has just been set from the
same request; so `NothingToExpand` has no such condition. No code sets the status `cancelled`.

**`WalletProfiles`**, **`HighlightedRegistry`**: requests that read a row, compute its columns
and commit those that differ. `Saved`, `Upserted`, `MeetsRule` are the merges and the rule.

**`DailyRun`**: `RunStep`, `LoseStep` (the child dies and its file stays that of an earlier
run), `SkipStep`, then `RecordRun` and `PublishRun`, the two files a run ends with;
`OperationalStatus`, `Items`, `CompareSummary`, `ComponentTrend` and `SummaryTrend` are what the status
endpoints derive from the files, `PipelineHealth` to `DiffHealth` the five component healths they start from. A
window is the set of the positions of its runs in the history.

**`MarketBriefs`**: `Overview` gives each market its rank and bucket; `Briefing`, `Export` and
`DiffSnapshot` are cut from it. Sorted lists are sets of ranked items here: a list of the briefing is
the items with fewer than `TopLimit` (`WatchLimit`) before them. `BeginDiff`, `WriteSnapshot`, `WriteDiff`, `DiffDies` a diff command between its files.

**`LinearSync`**: `Login`, `Authorise` (by key or by token), `Refresh`, `Save` (which may tear
the file) the credentials, `ReadAndPlan`,
`ApplyNext`, `EndsShort`, `Report` a sync; people edit, move and delete issues between them. Issues
and plan are functions: an operation names the entry it is for, the issue it was planned on and the
fields it sets. The bootstrap query returns any `PageSize` issues.

### Compositions

CopyEngine composes engine, settlement, reconciliation, wallets and the feed; CopySessions several of
their sessions; the other modules touch disjoint tables or files. `MCMarkets`, `MCRecords`
and `MCRoutines` put those side by side: a variable `part` names the one that moves, the others
keep their initial state. Nothing of one part is read by another, so a run of the
composition checks each part as a run of its own would.

## Runs

| Run | Module, `.cfg` | Question | Bounds |
|---|---|---|---|
| `engine_core` | `MCCopyEngine` | Is the book sound, the ledger kept and every later sale reconciled, under crashes, deletes, re-follows and old clocks? | one wallet, two instants, two of three kinds of trades (purchase, sale, sideless), four orders; settings that refuse sales |
| `engine_live` | `MCCopyEngine`, `...Live` | Are readable trades detected and resolved positions finished? | two trades, one read per scan; a trade may have a hash; yes or cancelled |
| `engine_sideless` | `MCCopyEngine`, `...Sideless` | Does a repeated trade order again? (finding) | two trades |
| `sessions` | `MCCopySessions` | Do two sessions open one position per trade, and end? | two sessions, one purchase, one sale |
| `sessions_stale` | `MCCopySessions`, `...Stale` | Does a closed position keep its result? (finding) | as above |
| `watcher` | `MCCopyWatcher` | Flags and threads in every order | three starts, two request threads |
| `watcher_overlap` | `MCCopyWatcher`, `...Overlap` | Do cycles never overlap? (finding) | as above |
| `analysis_ranked` | `MCAnalysisRunner`, `...Ranked` | Does a completed job cover its list? (finding) | one runner, three wallets, three rankings |
| `markets` | `MCMarkets` | The services that keep and judge markets, and the analysis of their wallets by runners that overlap | per part, below |
| `records` | `MCRecords` | The services that publish and keep records | per part, below |
| `registry_overlap` | `MCRecords`, `...Overlap` | Is every profile below the rule marked? (finding) | two posters on one profile |
| `routines` | `MCRoutines` | Worker, rotation of the wallets, a runner alone | two workers (one of them `--once`); three wallets with focus of one to two; three wallets, three rankings |

**Why these are enough.** The tables of copy trading are related wallet by wallet and by
dedupe key, so a second wallet adds rows but no relation; a scan that reads one trade of two
lets one fall out of its reach; four orders are those of two trades and two more, for
reconciliation or repeated sideless trades. Two sessions make every lock wait and every
two-way deadlock except the branch of `DeadlockVictim` that loses one position to a
savepoint, which needs two positions locked in opposite orders. Two workers are a holder
and a successor, a threshold of two against back-offs of one to four has delays on
both sides of it. With three wallets a cycle can serve one, defer one and cut one. A job of two or three
wallets in batches of one has a first, a last and a repeated batch, and a list that a
second discovery extends or reorders.

`markets`: two settlers over two signals of one market, each list of candidates with another
leader by score than by number; scores of one duel and one other market with odds one day
old, so that they age past their window within the bound; two remote markets of one game
whose titles share a beginning, for that is what backfill confuses; one subject with two
runs and one forecast, three responses on both sides of the gate; two markets in the
queue, one of a tagged sport and one the texts alone classify, with a close inside and outside each window; a
slate of a winner and a draw with each limit at one, so that limits bite; two matchers over
titles that differ in team, year, shape or number of outcomes; a request and a command on one job of two wallets, batches
of one, where the request's limit (2) lets it discover anew after the command (1), as
`RequestsAskForMore` says. `records`: three daily runs
(one before, one lost, one after) of which only snapshots err and only snapshots and reports die,
the proofs cover all results; two diff commands of two; two sync ids, a page of two, two tokens, one sync at a time,
and the team's second issue only before it triages or anybody logs in (`OneIssueBesideTokens`: what
an entry needs does not depend on how the sync was authorised; the proof has no such bound); two posters that overlap on one profile, with
payloads on both sides of each limit of the rule; two clients on one profile.

Other bounds appear as guards (`MaxTime`, `MaxTrades`, `HasRoom`, `MaxDiffs`, ...), so finished
instances may stop: deadlock checking is off. Every command and job ends, and that nothing waits
for ever is said by `SessionsEnd`, `RunsEnd` and `RunsGoOn`.

**Properties.** Each is stated, with the code it is about, above its definition. Of those
that need more than their comment:

- `BookInv` is the inductive invariant of the engine (its parts say that a trade is stored and copied once,
  that endings are exact and that a sale closes one position). `KeepsLedger` is the
  refinement of `CopyLedger`, with `decided` the stored trades, `live` and `done` the
  positions by status.
- `ReconciliationIsExact` compares the tables before and after the run of the command. A position that was open is
  closed by a sale since its opening, or left as it was; and if it is left, no such sale is stored, or
  one has no price, or older positions filled the batch, or wallets were deleted meanwhile. Trades are read newest
  first, so a purchase and its sale in one batch leave a position that only this command, or the
  resolution of the market, closes. "Since" is what the code means by it: the sale's time
  is not before the clock of the scan that opened the position. A sale between the purchase and that scan is
  not found. Closings by a scan or a settlement may be dated before the opening, when the operation read its
  clock before another opened the position; nothing in code or docs excludes it.
- `CursorBehindCandidates` and `AnalyzedBacked` relate the list, the cursor or count, and the
  candidates, which are written in different commits and columns. They are checked where
  discovery keeps its order (it may still be cut or find nothing). `EnoughWithinAnalyzed` and `RunsEnd` are checked for one
  runner: with two that overlap, one may write a column it read before the other's
  commit, so a batch is counted twice and the cursor set back.
- `UndisturbedPostsMark`: two posts that overlap store the numbers of one beside the mark of the other
  (`registry_overlap`); the next post that commits over the row it read puts them in step again, because it
  reckons with the stored numbers it does not replace.
- `CyclesRotate`: `docs/copy-trading-plan.md:196-199` promises rotation. A wallet that trades goes
  before those passed over, however long they wait, so the property asks that no other
  wallet stays busy.
- `SleepersLookAlive` asks for delays up to the threshold: the code's back-off goes to sixty
  seconds, its threshold is thirty.
- `OneWorker` allows for a worker whose connection broke: it goes on without the lock.
- `NoDeadEnds`, `MissingDataFirst`, `ReportsAgree`, `EvaluationsAgree`, `ViewsAgree`,
  `StatusAgreesWithHistory` compare what two or more pieces of code conclude from the same rows.

**Fairness.** `FairSpec` of CopyEngine asks that an operation once begun goes on (weak
fairness of scanning, settling, reconciling and committing), that a transaction with a
write for a vanished row fails, and that cycles begin although other operations keep
coming (strong fairness of `BeginCycle` with the present time as its clock: in the program the loop runs in its own thread and
is not delayed by requests, which take turns only in this model). Faults stop at some
point; a step that a regular action would have taken too is not a fault. Users and the
outside world owe nothing. `TradesDetected` promises only trades among the
newest that a scan reads while their wallet stays eligible, and `ResolvedPositionsFinish` only
while the live positions fit one settlement run, because a run takes the oldest, and
those that never resolve may keep others out. With a second wallet that users keep deleting
and following again the cycle could be rolled back for ever, so the instance has one. In
CopySessions every session is strongly fair: PostgreSQL serves a lock's waiters in order. In
CopyWatcher threads run and cycles end. `RoutinesSpec`: cycles go on (weak fairness of the whole
scheduling, whatever it chooses), and a run of an analysis job that has begun goes on (strong,
since a row lock may keep it waiting); nothing is asked of those who start runs.

## What the violations show

- `engine_sideless`: a trade without an understood side leaves an order but no trade
  row, so each scan that reads it orders again, where `docs/copy-trading-plan.md` says a
  duplicate makes no order.
- `sessions_stale`: settlement or a sale overwrites a position another session closed in
  between, final PnL included.
- `watcher_overlap`: a loop that ends resets the running flag of another thread's cycle,
  and a third thread then runs beside it.
- `analysis_ranked`: a second discovery replaces the list by a new ranking while the cursor
  stays at the number of wallets analysed. Wallets that moved in front of it are never
  analysed, others twice, and the job ends `completed`, where
  `docs/wallet-analysis-jobs.md` calls a job that did not analyse all it discovered `partial`.
- `registry_overlap`: of two upserts of one profile each writes the columns it changed, so numbers
  below the rule stand beside `qualifies`, where `docs/profiles-plan.md:34` says such a profile is marked.

The properties that hold bound the damage: a trade is still copied once, a closed
position still has a price, the watcher recovers, the next post mends a profile, and a failed
pipeline, if it says so, publishes nothing.

Other differences between code and docs met on the way; the modules follow the code:

- `docs/copy-trading-worker.md:112-114` has a status "error" for consecutive errors;
  `_derive_worker_status` reports such a worker as "running" until its heartbeat is old.
- `docs/kalshi-market-signals-adapter.md:799` says that markets whose participants differ are
  never linked by themselves; `external_market_matching.py:140-143` counts one team in common as a partial overlap.
- `apps/api/README.md:1808-1813` says which step runs after which status, and that a dashboard that fails shows as a
  `warning`. A step that dies before it writes its summary leaves that of an earlier run, and
  `run_market_pipeline.ps1:115` takes it for this run's (the exit code decides only without a file): DailyRun's `LoseStep`.
- `docs/copy-trading-plan.md:196-199`: rotation, only while no other wallet stays busy (above).

## Proofs

Every safety property the runs check is a theorem too, for every value of the constants.

| Theorem | Module | What holds |
|---|---|---|
| `TypesHold`, `InvHolds` | CopyEngine_proofs | `Spec => []TypeOK`, `Spec => [](TypeOK /\ BookInv)` |
| `ExitsExact`, `SalesExclusive` | CopyEngine_proofs | readings of `BookInv` for the committed tables |
| `ReconciledExactly`, `RowsHaveOwners` | CopyHistory_proofs | `ReconciliationIsExact`, `OwnersFollowed` |
| `EngineKeepsLedger` | CopyHistory_proofs | `Spec => KeepsLedger`: the refinement of `CopyLedger` |
| `OnePosition` | CopySessions_proofs | `OnePositionPerTrade` |
| `FlagIsHonest` | CopyLoops_proofs | `RunningMeansWork` |
| `LockKeepsOneWorker`, `RowIsOfTheLoop`, `SleeperIsAlive` | CopyLoops_proofs | `OneWorker`, `ReportIsOfTheLoop`, `SleepersLookAlive` |
| `NoWalletSkipped`, `CountIsBacked` | AnalysisRunner_proofs | `CursorBehindCandidates`, `AnalyzedBacked`, given `OneRanking` |
| `EnoughAreAnalyzed` | AnalysisRunner_proofs | `EnoughWithinAnalyzed`, given one runner |
| `RowsStayApart` | Markets_proofs | `OneMarketBehindARow` |
| `NoBlindOpportunity`, `PagesAgree` | Markets_proofs | `OpportunitiesNeedOdds`, `EvaluationsAgree` |
| `WinRateIsHonest` | Markets_proofs | `CountedHonestly` |
| `PlanAndHealthAgree`, `DryRunsForetell` | Markets_proofs | `ReportsAgree`, `ForecastsAreMet` |
| `SureLinksAgree` | MarketSources_proofs | `SureLinksDoNotContradict` |
| `GateHolds` | MarketSources_proofs | `UnreviewedAreSound` |
| `NoneIsForgotten`, `NeedyBeforeReady` | MarketSources_proofs | `NoDeadEnds`, `MissingDataFirst` |
| `FallenAreMarked` | Records_proofs | `UndisturbedPostsMark` |
| `NotesAreKept` | Records_proofs | `NotesSurvive` |
| `DailyTypes`, `FailedPublishNothing`, `OneAccount` | Records_proofs | `DailyTypeOK`, `FailedRunPublishesNothing`, `StatusAgreesWithHistory` |
| `TrendsAreReal`, `TroubleIsNamed` | Records_proofs | `TrendsAreEarned`, `TroubleHasAName` |
| `OneSyncIsEnough`, `NoSecondIssue` | Records_proofs | `ReportedMeansInSync`; `NeverTwice`, given `OneSyncInAPage` |
| `BriefTypes`, `OneBoard`, `FollowedIsTrue` | Records_proofs | `BriefTypeOK`, `ViewsAgree`, `DiffsCompose` |

All rest on the named assumptions on the constants (`ConstantsOK`, `WorkerConstantsOK`, ...), which
TLC evaluates in the runs, and some on a hypothesis their statement names, because without it
the property is false:

- `OneRanking(best)`: every discovery answers with the beginning of one ranking of distinct wallets
  (otherwise: `analysis_ranked`).
- One runner, for `EnoughAreAnalyzed`: of two that overlap on three wallets or more, one writes its count of
  wallets with enough history beside the cursor of the other.
- `OneSyncInAPage`: one sync at a time, and the marked issues fit in the page the plan reads (250 in the code). Two
  syncs, or an issue beyond the page, create an id a second time.
- `UniqueTitles`, which is part of `OneMarketBehindARow`: no two markets of one sport, shape and hour share their
  whole title. The fallback of the backfill goes by the title.

There is one step per action, and lemmas for what several actions share. The provers have no rule
for induction over data; where a proof needs it, on the length of a sequence, it comes from the least
element of a set of numbers (`NatMin`, `Numbers`, `EveryNumber`), and a recursive function is given by
an explicit one that satisfies its equation (`StepsExist`, `ReaderKnows`).

**Engine.** What is true of the committed tables is not inductive: a commit copies `work` to
`db`, so `work` must be sound in the middle of an operation; a settlement writes a final
status on the rows in its queue, so these must not have been finished since they were queued
(`QueueUnfinished`); and a new operation starts from `work`, so it must equal `db` at rest
(`AtRest`). `TradeSound`, `OrderSound`, `OpenedSound`, `PositionSound`, `ClosedSound`,
`SettledSound` and `WithoutWalletSound` say what each write does to a sound copy of the tables.
`History` adds what an operation remembers: the wallets it has loaded are, but for those in
`gone`, the same followings as now (`Owned` then carries over to what it writes).
`Reconciling` says of a reconciliation under way that each position that was open is as it was and still in the
queue, or excused (no such sale, one without a price, not in the batch), or closed by such a sale; it rests
on a set of dated sales having an earliest one (`EarliestTrade`) and on a batch that leaves a
position out being full of older ones (`LeftForLater`). The refinement adds `Grew(db, work)`:
an operation only adds trades, opens positions only for trades that were not committed, keeps
every position's source, and undoes no ending. `Grew` is transitive (`GrewOn`), a deletion
cascades to both sides alike (`WithoutWalletGrew`), and a commit of what grew is the ledger's
`Record` (`CommitRecords`); deleting a wallet is its `Unfollow`, and the rest stutters.

**Sessions.** `SessionsInv` says of each session what its commit is going to add: the keys it has inserted are
neither stored nor inserted by another (`KeysApart`, by the unique key), no two hold the same row
(`RowsApart`, by the row locks), the positions it has opened are one for each purchase it has inserted
(`WritesSound`), and what it loaded, however old, still names the right trade (`MemorySound`).

**Threads and workers.** For the watcher the type invariant is all that `RunningMeansWork`
needs: only a thread that enters a run raises the flag, and a thread that leaves one lowers it,
whoever raised it. A worker that is up holds the lock or has lost it (`LockInv`). For the row, `RowInv`
adds that a sleeper's age and the rest of its pause together stay within the threshold
(`TimeLeft`); each tick takes from one what it gives to the other.

**Analysis jobs.** `Sound(best)` says of the committed row, and of each session's copy with the
candidates it has added itself, that the list is the beginning of `best` and that the first wallets
of `best`, up to cursor and count, have their candidates. Since both are about one
ranking, any mixture of an old column with a new one is still sound: that is why
overlapping runners, expired locks and whole columns written back cannot make the cursor skip.
With one runner no column is old: what it has not written is as in the row (`Steady`).

**Markets.** `CatalogInv` keeps each row to the values of the remote market it was created for; what
needs thought is the backfill, a fold of updates over the items of an event, where each item
must find only its own row. `ScoreInv` says that an opportunity was scored beside odds of the last day; the caps
of context and line movement are smaller than the edge an opportunity needs. That the two evaluations agree
is the partition of the latest decided predictions by family and by bucket. For the win rate, `SettlerSound` says of
every loaded row that the stored one differs only by a fair settlement, so any mixture of columns is fair.
`ForecastInv` follows a dry run and the apply run after it stage by stage (`AsForeseen`), where a cut of a larger
set finds no less (`MoreWithinLimit`). For links, `MatchConfidence` is bounded in each case of a
contradiction by its cap; rows and titles only get more, so a matcher's old list still names the right ones
(`LinkInv`). `QueuePoints` has a lower bound where a refresh is needed and an upper one where it
is not; the marks of the user are the difference.

**Records.** `RegistryInv`: in every row a poster is about to write mark and numbers are in step; committed over the
row it had read, the stored row becomes that row. `NotesInv`: a pending
edit whose notes differ from what it read carries notes that were asked for (`Careful`), so that the columns it
writes hold either those or none. `Published`: while a run is not recorded, an output on
disk is its work only if all three stages have passed. `Told`: a file of the run says what the run's recorded
step says. The summaries of the history need no more than types: a window with a run that is
not ok has a component that is not (`WorstIs`). `Aligned` says of a sync nobody disturbed that each entry of
the catalogue is in step or has a pending operation that brings it there; `CreatesNew` that an issue about to be created
is not there. `Chain` says that a diff names two snapshots on disk and their differences, which stay true because a
snapshot is written once: run ids are distinct, and a command that has not built its snapshot has no file yet.
From it, by induction over the diffs, follows what their reader knows.

**Model-checked only.** Liveness under fairness (`TradesDetected`, `ResolvedPositionsFinish`,
`SessionsEnd`, `RunsGoOn`, `PauseStopsLoops`, `CyclesRotate`, `RunsEnd`) is out of the prover's reach.

## Not modelled

- **Real executor**: a stub that always refuses, and the engine never reaches it.
- **Dashboard**: HTML written from the briefing and the status; nothing reads it back (that it
  is written or not is a step of DailyRun).
- **Wallet intelligence**: statistics over one response, without state.
- **API clients**: pure I/O; the modules let them answer, fail, lag and contradict each other.
- **Web client logic and pages**: the browser's own job records and views.
- **Migrations and one-off scripts**, legacy reconciliation of evidence: run once, by hand.
- Inside modelled components: sizes and PnL arithmetic (no state change depends on them),
  copy events and status reads, the scores of a wallet, texts of titles, prompts, reasons
  and articles (members of small sets stand for what the code finds in them), views of
  the status by group, the counts of the health page, and column widths (`status` is `String(16)`, shorter than
  `waiting_resolution`, which PostgreSQL would refuse).
- `markets`, `records` and `routines` do not combine their parts' interleavings: the parts share no state.
  Two overlapping runs of the daily script are left out: the scheduler starts one a day.

## What is left

1. An abstract specification of an analysis job (its wallets are done in the order of its
   list, none skipped) and the refinement where `OneRanking` holds.
2. Two runs of the daily script that overlap, started by hand beside the scheduled one.
3. Sizes, rounding and PnL of demo positions as functions, checked against a reference.
