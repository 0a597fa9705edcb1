# RU Liquidity Sentinel: a TLA+ development

RU Liquidity Sentinel computes a liquidity stress index (LSI) from Russian bank and
budget data. This directory holds TLA+ models of its concurrent and failure-prone parts and
of the calculations that lead from the raw files to the index, TLC configurations that check
them on small instances, and TLAPS proofs of what matters most for every instance. Paths below are relative to `src/` of the repository.

## 1. The system

```
 browser ── HTTP ──> api-gateway (Go) ── gRPC ──> ml-services (Python)
                      │        │                    │        │
                      │        └──── PostgreSQL <───┘        ├─ CSV files, model artifacts
                      └── Redis (cache, lock)                └─ parsers of CBR, Minfin, ...
```

| Component | State it keeps | Operations | Hard behaviour |
|---|---|---|---|
| Recalculation orchestration: `backend/internal/service/lsi_service.go`, `repository/postgres/job_repository.go`, `cache/redis/lock.go` | `LSIService.running` per process, the Redis lock key, `recalculation_jobs` rows, cached job status, `lsi_values` | `POST /api/recalculate`, the cron run | two locks, remote calls whose answers are lost, ended contexts, TTL expiry, crashes, a gRPC handler that outlives its call |
| Redis read cache: `cache/redis/cache.go`, `service/dashboard_service.go`, `service/modules_service.go` | keys `dashboard:*`, `lsi:*`, `modules:*`, `backtest:*` with TTLs | read-through fills, invalidation by a recalculation | fills that are late, invalidations that stop half-way, copies of a cached row in another entry |
| Scheduler and process life: `scheduler/*.go`, `cmd/api-gateway/main.go` | cron runner, `WaitGroup`, open connections | start, firing, startup run, signal, shutdown | goroutines that are not counted yet, two deadlines, a wait without one |
| ML gRPC service: `ml-services/grpc_server/server.py`, `pipeline/latest_recalculation.py` | PostgreSQL rows, dashboard CSV files | `RecalculateLSI`, `GetCurrentLSI`, `GetLSIHistory`, backtest, comment, chat | thread pool without mutual exclusion, read-modify-write of files, warnings instead of errors |
| LSI history: `ml-services/pipeline/lsi_history.py`, `history_bootstrap.py` | `lsi_values`, `lsi_dashboard.csv` | backfill at start and in every recalculation | rewrites rows other components have written |
| Source ingestion: `ml-services/ingestion/`, `common/database.py` | `data_sources` rows, raw CSV files | latest and historical runs of nine parsers | one shared connection and transaction for all sources |
| Raw source files: parsers of RUONIA, reserves and tax events under `ingestion/`, `modules/m1_reserves/build_dataset.py` | `data/raw/**`, files named after a range of dates | save after a fetch, read the last name | names that hide newer files, files cut off by a crash |
| EKS deposits: `ingestion/roskazna/eks_deposits_parser.py` | XML cache, `manifest.json`, one CSV | page, cache, archive, publication | two sources summed by day under three dates, copies named by the last part of a URL, torn copies, failed links, failed or empty chunks |
| Daily signal notebooks: `ml-services/notebooks/m*-00*.py` | feature and signal tables | raw rows to daily panels, robust scores, flags | look-ahead, values carried too far, missing values in thresholds |
| Formula and wide dataset: `ml-services/lsi_engine/formula.py`, `pipeline/build_wide_dataset.py` | none | decay, season, weighted sum, attributions | boundaries, missing tables, contributions of both signs |
| Model artifacts: `ml-services/lsi_engine/iso_model.py` | six files and an in-process cache | train, load, score | files written one by one, cached readers |
| Backtest and chat: `service/backtest.go`, `service/analyst_service.go` | `backtest_episodes`, chat tables | find-or-compute, chat round | check-then-insert, writes without a transaction |
| HTTP handlers, mappers, frontend, LLM client, retrieval index | none the properties are about | conversion, display | - |

How they interact. The orchestration calls the ML service over gRPC; both write
`lsi_values`. The cache is filled by requests and emptied by the orchestration; the ML
service writes PostgreSQL behind it. The scheduler calls the orchestration on goroutines
of its own; `main` closes the connections all of them use.

What makes each component correct:

- orchestration: at most one run per process, at most one holder of the key that has not
  outlived it, a release that hits only its own key, job rows that only move forward, link a
  stored value, and stay open only where PostgreSQL failed, a context ended or the answer had
  no dated result;
- cache: after an invalidation no older data, unless somebody was at work meanwhile; no
  dashboard with parts older than its LSI; staleness that ends;
- process life: nothing closed under a user of it, a signal that always ends the process;
- ingestion: one source's failure leaves the others alone; what a run reports as done is
  stored;
- persistence in the ML service: no calculation undoes another's rows;
- raw files: what a run has brought in is not hidden by files of older runs;
- EKS deposits: an auction counted twice only by the site's names and labels, every hole with
  its reason in the run;
- signals: a day's signal does not depend on later days, nothing is carried beyond its
  limit, every flag has a cause in the data;
- wide dataset: a score fades for a bounded time and never grows while it does;
- formula: attributions follow the stress, a day the history shows keeps its index;
- artifacts: a process serves with the files of one training;
- backtest: what one request has been told and stored is what later ones are told.

`PROJECT.json` lists under "hazards" where each of these can go wrong.

## 2. Modules

| Module | What it is |
|---|---|
| `Recalculation` | the orchestration, detailed |
| `LeasedLock` | what a lock with a lease promises: the abstract specification |
| `RecalculationProofs` | theorems about both |
| `CacheCoherence`, `CacheProofs` | the read cache against PostgreSQL |
| `Shutdown`, `ShutdownProofs` | one api-gateway process from start to exit |
| `Ingestion`, `IngestionProofs` | one parser run over all sources and its shared connection |
| `Persistence`, `PersistenceProofs` | two ML handlers, the rows and the CSV files they write |
| `RobustScores` | median, MAD, forward fill over columns with missing values |
| `ReservesSignals`, `RepoSignals`, `OfzSignals`, `TreasurySignals` | the tables of M1, M2, M3, M5 as operators on raw days |
| `DailyTables` | the four of them as raw days arrive and notebooks run |
| `WideDataset` | the daily datasets: merge, decay, season |
| `LsiFormula` | formula, model, contributions, attributions, history |
| `ModelArtifacts` | the files of the isolation forest and who loads them |
| `RawFiles` | the raw files of one source, from the page to the table |
| `EksDeposits` | the deposits parser with its cache and archive |
| `Backtest` | find-or-compute of an episode |
| `PartsProofs` | theorems about `RawFiles`, `EksDeposits`, `LsiFormula`, `ModelArtifacts`, `Backtest` |
| `TablesProofs` | theorems about the tables as raw days arrive: types, look-ahead, stale values |
| `CausesProofs` | sums, medians, scores, flags, decay and season; the composition of all parts |
| `MC*` | instances for TLC; `MCDataPlane` composes the last six components |

The state variables, actions and helpers are paired with source lines in `PROJECT.json`
("map"). Each module has a section of *slips*: an action with one plausible mistake,
used by no behaviour, that shows what each property refuses.

### Recalculation

`pc[r]` is the next call of request `r` in `LSIService.Recalculate`; one action is one
remote call together with what the code does with its outcome. A call made with the
request's context (`CtxOutcome`) fails once that context is done; one made with
`jobStatusContext` (`context.WithoutCancel`) does not notice. Each remote call is
applied and answered, applied with its answer lost, or not applied.

- `running` is the atomic flag of each process, `lock` the value under the Redis key, a
  request standing for the random token it draws.
- `job`, `link`, `jobCache` are the job row, its `result_lsi_value_id` and the status
  cached in Redis. `rows` are the dates that have a row in `lsi_values`.
- `ml[r]` is the server-side handler, which runs on after `CallFails`.
- `Kill` is the end of a process, by a crash or by a panic on a cron goroutine.
- `JobCtxEnds` is the end of `jobCtx`, the five seconds that the INSERT, the `SetJobStatus`
  after it (with the request's own context) and the two UPDATEs to 'running' and 'failed'
  share: a Redis that hangs may use them up while PostgreSQL and the request are healthy.
  `JobOutcome` then has no call of that context succeed. The failure paths after the gRPC
  call make a `jobCtx` of their own.
- `ReceiveNothing` are the two returns before the save, for an answer without a result or
  without a date that parses: the caller is told all is well and the row stays running.
- History: `overrun` (requests still inside after losing the key), `excused` (requests that
  PostgreSQL failed or whose context ended), `late` (the first `jobCtx` ended before the row
  was running), `undated` (answered without a dated result).

The invalidation and the latest-LSI fill between `GetLatestLSI` and `MarkJobSuccess`
touch only the cache: they are in `CacheCoherence`. `markUpdatedSources` writes
`data_sources`, which no property of this module reads.

### LeasedLock

The key has a holder or not; a client that uses it either still holds it or is *stale*,
because the lease ran out under it. `Recalculation` implements it with
`holder <- lock`, `using <- Users`, `stale <- overrun` (`ImplementsLease`), and
`Exclusive` is the abstract module's `OneFreshUser`.

### CacheCoherence

A *version* is the number of the calculation a row was last written from; version 0 is no
row. Readers are dashboard, history and signal requests, `Run` a recalculation from the
gRPC call to its last fill, `MLAlone` a calculation for which nobody waits. Abstractions:

- all calculations are of the latest date, the only one whose rows the dashboard shows;
- `series` stands for the history and signal keys, which are filled from one SELECT;
- `ReadContributions` is the pair of SELECTs on contributions and SHAP values, which one
  persist transaction writes and nothing else does;
- a cache hit that answers at once changes nothing and has no action;
- the forecast call after the dashboard's own reads may make the ML service calculate:
  that is `MLAlone`.

`behind` holds the requests that may carry data from before a change, `excused` the keys
whose entry may therefore be out of date; `FreshAfterInvalidation` speaks of the others.

### Shutdown

`main` walks through `main.go`: serve, shut the HTTP server down, stop the scheduler, close
Redis, PostgreSQL and gRPC. A job is spawned by cron (or `Start`) and counts itself with
`wg.Add(1)` in a later step, as `Scheduler.run` does. `late` is the ten-second
`shutdownCtx`.

### Ingestion

`pc[h]` is the step of one parser run (`BaseParser.run_latest_mode`, or
`run_historical_mode`, which has the same loop) at source `next[h]`. All parsers share one
`Database`, and so one psycopg connection and one transaction:

- `conn[h]` is `none` (the run found no database and goes on without it), `open`,
  `aborted` (an SQL error; every further statement fails), `broken` (the server has closed
  it and psycopg does not know yet) or `closed` (known; the next statement connects again);
- `locks[h]` are the `data_sources` rows the transaction has upserted. Another run that
  registers the same source waits for its end.
- `Except` is the `except` block, whose own UPDATE may raise: `Escape` is the exception
  that leaves the loop and ends the run of all sources.
- `own[h]` and `faulted` are history: what each parser did, and the runs one of whose
  statements failed.

Nothing in the run commits, and `close()` rolls back: no status ever reaches the table, so
an UPDATE finds only rows of its own transaction.

### Persistence

A handler of the ML service runs `run_latest_recalculation`: history backfill, parsers,
CSV output, persist. `todo[h]` are the statements its open transaction has still to make,
`wrote[h]` the rows it holds locked until `Commit` or `Rollback`. Rows, flags and CSV lines
carry who wrote them and from which part of the call (`history` or `own`); SHAP values are
always written with the contributions and share their table. One row per table and date
stands for the rows of all modules: every writer takes them in the same order.

`Answer` is the backend's own upsert of the LSI value. `crowded` and `excused` are history:
handlers that were at work beside another, and dates on which the file and the rows may
differ because of that or of a failed transaction.

`CacheCoherence` takes a calculation (`Calculate`) as one step on contributions and flags;
`DetailsOfOneWriter` is the ground for that.

### RobustScores and the signal modules

A raw file is a sequence of days, a day a sequence of rows. A cell is a `Number`: what it
parses to (`parse_numeric`, `to_numeric(errors="coerce")`), a missing one `NaN`. Numbers are
fixed-point integers (`Unit` to one) with the floors and thresholds of the code. Each module
is the chain of functions of its two notebooks, cleaned rows to feature panel to signals:

- `ReservesSignals` (M1) is one table over the calendar; its rolling window ends on the day
  itself, and the fallback is all rows so far;
- `RepoSignals` (M2): `CleanEvent`, `AggregateDailyGroup`, neutral days between auctions,
  then `HistoricalMadScore` over auction days alone. The spread is derived from cut-off and
  key rate only if the file has no spread at all;
- `OfzSignals` (M3): `AggDay`, what the last auction left behind (`LastKnown`), the
  explainable stress score with its weights of 45, 30, 15 and 10, the states of the dashboard;
- `TreasurySignals` (M5): levels that hold until the next observation, placements that add
  up, deltas by rows, the drain and the placement gap.

Left out: which page a row was parsed from, columns nothing reads, plots, diagnostics.

### DailyTables

`raw` grows day by day (`NewDay`); `RunFeatures` and `RunSignals` are the two notebooks of a
module and read whatever file the other left: signals may be older than features, and the
features older than the raw file. This is what makes look-ahead visible: the same day is
scored again with more days behind it, and `NoLookahead` compares. `NumberColumn` are the
columns each notebook converts to numbers; `TablesAssumption` asks of the rows of a raw file
(`RawDay`) that those cells are `Number`s, which the conversion sees to, and nothing else.

### WideDataset

`build_wide_dataset` keeps no state, so its operators read the tables of `DailyTables` in
every state. `ApplyDecay` measures the age of an event from the second row of the calendar,
as the code does; `Power` is the `**` of its decay, and `DaySeason` the seasonal factor by type
of day, over all the calendar.

### LsiFormula

`snapshot` is the day's features, `result` what `calculate_lsi_from_snapshot` and the
explainer return. Weights are integers, so that a contribution is exact. The model is a
parameter (`Predict`, `PredictWide`), its memory of the day (`history_lsi`) a variable:
`CalculateHistory` writes it, and from then on `Index` prefers it to the prediction. The
sigmoid at the end of the formula is increasing, so the stress stands for the index and the
signs of attributions are those of the code.

### ModelArtifacts

`train_and_persist` reads the dataset and writes the files one by one, each truncated and
then filled. `UpToDate` compares time stamps with the dataset's; `LoadArtifacts` is the first
question of a process, whose answer it keeps. A failed training is swallowed
(`TrainingFails`), a crash is possible between any two steps, a new dataset at any time.
`trained` and `overtaken` are history.

### RawFiles

One source: its page, the files, and jobs that fetch, save and build. A latest run names its
file after the range it asked for or the newest day, a historical one after the whole range;
`LatestFile` is `_latest_file`, the last name. RUONIA is written atomically, reserves and tax
events in place (`OpenFileToSave`, `WriteRows`). `EndJob` at any step is an exception or the
end of the process. `HistoryFrom` is before every range of the latest mode, as the default of
`RLS_BOOTSTRAP_HISTORY_FROM` is.

### EksDeposits

A run takes the links of the page (or, in cache-only mode, of the manifest) one by one: copy,
download or failure (`TakeLink`, `FillSource`), then the manifest (`OpenManifest`,
`FillManifest`), then the archive of the days before the first label in chunks (`FetchChunk`,
`FetchEmptyChunk`, `ChunkFails`), then the CSV (`Publish`). The page drops old days while
runs go on.

The site is a parameter. A link is a pair of a label's day and a URL (`Link`), as in
`discover_xml_links`, so that one URL may be linked under two labels; the manifest has one
entry for each URL. A copy has a name (`NameOf`), the last part of the URL's path: two URLs may
share one, and the second then gets the content of the first. A record of a file is summed on
the auction's own day if it names it (`Dated`, `aucdate`), or else on the label's (`RecordDay`);
the archive starts before the first label and has each auction on its own day. A file is one
auction. `times` and `filed` say how often a run has counted it and on which days. That an
export with content has every auction of its days is assumed of the site.

### Backtest

Requests for one episode and range: Redis, table, ML service, INSERT, Redis (`AskCache` to
`SetCache`), side by side, with failures at each call and an INSERT whose answer is lost.
`Lookup` takes any of the rows, as `LIMIT 1` without an order does. `NewHistory` is a
recalculation. `first` is history: who was computing when the first row was stored.

## 3. Runs

| Run | Instance | Shows |
|---|---|---|
| `recalculation` | 2 requests (1 from cron), 2 replicas with Redis, 1 process without, 2 dates, 1 crash | types, both locks, refinement of `LeasedLock`, job rows, linked rows, cached job status |
| `recalculation_live` | 2 requests, 1 replica with Redis, 1 process without, 1 crash | the system always comes back to accepting recalculations |
| `redis_off` | 1 process without Redis | **violated**: `NoPanic` (finding 1) |
| `parallel_ml` | 2 replicas, no crash | **violated**: `OneHandlerAtWork` (finding 2) |
| `cache` | 2 readers, 1 recalculation, 2 calculations | freshness after an invalidation, no dashboard with older parts |
| `cache_live` | 1 reader, 1 recalculation, 2 calculations | staleness ends |
| `shutdown` | 2 cron firings, startup run, 2 requests | nothing closed under its users, the process ends |
| `stop_bounded` | the same | **violated**: `StopBounded` (finding 3) |
| `ingestion` | 2 runs, 3 sources, 2 faults | isolation of sources, no circle of waits, every run ends |
| `one_source_fails` | 1 run, 2 sources, 1 fault | **violated**: `EverySourceRuns` (finding 4) |
| `persistence` | 2 handlers again and again, 2 dates and one beyond, 1 fault | rows of one calculation only, file agrees with rows, deadlocks only between unlike transactions, every call ends |
| `data_plane` | six parts, each alone in its behaviours | the hazards from raw file to index and backtest, see below |

`data_plane` runs the parts `files`, `tables` (with `WideDataset`), `formula`, `artifacts`,
`eks` and `backtest`. They share no variables and call each other only through files that are
inputs of the next, so a behaviour chooses one part and leaves the others in an initial
state: the states are the sum of the parts', not their product, and no interleaving that
exists is lost. Its properties:

| Property | Says |
|---|---|
| `LatestIsRead` | a table reaches at least the newest day ever saved by the latest mode, unless the file was cut off |
| `NoLookahead` | a day's signals are the same after later days have arrived and all was built again |
| `CarriedIsRecent` | no value of an auction survives on a row that is marked stale |
| `FlagsHaveCause` | each flag of M2, M3, M5 and each season above one has its witness in the raw data |
| `DecayFades` | a faded score stems from a score of at most `DecayDays` rows before and is no larger |
| `ShapFollowsStress` | the formula names a feature as raising the index only if it shows stress |
| `HistoryStands` | a calculation gives what the history shows of the day |
| `ArtifactsOfOneTraining` | no mixed set of files is served, unless a dataset came during a training |
| `CountedOnce` | an auction is counted twice only if two links of the run name its copy, or if a link names it and all labels of the run are later than the auction |
| `HolesAreExplained` | an auction missing on its day has its reason in that run: its link without content or with the copy of another URL, the archive broken by then, an empty chunk, a page that reaches the day without a link of it |
| `AnswersStand` | cached and outgoing answers are in the table; after the first row nobody starts to compute |

`HealthyRunClosesJob`, of the `recalculation` run, names all the ways in which an orchestration
that came to its end leaves its job row open: PostgreSQL or the request's context failed it,
`jobCtx` ran out (`late`), or the answer had no dated result (`undated`, a running row only).

Two properties of the table say less than one might want. `DecayFades` bounds how long and how
strongly a score fades, not from which row it stems: that the age counts from the second row
does not violate it. `ShapFollowsStress` is about signs; shares of 100 percent and the range of
the index after the sigmoid are not modelled.

Every property of a passing run is paired in `PROJECT.json` ("mutants") with a slip under
which TLC finds it violated, with the same configuration.

### Bounds and why they are enough

- Requests, replicas, readers, handlers: two of each. The properties relate at most two
  actors, and each mistake we could think of (see the slips) shows with two. For everything
  but liveness the theorems of section 5 remove the bound.
- Dates: two, so that the latest row need not be a request's own; in `Persistence` a third
  that the dataset lacks, which a request may name.
- `MaxVersion`: two calculations, the least that can be mixed or overtaken; the second one
  may be written by either side.
- `MaxCrashes`: one. A crash frees the flag of its process and leaves the key; what a second
  one would add is what the first does at another step.
- `MaxFaults`: in `Ingestion` two, so that a fault can hit a run that is recovering from one;
  in `Persistence` one besides any number of deadlocks.
- Sources: three, so that a source lies behind, at and ahead of a run. Cron firings: two.
- Symmetry is used in the runs without liveness only.
- Raw files: three days and three jobs, so that a bootstrap can come between two latest runs
  and a torn file can be rewritten; a window of one day.
- Tables: four days with any of four or five kinds of day each; windows, minima and limits
  shrunk to one to three rows so that every branch (too short, rolling, all of the past,
  stale, expired) is reached within them. The kinds of day include missing cells, rows that
  repeat a date, an over- and an undersubscribed auction, a drained account.
- Formula: three scores (relief beyond the cap, nothing, stress) and three changes, of any
  features. Artifacts: three files, four datasets. EKS: three auctions, three days, chunks of one day; one auction is
  linked under two labels, two share a copy's name, one does not name its day and has a late
  label, so that each cause `CountedOnce` and `HolesAreExplained` name occurs by itself. Backtest: two requests, four in sequence, three histories.

`CHECK_DEADLOCK FALSE`: requests, parser runs and processes end, and a model in which all
have ended has no step. `Persistence` need not stop, but owes no caller a new request. In
`data_plane` the bounds on days, jobs and requests end a behaviour.

### Fairness

- `Recalculation`: weak fairness of each request's `Step` and of `LockExpires`. Each remote
  call runs under a context with a timeout or a client with one, so that it ends with one
  of its outcomes; the key has a TTL. A crash ends the step's obligation. Nothing is assumed
  of clients, of new requests or of the ML handler.
- `CacheCoherence`: requests and runs go on for the same reason; every key is set with a
  TTL (`cache.go:144-153`), hence `Expire` is fair for each key.
- `Shutdown`: `main` and the goroutines go on, the ten seconds pass, and a run ends by
  `SCHEDULER_TIMEOUT_SECONDS`. HTTP requests owe nothing: `server.Shutdown` gives up at the
  deadline.
- `Ingestion`: weak fairness of each run; a fetch ends by the timeouts of its HTTP client, a
  statement that waits for a row goes on once the row is free. PostgreSQL need not come back.
- `Persistence`: strong fairness of each handler, as a row it waits for may be taken again
  and again by others; PostgreSQL queues those who wait for a row lock and detects deadlocks
  (`deadlock_timeout`), so nobody waits for ever.
- `data_plane` assumes none and claims nothing that must eventually happen: nothing in the
  data plane waits for another part, and every failure of it ends in a warning.

## 4. Findings

1. **A process without Redis panics in every recalculation** (`redis_off`). `README.md:42`
   and `backend/README.md:20` say that the backend goes on without Redis. `redis.New` returns
   a nil `*Cache`, and `SetJobStatus` reads `c.cfg.JobTTL` (`cache.go:94`) before `setJSON`
   can ask `Enabled()`. The job row stays pending; on a cron goroutine the process dies.
2. **The lock does not cover the calculation** (`parallel_ml`). `docs/c4/workspace.dsl:61`
   says it prevents parallel recalculation. When the gRPC deadline ends the call, the lock is
   released and the ML handler works on; the next recalculation starts a second one.
3. **Stopping the scheduler is not bounded** (`stop_bounded`). `main.go:104-107` would log a
   stop timeout after ten seconds; `Scheduler.Stop` waits for the running jobs before it
   returns, up to 300 s by default.
4. **One source's database error ends the run of all** (`one_source_fails`).
   `ml-services/README.md:11` says that an error of one source must not stop the pipeline.
   After an SQL error the shared transaction is aborted, the UPDATE in the `except` block
   raises as well, and the results of earlier sources are lost with the exception.

Also seen while modelling, without a line of the repository that says otherwise:

- The statuses of the sources are never committed; a backfill and a persist of two handlers
  can deadlock, and the one PostgreSQL ends is lost with a warning; the row of a date beyond
  the dataset leaves the CSV file with the next backfill; a backfill clears comments.
- *Recalculation.* A Redis that hangs through the first `SetJobStatus` uses up the job context
  that both UPDATEs need: the request fails and its row stays pending although PostgreSQL is
  well (`lsi_service.go:104-121`). An answer without a dated result is passed on as a success
  and its row stays running (`lsi_service.go:144-151`).
- *Raw files.* The last name replaces the others: after a latest run M1 is scored on the days
  that run fetched, not on the history, and later bootstraps are not read. A historical range
  that starts after a latest one would hide it. Reserves, treasury and tax files are written
  in place, and one that was cut off before its header makes the build fail.
- *Signals.* M3's score of the yield spread appears in old rows once the file is long enough
  (`Settled` leaves it out); M2's spread follows another rule as soon as one row has a value;
  the seasonal factor is averaged over all days, past and future. `mad_normalizer` turns
  "365D" into 30 rows. In M2 the daily dataset takes `Flag_Demand` from the feature table, where
  any event sets it, not from the signals.
- *Wide dataset.* A table that is missing fails the build of all modules, so the status
  "missing" of M2 and M5 is not reached. The decay counts from the second calendar row.
- *Formula.* Scores of M5 are positive under stress (m5-002), the formula counts negative ones
  (`formula.py:89-94`); M3 alone may make the base stress negative; with a model the index is
  the model's and the contributions are the formula's.
- *Artifacts.* After the history has been predicted, every day is remembered: an index no
  longer follows its features, and the attributions are empty. A dataset replaced during a
  training and a crash can leave a mixed set that counts as up to date.
- *EKS.* A cached XML file or a manifest that was cut off ends every later run; an archive
  that breaks leaves old days out of a file whose run is reported as a success, and an export
  without content leaves out up to `OPERATION_DAY_CHUNK_DAYS` days that way. Files whose URLs
  end alike share a copy, and one auction is counted twice and the other not at all. A file
  linked under two labels is counted twice, and so is an auction that is older than the first
  label, for the archive has it as well.
- *Backtest.* Rows are never renewed and have no unique key: an answer of an empty history
  stays. The gateway accepts ranges that the ML service takes differently
  (`backtest.go:119`, `server.py:182`).
- *Chat.* The user's message is stored before the answer is asked for.

## 5. Proofs

Every invariant, action property and refinement a passing run checks is a theorem here. All
theorems hold for every value of the constants that the modules' assumptions allow
(`RecalculationAssumption`, `CacheAssumption`, `TablesAssumption`, ...): any number of requests,
replicas, dates, sources, runs, faults, files, versions, and in the tables any raw rows, windows,
minimum lengths and calendars. The one further assumption stands in the theorems that need it:
`FormulaTypes` and `PartsTypes` take the forest's score of a day to be a number, as scikit-learn
returns one.

A theorem of the data plane is first proved of a part's own specification (`RawSpec`,
`TableSpec`, `FormulaSpec`, `ArtifactsSpec`, `EksSpec`, `BacktestSpec`). `PartsRun` shows that
each behaviour of the `data_plane` run is a behaviour of every one of them, so `PartsTypes` and
`PartsSafety` state the run's own properties of the run's own specification.

| Theorem | States |
|---|---|
| `RecalculationProofs!TypeCorrect` | `Spec => []TypeOK` |
| `LocalExclusion` | `Spec => []OneRunPerProcess` |
| `LeaseHeldAlways` | `Spec => []LeaseHeld` |
| `ExclusiveAlways` | `Spec => []Exclusive` |
| `Refinement` | `Spec => ImplementsLease` |
| `LeaseExcludes` | `ImplementsLease => []Exclusive` |
| `JobsOnlyMoveForward` | `Spec => JobForward` |
| `OwnLockOnly` | `Spec => OnlyOwnLockReleased` |
| `CacheNeverAhead` | `Spec => []CacheNotAhead` |
| `LinkedRowStandsAlways` | `Spec => []LinkedRowStands` |
| `HealthyRunCloses` | `Spec => []HealthyRunClosesJob` |
| `ShutdownProofs!ShutdownTypes`, `WorkEndsFirst`, `RunsEndFirst` | `TypeOK`, `ClosedAfterWork`, `CountedRunsEnd` |
| `PersistenceProofs!PersistenceTypes`, `OneWriterAlways` | `TypeOK`, `DetailsOfOneWriter` |
| `NoCircleOfOneKind`, `FileAgreesAlways` | `SameKindNeverCircles`, `FileAgreesWithRows` |
| `IngestionProofs!IngestionTypes`, `NoDeadlock`, `Isolation` | `TypeOK`, `NoWaitCycle`, `SourceIsolation` |
| `CacheProofs!CacheTypeCorrect` | `TypeOK` |
| `CacheFreshAfterInvalidation`, `CacheDetailsNotOlder` | `FreshAfterInvalidation`, `DetailsNotOlder` |
| `PartsProofs!RawTypeCorrect`, `NewestRowsAreRead` | `RawTypeOK`, `LatestIsRead` |
| `EksTypes`, `CountedOnceAlways`, `HolesExplainedAlways` | `EksTypeOK`, `CountedOnce`, `HolesAreExplained` |
| `RegularSiteCountsOnce` | names differ and labels are the auctions' days: no auction counted twice |
| `FormulaTypes`, `ExplanationsFollow`, `HistoryStandsAlways` | `FormulaTypeOK`, `ShapFollowsStress`, `HistoryStands` |
| `ArtifactsTypes`, `OneTrainingServes` | `ArtifactsTypeOK`, `ArtifactsOfOneTraining` |
| `BacktestTypes`, `AnswersStandAlways` | `BacktestTypeOK`, `AnswersStand` |
| `TablesProofs!TableTypes` | `TableTypeOK` |
| `NoLookaheadAlways`, `CarriedIsRecentAlways` | `NoLookahead`, `CarriedIsRecent` |
| `CausesProofs!FlagsHaveCauseAlways`, `DecayFadesAlways` | `FlagsHaveCause`, `DecayFades` |
| `PartsRun` | a behaviour of all parts is one of each part |
| `PartsTypes`, `PartsSafety` | the types and properties of the parts, for the run of all of them |

The arguments:

- *Recalculation.* Most steps move one request between two places inside the flag and inside
  or outside the lease and touch neither lock: `StepKinds` shows that once for all actions,
  and the rest of the proofs look at the six that do more. `OneRunPerProcess` speaks of sets
  of requests and is not inductive by itself; `FlagInv` says the same pointwise (a request is
  assigned to a process exactly while flagged, and each flagged process serves one).
  `LeaseHeld` needs that only lease holders are in `overrun` (`LeaseInv`), otherwise an entry
  left behind would excuse the next holder. `Refinement` maps each step to one of
  `LeasedLock` or a stutter, and `Exclusive` follows from `LeaseHeld`: two holders that have
  not outlived the key would both be its value. `LeaseKept` uses the abstract steps only, so
  that `LeaseExcludes` gets `Exclusive` from the refinement alone. `JobForward` needs to know
  which status a row can have at each place of the code (`JobInv`), as lost answers leave two.
  `CacheNotAhead` rests on it: a status is cached only where the row is known to say as much (`CacheWrites`),
  and the row only moves forward. `RowInv` follows the result from the stored value to the
  latest one and to the link (rows are never deleted); `EndInv` says from the deferred release
  on that a row still open is accounted for (`Settled`: pending in `late`, running in `late` or
  `undated`), which `HealthyRunClosesJob` says of the end only; what is noted of a request is
  never forgotten (`Noted`), so that the steps of others keep it.
- *Cache.* `FreshAfterInvalidation` speaks of entries; whether a fill is fresh is decided when
  the request reads, steps before. `ReaderCurrent` and `RunCurrent` follow the value from the
  read to the fill: it is what the database holds, or the request is in `behind`. A change of
  the database excuses every key and puts everyone else at work behind
  (`ChangeKeepsCurrent`); other steps touch one key (`QuietKeepsCurrent`, `FillKeepsFresh`).
  `DetailsNotOlder` rests on the order of the dashboard's SELECTs: contributions read after a
  persisted LSI are of its version or a later one (`HalfRead`), flags of theirs or a later one
  (`InOrder`), and no version is ahead of the calculations that have happened (`Bounded`).
- *Shutdown.* `ClosedAfterWork` speaks of the moment something is closed; what makes it true
  was waited for earlier and must stay true. `WaitedFor` says so for every stage of `main`:
  no firing after `cron.Stop`, no counted run after `wg.Wait`, no request after a shutdown in
  time. `WgCounts` ties the counter to the set of counted runs, with the library's facts
  about the cardinality of finite sets.
- *Ingestion.* Waiting in a circle is excluded because a run holds only rows of sources up to
  the one it is at (`LocksBehind`) and all runs go in the same order. `Isolated` records, for
  a run without a failed statement, what it has reported about each source behind it.
- *Persistence.* `OnPlan`: what a transaction has written is a prefix of its plan and what it
  has still to make is the rest. With `LockedOnce` it gives `SameKindNeverCircles` (`WaitsFor`:
  who waits for another on the same plan is behind it) and `FlagsFound`: the flags a DELETE
  found are still those committed when its transaction commits, because both plans write the
  signals of a date first and so nobody else can replace its flags meanwhile. The plan of the
  backfill is indexed by `4 * (d - 1) + j`; `DetailsTogether`, `SignalsBeforeFlags`, `PlanOnce`
  and `SamePlan` are all that is used of the two. `FileInv`: handlers that overlap are crowded
  and then every date is excused; of a handler alone its place says what it has put in the
  file and which rows it still owes.
- *Backtest.* `AnswersStand` needs to know what a request has in hand before it stores or
  caches it (`InHand`); a request that computes after the first row must have been computing
  when it was stored, for `Lookup` only lets requests pass while there is none.
- *Artifacts.* The property is about memory; what makes it true is on disk and in the dates.
  `DatesTell`: as long as no dataset overtook a training, a file's date is its version, so
  files that are all as new as the dataset are all of it. `Dumped`: the files before the
  position are of the version being fitted. Both give `OneTraining` at the end of a startup,
  and a loaded set stays equal to the files until the next start (`AsOnDisk`).
- *Raw files.* A file of the latest mode starts after every historical one, so the last name is
  a latest one as soon as there is any. `Frontier` is the first day of the range a run would ask
  for now; it never goes back, and no latest file is ahead of it (`RawShape`). Hence a job's file
  becomes the greatest (`JobIsNewest`) and goes to the newest day saved so far or is torn
  (`GreatestIsNewest`). That the newest saved day is still on the page (`SavedOnPage`) is what
  makes the next job's rows at least as new.
- *Tables.* The invariant says where a file comes from, not what is in it: features and signals
  are `FeatureRows` and `SignalRows` of the first days of the raw file, the signals of no more
  of them than the features (`TablesBuilt`, which is `TablesInv` with the types). `NoLookahead`
  then compares tables of two prefixes: `KnownAgrees` to `WindowsAgree` show for each helper
  (history, forward fill, score, days since) that it asks for earlier rows only, the `GoesOn`
  lemmas for each chain that what is built from more days agrees on the days of fewer.
  `CarriedIsRecent` needs of M3's panel that a stale row carries nothing.
- *Causes.* Sums, medians and powers are recursive functions and CHOOSE over finite sets of any
  size; in place of an induction theorem, a least counterexample shows that the sum over subsets
  exists and splits (`SumsExist`, `SumOf`, `SumOfTwo`), that a k-th value exists (`KthIsValue`)
  and that the powers do (`PowersExist`). `MedianBetween` puts a median between the bounds of
  its values; with it scores are numbers however many cells are missing (`ScoreNumbers`), and a
  positive score has an earlier value that was smaller (`PositiveScore`, `PositiveGap`). Each
  flag is then led back through its chain: an average above the demand threshold has an auction
  above it (`AverageHasWitness`), M3's score cannot reach the threshold by its MAD parts alone
  (`StressNeedsWeakness`), a level below that of last week has been updated since
  (`LevelChanged`). `FadesTowardsZero` rests on `0 <= Decay^n <= 100^n`; `SeasonsExplained`
  turns a positive mean over the days of a kind into a positive score on one of them.
- *Composition.* A step of the run is a step of one part and leaves the variables of the others
  alone, so that it is a stutter for them (`PartsRun`).
- *Deposits.* Both properties are about what a run publishes at its end; the invariant follows
  each record into the sums. `Counted`: a record of an auction came from a link whose copy has
  its name (`ReadFor`) or from the archive (`Archived`), and two records from two such links or
  one of each. `Filed`: a link that was read under the day of its auction, from a copy no other
  URL shares, is on that day, and what the archive has passed is there or in an empty chunk.
  `CopiesNamed` says whose content a copy may hold, `ArchiveInOrder` keeps the archive's days
  before every label (the first one, a least element of a finite set), and `PageIsWhole` says
  that a run that has the page has every link of it from the first label on.
  `RegularSiteCountsOnce` adds two assumptions on the site, names that differ and labels that
  are the auctions' days, and then neither cause is left.
- *Formula.* `StressIsSum` writes the base stress as a sum with one part per feature; leaving
  a feature out changes its part alone (`OneSummand`); `PartSign` gives the sign of each part
  from the clips, and multiplying by a positive factor keeps it (`SummandEffect`,
  `SeasonEffect`). So each attribution is explained (`EffectExplained`), for all integers
  and not only for the scores TLC is given. `Remembered` carries `HistoryStands`: the index
  shown is what the model remembers, and a calculation asks the memory first.

Model-checked only: liveness (`ComesToRest`, `EventuallyFresh`, `ShutdownCompletes`,
`EveryRunEnds`, `EveryCallEnds`), as fairness and ENABLED are beyond this prover; and the four
findings, which are counterexamples.

## 6. What is not modelled

- What parsers extract from pages: text and layout. `Ingestion`, `RawFiles` and
  `EksDeposits` have the control around it.
- The isolation forest itself (scikit-learn, numpy): a parameter of `LsiFormula`. Confidence,
  shares in percent, texts of drivers and comments: display.
- The executable notebooks' plots, diagnostics and correlations. They are not run by the
  service (`NOTEBOOK_PIPELINE` is empty); the daily tables are those they left.
- Handlers, mappers, DTOs, the frontend: conversion and display. The LLM, the retrieval index
  and the chat: an external model around two INSERTs that no reader relates.
- A CSV file read while another handler has written it in part, or a handler that dies
  between two of its files (the dashboard file of `Persistence`).
- `markUpdatedSources`, logging, metrics, health checks; the module snapshot of the cache,
  which is filled and invalidated the way the signals are.
- The analyses of `ml-services/modules/*/signals.py` that repeat the notebooks' for texts.

## 7. Plan

Done in this order: the recalculation and its locks (the centre: every other component is
called by it or called around it), the cache it invalidates, the process around it, the
parsers and the transactions below it; then the data plane: raw files, the deposits parser,
the signal tables, the wide dataset, the formula, the model's files, the backtest.

Left to prove: that the transactions of `Persistence` are, for a reader, the one step
`Calculate` of `CacheCoherence`, with the rows a commit makes visible as the mapping.

Left to model: the comment as a column and the torn dashboard file in `Persistence`; the
handlers of `Persistence` as those of real calls of `Recalculation`.
